SPECIFICATION Spec
CONSTANTS
  Episodes = {e1, e2, e3}
  NoEpisode = NoEpisode
  Requests = {r1}
  Operations = {"supersede", "merge"}
SYMMETRY Symmetry
INVARIANT NoCycles
