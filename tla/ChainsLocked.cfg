SPECIFICATION Spec
CONSTANTS
  Episodes = {e1, e2, e3, e4}
  NoEpisode = NoEpisode
  Requests = {r1, r2}
  Operations = {"supersede", "attempt", "stale", "reject", "archive"}
SYMMETRY Symmetry
INVARIANT NoCycles
PROPERTY ImplementsSupersession
