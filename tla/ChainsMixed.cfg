SPECIFICATION Spec
CONSTANTS
  Episodes = {e1, e2, e3}
  NoEpisode = NoEpisode
  Requests = {r1, r2}
  Operations = {"supersede", "confidence", "mcp", "merge", "stale", "delete"}
SYMMETRY Symmetry
CHECK_DEADLOCK FALSE
INVARIANTS
  TypeOK
  NoDangling
  ChainInv
PROPERTY AtomicSupersession
