SPECIFICATION Spec
CONSTANTS
  Documents = {d1}
  NoDocument = NoDocument
  Chunks = {c1, c2}
  Workers = {w1, w2}
  Pollers = {p1}
  MaxOutboxAttempts = 3
  MaxTries = 1
  MaxAttempts = 2
  MaxFaults = 0
SYMMETRY Symmetry
INVARIANT FailureIsReported
