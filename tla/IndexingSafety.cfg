SPECIFICATION Spec
CONSTANTS
  Documents = {d1}
  NoDocument = NoDocument
  Workers = {w1, w2}
  Pollers = {p1, p2}
  MaxOutboxAttempts = 3
  MaxTries = 2
  MaxFaults = 1
SYMMETRY Symmetry
INVARIANTS
  TypeOK
  SingleRunner
  SucceededHasResults
  
  
PROPERTIES
  SuccessIsFinal
  
