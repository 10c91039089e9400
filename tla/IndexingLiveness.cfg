SPECIFICATION FairSpec
CONSTANTS
  Documents = {d1}
  NoDocument = NoDocument
  Workers = {w1, w2}
  Pollers = {p1}
  MaxOutboxAttempts = 2
  MaxTries = 2
  MaxFaults = 1
PROPERTY QueuedJobsEnd
