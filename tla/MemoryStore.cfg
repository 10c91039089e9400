SPECIFICATION MemSpec
CONSTANTS
  Episodes = {e1, e2}
  Patterns = {k1, k2}
  NoPattern = NoPattern
  Tokens = {t1}
  NoToken = NoToken
  Requests = {r1, r2}
  Qualities = {0, 10}
  Scores <- MCScores
  Deployments <- MCDeployments
  MaxAttempts = 2
  MaxFeedback = 1
SYMMETRY MCSymmetry
INVARIANTS PatternsCountOutcomes  
PROPERTIES PatternsImplementSupersession 
CHECK_DEADLOCK FALSE
CONSTANT MaxHolds = 1
