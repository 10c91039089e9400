SPECIFICATION MCSpec
CONSTANTS
  a = a
  b = b
  Sub = Sub
  sub = sub
  Base = Base
  m = m
  h = h
  NoName = NoName
  Requests = {r1, r2}
  Files <- MCFiles
  Language <- MCLanguage
  Contents <- MCContents
  Names <- MCNames
  Lower <- MCLower
  Words <- MCWords
  Jobs = {j1}
  Installed = {3, 4, 7, 12, 14, 28}
  Nodes = {1, 2, 3, 4}
  Edges = {1, 2, 3, 4}
  Ends <- MCEnds
  Confidence <- MCConfidence
  Evidence <- MCEvidence
  Weights <- MCWeights
  Chunks = {1, 2, 3}
  Depths = {1, 2, 3}
  NodeLimits = {2, 5}
  EdgeLimits = {2, 4}
  Fanouts = {1, 2}
  PageLimits = {1, 2}
  MaxChanges = 1
  MaxRank = 2
  Common = 3782
SYMMETRY MCSymmetry
INVARIANTS
  AnsweredIsStored
  ModelsFitNewest
  UpgradesSucceed
  RefusedForRowsOnly
  PathsExplain
  WalkIsComplete
  PagesAreWhole
  FusionRespectsRanks
