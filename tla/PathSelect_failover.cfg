CONSTANTS
  Sessions = {s1}
  Ids = {i1, i2, i3}
  Paths <- MCTwoPaths
  Order <- MCDefaultOrder
  Registered <- MCTwoPaths
  NeedsToken <- MCTokenPaths
  SoftFail = FALSE
  NoPath = NoPath
  NoSession = NoSession
  NoId = NoId
SPECIFICATION FairSpec
PROPERTY FailoverReachesNextPath
