CONSTANTS
  Sessions = {s1, s2}
  Ids = {i1, i2, i3, i4}
  Paths <- MCThreePaths
  Order <- MCLongOrder
  Registered <- MCTwoPaths
  NeedsToken <- MCTokenPaths
  SoftFail = TRUE
  NoPath = NoPath
  NoSession = NoSession
  NoId = NoId
SPECIFICATION Spec
SYMMETRY MCSymmetry
INVARIANTS NoLeakedHandle
