CONSTANTS
  Loops = {l1, l2}
  Watchers = {w1, w2}
  Tickers = {t1, t2, t3, t4}
  Chans = {c1, c2, c3, c4, c5, c6}
  Nil = Nil
  Intervals <- MCIntervals
  MaxBackoff = 300
  Second = 100
  Jitters <- MCJitters
  FailLimits <- MCFailLimits
  MaxCount = 2
SPECIFICATION Spec
SYMMETRY MCSymmetry
CHECK_DEADLOCK FALSE
INVARIANTS OneTicker PaceIsBounded
PROPERTIES GivesUp
