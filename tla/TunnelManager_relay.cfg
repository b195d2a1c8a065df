SPECIFICATION Spec
CONSTANTS
  Ids = {i1, i2}
  Ports = {p1, p2}
  Tuns = {t1, t2}
  Conns = {c1, c2}
  Bufs = {b1, b2, b3}
  MaxBuffers = 1
  None = none
  Other = other
SYMMETRY Interchangeable
INVARIANTS
  BuffersAreNotShared
  CountIsExact
  OneLateConnection
PROPERTIES
  TunnelKeepsPromise
