SPECIFICATION Spec
CONSTANTS
  Ids = {i1, i2}
  Ports = {p1}
  Tuns = {t1, t2}
  Conns = {c1, c2}
  Bufs = {b1, b2, b3, b4}
  MaxBuffers = 1
  None = none
  Other = other
SYMMETRY Interchangeable
INVARIANTS
  TunnelIsServed
