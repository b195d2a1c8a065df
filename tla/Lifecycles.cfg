SPECIFICATION Spec
CONSTANTS
  Owner = owner
  Loop = loop
  Registrars = {caller}
  RegIds = {1, 2, 3, 4}
  NoReg = 0
  RouteMonitoring = TRUE
  P2PRegs = {p2preg1, p2preg2}
  NoP2PReg = nop2preg
  Callers = {c1, c2}
  Keeper = keeper
  Conns = {q1, q2}
  NoConn = noconn
  NoWriter = nowriter
  Reloads = {r1, r2}
  Configs <- MCConfigs
  Unreadable = unreadable
  Missing = 0
INVARIANTS
  OneRegistrationPerBeat
  WaitsOnLiveConnection
  ClientFollows
  BehindIsPending
PROPERTIES
  ApiKeepsPromise
  OutageHeals
  StopWindsDown
  StartOutlivesOutages
  CloseReturns
  LastWriteWins
CHECK_DEADLOCK FALSE
