SPECIFICATION BothSpec
CONSTANTS
  Threads = {c1, c2}
  Free = free
  Tokens = {jwt1, jwt2}
  None = none
  EventCap = 1
  Transports = {"grpc", "json"}
  ConfigGiven = TRUE
  MaxRetries = 3
  SmokeDials = 10
CHECK_DEADLOCK FALSE
INVARIANTS
  OneHandshake
PROPERTIES
  ClientKeepsPromise
  CallsReturn
  CommandsEnd
