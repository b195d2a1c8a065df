SPECIFICATION FairSpec
CONSTANTS
  Threads = {c1, c2}
  Free = free
  Tokens = {jwt1}
  None = none
  EventCap = 1
CHECK_DEADLOCK FALSE
PROPERTIES
  HeartbeatIsRecorded
