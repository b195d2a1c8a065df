SPECIFICATION FairSpec
CONSTANTS
  Users = {u1, u2}
  Loop = loop
  Free = free
  MaxPending = 2
  MaxCrashes = 1
INVARIANTS
  ModeHasTunnel
  LinkIsAccountedFor
  SwitchesAreReported
PROPERTIES
  FollowsHealth
