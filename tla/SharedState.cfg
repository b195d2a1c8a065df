SPECIFICATION Spec
CONSTANTS
  net = net
  host = host
  Peers = {a, b}
  Prefixes = {net, host}
  Covers <- MCCovers
  NoPeer = nopeer
  Users = {u1, u2}
  Sockets = {s1, s2}
  NoSocket = nosocket
  NoUser = nouser
  Opener = u1
  Helper = u2
  Platforms = {"linux", "windows", "darwin"}
  Validators = {v1, v2}
  Keys = {k1, k2, k3}
  UsableKeys = {k1, k2}
  NoKey = nokey
  Talkers = {t1, t2}
  NoTalker = notalker
  Links = {l1, l2}
  NoLink = nolink
INVARIANTS
  LockedCallsKeepApart
  OpenIsAllOrNothing
  InstallTellsTheTruth
  RoutesAreOwned
  DetoursAreNeeded
  CallsHaveAConnection
  RejectionsAreExcused
PROPERTIES
  TransportKeepsPromise
CHECK_DEADLOCK FALSE
