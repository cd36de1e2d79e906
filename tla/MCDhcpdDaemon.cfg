SPECIFICATION FairSpec
CONSTANTS
  c1 = c1
  c2 = c2
  t1 = t1
  t2 = t2
  Caller = {c1, c2}
  Task = {t1, t2}
  NoPid = NoPid
  Foreground = TRUE
  SocketFails = TRUE
  CreateFails = TRUE
  MaxSem = 2
  MaxBarged = 2
INVARIANTS DaemonTypeOK LockBalance OneServer StopEffective StartEffective
PROPERTIES CallsReturn
CONSTRAINT Followed
