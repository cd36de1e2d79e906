CONSTANTS
  c1 = c1
  c2 = c2
  t1 = t1
  t2 = t2
  Caller = {c1, c2}
  Task = {t1, t2}
  NoPid = NoPid
  Ops = {"start", "stop", "status"}
  Answers = {"sample", "error"}
  StayOn = TRUE
  RoundSamples = 2
  Retries = 1
  CreateFails = TRUE
  AllocFails = TRUE
  MaxSem = 3
  MaxForced = 2
SPECIFICATION NtpcSpec
INVARIANTS NtpcTypeOK LockBalance OneDaemon StatusOfOneRound StopEffective

SYMMETRY Symmetry
CONSTRAINT Followed
CHECK_DEADLOCK FALSE
