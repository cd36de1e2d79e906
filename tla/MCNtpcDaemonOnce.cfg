CONSTANTS
  c1 = c1
  c2 = c2
  t1 = t1
  t2 = t2
  Caller = {c1, c2}
  Task = {t1, t2}
  NoPid = NoPid
  Ops = {"start", "status"}
  Answers = {"sample", "error"}
  StayOn = FALSE
  RoundSamples = 2
  Retries = 1
  CreateFails = TRUE
  AllocFails = FALSE
  MaxSem = 3
  MaxForced = 2
SPECIFICATION NtpcFairSpec

PROPERTIES CallsReturn DaemonEnds

CONSTRAINT LockIntact
