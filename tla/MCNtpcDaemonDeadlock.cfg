CONSTANTS
  c1 = c1
  c2 = c2
  t1 = t1
  t2 = t2
  Caller = {c1, c2}
  Task = {t1, t2}
  NoPid = NoPid
  Ops = {"start", "stop"}
  Answers = {"sample"}
  StayOn = TRUE
  RoundSamples = 2
  Retries = 1
  CreateFails = FALSE
  AllocFails = FALSE
  MaxSem = 3
  MaxForced = 2
SPECIFICATION NtpcFairSpec

PROPERTIES CallsReturn
CHECK_DEADLOCK FALSE
