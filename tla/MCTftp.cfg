CONSTANTS
  Blocks = 3
  Mod = 4
  Retries = 2
  Port = {1, 2}
  Links <- Both
  NullWrite = {"ignored", "fault"}
SPECIFICATION FairSpec
INVARIANTS TypeOK LockStep
PROPERTIES ImplementsCopy Returns Completes
CHECK_DEADLOCK FALSE
