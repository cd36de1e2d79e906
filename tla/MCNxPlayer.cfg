CONSTANTS
  Plays = 2
  NBuffers = 2
  Lengths = {1, 3}
  Envs <- All
SPECIFICATION FairSpec
INVARIANTS ContextAlive BuffersBack StopStops
PROPERTIES CallsReturn
CHECK_DEADLOCK FALSE
