CONSTANTS
  SecMod = 32
  Frac = 4
  TimeMod = 32
  NSec = 3
  Translation = 5
  Epoch = 21
  Skews <- MCSkews
  Errors <- MCErrors
  Delays = {0, 2}
  Timeout = 4
  Build = 4
  Alterations <- MCAlterations
  NumSamples = 3
  MaxRounds = 1
SPECIFICATION Spec
CHECK_DEADLOCK FALSE
PROPERTIES SetTimeIsTrue
