CONSTANTS
  a = a
  b = b
  c = c
  V4 = {a, b, c}
  V6 = {}
  Hosts <- MCHosts
  Answer <- MCAnswer
  NumSamples = 2
  Zero = Zero
SPECIFICATION FairSpec
INVARIANTS TypeOK DeniedIsNotAsked FreshServer
PROPERTIES SelectionEnds
