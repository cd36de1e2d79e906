INIT NetInit
NEXT NetNext
SYMMETRY Symmetry
CONSTANTS
  a = a
  b = b
  Mac = {a, b}
  Client = {a, b}
  NoMac = NoMac
  Server = {8, 9}
  Nets <- Unreliable
  Broadcast = Broadcast
  Retries = 2
  XidMod = 256
  MaxXid = 2
  LeaseTime = 4
  MinLeaseTime = 1
  MaxLeaseTime = 4
  OfferTime = 1
  DeclineTime = 1
INVARIANTS NetTypeOK BoundLeaseHeld
CHECK_DEADLOCK FALSE
