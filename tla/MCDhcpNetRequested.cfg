INIT NetInit
NEXT NetNext
CONSTANTS
  a = a
  b = b
  Mac = {a, b}
  Client = {a, b}
  NoMac = NoMac
  Server = {8, 9}
  Nets <- Slow
  Broadcast = Broadcast
  Retries = 2
  XidMod = 256
  MaxXid = 2
  LeaseTime = 4
  MinLeaseTime = 1
  MaxLeaseTime = 4
  OfferTime = 1
  DeclineTime = 1
INVARIANTS RequestedIsAcked
CHECK_DEADLOCK FALSE
