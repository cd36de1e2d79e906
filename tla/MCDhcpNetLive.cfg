SPECIFICATION NetSpec
CONSTANTS
  a = a
  b = b
  Mac = {a, b}
  Client = {a, b}
  NoMac = NoMac
  Server = {8, 9}
  Nets <- Live
  Broadcast = Broadcast
  Retries = 1
  XidMod = 2
  MaxXid = 2
  LeaseTime = 2
  MinLeaseTime = 1
  MaxLeaseTime = 2
  OfferTime = 1
  DeclineTime = 1
INVARIANTS ExchangeSucceeds NoSharedAddress
PROPERTIES Configured CancelReturns
CHECK_DEADLOCK FALSE
