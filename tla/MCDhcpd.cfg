CONSTANTS
    a = a
    b = b
    Mac = {a, b}
    NoMac = NoMac
    LeaseTime = 3
    MinLeaseTime = 2
    MaxLeaseTime = 4
    OfferTime = 1
    DeclineTime = 2
    StartIP = 254
    MaxLeases = 3
    ServerIP = 9
    ReqIP <- MCReqIP
    ServerId <- MCServerId
    ReqTime <- MCReqTime
    Xid <- MCXid
    MaxClock = 5
SYMMETRY MCSymmetry
SPECIFICATION Spec
INVARIANTS TypeOK OneLeasePerMac LeaseHonoured RepliesBacked
PROPERTIES NoDoubleGrant QuarantineKept ImplementsPool
CHECK_DEADLOCK FALSE
