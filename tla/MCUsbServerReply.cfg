CONSTANTS
    b1 = b1
    c1 = c1
    c2 = c2
    k1 = k1
    k2 = k2
    NoBus = NoBus
    BusIds <- OneBus
    Clients <- TwoClients
    Binders <- OneBinder
    session_timeout = 1
    MaxSession = 2
SPECIFICATION ServerSpec
INVARIANTS
    ActiveHasClient
