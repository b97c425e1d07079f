CONSTANTS
    b1 = b1
    b2 = b2
    BusIds <- MCBusIds
    session_timeout = 2
    MaxSession = 3
SPECIFICATION FairSpec
PROPERTIES
    ReservationEnds
    GraceIsKept
    NoTakeover
    LeaseSpec
