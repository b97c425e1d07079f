SPECIFICATION MacSpec
CONSTANTS
    a1 = a1
    a2 = a2
    a3 = a3
    Attaches <- MCAttaches
    Devices <- MCDevices
    RequestIds <- MCRequestIds
    Requests <- MCRequests
    RingCapacity = 3
    InFlightCapacity = 3
    IdModulus = 6
    MaxRequests = 5
INVARIANT ImportsAreAccepted
CHECK_DEADLOCK FALSE
