SPECIFICATION MacSpec
CONSTANTS
    a1 = a1
    a2 = a2
    a3 = a3
    Attaches <- MCAttaches
    Devices <- MCDevices
    RequestIds <- MCRequestIds
    Requests <- MCRequests
    RingCapacity = 2
    InFlightCapacity = 2
    IdModulus = 6
    MaxRequests = 2
PROPERTY StorageIoDrains
CHECK_DEADLOCK FALSE
