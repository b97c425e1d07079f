SPECIFICATION MacSpec
CONSTANTS
    a1 = a1
    a2 = a2
    a3 = a3
    Attaches <- MCAttaches
    Devices <- MCDevices
    RequestIds <- MCRequestIds
    Requests <- MCRequests
    RingCapacity = 3
    InFlightCapacity = 3
    IdModulus = 6
    MaxRequests = 5
INVARIANTS
    InOnePlace
    NoRequestForgotten
    NoOrphanDevice
PROPERTIES
    RingIsQueue
    StorageIoCompletes
\* The HID task has exited and the host asks for no more reports.
CHECK_DEADLOCK FALSE
