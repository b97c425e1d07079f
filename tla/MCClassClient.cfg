SPECIFICATION Spec
CONSTANTS
    Classes = {"list", "mass", "hid", "serial", "net", "audio", "kernel"}
    CallsOf <- MCCallsOf
    BusIds <- MCBusIds
    ExportsOf <- MCExportsOf
    Geometry <- MCGeometry
    MaxCalls <- MCMaxCalls
    MaxItems = 4
    SeqModulus = 3
    TagModulus = 5
    LbaModulus = 4
    CountModulus = 4
    LengthModulus = 16
    ReportLength = 1
    MaxSegment = 2
    NtbModulus = 5
    MaxPacketSize = 2
    MaxPackets = 2
    ByteRange = 2
    MAX_TRANSFER_BUFFER_LENGTH = 7
    MAX_ISO_PACKETS = 2
    MAX_DEVICES_IN_DEVLIST = 2
INVARIANTS
    StreamsQuiet
    AnswersOwnUrb
    DecodersAgree
    SettingsAgree
    ReadIsRequested
    InputInOrder
    FrameReachesDevice
    IsoTiles
    ListIsExported
    NoMutualWait
CHECK_DEADLOCK FALSE
