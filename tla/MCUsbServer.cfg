CONSTANTS
    b1 = b1
    c1 = c1
    c2 = c2
    k1 = k1
    k2 = k2
    NoBus = NoBus
    BusIds <- OneBus
    Clients <- TwoClients
    Binders <- TwoBinders
    session_timeout = 1
    MaxSession = 3
SPECIFICATION FairServerSpec
INVARIANTS
    OneSessionPerDevice
    DrivenIsActive
    OpenedIsUnbound
PROPERTIES
    EndedSessionIsForgotten
    UsesRegistry
