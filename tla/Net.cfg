\* Four DHCP faults, so that two renewals in a row may fail; the counters of
\* the window wrap between the second and the third frame.
SPECIFICATION FairSpec
CONSTANTS
    Parts = {"tcp", "dhcp", "stack", "port", "ring"}
    TcpFaults = 1
    Addrs = {"a", "b"}
    LeaseTime = 4
    Tries = 2
    BackoffInit = 1
    BackoffMax = 2
    MaxNow = 3
    MaxXid = 3
    MaxFaults = 4
    Budget = 2
    IcmpInCap = 1
    MaxWire = 2
    MaxPings = 2
    MaxRestarts = 1
    Apps = {"a", "t"}
    Kind <- MCKind
    Port <- MCPort
    MaxData = 2
    MaxOpens = 2
    MaxCalls = 3
    MaxGiveUps = 1
    WinSlots = 2
    CountMod = 8
    FirstCount = 6
    MaxFrames = 6
INVARIANTS
    AddressIsGranted
    StuckOnlyWhenCold
    StreamIsPrefix
    AckedHasArrived
    OrderlyCloseIsComplete
PROPERTIES
    ReadsInOrder
    CloseTakesEffect
    WindowIsFifo
CHECK_DEADLOCK FALSE
