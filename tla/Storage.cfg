\* Two session slots, each used twice, and rings of one message; a log ring
\* that is lapped while it is read, which takes several replies.
SPECIFICATION Spec
CONSTANTS
    Parts = {"tables", "heap", "log", "kfs", "fat"}
    LogEnd = 7
    Ops <- MCOps
    MaxSessions = 3
    MaxQ = 1
    Null = null
    Names = {"login"}
    MaxPorts = 3
    MaxHandles = 2
    MaxInc = 2
    LogSize = 12
    Chunk = 3
    MaxPush = 4
    MaxTotal = 20
    Classes = {64, 128}
    LargeMin = 128
    PoolBase = 16
    PoolEnd = 400
    Requests = {20, 40, 110}
    RawSizes = {40}
INVARIANTS
    ReadsSeeWrites
    StoreIsTree
    DeviceIsTree
    NoMailFromKilled
    HeapSound
    DumpInOrder
PROPERTIES
    RestoredUntilDelete
CHECK_DEADLOCK FALSE
