\* A name is deleted and the volume mounted again.
SPECIFICATION Spec
CONSTANTS
    Parts = {"kfs"}
    LogEnd = 8
    Ops <- MCOps
    MaxSessions = 3
    MaxQ = 1
    Null = null
    Names = {"login"}
    MaxPorts = 3
    MaxHandles = 2
    MaxInc = 2
    LogSize = 12
    Chunk = 3
    MaxPush = 4
    MaxTotal = 20
    Classes = {64, 128}
    LargeMin = 128
    PoolBase = 16
    PoolEnd = 400
    Requests = {20, 40, 110}
    RawSizes = {40}
PROPERTIES
    RestoredExactly
CHECK_DEADLOCK FALSE
