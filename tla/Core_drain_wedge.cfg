\* After kills a full ring may stay full although its owner polls.
SPECIFICATION Spec
CONSTANTS
    Parts = {"ring"}
    a = a
    b = b
    Null = null
    null = null
    c1 = c1
    c2 = c2
    c3 = c3
    Senders <- MCSenders
    Killable <- MCOneKillable
    MaxSessions = 4
    MaxQ = 2
    MaxSends = 6
    CPU <- MCCPU
    Mod = 4
    Order <- MCOrder
    AtBoot = {"fs"}
    Slots = 2
    MaxFails = 2
    MaxMisread = 1
PROPERTIES
    WouldBlockEnds
CHECK_DEADLOCK FALSE
