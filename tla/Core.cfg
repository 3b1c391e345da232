\* Two killable senders, three ring slots, four sends each; three session
\* slots; three CPUs with the smallest counters that tell them apart; a service
\* of the boot configuration and one added later.
SPECIFICATION Spec
CONSTANTS
    Parts = {"ring", "sched", "lock", "init"}
    a = a
    b = b
    Null = null
    null = null
    c1 = c1
    c2 = c2
    c3 = c3
    Senders <- MCSenders
    Killable <- MCAllKillable
    MaxSessions = 4
    MaxQ = 3
    MaxSends = 4
    CPU <- MCCPU
    Mod = 4
    Order <- MCOrder
    AtBoot = {"fs"}
    Slots = 2
    MaxFails = 2
    MaxMisread = 1
INVARIANTS
    CountCoversRing
    BoundedBypass
    StackInUse
    MutualExclusion
    NeverTwo
PROPERTIES
    ImplementsMailbox
    QueuedIsReceived
    SessionsRun
    ImplementsFifo
    NoStarvation
    ComesBack
CHECK_DEADLOCK FALSE
