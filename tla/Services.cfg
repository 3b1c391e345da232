SPECIFICATION Spec
CONSTANTS
    Parts = {"login", "package", "terminal", "console", "packet", "alu", "float", "mem", "func", "decode", "usb", "bt"}
    Users = {"u1", "u2"}
    Tables <- MCTables
    DefaultUsers <- MCDefaultUsers
    Handles = 6
    MaxShells = 1
    MaxFsStarts = 2
    MaxEdits = 1
    Datagrams <- MCDatagrams
    MaxRows = 3
    RegionMax = 3
    Quirks = {}
    MaxOps = 5
INVARIANTS
    RegisteredBeforeUse
    AcceptedIsSigned
    ScreenHolds
    NothingUnseen
    PromptStays
    PacketsSurvive
    EmittersAgree
    EnginesAgree
    DecodeExact
    TransfersAreWhole
    GattReadIsRight
CHECK_DEADLOCK FALSE
