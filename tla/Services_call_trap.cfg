\* Bodies in which a call that traps is followed by more instructions.
SPECIFICATION Spec
CONSTANTS
    Parts = {"func"}
    Users = {"u1", "u2"}
    Tables <- MCTables
    DefaultUsers <- MCDefaultUsers
    Handles = 6
    MaxShells = 1
    MaxFsStarts = 2
    MaxEdits = 1
    Datagrams <- MCDatagrams
    MaxRows = 3
    RegionMax = 3
    Quirks = {"call"}
    MaxOps = 6
INVARIANTS
    EnginesAgree
CHECK_DEADLOCK FALSE
