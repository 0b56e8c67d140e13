CONSTANTS
    Client = {c1}
    NumChunks = 2
    NumSess = 2
    NumSlots = 2
    None = None
    InitialGb = {2}
    ExtraChunks = 2
    Env = {"overlap", "early_recv", "refuse", "depart", "kill", "early_connect"}
    MaxMaps = 2
    MaxRounds = 1
SPECIFICATION Spec
CHECK_DEADLOCK FALSE
INVARIANTS
    TypeOK
    ActivityHeld
    FreeIndexBounded
    MappedSizeIsSum
