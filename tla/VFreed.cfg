CONSTANTS
    Client = {c1}
    NumChunks = 2
    NumSess = 1
    NumSlots = 2
    None = None
    InitialGb = {2}
    ExtraChunks = 2
    Env = {"overlap"}
    MaxMaps = 1
    MaxRounds = 1
SPECIFICATION Spec
CHECK_DEADLOCK FALSE
INVARIANTS
    InfoIsMalloced
