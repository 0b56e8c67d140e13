CONSTANTS
    Client = {c1, c2}
    NumChunks = 3
    NumSess = 2
    NumSlots = 2
    None = None
    InitialGb = {3}
    ExtraChunks = 2
    Env = {}
    MaxMaps = 2
    MaxRounds = 1
SYMMETRY Symmetry
SPECIFICATION Spec
CHECK_DEADLOCK FALSE
INVARIANTS
    DoneCountsItsChunks
