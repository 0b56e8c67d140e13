CONSTANTS
    Client = {c1, c2}
    NumChunks = 1
    NumSess = 1
    NumSlots = 2
    None = None
    InitialGb = {1}
    ExtraChunks = 2
    Env = {"depart"}
    MaxMaps = 1
    MaxRounds = 0
SYMMETRY Symmetry
SPECIFICATION Spec
CHECK_DEADLOCK FALSE
INVARIANTS
    EvictorRuns
