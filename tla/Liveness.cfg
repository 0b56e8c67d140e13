CONSTANTS
    Client = {c1}
    NumChunks = 3
    NumSess = 3
    NumSlots = 2
    None = None
    InitialGb = {3}
    ExtraChunks = 2
    Env = {}
    MaxMaps = 4
    MaxRounds = 2
SPECIFICATION FairSpec
CHECK_DEADLOCK FALSE

    
PROPERTIES
    RoundEnds
    MapReturns
    TriggerBack
