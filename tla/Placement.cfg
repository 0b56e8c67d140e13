SPECIFICATION Spec
CONSTANTS
    Daemon = {0, 1, 2}
    Loaded = {0}
    Sess = {0, 1}
    HostGb = 4
    InitialApp = {0, 3}
    MaxSwing = 1
    MAX_FREE_MEM_GB = 2
    FREE_MEM_EVICT_THRESHOLD = 1
    FREE_MEM_EXPAND_THRESHOLD = 3
    MEM_EVICT_HIT_THRESHOLD = 1
    MEM_EXPAND_HIT_THRESHOLD = 2
    SERVER_SELECT_NUM = 2
    Width = 6
    MaxOps = 1
    Losable = {1}
    Env = {}
INVARIANTS
    SizeIsChunks
    AnswerIsTrue
    ChosenIsBest
    MapIsLent
    
PROPERTIES
    PressureRelieved
    Settles
    BusyIsMapped
    IdleForgotten
