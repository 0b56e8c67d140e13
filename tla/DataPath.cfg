CONSTANTS
    Cb = {b1}
    NoCb = NoCb
    NumSess = 2
    PagesPerChunk = 1
    NumChunks = 1
    NumCtx = 2
    Req = {q1, q2}
    NoReq = NoReq
    Val = {0, 1}
    Zero = 0
    Junk = Junk
    Env = {"evict", "disconnect"}
    MaxReqs = 2
    MaxMaps = 2
    MaxEvicts = 1
SPECIFICATION Spec
CHECK_DEADLOCK FALSE
INVARIANTS
    RecordedIsCurrent
    BackupComplete
    OpsOnLent
    
    

    
