CONSTANTS
    Cb = {b1, b2}
    NoCb = NoCb
    NumSess = 2
    PagesPerChunk = 1
    NumChunks = 1
    NumCtx = 2
    Req = {q1, q2}
    NoReq = NoReq
    Val = {0, 1}
    Zero = 0
    Junk = Junk
    Env = {"disconnect"}
    MaxReqs = 2
    MaxMaps = 2
    MaxEvicts = 0
SPECIFICATION Spec
CHECK_DEADLOCK FALSE
INVARIANT
    RecordedIsCurrent
