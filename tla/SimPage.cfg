SPECIFICATION Spec
CONSTANTS
    NumPages = 3
    FrameCounts = {1, 2}
    Offsets = {o1}
    Bytes = {zero, one}
    Zero = zero
INVARIANTS
    TypeOK
    FrameOwnership
    RingIsOneCycle
    CleanMatchesSwap
PROPERTY
    Refines
CHECK_DEADLOCK TRUE
