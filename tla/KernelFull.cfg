SPECIFICATION Spec
CONSTANTS
    a = a
    b = b
    c = c
    None = None
    Save = {a}
    Pieces <- SmallPieces
    Local <- SmallLocal
    Enc <- SmallEnc
    Fits = {}
    StorageFails = FALSE
    CopyCounts = {2}
    MaxStorage = 1
    MaxRouter = 2
INVARIANT NoAbort
CHECK_DEADLOCK FALSE
