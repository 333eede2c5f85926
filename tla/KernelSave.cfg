SPECIFICATION Spec
CONSTANTS
    a = a
    b = b
    c = c
    None = None
    Save = {a, b, c}
    Pieces <- MCPieces
    Local <- MCLocal
    Enc <- MCEnc
    Fits = {a, b}
    StorageFails = TRUE
    CopyCounts = {1, 2}
    MaxStorage = 1
    MaxRouter = 2
INVARIANTS NoAbort UnitsHaveRequests SuccessMeansSaved RouterAccount
PROPERTIES FailureDeletesPieces EverySaveAnswered
CHECK_DEADLOCK FALSE
