SPECIFICATION Spec
CONSTANTS
    a = a
    b = b
    u = u
    None = None
    Device = {a, b}
    Uuid = {u}
    SyncClass <- Classes
    Asking <- BFirst
    Past = 1
    MaxNow = 2
    MaxConnections = 2
    MaxRestarts = 1
    MaxHasty = 1
INVARIANTS NoAbort BlockEnds
PROPERTIES SyncDelivers SyncKeepsNewest SeenAfterSync
CHECK_DEADLOCK FALSE
