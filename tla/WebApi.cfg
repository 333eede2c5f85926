SPECIFICATION Spec
CONSTANTS
    c1 = c1
    c2 = c2
    c3 = c3
    None = None
    Client = {c1, c2, c3}
    Listener = {c3}
    MaxRequests = 2
    MaxCount = 2
INVARIANTS NoAbort ClientsAgree CleansOnce
PROPERTY EveryHandlerEnds
CHECK_DEADLOCK FALSE
