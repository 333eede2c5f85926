SPECIFICATION Spec
CONSTANTS
    A = A
    B = B
    C = C
    D = D
    E = E
    t1 = t1
    t2 = t2
    None = None
    Node = {A, B, C, D, E}
    Edge <- Line5
    Tender = {t1, t2}
    Asker <- AskedByAE
    Kind <- FindAndNotify
    Copies = {}
    Holder <- HeldByC
    MaxHops = 3
    HopWidth = 65536
    MaxDown = 1
    Patient = FALSE
INVARIANTS Bookkeeping HopsRespected
PROPERTY EveryRequestEnds
CHECK_DEADLOCK FALSE
