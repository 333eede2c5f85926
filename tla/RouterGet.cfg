SPECIFICATION Spec
CONSTANTS
    A = A
    B = B
    C = C
    D = D
    E = E
    t1 = t1
    t2 = t2
    None = None
    Node = {A, B, C, D}
    Edge <- Kite
    Tender = {t1}
    Asker <- AskedByA
    Kind <- AllGet
    Copies = {}
    Holder <- HeldByCD
    MaxHops = 3
    HopWidth = 65536
    MaxDown = 1
    Patient = FALSE
INVARIANTS NoAbort OneAnswer
PROPERTY QuietAfterClear
CHECK_DEADLOCK FALSE
