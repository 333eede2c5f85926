SPECIFICATION Spec
CONSTANTS
    A = A
    B = B
    C = C
    D = D
    E = E
    t1 = t1
    t2 = t2
    None = None
    Node = {A, B, C, D}
    Edge <- Square
    Tender = {t1, t2}
    Asker <- AskedByA
    Kind <- FindAndSave
    Copies = {t2}
    Holder <- FoundAtD
    MaxHops = 3
    HopWidth = 65536
    MaxDown = 0
    Patient = TRUE
INVARIANTS NoAbort NoLoops
PROPERTIES HolderFound EveryCopyReported
CHECK_DEADLOCK FALSE
