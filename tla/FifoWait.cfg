SPECIFICATION WaitSpec
CONSTANT MaxPush = 8
INVARIANT TrueMeansData
PROPERTY LastMessageArrives
CHECK_DEADLOCK FALSE
