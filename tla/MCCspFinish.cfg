SPECIFICATION Spec
CONSTANTS
    i1 = i1
    i2 = i2
    w1 = w1
    w2 = w2
    Inputs = {i1, i2}
    Writers = {w1, w2}
    Dest <- MCDest
    Deactivators = {w1, w2}
    MaxSend = 1
    MaxTicks = 0
    LocksTimer = FALSE
PROPERTY FinishPropagates
CHECK_DEADLOCK FALSE
