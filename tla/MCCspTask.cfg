SPECIFICATION Spec
CONSTANTS
    i1 = i1
    i2 = i2
    w1 = w1
    w2 = w2
    Inputs = {i1, i2}
    Writers = {w1, w2}
    Dest <- MCDest
    Deactivators = {w1, w2}
    MaxSend = 2
    MaxTicks = 2
    LocksTimer = TRUE
INVARIANTS NoLostWakeup EndsDrained
PROPERTIES ImplementsChannels TimerServed
CHECK_DEADLOCK FALSE
