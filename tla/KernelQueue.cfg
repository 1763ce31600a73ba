SPECIFICATION FairSpec
CONSTANTS
    c = c  p = p  v1 = v1  v2 = v2  v3 = v3
    QLen = 3
    Values = {v1, v2, v3}
    Getters = {c}
    Putters = {p}
    IrqPuts = TRUE
    IrqGets = TRUE
    Resets = TRUE
    NoThread = NoThread
    NoValue = NoValue
INVARIANT NoLostWakeup
PROPERTIES RefinesFifo SleeperReturns
