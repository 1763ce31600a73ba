SPECIFICATION FairSpec
CONSTANTS
    t1 = t1  t2 = t2  t3 = t3  a = a  b = b
    Threads = {t1, t2, t3}
    Mutexes = {a, b}
    Recursive = {b}
    MaxDepth = 1
    NoThread = NoThread
    NoMutex = NoMutex
INVARIANTS NoLostWakeup HeldAsEntered OnceExactly
PROPERTIES RefinesFairLock OnceReturns
CHECK_DEADLOCK FALSE
