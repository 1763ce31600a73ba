SPECIFICATION Spec
CONSTANTS
    t1 = t1  t2 = t2  t3 = t3  t4 = t4
    a = a  b = b
    Threads = {t1, t2, t3}
    Mutexes = {a, b}
    Recursive = {}
    Priorities <- ThreeLevels
    MaxDepth = 0
    Nesting <- Ordered
    CvMutex = NoMutex
    Setters = {}
    NoThread = NoThread
    NoMutex = NoMutex
INVARIANT NeverBelowSaved
CHECK_DEADLOCK FALSE
