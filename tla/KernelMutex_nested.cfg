SPECIFICATION Spec
CONSTANTS
    t1 = t1  t2 = t2  t3 = t3  t4 = t4
    a = a  b = b
    Threads = {t1, t2, t3}
    Mutexes = {a, b}
    Recursive = {b}
    Priorities <- TwoLevels
    MaxDepth = 1
    Nesting <- Free
    CvMutex = b
    Setters = {t1}
    NoThread = NoThread
    NoMutex = NoMutex
INVARIANTS
    HeldExactlyByOwner
    WaitersWaitForAnOwner
    NoLostWakeup
    BaseRestored
    InheritsHighest
    DepthMatchesEntries
    StuckIsDeadlock
    RootIsHighest
SYMMETRY SymmetricBut1
CHECK_DEADLOCK FALSE
