SPECIFICATION FairSpec
CONSTANTS
    t1 = t1  t2 = t2  t3 = t3  t4 = t4
    a = a  b = b
    Threads = {t1, t2, t3}
    Mutexes = {a, b}
    Recursive = {}
    Priorities <- ThreeLevels
    MaxDepth = 0
    Nesting <- Flat
    CvMutex = a
    Setters = {t1}
    NoThread = NoThread
    NoMutex = NoMutex
INVARIANT InheritsHighest
PROPERTY HandoverIsTaken
CHECK_DEADLOCK FALSE
