SPECIFICATION Spec
CONSTANTS
    main = main  t1 = t1  t2 = t2  t3 = t3  null = null
    Addresses = {main, t1, t2, t3}
    Main = main
    NoThread = null
    MaxCreated = 4
    Stale = TRUE
    Calls = "oneEach"
INVARIANT NoLostJoin
VIEW WithoutHistory
SYMMETRY Interchangeable
CHECK_DEADLOCK FALSE
