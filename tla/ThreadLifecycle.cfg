SPECIFICATION FairSpec
CONSTANTS
    main = main  t1 = t1  t2 = t2  t3 = t3  null = null
    Addresses = {main, t1, t2}
    Main = main
    NoThread = null
    MaxCreated = 4
    Stale = FALSE
    Calls = "any"
INVARIANTS NoLostJoin JoinDelivers NoLeak
PROPERTY JoinReturns
CHECK_DEADLOCK FALSE
