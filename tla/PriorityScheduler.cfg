SPECIFICATION FairSpec
CONSTANTS
    idle = idle  main = main  t1 = t1  t2 = t2
    Threads = {main, t1, t2}
    Main = main
    Idle = idle
    Blocking = {main, t1}
    Ending = {t2}
    PRIORITY_MAX = 2
    MAIN_PRIORITY = 1
    MaxNesting = 1
    MaxTime = 2
INVARIANTS ListedOnce NeverRunsBlocked PromptPreemption
PROPERTIES SleepsItsTime TakesTurns
