------------------------- MODULE PriorityScheduler -------------------------
(***************************************************************************)
(* The priority scheduler of the kernel: the list of threads of each       *)
(* priority and the choice of the next thread (scheduler/priority/         *)
(* priority_scheduler.cpp), the tick interrupt (scheduler/                 *)
(* tick_interrupt.h), pausing the kernel, and sleep, wait and yield        *)
(* (kernel.cpp).  Every step is what runs with interrupts disabled or, on  *)
(* the lists of threads, with the kernel paused; a tick or the interrupt   *)
(* of a device may come between any two steps.                             *)
(*                                                                         *)
(* The tick itself is left out: a wakeup_time is kept as the ticks that    *)
(* are missing, so that a tick subtracts one from all of them.  missed is  *)
(* not in the code: the ready threads that the last tick, which found the  *)
(* kernel paused, would have preferred to the current one.                 *)
(***************************************************************************)
EXTENDS Integers, Sequences, FiniteSets, SequencesExt

CONSTANTS
    Threads,        \* where the memory of a thread may be
    Main,           \* the thread that runs main
    Idle,           \* the idle thread, which is in no list
    Blocking,       \* the threads that may sleep and wait
    Ending,         \* the threads that may end
    PRIORITY_MAX,
    MAIN_PRIORITY,
    MaxNesting,     \* bound on nested calls of pauseKernel
    MaxTime         \* longest sleep, in ticks

Levels   == 0..PRIORITY_MAX - 1
NoThread == -2     \* the priority of memory that holds no thread

ASSUME SchedulerAssumption ==
    /\ Main \in Threads
    /\ Idle \notin Threads
    /\ Blocking \subseteq Threads
    /\ Ending \subseteq Threads
    /\ PRIORITY_MAX \in Nat
    /\ MAIN_PRIORITY \in Levels
    /\ MaxNesting \in Nat
    /\ MaxTime \in Nat

VARIABLES
    cur,              \* the thread that runs
    kernel_running,   \* calls of pauseKernel without their restartKernel
    tick_skew,        \* a tick found the kernel paused
    thread_list,      \* for each level its circular list, from the thread that
                      \* was chosen last
    priority,
    flags,            \* "wait" stands for the three flags that wait for a call
    sleeping_list,
    pc,               \* "yield" from before Thread::yield to its supervisor call,
                      \* "switched" until it returns, "restart" after restartKernel
                      \* counted, "removing" in PKremoveDeadThreads, "walking" in
                      \* the loop of priority inheritance, else "run"
    missed

vars == <<cur, kernel_running, tick_skew, thread_list, priority, flags,
          sleeping_list, pc, missed>>

All == Threads \cup {Idle}
Existing == {t \in Threads : priority[t] \in Levels}

Init ==
    /\ cur = Idle
    /\ kernel_running = 0
    /\ tick_skew = FALSE
    /\ thread_list = [i \in Levels |-> IF i = MAIN_PRIORITY THEN <<Main>> ELSE <<>>]
    /\ priority = [t \in All |-> CASE t = Main -> MAIN_PRIORITY
                                   [] t = Idle -> -1
                                   [] OTHER    -> NoThread]
    /\ flags = [t \in All |-> {}]
    /\ sleeping_list = <<>>
    /\ pc = [t \in All |-> IF t = Idle THEN "yield" ELSE "switched"]
    /\ missed = {}

-----------------------------------------------------------------------------
(***************************************************************************)
(* The lists and the choice of the next thread.                            *)
(***************************************************************************)
ReadyAsleep(f) == f \cap {"wait", "deleted"} = {}   \* Faulty variant: SLEEP is not tested
Ready(f) == f \cap {"wait", "sleep", "deleted"} = {}

AllReady(F) == {t \in Existing : Ready(F[t])}

\* The threads that should run rather than t.
Above(F, t) == {u \in AllReady(F) : priority[u] > priority[t]}

\* The levels with a thread to run.
Runnable(F) == {i \in Levels : \E k \in DOMAIN thread_list[i] : Ready(F[thread_list[i][k]])}

\* Where in list the next thread is: the search starts after the first thread, the
\* one that ran last, and comes back to it at the end.
Chosen(list, F) ==
    LET others == {k \in 2..Len(list) : Ready(F[list[k]])}
    IN  IF others = {} THEN 1 ELSE CHOOSE k \in others : \A j \in others : k <= j

RotatedNot(list, k) == list   \* Faulty variant: the head stays where it was

\* list from its element k on.
RotatedTo(list, k) == SubSeq(list, k, Len(list)) \o SubSeq(list, 1, k - 1)

\* A new thread enters after the first one.
Added(list, t) == IF list = <<>> THEN <<t>> ELSE InsertAt(list, 2, t)

WithoutButFirst(list, t) ==   \* Faulty variant: the head is not removed
    IF list[1] = t THEN list ELSE RemoveAt(list, CHOOSE k \in DOMAIN list : list[k] = t)

Without(list, t) == RemoveAt(list, CHOOSE k \in DOMAIN list : list[k] = t)

\* A thread that is chosen returns from the yield in which it was switched.
Resumed(P, t) == [P EXCEPT ![t] = IF @ = "switched" THEN "run" ELSE @]

\* The choice, given the flags F and where the threads are.
IRQfindNextThread(F, P) ==
    \/ /\ kernel_running # 0
       /\ pc' = P
       /\ UNCHANGED <<cur, thread_list, missed>>
    \/ /\ kernel_running = 0
       /\ \/ /\ Runnable(F) = {}
             /\ cur' = Idle
             /\ UNCHANGED thread_list
          \/ \E i \in Runnable(F) :
               /\ \A j \in Runnable(F) : j <= i
               /\ LET k == Chosen(thread_list[i], F)
                  IN  /\ cur' = thread_list[i][k]
                      /\ thread_list' = [thread_list EXCEPT ![i] = RotatedTo(@, k)]
       /\ pc' = Resumed(P, cur')
       /\ missed' = Above(F, cur')

-----------------------------------------------------------------------------
(***************************************************************************)
(* pauseKernel and restartKernel.  No other thread runs in between.        *)
(***************************************************************************)
PauseKernel ==
    /\ pc[cur] = "run"
    /\ kernel_running < MaxNesting
    /\ kernel_running' = kernel_running + 1
    /\ UNCHANGED <<cur, tick_skew, thread_list, priority, flags, sleeping_list, pc, missed>>

\* restartKernel up to its atomic decrement; the outermost one goes on.
RestartKernel ==
    /\ pc[cur] = "run"
    /\ kernel_running > 0
    /\ kernel_running' = kernel_running - 1
    /\ pc' = IF kernel_running = 1 THEN [pc EXCEPT ![cur] = "restart"] ELSE pc
    /\ UNCHANGED <<cur, tick_skew, thread_list, priority, flags, sleeping_list, missed>>

RunsOn == "run"   \* Faulty variant: the missed tick is forgotten

\* If a tick was missed, restartKernel yields.
Yields == IF tick_skew THEN "yield" ELSE "run"

AfterRestart ==
    /\ pc[cur] = "restart"
    /\ pc' = [pc EXCEPT ![cur] = Yields]
    /\ tick_skew' = FALSE
    /\ UNCHANGED <<cur, kernel_running, thread_list, priority, flags, sleeping_list, missed>>

-----------------------------------------------------------------------------
(***************************************************************************)
(* What needs the kernel paused.                                           *)
(***************************************************************************)
Paused == pc[cur] = "run" /\ kernel_running > 0

\* The idle thread pauses the kernel only to remove dead threads.

PKaddThread(t, i) ==
    /\ Paused /\ cur # Idle
    /\ t \notin Existing
    /\ priority' = [priority EXCEPT ![t] = i]
    /\ thread_list' = [thread_list EXCEPT ![i] = Added(@, t)]
    /\ flags' = [flags EXCEPT ![t] = {}]
    /\ pc' = [pc EXCEPT ![t] = "switched"]
    /\ UNCHANGED <<cur, kernel_running, tick_skew, sleeping_list, missed>>

\* t is removed from its list and enters that of newPriority, which may be the same
\* one: then it moves behind the first, or hands the first place to the next.
PKsetPriority(t, newPriority) ==
    LET removed == [thread_list EXCEPT ![priority[t]] = Without(@, t)]
    IN  /\ t \in Existing
        /\ "deleted" \notin flags[t]
        /\ priority' = [priority EXCEPT ![t] = newPriority]
        /\ thread_list' = [removed EXCEPT ![newPriority] = Added(@, t)]
        /\ missed' = IF t = cur THEN {} ELSE missed \ {t}
        /\ UNCHANGED <<cur, kernel_running, tick_skew, flags, sleeping_list>>

\* setPriority and the unlock of a mutex, which call it for a priority that differs only.
ChangePriority(t, newPriority) ==
    /\ Paused /\ cur # Idle
    /\ priority[t] # newPriority
    /\ PKsetPriority(t, newPriority)
    /\ UNCHANGED pc

\* The lock of a mutex whose owner t is below the current thread starts a walk.
Inherit(t) ==
    /\ Paused /\ cur # Idle
    /\ priority[t] < priority[cur]
    /\ PKsetPriority(t, priority[cur])
    /\ pc' = [pc EXCEPT ![cur] = "walking"]

\* The walk goes on to an owner t, at whatever priority it is.  Which threads the walk
\* meets is not kept here: it meets any but the one that walks.
InheritOn(t) ==
    /\ pc[cur] = "walking"
    /\ t # cur
    /\ PKsetPriority(t, priority[cur])
    /\ UNCHANGED pc

\* An owner that waits for no mutex ends the walk.
Inherited ==
    /\ pc[cur] = "walking"
    /\ pc' = [pc EXCEPT ![cur] = "run"]
    /\ UNCHANGED <<cur, kernel_running, tick_skew, thread_list, priority, flags,
                   sleeping_list, missed>>

\* PKremoveDeadThreads, called by the idle thread and by join: one step for each
\* thread it frees.  Which of the dead are still to be joined is not kept here: a
\* pass leaves any of them.
RemoveDeadThreads ==
    /\ Paused
    /\ pc' = [pc EXCEPT ![cur] = "removing"]
    /\ UNCHANGED <<cur, kernel_running, tick_skew, thread_list, priority, flags,
                   sleeping_list, missed>>

Dead == {t \in Existing : "deleted" \in flags[t]}

Free(t) ==
    /\ pc[cur] = "removing"
    /\ t \in Dead
    /\ thread_list' = [thread_list EXCEPT ![priority[t]] = Without(@, t)]
    /\ priority' = [priority EXCEPT ![t] = NoThread]
    /\ UNCHANGED <<cur, kernel_running, tick_skew, flags, sleeping_list, pc, missed>>

RemovedDeadThreads ==
    /\ pc[cur] = "removing"
    /\ pc' = [pc EXCEPT ![cur] = "run"]
    /\ UNCHANGED <<cur, kernel_running, tick_skew, thread_list, priority, flags,
                   sleeping_list, missed>>

-----------------------------------------------------------------------------
(***************************************************************************)
(* Calls that must not be made with the kernel paused, nor by the idle     *)
(* thread: each changes the flags of the current thread with interrupts    *)
(* disabled and then yields.                                               *)
(***************************************************************************)
Running == pc[cur] = "run" /\ kernel_running = 0 /\ cur # Idle

\* Sets a flag of the current thread and goes to the yield.
Blocks(f) ==
    /\ flags' = [flags EXCEPT ![cur] = @ \cup {f}]
    /\ pc' = [pc EXCEPT ![cur] = "yield"]
    /\ missed' = missed \ {cur}

Wait ==
    /\ Running /\ cur \in Blocking
    /\ Blocks("wait")
    /\ UNCHANGED <<cur, kernel_running, tick_skew, thread_list, priority, sleeping_list>>

PlaceLast(ticks) == Len(sleeping_list) + 1   \* Faulty variant: not sorted

\* Where IRQaddToSleepingList inserts an element that wakes in ticks.
Place(ticks) ==
    LET later == {k \in DOMAIN sleeping_list : ticks <= sleeping_list[k].wakeup_time}
    IN  IF later = {} THEN Len(sleeping_list) + 1
                      ELSE CHOOSE k \in later : \A j \in later : k <= j

IRQaddToSleepingList(ticks) ==
    sleeping_list' = InsertAt(sleeping_list, Place(ticks), [p |-> cur, wakeup_time |-> ticks])

\* sleep, at least one tick, and sleepUntil a time that is not past.
Sleep(ticks) ==
    /\ Running /\ cur \in Blocking
    /\ ticks > 0
    /\ IRQaddToSleepingList(ticks)
    /\ Blocks("sleep")
    /\ UNCHANGED <<cur, kernel_running, tick_skew, thread_list, priority>>

\* The end of a thread.
Exit ==
    /\ Running /\ cur \in Ending
    /\ Blocks("deleted")
    /\ UNCHANGED <<cur, kernel_running, tick_skew, thread_list, priority, sleeping_list>>

Wakeup(t) ==
    /\ pc[cur] = "run" /\ cur # Idle
    /\ t \in Existing
    /\ flags' = [flags EXCEPT ![t] = @ \ {"wait"}]
    /\ UNCHANGED <<cur, kernel_running, tick_skew, thread_list, priority, sleeping_list,
                   pc, missed>>

CallYield ==
    /\ Running
    /\ pc' = [pc EXCEPT ![cur] = "yield"]
    /\ UNCHANGED <<cur, kernel_running, tick_skew, thread_list, priority, flags,
                   sleeping_list, missed>>

\* The supervisor call of Thread::yield.
Yield ==
    /\ pc[cur] = "yield"
    /\ IRQfindNextThread(flags, [pc EXCEPT ![cur] = "switched"])
    /\ UNCHANGED <<kernel_running, tick_skew, priority, flags, sleeping_list>>

-----------------------------------------------------------------------------
(***************************************************************************)
(* Interrupts.                                                             *)
(***************************************************************************)
Closer == [k \in DOMAIN sleeping_list |->
             [sleeping_list[k] EXCEPT !.wakeup_time = @ - 1]]

\* How many sleepers IRQwakeThreads takes from the list: it stops at the first one
\* whose wakeup_time is not the tick.
DueNow == CHOOSE n \in 0..Len(Closer) :
            /\ \A k \in 1..n : Closer[k].wakeup_time = 0
            /\ n < Len(Closer) => Closer[n + 1].wakeup_time # 0

WokenFlags == [t \in All |-> IF \E k \in 1..DueNow : Closer[k].p = t
                             THEN flags[t] \ {"sleep"} ELSE flags[t]]

IRQtickInterrupt ==
    /\ flags' = WokenFlags
    /\ sleeping_list' = SubSeq(Closer, DueNow + 1, Len(Closer))
    /\ IF kernel_running # 0
       THEN /\ tick_skew' = TRUE
            /\ missed' = Above(WokenFlags, cur)
            /\ UNCHANGED <<cur, thread_list, pc>>
       ELSE IRQfindNextThread(WokenFlags, pc) /\ UNCHANGED tick_skew
    /\ UNCHANGED <<kernel_running, priority>>

\* The interrupt of a device wakes t and, if its priority is higher, calls the
\* scheduler.
DeviceInterrupt(t) ==
    /\ t \in Existing
    /\ "wait" \in flags[t]
    /\ flags' = [flags EXCEPT ![t] = @ \ {"wait"}]
    /\ IF priority[t] > priority[cur]
       THEN IRQfindNextThread(flags', pc)
       ELSE UNCHANGED <<cur, thread_list, pc, missed>>
    /\ UNCHANGED <<kernel_running, tick_skew, priority, sleeping_list>>

-----------------------------------------------------------------------------
Next ==
    \/ PauseKernel \/ RestartKernel \/ AfterRestart
    \/ RemoveDeadThreads \/ RemovedDeadThreads \/ Inherited
    \/ Wait \/ Exit \/ CallYield \/ Yield \/ IRQtickInterrupt
    \/ \E ticks \in 0..MaxTime : Sleep(ticks)
    \/ \E t \in Threads :
         \/ Free(t) \/ Wakeup(t) \/ DeviceInterrupt(t) \/ Inherit(t) \/ InheritOn(t)
         \/ \E i \in Levels : PKaddThread(t, i) \/ ChangePriority(t, i)

Spec == Init /\ [][Next]_vars

\* The timer keeps ticking, and a section with the kernel paused, which has no loops
\* but the removal of dead threads and the walk along owners, ends.
FairSpec ==
    /\ Spec
    /\ WF_vars(IRQtickInterrupt)
    /\ WF_vars(RemovedDeadThreads)
    /\ WF_vars(Inherited)
    /\ \A n \in 1..MaxNesting : SF_vars(RestartKernel /\ kernel_running = n)

-----------------------------------------------------------------------------
(***************************************************************************)
(* Properties.                                                             *)
(***************************************************************************)
\* Every variable keeps its type; in particular no sleeper's time is past, which
\* the equality in IRQwakeThreads would never match again.
TypeOK ==
    /\ cur \in All
    /\ kernel_running \in 0..MaxNesting
    /\ tick_skew \in BOOLEAN
    /\ thread_list \in [Levels -> Seq(Threads)]
    /\ priority \in [All -> Levels \cup {NoThread, -1}]
    /\ flags \in [All -> SUBSET {"wait", "sleep", "deleted"}]
    /\ sleeping_list \in Seq([p : Threads, wakeup_time : 1..MaxTime])
    /\ pc \in [All -> {"run", "yield", "switched", "restart", "removing", "walking"}]
    /\ missed \subseteq Threads

\* Every thread is exactly once in the circular list of its priority and in no
\* other: insertion, removal and rotation lose and duplicate no thread.
ListedOnce ==
    \A i \in Levels :
      /\ {thread_list[i][k] : k \in DOMAIN thread_list[i]} = {t \in Threads : priority[t] = i}
      /\ \A j, k \in DOMAIN thread_list[i] : thread_list[i][j] = thread_list[i][k] => j = k

\* A thread that blocked or ended does not come back from its yield before it is
\* ready again: its SleepData, on its stack, is not left while in the list, and the
\* end of threadLauncher is not reached.
NeverRunsBlocked ==
    \A t \in All : pc[t] \notin {"yield", "switched"} => flags[t] = {}

\* The memory of the current thread is not freed.
CurrentExists == cur \in Existing \cup {Idle}

\* With the kernel running, and the current thread not about to yield, no thread of
\* higher priority has been ready since the last tick: the tick that finds the kernel
\* paused is made good by restartKernel.
PromptPreemption ==
    kernel_running = 0 /\ pc[cur] \notin {"restart", "yield"}
      => missed = {}

\* The sorted list and its test for equality wake each sleeper as a countdown of its
\* own would, at its tick and not at another.
Left(t) == IF \E k \in DOMAIN sleeping_list : sleeping_list[k].p = t
           THEN sleeping_list[CHOOSE k \in DOMAIN sleeping_list : sleeping_list[k].p = t].wakeup_time
           ELSE 0

Countdowns == [t \in Threads |-> Left(t)]

Timers == INSTANCE Countdown WITH Sleepers <- Threads, remaining <- Countdowns

SleepsItsTime == Timers!Spec

\* A thread is flagged as asleep exactly while it is in the list.
AsleepIsListed == \A t \in Threads : "sleep" \in flags[t] <=> Left(t) > 0

\* Once priorities no longer change, a thread that stays ready, with no ready thread
\* above it, gets the processor again and again.
TakesTurns ==
    \A t \in Threads :
      /\ <>[](t \in AllReady(flags) /\ Above(flags, t) = {})
      /\ <>[][priority' = priority]_vars
      => []<>(cur = t)

=============================================================================
