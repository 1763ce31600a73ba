---------------------------- MODULE KernelMutex ----------------------------
(***************************************************************************)
(* The priority-inheritance Mutex of the Miosix kernel and the             *)
(* ConditionVariable that releases it (miosix/kernel/sync.cpp, sync.h),    *)
(* with the priority a thread runs at (Thread::setPriority, kernel.cpp).   *)
(*                                                                         *)
(* Every body of sync.cpp runs with the kernel paused or with interrupts   *)
(* disabled, so one call up to the point where it blocks is one step.  The *)
(* scheduler is left open: any thread with no wait flag set may run.       *)
(***************************************************************************)
EXTENDS Integers, Sequences, FiniteSets

CONSTANTS
    Threads,      \* threads of the application
    Mutexes,      \* Mutex objects
    Recursive,    \* those constructed with Mutex::RECURSIVE
    Priorities,   \* 0 .. PRIORITY_MAX-1
    MaxDepth,     \* bound: lock() calls on one mutex beyond the first
    Nesting,      \* client discipline: <<a, b>> if b may be locked holding a
    CvMutex,      \* the mutex used with the condition variable, or NoMutex
    Setters,      \* threads that call Thread::setPriority
    NoThread,     \* a null Thread pointer
    NoMutex       \* a null Mutex pointer

ASSUME MutexAssumption ==
    /\ Recursive \subseteq Mutexes
    /\ Priorities \subseteq Int
    /\ MaxDepth \in Nat
    /\ Nesting \subseteq Mutexes \X Mutexes
    /\ CvMutex \in Mutexes \cup {NoMutex}
    /\ Setters \subseteq Threads
    /\ NoThread \notin Threads
    /\ NoMutex \notin Mutexes

VARIABLES
    owner,           \* Mutex::owner
    recursiveDepth,  \* Mutex::recursiveDepth, -1 if not recursive
    waiting,         \* Mutex::waiting, the threads in the heap
    front,           \* the thread at the root of that heap
    mutexLocked,     \* Thread::mutexLocked, the list as a set
    mutexWaiting,    \* Thread::mutexWaiting
    priority,        \* the priority the scheduler runs the thread at
    savedPriority,   \* Thread::savedPriority
    waitFlag,        \* ThreadFlags::WAIT
    condFlag,        \* ThreadFlags::WAIT_COND
    condQueue,       \* ConditionVariable::first .. last
    pc,              \* where the thread is
    target,          \* the mutex a thread in lock() or relock waits for
    heldDepth,       \* local depth of ConditionVariable::wait
    kernel,          \* "running", "stuck" (paused for ever) or "reboot"
    base,            \* history: last priority given to the thread
    entries          \* history: lock() calls returned less unlock() calls

heaps   == <<waiting, front>>
queues  == <<condFlag, condQueue, heldDepth>>
prios   == <<priority, savedPriority>>
vars    == <<owner, recursiveDepth, waiting, front, mutexLocked, mutexWaiting,
             priority, savedPriority, waitFlag, condFlag, condQueue, pc,
             target, heldDepth, kernel, base, entries>>

-----------------------------------------------------------------------------

\* Members of a set of numbers that no other exceeds: std::max.
Highest(S) == {x \in S : \A y \in S : y <= x}

\* Threads of S that may be at the root of a heap ordered by pr.
Foremost(S, pr) == {t \in S : \A u \in S : pr[u] <= pr[t]}

\* The root of mutex m's heap if S is what it holds and pr the priorities.
RootOf(S, pr) == IF S = {} THEN {NoThread} ELSE Foremost(S, pr)

Running(t) == kernel = "running" /\ pc[t] = "run"

\* The client discipline: what t may lock given what it already holds.
MayLock(t, m) == \A h \in mutexLocked[t] : <<h, m>> \in Nesting

\* The owners the inheritance walk of PKlock visits starting from thread o:
\* o, the owner of the mutex o waits for, and so on.
Closed(S) == \A u \in S : mutexWaiting[u] # NoMutex => owner[mutexWaiting[u]] \in S
Chain(o)  == {u \in Threads : \A S \in SUBSET Threads : o \in S /\ Closed(S) => u \in S}

\* The walk started by t from o meets no thread that waits for nothing.
\* Faulty variant: the walk tests the caller, which waits, for its end.
EndlessCaller(t, o) == TRUE
Endless(t, o) == \A u \in Chain(o) \ {t} : mutexWaiting[u] # NoMutex

\* make_heap is called on each mutex a visited thread waits for.
\* Faulty variant: the walk forgets to restore the heaps.
RebuiltNever(o) == {}
Rebuilt(o) == {mutexWaiting[u] : u \in Chain(o)} \ {NoMutex}

\* savedPriority of a thread that acquires a mutex.
\* Faulty variant: saved even if the thread already holds a mutex.
SavedAlways(t) == priority[t]
SavedOnAcquire(t) == IF mutexLocked[t] = {} THEN priority[t] ELSE savedPriority[t]

\* mutexLocked of the thread that releases m.
\* Faulty variant: the mutex stays in the list of its old owner.
RemainingAll(t, m) == mutexLocked[t]
Remaining(t, m) == mutexLocked[t] \ {m}

\* Priorities offered to a thread: its saved one and the roots of the heaps
\* of the mutexes in held.
\* Faulty variant: the saved priority alone.
OfferedSaved(saved, held) == {saved}
Offered(saved, held) ==
    {saved} \cup {priority[front[h]] : h \in {k \in held : waiting[k] # {}}}

-----------------------------------------------------------------------------

Init ==
    /\ owner = [m \in Mutexes |-> NoThread]
    /\ recursiveDepth = [m \in Mutexes |-> IF m \in Recursive THEN 0 ELSE -1]
    /\ waiting = [m \in Mutexes |-> {}]
    /\ front = [m \in Mutexes |-> NoThread]
    /\ mutexLocked = [t \in Threads |-> {}]
    /\ mutexWaiting = [t \in Threads |-> NoMutex]
    /\ priority \in [Threads -> Priorities]
    /\ savedPriority = [t \in Threads |-> 0]
    /\ waitFlag = [t \in Threads |-> FALSE]
    /\ condFlag = [t \in Threads |-> FALSE]
    /\ condQueue = <<>>
    /\ pc = [t \in Threads |-> "run"]
    /\ target = [t \in Threads |-> NoMutex]
    /\ heldDepth = [t \in Threads |-> 0]
    /\ kernel = "running"
    /\ base = priority
    /\ entries = [t \in Threads |-> [m \in Mutexes |-> 0]]

\* The owner==0 branch shared by PKlock, PKlockToDepth and PKtryLock.
Acquire(t, m) ==
    /\ owner[m] = NoThread
    /\ owner' = [owner EXCEPT ![m] = t]
    /\ savedPriority' = [savedPriority EXCEPT ![t] = SavedOnAcquire(t)]
    /\ mutexLocked' = [mutexLocked EXCEPT ![t] = @ \cup {m}]
    /\ UNCHANGED <<heaps, mutexWaiting, priority, waitFlag, kernel, base>>

\* The inheritance walk: every visited owner gets the priority of t.
\* Faulty variant: only the first owner does.
WalkFirst(t, o) == [priority EXCEPT ![o] = priority[t]]
Walk(t, o) == [u \in Threads |-> IF u \in Chain(o) THEN priority[t] ELSE priority[u]]

\* The blocking part shared by PKlock and PKlockToDepth.  A walk round a cycle
\* of waiting owners never ends, and the kernel is paused while it runs.
Enqueue(t, m) ==
    LET o        == owner[m]
        inherits == priority[t] > priority[o]
        pr       == IF inherits THEN Walk(t, o) ELSE priority
        pushed   == IF waiting[m] = {} \/ priority[t] > priority[front[m]]
                       THEN t ELSE front[m]
    IN /\ o \notin {t, NoThread}
       /\ waiting' = [waiting EXCEPT ![m] = @ \cup {t}]
       /\ mutexWaiting' = [mutexWaiting EXCEPT ![t] = m]
       /\ priority' = pr
       /\ \E roots \in [IF inherits THEN Rebuilt(o) ELSE {} -> Threads] :
             /\ \A r \in DOMAIN roots : roots[r] \in Foremost(waiting'[r], pr)
             /\ front' = [h \in Mutexes |-> IF h \in DOMAIN roots THEN roots[h]
                                            ELSE IF h = m THEN pushed
                                            ELSE front[h]]
       /\ waitFlag' = [waitFlag EXCEPT ![t] = TRUE]
       /\ target' = [target EXCEPT ![t] = m]
       /\ kernel' = IF inherits /\ Endless(t, o) THEN "stuck" ELSE kernel
       /\ UNCHANGED <<owner, recursiveDepth, mutexLocked, savedPriority, base, entries>>

\* Mutex::lock on a free mutex, and Mutex::tryLock on one.
LockFree(t, m) ==
    /\ Running(t) /\ MayLock(t, m)
    /\ Acquire(t, m)
    /\ entries' = [entries EXCEPT ![t][m] = @ + 1]
    /\ UNCHANGED <<recursiveDepth, queues, pc, target>>

\* lock() of a mutex the thread owns: one level deeper, or MUTEX_DEADLOCK.
LockOwned(t, m) ==
    /\ Running(t) /\ MayLock(t, m) /\ owner[m] = t
    /\ \/ /\ m \in Recursive /\ recursiveDepth[m] < MaxDepth
          /\ recursiveDepth' = [recursiveDepth EXCEPT ![m] = @ + 1]
          /\ entries' = [entries EXCEPT ![t][m] = @ + 1]
          /\ UNCHANGED kernel
       \/ /\ m \notin Recursive
          /\ kernel' = "reboot"
          /\ UNCHANGED <<recursiveDepth, entries>>
    /\ UNCHANGED <<owner, heaps, mutexLocked, mutexWaiting, prios, waitFlag,
                   queues, pc, target, base>>

\* lock() of a mutex another thread owns.
LockBlock(t, m) ==
    /\ Running(t) /\ MayLock(t, m)
    /\ Enqueue(t, m)
    /\ pc' = [pc EXCEPT ![t] = "lock"]
    /\ UNCHANGED queues

\* The loop around IRQwait: leave it as the owner, or wait again.
LockResume(t) ==
    /\ kernel = "running" /\ pc[t] = "lock" /\ ~waitFlag[t]
    /\ IF owner[target[t]] = t
         THEN /\ pc' = [pc EXCEPT ![t] = "run"]
              /\ entries' = [entries EXCEPT ![t][target[t]] = @ + 1]
              /\ target' = [target EXCEPT ![t] = NoMutex]
              /\ UNCHANGED waitFlag
         ELSE /\ waitFlag' = [waitFlag EXCEPT ![t] = TRUE]
              /\ UNCHANGED <<pc, entries, target>>
    /\ UNCHANGED <<owner, recursiveDepth, heaps, mutexLocked, mutexWaiting,
                   prios, queues, kernel, base>>

\* Mutex::tryLock: as lock() on a free mutex, and one level deeper on a
\* recursive one t owns; otherwise it returns false and changes nothing.
TryLock(t, m) ==
    \/ LockFree(t, m)
    \/ m \in Recursive /\ LockOwned(t, m)

\* Priority of the thread that is handed a mutex whose heap has root r.
\* (A root that is a highest waiter leaves nothing to inherit here.)
HeirPriority(n, r) ==
    IF r # NoThread /\ priority[r] > priority[n] THEN priority[r] ELSE priority[n]

\* The heap of m without the thread n it is handed to.
\* Faulty variant: pop_heap without pop_back.
HeapKept(m, n) == waiting[m]
HeapLess(m, n) == waiting[m] \ {n}

\* mutexWaiting once n has been handed the mutex.
\* Faulty variant: n still points to the mutex it waited for.
StillWaiting(n) == mutexWaiting
NoLongerWaiting(n) == [mutexWaiting EXCEPT ![n] = NoMutex]

\* The waiting thread a released mutex is handed to is woken.
\* Faulty variant: it is not.
WokenNot(n) == waitFlag
Woken(n) == [waitFlag EXCEPT ![n] = FALSE]

\* The common part of PKunlock and PKunlockAllDepthLevels: t leaves m, gets
\* the priority its other mutexes are worth, and m goes to the root of its heap.
Release(t, m) ==
    /\ \E p \in Highest(Offered(savedPriority[t], Remaining(t, m))) :
          IF waiting[m] = {}
            THEN /\ owner' = [owner EXCEPT ![m] = NoThread]
                 /\ mutexLocked' = [mutexLocked EXCEPT ![t] = Remaining(t, m)]
                 /\ priority' = [priority EXCEPT ![t] = p]
                 /\ UNCHANGED <<heaps, mutexWaiting, savedPriority, waitFlag>>
            ELSE LET n    == front[m]
                     rest == HeapLess(m, n)
                 IN \E r \in RootOf(rest, priority) :
                    /\ owner' = [owner EXCEPT ![m] = n]
                    /\ waiting' = [waiting EXCEPT ![m] = rest]
                    /\ front' = [front EXCEPT ![m] = r]
                    /\ mutexWaiting' = NoLongerWaiting(n)
                    /\ waitFlag' = Woken(n)
                    /\ savedPriority' = [savedPriority EXCEPT ![n] = SavedOnAcquire(n)]
                    /\ mutexLocked' = [mutexLocked EXCEPT ![t] = Remaining(t, m),
                                                          ![n] = @ \cup {m}]
                    /\ priority' = [priority EXCEPT ![t] = p,
                                                    ![n] = HeirPriority(n, r)]
    /\ UNCHANGED <<kernel, base>>

\* Mutex::unlock by its owner (any other caller changes nothing).
Unlock(t, m) ==
    /\ Running(t) /\ owner[m] = t
    /\ entries' = [entries EXCEPT ![t][m] = @ - 1]
    /\ IF recursiveDepth[m] > 0
         THEN /\ recursiveDepth' = [recursiveDepth EXCEPT ![m] = @ - 1]
              /\ UNCHANGED <<owner, heaps, mutexLocked, mutexWaiting, prios,
                             waitFlag, kernel, base>>
         ELSE /\ Release(t, m)
              /\ UNCHANGED recursiveDepth
    /\ UNCHANGED <<queues, pc, target>>

\* recursiveDepth after PKunlockAllDepthLevels.
\* Faulty variant: the next owner is left with the depth of the last.
DepthLeft(m) == recursiveDepth[m]
DepthReleased(m) == IF m \in Recursive THEN 0 ELSE -1

\* ConditionVariable::wait up to its yield.
CondWait(t) ==
    /\ Running(t) /\ CvMutex # NoMutex /\ owner[CvMutex] = t
    /\ condQueue' = Append(condQueue, t)
    /\ condFlag' = [condFlag EXCEPT ![t] = TRUE]
    /\ Release(t, CvMutex)
    /\ heldDepth' = [heldDepth EXCEPT ![t] =
                        IF CvMutex \in Recursive THEN recursiveDepth[CvMutex] ELSE 0]
    /\ recursiveDepth' = [recursiveDepth EXCEPT ![CvMutex] = DepthReleased(CvMutex)]
    /\ pc' = [pc EXCEPT ![t] = "cond"]
    /\ UNCHANGED <<target, entries>>

\* recursiveDepth of m when t has locked it again in PKlockToDepth.
DepthRestored(t, m) ==
    [recursiveDepth EXCEPT ![m] = IF m \in Recursive THEN heldDepth[t] ELSE @]

\* ConditionVariable::wait after its yield: PKlockToDepth.
CondResume(t) ==
    /\ kernel = "running" /\ pc[t] = "cond" /\ ~condFlag[t] /\ ~waitFlag[t]
    /\ \/ /\ Acquire(t, CvMutex)
          /\ recursiveDepth' = DepthRestored(t, CvMutex)
          /\ pc' = [pc EXCEPT ![t] = "run"]
          /\ UNCHANGED <<target, entries>>
       \/ /\ Enqueue(t, CvMutex)
          /\ pc' = [pc EXCEPT ![t] = "relock"]
    /\ UNCHANGED queues

\* The loop around IRQwait in PKlockToDepth.
RelockResume(t) ==
    /\ kernel = "running" /\ pc[t] = "relock" /\ ~waitFlag[t]
    /\ IF owner[CvMutex] = t
         THEN /\ pc' = [pc EXCEPT ![t] = "run"]
              /\ recursiveDepth' = DepthRestored(t, CvMutex)
              /\ target' = [target EXCEPT ![t] = NoMutex]
              /\ UNCHANGED waitFlag
         ELSE /\ waitFlag' = [waitFlag EXCEPT ![t] = TRUE]
              /\ UNCHANGED <<pc, recursiveDepth, target>>
    /\ UNCHANGED <<owner, heaps, mutexLocked, mutexWaiting, prios, queues,
                   kernel, base, entries>>

\* ConditionVariable::signal and broadcast, by any running thread.
\* Faulty variant: signal takes the thread off the list and leaves its flag.
SignalledNot(S) == condFlag
Signalled(S) == [t \in Threads |-> condFlag[t] /\ t \notin S]

CondWake(n) ==
    /\ \E t \in Threads : Running(t)
    /\ condFlag' = Signalled({condQueue[i] : i \in 1..n})
    /\ condQueue' = SubSeq(condQueue, n + 1, Len(condQueue))
    /\ UNCHANGED <<owner, recursiveDepth, heaps, mutexLocked, mutexWaiting, prios,
                   waitFlag, pc, target, heldDepth, kernel, base, entries>>

Signal    == condQueue # <<>> /\ CondWake(1)
Broadcast == condQueue # <<>> /\ CondWake(Len(condQueue))

\* Thread::setPriority by t itself.
SetPriority(t, pr) ==
    /\ Running(t) /\ t \in Setters
    /\ IF mutexLocked[t] = {}
         THEN /\ priority' = [priority EXCEPT ![t] = pr]
              /\ UNCHANGED savedPriority
         ELSE /\ savedPriority[t] # pr
              /\ savedPriority' = [savedPriority EXCEPT ![t] = pr]
              /\ \E p \in Highest(Offered(pr, mutexLocked[t])) :
                    priority' = [priority EXCEPT ![t] = p]
    /\ base' = [base EXCEPT ![t] = pr]
    /\ UNCHANGED <<owner, recursiveDepth, heaps, mutexLocked, mutexWaiting,
                   waitFlag, queues, pc, target, kernel, entries>>

\* Thread::wakeup on a thread that waits for a mutex, for another reason.
SpuriousWakeup(t) ==
    /\ kernel = "running" /\ waitFlag[t]
    /\ waitFlag' = [waitFlag EXCEPT ![t] = FALSE]
    /\ UNCHANGED <<owner, recursiveDepth, heaps, mutexLocked, mutexWaiting, prios,
                   queues, pc, target, kernel, base, entries>>

Next ==
    \/ \E t \in Threads, m \in Mutexes :
          LockFree(t, m) \/ LockOwned(t, m) \/ LockBlock(t, m)
             \/ TryLock(t, m) \/ Unlock(t, m)
    \/ \E t \in Threads :
          LockResume(t) \/ CondWait(t) \/ CondResume(t) \/ RelockResume(t)
             \/ SpuriousWakeup(t)
    \/ Signal \/ Broadcast
    \/ \E t \in Threads, pr \in Priorities : SetPriority(t, pr)

Spec == Init /\ [][Next]_vars

\* Threads whose next kernel step the scheduler eventually runs, and critical
\* sections that are eventually left.
FairSpec ==
    /\ Spec
    /\ \A t \in Threads : WF_vars(LockResume(t)) /\ WF_vars(RelockResume(t))
    /\ \A t \in Threads : WF_vars(CondResume(t))
    /\ \A t \in Threads, m \in Mutexes : WF_vars(Unlock(t, m))

-----------------------------------------------------------------------------

\* The values every variable may take.
TypeOK ==
    /\ owner \in [Mutexes -> Threads \cup {NoThread}]
    /\ recursiveDepth \in [Mutexes -> -1..MaxDepth]
    /\ \A m \in Mutexes : m \in Recursive <=> recursiveDepth[m] # -1
    /\ waiting \in [Mutexes -> SUBSET Threads]
    /\ front \in [Mutexes -> Threads \cup {NoThread}]
    /\ mutexLocked \in [Threads -> SUBSET Mutexes]
    /\ mutexWaiting \in [Threads -> Mutexes \cup {NoMutex}]
    /\ priority \in [Threads -> Priorities]
    /\ savedPriority \in [Threads -> Priorities \cup {0}]
    /\ waitFlag \in [Threads -> BOOLEAN]
    /\ condFlag \in [Threads -> BOOLEAN]
    /\ condQueue \in Seq(Threads)
    /\ pc \in [Threads -> {"run", "lock", "cond", "relock"}]
    /\ target \in [Threads -> Mutexes \cup {NoMutex}]
    /\ heldDepth \in [Threads -> 0..MaxDepth]
    /\ kernel \in {"running", "stuck", "reboot"}
    /\ base \in [Threads -> Priorities]
    /\ entries \in [Threads -> [Mutexes -> Int]]

\* A thread's list of locked mutexes holds exactly the mutexes it owns, so
\* the walk of PKunlock always finds the mutex it removes (the code reboots
\* with UNEXPECTED when it does not), and no mutex is in two lists.
HeldExactlyByOwner ==
    \A t \in Threads, m \in Mutexes : m \in mutexLocked[t] <=> owner[m] = t

\* A thread is in the heap of the one mutex its mutexWaiting names, that
\* mutex has an owner, and the owner is another thread: a free mutex never
\* has waiters, and a handover never meets a thread that waits elsewhere.
WaitersWaitForAnOwner ==
    \A t \in Threads, m \in Mutexes :
        /\ t \in waiting[m] <=> mutexWaiting[t] = m
        /\ t \in waiting[m] => owner[m] \notin {NoThread, t}

\* The root of a heap is a waiting thread of the highest priority, although
\* the priorities of queued threads change while they are queued.
RootIsHighest ==
    \A m \in Mutexes :
        IF waiting[m] = {} THEN front[m] = NoThread
                           ELSE front[m] \in Foremost(waiting[m], priority)

\* A thread asleep in lock() is still queued for its mutex: the wakeup of the
\* handover is never lost.  A thread asleep in wait() is still in the list
\* that signal and broadcast walk.
NoLostWakeup ==
    \A t \in Threads :
        /\ waitFlag[t] => target[t] \in Mutexes /\ t \in waiting[target[t]]
        /\ condFlag[t] <=> \E i \in DOMAIN condQueue : condQueue[i] = t

\* Whatever a thread inherited and in whatever order it released its
\* mutexes, it runs at the priority it was last given once it holds none,
\* and that priority is saved while it holds one.
BaseRestored ==
    \A t \in Threads :
        IF mutexLocked[t] = {} THEN priority[t] = base[t]
                               ELSE savedPriority[t] = base[t]

\* A thread runs at the highest of its own priority and of those waiting for
\* the mutexes it holds.
InheritsHighest ==
    \A t \in Threads :
        priority[t] \in Highest({base[t]} \cup
                {priority[u] : u \in UNION {waiting[m] : m \in mutexLocked[t]}})

\* The comment of PKunlock and setPriority ("max(savedPriority,
\* inheritedPriority)", sync.cpp:247): a thread that holds a mutex never
\* runs below the priority it saved.
NeverBelowSaved ==
    \A t \in Threads : mutexLocked[t] # {} => priority[t] >= savedPriority[t]

\* A recursive mutex is as deep as its owner locked it: neither waiting on a
\* condition variable nor a handover loses or adds a level.
DepthMatchesEntries ==
    \A t \in Threads, m \in Recursive :
        owner[m] = t /\ pc[t] = "run" => recursiveDepth[m] + 1 = entries[t][m]

\* The inheritance walk never ends only where threads already wait for each
\* other in a circle: an endless walk is always a deadlock of the clients.
StuckIsDeadlock ==
    kernel = "stuck" =>
        \E t \in Threads : mutexWaiting[t] # NoMutex /\ t \in Chain(owner[mutexWaiting[t]])

\* A thread that is handed the mutex it waits for returns from lock().
HandoverIsTaken ==
    \A t \in Threads, m \in Mutexes :
        pc[t] = "lock" /\ owner[m] = t /\ target[t] = m ~> pc[t] = "run"

=============================================================================
