------------------------------ MODULE Pthread ------------------------------
(***************************************************************************)
(* The pthread interface of the kernel (miosix/kernel/pthread_private.h,   *)
(* pthread.cpp): the mutexes behind FastMutex, a condition variable and    *)
(* pthread_once.  The lists of waiting threads are on the stacks of the    *)
(* waiters; here they are sequences of threads.                            *)
(*                                                                         *)
(* Every body runs with interrupts disabled up to the point where it       *)
(* yields, so a call, or what follows a wakeup, is one step.  Which thread *)
(* runs is left open.  Threads unlock only what they own (the check is     *)
(* "removed for speed reasons"), and the function given to pthread_once    *)
(* does not block.                                                         *)
(***************************************************************************)
EXTENDS Integers, Sequences, FiniteSets

CONSTANTS
    Threads,
    Mutexes,      \* pthread_mutex_t objects
    Recursive,    \* those of type PTHREAD_MUTEX_RECURSIVE
    MaxDepth,     \* bound: calls of lock on one mutex beyond the first
    NoThread,     \* a null owner
    NoMutex

ASSUME PthreadAssumption ==
    /\ Recursive \subseteq Mutexes
    /\ MaxDepth \in Nat
    /\ NoThread \notin Threads
    /\ NoMutex \notin Mutexes

VARIABLES
    owner,
    recursive,      \* levels beyond the first, -1 if not recursive
    waiters,        \* the list first .. last of each mutex
    condWaiters,    \* the list first .. last of the condition variable
    waitFlag,       \* ThreadFlags::WAIT
    condFlag,       \* ThreadFlags::WAIT_COND
    pc,             \* the call a thread is in, or "run"
    target,         \* the mutex of that call
    depth,          \* local depth of pthread_cond_wait
    init_executed,  \* pthread_once_t
    rebooted,       \* errorHandler(MUTEX_DEADLOCK) was called
    entries,        \* history: calls of lock that returned less those of unlock
    completed,      \* history: calls of the function that returned
    returned        \* history: a call of pthread_once returned

mutex == <<owner, recursive, waiters>>
cond  == <<condWaiters, condFlag, depth>>
once  == <<init_executed, completed, returned>>
vars  == <<owner, recursive, waiters, condWaiters, waitFlag, condFlag, pc, target,
           depth, init_executed, rebooted, entries, completed, returned>>

Init ==
    /\ owner = [m \in Mutexes |-> NoThread]
    /\ recursive = [m \in Mutexes |-> IF m \in Recursive THEN 0 ELSE -1]
    /\ waiters = [m \in Mutexes |-> <<>>]
    /\ condWaiters = <<>>
    /\ waitFlag = [t \in Threads |-> FALSE]
    /\ condFlag = [t \in Threads |-> FALSE]
    /\ pc = [t \in Threads |-> "run"]
    /\ target = [t \in Threads |-> NoMutex]
    /\ depth = [t \in Threads |-> 0]
    /\ init_executed = 0 /\ completed = 0 /\ returned = FALSE
    /\ rebooted = FALSE
    /\ entries = [t \in Threads |-> [m \in Mutexes |-> 0]]

\* The scheduler may choose t, which is at that point of the code.
At(t, place) == pc[t] = place /\ ~waitFlag[t] /\ ~condFlag[t] /\ ~rebooted

-----------------------------------------------------------------------------
(***************************************************************************)
(* Mutexes.                                                                *)
(***************************************************************************)
Entered(t, m, n) == [entries EXCEPT ![t][m] = entries[t][m] + n]

\* The mutex is free, or the caller's already.
LockFree(t, m) ==
    /\ At(t, "run") /\ owner[m] = NoThread
    /\ owner' = [owner EXCEPT ![m] = t]
    /\ entries' = Entered(t, m, 1)
    /\ UNCHANGED <<recursive, waiters, cond, waitFlag, pc, target, once, rebooted>>

LockAgain(t, m) ==
    /\ At(t, "run") /\ owner[m] = t /\ recursive[m] \in 0..(MaxDepth - 1)
    /\ recursive' = [recursive EXCEPT ![m] = recursive[m] + 1]
    /\ entries' = Entered(t, m, 1)
    /\ UNCHANGED <<owner, waiters, cond, waitFlag, pc, target, once, rebooted>>

LockDeadlock(t, m) ==
    /\ At(t, "run") /\ owner[m] = t /\ recursive[m] < 0
    /\ rebooted' = TRUE
    /\ UNCHANGED <<mutex, cond, waitFlag, pc, target, once, entries>>

\* t goes to the end of the list of m and sleeps in the call named.
\* Faulty variant: the policy the comments name.
QueuedFirst(t, m) == [waiters EXCEPT ![m] = <<t>> \o waiters[m]]
QueuedLast(t, m) == [waiters EXCEPT ![m] = Append(waiters[m], t)]

Enqueue(t, m, call) ==
    /\ waiters' = QueuedLast(t, m)
    /\ waitFlag' = [waitFlag EXCEPT ![t] = TRUE]
    /\ pc' = [pc EXCEPT ![t] = call]
    /\ target' = [target EXCEPT ![t] = m]

LockBlock(t, m) ==
    /\ At(t, "run") /\ owner[m] \notin {t, NoThread}
    /\ Enqueue(t, m, "lock")
    /\ UNCHANGED <<owner, recursive, cond, once, rebooted, entries>>

Lock(t, m) == LockFree(t, m) \/ LockAgain(t, m) \/ LockBlock(t, m) \/ LockDeadlock(t, m)

\* What pthread_mutex_trylock does when it does not return EBUSY.
TryLock(t, m) == LockFree(t, m) \/ LockAgain(t, m)

\* The wakeup was about something else: sleep again.
SleepAgain(t) ==
    /\ waitFlag' = [waitFlag EXCEPT ![t] = TRUE]
    /\ UNCHANGED <<recursive, pc, target, entries>>

LockResume(t) ==
    /\ At(t, "lock")
    /\ IF owner[target[t]] = t
         THEN /\ pc' = [pc EXCEPT ![t] = "run"]
              /\ target' = [target EXCEPT ![t] = NoMutex]
              /\ entries' = Entered(t, target[t], 1)
              /\ UNCHANGED <<waitFlag, recursive>>
         ELSE SleepAgain(t)
    /\ UNCHANGED <<owner, waiters, cond, once, rebooted>>

\* Whom unlocking wakes.  Faulty variant: nobody.
WokenNot(m) == waitFlag
Woken(m) == IF waiters[m] = <<>> THEN waitFlag
            ELSE [waitFlag EXCEPT ![Head(waiters[m])] = FALSE]

\* The mutex passes to the first of the list.
Handover(m) ==
    /\ waitFlag' = Woken(m)
    /\ IF waiters[m] = <<>>
         THEN owner' = [owner EXCEPT ![m] = NoThread] /\ UNCHANGED waiters
         ELSE /\ owner' = [owner EXCEPT ![m] = Head(waiters[m])]
              /\ waiters' = [waiters EXCEPT ![m] = Tail(waiters[m])]

Unlock(t, m) ==
    /\ At(t, "run") /\ owner[m] = t
    /\ IF recursive[m] > 0
         THEN /\ recursive' = [recursive EXCEPT ![m] = recursive[m] - 1]
              /\ UNCHANGED <<owner, waiters, waitFlag>>
         ELSE Handover(m) /\ UNCHANGED recursive
    /\ entries' = Entered(t, m, -1)
    /\ UNCHANGED <<cond, pc, target, once, rebooted>>

\* Thread::wakeup on a thread that waits for a mutex, for another reason.
SpuriousWakeup(t) ==
    /\ waitFlag[t] /\ ~rebooted
    /\ waitFlag' = [waitFlag EXCEPT ![t] = FALSE]
    /\ UNCHANGED <<mutex, cond, pc, target, once, rebooted, entries>>

-----------------------------------------------------------------------------
(***************************************************************************)
(* The condition variable.                                                 *)
(***************************************************************************)
\* IRQdoMutexUnlockAllDepthLevels: the levels it returns and leaves.
\* Faulty variant: the next owner inherits the levels.
FlattenedNot(m) == recursive
Flattened(m) == IF recursive[m] < 0 THEN recursive ELSE [recursive EXCEPT ![m] = 0]
Levels(m) == IF recursive[m] < 0 THEN 0 ELSE recursive[m]

CondWait(t, m) ==
    /\ At(t, "run") /\ owner[m] = t
    /\ condWaiters' = Append(condWaiters, t)
    /\ condFlag' = [condFlag EXCEPT ![t] = TRUE]
    /\ depth' = [depth EXCEPT ![t] = Levels(m)]
    /\ recursive' = Flattened(m)
    /\ Handover(m)
    /\ pc' = [pc EXCEPT ![t] = "cond"]
    /\ target' = [target EXCEPT ![t] = m]
    /\ UNCHANGED <<once, rebooted, entries>>

\* The levels t had are restored once the mutex is its own again.
Restored(t, m) == IF recursive[m] < 0 THEN recursive
                  ELSE [recursive EXCEPT ![m] = depth[t]]

\* Back in pthread_cond_wait with the mutex.
Relocked(t) ==
    /\ recursive' = Restored(t, target[t])
    /\ pc' = [pc EXCEPT ![t] = "run"]
    /\ target' = [target EXCEPT ![t] = NoMutex]

\* IRQdoMutexLockToDepth.  That t owns the mutex already cannot be here.
CondResume(t) ==
    /\ At(t, "cond")
    /\ IF owner[target[t]] = NoThread
         THEN /\ owner' = [owner EXCEPT ![target[t]] = t]
              /\ Relocked(t)
              /\ UNCHANGED <<waiters, waitFlag>>
         ELSE /\ owner[target[t]] # t
              /\ Enqueue(t, target[t], "relock")
              /\ UNCHANGED <<owner, recursive>>
    /\ UNCHANGED <<cond, once, rebooted, entries>>

RelockResume(t) ==
    /\ At(t, "relock")
    /\ IF owner[target[t]] = t
         THEN Relocked(t) /\ UNCHANGED <<waitFlag, entries>>
         ELSE SleepAgain(t)
    /\ UNCHANGED <<owner, waiters, cond, once, rebooted>>

\* The first n of the list are woken.
CondWake(n) ==
    /\ \E t \in Threads : At(t, "run")
    /\ condWaiters # <<>>
    /\ condFlag' = [t \in Threads |-> condFlag[t] /\ \A i \in 1..n : condWaiters[i] # t]
    /\ condWaiters' = SubSeq(condWaiters, n + 1, Len(condWaiters))
    /\ UNCHANGED <<mutex, waitFlag, pc, target, depth, once, rebooted, entries>>

Signal    == CondWake(1)
Broadcast == CondWake(Len(condWaiters))

-----------------------------------------------------------------------------
(***************************************************************************)
(* pthread_once.                                                           *)
(***************************************************************************)
\* Faulty variant: the call that starts leaves no mark.
StartedNot == 0
Started == 1

\* One turn of the loop; a thread at "once" has yielded to the one that is first.
Once(t) ==
    /\ At(t, "run") \/ At(t, "once")
    /\ \/ /\ init_executed = 0
          /\ init_executed' = Started
          /\ pc' = [pc EXCEPT ![t] = "init"]
          /\ UNCHANGED returned
       \/ /\ init_executed = 1
          /\ pc' = [pc EXCEPT ![t] = "once"]
          /\ UNCHANGED <<init_executed, returned>>
       \/ /\ init_executed = 2
          /\ pc' = [pc EXCEPT ![t] = "run"]
          /\ returned' = TRUE
          /\ UNCHANGED init_executed
    /\ UNCHANGED <<mutex, cond, waitFlag, target, completed, rebooted, entries>>

OnceEnd(t) ==
    /\ At(t, "init")
    /\ init_executed' = 2
    /\ completed' = completed + 1
    /\ returned' = TRUE
    /\ pc' = [pc EXCEPT ![t] = "run"]
    /\ UNCHANGED <<mutex, cond, waitFlag, target, rebooted, entries>>

\* The function throws: another thread may try.
\* Faulty variant: the mark stays.
ReopenedNot == 1
Reopened == 0

OnceThrow(t) ==
    /\ At(t, "init")
    /\ init_executed' = Reopened
    /\ pc' = [pc EXCEPT ![t] = "run"]
    /\ UNCHANGED <<mutex, cond, waitFlag, target, completed, returned, rebooted, entries>>

-----------------------------------------------------------------------------

Next ==
    \/ \E t \in Threads, m \in Mutexes :
          Lock(t, m) \/ TryLock(t, m) \/ Unlock(t, m) \/ CondWait(t, m)
    \/ \E t \in Threads :
          LockResume(t) \/ CondResume(t) \/ RelockResume(t) \/ SpuriousWakeup(t)
             \/ Once(t) \/ OnceEnd(t) \/ OnceThrow(t)
    \/ Signal \/ Broadcast

Spec == Init /\ [][Next]_vars

\* A thread that yielded in pthread_once runs again, and the function ends.
FairSpec ==
    /\ Spec
    /\ \A t \in Threads :
          WF_vars(pc[t] = "once" /\ Once(t)) /\ WF_vars(OnceEnd(t) \/ OnceThrow(t))

-----------------------------------------------------------------------------
(***************************************************************************)
(* Properties.                                                             *)
(***************************************************************************)
TypeOK ==
    /\ owner \in [Mutexes -> Threads \cup {NoThread}]
    /\ recursive \in [Mutexes -> -1..MaxDepth]
    /\ \A m \in Mutexes : recursive[m] = -1 <=> m \notin Recursive
    /\ waiters \in [Mutexes -> Seq(Threads)]
    /\ condWaiters \in Seq(Threads)
    /\ waitFlag \in [Threads -> BOOLEAN]
    /\ condFlag \in [Threads -> BOOLEAN]
    /\ pc \in [Threads -> {"run", "lock", "cond", "relock", "once", "init"}]
    /\ target \in [Threads -> Mutexes \cup {NoMutex}]
    /\ depth \in [Threads -> 0..MaxDepth]
    /\ init_executed \in 0..2
    /\ rebooted \in BOOLEAN
    /\ entries \in [Threads -> [Mutexes -> Int]]
    /\ completed \in Nat
    /\ returned \in BOOLEAN

Listed(list, t) == \E i \in DOMAIN list : list[i] = t

\* Every mutex is a fair lock: one thread at a time has it, and neither trylock, a
\* spurious wakeup nor a return from pthread_cond_wait overtakes those in line.
Lines == [m \in Mutexes |-> IF owner[m] = NoThread THEN <<>>
                            ELSE <<owner[m]>> \o waiters[m]]

Fair == INSTANCE FairLock WITH Locks <- Mutexes, lines <- Lines

RefinesFairLock == Fair!Spec

\* A thread that is still to get a mutex is in the list of that mutex, whether it
\* sleeps or was woken for nothing; once it was handed the mutex it is awake; and who
\* sleeps in pthread_cond_wait is in the list that signal and broadcast walk.
NoLostWakeup ==
    /\ \A t \in Threads :
          /\ pc[t] \in {"lock", "relock"} =>
                (Listed(waiters[target[t]], t) <=> owner[target[t]] # t)
          /\ waitFlag[t] => pc[t] \in {"lock", "relock"} /\ owner[target[t]] # t
          /\ condFlag[t] <=> Listed(condWaiters, t)

\* A thread has each mutex exactly as often as it locked it, also across the waits
\* on a condition variable, which unlock all levels and lock them again.
HeldAsEntered ==
    \A t \in Threads, m \in Mutexes :
        m # target[t] =>
            entries[t][m] = IF owner[m] # t THEN 0
                            ELSE IF m \in Recursive THEN recursive[m] + 1 ELSE 1

\* The function given to pthread_once runs in one thread at a time, completes at most
\* once, and no call returns before it has completed, whatever throws in between.
OnceExactly ==
    /\ \A t, u \in Threads : pc[t] = "init" /\ pc[u] = "init" => t = u
    /\ completed <= 1
    /\ returned => completed = 1

\* If the function does not throw for ever, a call that waits for it returns.
OnceReturns ==
    <>[][\A t \in Threads : ~OnceThrow(t)]_vars =>
        \A t \in Threads : pc[t] = "once" ~> pc[t] = "run" \/ rebooted

=============================================================================
