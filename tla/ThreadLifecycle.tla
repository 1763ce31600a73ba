-------------------------- MODULE ThreadLifecycle --------------------------
(***************************************************************************)
(* Creation, termination, join and detach of threads (miosix/kernel/       *)
(* kernel.cpp).  A Thread object is identified by its address, which the   *)
(* allocator may give again to a later thread; all the kernel keeps of a   *)
(* thread to join is that address.  Every step below runs with interrupts  *)
(* disabled or the kernel paused.                                          *)
(*                                                                         *)
(* occupant, claimed and the id of a target are not in the code: they tell *)
(* the threads that lived at one address apart.                            *)
(***************************************************************************)
EXTENDS Integers, FiniteSets

CONSTANTS
    Addresses,   \* where Thread objects are allocated
    Main,        \* the thread that runs main, which never returns
    NoThread,    \* the null pointer
    MaxCreated,  \* bound on the threads created
    Stale,       \* TRUE if an address may be allocated again while a join of the
                 \* thread that was there is still to return
    Calls        \* the calls made for one thread: "one" join or detach, "oneEach"
                 \* join and detach, or "any" number

ASSUME LifecycleAssumption ==
    /\ Main \in Addresses
    /\ NoThread \notin Addresses
    /\ MaxCreated \in Nat
    /\ (0..MaxCreated) \cap (Addresses \cup {NoThread}) = {}
    /\ Stale \in BOOLEAN
    /\ Calls \in {"one", "oneEach", "any"}

Ids  == 1..MaxCreated
Free == -1   \* the occupant of memory that holds no thread; main has id 0
NoTarget == [addr |-> NoThread, id |-> Free]

VARIABLES
    occupant,      \* the id of the thread that lives at each address, or Free
    created,       \* number of threads created
    claimed,       \* which of join and detach were called for the thread, if
                   \* that is limited
    deleted,       \* ThreadFlags::DELETED
    detached,      \* ThreadFlags::DETACHED
    joinWait,      \* ThreadFlags::WAIT_JOIN
    joinData,      \* the union: waitingForJoin, then the result of the thread
    existDeleted,  \* exist_deleted
    pc,
    target,        \* the thread a join is about
    ret            \* the last join that returned: the thread meant, and the
                   \* result delivered (Free if join returned false)

memory == <<occupant, created, claimed>>
vars == <<occupant, created, claimed, deleted, detached, joinWait,
          joinData, existDeleted, pc, target, ret>>

Init ==
    /\ occupant = [a \in Addresses |-> IF a = Main THEN 0 ELSE Free]
    /\ created = 0
    /\ claimed = [a \in Addresses |-> {}]
    /\ deleted = [a \in Addresses |-> FALSE]
    /\ detached = [a \in Addresses |-> a = Main]
    /\ joinWait = [a \in Addresses |-> FALSE]
    /\ joinData = [a \in Addresses |-> NoThread]
    /\ existDeleted = FALSE
    /\ pc = [a \in Addresses |-> IF a = Main THEN "run" ELSE "none"]
    /\ target = [a \in Addresses |-> NoTarget]
    /\ ret = [id |-> Free, result |-> Free]

-----------------------------------------------------------------------------
\* IRQexists: in the lists of the scheduler and not isDeleted.
Exists(a) == occupant[a] # Free /\ ~(deleted[a] /\ detached[a])

\* PKremoveDeadThreads frees every thread that isDeleted.
\* Faulty variant: a thread that nobody joined yet is freed as well.
DeadAll == {a \in Addresses : occupant[a] # Free /\ deleted[a]}
Dead == {a \in Addresses : occupant[a] # Free /\ deleted[a] /\ detached[a]}

RemoveDeadThreads ==
    occupant' = [a \in Addresses |-> IF a \in Dead THEN Free ELSE occupant[a]]

\* The client calls op for the thread at a.
Claim(op, a) ==
    /\ occupant[a] # Free
    /\ Calls = "one" => claimed[a] = {}
    /\ Calls = "oneEach" => op \notin claimed[a]
    /\ claimed' = [claimed EXCEPT ![a] = IF Calls = "any" THEN {} ELSE @ \cup {op}]

\* Thread::create
Create(t, a, joinable) ==
    /\ pc[t] = "run"
    /\ occupant[a] = Free
    /\ Stale \/ \A u \in Addresses : pc[u] = "joining" => target[u].addr # a
    /\ created < MaxCreated
    /\ created' = created + 1
    /\ occupant' = [occupant EXCEPT ![a] = created + 1]
    /\ claimed' = [claimed EXCEPT ![a] = {}]
    /\ deleted' = [deleted EXCEPT ![a] = FALSE]
    /\ detached' = [detached EXCEPT ![a] = ~joinable]
    /\ joinWait' = [joinWait EXCEPT ![a] = FALSE]
    /\ joinData' = [joinData EXCEPT ![a] = NoThread]
    /\ pc' = [pc EXCEPT ![a] = "run"]
    /\ target' = [target EXCEPT ![a] = NoTarget]
    /\ UNCHANGED <<existDeleted, ret>>

\* The flags after the thread that joins a, if there is one, is woken.
\* Faulty variant: it is not.
JoinerWokenNot(a) == joinWait
JoinerWoken(a) == [u \in Addresses |-> joinWait[u] /\ u # joinData[a]]

\* threadLauncher, after the entry point has returned.
Exit(t) ==
    /\ pc[t] = "run" /\ t # Main
    /\ deleted' = [deleted EXCEPT ![t] = TRUE]
    /\ pc' = [pc EXCEPT ![t] = "none"]
    /\ \/ /\ ~detached[t]
          /\ joinWait' = JoinerWoken(t)
          /\ joinData' = [joinData EXCEPT ![t] = occupant[t]]
          /\ UNCHANGED existDeleted
       \/ /\ detached[t]
          /\ existDeleted' = TRUE
          /\ UNCHANGED <<joinWait, joinData>>
    /\ UNCHANGED <<memory, detached, target, ret>>

\* Thread::detach
\* Faulty variant: the idle thread is not told that there is memory to free.
DetachLeaves(a) == existDeleted
DetachTells(a) == existDeleted \/ deleted[a]

Detach(t, a) ==
    /\ pc[t] = "run"
    /\ Claim("detach", a)
    /\ detached' = [detached EXCEPT ![a] = TRUE]
    /\ existDeleted' = DetachTells(a)
    /\ joinWait' = IF deleted[a] THEN joinWait ELSE JoinerWoken(a)
    /\ UNCHANGED <<occupant, created, deleted, joinData, pc, target, ret>>

-----------------------------------------------------------------------------
\* Thread::join.

\* join(a), meant for the thread id, returns false to t.
Refused(t, id) ==
    /\ pc' = [pc EXCEPT ![t] = "run"]
    /\ target' = [target EXCEPT ![t] = NoTarget]
    /\ ret' = [id |-> id, result |-> Free]
    /\ UNCHANGED <<occupant, created, deleted, detached, joinWait, joinData,
                   existDeleted>>

\* The thread at a is deleted: take its result and let it be freed.
Completed(t, a, id) ==
    /\ detached' = [detached EXCEPT ![a] = TRUE]
    /\ ret' = [id |-> id, result |-> joinData[a]]
    /\ pc' = [pc EXCEPT ![t] = "remove"]
    /\ target' = [target EXCEPT ![t] = [addr |-> a, id |-> id]]
    /\ UNCHANGED <<occupant, created, deleted, joinWait, joinData, existDeleted>>

JoinRefused(t, a) ==
    /\ t = a \/ ~Exists(a) \/ detached[a] \/ (~deleted[a] /\ joinData[a] # NoThread)
    /\ Refused(t, occupant[a])

\* Faulty variant: the result is read although the thread may still run.
JoinCompletesEarly(t, a) ==
    /\ Exists(a) /\ ~detached[a]
    /\ Completed(t, a, occupant[a])
JoinCompletes(t, a) ==
    /\ Exists(a) /\ ~detached[a] /\ deleted[a]
    /\ Completed(t, a, occupant[a])

JoinWaits(t, a) ==
    /\ t # a /\ Exists(a) /\ ~detached[a] /\ ~deleted[a] /\ joinData[a] = NoThread
    /\ joinData' = [joinData EXCEPT ![a] = t]
    /\ joinWait' = [joinWait EXCEPT ![t] = TRUE]
    /\ pc' = [pc EXCEPT ![t] = "joining"]
    /\ target' = [target EXCEPT ![t] = [addr |-> a, id |-> occupant[a]]]
    /\ UNCHANGED <<occupant, created, deleted, detached, existDeleted, ret>>

Join(t, a) ==
    /\ pc[t] = "run"
    /\ Claim("join", a)
    /\ JoinRefused(t, a) \/ JoinCompletes(t, a) \/ JoinWaits(t, a)

\* What a thread woken in join finds at the address it waits for.
\* Faulty variant: the thread may have been detached meanwhile.
GoneExists(a) == ~Exists(a)
Gone(a) == ~Exists(a) \/ detached[a]

JoinResume(t) ==
    /\ pc[t] = "joining" /\ ~joinWait[t]
    /\ LET a == target[t].addr
           id == target[t].id
       IN \/ Gone(a) /\ Refused(t, id)
          \/ ~Gone(a) /\ deleted[a] /\ Completed(t, a, id)
          \/ /\ ~Gone(a) /\ ~deleted[a]
             /\ joinWait' = [joinWait EXCEPT ![t] = TRUE]
             /\ UNCHANGED <<occupant, created, deleted, detached, joinData,
                            existDeleted, pc, target, ret>>
    /\ UNCHANGED claimed

JoinRemove(t) ==
    /\ pc[t] = "remove"
    /\ RemoveDeadThreads
    /\ pc' = [pc EXCEPT ![t] = "run"]
    /\ target' = [target EXCEPT ![t] = NoTarget]
    /\ UNCHANGED <<created, claimed, deleted, detached, joinWait, joinData,
                   existDeleted, ret>>

\* One turn of idleThread, which runs only when no thread is ready: a thread
\* on its way out of join is.
Idle ==
    /\ existDeleted
    /\ \A t \in Addresses : pc[t] = "joining" => joinWait[t]
    /\ \A t \in Addresses : pc[t] # "remove"
    /\ existDeleted' = FALSE
    /\ RemoveDeadThreads
    /\ UNCHANGED <<created, claimed, deleted, detached, joinWait, joinData,
                   pc, target, ret>>

Next ==
    \/ \E t \in Addresses : Exit(t) \/ JoinResume(t) \/ JoinRemove(t)
    \/ \E t, a \in Addresses : Detach(t, a) \/ Join(t, a)
    \/ \E t, a \in Addresses, joinable \in BOOLEAN : Create(t, a, joinable)
    \/ Idle

Spec == Init /\ [][Next]_vars

\* A thread that is ready runs.
FairSpec ==
    Spec /\ \A t \in Addresses : WF_vars(JoinResume(t)) /\ WF_vars(JoinRemove(t))

-----------------------------------------------------------------------------

Targets == [addr : Addresses, id : 0..MaxCreated] \cup {NoTarget}

TypeOK ==
    /\ occupant \in [Addresses -> 0..MaxCreated \cup {Free}]
    /\ created \in 0..MaxCreated
    /\ claimed \in [Addresses -> SUBSET {"join", "detach"}]
    /\ {deleted, detached, joinWait} \subseteq [Addresses -> BOOLEAN]
    /\ joinData \in [Addresses -> Addresses \cup {NoThread} \cup 0..MaxCreated]
    /\ existDeleted \in BOOLEAN
    /\ pc \in [Addresses -> {"none", "run", "joining", "remove"}]
    /\ target \in [Addresses -> Targets]
    /\ ret \in [id : 0..MaxCreated \cup {Free}, result : 0..MaxCreated \cup {Free}]

\* A thread asleep in join waits for the thread it meant, which is still
\* running and knows whom to wake when it ends or is detached.
NoLostJoin ==
    \A t \in Addresses :
        joinWait[t] =>
            LET a == target[t].addr
            IN /\ a # NoThread /\ occupant[a] = target[t].id
               /\ joinData[a] = t
               /\ ~deleted[a] /\ ~detached[a]

\* join returns true only with the result of the thread it was called for.
JoinDelivers == ret.result # Free => ret.result = ret.id

\* The memory of a thread that ended and needs no join is never forgotten:
\* the idle thread or a join about to return is going to free it.
NoLeak == Dead # {} => existDeleted \/ \E t \in Addresses : pc[t] = "remove"

\* A join returns once the thread it is for has ended or was detached.
JoinReturns ==
    \A t \in Addresses :
        pc[t] = "joining" /\ (LET a == target[t].addr
                              IN occupant[a] # target[t].id \/ deleted[a] \/ detached[a])
            ~> pc[t] = "run"

=============================================================================
