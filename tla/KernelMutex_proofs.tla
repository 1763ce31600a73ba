------------------------- MODULE KernelMutex_proofs -------------------------
(***************************************************************************)
(* Machine-checked proofs about KernelMutex, for any number of threads,    *)
(* mutexes and priority levels and any nesting discipline: the invariant,  *)
(* who is handed a mutex, what a thread inherits, and when clients cannot  *)
(* deadlock.  What needs more than the assumption of the module (finitely  *)
(* many threads, an order of locking) says so in its ASSUME.               *)
(***************************************************************************)
EXTENDS KernelMutex, SequenceTheorems, FiniteSetTheorems, TLAPS

-----------------------------------------------------------------------------
\* The inductive invariant.

\* Types of what Acquire, Enqueue and Release write.
SharedOK ==
    /\ owner \in [Mutexes -> Threads \cup {NoThread}]
    /\ waiting \in [Mutexes -> SUBSET Threads]
    /\ front \in [Mutexes -> Threads \cup {NoThread}]
    /\ mutexLocked \in [Threads -> SUBSET Mutexes]
    /\ mutexWaiting \in [Threads -> Mutexes \cup {NoMutex}]
    /\ priority \in [Threads -> Priorities]
    /\ savedPriority \in [Threads -> Priorities \cup {0}]
    /\ waitFlag \in [Threads -> BOOLEAN]
    /\ kernel \in {"running", "stuck", "reboot"}
    /\ base \in [Threads -> Priorities]

\* Types of the rest.
LocalOK ==
    /\ recursiveDepth \in [Mutexes -> -1..MaxDepth]
    /\ \A m \in Mutexes : m \in Recursive <=> recursiveDepth[m] # -1
    /\ condFlag \in [Threads -> BOOLEAN]
    /\ condQueue \in Seq(Threads)
    /\ pc \in [Threads -> {"run", "lock", "cond", "relock"}]
    /\ target \in [Threads -> Mutexes \cup {NoMutex}]
    /\ heldDepth \in [Threads -> 0..MaxDepth]
    /\ entries \in [Threads -> [Mutexes -> Int]]

\* The root of a heap is one of the threads in it.
RootQueued ==
    \A m \in Mutexes :
        IF waiting[m] = {} THEN front[m] = NoThread ELSE front[m] \in waiting[m]

Structure == HeldExactlyByOwner /\ WaitersWaitForAnOwner /\ RootQueued

\* Where a thread is agrees with what it waits for.
Places ==
    \A t \in Threads :
        /\ pc[t] \in {"run", "cond"} => mutexWaiting[t] = NoMutex
        /\ pc[t] \in {"lock", "relock"} =>
              /\ target[t] \in Mutexes
              /\ \/ mutexWaiting[t] = target[t]
                 \/ mutexWaiting[t] = NoMutex /\ owner[target[t]] = t
        /\ pc[t] = "relock" => target[t] = CvMutex
        /\ waitFlag[t] => pc[t] \in {"lock", "relock"} /\ mutexWaiting[t] = target[t]
        /\ condFlag[t] => pc[t] = "cond"

\* The list of the condition variable names each sleeper once, and only the
\* mutex it is used with is released to sleep on it.
CondList ==
    /\ \A t \in Threads : pc[t] = "cond" => CvMutex \in Mutexes
    /\ \A i, j \in DOMAIN condQueue : condQueue[i] = condQueue[j] => i = j
    /\ \A t \in Threads : condFlag[t] <=> \E i \in DOMAIN condQueue : condQueue[i] = t

Shared == SharedOK /\ Structure /\ BaseRestored
IInv   == Shared /\ LocalOK /\ Places /\ CondList

LEMMA TypeSplit == TypeOK <=> SharedOK /\ LocalOK
BY DEF TypeOK, SharedOK, LocalOK

-----------------------------------------------------------------------------
\* What the three operations on a mutex do to the shared state.

\* Every owner the inheritance walk visits holds a mutex.
LEMMA ChainHolds ==
    ASSUME Shared, NEW o \in Threads, mutexLocked[o] # {}, NEW u \in Chain(o)
    PROVE  u \in Threads /\ mutexLocked[u] # {}
<1> DEFINE S == {x \in Threads : mutexLocked[x] # {}}
<1>1. o \in S
  OBVIOUS
<1>2. Closed(S)
  <2> SUFFICES ASSUME NEW x \in S, mutexWaiting[x] # NoMutex
               PROVE  owner[mutexWaiting[x]] \in S
    BY DEF Closed
  <2>1. mutexWaiting[x] \in Mutexes
    BY DEF Shared, SharedOK
  <2>2. x \in waiting[mutexWaiting[x]] /\ owner[mutexWaiting[x]] # NoThread
    BY <2>1 DEF Shared, Structure, WaitersWaitForAnOwner
  <2>3. owner[mutexWaiting[x]] \in Threads
    BY <2>1, <2>2 DEF Shared, SharedOK
  <2>4. mutexWaiting[x] \in mutexLocked[owner[mutexWaiting[x]]]
    BY <2>1, <2>3 DEF Shared, Structure, HeldExactlyByOwner
  <2> QED BY <2>3, <2>4
<1>3. u \in S
  <2> HIDE DEF S
  <2>1. S \in SUBSET Threads
    BY DEF S
  <2> QED BY <1>1, <1>2, <2>1 DEF Chain
<1> QED BY <1>3

\* A thread that waits for nothing takes a free mutex.
LEMMA AcquireShared ==
    ASSUME Shared, NEW t \in Threads, NEW m \in Mutexes, Acquire(t, m)
    PROVE  /\ Shared'
           /\ \A h \in Mutexes : owner[h] # NoThread => owner'[h] = owner[h]
<1> USE MutexAssumption DEF Shared, Acquire, heaps
<1>1. SharedOK'
  BY DEF SharedOK, SavedOnAcquire
<1>2. waiting[m] = {}
  BY DEF SharedOK, Structure, WaitersWaitForAnOwner
<1>3. HeldExactlyByOwner'
  BY DEF SharedOK, Structure, HeldExactlyByOwner
<1>4. WaitersWaitForAnOwner'
  BY <1>2 DEF SharedOK, Structure, WaitersWaitForAnOwner
<1>5. RootQueued'
  BY DEF Structure, RootQueued
<1>6. BaseRestored'
  BY DEF SharedOK, BaseRestored, SavedOnAcquire
<1>7. \A h \in Mutexes : owner[h] # NoThread => owner'[h] = owner[h]
  BY DEF SharedOK
<1> QED BY <1>1, <1>3, <1>4, <1>5, <1>6, <1>7 DEF Structure

\* A thread that waits for nothing joins the heap of an owned mutex.
LEMMA EnqueueShared ==
    ASSUME Shared, NEW t \in Threads, NEW m \in Mutexes, Enqueue(t, m),
           mutexWaiting[t] = NoMutex
    PROVE  Shared'
<1> USE MutexAssumption DEF Shared
<1> DEFINE o        == owner[m]
           inherits == priority[t] > priority[o]
           pr       == IF inherits THEN Walk(t, o) ELSE priority
           pushed   == IF waiting[m] = {} \/ priority[t] > priority[front[m]]
                          THEN t ELSE front[m]
<1>1. o \in Threads /\ o # t /\ mutexLocked[o] # {}
  BY DEF Enqueue, SharedOK, Structure, HeldExactlyByOwner
<1>2. PICK roots \in [IF inherits THEN Rebuilt(o) ELSE {} -> Threads] :
         /\ \A r \in DOMAIN roots : roots[r] \in Foremost(waiting'[r], pr)
         /\ front' = [h \in Mutexes |-> IF h \in DOMAIN roots THEN roots[h]
                                        ELSE IF h = m THEN pushed
                                        ELSE front[h]]
  BY DEF Enqueue
<1>3. /\ waiting' = [waiting EXCEPT ![m] = @ \cup {t}]
      /\ mutexWaiting' = [mutexWaiting EXCEPT ![t] = m]
      /\ priority' = pr
      /\ waitFlag' = [waitFlag EXCEPT ![t] = TRUE]
      /\ kernel' \in {kernel, "stuck"}
      /\ UNCHANGED <<owner, mutexLocked, savedPriority, base>>
  BY DEF Enqueue
<1>4. pr \in [Threads -> Priorities]
  BY <1>1 DEF SharedOK, Walk
<1>5. pushed \in waiting[m] \cup {t}
  BY DEF Structure, RootQueued
<1>6. \A h \in DOMAIN roots : roots[h] \in waiting'[h]
  BY <1>2 DEF Foremost
<1>7. SharedOK'
  <2>1. front' \in [Mutexes -> Threads \cup {NoThread}]
    <3>1. \A h \in DOMAIN roots : h \in Mutexes => roots[h] \in Threads
      BY <1>3, <1>6 DEF SharedOK
    <3> QED BY <1>2, <1>5, <3>1 DEF SharedOK
  <2> QED BY <1>3, <1>4, <2>1 DEF SharedOK
<1>8. HeldExactlyByOwner'
  BY <1>3 DEF Structure, HeldExactlyByOwner
<1>9. WaitersWaitForAnOwner'
  BY <1>1, <1>3 DEF SharedOK, Structure, WaitersWaitForAnOwner
<1>10. RootQueued'
  <2> SUFFICES ASSUME NEW h \in Mutexes
               PROVE  IF waiting'[h] = {} THEN front'[h] = NoThread
                                          ELSE front'[h] \in waiting'[h]
    BY DEF RootQueued
  <2>1. CASE h = m
    BY <2>1, <1>2, <1>3, <1>5, <1>6 DEF SharedOK
  <2>2. CASE h # m
    BY <2>2, <1>2, <1>3, <1>6 DEF SharedOK, Structure, RootQueued
  <2> QED BY <2>1, <2>2
<1>11. BaseRestored'
  <2> SUFFICES ASSUME NEW u \in Threads, mutexLocked[u] = {}
               PROVE  pr[u] = priority[u]
    BY <1>3 DEF BaseRestored
  <2>1. u \notin Chain(o)
    BY <1>1, ChainHolds
  <2> QED BY <2>1 DEF Walk, SharedOK
<1> QED BY <1>7, <1>8, <1>9, <1>10, <1>11 DEF Structure

\* The owner gives up a mutex, and the root of the heap takes it.
LEMMA ReleaseShared ==
    ASSUME Shared, NEW t \in Threads, NEW m \in Mutexes, owner[m] = t, Release(t, m)
    PROVE  /\ Shared'
           /\ \A h \in Mutexes : h # m => owner'[h] = owner[h]
           /\ \A u \in Threads :
                 \/ mutexWaiting'[u] = mutexWaiting[u] /\ waitFlag'[u] = waitFlag[u]
                 \/ /\ mutexWaiting[u] = m /\ mutexWaiting'[u] = NoMutex
                    /\ ~waitFlag'[u] /\ owner'[m] = u
<1> USE MutexAssumption DEF Shared
<1>1. mutexLocked[t] # {} /\ savedPriority[t] = base[t]
  BY DEF Structure, HeldExactlyByOwner, BaseRestored
<1>2. PICK p \in Highest(Offered(savedPriority[t], Remaining(t, m))) :
         IF waiting[m] = {}
           THEN /\ owner' = [owner EXCEPT ![m] = NoThread]
                /\ mutexLocked' = [mutexLocked EXCEPT ![t] = Remaining(t, m)]
                /\ priority' = [priority EXCEPT ![t] = p]
                /\ UNCHANGED <<heaps, mutexWaiting, savedPriority, waitFlag>>
           ELSE LET n    == front[m]
                    rest == HeapLess(m, n)
                IN \E r \in RootOf(rest, priority) :
                   /\ owner' = [owner EXCEPT ![m] = n]
                   /\ waiting' = [waiting EXCEPT ![m] = rest]
                   /\ front' = [front EXCEPT ![m] = r]
                   /\ mutexWaiting' = NoLongerWaiting(n)
                   /\ waitFlag' = Woken(n)
                   /\ savedPriority' = [savedPriority EXCEPT ![n] = SavedOnAcquire(n)]
                   /\ mutexLocked' = [mutexLocked EXCEPT ![t] = Remaining(t, m),
                                                         ![n] = @ \cup {m}]
                   /\ priority' = [priority EXCEPT ![t] = p,
                                                   ![n] = HeirPriority(n, r)]
  BY DEF Release
<1>3. UNCHANGED <<kernel, base>>
  BY DEF Release
<1>4. p \in Priorities
  <2>1. Remaining(t, m) \subseteq Mutexes
    BY DEF Remaining, SharedOK
  <2>2. \A h \in Remaining(t, m) : waiting[h] # {} => priority[front[h]] \in Priorities
    BY <2>1 DEF Structure, RootQueued, SharedOK
  <2>3. savedPriority[t] \in Priorities
    BY <1>1 DEF SharedOK
  <2> QED BY <2>2, <2>3 DEF Highest, Offered
<1>5. Remaining(t, m) = {} => p = base[t]
  BY <1>1 DEF Highest, Offered
<1>6. CASE waiting[m] = {}
  <2>1. /\ owner' = [owner EXCEPT ![m] = NoThread]
        /\ mutexLocked' = [mutexLocked EXCEPT ![t] = mutexLocked[t] \ {m}]
        /\ priority' = [priority EXCEPT ![t] = p]
        /\ UNCHANGED <<waiting, front, mutexWaiting, savedPriority, waitFlag>>
    BY <1>2, <1>6 DEF Remaining, heaps
  <2>2. SharedOK'
    BY <1>3, <1>4, <2>1 DEF SharedOK
  <2>3. HeldExactlyByOwner'
    BY <2>1 DEF SharedOK, Structure, HeldExactlyByOwner
  <2>4. WaitersWaitForAnOwner' /\ RootQueued'
    BY <1>6, <2>1 DEF SharedOK, Structure, WaitersWaitForAnOwner, RootQueued
  <2>5. BaseRestored'
    BY <1>1, <1>3, <1>5, <2>1 DEF SharedOK, BaseRestored, Remaining
  <2> QED BY <2>1, <2>2, <2>3, <2>4, <2>5 DEF Structure, SharedOK
<1>7. CASE waiting[m] # {}
  <2> DEFINE n == front[m]
  <2>1. PICK r \in RootOf(HeapLess(m, n), priority) :
           /\ owner' = [owner EXCEPT ![m] = n]
           /\ waiting' = [waiting EXCEPT ![m] = waiting[m] \ {n}]
           /\ front' = [front EXCEPT ![m] = r]
           /\ mutexWaiting' = [mutexWaiting EXCEPT ![n] = NoMutex]
           /\ waitFlag' = [waitFlag EXCEPT ![n] = FALSE]
           /\ savedPriority' = [savedPriority EXCEPT ![n] = SavedOnAcquire(n)]
           /\ mutexLocked' = [mutexLocked EXCEPT ![t] = mutexLocked[t] \ {m},
                                                 ![n] = @ \cup {m}]
           /\ priority' = [priority EXCEPT ![t] = p, ![n] = HeirPriority(n, r)]
    BY <1>2, <1>7 DEF Remaining, HeapLess, NoLongerWaiting, Woken
  <2>2. n \in waiting[m] /\ n \in Threads /\ n # t /\ mutexWaiting[n] = m
    BY <1>7 DEF SharedOK, Structure, RootQueued, WaitersWaitForAnOwner
  <2>3. /\ waiting[m] \ {n} = {} => r = NoThread
        /\ waiting[m] \ {n} # {} => r \in waiting[m] \ {n}
    BY <2>1 DEF RootOf, Foremost, HeapLess
  <2>4. r \in Threads \cup {NoThread}
    BY <2>3 DEF SharedOK
  <2>5. HeirPriority(n, r) \in Priorities
    BY <2>2, <2>4 DEF HeirPriority, SharedOK
  <2>6. SavedOnAcquire(n) \in Priorities \cup {0}
    BY <2>2 DEF SavedOnAcquire, SharedOK
  <2>7. SharedOK'
    BY <1>3, <1>4, <2>1, <2>2, <2>4, <2>5, <2>6 DEF SharedOK
  <2>8. HeldExactlyByOwner'
    BY <2>1, <2>2 DEF SharedOK, Structure, HeldExactlyByOwner
  <2>9. WaitersWaitForAnOwner'
    BY <2>1, <2>2 DEF SharedOK, Structure, WaitersWaitForAnOwner
  <2>10. RootQueued'
    BY <2>1, <2>3 DEF SharedOK, Structure, RootQueued
  <2>11. BaseRestored'
    <3> SUFFICES ASSUME NEW u \in Threads
                 PROVE  IF mutexLocked'[u] = {} THEN priority'[u] = base[u]
                                                ELSE savedPriority'[u] = base[u]
      BY <1>3 DEF BaseRestored
    <3>1. CASE u = t
      BY <3>1, <1>1, <1>5, <2>1, <2>2 DEF SharedOK, Remaining
    <3>2. CASE u = n
      BY <3>2, <2>1, <2>2 DEF SharedOK, BaseRestored, SavedOnAcquire
    <3>3. CASE u \notin {t, n}
      BY <3>3, <2>1, <2>2 DEF SharedOK, BaseRestored
    <3> QED BY <3>1, <3>2, <3>3
  <2>12. \A u \in Threads :
            \/ mutexWaiting'[u] = mutexWaiting[u] /\ waitFlag'[u] = waitFlag[u]
            \/ /\ mutexWaiting[u] = m /\ mutexWaiting'[u] = NoMutex
               /\ ~waitFlag'[u] /\ owner'[m] = u
    BY <2>1, <2>2 DEF SharedOK
  <2>13. \A h \in Mutexes : h # m => owner'[h] = owner[h]
    BY <2>1 DEF SharedOK
  <2> QED BY <2>7, <2>8, <2>9, <2>10, <2>11, <2>12, <2>13 DEF Structure
<1> QED BY <1>6, <1>7

-----------------------------------------------------------------------------
\* The invariant holds initially and every action keeps it.

LEMMA InitIInv == Init => IInv
<1> SUFFICES ASSUME Init PROVE IInv
  OBVIOUS
<1> USE MutexAssumption DEF Init
<1>1. SharedOK
  BY DEF SharedOK
<1>2. LocalOK
  BY DEF LocalOK
<1>3. Structure /\ BaseRestored
  BY DEF Structure, HeldExactlyByOwner, WaitersWaitForAnOwner, RootQueued, BaseRestored
<1>4. Places /\ CondList
  BY DEF Places, CondList
<1> QED BY <1>1, <1>2, <1>3, <1>4 DEF IInv, Shared

\* Counting a lock() or an unlock() keeps the type of the count.
LEMMA EntryCount ==
    ASSUME LocalOK, NEW t \in Threads, NEW m \in Mutexes
    PROVE  /\ [entries EXCEPT ![t][m] = @ + 1] \in [Threads -> [Mutexes -> Int]]
           /\ [entries EXCEPT ![t][m] = @ - 1] \in [Threads -> [Mutexes -> Int]]
<1>1. entries[t] \in [Mutexes -> Int]
  BY DEF LocalOK
<1>2. /\ [entries[t] EXCEPT ![m] = @ + 1] \in [Mutexes -> Int]
      /\ [entries[t] EXCEPT ![m] = @ - 1] \in [Mutexes -> Int]
  BY <1>1
<1> QED BY <1>2 DEF LocalOK

LEMMA LockFreeStep ==
    ASSUME IInv, NEW t \in Threads, NEW m \in Mutexes, LockFree(t, m)
    PROVE  IInv'
<1> USE DEF IInv, LockFree, queues
<1>1. Shared' /\ \A h \in Mutexes : owner[h] # NoThread => owner'[h] = owner[h]
  BY AcquireShared
<1>2. LocalOK'
  BY DEF LocalOK
<1>3. Places'
  <2>1. \A u \in Threads : owner[target[u]] = u /\ target[u] \in Mutexes => owner'[target[u]] = u
    BY <1>1, MutexAssumption
  <2> QED BY <2>1 DEF Places, Acquire
<1>4. CondList'
  BY DEF CondList
<1> QED BY <1>1, <1>2, <1>3, <1>4

LEMMA LockOwnedStep ==
    ASSUME IInv, NEW t \in Threads, NEW m \in Mutexes, LockOwned(t, m)
    PROVE  IInv'
<1> USE MutexAssumption DEF IInv, Shared, LockOwned, queues, prios, heaps
<1>1. Shared'
  <2>1. SharedOK'
    BY DEF SharedOK
  <2> QED BY <2>1 DEF Structure, HeldExactlyByOwner, WaitersWaitForAnOwner,
                      RootQueued, BaseRestored
<1>2. LocalOK'
  <2>1. entries' \in [Threads -> [Mutexes -> Int]]
    <3>1. entries' \in {entries, [entries EXCEPT ![t][m] = @ + 1]}
      OBVIOUS
    <3>2. [entries EXCEPT ![t][m] = @ + 1] \in [Threads -> [Mutexes -> Int]]
      BY EntryCount
    <3> QED BY <3>1, <3>2 DEF LocalOK
  <2>2. CASE /\ m \in Recursive /\ recursiveDepth[m] < MaxDepth
             /\ recursiveDepth' = [recursiveDepth EXCEPT ![m] = @ + 1]
    BY SMTT(20), <2>1, <2>2 DEF LocalOK
  <2>3. CASE UNCHANGED recursiveDepth
    BY <2>1, <2>3 DEF LocalOK
  <2> QED BY <2>2, <2>3
<1>3. Places' /\ CondList'
  BY DEF Places, CondList
<1> QED BY <1>1, <1>2, <1>3

LEMMA LockBlockStep ==
    ASSUME IInv, NEW t \in Threads, NEW m \in Mutexes, LockBlock(t, m)
    PROVE  IInv'
<1> USE DEF IInv, LockBlock, queues
<1>1. mutexWaiting[t] = NoMutex
  BY DEF Places, Running
<1>2. Shared'
  BY <1>1, EnqueueShared
<1>3. LocalOK'
  BY DEF LocalOK, Enqueue
<1>4. Places'
  BY MutexAssumption DEF Places, Enqueue, LocalOK, Shared, SharedOK, Running
<1>5. CondList'
  BY DEF CondList
<1> QED BY <1>2, <1>3, <1>4, <1>5

LEMMA LockResumeStep ==
    ASSUME IInv, NEW t \in Threads, LockResume(t)
    PROVE  IInv'
<1> USE MutexAssumption DEF IInv, Shared, LockResume, queues, prios, heaps
<1>1. Shared'
  <2>1. SharedOK'
    BY DEF SharedOK
  <2> QED BY <2>1 DEF Structure, HeldExactlyByOwner, WaitersWaitForAnOwner,
                      RootQueued, BaseRestored
<1>2. target[t] \in Mutexes /\ (owner[target[t]] = t => mutexWaiting[t] = NoMutex)
  <2>1. target[t] \in Mutexes /\ mutexWaiting[t] \in {NoMutex, target[t]}
    BY DEF Places
  <2>2. mutexWaiting[t] = target[t] => owner[target[t]] # t
    BY <2>1 DEF Structure, WaitersWaitForAnOwner
  <2> QED BY <2>1, <2>2
<1>3. LocalOK'
  <2>1. entries' \in [Threads -> [Mutexes -> Int]]
    <3>1. entries' \in {entries, [entries EXCEPT ![t][target[t]] = @ + 1]}
      OBVIOUS
    <3>2. [entries EXCEPT ![t][target[t]] = @ + 1] \in [Threads -> [Mutexes -> Int]]
      BY <1>2, EntryCount
    <3> QED BY <3>1, <3>2 DEF LocalOK
  <2> QED BY <2>1 DEF LocalOK
<1>4. Places'
  <2>1. CASE owner[target[t]] = t
    <3>1. /\ pc' = [pc EXCEPT ![t] = "run"]
          /\ target' = [target EXCEPT ![t] = NoMutex]
          /\ UNCHANGED <<waitFlag, condFlag, mutexWaiting, owner>>
      BY <2>1
    <3> QED BY SMTT(20), <1>2, <2>1, <3>1 DEF Places, LocalOK
  <2>2. CASE owner[target[t]] # t
    <3>1. /\ waitFlag' = [waitFlag EXCEPT ![t] = TRUE]
          /\ UNCHANGED <<pc, target, condFlag, mutexWaiting, owner>>
      BY <2>2
    <3>2. mutexWaiting[t] = target[t]
      BY <2>2 DEF Places
    <3> QED BY <2>2, <3>1, <3>2 DEF Places, SharedOK
  <2> QED BY <2>1, <2>2
<1>5. CondList'
  <2>1. \A u \in Threads : pc'[u] = "cond" => pc[u] = "cond"
    BY DEF LocalOK
  <2> QED BY <2>1 DEF CondList
<1> QED BY <1>1, <1>3, <1>4, <1>5

\* What a release does to the places of the threads that do not take part.
LEMMA ReleasePlaces ==
    ASSUME IInv, NEW t \in Threads, NEW m \in Mutexes, owner[m] = t, Release(t, m),
           pc[t] = "run", UNCHANGED target,
           NEW u \in Threads, u # t, pc'[u] = pc[u], condFlag'[u] = condFlag[u]
    PROVE  /\ pc'[u] \in {"run", "cond"} => mutexWaiting'[u] = NoMutex
           /\ pc'[u] \in {"lock", "relock"} =>
                 /\ target'[u] \in Mutexes
                 /\ \/ mutexWaiting'[u] = target'[u]
                    \/ mutexWaiting'[u] = NoMutex /\ owner'[target'[u]] = u
           /\ pc'[u] = "relock" => target'[u] = CvMutex
           /\ waitFlag'[u] => pc'[u] \in {"lock", "relock"} /\ mutexWaiting'[u] = target'[u]
           /\ condFlag'[u] => pc'[u] = "cond"
<1> USE MutexAssumption DEF IInv
<1>1. /\ \A h \in Mutexes : h # m => owner'[h] = owner[h]
      /\ \/ mutexWaiting'[u] = mutexWaiting[u] /\ waitFlag'[u] = waitFlag[u]
         \/ /\ mutexWaiting[u] = m /\ mutexWaiting'[u] = NoMutex
            /\ ~waitFlag'[u] /\ owner'[m] = u
  BY ReleaseShared
<1>2. CASE mutexWaiting'[u] = mutexWaiting[u] /\ waitFlag'[u] = waitFlag[u]
  <2>1. owner[target[u]] = u => target[u] # m
    OBVIOUS
  <2> QED BY <1>1, <1>2, <2>1 DEF Places
<1>3. CASE /\ mutexWaiting[u] = m /\ mutexWaiting'[u] = NoMutex
           /\ ~waitFlag'[u] /\ owner'[m] = u
  <2>1. mutexWaiting[u] # NoMutex
    BY <1>3
  <2>2. pc[u] \in {"run", "lock", "cond", "relock"}
    BY DEF LocalOK
  <2>3. /\ pc[u] \in {"lock", "relock"} /\ target[u] = m
        /\ pc[u] = "relock" => target[u] = CvMutex
        /\ condFlag[u] => pc[u] = "cond"
    BY <1>3, <2>1, <2>2 DEF Places
  <2> QED BY <1>3, <2>3
<1> QED BY <1>1, <1>2, <1>3

\* The thread that releases waits for nothing.
LEMMA ReleaseSelf ==
    ASSUME IInv, NEW t \in Threads, NEW m \in Mutexes, owner[m] = t, Release(t, m),
           pc[t] = "run"
    PROVE  mutexWaiting'[t] = NoMutex /\ ~waitFlag'[t]
<1>1. mutexWaiting[t] = NoMutex /\ ~waitFlag[t]
  BY DEF IInv, Places
<1> QED BY <1>1, ReleaseShared, MutexAssumption DEF IInv

LEMMA UnlockStep ==
    ASSUME IInv, NEW t \in Threads, NEW m \in Mutexes, Unlock(t, m)
    PROVE  IInv'
<1> USE MutexAssumption DEF IInv, Unlock, Running, queues
<1>1. CASE recursiveDepth[m] > 0
  <2> USE <1>1 DEF prios, heaps, Shared
  <2>1. Shared'
    <3>1. SharedOK'
      BY DEF SharedOK
    <3> QED BY <3>1 DEF Structure, HeldExactlyByOwner, WaitersWaitForAnOwner,
                        RootQueued, BaseRestored
  <2>2. LocalOK'
    <3>1. entries' \in [Threads -> [Mutexes -> Int]]
      BY EntryCount
    <3>2. recursiveDepth' = [recursiveDepth EXCEPT ![m] = @ - 1]
      OBVIOUS
    <3>3. recursiveDepth[m] \in 1..MaxDepth /\ m \in Recursive
      BY DEF LocalOK
    <3>4. recursiveDepth[m] - 1 \in -1..MaxDepth /\ recursiveDepth[m] - 1 # -1
      BY <3>3
    <3>5. /\ recursiveDepth' \in [Mutexes -> -1..MaxDepth]
          /\ \A h \in Mutexes : h \in Recursive <=> recursiveDepth'[h] # -1
      BY <3>2, <3>3, <3>4 DEF LocalOK
    <3> QED BY <3>1, <3>5 DEF LocalOK
  <2>3. Places' /\ CondList'
    BY DEF Places, CondList
  <2> QED BY <2>1, <2>2, <2>3
<1>2. CASE ~(recursiveDepth[m] > 0)
  <2>1. Release(t, m) /\ owner[m] = t /\ pc[t] = "run"
    BY <1>2
  <2>2. Shared'
    BY <2>1, ReleaseShared
  <2>3. LocalOK'
    <3>1. entries' \in [Threads -> [Mutexes -> Int]]
      BY EntryCount
    <3> QED BY <1>2, <3>1 DEF LocalOK
  <2>4. mutexWaiting'[t] = NoMutex /\ ~waitFlag'[t]
    BY <2>1, ReleaseSelf
  <2>5. Places'
    <3>1. pc' = pc /\ target' = target /\ condFlag' = condFlag
      OBVIOUS
    <3>2. ~condFlag[t]
      BY <2>1 DEF Places
    <3> SUFFICES ASSUME NEW u \in Threads, u # t
                 PROVE  /\ pc'[u] \in {"run", "cond"} => mutexWaiting'[u] = NoMutex
                        /\ pc'[u] \in {"lock", "relock"} =>
                              /\ target'[u] \in Mutexes
                              /\ \/ mutexWaiting'[u] = target'[u]
                                 \/ mutexWaiting'[u] = NoMutex /\ owner'[target'[u]] = u
                        /\ pc'[u] = "relock" => target'[u] = CvMutex
                        /\ waitFlag'[u] => pc'[u] \in {"lock", "relock"} /\ mutexWaiting'[u] = target'[u]
                        /\ condFlag'[u] => pc'[u] = "cond"
      BY <2>1, <2>4, <3>1, <3>2 DEF Places
    <3> QED BY <2>1, <3>1, ReleasePlaces
  <2>6. CondList'
    BY DEF CondList
  <2> QED BY <2>2, <2>3, <2>5, <2>6
<1> QED BY <1>1, <1>2

LEMMA CondWaitStep ==
    ASSUME IInv, NEW t \in Threads, CondWait(t)
    PROVE  IInv'
<1> USE MutexAssumption DEF IInv, CondWait, Running
<1> DEFINE m == CvMutex
<1>1. m \in Mutexes /\ Release(t, m) /\ owner[m] = t /\ pc[t] = "run"
  OBVIOUS
<1>2. Shared'
  BY <1>1, ReleaseShared
<1>3. ~condFlag[t] /\ \A i \in DOMAIN condQueue : condQueue[i] # t
  BY <1>1 DEF Places, CondList
<1>4. LocalOK'
  <2>1. recursiveDepth' = [recursiveDepth EXCEPT ![m] = DepthReleased(m)]
    OBVIOUS
  <2>2. /\ recursiveDepth' \in [Mutexes -> -1..MaxDepth]
        /\ \A h \in Mutexes : h \in Recursive <=> recursiveDepth'[h] # -1
    BY <1>1, <2>1 DEF LocalOK, DepthReleased
  <2>3. heldDepth' \in [Threads -> 0..MaxDepth]
    <3>1. m \in Recursive => recursiveDepth[m] \in 0..MaxDepth
      BY <1>1 DEF LocalOK
    <3> QED BY <3>1 DEF LocalOK
  <2>4. condQueue' \in Seq(Threads) /\ condFlag' \in [Threads -> BOOLEAN]
    BY DEF LocalOK
  <2> QED BY <2>2, <2>3, <2>4 DEF LocalOK
<1>5. Places'
  <2>1. mutexWaiting'[t] = NoMutex /\ ~waitFlag'[t]
    BY <1>1, ReleaseSelf
  <2>2. pc'[t] = "cond" /\ UNCHANGED target
    BY DEF LocalOK
  <2>3. \A u \in Threads : u # t => pc'[u] = pc[u] /\ condFlag'[u] = condFlag[u]
    BY DEF LocalOK
  <2> SUFFICES ASSUME NEW u \in Threads, u # t
               PROVE  /\ pc'[u] \in {"run", "cond"} => mutexWaiting'[u] = NoMutex
                      /\ pc'[u] \in {"lock", "relock"} =>
                            /\ target'[u] \in Mutexes
                            /\ \/ mutexWaiting'[u] = target'[u]
                               \/ mutexWaiting'[u] = NoMutex /\ owner'[target'[u]] = u
                      /\ pc'[u] = "relock" => target'[u] = CvMutex
                      /\ waitFlag'[u] => pc'[u] \in {"lock", "relock"} /\ mutexWaiting'[u] = target'[u]
                      /\ condFlag'[u] => pc'[u] = "cond"
    BY <2>1, <2>2 DEF Places
  <2>4. pc'[u] = pc[u] /\ condFlag'[u] = condFlag[u]
    BY <2>3
  <2> QED BY <1>1, <2>2, <2>4, ReleasePlaces
<1>6. CondList'
  <2>1. condQueue \in Seq(Threads) /\ condFlag \in [Threads -> BOOLEAN]
    BY DEF LocalOK
  <2>2. condQueue' = Append(condQueue, t) /\ condFlag' = [condFlag EXCEPT ![t] = TRUE]
    OBVIOUS
  <2>3. /\ DOMAIN condQueue = 1..Len(condQueue) /\ Len(condQueue) \in Nat
        /\ DOMAIN condQueue' = 1..(Len(condQueue) + 1)
        /\ condQueue'[Len(condQueue) + 1] = t
        /\ \A i \in 1..Len(condQueue) : condQueue'[i] = condQueue[i]
    BY <2>1, <2>2
  <2>4. \A i, j \in DOMAIN condQueue' : condQueue'[i] = condQueue'[j] => i = j
    BY <1>3, <2>3 DEF CondList
  <2>5. \A u \in Threads : condFlag'[u] <=> \E i \in DOMAIN condQueue' : condQueue'[i] = u
    <3> SUFFICES ASSUME NEW u \in Threads
                 PROVE  condFlag'[u] <=> \E i \in DOMAIN condQueue' : condQueue'[i] = u
      OBVIOUS
    <3>1. CASE u = t
      BY SMTT(20), <2>1, <2>2, <2>3, <3>1
    <3>2. CASE u # t
      <4>1. condFlag'[u] <=> condFlag[u]
        BY <2>1, <2>2, <3>2
      <4>2. condFlag[u] <=> \E i \in 1..Len(condQueue) : condQueue[i] = u
        BY <2>3 DEF CondList
      <4> QED BY SMTT(20), <2>3, <3>2, <4>1, <4>2
    <3> QED BY <3>1, <3>2
  <2> QED BY <2>4, <2>5 DEF CondList
<1> QED BY <1>2, <1>4, <1>5, <1>6

\* Restoring the depth of a recursive mutex.
LEMMA RestoredOK ==
    ASSUME LocalOK, NEW t \in Threads, NEW m \in Mutexes
    PROVE  /\ DepthRestored(t, m) \in [Mutexes -> -1..MaxDepth]
           /\ \A h \in Mutexes : h \in Recursive <=> DepthRestored(t, m)[h] # -1
<1>1. heldDepth[t] \in 0..MaxDepth /\ recursiveDepth[m] \in -1..MaxDepth
  BY DEF LocalOK
<1>2. heldDepth[t] \in -1..MaxDepth /\ heldDepth[t] # -1
  BY <1>1, MutexAssumption
<1> QED BY <1>1, <1>2 DEF LocalOK, DepthRestored

LEMMA CondResumeStep ==
    ASSUME IInv, NEW t \in Threads, CondResume(t)
    PROVE  IInv'
<1> USE MutexAssumption DEF IInv, queues
<1>1. mutexWaiting[t] = NoMutex /\ pc[t] = "cond" /\ ~condFlag[t] /\ ~waitFlag[t]
  BY DEF CondResume, Places
<1> CvMutex \in Mutexes
  BY <1>1 DEF CondList
<1>2. UNCHANGED <<condFlag, condQueue, heldDepth>>
  BY DEF CondResume
<1>3. CondList'
  BY <1>2 DEF CondList
<1>4. CASE /\ Acquire(t, CvMutex)
           /\ recursiveDepth' = DepthRestored(t, CvMutex)
           /\ pc' = [pc EXCEPT ![t] = "run"]
           /\ UNCHANGED <<target, entries>>
  <2>1. Shared' /\ \A h \in Mutexes : owner[h] # NoThread => owner'[h] = owner[h]
    BY <1>4, AcquireShared
  <2>2. LocalOK'
    <3>1. /\ recursiveDepth' \in [Mutexes -> -1..MaxDepth]
          /\ \A h \in Mutexes : h \in Recursive <=> recursiveDepth'[h] # -1
      BY <1>4, RestoredOK
    <3> QED BY <1>2, <1>4, <3>1 DEF LocalOK
  <2>3. Places'
    <3>1. UNCHANGED <<mutexWaiting, waitFlag>>
      BY <1>4 DEF Acquire
    <3>2. \A u \in Threads : target[u] \in Mutexes /\ owner[target[u]] = u => owner'[target[u]] = u
      BY <2>1
    <3> QED BY <1>1, <1>2, <1>4, <3>1, <3>2 DEF Places, LocalOK
  <2> QED BY <1>3, <2>1, <2>2, <2>3
<1>5. CASE /\ Enqueue(t, CvMutex)
           /\ pc' = [pc EXCEPT ![t] = "relock"]
  <2>1. Shared'
    BY <1>1, <1>5, EnqueueShared
  <2>2. LocalOK'
    BY <1>2, <1>5 DEF LocalOK, Enqueue
  <2>3. Places'
    <3>1. /\ mutexWaiting' = [mutexWaiting EXCEPT ![t] = CvMutex]
          /\ waitFlag' = [waitFlag EXCEPT ![t] = TRUE]
          /\ target' = [target EXCEPT ![t] = CvMutex]
          /\ UNCHANGED owner
      BY <1>5 DEF Enqueue
    <3> QED BY <1>1, <1>2, <1>5, <3>1 DEF Places, LocalOK, Shared, SharedOK
  <2> QED BY <1>3, <2>1, <2>2, <2>3
<1> QED BY <1>4, <1>5 DEF CondResume

LEMMA RelockResumeStep ==
    ASSUME IInv, NEW t \in Threads, RelockResume(t)
    PROVE  IInv'
<1> USE MutexAssumption DEF IInv, RelockResume, queues, prios, heaps
<1>1. Shared'
  <2> USE DEF Shared
  <2>1. SharedOK'
    BY DEF SharedOK
  <2> QED BY <2>1 DEF Structure, HeldExactlyByOwner, WaitersWaitForAnOwner,
                      RootQueued, BaseRestored
<1>2. CvMutex \in Mutexes /\ target[t] = CvMutex
  BY DEF Places
<1>3. owner[CvMutex] = t => mutexWaiting[t] = NoMutex
  <2>1. mutexWaiting[t] \in {NoMutex, CvMutex}
    BY <1>2 DEF Places
  <2>2. mutexWaiting[t] = CvMutex => owner[CvMutex] # t
    BY <1>2 DEF Shared, Structure, WaitersWaitForAnOwner
  <2> QED BY <2>1, <2>2
<1>4. LocalOK'
  <2>1. CASE owner[CvMutex] = t
    <3>1. /\ recursiveDepth' \in [Mutexes -> -1..MaxDepth]
          /\ \A h \in Mutexes : h \in Recursive <=> recursiveDepth'[h] # -1
      BY <1>2, <2>1, RestoredOK
    <3> QED BY <2>1, <3>1 DEF LocalOK
  <2>2. CASE owner[CvMutex] # t
    BY <2>2 DEF LocalOK
  <2> QED BY <2>1, <2>2
<1>5. Places'
  <2>1. CASE owner[CvMutex] = t
    <3>1. /\ pc' = [pc EXCEPT ![t] = "run"]
          /\ target' = [target EXCEPT ![t] = NoMutex]
          /\ UNCHANGED <<waitFlag, condFlag, mutexWaiting, owner>>
      BY <2>1
    <3> QED BY SMTT(20), <1>2, <1>3, <2>1, <3>1 DEF Places, LocalOK
  <2>2. CASE owner[CvMutex] # t
    <3>1. /\ waitFlag' = [waitFlag EXCEPT ![t] = TRUE]
          /\ UNCHANGED <<pc, target, condFlag, mutexWaiting, owner>>
      BY <2>2
    <3>2. mutexWaiting[t] = target[t]
      BY <1>2, <2>2 DEF Places
    <3> QED BY <2>2, <3>1, <3>2 DEF Places, Shared, SharedOK
  <2> QED BY <2>1, <2>2
<1>6. CondList'
  <2>1. \A u \in Threads : pc'[u] = "cond" => pc[u] = "cond"
    BY DEF LocalOK
  <2> QED BY <2>1 DEF CondList
<1> QED BY <1>1, <1>4, <1>5, <1>6

\* What is left of a sequence when its first n elements are gone.
LEMMA SuffixFacts ==
    ASSUME NEW S, NEW q \in Seq(S), NEW n \in 1..Len(q)
    PROVE  /\ SubSeq(q, n + 1, Len(q)) \in Seq(S)
           /\ Len(SubSeq(q, n + 1, Len(q))) = Len(q) - n
           /\ DOMAIN SubSeq(q, n + 1, Len(q)) = 1..(Len(q) - n)
           /\ \A i \in 1..(Len(q) - n) : SubSeq(q, n + 1, Len(q))[i] = q[i + n]
<1>1. Len(q) \in Nat /\ n \in Nat /\ n <= Len(q)
  OBVIOUS
<1> QED BY <1>1, SubSeqProperties

LEMMA CondWakeStep ==
    ASSUME IInv, NEW n \in 1..Len(condQueue), CondWake(n)
    PROVE  IInv'
<1> USE DEF IInv
<1>0. /\ condFlag' = Signalled({condQueue[i] : i \in 1..n})
      /\ condQueue' = SubSeq(condQueue, n + 1, Len(condQueue))
      /\ UNCHANGED <<owner, recursiveDepth, waiting, front, mutexLocked, mutexWaiting,
                     priority, savedPriority, waitFlag, pc, target, heldDepth,
                     kernel, base, entries>>
  BY DEF CondWake, heaps, prios
<1>1. Shared'
  <2> USE <1>0 DEF Shared
  <2>1. SharedOK'
    BY DEF SharedOK
  <2> QED BY <2>1 DEF Structure, HeldExactlyByOwner, WaitersWaitForAnOwner,
                      RootQueued, BaseRestored
<1> DEFINE q == condQueue
<1>2. /\ q \in Seq(Threads) /\ Len(q) \in Nat /\ DOMAIN q = 1..Len(q)
      /\ condQueue' = SubSeq(q, n + 1, Len(q))
  BY <1>0 DEF LocalOK
<1>2a. n \in 1..Len(q) /\ n \in Nat /\ n <= Len(q)
  BY <1>2
<1>3. \A u \in Threads : condFlag'[u] <=> condFlag[u] /\ \A i \in 1..n : q[i] # u
  BY <1>0 DEF Signalled, LocalOK
<1>4. /\ condQueue' \in Seq(Threads)
      /\ Len(condQueue') = Len(q) - n
      /\ DOMAIN condQueue' = 1..(Len(q) - n)
      /\ \A i \in 1..(Len(q) - n) : condQueue'[i] = q[i + n]
  BY <1>2, <1>2a, SuffixFacts
<1>5. LocalOK'
  <2>1. condFlag' \in [Threads -> BOOLEAN]
    BY <1>0 DEF Signalled, LocalOK
  <2> QED BY <1>0, <1>4, <2>1 DEF LocalOK
<1>6. Places'
  BY <1>0, <1>3 DEF Places
<1>7. CondList'
  <2>1. \A i, j \in DOMAIN condQueue' : condQueue'[i] = condQueue'[j] => i = j
    <3> SUFFICES ASSUME NEW i \in DOMAIN condQueue', NEW j \in DOMAIN condQueue',
                        condQueue'[i] = condQueue'[j]
                 PROVE  i = j
      OBVIOUS
    <3>1. /\ i \in 1..(Len(q) - n) /\ j \in 1..(Len(q) - n)
          /\ i + n \in DOMAIN q /\ j + n \in DOMAIN q
      <4>1. i \in 1..(Len(q) - n) /\ j \in 1..(Len(q) - n)
        BY <1>4
      <4> HIDE DEF q
      <4>2. i + n \in 1..Len(q) /\ j + n \in 1..Len(q)
        BY SMTT(20), <1>2, <1>2a, <4>1
      <4> QED BY <1>2, <4>1, <4>2
    <3>2. q[i + n] = q[j + n]
      BY <1>4, <3>1
    <3>3. i + n = j + n
      BY <3>1, <3>2 DEF CondList
    <3> QED BY <3>1, <3>3
  <2>2. \A u \in Threads : condFlag'[u] <=> \E i \in DOMAIN condQueue' : condQueue'[i] = u
    <3> SUFFICES ASSUME NEW u \in Threads
                 PROVE  condFlag'[u] <=> \E i \in DOMAIN condQueue' : condQueue'[i] = u
      OBVIOUS
    <3>1. condFlag[u] <=> \E i \in 1..Len(q) : q[i] = u
      BY <1>2 DEF CondList
    <3>2. ASSUME condFlag'[u]
          PROVE  \E i \in DOMAIN condQueue' : condQueue'[i] = u
      <4>1. PICK k \in 1..Len(q) : q[k] = u
        BY <1>3, <3>1, <3>2
      <4>2. k > n
        BY <1>2, <1>2a, <1>3, <3>2, <4>1
      <4>3. k - n \in 1..(Len(q) - n) /\ (k - n) + n = k
        BY <1>2, <1>2a, <4>1, <4>2
      <4> QED BY <1>4, <4>1, <4>3
    <3>3. ASSUME NEW i \in DOMAIN condQueue', condQueue'[i] = u
          PROVE  condFlag'[u]
      <4>1. i \in 1..(Len(q) - n) /\ q[i + n] = u /\ i + n \in 1..Len(q)
        <5>1. i \in 1..(Len(q) - n)
          BY <1>4, <3>3
        <5>2. q[i + n] = u
          BY <1>4, <3>3, <5>1
        <5> HIDE DEF q
        <5>3. i + n \in 1..Len(q)
          BY <1>2, <1>2a, <5>1
        <5> QED BY <5>1, <5>2, <5>3
      <4>2. \A k \in 1..n : q[k] # u
        <5> SUFFICES ASSUME NEW k \in 1..n, q[k] = u
                     PROVE  FALSE
          OBVIOUS
        <5>1. k \in DOMAIN q /\ i + n \in DOMAIN q
          BY <1>2, <4>1
        <5>2. k = i + n
          BY <4>1, <5>1 DEF CondList
        <5> QED BY <4>1, <5>2
      <4> QED BY <1>3, <3>1, <4>1, <4>2
    <3> QED BY <3>2, <3>3
  <2> QED BY <1>0, <2>1, <2>2 DEF CondList
<1> QED BY <1>1, <1>5, <1>6, <1>7

LEMMA SetPriorityStep ==
    ASSUME IInv, NEW t \in Threads, NEW pr \in Priorities, SetPriority(t, pr)
    PROVE  IInv'
<1> USE MutexAssumption DEF IInv, SetPriority, queues, heaps
<1>1. Shared'
  <2> USE DEF Shared
  <2>1. CASE mutexLocked[t] = {}
    <3>1. SharedOK'
      BY <2>1 DEF SharedOK
    <3>2. BaseRestored'
      BY <2>1 DEF BaseRestored, SharedOK
    <3> QED BY <3>1, <3>2 DEF Structure, HeldExactlyByOwner,
                              WaitersWaitForAnOwner, RootQueued
  <2>2. CASE mutexLocked[t] # {}
    <3>1. PICK p \in Highest(Offered(pr, mutexLocked[t])) :
             priority' = [priority EXCEPT ![t] = p]
      BY <2>2
    <3>2. savedPriority' = [savedPriority EXCEPT ![t] = pr]
      BY <2>2
    <3>3. p \in Priorities
      <4>1. mutexLocked[t] \subseteq Mutexes
        BY DEF SharedOK
      <4>2. \A h \in mutexLocked[t] : waiting[h] # {} => priority[front[h]] \in Priorities
        BY <4>1 DEF Structure, RootQueued, SharedOK
      <4> QED BY <3>1, <4>2 DEF Highest, Offered
    <3>4. SharedOK'
      BY <3>1, <3>2, <3>3 DEF SharedOK
    <3>5. BaseRestored'
      BY <2>2, <3>1, <3>2 DEF BaseRestored, SharedOK
    <3> QED BY <3>4, <3>5 DEF Structure, HeldExactlyByOwner,
                              WaitersWaitForAnOwner, RootQueued
  <2> QED BY <2>1, <2>2
<1>2. LocalOK'
  BY DEF LocalOK
<1>3. Places' /\ CondList'
  BY DEF Places, CondList
<1> QED BY <1>1, <1>2, <1>3

LEMMA SpuriousWakeupStep ==
    ASSUME IInv, NEW t \in Threads, SpuriousWakeup(t)
    PROVE  IInv'
<1> USE DEF IInv, SpuriousWakeup, queues, heaps, prios
<1>1. Shared'
  <2> USE DEF Shared
  <2>1. SharedOK'
    BY DEF SharedOK
  <2> QED BY <2>1 DEF Structure, HeldExactlyByOwner, WaitersWaitForAnOwner,
                      RootQueued, BaseRestored
<1>2. LocalOK' /\ CondList'
  BY DEF LocalOK, CondList
<1>3. Places'
  BY DEF Places, Shared, SharedOK
<1> QED BY <1>1, <1>2, <1>3

LEMMA NextIInv == IInv /\ [Next]_vars => IInv'
<1> SUFFICES ASSUME IInv, [Next]_vars PROVE IInv'
  OBVIOUS
<1>1. ASSUME NEW t \in Threads, NEW m \in Mutexes,
             LockFree(t, m) \/ LockOwned(t, m) \/ LockBlock(t, m)
                \/ TryLock(t, m) \/ Unlock(t, m)
      PROVE  IInv'
  BY <1>1, LockFreeStep, LockOwnedStep, LockBlockStep, UnlockStep DEF TryLock
<1>2. ASSUME NEW t \in Threads,
             LockResume(t) \/ CondWait(t) \/ CondResume(t) \/ RelockResume(t)
                \/ SpuriousWakeup(t)
      PROVE  IInv'
  BY <1>2, LockResumeStep, CondWaitStep, CondResumeStep, RelockResumeStep,
     SpuriousWakeupStep
<1>3. ASSUME Signal \/ Broadcast
      PROVE  IInv'
  <2>1. condQueue \in Seq(Threads) /\ condQueue # <<>>
    BY <1>3 DEF IInv, LocalOK, Signal, Broadcast
  <2>2. 1 \in 1..Len(condQueue) /\ Len(condQueue) \in 1..Len(condQueue)
    BY <2>1
  <2> QED BY <1>3, <2>2, CondWakeStep DEF Signal, Broadcast
<1>4. ASSUME NEW t \in Threads, NEW pr \in Priorities, SetPriority(t, pr)
      PROVE  IInv'
  BY <1>4, SetPriorityStep
<1>5. CASE UNCHANGED vars
  <2> USE <1>5 DEF vars
  <2>1. Shared'
    BY DEF IInv, Shared, SharedOK, Structure, HeldExactlyByOwner,
           WaitersWaitForAnOwner, RootQueued, BaseRestored
  <2>2. LocalOK' /\ Places' /\ CondList'
    BY DEF IInv, LocalOK, Places, CondList
  <2> QED BY <2>1, <2>2 DEF IInv
<1> QED BY <1>1, <1>2, <1>3, <1>4, <1>5 DEF Next

\* The invariant the other theorems rest on.
THEOREM Inductive == Spec => []IInv
BY InitIInv, NextIInv, PTL DEF Spec

\* Every variable keeps its type.
THEOREM TypeCorrect == Spec => []TypeOK
<1>1. IInv => TypeOK
  BY TypeSplit DEF IInv, Shared
<1> QED BY <1>1, Inductive, PTL

\* The mutexes in a thread's list are exactly those it owns, and every queued
\* thread waits for a mutex another thread owns.
THEOREM OwnershipConsistent == Spec => [](HeldExactlyByOwner /\ WaitersWaitForAnOwner)
<1>1. IInv => HeldExactlyByOwner /\ WaitersWaitForAnOwner
  BY DEF IInv, Shared, Structure
<1> QED BY <1>1, Inductive, PTL

\* No thread sleeps in lock() or wait() without being where it will be woken.
THEOREM WakeupsArrive == Spec => []NoLostWakeup
<1>1. IInv => NoLostWakeup
  <2> SUFFICES ASSUME IInv, NEW t \in Threads
               PROVE  /\ waitFlag[t] => target[t] \in Mutexes /\ t \in waiting[target[t]]
                      /\ condFlag[t] <=> \E i \in DOMAIN condQueue : condQueue[i] = t
    BY DEF NoLostWakeup
  <2>1. waitFlag[t] => target[t] \in Mutexes /\ mutexWaiting[t] = target[t]
    BY DEF IInv, Places
  <2>2. waitFlag[t] => t \in waiting[target[t]]
    BY <2>1 DEF IInv, Shared, Structure, WaitersWaitForAnOwner
  <2> QED BY <2>1, <2>2 DEF IInv, CondList
<1> QED BY <1>1, Inductive, PTL

\* A thread that holds no mutex runs at the priority it was last given, and
\* one that holds some has that priority saved.
THEOREM PriorityRestored == Spec => []BaseRestored
<1>1. IInv => BaseRestored
  BY DEF IInv, Shared
<1> QED BY <1>1, Inductive, PTL

\* Every queued thread waits for a mutex that another thread owns, and for
\* one mutex only: no thread sleeps for a free mutex.
THEOREM WaitersHaveOwners == Spec => []WaitersWaitForAnOwner
<1>1. IInv => WaitersWaitForAnOwner
  BY DEF IInv, Shared, Structure
<1> QED BY <1>1, Inductive, PTL

-----------------------------------------------------------------------------
\* The heaps stay ordered.

\* Heaps are unaffected by a step that leaves them, and the priority of every
\* thread queued in them, alone.
LEMMA HeapsKept ==
    ASSUME SharedOK, RootIsHighest, UNCHANGED <<waiting, front>>,
           priority' \in [Threads -> Priorities],
           \A u \in Threads, h \in Mutexes :
              u \in waiting[h] => priority'[u] = priority[u]
    PROVE  RootIsHighest'
<1> SUFFICES ASSUME NEW h \in Mutexes, waiting[h] # {}
             PROVE  front[h] \in Foremost(waiting[h], priority')
  BY DEF RootIsHighest
<1>1. front[h] \in Foremost(waiting[h], priority)
  BY DEF RootIsHighest
<1> QED BY <1>1 DEF Foremost, SharedOK

\* Queueing a thread, with the walk that raises the owners and restores the
\* heaps they wait in, leaves every heap ordered.
LEMMA EnqueueRoots ==
    ASSUME Shared, RootIsHighest, NEW t \in Threads, NEW m \in Mutexes,
           Enqueue(t, m), mutexWaiting[t] = NoMutex
    PROVE  RootIsHighest'
<1> USE MutexAssumption DEF Shared
<1> DEFINE o        == owner[m]
           inherits == priority[t] > priority[o]
           pr       == IF inherits THEN Walk(t, o) ELSE priority
           pushed   == IF waiting[m] = {} \/ priority[t] > priority[front[m]]
                          THEN t ELSE front[m]
<1>1. PICK roots \in [IF inherits THEN Rebuilt(o) ELSE {} -> Threads] :
         /\ \A r \in DOMAIN roots : roots[r] \in Foremost(waiting'[r], pr)
         /\ front' = [h \in Mutexes |-> IF h \in DOMAIN roots THEN roots[h]
                                        ELSE IF h = m THEN pushed
                                        ELSE front[h]]
  BY DEF Enqueue
<1>2. /\ waiting' = [waiting EXCEPT ![m] = @ \cup {t}]
      /\ priority' = pr
  BY DEF Enqueue
<1>3. DOMAIN roots = IF inherits THEN Rebuilt(o) ELSE {}
  OBVIOUS
<1>4. pr[t] = priority[t]
  BY DEF Walk
<1>5. ASSUME NEW h \in Mutexes, h \notin DOMAIN roots, NEW u \in waiting[h]
      PROVE  pr[u] = priority[u]
  <2>1. u \in Threads /\ mutexWaiting[u] = h
    BY DEF SharedOK, Structure, WaitersWaitForAnOwner
  <2>2. CASE inherits
    <3>1. u \notin Chain(o)
      BY <1>3, <1>5, <2>1, <2>2 DEF Rebuilt
    <3> QED BY <2>1, <2>2, <3>1 DEF Walk
  <2>3. CASE ~inherits
    BY <2>3
  <2> QED BY <2>2, <2>3
<1>6. SUFFICES ASSUME NEW h \in Mutexes
               PROVE  IF waiting'[h] = {} THEN front'[h] = NoThread
                         ELSE front'[h] \in Foremost(waiting'[h], pr)
  BY <1>2 DEF RootIsHighest
<1>7. IF waiting[h] = {} THEN front[h] = NoThread
                         ELSE front[h] \in Foremost(waiting[h], priority)
  BY DEF RootIsHighest
<1>8. CASE h \in DOMAIN roots
  <2>1. front'[h] = roots[h] /\ roots[h] \in Foremost(waiting'[h], pr)
    BY <1>1, <1>8
  <2>2. waiting'[h] # {}
    BY <2>1 DEF Foremost
  <2> QED BY <2>1, <2>2
<1>9. CASE h \notin DOMAIN roots /\ h = m
  <2>1. waiting'[h] = waiting[h] \cup {t} /\ front'[h] = pushed
    BY <1>1, <1>2, <1>9 DEF SharedOK
  <2>2. \A u \in waiting[h] : pr[u] = priority[u] /\ priority[u] \in Int
    BY <1>5, <1>9 DEF SharedOK
  <2>3. waiting[h] # {} => /\ front[h] \in waiting[h]
                           /\ \A u \in waiting[h] : priority[u] <= priority[front[h]]
    BY <1>7 DEF Foremost
  <2>4. priority[t] \in Int
    BY DEF SharedOK
  <2>5. pushed \in waiting[h] \cup {t}
    BY <1>9, <2>3
  <2>6. \A u \in waiting[h] \cup {t} : pr[u] <= pr[pushed]
    BY <1>4, <1>9, <2>2, <2>3, <2>4
  <2> QED BY <2>1, <2>5, <2>6 DEF Foremost
<1>10. CASE h \notin DOMAIN roots /\ h # m
  <2>1. waiting'[h] = waiting[h] /\ front'[h] = front[h]
    BY <1>1, <1>2, <1>10 DEF SharedOK
  <2>2. \A u \in waiting[h] : pr[u] = priority[u]
    BY <1>5, <1>10
  <2> QED BY <1>7, <2>1, <2>2 DEF Foremost
<1> QED BY <1>8, <1>9, <1>10

\* A release changes the priority of its caller and of the thread it wakes,
\* and neither is queued any more.
LEMMA ReleaseRoots ==
    ASSUME Shared, RootIsHighest, NEW t \in Threads, NEW m \in Mutexes,
           owner[m] = t, Release(t, m), mutexWaiting[t] = NoMutex
    PROVE  RootIsHighest'
<1> USE MutexAssumption DEF Shared
<1>1. Shared'
  BY ReleaseShared
<1>2. \A h \in Mutexes : t \notin waiting[h]
  BY DEF Structure, WaitersWaitForAnOwner
<1>3. CASE waiting[m] = {}
  <2>1. PICK p : priority' = [priority EXCEPT ![t] = p] /\ UNCHANGED <<waiting, front>>
    BY <1>3 DEF Release, heaps
  <2>2. \A u \in Threads, h \in Mutexes : u \in waiting[h] => priority'[u] = priority[u]
    BY <1>2, <2>1 DEF SharedOK
  <2> QED BY <1>1, <2>1, <2>2, HeapsKept DEF SharedOK
<1>4. CASE waiting[m] # {}
  <2> DEFINE n == front[m]
  <2>1. PICK p \in Highest(Offered(savedPriority[t], Remaining(t, m))),
             r \in RootOf(HeapLess(m, n), priority) :
           /\ waiting' = [waiting EXCEPT ![m] = HeapLess(m, n)]
           /\ front' = [front EXCEPT ![m] = r]
           /\ priority' = [priority EXCEPT ![t] = p, ![n] = HeirPriority(n, r)]
    BY <1>4 DEF Release
  <2>2. n \in waiting[m] /\ \A h \in Mutexes : h # m => n \notin waiting[h]
    BY <1>4 DEF SharedOK, Structure, RootQueued, WaitersWaitForAnOwner
  <2> USE DEF HeapLess
  <2>3. SUFFICES ASSUME NEW h \in Mutexes
                 PROVE  IF waiting'[h] = {} THEN front'[h] = NoThread
                           ELSE front'[h] \in Foremost(waiting'[h], priority')
    BY DEF RootIsHighest
  <2>4. \A u \in waiting'[h] : priority'[u] = priority[u]
    BY <1>2, <2>1, <2>2 DEF SharedOK
  <2>5. CASE h = m
    <3>1. waiting'[h] = waiting[m] \ {n} /\ front'[h] = r
      BY <2>1, <2>5 DEF SharedOK
    <3>2. r \in RootOf(waiting'[h], priority)
      BY <2>1, <3>1
    <3> QED BY <2>4, <3>1, <3>2 DEF RootOf, Foremost
  <2>6. CASE h # m
    <3>1. waiting'[h] = waiting[h] /\ front'[h] = front[h]
      BY <2>1, <2>6 DEF SharedOK
    <3>2. IF waiting[h] = {} THEN front[h] = NoThread
                             ELSE front[h] \in Foremost(waiting[h], priority)
      BY DEF RootIsHighest
    <3> QED BY <2>4, <3>1, <3>2 DEF Foremost
  <2> QED BY <2>5, <2>6
<1> QED BY <1>3, <1>4

\* Every step leaves the heaps ordered.
LEMMA NextRoots == IInv /\ RootIsHighest /\ [Next]_vars => RootIsHighest'
<1> SUFFICES ASSUME IInv, RootIsHighest, [Next]_vars PROVE RootIsHighest'
  OBVIOUS
<1>1. SharedOK /\ SharedOK'
  BY NextIInv DEF IInv, Shared
<1>2. (UNCHANGED <<waiting, front, priority>>) => RootIsHighest'
  BY DEF RootIsHighest
<1>3. ASSUME NEW t \in Threads, pc[t] \in {"run", "cond"}
      PROVE  mutexWaiting[t] = NoMutex
  BY <1>3 DEF IInv, Places
<1>4. ASSUME NEW t \in Threads, NEW m \in Mutexes,
             LockFree(t, m) \/ LockOwned(t, m) \/ LockBlock(t, m)
                \/ TryLock(t, m) \/ Unlock(t, m)
      PROVE  RootIsHighest'
  <2>1. CASE LockFree(t, m) \/ LockOwned(t, m) \/ TryLock(t, m)
    BY <1>2, <2>1 DEF LockFree, LockOwned, TryLock, Acquire, heaps, prios
  <2>2. CASE LockBlock(t, m)
    BY <1>3, <2>2, EnqueueRoots DEF LockBlock, Running, IInv
  <2>3. CASE Unlock(t, m)
    <3>1. CASE recursiveDepth[m] > 0
      BY <1>2, <2>3, <3>1 DEF Unlock, heaps, prios
    <3>2. CASE ~(recursiveDepth[m] > 0)
      BY <1>3, <2>3, <3>2, ReleaseRoots DEF Unlock, Running, IInv
    <3> QED BY <3>1, <3>2
  <2> QED BY <1>4, <2>1, <2>2, <2>3
<1>5. ASSUME NEW t \in Threads,
             LockResume(t) \/ CondWait(t) \/ CondResume(t) \/ RelockResume(t)
                \/ SpuriousWakeup(t)
      PROVE  RootIsHighest'
  <2>1. CASE LockResume(t) \/ RelockResume(t) \/ SpuriousWakeup(t)
    BY <1>2, <2>1 DEF LockResume, RelockResume, SpuriousWakeup, heaps, prios
  <2>2. CASE CondWait(t)
    <3>1. owner[CvMutex] = t /\ CvMutex \in Mutexes /\ Release(t, CvMutex) /\ pc[t] = "run"
      BY <2>2, MutexAssumption DEF CondWait, Running
    <3> QED BY <1>3, <3>1, ReleaseRoots DEF IInv
  <2>3. CASE CondResume(t)
    <3>1. pc[t] = "cond" /\ CvMutex \in Mutexes
      BY <2>3 DEF CondResume, IInv, CondList
    <3>2. CASE Acquire(t, CvMutex)
      BY <1>2, <3>2 DEF Acquire, heaps
    <3>3. CASE Enqueue(t, CvMutex)
      BY <1>3, <3>1, <3>3, EnqueueRoots DEF IInv
    <3> QED BY <2>3, <3>2, <3>3 DEF CondResume
  <2> QED BY <1>5, <2>1, <2>2, <2>3
<1>6. ASSUME Signal \/ Broadcast
      PROVE  RootIsHighest'
  BY <1>2, <1>6 DEF Signal, Broadcast, CondWake, heaps, prios
<1>7. ASSUME NEW t \in Threads, NEW pr \in Priorities, SetPriority(t, pr)
      PROVE  RootIsHighest'
  <2>1. pc[t] = "run"
    BY <1>7 DEF SetPriority, Running
  <2>2. \A h \in Mutexes : t \notin waiting[h]
    BY <1>3, <2>1, MutexAssumption DEF IInv, Shared, Structure, WaitersWaitForAnOwner
  <2>3. PICK p : priority' = [priority EXCEPT ![t] = p] /\ UNCHANGED <<waiting, front>>
    BY <1>7 DEF SetPriority, heaps
  <2>4. \A u \in Threads, h \in Mutexes : u \in waiting[h] => priority'[u] = priority[u]
    BY <1>1, <2>2, <2>3 DEF SharedOK
  <2> QED BY <1>1, <2>3, <2>4, HeapsKept DEF SharedOK
<1>8. CASE UNCHANGED vars
  BY <1>2, <1>8 DEF vars
<1> QED BY <1>4, <1>5, <1>6, <1>7, <1>8 DEF Next

\* The root of every heap is a waiting thread of the highest priority, so the
\* thread a mutex is handed to is always one the scheduler ranks first.
THEOREM HandedToHighest == Spec => []RootIsHighest
<1>1. Init => RootIsHighest
  BY DEF Init, RootIsHighest
<1> QED BY <1>1, Inductive, NextRoots, PTL DEF Spec

-----------------------------------------------------------------------------
\* No level of a recursive mutex is lost.

\* t sleeps to lock m for the first time, or to lock it again in wait().
Entering(t, m) == pc[t] = "lock" /\ target[t] = m
Away(t, m)     == pc[t] \in {"cond", "relock"} /\ m = CvMutex

\* What t has locked of m: the levels it will restore if it is in wait(), and
\* those of m if it owns it and has not just been handed it.
Levels(t, m) ==
    IF Away(t, m) THEN heldDepth[t] + 1
    ELSE IF owner[m] = t /\ ~Entering(t, m) THEN recursiveDepth[m] + 1
    ELSE 0

\* A mutex that is free, or whose owner has still to return from lock() or
\* wait(), has no level above the first.
LevelsMatch ==
    \A m \in Recursive :
        /\ \A t \in Threads : entries[t][m] = Levels(t, m)
        /\ owner[m] = NoThread => recursiveDepth[m] = 0
        /\ \A t \in Threads :
              owner[m] = t /\ (Entering(t, m) \/ Away(t, m)) => recursiveDepth[m] = 0

LEMMA InitLevels == Init => LevelsMatch
BY MutexAssumption DEF Init, LevelsMatch, Levels, Away, Entering

\* What Release does to the owners.
LEMMA ReleaseOwner ==
    ASSUME Shared, NEW t \in Threads, NEW m \in Mutexes, owner[m] = t, Release(t, m)
    PROVE  \/ owner' = [owner EXCEPT ![m] = NoThread]
           \/ \E n \in Threads : /\ mutexWaiting[n] = m /\ n # t
                                 /\ owner' = [owner EXCEPT ![m] = n]
<1>1. CASE waiting[m] = {}
  BY <1>1 DEF Release
<1>2. CASE waiting[m] # {}
  <2>1. owner' = [owner EXCEPT ![m] = front[m]]
    BY <1>2 DEF Release
  <2>2. front[m] \in waiting[m] /\ front[m] \in Threads
    BY <1>2 DEF Shared, SharedOK, Structure, RootQueued
  <2> QED BY <2>1, <2>2 DEF Shared, Structure, WaitersWaitForAnOwner
<1> QED BY <1>1, <1>2

\* A running thread that takes m, or one more level of it.
LEMMA LockLevels ==
    ASSUME IInv, LevelsMatch, NEW t \in Threads, NEW m \in Mutexes,
           LockFree(t, m) \/ LockOwned(t, m)
    PROVE  LevelsMatch'
<1> USE MutexAssumption
<1>1. /\ owner \in [Mutexes -> Threads \cup {NoThread}]
      /\ recursiveDepth \in [Mutexes -> -1..MaxDepth]
      /\ entries \in [Threads -> [Mutexes -> Int]]
      /\ pc[t] = "run" /\ UNCHANGED <<pc, target, heldDepth>>
  BY DEF IInv, Shared, SharedOK, LocalOK, LockFree, LockOwned, Running, queues
<1>2. CASE LockFree(t, m)
  <2>1. /\ owner[m] = NoThread /\ owner' = [owner EXCEPT ![m] = t]
        /\ UNCHANGED recursiveDepth
        /\ entries' = [entries EXCEPT ![t][m] = @ + 1]
    BY <1>2 DEF LockFree, Acquire
  <2> QED BY <1>1, <2>1 DEF LevelsMatch, Levels, Away, Entering
<1>3. CASE LockOwned(t, m)
  <2>1. CASE kernel' = "reboot"
    BY <1>1, <1>3, <2>1 DEF LevelsMatch, Levels, Away, Entering, LockOwned
  <2>2. CASE m \in Recursive
    <3>1. owner[m] = t /\ UNCHANGED owner
      BY <1>3 DEF LockOwned
    <3>2. /\ recursiveDepth' = [recursiveDepth EXCEPT ![m] = @ + 1]
          /\ entries' = [entries EXCEPT ![t][m] = @ + 1]
      BY <1>3, <2>2 DEF LockOwned
    <3> QED BY <1>1, <2>2, <3>1, <3>2 DEF LevelsMatch, Levels, Away, Entering
  <2> QED BY <1>3, <2>1, <2>2 DEF LockOwned
<1> QED BY <1>2, <1>3

\* A thread that blocks, in lock() or in wait(), keeps what it has.
LEMMA BlockLevels ==
    ASSUME IInv, LevelsMatch, NEW t \in Threads, NEW m \in Mutexes, NEW to,
           owner[m] # t, UNCHANGED <<owner, recursiveDepth, heldDepth, entries>>,
           target' = [target EXCEPT ![t] = m], pc' = [pc EXCEPT ![t] = to],
           \/ pc[t] = "run" /\ to = "lock"
           \/ pc[t] = "cond" /\ to = "relock" /\ m = CvMutex
    PROVE  LevelsMatch'
<1>1. pc \in [Threads -> {"run", "lock", "cond", "relock"}]
      /\ target \in [Threads -> Mutexes \cup {NoMutex}]
  BY DEF IInv, LocalOK
<1> QED BY <1>1, MutexAssumption DEF LevelsMatch, Levels, Away, Entering

\* A thread that gives m up entirely, to nobody or to one that waits for it.
LEMMA HeirWaits ==
    ASSUME IInv, NEW n \in Threads, NEW m \in Mutexes, mutexWaiting[n] = m
    PROVE  Entering(n, m) \/ Away(n, m)
BY MutexAssumption DEF IInv, Shared, SharedOK, LocalOK, Places, Entering, Away

LEMMA UnlockLevels ==
    ASSUME IInv, LevelsMatch, NEW t \in Threads, NEW m \in Mutexes, Unlock(t, m)
    PROVE  LevelsMatch'
<1> USE MutexAssumption
<1>1. /\ owner \in [Mutexes -> Threads \cup {NoThread}]
      /\ recursiveDepth \in [Mutexes -> -1..MaxDepth]
      /\ \A r \in Recursive : recursiveDepth[r] # -1
      /\ entries \in [Threads -> [Mutexes -> Int]]
      /\ pc[t] = "run" /\ owner[m] = t /\ UNCHANGED <<pc, target, heldDepth>>
      /\ entries' = [entries EXCEPT ![t][m] = @ - 1]
  BY DEF IInv, Shared, SharedOK, LocalOK, Unlock, Running, queues
<1>2. CASE recursiveDepth[m] > 0
  <2>1. UNCHANGED owner /\ recursiveDepth' = [recursiveDepth EXCEPT ![m] = @ - 1]
    BY <1>2 DEF Unlock
  <2> QED BY <1>1, <1>2, <2>1 DEF LevelsMatch, Levels, Away, Entering
<1>3. CASE ~(recursiveDepth[m] > 0)
  <2>1. Release(t, m) /\ UNCHANGED recursiveDepth
    BY <1>3 DEF Unlock
  <2>2. m \in Recursive => recursiveDepth[m] = 0
    <3>1. m \in Recursive => recursiveDepth[m] \in -1..MaxDepth /\ recursiveDepth[m] # -1
      BY <1>1
    <3>2. \A d \in -1..MaxDepth : d # -1 /\ ~(d > 0) => d = 0
      OBVIOUS
    <3> QED BY <1>3, <3>1, <3>2
  <2>3. CASE owner' = [owner EXCEPT ![m] = NoThread]
    BY <1>1, <2>1, <2>2, <2>3 DEF LevelsMatch, Levels, Away, Entering
  <2>4. ASSUME NEW n \in Threads, mutexWaiting[n] = m, n # t,
               owner' = [owner EXCEPT ![m] = n]
        PROVE  LevelsMatch'
    <3>1. Entering(n, m) \/ Away(n, m)
      BY <2>4, HeirWaits
    <3> QED BY <1>1, <2>1, <2>2, <2>4, <3>1 DEF LevelsMatch, Levels, Away, Entering
  <2> QED BY <1>1, <2>1, <2>3, <2>4, ReleaseOwner DEF IInv
<1> QED BY <1>2, <1>3

LEMMA CondWaitLevels ==
    ASSUME IInv, LevelsMatch, NEW t \in Threads, CondWait(t)
    PROVE  LevelsMatch'
<1> USE MutexAssumption
<1> DEFINE m == CvMutex
<1>1. /\ owner \in [Mutexes -> Threads \cup {NoThread}]
      /\ recursiveDepth \in [Mutexes -> -1..MaxDepth]
      /\ pc \in [Threads -> {"run", "lock", "cond", "relock"}]
      /\ heldDepth \in [Threads -> 0..MaxDepth]
      /\ pc[t] = "run" /\ m \in Mutexes /\ owner[m] = t
  BY DEF IInv, Shared, SharedOK, LocalOK, CondWait, Running
<1>2. /\ Release(t, m) /\ UNCHANGED <<target, entries>>
      /\ heldDepth' = [heldDepth EXCEPT ![t] =
                          IF m \in Recursive THEN recursiveDepth[m] ELSE 0]
      /\ recursiveDepth' = [recursiveDepth EXCEPT ![m] = IF m \in Recursive THEN 0 ELSE -1]
      /\ pc' = [pc EXCEPT ![t] = "cond"]
  BY DEF CondWait, DepthReleased
<1>3. CASE owner' = [owner EXCEPT ![m] = NoThread]
  BY <1>1, <1>2, <1>3 DEF LevelsMatch, Levels, Away, Entering
<1>4. ASSUME NEW n \in Threads, mutexWaiting[n] = m, n # t,
             owner' = [owner EXCEPT ![m] = n]
      PROVE  LevelsMatch'
  <2>1. Entering(n, m) \/ Away(n, m)
    BY <1>1, <1>4, HeirWaits
  <2> QED BY <1>1, <1>2, <1>4, <2>1 DEF LevelsMatch, Levels, Away, Entering
<1> QED BY <1>1, <1>2, <1>3, <1>4, ReleaseOwner DEF IInv

\* A thread that returns from lock() or wait() as the owner.
LEMMA ResumeLevels ==
    ASSUME IInv, LevelsMatch, NEW t \in Threads,
           LockResume(t) \/ RelockResume(t) \/ CondResume(t)
    PROVE  LevelsMatch'
<1> USE MutexAssumption
<1>1. /\ owner \in [Mutexes -> Threads \cup {NoThread}]
      /\ recursiveDepth \in [Mutexes -> -1..MaxDepth]
      /\ pc \in [Threads -> {"run", "lock", "cond", "relock"}]
      /\ target \in [Threads -> Mutexes \cup {NoMutex}]
      /\ heldDepth \in [Threads -> 0..MaxDepth]
      /\ entries \in [Threads -> [Mutexes -> Int]]
  BY DEF IInv, Shared, SharedOK, LocalOK
<1>2. (UNCHANGED <<owner, recursiveDepth, pc, target, heldDepth, entries>>)
        => LevelsMatch'
  BY DEF LevelsMatch, Levels, Away, Entering
<1>3. CASE LockResume(t)
  <2>1. pc[t] = "lock" /\ UNCHANGED <<owner, recursiveDepth, heldDepth>>
    BY <1>3 DEF LockResume, queues
  <2>2. CASE owner[target[t]] = t
    <3>1. /\ pc' = [pc EXCEPT ![t] = "run"]
          /\ entries' = [entries EXCEPT ![t][target[t]] = @ + 1]
          /\ target' = [target EXCEPT ![t] = NoMutex]
      BY <1>3, <2>2 DEF LockResume
    <3>2. target[t] \in Mutexes
      BY <2>1 DEF IInv, Places
    <3> QED BY <1>1, <2>1, <2>2, <3>1, <3>2 DEF LevelsMatch, Levels, Away, Entering
  <2>3. CASE owner[target[t]] # t
    BY <1>2, <1>3, <2>1, <2>3 DEF LockResume
  <2> QED BY <2>2, <2>3
<1>4. CASE RelockResume(t)
  <2>1. pc[t] = "relock" /\ UNCHANGED <<owner, heldDepth, entries>> /\ CvMutex \in Mutexes
    BY <1>4 DEF RelockResume, queues, IInv, Places
  <2>2. CASE owner[CvMutex] = t
    <3>1. /\ pc' = [pc EXCEPT ![t] = "run"]
          /\ recursiveDepth' = DepthRestored(t, CvMutex)
          /\ target' = [target EXCEPT ![t] = NoMutex]
      BY <1>4, <2>2 DEF RelockResume
    <3> QED BY <1>1, <2>1, <2>2, <3>1 DEF LevelsMatch, Levels, Away, Entering, DepthRestored
  <2>3. CASE owner[CvMutex] # t
    BY <1>2, <1>4, <2>1, <2>3 DEF RelockResume
  <2> QED BY <2>2, <2>3
<1>5. CASE CondResume(t)
  <2>1. pc[t] = "cond" /\ CvMutex \in Mutexes /\ UNCHANGED heldDepth
    BY <1>5 DEF CondResume, queues, IInv, CondList
  <2>2. CASE Acquire(t, CvMutex) /\ pc' = [pc EXCEPT ![t] = "run"]
    <3>1. /\ owner[CvMutex] = NoThread /\ owner' = [owner EXCEPT ![CvMutex] = t]
          /\ recursiveDepth' = DepthRestored(t, CvMutex)
          /\ UNCHANGED <<target, entries>>
      BY <1>5, <2>1, <2>2 DEF CondResume, Acquire, Enqueue
    <3> QED BY <1>1, <2>1, <2>2, <3>1 DEF LevelsMatch, Levels, Away, Entering, DepthRestored
  <2>3. CASE Enqueue(t, CvMutex) /\ pc' = [pc EXCEPT ![t] = "relock"]
    <3>1. /\ owner[CvMutex] # t /\ UNCHANGED <<owner, recursiveDepth, entries>>
          /\ target' = [target EXCEPT ![t] = CvMutex]
      BY <2>3 DEF Enqueue
    <3> QED BY <2>1, <2>3, <3>1, BlockLevels
  <2> QED BY <1>5, <2>2, <2>3 DEF CondResume
<1> QED BY <1>3, <1>4, <1>5

\* Every step keeps the levels.
LEMMA NextLevels == IInv /\ LevelsMatch /\ [Next]_vars => LevelsMatch'
<1> SUFFICES ASSUME IInv, LevelsMatch, [Next]_vars PROVE LevelsMatch'
  OBVIOUS
<1>1. (UNCHANGED <<owner, recursiveDepth, pc, target, heldDepth, entries>>)
        => LevelsMatch'
  BY DEF LevelsMatch, Levels, Away, Entering
<1>2. ASSUME NEW t \in Threads, NEW m \in Mutexes, LockBlock(t, m)
      PROVE  LevelsMatch'
  <2>1. /\ owner[m] # t /\ pc[t] = "run" /\ pc' = [pc EXCEPT ![t] = "lock"]
        /\ target' = [target EXCEPT ![t] = m]
        /\ UNCHANGED <<owner, recursiveDepth, heldDepth, entries>>
    BY <1>2 DEF LockBlock, Enqueue, Running, queues
  <2> QED BY <2>1, BlockLevels
<1>3. ASSUME NEW t \in Threads, SpuriousWakeup(t)
      PROVE  LevelsMatch'
  BY <1>1, <1>3 DEF SpuriousWakeup, queues
<1>4. ASSUME Signal \/ Broadcast
      PROVE  LevelsMatch'
  BY <1>1, <1>4 DEF Signal, Broadcast, CondWake
<1>5. ASSUME NEW t \in Threads, NEW pr \in Priorities, SetPriority(t, pr)
      PROVE  LevelsMatch'
  BY <1>1, <1>5 DEF SetPriority, queues
<1>6. CASE UNCHANGED vars
  BY <1>1, <1>6 DEF vars
<1> QED BY <1>2, <1>3, <1>4, <1>5, <1>6, LockLevels, UnlockLevels, CondWaitLevels,
        ResumeLevels DEF Next, TryLock

\* A recursive mutex is as deep as its owner locked it, however often it slept
\* on the condition variable with it and whoever had it meanwhile.
THEOREM DepthKept == Spec => []DepthMatchesEntries
<1>1. LevelsMatch => DepthMatchesEntries
  BY DEF LevelsMatch, Levels, Away, Entering, DepthMatchesEntries
<1> QED BY <1>1, Inductive, InitLevels, NextLevels, PTL DEF Spec

-----------------------------------------------------------------------------
\* In which order a thread holds mutexes and waits for them.

\* The mutex of the condition variable is locked last, so that a thread that
\* comes back from wait() does not lock it again out of order.
CvMutexLast == \A m \in Mutexes : <<CvMutex, m>> \in Nesting => m = CvMutex

WaitsInOrder ==
    \A t \in Threads, m \in Mutexes :
        mutexWaiting[t] = m => \A h \in mutexLocked[t] : <<h, m>> \in Nesting
SleepsInOrder ==
    \A t \in Threads :
        pc[t] = "cond" => \A h \in mutexLocked[t] : <<h, CvMutex>> \in Nesting
HoldsInOrder ==
    \A t \in Threads :
        CvMutex \in mutexLocked[t] =>
            \A h \in mutexLocked[t] : h = CvMutex \/ <<h, CvMutex>> \in Nesting

InOrderInv == WaitsInOrder /\ SleepsInOrder /\ HoldsInOrder

\* What Release does to the lists of mutexes.
LEMMA ReleaseLists ==
    ASSUME Shared, NEW t \in Threads, NEW m \in Mutexes, owner[m] = t, Release(t, m)
    PROVE  \/ /\ mutexLocked' = [mutexLocked EXCEPT ![t] = @ \ {m}]
              /\ mutexWaiting' = mutexWaiting
           \/ \E n \in Threads :
                 /\ n # t /\ mutexWaiting[n] = m
                 /\ mutexLocked' = [mutexLocked EXCEPT ![t] = @ \ {m}, ![n] = @ \cup {m}]
                 /\ mutexWaiting' = [mutexWaiting EXCEPT ![n] = NoMutex]
<1>1. CASE waiting[m] = {}
  BY <1>1 DEF Release, Remaining
<1>2. CASE waiting[m] # {}
  <2>1. front[m] \in Threads /\ front[m] # t /\ mutexWaiting[front[m]] = m
    BY <1>2 DEF Shared, SharedOK, Structure, RootQueued, WaitersWaitForAnOwner
  <2>2. /\ mutexLocked' = [mutexLocked EXCEPT ![t] = @ \ {m}, ![front[m]] = @ \cup {m}]
        /\ mutexWaiting' = [mutexWaiting EXCEPT ![front[m]] = NoMutex]
    BY <1>2 DEF Release, Remaining, NoLongerWaiting
  <2> QED BY <2>1, <2>2
<1> QED BY <1>1, <1>2

LEMMA ReleaseOrder ==
    ASSUME IInv, InOrderInv, CvMutexLast, NEW t \in Threads, NEW m \in Mutexes,
           owner[m] = t, Release(t, m), pc[t] = "run",
           \/ pc' = pc
           \/ m = CvMutex /\ pc' = [pc EXCEPT ![t] = "cond"]
    PROVE  InOrderInv'
<1> USE MutexAssumption
<1>1. /\ mutexLocked \in [Threads -> SUBSET Mutexes]
      /\ mutexWaiting \in [Threads -> Mutexes \cup {NoMutex}]
      /\ pc \in [Threads -> {"run", "lock", "cond", "relock"}]
      /\ mutexWaiting[t] = NoMutex
  BY DEF IInv, Shared, SharedOK, LocalOK, Places
<1>2. m \in mutexLocked[t]
  BY DEF IInv, Shared, Structure, HeldExactlyByOwner
<1>3. CASE /\ mutexLocked' = [mutexLocked EXCEPT ![t] = @ \ {m}]
           /\ mutexWaiting' = mutexWaiting
  <2>1. \A u \in Threads : mutexLocked'[u] \subseteq mutexLocked[u]
    BY <1>1, <1>3
  <2>2. m \notin mutexLocked'[t]
    BY <1>1, <1>3
  <2>3. WaitsInOrder' /\ HoldsInOrder'
    BY <1>3, <2>1 DEF InOrderInv, WaitsInOrder, HoldsInOrder
  <2>4. SleepsInOrder'
    BY <1>1, <1>2, <2>1, <2>2 DEF InOrderInv, SleepsInOrder, HoldsInOrder
  <2> QED BY <2>3, <2>4 DEF InOrderInv
<1>4. ASSUME NEW n \in Threads, n # t, mutexWaiting[n] = m,
             mutexLocked' = [mutexLocked EXCEPT ![t] = @ \ {m}, ![n] = @ \cup {m}],
             mutexWaiting' = [mutexWaiting EXCEPT ![n] = NoMutex]
      PROVE  InOrderInv'
  <2>1. /\ \A u \in Threads : u # n => mutexLocked'[u] \subseteq mutexLocked[u]
        /\ m \notin mutexLocked'[t]
        /\ mutexLocked'[n] = mutexLocked[n] \cup {m} /\ mutexWaiting'[n] = NoMutex
        /\ \A u \in Threads : u # n => mutexWaiting'[u] = mutexWaiting[u]
    BY <1>1, <1>4
  <2>2. \A h \in mutexLocked[n] : <<h, m>> \in Nesting
    BY <1>4 DEF InOrderInv, WaitsInOrder
  <2>3. pc[n] # "cond" /\ pc'[n] = pc[n]
    BY <1>1, <1>4 DEF IInv, Places
  <2>4. WaitsInOrder'
    BY <2>1 DEF InOrderInv, WaitsInOrder
  <2>5. SleepsInOrder'
    <3> SUFFICES ASSUME NEW u \in Threads, pc'[u] = "cond", NEW h \in mutexLocked'[u]
                 PROVE  <<h, CvMutex>> \in Nesting
      BY DEF SleepsInOrder
    <3>1. u # n /\ h \in mutexLocked[u]
      BY <2>1, <2>3
    <3>2. CASE pc[u] = "cond"
      BY <3>1, <3>2 DEF InOrderInv, SleepsInOrder
    <3>3. CASE pc[u] # "cond"
      <4>1. u = t /\ m = CvMutex
        BY <1>1, <3>3
      <4> QED BY <1>2, <2>1, <3>1, <4>1 DEF InOrderInv, HoldsInOrder
    <3> QED BY <3>2, <3>3
  <2>6. HoldsInOrder'
    <3> SUFFICES ASSUME NEW u \in Threads, CvMutex \in mutexLocked'[u],
                        NEW h \in mutexLocked'[u], h # CvMutex
                 PROVE  <<h, CvMutex>> \in Nesting
      BY DEF HoldsInOrder
    <3>1. CASE u # n
      BY <2>1, <3>1 DEF InOrderInv, HoldsInOrder
    <3>2. CASE u = n /\ CvMutex \in mutexLocked[n]
      <4>1. m = CvMutex
        BY <2>2, <3>2 DEF CvMutexLast
      <4> QED BY <2>1, <2>2, <3>2, <4>1
    <3>3. CASE u = n /\ CvMutex \notin mutexLocked[n]
      BY <2>1, <2>2, <3>3
    <3> QED BY <3>1, <3>2, <3>3
  <2> QED BY <2>4, <2>5, <2>6 DEF InOrderInv
<1>5. \/ /\ mutexLocked' = [mutexLocked EXCEPT ![t] = @ \ {m}]
         /\ mutexWaiting' = mutexWaiting
      \/ \E n \in Threads :
            /\ n # t /\ mutexWaiting[n] = m
            /\ mutexLocked' = [mutexLocked EXCEPT ![t] = @ \ {m}, ![n] = @ \cup {m}]
            /\ mutexWaiting' = [mutexWaiting EXCEPT ![n] = NoMutex]
  <2>1. Shared
    BY DEF IInv
  <2> QED BY <2>1, ReleaseLists
<1> QED BY <1>3, <1>4, <1>5

\* Every step of clients that lock the mutex of the condition variable last
\* keeps the order of what they hold, sleep with and wait for.
LEMMA NextOrder ==
    ASSUME CvMutexLast
    PROVE  IInv /\ InOrderInv /\ [Next]_vars => InOrderInv'
<1> SUFFICES ASSUME IInv, InOrderInv, [Next]_vars
             PROVE  InOrderInv'
  OBVIOUS
<1> USE MutexAssumption
<1>1. /\ mutexLocked \in [Threads -> SUBSET Mutexes]
      /\ mutexWaiting \in [Threads -> Mutexes \cup {NoMutex}]
      /\ pc \in [Threads -> {"run", "lock", "cond", "relock"}]
  BY DEF IInv, Shared, SharedOK, LocalOK
<1>2. ASSUME UNCHANGED <<mutexLocked, mutexWaiting>>,
             \A u \in Threads : pc'[u] = "cond" => pc[u] = "cond"
      PROVE  InOrderInv'
  BY <1>2 DEF InOrderInv, WaitsInOrder, SleepsInOrder, HoldsInOrder
<1>3. ASSUME NEW t \in Threads, NEW m \in Mutexes, LockFree(t, m)
      PROVE  InOrderInv'
  <2>1. /\ mutexLocked' = [mutexLocked EXCEPT ![t] = @ \cup {m}]
        /\ UNCHANGED <<mutexWaiting, pc>> /\ pc[t] = "run"
        /\ \A h \in mutexLocked[t] : <<h, m>> \in Nesting
    BY <1>3 DEF LockFree, Acquire, Running, MayLock
  <2>2. mutexWaiting[t] = NoMutex
    BY <2>1 DEF IInv, Places
  <2>3. WaitsInOrder' /\ SleepsInOrder'
    BY <1>1, <2>1, <2>2 DEF InOrderInv, WaitsInOrder, SleepsInOrder
  <2>4. CvMutex \in mutexLocked[t] => m = CvMutex
    BY <2>1 DEF CvMutexLast
  <2>5. HoldsInOrder'
    BY <1>1, <2>1, <2>4 DEF InOrderInv, HoldsInOrder
  <2> QED BY <2>3, <2>5 DEF InOrderInv
<1>4. ASSUME NEW t \in Threads, NEW m \in Mutexes, LockOwned(t, m)
      PROVE  InOrderInv'
  BY <1>2, <1>4 DEF LockOwned
<1>5. ASSUME NEW t \in Threads, NEW m \in Mutexes, Enqueue(t, m),
             NEW to \in {"lock", "relock"}, pc' = [pc EXCEPT ![t] = to],
             \A h \in mutexLocked[t] : <<h, m>> \in Nesting
      PROVE  InOrderInv'
  <2>1. mutexWaiting' = [mutexWaiting EXCEPT ![t] = m] /\ UNCHANGED mutexLocked
    BY <1>5 DEF Enqueue
  <2> QED BY <1>1, <1>5, <2>1 DEF InOrderInv, WaitsInOrder, SleepsInOrder, HoldsInOrder
<1>6. ASSUME NEW t \in Threads, NEW m \in Mutexes, LockBlock(t, m)
      PROVE  InOrderInv'
  BY <1>5, <1>6 DEF LockBlock, MayLock
<1>7. ASSUME NEW t \in Threads, NEW m \in Mutexes, Unlock(t, m)
      PROVE  InOrderInv'
  <2>1. owner[m] = t /\ pc[t] = "run" /\ pc' = pc
    BY <1>7 DEF Unlock, Running
  <2>2. CASE recursiveDepth[m] > 0
    BY <1>2, <1>7, <2>1, <2>2 DEF Unlock
  <2>3. CASE Release(t, m)
    BY <2>1, <2>3, ReleaseOrder
  <2> QED BY <1>7, <2>2, <2>3 DEF Unlock
<1>8. ASSUME NEW t \in Threads, CondWait(t)
      PROVE  InOrderInv'
  <2>1. /\ CvMutex \in Mutexes /\ owner[CvMutex] = t /\ Release(t, CvMutex)
        /\ pc[t] = "run" /\ pc' = [pc EXCEPT ![t] = "cond"]
    BY <1>8 DEF CondWait, Running
  <2> QED BY <2>1, ReleaseOrder
<1>9. ASSUME NEW t \in Threads, CondResume(t)
      PROVE  InOrderInv'
  <2>1. pc[t] = "cond" /\ CvMutex \in Mutexes
    BY <1>9 DEF CondResume, IInv, CondList
  <2>2. mutexWaiting[t] = NoMutex /\ \A h \in mutexLocked[t] : <<h, CvMutex>> \in Nesting
    BY <2>1 DEF InOrderInv, SleepsInOrder, IInv, Places
  <2>3. CASE Acquire(t, CvMutex) /\ pc' = [pc EXCEPT ![t] = "run"]
    <3>1. /\ mutexLocked' = [mutexLocked EXCEPT ![t] = @ \cup {CvMutex}]
          /\ UNCHANGED mutexWaiting
      BY <2>3 DEF Acquire
    <3>2. WaitsInOrder' /\ SleepsInOrder'
      BY <1>1, <2>2, <2>3, <3>1 DEF InOrderInv, WaitsInOrder, SleepsInOrder
    <3>3. HoldsInOrder'
      BY <1>1, <2>2, <3>1 DEF InOrderInv, HoldsInOrder
    <3> QED BY <3>2, <3>3 DEF InOrderInv
  <2>4. CASE Enqueue(t, CvMutex) /\ pc' = [pc EXCEPT ![t] = "relock"]
    BY <1>5, <2>1, <2>2, <2>4
  <2> QED BY <1>9, <2>3, <2>4 DEF CondResume
<1>10. ASSUME NEW t \in Threads, LockResume(t) \/ RelockResume(t) \/ SpuriousWakeup(t)
       PROVE  InOrderInv'
  <2>1. UNCHANGED <<mutexLocked, mutexWaiting>>
    BY <1>10 DEF LockResume, RelockResume, SpuriousWakeup
  <2>2. pc' = pc \/ pc' = [pc EXCEPT ![t] = "run"]
    BY <1>10 DEF LockResume, RelockResume, SpuriousWakeup
  <2> QED BY <1>1, <1>2, <2>1, <2>2
<1>11. ASSUME Signal \/ Broadcast \/ UNCHANGED vars
       PROVE  InOrderInv'
  <2>1. UNCHANGED <<mutexLocked, mutexWaiting, pc>>
    BY <1>11 DEF Signal, Broadcast, CondWake, vars
  <2> QED BY <1>2, <2>1
<1>12. ASSUME NEW t \in Threads, NEW v \in Priorities, SetPriority(t, v)
       PROVE  InOrderInv'
  BY <1>2, <1>12 DEF SetPriority
<1> QED BY <1>3, <1>4, <1>6, <1>7, <1>8, <1>9, <1>10, <1>11, <1>12 DEF Next, TryLock

LEMMA OrderKept == ASSUME CvMutexLast PROVE Spec => []InOrderInv
<1>1. Init => InOrderInv
  BY MutexAssumption DEF Init, InOrderInv, WaitsInOrder, SleepsInOrder, HoldsInOrder
<1>2. IInv /\ InOrderInv /\ [Next]_vars => InOrderInv'
  BY NextOrder
<1> QED BY <1>1, <1>2, Inductive, PTL DEF Spec

-----------------------------------------------------------------------------
\* Inheritance.

\* A thread runs at no more than its own priority and those of the threads
\* that wait for what it holds; and at no less.
AtMost(t) ==
    \/ priority[t] <= base[t]
    \/ \E h \in mutexLocked[t] : \E u \in waiting[h] : priority[t] <= priority[u]
AtLeast(t) ==
    /\ base[t] <= priority[t]
    /\ \A h \in mutexLocked[t] : \A u \in waiting[h] : priority[u] <= priority[t]

NeverAbove == \A t \in Threads : AtMost(t)
NeverBelow == \A t \in Threads : AtLeast(t)

LEMMA InheritedIs ==
    ASSUME SharedOK
    PROVE  InheritsHighest <=> NeverAbove /\ NeverBelow
<1> SUFFICES ASSUME NEW t \in Threads
             PROVE  priority[t] \in Highest({base[t]} \cup
                       {priority[u] : u \in UNION {waiting[m] : m \in mutexLocked[t]}})
                    <=> AtMost(t) /\ AtLeast(t)
  BY Zenon DEF InheritsHighest, NeverAbove, NeverBelow
<1> DEFINE U == UNION {waiting[m] : m \in mutexLocked[t]}
           S == {base[t]} \cup {priority[u] : u \in U}
<1>1. \A u : u \in U <=> \E h \in mutexLocked[t] : u \in waiting[h]
  OBVIOUS
<1>2. /\ priority[t] \in Int /\ base[t] \in Int
      /\ \A h \in mutexLocked[t] : \A u \in waiting[h] : priority[u] \in Int
  BY MutexAssumption DEF SharedOK
<1> HIDE DEF U
<1>3. (\A y \in S : y <= priority[t]) <=> AtLeast(t)
  BY <1>1 DEF AtLeast
<1>4. priority[t] \in S
         <=> \/ priority[t] = base[t]
             \/ \E h \in mutexLocked[t] : \E u \in waiting[h] : priority[t] = priority[u]
  BY <1>1
<1>5. AtLeast(t) => (priority[t] \in S <=> AtMost(t))
  BY <1>2, <1>4 DEF AtLeast, AtMost
<1> HIDE DEF S
<1>6. priority[t] \in Highest(S) <=> priority[t] \in S /\ \A y \in S : y <= priority[t]
  BY DEF Highest
<1> QED BY <1>3, <1>5, <1>6 DEF S, U

\* A thread whose mutexes, waiters and priority stay the same keeps its bounds.
LEMMA BoundsKept ==
    ASSUME NEW t \in Threads,
           base'[t] = base[t], priority'[t] = priority[t], mutexLocked'[t] = mutexLocked[t],
           \A h \in mutexLocked[t] : waiting'[h] = waiting[h],
           \A h \in mutexLocked[t] : \A u \in waiting[h] : priority'[u] = priority[u]
    PROVE  (AtMost(t) => AtMost(t)') /\ (AtLeast(t) => AtLeast(t)')
BY DEF AtMost, AtLeast

\* What PKunlock and setPriority compute for the mutexes in held is the
\* highest of v and of the priorities of all their waiters.
LEMMA OfferedBounds ==
    ASSUME SharedOK, RootIsHighest, NEW held \in SUBSET Mutexes, NEW v \in Priorities,
           NEW p \in Highest(Offered(v, held))
    PROVE  /\ v <= p /\ p \in Int
           /\ \A h \in held : \A u \in waiting[h] : priority[u] <= p
           /\ p = v \/ \E h \in held : \E u \in waiting[h] : p = priority[u]
<1> USE MutexAssumption
<1>1. p \in Offered(v, held) /\ \A y \in Offered(v, held) : y <= p
  BY DEF Highest
<1>2. ASSUME NEW h \in held, waiting[h] # {}
      PROVE  /\ front[h] \in waiting[h] /\ priority[front[h]] <= p
             /\ priority[front[h]] \in Int
             /\ \A u \in waiting[h] : priority[u] <= priority[front[h]] /\ priority[u] \in Int
  <2>1. front[h] \in waiting[h] /\ \A u \in waiting[h] : priority[u] <= priority[front[h]]
    BY <1>2 DEF RootIsHighest, Foremost
  <2>2. \A u \in waiting[h] : priority[u] \in Int
    BY DEF SharedOK
  <2> QED BY <1>1, <1>2, <2>1, <2>2 DEF Offered
<1>3. v <= p /\ v \in Int
  BY <1>1 DEF Offered
<1>4. p = v \/ \E h \in held : waiting[h] # {} /\ p = priority[front[h]]
  BY <1>1 DEF Offered
<1>5. p \in Int
  BY <1>2, <1>3, <1>4
<1>6. ASSUME NEW h \in held, NEW u \in waiting[h]
      PROVE  priority[u] <= p
  <2>1. waiting[h] # {}
    OBVIOUS
  <2> QED BY <1>2, <1>5, <2>1
<1>7. p = v \/ \E h \in held : \E u \in waiting[h] : p = priority[u]
  BY <1>2, <1>4
<1> QED BY <1>3, <1>5, <1>6, <1>7

\* A thread that takes a free mutex inherits nothing by it.
LEMMA AcquireBounds ==
    ASSUME Shared, NEW t \in Threads, NEW m \in Mutexes, Acquire(t, m), NEW u \in Threads
    PROVE  (AtMost(u) => AtMost(u)') /\ (AtLeast(u) => AtLeast(u)')
<1> USE MutexAssumption DEF Shared
<1>1. /\ mutexLocked' = [mutexLocked EXCEPT ![t] = @ \cup {m}]
      /\ UNCHANGED <<waiting, priority, base>> /\ owner[m] = NoThread
  BY DEF Acquire, heaps
<1>2. waiting[m] = {}
  BY <1>1 DEF SharedOK, Structure, WaitersWaitForAnOwner
<1>3. mutexLocked'[u] = mutexLocked[u] \/ mutexLocked'[u] = mutexLocked[u] \cup {m}
  BY <1>1 DEF SharedOK
<1> QED BY <1>1, <1>2, <1>3 DEF AtMost, AtLeast

\* The walk goes from an owner to the owner it waits for.
LEMMA ChainNext ==
    ASSUME Shared, NEW o \in Threads, NEW x \in Chain(o), mutexWaiting[x] # NoMutex
    PROVE  owner[mutexWaiting[x]] \in Chain(o)
<1>1. x \in Threads /\ mutexWaiting[x] \in Mutexes
  BY DEF Chain, Shared, SharedOK
<1>2. owner[mutexWaiting[x]] \in Threads
  BY <1>1 DEF Shared, SharedOK, Structure, WaitersWaitForAnOwner
<1>3. ASSUME NEW S \in SUBSET Threads, o \in S, Closed(S)
      PROVE  owner[mutexWaiting[x]] \in S
  <2>1. x \in S
    BY <1>3 DEF Chain
  <2> QED BY <1>3, <2>1 DEF Closed
<1> QED BY <1>2, <1>3 DEF Chain

\* It comes to each thread it visits, the first one apart, from a thread that
\* waits for it.
LEMMA ChainPrevious ==
    ASSUME Shared, NEW o \in Threads, NEW u \in Chain(o), u # o
    PROVE  \E x \in Chain(o) : mutexWaiting[x] \in Mutexes /\ owner[mutexWaiting[x]] = u
<1>1. SUFFICES ASSUME \A x \in Chain(o) : mutexWaiting[x] # NoMutex =>
                                             owner[mutexWaiting[x]] # u
               PROVE  FALSE
  <2>1. \A x \in Chain(o) : mutexWaiting[x] # NoMutex => mutexWaiting[x] \in Mutexes
    BY DEF Chain, Shared, SharedOK
  <2> QED BY <1>1, <2>1
<1> DEFINE S == Chain(o) \ {u}
<1>2. S \in SUBSET Threads
  BY DEF Chain
<1>3. o \in S
  BY DEF Chain
<1>4. Closed(S)
  BY <1>1, ChainNext DEF Closed
<1> HIDE DEF S
<1>5. u \in S
  BY <1>2, <1>3, <1>4 DEF Chain
<1> QED BY <1>5 DEF S

\* The walk raises each owner it visits to the priority of a thread that now
\* waits for it, and to no less than its others unless it meets an owner that
\* runs above the thread that started it.
LEMMA EnqueueBounds ==
    ASSUME Shared, NEW t \in Threads, NEW m \in Mutexes, Enqueue(t, m),
           mutexWaiting[t] = NoMutex
    PROVE  /\ NeverAbove => NeverAbove'
           /\ NeverBelow /\ (\A u \in Chain(owner[m]) :
                                priority[t] > priority[owner[m]] => priority[u] <= priority[t])
                 => NeverBelow'
<1> USE MutexAssumption DEF Shared
<1> DEFINE o        == owner[m]
           inherits == priority[t] > priority[o]
           Visited  == IF inherits THEN Chain(o) ELSE {}
<1>1. /\ o \in Threads /\ o # t /\ m \in mutexLocked[o]
      /\ \A u \in Threads : m \in mutexLocked[u] => u = o
  BY DEF Enqueue, SharedOK, Structure, HeldExactlyByOwner
<1>2. /\ waiting' = [waiting EXCEPT ![m] = @ \cup {t}]
      /\ priority' = [u \in Threads |-> IF u \in Visited THEN priority[t] ELSE priority[u]]
      /\ UNCHANGED <<mutexLocked, base>>
  <2>1. priority' = IF inherits THEN Walk(t, o) ELSE priority
    BY DEF Enqueue
  <2>2. priority' = [u \in Threads |-> IF u \in Visited THEN priority[t] ELSE priority[u]]
    BY <2>1 DEF Walk, SharedOK
  <2> QED BY <2>2 DEF Enqueue
<1>3. /\ \A h \in Mutexes : waiting[h] \subseteq waiting'[h]
      /\ \A h \in Mutexes : waiting'[h] \subseteq waiting[h] \cup {t}
      /\ \A h \in Mutexes : h # m => waiting'[h] = waiting[h]
      /\ t \in waiting'[m]
  BY <1>2 DEF SharedOK
<1>4. /\ priority'[t] = priority[t]
      /\ \A u \in Threads : u \notin Visited => priority'[u] = priority[u]
      /\ \A u \in Threads : u \in Visited => priority'[u] = priority[t]
  BY <1>2
<1>5. Visited \subseteq Chain(o) /\ Chain(o) \subseteq Threads
  BY DEF Chain
<1>6. ASSUME NEW u \in Threads, u \notin Visited, NEW h \in mutexLocked[u], NEW w \in waiting[h]
      PROVE  w \in Threads /\ priority'[w] = priority[w]
  <2>1. h \in Mutexes /\ w \in Threads /\ mutexWaiting[w] = h /\ owner[h] = u
    BY DEF SharedOK, Structure, HeldExactlyByOwner, WaitersWaitForAnOwner
  <2>2. w \notin Visited
    BY <1>1, <1>6, <2>1, ChainNext
  <2> QED BY <1>4, <2>1, <2>2
<1>7. ASSUME NEW u \in Visited
      PROVE  \E h \in mutexLocked[u] : \E w \in waiting'[h] : priority'[w] = priority[t]
  <2>1. CASE u = o
    BY <1>1, <1>3, <1>4, <2>1
  <2>2. CASE u # o
    <3>1. PICK x \in Chain(o) : mutexWaiting[x] \in Mutexes /\ owner[mutexWaiting[x]] = u
      BY <1>1, <1>7, <2>2, ChainPrevious
    <3>2. x \in Threads /\ u \in Threads /\ x \in Visited
      BY <1>5, <1>7
    <3>3. mutexWaiting[x] \in mutexLocked[u] /\ x \in waiting[mutexWaiting[x]]
      BY <3>1, <3>2 DEF Structure, HeldExactlyByOwner, WaitersWaitForAnOwner
    <3> QED BY <1>3, <1>4, <3>1, <3>2, <3>3
  <2> QED BY <2>1, <2>2
<1>8. \A u \in Threads : priority[u] \in Int /\ base[u] \in Int
  BY DEF SharedOK
<1> HIDE DEF Visited
<1>9. ASSUME NEW u \in Threads, AtMost(u)
      PROVE  AtMost(u)'
  <2>1. CASE u \in Visited
    <3>1. PICK h \in mutexLocked[u] : \E w \in waiting'[h] : priority'[w] = priority[t]
      BY <1>7, <2>1
    <3>2. PICK w \in waiting'[h] : priority'[w] = priority[t]
      BY <3>1
    <3>3. priority'[u] = priority[t] /\ priority[t] \in Int
      BY <1>4, <1>8, <2>1
    <3>4. priority'[u] <= priority'[w] /\ mutexLocked'[u] = mutexLocked[u]
      BY <1>2, <3>2, <3>3
    <3> QED BY <3>4 DEF AtMost
  <2>2. CASE u \notin Visited
    <3>1. priority'[u] = priority[u]
      BY <1>4, <2>2
    <3>2. CASE priority[u] <= base[u]
      BY <1>2, <3>1, <3>2 DEF AtMost
    <3>3. ASSUME NEW h \in mutexLocked[u], NEW w \in waiting[h], priority[u] <= priority[w]
          PROVE  AtMost(u)'
      <4>1. priority'[w] = priority[w] /\ h \in Mutexes
        BY <1>6, <2>2 DEF SharedOK
      <4> QED BY <1>2, <1>3, <3>1, <3>3, <4>1 DEF AtMost
    <3> QED BY <1>9, <3>2, <3>3 DEF AtMost
  <2> QED BY <2>1, <2>2
<1>10. ASSUME NEW u \in Threads, AtLeast(u), u \in Visited => priority[u] <= priority[t]
       PROVE  AtLeast(u)'
  <2>1. priority[u] <= priority'[u] /\ priority'[u] \in Int
    BY <1>4, <1>8, <1>10
  <2>2. base'[u] <= priority'[u]
    BY <1>2, <1>8, <1>10, <2>1 DEF AtLeast
  <2>3. ASSUME NEW h \in mutexLocked[u], NEW w \in waiting'[h]
        PROVE  priority'[w] <= priority'[u]
    <3>1. h \in Mutexes /\ w \in Threads /\ (w \in waiting[h] \/ (w = t /\ h = m))
      <4>1. h \in Mutexes /\ \A x \in waiting[h] : x \in Threads
        BY DEF SharedOK
      <4>2. w \in waiting[h] \/ w = t
        BY <1>3, <4>1
      <4>3. w \in waiting[h] \/ h = m
        BY <1>3, <4>1
      <4> QED BY <4>1, <4>2, <4>3
    <3>2. CASE w = t /\ h = m
      <4>1. u = o
        BY <1>1, <3>2
      <4>2. priority'[t] <= priority'[u]
        BY <1>1, <1>4, <1>8, <4>1 DEF Visited, Chain
      <4> QED BY <3>2, <4>2
    <3>3. CASE w \in waiting[h]
      <4>1. priority[w] <= priority[u]
        BY <1>10, <3>3 DEF AtLeast
      <4>2. CASE w \in Visited
        <5>1. u \in Visited
          BY <1>6, <3>1, <3>3, <4>2, <1>5, <1>1, ChainNext
             DEF Visited, SharedOK, Structure, HeldExactlyByOwner, WaitersWaitForAnOwner
        <5> QED BY <1>4, <1>8, <3>1, <4>2, <5>1
      <4>3. CASE w \notin Visited
        BY <1>4, <1>8, <2>1, <3>1, <4>1, <4>3
      <4> QED BY <4>2, <4>3
    <3> QED BY <3>1, <3>2, <3>3
  <2> QED BY <1>2, <2>2, <2>3 DEF AtLeast
<1>11. ASSUME \A u \in Chain(o) : inherits => priority[u] <= priority[t], NeverBelow
       PROVE  NeverBelow'
  BY <1>10, <1>11 DEF Visited, NeverBelow
<1>12. NeverAbove => NeverAbove'
  BY <1>9 DEF NeverAbove
<1> QED BY <1>11, <1>12

\* A thread that releases a mutex is left with what its others are worth, and
\* the one it is handed to was the highest waiter, so it inherits nothing.
LEMMA ReleaseBounds ==
    ASSUME Shared, RootIsHighest, NEW t \in Threads, NEW m \in Mutexes,
           owner[m] = t, Release(t, m), mutexWaiting[t] = NoMutex, NEW u \in Threads
    PROVE  (AtMost(u) => AtMost(u)') /\ (AtLeast(u) => AtLeast(u)')
<1> USE MutexAssumption DEF Shared
<1>1. /\ \A h \in Mutexes : t \notin waiting[h]
      /\ \A x \in Threads : m \in mutexLocked[x] <=> x = t
      /\ \A x \in Threads, h \in Mutexes : x \in waiting[h] <=> mutexWaiting[x] = h
      /\ savedPriority[t] = base[t] /\ base[t] \in Priorities /\ base' = base
      /\ \A x \in Threads : priority[x] \in Int
  <2>1. \A x \in Threads : m \in mutexLocked[x] <=> x = t
    BY DEF Structure, HeldExactlyByOwner
  <2>2. savedPriority[t] = base[t]
    BY <2>1 DEF BaseRestored
  <2>3. base' = base
    BY DEF Release
  <2>4. \A x \in Threads, h \in Mutexes : x \in waiting[h] <=> mutexWaiting[x] = h
    BY DEF Structure, WaitersWaitForAnOwner
  <2>5. base[t] \in Priorities /\ \A x \in Threads : priority[x] \in Int
    BY DEF SharedOK
  <2> QED BY <2>1, <2>2, <2>3, <2>4, <2>5
<1> DEFINE kept == mutexLocked[t] \ {m}
<1>2. kept \in SUBSET Mutexes /\ Remaining(t, m) = kept
  BY DEF SharedOK, Remaining
<1>3. ASSUME NEW p \in Highest(Offered(savedPriority[t], Remaining(t, m)))
      PROVE  /\ base[t] <= p /\ p \in Int
             /\ \A h \in kept : \A x \in waiting[h] : priority[x] <= p
             /\ p = base[t] \/ \E h \in kept : \E x \in waiting[h] : p = priority[x]
  <2> HIDE DEF kept
  <2>1. p \in Highest(Offered(base[t], kept)) /\ base[t] \in Priorities
    BY <1>1, <1>2
  <2>2. kept \in SUBSET Mutexes /\ SharedOK
    BY <1>2
  <2>3. \A held \in SUBSET Mutexes, v \in Priorities : \A q \in Highest(Offered(v, held)) :
           /\ v <= q /\ q \in Int
           /\ \A h \in held : \A x \in waiting[h] : priority[x] <= q
           /\ q = v \/ \E h \in held : \E x \in waiting[h] : q = priority[x]
    BY <2>2, OfferedBounds
  <2>4. \A q \in Highest(Offered(base[t], kept)) :
           /\ base[t] <= q /\ q \in Int
           /\ \A h \in kept : \A x \in waiting[h] : priority[x] <= q
           /\ q = base[t] \/ \E h \in kept : \E x \in waiting[h] : q = priority[x]
    BY <2>1, <2>2, <2>3
  <2>5. p \in Highest(Offered(base[t], kept))
    BY <2>1
  <2> QED BY <2>4, <2>5
<1>4. ASSUME NEW p \in Highest(Offered(savedPriority[t], Remaining(t, m))),
             mutexLocked'[t] = kept, priority'[t] = p,
             \A h \in kept : waiting'[h] = waiting[h],
             \A h \in kept : \A x \in waiting[h] : priority'[x] = priority[x]
      PROVE  AtMost(t)' /\ AtLeast(t)'
  <2> HIDE DEF kept
  <2>1. AtLeast(t)'
    BY <1>1, <1>3, <1>4 DEF AtLeast
  <2>2. p <= p
    BY <1>3
  <2>3. AtMost(t)'
    BY <1>1, <1>3, <1>4, <2>2 DEF AtMost
  <2> QED BY <2>1, <2>3
<1>5. CASE waiting[m] = {}
  <2>1. PICK p \in Highest(Offered(savedPriority[t], Remaining(t, m))) :
           /\ mutexLocked' = [mutexLocked EXCEPT ![t] = Remaining(t, m)]
           /\ priority' = [priority EXCEPT ![t] = p]
           /\ waiting' = waiting
    BY <1>5 DEF Release, heaps
  <2>2. \A x \in Threads : x # t => priority'[x] = priority[x] /\ mutexLocked'[x] = mutexLocked[x]
    BY <2>1 DEF SharedOK
  <2>3. \A h \in Mutexes : \A x \in waiting[h] : priority'[x] = priority[x]
    BY <1>1, <2>2 DEF SharedOK
  <2>4. CASE u = t
    <3>1. mutexLocked'[t] = kept /\ priority'[t] = p
      BY <1>2, <2>1 DEF SharedOK
    <3> QED BY <1>2, <1>4, <2>1, <2>3, <2>4, <3>1
  <2>5. CASE u # t
    <3>1. mutexLocked[u] \subseteq Mutexes
      BY DEF SharedOK
    <3> QED BY <1>1, <2>1, <2>2, <2>3, <2>5, <3>1, BoundsKept
  <2> QED BY <2>4, <2>5
<1>6. CASE waiting[m] # {}
  <2> DEFINE n == front[m]
  <2>1. PICK p \in Highest(Offered(savedPriority[t], Remaining(t, m))),
             r \in RootOf(HeapLess(m, n), priority) :
           /\ waiting' = [waiting EXCEPT ![m] = HeapLess(m, n)]
           /\ mutexLocked' = [mutexLocked EXCEPT ![t] = Remaining(t, m), ![n] = @ \cup {m}]
           /\ priority' = [priority EXCEPT ![t] = p, ![n] = HeirPriority(n, r)]
    BY <1>6 DEF Release
  <2>2. /\ n \in waiting[m] /\ n \in Threads /\ n # t
        /\ \A h \in Mutexes : h # m => n \notin waiting[h]
        /\ \A x \in waiting[m] : priority[x] <= priority[n]
    BY <1>1, <1>6 DEF RootIsHighest, Foremost, SharedOK
  <2>3. HeirPriority(n, r) = priority[n]
    <3>1. r # NoThread => r \in waiting[m]
      BY <2>1 DEF RootOf, Foremost, HeapLess
    <3>2. r # NoThread => priority[r] <= priority[n] /\ priority[r] \in Int /\ priority[n] \in Int
      BY <2>2, <3>1 DEF SharedOK
    <3> QED BY <3>2 DEF HeirPriority
  <2>4. /\ waiting'[m] = waiting[m] \ {n}
        /\ \A h \in Mutexes : h # m => waiting'[h] = waiting[h]
        /\ mutexLocked'[t] = kept /\ mutexLocked'[n] = mutexLocked[n] \cup {m}
        /\ \A x \in Threads : x \notin {t, n} => mutexLocked'[x] = mutexLocked[x]
        /\ priority'[t] = p /\ \A x \in Threads : x # t => priority'[x] = priority[x]
    BY <1>2, <2>1, <2>2, <2>3 DEF SharedOK, HeapLess
  <2>5. \A h \in Mutexes : \A x \in waiting[h] : x \in Threads /\ priority'[x] = priority[x]
    BY <1>1, <2>4 DEF SharedOK
  <2> HIDE DEF n
  <2>6. CASE u = t
    <3>1. m \notin kept
      OBVIOUS
    <3> HIDE DEF kept
    <3> QED BY <1>2, <1>4, <2>4, <2>5, <2>6, <3>1
  <2>7. CASE u = n
    <3>1. m \notin mutexLocked[n] /\ mutexLocked[n] \subseteq Mutexes
      BY <1>1, <2>2 DEF SharedOK
    <3>2. \A h \in mutexLocked[n] : waiting'[h] = waiting[h] /\
             \A x \in waiting[h] : priority'[x] = priority[x]
      BY <2>4, <2>5, <3>1
    <3>3. priority'[n] = priority[n] /\ base'[n] = base[n]
      BY <1>1, <2>2, <2>4
    <3>4. mutexLocked'[u] = mutexLocked[u] \cup {m}
      BY <2>4, <2>7
    <3>5. \A x \in waiting'[m] : priority'[x] <= priority'[u]
      BY <2>2, <2>4, <2>5, <2>7, <3>3
    <3>6. AtMost(u) => AtMost(u)'
      BY <2>7, <3>2, <3>3, <3>4 DEF AtMost
    <3>7. AtLeast(u) => AtLeast(u)'
      BY <2>7, <3>2, <3>3, <3>4, <3>5 DEF AtLeast
    <3> QED BY <3>6, <3>7
  <2>8. CASE u \notin {t, n}
    <3>1. m \notin mutexLocked[u] /\ mutexLocked[u] \subseteq Mutexes
      BY <1>1, <2>8 DEF SharedOK
    <3>2. \A h \in mutexLocked[u] : waiting'[h] = waiting[h]
      BY <2>4, <3>1
    <3>3. \A h \in mutexLocked[u] : \A x \in waiting[h] : priority'[x] = priority[x]
      BY <2>5, <3>1
    <3>4. base'[u] = base[u] /\ priority'[u] = priority[u] /\ mutexLocked'[u] = mutexLocked[u]
      BY <1>1, <2>4, <2>8
    <3> QED BY <3>2, <3>3, <3>4, BoundsKept
  <2> QED BY <2>6, <2>7, <2>8
<1> QED BY <1>5, <1>6

\* setPriority recomputes what its caller inherits, which waits for nothing.
LEMMA SetPriorityBounds ==
    ASSUME IInv, RootIsHighest, NEW t \in Threads, NEW v \in Priorities,
           SetPriority(t, v), NEW u \in Threads
    PROVE  (AtMost(u) => AtMost(u)') /\ (AtLeast(u) => AtLeast(u)')
<1> USE MutexAssumption DEF IInv, Shared
<1>1. /\ mutexWaiting[t] = NoMutex
      /\ base' = [base EXCEPT ![t] = v]
      /\ UNCHANGED <<waiting, mutexLocked>>
  BY DEF SetPriority, Running, Places, heaps
<1>2. \A h \in Mutexes : t \notin waiting[h]
  BY <1>1 DEF Structure, WaitersWaitForAnOwner
<1>3. PICK p : /\ priority' = [priority EXCEPT ![t] = p]
               /\ IF mutexLocked[t] = {} THEN p = v
                                         ELSE p \in Highest(Offered(v, mutexLocked[t]))
  BY DEF SetPriority
<1>4. \A h \in Mutexes : \A x \in waiting[h] : priority'[x] = priority[x]
  BY <1>2, <1>3 DEF SharedOK
<1>5. mutexLocked[u] \subseteq Mutexes
  BY DEF SharedOK
<1>6. CASE u = t
  <2>1. priority'[t] = p /\ base'[t] = v /\ v \in Int
    BY <1>1, <1>3 DEF SharedOK
  <2>2. /\ v <= p /\ p \in Int
        /\ \A h \in mutexLocked[t] : \A x \in waiting[h] : priority[x] <= p
        /\ p = v \/ \E h \in mutexLocked[t] : \E x \in waiting[h] : p = priority[x]
    <3>1. CASE mutexLocked[t] = {}
      BY <1>3, <2>1, <3>1
    <3>2. CASE mutexLocked[t] # {}
      BY SMTT(20), <1>3, <1>5, <1>6, <3>2, OfferedBounds
    <3> QED BY <3>1, <3>2
  <2>3. p <= p
    BY <2>2
  <2>4. AtMost(t)'
    BY <1>1, <1>4, <1>5, <1>6, <2>1, <2>2, <2>3 DEF AtMost
  <2>5. AtLeast(t)'
    BY <1>1, <1>4, <1>5, <1>6, <2>1, <2>2 DEF AtLeast
  <2> QED BY <1>6, <2>4, <2>5
<1>7. CASE u # t
  <2>1. base'[u] = base[u] /\ priority'[u] = priority[u]
    BY <1>1, <1>3, <1>7 DEF SharedOK
  <2>2. /\ mutexLocked'[u] = mutexLocked[u]
        /\ \A h \in mutexLocked[u] : waiting'[h] = waiting[h]
        /\ \A h \in mutexLocked[u] : \A x \in waiting[h] : priority'[x] = priority[x]
    BY <1>1, <1>4, <1>5
  <2> QED BY <2>1, <2>2, BoundsKept
<1> QED BY <1>6, <1>7

\* A walk that starts, because a thread runs above the owner it waits for,
\* meets no thread that runs above the one that started it.
LowersNobody ==
    \A t \in Threads, m \in Mutexes :
        owner[m] \in Threads /\ priority[t] > priority[owner[m]] =>
            \A u \in Chain(owner[m]) : priority[u] <= priority[t]

\* What every step does to the bounds on the priority a thread runs at.
LEMMA NextBounds ==
    ASSUME IInv, RootIsHighest, [Next]_vars
    PROVE  (NeverAbove => NeverAbove') /\ (NeverBelow /\ LowersNobody => NeverBelow')
<1> USE MutexAssumption
<1>1. Shared /\ SharedOK
  BY DEF IInv, Shared
<1>2. ASSUME UNCHANGED <<waiting, priority, base, mutexLocked>>
      PROVE  (NeverAbove => NeverAbove') /\ (NeverBelow => NeverBelow')
  BY <1>2 DEF NeverAbove, NeverBelow, AtMost, AtLeast
<1>3. ASSUME NEW t \in Threads, pc[t] \in {"run", "cond"}
      PROVE  mutexWaiting[t] = NoMutex
  BY <1>3 DEF IInv, Places
<1>4. ASSUME NEW t \in Threads, NEW m \in Mutexes, Acquire(t, m)
      PROVE  (NeverAbove => NeverAbove') /\ (NeverBelow => NeverBelow')
  BY <1>1, <1>4, AcquireBounds DEF NeverAbove, NeverBelow
<1>5. ASSUME NEW t \in Threads, NEW m \in Mutexes, Enqueue(t, m), pc[t] \in {"run", "cond"}
      PROVE  (NeverAbove => NeverAbove') /\ (NeverBelow /\ LowersNobody => NeverBelow')
  <2>1. owner[m] \in Threads
    BY <1>1, <1>5 DEF Enqueue, SharedOK
  <2>2. LowersNobody => \A u \in Chain(owner[m]) :
                           priority[t] > priority[owner[m]] => priority[u] <= priority[t]
    BY <2>1 DEF LowersNobody
  <2> QED BY <1>1, <1>3, <1>5, <2>2, EnqueueBounds
<1>6. ASSUME NEW t \in Threads, NEW m \in Mutexes, owner[m] = t, Release(t, m), pc[t] = "run"
      PROVE  (NeverAbove => NeverAbove') /\ (NeverBelow => NeverBelow')
  <2>1. mutexWaiting[t] = NoMutex
    BY <1>3, <1>6
  <2>2. \A u \in Threads : (AtMost(u) => AtMost(u)') /\ (AtLeast(u) => AtLeast(u)')
    BY <1>1, <1>6, <2>1, ReleaseBounds
  <2> QED BY <2>2 DEF NeverAbove, NeverBelow
<1>7. ASSUME NEW t \in Threads, NEW m \in Mutexes,
             LockFree(t, m) \/ LockOwned(t, m) \/ LockBlock(t, m)
                \/ TryLock(t, m) \/ Unlock(t, m)
      PROVE  (NeverAbove => NeverAbove') /\ (NeverBelow /\ LowersNobody => NeverBelow')
  <2>1. CASE LockFree(t, m)
    BY <1>4, <2>1 DEF LockFree
  <2>2. CASE LockOwned(t, m)
    BY <1>2, <2>2 DEF LockOwned, heaps, prios
  <2>3. CASE LockBlock(t, m)
    BY <1>5, <2>3 DEF LockBlock, Running
  <2>4. CASE Unlock(t, m)
    <3>1. owner[m] = t /\ pc[t] = "run"
      BY <2>4 DEF Unlock, Running
    <3>2. CASE recursiveDepth[m] > 0
      BY <1>2, <2>4, <3>2 DEF Unlock, heaps, prios
    <3>3. CASE Release(t, m)
      BY <1>6, <3>1, <3>3
    <3> QED BY <2>4, <3>2, <3>3 DEF Unlock
  <2> QED BY <1>7, <2>1, <2>2, <2>3, <2>4 DEF TryLock
<1>8. ASSUME NEW t \in Threads,
             LockResume(t) \/ CondWait(t) \/ CondResume(t) \/ RelockResume(t)
                \/ SpuriousWakeup(t)
      PROVE  (NeverAbove => NeverAbove') /\ (NeverBelow /\ LowersNobody => NeverBelow')
  <2>1. CASE LockResume(t) \/ RelockResume(t) \/ SpuriousWakeup(t)
    BY <1>2, <2>1 DEF LockResume, RelockResume, SpuriousWakeup, heaps, prios
  <2>2. CASE CondWait(t)
    <3>1. CvMutex \in Mutexes /\ owner[CvMutex] = t /\ Release(t, CvMutex) /\ pc[t] = "run"
      BY <2>2 DEF CondWait, Running
    <3> QED BY <1>6, <3>1
  <2>3. CASE CondResume(t)
    <3>1. pc[t] = "cond" /\ CvMutex \in Mutexes /\ (Acquire(t, CvMutex) \/ Enqueue(t, CvMutex))
      BY <2>3 DEF CondResume, IInv, CondList
    <3> QED BY <1>4, <1>5, <3>1
  <2> QED BY <1>8, <2>1, <2>2, <2>3
<1>9. ASSUME Signal \/ Broadcast \/ UNCHANGED vars
      PROVE  (NeverAbove => NeverAbove') /\ (NeverBelow => NeverBelow')
  BY <1>2, <1>9 DEF Signal, Broadcast, CondWake, heaps, prios, vars
<1>10. ASSUME NEW t \in Threads, NEW v \in Priorities, SetPriority(t, v)
       PROVE  (NeverAbove => NeverAbove') /\ (NeverBelow => NeverBelow')
  <2>1. \A u \in Threads : (AtMost(u) => AtMost(u)') /\ (AtLeast(u) => AtLeast(u)')
    BY <1>10, SetPriorityBounds
  <2> QED BY <2>1 DEF NeverAbove, NeverBelow
<1> QED BY <1>7, <1>8, <1>9, <1>10 DEF Next

LEMMA InitBounds == Init => NeverAbove /\ NeverBelow
<1> SUFFICES ASSUME Init PROVE NeverAbove /\ NeverBelow
  OBVIOUS
<1>1. \A t \in Threads : mutexLocked[t] = {} /\ base[t] = priority[t] /\ priority[t] \in Int
  BY MutexAssumption DEF Init
<1>2. \A t \in Threads : base[t] <= priority[t] /\ priority[t] <= base[t]
  BY <1>1
<1> QED BY <1>1, <1>2 DEF NeverAbove, NeverBelow, AtMost, AtLeast

\* Whatever the clients do, a thread never runs above both its own priority and
\* those of the threads that wait for the mutexes it holds: nothing it inherited
\* outlasts the mutex, or the waiters, it was inherited for.
THEOREM NeverAboveInherited == Spec => []NeverAbove
<1>1. IInv /\ RootIsHighest /\ NeverAbove /\ [Next]_vars => NeverAbove'
  BY NextBounds
<1> QED BY <1>1, InitBounds, Inductive, HandedToHighest, PTL DEF Spec

\* Without nesting a walk visits one owner, which waits for nothing.
LEMMA FlatLowersNobody ==
    ASSUME Nesting = {}, IInv, InOrderInv
    PROVE  LowersNobody
<1> USE MutexAssumption
<1> SUFFICES ASSUME NEW t \in Threads, NEW m \in Mutexes, owner[m] \in Threads,
                    priority[t] > priority[owner[m]], NEW u \in Chain(owner[m])
             PROVE  priority[u] <= priority[t]
  BY DEF LowersNobody
<1>1. m \in mutexLocked[owner[m]]
  BY DEF IInv, Shared, Structure, HeldExactlyByOwner
<1>2. mutexWaiting[owner[m]] = NoMutex
  BY <1>1 DEF InOrderInv, WaitsInOrder, IInv, Shared, SharedOK
<1>3. Closed({owner[m]}) /\ {owner[m]} \in SUBSET Threads
  BY <1>2 DEF Closed
<1>4. u = owner[m]
  BY <1>3 DEF Chain
<1>5. priority[t] \in Int /\ priority[u] \in Int
  BY <1>4 DEF IInv, Shared, SharedOK
<1> QED BY <1>4, <1>5

\* With two levels, a thread that starts a walk runs at the higher one.
LEMMA TwoLevelsLowerNobody ==
    ASSUME SharedOK, \A x, y, z \in Priorities : ~(x < y /\ y < z)
    PROVE  LowersNobody
<1> USE MutexAssumption
<1> SUFFICES ASSUME NEW t \in Threads, NEW m \in Mutexes, owner[m] \in Threads,
                    priority[t] > priority[owner[m]], NEW u \in Chain(owner[m])
             PROVE  priority[u] <= priority[t]
  BY DEF LowersNobody
<1>1. u \in Threads
  BY DEF Chain
<1>2. /\ priority[t] \in Priorities /\ priority[u] \in Priorities
      /\ priority[owner[m]] \in Priorities
  BY <1>1 DEF SharedOK
<1>3. priority[owner[m]] < priority[t]
  BY <1>2
<1>4. ~(priority[t] < priority[u])
  BY <1>2, <1>3
<1>5. priority[t] \in Int /\ priority[u] \in Int
  BY <1>2
<1> QED BY <1>4, <1>5

\* Where clients never lock a mutex while they hold another, or where there are
\* at most two levels of priority, a thread runs at exactly the highest of its
\* own priority and of those waiting for the mutexes it holds.
THEOREM ExactInheritance ==
    ASSUME \/ Nesting = {}
           \/ \A x, y, z \in Priorities : ~(x < y /\ y < z)
    PROVE  Spec => []InheritsHighest
<1>1. IInv /\ (Nesting = {} => InOrderInv) => LowersNobody
  BY FlatLowersNobody, TwoLevelsLowerNobody DEF IInv, Shared
<1>2. IInv /\ RootIsHighest /\ (Nesting = {} => InOrderInv)
         /\ NeverAbove /\ NeverBelow /\ [Next]_vars
      => (NeverAbove /\ NeverBelow)'
  BY <1>1, NextBounds
<1>3. IInv /\ NeverAbove /\ NeverBelow => InheritsHighest
  BY InheritedIs DEF IInv, Shared
<1>4. Spec => [](Nesting = {} => InOrderInv)
  <2>1. CASE Nesting = {}
    <3>1. CvMutexLast
      BY <2>1 DEF CvMutexLast
    <3>2. InOrderInv => (Nesting = {} => InOrderInv)
      OBVIOUS
    <3> QED BY <3>1, <3>2, OrderKept, PTL
  <2>2. CASE Nesting # {}
    <3>1. TRUE => (Nesting = {} => InOrderInv)
      BY <2>2
    <3> QED BY <3>1, PTL
  <2> QED BY <2>1, <2>2
<1> QED BY <1>2, <1>3, <1>4, InitBounds, Inductive, HandedToHighest, PTL DEF Spec

-----------------------------------------------------------------------------
\* Deadlock.

\* t waits, in the end, for itself.
InCircle(t) == mutexWaiting[t] # NoMutex /\ t \in Chain(owner[mutexWaiting[t]])

\* Threads that all wait, and for each other only, include a circle.
CirclesFound ==
    \A S \in SUBSET Threads :
        S # {} /\ Closed(S) /\ (\A u \in S : mutexWaiting[u] # NoMutex)
            => \E t \in S : InCircle(t)

LEMMA FindCircle == ASSUME IsFiniteSet(Threads) PROVE CirclesFound
<1> SUFFICES ASSUME NEW S \in SUBSET Threads, S # {}, Closed(S),
                    \A u \in S : mutexWaiting[u] # NoMutex
             PROVE  \E t \in S : InCircle(t)
  BY DEF CirclesFound
<1> DEFINE Less   == StrictSubsetOrdering(Threads)
           Finite == FiniteSubsetsOf(Threads)
           D == {T \in Finite : T # {} /\ T \subseteq S /\ Closed(T)}
<1>1. IsWellFoundedOn(Less, Finite)
  BY FS_StrictSubsetOrderingWellFounded
<1>2. Finite = SUBSET Threads
  BY FS_FiniteSubsetsOfFinite
<1>3. S \in D /\ D \subseteq Finite
  BY <1>2
<1>4. PICK T \in D : \A U \in D : <<U, T>> \notin Less
  <2> HIDE DEF D, Less, Finite
  <2>1. D # {}
    BY <1>3
  <2> QED BY <1>1, <1>3, <2>1, WFMin
<1>5. T \in SUBSET Threads /\ T # {} /\ T \subseteq S /\ Closed(T)
  BY <1>2, <1>4
<1>6. PICK t \in T : TRUE
  BY <1>5
<1> DEFINE o == owner[mutexWaiting[t]]
<1>7. o \in T /\ mutexWaiting[t] # NoMutex
  BY <1>5, <1>6 DEF Closed
<1>8. Chain(o) \subseteq T
  BY <1>5, <1>7 DEF Chain
<1>9. o \in Chain(o)
  BY <1>5, <1>7 DEF Chain
<1>10. Closed(Chain(o))
  <2> SUFFICES ASSUME NEW x \in Chain(o), mutexWaiting[x] # NoMutex
               PROVE  owner[mutexWaiting[x]] \in Chain(o)
    BY DEF Closed
  <2>1. owner[mutexWaiting[x]] \in Threads
    BY <1>5, <1>8 DEF Closed
  <2>2. \A U \in SUBSET Threads : o \in U /\ Closed(U) => owner[mutexWaiting[x]] \in U
    BY DEF Chain, Closed
  <2> HIDE DEF o
  <2> QED BY <2>1, <2>2 DEF Chain
<1> HIDE DEF o
<1>11. Chain(o) \in D
  BY <1>2, <1>5, <1>8, <1>9, <1>10
<1>12. Chain(o) = T
  <2>1. <<Chain(o), T>> \notin Less
    BY <1>4, <1>11
  <2> QED BY <1>5, <1>8, <2>1 DEF StrictSubsetOrdering
<1> QED BY <1>5, <1>6, <1>7, <1>12 DEF InCircle, o

\* A walk that does not end has only met threads that wait, from the one that
\* started it, which waits now, to the last.
LEMMA StuckClosed ==
    ASSUME Shared, NEW t \in Threads, NEW m \in Mutexes, Enqueue(t, m),
           Endless(t, owner[m])
    PROVE  \E S \in SUBSET Threads :
              S # {} /\ Closed(S)' /\ \A u \in S : mutexWaiting'[u] # NoMutex
<1> USE MutexAssumption
<1> DEFINE o == owner[m]
           S == Chain(o) \cup {t}
<1>1. o \in Threads /\ mutexWaiting' = [mutexWaiting EXCEPT ![t] = m] /\ owner' = owner
  BY DEF Enqueue, Shared, SharedOK
<1>2. S \in SUBSET Threads /\ S # {} /\ o \in Chain(o)
  BY <1>1 DEF Chain
<1>3. \A u \in S : mutexWaiting'[u] # NoMutex
  BY <1>1, <1>2 DEF Endless, Shared, SharedOK
<1>4. \A u \in S : owner'[mutexWaiting'[u]] \in S
  <2> SUFFICES ASSUME NEW u \in S
               PROVE  owner'[mutexWaiting'[u]] \in S
    OBVIOUS
  <2>1. CASE u = t
    BY <1>1, <1>2, <2>1 DEF Shared, SharedOK
  <2>2. CASE u # t
    <3>1. u \in Chain(o) /\ mutexWaiting'[u] = mutexWaiting[u] /\ mutexWaiting[u] # NoMutex
      BY <1>1, <1>2, <1>3, <2>2 DEF Shared, SharedOK
    <3> QED BY <1>1, <3>1, ChainNext
  <2> QED BY <2>1, <2>2
<1> HIDE DEF S
<1>5. PICK T \in SUBSET Threads : T = S
  BY <1>2
<1>6. Closed(T)'
  BY <1>4, <1>5 DEF Closed
<1> QED BY <1>2, <1>3, <1>5, <1>6

LEMMA NextStuck ==
    IInv /\ CirclesFound' /\ StuckIsDeadlock /\ [Next]_vars => StuckIsDeadlock'
<1> SUFFICES ASSUME IInv, CirclesFound', StuckIsDeadlock, [Next]_vars, kernel' = "stuck"
             PROVE  \E t \in Threads : InCircle(t)'
  BY DEF StuckIsDeadlock, InCircle
<1> USE MutexAssumption
<1>1. CASE kernel = "stuck"
  <2>1. ~Next
    BY <1>1 DEF Next, LockFree, LockOwned, LockBlock, TryLock, Unlock, LockResume, CondWait,
                CondResume, RelockResume, SpuriousWakeup, Signal, Broadcast, CondWake,
                SetPriority, Running
  <2>2. UNCHANGED vars
    BY <2>1
  <2>3. UNCHANGED <<mutexWaiting, owner>>
    BY <2>2 DEF vars
  <2>4. PICK t \in Threads : InCircle(t)
    BY <1>1 DEF StuckIsDeadlock, InCircle
  <2>5. InCircle(t)'
    BY <2>3, <2>4 DEF InCircle, Chain, Closed
  <2> QED BY <2>5
<1>2. ASSUME NEW t \in Threads, NEW m \in Mutexes, Enqueue(t, m), kernel # "stuck"
      PROVE  \E u \in Threads : InCircle(u)'
  <2>1. Endless(t, owner[m])
    BY <1>2 DEF Enqueue
  <2>2. PICK S \in SUBSET Threads :
           S # {} /\ Closed(S)' /\ \A u \in S : mutexWaiting'[u] # NoMutex
    BY <1>2, <2>1, StuckClosed DEF IInv
  <2>3. \E u \in S : InCircle(u)'
    BY <2>2 DEF CirclesFound
  <2> QED BY <2>3
<1>3. ASSUME kernel # "stuck", Next
      PROVE  \E u \in Threads : InCircle(u)'
  <2>1. \/ kernel' \in {kernel, "reboot"}
        \/ \E t \in Threads, m \in Mutexes : Enqueue(t, m)
    <3>1. ASSUME NEW t \in Threads, NEW m \in Mutexes, Acquire(t, m) \/ Release(t, m)
          PROVE  kernel' = kernel
      BY <3>1 DEF Acquire, Release
    <3>2. ASSUME NEW t \in Threads, NEW m \in Mutexes,
                 LockFree(t, m) \/ LockOwned(t, m) \/ TryLock(t, m) \/ Unlock(t, m)
          PROVE  kernel' \in {kernel, "reboot"}
      BY <3>1, <3>2 DEF LockFree, LockOwned, TryLock, Unlock
    <3>3. ASSUME NEW t \in Threads, CondResume(t)
          PROVE  kernel' = kernel \/ (CvMutex \in Mutexes /\ Enqueue(t, CvMutex))
      <4>1. CvMutex \in Mutexes
        BY <3>3 DEF CondResume, IInv, CondList
      <4> QED BY <3>1, <3>3, <4>1 DEF CondResume
    <3>4. ASSUME NEW t \in Threads,
                 LockResume(t) \/ CondWait(t) \/ RelockResume(t) \/ SpuriousWakeup(t)
          PROVE  kernel' = kernel
      BY <3>1, <3>4 DEF LockResume, CondWait, RelockResume, SpuriousWakeup
    <3>5. ASSUME Signal \/ Broadcast \/ \E t \in Threads, v \in Priorities : SetPriority(t, v)
          PROVE  kernel' = kernel
      BY <3>5 DEF Signal, Broadcast, CondWake, SetPriority
    <3> QED BY <1>3, <3>2, <3>3, <3>4, <3>5 DEF Next, LockBlock
  <2> QED BY <1>2, <1>3, <2>1
<1>4. CASE UNCHANGED vars /\ kernel # "stuck"
  BY <1>4 DEF vars
<1> QED BY <1>1, <1>3, <1>4

\* With finitely many threads, a walk that never ends has met threads that wait
\* for each other in a circle: the kernel only hangs on a deadlock of its clients.
THEOREM HangIsDeadlock ==
    ASSUME IsFiniteSet(Threads)
    PROVE  Spec => []StuckIsDeadlock
<1>1. Init => StuckIsDeadlock
  BY DEF Init, StuckIsDeadlock
<1>2. CirclesFound
  BY FindCircle
<1> QED BY <1>1, <1>2, NextStuck, Inductive, PTL DEF Spec

\* Clients that lock mutexes in an order, with the mutex of the condition
\* variable last, never wait for each other in a circle.
NoCircularWait == \A t \in Threads : ~InCircle(t)

LEMMA RankedNoCircle ==
    ASSUME NEW rank \in [Mutexes -> Int],
           \A g, h \in Mutexes : <<g, h>> \in Nesting => g = h \/ rank[g] < rank[h],
           Shared, WaitsInOrder
    PROVE  NoCircularWait
<1> USE MutexAssumption
<1> SUFFICES ASSUME NEW t \in Threads, InCircle(t)
             PROVE  FALSE
  BY DEF NoCircularWait
<1> DEFINE m == mutexWaiting[t]
           S == {x \in Threads : mutexWaiting[x] # NoMutex => rank[m] < rank[mutexWaiting[x]]}
<1>1. m \in Mutexes /\ t \in Chain(owner[m])
  BY DEF InCircle, Shared, SharedOK
<1>2. ASSUME NEW x \in Threads, mutexWaiting[x] # NoMutex
      PROVE  /\ mutexWaiting[x] \in Mutexes /\ owner[mutexWaiting[x]] \in Threads
             /\ mutexWaiting[owner[mutexWaiting[x]]] # NoMutex =>
                   /\ mutexWaiting[owner[mutexWaiting[x]]] \in Mutexes
                   /\ rank[mutexWaiting[x]] < rank[mutexWaiting[owner[mutexWaiting[x]]]]
  <2> DEFINE g == mutexWaiting[x]
             y == owner[g]
             h == mutexWaiting[y]
  <2>1. g \in Mutexes
    BY <1>2 DEF Shared, SharedOK
  <2>2. y \in Threads
    BY <2>1 DEF Shared, SharedOK, Structure, WaitersWaitForAnOwner
  <2>3. ASSUME h # NoMutex
        PROVE  h \in Mutexes /\ rank[g] < rank[h]
    <3>1. h \in Mutexes /\ owner[h] # y
      BY <2>2, <2>3 DEF Shared, SharedOK, Structure, WaitersWaitForAnOwner
    <3>2. g \in mutexLocked[y]
      BY <2>1, <2>2 DEF Shared, Structure, HeldExactlyByOwner
    <3>3. <<g, h>> \in Nesting /\ g # h
      BY <2>2, <3>1, <3>2 DEF WaitsInOrder
    <3> QED BY <2>1, <3>1, <3>3
  <2> QED BY <2>1, <2>2, <2>3
<1>3. owner[m] \in S
  BY <1>1, <1>2
<1>4. Closed(S)
  <2> SUFFICES ASSUME NEW x \in S, mutexWaiting[x] # NoMutex
               PROVE  owner[mutexWaiting[x]] \in S
    BY DEF Closed
  <2>1. x \in Threads /\ rank[m] < rank[mutexWaiting[x]]
    OBVIOUS
  <2>2. rank[m] \in Int /\ rank[mutexWaiting[x]] \in Int
    BY <1>1, <1>2, <2>1
  <2>3. owner[mutexWaiting[x]] \in Threads
    BY <1>2, <2>1
  <2>4. ASSUME mutexWaiting[owner[mutexWaiting[x]]] # NoMutex
        PROVE  rank[m] < rank[mutexWaiting[owner[mutexWaiting[x]]]]
    <3>1. /\ rank[mutexWaiting[x]] < rank[mutexWaiting[owner[mutexWaiting[x]]]]
          /\ rank[mutexWaiting[owner[mutexWaiting[x]]]] \in Int
      BY <1>2, <2>1, <2>4
    <3> QED BY <2>1, <2>2, <3>1
  <2> QED BY <2>3, <2>4
<1>5. S \in SUBSET Threads
  OBVIOUS
<1>6. t \notin S
  BY <1>1
<1> HIDE DEF S
<1> QED BY <1>1, <1>3, <1>4, <1>5, <1>6 DEF Chain

\* If the clients lock mutexes in the order of a rank, and nothing while they
\* hold the mutex of the condition variable, they never wait for each other in a
\* circle: the handovers of the kernel and wait(), which locks its mutex again
\* while the thread holds others, make none.
THEOREM OrderedNoDeadlock ==
    ASSUME NEW rank \in [Mutexes -> Int],
           \A g, h \in Mutexes : <<g, h>> \in Nesting => g = h \/ rank[g] < rank[h],
           CvMutexLast
    PROVE  Spec => []NoCircularWait
<1>1. IInv /\ InOrderInv => NoCircularWait
  BY RankedNoCircle DEF IInv, InOrderInv
<1> QED BY <1>1, Inductive, OrderKept, PTL

\* Under the same discipline, and with finitely many threads, the kernel never
\* hangs in the walk of lock().
THEOREM OrderedNeverHangs ==
    ASSUME NEW rank \in [Mutexes -> Int],
           \A g, h \in Mutexes : <<g, h>> \in Nesting => g = h \/ rank[g] < rank[h],
           CvMutexLast, IsFiniteSet(Threads)
    PROVE  Spec => [](kernel # "stuck")
<1>1. StuckIsDeadlock /\ NoCircularWait => kernel # "stuck"
  BY DEF StuckIsDeadlock, NoCircularWait, InCircle
<1> QED BY <1>1, HangIsDeadlock, OrderedNoDeadlock, PTL

\* Whom a thread waits for is, or waits in the end for, a thread that waits for no
\* mutex.
WaitEnds ==
    \A t \in Threads :
        mutexWaiting[t] # NoMutex =>
            \E u \in Chain(owner[mutexWaiting[t]]) : mutexWaiting[u] = NoMutex

LEMMA NoCircleNoBlock ==
    ASSUME Shared, CirclesFound, NoCircularWait
    PROVE  WaitEnds
<1> SUFFICES ASSUME NEW t \in Threads, mutexWaiting[t] # NoMutex,
                    \A u \in Chain(owner[mutexWaiting[t]]) : mutexWaiting[u] # NoMutex
             PROVE  FALSE
  BY DEF WaitEnds
<1> DEFINE o == owner[mutexWaiting[t]]
<1>1. o \in Threads
  BY DEF Shared, SharedOK, Structure, WaitersWaitForAnOwner
<1>2. Chain(o) \in SUBSET Threads /\ o \in Chain(o)
  BY <1>1 DEF Chain
<1>3. Closed(Chain(o))
  BY <1>1, ChainNext DEF Closed
<1> HIDE DEF o
<1>4. PICK u \in Chain(o) : InCircle(u)
  BY <1>2, <1>3 DEF CirclesFound, o
<1> QED BY <1>2, <1>4 DEF NoCircularWait

\* Under the same discipline, and with finitely many threads, behind every thread that
\* waits for a mutex there is one that waits for none and can go on to release its own.
THEOREM OrderedProgress ==
    ASSUME NEW rank \in [Mutexes -> Int],
           \A g, h \in Mutexes : <<g, h>> \in Nesting => g = h \/ rank[g] < rank[h],
           CvMutexLast, IsFiniteSet(Threads)
    PROVE  Spec => []WaitEnds
<1>1. CirclesFound
  BY FindCircle
<1>2. IInv /\ CirclesFound /\ NoCircularWait => WaitEnds
  BY NoCircleNoBlock DEF IInv
<1> QED BY <1>1, <1>2, Inductive, OrderedNoDeadlock, PTL

-----------------------------------------------------------------------------
\* Who gets a mutex.

\* A step that takes a mutex from its owner leaves it free if nobody waits for
\* it, and otherwise gives it to one of its waiters of the highest priority.
PassesToHighest ==
    \A m \in Mutexes :
        owner[m] # NoThread /\ owner'[m] # owner[m] =>
            IF waiting[m] = {} THEN owner'[m] = NoThread
                               ELSE owner'[m] \in Foremost(waiting[m], priority)

LEMMA ReleasePasses ==
    ASSUME SharedOK, RootIsHighest, NEW t \in Threads, NEW m \in Mutexes, Release(t, m)
    PROVE  PassesToHighest
<1> SUFFICES ASSUME NEW h \in Mutexes, owner'[h] # owner[h]
             PROVE  IF waiting[h] = {} THEN owner'[h] = NoThread
                                       ELSE owner'[h] \in Foremost(waiting[h], priority)
  BY DEF PassesToHighest
<1>1. owner' = [owner EXCEPT ![m] = IF waiting[m] = {} THEN NoThread ELSE front[m]]
  BY DEF Release
<1>2. h = m
  BY <1>1 DEF SharedOK
<1> QED BY <1>1, <1>2 DEF SharedOK, RootIsHighest

LEMMA NextPasses ==
    ASSUME IInv, RootIsHighest, Next
    PROVE  PassesToHighest
<1> USE MutexAssumption
<1>1. SharedOK
  BY DEF IInv, Shared
<1>2. ASSUME NEW t \in Threads, NEW m \in Mutexes, Acquire(t, m)
      PROVE  PassesToHighest
  BY <1>1, <1>2 DEF Acquire, SharedOK, PassesToHighest
<1>3. ASSUME NEW t \in Threads, NEW m \in Mutexes, Release(t, m)
      PROVE  PassesToHighest
  BY <1>1, <1>3, ReleasePasses
<1>4. ASSUME UNCHANGED owner
      PROVE  PassesToHighest
  BY <1>4 DEF PassesToHighest
<1>5. ASSUME NEW t \in Threads, NEW m \in Mutexes,
             LockFree(t, m) \/ LockOwned(t, m) \/ LockBlock(t, m)
                \/ TryLock(t, m) \/ Unlock(t, m)
      PROVE  PassesToHighest
  BY <1>2, <1>3, <1>4, <1>5
     DEF LockFree, LockOwned, LockBlock, TryLock, Unlock, Enqueue
<1>6. ASSUME NEW t \in Threads,
             LockResume(t) \/ CondWait(t) \/ CondResume(t) \/ RelockResume(t)
                \/ SpuriousWakeup(t)
      PROVE  PassesToHighest
  <2>1. CASE LockResume(t) \/ RelockResume(t) \/ SpuriousWakeup(t)
    BY <1>4, <2>1 DEF LockResume, RelockResume, SpuriousWakeup
  <2>2. CASE CondWait(t)
    <3>1. CvMutex \in Mutexes /\ Release(t, CvMutex)
      BY <2>2 DEF CondWait
    <3> QED BY <1>3, <3>1
  <2>3. CASE CondResume(t)
    <3>1. CvMutex \in Mutexes /\ (Acquire(t, CvMutex) \/ Enqueue(t, CvMutex))
      BY <2>3 DEF CondResume, IInv, CondList
    <3> QED BY <1>2, <1>4, <3>1 DEF Enqueue
  <2> QED BY <1>6, <2>1, <2>2, <2>3
<1>7. ASSUME Signal \/ Broadcast \/ \E t \in Threads, v \in Priorities : SetPriority(t, v)
      PROVE  PassesToHighest
  BY <1>4, <1>7 DEF Signal, Broadcast, CondWake, SetPriority
<1> QED BY <1>5, <1>6, <1>7 DEF Next

\* No thread is overtaken by one of a lower priority at the moment a mutex
\* changes hands, however the priorities of its waiters changed meanwhile.
THEOREM MutexPassesToHighest == Spec => [][PassesToHighest]_vars
<1>1. IInv /\ RootIsHighest /\ [Next]_vars => [PassesToHighest]_vars
  BY NextPasses
<1> QED BY <1>1, Inductive, HandedToHighest, PTL DEF Spec

=============================================================================
