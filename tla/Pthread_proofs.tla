--------------------------- MODULE Pthread_proofs ---------------------------
(***************************************************************************)
(* The pthread interface for any threads, mutexes and depths: its mutexes  *)
(* are fair locks, no wakeup is lost, condition variables give back every  *)
(* level of a mutex, and pthread_once calls its function once.             *)
(***************************************************************************)
EXTENDS Pthread, SequenceTheorems, TLAPS

-----------------------------------------------------------------------------
(***************************************************************************)
(* The lists of waiting threads.                                           *)
(***************************************************************************)
\* No thread is twice in a list.
Distinct(s) == \A i, j \in DOMAIN s : s[i] = s[j] => i = j

LEMMA SeqDomain ==
    ASSUME NEW s \in Seq(Threads)
    PROVE  DOMAIN s = 1..Len(s) /\ Len(s) \in Nat
OBVIOUS

LEMMA AppendList ==
    ASSUME NEW s \in Seq(Threads), NEW e \in Threads
    PROVE  /\ Append(s, e) \in Seq(Threads)
           /\ \A t : Listed(Append(s, e), t) <=> Listed(s, t) \/ t = e
           /\ Distinct(s) /\ ~Listed(s, e) => Distinct(Append(s, e))
<1>1. /\ Append(s, e) \in Seq(Threads)
      /\ Len(Append(s, e)) = Len(s) + 1
      /\ \A i \in 1..Len(s) : Append(s, e)[i] = s[i]
      /\ Append(s, e)[Len(s) + 1] = e
  BY AppendProperties
<1>2. /\ DOMAIN s = 1..Len(s) /\ Len(s) \in Nat
      /\ DOMAIN Append(s, e) = 1..(Len(s) + 1)
  BY <1>1, SeqDomain
<1>3. \A i : i \in 1..(Len(s) + 1) <=> i \in 1..Len(s) \/ i = Len(s) + 1
  BY <1>2
<1>4. \A t : Listed(Append(s, e), t) <=> Listed(s, t) \/ t = e
  BY <1>1, <1>2, <1>3, Zenon DEF Listed
<1>5. ASSUME Distinct(s), ~Listed(s, e)
      PROVE  Distinct(Append(s, e))
  BY <1>1, <1>2, <1>3, <1>5, Zenon DEF Listed, Distinct
<1> QED BY <1>1, <1>4, <1>5

LEMMA TailList ==
    ASSUME NEW s \in Seq(Threads), s # <<>>
    PROVE  /\ Tail(s) \in Seq(Threads)
           /\ Head(s) \in Threads /\ Listed(s, Head(s))
           /\ \A t : Listed(s, t) <=> Listed(Tail(s), t) \/ t = Head(s)
           /\ Distinct(s) => Distinct(Tail(s)) /\ ~Listed(Tail(s), Head(s))
<1>1. /\ Tail(s) \in Seq(Threads) /\ Head(s) \in Threads
      /\ Len(Tail(s)) = Len(s) - 1
      /\ \A i \in 1..Len(Tail(s)) : Tail(s)[i] = s[i + 1]
  BY HeadTailProperties
<1>2. /\ DOMAIN s = 1..Len(s) /\ Len(s) \in Nat \ {0}
      /\ DOMAIN Tail(s) = 1..(Len(s) - 1)
      /\ Head(s) = s[1] /\ 1 \in DOMAIN s
  BY <1>1, SeqDomain, EmptySeq
<1>3. \A i \in DOMAIN s : i = 1 \/ (i - 1 \in DOMAIN Tail(s) /\ Tail(s)[i - 1] = s[i])
  BY <1>1, <1>2
<1>4. \A i \in DOMAIN Tail(s) : i + 1 \in DOMAIN s /\ i + 1 # 1 /\ Tail(s)[i] = s[i + 1]
  BY <1>1, <1>2
<1>5. Listed(s, Head(s))
  BY <1>2 DEF Listed
<1>6. ASSUME NEW t
      PROVE  Listed(s, t) <=> Listed(Tail(s), t) \/ t = Head(s)
  BY <1>2, <1>3, <1>4, Zenon DEF Listed
<1>7. ASSUME Distinct(s)
      PROVE  Distinct(Tail(s)) /\ ~Listed(Tail(s), Head(s))
  <2>1. Distinct(Tail(s))
    <3> SUFFICES ASSUME NEW i \in DOMAIN Tail(s), NEW j \in DOMAIN Tail(s),
                        Tail(s)[i] = Tail(s)[j]
                 PROVE  i = j
      BY DEF Distinct
    <3>1. i + 1 = j + 1
      BY <1>4, <1>7 DEF Distinct
    <3> QED BY <1>2, <3>1
  <2>2. ~Listed(Tail(s), Head(s))
    BY <1>2, <1>4, <1>7 DEF Distinct, Listed
  <2> QED BY <2>1, <2>2
<1> QED BY <1>1, <1>5, <1>6, <1>7

\* What is left of a list after its first, or after all of them.
LEMMA RestList ==
    ASSUME NEW s \in Seq(Threads), s # <<>>, NEW n \in {1, Len(s)}, Distinct(s)
    PROVE  LET rest == SubSeq(s, n + 1, Len(s))
           IN /\ rest \in Seq(Threads) /\ Distinct(rest)
              /\ \A t : Listed(rest, t) <=> Listed(s, t) /\ \A i \in 1..n : s[i] # t
<1>1. DOMAIN s = 1..Len(s) /\ Len(s) \in Nat \ {0}
  BY SeqDomain, EmptySeq
<1>2. CASE n = 1
  <2>1. SubSeq(s, n + 1, Len(s)) = Tail(s)
    BY <1>2, TailIsSubSeq
  <2>2. \A t : (\A i \in 1..n : s[i] # t) <=> t # Head(s)
    BY <1>1, <1>2
  <2> QED BY ZenonT(30), <2>1, <2>2, TailList
<1>3. CASE n = Len(s)
  <2>1. SubSeq(s, n + 1, Len(s)) = <<>>
    BY <1>1, <1>3, SubSeqEmpty
  <2>2. \A t : Listed(s, t) <=> ~\A i \in 1..n : s[i] # t
    BY <1>1, <1>3 DEF Listed
  <2>3. <<>> \in Seq(Threads) /\ Distinct(<<>>) /\ \A t : ~Listed(<<>>, t)
    BY DEF Distinct, Listed
  <2> QED BY <2>1, <2>2, <2>3
<1> QED BY <1>2, <1>3

\* Appending after a concatenation or to its second part is the same.
LEMMA ConcatAppend ==
    ASSUME NEW s \in Seq(Threads), NEW o \in Threads, NEW e \in Threads
    PROVE  <<o>> \o Append(s, e) = Append(<<o>> \o s, e)
<1>1. <<o>> \in Seq(Threads) /\ Len(<<o>>) = 1 /\ Len(s) \in Nat
  OBVIOUS
<1>2. /\ Append(s, e) \in Seq(Threads) /\ Len(Append(s, e)) = Len(s) + 1
      /\ \A i \in 1..Len(s) : Append(s, e)[i] = s[i]
      /\ Append(s, e)[Len(s) + 1] = e
  BY AppendProperties
<1>3. /\ <<o>> \o s \in Seq(Threads) /\ Len(<<o>> \o s) = 1 + Len(s)
      /\ \A i \in 1..(1 + Len(s)) : (<<o>> \o s)[i] = IF i <= 1 THEN <<o>>[i] ELSE s[i - 1]
  BY <1>1, ConcatProperties
<1>4. /\ <<o>> \o Append(s, e) \in Seq(Threads)
      /\ Len(<<o>> \o Append(s, e)) = 2 + Len(s)
      /\ \A i \in 1..(2 + Len(s)) :
            (<<o>> \o Append(s, e))[i] = IF i <= 1 THEN <<o>>[i] ELSE Append(s, e)[i - 1]
  BY <1>1, <1>2, ConcatProperties
<1>5. /\ Append(<<o>> \o s, e) \in Seq(Threads)
      /\ Len(Append(<<o>> \o s, e)) = 2 + Len(s)
      /\ \A i \in 1..(1 + Len(s)) : Append(<<o>> \o s, e)[i] = (<<o>> \o s)[i]
      /\ Append(<<o>> \o s, e)[2 + Len(s)] = e
  BY <1>1, <1>3, AppendProperties
<1>6. ASSUME NEW i \in 1..(2 + Len(s))
      PROVE  (<<o>> \o Append(s, e))[i] = Append(<<o>> \o s, e)[i]
  <2>1. CASE i <= 1
    BY <1>1, <1>3, <1>4, <1>5, <2>1
  <2>2. CASE ~(i <= 1) /\ i - 1 <= Len(s)
    <3>1. i \in 1..(1 + Len(s)) /\ i - 1 \in 1..Len(s)
      BY <1>1, <2>2
    <3> QED BY <1>2, <1>3, <1>4, <1>5, <2>2, <3>1
  <2>3. CASE ~(i - 1 <= Len(s))
    <3>1. i = 2 + Len(s) /\ i - 1 = Len(s) + 1 /\ ~(i <= 1)
      BY <1>1, <2>3
    <3> QED BY <1>2, <1>4, <1>5, <3>1
  <2> QED BY <2>1, <2>2, <2>3
<1> QED BY <1>4, <1>5, <1>6, SeqEqual

-----------------------------------------------------------------------------
(***************************************************************************)
(* The inductive invariant.                                                *)
(***************************************************************************)
Acquiring(t) == pc[t] \in {"lock", "relock"}

\* Who is in the list of a mutex waits for it, and a free mutex has no list.
Queued ==
    \A m \in Mutexes :
        /\ Distinct(waiters[m])
        /\ owner[m] = NoThread => waiters[m] = <<>>
        /\ \A t \in Threads : Listed(waiters[m], t) =>
              Acquiring(t) /\ target[t] = m /\ owner[m] # t

\* Who waits for a mutex has it or is in its list.
Targeted ==
    \A t \in Threads :
        /\ IF pc[t] \in {"lock", "relock", "cond"} THEN target[t] \in Mutexes
                                                   ELSE target[t] = NoMutex
        /\ Acquiring(t) => owner[target[t]] = t \/ Listed(waiters[target[t]], t)
        /\ pc[t] = "cond" => owner[target[t]] # t
        /\ waitFlag[t] => Acquiring(t) /\ owner[target[t]] # t

\* The list of the condition variable.
CondQueued ==
    /\ Distinct(condWaiters)
    /\ \A t \in Threads :
          /\ condFlag[t] <=> Listed(condWaiters, t)
          /\ condFlag[t] => pc[t] = "cond"

\* A mutex has levels only while it has an owner that knows of them, and a thread that
\* waits for it has kept those it had.
Counted(t, m) ==
    /\ m # target[t] =>
          entries[t][m] = IF owner[m] # t THEN 0
                          ELSE IF m \in Recursive THEN recursive[m] + 1 ELSE 1
    /\ m = target[t] =>
          /\ owner[m] = t => recursive[m] <= 0
          /\ entries[t][m] = IF pc[t] = "lock" THEN 0
                             ELSE IF m \in Recursive THEN depth[t] + 1 ELSE 1

Leveled ==
    /\ \A t \in Threads, m \in Mutexes : Counted(t, m)
    /\ \A m \in Mutexes : recursive[m] > 0 => owner[m] # NoThread

\* pthread_once: the three values of its mark.
Marked ==
    /\ \A t \in Threads : pc[t] = "init" => init_executed = 1
    /\ \A t, u \in Threads : pc[t] = "init" /\ pc[u] = "init" => t = u
    /\ completed = IF init_executed = 2 THEN 1 ELSE 0
    /\ returned => init_executed = 2

IInv == TypeOK /\ Queued /\ Targeted /\ CondQueued /\ Leveled /\ Marked

LEMMA InitIInv == Init => IInv
<1> SUFFICES ASSUME Init
             PROVE  IInv
  OBVIOUS
<1> USE PthreadAssumption DEF Init
<1>1. \A t : ~Listed(<<>>, t)
  BY DEF Listed
<1>2. Distinct(<<>>)
  BY DEF Distinct
<1>3. TypeOK
  <2>1. waiters \in [Mutexes -> Seq(Threads)] /\ condWaiters \in Seq(Threads)
    OBVIOUS
  <2>2. entries \in [Threads -> [Mutexes -> Int]]
    OBVIOUS
  <2>3. /\ recursive \in [Mutexes -> -1..MaxDepth]
        /\ \A m \in Mutexes : recursive[m] = -1 <=> m \notin Recursive
    OBVIOUS
  <2>4. /\ owner \in [Mutexes -> Threads \cup {NoThread}]
        /\ pc \in [Threads -> {"run", "lock", "cond", "relock", "once", "init"}]
        /\ target \in [Threads -> Mutexes \cup {NoMutex}]
        /\ depth \in [Threads -> 0..MaxDepth]
        /\ waitFlag \in [Threads -> BOOLEAN] /\ condFlag \in [Threads -> BOOLEAN]
    OBVIOUS
  <2>5. init_executed \in 0..2 /\ completed \in Nat
    OBVIOUS
  <2>6. rebooted \in BOOLEAN /\ returned \in BOOLEAN
    OBVIOUS
  <2> HIDE DEF Init
  <2> QED BY <2>1, <2>2, <2>3, <2>4, <2>5, <2>6 DEF TypeOK
<1>4. Queued /\ Targeted /\ CondQueued
  BY <1>1, <1>2 DEF Queued, Targeted, CondQueued, Acquiring
<1>5. Leveled
  BY DEF Leveled, Counted
<1>6. Marked
  BY DEF Marked
<1> QED BY <1>3, <1>4, <1>5, <1>6 DEF IInv

-----------------------------------------------------------------------------
(***************************************************************************)
(* What passing a mutex on and joining its list do.                        *)
(***************************************************************************)
LEMMA HandoverFacts ==
    ASSUME TypeOK, Queued, NEW m \in Mutexes, Handover(m)
    PROVE  \E h \in Threads \cup {NoThread} :
              /\ owner' = [owner EXCEPT ![m] = h]
              /\ waiters' \in [Mutexes -> Seq(Threads)]
              /\ \A k \in Mutexes : k # m => waiters'[k] = waiters[k]
              /\ Distinct(waiters'[m])
              /\ \A t : Listed(waiters[m], t) <=> Listed(waiters'[m], t) \/ (t = h /\ h # NoThread)
              /\ ~Listed(waiters'[m], h)
              /\ h = NoThread => waiters'[m] = <<>>
              /\ waitFlag' \in [Threads -> BOOLEAN]
              /\ \A t \in Threads : waitFlag'[t] <=> waitFlag[t] /\ t # h
<1> USE PthreadAssumption
<1>1. waiters[m] \in Seq(Threads) /\ Distinct(waiters[m])
  BY DEF TypeOK, Queued
<1>2. CASE waiters[m] = <<>>
  <2>1. owner' = [owner EXCEPT ![m] = NoThread] /\ waiters' = waiters /\ waitFlag' = waitFlag
    BY <1>2 DEF Handover, Woken
  <2>2. \A t : ~Listed(<<>>, t)
    BY DEF Listed
  <2>3. \A t \in Threads : t # NoThread
    OBVIOUS
  <2>4. waiters \in [Mutexes -> Seq(Threads)] /\ waitFlag \in [Threads -> BOOLEAN]
    BY DEF TypeOK
  <2>5. waiters'[m] = <<>> /\ Distinct(waiters'[m]) /\ waiters' \in [Mutexes -> Seq(Threads)]
    BY <1>1, <1>2, <2>1, <2>4
  <2>6. waitFlag' \in [Threads -> BOOLEAN]
    BY <2>1, <2>4
  <2>7. /\ \A t : Listed(waiters[m], t) <=>
                     Listed(waiters'[m], t) \/ (t = NoThread /\ NoThread # NoThread)
        /\ ~Listed(waiters'[m], NoThread)
        /\ \A t \in Threads : waitFlag'[t] <=> waitFlag[t] /\ t # NoThread
    BY <1>2, <2>1, <2>2, <2>3, <2>5
  <2>8. \A k \in Mutexes : k # m => waiters'[k] = waiters[k]
    BY <2>1
  <2> QED BY <2>1, <2>5, <2>6, <2>7, <2>8, Zenon
<1>3. CASE waiters[m] # <<>>
  <2> DEFINE h == Head(waiters[m])
  <2>1. /\ Tail(waiters[m]) \in Seq(Threads) /\ Distinct(Tail(waiters[m]))
        /\ h \in Threads /\ ~Listed(Tail(waiters[m]), h)
        /\ \A t : Listed(waiters[m], t) <=> Listed(Tail(waiters[m]), t) \/ t = h
    BY <1>1, <1>3, TailList
  <2>2. /\ owner' = [owner EXCEPT ![m] = h]
        /\ waiters' = [waiters EXCEPT ![m] = Tail(waiters[m])]
        /\ waitFlag' = [waitFlag EXCEPT ![h] = FALSE]
    BY <1>3 DEF Handover, Woken
  <2> HIDE DEF h
  <2>3. /\ waiters' \in [Mutexes -> Seq(Threads)] /\ waiters'[m] = Tail(waiters[m])
        /\ \A k \in Mutexes : k # m => waiters'[k] = waiters[k]
    BY <2>1, <2>2 DEF TypeOK
  <2>4. /\ waitFlag' \in [Threads -> BOOLEAN]
        /\ \A t \in Threads : waitFlag'[t] <=> waitFlag[t] /\ t # h
    BY <2>1, <2>2 DEF TypeOK
  <2>5. h \in Threads \cup {NoThread} /\ h # NoThread
    BY <2>1
  <2>6. /\ Distinct(waiters'[m]) /\ ~Listed(waiters'[m], h)
        /\ \A t : Listed(waiters[m], t) <=> Listed(waiters'[m], t) \/ (t = h /\ h # NoThread)
    BY <2>1, <2>3, <2>5
  <2> QED BY <2>2, <2>3, <2>4, <2>5, <2>6, Zenon
<1> QED BY <1>2, <1>3

LEMMA EnqueueFacts ==
    ASSUME TypeOK, Queued, NEW t \in Threads, NEW m \in Mutexes, NEW place \in {"lock", "relock"},
           Enqueue(t, m, place), ~Listed(waiters[m], t)
    PROVE  /\ waiters' \in [Mutexes -> Seq(Threads)]
           /\ \A k \in Mutexes : k # m => waiters'[k] = waiters[k]
           /\ Distinct(waiters'[m])
           /\ \A u : Listed(waiters'[m], u) <=> Listed(waiters[m], u) \/ u = t
           /\ waitFlag' = [waitFlag EXCEPT ![t] = TRUE]
           /\ pc' = [pc EXCEPT ![t] = place]
           /\ target' = [target EXCEPT ![t] = m]
<1>1. waiters[m] \in Seq(Threads) /\ Distinct(waiters[m])
  BY DEF TypeOK, Queued
<1>2. waiters' = [waiters EXCEPT ![m] = Append(waiters[m], t)]
  BY DEF Enqueue, QueuedLast
<1>3. waiters'[m] = Append(waiters[m], t) /\ \A k \in Mutexes : k # m => waiters'[k] = waiters[k]
  BY <1>2 DEF TypeOK
<1>4. waiters' \in [Mutexes -> Seq(Threads)]
  BY <1>1, <1>2, AppendList DEF TypeOK
<1>5. /\ Distinct(waiters'[m])
      /\ \A u : Listed(waiters'[m], u) <=> Listed(waiters[m], u) \/ u = t
  BY <1>1, <1>3, AppendList
<1> QED BY <1>3, <1>4, <1>5 DEF Enqueue

LEMMA EnteredFacts ==
    ASSUME TypeOK, NEW t \in Threads, NEW m \in Mutexes, NEW n \in Int,
           entries' = Entered(t, m, n)
    PROVE  /\ entries' \in [Threads -> [Mutexes -> Int]]
           /\ entries'[t][m] = entries[t][m] + n
           /\ entries[t][m] \in Int
           /\ \A u \in Threads, k \in Mutexes : u # t \/ k # m => entries'[u][k] = entries[u][k]
BY DEF TypeOK, Entered

-----------------------------------------------------------------------------
(***************************************************************************)
(* One lemma for each kind of step.                                        *)
(***************************************************************************)
LEMMA LockFreeStep ==
    ASSUME IInv, NEW t \in Threads, NEW m \in Mutexes, LockFree(t, m)
    PROVE  IInv'
<1> USE PthreadAssumption DEF IInv, At
<1>1. /\ pc[t] = "run" /\ owner[m] = NoThread /\ waiters[m] = <<>> /\ target[t] = NoMutex
      /\ owner' = [owner EXCEPT ![m] = t]
      /\ entries' = Entered(t, m, 1)
      /\ UNCHANGED <<recursive, waiters, condWaiters, condFlag, depth, waitFlag, pc, target,
                     init_executed, completed, returned, rebooted>>
  BY DEF LockFree, cond, once, Queued, Targeted
<1>2. TypeOK'
  BY <1>1 DEF TypeOK, Entered
<1>3. \A u : ~Listed(waiters[m], u)
  BY <1>1 DEF Listed
<1>4. Queued'
  BY <1>1, <1>3 DEF TypeOK, Queued, Acquiring
<1>5. Targeted'
  BY <1>1, <1>3 DEF TypeOK, Targeted, Acquiring
<1>6. CondQueued' /\ Marked'
  BY <1>1 DEF CondQueued, Marked, Listed, Distinct
<1>8. /\ entries'[t][m] = entries[t][m] + 1
      /\ \A u \in Threads, k \in Mutexes : u # t \/ k # m => entries'[u][k] = entries[u][k]
  BY <1>1, EnteredFacts
<1>7. Leveled'
  <2>1. \A k \in Mutexes : owner'[k] = IF k = m THEN t ELSE owner[k]
    BY <1>1 DEF TypeOK
  <2>2. recursive[m] \in Int /\ (recursive[m] = -1 <=> m \notin Recursive)
        /\ recursive[m] >= -1 /\ ~(recursive[m] > 0)
    BY <1>1 DEF TypeOK, Leveled
  <2>3. ASSUME NEW u \in Threads, NEW k \in Mutexes
        PROVE  Counted(u, k)'
    <3>1. Counted(u, k)
      BY DEF Leveled
    <3>2. CASE u = t /\ k = m
      BY <1>1, <1>8, <2>1, <2>2, <3>1, <3>2 DEF Counted
    <3>3. CASE u # t \/ k # m
      BY <1>1, <1>8, <2>1, <3>1, <3>3 DEF Counted
    <3> QED BY <3>2, <3>3
  <2> QED BY <1>1, <2>1, <2>3 DEF Leveled
<1> QED BY <1>2, <1>4, <1>5, <1>6, <1>7

LEMMA LockAgainStep ==
    ASSUME IInv, NEW t \in Threads, NEW m \in Mutexes, LockAgain(t, m)
    PROVE  IInv'
<1> USE PthreadAssumption DEF IInv, At
<1>1. /\ pc[t] = "run" /\ owner[m] = t /\ recursive[m] \in 0..(MaxDepth - 1)
      /\ target[t] = NoMutex /\ m \in Recursive
      /\ recursive' = [recursive EXCEPT ![m] = recursive[m] + 1]
      /\ entries' = Entered(t, m, 1)
      /\ UNCHANGED <<owner, waiters, condWaiters, condFlag, depth, waitFlag, pc, target,
                     init_executed, completed, returned, rebooted>>
  <2>1. m \in Recursive
    BY DEF LockAgain, TypeOK
  <2> QED BY <2>1 DEF LockAgain, cond, once, Targeted
<1>2. TypeOK'
  BY SMTT(20), <1>1 DEF TypeOK, Entered
<1>3. Queued' /\ Targeted' /\ CondQueued' /\ Marked'
  BY <1>1 DEF Queued, Targeted, Acquiring, CondQueued, Marked, Listed, Distinct
<1>5. /\ entries'[t][m] = entries[t][m] + 1
      /\ \A u \in Threads, k \in Mutexes : u # t \/ k # m => entries'[u][k] = entries[u][k]
  BY <1>1, EnteredFacts
<1>4. Leveled'
  <2>1. \A k \in Mutexes : recursive'[k] = IF k = m THEN recursive[m] + 1 ELSE recursive[k]
    BY <1>1 DEF TypeOK
  <2>2. recursive[m] \in Int
    BY <1>1
  <2>3. ASSUME NEW u \in Threads, NEW k \in Mutexes
        PROVE  Counted(u, k)'
    <3>1. Counted(u, k)
      BY DEF Leveled
    <3>2. CASE u = t /\ k = m
      BY <1>1, <1>5, <2>1, <2>2, <3>1, <3>2 DEF Counted
    <3>3. CASE u # t /\ k = m
      BY <1>1, <1>5, <2>1, <3>1, <3>3 DEF Counted
    <3>4. CASE k # m
      BY <1>1, <1>5, <2>1, <3>1, <3>4 DEF Counted
    <3> QED BY <3>2, <3>3, <3>4
  <2> QED BY <1>1, <2>1, <2>3 DEF Leveled
<1> QED BY <1>2, <1>3, <1>4

\* A thread that joins the list of a mutex somebody owns, and sleeps.
LEMMA EnqueueQueued ==
    ASSUME TypeOK, Queued, NEW t \in Threads, NEW m \in Mutexes,
           NEW to \in {"lock", "relock"},
           owner[m] \notin {NoThread, t}, UNCHANGED owner,
           \A k \in Mutexes : k # m => waiters'[k] = waiters[k] /\ ~Listed(waiters[k], t),
           Distinct(waiters'[m]),
           \A u : Listed(waiters'[m], u) <=> Listed(waiters[m], u) \/ u = t,
           pc' = [pc EXCEPT ![t] = to], target' = [target EXCEPT ![t] = m]
    PROVE  Queued'
<1>1. ASSUME NEW k \in Mutexes
      PROVE  Distinct(waiters'[k]) /\ (owner'[k] = NoThread => waiters'[k] = <<>>)
  BY DEF Queued
<1>2. ASSUME NEW k \in Mutexes, NEW u \in Threads, Listed(waiters'[k], u)
      PROVE  Acquiring(u)' /\ target'[u] = k /\ owner'[k] # u
  <2>1. CASE u = t
    <3>1. k = m
      BY <1>2, <2>1
    <3> QED BY <2>1, <3>1 DEF TypeOK, Acquiring
  <2>2. CASE u # t
    <3>1. Acquiring(u) /\ target[u] = k /\ owner[k] # u
      BY <1>2, <2>2 DEF Queued
    <3> QED BY <2>2, <3>1 DEF TypeOK, Acquiring
  <2> QED BY <2>1, <2>2
<1> QED BY <1>1, <1>2 DEF Queued

LEMMA LockBlockStep ==
    ASSUME IInv, NEW t \in Threads, NEW m \in Mutexes, LockBlock(t, m)
    PROVE  IInv'
<1> USE PthreadAssumption DEF IInv, At
<1>1. /\ pc[t] = "run" /\ owner[m] # NoThread /\ owner[m] # t /\ target[t] = NoMutex
      /\ Enqueue(t, m, "lock")
      /\ UNCHANGED <<owner, recursive, condWaiters, condFlag, depth,
                     init_executed, completed, returned, rebooted, entries>>
  BY DEF LockBlock, cond, once, Targeted
<1>2. ~Listed(waiters[m], t)
  BY <1>1 DEF Queued, Acquiring
<1>3. /\ waiters' \in [Mutexes -> Seq(Threads)]
      /\ \A k \in Mutexes : k # m => waiters'[k] = waiters[k]
      /\ Distinct(waiters'[m])
      /\ \A u : Listed(waiters'[m], u) <=> Listed(waiters[m], u) \/ u = t
      /\ waitFlag' = [waitFlag EXCEPT ![t] = TRUE]
      /\ pc' = [pc EXCEPT ![t] = "lock"]
      /\ target' = [target EXCEPT ![t] = m]
  BY <1>1, <1>2, EnqueueFacts
<1>4. TypeOK'
  BY <1>1, <1>3 DEF TypeOK
<1>5. Queued'
  <2>1. \A k \in Mutexes : ~Listed(waiters[k], t)
    BY <1>1 DEF Queued, Acquiring
  <2> QED BY <1>1, <1>3, <2>1, EnqueueQueued
<1>6. Targeted'
  <2> SUFFICES ASSUME NEW u \in Threads
               PROVE  Targeted!(u)'
    BY DEF Targeted
  <2>1. CASE u = t
    BY <1>1, <1>3, <2>1 DEF TypeOK, Targeted, Acquiring
  <2>2. CASE u # t
    <3>1. /\ pc'[u] = pc[u] /\ target'[u] = target[u] /\ waitFlag'[u] = waitFlag[u]
          /\ \A k \in Mutexes : Listed(waiters[k], u) => Listed(waiters'[k], u)
      BY <1>3, <2>2 DEF TypeOK
    <3> QED BY <1>1, <3>1 DEF Targeted, Acquiring
  <2> QED BY <2>1, <2>2
<1>7. CondQueued' /\ Marked'
  BY <1>1, <1>3 DEF TypeOK, CondQueued, Marked, Listed, Distinct
<1>8. Leveled'
  <2>1. ASSUME NEW u \in Threads, NEW k \in Mutexes
        PROVE  Counted(u, k)'
    <3>1. Counted(u, k)
      BY DEF Leveled
    <3>2. CASE u = t
      BY <1>1, <1>3, <3>1, <3>2 DEF TypeOK, Counted
    <3>3. CASE u # t
      BY <1>1, <1>3, <3>1, <3>3 DEF TypeOK, Counted
    <3> QED BY <3>2, <3>3
  <2> QED BY <1>1, <2>1 DEF Leveled
<1> QED BY <1>4, <1>5, <1>6, <1>7, <1>8

LEMMA LockResumeStep ==
    ASSUME IInv, NEW t \in Threads, LockResume(t)
    PROVE  IInv'
<1> USE PthreadAssumption DEF IInv, At
<1>1. /\ pc[t] = "lock" /\ target[t] \in Mutexes
      /\ UNCHANGED <<owner, waiters, condWaiters, condFlag, depth, recursive,
                     init_executed, completed, returned, rebooted>>
  BY DEF LockResume, SleepAgain, cond, once, Targeted
<1>2. CASE owner[target[t]] = t
  <2>1. /\ pc' = [pc EXCEPT ![t] = "run"]
        /\ target' = [target EXCEPT ![t] = NoMutex]
        /\ entries' = Entered(t, target[t], 1)
        /\ waitFlag' = waitFlag
    BY <1>2 DEF LockResume
  <2>2. TypeOK'
    BY <1>1, <2>1 DEF TypeOK, Entered
  <2>3. Queued'
    BY <1>1, <1>2, <2>1 DEF TypeOK, Queued, Acquiring
  <2>4. Targeted'
    BY SMTT(20), <1>1, <1>2, <2>1 DEF TypeOK, Targeted, Acquiring
  <2>5. CondQueued' /\ Marked'
    BY <1>1, <2>1 DEF TypeOK, CondQueued, Marked, Listed, Distinct
  <2>6. Leveled'
    <3>1. /\ entries[t][target[t]] = 0 /\ recursive[target[t]] \in Int
          /\ recursive[target[t]] = -1 <=> target[t] \notin Recursive
          /\ recursive[target[t]] >= -1 /\ ~(recursive[target[t]] > 0)
      BY <1>1, <1>2 DEF TypeOK, Leveled, Counted
    <3>2. /\ entries'[t][target[t]] = entries[t][target[t]] + 1
          /\ \A u \in Threads, k \in Mutexes :
                u # t \/ k # target[t] => entries'[u][k] = entries[u][k]
      BY <1>1, <2>1, EnteredFacts
    <3>3. ASSUME NEW u \in Threads, NEW k \in Mutexes
          PROVE  Counted(u, k)'
      <4>1. Counted(u, k)
        BY DEF Leveled
      <4>2. CASE u = t /\ k = target[t]
        <5>1. target'[t] = NoMutex /\ k # target'[t]
          BY <1>1, <2>1, <4>2 DEF TypeOK
        <5>2. owner'[k] = t /\ entries'[t][k] = 1
          BY <1>1, <1>2, <3>1, <3>2, <4>2
        <5>3. k \in Recursive => recursive'[k] = 0
          BY <1>1, <3>1, <4>2
        <5> QED BY <4>2, <5>1, <5>2, <5>3 DEF Counted
      <4>3. CASE u = t /\ k # target[t]
        BY <1>1, <2>1, <3>2, <4>1, <4>3 DEF TypeOK, Counted
      <4>4. CASE u # t
        BY <1>1, <2>1, <3>2, <4>1, <4>4 DEF TypeOK, Counted
      <4> QED BY <4>2, <4>3, <4>4
    <3> QED BY <1>1, <3>3 DEF Leveled
  <2> QED BY <2>2, <2>3, <2>4, <2>5, <2>6
<1>3. CASE owner[target[t]] # t
  <2>1. waitFlag' = [waitFlag EXCEPT ![t] = TRUE] /\ UNCHANGED <<pc, target, entries>>
    BY <1>3 DEF LockResume, SleepAgain
  <2>2. TypeOK'
    BY <1>1, <2>1 DEF TypeOK
  <2>3. Queued'
    BY <1>1, <2>1 DEF Queued, Acquiring
  <2>4. Targeted'
    BY <1>1, <1>3, <2>1 DEF TypeOK, Targeted, Acquiring
  <2>5. CondQueued' /\ Marked' /\ Leveled'
    BY <1>1, <2>1 DEF CondQueued, Marked, Leveled, Counted, Listed, Distinct
  <2> QED BY <2>2, <2>3, <2>4, <2>5
<1> QED BY <1>2, <1>3

LEMMA UnlockStep ==
    ASSUME IInv, NEW t \in Threads, NEW m \in Mutexes, Unlock(t, m)
    PROVE  IInv'
<1> USE PthreadAssumption DEF IInv, At
<1>1. /\ pc[t] = "run" /\ owner[m] = t /\ target[t] = NoMutex
      /\ entries' = Entered(t, m, -1)
      /\ UNCHANGED <<condWaiters, condFlag, depth, pc, target,
                     init_executed, completed, returned, rebooted>>
  BY DEF Unlock, cond, once, Targeted
<1>2. CASE recursive[m] > 0
  <2>1. /\ recursive' = [recursive EXCEPT ![m] = recursive[m] - 1]
        /\ UNCHANGED <<owner, waiters, waitFlag>>
    BY <1>2 DEF Unlock
  <2>2. TypeOK'
    BY SMTT(20), <1>1, <1>2, <2>1 DEF TypeOK, Entered
  <2>3. Queued' /\ Targeted' /\ CondQueued' /\ Marked'
    BY <1>1, <2>1 DEF Queued, Targeted, Acquiring, CondQueued, Marked, Listed, Distinct
  <2>4. Leveled'
    <3>1. /\ \A k \in Mutexes : recursive'[k] = IF k = m THEN recursive[m] - 1 ELSE recursive[k]
          /\ recursive[m] \in Int /\ m \in Recursive
      BY <1>2, <2>1 DEF TypeOK
    <3>2. /\ entries'[t][m] = entries[t][m] + (-1)
          /\ \A u \in Threads, k \in Mutexes :
                u # t \/ k # m => entries'[u][k] = entries[u][k]
      BY <1>1, EnteredFacts
    <3>3. ASSUME NEW u \in Threads, NEW k \in Mutexes
          PROVE  Counted(u, k)'
      <4>1. Counted(u, k)
        BY DEF Leveled
      <4>2. CASE u = t /\ k = m
        BY <1>1, <1>2, <2>1, <3>1, <3>2, <4>1, <4>2 DEF Counted
      <4>3. CASE u # t /\ k = m
        BY <1>1, <1>2, <2>1, <3>1, <3>2, <4>1, <4>3 DEF Counted, Acquiring
      <4>4. CASE k # m
        BY <1>1, <1>2, <2>1, <3>1, <3>2, <4>1, <4>4 DEF Counted
      <4> QED BY <4>2, <4>3, <4>4
    <3> QED BY <1>1, <1>2, <2>1, <3>1, <3>3 DEF Leveled
  <2> QED BY <2>2, <2>3, <2>4
<1>3. CASE ~(recursive[m] > 0)
  <2>1. Handover(m) /\ recursive' = recursive
    BY <1>3 DEF Unlock
  <2>2. PICK h \in Threads \cup {NoThread} :
              /\ owner' = [owner EXCEPT ![m] = h]
              /\ waiters' \in [Mutexes -> Seq(Threads)]
              /\ \A k \in Mutexes : k # m => waiters'[k] = waiters[k]
              /\ Distinct(waiters'[m])
              /\ \A u : Listed(waiters[m], u) <=> Listed(waiters'[m], u) \/ (u = h /\ h # NoThread)
              /\ ~Listed(waiters'[m], h)
              /\ h = NoThread => waiters'[m] = <<>>
              /\ waitFlag' \in [Threads -> BOOLEAN]
              /\ \A u \in Threads : waitFlag'[u] <=> waitFlag[u] /\ u # h
    BY <2>1, HandoverFacts
  <2>3. TypeOK'
    <3>1. owner' \in [Mutexes -> Threads \cup {NoThread}]
      BY <2>2 DEF TypeOK
    <3> QED BY SMTT(20), <1>1, <2>1, <2>2, <3>1, EnteredFacts DEF TypeOK
  <2>4. h # NoThread => h \in Threads /\ Acquiring(h) /\ target[h] = m /\ h # t
    BY <1>1, <2>2 DEF Queued
  <2>5. Queued'
    BY SMTT(20), <1>1, <2>2, <2>4 DEF TypeOK, Queued, Acquiring
  <2>6. Targeted'
    BY SMTT(20), <1>1, <2>2, <2>4 DEF TypeOK, Targeted, Queued, Acquiring
  <2>7. CondQueued' /\ Marked'
    BY <1>1 DEF CondQueued, Marked, Listed, Distinct
  <2>8. Leveled'
    <3>1. /\ \A k \in Mutexes : owner'[k] = IF k = m THEN h ELSE owner[k]
          /\ recursive[m] \in Int /\ recursive[m] >= -1 /\ recursive[m] <= 0
          /\ recursive[m] = -1 <=> m \notin Recursive
      BY <1>3, <2>2 DEF TypeOK
    <3>2. /\ entries'[t][m] = entries[t][m] + (-1)
          /\ \A u \in Threads, k \in Mutexes :
                u # t \/ k # m => entries'[u][k] = entries[u][k]
      BY <1>1, EnteredFacts
    <3>3. ASSUME NEW u \in Threads, NEW k \in Mutexes
          PROVE  Counted(u, k)'
      <4>1. Counted(u, k)
        BY DEF Leveled
      <4>2. CASE u = t /\ k = m
        BY <1>1, <2>1, <2>4, <3>1, <3>2, <4>1, <4>2 DEF Counted
      <4>3. CASE u # t /\ k = m
        BY <1>1, <2>1, <2>4, <3>1, <3>2, <4>1, <4>3 DEF Counted, Acquiring
      <4>4. CASE k # m
        BY <1>1, <2>1, <2>4, <3>1, <3>2, <4>1, <4>4 DEF Counted
      <4> QED BY <4>2, <4>3, <4>4
    <3> QED BY <1>1, <2>1, <2>4, <3>1, <3>3 DEF Leveled
  <2> QED BY <2>3, <2>5, <2>6, <2>7, <2>8
<1> QED BY <1>2, <1>3

LEMMA CondWaitStep ==
    ASSUME IInv, NEW t \in Threads, NEW m \in Mutexes, CondWait(t, m)
    PROVE  IInv'
<1> USE PthreadAssumption DEF IInv, At
<1>1. /\ pc[t] = "run" /\ owner[m] = t /\ target[t] = NoMutex /\ ~waitFlag[t] /\ ~condFlag[t]
      /\ condWaiters' = Append(condWaiters, t)
      /\ condFlag' = [condFlag EXCEPT ![t] = TRUE]
      /\ depth' = [depth EXCEPT ![t] = Levels(m)]
      /\ recursive' = Flattened(m)
      /\ Handover(m)
      /\ pc' = [pc EXCEPT ![t] = "cond"]
      /\ target' = [target EXCEPT ![t] = m]
      /\ UNCHANGED <<init_executed, completed, returned, rebooted, entries>>
  BY DEF CondWait, once, Targeted
<1>2. PICK h \in Threads \cup {NoThread} :
            /\ owner' = [owner EXCEPT ![m] = h]
            /\ waiters' \in [Mutexes -> Seq(Threads)]
            /\ \A k \in Mutexes : k # m => waiters'[k] = waiters[k]
            /\ Distinct(waiters'[m])
            /\ \A u : Listed(waiters[m], u) <=> Listed(waiters'[m], u) \/ (u = h /\ h # NoThread)
            /\ ~Listed(waiters'[m], h)
            /\ h = NoThread => waiters'[m] = <<>>
            /\ waitFlag' \in [Threads -> BOOLEAN]
            /\ \A u \in Threads : waitFlag'[u] <=> waitFlag[u] /\ u # h
  BY <1>1, HandoverFacts
<1>3. h # NoThread => h \in Threads /\ Acquiring(h) /\ target[h] = m /\ h # t
  BY <1>1, <1>2 DEF Queued
<1>4. ~Listed(condWaiters, t) /\ condWaiters \in Seq(Threads)
  BY <1>1 DEF CondQueued, TypeOK
<1>5. /\ condWaiters' \in Seq(Threads) /\ Distinct(condWaiters')
      /\ \A u : Listed(condWaiters', u) <=> Listed(condWaiters, u) \/ u = t
  BY <1>1, <1>4, AppendList DEF CondQueued
<1>6. /\ recursive[m] \in -1..MaxDepth /\ (recursive[m] = -1 <=> m \notin Recursive)
      /\ recursive' \in [Mutexes -> -1..MaxDepth]
      /\ \A k \in Mutexes : k # m => recursive'[k] = recursive[k]
      /\ recursive'[m] = IF m \in Recursive THEN 0 ELSE -1
      /\ Levels(m) = IF m \in Recursive THEN recursive[m] ELSE 0
  <2>1. /\ recursive[m] \in -1..MaxDepth /\ (recursive[m] = -1 <=> m \notin Recursive)
        /\ recursive \in [Mutexes -> -1..MaxDepth]
    BY DEF TypeOK
  <2> QED BY <1>1, <2>1 DEF Flattened, Levels
<1>7. TypeOK'
  <2>1. Levels(m) \in 0..MaxDepth
    BY <1>6
  <2>2. depth' \in [Threads -> 0..MaxDepth]
    BY <1>1, <2>1 DEF TypeOK
  <2>3. \A k \in Mutexes : recursive'[k] = -1 <=> k \notin Recursive
    BY SMTT(20), <1>6 DEF TypeOK
  <2>4. owner' \in [Mutexes -> Threads \cup {NoThread}]
    BY <1>2 DEF TypeOK
  <2> QED BY <1>1, <1>2, <1>5, <1>6, <2>2, <2>3, <2>4 DEF TypeOK
<1>8. Queued'
  <2>1. ASSUME NEW k \in Mutexes
        PROVE  Distinct(waiters'[k]) /\ (owner'[k] = NoThread => waiters'[k] = <<>>)
    <3>1. owner'[k] = IF k = m THEN h ELSE owner[k]
      BY <1>2 DEF TypeOK
    <3>2. Distinct(waiters[k]) /\ (owner[k] = NoThread => waiters[k] = <<>>)
      BY DEF Queued
    <3> QED BY <1>2, <3>1, <3>2
  <2>2. ASSUME NEW k \in Mutexes, NEW u \in Threads, Listed(waiters'[k], u)
        PROVE  Acquiring(u)' /\ target'[u] = k /\ owner'[k] # u
    <3>1. Listed(waiters[k], u)
      BY <1>2, <2>2
    <3>2. Acquiring(u) /\ target[u] = k /\ u # t
      BY <1>1, <3>1 DEF Queued, Acquiring
    <3>3. owner'[k] # u
      BY <1>2, <2>2, <3>1 DEF TypeOK, Queued
    <3> QED BY <1>1, <3>2, <3>3 DEF TypeOK, Acquiring
  <2> QED BY <2>1, <2>2 DEF Queued
<1>9. Targeted'
  <2> SUFFICES ASSUME NEW u \in Threads
               PROVE  Targeted!(u)'
    BY DEF Targeted
  <2>1. CASE u = t
    BY <1>1, <1>2, <1>3, <2>1 DEF TypeOK, Targeted, Acquiring
  <2>2. CASE u # t
    BY SMTT(20), <1>1, <1>2, <1>3, <2>2 DEF TypeOK, Targeted, Queued, Acquiring
  <2> QED BY <2>1, <2>2
<1>10. CondQueued'
  BY <1>1, <1>5 DEF TypeOK, CondQueued
<1>11. Marked'
  BY <1>1 DEF TypeOK, Marked
<1>12. Leveled'
  <2>1. \A k \in Mutexes : owner'[k] = IF k = m THEN h ELSE owner[k]
    BY <1>2 DEF TypeOK
  <2>2. ASSUME NEW u \in Threads, NEW k \in Mutexes
        PROVE  Counted(u, k)'
    <3>1. Counted(u, k)
      BY DEF Leveled
    <3>2. CASE u = t /\ k = m
      <4>1. entries'[t][m] = IF m \in Recursive THEN recursive[m] + 1 ELSE 1
        BY <1>1, <3>1, <3>2 DEF Counted
      <4>2. depth'[t] = IF m \in Recursive THEN recursive[m] ELSE 0
        BY <1>1, <1>6 DEF TypeOK
      <4>3. owner'[m] # t /\ target'[t] = m /\ pc'[t] = "cond"
        BY <1>1, <1>3, <2>1 DEF TypeOK
      <4> QED BY <3>2, <4>1, <4>2, <4>3 DEF Counted
    <3>3. CASE u = t /\ k # m
      BY <1>1, <1>6, <2>1, <3>1, <3>3 DEF TypeOK, Counted
    <3>4. CASE u # t /\ k = m
      BY <1>1, <1>3, <1>6, <2>1, <3>1, <3>4 DEF TypeOK, Counted, Acquiring
    <3>5. CASE u # t /\ k # m
      BY <1>1, <1>6, <2>1, <3>1, <3>5 DEF TypeOK, Counted
    <3> QED BY <3>2, <3>3, <3>4, <3>5
  <2> QED BY <1>6, <2>1, <2>2 DEF Leveled
<1> QED BY <1>7, <1>8, <1>9, <1>10, <1>11, <1>12

\* Back from a wait on the condition variable, with the mutex.
LEMMA RelockedFacts ==
    ASSUME TypeOK, NEW t \in Threads, Relocked(t), target[t] \in Mutexes
    PROVE  /\ recursive' \in [Mutexes -> -1..MaxDepth]
           /\ \A k \in Mutexes : k # target[t] => recursive'[k] = recursive[k]
           /\ recursive'[target[t]] = IF target[t] \in Recursive THEN depth[t] ELSE -1
           /\ \A k \in Mutexes : recursive'[k] = -1 <=> k \notin Recursive
           /\ pc' = [pc EXCEPT ![t] = "run"]
           /\ target' = [target EXCEPT ![t] = NoMutex]
<1>1. /\ recursive \in [Mutexes -> -1..MaxDepth] /\ depth[t] \in 0..MaxDepth
      /\ \A k \in Mutexes : recursive[k] = -1 <=> k \notin Recursive
  BY DEF TypeOK
<1> QED BY <1>1, PthreadAssumption DEF Relocked, Restored

LEMMA CondResumeStep ==
    ASSUME IInv, NEW t \in Threads, CondResume(t)
    PROVE  IInv'
<1> USE PthreadAssumption DEF IInv, At
<1>1. /\ pc[t] = "cond" /\ ~condFlag[t] /\ target[t] \in Mutexes
      /\ UNCHANGED <<condWaiters, condFlag, depth, init_executed, completed, returned, rebooted,
                     entries>>
  BY DEF CondResume, cond, once, Targeted
<1>2. CASE owner[target[t]] = NoThread
  <2>1. /\ owner' = [owner EXCEPT ![target[t]] = t]
        /\ Relocked(t) /\ waiters' = waiters /\ waitFlag' = waitFlag
        /\ waiters[target[t]] = <<>>
    BY <1>1, <1>2 DEF CondResume, Queued
  <2>2. /\ recursive' \in [Mutexes -> -1..MaxDepth]
        /\ \A k \in Mutexes : k # target[t] => recursive'[k] = recursive[k]
        /\ recursive'[target[t]] = IF target[t] \in Recursive THEN depth[t] ELSE -1
        /\ \A k \in Mutexes : recursive'[k] = -1 <=> k \notin Recursive
        /\ pc' = [pc EXCEPT ![t] = "run"]
        /\ target' = [target EXCEPT ![t] = NoMutex]
    BY <1>1, <2>1, RelockedFacts
  <2>3. TypeOK'
    BY <1>1, <2>1, <2>2 DEF TypeOK
  <2>4. \A u : ~Listed(waiters[target[t]], u)
    BY <2>1 DEF Listed
  <2>5. Queued'
    <3>1. ASSUME NEW k \in Mutexes
          PROVE  Distinct(waiters'[k]) /\ (owner'[k] = NoThread => waiters'[k] = <<>>)
      BY <2>1 DEF TypeOK, Queued
    <3>2. ASSUME NEW k \in Mutexes, NEW u \in Threads, Listed(waiters'[k], u)
          PROVE  Acquiring(u)' /\ target'[u] = k /\ owner'[k] # u
      <4>1. Acquiring(u) /\ target[u] = k /\ owner[k] # u /\ u # t /\ k # target[t]
        BY <1>1, <2>1, <2>4, <3>2 DEF Queued, Acquiring
      <4> QED BY <2>1, <2>2, <4>1 DEF TypeOK, Acquiring
    <3> QED BY <3>1, <3>2 DEF Queued
  <2>6. Targeted'
    BY <1>1, <1>2, <2>1, <2>2, <2>4 DEF TypeOK, Targeted, Acquiring
  <2>7. CondQueued' /\ Marked'
    BY <1>1, <2>2 DEF TypeOK, CondQueued, Marked, Listed, Distinct
  <2>8. ASSUME NEW u \in Threads, NEW k \in Mutexes
        PROVE  Counted(u, k)'
    <3>1. Counted(u, k)
      BY DEF Leveled
    <3>2. CASE u = t /\ k = target[t]
      BY <1>1, <2>1, <2>2, <3>1, <3>2 DEF TypeOK, Counted
    <3>3. CASE u = t /\ k # target[t]
      BY <1>1, <2>1, <2>2, <3>1, <3>3 DEF TypeOK, Counted
    <3>4. CASE u # t
      BY <1>1, <1>2, <2>1, <2>2, <3>1, <3>4 DEF TypeOK, Counted
    <3> QED BY <3>2, <3>3, <3>4
  <2>9. Leveled'
    BY <1>1, <1>2, <2>1, <2>2, <2>8 DEF TypeOK, Leveled
  <2> QED BY <2>3, <2>5, <2>6, <2>7, <2>9
<1>3. CASE owner[target[t]] # NoThread
  <2>1. /\ Enqueue(t, target[t], "relock") /\ owner[target[t]] # t
        /\ UNCHANGED <<owner, recursive>>
    BY <1>3 DEF CondResume
  <2>2. ~Listed(waiters[target[t]], t)
    BY <1>1 DEF Queued, Acquiring
  <2>3. /\ waiters' \in [Mutexes -> Seq(Threads)]
        /\ \A k \in Mutexes : k # target[t] => waiters'[k] = waiters[k]
        /\ Distinct(waiters'[target[t]])
        /\ \A u : Listed(waiters'[target[t]], u) <=> Listed(waiters[target[t]], u) \/ u = t
        /\ waitFlag' = [waitFlag EXCEPT ![t] = TRUE]
        /\ pc' = [pc EXCEPT ![t] = "relock"]
        /\ target' = [target EXCEPT ![t] = target[t]]
    BY <1>1, <2>1, <2>2, EnqueueFacts
  <2>4. target' = target
    BY <2>3 DEF TypeOK
  <2>5. TypeOK'
    BY <1>1, <2>1, <2>3, <2>4 DEF TypeOK
  <2>6. Queued'
    <3>1. \A k \in Mutexes : ~Listed(waiters[k], t)
      BY <1>1 DEF Queued, Acquiring
    <3> QED BY <1>1, <1>3, <2>1, <2>3, <3>1, EnqueueQueued
  <2>7. Targeted'
    <3> SUFFICES ASSUME NEW u \in Threads
                 PROVE  Targeted!(u)'
      BY DEF Targeted
    <3>1. \A k \in Mutexes : Listed(waiters[k], u) => Listed(waiters'[k], u)
      BY <2>3
    <3>2. CASE u = t
      BY <1>1, <2>1, <2>3, <2>4, <3>2 DEF TypeOK, Targeted, Acquiring
    <3>3. CASE u # t
      <4>1. pc'[u] = pc[u] /\ waitFlag'[u] = waitFlag[u]
        BY <2>3, <3>3 DEF TypeOK
      <4> QED BY <2>1, <2>4, <3>1, <4>1 DEF Targeted, Acquiring
    <3> QED BY <3>2, <3>3
  <2>8. CondQueued' /\ Marked'
    BY <1>1, <2>3 DEF TypeOK, CondQueued, Marked, Listed, Distinct
  <2>9. Leveled'
    BY SMTT(20), <1>1, <2>1, <2>3, <2>4 DEF TypeOK, Leveled, Counted
  <2> QED BY <2>5, <2>6, <2>7, <2>8, <2>9
<1> QED BY <1>2, <1>3

LEMMA RelockResumeStep ==
    ASSUME IInv, NEW t \in Threads, RelockResume(t)
    PROVE  IInv'
<1> USE PthreadAssumption DEF IInv, At
<1>1. /\ pc[t] = "relock" /\ target[t] \in Mutexes
      /\ UNCHANGED <<owner, waiters, condWaiters, condFlag, depth, init_executed, completed,
                     returned, rebooted, entries>>
  BY DEF RelockResume, SleepAgain, cond, once, Targeted
<1>2. CASE owner[target[t]] = t
  <2>1. Relocked(t) /\ waitFlag' = waitFlag
    BY <1>2 DEF RelockResume
  <2>2. /\ recursive' \in [Mutexes -> -1..MaxDepth]
        /\ \A k \in Mutexes : k # target[t] => recursive'[k] = recursive[k]
        /\ recursive'[target[t]] = IF target[t] \in Recursive THEN depth[t] ELSE -1
        /\ \A k \in Mutexes : recursive'[k] = -1 <=> k \notin Recursive
        /\ pc' = [pc EXCEPT ![t] = "run"]
        /\ target' = [target EXCEPT ![t] = NoMutex]
    BY <1>1, <2>1, RelockedFacts
  <2>3. TypeOK'
    BY <1>1, <2>1, <2>2 DEF TypeOK
  <2>4. Queued'
    BY <1>1, <1>2, <2>2 DEF TypeOK, Queued, Acquiring
  <2>5. Targeted'
    BY SMTT(20), <1>1, <1>2, <2>1, <2>2 DEF TypeOK, Targeted, Acquiring
  <2>6. CondQueued' /\ Marked'
    BY <1>1, <2>2 DEF TypeOK, CondQueued, Marked, Listed, Distinct
  <2>7. ASSUME NEW u \in Threads, NEW k \in Mutexes
        PROVE  Counted(u, k)'
    <3>1. Counted(u, k)
      BY DEF Leveled
    <3>2. CASE u = t /\ k = target[t]
      BY <1>1, <1>2, <2>2, <3>1, <3>2 DEF TypeOK, Counted
    <3>3. CASE u = t /\ k # target[t]
      BY <1>1, <2>2, <3>1, <3>3 DEF TypeOK, Counted
    <3>4. CASE u # t
      BY <1>1, <1>2, <2>2, <3>1, <3>4 DEF TypeOK, Counted
    <3> QED BY <3>2, <3>3, <3>4
  <2>8. Leveled'
    BY <1>1, <1>2, <2>2, <2>7 DEF TypeOK, Leveled
  <2> QED BY <2>3, <2>4, <2>5, <2>6, <2>8
<1>3. CASE owner[target[t]] # t
  <2>1. waitFlag' = [waitFlag EXCEPT ![t] = TRUE] /\ UNCHANGED <<recursive, pc, target>>
    BY <1>3 DEF RelockResume, SleepAgain
  <2>2. TypeOK'
    BY <1>1, <2>1 DEF TypeOK
  <2>3. Queued'
    BY <1>1, <2>1 DEF Queued, Acquiring
  <2>4. Targeted'
    BY <1>1, <1>3, <2>1 DEF TypeOK, Targeted, Acquiring
  <2>5. CondQueued' /\ Marked' /\ Leveled'
    BY <1>1, <2>1 DEF CondQueued, Marked, Leveled, Counted, Listed, Distinct
  <2> QED BY <2>2, <2>3, <2>4, <2>5
<1> QED BY <1>2, <1>3

LEMMA SpuriousStep ==
    ASSUME IInv, NEW t \in Threads, SpuriousWakeup(t)
    PROVE  IInv'
<1> USE PthreadAssumption DEF IInv
<1>1. /\ waitFlag' = [waitFlag EXCEPT ![t] = FALSE]
      /\ UNCHANGED <<owner, recursive, waiters, condWaiters, condFlag, depth, pc, target,
                     init_executed, completed, returned, rebooted, entries>>
  BY DEF SpuriousWakeup, mutex, cond, once
<1>2. TypeOK'
  BY <1>1 DEF TypeOK
<1>3. Queued'
  BY <1>1 DEF Queued, Acquiring
<1>4. Targeted'
  BY <1>1 DEF TypeOK, Targeted, Acquiring
<1>5. CondQueued' /\ Marked' /\ Leveled'
  BY <1>1 DEF CondQueued, Marked, Leveled, Counted, Listed, Distinct
<1> QED BY <1>2, <1>3, <1>4, <1>5

LEMMA CondWakeStep ==
    ASSUME IInv, NEW n \in {1, Len(condWaiters)}, CondWake(n)
    PROVE  IInv'
<1> USE PthreadAssumption DEF IInv
<1>1. /\ condWaiters # <<>>
      /\ condFlag' = [t \in Threads |-> condFlag[t] /\ \A i \in 1..n : condWaiters[i] # t]
      /\ condWaiters' = SubSeq(condWaiters, n + 1, Len(condWaiters))
      /\ UNCHANGED <<owner, recursive, waiters, waitFlag, pc, target, depth,
                     init_executed, completed, returned, rebooted, entries>>
  BY DEF CondWake, mutex, once
<1>2. /\ condWaiters' \in Seq(Threads) /\ Distinct(condWaiters')
      /\ \A t : Listed(condWaiters', t) <=>
                   Listed(condWaiters, t) /\ \A i \in 1..n : condWaiters[i] # t
  BY <1>1, RestList DEF TypeOK, CondQueued
<1>3. TypeOK'
  <2>1. condFlag' \in [Threads -> BOOLEAN]
    <3>1. \A t \in Threads : (condFlag[t] /\ \A i \in 1..n : condWaiters[i] # t) \in BOOLEAN
      OBVIOUS
    <3> QED BY <1>1, <3>1, Zenon
  <2> QED BY <1>1, <1>2, <2>1 DEF TypeOK
<1>4. Queued' /\ Targeted'
  BY <1>1 DEF Queued, Targeted, Acquiring
<1>5. CondQueued'
  <2>1. \A t \in Threads : condFlag'[t] <=> condFlag[t] /\ \A i \in 1..n : condWaiters[i] # t
    BY <1>1, Zenon
  <2> QED BY <1>1, <1>2, <2>1 DEF CondQueued
<1>6. Marked' /\ Leveled'
  BY <1>1 DEF Marked, Leveled, Counted
<1> QED BY <1>3, <1>4, <1>5, <1>6

\* A step that moves a thread between "run", "once" and "init" and changes nothing else
\* but what belongs to pthread_once.
LEMMA PlaceStep ==
    ASSUME IInv, NEW t \in Threads, NEW place \in {"run", "once", "init"},
           pc[t] \in {"run", "once", "init"},
           pc' = [pc EXCEPT ![t] = place],
           UNCHANGED <<owner, recursive, waiters, condWaiters, condFlag, depth, waitFlag, target,
                       rebooted, entries>>
    PROVE  Queued' /\ Targeted' /\ CondQueued' /\ Leveled'
<1> USE PthreadAssumption DEF IInv
<1>1. Queued'
  BY DEF TypeOK, Queued, Acquiring
<1>2. Targeted'
  BY DEF TypeOK, Targeted, Acquiring
<1>3. CondQueued'
  BY DEF TypeOK, CondQueued
<1>4. ASSUME NEW u \in Threads, NEW k \in Mutexes
      PROVE  Counted(u, k)'
  <2>1. Counted(u, k) /\ (u = t => k # target[u])
    BY DEF Leveled, Targeted
  <2> QED BY <2>1 DEF TypeOK, Counted
<1>5. Leveled'
  BY <1>4 DEF Leveled
<1> QED BY <1>1, <1>2, <1>3, <1>5

LEMMA OnceStep ==
    ASSUME IInv, NEW t \in Threads, Once(t) \/ OnceEnd(t) \/ OnceThrow(t)
    PROVE  IInv'
<1> USE PthreadAssumption DEF IInv, At
<1>1. PICK place \in {"run", "once", "init"} :
          /\ pc[t] \in {"run", "once", "init"}
          /\ pc' = [pc EXCEPT ![t] = place]
          /\ UNCHANGED <<owner, recursive, waiters, condWaiters, condFlag, depth, waitFlag,
                         target, rebooted, entries>>
  <2>1. CASE Once(t)
    BY <2>1, Zenon DEF Once, mutex, cond
  <2>2. CASE OnceEnd(t) \/ OnceThrow(t)
    BY <2>2, Zenon DEF OnceEnd, OnceThrow, mutex, cond
  <2> QED BY <2>1, <2>2
<1>2. Queued' /\ Targeted' /\ CondQueued' /\ Leveled'
  BY <1>1, PlaceStep
<1>3. TypeOK' /\ Marked'
  <2>1. /\ owner \in [Mutexes -> Threads \cup {NoThread}]
        /\ pc \in [Threads -> {"run", "lock", "cond", "relock", "once", "init"}]
        /\ init_executed \in 0..2 /\ completed \in Nat /\ returned \in BOOLEAN
    BY DEF TypeOK
  <2>2. pc' \in [Threads -> {"run", "lock", "cond", "relock", "once", "init"}]
    BY <1>1, <2>1
  <2>3. CASE Once(t)
    <3>1. init_executed' \in 0..2 /\ completed' = completed
      BY <2>1, <2>3 DEF Once, Started
    <3>3. returned' = returned \/ returned' = TRUE
      BY <2>3, Zenon DEF Once
    <3>4. returned' \in BOOLEAN
      BY <2>1, <3>3, Zenon
    <3>2. Marked'
      BY <2>1, <2>3 DEF Once, Started, Marked
    <3> QED BY <1>1, <2>1, <2>2, <3>1, <3>2, <3>4 DEF TypeOK
  <2>4. CASE OnceEnd(t)
    <3>1. init_executed' = 2 /\ completed' = completed + 1 /\ returned' = TRUE
      BY <2>4 DEF OnceEnd
    <3>2. Marked'
      BY <2>1, <2>4 DEF OnceEnd, Marked
    <3> QED BY <1>1, <2>1, <2>2, <3>1, <3>2 DEF TypeOK
  <2>5. CASE OnceThrow(t)
    <3>1. init_executed' = 0 /\ completed' = completed /\ returned' = returned
      BY <2>5 DEF OnceThrow, Reopened
    <3>2. Marked'
      BY <2>1, <2>5 DEF OnceThrow, Reopened, Marked
    <3> QED BY <1>1, <2>1, <2>2, <3>1, <3>2 DEF TypeOK
  <2> QED BY <2>3, <2>4, <2>5
<1> QED BY <1>2, <1>3

LEMMA RebootStep ==
    ASSUME IInv, NEW t \in Threads, NEW m \in Mutexes, LockDeadlock(t, m)
    PROVE  IInv'
<1>1. /\ rebooted' = TRUE
      /\ UNCHANGED <<owner, recursive, waiters, condWaiters, condFlag, depth, waitFlag, pc,
                     target, init_executed, completed, returned, entries>>
  BY DEF LockDeadlock, mutex, cond, once
<1> QED BY <1>1 DEF IInv, TypeOK, Queued, Targeted, Acquiring, CondQueued, Leveled, Counted, Marked

-----------------------------------------------------------------------------
LEMMA StepIInv == IInv /\ [Next]_vars => IInv'
<1> SUFFICES ASSUME IInv, [Next]_vars
             PROVE  IInv'
  OBVIOUS
<1>1. ASSUME NEW t \in Threads, NEW m \in Mutexes,
             Lock(t, m) \/ TryLock(t, m) \/ Unlock(t, m) \/ CondWait(t, m)
      PROVE  IInv'
  BY <1>1, LockFreeStep, LockAgainStep, LockBlockStep, RebootStep, UnlockStep, CondWaitStep,
     Zenon DEF Lock, TryLock
<1>2. ASSUME NEW t \in Threads,
             \/ LockResume(t) \/ CondResume(t) \/ RelockResume(t) \/ SpuriousWakeup(t)
             \/ Once(t) \/ OnceEnd(t) \/ OnceThrow(t)
      PROVE  IInv'
  BY <1>2, LockResumeStep, CondResumeStep, RelockResumeStep, SpuriousStep, OnceStep, Zenon
<1>3. ASSUME Signal \/ Broadcast
      PROVE  IInv'
  BY <1>3, CondWakeStep, Zenon DEF Signal, Broadcast
<1>4. CASE UNCHANGED vars
  BY <1>4 DEF vars, IInv, TypeOK, Queued, Targeted, Acquiring, CondQueued, Leveled, Counted, Marked
<1> QED BY <1>1, <1>2, <1>3, <1>4, Zenon DEF Next

LEMMA Inductive == Spec => []IInv
BY InitIInv, StepIInv, PTL DEF Spec

-----------------------------------------------------------------------------
(***************************************************************************)
(* The properties.                                                         *)
(***************************************************************************)
\* Every variable keeps its type.
THEOREM TypeCorrect == Spec => []TypeOK
<1>1. IInv => TypeOK
  BY DEF IInv
<1> QED BY <1>1, Inductive, PTL

\* Who is still to get a mutex stands in its list, who was handed it is awake, and who
\* sleeps in pthread_cond_wait is in the list that signal and broadcast walk.
THEOREM WakeupsArrive == Spec => []NoLostWakeup
<1>1. IInv => NoLostWakeup
  <2> SUFFICES ASSUME IInv
               PROVE  NoLostWakeup
    OBVIOUS
  <2>1. ASSUME NEW t \in Threads, pc[t] \in {"lock", "relock"}
        PROVE  Listed(waiters[target[t]], t) <=> owner[target[t]] # t
    BY <2>1 DEF IInv, Queued, Targeted, Acquiring
  <2>2. \A t \in Threads :
           waitFlag[t] => pc[t] \in {"lock", "relock"} /\ owner[target[t]] # t
    BY DEF IInv, Targeted, Acquiring
  <2>3. \A t \in Threads : condFlag[t] <=> Listed(condWaiters, t)
    BY DEF IInv, CondQueued
  <2> QED BY <2>1, <2>2, <2>3 DEF NoLostWakeup
<1> QED BY <1>1, Inductive, PTL

\* A thread has each mutex as often as it locked it, also after the waits on a condition
\* variable that gave all its levels away.
THEOREM LevelsKept == Spec => []HeldAsEntered
<1>1. IInv => HeldAsEntered
  BY DEF IInv, Leveled, Counted, HeldAsEntered
<1> QED BY <1>1, Inductive, PTL

\* pthread_once runs its function in one thread at a time, to its end once, and returns
\* to nobody before.
THEOREM CalledOnce == Spec => []OnceExactly
<1>1. IInv => OnceExactly
  BY DEF IInv, Marked, OnceExactly
<1> QED BY <1>1, Inductive, PTL

-----------------------------------------------------------------------------
(***************************************************************************)
(* Every mutex is a fair lock.                                             *)
(***************************************************************************)
LEMMA LineFacts ==
    ASSUME IInv, NEW m \in Mutexes
    PROVE  /\ waiters[m] \in Seq(Threads)
           /\ owner[m] # NoThread => owner[m] \in Threads
           /\ Lines[m] = IF owner[m] = NoThread THEN <<>> ELSE <<owner[m]>> \o waiters[m]
           /\ owner[m] # NoThread => Lines[m] # <<>> /\ Tail(Lines[m]) = waiters[m]
           /\ owner[m] = NoThread => waiters[m] = <<>>
           /\ \A t : Fair!InLine(m, t) => t = owner[m] \/ Listed(waiters[m], t)
<1>1. /\ waiters[m] \in Seq(Threads) /\ owner[m] \in Threads \cup {NoThread}
      /\ owner[m] = NoThread => waiters[m] = <<>>
  BY DEF IInv, TypeOK, Queued
<1>2. Lines[m] = IF owner[m] = NoThread THEN <<>> ELSE <<owner[m]>> \o waiters[m]
  BY DEF Lines
<1>3. CASE owner[m] = NoThread
  BY <1>1, <1>2, <1>3 DEF Fair!InLine
<1>4. CASE owner[m] # NoThread
  <2>1. <<owner[m]>> \in Seq(Threads) /\ Len(<<owner[m]>>) = 1 /\ <<owner[m]>>[1] = owner[m]
    BY <1>1, <1>4
  <2>2. /\ Lines[m] \in Seq(Threads)
        /\ Len(Lines[m]) = 1 + Len(waiters[m])
        /\ \A i \in 1..(1 + Len(waiters[m])) :
              Lines[m][i] = IF i <= 1 THEN owner[m] ELSE waiters[m][i - 1]
    BY <1>1, <1>2, <1>4, <2>1, ConcatProperties
  <2>3. /\ DOMAIN Lines[m] = 1..(1 + Len(waiters[m])) /\ Len(waiters[m]) \in Nat
        /\ DOMAIN waiters[m] = 1..Len(waiters[m])
    BY <1>1, <2>2, SeqDomain
  <2>4. Lines[m] # <<>>
    BY <2>2, <2>3
  <2>5. Tail(Lines[m]) = waiters[m]
    <3>1. /\ Tail(Lines[m]) \in Seq(Threads)
          /\ Len(Tail(Lines[m])) = Len(waiters[m])
          /\ \A i \in 1..Len(waiters[m]) : Tail(Lines[m])[i] = Lines[m][i + 1]
      BY <2>2, <2>3, <2>4, HeadTailProperties
    <3>2. \A i \in 1..Len(waiters[m]) : Tail(Lines[m])[i] = waiters[m][i]
      BY <2>2, <2>3, <3>1
    <3> QED BY <1>1, <3>1, <3>2, SeqEqual
  <2>6. ASSUME NEW t, Fair!InLine(m, t)
        PROVE  t = owner[m] \/ Listed(waiters[m], t)
    <3>1. PICK i \in DOMAIN Lines[m] : Lines[m][i] = t
      BY <2>6, Zenon DEF Fair!InLine
    <3>2. CASE i <= 1
      BY <2>2, <2>3, <3>1, <3>2
    <3>3. CASE ~(i <= 1)
      <4>1. i - 1 \in DOMAIN waiters[m] /\ waiters[m][i - 1] = t
        <5>1. i \in 1..(1 + Len(waiters[m])) /\ Len(waiters[m]) \in Nat
          BY <2>3, <3>1
        <5>2. Lines[m][i] = waiters[m][i - 1]
          BY <2>2, <3>3, <5>1
        <5>3. i - 1 \in 1..Len(waiters[m])
          BY <3>3, <5>1
        <5> QED BY <2>3, <3>1, <5>2, <5>3
      <4> QED BY <4>1 DEF Listed
    <3> QED BY <3>2, <3>3
  <2> QED BY <1>1, <1>2, <1>4, <2>4, <2>5, <2>6, Zenon
<1> QED BY <1>3, <1>4

\* Taking a free mutex.
LEMMA TakeEnters ==
    ASSUME IInv, NEW t \in Threads, NEW m \in Mutexes,
           owner[m] = NoThread, owner' = [owner EXCEPT ![m] = t], waiters' = waiters
    PROVE  Fair!Enter(m, t)
<1> USE PthreadAssumption
<1>1. owner' \in [Mutexes -> Threads \cup {NoThread}] /\ owner'[m] = t
      /\ \A k \in Mutexes : k # m => owner'[k] = owner[k]
  BY DEF IInv, TypeOK
<1>2. waiters[m] = <<>> /\ Lines[m] = <<>>
  BY LineFacts
<1>3. ~Fair!InLine(m, t)
  BY <1>2 DEF Fair!InLine
<1>4. Lines'[m] = Append(Lines[m], t)
  BY <1>1, <1>2 DEF Lines
<1>5. \A k \in Mutexes : k # m => Lines'[k] = Lines[k]
  BY <1>1 DEF Lines
<1>6. Lines' = [Lines EXCEPT ![m] = Append(Lines[m], t)]
  BY <1>4, <1>5, Zenon DEF Lines
<1> QED BY <1>3, <1>6 DEF Fair!Enter

\* Joining the list.
LEMMA EnqueueEnters ==
    ASSUME IInv, NEW t \in Threads, NEW m \in Mutexes, NEW place,
           owner[m] # NoThread, owner[m] # t, ~Listed(waiters[m], t),
           Enqueue(t, m, place), owner' = owner
    PROVE  Fair!Enter(m, t)
<1>1. /\ waiters' = [waiters EXCEPT ![m] = Append(waiters[m], t)]
      /\ waiters \in [Mutexes -> Seq(Threads)] /\ owner[m] \in Threads
  BY DEF Enqueue, QueuedLast, IInv, TypeOK
<1>2. /\ waiters'[m] = Append(waiters[m], t)
      /\ \A k \in Mutexes : k # m => waiters'[k] = waiters[k]
  BY <1>1
<1>3. ~Fair!InLine(m, t)
  BY LineFacts
<1>4. Lines'[m] = Append(Lines[m], t)
  <2>1. /\ Lines[m] = <<owner[m]>> \o waiters[m]
        /\ Lines'[m] = <<owner[m]>> \o Append(waiters[m], t)
    BY <1>2 DEF Lines
  <2> QED BY <1>1, <2>1, ConcatAppend
<1>5. \A k \in Mutexes : k # m => Lines'[k] = Lines[k]
  BY <1>2 DEF Lines
<1>6. Lines' = [Lines EXCEPT ![m] = Append(Lines[m], t)]
  BY <1>4, <1>5, Zenon DEF Lines
<1> QED BY <1>3, <1>6 DEF Fair!Enter

\* Passing the mutex on.
LEMMA HandoverLeaves ==
    ASSUME IInv, NEW m \in Mutexes, owner[m] # NoThread, Handover(m)
    PROVE  Fair!Leave(m)
<1> USE PthreadAssumption
<1>1. /\ waiters[m] \in Seq(Threads) /\ owner[m] \in Threads
      /\ Lines[m] # <<>> /\ Tail(Lines[m]) = waiters[m]
  BY LineFacts
<1>2. /\ Lines'[m] = waiters[m]
      /\ \A k \in Mutexes : k # m => Lines'[k] = Lines[k]
  <2>1. CASE waiters[m] = <<>>
    <3>1. owner' = [owner EXCEPT ![m] = NoThread] /\ waiters' = waiters
      BY <2>1 DEF Handover
    <3>2. owner'[m] = NoThread /\ \A k \in Mutexes : k # m => owner'[k] = owner[k]
      BY <3>1 DEF IInv, TypeOK
    <3> QED BY <2>1, <3>1, <3>2 DEF Lines
  <2>2. CASE waiters[m] # <<>>
    <3>1. /\ owner' = [owner EXCEPT ![m] = Head(waiters[m])]
          /\ waiters' = [waiters EXCEPT ![m] = Tail(waiters[m])]
      BY <2>2 DEF Handover
    <3>2. /\ owner'[m] = Head(waiters[m]) /\ waiters'[m] = Tail(waiters[m])
          /\ \A k \in Mutexes : k # m => owner'[k] = owner[k] /\ waiters'[k] = waiters[k]
      BY <3>1 DEF IInv, TypeOK
    <3>3. Head(waiters[m]) \in Threads /\ <<Head(waiters[m])>> \o Tail(waiters[m]) = waiters[m]
      BY <1>1, <2>2, ConcatSimplifications, HeadTailProperties
    <3>4. Head(waiters[m]) # NoThread
      BY <3>3
    <3> QED BY <3>2, <3>3, <3>4 DEF Lines
  <2> QED BY <2>1, <2>2
<1>3. Lines' = [Lines EXCEPT ![m] = Tail(Lines[m])]
  BY <1>1, <1>2, Zenon DEF Lines
<1> QED BY <1>1, <1>3 DEF Fair!Leave

LEMMA StepRefines == IInv /\ [Next]_vars => [Fair!Next]_Lines
<1> SUFFICES ASSUME IInv, [Next]_vars
             PROVE  Fair!Next \/ UNCHANGED Lines
  BY DEF Fair!Next
<1> USE PthreadAssumption
<1>1. ASSUME UNCHANGED <<owner, waiters>>
      PROVE  UNCHANGED Lines
  BY <1>1 DEF Lines
<1>2. ASSUME NEW t \in Threads, NEW m \in Mutexes, Lock(t, m) \/ TryLock(t, m)
      PROVE  Fair!Next \/ UNCHANGED Lines
  <2>1. CASE LockFree(t, m)
    <3>1. Fair!Enter(m, t)
      BY <2>1, TakeEnters DEF LockFree
    <3> QED BY <3>1 DEF Fair!Next
  <2>2. CASE LockAgain(t, m) \/ LockDeadlock(t, m)
    BY <1>1, <2>2 DEF LockAgain, LockDeadlock, mutex
  <2>3. CASE LockBlock(t, m)
    <3>1. ~Listed(waiters[m], t)
      BY <2>3 DEF LockBlock, At, IInv, Queued, Acquiring
    <3>2. Fair!Enter(m, t)
      BY <2>3, <3>1, EnqueueEnters DEF LockBlock
    <3> QED BY <3>2 DEF Fair!Next
  <2> QED BY <1>2, <2>1, <2>2, <2>3 DEF Lock, TryLock
<1>3. ASSUME NEW t \in Threads, NEW m \in Mutexes, Unlock(t, m) \/ CondWait(t, m)
      PROVE  Fair!Next \/ UNCHANGED Lines
  <2>1. CASE Handover(m)
    <3>1. owner[m] # NoThread
      BY <1>3 DEF Unlock, CondWait
    <3>2. Fair!Leave(m)
      BY <2>1, <3>1, HandoverLeaves
    <3> QED BY <3>2 DEF Fair!Next
  <2>2. CASE ~Handover(m)
    BY <1>1, <1>3, <2>2 DEF Unlock, CondWait
  <2> QED BY <2>1, <2>2
<1>4. ASSUME NEW t \in Threads, CondResume(t)
      PROVE  Fair!Next \/ UNCHANGED Lines
  <2>1. target[t] \in Mutexes /\ pc[t] = "cond"
    BY <1>4 DEF CondResume, At, IInv, Targeted
  <2>2. CASE owner[target[t]] = NoThread
    <3>1. Fair!Enter(target[t], t)
      BY <1>4, <2>1, <2>2, TakeEnters DEF CondResume
    <3> QED BY <2>1, <3>1 DEF Fair!Next
  <2>3. CASE owner[target[t]] # NoThread
    <3>1. ~Listed(waiters[target[t]], t)
      BY <2>1 DEF IInv, Queued, Acquiring
    <3>2. Fair!Enter(target[t], t)
      BY <1>4, <2>1, <2>3, <3>1, EnqueueEnters DEF CondResume
    <3> QED BY <2>1, <3>2 DEF Fair!Next
  <2> QED BY <2>2, <2>3
<1>5. ASSUME NEW t \in Threads,
             \/ LockResume(t) \/ RelockResume(t) \/ SpuriousWakeup(t)
             \/ Once(t) \/ OnceEnd(t) \/ OnceThrow(t)
      PROVE  UNCHANGED Lines
  BY <1>1, <1>5 DEF LockResume, RelockResume, SpuriousWakeup, Once, OnceEnd, OnceThrow, mutex
<1>6. ASSUME Signal \/ Broadcast
      PROVE  UNCHANGED Lines
  BY <1>1, <1>6 DEF Signal, Broadcast, CondWake, mutex
<1>7. CASE UNCHANGED vars
  BY <1>1, <1>7 DEF vars
<1> QED BY <1>2, <1>3, <1>4, <1>5, <1>6, <1>7, Zenon DEF Next

\* The mutexes implement the fair lock: no trylock, spurious wakeup or return from
\* pthread_cond_wait overtakes a thread that already waits.
THEOREM MutexesAreFair == Spec => RefinesFairLock
<1>1. Init => Fair!Init
  BY DEF Init, Fair!Init, Lines
<1> QED BY <1>1, Inductive, StepRefines, PTL DEF Spec, RefinesFairLock, Fair!Spec

-----------------------------------------------------------------------------
(***************************************************************************)
(* Nobody overtakes.                                                       *)
(***************************************************************************)
\* The i-th in the list of m is handed the mutex if it is the first and stays, or moves
\* up by one, otherwise; and while there is a list only its first is handed the mutex.
KeepsPlace ==
    \A m \in Mutexes :
        /\ \A i \in DOMAIN waiters[m] :
              \/ i \in DOMAIN waiters'[m] /\ waiters'[m][i] = waiters[m][i]
              \/ i - 1 \in DOMAIN waiters'[m] /\ waiters'[m][i - 1] = waiters[m][i]
              \/ i = 1 /\ owner'[m] = waiters[m][1]
        /\ owner'[m] # owner[m] /\ waiters[m] # <<>> => owner'[m] = waiters[m][1]

LEMMA PlaceKept ==
    ASSUME UNCHANGED <<owner, waiters>>
    PROVE  KeepsPlace
BY DEF KeepsPlace

LEMMA PlaceTaken ==
    ASSUME IInv, NEW t \in Threads, NEW m \in Mutexes,
           owner[m] = NoThread, owner' = [owner EXCEPT ![m] = t], waiters' = waiters
    PROVE  KeepsPlace
<1>1. waiters[m] = <<>> /\ \A k \in Mutexes : k # m => owner'[k] = owner[k]
  BY DEF IInv, TypeOK, Queued
<1> QED BY <1>1 DEF KeepsPlace

LEMMA PlaceJoined ==
    ASSUME IInv, NEW t \in Threads, NEW m \in Mutexes, NEW call,
           Enqueue(t, m, call), owner' = owner
    PROVE  KeepsPlace
<1>1. /\ waiters' = [waiters EXCEPT ![m] = Append(waiters[m], t)]
      /\ waiters \in [Mutexes -> Seq(Threads)]
  BY DEF Enqueue, QueuedLast, IInv, TypeOK
<1>2. waiters[m] \in Seq(Threads)
  BY <1>1
<1>3. ASSUME NEW i \in DOMAIN waiters[m]
      PROVE  i \in DOMAIN Append(waiters[m], t) /\ Append(waiters[m], t)[i] = waiters[m][i]
  BY <1>2, AppendProperties
<1> QED BY <1>1, <1>3 DEF KeepsPlace

LEMMA PlaceMovesUp ==
    ASSUME IInv, NEW m \in Mutexes, Handover(m)
    PROVE  KeepsPlace
<1>1. waiters \in [Mutexes -> Seq(Threads)] /\ owner \in [Mutexes -> Threads \cup {NoThread}]
  BY DEF IInv, TypeOK
<1>2. CASE waiters[m] = <<>>
  <2>1. owner' = [owner EXCEPT ![m] = NoThread] /\ waiters' = waiters
    BY <1>2 DEF Handover
  <2> QED BY <1>1, <1>2, <2>1 DEF KeepsPlace
<1>3. CASE waiters[m] # <<>>
  <2>1. /\ owner' = [owner EXCEPT ![m] = Head(waiters[m])]
        /\ waiters' = [waiters EXCEPT ![m] = Tail(waiters[m])]
    BY <1>3 DEF Handover
  <2>2. waiters[m] \in Seq(Threads)
    BY <1>1
  <2>3. /\ Head(waiters[m]) = waiters[m][1]
        /\ Len(Tail(waiters[m])) = Len(waiters[m]) - 1 /\ Len(waiters[m]) \in Nat
        /\ Tail(waiters[m]) \in Seq(Threads)
        /\ \A i \in 1..(Len(waiters[m]) - 1) : Tail(waiters[m])[i] = waiters[m][i + 1]
    BY <1>3, <2>2, HeadTailProperties
  <2>4. ASSUME NEW i \in DOMAIN waiters[m], i # 1
        PROVE  i - 1 \in DOMAIN Tail(waiters[m]) /\ Tail(waiters[m])[i - 1] = waiters[m][i]
    <3>1. i \in 1..Len(waiters[m]) /\ i - 1 \in 1..(Len(waiters[m]) - 1) /\ (i - 1) + 1 = i
      BY <2>2, <2>3, <2>4
    <3>2. DOMAIN Tail(waiters[m]) = 1..(Len(waiters[m]) - 1)
      BY <2>3
    <3> QED BY <2>3, <3>1, <3>2
  <2>5. owner'[m] = waiters[m][1] /\ waiters'[m] = Tail(waiters[m])
    BY <1>1, <2>1, <2>3
  <2>6. \A k \in Mutexes : k # m => owner'[k] = owner[k] /\ waiters'[k] = waiters[k]
    BY <1>1, <2>1
  <2>7. ASSUME NEW i \in DOMAIN waiters[m]
        PROVE  \/ i - 1 \in DOMAIN waiters'[m] /\ waiters'[m][i - 1] = waiters[m][i]
               \/ i = 1 /\ owner'[m] = waiters[m][1]
    BY <2>4, <2>5
  <2>8. ASSUME NEW k \in Mutexes, k # m, NEW i \in DOMAIN waiters[k]
        PROVE  i \in DOMAIN waiters'[k] /\ waiters'[k][i] = waiters[k][i]
    BY <2>6, <2>8
  <2>9. \A k \in Mutexes : owner'[k] # owner[k] => k = m
    BY <2>6
  <2> QED BY <2>5, <2>7, <2>8, <2>9, Zenon DEF KeepsPlace
<1> QED BY <1>2, <1>3

LEMMA StepKeepsPlace ==
    ASSUME IInv, Next
    PROVE  KeepsPlace
<1>1. ASSUME NEW t \in Threads, NEW m \in Mutexes, Lock(t, m) \/ TryLock(t, m)
      PROVE  KeepsPlace
  <2>1. CASE LockFree(t, m)
    BY <2>1, PlaceTaken DEF LockFree
  <2>2. CASE LockAgain(t, m) \/ LockDeadlock(t, m)
    BY <2>2, PlaceKept DEF LockAgain, LockDeadlock, mutex
  <2>3. CASE LockBlock(t, m)
    <3>1. Enqueue(t, m, "lock") /\ owner' = owner
      BY <2>3 DEF LockBlock
    <3> QED BY <3>1, PlaceJoined
  <2> QED BY <1>1, <2>1, <2>2, <2>3 DEF Lock, TryLock
<1>2. ASSUME NEW t \in Threads, NEW m \in Mutexes, Unlock(t, m)
      PROVE  KeepsPlace
  <2>1. CASE recursive[m] > 0
    BY <1>2, <2>1, PlaceKept DEF Unlock
  <2>2. CASE Handover(m)
    BY <2>2, PlaceMovesUp
  <2> QED BY <1>2, <2>1, <2>2 DEF Unlock
<1>3. ASSUME NEW t \in Threads, NEW m \in Mutexes, CondWait(t, m)
      PROVE  KeepsPlace
  BY <1>3, PlaceMovesUp DEF CondWait
<1>4. ASSUME NEW t \in Threads, CondResume(t)
      PROVE  KeepsPlace
  <2>1. target[t] \in Mutexes
    BY <1>4 DEF CondResume, At, IInv, Targeted
  <2>2. CASE owner[target[t]] = NoThread
    <3>1. owner' = [owner EXCEPT ![target[t]] = t] /\ waiters' = waiters
      BY <1>4, <2>2 DEF CondResume
    <3> QED BY <2>1, <2>2, <3>1, PlaceTaken
  <2>3. CASE owner[target[t]] # NoThread
    <3>1. Enqueue(t, target[t], "relock") /\ owner' = owner
      BY <1>4, <2>3 DEF CondResume
    <3> QED BY <2>1, <3>1, PlaceJoined
  <2> QED BY <2>2, <2>3
<1>5. ASSUME NEW t \in Threads,
             LockResume(t) \/ RelockResume(t) \/ SpuriousWakeup(t)
                \/ Once(t) \/ OnceEnd(t) \/ OnceThrow(t)
      PROVE  KeepsPlace
  BY <1>5, PlaceKept
     DEF LockResume, RelockResume, SpuriousWakeup, Once, OnceEnd, OnceThrow, mutex
<1>6. ASSUME Signal \/ Broadcast
      PROVE  KeepsPlace
  BY <1>6, PlaceKept DEF Signal, Broadcast, CondWake, mutex
<1> QED BY <1>1, <1>2, <1>3, <1>4, <1>5, <1>6 DEF Next

\* Whatever locks, trylocks, waits on the condition variable and spurious wakeups come
\* between, a thread that is n-th in the list of a mutex has it after n handovers.
THEOREM NobodyOvertakes == Spec => [][KeepsPlace]_vars
<1>1. IInv /\ [Next]_vars => [KeepsPlace]_vars
  BY StepKeepsPlace
<1> QED BY <1>1, Inductive, PTL DEF Spec

=============================================================================
