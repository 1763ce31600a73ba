---------------------- MODULE PriorityScheduler_proofs ----------------------
(***************************************************************************)
(* Theorems about PriorityScheduler, for any number of threads, levels,    *)
(* nested pauses and ticks of sleep.  The invariant is the conjunction of  *)
(* the types, the lists of threads (ListedOnce), the state of the kernel   *)
(* and of the current thread (KernelState) and the sleepers                *)
(* (SleepersSorted, SleepersListed, SleepersLive).                         *)
(***************************************************************************)
EXTENDS PriorityScheduler, SequenceTheorems, WellFoundedInduction, TLAPS

Flags == {"wait", "sleep", "deleted"}
PCs   == {"run", "yield", "switched", "restart", "removing", "walking"}

-----------------------------------------------------------------------------
(***************************************************************************)
(* Insertion, removal and rotation.                                        *)
(***************************************************************************)
LEMMA Removed ==
    ASSUME NEW S, NEW s \in Seq(S), NEW k \in 1..Len(s)
    PROVE  /\ RemoveAt(s, k) \in Seq(S)
           /\ Len(RemoveAt(s, k)) = Len(s) - 1
           /\ \A i \in 1..Len(s) - 1 : RemoveAt(s, k)[i] = IF i < k THEN s[i] ELSE s[i + 1]
<1> DEFINE a == SubSeq(s, 1, k - 1)
           b == SubSeq(s, k + 1, Len(s))
<1>1. a \in Seq(S) /\ Len(a) = k - 1 /\ \A i \in 1..k - 1 : a[i] = s[i]
  BY SubSeqProperties
<1>2. b \in Seq(S) /\ Len(b) = Len(s) - k /\ \A i \in 1..Len(s) - k : b[i] = s[k + i]
  BY SubSeqProperties
<1> HIDE DEF a, b
<1>3. /\ a \o b \in Seq(S)
      /\ Len(a \o b) = Len(a) + Len(b)
      /\ \A i \in 1..Len(a) + Len(b) : (a \o b)[i] = IF i <= Len(a) THEN a[i] ELSE b[i - Len(a)]
  BY <1>1, <1>2, ConcatProperties, Zenon
<1>5. Len(a) + Len(b) = Len(s) - 1
  BY <1>1, <1>2
<1>4. ASSUME NEW i \in 1..Len(s) - 1
      PROVE  (a \o b)[i] = IF i < k THEN s[i] ELSE s[i + 1]
  <2>1. CASE i < k
    BY <1>1, <1>2, <1>3, <1>5, <2>1
  <2>2. CASE ~(i < k)
    <3>1. i - Len(a) \in 1..Len(s) - k /\ k + (i - Len(a)) = i + 1
      BY <1>1, <2>2
    <3>2. b[i - Len(a)] = s[i + 1]
      BY <1>2, <3>1
    <3>3. (a \o b)[i] = b[i - Len(a)]
      BY <1>1, <1>3, <1>5, <2>2
    <3> QED BY <2>2, <3>2, <3>3
  <2> QED BY <2>1, <2>2
<1>6. RemoveAt(s, k) = a \o b
  BY DEF RemoveAt, a, b
<1> QED BY <1>3, <1>4, <1>5, <1>6

LEMMA Inserted ==
    ASSUME NEW S, NEW s \in Seq(S), NEW e \in S, NEW k \in 1..Len(s) + 1
    PROVE  /\ InsertAt(s, k, e) \in Seq(S)
           /\ Len(InsertAt(s, k, e)) = Len(s) + 1
           /\ \A i \in 1..Len(s) + 1 :
                InsertAt(s, k, e)[i] = IF i < k THEN s[i] ELSE IF i = k THEN e ELSE s[i - 1]
<1> DEFINE a == SubSeq(s, 1, k - 1)
           b == SubSeq(s, k, Len(s))
           c == a \o <<e>>
<1>1. a \in Seq(S) /\ Len(a) = k - 1 /\ \A i \in 1..k - 1 : a[i] = s[i]
  BY SubSeqProperties
<1>2. b \in Seq(S) /\ Len(b) = Len(s) - k + 1 /\ \A i \in 1..Len(s) - k + 1 : b[i] = s[k + i - 1]
  BY SubSeqProperties
<1> HIDE DEF a, b
<1>3. /\ c \in Seq(S)
      /\ Len(c) = Len(a) + Len(<<e>>)
      /\ \A i \in 1..Len(a) + Len(<<e>>) : c[i] = IF i <= Len(a) THEN a[i] ELSE <<e>>[i - Len(a)]
  <2>1. <<e>> \in Seq(S)
    OBVIOUS
  <2> QED BY <1>1, <2>1, ConcatProperties, Zenon
<1>8. c \in Seq(S) /\ b \in Seq(S)
  BY <1>2, <1>3
<1>4. Len(c) = k /\ \A i \in 1..k : c[i] = IF i < k THEN s[i] ELSE e
  BY <1>1, <1>3
<1> HIDE DEF c
<1>5. /\ c \o b \in Seq(S)
      /\ Len(c \o b) = Len(c) + Len(b)
      /\ \A i \in 1..Len(c) + Len(b) : (c \o b)[i] = IF i <= Len(c) THEN c[i] ELSE b[i - Len(c)]
  BY <1>8, ConcatProperties, Zenon
<1>6. ASSUME NEW i \in 1..Len(s) + 1
      PROVE  (c \o b)[i] = IF i < k THEN s[i] ELSE IF i = k THEN e ELSE s[i - 1]
  <2>1. CASE i <= k
    BY <1>2, <1>4, <1>5, <2>1
  <2>2. CASE ~(i <= k)
    <3>1. i - k \in 1..Len(s) - k + 1 /\ k + (i - k) - 1 = i - 1
      BY <2>2
    <3> QED BY <1>2, <1>4, <1>5, <2>2, <3>1
  <2> QED BY <2>1, <2>2
<1>7. InsertAt(s, k, e) = c \o b
  BY DEF InsertAt, a, b, c
<1> QED BY <1>2, <1>4, <1>5, <1>6, <1>7

\* A set of naturals has a least element.
LEMMA LeastExists ==
    ASSUME NEW S \in SUBSET Nat, S # {}
    PROVE  \E n \in S : \A m \in S : n <= m
<1> DEFINE R == OpToRel(<, Nat)
<1>1. IsWellFoundedOn(R, Nat)
  BY NatLessThanWellFounded
<1>2. \A x, y \in Nat : <<y, x>> \in R <=> y < x
  BY DEF OpToRel
<1> HIDE DEF R
<1>3. \E x \in S : \A y \in S : ~(<<y, x>> \in R)
  BY <1>1, WFMin, Zenon
<1>4. PICK x \in S : \A y \in S : ~(<<y, x>> \in R)
  BY <1>3
<1>5. ASSUME NEW y \in S PROVE x <= y
  <2>1. x \in Nat /\ y \in Nat /\ ~(<<y, x>> \in R)
    BY <1>4
  <2>2. ~(y < x)
    BY <1>2, <2>1
  <2> QED BY <2>1, <2>2
<1> QED BY <1>5

\* list holds exactly the threads of S, each once.
Holds(list, S) ==
    /\ list \in Seq(Threads)
    /\ {list[k] : k \in DOMAIN list} = S
    /\ \A j, k \in DOMAIN list : list[j] = list[k] => j = k

\* A thread that is added to a list is in it once, and nothing else changes.
LEMMA AddedOnce ==
    ASSUME NEW list, NEW S, Holds(list, S), NEW t \in Threads \ S
    PROVE  Holds(Added(list, t), S \cup {t})
<1>1. CASE list = <<>>
  BY <1>1 DEF Added, Holds
<1>2. CASE list # <<>>
  <2>1. 2 \in 1..Len(list) + 1 /\ Len(list) \in Nat
    BY <1>2, EmptySeq DEF Holds
  <2> DEFINE new == InsertAt(list, 2, t)
  <2>2. /\ new \in Seq(Threads)
        /\ Len(new) = Len(list) + 1
        /\ \A i \in 1..Len(list) + 1 :
             new[i] = IF i < 2 THEN list[i] ELSE IF i = 2 THEN t ELSE list[i - 1]
    BY <2>1, Inserted DEF Holds
  <2> HIDE DEF new
  <2>3. \A k \in DOMAIN list : list[k] # t
    BY DEF Holds
  <2>4. \A j, k \in DOMAIN new : new[j] = new[k] => j = k
    BY <2>1, <2>2, <2>3 DEF Holds
  <2>5. {new[k] : k \in DOMAIN new} = S \cup {t}
    <3>1. ASSUME NEW k \in DOMAIN new PROVE new[k] \in S \cup {t}
      BY <2>1, <2>2 DEF Holds
    <3>2. ASSUME NEW u \in S PROVE \E k \in DOMAIN new : new[k] = u
      <4>1. PICK k \in DOMAIN list : list[k] = u
        BY DEF Holds
      <4>2. CASE k = 1
        BY <2>1, <2>2, <4>1, <4>2 DEF Holds
      <4>3. CASE k # 1
        <5>1. k + 1 \in DOMAIN new /\ new[k + 1] = list[k]
          BY <2>1, <2>2, <4>1, <4>3 DEF Holds
        <5> QED BY <4>1, <5>1
      <4> QED BY <4>2, <4>3
    <3>3. 2 \in DOMAIN new /\ new[2] = t
      BY <2>1, <2>2
    <3> QED BY <3>1, <3>2, <3>3
  <2> QED BY <1>2, <2>2, <2>4, <2>5 DEF Added, Holds, new
<1> QED BY <1>1, <1>2

\* A thread that is removed from a list was in it, and nothing else changes.
LEMMA WithoutOnce ==
    ASSUME NEW list, NEW S, Holds(list, S), NEW t \in S
    PROVE  Holds(Without(list, t), S \ {t})
<1> DEFINE n == CHOOSE k \in DOMAIN list : list[k] = t
           new == RemoveAt(list, n)
<1>1. n \in DOMAIN list /\ list[n] = t
  BY DEF Holds
<1> HIDE DEF n
<1>2. n \in 1..Len(list) /\ Len(list) \in Nat /\ list \in Seq(Threads) /\ DOMAIN list = 1..Len(list)
  BY <1>1, LenProperties DEF Holds
<1>3. /\ new \in Seq(Threads)
      /\ Len(new) = Len(list) - 1
      /\ \A i \in 1..Len(list) - 1 : new[i] = IF i < n THEN list[i] ELSE list[i + 1]
  BY <1>2, Removed
<1> HIDE DEF new
<1>4. \A j, k \in DOMAIN list : list[j] = list[k] => j = k
  BY DEF Holds
<1>5. DOMAIN new = 1..Len(list) - 1
  BY <1>3, LenProperties
<1> DEFINE old(k) == IF k < n THEN k ELSE k + 1
<1>6. \A j, k \in DOMAIN new : new[j] = new[k] => j = k
  <2> SUFFICES ASSUME NEW j \in DOMAIN new, NEW k \in DOMAIN new, new[j] = new[k]
               PROVE  j = k
    OBVIOUS
  <2>1. /\ old(j) \in DOMAIN list /\ new[j] = list[old(j)]
        /\ old(k) \in DOMAIN list /\ new[k] = list[old(k)]
    BY <1>2, <1>3, <1>5
  <2>2. old(j) = old(k)
    BY <1>4, <2>1
  <2> QED BY <1>2, <1>5, <2>2
<1>7. {new[k] : k \in DOMAIN new} = S \ {t}
  <2>1. ASSUME NEW k \in DOMAIN new PROVE new[k] \in S \ {t}
    <3>1. CASE k < n
      BY <1>1, <1>2, <1>3, <1>4, <1>5, <3>1 DEF Holds
    <3>2. CASE ~(k < n)
      <4>1. k + 1 \in DOMAIN list /\ k + 1 # n /\ new[k] = list[k + 1]
        BY <1>2, <1>3, <1>5, <3>2
      <4> QED BY <1>1, <1>4, <4>1 DEF Holds
    <3> QED BY <3>1, <3>2
  <2>2. ASSUME NEW u \in S \ {t} PROVE \E k \in DOMAIN new : new[k] = u
    <3>1. PICK k \in DOMAIN list : list[k] = u
      BY DEF Holds
    <3>2. k # n
      BY <1>1, <3>1
    <3>3. CASE k < n
      BY <1>2, <1>3, <1>5, <3>1, <3>3
    <3>4. CASE ~(k < n)
      <4>1. k - 1 \in DOMAIN new /\ new[k - 1] = list[k]
        BY <1>2, <1>3, <1>5, <3>2, <3>4
      <4> QED BY <3>1, <4>1
    <3> QED BY <3>3, <3>4
  <2> QED BY <2>1, <2>2
<1> QED BY <1>3, <1>6, <1>7 DEF Holds, Without, new, n

\* Rotation keeps the elements of a list.
LEMMA RotatedOnce ==
    ASSUME NEW list, NEW S, Holds(list, S), NEW n \in DOMAIN list
    PROVE  Holds(RotatedTo(list, n), S)
<1> DEFINE a == SubSeq(list, n, Len(list))
           b == SubSeq(list, 1, n - 1)
           new == a \o b
<1>1. n \in 1..Len(list) /\ Len(list) \in Nat /\ list \in Seq(Threads) /\ DOMAIN list = 1..Len(list)
  BY LenProperties DEF Holds
<1>2. /\ a \in Seq(Threads)
      /\ Len(a) = Len(list) - n + 1
      /\ \A i \in 1..Len(list) - n + 1 : a[i] = list[n + i - 1]
  BY <1>1, SubSeqProperties
<1>3. b \in Seq(Threads) /\ Len(b) = n - 1 /\ \A i \in 1..n - 1 : b[i] = list[i]
  BY <1>1, SubSeqProperties
<1> HIDE DEF a, b
<1>4. /\ new \in Seq(Threads)
      /\ Len(new) = Len(list)
      /\ \A i \in 1..Len(list) : new[i] = IF i <= Len(a) THEN a[i] ELSE b[i - Len(a)]
  <2>1. /\ new \in Seq(Threads)
        /\ Len(new) = Len(a) + Len(b)
        /\ \A i \in 1..Len(a) + Len(b) :
             new[i] = IF i <= Len(a) THEN a[i] ELSE b[i - Len(a)]
    BY <1>2, <1>3, ConcatProperties, Zenon
  <2>2. Len(a) + Len(b) = Len(list)
    BY <1>1, <1>2, <1>3
  <2> HIDE DEF new
  <2> QED BY <2>1, <2>2
<1> HIDE DEF new
<1> DEFINE old(i) == IF i <= Len(list) - n + 1 THEN n + i - 1 ELSE i - (Len(list) - n + 1)
<1>5. \A i \in 1..Len(list) : old(i) \in 1..Len(list) /\ new[i] = list[old(i)]
  <2> TAKE i \in 1..Len(list)
  <2>1. CASE i <= Len(a)
    BY <1>1, <1>2, <1>4, <2>1
  <2>2. CASE ~(i <= Len(a))
    <3>1. i - Len(a) \in 1..n - 1
      BY <1>1, <1>2, <2>2
    <3> QED BY <1>1, <1>2, <1>3, <1>4, <2>2, <3>1
  <2> QED BY <2>1, <2>2
<1>6. DOMAIN new = 1..Len(list)
  BY <1>4, LenProperties
<1>7. \A j, k \in DOMAIN list : list[j] = list[k] => j = k
  BY DEF Holds
<1>8. \A j, k \in DOMAIN new : new[j] = new[k] => j = k
  <2> SUFFICES ASSUME NEW j \in DOMAIN new, NEW k \in DOMAIN new, new[j] = new[k]
               PROVE  j = k
    OBVIOUS
  <2>1. old(j) = old(k)
    BY <1>1, <1>5, <1>6, <1>7
  <2> QED BY <1>1, <1>6, <2>1
<1>9. {new[k] : k \in DOMAIN new} = {list[k] : k \in DOMAIN list}
  <2>1. ASSUME NEW k \in DOMAIN new PROVE \E j \in DOMAIN list : list[j] = new[k]
    <3>1. old(k) \in DOMAIN list /\ list[old(k)] = new[k]
      BY <1>1, <1>5, <1>6
    <3> QED BY <3>1
  <2>2. ASSUME NEW k \in DOMAIN list PROVE \E j \in DOMAIN new : new[j] = list[k]
    <3>1. CASE k >= n
      <4> DEFINE j == k - n + 1
      <4>1. j \in DOMAIN new /\ old(j) = k
        BY <1>1, <1>6, <3>1
      <4> QED BY <1>5, <1>6, <4>1
    <3>2. CASE ~(k >= n)
      <4> DEFINE j == k + (Len(list) - n + 1)
      <4>1. j \in DOMAIN new /\ old(j) = k
        BY <1>1, <1>6, <3>2
      <4> QED BY <1>5, <1>6, <4>1
    <3> QED BY <3>1, <3>2
  <2> QED BY <2>1, <2>2
<1> QED BY <1>4, <1>8, <1>9 DEF Holds, RotatedTo, new, a, b

\* The thread that is chosen in a list with a ready thread is a ready one of it.
LEMMA ChosenIsReady ==
    ASSUME NEW list \in Seq(Threads), NEW F, \E k \in DOMAIN list : Ready(F[list[k]])
    PROVE  Chosen(list, F) \in DOMAIN list /\ Ready(F[list[Chosen(list, F)]])
<1> DEFINE others == {k \in 2..Len(list) : Ready(F[list[k]])}
<1>1. DOMAIN list = 1..Len(list) /\ Len(list) \in Nat
  BY LenProperties
<1>2. CASE others = {}
  <2>1. Chosen(list, F) = 1
    BY <1>2 DEF Chosen
  <2> QED BY <1>1, <1>2, <2>1
<1>3. CASE others # {}
  <2>1. others \in SUBSET Nat /\ others # {}
    BY <1>3
  <2>2. \E k \in others : \A j \in others : k <= j
    <3> HIDE DEF others
    <3> QED BY <2>1, LeastExists
  <2>3. Chosen(list, F) = CHOOSE k \in others : \A j \in others : k <= j
    BY <1>3 DEF Chosen
  <2>4. Chosen(list, F) \in others
    <3> HIDE DEF others
    <3> QED BY <2>2, <2>3
  <2> QED BY <1>1, <2>4
<1> QED BY <1>2, <1>3

-----------------------------------------------------------------------------
(***************************************************************************)
(* The inductive invariant.                                                *)
(***************************************************************************)
Entry == [p : Threads, wakeup_time : 1..MaxTime]

\* ListedOnce in terms of Holds.
Lists == \A i \in Levels : Holds(thread_list[i], {t \in Threads : priority[t] = i})

\* The current thread is not freed; the kernel is paused only by a thread that runs,
\* removes dead threads or walks along owners, which
\* the idle thread does not; a choice that was missed is still to be made good.
KernelState ==
    /\ CurrentExists
    /\ flags[Idle] = {}
    /\ kernel_running # 0 => pc[cur] \in {"run", "removing", "walking"}
    /\ \A t \in All : pc[t] \in {"removing", "walking"} => t = cur /\ kernel_running # 0
    /\ \A t \in All : pc[t] = "walking" => t # Idle
    /\ missed # {} => kernel_running # 0 \/ pc[cur] \in {"restart", "yield"}
    /\ missed # {} => tick_skew \/ pc[cur] = "yield"

\* The list of sleepers is sorted, with each thread once.
SleepersSorted ==
    \A j, k \in DOMAIN sleeping_list :
      j < k => /\ sleeping_list[j].wakeup_time <= sleeping_list[k].wakeup_time
               /\ sleeping_list[j].p # sleeping_list[k].p

\* It holds the threads with the flag.
SleepersListed ==
    \A t \in Threads :
      "sleep" \in flags[t] <=> \E k \in DOMAIN sleeping_list : sleeping_list[k].p = t

\* They exist and have not ended.
SleepersLive ==
    \A t \in Threads : "sleep" \in flags[t] => t \in Existing /\ "deleted" \notin flags[t]

Sleepers == SleepersSorted /\ SleepersListed /\ SleepersLive

IInv == TypeOK /\ Lists /\ NeverRunsBlocked /\ KernelState /\ Sleepers

LEMMA ListedIsLists == Lists => ListedOnce
  BY DEF Lists, ListedOnce, Holds

LEMMA TypeOfFlags == SUBSET {"wait", "sleep", "deleted"} = SUBSET Flags
  BY DEF Flags

\* A thread with no flag set is ready, and conversely.
LEMMA ReadyIsEmpty == ASSUME NEW f \in SUBSET Flags PROVE Ready(f) <=> f = {}
  BY DEF Ready, Flags

\* The kernel starts with main in its list and the idle thread about to yield.
THEOREM InitIInv == Init => IInv
<1> SUFFICES ASSUME Init PROVE IInv
  OBVIOUS
<1> USE SchedulerAssumption
<1>1. TypeOK
  <2>1. priority \in [All -> Levels \cup {NoThread, -1}]
    BY DEF Init, All
  <2>2. thread_list \in [Levels -> Seq(Threads)]
    BY DEF Init
  <2>3. 0 \in 0..MaxNesting
    OBVIOUS
  <2>4. /\ flags \in [All -> SUBSET {"wait", "sleep", "deleted"}]
        /\ pc \in [All -> {"run", "yield", "switched", "restart", "removing", "walking"}]
    BY DEF Init
  <2>5. sleeping_list \in Seq([p : Threads, wakeup_time : 1..MaxTime])
    BY DEF Init
  <2>6. cur \in All /\ tick_skew \in BOOLEAN /\ missed \subseteq Threads
        /\ kernel_running \in 0..MaxNesting
    BY <2>3 DEF Init, All
  <2> QED BY <2>1, <2>2, <2>4, <2>5, <2>6 DEF TypeOK
<1>2. Lists
  <2> SUFFICES ASSUME NEW i \in Levels
               PROVE  Holds(thread_list[i], {t \in Threads : priority[t] = i})
    BY DEF Lists
  <2>1. {t \in Threads : priority[t] = i} = IF i = MAIN_PRIORITY THEN {Main} ELSE {}
    <3>1. NoThread # i /\ -1 # i
      BY DEF Levels, NoThread
    <3> QED BY <3>1 DEF Init, All
  <2>2. Holds(<<Main>>, {Main})
    BY DEF Holds
  <2>3. Holds(<<>>, {})
    BY DEF Holds
  <2> QED BY <2>1, <2>2, <2>3 DEF Init
<1>3. NeverRunsBlocked
  BY DEF Init, NeverRunsBlocked, All
<1>4. KernelState
  BY DEF Init, KernelState, CurrentExists, All
<1>5. Sleepers
  BY DEF Init, Sleepers, SleepersSorted, SleepersListed, SleepersLive, All
<1> QED BY <1>1, <1>2, <1>3, <1>4, <1>5 DEF IInv

-----------------------------------------------------------------------------
(***************************************************************************)
(* What the choice of the next thread establishes.                         *)
(***************************************************************************)
Chose(F, P) ==
    /\ cur' \in Existing \cup {Idle}
    /\ thread_list' \in [Levels -> Seq(Threads)]
    /\ \A i \in Levels : Holds(thread_list'[i], {t \in Threads : priority[t] = i})
    /\ pc' \in [All -> PCs]
    /\ \A t \in All : \/ pc'[t] = P[t]
                      \/ pc'[t] = "run" /\ P[t] = "switched" /\ F[t] = {}
    /\ kernel_running # 0 => cur' = cur /\ pc' = P /\ missed' = missed
    /\ kernel_running = 0 => missed' = {}
    /\ missed' \subseteq Threads

LEMMA FindNext ==
    ASSUME TypeOK, Lists, CurrentExists, NEW F \in [All -> SUBSET Flags], F[Idle] = {},
           NEW P \in [All -> PCs], IRQfindNextThread(F, P)
    PROVE  Chose(F, P)
<1> USE SchedulerAssumption
<1>1. CASE kernel_running # 0
  BY <1>1 DEF IRQfindNextThread, Chose, Lists, TypeOK, CurrentExists
<1>2. CASE kernel_running = 0
  <2>1. /\ pc' = Resumed(P, cur')
        /\ missed' = Above(F, cur')
        /\ \/ Runnable(F) = {} /\ cur' = Idle /\ thread_list' = thread_list
           \/ \E i \in Runnable(F) :
                /\ \A j \in Runnable(F) : j <= i
                /\ cur' = thread_list[i][Chosen(thread_list[i], F)]
                /\ thread_list' = [thread_list EXCEPT
                                     ![i] = RotatedTo(@, Chosen(thread_list[i], F))]
    BY <1>2 DEF IRQfindNextThread
  <2>2. \A t \in AllReady(F) : priority[t] \in Runnable(F)
    <3> SUFFICES ASSUME NEW t \in AllReady(F) PROVE priority[t] \in Runnable(F)
      OBVIOUS
    <3>1. t \in Threads /\ priority[t] \in Levels /\ Ready(F[t])
      BY DEF AllReady, Existing
    <3>2. PICK k \in DOMAIN thread_list[priority[t]] : thread_list[priority[t]][k] = t
      <4> DEFINE S == {u \in Threads : priority[u] = priority[t]}
      <4>1. Holds(thread_list[priority[t]], S) /\ t \in S
        BY <3>1 DEF Lists
      <4> HIDE DEF S
      <4> QED BY <4>1 DEF Holds
    <3> QED BY <3>1, <3>2 DEF Runnable
  <2>3. CASE Runnable(F) = {} /\ cur' = Idle /\ thread_list' = thread_list
    <3>1. missed' = {}
      BY <2>1, <2>2, <2>3 DEF Above
    <3>2. pc' \in [All -> PCs]
      BY <2>1, <2>3 DEF Resumed, All, PCs
    <3>3. \A t \in All : pc'[t] = P[t] \/ (pc'[t] = "run" /\ P[t] = "switched" /\ F[t] = {})
      <4> TAKE t \in All
      <4>1. CASE t = cur'
        <5>1. F[t] = {} /\ pc'[t] = IF P[t] = "switched" THEN "run" ELSE P[t]
          BY <2>1, <2>3, <4>1 DEF Resumed
        <5> QED BY <5>1
      <4>2. CASE t # cur'
        BY <2>1, <2>3, <4>2 DEF Resumed
      <4> QED BY <4>1, <4>2
    <3> QED BY <1>2, <2>3, <3>1, <3>2, <3>3 DEF Chose, Lists, TypeOK
  <2>4. CASE \E i \in Runnable(F) :
                /\ \A j \in Runnable(F) : j <= i
                /\ cur' = thread_list[i][Chosen(thread_list[i], F)]
                /\ thread_list' = [thread_list EXCEPT
                                     ![i] = RotatedTo(@, Chosen(thread_list[i], F))]
    <3>1. PICK i \in Runnable(F) :
                /\ \A j \in Runnable(F) : j <= i
                /\ cur' = thread_list[i][Chosen(thread_list[i], F)]
                /\ thread_list' = [thread_list EXCEPT
                                     ![i] = RotatedTo(@, Chosen(thread_list[i], F))]
      BY <2>4
    <3> DEFINE k == Chosen(thread_list[i], F)
    <3>2. i \in Levels /\ thread_list[i] \in Seq(Threads)
          /\ \E n \in DOMAIN thread_list[i] : Ready(F[thread_list[i][n]])
      BY DEF Runnable, TypeOK
    <3>3. k \in DOMAIN thread_list[i] /\ Ready(F[thread_list[i][k]])
      BY <3>2, ChosenIsReady
    <3> HIDE DEF k
    <3>4. Holds(thread_list[i], {t \in Threads : priority[t] = i})
      BY <3>2 DEF Lists
    <3>5. cur' \in Threads /\ priority[cur'] = i /\ F[cur'] = {} /\ cur' \in All
      <4>1. cur' = thread_list[i][k]
        BY <3>1 DEF k
      <4>2. cur' \in Threads /\ priority[cur'] = i
        BY <3>3, <3>4, <4>1 DEF Holds
      <4> QED BY <3>3, <4>1, <4>2, ReadyIsEmpty DEF All
    <3>6. missed' = {}
      <4> SUFFICES ASSUME NEW t \in Above(F, cur') PROVE FALSE
        BY <2>1
      <4>1. priority[t] \in Runnable(F) /\ priority[t] > i
        BY <2>2, <3>5 DEF Above
      <4>2. i \in Int /\ priority[t] \in Int
        BY <3>2, <4>1 DEF Runnable, Levels
      <4> QED BY <3>1, <4>1, <4>2
    <3>7. pc' \in [All -> PCs]
      BY <2>1, <3>5 DEF Resumed, PCs
    <3>8. \A t \in All : pc'[t] = P[t] \/ (pc'[t] = "run" /\ P[t] = "switched" /\ F[t] = {})
      <4> TAKE t \in All
      <4>1. CASE t = cur'
        <5>1. F[t] = {} /\ pc'[t] = IF P[t] = "switched" THEN "run" ELSE P[t]
          BY <2>1, <3>5, <4>1 DEF Resumed
        <5> QED BY <5>1
      <4>2. CASE t # cur'
        BY <2>1, <3>5, <4>2 DEF Resumed
      <4> QED BY <4>1, <4>2
    <3>9. Holds(RotatedTo(thread_list[i], k), {t \in Threads : priority[t] = i})
      BY <3>3, <3>4, RotatedOnce
    <3>10. thread_list' = [thread_list EXCEPT ![i] = RotatedTo(@, k)]
      BY <3>1 DEF k
    <3>11. thread_list' \in [Levels -> Seq(Threads)]
      BY <3>2, <3>9, <3>10 DEF TypeOK, Holds
    <3>12. \A j \in Levels : Holds(thread_list'[j], {t \in Threads : priority[t] = j})
      BY <3>2, <3>9, <3>10 DEF Lists, TypeOK
    <3>13. cur' \in Existing
      BY <3>2, <3>5 DEF Existing
    <3> QED BY <1>2, <3>6, <3>7, <3>8, <3>11, <3>12, <3>13 DEF Chose
  <2> QED BY <2>1, <2>3, <2>4
<1> QED BY <1>1, <1>2

-----------------------------------------------------------------------------
(***************************************************************************)
(* What the tick does to the list of sleepers.                             *)
(***************************************************************************)
LEMMA TickSleepers ==
    ASSUME TypeOK, SleepersSorted
    PROVE  LET L   == Len(sleeping_list)
               new == SubSeq(Closer, DueNow + 1, Len(Closer))
           IN  /\ L \in Nat /\ DOMAIN sleeping_list = 1..L
               /\ DueNow \in 0..L
               /\ \A k \in 1..DueNow : /\ sleeping_list[k].wakeup_time = 1
                                       /\ Closer[k].p = sleeping_list[k].p
               /\ \A k \in DueNow + 1..L : sleeping_list[k].wakeup_time > 1
               /\ new \in Seq(Entry) /\ Len(new) = L - DueNow
               /\ DOMAIN new = 1..L - DueNow
               /\ \A i \in 1..L - DueNow :
                    /\ new[i].p = sleeping_list[DueNow + i].p
                    /\ new[i].wakeup_time = sleeping_list[DueNow + i].wakeup_time - 1
<1> DEFINE L == Len(sleeping_list)
           new == SubSeq(Closer, DueNow + 1, Len(Closer))
<1>1. sleeping_list \in Seq(Entry) /\ L \in Nat /\ DOMAIN sleeping_list = 1..L
  BY LenProperties DEF TypeOK, Entry
<1> HIDE DEF L
<1>2. ASSUME NEW k \in 1..L
      PROVE  /\ sleeping_list[k] \in Entry
             /\ Closer[k].p = sleeping_list[k].p
             /\ Closer[k].wakeup_time = sleeping_list[k].wakeup_time - 1
             /\ Closer[k] \in [p : Threads, wakeup_time : 0..MaxTime]
  <2>1. sleeping_list[k] \in Entry
    BY <1>1, ElementOfSeq DEF L
  <2>2. Closer[k] = [sleeping_list[k] EXCEPT !.wakeup_time = @ - 1]
    BY <1>1 DEF Closer
  <2>3. /\ Closer[k].p = sleeping_list[k].p
        /\ Closer[k].wakeup_time = sleeping_list[k].wakeup_time - 1
        /\ Closer[k] \in [p : Threads, wakeup_time : 0..MaxTime]
    BY <2>1, <2>2, SchedulerAssumption DEF Entry
  <2> QED BY <2>1, <2>3
<1>3. Closer \in Seq([p : Threads, wakeup_time : 0..MaxTime]) /\ Len(Closer) = L
  <2>1. Closer \in [1..L -> [p : Threads, wakeup_time : 0..MaxTime]]
    BY <1>1, <1>2 DEF Closer
  <2>2. Closer \in Seq([p : Threads, wakeup_time : 0..MaxTime]) /\ DOMAIN Closer = 1..L
    <3> DEFINE X == [p : Threads, wakeup_time : 0..MaxTime]
    <3>1. Closer \in [1..L -> X]
      BY <2>1
    <3> HIDE DEF X
    <3>2. Closer \in Seq(X) /\ DOMAIN Closer = 1..L
      BY <1>1, <3>1
    <3> QED BY <3>2 DEF X
  <2>3. Len(Closer) \in Nat /\ 1..Len(Closer) = 1..L
    BY <2>2, LenProperties
  <2> QED BY <1>1, <2>2, <2>3
<1> DEFINE Test(n) == /\ \A k \in 1..n : Closer[k].wakeup_time = 0
                      /\ n < L => Closer[n + 1].wakeup_time # 0
<1>4. \E n \in 0..L : Test(n)
  <2> DEFINE S == {n \in 0..L : n = L \/ Closer[n + 1].wakeup_time # 0}
  <2>1. S \in SUBSET Nat /\ L \in S
    BY <1>1
  <2>2. PICK n \in S : \A m \in S : n <= m
    <3> HIDE DEF S
    <3> QED BY <2>1, LeastExists
  <2>3. ASSUME NEW k \in 1..n PROVE Closer[k].wakeup_time = 0
    <3>1. k - 1 \in 0..L /\ ~(n <= k - 1) /\ k - 1 # L /\ (k - 1) + 1 = k
      BY <1>1, <2>2
    <3>2. k - 1 \notin S
      BY <2>2, <3>1
    <3> QED BY <3>1, <3>2
  <2>4. n < L => Closer[n + 1].wakeup_time # 0
    BY <1>1, <2>2
  <2> QED BY <2>2, <2>3, <2>4
<1>5. DueNow = CHOOSE n \in 0..L : Test(n)
  BY <1>3 DEF DueNow
<1>6. DueNow \in 0..L /\ Test(DueNow)
  <2> HIDE DEF Test
  <2> QED BY <1>4, <1>5
<1>7. \A k \in 1..DueNow : sleeping_list[k].wakeup_time = 1 /\ Closer[k].p = sleeping_list[k].p
  <2> TAKE k \in 1..DueNow
  <2>1. k \in 1..L /\ Closer[k].wakeup_time = 0
    BY <1>1, <1>6
  <2>2. sleeping_list[k].wakeup_time \in Int
    BY <1>2, <2>1 DEF Entry
  <2> QED BY <1>2, <2>1, <2>2
<1>8. \A k \in DueNow + 1..L : sleeping_list[k].wakeup_time > 1
  <2> TAKE k \in DueNow + 1..L
  <2>1. k \in 1..L /\ DueNow + 1 \in 1..L /\ DueNow < L
    BY <1>1, <1>6
  <2>2. /\ sleeping_list[k].wakeup_time \in 1..MaxTime
        /\ sleeping_list[DueNow + 1].wakeup_time \in 1..MaxTime
    BY <1>2, <2>1 DEF Entry
  <2>3. sleeping_list[DueNow + 1].wakeup_time > 1
    BY <1>2, <1>6, <2>1, <2>2
  <2>4. sleeping_list[DueNow + 1].wakeup_time <= sleeping_list[k].wakeup_time
    <3>1. CASE k = DueNow + 1
      BY <2>2, <3>1
    <3>2. CASE k # DueNow + 1
      BY <1>1, <1>6, <2>1, <3>2 DEF SleepersSorted
    <3> QED BY <3>1, <3>2
  <2> QED BY <2>2, <2>3, <2>4, SchedulerAssumption
<1>9. \A k \in DueNow + 1..L : Closer[k] \in Entry
  <2> TAKE k \in DueNow + 1..L
  <2>1. k \in 1..L
    BY <1>1, <1>6
  <2>2. Closer[k] \in [p : Threads, wakeup_time : 0..MaxTime]
        /\ Closer[k].wakeup_time = sleeping_list[k].wakeup_time - 1
        /\ sleeping_list[k].wakeup_time \in 1..MaxTime
    BY <1>2, <2>1 DEF Entry
  <2>3. Closer[k].wakeup_time \in 1..MaxTime
    BY <1>8, <2>2, SchedulerAssumption
  <2> QED BY <2>2, <2>3 DEF Entry
<1>10. /\ new \in Seq(Entry)
       /\ Len(new) = L - DueNow
       /\ \A i \in 1..L - DueNow : new[i] = Closer[DueNow + i]
  <2>1. DueNow + 1 \in Int /\ L \in Int
    BY <1>1, <1>6
  <2>2. /\ new \in Seq(Entry)
        /\ Len(new) = IF DueNow + 1 <= L THEN L - (DueNow + 1) + 1 ELSE 0
        /\ \A i \in 1..L - (DueNow + 1) + 1 : new[i] = Closer[(DueNow + 1) + i - 1]
    BY <1>3, <1>9, <2>1, SubSeqProperties
  <2> HIDE DEF new
  <2>3. Len(new) = L - DueNow
    BY <1>1, <1>6, <2>2
  <2>4. ASSUME NEW i \in 1..L - DueNow PROVE new[i] = Closer[DueNow + i]
    <3>1. i \in 1..L - (DueNow + 1) + 1 /\ (DueNow + 1) + i - 1 = DueNow + i
      BY <1>1, <1>6
    <3> QED BY <2>2, <3>1
  <2> QED BY <2>2, <2>3, <2>4
<1> HIDE DEF new
<1>11. ASSUME NEW i \in 1..L - DueNow
       PROVE  /\ new[i].p = sleeping_list[DueNow + i].p
              /\ new[i].wakeup_time = sleeping_list[DueNow + i].wakeup_time - 1
  <2>1. DueNow + i \in 1..L
    BY <1>1, <1>6
  <2> QED BY <1>2, <1>10, <2>1
<1>12. DOMAIN new = 1..L - DueNow
  BY <1>10, LenProperties
<1> QED BY <1>1, <1>6, <1>7, <1>8, <1>10, <1>11, <1>12 DEF L, new

-----------------------------------------------------------------------------
(***************************************************************************)
(* Every step preserves the invariant.  Steps that choose the next thread: *)
(***************************************************************************)
LEMMA AfterChoice ==
    ASSUME IInv, NEW F \in [All -> SUBSET Flags], NEW P \in [All -> PCs],
           IRQfindNextThread(F, P), flags' = F, priority' = priority,
           \A t \in All : F[t] \subseteq flags[t],
           \A t \in All : P[t] = pc[t] \/ (t = cur /\ P[t] = "switched" /\ pc[t] = "yield")
    PROVE  /\ Lists' /\ NeverRunsBlocked' /\ CurrentExists' /\ flags'[Idle] = {}
           /\ thread_list' \in [Levels -> Seq(Threads)] /\ cur' \in All
           /\ pc' \in [All -> PCs] /\ missed' \subseteq Threads
           /\ Chose(F, P)
<1>1. Chose(F, P)
  <2>1. F[Idle] = {}
    BY DEF IInv, KernelState, All
  <2> QED BY <2>1, FindNext DEF IInv, KernelState
<1>2. Lists'
  BY <1>1 DEF Chose, Lists
<1>3. NeverRunsBlocked'
  <2> SUFFICES ASSUME NEW t \in All, pc'[t] \notin {"yield", "switched"}
               PROVE  F[t] = {}
    BY DEF NeverRunsBlocked
  <2>1. CASE pc'[t] = P[t]
    BY <2>1 DEF IInv, NeverRunsBlocked
  <2>2. CASE pc'[t] # P[t]
    BY <1>1, <2>2 DEF Chose
  <2> QED BY <2>1, <2>2
<1>4. CurrentExists'
  BY <1>1 DEF Chose, CurrentExists, Existing
<1>5. cur' \in All
  BY <1>1 DEF Chose, All, Existing
<1>6. flags'[Idle] = {}
  BY DEF IInv, KernelState, All
<1> QED BY <1>1, <1>2, <1>3, <1>4, <1>5, <1>6 DEF Chose

\* After a choice, with the kernel running, the current thread missed none and is
\* in none of the loops that run with it paused.
LEMMA KernelAfterChoice ==
    ASSUME IInv, NEW F, NEW P, Chose(F, P), P \in [All -> PCs],
           CurrentExists', flags'[Idle] = {}, kernel_running' = kernel_running,
           kernel_running # 0 => P = pc,
           kernel_running = 0 => \A t \in All : P[t] \notin {"removing", "walking"},
           kernel_running # 0 => tick_skew' = tick_skew
    PROVE  KernelState'
<1>1. CASE kernel_running # 0
  <2>1. cur' = cur /\ pc' = pc /\ missed' = missed /\ tick_skew' = tick_skew
    BY <1>1 DEF Chose
  <2> QED BY <1>1, <2>1 DEF IInv, KernelState
<1>2. CASE kernel_running = 0
  <2>1. missed' = {}
    BY <1>2 DEF Chose
  <2>2. \A t \in All : pc'[t] \notin {"removing", "walking"}
    BY <1>2 DEF Chose
  <2> QED BY <1>2, <2>1, <2>2 DEF KernelState
<1> QED BY <1>1, <1>2

LEMMA YieldStep == IInv /\ Yield => IInv'
<1> SUFFICES ASSUME IInv, Yield PROVE IInv'
  OBVIOUS
<1> DEFINE P == [pc EXCEPT ![cur] = "switched"]
<1>1. /\ pc[cur] = "yield"
      /\ IRQfindNextThread(flags, P)
      /\ UNCHANGED <<kernel_running, tick_skew, priority, flags, sleeping_list>>
  BY DEF Yield
<1>2. cur \in All /\ flags \in [All -> SUBSET Flags] /\ pc \in [All -> PCs] /\ P \in [All -> PCs]
  BY DEF IInv, TypeOK, Flags, PCs
<1>3. kernel_running = 0
  BY <1>1 DEF IInv, KernelState
<1>4. \A t \in All : P[t] = pc[t] \/ (t = cur /\ P[t] = "switched" /\ pc[t] = "yield")
  BY <1>1, <1>2
<1>5. \A t \in All : P[t] \notin {"removing", "walking"}
  BY <1>2, <1>3, <1>4 DEF IInv, KernelState
<1> HIDE DEF P
<1>6. /\ Lists' /\ NeverRunsBlocked' /\ CurrentExists' /\ flags'[Idle] = {}
      /\ thread_list' \in [Levels -> Seq(Threads)] /\ cur' \in All
      /\ pc' \in [All -> PCs] /\ missed' \subseteq Threads
      /\ Chose(flags, P)
  BY <1>1, <1>2, <1>4, AfterChoice
<1>7. KernelState'
  BY <1>1, <1>2, <1>3, <1>5, <1>6, KernelAfterChoice
<1>8. TypeOK'
  BY <1>1, <1>6 DEF IInv, TypeOK, PCs
<1>9. Sleepers'
  BY <1>1 DEF IInv, Sleepers, SleepersSorted, SleepersListed, SleepersLive, Existing
<1> QED BY <1>6, <1>7, <1>8, <1>9 DEF IInv

LEMMA DeviceInterruptStep ==
    ASSUME IInv, NEW t \in Threads, DeviceInterrupt(t)
    PROVE  IInv'
<1> DEFINE F == [flags EXCEPT ![t] = @ \ {"wait"}]
<1>1. /\ t \in Existing
      /\ flags' = F
      /\ UNCHANGED <<kernel_running, tick_skew, priority, sleeping_list>>
  BY DEF DeviceInterrupt
<1>2. flags \in [All -> SUBSET Flags] /\ pc \in [All -> PCs] /\ t \in All
  BY DEF IInv, TypeOK, Flags, PCs, All
<1>3. F \in [All -> SUBSET Flags] /\ \A u \in All : F[u] \subseteq flags[u]
  BY <1>2
<1>4. \A u \in All : \A f \in {"sleep", "deleted"} : f \in F[u] <=> f \in flags[u]
  BY <1>2
<1> HIDE DEF F
<1>5. Sleepers'
  <2>1. \A u \in Threads : \A f \in {"sleep", "deleted"} : f \in flags'[u] <=> f \in flags[u]
    BY <1>1, <1>4 DEF All
  <2>2. SleepersListed'
    BY <1>1, <2>1 DEF IInv, Sleepers, SleepersListed
  <2>3. SleepersLive'
    BY <1>1, <2>1 DEF IInv, Sleepers, SleepersLive, Existing
  <2>4. SleepersSorted'
    BY <1>1 DEF IInv, Sleepers, SleepersSorted
  <2> QED BY <2>2, <2>3, <2>4 DEF Sleepers
<1>6. CASE priority[t] > priority[cur]
  <2>1. IRQfindNextThread(F, pc)
    BY <1>1, <1>6 DEF DeviceInterrupt
  <2>2. /\ Lists' /\ NeverRunsBlocked' /\ CurrentExists' /\ flags'[Idle] = {}
        /\ thread_list' \in [Levels -> Seq(Threads)] /\ cur' \in All
        /\ pc' \in [All -> PCs] /\ missed' \subseteq Threads
        /\ Chose(F, pc)
    BY <1>1, <1>2, <1>3, <2>1, AfterChoice
  <2>3. kernel_running = 0 => \A u \in All : pc[u] \notin {"removing", "walking"}
    BY DEF IInv, KernelState
  <2>4. KernelState'
    BY <1>1, <1>2, <2>2, <2>3, KernelAfterChoice
  <2>5. TypeOK'
    BY <1>1, <1>3, <2>2 DEF IInv, TypeOK, PCs, Flags
  <2> QED BY <1>5, <2>2, <2>4, <2>5 DEF IInv
<1>7. CASE ~(priority[t] > priority[cur])
  <2>1. UNCHANGED <<cur, thread_list, pc, missed>>
    BY <1>7 DEF DeviceInterrupt
  <2>2. TypeOK'
    BY <1>1, <1>3, <2>1 DEF IInv, TypeOK, Flags
  <2>3. Lists' /\ NeverRunsBlocked'
    BY <1>1, <1>3, <2>1 DEF IInv, Lists, NeverRunsBlocked, All
  <2>4. KernelState'
    BY <1>1, <1>3, <2>1 DEF IInv, KernelState, CurrentExists, Existing, All
  <2> QED BY <1>5, <2>2, <2>3, <2>4 DEF IInv
<1> QED BY <1>6, <1>7

LEMMA TickStep == IInv /\ IRQtickInterrupt => IInv'
<1> SUFFICES ASSUME IInv, IRQtickInterrupt PROVE IInv'
  OBVIOUS
<1> DEFINE L   == Len(sleeping_list)
           n   == DueNow
           F   == WokenFlags
           new == SubSeq(Closer, n + 1, Len(Closer))
<1>1. flags' = F /\ sleeping_list' = new /\ UNCHANGED <<kernel_running, priority>>
  BY DEF IRQtickInterrupt
<1>2. TypeOK /\ SleepersSorted /\ SleepersListed /\ SleepersLive
  BY DEF IInv, Sleepers
<1>3. /\ L \in Nat /\ DOMAIN sleeping_list = 1..L
      /\ n \in 0..L
      /\ \A k \in 1..n : Closer[k].p = sleeping_list[k].p
      /\ new \in Seq(Entry)
      /\ DOMAIN new = 1..L - n
      /\ \A i \in 1..L - n : /\ new[i].p = sleeping_list[n + i].p
                             /\ new[i].wakeup_time = sleeping_list[n + i].wakeup_time - 1
  BY <1>2, TickSleepers
<1>4. flags \in [All -> SUBSET Flags] /\ pc \in [All -> PCs]
  BY <1>2 DEF TypeOK, Flags, PCs
<1>5. \A t \in All : F[t] = IF \E k \in 1..n : sleeping_list[k].p = t
                            THEN flags[t] \ {"sleep"} ELSE flags[t]
  <2> HIDE DEF L, n, new
  <2> TAKE t \in All
  <2>1. F[t] = IF \E k \in 1..n : Closer[k].p = t THEN flags[t] \ {"sleep"} ELSE flags[t]
    BY DEF WokenFlags, n
  <2> QED BY <1>3, <2>1
<1>6. F \in [All -> SUBSET Flags] /\ \A t \in All : F[t] \subseteq flags[t]
  <2>1. ASSUME NEW t \in All PROVE F[t] \in SUBSET Flags /\ F[t] \subseteq flags[t]
    <3> HIDE DEF F
    <3>1. F[t] = flags[t] \ {"sleep"} \/ F[t] = flags[t]
      BY <1>5
    <3>2. flags[t] \in SUBSET Flags
      BY <1>4
    <3> QED BY <3>1, <3>2
  <2>2. F = [t \in All |-> F[t]]
    BY DEF WokenFlags
  <2> QED BY <2>1, <2>2
<1> HIDE DEF L, n, F, new
<1>7. Sleepers'
  <2>1. SleepersSorted'
    <3> SUFFICES ASSUME NEW j \in 1..L - n, NEW k \in 1..L - n, j < k
                 PROVE  new[j].wakeup_time <= new[k].wakeup_time /\ new[j].p # new[k].p
      BY <1>1, <1>3 DEF SleepersSorted
    <3>1. n + j \in 1..L /\ n + k \in 1..L /\ n + j < n + k
      BY <1>3
    <3>2. /\ sleeping_list[n + j].wakeup_time <= sleeping_list[n + k].wakeup_time
          /\ sleeping_list[n + j].p # sleeping_list[n + k].p
      BY <1>2, <1>3, <3>1 DEF SleepersSorted
    <3>3. sleeping_list[n + j] \in Entry /\ sleeping_list[n + k] \in Entry
      BY <1>2, <1>3, <3>1, ElementOfSeq DEF TypeOK, Entry, L
    <3>4. sleeping_list[n + j].wakeup_time \in Int /\ sleeping_list[n + k].wakeup_time \in Int
      BY <3>3 DEF Entry
    <3> QED BY <1>3, <3>2, <3>4
  <2>2. SleepersListed'
    <3> SUFFICES ASSUME NEW t \in Threads
                 PROVE  "sleep" \in F[t] <=> \E i \in 1..L - n : new[i].p = t
      BY <1>1, <1>3 DEF SleepersListed
    <3>1. "sleep" \in flags[t] <=> \E k \in 1..L : sleeping_list[k].p = t
      BY <1>2, <1>3 DEF SleepersListed
    <3>2. CASE \E k \in 1..n : sleeping_list[k].p = t
      <4>1. "sleep" \notin F[t]
        BY <1>5, <3>2 DEF All
      <4>2. ASSUME NEW i \in 1..L - n, new[i].p = t PROVE FALSE
        <5>1. PICK k \in 1..n : sleeping_list[k].p = t
          BY <3>2
        <5>2. k \in 1..L /\ n + i \in 1..L /\ k < n + i /\ sleeping_list[n + i].p = t
          BY <1>3, <4>2
        <5>3. sleeping_list[k].p # sleeping_list[n + i].p
          BY <1>2, <1>3, <5>2 DEF SleepersSorted
        <5> QED BY <5>1, <5>2, <5>3
      <4> QED BY <4>1, <4>2
    <3>3. CASE ~\E k \in 1..n : sleeping_list[k].p = t
      <4>1. F[t] = flags[t]
        BY <1>5, <3>3 DEF All
      <4>2. ASSUME NEW k \in 1..L, sleeping_list[k].p = t
            PROVE  \E i \in 1..L - n : new[i].p = t
        <5>1. k - n \in 1..L - n /\ n + (k - n) = k
          BY <1>3, <3>3, <4>2
        <5> QED BY <1>3, <4>2, <5>1
      <4>3. ASSUME NEW i \in 1..L - n, new[i].p = t
            PROVE  \E k \in 1..L : sleeping_list[k].p = t
        <5>1. n + i \in 1..L
          BY <1>3
        <5> QED BY <1>3, <4>3, <5>1
      <4> QED BY <3>1, <4>1, <4>2, <4>3
    <3> QED BY <3>2, <3>3
  <2>3. SleepersLive'
    BY <1>1, <1>2, <1>6 DEF SleepersLive, Existing, All
  <2> QED BY <2>1, <2>2, <2>3 DEF Sleepers
<1>8. sleeping_list' \in Seq([p : Threads, wakeup_time : 1..MaxTime])
  BY <1>1, <1>3 DEF Entry
<1>9. CASE kernel_running # 0
  <2>1. tick_skew' = TRUE /\ missed' = Above(F, cur) /\ UNCHANGED <<cur, thread_list, pc>>
    BY <1>9 DEF IRQtickInterrupt, F
  <2>2. missed' \subseteq Threads
    BY <2>1 DEF Above, AllReady, Existing
  <2>3. TypeOK'
    BY <1>1, <1>2, <1>6, <1>8, <2>1, <2>2 DEF TypeOK, Flags
  <2>4. Lists' /\ NeverRunsBlocked'
    BY <1>1, <1>6, <2>1 DEF IInv, Lists, NeverRunsBlocked, All
  <2>5. KernelState'
    BY <1>1, <1>6, <1>9, <2>1 DEF IInv, KernelState, CurrentExists, Existing, All
  <2> QED BY <1>7, <2>3, <2>4, <2>5 DEF IInv
<1>10. CASE kernel_running = 0
  <2>1. IRQfindNextThread(F, pc) /\ tick_skew' = tick_skew
    BY <1>10 DEF IRQtickInterrupt, F
  <2>2. /\ Lists' /\ NeverRunsBlocked' /\ CurrentExists' /\ flags'[Idle] = {}
        /\ thread_list' \in [Levels -> Seq(Threads)] /\ cur' \in All
        /\ pc' \in [All -> PCs] /\ missed' \subseteq Threads
        /\ Chose(F, pc)
    BY <1>1, <1>4, <1>6, <2>1, AfterChoice
  <2>3. \A u \in All : pc[u] \notin {"removing", "walking"}
    BY <1>10 DEF IInv, KernelState
  <2>4. KernelState'
    BY <1>1, <1>4, <1>10, <2>1, <2>2, <2>3, KernelAfterChoice
  <2>5. TypeOK'
    BY <1>1, <1>2, <1>6, <1>8, <2>1, <2>2 DEF TypeOK, PCs, Flags
  <2> QED BY <1>7, <2>2, <2>4, <2>5 DEF IInv
<1> QED BY <1>9, <1>10

-----------------------------------------------------------------------------
(***************************************************************************)
(* Steps that need the kernel paused, or that pause or restart it.         *)
(***************************************************************************)
\* The sleepers and the flags are left alone.
LEMMA SleepersKept ==
    ASSUME Sleepers, flags' = flags, sleeping_list' = sleeping_list,
           \A t \in Threads : t \in Existing /\ "deleted" \notin flags[t] => t \in Existing'
    PROVE  Sleepers'
  BY DEF Sleepers, SleepersSorted, SleepersListed, SleepersLive

LEMMA PauseSteps ==
    IInv /\ (PauseKernel \/ RestartKernel \/ AfterRestart \/ RemoveDeadThreads
             \/ RemovedDeadThreads \/ Inherited \/ CallYield)
      => IInv'
<1> SUFFICES ASSUME IInv, PauseKernel \/ RestartKernel \/ AfterRestart
                          \/ RemoveDeadThreads \/ RemovedDeadThreads \/ Inherited \/ CallYield
             PROVE  IInv'
  OBVIOUS
<1> USE SchedulerAssumption
<1>1. /\ UNCHANGED <<cur, thread_list, priority, flags, sleeping_list, missed>>
      /\ pc[cur] \in {"run", "restart", "removing", "walking"}
  BY DEF PauseKernel, RestartKernel, AfterRestart, RemoveDeadThreads, Paused,
         RemovedDeadThreads, Inherited, CallYield, Running
<1>2. cur \in All /\ pc \in [All -> PCs] /\ kernel_running \in Nat /\ flags[cur] = {}
  <2>1. cur \in All /\ pc \in [All -> PCs] /\ kernel_running \in Nat
    BY DEF IInv, TypeOK, PCs
  <2>2. pc[cur] \notin {"yield", "switched"}
    BY <1>1
  <2> QED BY <2>1, <2>2 DEF IInv, NeverRunsBlocked
<1>3. \E x \in PCs : pc' = [pc EXCEPT ![cur] = x] \/ pc' = pc
  <2>1. PauseKernel => pc' = pc
    BY DEF PauseKernel
  <2>2. RestartKernel => pc' = pc \/ pc' = [pc EXCEPT ![cur] = "restart"]
    BY DEF RestartKernel
  <2>3. AfterRestart => pc' = [pc EXCEPT ![cur] = Yields]
    BY DEF AfterRestart
  <2>4. RemoveDeadThreads => pc' = [pc EXCEPT ![cur] = "removing"]
    BY DEF RemoveDeadThreads
  <2>5. RemovedDeadThreads \/ Inherited => pc' = [pc EXCEPT ![cur] = "run"]
    BY DEF RemovedDeadThreads, Inherited
  <2>6. CallYield => pc' = [pc EXCEPT ![cur] = "yield"]
    BY DEF CallYield
  <2>7. {"run", "restart", "removing", "yield", Yields} \subseteq PCs
    BY DEF PCs, Yields
  <2>8. ASSUME NEW x \in {"run", "restart", "removing", "yield", Yields},
               pc' = [pc EXCEPT ![cur] = x]
        PROVE  \E y \in PCs : pc' = [pc EXCEPT ![cur] = y] \/ pc' = pc
    BY <2>7, <2>8, Zenon
  <2>9. pc' = pc => \E y \in PCs : pc' = [pc EXCEPT ![cur] = y] \/ pc' = pc
    BY <2>7
  <2> QED BY <2>1, <2>2, <2>3, <2>4, <2>5, <2>6, <2>8, <2>9, Zenon
<1>4. pc' \in [All -> PCs] /\ \A t \in All \ {cur} : pc'[t] = pc[t]
  BY <1>2, <1>3
<1>5. kernel_running' \in 0..MaxNesting /\ tick_skew' \in BOOLEAN
  <2>1. kernel_running \in 0..MaxNesting /\ tick_skew \in BOOLEAN
    BY DEF IInv, TypeOK
  <2>2. CASE PauseKernel
    BY <2>1, <2>2 DEF PauseKernel
  <2>3. CASE RestartKernel
    BY <2>1, <2>3 DEF RestartKernel
  <2>4. CASE AfterRestart
    BY <2>1, <2>4 DEF AfterRestart
  <2>5. CASE RemoveDeadThreads \/ RemovedDeadThreads \/ Inherited \/ CallYield
    BY <2>1, <2>5 DEF RemoveDeadThreads, RemovedDeadThreads, Inherited, CallYield
  <2> QED BY <2>2, <2>3, <2>4, <2>5
<1>6. TypeOK'
  BY <1>1, <1>4, <1>5 DEF IInv, TypeOK, PCs
<1>7. Lists'
  BY <1>1 DEF IInv, Lists
<1>8. NeverRunsBlocked'
  BY <1>1, <1>2, <1>4 DEF IInv, NeverRunsBlocked
<1>9. Sleepers'
  BY <1>1, SleepersKept DEF IInv, Existing
<1>10. KernelState'
  <2> USE <1>1, <1>2, <1>4 DEF IInv, KernelState, CurrentExists, Existing
  <2>1. CASE PauseKernel
    BY <2>1 DEF PauseKernel
  <2>2. CASE RestartKernel
    BY <2>2 DEF RestartKernel
  <2>3. CASE AfterRestart
    BY <2>3 DEF AfterRestart, Yields
  <2>4. CASE RemoveDeadThreads
    BY <2>4 DEF RemoveDeadThreads, Paused
  <2>5. CASE RemovedDeadThreads \/ Inherited
    BY <2>5 DEF RemovedDeadThreads, Inherited
  <2>6. CASE CallYield
    BY <2>6 DEF CallYield, Running
  <2> QED BY <2>1, <2>2, <2>3, <2>4, <2>5, <2>6
<1> QED BY <1>6, <1>7, <1>8, <1>9, <1>10 DEF IInv

LEMMA AddThreadStep ==
    ASSUME IInv, NEW t \in Threads, NEW i \in Levels, PKaddThread(t, i)
    PROVE  IInv'
<1> USE SchedulerAssumption
<1>1. /\ pc[cur] = "run" /\ kernel_running > 0 /\ cur # Idle
      /\ t \notin Existing
      /\ priority' = [priority EXCEPT ![t] = i]
      /\ thread_list' = [thread_list EXCEPT ![i] = Added(@, t)]
      /\ flags' = [flags EXCEPT ![t] = {}]
      /\ pc' = [pc EXCEPT ![t] = "switched"]
      /\ UNCHANGED <<cur, kernel_running, tick_skew, sleeping_list, missed>>
  BY DEF PKaddThread, Paused
<1>2. /\ TypeOK /\ t \in All /\ t # Idle /\ t # cur
      /\ priority \in [All -> Levels \cup {NoThread, -1}] /\ thread_list \in [Levels -> Seq(Threads)]
      /\ flags \in [All -> SUBSET Flags] /\ pc \in [All -> PCs]
  BY <1>1 DEF IInv, TypeOK, All, KernelState, CurrentExists, Flags, PCs
<1>3. Lists'
  <2> SUFFICES ASSUME NEW j \in Levels
               PROVE  Holds(thread_list'[j], {u \in Threads : priority'[u] = j})
    BY DEF Lists
  <2> DEFINE S == {u \in Threads : priority[u] = j}
  <2>1. Holds(thread_list[j], S) /\ t \in Threads \ S
    BY <1>1 DEF IInv, Lists, Existing
  <2>2. CASE j = i
    <3>1. {u \in Threads : priority'[u] = j} = S \cup {t}
      BY <1>1, <1>2, <2>2
    <3>2. thread_list'[j] = Added(thread_list[j], t)
      BY <1>1, <1>2, <2>2
    <3> HIDE DEF S
    <3>3. Holds(Added(thread_list[j], t), S \cup {t})
      BY <2>1, AddedOnce
    <3> QED BY <3>1, <3>2, <3>3
  <2>3. CASE j # i
    <3>1. {u \in Threads : priority'[u] = j} = S
      BY <1>1, <1>2, <2>1, <2>3
    <3>2. thread_list'[j] = thread_list[j]
      BY <1>1, <1>2, <2>3
    <3> QED BY <2>1, <3>1, <3>2
  <2> QED BY <2>2, <2>3
<1>4. TypeOK'
  <2>1. thread_list' \in [Levels -> Seq(Threads)]
    <3>1. Holds(thread_list'[i], {u \in Threads : priority'[u] = i})
      BY <1>3 DEF Lists
    <3>2. thread_list'[i] \in Seq(Threads)
      BY <3>1 DEF Holds
    <3> QED BY <1>1, <1>2, <3>2
  <2>2. priority' \in [All -> Levels \cup {NoThread, -1}]
        /\ flags' \in [All -> SUBSET Flags] /\ pc' \in [All -> PCs]
    BY <1>1, <1>2 DEF PCs
  <2> QED BY <1>1, <1>2, <2>1, <2>2 DEF TypeOK, Flags, PCs
<1>5. NeverRunsBlocked'
  BY <1>1, <1>2 DEF IInv, NeverRunsBlocked
<1>6. Existing' = Existing \cup {t}
  BY <1>1, <1>2 DEF Existing
<1>7. KernelState'
  BY <1>1, <1>2, <1>6 DEF IInv, KernelState, CurrentExists
<1>8. Sleepers'
  <2>1. \A u \in Threads : "sleep" \in flags'[u] <=> "sleep" \in flags[u]
    BY <1>1, <1>2 DEF IInv, Sleepers, SleepersLive, All
  <2>2. SleepersSorted' /\ SleepersListed'
    BY <1>1, <2>1 DEF IInv, Sleepers, SleepersSorted, SleepersListed
  <2>3. SleepersLive'
    BY <1>1, <1>2, <1>6, <2>1 DEF IInv, Sleepers, SleepersLive, All
  <2> QED BY <2>2, <2>3 DEF Sleepers
<1> QED BY <1>3, <1>4, <1>5, <1>7, <1>8 DEF IInv

\* Whether t enters another list or the one it leaves.
LEMMA SetPriorityLists ==
    ASSUME IInv, NEW t \in Threads, NEW i \in Levels, PKsetPriority(t, i)
    PROVE  /\ Lists' /\ Existing' = Existing
           /\ thread_list' \in [Levels -> Seq(Threads)]
           /\ priority' \in [All -> Levels \cup {NoThread, -1}]
<1> USE SchedulerAssumption
<1> DEFINE from == priority[t]
           removed == [thread_list EXCEPT ![from] = Without(@, t)]
           Rest(j) == {u \in Threads : priority[u] = j} \ {t}
<1>1. /\ t \in Existing
      /\ priority' = [priority EXCEPT ![t] = i]
      /\ thread_list' = [removed EXCEPT ![i] = Added(@, t)]
  BY DEF PKsetPriority
<1>2. /\ t \in All /\ from \in Levels
      /\ priority \in [All -> Levels \cup {NoThread, -1}] /\ thread_list \in [Levels -> Seq(Threads)]
  BY <1>1 DEF IInv, TypeOK, All, Existing
<1>3. \A u \in Threads : priority'[u] = IF u = t THEN i ELSE priority[u]
  BY <1>1, <1>2 DEF All
<1>4. ASSUME NEW j \in Levels PROVE Holds(removed[j], Rest(j))
  <2> DEFINE S == {u \in Threads : priority[u] = j}
  <2>1. Holds(thread_list[j], S)
    BY DEF IInv, Lists
  <2>2. CASE j = from
    <3>1. t \in S /\ Rest(j) = S \ {t}
      BY <2>2
    <3> HIDE DEF S, Rest
    <3>2. Holds(Without(thread_list[j], t), S \ {t})
      BY <2>1, <3>1, WithoutOnce
    <3>3. removed[j] = Without(thread_list[j], t)
      BY <1>2, <2>2
    <3> QED BY <3>1, <3>2, <3>3
  <2>3. CASE j # from
    <3>1. Rest(j) = S
      BY <2>3
    <3>2. removed[j] = thread_list[j]
      BY <1>2, <2>3
    <3> QED BY <2>1, <3>1, <3>2
  <2> QED BY <2>2, <2>3
<1>5. DOMAIN removed = Levels
  BY <1>2
<1> HIDE DEF removed
<1>6. ASSUME NEW j \in Levels
      PROVE  Holds(thread_list'[j], {u \in Threads : priority'[u] = j})
  <2>1. CASE j = i
    <3>1. {u \in Threads : priority'[u] = j} = Rest(j) \cup {t} /\ t \in Threads \ Rest(j)
      BY <1>3, <2>1
    <3> HIDE DEF Rest
    <3>2. Holds(Added(removed[j], t), Rest(j) \cup {t})
      BY <1>4, <3>1, AddedOnce
    <3>3. thread_list'[j] = Added(removed[j], t)
      BY <1>1, <1>5, <2>1
    <3> QED BY <3>1, <3>2, <3>3
  <2>2. CASE j # i
    <3>1. {u \in Threads : priority'[u] = j} = Rest(j)
      BY <1>3, <2>2
    <3> HIDE DEF Rest
    <3>2. thread_list'[j] = removed[j]
      BY <1>1, <1>5, <2>2
    <3> QED BY <1>4, <3>1, <3>2
  <2> QED BY <2>1, <2>2
<1>7. Lists'
  BY <1>6 DEF Lists
<1>8. thread_list' \in [Levels -> Seq(Threads)]
  <2>1. DOMAIN thread_list' = Levels
    BY <1>1, <1>5
  <2>2. \A j \in Levels : thread_list'[j] \in Seq(Threads)
    BY <1>6 DEF Holds
  <2>3. thread_list' = [j \in Levels |-> thread_list'[j]]
    BY <1>1, <1>5, <2>1
  <2> QED BY <2>2, <2>3
<1>9. priority' \in [All -> Levels \cup {NoThread, -1}] /\ Existing' = Existing
  BY <1>1, <1>2, <1>3 DEF Existing
<1> QED BY <1>7, <1>8, <1>9

LEMMA SetPriorityStep ==
    ASSUME IInv, NEW t \in Threads,
           Inherit(t) \/ InheritOn(t) \/ \E i \in Levels : ChangePriority(t, i)
    PROVE  IInv'
<1> USE SchedulerAssumption
<1>1. /\ pc[cur] \in {"run", "walking"} /\ kernel_running > 0 /\ cur \in All
      /\ kernel_running \in Int /\ pc \in [All -> PCs]
      /\ pc' = pc \/ pc' = [pc EXCEPT ![cur] = "walking"]
  BY DEF Inherit, InheritOn, ChangePriority, Paused, IInv, TypeOK, KernelState, PCs
<1>2. PICK i \in Levels : PKsetPriority(t, i)
  <2>1. CASE \E i \in Levels : ChangePriority(t, i)
    BY <2>1 DEF ChangePriority
  <2>2. CASE Inherit(t) \/ InheritOn(t)
    <3>1. cur # Idle /\ PKsetPriority(t, priority[cur])
      <4>1. CASE Inherit(t)
        BY <4>1 DEF Inherit
      <4>2. CASE InheritOn(t)
        BY <1>1, <4>2 DEF InheritOn, IInv, KernelState
      <4> QED BY <2>2, <4>1, <4>2
    <3>2. priority[cur] \in Levels
      BY <3>1 DEF IInv, KernelState, CurrentExists, Existing
    <3> QED BY <3>1, <3>2
  <2> QED BY <2>1, <2>2
<1>3. /\ missed' = IF t = cur THEN {} ELSE missed \ {t}
      /\ UNCHANGED <<cur, kernel_running, tick_skew, flags, sleeping_list>>
  BY <1>2 DEF PKsetPriority
<1>4. /\ Lists' /\ Existing' = Existing
      /\ thread_list' \in [Levels -> Seq(Threads)]
      /\ priority' \in [All -> Levels \cup {NoThread, -1}]
  BY <1>2, SetPriorityLists
<1>5. pc' \in [All -> PCs] /\ pc'[cur] \in {"run", "walking"}
      /\ \A u \in All \ {cur} : pc'[u] = pc[u]
  BY <1>1 DEF PCs
<1>6. TypeOK'
  <2>1. missed' \subseteq Threads
    BY <1>3 DEF IInv, TypeOK
  <2> QED BY <1>3, <1>4, <1>5, <2>1 DEF IInv, TypeOK, PCs
<1>7. KernelState'
  <2> USE DEF IInv, KernelState
  <2>1. CurrentExists' /\ flags'[Idle] = {}
    BY <1>3, <1>4 DEF CurrentExists
  <2>2. \A u \in All : pc'[u] \in {"removing", "walking"} => u = cur' /\ kernel_running' # 0
    BY <1>1, <1>3, <1>5
  <2>3. \A u \in All : pc'[u] = "walking" => u # Idle
    <3>1. pc'[cur] = "walking" => cur # Idle
      <4>1. CASE pc' = pc
        BY <1>1, <4>1
      <4>2. CASE pc' # pc
        BY <1>1, <4>2 DEF Inherit, InheritOn, ChangePriority
      <4> QED BY <4>1, <4>2
    <3> QED BY <1>5, <3>1
  <2>4. missed' \subseteq missed
    BY <1>3
  <2>5. kernel_running' # 0 /\ pc'[cur'] \in {"run", "walking"}
    BY <1>1, <1>3, <1>5
  <2>6. missed' # {} => tick_skew'
    BY <1>1, <1>3, <2>4
  <2> QED BY <2>1, <2>2, <2>3, <2>5, <2>6
<1>8. NeverRunsBlocked'
  BY <1>1, <1>3, <1>5 DEF IInv, NeverRunsBlocked
<1>9. Sleepers'
  BY <1>3, <1>4, SleepersKept DEF IInv
<1> QED BY <1>4, <1>6, <1>7, <1>8, <1>9 DEF IInv

LEMMA FreeStep ==
    ASSUME IInv, NEW t \in Threads, Free(t)
    PROVE  IInv'
<1> USE SchedulerAssumption
<1> DEFINE from == priority[t]
<1>1. /\ pc[cur] = "removing"
      /\ t \in Existing /\ "deleted" \in flags[t]
      /\ thread_list' = [thread_list EXCEPT ![from] = Without(@, t)]
      /\ priority' = [priority EXCEPT ![t] = NoThread]
      /\ UNCHANGED <<cur, kernel_running, tick_skew, flags, sleeping_list, pc, missed>>
  BY DEF Free, Dead
<1>2. /\ TypeOK /\ t \in All /\ from \in Levels /\ cur \in All
      /\ priority \in [All -> Levels \cup {NoThread, -1}] /\ thread_list \in [Levels -> Seq(Threads)]
      /\ t # cur /\ t # Idle
  <2>1. flags[cur] = {}
    BY <1>1 DEF IInv, TypeOK, NeverRunsBlocked
  <2> QED BY <1>1, <2>1 DEF IInv, TypeOK, All, Existing
<1>3. /\ thread_list'[from] = Without(thread_list[from], t)
      /\ \A j \in Levels \ {from} : thread_list'[j] = thread_list[j]
      /\ \A u \in Threads : priority'[u] = IF u = t THEN NoThread ELSE priority[u]
  BY <1>1, <1>2 DEF All
<1>4. NoThread \notin Levels
  BY DEF NoThread, Levels
<1> HIDE DEF from
<1>5. Lists'
  <2> SUFFICES ASSUME NEW j \in Levels
               PROVE  Holds(thread_list'[j], {u \in Threads : priority'[u] = j})
    BY DEF Lists
  <2> DEFINE S == {u \in Threads : priority[u] = j}
  <2>1. Holds(thread_list[j], S)
    BY DEF IInv, Lists
  <2>2. {u \in Threads : priority'[u] = j} = S \ {t}
    BY <1>3, <1>4
  <2>3. CASE j = from
    <3>1. t \in S
      BY <1>1, <2>3 DEF from
    <3> HIDE DEF S
    <3>2. Holds(Without(thread_list[j], t), S \ {t})
      BY <2>1, <3>1, WithoutOnce
    <3> QED BY <1>3, <2>2, <2>3, <3>2
  <2>4. CASE j # from
    <3>1. S \ {t} = S
      BY <2>4 DEF from
    <3> QED BY <1>3, <2>1, <2>2, <2>4, <3>1
  <2> QED BY <2>3, <2>4
<1>6. TypeOK'
  <2>1. \A j \in Levels : thread_list'[j] \in Seq(Threads)
    BY <1>5 DEF Lists, Holds
  <2>2. thread_list' \in [Levels -> Seq(Threads)]
    BY <1>1, <1>2, <2>1
  <2>3. priority' \in [All -> Levels \cup {NoThread, -1}]
    BY <1>1, <1>2
  <2> QED BY <1>1, <1>2, <2>2, <2>3 DEF TypeOK
<1>7. Existing' = Existing \ {t}
  BY <1>3, <1>4 DEF Existing
<1>8. KernelState'
  BY <1>1, <1>2, <1>7 DEF IInv, KernelState, CurrentExists
<1>9. NeverRunsBlocked'
  BY <1>1 DEF IInv, NeverRunsBlocked
<1>10. Sleepers'
  BY <1>1, <1>7, SleepersKept DEF IInv
<1> QED BY <1>5, <1>6, <1>8, <1>9, <1>10 DEF IInv

-----------------------------------------------------------------------------
(***************************************************************************)
(* Steps that change the flags of a thread.                                *)
(***************************************************************************)
\* The current thread takes a flag and goes to its yield, in the list of sleepers if
\* the flag is SLEEP.
LEMMA BlocksStep ==
    ASSUME IInv, Running, cur \in Threads, NEW f \in Flags, Blocks(f),
           UNCHANGED <<cur, kernel_running, tick_skew, thread_list, priority>>,
           sleeping_list' \in Seq(Entry), SleepersSorted',
           \A t \in Threads :
             (\E k \in DOMAIN sleeping_list' : sleeping_list'[k].p = t)
               <=> \/ \E k \in DOMAIN sleeping_list : sleeping_list[k].p = t
                   \/ t = cur /\ f = "sleep"
    PROVE  IInv'
<1>1. /\ flags' = [flags EXCEPT ![cur] = @ \cup {f}]
      /\ pc' = [pc EXCEPT ![cur] = "yield"]
      /\ missed' = missed \ {cur}
      /\ pc[cur] = "run" /\ kernel_running = 0 /\ cur # Idle
  BY DEF Blocks, Running
<1>2. /\ cur \in All /\ flags \in [All -> SUBSET Flags] /\ pc \in [All -> PCs]
      /\ flags[cur] = {} /\ cur \in Existing
  BY <1>1 DEF IInv, TypeOK, Flags, PCs, NeverRunsBlocked, KernelState, CurrentExists
<1>3. /\ flags' \in [All -> SUBSET Flags] /\ pc' \in [All -> PCs]
      /\ flags'[cur] = {f} /\ pc'[cur] = "yield"
      /\ \A t \in All \ {cur} : flags'[t] = flags[t] /\ pc'[t] = pc[t]
  BY <1>1, <1>2 DEF PCs
<1>4. TypeOK'
  BY <1>1, <1>3 DEF IInv, TypeOK, Flags, PCs, Entry
<1>5. Lists'
  BY DEF IInv, Lists
<1>6. NeverRunsBlocked'
  BY <1>3 DEF IInv, NeverRunsBlocked
<1>7. KernelState'
  BY <1>1, <1>2, <1>3 DEF IInv, KernelState, CurrentExists, Existing, All
<1>8. SleepersListed'
  <2> SUFFICES ASSUME NEW t \in Threads
               PROVE  "sleep" \in flags'[t]
                        <=> \E k \in DOMAIN sleeping_list' : sleeping_list'[k].p = t
    BY DEF SleepersListed
  <2>1. "sleep" \in flags[t] <=> \E k \in DOMAIN sleeping_list : sleeping_list[k].p = t
    BY DEF IInv, Sleepers, SleepersListed
  <2>2. "sleep" \in flags'[t] <=> ("sleep" \in flags[t] \/ (t = cur /\ f = "sleep"))
    BY <1>2, <1>3 DEF All
  <2> QED BY <2>1, <2>2
<1>9. SleepersLive'
  BY <1>2, <1>3 DEF IInv, Sleepers, SleepersLive, Existing, All
<1> QED BY <1>4, <1>5, <1>6, <1>7, <1>8, <1>9 DEF IInv, Sleepers

LEMMA WaitExitStep == IInv /\ (Wait \/ Exit) => IInv'
<1> SUFFICES ASSUME IInv, Wait \/ Exit PROVE IInv'
  OBVIOUS
<1>1. PICK f \in {"wait", "deleted"} :
        /\ Running /\ cur \in Threads /\ Blocks(f)
        /\ UNCHANGED <<cur, kernel_running, tick_skew, thread_list, priority, sleeping_list>>
  BY SchedulerAssumption DEF Wait, Exit
<1>2. sleeping_list' \in Seq(Entry) /\ SleepersSorted'
  BY <1>1 DEF IInv, TypeOK, Entry, Sleepers, SleepersSorted
<1>3. f \in Flags /\ f # "sleep"
  BY DEF Flags
<1> QED BY <1>1, <1>2, <1>3, BlocksStep

\* IRQaddToSleepingList keeps the list sorted: what is before the place wakes
\* earlier, what is after it not.
LEMMA PlaceInOrder ==
    ASSUME TypeOK, SleepersSorted, NEW ticks \in 1..MaxTime
    PROVE  /\ Place(ticks) \in 1..Len(sleeping_list) + 1
           /\ \A k \in DOMAIN sleeping_list :
                /\ k < Place(ticks) => sleeping_list[k].wakeup_time <= ticks
                /\ k >= Place(ticks) => ticks <= sleeping_list[k].wakeup_time
<1> DEFINE L == Len(sleeping_list)
           later == {k \in DOMAIN sleeping_list : ticks <= sleeping_list[k].wakeup_time}
<1>1. L \in Nat /\ DOMAIN sleeping_list = 1..L
  BY LenProperties DEF TypeOK
<1>2. \A k \in 1..L : sleeping_list[k].wakeup_time \in 1..MaxTime
  <2> TAKE k \in 1..L
  <2>1. sleeping_list[k] \in [p : Threads, wakeup_time : 1..MaxTime]
    BY ElementOfSeq DEF TypeOK
  <2> QED BY <2>1
<1>3. CASE later = {}
  <2>1. Place(ticks) = L + 1
    BY <1>3 DEF Place
  <2>2. \A k \in 1..L : ~(ticks <= sleeping_list[k].wakeup_time)
    BY <1>1, <1>3
  <2> QED BY <1>1, <1>2, <2>1, <2>2, SchedulerAssumption
<1>4. CASE later # {}
  <2>1. Place(ticks) = CHOOSE k \in later : \A j \in later : k <= j
    BY <1>4 DEF Place
  <2>2. later \in SUBSET Nat /\ later # {}
    BY <1>1, <1>4
  <2>3. Place(ticks) \in later /\ \A j \in later : Place(ticks) <= j
    <3> HIDE DEF later
    <3> QED BY <2>1, <2>2, LeastExists
  <2> DEFINE n == Place(ticks)
  <2> HIDE DEF n
  <2>4. n \in 1..L /\ ticks <= sleeping_list[n].wakeup_time
    BY <1>1, <2>3 DEF n
  <2>5. ASSUME NEW k \in 1..L, k < n PROVE sleeping_list[k].wakeup_time <= ticks
    <3>1. k \notin later
      BY <1>1, <2>3, <2>4, <2>5 DEF n
    <3>2. ~(ticks <= sleeping_list[k].wakeup_time)
      BY <1>1, <3>1
    <3> QED BY <1>2, <3>2, SchedulerAssumption
  <2>6. ASSUME NEW k \in 1..L, k >= n PROVE ticks <= sleeping_list[k].wakeup_time
    <3>1. CASE k = n
      BY <2>4, <3>1
    <3>2. CASE k # n
      <4>1. sleeping_list[n].wakeup_time <= sleeping_list[k].wakeup_time
        BY <1>1, <2>4, <2>6, <3>2 DEF SleepersSorted
      <4> QED BY <1>2, <2>4, <4>1, SchedulerAssumption
    <3> QED BY <3>1, <3>2
  <2> QED BY <1>1, <2>4, <2>5, <2>6 DEF n
<1> QED BY <1>3, <1>4

\* The list after sleep.
LEMMA SleepList ==
    ASSUME IInv, NEW ticks \in 0..MaxTime, Sleep(ticks)
    PROVE  /\ ticks \in 1..MaxTime /\ cur \in Threads
           /\ sleeping_list' \in Seq(Entry)
           /\ SleepersSorted'
           /\ \A k \in DOMAIN sleeping_list : sleeping_list[k].p # cur
           /\ \E k \in DOMAIN sleeping_list' :
                sleeping_list'[k] = [p |-> cur, wakeup_time |-> ticks]
           /\ \A k \in DOMAIN sleeping_list :
                \E j \in DOMAIN sleeping_list' : sleeping_list'[j] = sleeping_list[k]
           /\ \A k \in DOMAIN sleeping_list' :
                \/ sleeping_list'[k].p = cur
                \/ \E j \in DOMAIN sleeping_list : sleeping_list[j] = sleeping_list'[k]
<1> DEFINE L   == Len(sleeping_list)
           e   == [p |-> cur, wakeup_time |-> ticks]
           n   == Place(ticks)
           new == InsertAt(sleeping_list, n, e)
<1>1. /\ ticks > 0 /\ cur \in Threads /\ Running
      /\ sleeping_list' = new
  BY SchedulerAssumption DEF Sleep, IRQaddToSleepingList
<1>2. TypeOK /\ SleepersSorted /\ SleepersListed /\ ticks \in 1..MaxTime
  BY <1>1, SchedulerAssumption DEF IInv, Sleepers
<1>3. /\ n \in 1..L + 1
      /\ \A k \in DOMAIN sleeping_list :
           /\ k < n => sleeping_list[k].wakeup_time <= ticks
           /\ k >= n => ticks <= sleeping_list[k].wakeup_time
  BY <1>2, PlaceInOrder
<1> HIDE DEF n
<1>4. sleeping_list \in Seq(Entry) /\ e \in Entry
  BY <1>1, <1>2 DEF TypeOK, Entry
<1>5. L \in Nat /\ DOMAIN sleeping_list = 1..L
  BY <1>4, LenProperties
<1>6. /\ new \in Seq(Entry)
      /\ Len(new) = L + 1
      /\ \A i \in 1..L + 1 :
           new[i] = IF i < n THEN sleeping_list[i] ELSE IF i = n THEN e ELSE sleeping_list[i - 1]
  <2> HIDE DEF e
  <2> QED BY <1>3, <1>4, Inserted
<1> HIDE DEF new
<1>7. DOMAIN new = 1..L + 1
  BY <1>6, LenProperties
<1>8. \A k \in 1..L : sleeping_list[k].p # cur
  <2>1. flags[cur] = {}
    BY <1>1, <1>2 DEF IInv, NeverRunsBlocked, Running, All
  <2> QED BY <1>1, <1>2, <1>5, <2>1 DEF SleepersListed
<1>9. new[n] = e
  BY <1>3, <1>6
<1>10. ASSUME NEW k \in 1..L PROVE \E j \in 1..L + 1 : new[j] = sleeping_list[k]
  <2>1. CASE k < n
    BY <1>5, <1>6, <2>1
  <2>2. CASE ~(k < n)
    <3>1. k + 1 \in 1..L + 1 /\ new[k + 1] = sleeping_list[k]
      BY <1>3, <1>5, <1>6, <2>2
    <3> QED BY <3>1
  <2> QED BY <2>1, <2>2
<1> DEFINE old(i) == IF i < n THEN i ELSE i - 1
<1>11. \A i \in 1..L + 1 : i # n => old(i) \in 1..L /\ new[i] = sleeping_list[old(i)]
  BY <1>3, <1>5, <1>6
<1>12. \A j, k \in 1..L + 1 : j < k => new[j].wakeup_time <= new[k].wakeup_time
                                      /\ new[j].p # new[k].p
  <2> SUFFICES ASSUME NEW j \in 1..L + 1, NEW k \in 1..L + 1, j < k
               PROVE  new[j].wakeup_time <= new[k].wakeup_time /\ new[j].p # new[k].p
    OBVIOUS
  <2>1. CASE j # n /\ k # n
    <3>1. old(j) < old(k)
      BY <1>3, <1>5, <2>1
    <3>2. /\ old(j) \in 1..L /\ new[j] = sleeping_list[old(j)]
          /\ old(k) \in 1..L /\ new[k] = sleeping_list[old(k)]
      BY <1>11, <2>1
    <3> HIDE DEF old
    <3> QED BY <1>2, <1>5, <3>1, <3>2 DEF SleepersSorted
  <2>2. CASE j = n
    <3>1. k - 1 \in 1..L /\ k - 1 >= n /\ new[k] = sleeping_list[k - 1]
      BY <1>3, <1>5, <1>6, <2>2
    <3> QED BY <1>3, <1>5, <1>8, <1>9, <2>2, <3>1
  <2>3. CASE k = n
    <3>1. j \in 1..L /\ j < n /\ new[j] = sleeping_list[j]
      BY <1>3, <1>5, <1>6, <2>3
    <3> QED BY <1>3, <1>5, <1>8, <1>9, <2>3, <3>1
  <2> QED BY <2>1, <2>2, <2>3
<1>13. SleepersSorted'
  BY <1>1, <1>7, <1>12 DEF SleepersSorted
<1>14. ASSUME NEW i \in 1..L + 1
       PROVE  new[i].p = cur \/ \E j \in 1..L : sleeping_list[j] = new[i]
  <2>1. CASE i = n
    BY <1>9, <2>1
  <2>2. CASE i # n
    <3> HIDE DEF old
    <3> QED BY <1>11, <2>2
  <2> QED BY <2>1, <2>2
<1> QED BY <1>1, <1>2, <1>3, <1>5, <1>6, <1>7, <1>8, <1>9, <1>10, <1>13, <1>14

LEMMA SleepStep ==
    ASSUME IInv, NEW ticks \in 0..MaxTime, Sleep(ticks)
    PROVE  IInv'
<1>1. /\ cur \in Threads
      /\ sleeping_list' \in Seq(Entry)
      /\ SleepersSorted'
      /\ \E k \in DOMAIN sleeping_list' :
           sleeping_list'[k] = [p |-> cur, wakeup_time |-> ticks]
      /\ \A k \in DOMAIN sleeping_list :
           \E j \in DOMAIN sleeping_list' : sleeping_list'[j] = sleeping_list[k]
      /\ \A k \in DOMAIN sleeping_list' :
           \/ sleeping_list'[k].p = cur
           \/ \E j \in DOMAIN sleeping_list : sleeping_list[j] = sleeping_list'[k]
  BY SleepList
<1>2. /\ Running /\ Blocks("sleep")
      /\ UNCHANGED <<cur, kernel_running, tick_skew, thread_list, priority>>
  BY DEF Sleep
<1>3. \A t \in Threads :
        (\E k \in DOMAIN sleeping_list' : sleeping_list'[k].p = t)
          <=> \/ \E k \in DOMAIN sleeping_list : sleeping_list[k].p = t
              \/ t = cur /\ "sleep" = "sleep"
  <2> TAKE t \in Threads
  <2>1. ASSUME NEW k \in DOMAIN sleeping_list', sleeping_list'[k].p = t, t # cur
        PROVE  \E j \in DOMAIN sleeping_list : sleeping_list[j].p = t
    BY <1>1, <2>1
  <2>2. ASSUME NEW k \in DOMAIN sleeping_list, sleeping_list[k].p = t
        PROVE  \E j \in DOMAIN sleeping_list' : sleeping_list'[j].p = t
    BY <1>1, <2>2
  <2>3. t = cur => \E k \in DOMAIN sleeping_list' : sleeping_list'[k].p = t
    BY <1>1
  <2> QED BY <2>1, <2>2, <2>3
<1>4. "sleep" \in Flags
  BY DEF Flags
<1> QED BY <1>1, <1>2, <1>3, <1>4, BlocksStep

LEMMA WakeupStep ==
    ASSUME IInv, NEW t \in Threads, Wakeup(t)
    PROVE  IInv'
<1>1. /\ flags' = [flags EXCEPT ![t] = @ \ {"wait"}]
      /\ UNCHANGED <<cur, kernel_running, tick_skew, thread_list, priority,
                     sleeping_list, pc, missed>>
  BY DEF Wakeup
<1>2. flags \in [All -> SUBSET Flags] /\ t \in All
  BY DEF IInv, TypeOK, Flags, All
<1>3. /\ flags' \in [All -> SUBSET Flags]
      /\ \A u \in All : /\ flags'[u] \subseteq flags[u]
                       /\ "sleep" \in flags'[u] <=> "sleep" \in flags[u]
  BY <1>1, <1>2
<1>4. TypeOK'
  BY <1>1, <1>3 DEF IInv, TypeOK, Flags
<1>5. Lists' /\ NeverRunsBlocked'
  BY <1>1, <1>3 DEF IInv, Lists, NeverRunsBlocked
<1>6. KernelState'
  BY <1>1, <1>3 DEF IInv, KernelState, CurrentExists, Existing, All
<1>7. Sleepers'
  BY <1>1, <1>3 DEF IInv, Sleepers, SleepersSorted, SleepersListed, SleepersLive, Existing, All
<1> QED BY <1>4, <1>5, <1>6, <1>7 DEF IInv

LEMMA StutterStep == IInv /\ UNCHANGED vars => IInv'
<1> SUFFICES ASSUME IInv, UNCHANGED vars PROVE IInv'
  OBVIOUS
<1>1. UNCHANGED <<cur, kernel_running, tick_skew, thread_list, priority, flags,
                  sleeping_list, pc, missed>>
  BY DEF vars
<1>2. TypeOK' /\ Lists' /\ NeverRunsBlocked'
  BY <1>1 DEF IInv, TypeOK, Lists, NeverRunsBlocked
<1>3. KernelState'
  BY <1>1 DEF IInv, KernelState, CurrentExists, Existing
<1>4. Sleepers'
  BY <1>1, SleepersKept DEF IInv, Existing
<1> QED BY <1>2, <1>3, <1>4 DEF IInv

\* Every step of a thread, of a tick and of a device preserves the invariant.
THEOREM StepIInv == IInv /\ [Next]_vars => IInv'
<1> SUFFICES ASSUME IInv, [Next]_vars PROVE IInv'
  OBVIOUS
<1>1. CASE PauseKernel \/ RestartKernel \/ AfterRestart \/ RemoveDeadThreads
           \/ RemovedDeadThreads \/ Inherited \/ CallYield
  BY <1>1, PauseSteps
<1>2. CASE Wait \/ Exit
  BY <1>2, WaitExitStep
<1>3. CASE Yield
  BY <1>3, YieldStep
<1>4. CASE IRQtickInterrupt
  BY <1>4, TickStep
<1>5. ASSUME NEW ticks \in 0..MaxTime, Sleep(ticks) PROVE IInv'
  BY <1>5, SleepStep
<1>6. ASSUME NEW t \in Threads, Free(t) PROVE IInv'
  BY <1>6, FreeStep
<1>7. ASSUME NEW t \in Threads, Wakeup(t) PROVE IInv'
  BY <1>7, WakeupStep
<1>8. ASSUME NEW t \in Threads, DeviceInterrupt(t) PROVE IInv'
  BY <1>8, DeviceInterruptStep
<1>9. ASSUME NEW t \in Threads, NEW i \in Levels, PKaddThread(t, i) PROVE IInv'
  BY <1>9, AddThreadStep
<1>10. ASSUME NEW t \in Threads,
              Inherit(t) \/ InheritOn(t) \/ \E i \in Levels : ChangePriority(t, i)
       PROVE  IInv'
  BY <1>10, SetPriorityStep
<1>11. CASE UNCHANGED vars
  BY <1>11, StutterStep
<1> QED BY <1>1, <1>2, <1>3, <1>4, <1>5, <1>6, <1>7, <1>8, <1>9, <1>10, <1>11 DEF Next

\* The lists of threads, the sleepers and the state of the kernel fit together at every
\* step.
THEOREM Inductive == Spec => []IInv
  BY InitIInv, StepIInv, PTL DEF Spec

-----------------------------------------------------------------------------
(***************************************************************************)
(* The invariants of the scheduler.                                        *)
(***************************************************************************)
\* Every variable keeps its type; no sleeper's time passes unnoticed.
THEOREM TypeCorrect == Spec => []TypeOK
<1>1. IInv => TypeOK
  BY DEF IInv
<1> QED BY <1>1, Inductive, PTL

\* Insertion, removal and rotation of the circular lists lose and duplicate no
\* thread, for any number of threads and levels.
THEOREM ThreadsListedOnce == Spec => []ListedOnce
<1>1. IInv => ListedOnce
  BY ListedIsLists DEF IInv
<1> QED BY <1>1, Inductive, PTL

\* No thread comes back from its yield while it is blocked.
THEOREM BlockedNeverRun == Spec => []NeverRunsBlocked
<1>1. IInv => NeverRunsBlocked
  BY DEF IInv
<1> QED BY <1>1, Inductive, PTL

\* A tick that found the kernel paused is made good before the thread that paused it
\* goes on.
THEOREM MissedTickIsMadeGood == Spec => []PromptPreemption
<1>1. IInv => PromptPreemption
  BY DEF IInv, KernelState, PromptPreemption
<1> QED BY <1>1, Inductive, PTL

-----------------------------------------------------------------------------
(***************************************************************************)
(* The list of sleepers implements a countdown for each of them.           *)
(***************************************************************************)
\* Left, of any list.
LeftIn(list, t) == IF \E k \in DOMAIN list : list[k].p = t
                   THEN list[CHOOSE k \in DOMAIN list : list[k].p = t].wakeup_time
                   ELSE 0

LEMMA LeftOf ==
    ASSUME NEW list, \A j, k \in DOMAIN list : list[j].p = list[k].p => j = k,
           NEW t, NEW k \in DOMAIN list, list[k].p = t
    PROVE  LeftIn(list, t) = list[k].wakeup_time
<1> DEFINE n == CHOOSE j \in DOMAIN list : list[j].p = t
<1>1. n \in DOMAIN list /\ list[n].p = t
  OBVIOUS
<1>2. n = k
  <2> HIDE DEF n
  <2> QED BY <1>1
<1> QED BY <1>2 DEF LeftIn

LEMMA Distinct ==
    ASSUME TypeOK, SleepersSorted
    PROVE  \A j, k \in DOMAIN sleeping_list : sleeping_list[j].p = sleeping_list[k].p => j = k
<1> SUFFICES ASSUME NEW j \in DOMAIN sleeping_list, NEW k \in DOMAIN sleeping_list, j # k
             PROVE  sleeping_list[j].p # sleeping_list[k].p
  OBVIOUS
<1>1. j \in Int /\ k \in Int
  BY LenProperties DEF TypeOK
<1>2. j < k \/ k < j
  BY <1>1
<1> QED BY <1>2 DEF SleepersSorted

\* A thread is flagged as asleep exactly while it is in the list.
THEOREM SleepersAreListed == Spec => []AsleepIsListed
<1>1. IInv => AsleepIsListed
  <2> SUFFICES ASSUME IInv, NEW t \in Threads
               PROVE  "sleep" \in flags[t] <=> Left(t) > 0
    BY DEF AsleepIsListed
  <2>1. "sleep" \in flags[t] <=> \E k \in DOMAIN sleeping_list : sleeping_list[k].p = t
    BY DEF IInv, Sleepers, SleepersListed
  <2>2. ASSUME NEW k \in DOMAIN sleeping_list, sleeping_list[k].p = t
        PROVE  Left(t) > 0
    <3>1. \A i, j \in DOMAIN sleeping_list : sleeping_list[i].p = sleeping_list[j].p => i = j
      BY Distinct DEF IInv, Sleepers
    <3>2. LeftIn(sleeping_list, t) = sleeping_list[k].wakeup_time
      BY <2>2, <3>1, LeftOf
    <3>3. Left(t) = sleeping_list[k].wakeup_time
      BY <3>2 DEF Left, LeftIn
    <3>4. sleeping_list \in Seq([p : Threads, wakeup_time : 1..MaxTime])
      BY DEF IInv, TypeOK
    <3>5. sleeping_list[k] \in [p : Threads, wakeup_time : 1..MaxTime]
      BY <3>4, LenProperties, ElementOfSeq
    <3> QED BY <3>3, <3>5, SchedulerAssumption
  <2>3. (~\E k \in DOMAIN sleeping_list : sleeping_list[k].p = t) => Left(t) = 0
    BY DEF Left
  <2> QED BY <2>1, <2>2, <2>3
<1> QED BY <1>1, Inductive, PTL

\* Every step of the kernel is one of the countdowns, or leaves them alone.
LEMMA StepCounts == IInv /\ IInv' /\ [Next]_vars => [Timers!Next]_Countdowns
<1> SUFFICES ASSUME IInv, IInv', [Next]_vars PROVE [Timers!Next]_Countdowns
  OBVIOUS
<1> DEFINE list == sleeping_list
           next == sleeping_list'
<1>1. /\ \A j, k \in DOMAIN list : list[j].p = list[k].p => j = k
      /\ \A j, k \in DOMAIN next : next[j].p = next[k].p => j = k
  <2>1. /\ TypeOK /\ SleepersSorted /\ TypeOK' /\ SleepersSorted'
    BY DEF IInv, Sleepers
  <2>2. \A j, k \in DOMAIN list : list[j].p = list[k].p => j = k
    BY <2>1, Distinct
  <2>3. \A j \in DOMAIN next : j \in Int
    BY <2>1, LenProperties DEF TypeOK
  <2>4. ASSUME NEW j \in DOMAIN next, NEW k \in DOMAIN next, j # k
        PROVE  next[j].p # next[k].p
    <3>1. j < k \/ k < j
      BY <2>3, <2>4
    <3> QED BY <2>1, <3>1 DEF SleepersSorted
  <2> QED BY <2>2, <2>4
<1>2. /\ Countdowns = [t \in Threads |-> LeftIn(list, t)]
      /\ Countdowns' = [t \in Threads |-> LeftIn(next, t)]
  BY DEF Countdowns, Left, LeftIn
<1> HIDE DEF list, next
<1>3. CASE UNCHANGED sleeping_list
  BY <1>2, <1>3 DEF list, next
<1>4. CASE IRQtickInterrupt
  <2> DEFINE L == Len(list)
             n == DueNow
  <2>1. /\ L \in Nat /\ DOMAIN list = 1..L
        /\ n \in 0..L
        /\ \A k \in 1..n : list[k].wakeup_time = 1
        /\ \A k \in n + 1..L : list[k].wakeup_time > 1
        /\ DOMAIN next = 1..L - n
        /\ \A i \in 1..L - n : /\ next[i].p = list[n + i].p
                               /\ next[i].wakeup_time = list[n + i].wakeup_time - 1
    <3>1. sleeping_list' = SubSeq(Closer, DueNow + 1, Len(Closer))
      BY <1>4 DEF IRQtickInterrupt
    <3>2. TypeOK /\ SleepersSorted
      BY DEF IInv, Sleepers
    <3> QED BY <3>1, <3>2, TickSleepers DEF list, next
  <2> HIDE DEF n, L
  <2>2. ASSUME NEW t \in Threads
        PROVE  LeftIn(next, t) = IF LeftIn(list, t) = 0 THEN 0 ELSE LeftIn(list, t) - 1
    <3>1. CASE ~\E k \in DOMAIN list : list[k].p = t
      <4>1. LeftIn(list, t) = 0
        BY <3>1 DEF LeftIn
      <4>2. ASSUME NEW i \in DOMAIN next, next[i].p = t PROVE FALSE
        <5>1. n + i \in DOMAIN list /\ list[n + i].p = t
          BY <2>1, <4>2
        <5> QED BY <3>1, <5>1
      <4> QED BY <4>1, <4>2 DEF LeftIn
    <3>2. ASSUME NEW k \in DOMAIN list, list[k].p = t
          PROVE  LeftIn(next, t) = LeftIn(list, t) - 1 /\ LeftIn(list, t) # 0
      <4>1. LeftIn(list, t) = list[k].wakeup_time
        BY <1>1, <3>2, LeftOf
      <4>2. CASE k \in 1..n
        <5>1. ASSUME NEW i \in DOMAIN next, next[i].p = t PROVE FALSE
          <6>1. n + i \in DOMAIN list /\ list[n + i].p = t /\ n + i # k
            BY <2>1, <4>2, <5>1
          <6> QED BY <1>1, <3>2, <6>1
        <5>2. LeftIn(next, t) = 0
          BY <5>1 DEF LeftIn
        <5> QED BY <2>1, <4>1, <4>2, <5>2
      <4>3. CASE k \in n + 1..L
        <5>1. k - n \in 1..L - n /\ n + (k - n) = k
          BY <2>1, <4>3
        <5>2. /\ k - n \in DOMAIN next /\ next[k - n].p = t
              /\ next[k - n].wakeup_time = list[k].wakeup_time - 1
          BY <2>1, <3>2, <5>1
        <5>3. LeftIn(next, t) = next[k - n].wakeup_time
          BY <1>1, <5>2, LeftOf
        <5>4. list[k].wakeup_time > 1
          BY <2>1, <4>3
        <5>5. list[k].wakeup_time # 0
          BY <5>4
        <5> QED BY <4>1, <5>2, <5>3, <5>5
      <4> QED BY <2>1, <4>2, <4>3
    <3> QED BY <3>1, <3>2
  <2>3. Countdowns' = [t \in Threads |->
                         IF Countdowns[t] = 0 THEN 0 ELSE Countdowns[t] - 1]
    BY <1>2, <2>2
  <2> QED BY <2>3 DEF Timers!Next, Timers!Tick
<1>5. ASSUME NEW ticks \in 0..MaxTime, Sleep(ticks)
      PROVE  Timers!Next
  <2>1. /\ ticks \in 1..MaxTime /\ cur \in Threads
        /\ \A k \in DOMAIN list : list[k].p # cur
        /\ \E k \in DOMAIN next : next[k] = [p |-> cur, wakeup_time |-> ticks]
        /\ \A k \in DOMAIN list : \E j \in DOMAIN next : next[j] = list[k]
        /\ \A k \in DOMAIN next : \/ next[k].p = cur
                                  \/ \E j \in DOMAIN list : list[j] = next[k]
    BY <1>5, SleepList DEF list, next
  <2>2. LeftIn(list, cur) = 0
    BY <2>1 DEF LeftIn
  <2>3. LeftIn(next, cur) = ticks
    <3>1. PICK k \in DOMAIN next : next[k] = [p |-> cur, wakeup_time |-> ticks]
      BY <2>1
    <3>2. next[k].p = cur /\ next[k].wakeup_time = ticks
      BY <3>1
    <3> QED BY <1>1, <3>2, LeftOf
  <2>4. ASSUME NEW t \in Threads \ {cur} PROVE LeftIn(next, t) = LeftIn(list, t)
    <3>1. CASE ~\E k \in DOMAIN list : list[k].p = t
      <4>1. ~\E k \in DOMAIN next : next[k].p = t
        BY <2>1, <3>1
      <4> QED BY <3>1, <4>1 DEF LeftIn
    <3>2. ASSUME NEW k \in DOMAIN list, list[k].p = t
          PROVE  LeftIn(next, t) = LeftIn(list, t)
      <4>1. PICK j \in DOMAIN next : next[j] = list[k]
        BY <2>1
      <4>2. LeftIn(list, t) = list[k].wakeup_time
        BY <1>1, <3>2, LeftOf
      <4>3. LeftIn(next, t) = next[j].wakeup_time
        BY <1>1, <3>2, <4>1, LeftOf
      <4> QED BY <4>1, <4>2, <4>3
    <3> QED BY <3>1, <3>2
  <2>5. Countdowns' = [Countdowns EXCEPT ![cur] = ticks] /\ Countdowns[cur] = 0
    BY <1>2, <2>1, <2>2, <2>3, <2>4
  <2> QED BY <2>1, <2>5 DEF Timers!Next, Timers!Set
<1>6. UNCHANGED sleeping_list \/ IRQtickInterrupt \/ \E ticks \in 0..MaxTime : Sleep(ticks)
  BY DEF Next, vars, PauseKernel, RestartKernel, AfterRestart, RemoveDeadThreads,
         RemovedDeadThreads, Inherited, Wait, Exit, CallYield, Yield, Free, Wakeup,
         DeviceInterrupt, PKaddThread, ChangePriority, Inherit, InheritOn, PKsetPriority
<1> QED BY <1>3, <1>4, <1>5, <1>6

\* The sorted list, the insertion that keeps it sorted and the test for equality of
\* the tick interrupt wake every sleeper as a countdown of its own would.
THEOREM SleepersAreCountdowns == Spec => SleepsItsTime
<1>1. Init => Timers!Init
  <2> SUFFICES ASSUME Init PROVE Countdowns = [t \in Threads |-> 0]
    BY DEF Timers!Init
  <2>1. sleeping_list = <<>>
    BY DEF Init
  <2> QED BY <2>1 DEF Countdowns, Left
<1>2. IInv /\ [Next]_vars => [Timers!Next]_Countdowns
  BY StepIInv, StepCounts
<1> QED BY <1>1, <1>2, Inductive, PTL DEF Spec, SleepsItsTime, Timers!Spec

-----------------------------------------------------------------------------
(***************************************************************************)
(* Whose turn it is.                                                       *)
(***************************************************************************)
\* A ready thread that is not the first of its list keeps its place until a thread of its
\* level is chosen, and is then the one chosen or comes nearer to the front.
Nearer ==
    \A i \in Levels : \A j \in DOMAIN thread_list[i] :
      j > 1 /\ Ready(flags'[thread_list[i][j]]) =>
        \/ thread_list'[i] = thread_list[i] /\ (cur' = cur \/ priority[cur'] # i)
        \/ cur' = thread_list[i][j]
        \/ \E k \in 2..(j - 1) : thread_list'[i][k] = thread_list[i][j]

\* Outside the walk of priority inheritance, which may also move a thread within its
\* level, so does every step that changes no priority; and it starts no walk.
KeepsTurn ==
    priority' = priority /\ pc[cur] # "walking" => Nearer /\ pc'[cur'] # "walking"

\* The thread the processor goes to is ready, with no ready thread above it; it is the
\* idle thread only if none is ready.
RunsHighest ==
    cur' # cur => /\ Above(flags', cur') = {}
                  /\ cur' = Idle \/ cur' \in AllReady(flags')

\* Behind the first of a list, the search finds the ready threads in their order.
LEMMA ChosenIsNext ==
    ASSUME NEW list \in Seq(Threads), NEW F, NEW j \in 2..Len(list), Ready(F[list[j]])
    PROVE  Chosen(list, F) \in 2..j
<1> DEFINE others == {k \in 2..Len(list) : Ready(F[list[k]])}
<1>1. others \in SUBSET Nat /\ j \in others /\ j \in Nat /\ \A k \in others : k >= 2
  BY LenProperties
<1>2. Chosen(list, F) = CHOOSE k \in others : \A n \in others : k <= n
  BY <1>1 DEF Chosen
<1> HIDE DEF others
<1>3. \E k \in others : \A n \in others : k <= n
  BY <1>1, LeastExists
<1>4. Chosen(list, F) \in others /\ \A n \in others : Chosen(list, F) <= n
  BY <1>2, <1>3
<1>5. Chosen(list, F) \in Nat /\ Chosen(list, F) >= 2 /\ Chosen(list, F) <= j
  BY <1>1, <1>4
<1>6. j \in Nat
  BY <1>1
<1> QED BY <1>5, <1>6

\* Rotation to k brings every thread behind k nearer to the front.
LEMMA RotatedPlace ==
    ASSUME NEW list \in Seq(Threads), NEW k \in 2..Len(list), NEW j \in (k + 1)..Len(list)
    PROVE  /\ j - k + 1 \in 2..(j - 1)
           /\ RotatedTo(list, k)[j - k + 1] = list[j]
<1> DEFINE a == SubSeq(list, k, Len(list))
           b == SubSeq(list, 1, k - 1)
<1>1. Len(list) \in Nat /\ k \in Nat /\ j \in Nat
  BY LenProperties
<1>2. /\ a \in Seq(Threads) /\ Len(a) = Len(list) - k + 1
      /\ \A n \in 1..(Len(list) - k + 1) : a[n] = list[k + n - 1]
  BY <1>1, SubSeqProperties
<1>3. b \in Seq(Threads) /\ Len(b) = k - 1
  BY <1>1, SubSeqProperties
<1> HIDE DEF a, b
<1>4. \A n \in 1..(Len(a) + Len(b)) : (a \o b)[n] = IF n <= Len(a) THEN a[n] ELSE b[n - Len(a)]
  BY <1>2, <1>3, ConcatProperties, Zenon
<1>5. /\ j - k + 1 \in 1..(Len(list) - k + 1) /\ j - k + 1 \in 1..(Len(a) + Len(b))
      /\ j - k + 1 <= Len(a) /\ k + (j - k + 1) - 1 = j
  BY <1>1, <1>2, <1>3
<1>6. (a \o b)[j - k + 1] = a[j - k + 1]
  BY <1>4, <1>5
<1>7. a[j - k + 1] = list[j]
  BY <1>2, <1>5
<1>8. j - k + 1 \in 2..(j - 1)
  BY <1>1
<1> QED BY <1>6, <1>7, <1>8 DEF RotatedTo, a, b

LEMMA FindNextTurns ==
    ASSUME TypeOK, Lists, CurrentExists, NEW F \in [All -> SUBSET Flags], F[Idle] = {},
           NEW P \in [All -> PCs], IRQfindNextThread(F, P), flags' = F
    PROVE  Nearer /\ RunsHighest
<1> USE SchedulerAssumption
<1>1. Chose(F, P)
  BY FindNext
<1>2. CASE kernel_running # 0
  <2>1. cur' = cur /\ thread_list' = thread_list
    BY <1>2 DEF IRQfindNextThread
  <2> QED BY <2>1 DEF Nearer, RunsHighest
<1>3. CASE kernel_running = 0
  <2>1. Above(F, cur') = {}
    BY <1>1, <1>3 DEF Chose, IRQfindNextThread
  <2>2. CASE Runnable(F) = {} /\ cur' = Idle /\ thread_list' = thread_list
    <3>1. \A i \in Levels : \A j \in DOMAIN thread_list[i] : ~Ready(F[thread_list[i][j]])
      BY <2>2 DEF Runnable
    <3> QED BY <2>1, <2>2, <3>1 DEF Nearer, RunsHighest
  <2>3. ASSUME NEW i \in Runnable(F),
               cur' = thread_list[i][Chosen(thread_list[i], F)],
               thread_list' = [thread_list EXCEPT
                                 ![i] = RotatedTo(@, Chosen(thread_list[i], F))]
        PROVE  Nearer /\ RunsHighest
    <3> DEFINE list == thread_list[i]
               k == Chosen(list, F)
    <3>1. i \in Levels /\ list \in Seq(Threads) /\ \E n \in DOMAIN list : Ready(F[list[n]])
      BY DEF Runnable, TypeOK
    <3>2. k \in DOMAIN list /\ Ready(F[list[k]])
      BY <3>1, ChosenIsReady
    <3>3. cur' = list[k] /\ thread_list'[i] = RotatedTo(list, k)
          /\ \A n \in Levels : n # i => thread_list'[n] = thread_list[n]
      BY <2>3, <3>1 DEF TypeOK
    <3>4. cur' \in Threads /\ priority[cur'] = i
      BY <3>1, <3>2, <3>3 DEF Lists, Holds
    <3>5. RunsHighest
      <4>1. cur' \in AllReady(F)
        BY <3>1, <3>2, <3>3, <3>4 DEF AllReady, Existing
      <4> QED BY <2>1, <4>1 DEF RunsHighest
    <3>6. ASSUME NEW j \in DOMAIN list, j > 1, Ready(F[list[j]])
          PROVE  cur' = list[j] \/ \E n \in 2..(j - 1) : thread_list'[i][n] = list[j]
      <4>1. j \in 2..Len(list) /\ Len(list) \in Nat
        BY <3>1, <3>6, LenProperties
      <4>2. k \in 2..j
        BY <3>1, <3>6, <4>1, ChosenIsNext
      <4> HIDE DEF k
      <4>3. CASE k = j
        BY <3>3, <4>3
      <4>4. CASE k # j
        <5>1. k \in 2..Len(list) /\ j \in (k + 1)..Len(list)
          BY <4>1, <4>2, <4>4
        <5>2. j - k + 1 \in 2..(j - 1) /\ RotatedTo(list, k)[j - k + 1] = list[j]
          BY <3>1, <5>1, RotatedPlace
        <5> QED BY <3>3, <5>2
      <4> QED BY <4>3, <4>4
    <3>7. Nearer
      BY <3>3, <3>4, <3>6 DEF Nearer
    <3> QED BY <3>5, <3>7
  <2> QED BY <1>3, <2>2, <2>3 DEF IRQfindNextThread
<1> QED BY <1>2, <1>3

LEMMA StepTurns ==
    ASSUME IInv, [Next]_vars
    PROVE  /\ priority' = priority /\ pc[cur] # "walking" => Nearer
           /\ RunsHighest
<1> USE DEF IInv
<1>1. /\ flags \in [All -> SUBSET Flags] /\ pc \in [All -> PCs] /\ cur \in All
      /\ flags[Idle] = {} /\ CurrentExists
  BY DEF TypeOK, KernelState, Flags, PCs
<1>2. CASE Yield
  <2>1. IRQfindNextThread(flags, [pc EXCEPT ![cur] = "switched"]) /\ flags' = flags
    BY <1>2 DEF Yield
  <2>2. [pc EXCEPT ![cur] = "switched"] \in [All -> PCs]
    BY <1>1 DEF PCs
  <2> QED BY <1>1, <2>1, <2>2, FindNextTurns
<1>3. CASE IRQtickInterrupt
  <2>1. CASE kernel_running # 0
    <3>1. UNCHANGED <<cur, thread_list>>
      BY <1>3, <2>1 DEF IRQtickInterrupt
    <3> QED BY <3>1 DEF Nearer, RunsHighest
  <2>2. CASE kernel_running = 0
    <3>1. IRQfindNextThread(WokenFlags, pc) /\ flags' = WokenFlags
      BY <1>3, <2>2 DEF IRQtickInterrupt
    <3>2. WokenFlags \in [All -> SUBSET Flags] /\ WokenFlags[Idle] = {}
      BY <1>1 DEF WokenFlags, All
    <3> QED BY <1>1, <3>1, <3>2, FindNextTurns
  <2> QED BY <2>1, <2>2
<1>4. ASSUME NEW t \in Threads, DeviceInterrupt(t)
      PROVE  Nearer /\ RunsHighest
  <2> DEFINE F == [flags EXCEPT ![t] = @ \ {"wait"}]
  <2>1. CASE priority[t] > priority[cur]
    <3>1. IRQfindNextThread(F, pc) /\ flags' = F
      BY <1>4, <2>1 DEF DeviceInterrupt
    <3>2. t \in All /\ Idle \in All /\ \A f \in SUBSET Flags : f \ {"wait"} \in SUBSET Flags
      BY DEF All
    <3>3. F \in [All -> SUBSET Flags]
      BY <1>1, <3>2
    <3>4. F[Idle] = {}
      BY <1>1, <3>2
    <3> HIDE DEF F
    <3> QED BY <1>1, <3>1, <3>3, <3>4, FindNextTurns
  <2>2. CASE ~(priority[t] > priority[cur])
    <3>1. UNCHANGED <<cur, thread_list>>
      BY <1>4, <2>2 DEF DeviceInterrupt
    <3> QED BY <3>1 DEF Nearer, RunsHighest
  <2> QED BY <2>1, <2>2
<1>5. ASSUME NEW t \in Threads, NEW i \in Levels, PKaddThread(t, i)
      PROVE  priority' # priority /\ RunsHighest
  <2>1. cur' = cur /\ t \notin Existing /\ priority' = [priority EXCEPT ![t] = i]
    BY <1>5 DEF PKaddThread
  <2>2. priority' # priority
    BY <2>1 DEF Existing, TypeOK, All
  <2> QED BY <2>1, <2>2 DEF RunsHighest
<1>6. ASSUME NEW t \in Threads, Inherit(t) \/ \E i \in Levels : ChangePriority(t, i)
      PROVE  priority' # priority /\ RunsHighest
  <2>1. PICK i \in Int : PKsetPriority(t, i) /\ priority[t] # i
    <3>1. CASE Inherit(t)
      <4>1. priority[cur] \in Levels /\ priority[t] \in Levels
        BY <3>1 DEF Inherit, PKsetPriority, CurrentExists, KernelState, Existing
      <4> QED BY <3>1, <4>1 DEF Inherit, Levels
    <3>2. CASE \E i \in Levels : ChangePriority(t, i)
      BY <3>2 DEF ChangePriority, Levels
    <3> QED BY <1>6, <3>1, <3>2
  <2>2. cur' = cur /\ priority' = [priority EXCEPT ![t] = i] /\ t \in All
    BY <2>1 DEF PKsetPriority, All
  <2>3. priority' # priority
    BY <2>1, <2>2 DEF TypeOK
  <2> QED BY <2>2, <2>3 DEF RunsHighest
<1>7. ASSUME NEW t \in Threads, Free(t)
      PROVE  priority' # priority /\ RunsHighest
  <2>1. cur' = cur /\ t \in Existing /\ priority' = [priority EXCEPT ![t] = NoThread]
    BY <1>7 DEF Free, Dead
  <2>2. priority' # priority
    BY <2>1, SchedulerAssumption DEF Existing, TypeOK, All, NoThread, Levels
  <2> QED BY <2>1, <2>2 DEF RunsHighest
<1>8. CASE UNCHANGED <<cur, thread_list>>
  BY <1>8 DEF Nearer, RunsHighest
<1>9. ASSUME NEW t \in Threads, InheritOn(t)
      PROVE  pc[cur] = "walking" /\ RunsHighest
  BY <1>9 DEF InheritOn, PKsetPriority, RunsHighest
<1>10. \/ UNCHANGED <<cur, thread_list>> \/ Yield \/ IRQtickInterrupt
       \/ \E t \in Threads :
            \/ DeviceInterrupt(t) \/ Free(t) \/ Inherit(t) \/ InheritOn(t)
            \/ \E i \in Levels : PKaddThread(t, i) \/ ChangePriority(t, i)
  BY DEF Next, vars, PauseKernel, RestartKernel, AfterRestart, RemoveDeadThreads,
         RemovedDeadThreads, Inherited, Wait, Exit, CallYield, Sleep, Wakeup
<1> QED BY <1>2, <1>3, <1>4, <1>5, <1>6, <1>7, <1>8, <1>9, <1>10

\* Only Inherit, which changes a priority, starts a walk.
LEMMA NoWalkStarts ==
    ASSUME IInv, [Next]_vars, priority' = priority, pc[cur] # "walking"
    PROVE  pc'[cur'] # "walking"
<1> USE DEF IInv
<1>1. /\ pc \in [All -> PCs] /\ cur \in All /\ cur' \in All
      /\ \A t \in All : pc[t] # "walking"
  BY StepIInv DEF TypeOK, KernelState, PCs
<1>2. ASSUME NEW F \in [All -> SUBSET Flags], F[Idle] = {}, NEW P \in [All -> PCs],
             IRQfindNextThread(F, P), \A t \in All : P[t] # "walking"
      PROVE  pc'[cur'] # "walking"
  <2>1. Chose(F, P)
    BY <1>2, FindNext DEF KernelState
  <2> QED BY <1>1, <1>2, <2>1 DEF Chose
<1>3. flags \in [All -> SUBSET Flags] /\ flags[Idle] = {} /\ Idle \in All
  BY DEF TypeOK, Flags, KernelState, All
<1>4. CASE Yield
  <2> DEFINE P == [pc EXCEPT ![cur] = "switched"]
  <2>1. P \in [All -> PCs] /\ \A t \in All : P[t] # "walking"
    BY <1>1 DEF PCs
  <2>2. IRQfindNextThread(flags, P)
    BY <1>4 DEF Yield
  <2> HIDE DEF P
  <2> QED BY <1>2, <1>3, <2>1, <2>2
<1>5. CASE IRQtickInterrupt
  <2>1. WokenFlags \in [All -> SUBSET Flags] /\ WokenFlags[Idle] = {}
    BY <1>3 DEF WokenFlags, All
  <2>2. IRQfindNextThread(WokenFlags, pc) \/ pc' = pc
    BY <1>5 DEF IRQtickInterrupt
  <2> QED BY <1>1, <1>2, <2>1, <2>2
<1>6. ASSUME NEW t \in Threads, DeviceInterrupt(t)
      PROVE  pc'[cur'] # "walking"
  <2>1. \A f \in SUBSET Flags : f \ {"wait"} \in SUBSET Flags
    OBVIOUS
  <2>2. flags' \in [All -> SUBSET Flags] /\ flags'[Idle] = {}
    BY <1>3, <1>6, <2>1 DEF DeviceInterrupt, All
  <2>3. IRQfindNextThread(flags', pc) \/ pc' = pc
    BY <1>6 DEF DeviceInterrupt
  <2> QED BY <1>1, <1>2, <2>2, <2>3
<1>7. ASSUME NEW t \in Threads, Inherit(t)
      PROVE  FALSE
  <2>1. priority' = [priority EXCEPT ![t] = priority[cur]] /\ t \in All
    BY <1>7 DEF Inherit, PKsetPriority, All
  <2>2. priority[cur] \in Levels /\ priority[t] \in Levels /\ priority[t] < priority[cur]
    BY <1>7 DEF Inherit, PKsetPriority, CurrentExists, KernelState, Existing
  <2>3. priority'[t] = priority[cur]
    BY <2>1 DEF TypeOK
  <2> QED BY <2>2, <2>3 DEF Levels
<1>8. ASSUME NEW t \in Threads,
             Free(t) \/ Wakeup(t) \/ InheritOn(t)
               \/ \E i \in Levels : PKaddThread(t, i) \/ ChangePriority(t, i)
      PROVE  pc'[cur'] # "walking"
  BY <1>1, <1>8 DEF Free, Wakeup, InheritOn, PKaddThread, ChangePriority, PKsetPriority
<1>9. CASE PauseKernel \/ RestartKernel \/ AfterRestart \/ RemoveDeadThreads
           \/ RemovedDeadThreads \/ Inherited \/ CallYield \/ UNCHANGED vars
  BY <1>1, <1>9 DEF PauseKernel, RestartKernel, AfterRestart, RemoveDeadThreads,
                    RemovedDeadThreads, Inherited, CallYield, Yields, vars
<1>10. CASE Wait \/ Exit \/ \E ticks \in 0..MaxTime : Sleep(ticks)
  BY <1>1, <1>10 DEF Wait, Exit, Sleep, Blocks
<1> QED BY <1>4, <1>5, <1>6, <1>7, <1>8, <1>9, <1>10 DEF Next

\* While priorities do not change, and once a walk that was under way has ended, the
\* place of a ready thread behind the first of its list falls with every choice of its
\* level, until it is chosen: what is left of TakesTurns is that its level is chosen
\* again and again.
THEOREM TurnComesNearer == Spec => [][KeepsTurn]_vars
<1>1. IInv /\ [Next]_vars => KeepsTurn
  BY StepTurns, NoWalkStarts DEF KeepsTurn
<1>2. IInv /\ [Next]_vars => [KeepsTurn]_vars
  BY <1>1
<1> QED BY <1>2, Inductive, PTL DEF Spec

\* Whatever calls or interrupts lead to the choice, the processor goes to a ready thread
\* of the highest priority, and to the idle thread only if none is ready.
THEOREM HighestRuns == Spec => [][RunsHighest]_vars
<1>1. IInv /\ [Next]_vars => [RunsHighest]_vars
  BY StepTurns
<1> QED BY <1>1, Inductive, PTL DEF Spec

=============================================================================
