----------------------- MODULE ThreadLifecycle_proofs -----------------------
(***************************************************************************)
(* Join, detach and the memory of threads, for any number of threads.      *)
(* That no memory is forgotten holds whatever the clients do; that no join *)
(* sleeps for ever and that it delivers the right result are proved for    *)
(* clients that join or detach each thread once, and for any clients as    *)
(* long as no address is allocated again while a join is still to return.  *)
(***************************************************************************)
EXTENDS ThreadLifecycle, TLAPS

Waits     == \A t \in Addresses : joinWait[t] => pc[t] = "joining"
Living    == \A t \in Addresses : pc[t] # "none" => occupant[t] # Free /\ ~deleted[t]
Targeted  == \A t \in Addresses :
                 pc[t] = "joining" => target[t] \in [addr : Addresses, id : 0..MaxCreated]
Results   == \A a \in Addresses :
                 occupant[a] # Free /\ deleted[a] /\ ~detached[a] => joinData[a] = occupant[a]

\* What holds whatever the clients do.
Base == TypeOK /\ Waits /\ Living /\ Targeted /\ Results /\ NoLeak

LEMMA InitBase == Init => Base
<1> SUFFICES ASSUME Init
             PROVE  Base
  OBVIOUS
<1> USE LifecycleAssumption DEF Init, Free, NoTarget
<1>1. TypeOK
  <2>1. ret \in [id : 0..MaxCreated \cup {Free}, result : 0..MaxCreated \cup {Free}]
    OBVIOUS
  <2>2. target \in [Addresses -> Targets]
    BY DEF Targets
  <2>3. occupant \in [Addresses -> 0..MaxCreated \cup {Free}] /\ created \in 0..MaxCreated
    OBVIOUS
  <2>4. /\ pc \in [Addresses -> {"none", "run", "joining", "remove"}]
        /\ claimed \in [Addresses -> SUBSET {"join", "detach"}]
        /\ joinData \in [Addresses -> Addresses \cup {NoThread} \cup 0..MaxCreated]
    OBVIOUS
  <2>5. {deleted, detached, joinWait} \subseteq [Addresses -> BOOLEAN] /\ existDeleted \in BOOLEAN
    OBVIOUS
  <2> QED BY <2>1, <2>2, <2>3, <2>4, <2>5 DEF TypeOK
<1>2. Waits /\ Living /\ Targeted /\ Results
  BY DEF Waits, Living, Targeted, Results
<1>3. NoLeak
  BY DEF NoLeak, Dead
<1> QED BY <1>1, <1>2, <1>3 DEF Base

-----------------------------------------------------------------------------
\* One lemma for each kind of step.

LEMMA CreateBase ==
    ASSUME Base, NEW t \in Addresses, NEW a \in Addresses, NEW joinable \in BOOLEAN,
           Create(t, a, joinable)
    PROVE  Base'
<1> USE LifecycleAssumption DEF Base, Free
<1>1. pc[a] = "none"
  BY DEF Create, Living
<1>2. /\ occupant' = [occupant EXCEPT ![a] = created + 1]
      /\ created' = created + 1 /\ created < MaxCreated
      /\ claimed' = [claimed EXCEPT ![a] = {}]
      /\ deleted' = [deleted EXCEPT ![a] = FALSE]
      /\ detached' = [detached EXCEPT ![a] = ~joinable]
      /\ joinWait' = [joinWait EXCEPT ![a] = FALSE]
      /\ joinData' = [joinData EXCEPT ![a] = NoThread]
      /\ pc' = [pc EXCEPT ![a] = "run"]
      /\ target' = [target EXCEPT ![a] = NoTarget]
      /\ existDeleted' = existDeleted /\ ret' = ret
  BY DEF Create
<1>3. TypeOK'
  BY <1>2 DEF TypeOK, Targets
<1>4. Waits' /\ Living' /\ Targeted' /\ Results'
  BY <1>2 DEF TypeOK, Waits, Living, Targeted, Results
<1>5. Dead' \subseteq Dead
  BY <1>2 DEF TypeOK, Dead
<1>6. NoLeak'
  BY <1>1, <1>2, <1>5 DEF TypeOK, NoLeak
<1> QED BY <1>3, <1>4, <1>6

LEMMA ExitBase ==
    ASSUME Base, NEW t \in Addresses, Exit(t)
    PROVE  Base'
<1> USE LifecycleAssumption DEF Base, Free
<1>1. /\ pc[t] = "run" /\ occupant[t] # Free
      /\ deleted' = [deleted EXCEPT ![t] = TRUE]
      /\ pc' = [pc EXCEPT ![t] = "none"]
      /\ UNCHANGED <<occupant, created, claimed, detached, target, ret>>
  BY DEF Exit, memory, Living
<1>2. /\ \A u \in Addresses : joinWait'[u] => joinWait[u]
      /\ joinWait' \in [Addresses -> BOOLEAN]
  BY DEF Exit, JoinerWoken, TypeOK
<1>3. /\ joinData' \in [Addresses -> Addresses \cup {NoThread} \cup 0..MaxCreated]
      /\ ~detached[t] => joinData'[t] = occupant[t]
      /\ \A b \in Addresses : b # t => joinData'[b] = joinData[b]
  BY <1>1 DEF Exit, TypeOK
<1>4. /\ existDeleted' \in BOOLEAN
      /\ existDeleted => existDeleted'
      /\ detached[t] => existDeleted'
  <2>1. (~detached[t] /\ existDeleted' = existDeleted) \/ (detached[t] /\ existDeleted' = TRUE)
    BY Zenon DEF Exit
  <2>2. existDeleted \in BOOLEAN
    BY DEF TypeOK
  <2>3. CASE existDeleted' = existDeleted /\ ~detached[t]
    BY <2>2, <2>3
  <2>4. CASE existDeleted' = TRUE
    BY <2>4
  <2> QED BY <2>1, <2>3, <2>4
<1>5. TypeOK'
  <2>1. {deleted', detached', joinWait'} \subseteq [Addresses -> BOOLEAN]
    <3>1. deleted' \in [Addresses -> BOOLEAN]
      BY <1>1 DEF TypeOK
    <3>2. detached' \in [Addresses -> BOOLEAN]
      BY <1>1 DEF TypeOK
    <3> QED BY <1>2, <3>1, <3>2
  <2>2. pc' \in [Addresses -> {"none", "run", "joining", "remove"}]
    BY <1>1 DEF TypeOK
  <2> QED BY <1>1, <1>3, <1>4, <2>1, <2>2 DEF TypeOK
<1>6. Waits' /\ Living' /\ Targeted' /\ Results'
  <2>1. Waits'
    <3>1. ~joinWait[t]
      BY <1>1 DEF Waits
    <3> QED BY <1>1, <1>2, <3>1 DEF TypeOK, Waits
  <2>2. Living' /\ Targeted'
    BY <1>1 DEF TypeOK, Living, Targeted
  <2>3. Results'
    <3> SUFFICES ASSUME NEW b \in Addresses, occupant[b] # Free, deleted'[b], ~detached[b]
                 PROVE  joinData'[b] = occupant[b]
      BY <1>1 DEF Results
    <3>1. CASE b = t
      BY <1>3, <3>1
    <3>2. CASE b # t
      <4>1. deleted[b]
        BY <1>1, <3>2 DEF TypeOK
      <4> QED BY <1>3, <3>2, <4>1 DEF Results
    <3> QED BY <3>1, <3>2
  <2> QED BY <2>1, <2>2, <2>3
<1>7. Dead' \subseteq Dead \cup {t} /\ (~detached[t] => t \notin Dead')
  BY <1>1 DEF TypeOK, Dead
<1>8. NoLeak'
  BY <1>1, <1>4, <1>7 DEF TypeOK, NoLeak
<1> QED BY <1>5, <1>6, <1>8

LEMMA DetachBase ==
    ASSUME Base, NEW t \in Addresses, NEW a \in Addresses, Detach(t, a)
    PROVE  Base'
<1> USE LifecycleAssumption DEF Base, Free
<1>1. /\ claimed' = [claimed EXCEPT ![a] = IF Calls = "any" THEN {} ELSE @ \cup {"detach"}]
      /\ detached' = [detached EXCEPT ![a] = TRUE]
      /\ UNCHANGED <<occupant, created, deleted, joinData, pc, target, ret>>
  BY DEF Detach, Claim
<1>2. /\ \A u \in Addresses : joinWait'[u] => joinWait[u]
      /\ joinWait' \in [Addresses -> BOOLEAN]
  BY DEF Detach, JoinerWoken, TypeOK
<1>3. /\ existDeleted' \in BOOLEAN
      /\ existDeleted => existDeleted'
      /\ deleted[a] => existDeleted'
  BY DEF Detach, DetachTells, TypeOK
<1>4. TypeOK'
  <2>1. claimed' \in [Addresses -> SUBSET {"join", "detach"}]
    BY <1>1 DEF TypeOK
  <2>2. detached' \in [Addresses -> BOOLEAN]
    BY <1>1 DEF TypeOK
  <2>3. {deleted', detached', joinWait'} \subseteq [Addresses -> BOOLEAN]
    BY <1>1, <1>2, <2>2 DEF TypeOK
  <2> QED BY <1>1, <1>3, <2>1, <2>3 DEF TypeOK
<1>5. Waits' /\ Living' /\ Targeted' /\ Results'
  BY <1>1, <1>2 DEF TypeOK, Waits, Living, Targeted, Results
<1>6. Dead' \subseteq Dead \cup {a} /\ (~deleted[a] => a \notin Dead')
  BY <1>1 DEF TypeOK, Dead
<1>7. NoLeak'
  BY <1>1, <1>3, <1>6 DEF NoLeak
<1> QED BY <1>4, <1>5, <1>7

\* A join that returns false.
LEMMA RefusedBase ==
    ASSUME Base, NEW t \in Addresses, NEW id \in 0..MaxCreated,
           pc[t] \in {"run", "joining"}, ~joinWait[t],
           claimed' \in [Addresses -> SUBSET {"join", "detach"}], Refused(t, id)
    PROVE  Base'
<1> USE LifecycleAssumption DEF Base, Free
<1>1. /\ pc' = [pc EXCEPT ![t] = "run"]
      /\ target' = [target EXCEPT ![t] = NoTarget]
      /\ ret' = [id |-> id, result |-> Free]
      /\ UNCHANGED <<occupant, created, deleted, detached, joinWait, joinData,
                     existDeleted>>
  BY DEF Refused
<1>2. TypeOK'
  BY <1>1 DEF TypeOK, Targets
<1>3. Waits' /\ Living' /\ Targeted' /\ Results'
  BY <1>1 DEF TypeOK, Waits, Living, Targeted, Results
<1>4. Dead' = Dead /\ \A u \in Addresses : pc[u] = "remove" => pc'[u] = "remove"
  BY <1>1 DEF Dead, TypeOK
<1>5. NoLeak'
  BY <1>1, <1>4 DEF NoLeak
<1> QED BY <1>2, <1>3, <1>5

\* A join that takes the result.
LEMMA CompletedBase ==
    ASSUME Base, NEW t \in Addresses, NEW a \in Addresses, NEW id \in 0..MaxCreated,
           pc[t] \in {"run", "joining"}, ~joinWait[t],
           Exists(a), ~detached[a], deleted[a],
           claimed' \in [Addresses -> SUBSET {"join", "detach"}], Completed(t, a, id)
    PROVE  Base' /\ joinData[a] = occupant[a]
<1> USE LifecycleAssumption DEF Base, Free
<1>1. joinData[a] = occupant[a] /\ occupant[a] \in 0..MaxCreated
  BY DEF Exists, Results, TypeOK
<1>2. /\ detached' = [detached EXCEPT ![a] = TRUE]
      /\ ret' = [id |-> id, result |-> joinData[a]]
      /\ pc' = [pc EXCEPT ![t] = "remove"]
      /\ target' = [target EXCEPT ![t] = [addr |-> a, id |-> id]]
      /\ UNCHANGED <<occupant, created, deleted, joinWait, joinData, existDeleted>>
  BY DEF Completed
<1>3. TypeOK'
  <2>1. ret' \in [id : 0..MaxCreated \cup {Free}, result : 0..MaxCreated \cup {Free}]
    BY <1>1, <1>2 DEF TypeOK
  <2> QED BY <1>2, <2>1 DEF TypeOK, Targets
<1>4. Waits' /\ Living' /\ Targeted' /\ Results'
  BY <1>2 DEF TypeOK, Waits, Living, Targeted, Results
<1>5. NoLeak'
  <2>1. pc'[t] = "remove"
    BY <1>2 DEF TypeOK
  <2> QED BY <2>1 DEF NoLeak
<1> QED BY <1>1, <1>3, <1>4, <1>5

LEMMA JoinWaitsBase ==
    ASSUME Base, NEW t \in Addresses, NEW a \in Addresses, Join(t, a), JoinWaits(t, a)
    PROVE  Base'
<1> USE LifecycleAssumption DEF Base, Free
<1>1. /\ pc[t] = "run" /\ ~deleted[a] /\ occupant[a] \in 0..MaxCreated
      /\ claimed' = [claimed EXCEPT ![a] = IF Calls = "any" THEN {} ELSE @ \cup {"join"}]
      /\ joinData' = [joinData EXCEPT ![a] = t]
      /\ joinWait' = [joinWait EXCEPT ![t] = TRUE]
      /\ pc' = [pc EXCEPT ![t] = "joining"]
      /\ target' = [target EXCEPT ![t] = [addr |-> a, id |-> occupant[a]]]
      /\ UNCHANGED <<occupant, created, deleted, detached, existDeleted, ret>>
  BY DEF Join, JoinWaits, Claim, TypeOK
<1>2. TypeOK'
  BY <1>1 DEF TypeOK, Targets
<1>3. Waits' /\ Living' /\ Targeted' /\ Results'
  BY <1>1 DEF TypeOK, Waits, Living, Targeted, Results
<1>4. Dead' = Dead /\ \A u \in Addresses : pc[u] = "remove" => pc'[u] = "remove"
  BY <1>1 DEF Dead, TypeOK
<1>5. NoLeak'
  BY <1>1, <1>4 DEF NoLeak
<1> QED BY <1>2, <1>3, <1>5

\* A step that frees dead threads.
LEMMA RemoveBase ==
    ASSUME Base, RemoveDeadThreads, existDeleted' \in BOOLEAN,
           UNCHANGED <<created, claimed, deleted, detached, joinWait, joinData, ret>>,
           pc' \in [Addresses -> {"none", "run", "joining", "remove"}],
           target' \in [Addresses -> Targets],
           \A u \in Addresses : pc[u] = "joining" <=> pc'[u] = "joining",
           \A u \in Addresses : pc[u] = "none" <=> pc'[u] = "none",
           \A u \in Addresses : pc[u] = "joining" => target'[u] = target[u]
    PROVE  Base' /\ \A a \in Addresses : occupant'[a] = IF a \in Dead THEN Free ELSE occupant[a]
<1> USE LifecycleAssumption DEF Base, Free
<1>1. /\ occupant' \in [Addresses -> 0..MaxCreated \cup {Free}]
      /\ \A a \in Addresses : occupant'[a] = IF a \in Dead THEN Free ELSE occupant[a]
  BY DEF RemoveDeadThreads, TypeOK
<1>2. \A a \in Addresses : a \in Dead <=> occupant[a] # Free /\ deleted[a] /\ detached[a]
  BY DEF Dead
<1>3. TypeOK'
  BY <1>1 DEF TypeOK
<1>4. Waits' /\ Living' /\ Targeted' /\ Results'
  BY <1>1, <1>2 DEF TypeOK, Waits, Living, Targeted, Results
<1>5. Dead' = {}
  BY <1>1, <1>2 DEF Dead
<1> QED BY <1>1, <1>3, <1>4, <1>5 DEF NoLeak

LEMMA JoinRemoveBase ==
    ASSUME Base, NEW t \in Addresses, JoinRemove(t)
    PROVE  Base' /\ \A a \in Addresses : occupant'[a] = IF a \in Dead THEN Free ELSE occupant[a]
<1>1. /\ pc[t] = "remove" /\ pc' = [pc EXCEPT ![t] = "run"]
      /\ target' = [target EXCEPT ![t] = NoTarget] /\ RemoveDeadThreads
      /\ UNCHANGED <<created, claimed, deleted, detached, joinWait, joinData,
                     existDeleted, ret>>
  BY DEF JoinRemove
<1>2. existDeleted' \in BOOLEAN
  BY <1>1 DEF Base, TypeOK
<1>3. /\ pc' \in [Addresses -> {"none", "run", "joining", "remove"}]
      /\ target' \in [Addresses -> Targets]
      /\ \A u \in Addresses : pc[u] = "joining" <=> pc'[u] = "joining"
      /\ \A u \in Addresses : pc[u] = "none" <=> pc'[u] = "none"
      /\ \A u \in Addresses : pc[u] = "joining" => target'[u] = target[u]
  BY <1>1 DEF Base, TypeOK, Targets
<1> QED BY <1>1, <1>2, <1>3, RemoveBase

LEMMA IdleBase ==
    ASSUME Base, Idle
    PROVE  Base' /\ \A a \in Addresses : occupant'[a] = IF a \in Dead THEN Free ELSE occupant[a]
<1>1. /\ existDeleted' = FALSE /\ RemoveDeadThreads
      /\ UNCHANGED <<created, claimed, deleted, detached, joinWait, joinData,
                     pc, target, ret>>
  BY DEF Idle
<1>2. existDeleted' \in BOOLEAN
  BY <1>1
<1>3. /\ pc' \in [Addresses -> {"none", "run", "joining", "remove"}]
      /\ target' \in [Addresses -> Targets]
      /\ \A u \in Addresses : pc[u] = "joining" <=> pc'[u] = "joining"
      /\ \A u \in Addresses : pc[u] = "none" <=> pc'[u] = "none"
      /\ \A u \in Addresses : pc[u] = "joining" => target'[u] = target[u]
  BY <1>1 DEF Base, TypeOK
<1> QED BY <1>1, <1>2, <1>3, RemoveBase

\* What a call of op for the thread at a leaves in claimed.
LEMMA ClaimFacts ==
    ASSUME TypeOK, NEW a \in Addresses, NEW op \in {"join", "detach"}, Claim(op, a)
    PROVE  /\ occupant[a] \in 0..MaxCreated
           /\ claimed' \in [Addresses -> SUBSET {"join", "detach"}]
           /\ Calls = "one" => claimed[a] = {} /\ claimed'[a] # {}
           /\ \A b \in Addresses : b # a => claimed'[b] = claimed[b]
  BY DEF Claim, TypeOK

\* The four ways out of join, and the one that sleeps again.
LEMMA JoinCases ==
    ASSUME Base, NEW t \in Addresses, NEW a \in Addresses, Join(t, a)
    PROVE  /\ pc[t] = "run" /\ ~joinWait[t]
           /\ occupant[a] \in 0..MaxCreated
           /\ claimed' \in [Addresses -> SUBSET {"join", "detach"}]
           /\ \/ Refused(t, occupant[a])
              \/ Exists(a) /\ ~detached[a] /\ deleted[a] /\ Completed(t, a, occupant[a])
              \/ JoinWaits(t, a)
<1>1. pc[t] = "run" /\ Claim("join", a)
  BY DEF Join
<1>2. ~joinWait[t]
  BY <1>1 DEF Base, Waits
<1>3. \/ Refused(t, occupant[a])
      \/ Exists(a) /\ ~detached[a] /\ deleted[a] /\ Completed(t, a, occupant[a])
      \/ JoinWaits(t, a)
  BY DEF Join, JoinRefused, JoinCompletes
<1> QED BY <1>1, <1>2, <1>3, ClaimFacts DEF Base

LEMMA ResumeCases ==
    ASSUME Base, NEW t \in Addresses, JoinResume(t)
    PROVE  \E a \in Addresses, id \in 0..MaxCreated :
              /\ a = target[t].addr /\ id = target[t].id
              /\ pc[t] = "joining" /\ ~joinWait[t]
              /\ claimed' = claimed /\ claimed \in [Addresses -> SUBSET {"join", "detach"}]
              /\ \/ Gone(a) /\ Refused(t, id)
                 \/ Exists(a) /\ ~detached[a] /\ deleted[a] /\ Completed(t, a, id)
                 \/ /\ ~Gone(a) /\ ~deleted[a]
                    /\ joinWait' = [joinWait EXCEPT ![t] = TRUE]
                    /\ UNCHANGED <<occupant, created, deleted, detached, joinData,
                                   existDeleted, pc, target, ret>>
<1>1. pc[t] = "joining" /\ ~joinWait[t] /\ claimed' = claimed
  BY DEF JoinResume
<1>2. target[t].addr \in Addresses /\ target[t].id \in 0..MaxCreated
  BY <1>1 DEF Base, Targeted
<1>3. claimed \in [Addresses -> SUBSET {"join", "detach"}]
  BY DEF Base, TypeOK
<1>4. \/ Gone(target[t].addr) /\ Refused(t, target[t].id)
      \/ /\ ~Gone(target[t].addr) /\ deleted[target[t].addr]
         /\ Completed(t, target[t].addr, target[t].id)
      \/ /\ ~Gone(target[t].addr) /\ ~deleted[target[t].addr]
         /\ joinWait' = [joinWait EXCEPT ![t] = TRUE]
         /\ UNCHANGED <<occupant, created, deleted, detached, joinData,
                        existDeleted, pc, target, ret>>
  BY DEF JoinResume
<1> QED BY <1>1, <1>2, <1>3, <1>4 DEF Gone

LEMMA NextBase == Base /\ [Next]_vars => Base'
<1> SUFFICES ASSUME Base, [Next]_vars
             PROVE  Base'
  OBVIOUS
<1>1. ASSUME NEW t \in Addresses, JoinResume(t)
      PROVE  Base'
  <2>1. PICK a \in Addresses, id \in 0..MaxCreated :
              /\ a = target[t].addr /\ id = target[t].id
              /\ pc[t] = "joining" /\ ~joinWait[t]
              /\ claimed' = claimed /\ claimed \in [Addresses -> SUBSET {"join", "detach"}]
              /\ \/ Gone(a) /\ Refused(t, id)
                 \/ Exists(a) /\ ~detached[a] /\ deleted[a] /\ Completed(t, a, id)
                 \/ /\ ~Gone(a) /\ ~deleted[a]
                    /\ joinWait' = [joinWait EXCEPT ![t] = TRUE]
                    /\ UNCHANGED <<occupant, created, deleted, detached, joinData,
                                   existDeleted, pc, target, ret>>
    BY <1>1, ResumeCases
  <2>2. CASE Refused(t, id)
    BY <2>1, <2>2, RefusedBase
  <2>3. CASE Exists(a) /\ ~detached[a] /\ deleted[a] /\ Completed(t, a, id)
    BY <2>1, <2>3, CompletedBase
  <2>4. CASE /\ joinWait' = [joinWait EXCEPT ![t] = TRUE]
             /\ UNCHANGED <<occupant, created, deleted, detached, joinData,
                            existDeleted, pc, target, ret>>
    <3>1. TypeOK'
      BY <2>1, <2>4 DEF Base, TypeOK
    <3>2. Waits' /\ Living' /\ Targeted' /\ Results'
      BY <2>1, <2>4 DEF Base, TypeOK, Waits, Living, Targeted, Results
    <3>3. NoLeak'
      BY <2>4 DEF Base, NoLeak, Dead
    <3> QED BY <3>1, <3>2, <3>3 DEF Base
  <2> QED BY <2>1, <2>2, <2>3, <2>4
<1>2. ASSUME NEW t \in Addresses, NEW a \in Addresses, Join(t, a)
      PROVE  Base'
  <2>1. /\ pc[t] \in {"run", "joining"} /\ ~joinWait[t]
        /\ occupant[a] \in 0..MaxCreated
        /\ claimed' \in [Addresses -> SUBSET {"join", "detach"}]
        /\ \/ Refused(t, occupant[a])
           \/ Exists(a) /\ ~detached[a] /\ deleted[a] /\ Completed(t, a, occupant[a])
           \/ JoinWaits(t, a)
    BY <1>2, JoinCases
  <2>2. CASE Refused(t, occupant[a])
    BY <2>1, <2>2, RefusedBase
  <2>3. CASE Exists(a) /\ ~detached[a] /\ deleted[a] /\ Completed(t, a, occupant[a])
    BY <2>1, <2>3, CompletedBase
  <2>4. CASE JoinWaits(t, a)
    BY <1>2, <2>4, JoinWaitsBase
  <2> QED BY <2>1, <2>2, <2>3, <2>4
<1>3. CASE UNCHANGED vars
  BY <1>3 DEF vars, Base, TypeOK, Waits, Living, Targeted, Results, NoLeak, Dead
<1> QED
  BY <1>1, <1>2, <1>3, CreateBase, ExitBase, DetachBase, JoinRemoveBase, IdleBase DEF Next

-----------------------------------------------------------------------------
LEMMA AlwaysBase == Spec => []Base
  BY InitBase, NextBase, PTL DEF Spec

\* Every variable keeps its type.
THEOREM TypeCorrect == Spec => []TypeOK
<1>1. Base => TypeOK
  BY DEF Base
<1> QED BY <1>1, AlwaysBase, PTL

\* The memory of a thread that ended and was joined or detached is freed by the
\* idle thread or by a join about to return, whatever the clients call.
THEOREM NoMemoryForgotten == Spec => []NoLeak
<1>1. Base => NoLeak
  BY DEF Base
<1> QED BY <1>1, AlwaysBase, PTL

-----------------------------------------------------------------------------
\* Clients that cannot be misled by an address: they make one call for each
\* thread, or the address of a thread that is joined is not allocated again
\* before the join returns.
Sound == Calls = "one" \/ ~Stale

Waiting(t, a) == pc[t] = "joining" /\ target[t].addr = a

Running(a) == occupant[a] # Free /\ ~deleted[a] /\ ~detached[a]

\* The thread noted as joining a thread that runs is in that join.
Joiner ==
    \A a \in Addresses :
        Running(a) /\ joinData[a] # NoThread =>
            \E u \in Addresses : joinData[a] = u /\ Waiting(u, a)

\* What a thread in join may find: its target, which knows it as long as it
\* runs, or nobody.  It sleeps only while its target runs.
Joining ==
    \A t, a \in Addresses :
        Waiting(t, a) =>
            /\ occupant[a] \in {target[t].id, Free}
            /\ joinWait[t] => Running(a)
            /\ Running(a) => joinData[a] = t

\* With one call for each thread a target stays until its joiner takes it.
OneCall ==
    Calls = "one" =>
        \A t, a \in Addresses :
            Waiting(t, a) =>
                /\ occupant[a] # Free /\ ~detached[a] /\ claimed[a] # {}
                /\ \A u \in Addresses : Waiting(u, a) => u = t

Safe == Base /\ Joiner /\ Joining /\ OneCall /\ JoinDelivers

LEMMA InitSafe == Init => Safe
<1> SUFFICES ASSUME Init
             PROVE  Safe
  OBVIOUS
<1>1. \A t \in Addresses : pc[t] # "joining"
  BY DEF Init
<1>2. Joining /\ OneCall
  BY <1>1 DEF Joining, OneCall, Waiting
<1>3. Joiner
  BY DEF Init, Joiner
<1>4. JoinDelivers
  BY DEF Init, JoinDelivers
<1> QED BY <1>2, <1>3, <1>4, InitBase DEF Safe

\* A new thread is created where nobody joins.
LEMMA CreateSafe ==
    ASSUME Sound, Safe, NEW t \in Addresses, NEW a \in Addresses, NEW joinable \in BOOLEAN,
           Create(t, a, joinable)
    PROVE  Safe'
<1> USE LifecycleAssumption DEF Safe
<1>1. Base'
  BY CreateBase
<1>2. /\ occupant[a] = Free /\ pc[a] = "none"
      /\ Stale \/ \A u \in Addresses : pc[u] = "joining" => target[u].addr # a
  BY DEF Create, Base, Living
<1>3. \A u \in Addresses : ~Waiting(u, a)
  <2>1. CASE Calls = "one"
    BY <1>2, <2>1 DEF OneCall
  <2>2. CASE ~Stale
    BY <1>2, <2>2 DEF Waiting
  <2> QED BY <2>1, <2>2 DEF Sound
<1>4. /\ \A b \in Addresses : b # a =>
            /\ occupant'[b] = occupant[b] /\ deleted'[b] = deleted[b]
            /\ detached'[b] = detached[b] /\ joinData'[b] = joinData[b]
            /\ joinWait'[b] = joinWait[b] /\ pc'[b] = pc[b] /\ target'[b] = target[b]
            /\ claimed'[b] = claimed[b]
      /\ joinData'[a] = NoThread /\ pc'[a] = "run" /\ ret' = ret
  BY DEF Create, Base, TypeOK
<1>5. \A u, b \in Addresses :
         Waiting(u, b)' => u # a /\ b # a /\ Waiting(u, b)
  BY <1>3, <1>4 DEF Waiting
<1>6. \A u, b \in Addresses :
         Waiting(u, b) => u # a /\ b # a /\ Waiting(u, b)'
  BY <1>2, <1>3, <1>4 DEF Waiting
<1>7. Joiner'
  BY <1>4, <1>6 DEF Joiner, Running
<1>8. Joining'
  BY <1>4, <1>5 DEF Joining, Running
<1>9. OneCall'
  BY <1>4, <1>5 DEF OneCall
<1>10. JoinDelivers'
  BY <1>4 DEF JoinDelivers
<1> QED BY <1>1, <1>7, <1>8, <1>9, <1>10

\* What waking the joiner of a thread does.
LEMMA Woken ==
    ASSUME Safe, NEW a \in Addresses, NEW W, W = JoinerWoken(a)
    PROVE  /\ \A u \in Addresses : W[u] => joinWait[u]
           /\ \A u \in Addresses : Waiting(u, a) => ~W[u]
<1>1. \A u \in Addresses : W[u] <=> joinWait[u] /\ u # joinData[a]
  BY DEF JoinerWoken
<1> QED BY <1>1 DEF Safe, Joining

LEMMA ExitSafe ==
    ASSUME Safe, NEW t \in Addresses, Exit(t)
    PROVE  Safe'
<1> USE LifecycleAssumption DEF Safe
<1>1. Base'
  BY ExitBase
<1>2. /\ pc[t] = "run" /\ occupant[t] # Free /\ ~deleted[t]
      /\ deleted' = [deleted EXCEPT ![t] = TRUE]
      /\ pc' = [pc EXCEPT ![t] = "none"]
      /\ UNCHANGED <<occupant, created, claimed, detached, target, ret>>
  BY DEF Exit, memory, Base, Living
<1>3. \A u, b \in Addresses : Waiting(u, b)' <=> Waiting(u, b)
  BY <1>2 DEF Waiting, Base, TypeOK
<1>4. /\ \A u \in Addresses : joinWait'[u] => joinWait[u]
      /\ \A u \in Addresses : Waiting(u, t) => ~joinWait'[u]
      /\ \A b \in Addresses : b # t => joinData'[b] = joinData[b]
  <2>1. CASE ~detached[t]
    <3>1. joinWait' = JoinerWoken(t) /\ joinData' = [joinData EXCEPT ![t] = occupant[t]]
      BY <2>1 DEF Exit
    <3> QED BY <1>2, <2>1, <3>1, Woken DEF Base, TypeOK
  <2>2. CASE detached[t]
    <3>1. UNCHANGED <<joinWait, joinData>>
      BY <2>2 DEF Exit
    <3> QED BY <2>2, <3>1 DEF Joining, Running
  <2> QED BY <2>1, <2>2
<1>5. /\ deleted'[t] /\ \A b \in Addresses : b # t => deleted'[b] = deleted[b]
  BY <1>2 DEF Base, TypeOK
<1>6. \A b \in Addresses : Running(b)' <=> b # t /\ Running(b)
  BY <1>2, <1>5 DEF Running
<1>7. Joiner' /\ Joining'
  BY <1>2, <1>3, <1>4, <1>6 DEF Joiner, Joining
<1>8. OneCall'
  BY <1>2, <1>3 DEF OneCall
<1>9. JoinDelivers'
  BY <1>2 DEF JoinDelivers
<1> QED BY <1>1, <1>7, <1>8, <1>9

LEMMA DetachSafe ==
    ASSUME Safe, NEW t \in Addresses, NEW a \in Addresses, Detach(t, a)
    PROVE  Safe'
<1> USE LifecycleAssumption DEF Safe
<1>1. Base'
  BY DetachBase
<1>2. /\ occupant[a] # Free /\ Claim("detach", a)
      /\ detached' = [detached EXCEPT ![a] = TRUE]
      /\ joinWait' = IF deleted[a] THEN joinWait ELSE JoinerWoken(a)
      /\ UNCHANGED <<occupant, created, deleted, joinData, pc, target, ret>>
  BY DEF Detach, Claim
<1>3. \A u, b \in Addresses : Waiting(u, b)' <=> Waiting(u, b)
  BY <1>2 DEF Waiting
<1>4. /\ \A u \in Addresses : joinWait'[u] => joinWait[u]
      /\ \A u \in Addresses : Waiting(u, a) => ~joinWait'[u]
  <2>1. CASE ~deleted[a]
    BY <1>2, <2>1, Woken
  <2>2. CASE deleted[a]
    BY <1>2, <2>2 DEF Joining, Running
  <2> QED BY <2>1, <2>2
<1>5. /\ detached'[a] /\ \A b \in Addresses : b # a => detached'[b] = detached[b]
  BY <1>2 DEF Base, TypeOK
<1>6. \A b \in Addresses : Running(b)' <=> b # a /\ Running(b)
  BY <1>2, <1>5 DEF Running
<1>7. Joiner' /\ Joining'
  BY <1>2, <1>3, <1>4, <1>6 DEF Joiner, Joining
<1>8. OneCall'
  <2>1. /\ Calls = "one" => claimed[a] = {}
        /\ \A b \in Addresses : b # a => claimed'[b] = claimed[b]
    BY <1>2, ClaimFacts DEF Base
  <2> QED BY <1>2, <1>3, <1>5, <2>1 DEF OneCall
<1>9. JoinDelivers'
  BY <1>2 DEF JoinDelivers
<1> QED BY <1>1, <1>7, <1>8, <1>9

\* A thread t that is not asleep returns from join with false.
LEMMA RefusedSafe ==
    ASSUME Safe, NEW t \in Addresses, NEW id \in 0..MaxCreated,
           Refused(t, id), Base',
           \A b \in Addresses : Waiting(t, b) => ~Running(b),
           Calls = "one" => \A b \in Addresses : claimed[b] # {} => claimed'[b] # {}
    PROVE  Safe'
<1> USE DEF Safe
<1>1. /\ pc' = [pc EXCEPT ![t] = "run"]
      /\ target' = [target EXCEPT ![t] = NoTarget]
      /\ ret' = [id |-> id, result |-> Free]
      /\ UNCHANGED <<occupant, created, deleted, detached, joinWait, joinData,
                     existDeleted>>
  BY DEF Refused
<1>2. \A u, b \in Addresses : Waiting(u, b)' => Waiting(u, b)
  BY <1>1 DEF Waiting, Base, TypeOK
<1>3. \A u, b \in Addresses : Waiting(u, b) /\ Running(b) => Waiting(u, b)'
  BY <1>1 DEF Waiting, Base, TypeOK
<1>4. Joiner'
  BY <1>1, <1>3 DEF Joiner, Running
<1>5. Joining'
  <2>1. \A u \in Addresses : u # t => target'[u] = target[u] /\ pc'[u] = pc[u]
    BY <1>1 DEF Base, TypeOK
  <2>2. \A b \in Addresses : ~Waiting(t, b)'
    BY <1>1 DEF Waiting, Base, TypeOK
  <2> QED BY <1>1, <1>2, <2>1, <2>2 DEF Joining, Running
<1>6. OneCall'
  BY <1>1, <1>2 DEF OneCall
<1>7. JoinDelivers'
  BY <1>1 DEF JoinDelivers, Base, TypeOK
<1> QED BY <1>4, <1>5, <1>6, <1>7

\* A thread t that is not asleep takes the result of a thread that ended.
LEMMA CompletedSafe ==
    ASSUME Safe, NEW t \in Addresses, NEW a \in Addresses,
           \A b \in Addresses : Waiting(t, b) => ~Running(b),
           Exists(a), ~detached[a], deleted[a],
           Completed(t, a, occupant[a]), Base', joinData[a] = occupant[a],
           Calls = "one" => \A b \in Addresses : claimed[b] # {} => claimed'[b] # {},
           Calls = "one" => \A u \in Addresses : Waiting(u, a) => u = t
    PROVE  Safe'
<1> USE DEF Safe
<1>1. /\ detached' = [detached EXCEPT ![a] = TRUE]
      /\ ret' = [id |-> occupant[a], result |-> joinData[a]]
      /\ pc' = [pc EXCEPT ![t] = "remove"]
      /\ target' = [target EXCEPT ![t] = [addr |-> a, id |-> occupant[a]]]
      /\ UNCHANGED <<occupant, created, deleted, joinWait, joinData, existDeleted>>
  BY DEF Completed
<1>2. \A u, b \in Addresses : Waiting(u, b)' => u # t /\ Waiting(u, b)
  BY <1>1 DEF Waiting, Base, TypeOK
<1>3. \A u, b \in Addresses : Waiting(u, b) /\ Running(b) => Waiting(u, b)'
  BY <1>1 DEF Waiting, Base, TypeOK
<1>4. /\ detached'[a] /\ \A b \in Addresses : b # a => detached'[b] = detached[b]
      /\ \A u \in Addresses : u # t => target'[u] = target[u]
  BY <1>1 DEF Base, TypeOK
<1>5. Joiner'
  BY <1>1, <1>3, <1>4 DEF Joiner, Running
<1>6. Joining'
  BY <1>1, <1>2, <1>4 DEF Joining, Running
<1>7. OneCall'
  BY <1>1, <1>2, <1>4 DEF OneCall
<1>8. JoinDelivers'
  BY <1>1 DEF JoinDelivers
<1> QED BY <1>5, <1>6, <1>7, <1>8

LEMMA JoinWaitsSafe ==
    ASSUME Safe, NEW t \in Addresses, NEW a \in Addresses, Join(t, a), JoinWaits(t, a)
    PROVE  Safe'
<1> USE LifecycleAssumption DEF Safe
<1>1. Base'
  BY JoinWaitsBase
<1>2. /\ pc[t] = "run" /\ Exists(a) /\ ~deleted[a] /\ ~detached[a] /\ joinData[a] = NoThread
      /\ Claim("join", a)
      /\ joinData' = [joinData EXCEPT ![a] = t]
      /\ joinWait' = [joinWait EXCEPT ![t] = TRUE]
      /\ pc' = [pc EXCEPT ![t] = "joining"]
      /\ target' = [target EXCEPT ![t] = [addr |-> a, id |-> occupant[a]]]
      /\ UNCHANGED <<occupant, created, deleted, detached, existDeleted, ret>>
  BY DEF Join, JoinWaits
<1>3. occupant[a] # Free
  BY <1>2 DEF Exists, Base
<1>4. /\ joinData'[a] = t /\ joinWait'[t] /\ target'[t] = [addr |-> a, id |-> occupant[a]]
      /\ \A b \in Addresses : b # a => joinData'[b] = joinData[b]
      /\ \A u \in Addresses : u # t => joinWait'[u] = joinWait[u] /\ target'[u] = target[u]
  BY <1>2 DEF Base, TypeOK
<1>5. \A u, b \in Addresses : Waiting(u, b)' <=> (u = t /\ b = a) \/ (u # t /\ Waiting(u, b))
  BY <1>2, <1>4 DEF Waiting, Base, TypeOK
<1>6. \A b \in Addresses : ~Waiting(t, b)
  BY <1>2 DEF Waiting
<1>7. Joiner'
  BY <1>2, <1>4, <1>5, <1>6 DEF Joiner, Running
<1>8. Joining'
  <2> SUFFICES ASSUME NEW u \in Addresses, NEW b \in Addresses, Waiting(u, b)'
               PROVE  /\ occupant[b] \in {target'[u].id, Free}
                      /\ joinWait'[u] => Running(b)
                      /\ Running(b) => joinData'[b] = u
    BY <1>2 DEF Joining, Running
  <2>1. CASE u = t /\ b = a
    BY <1>2, <1>3, <1>4, <2>1 DEF Running
  <2>2. CASE u # t /\ Waiting(u, b)
    <3>1. b # a
      BY <1>2, <1>3, <2>2, LifecycleAssumption DEF Joining, Running
    <3> QED BY <1>4, <2>2, <3>1 DEF Joining
  <2> QED BY <1>5, <2>1, <2>2
<1>9. OneCall'
  <2>1. /\ Calls = "one" => claimed[a] = {} /\ claimed'[a] # {}
        /\ \A b \in Addresses : b # a => claimed'[b] = claimed[b]
    BY <1>2, ClaimFacts DEF Base
  <2> QED BY <1>2, <1>3, <1>5, <2>1 DEF OneCall
<1>10. JoinDelivers'
  BY <1>2 DEF JoinDelivers
<1> QED BY <1>1, <1>7, <1>8, <1>9, <1>10

\* Freeing memory takes no thread that is waited for.
LEMMA RemoveSafe ==
    ASSUME Safe, Base',
           \A a \in Addresses : occupant'[a] = IF a \in Dead THEN Free ELSE occupant[a],
           UNCHANGED <<created, claimed, deleted, detached, joinWait, joinData, ret>>,
           \A u, b \in Addresses : Waiting(u, b)' <=> Waiting(u, b),
           \A u, b \in Addresses : Waiting(u, b) => target'[u] = target[u]
    PROVE  Safe'
<1> USE LifecycleAssumption DEF Safe
<1>1. \A a \in Addresses : a \in Dead <=> occupant[a] # Free /\ deleted[a] /\ detached[a]
  BY DEF Dead
<1>2. Joiner'
  BY <1>1 DEF Joiner, Running
<1>3. Joining'
  BY <1>1 DEF Joining, Running
<1>4. OneCall'
  BY <1>1 DEF OneCall
<1>5. JoinDelivers'
  BY DEF JoinDelivers
<1> QED BY <1>2, <1>3, <1>4, <1>5

LEMMA NextSafe == Sound /\ Safe /\ [Next]_vars => Safe'
<1> SUFFICES ASSUME Sound, Safe, [Next]_vars
             PROVE  Safe'
  OBVIOUS
<1>1. Base /\ Base'
  BY NextBase DEF Safe
<1>2. ASSUME NEW t \in Addresses, NEW a \in Addresses, Join(t, a)
      PROVE  Safe'
  <2>1. /\ pc[t] = "run" /\ ~joinWait[t] /\ occupant[a] \in 0..MaxCreated
        /\ \/ Refused(t, occupant[a])
           \/ Exists(a) /\ ~detached[a] /\ deleted[a] /\ Completed(t, a, occupant[a])
           \/ JoinWaits(t, a)
    BY <1>1, <1>2, JoinCases
  <2>2. /\ Calls = "one" => \A b \in Addresses : claimed[b] # {} => claimed'[b] # {}
        /\ Calls = "one" => claimed[a] = {}
        /\ \A b \in Addresses : ~Waiting(t, b)
    BY <1>1, <1>2, <2>1, ClaimFacts DEF Join, Base, Waiting
  <2>3. CASE Refused(t, occupant[a])
    BY <1>1, <2>1, <2>2, <2>3, RefusedSafe
  <2>4. CASE Exists(a) /\ ~detached[a] /\ deleted[a] /\ Completed(t, a, occupant[a])
    <3>1. Calls = "one" => \A u \in Addresses : Waiting(u, a) => u = t
      BY <2>2 DEF Safe, OneCall
    <3>2. joinData[a] = occupant[a]
      BY <2>4 DEF Exists, Safe, Base, Results
    <3> QED BY <1>1, <2>1, <2>2, <2>4, <3>1, <3>2, CompletedSafe
  <2>5. CASE JoinWaits(t, a)
    BY <1>2, <2>5, JoinWaitsSafe
  <2> QED BY <2>1, <2>3, <2>4, <2>5
<1>3. ASSUME NEW t \in Addresses, JoinResume(t)
      PROVE  Safe'
  <2>1. PICK a \in Addresses, id \in 0..MaxCreated :
              /\ a = target[t].addr /\ id = target[t].id
              /\ pc[t] = "joining" /\ ~joinWait[t]
              /\ claimed' = claimed /\ claimed \in [Addresses -> SUBSET {"join", "detach"}]
              /\ \/ Gone(a) /\ Refused(t, id)
                 \/ Exists(a) /\ ~detached[a] /\ deleted[a] /\ Completed(t, a, id)
                 \/ /\ ~Gone(a) /\ ~deleted[a]
                    /\ joinWait' = [joinWait EXCEPT ![t] = TRUE]
                    /\ UNCHANGED <<occupant, created, deleted, detached, joinData,
                                   existDeleted, pc, target, ret>>
    BY <1>1, <1>3, ResumeCases
  <2>2. Waiting(t, a) /\ \A b \in Addresses : Waiting(t, b) => b = a
    BY <2>1 DEF Waiting
  <2>3. CASE Gone(a) /\ Refused(t, id)
    <3>1. ~Running(a)
      BY <2>3 DEF Gone, Exists, Running
    <3> QED BY <1>1, <2>1, <2>2, <2>3, <3>1, RefusedSafe
  <2>4. CASE Exists(a) /\ ~detached[a] /\ deleted[a] /\ Completed(t, a, id)
    <3>1. Calls = "one" => \A u \in Addresses : Waiting(u, a) => u = t
      BY <2>2 DEF Safe, OneCall
    <3>2. joinData[a] = occupant[a]
      BY <2>4 DEF Exists, Safe, Base, Results
    <3>3. occupant[a] = id
      BY <2>1, <2>2, <2>4 DEF Safe, Joining, Exists
    <3>4. ~Running(a)
      BY <2>4 DEF Running
    <3> QED BY <1>1, <2>1, <2>2, <2>4, <3>1, <3>2, <3>3, <3>4, CompletedSafe
  <2>5. CASE /\ ~Gone(a) /\ ~deleted[a]
             /\ joinWait' = [joinWait EXCEPT ![t] = TRUE]
             /\ UNCHANGED <<occupant, created, deleted, detached, joinData,
                            existDeleted, pc, target, ret>>
    <3>1. Running(a)
      BY <2>5 DEF Gone, Exists, Running
    <3>2. \A u \in Addresses : u # t => joinWait'[u] = joinWait[u]
      BY <2>5 DEF Safe, Base, TypeOK
    <3>3. \A u, b \in Addresses : Waiting(u, b)' <=> Waiting(u, b)
      BY <2>5 DEF Waiting
    <3>4. Joiner' /\ Joining'
      BY <2>2, <2>5, <3>1, <3>2, <3>3 DEF Safe, Joiner, Joining, Running
    <3>5. OneCall' /\ JoinDelivers'
      BY <2>1, <2>5, <3>3 DEF Safe, OneCall, JoinDelivers
    <3> QED BY <1>1, <3>4, <3>5 DEF Safe
  <2> QED BY <2>1, <2>3, <2>4, <2>5
<1>4. ASSUME NEW t \in Addresses, JoinRemove(t)
      PROVE  Safe'
  <2>1. \A a \in Addresses : occupant'[a] = IF a \in Dead THEN Free ELSE occupant[a]
    BY <1>1, <1>4, JoinRemoveBase
  <2>2. /\ pc[t] = "remove" /\ pc' = [pc EXCEPT ![t] = "run"]
        /\ target' = [target EXCEPT ![t] = NoTarget]
        /\ UNCHANGED <<created, claimed, deleted, detached, joinWait, joinData, ret>>
    BY <1>4 DEF JoinRemove
  <2>3. /\ \A u, b \in Addresses : Waiting(u, b)' <=> Waiting(u, b)
        /\ \A u, b \in Addresses : Waiting(u, b) => target'[u] = target[u]
    BY <1>1, <2>2 DEF Waiting, Base, TypeOK
  <2> QED BY <1>1, <2>1, <2>2, <2>3, RemoveSafe
<1>5. CASE Idle
  <2>1. \A a \in Addresses : occupant'[a] = IF a \in Dead THEN Free ELSE occupant[a]
    BY <1>1, <1>5, IdleBase
  <2>2. UNCHANGED <<created, claimed, deleted, detached, joinWait, joinData,
                    pc, target, ret>>
    BY <1>5 DEF Idle
  <2>3. /\ \A u, b \in Addresses : Waiting(u, b)' <=> Waiting(u, b)
        /\ \A u, b \in Addresses : Waiting(u, b) => target'[u] = target[u]
    BY <2>2 DEF Waiting
  <2> QED BY <1>1, <2>1, <2>2, <2>3, RemoveSafe
<1>6. CASE UNCHANGED vars
  BY <1>1, <1>6 DEF vars, Safe, Joiner, Joining, OneCall, JoinDelivers, Waiting, Running
<1> QED
  BY <1>2, <1>3, <1>4, <1>5, <1>6, CreateSafe, ExitSafe, DetachSafe DEF Next

LEMMA AlwaysSafe == Sound => (Spec => []Safe)
<1> SUFFICES ASSUME Sound
             PROVE  Spec => []Safe
  OBVIOUS
<1>1. Safe /\ [Next]_vars => Safe'
  BY NextSafe
<1> QED BY <1>1, InitSafe, PTL DEF Spec

-----------------------------------------------------------------------------
\* A thread sleeping in join is noted by the living thread it waits for, which
\* wakes it when it ends or is detached, as long as an address names one thread.
THEOREM NoJoinIsLost == Sound => (Spec => []NoLostJoin)
<1> SUFFICES ASSUME Sound
             PROVE  Spec => []NoLostJoin
  OBVIOUS
<1>1. Safe => NoLostJoin
  <2> SUFFICES ASSUME Safe, NEW t \in Addresses, joinWait[t]
               PROVE  LET a == target[t].addr
                      IN /\ a # NoThread /\ occupant[a] = target[t].id
                         /\ joinData[a] = t
                         /\ ~deleted[a] /\ ~detached[a]
    BY DEF NoLostJoin
  <2>1. pc[t] = "joining" /\ target[t].addr \in Addresses
    BY DEF Safe, Base, Waits, Targeted
  <2>2. Waiting(t, target[t].addr)
    BY <2>1 DEF Waiting
  <2> QED BY <2>1, <2>2, LifecycleAssumption DEF Safe, Joining, Running
<1> QED BY <1>1, AlwaysSafe, PTL

\* join returns true only with the result of the thread it was called for, as
\* long as an address names one thread.
THEOREM JoinIsRight == Sound => (Spec => []JoinDelivers)
<1> SUFFICES ASSUME Sound
             PROVE  Spec => []JoinDelivers
  OBVIOUS
<1>1. Safe => JoinDelivers
  BY DEF Safe
<1> QED BY <1>1, AlwaysSafe, PTL

=============================================================================
