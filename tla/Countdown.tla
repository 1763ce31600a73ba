----------------------------- MODULE Countdown -----------------------------
(***************************************************************************)
(* What sleeping promises: every sleeper has a countdown of its own, set   *)
(* when it goes to sleep, that loses one at every tick of the kernel; the  *)
(* sleeper is awake when it reaches zero and not before.                   *)
(***************************************************************************)
EXTENDS Integers

CONSTANTS Sleepers, MaxTime

VARIABLE remaining   \* ticks left to each sleeper, 0 when it is awake

Init == remaining = [s \in Sleepers |-> 0]

Set(s, ticks) ==
    /\ remaining[s] = 0
    /\ remaining' = [remaining EXCEPT ![s] = ticks]

Tick == remaining' = [s \in Sleepers |-> IF remaining[s] = 0 THEN 0 ELSE remaining[s] - 1]

Next == Tick \/ \E s \in Sleepers : \E ticks \in 1..MaxTime : Set(s, ticks)

Spec == Init /\ [][Next]_remaining

=============================================================================
