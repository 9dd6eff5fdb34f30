--------------------------- MODULE BarrierPromise ---------------------------
(***************************************************************************)
(* What a barrier promises its tasklets: the n-th wait returns to a        *)
(* tasklet only after every tasklet has come to its n-th wait.             *)
(***************************************************************************)
EXTENDS Integers

CONSTANT Tasklet

VARIABLES entered, left    \* waits each tasklet has begun and ended

promiseVars == <<entered, left>>

Init ==
  /\ entered = [t \in Tasklet |-> 0]
  /\ left = [t \in Tasklet |-> 0]

Enter(t) ==
  /\ entered[t] = left[t]
  /\ entered' = [entered EXCEPT ![t] = @ + 1]
  /\ UNCHANGED left

\* The last one may return together with the one it resumed last.
Leave(T) ==
  /\ \A t \in T : left[t] < entered[t]
  /\ \A t \in T, u \in Tasklet : entered[u] >= entered[t]
  /\ left' = [t \in Tasklet |-> IF t \in T THEN left[t] + 1 ELSE left[t]]
  /\ UNCHANGED entered

Next ==
  \/ \E t \in Tasklet : Enter(t)
  \/ \E T \in SUBSET Tasklet : Leave(T)

Spec == Init /\ [][Next]_promiseVars
=============================================================================
