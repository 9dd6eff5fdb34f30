--------------------------- MODULE PartitionPool ---------------------------
(***************************************************************************)
(* What the distribution of partitions promises, whatever the host threads *)
(* and DPUs do: partitions are reserved in order, dealt to workers that    *)
(* hold none, each to one worker and once, and stored by the worker that   *)
(* holds them.                                                             *)
(***************************************************************************)
EXTENDS Integers

CONSTANTS Worker, NrPart, Reserved0   \* partitions reserved at the start

Nobody == -1
Part == 0 .. NrPart - 1

VARIABLES
  reserved,   \* partitions 0 .. reserved-1 have been taken from the queue
  holder,     \* partition each worker is to compute
  dealt,      \* partitions that were given to some worker
  stored      \* partitions whose result is in the output

poolVars == <<reserved, holder, dealt, stored>>

Init ==
  /\ reserved = Reserved0
  /\ holder = [w \in Worker |-> Nobody]
  /\ dealt = {}
  /\ stored = {}

Reserve ==
  /\ reserved < NrPart
  /\ reserved' \in reserved + 1 .. NrPart
  /\ UNCHANGED <<holder, dealt, stored>>

Deal ==
  /\ holder' \in [Worker -> Part \cup {Nobody}]
  /\ LET W == {w \in Worker : holder'[w] # holder[w]}
     IN /\ \A w \in W : /\ holder[w] = Nobody
                        /\ holder'[w] \in 0 .. reserved - 1
                        /\ holder'[w] \notin dealt
        /\ \A w \in W, v \in W : holder'[w] = holder'[v] => w = v
        /\ dealt' = dealt \cup {holder'[w] : w \in W}
  /\ UNCHANGED <<reserved, stored>>

Store ==
  /\ \E W \in SUBSET {w \in Worker : holder[w] # Nobody} :
       /\ stored' = stored \cup {holder[w] : w \in W}
       /\ holder' = [w \in Worker |-> IF w \in W THEN Nobody ELSE holder[w]]
  /\ UNCHANGED <<reserved, dealt>>

Next == Reserve \/ Deal \/ Store

Spec == Init /\ [][Next]_poolVars
=============================================================================
