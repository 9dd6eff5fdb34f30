-------------------------- MODULE OfisKernelProofs --------------------------
(***************************************************************************)
(* The barriers of the runtime, for whoever calls them, and the tasklets   *)
(* of the SpMV kernel, for every number of tasklets and of partitions: no  *)
(* waiting tasklet is forgotten, the state 1 means that all rows are       *)
(* written, the barriers keep their promise, and together the tasklets act *)
(* as the DPU of OfisDevice.                                               *)
(***************************************************************************)
EXTENDS OfisKernel, FiniteSetTheorems, WellFoundedInduction, TLAPS

-----------------------------------------------------------------------------
(* Induction over the natural numbers, for sets instead of predicates.     *)

Less == {ij \in Nat \X Nat : ij[1] < ij[2]}

LEMMA LessWellFounded == IsWellFoundedOn(Less, Nat)
<1>1. OpToRel(<, Nat) = Less
  BY DEF OpToRel, Less
<1>2. QED
  BY <1>1, NatLessThanWellFounded, Zenon

LEMMA LeastNumber ==
  ASSUME NEW T, T \subseteq Nat, T # {}
  PROVE  \E x \in T : \A y \in T : x <= y
<1>1. \A x, y \in Nat : <<y, x>> \in Less <=> y < x
  BY DEF Less
<1>2. PICK x \in T : \A y \in T : ~(<<y, x>> \in Less)
  BY LessWellFounded, WFMin
<1>3. \A y \in T : ~(y < x)
  BY <1>1, <1>2
<1>4. \A y \in T : x <= y
  BY <1>3
<1>5. QED
  BY <1>4

LEMMA Induction ==
  ASSUME NEW T, 0 \in T, \A n \in Nat : n \in T => n + 1 \in T
  PROVE  Nat \subseteq T
<1> SUFFICES ASSUME Nat \ T # {} PROVE FALSE
  OBVIOUS
<1>1. PICK m \in Nat \ T : \A y \in Nat \ T : m <= y
  BY LeastNumber
<1>2. m # 0 /\ m - 1 \in Nat
  BY <1>1
<1>3. m - 1 \in T
  BY <1>1, <1>2
<1>4. QED
  BY <1>1, <1>2, <1>3

-----------------------------------------------------------------------------
(* The links of a barrier.                                                 *)

Waiting(b) == {t \in Tasklet : where[t] = b /\ phase[t] \in {"stop", "stopped"}}

\* q is the list of a barrier, from the first of m tasklets to the last.  It is
\* a circle until the last one in has taken the lock.
Links(b, m, q) ==
  /\ q \in [1 .. m -> Tasklet]
  /\ \A i, j \in 1 .. m : q[i] = q[j] => i = j
  /\ Waiting(b) = {q[i] : i \in 1 .. m}
  /\ \A i \in 1 .. m - 1 : table[q[i]] = q[i + 1]
  /\ q[m] = wait_queue[b]
  /\ q[1] = IF lock[b] = Nil THEN table[q[m]] ELSE first[lock[b]]

Listed(b) == \E m \in Nat \ {0} : \E q \in [1 .. m -> Tasklet] : Links(b, m, q)

\* A tasklet that wakes holds its barrier's lock, and nobody else holds one.
LockInv ==
  /\ \A t \in Tasklet : phase[t] = "wake" => lock[where[t]] = t
  /\ \A b \in Barriers :
       lock[b] # Nil => /\ where[lock[b]] = b /\ phase[lock[b]] = "wake"
                        /\ wait_queue[b] # Nil

CountLeft ==
  \A b \in Barriers : lock[b] = Nil => count[b] = NrTasklets - Cardinality(Waiting(b))

Queues ==
  \A b \in Barriers : IF wait_queue[b] = Nil THEN Waiting(b) = {} ELSE Listed(b)

BarrierInv == BarrierTypeOK /\ LockInv /\ CountLeft /\ Queues

LEMMA Tasklets ==
  /\ NrTasklets \in Nat \ {0}
  /\ Nil \notin Tasklet
  /\ Tasklet \subseteq Nat
  /\ IsFiniteSet(Tasklet)
  /\ Cardinality(Tasklet) = NrTasklets
<1>1. NrTasklets \in 1 .. 24
  BY BarrierAssumption
<1>2. IsFiniteSet(Tasklet) /\ Cardinality(Tasklet) = NrTasklets
  BY <1>1, FS_Interval DEF Tasklet
<1>3. QED
  BY <1>1, <1>2 DEF Tasklet, Nil

LEMMA WaitingFinite ==
  ASSUME NEW b
  PROVE  /\ Waiting(b) \subseteq Tasklet
         /\ IsFiniteSet(Waiting(b))
         /\ Cardinality(Waiting(b)) \in Nat
         /\ Cardinality(Waiting(b)) <= NrTasklets
<1>1. Waiting(b) \subseteq Tasklet
  BY DEF Waiting
<1>2. QED
  BY <1>1, Tasklets, FS_Subset, FS_CardinalityType

\* What does not touch a barrier leaves its list alone.
LEMMA ListedFrame ==
  ASSUME NEW b \in Barriers, Listed(b), BarrierTypeOK,
         Waiting(b)' = Waiting(b),
         wait_queue'[b] = wait_queue[b],
         lock'[b] = lock[b],
         lock[b] # Nil => first'[lock[b]] = first[lock[b]],
         \A u \in Waiting(b) : table'[u] = table[u]
  PROVE  Listed(b)'
<1>0. PICK m \in Nat \ {0} : \E q \in [1 .. m -> Tasklet] : Links(b, m, q)
  BY DEF Listed
<1>1. PICK q \in [1 .. m -> Tasklet] : Links(b, m, q)
  BY <1>0
<1>2. \A i \in 1 .. m : q[i] \in Waiting(b)
  BY <1>1 DEF Links
<1>3. Links(b, m, q)'
  <2>1. \A i \in 1 .. m - 1 : table'[q[i]] = q[i + 1]
    BY <1>1, <1>2 DEF Links
  <2>2. m \in 1 .. m /\ table'[q[m]] = table[q[m]]
    BY <1>2
  <2>3. q[1] = IF lock'[b] = Nil THEN table'[q[m]] ELSE first'[lock'[b]]
    BY <1>1, <2>2 DEF Links
  <2>4. QED
    BY <1>1, <2>1, <2>3 DEF Links
<1>4. QED
  BY <1>3 DEF Listed

-----------------------------------------------------------------------------
(* The steps.                                                              *)

LEMMA BarrierInitInv ==
  ASSUME Barriers # {}, BarrierInit
  PROVE  BarrierInv
<1>1. 0 \in Tasklet
  BY BarrierAssumption DEF Tasklet
<1>2. BarrierTypeOK
  BY <1>1, Tasklets DEF BarrierInit, BarrierTypeOK
<1>3. \A b \in Barriers : Waiting(b) = {}
  BY DEF BarrierInit, Waiting
<1>4. LockInv
  BY DEF BarrierInit, LockInv
<1>5. CountLeft
  BY <1>3, FS_EmptySet, Tasklets DEF BarrierInit, CountLeft
<1>6. Queues
  BY <1>3 DEF BarrierInit, Queues
<1>7. QED
  BY <1>2, <1>4, <1>5, <1>6 DEF BarrierInv

\* Steps that leave the queues and the locks alone.
LEMMA QueuesFrame ==
  ASSUME BarrierInv, \A b \in Barriers : Waiting(b)' = Waiting(b),
         UNCHANGED <<first, count, wait_queue, lock, table>>
  PROVE  CountLeft' /\ Queues'
<1>1. CountLeft'
  BY DEF BarrierInv, CountLeft
<1>2. ASSUME NEW b \in Barriers, wait_queue[b] # Nil
      PROVE  Listed(b)'
  BY <1>2, ListedFrame DEF BarrierInv, Queues
<1>3. Queues'
  BY <1>2 DEF BarrierInv, Queues
<1>4. QED
  BY <1>1, <1>3

LEMMA BarrierFrame ==
  ASSUME BarrierInv, UNCHANGED barrierVars
  PROVE  BarrierInv'
<1>1. UNCHANGED <<phase, where, first, count, wait_queue, lock, table, waits>>
  BY DEF barrierVars
<1>2. BarrierTypeOK' /\ LockInv'
  BY <1>1 DEF BarrierInv, BarrierTypeOK, LockInv
<1>3. \A c \in Barriers : Waiting(c)' = Waiting(c)
  BY <1>1 DEF Waiting
<1>4. QED
  BY <1>1, <1>2, <1>3, QueuesFrame DEF BarrierInv

LEMMA CallInv ==
  ASSUME BarrierInv, NEW t \in Tasklet, NEW b \in Barriers, Call(t, b)
  PROVE  BarrierInv'
<1>1. BarrierTypeOK'
  BY DEF Call, BarrierInv, BarrierTypeOK
<1>2. LockInv'
  BY Tasklets DEF Call, BarrierInv, BarrierTypeOK, LockInv
<1>3. \A c \in Barriers : Waiting(c)' = Waiting(c)
  BY DEF Call, BarrierInv, BarrierTypeOK, Waiting
<1>4. UNCHANGED <<first, count, wait_queue, lock, table>>
  BY DEF Call
<1>5. QED
  BY <1>1, <1>2, <1>3, <1>4, QueuesFrame DEF BarrierInv

LEMMA StopInv ==
  ASSUME BarrierInv, NEW t \in Tasklet, Stop(t)
  PROVE  BarrierInv'
<1>1. BarrierTypeOK'
  BY DEF Stop, BarrierInv, BarrierTypeOK
<1>2. LockInv'
  BY Tasklets DEF Stop, BarrierInv, BarrierTypeOK, LockInv
<1>3. \A c \in Barriers : Waiting(c)' = Waiting(c)
  BY DEF Stop, BarrierInv, BarrierTypeOK, Waiting
<1>4. UNCHANGED <<first, count, wait_queue, lock, table>>
  BY DEF Stop
<1>5. QED
  BY <1>1, <1>2, <1>3, <1>4, QueuesFrame DEF BarrierInv

\* The last one in finds all the others in the queue.
LEMMA LastInWaiting ==
  ASSUME BarrierInv, NEW t \in Tasklet, LastIn(t)
  PROVE  Waiting(where[t]) = Tasklet \ {t}
<1> DEFINE W == Waiting(where[t])
<1>1. where[t] \in Barriers /\ lock[where[t]] = Nil /\ count[where[t]] = 1
  BY DEF LastIn, BarrierInv, BarrierTypeOK
<1>2. Cardinality(W) = NrTasklets - 1
  BY <1>1, WaitingFinite, Tasklets DEF BarrierInv, CountLeft
<1>3. t \notin W
  BY DEF LastIn, Waiting
<1>4. W \subseteq Tasklet \ {t}
  BY <1>3 DEF Waiting
<1>5. IsFiniteSet(Tasklet \ {t}) /\ Cardinality(Tasklet \ {t}) = NrTasklets - 1
  BY FS_RemoveElement, Tasklets
<1>6. QED
  BY <1>2, <1>4, <1>5, FS_Subset

LEMMA LastInInv ==
  ASSUME BarrierInv, NEW t \in Tasklet, LastIn(t)
  PROVE  BarrierInv'
<1>0. PICK b \in Barriers : b = where[t]
  BY DEF BarrierInv, BarrierTypeOK
<1>1. phase[t] = "call" /\ lock[b] = Nil /\ count[b] = 1
  BY <1>0 DEF LastIn
<1>2. \A c \in Barriers : Waiting(c)' = Waiting(c)
  BY DEF LastIn, BarrierInv, BarrierTypeOK, Waiting
<1>3. CASE wait_queue[b] = Nil
  <2>1. /\ phase' = [phase EXCEPT ![t] = "out"]
        /\ UNCHANGED <<where, first, count, wait_queue, lock, table, waits>>
    BY <1>0, <1>3 DEF LastIn
  <2>2. BarrierTypeOK'
    BY <2>1 DEF BarrierInv, BarrierTypeOK
  <2>3. LockInv'
    BY <1>1, <2>1, Tasklets DEF BarrierInv, BarrierTypeOK, LockInv
  <2>4. QED
    BY <1>2, <2>1, <2>2, <2>3, QueuesFrame DEF BarrierInv
<1>4. CASE wait_queue[b] # Nil
  <2>1. /\ lock' = [lock EXCEPT ![b] = t]
        /\ first' = [first EXCEPT ![t] = table[wait_queue[b]]]
        /\ phase' = [phase EXCEPT ![t] = "wake"]
        /\ UNCHANGED <<where, count, wait_queue, table, waits>>
    BY <1>0, <1>4 DEF LastIn
  <2>0. BarrierTypeOK'
    <3>1. wait_queue[b] \in Tasklet
      BY <1>4 DEF BarrierInv, BarrierTypeOK
    <3>2. QED
      BY <2>1, <3>1 DEF BarrierInv, BarrierTypeOK
  <2>2. LockInv'
    BY <1>0, <1>1, <1>4, <2>1, Tasklets DEF BarrierInv, BarrierTypeOK, LockInv
  <2>3. CountLeft'
    BY <1>1, <1>2, <2>1, Tasklets DEF BarrierInv, BarrierTypeOK, CountLeft
  <2>4. ASSUME NEW c \in Barriers, wait_queue[c] # Nil
        PROVE  Listed(c)'
    <3>1. Listed(c)
      BY <2>4 DEF BarrierInv, Queues
    <3>2. CASE c # b
      <4>1. lock[c] # Nil => lock[c] # t
        BY <1>1 DEF BarrierInv, LockInv
      <4>2. QED
        BY <1>2, <2>1, <3>1, <3>2, <4>1, ListedFrame
           DEF BarrierInv, BarrierTypeOK
    <3>3. CASE c = b
      <4>1. PICK m \in Nat \ {0} : \E q \in [1 .. m -> Tasklet] : Links(b, m, q)
        BY <3>1, <3>3 DEF Listed
      <4>2. PICK q \in [1 .. m -> Tasklet] : Links(b, m, q)
        BY <4>1
      <4>3. lock'[b] = t /\ t # Nil /\ first'[t] = table[wait_queue[b]]
        BY <1>1, <2>1, Tasklets DEF BarrierInv, BarrierTypeOK
      <4>4. Links(b, m, q)'
        BY <1>1, <1>2, <2>1, <4>2, <4>3 DEF Links
      <4>5. QED
        BY <3>3, <4>4 DEF Listed
    <3>4. QED
      BY <3>2, <3>3
  <2>5. Queues'
    BY <1>2, <2>1, <2>4 DEF BarrierInv, Queues
  <2>6. QED
    BY <2>0, <2>2, <2>3, <2>5 DEF BarrierInv
<1>5. QED
  BY <1>3, <1>4

LEMMA QueueInv ==
  ASSUME BarrierInv, NEW t \in Tasklet, Queue(t)
  PROVE  BarrierInv'
<1>0. PICK b \in Barriers : b = where[t]
  BY DEF BarrierInv, BarrierTypeOK
<1> DEFINE last == wait_queue[b]
<1>1. /\ phase[t] = "call" /\ lock[b] = Nil /\ count[b] # 1
      /\ wait_queue' = [wait_queue EXCEPT ![b] = t]
      /\ count' = [count EXCEPT ![b] = @ - 1]
      /\ phase' = [phase EXCEPT ![t] = "stop"]
      /\ UNCHANGED <<where, first, lock, waits>>
  BY <1>0 DEF Queue
<1>2. table' = IF last = Nil THEN [table EXCEPT ![t] = t]
               ELSE [table EXCEPT ![t] = table[last], ![last] = t]
  BY <1>0 DEF Queue
<1>3. last = Nil \/ last \in Tasklet
  BY <1>1 DEF BarrierInv, BarrierTypeOK
<1>4. BarrierTypeOK'
  <2>1. count' \in [Barriers -> 1 .. NrTasklets]
    BY <1>1, Tasklets DEF BarrierInv, BarrierTypeOK
  <2>2. table' \in [Tasklet -> Tasklet]
    BY <1>2, <1>3 DEF BarrierInv, BarrierTypeOK
  <2>3. QED
    BY <1>1, <2>1, <2>2 DEF BarrierInv, BarrierTypeOK
<1>5. LockInv'
  BY <1>1, Tasklets DEF BarrierInv, BarrierTypeOK, LockInv
<1>6. t \notin Waiting(b) /\ Waiting(b)' = Waiting(b) \cup {t}
  BY <1>0, <1>1 DEF BarrierInv, BarrierTypeOK, Waiting
<1>7. \A c \in Barriers \ {b} : Waiting(c)' = Waiting(c)
  BY <1>0, <1>1 DEF BarrierInv, BarrierTypeOK, Waiting
<1>8. CountLeft'
  <2>1. Cardinality(Waiting(b)') = Cardinality(Waiting(b)) + 1
    BY <1>6, WaitingFinite, FS_AddElement
  <2>2. count'[b] = NrTasklets - Cardinality(Waiting(b)')
    BY <1>1, <2>1, WaitingFinite, Tasklets DEF BarrierInv, BarrierTypeOK, CountLeft
  <2>3. QED
    BY <1>1, <1>7, <2>2 DEF BarrierInv, BarrierTypeOK, CountLeft
<1>9. last # Nil => last \in Waiting(b)
  <2> SUFFICES ASSUME last # Nil PROVE last \in Waiting(b)
    OBVIOUS
  <2>1. PICK m \in Nat \ {0} : \E q \in [1 .. m -> Tasklet] : Links(b, m, q)
    BY <1>1 DEF BarrierInv, Queues, Listed
  <2>2. PICK q \in [1 .. m -> Tasklet] : Links(b, m, q)
    BY <2>1
  <2>3. QED
    BY <2>2 DEF Links
<1>10. ASSUME NEW c \in Barriers \ {b}, wait_queue[c] # Nil
       PROVE  Listed(c)'
  <2>1. Listed(c)
    BY <1>10 DEF BarrierInv, Queues
  <2>2. ASSUME NEW u \in Waiting(c) PROVE table'[u] = table[u]
    <3>1. u # t /\ u \in Tasklet
      BY <1>1, <2>2 DEF Waiting
    <3>2. last # Nil => u # last
      BY <1>9, <2>2 DEF Waiting
    <3>3. QED
      BY <1>2, <3>1, <3>2 DEF BarrierInv, BarrierTypeOK
  <2>3. QED
    BY <1>1, <1>7, <1>10, <2>1, <2>2, ListedFrame DEF BarrierInv, BarrierTypeOK
<1>11. Listed(b)'
  <2>1. CASE last = Nil
    <3> DEFINE p == [i \in 1 .. 1 |-> t]
    <3>1. Waiting(b) = {}
      BY <1>1, <2>1 DEF BarrierInv, Queues
    <3>2. table'[t] = t
      BY <1>2, <2>1 DEF BarrierInv, BarrierTypeOK
    <3>3. Links(b, 1, p)'
      BY <1>1, <1>6, <3>1, <3>2 DEF Links, BarrierInv, BarrierTypeOK
    <3>4. p \in [1 .. 1 -> Tasklet] /\ 1 \in Nat \ {0}
      OBVIOUS
    <3>5. QED
      <4> HIDE DEF p
      <4>1. QED
        BY <3>3, <3>4 DEF Listed
  <2>2. CASE last # Nil
    <3>1. PICK m \in Nat \ {0} : \E q \in [1 .. m -> Tasklet] : Links(b, m, q)
      BY <1>1, <2>2 DEF BarrierInv, Queues, Listed
    <3>2. PICK q \in [1 .. m -> Tasklet] : Links(b, m, q)
      BY <3>1
    <3> DEFINE p == [i \in 1 .. m + 1 |-> IF i = m + 1 THEN t ELSE q[i]]
    <3>3. p \in [1 .. m + 1 -> Tasklet] /\ m + 1 \in Nat \ {0}
      OBVIOUS
    <3>4. \A i \in 1 .. m : q[i] \in Tasklet /\ q[i] # t /\ p[i] = q[i]
      BY <1>6, <3>2 DEF Links
    <3>5. p[m + 1] = t /\ q[m] = last /\ q[1] = table[last]
      BY <1>1, <3>2 DEF Links
    <3>6. \A i, j \in 1 .. m + 1 : p[i] = p[j] => i = j
      <4>1. \A i \in 1 .. m + 1 : i \in 1 .. m \/ i = m + 1
        OBVIOUS
      <4>2. \A i, j \in 1 .. m : q[i] = q[j] => i = j
        BY <3>2 DEF Links
      <4> HIDE DEF p
      <4>3. QED
        BY <3>4, <3>5, <4>1, <4>2
    <3>7. Waiting(b)' = {p[i] : i \in 1 .. m + 1}
      <4>1. Waiting(b) = {p[i] : i \in 1 .. m}
        <5>1. Waiting(b) = {q[i] : i \in 1 .. m}
          BY <3>2 DEF Links
        <5> HIDE DEF p
        <5>2. QED
          BY <3>4, <5>1
      <4>2. {p[i] : i \in 1 .. m + 1} = {p[i] : i \in 1 .. m} \cup {t}
        BY <3>5
      <4>3. QED
        BY <1>6, <4>1, <4>2
    <3>8. \A i \in 1 .. m : table'[p[i]] = p[i + 1]
      <4>1. ASSUME NEW i \in 1 .. m - 1 PROVE table'[p[i]] = p[i + 1]
        <5>1. q[i] # q[m] /\ i \in 1 .. m /\ i + 1 \in 1 .. m
          BY <3>2 DEF Links
        <5>2. q[i] # last /\ q[i] # t
          BY <3>4, <3>5, <5>1
        <5>3. table'[q[i]] = table[q[i]]
          BY <1>2, <2>2, <3>4, <5>1, <5>2 DEF BarrierInv, BarrierTypeOK
        <5>4. table[q[i]] = q[i + 1]
          BY <3>2 DEF Links
        <5>5. QED
          BY <3>4, <5>1, <5>3, <5>4
      <4>2. table'[p[m]] = p[m + 1]
        BY <1>2, <1>3, <2>2, <3>4, <3>5 DEF BarrierInv, BarrierTypeOK
      <4>3. \A i \in 1 .. m : i \in 1 .. m - 1 \/ i = m
        OBVIOUS
      <4> HIDE DEF p
      <4>4. QED
        BY <4>1, <4>2, <4>3
    <3>9. table'[t] = table[last]
      BY <1>2, <1>3, <1>6, <1>9, <2>2 DEF BarrierInv, BarrierTypeOK
    <3>10. p[1] = table'[p[m + 1]]
      BY <3>4, <3>5, <3>9
    <3>11. lock'[b] = Nil /\ wait_queue'[b] = t
      BY <1>1 DEF BarrierInv, BarrierTypeOK
    <3>12. Links(b, m + 1, p)'
      <4> HIDE DEF p
      <4>1. m + 1 - 1 = m
        OBVIOUS
      <4>2. QED
        BY <3>3, <3>5, <3>6, <3>7, <3>8, <3>10, <3>11, <4>1 DEF Links
    <3>13. QED
      BY <3>3, <3>12 DEF Listed
  <2>3. QED
    BY <2>1, <2>2
<1>12. Queues'
  BY <1>1, <1>7, <1>10, <1>11, Tasklets DEF BarrierInv, BarrierTypeOK, Queues
<1>13. QED
  BY <1>4, <1>5, <1>8, <1>12 DEF BarrierInv

\* The tasklet resumed is the first of the list.
LEMMA WakeFirst ==
  ASSUME BarrierInv, NEW t \in Tasklet, Wake(t)
  PROVE  /\ lock[where[t]] = t /\ wait_queue[where[t]] # Nil
         /\ first[t] \in Waiting(where[t])
<1>1. lock[where[t]] = t /\ where[t] \in Barriers /\ t # Nil
  BY Tasklets DEF Wake, BarrierInv, BarrierTypeOK, LockInv
<1>2. wait_queue[where[t]] # Nil
  BY <1>1 DEF BarrierInv, LockInv
<1>3. PICK m \in Nat \ {0} : \E q \in [1 .. m -> Tasklet] : Links(where[t], m, q)
  BY <1>1, <1>2 DEF BarrierInv, Queues, Listed
<1>4. PICK q \in [1 .. m -> Tasklet] : Links(where[t], m, q)
  BY <1>3
<1>5. QED
  BY <1>1, <1>2, <1>4 DEF Links

LEMMA WakeInv ==
  ASSUME BarrierInv, NEW t \in Tasklet, Wake(t)
  PROVE  BarrierInv'
<1>0. PICK b \in Barriers, f \in Tasklet : b = where[t] /\ f = first[t]
  BY DEF BarrierInv, BarrierTypeOK
<1>1. /\ phase[t] = "wake" /\ phase[f] = "stopped" /\ f # t
      /\ UNCHANGED <<where, table, waits>>
  BY <1>0 DEF Wake
<1>2. lock[b] = t /\ t # Nil /\ wait_queue[b] # Nil /\ f \in Waiting(b)
  BY <1>0, WakeFirst, Tasklets
<1>3. PICK m \in Nat \ {0} : \E q \in [1 .. m -> Tasklet] : Links(b, m, q)
  BY <1>2 DEF BarrierInv, Queues, Listed
<1>4. PICK q \in [1 .. m -> Tasklet] : Links(b, m, q)
  BY <1>3
<1>5. q[1] = f /\ q[m] = wait_queue[b]
  BY <1>0, <1>2, <1>4 DEF Links
<1>6. \A c \in Barriers \ {b} : f \notin Waiting(c) /\ t \notin Waiting(c)
  BY <1>1, <1>2 DEF Waiting
<1>7. \A c \in Barriers \ {b} : lock[c] # t
  BY <1>0, <1>1, <1>2 DEF BarrierInv, LockInv
<1>8. CASE f # wait_queue[b]
  <2>1. /\ phase' = [phase EXCEPT ![f] = "out"]
        /\ first' = [first EXCEPT ![t] = table[f]]
        /\ UNCHANGED <<count, wait_queue, lock>>
    BY <1>0, <1>8 DEF Wake
  <2>2. BarrierTypeOK'
    BY <1>1, <2>1 DEF BarrierInv, BarrierTypeOK
  <2>3. LockInv'
    <3>1. UNCHANGED <<lock, where, wait_queue>>
      BY <1>1, <2>1
    <3>2. f # t /\ \A c \in Barriers : lock[c] # f
      <4>1. SUFFICES ASSUME NEW c \in Barriers, lock[c] = f PROVE FALSE
        BY <1>1
      <4>2. phase[lock[c]] = "wake"
        BY <4>1, Tasklets DEF BarrierInv, LockInv
      <4>3. QED
        BY <1>1, <4>1, <4>2
    <3>3. \A u \in Tasklet \ {f} : phase'[u] = phase[u]
      BY <2>1 DEF BarrierInv, BarrierTypeOK
    <3>4. phase'[f] = "out"
      BY <1>2, <2>1 DEF BarrierInv, BarrierTypeOK, Waiting
    <3>5. \A c \in Barriers : lock[c] # Nil => lock[c] \in Tasklet
      BY DEF BarrierInv, BarrierTypeOK
    <3>6. QED
      BY <3>1, <3>2, <3>3, <3>4, <3>5 DEF BarrierInv, LockInv
  <2>4. \A c \in Barriers \ {b} : Waiting(c)' = Waiting(c)
    BY <1>1, <1>6, <2>1 DEF BarrierInv, BarrierTypeOK, Waiting
  <2>5. CountLeft'
    BY <1>2, <2>1, <2>4 DEF BarrierInv, CountLeft
  <2>6. ASSUME NEW c \in Barriers \ {b}, wait_queue[c] # Nil
        PROVE  Listed(c)'
    BY <1>1, <1>7, <2>1, <2>4, <2>6, ListedFrame DEF BarrierInv, BarrierTypeOK, Queues
  <2>7. Listed(b)'
    <3> DEFINE n == m - 1
               p == [i \in 1 .. n |-> q[i + 1]]
    <3>1. m # 1 /\ n \in Nat \ {0}
      BY <1>5, <1>8
    <3>2. p \in [1 .. n -> Tasklet]
      BY <3>1
    <3>3. \A i \in 1 .. n : p[i] = q[i + 1] /\ i + 1 \in 1 .. m
      BY <3>1
    <3>4. Waiting(b)' = Waiting(b) \ {f}
      BY <1>1, <1>2, <2>1 DEF BarrierInv, BarrierTypeOK, Waiting
    <3>5. Waiting(b)' = {p[i] : i \in 1 .. n}
      <4>1. \A i \in 1 .. m : i = 1 \/ (i - 1 \in 1 .. n /\ p[i - 1] = q[i])
        BY <3>1, <3>3
      <4>2. \A i \in 1 .. n : p[i] # f /\ p[i] \in Waiting(b)
        BY <1>4, <1>5, <3>3 DEF Links
      <4>3. \A u \in Waiting(b) : \E i \in 1 .. m : u = q[i]
        BY <1>4 DEF Links
      <4> HIDE DEF p, n
      <4>4. \A u \in Waiting(b) \ {f} : \E i \in 1 .. n : u = p[i]
        BY <1>5, <4>1, <4>3
      <4>5. QED
        BY <3>4, <4>2, <4>4
    <3>6. \A i, j \in 1 .. n : p[i] = p[j] => i = j
      <4>1. ASSUME NEW i \in 1 .. n, NEW j \in 1 .. n, p[i] = p[j] PROVE i = j
        <5>1. i + 1 = j + 1
          BY <1>4, <3>3, <4>1 DEF Links
        <5>2. QED
          BY <5>1
      <4>2. QED
        BY <4>1
    <3>7. \A i \in 1 .. n - 1 : table[p[i]] = p[i + 1]
      <4>1. ASSUME NEW i \in 1 .. n - 1 PROVE table[p[i]] = p[i + 1]
        <5>1. i \in 1 .. n /\ i + 1 \in 1 .. n /\ i + 1 \in 1 .. m - 1
          OBVIOUS
        <5>2. QED
          BY <1>4, <3>3, <5>1 DEF Links
      <4>2. QED
        BY <4>1
    <3>8. p[n] = wait_queue[b]
      BY <1>5, <3>1, <3>3
    <3>9. p[1] = table[f]
      <4>1. 1 \in 1 .. m - 1
        BY <3>1
      <4>2. table[q[1]] = q[1 + 1]
        BY <1>4, <4>1 DEF Links
      <4>3. QED
        BY <1>5, <3>1, <3>3, <4>2
    <3>10. lock'[b] # Nil /\ first'[lock'[b]] = table[f]
      BY <1>2, <2>1 DEF BarrierInv, BarrierTypeOK
    <3>11. Links(b, n, p)'
      <4> HIDE DEF p, n
      <4>1. QED
        BY <1>1, <2>1, <3>2, <3>5, <3>6, <3>7, <3>8, <3>9, <3>10 DEF Links
    <3>12. QED
      <4> HIDE DEF p, n
      <4>1. QED
        BY <3>1, <3>2, <3>11 DEF Listed
  <2>8. Queues'
    BY <1>2, <2>1, <2>4, <2>6, <2>7 DEF BarrierInv, Queues
  <2>9. QED
    BY <2>2, <2>3, <2>5, <2>8 DEF BarrierInv
<1>9. CASE f = wait_queue[b]
  <2>1. /\ phase' = [phase EXCEPT ![f] = "out", ![t] = "out"]
        /\ wait_queue' = [wait_queue EXCEPT ![b] = Nil]
        /\ count' = [count EXCEPT ![b] = NrTasklets]
        /\ lock' = [lock EXCEPT ![b] = Nil]
        /\ UNCHANGED first
    BY <1>0, <1>9 DEF Wake
  <2>2. BarrierTypeOK'
    <3>1. NrTasklets \in 1 .. NrTasklets
      BY Tasklets
    <3>2. phase' \in [Tasklet -> {"out", "call", "stop", "stopped", "wake"}]
      BY <2>1 DEF BarrierInv, BarrierTypeOK
    <3>3. QED
      BY <1>1, <2>1, <3>1, <3>2 DEF BarrierInv, BarrierTypeOK
  <2>3. LockInv'
    <3>1. \A u \in Tasklet \ {f, t} : phase'[u] = phase[u]
      BY <2>1 DEF BarrierInv, BarrierTypeOK
    <3>2. phase'[f] = "out" /\ phase'[t] = "out"
      BY <1>0, <1>2, <2>1 DEF BarrierInv, BarrierTypeOK, Waiting
    <3>3. \A c \in Barriers \ {b} : lock'[c] = lock[c] /\ wait_queue'[c] = wait_queue[c]
      BY <2>1 DEF BarrierInv, BarrierTypeOK
    <3>4. lock'[b] = Nil
      BY <2>1 DEF BarrierInv, BarrierTypeOK
    <3>5. \A c \in Barriers \ {b} : lock[c] # f /\ lock[c] # t
      <4>1. SUFFICES ASSUME NEW c \in Barriers, lock[c] = f PROVE FALSE
        BY <1>7
      <4>2. phase[lock[c]] = "wake"
        BY <4>1, Tasklets DEF BarrierInv, LockInv
      <4>3. QED
        BY <1>1, <4>1, <4>2
    <3>6. \A u \in Tasklet \ {f, t} : phase[u] = "wake" => lock[where[u]] = u /\ where[u] \in Barriers
      BY DEF BarrierInv, BarrierTypeOK, LockInv
    <3>7. ASSUME NEW u \in Tasklet, phase'[u] = "wake" PROVE lock'[where'[u]] = u
      <4>1. u \in Tasklet \ {f, t} /\ phase[u] = "wake"
        BY <3>1, <3>2, <3>7
      <4>2. where[u] # b
        BY <1>2, <3>6, <4>1
      <4>3. QED
        BY <1>1, <3>3, <3>6, <4>1, <4>2
    <3>8. ASSUME NEW c \in Barriers, lock'[c] # Nil
          PROVE  where'[lock'[c]] = c /\ phase'[lock'[c]] = "wake" /\ wait_queue'[c] # Nil
      <4>1. c # b /\ lock'[c] = lock[c] /\ lock[c] # f /\ lock[c] # t
        BY <3>3, <3>4, <3>5, <3>8
      <4>2. lock[c] \in Tasklet
        BY <3>8, <4>1 DEF BarrierInv, BarrierTypeOK
      <4>3. QED
        BY <1>1, <3>1, <3>3, <3>8, <4>1, <4>2 DEF BarrierInv, LockInv
    <3>9. QED
      BY <3>7, <3>8 DEF LockInv
  <2>4. \A c \in Barriers \ {b} : Waiting(c)' = Waiting(c)
    BY <1>1, <1>6, <2>1 DEF BarrierInv, BarrierTypeOK, Waiting
  <2>5. Waiting(b)' = {}
    <3>1. m = 1
      BY <1>4, <1>5, <1>9 DEF Links
    <3>2. Waiting(b) = {f}
      BY <1>4, <1>5, <3>1 DEF Links
    <3>3. QED
      BY <1>1, <2>1, <3>2 DEF BarrierInv, BarrierTypeOK, Waiting
  <2>6. CountLeft'
    <3>1. count'[b] = NrTasklets - Cardinality(Waiting(b)')
      BY <2>1, <2>5, FS_EmptySet, Tasklets DEF BarrierInv, BarrierTypeOK
    <3>2. \A c \in Barriers \ {b} : count'[c] = count[c] /\ lock'[c] = lock[c]
      BY <2>1 DEF BarrierInv, BarrierTypeOK
    <3>3. QED
      BY <2>4, <3>1, <3>2 DEF BarrierInv, CountLeft
  <2>7. ASSUME NEW c \in Barriers \ {b}, wait_queue[c] # Nil
        PROVE  Listed(c)'
    BY <1>1, <1>7, <2>1, <2>4, <2>7, ListedFrame DEF BarrierInv, BarrierTypeOK, Queues
  <2>8. Queues'
    BY <2>1, <2>4, <2>5, <2>7 DEF BarrierInv, BarrierTypeOK, Queues
  <2>9. QED
    BY <2>2, <2>3, <2>6, <2>8 DEF BarrierInv
<1>10. QED
  BY <1>8, <1>9

LEMMA BarrierStepInv ==
  ASSUME BarrierInv, NEW t \in Tasklet, BarrierStep(t)
  PROVE  BarrierInv'
BY QueueInv, StopInv, LastInInv, WakeInv DEF BarrierStep

-----------------------------------------------------------------------------
(* The walk of the one that wakes.                                         *)

\* The walk along the links takes its n-th step from its (n - 1)-th.
LEMMA WalkExists ==
  ASSUME NEW f \in Tasklet, table \in [Tasklet -> Tasklet], NEW N \in Nat
  PROVE  \E g : g = [n \in 0 .. N |-> IF n = 0 THEN f ELSE table[g[n - 1]]]
<1> DEFINE Good(g, k) == g[0] = f /\ \A n \in 1 .. k : g[n] = table[g[n - 1]]
           T == {k \in Nat : \E g \in [0 .. k -> Tasklet] : Good(g, k)}
<1>1. 0 \in T
  <2> DEFINE g == [n \in 0 .. 0 |-> f]
  <2>1. g \in [0 .. 0 -> Tasklet] /\ Good(g, 0)
    OBVIOUS
  <2>2. QED
    BY <2>1
<1>2. ASSUME NEW k \in Nat, k \in T PROVE k + 1 \in T
  <2>1. PICK g \in [0 .. k -> Tasklet] : Good(g, k)
    BY <1>2
  <2> DEFINE h == [n \in 0 .. k + 1 |-> IF n = k + 1 THEN table[g[k]] ELSE g[n]]
  <2>2. h \in [0 .. k + 1 -> Tasklet]
    OBVIOUS
  <2>3. \A n \in 0 .. k : h[n] = g[n]
    OBVIOUS
  <2>4. h[k + 1] = table[h[k]]
    BY <2>3
  <2>5. \A n \in 1 .. k + 1 : h[n] = table[h[n - 1]]
    BY <2>1, <2>3, <2>4
  <2>6. Good(h, k + 1)
    BY <2>1, <2>3, <2>5
  <2>7. \E g2 \in [0 .. k + 1 -> Tasklet] : Good(g2, k + 1)
    <3> HIDE DEF h, Good
    <3>1. QED
      BY <2>2, <2>6
  <2>8. QED
    BY <2>7
<1>3. N \in T
  <2> HIDE DEF T
  <2>1. QED
    BY <1>1, <1>2, Induction
<1>4. PICK g \in [0 .. N -> Tasklet] : Good(g, N)
  BY <1>3
<1>5. g = [n \in 0 .. N |-> IF n = 0 THEN f ELSE table[g[n - 1]]]
  BY <1>4
<1>6. QED
  BY <1>5

\* The walk from the first to the last of a list visits the list and nothing else.
LEMMA WalkLinks ==
  ASSUME BarrierInv, NEW m \in Nat \ {0}, NEW q \in [1 .. m -> Tasklet],
         \A i, j \in 1 .. m : q[i] = q[j] => i = j,
         \A i \in 1 .. m - 1 : table[q[i]] = q[i + 1]
  PROVE  Walk(q[1], q[m]) = {q[i] : i \in 1 .. m}
<1> DEFINE at == CHOOSE g : g = [n \in 0 .. NrTasklets |->
                                   IF n = 0 THEN q[1] ELSE table[g[n - 1]]]
           Steps == {n \in 0 .. NrTasklets - 1 : \A l \in 0 .. n - 1 : at[l] # q[m]}
<1>1. Walk(q[1], q[m]) = {at[n] : n \in Steps}
  BY DEF Walk
<1>2. at = [n \in 0 .. NrTasklets |-> IF n = 0 THEN q[1] ELSE table[at[n - 1]]]
  <2>1. \E g : g = [n \in 0 .. NrTasklets |-> IF n = 0 THEN q[1] ELSE table[g[n - 1]]]
    <3>1. q[1] \in Tasklet /\ table \in [Tasklet -> Tasklet] /\ NrTasklets \in Nat
      BY Tasklets DEF BarrierInv, BarrierTypeOK
    <3>2. QED
      BY <3>1, WalkExists
  <2>2. QED
    BY <2>1
<1> HIDE DEF at
<1>3. at[0] = q[1] /\ \A n \in 1 .. NrTasklets : at[n] = table[at[n - 1]]
  <2> DEFINE h == [n \in 0 .. NrTasklets |-> IF n = 0 THEN q[1] ELSE table[at[n - 1]]]
  <2>0. \A n \in 0 .. NrTasklets : h[n] = IF n = 0 THEN q[1] ELSE table[at[n - 1]]
    BY Zenon
  <2>1. h[0] = q[1] /\ \A n \in 1 .. NrTasklets : h[n] = table[at[n - 1]]
    <3> HIDE DEF h
    <3>1. QED
      BY <2>0, Tasklets
  <2>2. at = h
    BY <1>2
  <2> HIDE DEF h
  <2>3. QED
    BY <2>1, <2>2
<1>4. m <= NrTasklets
  <2>1. q \in Injection(1 .. m, Tasklet)
    BY DEF Injection, IsInjective
  <2>2. IsFiniteSet(1 .. m) /\ Cardinality(1 .. m) = m
    BY FS_Interval
  <2>3. QED
    BY <2>1, <2>2, Tasklets, FS_Injection
<1>5. \A n \in 0 .. m - 1 : at[n] = q[n + 1]
  <2> DEFINE T == {n \in Nat : n <= m - 1 => at[n] = q[n + 1]}
  <2>1. 0 \in T
    BY <1>3
  <2>2. ASSUME NEW n \in Nat, n \in T PROVE n + 1 \in T
    <3> SUFFICES ASSUME n + 1 <= m - 1 PROVE at[n + 1] = q[n + 1 + 1]
      OBVIOUS
    <3>1. at[n] = q[n + 1]
      BY <2>2
    <3>2. at[n + 1] = table[at[n]]
      BY <1>3, <1>4, Tasklets
    <3>3. n + 1 \in 1 .. m - 1
      OBVIOUS
    <3>4. QED
      BY <3>1, <3>2, <3>3
  <2> HIDE DEF T
  <2>3. Nat \subseteq T
    BY <2>1, <2>2, Induction
  <2>4. QED
    BY <2>3 DEF T
<1>6. Steps = 0 .. m - 1
  <2>1. ASSUME NEW n \in 0 .. NrTasklets - 1, n > m - 1
        PROVE  \E l \in 0 .. n - 1 : at[l] = q[m]
    <3>1. m - 1 \in 0 .. n - 1 /\ m - 1 \in 0 .. m - 1 /\ m - 1 + 1 = m
      BY <2>1
    <3>2. at[m - 1] = q[m]
      BY <1>5, <3>1
    <3>3. QED
      BY <3>1, <3>2
  <2>2. ASSUME NEW n \in 0 .. m - 1, NEW l \in 0 .. n - 1
        PROVE  at[l] # q[m]
    <3>1. at[l] = q[l + 1] /\ l + 1 \in 1 .. m /\ l + 1 # m /\ m \in 1 .. m
      BY <1>5
    <3>2. QED
      BY <3>1
  <2>3. \A n : n \in Steps <=> n \in 0 .. NrTasklets - 1 /\ \A l \in 0 .. n - 1 : at[l] # q[m]
    OBVIOUS
  <2>4. \A n \in 0 .. m - 1 : n \in 0 .. NrTasklets - 1
    BY <1>4, Tasklets
  <2>5. \A n \in 0 .. NrTasklets - 1 : n > m - 1 \/ n \in 0 .. m - 1
    BY Tasklets
  <2> HIDE DEF Steps
  <2>6. \A n \in Steps : n \in 0 .. m - 1
    BY <2>1, <2>3, <2>5
  <2>7. \A n \in 0 .. m - 1 : n \in Steps
    BY <2>2, <2>3, <2>4
  <2>8. QED
    BY <2>6, <2>7
<1>7. {at[n] : n \in 0 .. m - 1} = {q[i] : i \in 1 .. m}
  <2>1. \A i \in 1 .. m : i - 1 \in 0 .. m - 1 /\ at[i - 1] = q[i]
    BY <1>5
  <2>2. \A n \in 0 .. m - 1 : n + 1 \in 1 .. m
    OBVIOUS
  <2>3. \A n \in 0 .. m - 1 : \E i \in 1 .. m : at[n] = q[i]
    BY <1>5, <2>2
  <2>4. \A i \in 1 .. m : \E n \in 0 .. m - 1 : q[i] = at[n]
    BY <2>1
  <2>5. {at[n] : n \in 0 .. m - 1} \subseteq {q[i] : i \in 1 .. m}
    BY <2>3
  <2>6. {q[i] : i \in 1 .. m} \subseteq {at[n] : n \in 0 .. m - 1}
    <3>1. ASSUME NEW x \in {q[i] : i \in 1 .. m} PROVE x \in {at[n] : n \in 0 .. m - 1}
      <4>1. PICK i \in 1 .. m : x = q[i]
        OBVIOUS
      <4>2. PICK n \in 0 .. m - 1 : q[i] = at[n]
        BY <2>4
      <4>3. QED
        BY <4>1, <4>2
    <3>2. QED
      BY <3>1
  <2>7. QED
    BY <2>5, <2>6
<1>8. QED
  BY <1>1, <1>6, <1>7

LEMMA NobodyIsForgotten == BarrierInv => NobodyForgotten
<1> SUFFICES ASSUME BarrierInv, NEW b \in Barriers
             PROVE  Queued(b) = Waiting(b)
  BY DEF NobodyForgotten, Waiting
<1>1. CASE wait_queue[b] = Nil
  BY <1>1 DEF BarrierInv, Queues, Queued
<1>2. CASE wait_queue[b] # Nil
  <2>1. PICK m \in Nat \ {0} : \E q \in [1 .. m -> Tasklet] : Links(b, m, q)
    BY <1>2 DEF BarrierInv, Queues, Listed
  <2>2. PICK q \in [1 .. m -> Tasklet] : Links(b, m, q)
    BY <2>1
  <2>3. Walk(q[1], q[m]) = Waiting(b)
    <3>1. /\ \A i, j \in 1 .. m : q[i] = q[j] => i = j
          /\ \A i \in 1 .. m - 1 : table[q[i]] = q[i + 1]
          /\ Waiting(b) = {q[i] : i \in 1 .. m}
      BY <2>2 DEF Links
    <3>2. Walk(q[1], q[m]) = {q[i] : i \in 1 .. m}
      BY <3>1, WalkLinks
    <3>3. QED
      BY <3>1, <3>2
  <2>4. Queued(b) = Walk(q[1], q[m])
    BY <1>2, <2>2 DEF Queued, Links
  <2>5. QED
    BY <2>3, <2>4
<1>3. QED
  BY <1>1, <1>2

-----------------------------------------------------------------------------
(* The tasklets between their waits.                                       *)

\* A tasklet has begun three waits in each finished round of its main loop.
Offset(at) == IF at = "compute" THEN 1 ELSE IF at = "flag" THEN 2 ELSE 0
Round(t) == (waits[t] - Offset(pc[t])) \div 3

\* The waits it has ended, and the partitions the DPU has finished.
Left(t) == waits[t] - (IF phase[t] = "out" THEN 0 ELSE 1)
Flags == Round(0)

RoundInv ==
  \A t \in Tasklet :
    /\ waits[t] = 3 * Round(t) + Offset(pc[t])
    /\ pc[t] = "start" => waits[t] = 0
    /\ phase[t] # "out" => \/ pc[t] = "compute" /\ where[t] = "my_barrier"
                           \/ pc[t] = "flag" /\ where[t] = "exec_barrier"
                           \/ pc[t] = "outer" /\ where[t] = "flag_barrier"
    /\ rows[t] = IF pc[t] = "flag" THEN Round(t) ELSE Round(t) - 1

\* No wait returns early: nobody has ended more waits than another has begun.
Together ==
  /\ \A t, u \in Tasklet : Left(t) <= waits[u]
  /\ \A t, u \in Tasklet : phase[t] = "wake" => waits[t] <= waits[u]

\* The state, the partition, and how far the tasklets are.
StateInv ==
  /\ \A t \in Tasklet :
       waits[t] > 3 * Flags \/ (pc[t] = "reset" /\ waits[t] = 3 * Flags)
       => OFIS_dpu_state = 2
  /\ OFIS_dpu_state = 2 => job = Flags /\ ~sent
  /\ OFIS_dpu_state = 1 => Flags > 0 /\ job = IF sent THEN Flags ELSE Flags - 1
  /\ OFIS_dpu_state = 0 =>
       /\ ~sent
       /\ \/ job = 0 /\ \A t \in Tasklet : pc[t] = "start"
          \/ Flags > 0 /\ job = Flags - 1 /\ job = NrJobs - 1
  /\ \A t \in Tasklet : pc[t] = "return" => OFIS_dpu_state = 0

KernelTypeOK ==
  /\ OFIS_dpu_state \in 0 .. 2
  /\ pc \in [Tasklet -> Pc]
  /\ job \in 0 .. NrJobs - 1
  /\ rows \in [Tasklet -> -1 .. NrJobs - 1]
  /\ sent \in BOOLEAN

IInv == KernelTypeOK /\ BarrierInv /\ RoundInv /\ Together /\ StateInv

LEMMA Zero == 0 \in Tasklet /\ NrJobs \in Nat \ {0} /\ Barriers # {}
BY BarrierAssumption, KernelAssumption DEF Tasklet

LEMMA Rounds ==
  ASSUME IInv, NEW t \in Tasklet
  PROVE  /\ Offset(pc[t]) \in 0 .. 2
         /\ Round(t) \in Nat
         /\ waits[t] \in Nat
         /\ waits[t] = 3 * Round(t) + Offset(pc[t])
         /\ Left(t) \in Int
         /\ Left(t) = waits[t] \/ Left(t) = waits[t] - 1
<1>1. waits[t] \in Nat
  BY DEF IInv, BarrierInv, BarrierTypeOK
<1>2. waits[t] = 3 * Round(t) + Offset(pc[t])
  BY DEF IInv, RoundInv
<1>3. Offset(pc[t]) \in 0 .. 2
  BY DEF Offset
<1>4. Round(t) \in Int
  BY <1>1, <1>3 DEF Round
<1>5. QED
  BY <1>1, <1>2, <1>3, <1>4 DEF Left

\* Two tasklets at one barrier are at the same wait.
LEMMA SameWait ==
  ASSUME IInv, NEW t \in Tasklet, NEW u \in Tasklet,
         phase[t] # "out", phase[u] # "out", where[t] = where[u]
  PROVE  waits[t] = waits[u]
<1>1. pc[t] = pc[u]
  BY DEF IInv, RoundInv
<1>2. Left(t) = waits[t] - 1 /\ Left(u) = waits[u] - 1
  BY DEF Left
<1>3. waits[t] - 1 <= waits[u] /\ waits[u] - 1 <= waits[t]
  BY <1>2 DEF IInv, Together
<1>4. QED
  BY <1>1, <1>3, Rounds

LEMMA InitInv == Init => IInv
<1> SUFFICES ASSUME Init PROVE IInv
  OBVIOUS
<1>1. BarrierInv
  BY Zero, BarrierInitInv DEF Init
<1>2. KernelTypeOK
  <2>1. 0 \in 0 .. NrJobs - 1 /\ -1 \in -1 .. NrJobs - 1
    BY Zero
  <2>2. pc \in [Tasklet -> Pc]
    BY DEF Init, Pc
  <2>3. rows \in [Tasklet -> -1 .. NrJobs - 1]
    BY <2>1 DEF Init
  <2>4. OFIS_dpu_state \in 0 .. 2 /\ job \in 0 .. NrJobs - 1
    BY <2>1 DEF Init
  <2>5. sent \in BOOLEAN
    BY DEF Init
  <2>6. QED
    BY <2>2, <2>3, <2>4, <2>5 DEF KernelTypeOK
<1>3. \A t \in Tasklet : /\ pc[t] = "start" /\ phase[t] = "out" /\ waits[t] = 0
                         /\ rows[t] = -1
  BY DEF Init, BarrierInit
<1>4. \A t \in Tasklet : Round(t) = 0 /\ Offset(pc[t]) = 0 /\ Left(t) = 0
  BY <1>3 DEF Round, Offset, Left
<1>5. RoundInv
  BY <1>3, <1>4 DEF RoundInv
<1>6. Together
  BY <1>3, <1>4 DEF Together
<1>7. StateInv
  BY <1>3, <1>4, Zero DEF Init, StateInv, Flags
<1>8. QED
  BY <1>1, <1>2, <1>5, <1>6, <1>7 DEF IInv

-----------------------------------------------------------------------------
(* Steps that begin no wait.                                               *)

\* A tasklet that goes on without a wait.
LEMMA GoesOn ==
  ASSUME IInv, NEW t \in Tasklet, NEW from, NEW to \in Pc, pc[t] = from,
         phase[t] = "out", Goto(t, to), Offset(from) = 0, Offset(to) = 0,
         UNCHANGED <<barrierVars, job, rows, sent>>,
         to # "start", OFIS_dpu_state' \in 0 .. 2
  PROVE  /\ KernelTypeOK' /\ BarrierInv' /\ RoundInv' /\ Together'
         /\ Flags' = Flags
<1>1. pc' = [pc EXCEPT ![t] = to] /\ pc \in [Tasklet -> Pc]
  BY DEF Goto, IInv, KernelTypeOK
<1>2. \A u \in Tasklet : Offset(pc'[u]) = Offset(pc[u])
  BY <1>1
<1>3. UNCHANGED <<phase, where, first, count, wait_queue, lock, table, waits>>
  BY DEF barrierVars
<1>4. BarrierInv'
  BY BarrierFrame DEF IInv
<1>5. \A u \in Tasklet : Round(u)' = Round(u) /\ Left(u)' = Left(u)
  BY <1>2, <1>3 DEF Round, Left
<1>6. RoundInv'
  BY <1>1, <1>2, <1>3, <1>5 DEF IInv, RoundInv, Offset
<1>7. Together'
  BY <1>3, <1>5 DEF IInv, Together
<1>8. KernelTypeOK'
  BY <1>1 DEF IInv, KernelTypeOK
<1>9. Flags' = Flags
  BY <1>5, Zero DEF Flags
<1>10. QED
  BY <1>4, <1>6, <1>7, <1>8, <1>9

LEMMA StartInv ==
  ASSUME IInv, NEW t \in Tasklet, Start(t)
  PROVE  IInv'
<1>1. /\ pc[t] = "start" /\ phase[t] = "out" /\ OFIS_dpu_state' = 2
      /\ pc' = [pc EXCEPT ![t] = "outer"] /\ UNCHANGED <<barrierVars, job, rows, sent>>
  BY DEF Start, At, Goto
<1>2. /\ KernelTypeOK' /\ BarrierInv' /\ RoundInv' /\ Together' /\ Flags' = Flags
      /\ waits' = waits /\ job' = job /\ sent' = sent
  <2>1. "outer" \in Pc /\ "outer" # "start" /\ Offset("start") = 0 /\ Offset("outer") = 0
        /\ OFIS_dpu_state' \in 0 .. 2
    BY <1>1 DEF Pc, Offset
  <2>2. QED
    BY <1>1, <2>1, GoesOn DEF Goto, barrierVars
\* Tasklet t has not waited yet, so nobody has ended a wait.
<1>3. Flags = 0
  <2>1. Left(0) <= waits[t] /\ waits[t] = 0
    BY <1>1, Zero DEF IInv, Together, RoundInv
  <2>2. QED
    BY <2>1, Zero, Rounds DEF Flags
<1>4. OFIS_dpu_state \in {0, 2} /\ job = Flags /\ ~sent
  BY <1>3, Zero DEF IInv, StateInv, KernelTypeOK
<1>5. \A u \in Tasklet : pc[u] # "return"
  BY <1>1, <1>3, <1>4, Zero DEF IInv, StateInv
<1>6. StateInv'
  <2>1. \A u \in Tasklet : pc'[u] # "return"
    BY <1>1, <1>5 DEF IInv, KernelTypeOK
  <2>2. QED
    BY <1>1, <1>2, <1>4, <2>1 DEF StateInv
<1>7. QED
  BY <1>2, <1>6 DEF IInv

\* The reads of the two loops and of the test between them.
LEMMA LoopInv ==
  ASSUME IInv, NEW t \in Tasklet, Outer(t) \/ Inner(t) \/ Check(t)
  PROVE  IInv'
<1>1. PICK from \in Pc, to \in Pc :
        /\ pc[t] = from /\ Goto(t, to) /\ phase[t] = "out"
        /\ from \in {"outer", "inner", "check"}
        /\ to \in {"inner", "check", "reset", "return"}
        /\ to = "reset" => OFIS_dpu_state = 2
        /\ to = "return" => OFIS_dpu_state = 0
        /\ OFIS_dpu_state' = OFIS_dpu_state
        /\ UNCHANGED <<barrierVars, job, rows, sent>>
  <2>1. CASE Outer(t)
    BY <2>1 DEF Outer, At, Pc
  <2>2. CASE Inner(t)
    BY <2>2 DEF Inner, At, Pc
  <2>3. CASE Check(t)
    BY <2>3 DEF Check, At, Pc
  <2>4. QED
    BY <2>1, <2>2, <2>3
<1>2. /\ KernelTypeOK' /\ BarrierInv' /\ RoundInv' /\ Together' /\ Flags' = Flags
      /\ waits' = waits
  <2>1. Offset(from) = 0 /\ Offset(to) = 0 /\ to # "start"
    BY <1>1 DEF Offset
  <2>2. OFIS_dpu_state' \in 0 .. 2
    BY <1>1 DEF IInv, KernelTypeOK
  <2>3. QED
    BY <1>1, <2>1, <2>2, GoesOn DEF barrierVars
<1>3. pc' = [pc EXCEPT ![t] = to] /\ pc \in [Tasklet -> Pc]
  BY <1>1 DEF Goto, IInv, KernelTypeOK
<1>4. StateInv'
  BY <1>1, <1>2, <1>3 DEF IInv, StateInv
<1>5. QED
  BY <1>2, <1>4 DEF IInv

-----------------------------------------------------------------------------
(* Steps that begin a wait.                                                *)

LEMMA Calls ==
  ASSUME IInv, NEW t \in Tasklet, NEW b \in Barriers, NEW to \in Pc, pc[t] # "start",
         Call(t, b), Goto(t, to),
         \/ pc[t] = "reset" /\ to = "compute" /\ b = "my_barrier" /\ rows' = rows
         \/ pc[t] = "compute" /\ to = "flag" /\ b = "exec_barrier"
            /\ rows' = [rows EXCEPT ![t] = Round(t)]
         \/ pc[t] = "flag" /\ to = "outer" /\ b = "flag_barrier" /\ rows' = rows
  PROVE  /\ BarrierInv' /\ RoundInv' /\ Together'
         /\ waits' = [waits EXCEPT ![t] = waits[t] + 1]
         /\ \A u \in Tasklet : Round(u)' =
              IF u = t /\ pc[t] = "flag" THEN Round(u) + 1 ELSE Round(u)
<1>1. /\ phase[t] = "out" /\ phase' = [phase EXCEPT ![t] = "call"]
      /\ where' = [where EXCEPT ![t] = b] /\ waits' = [waits EXCEPT ![t] = waits[t] + 1]
      /\ pc' = [pc EXCEPT ![t] = to]
  BY DEF Call, Goto
<1>2. /\ phase \in [Tasklet -> {"out", "call", "stop", "stopped", "wake"}]
      /\ where \in [Tasklet -> Barriers] /\ waits \in [Tasklet -> Nat]
      /\ pc \in [Tasklet -> Pc] /\ rows \in [Tasklet -> -1 .. NrJobs - 1]
  BY DEF IInv, BarrierInv, BarrierTypeOK, KernelTypeOK
<1>3. BarrierInv'
  BY CallInv DEF IInv
<1>4. \A u \in Tasklet \ {t} :
        /\ waits'[u] = waits[u] /\ pc'[u] = pc[u] /\ phase'[u] = phase[u]
        /\ where'[u] = where[u] /\ rows'[u] = rows[u]
        /\ Round(u)' = Round(u) /\ Left(u)' = Left(u)
  BY <1>1, <1>2 DEF Round, Left
<1>5. /\ waits'[t] = waits[t] + 1 /\ pc'[t] = to /\ phase'[t] = "call" /\ where'[t] = b
      /\ Left(t)' = Left(t)
  BY <1>1, <1>2 DEF Left
<1>6. Round(t)' = IF pc[t] = "flag" THEN Round(t) + 1 ELSE Round(t)
  BY <1>5, Rounds DEF Round, Offset
<1>7. waits'[t] = 3 * Round(t)' + Offset(pc'[t])
  BY <1>5, <1>6, Rounds DEF Offset
<1>8. rows'[t] = IF pc'[t] = "flag" THEN Round(t)' ELSE Round(t)' - 1
  BY <1>2, <1>5, <1>6, Rounds DEF IInv, RoundInv
<1>9. RoundInv'
  <2>1. ASSUME NEW u \in Tasklet
        PROVE  /\ waits'[u] = 3 * Round(u)' + Offset(pc'[u])
               /\ pc'[u] = "start" => waits'[u] = 0
               /\ phase'[u] # "out" => \/ pc'[u] = "compute" /\ where'[u] = "my_barrier"
                                       \/ pc'[u] = "flag" /\ where'[u] = "exec_barrier"
                                       \/ pc'[u] = "outer" /\ where'[u] = "flag_barrier"
               /\ rows'[u] = IF pc'[u] = "flag" THEN Round(u)' ELSE Round(u)' - 1
    <3>1. CASE u = t
      BY <1>5, <1>7, <1>8, <3>1
    <3>2. CASE u # t
      BY <1>4, <3>2 DEF IInv, RoundInv
    <3>3. QED
      BY <3>1, <3>2
  <2>2. QED
    BY <2>1 DEF RoundInv
<1>10. Together'
  <2>1. \A u \in Tasklet : waits[u] <= waits'[u] /\ Left(u)' = Left(u)
    BY <1>4, <1>5, Rounds
  <2>2. \A u \in Tasklet : phase'[u] = "wake" => phase[u] = "wake" /\ waits'[u] = waits[u]
    BY <1>4, <1>5
  <2>3. \A u \in Tasklet : Left(u) \in Int /\ waits[u] \in Nat /\ waits'[u] \in Nat
    BY <1>1, <1>2, <1>5, Rounds
  <2>4. QED
    BY <2>1, <2>2, <2>3 DEF IInv, Together
<1>11. QED
  BY <1>1, <1>3, <1>4, <1>6, <1>9, <1>10

LEMMA ResetInv ==
  ASSUME IInv, NEW t \in Tasklet, Reset(t)
  PROVE  IInv'
<1>1. /\ pc[t] = "reset" /\ phase[t] = "out" /\ Goto(t, "compute") /\ Call(t, "my_barrier")
      /\ UNCHANGED <<OFIS_dpu_state, job, rows, sent>>
  BY DEF Reset, At
<1>2. /\ BarrierInv' /\ RoundInv' /\ Together'
      /\ waits' = [waits EXCEPT ![t] = waits[t] + 1]
      /\ \A u \in Tasklet : Round(u)' = Round(u)
  BY <1>1, Calls, KernelAssumption DEF Pc
<1>3. Flags' = Flags /\ Flags \in Nat
  BY <1>2, Zero, Rounds DEF Flags
<1>4. pc' = [pc EXCEPT ![t] = "compute"] /\ pc \in [Tasklet -> Pc]
      /\ waits \in [Tasklet -> Nat]
  BY <1>1 DEF Goto, IInv, KernelTypeOK, BarrierInv, BarrierTypeOK
<1>5. KernelTypeOK'
  BY <1>1, <1>4 DEF IInv, KernelTypeOK, Pc
<1>6. waits[t] >= 3 * Flags => OFIS_dpu_state = 2
  BY <1>1, <1>3, <1>4 DEF IInv, StateInv
<1>7. StateInv'
  <2>1. ASSUME NEW u \in Tasklet,
               waits'[u] > 3 * Flags' \/ (pc'[u] = "reset" /\ waits'[u] = 3 * Flags')
        PROVE  OFIS_dpu_state' = 2
    <3>1. CASE u = t
      BY <1>1, <1>2, <1>3, <1>4, <1>6, <2>1, <3>1
    <3>2. CASE u # t
      BY <1>1, <1>2, <1>3, <1>4, <2>1, <3>2 DEF IInv, StateInv
    <3>3. QED
      BY <3>1, <3>2
  <2>2. \A u \in Tasklet : pc'[u] = "return" => pc[u] = "return"
    BY <1>4
  <2>3. ~\A u \in Tasklet : pc[u] = "start"
    BY <1>1
  <2>4. QED
    BY <1>1, <1>3, <2>1, <2>2, <2>3 DEF IInv, StateInv
<1>8. QED
  BY <1>2, <1>5, <1>7 DEF IInv

LEMMA ComputeInv ==
  ASSUME IInv, NEW t \in Tasklet, Compute(t)
  PROVE  IInv' /\ job = Round(t) /\ OFIS_dpu_state = 2
<1>1. /\ pc[t] = "compute" /\ phase[t] = "out" /\ Goto(t, "flag") /\ Call(t, "exec_barrier")
      /\ rows' = [rows EXCEPT ![t] = job] /\ UNCHANGED <<OFIS_dpu_state, job, sent>>
  BY DEF Compute, At
\* Tasklet t has ended its wait at my_barrier, so tasklet 0 has come to it.
<1>2. waits[t] = 3 * Round(t) + 1 /\ Round(t) \in Nat /\ Flags \in Nat
  BY <1>1, Zero, Rounds DEF Offset, Flags
<1>3. Round(t) = Flags
  <2>1. Left(t) <= waits[0] /\ Left(0) <= waits[t]
    BY Zero DEF IInv, Together
  <2>2. Left(t) = waits[t]
    BY <1>1, Rounds DEF Left
  <2>3. waits[0] = 3 * Flags + Offset(pc[0]) /\ Offset(pc[0]) \in 0 .. 2
        /\ (Left(0) = waits[0] \/ Left(0) = waits[0] - 1)
    BY Zero, Rounds DEF Flags
  <2>4. QED
    BY <1>2, <2>1, <2>2, <2>3
<1>4. OFIS_dpu_state = 2 /\ job = Flags
  BY <1>2, <1>3 DEF IInv, StateInv
<1>5. /\ BarrierInv' /\ RoundInv' /\ Together'
      /\ waits' = [waits EXCEPT ![t] = waits[t] + 1]
      /\ \A u \in Tasklet : Round(u)' = Round(u)
  BY <1>1, <1>3, <1>4, Calls, KernelAssumption DEF Pc
<1>6. Flags' = Flags
  BY <1>5, Zero DEF Flags
<1>7. pc' = [pc EXCEPT ![t] = "flag"] /\ pc \in [Tasklet -> Pc]
  BY <1>1 DEF Goto, IInv, KernelTypeOK
<1>8. KernelTypeOK'
  <2>1. job \in -1 .. NrJobs - 1
    BY Zero DEF IInv, KernelTypeOK
  <2>2. rows' \in [Tasklet -> -1 .. NrJobs - 1]
    BY <1>1, <2>1 DEF IInv, KernelTypeOK
  <2>3. QED
    BY <1>1, <1>7, <2>2 DEF IInv, KernelTypeOK, Pc
<1>9. StateInv'
  BY <1>1, <1>4, <1>6, <1>7 DEF IInv, StateInv
<1>10. QED
  BY <1>3, <1>4, <1>5, <1>8, <1>9 DEF IInv

LEMMA FlagInv ==
  ASSUME IInv, NEW t \in Tasklet, Flag(t)
  PROVE  IInv' /\ OFIS_dpu_state = (IF t = 0 THEN 2 ELSE OFIS_dpu_state)
<1>1. /\ pc[t] = "flag" /\ phase[t] = "out" /\ Goto(t, "outer") /\ Call(t, "flag_barrier")
      /\ OFIS_dpu_state' = IF t = 0 THEN 1 ELSE OFIS_dpu_state
      /\ UNCHANGED <<job, rows, sent>>
  BY DEF Flag, At
<1>2. /\ BarrierInv' /\ RoundInv' /\ Together'
      /\ waits' = [waits EXCEPT ![t] = waits[t] + 1]
      /\ \A u \in Tasklet : Round(u)' = IF u = t THEN Round(u) + 1 ELSE Round(u)
  BY <1>1, Calls, KernelAssumption DEF Pc
<1>3. pc' = [pc EXCEPT ![t] = "outer"] /\ pc \in [Tasklet -> Pc]
      /\ waits \in [Tasklet -> Nat]
  BY <1>1 DEF Goto, IInv, KernelTypeOK, BarrierInv, BarrierTypeOK
<1>4. KernelTypeOK'
  BY <1>1, <1>3 DEF IInv, KernelTypeOK, Pc
<1>5. waits[t] = 3 * Round(t) + 2 /\ Round(t) \in Nat /\ Flags \in Nat /\ Left(t) = waits[t]
  BY <1>1, Zero, Rounds DEF Offset, Flags, Left
<1>6. \A u \in Tasklet : pc'[u] = "return" => pc[u] = "return"
  BY <1>3
<1>7. ~\A u \in Tasklet : pc[u] = "start"
  BY <1>1
<1>8. CASE t # 0
  <2>1. Flags' = Flags /\ OFIS_dpu_state' = OFIS_dpu_state
    BY <1>1, <1>2, <1>8, Zero DEF Flags
  <2>2. ASSUME NEW u \in Tasklet,
               waits'[u] > 3 * Flags' \/ (pc'[u] = "reset" /\ waits'[u] = 3 * Flags')
        PROVE  OFIS_dpu_state' = 2
    <3>1. CASE u = t
      <4>1. waits'[t] = 3 * Round(t) + 3
        BY <1>2, <1>3, <1>5
      <4>2. Round(t) >= Flags
        BY <1>3, <1>5, <2>1, <2>2, <3>1, <4>1
      <4>3. waits[t] > 3 * Flags
        BY <1>5, <4>2
      <4>4. QED
        BY <2>1, <4>3 DEF IInv, StateInv
    <3>2. CASE u # t
      BY <1>2, <1>3, <2>1, <2>2, <3>2 DEF IInv, StateInv
    <3>3. QED
      BY <3>1, <3>2
  <2>3. StateInv'
    BY <1>1, <1>6, <1>7, <2>1, <2>2 DEF IInv, StateInv
  <2>4. QED
    BY <1>2, <1>4, <1>8, <2>3 DEF IInv
<1>9. CASE t = 0
  <2>1. Flags' = Flags + 1 /\ waits[0] = 3 * Flags + 2 /\ OFIS_dpu_state' = 1
    BY <1>1, <1>2, <1>5, <1>9 DEF Flags
  <2>2. OFIS_dpu_state = 2 /\ job = Flags /\ ~sent
    BY <1>5, <1>9, <2>1 DEF IInv, StateInv
  \* Nobody is past flag_barrier: tasklet 0 has only come to it now.
  <2>3. ASSUME NEW u \in Tasklet
        PROVE  /\ waits'[u] <= 3 * Flags + 3
               /\ ~(pc'[u] = "reset" /\ waits'[u] = 3 * Flags + 3)
    <3>1. CASE u = t
      <4>1. waits'[u] = 3 * Flags + 3 /\ pc'[u] = "outer"
        BY <1>2, <1>3, <1>5, <1>9, <2>1, <3>1
      <4>2. QED
        BY <1>5, <4>1
    <3>2. CASE u # t
      <4>1. Left(u) <= 3 * Flags + 2 /\ waits'[u] = waits[u] /\ pc'[u] = pc[u]
        BY <1>2, <1>3, <1>9, <2>1, <3>2 DEF IInv, Together
      <4>2. pc[u] = "reset" => Left(u) = waits[u]
        <5>1. pc[u] = "reset" => phase[u] = "out"
          BY DEF IInv, RoundInv
        <5>2. QED
          BY <5>1, Rounds DEF Left
      <4>3. QED
        BY <1>5, <4>1, <4>2, Rounds
    <3>3. QED
      BY <3>1, <3>2
  <2>4. \A u \in Tasklet : pc[u] # "return"
    BY <2>2 DEF IInv, StateInv
  <2>5. StateInv'
    <3>1. 3 * Flags' = 3 * Flags + 3 /\ Flags' > 0 /\ Flags = Flags' - 1
      BY <1>5, <2>1
    <3>2. \A u \in Tasklet : waits'[u] \in Nat
      BY <1>2, <1>3
    <3>3. \A u \in Tasklet :
            ~(waits'[u] > 3 * Flags' \/ (pc'[u] = "reset" /\ waits'[u] = 3 * Flags'))
      BY <1>5, <2>3, <3>1, <3>2
    <3>4. job' = IF sent' THEN Flags' ELSE Flags' - 1
      BY <1>1, <2>2, <3>1
    <3>5. QED
      BY <1>6, <2>1, <2>4, <3>1, <3>3, <3>4 DEF StateInv
  <2>6. QED
    BY <1>2, <1>4, <1>9, <2>2, <2>5 DEF IInv
<1>10. QED
  BY <1>8, <1>9

-----------------------------------------------------------------------------
(* Steps of a wait, and of the host.                                       *)

\* Whoever is let out, or lets others out, has everybody at its wait or past it.
LEMMA LetOut ==
  ASSUME IInv, NEW t \in Tasklet, BarrierStep(t), NEW u \in Tasklet
  PROVE  /\ UNCHANGED <<waits, where>>
         /\ phase'[u] # "out" => phase[u] # "out"
         /\ phase'[u] = phase[u] \/ phase'[u] = "stop" \/ phase'[u] = "stopped"
            \/ (phase[u] # "out" /\ \A v \in Tasklet : waits[u] <= waits[v])
<1>1. /\ phase \in [Tasklet -> {"out", "call", "stop", "stopped", "wake"}]
      /\ where \in [Tasklet -> Barriers] /\ waits \in [Tasklet -> Nat]
  BY DEF IInv, BarrierInv, BarrierTypeOK
<1>2. CASE Queue(t)
  BY <1>1, <1>2 DEF Queue
<1>3. CASE Stop(t)
  BY <1>1, <1>3 DEF Stop
<1>4. CASE LastIn(t)
  <2>1. /\ phase[t] = "call" /\ UNCHANGED <<waits, where>>
        /\ phase' = [phase EXCEPT ![t] = "out"] \/ phase' = [phase EXCEPT ![t] = "wake"]
    BY <1>4 DEF LastIn
  <2>2. Waiting(where[t]) = Tasklet \ {t}
    BY <1>4, LastInWaiting DEF IInv
  <2>3. \A v \in Tasklet \ {t} : phase[v] # "out" /\ where[v] = where[t]
    BY <2>2 DEF Waiting
  <2>4. \A v \in Tasklet : waits[t] <= waits[v]
    <3>1. \A v \in Tasklet \ {t} : waits[t] = waits[v]
      BY <2>1, <2>3, SameWait
    <3>2. QED
      BY <1>1, <3>1
  <2>5. QED
    BY <1>1, <2>1, <2>4
<1>5. CASE Wake(t)
  <2>1. /\ phase[t] = "wake" /\ UNCHANGED <<waits, where>> /\ first[t] \in Tasklet
        /\ \/ phase' = [phase EXCEPT ![first[t]] = "out"]
           \/ phase' = [phase EXCEPT ![first[t]] = "out", ![t] = "out"]
    BY <1>5 DEF Wake, IInv, BarrierInv, BarrierTypeOK
  <2>2. \A v \in Tasklet : waits[t] <= waits[v]
    BY <2>1 DEF IInv, Together
  <2>3. phase[first[t]] # "out" /\ where[first[t]] = where[t]
    BY <1>5, WakeFirst DEF IInv, Waiting
  <2>4. waits[first[t]] = waits[t]
    BY <2>1, <2>3, SameWait
  <2>5. QED
    BY <1>1, <2>1, <2>2, <2>3, <2>4
<1>6. QED
  BY <1>2, <1>3, <1>4, <1>5 DEF BarrierStep

LEMMA WaitInv ==
  ASSUME IInv, NEW t \in Tasklet, BarrierStep(t), UNCHANGED kernelVars
  PROVE  IInv'
<1>1. UNCHANGED <<OFIS_dpu_state, pc, job, rows, sent>>
  BY DEF kernelVars
<1>2. 0 \in Tasklet /\ UNCHANGED <<waits, where>>
  BY Zero, LetOut
<1>3. BarrierInv'
  BY BarrierStepInv DEF IInv
<1>4. KernelTypeOK'
  BY <1>1 DEF IInv, KernelTypeOK
<1>5. \A u \in Tasklet : Round(u)' = Round(u)
  BY <1>1, <1>2 DEF Round
<1>6. RoundInv'
  BY <1>1, <1>2, <1>5, LetOut DEF IInv, RoundInv
<1>7. Together'
  <2>1. ASSUME NEW u \in Tasklet, NEW v \in Tasklet PROVE Left(u)' <= waits[v]
    <3>1. CASE (phase[u] = "out") <=> (phase'[u] = "out")
      <4>1. Left(u)' = Left(u)
        BY <1>2, <3>1 DEF Left
      <4>2. QED
        BY <4>1 DEF IInv, Together
    <3>2. CASE phase'[u] = "out" /\ phase[u] # "out"
      <4>1. Left(u)' = waits[u]
        BY <1>2, <3>2, Rounds DEF Left
      <4>2. waits[u] <= waits[v]
        BY <3>2, LetOut
      <4>3. QED
        BY <4>1, <4>2
    <3>3. QED
      BY <3>1, <3>2, LetOut
  <2>2. ASSUME NEW u \in Tasklet, NEW v \in Tasklet, phase'[u] = "wake"
        PROVE  waits[u] <= waits[v]
    BY <2>2, LetOut DEF IInv, Together
  <2>3. QED
    BY <1>2, <2>1, <2>2 DEF Together
<1>8. StateInv'
  BY <1>1, <1>2, <1>5 DEF IInv, StateInv, Flags
<1>9. QED
  BY <1>3, <1>4, <1>6, <1>7, <1>8 DEF IInv

LEMMA HostInv ==
  ASSUME IInv, HostStep
  PROVE  IInv'
<1>1. /\ OFIS_dpu_state = 1 /\ UNCHANGED <<barrierVars, pc, rows>>
      /\ \/ ~sent /\ job < NrJobs - 1 /\ job' = job + 1 /\ sent' = TRUE /\ OFIS_dpu_state' = 1
         \/ sent /\ job' = job /\ sent' = FALSE /\ OFIS_dpu_state' = 2
         \/ ~sent /\ job = NrJobs - 1 /\ job' = job /\ sent' = FALSE /\ OFIS_dpu_state' = 0
  BY DEF HostStep, HostSend, HostTrigger
<1>2. BarrierInv' /\ UNCHANGED <<phase, where, waits>>
  BY <1>1, BarrierFrame DEF IInv, barrierVars
<1>3. KernelTypeOK'
  <2>1. OFIS_dpu_state' \in 0 .. 2 /\ pc' \in [Tasklet -> Pc]
        /\ rows' \in [Tasklet -> -1 .. NrJobs - 1]
    BY <1>1 DEF IInv, KernelTypeOK
  <2>2. job' \in 0 .. NrJobs - 1
    BY <1>1, Zero DEF IInv, KernelTypeOK
  <2>3. sent' \in BOOLEAN
    BY <1>1
  <2>4. QED
    BY <2>1, <2>2, <2>3 DEF KernelTypeOK
<1>4. \A u \in Tasklet : Round(u)' = Round(u) /\ Left(u)' = Left(u)
  BY <1>1, <1>2 DEF Round, Left
<1>5. RoundInv' /\ Together'
  BY <1>1, <1>2, <1>4 DEF IInv, RoundInv, Together
<1>6. Flags' = Flags /\ Flags \in Nat
  BY <1>4, Zero, Rounds DEF Flags
<1>7. StateInv'
  <2>1. \A u \in Tasklet : pc'[u] # "return"
    BY <1>1 DEF IInv, StateInv
  <2>2. \A u \in Tasklet :
          ~(waits'[u] > 3 * Flags' \/ (pc'[u] = "reset" /\ waits'[u] = 3 * Flags'))
    BY <1>1, <1>2, <1>6 DEF IInv, StateInv
  <2>3. Flags > 0 /\ job = (IF sent THEN Flags ELSE Flags - 1)
    BY <1>1 DEF IInv, StateInv
  <2>4. OFIS_dpu_state' = 2 => job' = Flags' /\ ~sent'
    BY <1>1, <1>6, <2>3
  <2>5. OFIS_dpu_state' = 1 => Flags' > 0 /\ job' = IF sent' THEN Flags' ELSE Flags' - 1
    BY <1>1, <1>6, <2>3
  <2>6. OFIS_dpu_state' = 0 => ~sent' /\ Flags' > 0 /\ job' = Flags' - 1 /\ job' = NrJobs - 1
    BY <1>1, <1>6, <2>3
  <2>7. QED
    BY <2>1, <2>2, <2>4, <2>5, <2>6 DEF StateInv
<1>8. QED
  BY <1>2, <1>3, <1>5, <1>7 DEF IInv

LEMMA StutterInv == IInv /\ UNCHANGED vars => IInv'
<1> SUFFICES ASSUME IInv, UNCHANGED vars PROVE IInv'
  OBVIOUS
<1>1. UNCHANGED barrierVars /\ UNCHANGED <<phase, waits, where>>
      /\ UNCHANGED <<OFIS_dpu_state, pc, job, rows, sent>>
  BY DEF vars, barrierVars, kernelVars
<1>2. BarrierInv'
  BY <1>1, BarrierFrame DEF IInv
<1>3. \A u \in Tasklet : Round(u)' = Round(u) /\ Left(u)' = Left(u)
  BY <1>1 DEF Round, Left
<1>4. RoundInv' /\ Together' /\ KernelTypeOK'
  BY <1>1, <1>3 DEF IInv, RoundInv, Together, KernelTypeOK
<1>5. Flags' = Flags
  BY <1>3, Zero DEF Flags
<1>6. StateInv'
  BY <1>1, <1>5 DEF IInv, StateInv
<1>7. QED
  BY <1>2, <1>4, <1>6 DEF IInv

LEMMA NextInv == IInv /\ [Next]_vars => IInv'
<1> SUFFICES ASSUME IInv, [Next]_vars PROVE IInv'
  OBVIOUS
<1>1. ASSUME NEW t \in Tasklet, Main(t) PROVE IInv'
  BY <1>1, StartInv, LoopInv, ResetInv, ComputeInv, FlagInv DEF Main
<1>2. ASSUME NEW t \in Tasklet, BarrierStep(t), UNCHANGED kernelVars PROVE IInv'
  BY <1>2, WaitInv
<1>3. CASE HostStep
  BY <1>3, HostInv
<1>4. CASE UNCHANGED vars
  BY <1>4, StutterInv
<1>5. QED
  BY <1>1, <1>2, <1>3, <1>4 DEF Next, TaskletStep

-----------------------------------------------------------------------------
(* The theorems.                                                           *)

\* The tasklets, their barriers, the state and the partition stay related as
\* RoundInv, Together and StateInv say (CSR_dpu.c, main).
THEOREM InvariantHolds == Spec => []IInv
<1>1. Init => IInv
  BY InitInv
<1>2. IInv /\ [Next]_vars => IInv'
  BY NextInv
<1>3. QED
  BY <1>1, <1>2, PTL DEF Spec

\* Every variable of main and of barrier_wait keeps its type; the index of a
\* partition never reaches NrJobs.
THEOREM TypeCorrect == Spec => []TypeOK
<1>1. IInv => TypeOK
  BY DEF IInv, BarrierInv, KernelTypeOK, TypeOK
<1>2. QED
  BY <1>1, InvariantHolds, PTL

\* The links of __WAIT_QUEUE_TABLE, which the three barriers share, lead from
\* every barrier to all of its waiting tasklets and to no other (barrier.c 32).
THEOREM NobodyLost == Spec => []NobodyForgotten
<1>1. IInv => NobodyForgotten
  BY NobodyIsForgotten DEF IInv
<1>2. QED
  BY <1>1, InvariantHolds, PTL

\* A host that reads the state 1 finds the rows of all the tasklets: tasklet 0
\* writes the 1 after exec_barrier (CSR_dpu.c).
THEOREM ResultComplete == Spec => []FinishedIsComplete
<1>1. IInv => FinishedIsComplete
  <2> SUFFICES ASSUME IInv, OFIS_dpu_state = 1, ~sent, NEW t \in Tasklet
               PROVE  rows[t] = job
    BY DEF FinishedIsComplete
  <2>1. Flags \in Nat /\ Flags > 0 /\ job = Flags - 1 /\ ~(waits[t] > 3 * Flags)
    BY Zero, Rounds DEF IInv, StateInv, Flags
  <2>2. Left(0) <= waits[t]
    BY Zero DEF IInv, Together
  <2>3. waits[0] = 3 * Flags + Offset(pc[0]) /\ Offset(pc[0]) \in 0 .. 2
        /\ (Left(0) = waits[0] \/ Left(0) = waits[0] - 1)
    BY Zero, Rounds DEF Flags
  <2>4. waits[t] = 3 * Round(t) + Offset(pc[t]) /\ Round(t) \in Nat
        /\ Offset(pc[t]) = IF pc[t] = "compute" THEN 1 ELSE IF pc[t] = "flag" THEN 2 ELSE 0
    BY Rounds DEF Offset
  <2>5. Round(t) = IF pc[t] = "flag" THEN Flags - 1 ELSE Flags
    BY <2>1, <2>2, <2>3, <2>4
  <2>6. QED
    BY <2>1, <2>5 DEF IInv, RoundInv
<1>2. QED
  BY <1>1, InvariantHolds, PTL

\* mem_reset of tasklet 0 meets no tasklet that computes in the heap's buffers.
THEOREM HeapSafe == Spec => []HeapIdleAtReset
<1>1. IInv => HeapIdleAtReset
  <2> SUFFICES ASSUME IInv, At(0, "reset"), NEW t \in Tasklet, At(t, "compute")
               PROVE  FALSE
    BY DEF HeapIdleAtReset
  <2>1. waits[0] = 3 * Flags /\ Flags \in Nat /\ Left(0) = waits[0]
    BY Zero, Rounds DEF At, Offset, Flags, Left
  <2>2. waits[t] = 3 * Round(t) + 1 /\ Round(t) \in Nat /\ Left(t) = waits[t]
    BY Rounds DEF At, Offset, Left
  <2>3. Left(0) <= waits[t] /\ Left(t) <= waits[0]
    BY Zero DEF IInv, Together
  <2>4. QED
    BY <2>1, <2>2, <2>3
<1>2. QED
  BY <1>1, InvariantHolds, PTL

-----------------------------------------------------------------------------
(* The promise of the barriers.                                            *)

LeftMap == [t \in Tasklet |-> waits[t] - (IF phase[t] = "out" THEN 0 ELSE 1)]

LEMMA LeftMaps ==
  ASSUME NEW t \in Tasklet
  PROVE  LeftMap[t] = Left(t) /\ LeftMap'[t] = Left(t)'
BY DEF LeftMap, Left

PromiseNext ==
  \/ \E t \in Tasklet : Promise!Enter(t)
  \/ \E T \in SUBSET Tasklet : Promise!Leave(T)
  \/ waits' = waits /\ LeftMap' = LeftMap

LEMMA CallEnters ==
  ASSUME IInv, NEW t \in Tasklet, NEW b \in Barriers, Call(t, b)
  PROVE  Promise!Enter(t)
<1>1. /\ phase[t] = "out" /\ phase' = [phase EXCEPT ![t] = "call"]
      /\ waits' = [waits EXCEPT ![t] = waits[t] + 1]
      /\ phase \in [Tasklet -> {"out", "call", "stop", "stopped", "wake"}]
      /\ waits \in [Tasklet -> Nat]
  BY DEF Call, IInv, BarrierInv, BarrierTypeOK
<1>2. \A u \in Tasklet : Left(u)' = Left(u)
  BY <1>1 DEF Left
<1>3. LeftMap' = LeftMap
  BY <1>2 DEF LeftMap, Left
<1>4. waits[t] = LeftMap[t]
  BY <1>1, Rounds, LeftMaps DEF Left
<1>5. QED
  BY <1>1, <1>3, <1>4 DEF Promise!Enter, LeftMap

LEMMA StepLeaves ==
  ASSUME IInv, NEW t \in Tasklet, BarrierStep(t)
  PROVE  \E T \in SUBSET Tasklet : Promise!Leave(T)
<1> DEFINE T == {u \in Tasklet : phase[u] # "out" /\ phase'[u] = "out"}
<1>1. ASSUME NEW u \in T
      PROVE  LeftMap[u] < waits[u] /\ \A v \in Tasklet : waits[v] >= waits[u]
  <2>1. LeftMap[u] = waits[u] - 1
    BY LeftMaps DEF Left
  <2>2. \A v \in Tasklet : waits[u] <= waits[v] /\ waits[v] \in Nat
    BY LetOut, Rounds
  <2>3. QED
    BY <2>1, <2>2
<1>2. waits' = waits
  BY LetOut
<1>3. LeftMap' = [u \in Tasklet |-> IF u \in T THEN LeftMap[u] + 1 ELSE LeftMap[u]]
  <2>1. ASSUME NEW u \in Tasklet
        PROVE  Left(u)' = IF u \in T THEN Left(u) + 1 ELSE Left(u)
    <3>1. phase'[u] # "out" => phase[u] # "out"
      BY LetOut
    <3>2. QED
      BY <1>2, <3>1, Rounds DEF Left
  <2>2. \A u \in Tasklet : LeftMap'[u] = IF u \in T THEN LeftMap[u] + 1 ELSE LeftMap[u]
    BY <2>1, LeftMaps
  <2>3. LeftMap' = [u \in Tasklet |-> LeftMap'[u]]
    BY DEF LeftMap
  <2> HIDE DEF T
  <2>4. QED
    BY <2>2, <2>3
<1>4. T \in SUBSET Tasklet
  OBVIOUS
<1> HIDE DEF T
<1>5. QED
  BY <1>1, <1>2, <1>3, <1>4 DEF Promise!Leave, LeftMap

LEMMA PromiseStutter ==
  ASSUME UNCHANGED barrierVars
  PROVE  waits' = waits /\ LeftMap' = LeftMap
BY DEF barrierVars, LeftMap

LEMMA NextPromise == IInv /\ [Next]_vars => PromiseNext
<1> SUFFICES ASSUME IInv, [Next]_vars PROVE PromiseNext
  OBVIOUS
<1>1. ASSUME NEW t \in Tasklet, Main(t) PROVE PromiseNext
  <2>1. CASE Start(t) \/ Outer(t) \/ Inner(t) \/ Check(t)
    <3>1. UNCHANGED barrierVars
      BY <2>1 DEF Start, Outer, Inner, Check
    <3>2. QED
      BY <3>1, PromiseStutter DEF PromiseNext
  <2>2. CASE Reset(t) \/ Compute(t) \/ Flag(t)
    <3>1. \E b \in Barriers : Call(t, b)
      BY <2>2, KernelAssumption DEF Reset, Compute, Flag
    <3>2. QED
      BY <3>1, CallEnters DEF PromiseNext
  <2>3. QED
    BY <1>1, <2>1, <2>2 DEF Main
<1>2. ASSUME NEW t \in Tasklet, BarrierStep(t) PROVE PromiseNext
  BY <1>2, StepLeaves DEF PromiseNext
<1>3. CASE HostStep
  <2>1. UNCHANGED barrierVars
    BY <1>3 DEF HostStep, HostSend, HostTrigger
  <2>2. QED
    BY <2>1, PromiseStutter DEF PromiseNext
<1>4. CASE UNCHANGED vars
  <2>1. UNCHANGED barrierVars
    BY <1>4 DEF vars
  <2>2. QED
    BY <2>1, PromiseStutter DEF PromiseNext
<1>5. QED
  BY <1>1, <1>2, <1>3, <1>4 DEF Next, TaskletStep

\* barrier_wait, used by main at three barriers in turn, implements
\* BarrierPromise: the n-th wait returns only after everybody has begun it
\* (barrier.h 68: suspended until the counter is reduced to 0).
THEOREM PromiseKept == Spec => KeepsPromise
<1>1. Init => Promise!Init
  BY DEF Init, BarrierInit, Promise!Init
<1>2. IInv /\ [Next]_vars => [Promise!Next]_(Promise!promiseVars)
  BY NextPromise DEF PromiseNext, Promise!Next, Promise!promiseVars, LeftMap
<1>3. QED
  BY <1>1, <1>2, InvariantHolds, PTL DEF Spec, KeepsPromise, Promise!Spec

-----------------------------------------------------------------------------
(* Together the tasklets are one DPU.                                      *)

\* Who still waits at a barrier has nobody past it, unless the last one in is
\* letting its tasklets out: all of those it has not come to are queued.
HeldBack ==
  /\ \A u, v \in Tasklet :
       phase[u] \in {"call", "stop", "stopped"} /\ lock[where[u]] = Nil
       => Left(v) < waits[u]
  /\ \A t, u \in Tasklet :
       phase[t] = "wake" /\ u # t => u \in Waiting(where[t]) \/ Left(u) >= waits[t]

LEMMA InitHeld == Init => HeldBack
BY DEF Init, BarrierInit, HeldBack

LEMMA FrameHeld ==
  ASSUME HeldBack, UNCHANGED barrierVars
  PROVE  HeldBack'
<1>1. UNCHANGED <<phase, where, lock, waits>>
  BY DEF barrierVars
<1>2. \A u \in Tasklet : Left(u)' = Left(u)
  BY <1>1 DEF Left
<1>3. \A b : Waiting(b)' = Waiting(b)
  BY <1>1 DEF Waiting
<1>4. QED
  BY <1>1, <1>2, <1>3 DEF HeldBack

LEMMA CallHeld ==
  ASSUME IInv, HeldBack, NEW t \in Tasklet, NEW b \in Barriers, Call(t, b)
  PROVE  HeldBack'
<1>1. /\ phase[t] = "out" /\ phase' = [phase EXCEPT ![t] = "call"]
      /\ where' = [where EXCEPT ![t] = b]
      /\ waits' = [waits EXCEPT ![t] = waits[t] + 1] /\ lock' = lock
  BY DEF Call
<1>2. /\ phase \in [Tasklet -> {"out", "call", "stop", "stopped", "wake"}]
      /\ where \in [Tasklet -> Barriers] /\ waits \in [Tasklet -> Nat]
  BY DEF IInv, BarrierInv, BarrierTypeOK
<1>3. \A u \in Tasklet : Left(u)' = Left(u)
  BY <1>1, <1>2 DEF Left
<1>4. \A u \in Tasklet \ {t} : /\ phase'[u] = phase[u] /\ where'[u] = where[u]
                              /\ waits'[u] = waits[u]
  BY <1>1, <1>2
<1>5. phase'[t] = "call" /\ waits'[t] = waits[t] + 1
  BY <1>1, <1>2
<1>6. ASSUME NEW u \in Tasklet, NEW v \in Tasklet,
             phase'[u] \in {"call", "stop", "stopped"}, lock'[where'[u]] = Nil
      PROVE  Left(v)' < waits'[u]
  <2>1. CASE u = t
    <3>1. Left(v) <= waits[t]
      BY DEF IInv, Together
    <3>2. QED
      BY <1>3, <1>5, <2>1, <3>1, Rounds
  <2>2. CASE u # t
    BY <1>1, <1>3, <1>4, <1>6, <2>2 DEF HeldBack
  <2>3. QED
    BY <2>1, <2>2
<1>7. ASSUME NEW w \in Tasklet, NEW u \in Tasklet, phase'[w] = "wake", u # w
      PROVE  u \in Waiting(where[w])' \/ Left(u)' >= waits'[w]
  <2>1. w # t /\ phase[w] = "wake"
    BY <1>4, <1>5, <1>7
  <2>2. u \in Waiting(where[w]) \/ Left(u) >= waits[w]
    BY <1>7, <2>1 DEF HeldBack
  <2>3. u \in Waiting(where[w]) => u \in Waiting(where[w])'
    BY <1>1, <1>4, <2>1 DEF Waiting
  <2>4. QED
    BY <1>3, <1>4, <2>1, <2>2, <2>3
<1>8. QED
  BY <1>6, <1>7 DEF HeldBack

LEMMA LastWoken ==
  ASSUME BarrierInv, NEW t \in Tasklet, Wake(t), first[t] = wait_queue[where[t]]
  PROVE  Waiting(where[t]) = {first[t]}
<1>1. lock[where[t]] = t /\ wait_queue[where[t]] # Nil /\ where[t] \in Barriers /\ t # Nil
  BY WakeFirst, Tasklets DEF BarrierInv, BarrierTypeOK
<1>2. PICK m \in Nat \ {0} : \E q \in [1 .. m -> Tasklet] : Links(where[t], m, q)
  BY <1>1 DEF BarrierInv, Queues, Listed
<1>3. PICK q \in [1 .. m -> Tasklet] : Links(where[t], m, q)
  BY <1>2
<1>4. q[1] = first[t] /\ q[m] = first[t]
  BY <1>1, <1>3 DEF Links
<1>5. m = 1
  BY <1>3, <1>4 DEF Links
<1>6. QED
  BY <1>3, <1>4, <1>5 DEF Links

LEMMA QueueHeld ==
  ASSUME IInv, HeldBack, NEW t \in Tasklet, Queue(t) \/ Stop(t)
  PROVE  HeldBack'
<1>1. /\ phase \in [Tasklet -> {"out", "call", "stop", "stopped", "wake"}]
      /\ phase[t] \in {"call", "stop"}
      /\ \/ phase' = [phase EXCEPT ![t] = "stop"]
         \/ phase' = [phase EXCEPT ![t] = "stopped"]
      /\ UNCHANGED <<where, lock, waits>>
  BY DEF Queue, Stop, IInv, BarrierInv, BarrierTypeOK
<1>2. \A u \in Tasklet : Left(u)' = Left(u)
  BY <1>1 DEF Left
<1>3. \A b : Waiting(b) \subseteq Waiting(b)'
  BY <1>1 DEF Waiting
<1>4. \A u \in Tasklet :
        /\ phase'[u] \in {"call", "stop", "stopped"} => phase[u] \in {"call", "stop", "stopped"}
        /\ phase'[u] = "wake" => phase[u] = "wake"
  BY <1>1
<1>5. QED
  BY <1>1, <1>2, <1>3, <1>4 DEF HeldBack

LEMMA LastInHeld ==
  ASSUME IInv, HeldBack, NEW t \in Tasklet, LastIn(t)
  PROVE  HeldBack'
<1>1. /\ phase \in [Tasklet -> {"out", "call", "stop", "stopped", "wake"}]
      /\ where \in [Tasklet -> Barriers] /\ lock \in [Barriers -> Tasklet \cup {Nil}]
      /\ phase[t] = "call" /\ UNCHANGED <<where, waits>>
  BY DEF LastIn, IInv, BarrierInv, BarrierTypeOK
<1>2. Waiting(where[t]) = Tasklet \ {t}
  BY LastInWaiting DEF IInv
<1>3. \A u \in Tasklet \ {t} : where[u] = where[t] /\ phase[u] \in {"stop", "stopped"}
  BY <1>2 DEF Waiting
<1>4. CASE wait_queue[where[t]] = Nil
  <2>1. Waiting(where[t]) = {}
    BY <1>1, <1>4 DEF IInv, BarrierInv, Queues
  <2>2. \A u \in Tasklet : u = t
    BY <1>2, <2>1
  <2>3. phase'[t] = "out"
    BY <1>1, <1>4 DEF LastIn
  <2>4. QED
    BY <2>2, <2>3 DEF HeldBack
<1>5. CASE wait_queue[where[t]] # Nil
  <2>1. phase' = [phase EXCEPT ![t] = "wake"] /\ lock' = [lock EXCEPT ![where[t]] = t]
    BY <1>5 DEF LastIn
  <2>2. lock'[where[t]] # Nil
    BY <1>1, <2>1, Tasklets
  <2>3. \A u \in Tasklet \ {t} : u \in Waiting(where[t])'
    BY <1>1, <1>3, <2>1 DEF Waiting
  <2>4. \A u \in Tasklet \ {t} : phase'[u] # "wake"
    BY <1>1, <1>3, <2>1
  <2>5. \A u \in Tasklet : lock'[where'[u]] # Nil
    BY <1>1, <1>3, <2>2
  <2>6. QED
    BY <1>1, <2>3, <2>4, <2>5 DEF HeldBack
<1>6. QED
  BY <1>4, <1>5

\* Waits of the same number are waits at the same barrier.
LEMMA SameBarrier ==
  ASSUME IInv, NEW t \in Tasklet, NEW u \in Tasklet,
         phase[t] # "out", phase[u] # "out", waits[t] = waits[u]
  PROVE  where[t] = where[u]
<1>1. Offset(pc[t]) = Offset(pc[u])
  BY Rounds
<1>2. QED
  BY <1>1 DEF IInv, RoundInv, Offset

LEMMA WakeHeld ==
  ASSUME IInv, HeldBack, NEW t \in Tasklet, Wake(t)
  PROVE  HeldBack'
<1>0. PICK b \in Barriers, f \in Tasklet : b = where[t] /\ f = first[t]
  BY DEF IInv, BarrierInv, BarrierTypeOK
<1>1. /\ phase \in [Tasklet -> {"out", "call", "stop", "stopped", "wake"}]
      /\ where \in [Tasklet -> Barriers] /\ lock \in [Barriers -> Tasklet \cup {Nil}]
      /\ phase[t] = "wake" /\ phase[f] = "stopped" /\ f # t /\ UNCHANGED <<where, waits>>
  BY <1>0 DEF Wake, IInv, BarrierInv, BarrierTypeOK
<1>2. /\ lock[b] = t /\ t # Nil /\ where[f] = b /\ waits[f] = waits[t]
      /\ \A v \in Tasklet : waits[t] <= waits[v]
  <2>1. lock[b] = t /\ f \in Waiting(b) /\ t # Nil
    BY <1>0, WakeFirst, Tasklets DEF IInv
  <2>2. where[f] = b
    BY <2>1 DEF Waiting
  <2>3. waits[f] = waits[t]
    BY <1>0, <1>1, <2>2, SameWait
  <2>4. QED
    BY <1>1, <2>1, <2>2, <2>3 DEF IInv, Together
<1>3. \/ f # wait_queue[b] /\ phase' = [phase EXCEPT ![f] = "out"] /\ lock' = lock
      \/ f = wait_queue[b] /\ phase' = [phase EXCEPT ![f] = "out", ![t] = "out"]
         /\ lock' = [lock EXCEPT ![b] = Nil]
  BY <1>0 DEF Wake
<1>4. /\ phase'[f] = "out" /\ phase'[t] \in {"wake", "out"}
      /\ \A u \in Tasklet \ {f, t} : phase'[u] = phase[u]
      /\ \A c \in Barriers \ {b} : lock'[c] = lock[c]
  BY <1>1, <1>3
<1>5. \A u \in Tasklet \ {f, t} : Left(u)' = Left(u)
  BY <1>1, <1>4 DEF Left
<1>6. Left(f)' = waits[t] /\ Left(t)' <= waits[t] /\ Left(t)' >= Left(t)
  BY <1>1, <1>2, <1>4, Rounds DEF Left
<1>7. ASSUME NEW u \in Tasklet, NEW v \in Tasklet,
             phase'[u] \in {"call", "stop", "stopped"}, lock'[where'[u]] = Nil
      PROVE  Left(v)' < waits'[u]
  <2>1. u # f /\ u # t /\ phase[u] \in {"call", "stop", "stopped"} /\ where'[u] = where[u]
    BY <1>1, <1>4, <1>7
  <2>2. CASE where[u] = b
    <3>1. f = wait_queue[b]
      BY <1>2, <1>3, <1>7, <2>1, <2>2
    <3>2. u \notin Waiting(b)
      BY <1>0, <2>1, <3>1, LastWoken DEF IInv
    <3>3. Left(u) >= waits[t]
      BY <1>0, <1>1, <2>1, <3>2 DEF HeldBack
    <3>4. waits[u] = waits[t] /\ Left(u) = waits[u] - 1
      BY <1>0, <1>1, <2>1, <2>2, SameWait DEF Left
    <3>5. QED
      BY <3>3, <3>4, Rounds
  <2>3. CASE where[u] # b
    <3>1. Left(v) < waits[u]
      BY <1>1, <1>4, <1>7, <2>1, <2>3 DEF HeldBack
    <3>2. waits[t] # waits[u]
      BY <1>0, <1>1, <2>1, <2>3, SameBarrier
    <3>3. waits[t] < waits[u]
      BY <1>2, <3>2, Rounds
    <3>4. QED
      BY <1>1, <1>5, <1>6, <3>1, <3>3, Rounds DEF Left
  <2>4. QED
    BY <2>2, <2>3
<1>8. ASSUME NEW w \in Tasklet, NEW u \in Tasklet, phase'[w] = "wake", u # w
      PROVE  u \in Waiting(where[w])' \/ Left(u)' >= waits'[w]
  <2>1. phase[w] = "wake" /\ w # f
    BY <1>1, <1>4, <1>8
  <2>2. u \in Waiting(where[w]) \/ Left(u) >= waits[w]
    BY <1>8, <2>1 DEF HeldBack
  <2>3. CASE u \in Waiting(where[w]) /\ u # f
    <3>1. u # t /\ phase'[u] = phase[u]
      BY <1>1, <1>4, <2>3 DEF Waiting
    <3>2. QED
      BY <1>1, <2>3, <3>1 DEF Waiting
  <2>4. CASE u = f
    <3>1. CASE w = t
      BY <1>1, <1>2, <1>6, <2>4, <3>1, Rounds
    <3>2. CASE w # t
      <4>1. where[w] # b
        BY <1>2, <2>1, <3>2 DEF IInv, BarrierInv, LockInv
      <4>2. Left(f) >= waits[w] /\ Left(f) = waits[f] - 1
        BY <1>1, <1>2, <2>2, <2>4, <4>1 DEF Waiting, Left
      <4>3. QED
        BY <1>1, <1>2, <1>6, <2>4, <4>2, Rounds
    <3>3. QED
      BY <3>1, <3>2
  <2>5. CASE u # f /\ Left(u) >= waits[w]
    BY <1>1, <1>5, <1>6, <2>5, Rounds DEF Left
  <2>6. QED
    BY <2>2, <2>3, <2>4, <2>5
<1>9. QED
  BY <1>7, <1>8 DEF HeldBack

LEMMA NextHeld == IInv /\ HeldBack /\ [Next]_vars => HeldBack'
<1> SUFFICES ASSUME IInv, HeldBack, [Next]_vars PROVE HeldBack'
  OBVIOUS
<1>1. ASSUME NEW t \in Tasklet, Main(t) PROVE HeldBack'
  <2>1. CASE Start(t) \/ Outer(t) \/ Inner(t) \/ Check(t)
    <3>1. UNCHANGED barrierVars
      BY <2>1 DEF Start, Outer, Inner, Check
    <3>2. QED
      BY <3>1, FrameHeld
  <2>2. CASE Reset(t) \/ Compute(t) \/ Flag(t)
    <3>1. \E b \in Barriers : Call(t, b)
      BY <2>2, KernelAssumption DEF Reset, Compute, Flag
    <3>2. QED
      BY <3>1, CallHeld
  <2>3. QED
    BY <1>1, <2>1, <2>2 DEF Main
<1>2. ASSUME NEW t \in Tasklet, BarrierStep(t) PROVE HeldBack'
  BY <1>2, QueueHeld, LastInHeld, WakeHeld DEF BarrierStep
<1>3. CASE HostStep \/ UNCHANGED vars
  <2>1. UNCHANGED barrierVars
    BY <1>3 DEF HostStep, HostSend, HostTrigger, vars
  <2>2. QED
    BY <2>1, FrameHeld
<1>4. QED
  BY <1>1, <1>2, <1>3 DEF Next, TaskletStep

LEMMA SelfShown ==
  ASSUME NEW a, NEW b, NEW c
  PROVE  Shown(a, b)[Self] = a /\ [Shown(a, b) EXCEPT ![Self] = c] = Shown(c, b)
<1> DEFINE D == {0} \X {0} \X {0, 1}
<1>1. Self \in D
  BY DEF Self
<1>2. Shown(a, b) = [d \in D |-> IF d = Self THEN a ELSE b]
      /\ Shown(c, b) = [d \in D |-> IF d = Self THEN c ELSE b]
  BY DEF Shown
<1> HIDE DEF D
<1>3. QED
  BY <1>1, <1>2

\* The actions of the device's program, in terms of the tasklets.
LEMMA Boots ==
  ASSUME SelfPc = "boot", OFIS_dpu_state' = 2, SelfPc' = "spin", job' = job,
         Oldest' = Oldest
  PROVE  Device!DpuStep(Self)
<1>1. Device!DpuBoot(Self)
  BY SelfShown DEF Device!DpuBoot
<1>2. QED
  BY <1>1 DEF Device!DpuStep

LEMMA Enters ==
  ASSUME SelfPc = "spin", OFIS_dpu_state = 2, OFIS_dpu_state' = 2, SelfPc' = "run",
         job' = job, Oldest' = Oldest
  PROVE  Device!DpuStep(Self)
<1>1. Device!DpuEnter(Self)
  BY SelfShown DEF Device!DpuEnter
<1>2. QED
  BY <1>1 DEF Device!DpuStep

LEMMA Exits ==
  ASSUME SelfPc = "spin", OFIS_dpu_state = 0, OFIS_dpu_state' = 0, SelfPc' = "halted",
         job' = job, Oldest' = Oldest
  PROVE  Device!DpuStep(Self)
<1>1. Device!DpuExit(Self)
  BY SelfShown DEF Device!DpuExit
<1>2. QED
  BY <1>1 DEF Device!DpuStep

LEMMA Finishes ==
  ASSUME SelfPc = "end", OFIS_dpu_state' = 1, SelfPc' = "spin", job' = job,
         Oldest' = Oldest
  PROVE  Device!DpuStep(Self)
<1>1. Device!DpuFinish(Self)
  BY SelfShown DEF Device!DpuFinish
<1>2. QED
  BY <1>1 DEF Device!DpuStep

LEMMA Computes ==
  ASSUME KernelTypeOK, SelfPc = "run", UNCHANGED <<OFIS_dpu_state, job>>,
         SelfPc' = "end", Oldest' = job
  PROVE  Device!DpuStep(Self)
<1>1. ~(job >= NrJobs)
  BY Zero DEF KernelTypeOK
<1>2. Device!Computed(Self) = job
  BY <1>1, SelfShown DEF Device!Computed
<1>3. Device!DpuCompute(Self)
  BY <1>2, SelfShown DEF Device!DpuCompute
<1>4. QED
  BY <1>3 DEF Device!DpuStep

SelfStutter == UNCHANGED <<OFIS_dpu_state, SelfPc, job, Oldest>>

\* While a tasklet computes, or lets others go to compute, all are in its round.
LEMMA InOneRound ==
  ASSUME IInv, NEW t \in Tasklet, InRound(t)
  PROVE  /\ OFIS_dpu_state = 2 /\ job = Flags
         /\ \A u \in Tasklet : /\ Round(u) = Flags
                               /\ \/ pc[u] = "compute"
                                  \/ pc[u] = "flag" /\ phase[u] # "out"
<1>1. pc[t] = "compute" /\ waits[t] = 3 * Round(t) + 1 /\ Round(t) \in Nat
  BY Rounds DEF InRound, Offset
<1>2. ASSUME NEW u \in Tasklet
      PROVE  /\ Round(u) = Round(t)
             /\ pc[u] = "compute" \/ (pc[u] = "flag" /\ phase[u] # "out")
  <2>1. waits[t] <= waits[u]
    <3>1. CASE phase[t] = "out"
      <4>1. Left(t) = waits[t]
        BY <3>1, Rounds DEF Left
      <4>2. QED
        BY <4>1 DEF IInv, Together
    <3>2. CASE phase[t] = "wake"
      BY <3>2 DEF IInv, Together
    <3>3. QED
      BY <3>1, <3>2 DEF InRound
  <2>2. Left(u) <= waits[t]
    BY DEF IInv, Together
  <2>3. waits[u] = 3 * Round(u) + Offset(pc[u]) /\ Round(u) \in Nat /\ Offset(pc[u]) \in 0 .. 2
        /\ (Left(u) = waits[u] \/ Left(u) = waits[u] - 1)
    BY Rounds
  <2>4. Round(u) = Round(t) /\ Offset(pc[u]) \in {1, 2}
    BY <1>1, <2>1, <2>2, <2>3
  <2>5. phase[u] = "out" => Offset(pc[u]) = 1
    <3>1. phase[u] = "out" => Left(u) = waits[u]
      BY <2>3 DEF Left
    <3>2. QED
      BY <1>1, <2>2, <2>3, <2>4, <3>1
  <2>6. /\ Offset(pc[u]) = 1 => pc[u] = "compute"
        /\ Offset(pc[u]) = 2 => pc[u] = "flag"
    BY DEF Offset
  <2>7. QED
    BY <2>4, <2>5, <2>6
<1>3. Round(t) = Flags
  BY <1>2, Zero DEF Flags
<1>4. OFIS_dpu_state = 2
  BY <1>1, <1>3 DEF IInv, StateInv
<1>5. job = Flags
  BY <1>4 DEF IInv, StateInv
<1>6. QED
  BY <1>2, <1>3, <1>4, <1>5

LEMMA StartActs ==
  ASSUME IInv, NEW t \in Tasklet, Start(t)
  PROVE  Device!DpuStep(Self) \/ SelfStutter
<1>1. /\ pc[t] = "start" /\ phase[t] = "out" /\ OFIS_dpu_state' = 2
      /\ pc' = [pc EXCEPT ![t] = "outer"] /\ pc \in [Tasklet -> Pc]
      /\ phase' = phase /\ job' = job /\ rows' = rows
  BY DEF Start, At, Goto, barrierVars, IInv, KernelTypeOK
\* Nobody has ended a wait.
<1>2. \A u \in Tasklet : Left(u) <= 0
  BY <1>1 DEF IInv, Together, RoundInv
<1>3. Flags = 0
  BY <1>2, Zero, Rounds DEF Flags
<1>4. \A u \in Tasklet : ~InRound(u)
  <2> SUFFICES ASSUME NEW u \in Tasklet, InRound(u) PROVE FALSE
    OBVIOUS
  <2>1. pc[t] \in {"compute", "flag"}
    BY InOneRound
  <2>2. QED
    BY <1>1, <2>1
<1>5. pc[0] # "flag"
  <2>1. waits[0] <= 1
    <3>1. Left(0) <= 0 /\ waits[0] \in Nat /\ (Left(0) = waits[0] \/ Left(0) = waits[0] - 1)
      BY <1>2, Zero, Rounds
    <3>2. QED
      BY <3>1
  <2>2. QED
    BY <2>1, Zero, Rounds DEF Offset
<1>6. (\A u \in Tasklet : ~InRound(u)') /\ pc'[0] # "flag" /\ ~Returned' /\ ~Returned
      /\ ~\A u \in Tasklet : pc'[u] = "start"
  BY <1>1, <1>4, <1>5, Zero DEF InRound, Returned
<1>7. SelfPc' = "spin" /\ Oldest' = Oldest
  BY <1>1, <1>6 DEF SelfPc, Oldest
<1>8. CASE \A u \in Tasklet : pc[u] = "start"
  <2>1. SelfPc = "boot"
    BY <1>8 DEF SelfPc
  <2>2. QED
    BY <1>1, <1>7, <2>1, Boots
<1>9. CASE ~\A u \in Tasklet : pc[u] = "start"
  <2>1. SelfPc = "spin"
    BY <1>4, <1>5, <1>6, <1>9 DEF SelfPc
  <2>2. OFIS_dpu_state = 2
    BY <1>3, <1>9 DEF IInv, StateInv, KernelTypeOK
  <2>3. QED
    BY <1>1, <1>7, <2>1, <2>2 DEF SelfStutter
<1>10. QED
  BY <1>8, <1>9

LEMMA LoopActs ==
  ASSUME IInv, NEW t \in Tasklet, Outer(t) \/ Inner(t) \/ Check(t)
  PROVE  Device!DpuStep(Self) \/ SelfStutter
<1>1. PICK to \in {"inner", "check", "reset", "return"} :
        /\ pc[t] \in {"outer", "inner", "check"}
        /\ pc' = [pc EXCEPT ![t] = to]
        /\ to = "return" => OFIS_dpu_state = 0
        /\ UNCHANGED <<OFIS_dpu_state, phase, job, rows>>
  BY DEF Outer, Inner, Check, At, Goto, barrierVars
<1>2. pc \in [Tasklet -> Pc]
  BY DEF IInv, KernelTypeOK
<1>3. /\ \A u \in Tasklet : InRound(u)' <=> InRound(u)
      /\ pc'[0] = "flag" <=> pc[0] = "flag"
      /\ ~\A u \in Tasklet : pc[u] = "start"
      /\ ~\A u \in Tasklet : pc'[u] = "start"
      /\ ~Returned
  BY <1>1, <1>2, Zero DEF InRound, Returned
<1>4. Oldest' = Oldest
  BY <1>1 DEF Oldest
<1>5. CASE Returned'
  <2>1. to = "return"
    BY <1>1, <1>2, <1>5 DEF Returned
  <2>2. \A u \in Tasklet : ~InRound(u)' /\ pc'[u] # "flag"
    BY <1>5 DEF InRound, Returned
  <2>3. SelfPc = "spin"
    BY <1>3, <2>2, Zero DEF SelfPc
  <2>4. SelfPc' = "halted"
    BY <1>3, <1>5 DEF SelfPc
  <2>5. QED
    BY <1>1, <1>4, <2>1, <2>3, <2>4, Exits
<1>6. CASE ~Returned'
  <2>1. SelfPc' = SelfPc
    BY <1>3, <1>6 DEF SelfPc
  <2>2. QED
    BY <1>1, <1>4, <2>1 DEF SelfStutter
<1>7. QED
  BY <1>5, <1>6

LEMMA ResetActs ==
  ASSUME IInv, NEW t \in Tasklet, Reset(t)
  PROVE  SelfStutter
<1>1. /\ pc[t] = "reset" /\ pc' = [pc EXCEPT ![t] = "compute"] /\ pc \in [Tasklet -> Pc]
      /\ phase' = [phase EXCEPT ![t] = "call"]
      /\ phase \in [Tasklet -> {"out", "call", "stop", "stopped", "wake"}]
      /\ UNCHANGED <<OFIS_dpu_state, job, rows>>
  BY DEF Reset, At, Goto, Call, IInv, KernelTypeOK, BarrierInv, BarrierTypeOK
<1>2. /\ \A u \in Tasklet : InRound(u)' <=> InRound(u)
      /\ pc'[0] = "flag" <=> pc[0] = "flag"
      /\ ~\A u \in Tasklet : pc[u] = "start"
      /\ ~\A u \in Tasklet : pc'[u] = "start"
      /\ ~Returned /\ ~Returned'
  BY <1>1, Zero DEF InRound, Returned
<1>3. QED
  BY <1>1, <1>2 DEF SelfPc, Oldest, SelfStutter

LEMMA FlagActs ==
  ASSUME IInv, NEW t \in Tasklet, Flag(t)
  PROVE  Device!DpuStep(Self) \/ SelfStutter
<1>1. /\ pc[t] = "flag" /\ phase[t] = "out"
      /\ pc' = [pc EXCEPT ![t] = "outer"] /\ pc \in [Tasklet -> Pc]
      /\ phase' = [phase EXCEPT ![t] = "call"]
      /\ phase \in [Tasklet -> {"out", "call", "stop", "stopped", "wake"}]
      /\ OFIS_dpu_state' = (IF t = 0 THEN 1 ELSE OFIS_dpu_state)
      /\ UNCHANGED <<job, rows>>
  BY DEF Flag, At, Goto, Call, IInv, KernelTypeOK, BarrierInv, BarrierTypeOK
<1>2. \A u \in Tasklet : ~InRound(u)
  BY <1>1, InOneRound
<1>3. /\ \A u \in Tasklet : ~InRound(u)'
      /\ ~\A u \in Tasklet : pc[u] = "start"
      /\ ~\A u \in Tasklet : pc'[u] = "start"
      /\ ~Returned /\ ~Returned'
  BY <1>1, <1>2 DEF InRound, Returned
<1>4. Oldest' = Oldest
  BY <1>1 DEF Oldest
<1>5. CASE t = 0
  <2>1. SelfPc = "end" /\ SelfPc' = "spin"
    BY <1>1, <1>2, <1>3, <1>5 DEF SelfPc
  <2>2. QED
    BY <1>1, <1>4, <1>5, <2>1, Finishes
<1>6. CASE t # 0
  <2>1. pc'[0] = "flag" <=> pc[0] = "flag"
    BY <1>1, <1>6, Zero
  <2>2. SelfPc' = SelfPc
    BY <1>2, <1>3, <2>1 DEF SelfPc
  <2>3. QED
    BY <1>1, <1>4, <1>6, <2>2 DEF SelfStutter
<1>7. QED
  BY <1>5, <1>6

LEMMA LeastOne ==
  ASSUME NEW r \in [Tasklet -> Int], NEW m \in Int,
         \A u \in Tasklet : m <= r[u], NEW t \in Tasklet, r[t] = m
  PROVE  (CHOOSE p \in {r[u] : u \in Tasklet} : \A u \in Tasklet : p <= r[u]) = m
<1> DEFINE S == {r[u] : u \in Tasklet}
<1>1. m \in S /\ S \subseteq Int
  OBVIOUS
<1>2. \A p \in S : (\A u \in Tasklet : p <= r[u]) => p = m
  <2> SUFFICES ASSUME NEW p \in S, \A u \in Tasklet : p <= r[u] PROVE p = m
    OBVIOUS
  <2>1. p <= m /\ m <= p /\ p \in Int
    BY <1>1
  <2>2. QED
    BY <2>1
<1> HIDE DEF S
<1>3. (CHOOSE p \in S : \A u \in Tasklet : p <= r[u]) = m
  BY <1>1, <1>2
<1>4. QED
  BY <1>3 DEF S

LEMMA ComputeActs ==
  ASSUME IInv, HeldBack, NEW t \in Tasklet, Compute(t)
  PROVE  Device!DpuStep(Self) \/ SelfStutter
<1>1. /\ pc[t] = "compute" /\ phase[t] = "out"
      /\ pc' = [pc EXCEPT ![t] = "flag"] /\ pc \in [Tasklet -> Pc]
      /\ phase' = [phase EXCEPT ![t] = "call"]
      /\ phase \in [Tasklet -> {"out", "call", "stop", "stopped", "wake"}]
      /\ rows' = [rows EXCEPT ![t] = job] /\ rows \in [Tasklet -> -1 .. NrJobs - 1]
      /\ UNCHANGED <<OFIS_dpu_state, job>>
  BY DEF Compute, At, Goto, Call, IInv, KernelTypeOK, BarrierInv, BarrierTypeOK
<1>2. InRound(t)
  BY <1>1 DEF InRound
<1>3. /\ job = Flags /\ Flags \in Nat
      /\ \A u \in Tasklet : /\ Round(u) = Flags
                            /\ pc[u] = "compute" \/ (pc[u] = "flag" /\ phase[u] # "out")
  BY <1>2, InOneRound, Zero, Rounds DEF Flags
<1>4. /\ rows \in [Tasklet -> Int] /\ rows' \in [Tasklet -> Int]
      /\ \A u \in Tasklet : rows[u] = IF pc[u] = "flag" THEN job ELSE job - 1
      /\ \A u \in Tasklet : rows'[u] = IF pc'[u] = "flag" THEN job ELSE job - 1
  <2>1. rows \in [Tasklet -> Int] /\ rows' \in [Tasklet -> Int]
    BY <1>1, <1>3, Zero
  <2>2. \A u \in Tasklet : rows[u] = IF pc[u] = "flag" THEN job ELSE job - 1
    BY <1>3 DEF IInv, RoundInv
  <2>3. QED
    BY <1>1, <2>1, <2>2
<1>5. /\ \A u \in Tasklet \ {t} : InRound(u)' <=> InRound(u)
      /\ ~InRound(t)'
      /\ ~\A u \in Tasklet : pc[u] = "start"
      /\ ~\A u \in Tasklet : pc'[u] = "start"
      /\ ~Returned /\ ~Returned'
  BY <1>1 DEF InRound, Returned
<1>6. SelfPc = "run"
  BY <1>2, <1>5 DEF SelfPc
<1>7. CASE \E u \in Tasklet \ {t} : InRound(u)
  <2>1. PICK u \in Tasklet \ {t} : InRound(u)
    BY <1>7
  <2>2. pc[u] = "compute" /\ pc'[u] = "compute"
    BY <1>1, <2>1 DEF InRound
  <2>3. rows[u] = job - 1 /\ rows'[u] = job - 1
    BY <1>4, <2>2
  <2>4. job - 1 \in Int /\ \A v \in Tasklet : job - 1 <= rows[v] /\ job - 1 <= rows'[v]
    BY <1>3, <1>4
  <2>5. Oldest = job - 1
    BY <1>4, <2>3, <2>4, LeastOne DEF Oldest
  <2>6. Oldest' = job - 1
    BY <1>4, <2>3, <2>4, LeastOne DEF Oldest
  <2>7. SelfPc' = "run"
    BY <1>5, <2>1 DEF SelfPc
  <2>8. QED
    BY <1>1, <1>6, <2>5, <2>6, <2>7 DEF SelfStutter
<1>8. CASE \A u \in Tasklet \ {t} : ~InRound(u)
  <2>1. \A u \in Tasklet : pc'[u] = "flag"
    <3> SUFFICES ASSUME NEW u \in Tasklet, u # t, pc[u] # "flag" PROVE FALSE
      BY <1>1
    <3>1. pc[u] = "compute" /\ phase[u] \in {"call", "stop", "stopped"}
      BY <1>1, <1>3, <1>8 DEF InRound
    <3>2. where[u] = "my_barrier" /\ waits[u] = 3 * Flags + 1
      BY <1>3, <3>1, Rounds DEF IInv, RoundInv, Offset
    <3>3. Left(t) = 3 * Flags + 1
      BY <1>1, <1>3, Rounds DEF Left, Offset
    <3>4. lock["my_barrier"] # Nil
      BY <1>3, <3>1, <3>2, <3>3 DEF HeldBack
    \* The one that holds the lock is in the round, too.
    <3>5. PICK h \in Tasklet : phase[h] = "wake" /\ where[h] = "my_barrier"
      BY <3>4, KernelAssumption DEF IInv, BarrierInv, BarrierTypeOK, LockInv
    <3>6. pc[h] = "compute"
      BY <3>5 DEF IInv, RoundInv
    <3>7. QED
      BY <1>1, <1>8, <3>5, <3>6 DEF InRound
  <2>2. SelfPc' = "end"
    BY <1>5, <1>8, <2>1, Zero DEF SelfPc
  <2>3. Oldest' = job
    <3>1. \A u \in Tasklet : rows'[u] = job
      BY <1>4, <2>1
    <3>2. job \in Int /\ \A v \in Tasklet : job <= rows'[v]
      BY <1>3, <3>1
    <3>3. QED
      BY <1>4, <3>1, <3>2, Zero, LeastOne DEF Oldest
  <2>4. QED
    BY <1>1, <1>6, <2>2, <2>3, Computes DEF IInv
<1>9. QED
  BY <1>7, <1>8

LEMMA WaitActs ==
  ASSUME IInv, NEW t \in Tasklet, BarrierStep(t), UNCHANGED kernelVars
  PROVE  Device!DpuStep(Self) \/ SelfStutter
<1>1. UNCHANGED <<OFIS_dpu_state, pc, job, rows>> /\ Oldest' = Oldest
  BY DEF kernelVars, Oldest
<1>2. /\ phase \in [Tasklet -> {"out", "call", "stop", "stopped", "wake"}]
      /\ Returned' = Returned
  BY <1>1 DEF Returned, IInv, BarrierInv, BarrierTypeOK
<1>3. ASSUME \A u \in Tasklet : InRound(u)' <=> InRound(u)
      PROVE  SelfStutter
  BY <1>1, <1>2, <1>3 DEF SelfPc, SelfStutter
<1>4. CASE Queue(t) \/ Stop(t)
  <2>1. /\ phase[t] \in {"call", "stop"}
        /\ \/ phase' = [phase EXCEPT ![t] = "stop"]
           \/ phase' = [phase EXCEPT ![t] = "stopped"]
    BY <1>4 DEF Queue, Stop
  <2>2. \A u \in Tasklet : InRound(u)' <=> InRound(u)
    BY <1>1, <1>2, <2>1 DEF InRound
  <2>3. QED
    BY <1>3, <2>2
<1>5. CASE LastIn(t)
  <2>1. /\ phase[t] = "call" /\ phase'[t] \in {"out", "wake"}
        /\ \A u \in Tasklet \ {t} : phase'[u] = phase[u]
    BY <1>2, <1>5 DEF LastIn
  <2>2. \A u \in Tasklet \ {t} : where[u] = where[t] /\ phase[u] \in {"stop", "stopped"}
    BY <1>5, LastInWaiting DEF IInv, Waiting
  <2>3. CASE pc[t] = "compute"
    <3>1. \A u \in Tasklet : phase[u] # "out" /\ where[u] = "my_barrier" /\ pc[u] = "compute"
      BY <2>1, <2>2, <2>3 DEF IInv, RoundInv
    <3>2. (\A u \in Tasklet : ~InRound(u)) /\ InRound(t)'
      BY <1>1, <2>1, <2>2, <2>3 DEF InRound
    <3>3. SelfPc = "spin" /\ SelfPc' = "run"
      BY <1>1, <2>3, <3>1, <3>2, Zero DEF SelfPc, Returned
    <3>4. waits[t] > 3 * Flags
      <4>1. waits[t] = waits[0]
        BY <3>1, Zero, SameWait
      <4>2. QED
        BY <3>1, <4>1, Zero, Rounds DEF Flags, Offset
    <3>5. OFIS_dpu_state = 2
      BY <3>4 DEF IInv, StateInv
    <3>6. QED
      BY <1>1, <3>3, <3>5, Enters
  <2>4. CASE pc[t] # "compute"
    <3>1. \A u \in Tasklet : InRound(u)' <=> InRound(u)
      BY <1>1, <2>1, <2>4 DEF InRound
    <3>2. QED
      BY <1>3, <3>1
  <2>5. QED
    BY <2>3, <2>4
<1>6. CASE Wake(t)
  <2>1. first[t] \in Tasklet /\ phase[t] = "wake" /\ where[first[t]] = where[t]
        /\ phase[first[t]] = "stopped"
    BY <1>6, WakeFirst DEF Wake, Waiting, IInv, BarrierInv, BarrierTypeOK
  <2>2. /\ phase'[t] \in {"out", "wake"}
        /\ \A u \in Tasklet \ {t, first[t]} : phase'[u] = phase[u]
    BY <1>2, <1>6, <2>1 DEF Wake
  <2>3. CASE pc[t] = "compute"
    <3>1. InRound(t) /\ InRound(t)'
      BY <1>1, <2>1, <2>2, <2>3 DEF InRound
    <3>2. (~\A u \in Tasklet : pc[u] = "start") /\ ~Returned
      BY <2>3 DEF Returned
    <3>3. SelfPc = "run" /\ SelfPc' = "run"
      BY <1>1, <1>2, <3>1, <3>2 DEF SelfPc
    <3>4. QED
      BY <1>1, <3>3 DEF SelfStutter
  <2>4. CASE pc[t] # "compute"
    <3>1. pc[first[t]] # "compute"
      BY <2>1, <2>4 DEF IInv, RoundInv
    <3>2. \A u \in Tasklet : InRound(u)' <=> InRound(u)
      BY <1>1, <2>2, <2>4, <3>1 DEF InRound
    <3>3. QED
      BY <1>3, <3>2
  <2>5. QED
    BY <2>3, <2>4
<1>7. QED
  BY <1>4, <1>5, <1>6 DEF BarrierStep

LEMMA NextActs ==
  IInv /\ HeldBack /\ [Next]_vars => Device!DpuStep(Self) \/ HostStep \/ SelfStutter
<1> SUFFICES ASSUME IInv, HeldBack, [Next]_vars
             PROVE  Device!DpuStep(Self) \/ HostStep \/ SelfStutter
  OBVIOUS
<1>1. ASSUME NEW t \in Tasklet, Main(t)
      PROVE  Device!DpuStep(Self) \/ SelfStutter
  BY <1>1, StartActs, LoopActs, ResetActs, ComputeActs, FlagActs DEF Main
<1>2. ASSUME NEW t \in Tasklet, BarrierStep(t), UNCHANGED kernelVars
      PROVE  Device!DpuStep(Self) \/ SelfStutter
  BY <1>2, WaitActs
<1>3. CASE UNCHANGED vars
  <2>1. UNCHANGED <<OFIS_dpu_state, pc, job, rows, phase>>
    BY <1>3 DEF vars, barrierVars, kernelVars
  <2>2. QED
    BY <2>1 DEF SelfStutter, SelfPc, Oldest, InRound, Returned
<1>4. QED
  BY <1>1, <1>2, <1>3 DEF Next, TaskletStep

\* The tasklets and their barriers are, to the host, the one program of
\* OfisDevice: it boots once, computes each partition once and as a whole, says
\* so once, and exits (CSR_dpu.c, main).
THEOREM OneDpu == Spec => ActsAsDevice
<1>1. Init => HeldBack
  BY InitHeld
<1>2. IInv /\ HeldBack /\ [Next]_vars => HeldBack'
  BY NextHeld
<1>3. IInv /\ HeldBack /\ [Next]_vars
      => [Device!DpuStep(Self) \/ HostStep]_<<OFIS_dpu_state, SelfPc, job, Oldest>>
  BY NextActs DEF SelfStutter
<1>4. QED
  BY <1>1, <1>2, <1>3, InvariantHolds, PTL DEF Spec, ActsAsDevice
=============================================================================
