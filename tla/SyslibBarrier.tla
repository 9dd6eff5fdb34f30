--------------------------- MODULE SyslibBarrier ---------------------------
(***************************************************************************)
(* barrier_wait of the DPU runtime (dpu-rt/src/syslib/barrier.c): tasklets *)
(* queue themselves under the barrier's lock, release it and only then     *)
(* stop; the last one keeps the lock while it resumes the others, in the   *)
(* order of a circular list whose links, __WAIT_QUEUE_TABLE, are shared by *)
(* all the barriers of the program.                                        *)
(*                                                                         *)
(* __resume retries until its tasklet has stopped (dpuruntime.h 39, "nz",  *)
(* __AT_THIS_INSTRUCTION).  The pipeline issues the tasklets' instructions *)
(* in turn, so the load of the next link that follows a __resume comes     *)
(* before the resumed tasklet has queued itself anywhere: both are one     *)
(* step here.                                                              *)
(***************************************************************************)
EXTENDS Integers

CONSTANTS NrTasklets, Barriers

ASSUME BarrierAssumption == NrTasklets \in 1 .. 24

Tasklet == 0 .. NrTasklets - 1
Nil == 255    \* __EMPTY_WAIT_QUEUE

VARIABLES
  phase,       \* where each tasklet is in barrier_wait
  where,       \* the barrier it waits at, or last waited at
  first,       \* its local variable of that name
  count,       \* barrier->count
  wait_queue,  \* barrier->wait_queue, the last tasklet queued
  lock,        \* the tasklet that holds barrier->lock across steps
  table,       \* __WAIT_QUEUE_TABLE
  waits        \* history: the waits each tasklet has begun

barrierVars == <<phase, where, first, count, wait_queue, lock, table, waits>>

BarrierTypeOK ==
  /\ phase \in [Tasklet -> {"out", "call", "stop", "stopped", "wake"}]
  /\ where \in [Tasklet -> Barriers]
  /\ first \in [Tasklet -> Tasklet]
  /\ count \in [Barriers -> 1 .. NrTasklets]
  /\ wait_queue \in [Barriers -> Tasklet \cup {Nil}]
  /\ lock \in [Barriers -> Tasklet \cup {Nil}]
  /\ table \in [Tasklet -> Tasklet]
  /\ waits \in [Tasklet -> Nat]

BarrierInit ==
  /\ phase = [t \in Tasklet |-> "out"]
  /\ where = [t \in Tasklet |-> CHOOSE b \in Barriers : TRUE]
  /\ first = [t \in Tasklet |-> 0]
  /\ count = [b \in Barriers |-> NrTasklets]
  /\ wait_queue = [b \in Barriers |-> Nil]
  /\ lock = [b \in Barriers |-> Nil]
  /\ table = [t \in Tasklet |-> 0]
  /\ waits = [t \in Tasklet |-> 0]

\* Tasklet t calls barrier_wait(b).
Call(t, b) ==
  /\ phase[t] = "out"
  /\ phase' = [phase EXCEPT ![t] = "call"]
  /\ where' = [where EXCEPT ![t] = b]
  /\ waits' = [waits EXCEPT ![t] = @ + 1]
  /\ UNCHANGED <<first, count, wait_queue, lock, table>>

\* Fault: the last one queues itself too.
QueueLast(t) ==
  LET b == where[t]
      last == wait_queue[b]
  IN /\ phase[t] = "call"
     /\ lock[b] = Nil
     /\ table' = IF last = Nil THEN [table EXCEPT ![t] = t]
                 ELSE [table EXCEPT ![t] = table[last], ![last] = t]
     /\ wait_queue' = [wait_queue EXCEPT ![b] = t]
     /\ count' = [count EXCEPT ![b] = @ - 1]
     /\ phase' = [phase EXCEPT ![t] = "stop"]
     /\ UNCHANGED <<where, first, lock, waits>>

\* Fault: the tasklet queued before is not linked to the new one.
QueueNoLink(t) ==
  LET b == where[t]
      last == wait_queue[b]
  IN /\ phase[t] = "call"
     /\ lock[b] = Nil
     /\ count[b] # 1
     /\ table' = [table EXCEPT ![t] = IF last = Nil THEN t ELSE table[last]]
     /\ wait_queue' = [wait_queue EXCEPT ![b] = t]
     /\ count' = [count EXCEPT ![b] = @ - 1]
     /\ phase' = [phase EXCEPT ![t] = "stop"]
     /\ UNCHANGED <<where, first, lock, waits>>

\* Not the last one: the section under the lock.
Queue(t) ==
  LET b == where[t]
      last == wait_queue[b]
  IN /\ phase[t] = "call"
     /\ lock[b] = Nil
     /\ count[b] # 1
     /\ table' = IF last = Nil THEN [table EXCEPT ![t] = t]
                 ELSE [table EXCEPT ![t] = table[last], ![last] = t]
     /\ wait_queue' = [wait_queue EXCEPT ![b] = t]
     /\ count' = [count EXCEPT ![b] = @ - 1]
     /\ phase' = [phase EXCEPT ![t] = "stop"]
     /\ UNCHANGED <<where, first, lock, waits>>

\* __stop, after the release.
Stop(t) ==
  /\ phase[t] = "stop"
  /\ phase' = [phase EXCEPT ![t] = "stopped"]
  /\ UNCHANGED <<where, first, count, wait_queue, lock, table, waits>>

\* The last one takes the lock; a barrier for one tasklet has nobody to wake.
LastIn(t) ==
  LET b == where[t]
  IN /\ phase[t] = "call"
     /\ lock[b] = Nil
     /\ count[b] = 1
     /\ IF wait_queue[b] = Nil
        THEN /\ phase' = [phase EXCEPT ![t] = "out"]
             /\ UNCHANGED <<first, lock>>
        ELSE /\ lock' = [lock EXCEPT ![b] = t]
             /\ first' = [first EXCEPT ![t] = table[wait_queue[b]]]
             /\ phase' = [phase EXCEPT ![t] = "wake"]
     /\ UNCHANGED <<where, count, wait_queue, table, waits>>

\* Fault: a __resume that does not retry is lost on a tasklet that has queued
\* itself and not stopped yet.
WakeLost(t) ==
  LET b == where[t]
      f == first[t]
      woken == IF phase[f] = "stopped" THEN [phase EXCEPT ![f] = "out"] ELSE phase
  IN /\ phase[t] = "wake"
     /\ IF f # wait_queue[b]
        THEN /\ phase' = woken
             /\ first' = [first EXCEPT ![t] = table[f]]
             /\ UNCHANGED <<count, wait_queue, lock>>
        ELSE /\ phase' = [woken EXCEPT ![t] = "out"]
             /\ wait_queue' = [wait_queue EXCEPT ![b] = Nil]
             /\ count' = [count EXCEPT ![b] = NrTasklets]
             /\ lock' = [lock EXCEPT ![b] = Nil]
             /\ UNCHANGED first
     /\ UNCHANGED <<where, table, waits>>

\* Fault: the count is not restored.
WakeNoReset(t) ==
  LET b == where[t]
      f == first[t]
  IN /\ phase[t] = "wake"
     /\ phase[f] = "stopped"
     /\ IF f # wait_queue[b]
        THEN /\ phase' = [phase EXCEPT ![f] = "out"]
             /\ first' = [first EXCEPT ![t] = table[f]]
             /\ UNCHANGED <<wait_queue, lock>>
        ELSE /\ phase' = [phase EXCEPT ![f] = "out", ![t] = "out"]
             /\ wait_queue' = [wait_queue EXCEPT ![b] = Nil]
             /\ lock' = [lock EXCEPT ![b] = Nil]
             /\ UNCHANGED first
     /\ UNCHANGED <<where, count, table, waits>>

\* One __resume of the last one; after the end of the list it resets the
\* barrier and releases the lock.
Wake(t) ==
  LET b == where[t]
      f == first[t]
  IN /\ phase[t] = "wake"
     /\ phase[f] = "stopped"
     /\ \/ /\ f # wait_queue[b]
           /\ phase' = [phase EXCEPT ![f] = "out"]
           /\ first' = [first EXCEPT ![t] = table[f]]
           /\ UNCHANGED <<count, wait_queue, lock>>
        \/ /\ f = wait_queue[b]
           /\ phase' = [phase EXCEPT ![f] = "out", ![t] = "out"]
           /\ wait_queue' = [wait_queue EXCEPT ![b] = Nil]
           /\ count' = [count EXCEPT ![b] = NrTasklets]
           /\ lock' = [lock EXCEPT ![b] = Nil]
           /\ UNCHANGED first
     /\ UNCHANGED <<where, table, waits>>

BarrierStep(t) == Queue(t) \/ Stop(t) \/ LastIn(t) \/ Wake(t)

-----------------------------------------------------------------------------
\* A stopped tasklet is in its barrier's queue, or a waker is about to resume
\* it: the links lead from the last one queued through all the others that
\* still have to be resumed, although every barrier shares one table.
Walk(f, last) ==
  LET at[n \in 0 .. NrTasklets] == IF n = 0 THEN f ELSE table[at[n - 1]]
  IN {at[n] : n \in {m \in 0 .. NrTasklets - 1 : \A l \in 0 .. m - 1 : at[l] # last}}

Queued(b) ==
  IF wait_queue[b] = Nil THEN {}
  ELSE IF lock[b] # Nil THEN Walk(first[lock[b]], wait_queue[b])
  ELSE Walk(table[wait_queue[b]], wait_queue[b])

NobodyForgotten ==
  \A b \in Barriers :
    Queued(b) = {t \in Tasklet : where[t] = b /\ phase[t] \in {"stop", "stopped"}}

\* No wait returns early (barrier.h: the tasklet "is suspended until the counter
\* associated to the barrier is reduced to 0").
Promise == INSTANCE BarrierPromise WITH
  entered <- waits,
  left <- [t \in Tasklet |-> waits[t] - (IF phase[t] = "out" THEN 0 ELSE 1)]

KeepsPromise == Promise!Spec
=============================================================================
