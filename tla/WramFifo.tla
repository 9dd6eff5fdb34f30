------------------------------ MODULE WramFifo ------------------------------
(***************************************************************************)
(* The WRAM FIFOs of one DPU: the tasklets' loops                          *)
(* process_inputs_all_tasklets and process_inputs_each_tasklet             *)
(* (dpu-rt/src/syslib/wramfifo.c), and the host that pushes inputs and     *)
(* flushes outputs while they run (api/src/dpu_memory.c 314-430).          *)
(*                                                                         *)
(* Positions are the absolute 64-bit pointers of the code, slots their     *)
(* remainder by NrSlots (2 ^ ptr_size).  Calls of the push are numbered in *)
(* order, their inputs and the outputs of these have their numbers.  The   *)
(* barrier is what BarrierPromise says of SyslibBarrier.                   *)
(*                                                                         *)
(* The tasklets use whole slot numbers, the host keeps them in a uint8_t,  *)
(* although init_fifo takes FIFOs of up to 1024 slots: HostSlot wraps.     *)
(***************************************************************************)
EXTENDS Integers, Sequences, FiniteSets

CONSTANTS
  NrSlots,      \* slots of each FIFO
  NrIndexes,    \* values of the host's slot numbers: 256
  NrTasklets,
  NrItems,      \* bound on the push calls of the host
  MaxRetries,   \* max_retries of a push
  Modes,        \* which of the two loops the kernel may run
  Drains        \* whether the host collects every output before it clears *active

ASSUME WramFifoAssumption ==
  /\ NrSlots \in Nat \ {0}
  /\ NrIndexes \in Nat \ {0}
  /\ NrTasklets \in Nat \ {0}
  /\ NrItems \in Nat
  /\ MaxRetries \in Nat
  /\ Modes \subseteq {"all", "each"}
  /\ Drains \in BOOLEAN

Tasklet == 0 .. NrTasklets - 1
Free == -1                       \* the mutex nobody holds
Item == -1 .. NrItems - 1        \* -1: never written, or not one item's result

VARIABLES
  mode,                          \* the loop the kernel runs; never changes
  in_rd, in_wr, in_data,         \* input FIFO
  out_rd, out_wr, out_data,      \* output FIFO
  nb_reserved,
  active,
  pc, tmp, mutex,                \* the tasklets
  entered, left,                 \* barrier: waits begun and ended
  hpc, h_rd, h_wr, h_data,       \* the host, with its copy of pointers and data
  retries,                       \* n_retries
  pushed,                        \* push calls that have returned
  sent, refused, got             \* history: inputs sent, calls that returned FULL,
                                 \* outputs collected

inVars   == <<in_rd, in_wr, in_data>>
outVars  == <<out_rd, out_wr, out_data>>
barVars  == <<entered, left>>
pushVars == <<pushed, sent, refused>>
hostVars == <<hpc, h_rd, h_wr, h_data, retries, pushVars, got>>
vars == <<mode, inVars, outVars, nb_reserved, active, pc, tmp, mutex, barVars, hostVars>>

Pc == {"top", "room", "active", "exit",
       "wait1", "process", "wait2", "reduce", "publish", "pop", "arrive", "wait3",
       "lock", "locked", "popping", "work", "relock", "push", "ready", "cede"}

TypeOK ==
  /\ mode \in {"all", "each"}
  /\ in_rd \in Nat /\ in_wr \in Nat
  /\ out_rd \in Nat /\ out_wr \in Nat
  /\ in_data \in [0 .. NrSlots - 1 -> Item]
  /\ out_data \in [0 .. NrSlots - 1 -> Item]
  /\ nb_reserved \in 0 .. NrTasklets
  /\ active \in BOOLEAN
  /\ pc \in [Tasklet -> Pc]
  /\ tmp \in [Tasklet -> Item]
  /\ mutex \in Tasklet \cup {Free}
  /\ entered \in [Tasklet -> Nat] /\ left \in [Tasklet -> Nat]
  /\ hpc \in {"idle", "push", "check", "data", "pointer", "copy", "release"}
  /\ h_rd \in Nat /\ h_wr \in Nat
  /\ h_data \in [0 .. NrSlots - 1 -> Item]
  /\ retries \in 0 .. MaxRetries + 1
  /\ pushed \in 0 .. NrItems
  /\ sent \subseteq 0 .. NrItems - 1 /\ refused \subseteq 0 .. NrItems - 1
  /\ got \in Seq(Item)

Init ==
  /\ mode \in Modes
  /\ in_rd = 0 /\ in_wr = 0 /\ out_rd = 0 /\ out_wr = 0
  /\ in_data = [s \in 0 .. NrSlots - 1 |-> -1]
  /\ out_data = [s \in 0 .. NrSlots - 1 |-> -1]
  /\ nb_reserved = 0
  /\ active = TRUE
  /\ pc = [t \in Tasklet |-> "top"]
  /\ tmp = [t \in Tasklet |-> -1]
  /\ mutex = Free
  /\ entered = [t \in Tasklet |-> 0] /\ left = [t \in Tasklet |-> 0]
  /\ hpc = "idle"
  /\ h_rd = 0 /\ h_wr = 0
  /\ h_data = [s \in 0 .. NrSlots - 1 |-> -1]
  /\ retries = 0
  /\ pushed = 0 /\ sent = {} /\ refused = {}
  /\ got = <<>>

Bar == INSTANCE BarrierPromise

-----------------------------------------------------------------------------
(* Both loops: is there an input, is there room for an output.             *)

Slot(ptr) == ptr % NrSlots

\* Fault: the comparison of the absolute pointers is off by one.
FullLate(rd, wr) == wr - rd > NrSlots

\* is_output_fifo_full, and the host's is_fifo_full
Full(rd, wr) == Slot(rd) = Slot(wr) /\ rd # wr

Goto(t, to) == pc' = [pc EXCEPT ![t] = to]

\* is_input_fifo_empty, without the mutex
Top(t) ==
  /\ pc[t] = "top"
  /\ Goto(t, IF in_rd # in_wr THEN "room" ELSE "active")
  /\ UNCHANGED <<mode, inVars, outVars, nb_reserved, active, tmp, mutex, barVars, hostVars>>

\* is_output_fifo_full, without the mutex; then barrier_wait or mutex_lock
Room(t) ==
  /\ pc[t] = "room"
  /\ \/ /\ Full(out_rd, out_wr + nb_reserved)
        /\ Goto(t, "top")
        /\ UNCHANGED barVars
     \/ /\ ~Full(out_rd, out_wr + nb_reserved)
        /\ mode = "all"
        /\ Bar!Enter(t)
        /\ Goto(t, "wait1")
     \/ /\ ~Full(out_rd, out_wr + nb_reserved)
        /\ mode = "each"
        /\ Goto(t, "lock")
        /\ UNCHANGED barVars
  /\ UNCHANGED <<mode, inVars, outVars, nb_reserved, active, tmp, mutex, hostVars>>

\* else if(!*active) break
Active(t) ==
  /\ pc[t] = "active"
  /\ Goto(t, IF active THEN "top" ELSE "exit")
  /\ UNCHANGED <<mode, inVars, outVars, nb_reserved, active, tmp, mutex, barVars, hostVars>>

-----------------------------------------------------------------------------
(* process_inputs_all_tasklets                                             *)

AfterWait(t) ==
  CASE pc[t] = "wait1" -> "process"
    [] pc[t] = "wait2" -> IF t = 0 THEN "reduce" ELSE "arrive"
    [] pc[t] = "wait3" -> "top"

Passed(t) ==
  /\ pc[t] \in {"wait1", "wait2", "wait3"}
  /\ Bar!Leave({t})
  /\ Goto(t, AfterWait(t))
  /\ UNCHANGED <<mode, inVars, outVars, nb_reserved, active, tmp, mutex, hostVars>>

\* Fault: tasklet 0 does not wait for the others' parts.
ProcessAlone(t) ==
  /\ pc[t] = "process"
  /\ tmp' = [tmp EXCEPT ![t] = in_data[Slot(in_rd)]]
  /\ IF t = 0 THEN Goto(t, "reduce") /\ UNCHANGED barVars
     ELSE Bar!Enter(t) /\ Goto(t, "wait3")
  /\ UNCHANGED <<mode, inVars, outVars, nb_reserved, active, mutex, hostVars>>

\* process_input on the element at the head; barrier_wait
Process(t) ==
  /\ pc[t] = "process"
  /\ tmp' = [tmp EXCEPT ![t] = in_data[Slot(in_rd)]]
  /\ Bar!Enter(t)
  /\ Goto(t, "wait2")
  /\ UNCHANGED <<mode, inVars, outVars, nb_reserved, active, mutex, hostVars>>

\* The output is one input's only if every tasklet has processed that input.
Reduced == IF \A t \in Tasklet : tmp[t] = tmp[0] THEN tmp[0] ELSE -1

\* Tasklet 0: reduce, and the memcpy of output_fifo_push
Reduce ==
  /\ pc[0] = "reduce"
  /\ out_data' = [out_data EXCEPT ![Slot(out_wr)] = Reduced]
  /\ Goto(0, "publish")
  /\ UNCHANGED <<mode, inVars, out_rd, out_wr, nb_reserved, active, tmp, mutex, barVars, hostVars>>

\* write_ptr++ of output_fifo_push
Publish ==
  /\ pc[0] = "publish"
  /\ out_wr' = out_wr + 1
  /\ Goto(0, "pop")
  /\ UNCHANGED <<mode, inVars, out_rd, out_data, nb_reserved, active, tmp, mutex, barVars, hostVars>>

\* Tasklet 0: input_fifo_pop; barrier_wait
Pop ==
  /\ pc[0] = "pop"
  /\ in_rd' = in_rd + 1
  /\ Bar!Enter(0)
  /\ Goto(0, "wait3")
  /\ UNCHANGED <<mode, in_wr, in_data, outVars, nb_reserved, active, tmp, mutex, hostVars>>

\* The other tasklets: barrier_wait
Arrive(t) ==
  /\ pc[t] = "arrive"
  /\ Bar!Enter(t)
  /\ Goto(t, "wait3")
  /\ UNCHANGED <<mode, inVars, outVars, nb_reserved, active, tmp, mutex, hostVars>>

-----------------------------------------------------------------------------
(* process_inputs_each_tasklet                                             *)

Lock(t) ==
  /\ pc[t] \in {"lock", "relock"}
  /\ mutex = Free
  /\ mutex' = t
  /\ Goto(t, IF pc[t] = "lock" THEN "locked" ELSE "push")
  /\ UNCHANGED <<mode, inVars, outVars, nb_reserved, active, tmp, barVars, hostVars>>

\* Fault: the checks made before the mutex are believed.
TakeUnchecked(t) ==
  /\ pc[t] = "locked"
  /\ tmp' = [tmp EXCEPT ![t] = in_data[Slot(in_rd)]]
  /\ Goto(t, "popping")
  /\ UNCHANGED <<mode, inVars, outVars, nb_reserved, active, mutex, barVars, hostVars>>

\* Both checks again, and the memcpy of the input
Take(t) ==
  /\ pc[t] = "locked"
  /\ \/ /\ in_rd # in_wr /\ ~Full(out_rd, out_wr + nb_reserved)
        /\ tmp' = [tmp EXCEPT ![t] = in_data[Slot(in_rd)]]
        /\ Goto(t, "popping")
        /\ UNCHANGED mutex
     \/ /\ in_rd = in_wr \/ Full(out_rd, out_wr + nb_reserved)
        /\ mutex' = Free
        /\ Goto(t, "top")
        /\ UNCHANGED tmp
  /\ UNCHANGED <<mode, inVars, outVars, nb_reserved, active, barVars, hostVars>>

\* Fault: no output slot is reserved while the tasklet works.
PopOnly(t) ==
  /\ pc[t] = "popping"
  /\ in_rd' = in_rd + 1
  /\ mutex' = Free
  /\ Goto(t, "work")
  /\ UNCHANGED <<mode, in_wr, in_data, outVars, nb_reserved, active, tmp, barVars, hostVars>>

\* input_fifo_pop, output_fifo_reserve, mutex_unlock
PopReserve(t) ==
  /\ pc[t] = "popping"
  /\ in_rd' = in_rd + 1
  /\ nb_reserved' = nb_reserved + 1
  /\ mutex' = Free
  /\ Goto(t, "work")
  /\ UNCHANGED <<mode, in_wr, in_data, outVars, active, tmp, barVars, hostVars>>

\* process_input
Work(t) ==
  /\ pc[t] = "work"
  /\ Goto(t, "relock")
  /\ UNCHANGED <<mode, inVars, outVars, nb_reserved, active, tmp, mutex, barVars, hostVars>>

\* output_fifo_push: the memcpy, then write_ptr++
PushOut(t) ==
  /\ pc[t] = "push"
  /\ out_data' = [out_data EXCEPT ![Slot(out_wr)] = tmp[t]]
  /\ Goto(t, "ready")
  /\ UNCHANGED <<mode, inVars, out_rd, out_wr, nb_reserved, active, tmp, mutex, barVars, hostVars>>

PublishOut(t) ==
  /\ pc[t] = "ready"
  /\ out_wr' = out_wr + 1
  /\ Goto(t, "cede")
  /\ UNCHANGED <<mode, inVars, out_rd, out_data, nb_reserved, active, tmp, mutex, barVars, hostVars>>

\* output_fifo_cede, mutex_unlock
Cede(t) ==
  /\ pc[t] = "cede"
  /\ nb_reserved' = nb_reserved - 1
  /\ mutex' = Free
  /\ Goto(t, "top")
  /\ UNCHANGED <<mode, inVars, outVars, active, tmp, barVars, hostVars>>

-----------------------------------------------------------------------------
(* The host.  Calls to a rank are executed one after the other.            *)

kernelVars == <<mode, nb_reserved, pc, tmp, mutex, barVars>>

\* dpu_copy_to_wram_fifo: the pointers are read, again after every retry.
BeginPush ==
  /\ hpc = "idle"
  /\ pushed < NrItems
  /\ hpc' = "push"
  /\ retries' = 0
  /\ UNCHANGED <<kernelVars, inVars, outVars, active, h_rd, h_wr, h_data, pushVars, got>>

ReadInput ==
  /\ hpc = "push"
  /\ h_rd' = in_rd
  /\ h_wr' = in_wr
  /\ hpc' = "check"
  /\ UNCHANGED <<kernelVars, inVars, outVars, active, h_data, retries, pushVars, got>>

\* A full FIFO is polled again, up to max_retries times; then the call returns
\* DPU_ERR_WRAM_FIFO_FULL.
CheckFull ==
  /\ hpc = "check"
  /\ LET full == Full(h_rd, h_wr)
         refuse == full /\ retries + 1 > MaxRetries
     IN /\ retries' = IF full THEN retries + 1 ELSE retries
        /\ hpc' = IF refuse THEN "idle" ELSE IF full THEN "push" ELSE "data"
        /\ pushed' = IF refuse THEN pushed + 1 ELSE pushed
        /\ refused' = IF refuse THEN refused \cup {pushed} ELSE refused
  /\ UNCHANGED <<kernelVars, inVars, outVars, active, h_rd, h_wr, h_data, sent, got>>

\* get_fifo_wr_ptr, and the id of get_fifo_elem
HostSlot(ptr) == Slot(ptr) % NrIndexes

\* send_data_one_dpu, or the broadcast of one DPU
SendData ==
  /\ hpc = "data"
  /\ in_data' = [in_data EXCEPT ![HostSlot(h_wr)] = pushed]
  /\ hpc' = "pointer"
  /\ UNCHANGED <<kernelVars, in_rd, in_wr, outVars, active, h_rd, h_wr, h_data, retries,
                 pushVars, got>>

\* increment_fifo_wr_pointer_one_dpu.  The round that sends counts as a retry, too,
\* when one came before it.
SendPointer ==
  /\ hpc = "pointer"
  /\ in_wr' = h_wr + 1
  /\ pushed' = pushed + 1
  /\ sent' = sent \cup {pushed}
  /\ refused' = IF retries > 0 /\ retries + 1 > MaxRetries THEN refused \cup {pushed}
                ELSE refused
  /\ hpc' = "idle"
  /\ UNCHANGED <<kernelVars, in_rd, in_data, outVars, active, h_rd, h_wr, h_data, retries,
                 got>>

\* dpu_copy_from_wram_fifo: the pointers,
BeginFlush ==
  /\ hpc = "idle"
  /\ h_rd' = out_rd
  /\ h_wr' = out_wr
  /\ hpc' = "copy"
  /\ UNCHANGED <<kernelVars, inVars, outVars, active, h_data, retries, pushVars, got>>

\* the whole data array when the FIFO is not empty,
CopyOutput ==
  /\ hpc = "copy"
  /\ h_data' = IF h_wr # h_rd THEN out_data ELSE h_data
  /\ hpc' = "release"
  /\ UNCHANGED <<kernelVars, inVars, outVars, active, h_rd, h_wr, retries, pushVars, got>>

\* and the read pointer.  The caller takes the elements between the pointers
\* (get_fifo_size, get_fifo_elem) from its buffer; their number is a uint8_t, too.
Elements == [i \in 1 .. h_wr - h_rd |-> h_data[HostSlot(h_rd + ((i - 1) % NrIndexes))]]

\* Fault: the write pointer of the moment of the release goes to the DPU.
ReleaseAll ==
  /\ hpc = "release"
  /\ out_rd' = out_wr
  /\ got' = got \o Elements
  /\ hpc' = "idle"
  /\ UNCHANGED <<kernelVars, inVars, out_wr, out_data, active, h_rd, h_wr, h_data, retries, pushVars>>

Release ==
  /\ hpc = "release"
  /\ out_rd' = h_wr
  /\ got' = got \o Elements
  /\ hpc' = "idle"
  /\ UNCHANGED <<kernelVars, inVars, out_wr, out_data, active, h_rd, h_wr, h_data, retries, pushVars>>

\* The application has no more inputs.
ClearActive ==
  /\ hpc = "idle"
  /\ active
  /\ pushed = NrItems
  /\ Drains => Len(got) = Cardinality(sent)
  /\ active' = FALSE
  /\ UNCHANGED <<kernelVars, inVars, outVars, hostVars>>

AllTasklets(t) ==
  \/ Passed(t) \/ Process(t) \/ Arrive(t)
  \/ t = 0 /\ (Reduce \/ Publish \/ Pop)

EachTasklet(t) ==
  \/ Lock(t) \/ Take(t) \/ PopReserve(t) \/ Work(t)
  \/ PushOut(t) \/ PublishOut(t) \/ Cede(t)

TaskletStep(t) ==
  Top(t) \/ Room(t) \/ Active(t) \/ AllTasklets(t) \/ EachTasklet(t)

Call == ReadInput \/ CheckFull \/ SendData \/ SendPointer \/ CopyOutput \/ Release

Done ==
  /\ hpc = "idle"
  /\ pushed = NrItems
  /\ Len(got) = Cardinality(sent)
  /\ \A t \in Tasklet : pc[t] = "exit"

Next ==
  \/ \E t \in Tasklet : TaskletStep(t)
  \/ BeginPush \/ BeginFlush \/ Call
  \/ ClearActive

Spec == Init /\ [][Next]_vars

\* The pipeline runs every tasklet, the mutex is handed to whoever tries often
\* enough, and the application calls both functions again and again.
FairSpec ==
  /\ Spec
  /\ \A t \in Tasklet : WF_vars(TaskletStep(t)) /\ SF_vars(Lock(t))
  /\ WF_vars(Call)
  /\ SF_vars(BeginPush) /\ SF_vars(BeginFlush) /\ SF_vars(ClearActive)

-----------------------------------------------------------------------------
(* Properties.                                                             *)

\* Neither side's pointer passes what the other has not read: the host moves its
\* own by an old copy of the read pointer, and the tasklets keep slots for the
\* outputs they still work on.
WithinSlots ==
  /\ in_rd <= in_wr /\ in_wr - in_rd <= NrSlots
  /\ out_rd <= out_wr /\ out_wr - out_rd <= NrSlots

\* Every input pushed is at exactly one place: in the input FIFO, with one
\* tasklet, in the output FIFO or with the host.
Inputs == IF pc[0] = "pop" THEN in_rd + 1 .. in_wr - 1 ELSE in_rd .. in_wr - 1

Places(n) ==
  {<<"in", i>> : i \in {j \in Inputs : in_data[Slot(j)] = n}}
    \cup {<<"held", t>> : t \in {u \in Tasklet : tmp[u] = n /\ pc[u] \in {"work", "relock", "push", "ready"}}}
    \cup {<<"out", i>> : i \in {j \in out_rd .. out_wr - 1 : out_data[Slot(j)] = n}}
    \cup {<<"got", i>> : i \in {j \in DOMAIN got : got[j] = n}}

ExactlyOnce == \A n \in sent : Cardinality(Places(n)) = 1

\* process_inputs_all_tasklets answers in the order of the inputs, and each of
\* its answers is made of all the tasklets' parts of one input.
InOrder ==
  mode = "all" =>
    \A i \in DOMAIN got : got[i] \in sent /\ Cardinality({n \in sent : n < got[i]}) = i - 1

\* A call that returns DPU_ERR_WRAM_FIFO_FULL has sent nothing: its caller pushes
\* the input again ("retry until the push is successful allowing a maximum number
\* of retries after which a DPU_ERR_WRAM_FIFO_FULL error is returned",
\* api/src/dpu_memory.c 324).
RefusedNotSent == refused \cap sent = {}

\* Every input is answered and every tasklet returns (wramfifo.h 140: "when set
\* to zero, the tasklets will stop executing as soon as the input fifo is
\* empty").
AllServed == <>Done
=============================================================================
