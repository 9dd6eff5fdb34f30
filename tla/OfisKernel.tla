----------------------------- MODULE OfisKernel -----------------------------
(***************************************************************************)
(* The tasklets of the SpMV kernel (SpMV/SpMV_OFIS/CSR_dpu.c) on one DPU,  *)
(* with the runtime's barriers between the steps of its main loop, and the *)
(* host as the DPU sees it: a DPU that says 1 gets the next partition and  *)
(* the state 2 or, after the last one, the state 0.                        *)
(*                                                                         *)
(* OfisDevice gives a DPU one thread; ActsAsDevice shows that this is what *)
(* the tasklets together look like from the outside.                       *)
(***************************************************************************)
EXTENDS SyslibBarrier

CONSTANT NrJobs   \* partitions this DPU is given

ASSUME KernelAssumption ==
  /\ NrJobs \in Nat \ {0}
  /\ Barriers = {"my_barrier", "exec_barrier", "flag_barrier"}

VARIABLES
  OFIS_dpu_state,
  pc,      \* the statement each tasklet is at, or continues with after a barrier
  job,     \* the partition in DPU_INPUT_ARGS and in MRAM
  rows,    \* the partition whose result each tasklet's rows hold
  sent     \* whether the host has sent a partition and not yet the state

kernelVars == <<OFIS_dpu_state, pc, job, rows, sent>>
vars == <<barrierVars, kernelVars>>

Pc == {"start", "outer", "inner", "check", "reset", "compute", "flag", "return"}

TypeOK ==
  /\ BarrierTypeOK
  /\ OFIS_dpu_state \in 0 .. 2
  /\ pc \in [Tasklet -> Pc]
  /\ job \in 0 .. NrJobs - 1
  /\ rows \in [Tasklet -> -1 .. NrJobs - 1]
  /\ sent \in BOOLEAN

Init ==
  /\ BarrierInit
  /\ OFIS_dpu_state = 0
  /\ pc = [t \in Tasklet |-> "start"]
  /\ job = 0
  /\ rows = [t \in Tasklet |-> -1]
  /\ sent = FALSE

At(t, at)  == phase[t] = "out" /\ pc[t] = at
Goto(t, to) == pc' = [pc EXCEPT ![t] = to]

-----------------------------------------------------------------------------
(* main of tasklet t, one action per access to OFIS_dpu_state.             *)

\* OFIS_dpu_state = 2, by every tasklet.
Start(t) ==
  /\ At(t, "start")
  /\ OFIS_dpu_state' = 2
  /\ Goto(t, "outer")
  /\ UNCHANGED <<barrierVars, job, rows, sent>>

\* while(OFIS_dpu_state != 0)
Outer(t) ==
  /\ At(t, "outer")
  /\ Goto(t, IF OFIS_dpu_state # 0 THEN "inner" ELSE "return")
  /\ UNCHANGED <<barrierVars, OFIS_dpu_state, job, rows, sent>>

\* while(OFIS_dpu_state != 2)
Inner(t) ==
  /\ At(t, "inner")
  /\ Goto(t, IF OFIS_dpu_state # 2 THEN "check" ELSE "reset")
  /\ UNCHANGED <<barrierVars, OFIS_dpu_state, job, rows, sent>>

\* if(OFIS_dpu_state == 0) return 0
Check(t) ==
  /\ At(t, "check")
  /\ Goto(t, IF OFIS_dpu_state = 0 THEN "return" ELSE "inner")
  /\ UNCHANGED <<barrierVars, OFIS_dpu_state, job, rows, sent>>

\* Fault: no barrier between the reset of the heap and the computation.
ResetAlone(t) ==
  /\ At(t, "reset")
  /\ Goto(t, "compute")
  /\ UNCHANGED <<barrierVars, OFIS_dpu_state, job, rows, sent>>

\* Tasklet 0 resets the heap; barrier_wait(&my_barrier).
Reset(t) ==
  /\ At(t, "reset")
  /\ Goto(t, "compute")
  /\ Call(t, "my_barrier")
  /\ UNCHANGED <<OFIS_dpu_state, job, rows, sent>>

\* Fault: no barrier between the computation and the state 1.
ComputeAlone(t) ==
  /\ At(t, "compute")
  /\ rows' = [rows EXCEPT ![t] = job]
  /\ Goto(t, "flag")
  /\ UNCHANGED <<barrierVars, OFIS_dpu_state, job, sent>>

\* The tasklet's rows, through buffers of the heap; barrier_wait(&exec_barrier).
Compute(t) ==
  /\ At(t, "compute")
  /\ rows' = [rows EXCEPT ![t] = job]
  /\ Goto(t, "flag")
  /\ Call(t, "exec_barrier")
  /\ UNCHANGED <<OFIS_dpu_state, job, sent>>

\* Fault: every tasklet writes the state.
FlagAll(t) ==
  /\ At(t, "flag")
  /\ OFIS_dpu_state' = 1
  /\ Goto(t, "outer")
  /\ Call(t, "flag_barrier")
  /\ UNCHANGED <<job, rows, sent>>

\* if(tasklet_id == 0) OFIS_dpu_state = 1; barrier_wait(&flag_barrier).
Flag(t) ==
  /\ At(t, "flag")
  /\ OFIS_dpu_state' = IF t = 0 THEN 1 ELSE OFIS_dpu_state
  /\ Goto(t, "outer")
  /\ Call(t, "flag_barrier")
  /\ UNCHANGED <<job, rows, sent>>

Main(t) ==
  \/ Start(t) \/ Outer(t) \/ Inner(t) \/ Check(t) \/ Reset(t) \/ Compute(t)
  \/ Flag(t)

TaskletStep(t) == Main(t) \/ (BarrierStep(t) /\ UNCHANGED kernelVars)

-----------------------------------------------------------------------------
(* The host thread: arguments and matrix go before the state.              *)

HostSend ==
  /\ OFIS_dpu_state = 1
  /\ ~sent
  /\ job < NrJobs - 1
  /\ job' = job + 1
  /\ sent' = TRUE
  /\ UNCHANGED <<barrierVars, OFIS_dpu_state, pc, rows>>

HostTrigger ==
  /\ OFIS_dpu_state = 1
  /\ \/ /\ sent
        /\ OFIS_dpu_state' = 2
     \/ /\ ~sent
        /\ job = NrJobs - 1
        /\ OFIS_dpu_state' = 0
  /\ sent' = FALSE
  /\ UNCHANGED <<barrierVars, pc, job, rows>>

HostStep == HostSend \/ HostTrigger

Returned == \A t \in Tasklet : pc[t] = "return"

Next ==
  \/ \E t \in Tasklet : TaskletStep(t)
  \/ HostStep
  \/ Returned /\ UNCHANGED vars

\* The pipeline runs every tasklet that has not stopped, and the host polls.
Spec ==
  /\ Init
  /\ [][Next]_vars
  /\ \A t \in Tasklet : WF_vars(TaskletStep(t))
  /\ WF_vars(HostStep)

-----------------------------------------------------------------------------
(* Properties.                                                             *)

\* The host sees the state 1 only when every tasklet has written its rows of
\* the partition, so a pull of the output area finds the whole result.
FinishedIsComplete ==
  OFIS_dpu_state = 1 /\ ~sent => \A t \in Tasklet : rows[t] = job

\* mem_reset takes the heap back while no tasklet computes in its buffers.
HeapIdleAtReset ==
  At(0, "reset") => \A t \in Tasklet : ~At(t, "compute")

\* The state 0 reaches every tasklet: none stays behind in a barrier.
AllReturn == <>Returned

\* Together the tasklets are the program of a DPU in OfisDevice: one boot, one
\* computation of each partition, one finish, and one exit.
Self == <<0, 0, 0>>

InRound(t) ==
  pc[t] = "compute" /\ phase[t] \in {"out", "wake"}

SelfPc ==
  IF \A t \in Tasklet : pc[t] = "start" THEN "boot"
  ELSE IF Returned THEN "halted"
  ELSE IF \E t \in Tasklet : InRound(t) THEN "run"
  ELSE IF pc[0] = "flag" THEN "end"
  ELSE "spin"

Oldest == CHOOSE p \in {rows[t] : t \in Tasklet} : \A t \in Tasklet : p <= rows[t]

\* The DPU and the other one of its pair.
Shown(self, other) ==
  [d \in {0} \X {0} \X {0, 1} |-> IF d = Self THEN self ELSE other]

Device == INSTANCE OfisDevice WITH
  NrRanks <- 1, NrCis <- 1, NrIgs <- 2, NrPart <- NrJobs,
  state <- Shown(OFIS_dpu_state, 0),
  dpuPc <- Shown(SelfPc, "off"),
  mux <- Shown("dpu", "dpu"),
  args <- Shown(job, job),
  data <- Shown(job, job),
  output <- Shown(Oldest, -1)

ActsAsDevice ==
  [][Device!DpuStep(Self) \/ HostStep]_<<OFIS_dpu_state, SelfPc, job, Oldest>>
=============================================================================
