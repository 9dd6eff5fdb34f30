------------------------------- MODULE SpmvIg -------------------------------
(***************************************************************************)
(* The SpMV application at IG granularity: one host thread per rank runs   *)
(* thread_fct (SpMV/SpMV_OFIS/CSR_host_OFIS_ig.c), which hands the         *)
(* partitions of the matrix to the DPU lines of its rank as they finish.   *)
(* The threads share only p_count, under p_count_mutex, and output_vec,    *)
(* whose slots they write without a lock.                                  *)
(***************************************************************************)
EXTENDS OfisDevice

VARIABLES
  pc,        \* where each host thread is
  k,         \* line the thread's current loop is at
  fin,       \* finish_ig: first the lines read as finished, then the report
  part,      \* part_dpu: partition a DPU was last given
  curr,      \* curr_p_count
  change,    \* change_state
  finished,  \* finish_count
  p_count,   \* next partition to hand out (shared)
  outvec     \* output_vec: the partition whose result a slot holds (shared)

hostVars == <<pc, k, fin, part, curr, change, finished, p_count, outvec>>
vars == <<deviceVars, hostVars>>

\* dpu_info and input_args have one rank's worth of padding partitions.
Padded == 0 .. NrPart + NrDpusPerRank - 1
Parts  == 0 .. NrPart - 1

\* The padding also covers the first assignment, one partition per DPU.
ASSUME FirstAssignmentFits == NrDpus <= NrPart + NrDpusPerRank

HostPc == {"send", "launch", "poll", "muxhost", "retrieve", "claim",
           "args", "matrix", "muxdpu", "state", "done"}

TypeOK ==
  /\ DeviceTypeOK
  /\ pc \in [Rank -> HostPc]
  /\ k \in [Rank -> 0 .. NrIgs]
  /\ fin \in [Rank -> SUBSET Ig]
  /\ part \in [Dpu -> Nat \cup {None}]
  /\ curr \in [Rank -> Nat]
  /\ change \in [Rank -> {0, 2}]
  /\ finished \in [Rank -> Nat]
  /\ p_count \in Nat
  /\ outvec \in [Parts -> PartOrNone]

Init ==
  /\ DeviceInit
  /\ pc = [r \in Rank |-> "send"]
  /\ k = [r \in Rank |-> 0]
  /\ fin = [r \in Rank |-> {}]
  /\ part = [d \in Dpu |-> None]
  /\ curr = [r \in Rank |-> 0]
  /\ change = [r \in Rank |-> 0]
  /\ finished = [r \in Rank |-> 0]
  /\ p_count = NrDpus
  /\ outvec = [p \in Parts |-> None]

Goto(r, from, to) == pc[r] = from /\ pc' = [pc EXCEPT ![r] = to]

-----------------------------------------------------------------------------
(* thread_fct of rank r.                                                   *)

\* The DPUs of the lines the last poll reported, and each one's rank among
\* them in DPU_FOREACH order.
FinDpus(r) == {d \in Dpu : RankOf(d) = r /\ IgOf(d) \in fin[r]}
Before(r, d) == Cardinality({e \in FinDpus(r) : Pos(e) < Pos(d)})

\* The first partition of every DPU.  The pushes put the banks on the host's
\* side by themselves.
SendFirst(r) ==
  /\ Goto(r, "send", "launch")
  /\ OFIS_set_mux_rank(r, "host")
  /\ LET first == [d \in RankDpus(r) |-> NrDpusPerRank * r + Pos(d)]
     IN /\ args' = [d \in Dpu |-> IF d \in RankDpus(r) THEN first[d] ELSE args[d]]
        /\ data' = [d \in Dpu |-> IF d \in RankDpus(r) THEN first[d] ELSE data[d]]
        /\ part' = [d \in Dpu |-> IF d \in RankDpus(r) THEN first[d] ELSE part[d]]
  /\ UNCHANGED <<state, dpuPc, output, k, fin, curr, change, finished, p_count,
                 outvec>>

Launch(r) ==
  /\ Goto(r, "launch", "poll")
  /\ OFIS_dpu_launch(r)
  /\ k' = [k EXCEPT ![r] = 0]
  /\ fin' = [fin EXCEPT ![r] = {}]
  /\ UNCHANGED <<state, args, data, output, part, curr, change, finished,
                 p_count, outvec>>

\* One line of OFIS_get_finished_ig: the lines are read one after the other.
PollLine(r) ==
  /\ pc[r] = "poll"
  /\ k[r] < NrIgs
  /\ k' = [k EXCEPT ![r] = @ + 1]
  /\ fin' = [fin EXCEPT ![r] = IF LineFinished(r, k[r]) THEN @ \cup {k[r]} ELSE @]
  /\ UNCHANGED <<deviceVars, pc, part, curr, change, finished, p_count, outvec>>

\* The end of OFIS_get_finished_ig; the do-while polls again on an empty report.
PollEnd(r) ==
  /\ pc[r] = "poll"
  /\ k[r] = NrIgs
  /\ k' = [k EXCEPT ![r] = 0]
  /\ fin' = [fin EXCEPT ![r] = ReportedLines(@)]
  /\ pc' = [pc EXCEPT ![r] = IF ReportedLines(fin[r]) = {} THEN "poll" ELSE "muxhost"]
  /\ UNCHANGED <<deviceVars, part, curr, change, finished, p_count, outvec>>

\* An iteration of a loop over the reported lines.
AtLine(r)     == k[r] < NrIgs /\ k[r] \in fin[r]
SkipLineTo8(r) == k[r] <= NrIgs /\ k[r] \notin fin[r]   \* Fault: for(i <= 8)
SkipLine(r)   == k[r] < NrIgs /\ k[r] \notin fin[r]
NextLine(r)   == k' = [k EXCEPT ![r] = @ + 1]

MuxHost(r) ==
  /\ pc[r] = "muxhost"
  /\ \/ /\ AtLine(r)
        /\ OFIS_set_mux_ig(r, k[r], "host")
     \/ /\ SkipLine(r)
        /\ UNCHANGED mux
  /\ NextLine(r)
  /\ UNCHANGED <<state, dpuPc, args, data, output, pc, fin, part, curr, change,
                 finished, p_count, outvec>>

\* Fault: the next partitions are dealt before the results are collected.
MuxHostEndClaims(r) ==
  /\ k[r] = NrIgs
  /\ Goto(r, "muxhost", "claim")
  /\ UNCHANGED <<deviceVars, k, fin, part, curr, change, finished, p_count, outvec>>

MuxHostEnd(r) ==
  /\ k[r] = NrIgs
  /\ Goto(r, "muxhost", "retrieve")
  /\ UNCHANGED <<deviceVars, k, fin, part, curr, change, finished, p_count, outvec>>

\* dpu_push_xfer FROM_DPU of the output area; padding partitions are skipped.
Retrieve(r) ==
  /\ Goto(r, "retrieve", "claim")
  /\ outvec' = [p \in Parts |->
                  IF \E d \in FinDpus(r) : part[d] = p
                  THEN MramPull(CHOOSE d \in FinDpus(r) : part[d] = p)
                  ELSE outvec[p]]
  /\ UNCHANGED <<deviceVars, k, fin, part, curr, change, finished, p_count>>

\* Faults of Claim: the end of the partitions is not noticed; finish_count also
\* counts lines that got work; p_count counts lines where it should count DPUs.
ClaimPastEnd(r) ==
  /\ Goto(r, "claim", "args")
  /\ curr' = [curr EXCEPT ![r] = p_count]
  /\ p_count' = p_count + NrCis * Cardinality(fin[r])
  /\ change' = [change EXCEPT ![r] = 2]
  /\ UNCHANGED <<deviceVars, k, fin, part, finished, outvec>>

ClaimWith(r, step, count) ==
  /\ pc[r] = "claim"
  /\ IF p_count >= NrPart
     THEN /\ change' = [change EXCEPT ![r] = 0]
          /\ finished' = [finished EXCEPT ![r] = @ + NrCis * Cardinality(fin[r])]
          /\ pc' = [pc EXCEPT ![r] = "muxdpu"]
          /\ k' = [k EXCEPT ![r] = 0]
          /\ UNCHANGED <<curr, p_count>>
     ELSE /\ curr' = [curr EXCEPT ![r] = p_count]
          /\ p_count' = p_count + step
          /\ change' = [change EXCEPT ![r] = 2]
          /\ finished' = [finished EXCEPT ![r] = @ + count]
          /\ pc' = [pc EXCEPT ![r] = "args"]
          /\ UNCHANGED k
  /\ UNCHANGED <<deviceVars, fin, part, outvec>>

ClaimCountsWork(r) ==
  ClaimWith(r, NrCis * Cardinality(fin[r]), NrCis * Cardinality(fin[r]))

\* The section under p_count_mutex.
Claim(r) ==
  /\ pc[r] = "claim"
  /\ \/ /\ p_count >= NrPart
        /\ change' = [change EXCEPT ![r] = 0]
        /\ finished' = [finished EXCEPT ![r] = @ + NrCis * Cardinality(fin[r])]
        /\ pc' = [pc EXCEPT ![r] = "muxdpu"]
        /\ k' = [k EXCEPT ![r] = 0]
        /\ UNCHANGED <<curr, p_count>>
     \/ /\ p_count < NrPart
        /\ curr' = [curr EXCEPT ![r] = p_count]
        /\ p_count' = p_count + NrCis * Cardinality(fin[r])
        /\ change' = [change EXCEPT ![r] = 2]
        /\ pc' = [pc EXCEPT ![r] = "args"]
        /\ UNCHANGED <<finished, k>>
  /\ UNCHANGED <<deviceVars, fin, part, outvec>>

\* DPU_INPUT_ARGS goes to every reported DPU, with padding partitions past the
\* end.
SendArgs(r) ==
  /\ Goto(r, "args", "matrix")
  /\ LET new == [d \in FinDpus(r) |-> curr[r] + Before(r, d)]
     IN /\ args' = [d \in Dpu |-> IF d \in FinDpus(r) THEN new[d] ELSE args[d]]
        /\ part' = [d \in Dpu |-> IF d \in FinDpus(r) THEN new[d] ELSE part[d]]
  /\ UNCHANGED <<state, dpuPc, mux, data, output, k, fin, curr, change, finished,
                 p_count, outvec>>

\* row_ptr, col_idx, values and input_vec: the loops stop at nr_part.
SendMatrix(r) ==
  /\ Goto(r, "matrix", "muxdpu")
  /\ data' = [d \in Dpu |-> IF d \in FinDpus(r) /\ curr[r] + Before(r, d) < NrPart
                            THEN MramPushed(d, curr[r] + Before(r, d))
                            ELSE data[d]]
  /\ k' = [k EXCEPT ![r] = 0]
  /\ UNCHANGED <<state, dpuPc, mux, args, output, fin, part, curr, change,
                 finished, p_count, outvec>>

\* Fault: the banks stay on the host's side.
MuxDpuForgotten(r) ==
  /\ pc[r] = "muxdpu"
  /\ \/ /\ AtLine(r)
        /\ pc' = [pc EXCEPT ![r] = "state"]
        /\ UNCHANGED k
     \/ /\ SkipLine(r)
        /\ NextLine(r)
        /\ UNCHANGED pc
  /\ UNCHANGED <<deviceVars, fin, part, curr, change, finished, p_count, outvec>>

\* The last loop: for each reported line, first the banks, then the state.
MuxDpu(r) ==
  /\ pc[r] = "muxdpu"
  /\ \/ /\ AtLine(r)
        /\ OFIS_set_mux_ig(r, k[r], "dpu")
        /\ pc' = [pc EXCEPT ![r] = "state"]
        /\ UNCHANGED k
     \/ /\ SkipLine(r)
        /\ NextLine(r)
        /\ UNCHANGED <<mux, pc>>
  /\ UNCHANGED <<state, dpuPc, args, data, output, fin, part, curr, change,
                 finished, p_count, outvec>>

SetState(r) ==
  /\ Goto(r, "state", "muxdpu")
  /\ OFIS_set_state_ig(r, k[r], change[r])
  /\ NextLine(r)
  /\ UNCHANGED <<dpuPc, mux, args, data, output, fin, part, curr, change,
                 finished, p_count, outvec>>

\* while (finish_count < nr_dpus_per_thread)
RoundEnd(r) ==
  /\ pc[r] = "muxdpu"
  /\ k[r] = NrIgs
  /\ k' = [k EXCEPT ![r] = 0]
  /\ fin' = [fin EXCEPT ![r] = {}]
  /\ pc' = [pc EXCEPT ![r] = IF finished[r] < NrDpusPerRank THEN "poll" ELSE "done"]
  /\ UNCHANGED <<deviceVars, part, curr, change, finished, p_count, outvec>>

HostStep(r) ==
  \/ SendFirst(r) \/ Launch(r) \/ PollLine(r) \/ PollEnd(r)
  \/ MuxHost(r) \/ MuxHostEnd(r) \/ Retrieve(r) \/ Claim(r)
  \/ SendArgs(r) \/ SendMatrix(r) \/ MuxDpu(r) \/ SetState(r) \/ RoundEnd(r)

DpuRuns(d) == DpuStep(d) /\ UNCHANGED hostVars

\* OFIS_parallel_exec has joined every thread and the DPUs have left main.
Terminated ==
  /\ \A r \in Rank : pc[r] = "done"
  /\ \A d \in Dpu : dpuPc[d] = "halted"
  /\ UNCHANGED vars

Next ==
  \/ \E r \in Rank : HostStep(r)
  \/ \E d \in Dpu : DpuRuns(d)
  \/ Terminated

Spec == Init /\ [][Next]_vars

\* The operating system runs every host thread, and a booted DPU runs.
FairSpec ==
  /\ Spec
  /\ \A r \in Rank : WF_vars(HostStep(r))
  /\ \A d \in Dpu : WF_vars(DpuRuns(d))

-----------------------------------------------------------------------------
(* Properties.                                                             *)

\* A DPU never computes while its bank is on the host's side: the report of
\* finished lines is by pairs because a pair shares one multiplexer.
MuxExclusive == \A d \in Dpu : dpuPc[d] = "run" => mux[d] = "dpu"

\* A result is in output_vec before its DPU gets other arguments, other data or
\* another state.
NoResultOverwritten ==
  [][\A d \in Dpu :
       /\ output[d] # None
       /\ state[d] = 1
       /\ args'[d] # args[d] \/ data'[d] # data[d] \/ state'[d] # state[d]
       => output[d] \in Parts /\ outvec[output[d]] = output[d]]_vars

\* A slot of output_vec only ever holds its own partition's result, never a
\* stale, half-transferred or foreign one.
OutputCorrect == \A p \in Parts : outvec[p] \in {None, p}

\* The unguarded indexes into dpu_info and input_args stay in their padding.
IndexesPadded == \A d \in Dpu : part[d] \in Padded \cup {None}

\* Once OFIS_parallel_exec has joined a thread, every DPU of its rank was told
\* to exit; once it joined them all, main reads a complete output_vec.
CompleteAtJoin ==
  /\ \A r \in Rank : pc[r] = "done" => \A d \in RankDpus(r) : state[d] = 0
  /\ (\A r \in Rank : pc[r] = "done") => \A p \in Parts : outvec[p] = p

\* Every thread returns and every DPU leaves main.
Terminates ==
  <>(/\ \A r \in Rank : pc[r] = "done"
     /\ \A d \in Dpu : dpuPc[d] = "halted")

\* The threads and DPUs implement the pool of partitions: each partition is
\* dealt to one DPU, once, and stored from there.
PoolPart(d) ==
  IF part[d] \in Parts /\ outvec[part[d]] # part[d] THEN part[d] ELSE None

Pool == INSTANCE PartitionPool WITH
  Worker <- Dpu,
  Reserved0 <- IF NrDpus < NrPart THEN NrDpus ELSE NrPart,
  reserved <- IF p_count < NrPart THEN p_count ELSE NrPart,
  holder <- [d \in Dpu |-> PoolPart(d)],
  dealt <- {p \in Parts : outvec[p] = p \/ \E d \in Dpu : part[d] = p},
  stored <- {p \in Parts : outvec[p] = p}

ImplementsPool == Pool!Spec

-----------------------------------------------------------------------------
(* The inductive invariant.                                                *)

\* The thread of DPU d's rank holds d's line: it was reported and has not been
\* given its next state yet.
Holds(d) ==
  LET r == RankOf(d)
  IN /\ IgOf(d) \in fin[r]
     /\ \/ pc[r] \in {"muxhost", "retrieve", "claim", "args", "matrix"}
        \/ pc[r] \in {"muxdpu", "state"} /\ k[r] <= IgOf(d)

\* A DPU that says 1 spins, and one the host counts as finished still says 1.
FinishedDpusWait ==
  \A d \in Dpu :
    /\ state[d] = 1 => dpuPc[d] = "spin"
    /\ pc[RankOf(d)] = "poll" /\ IgOf(d) \in fin[RankOf(d)] => state[d] = 1
    /\ Holds(d) => state[d] = 1

\* The bank of a DPU is on the host's side only before the boot or while the
\* DPU says 1, so the multiplexers move only under waiting DPUs.
BanksFollow ==
  /\ \A d \in Dpu :
       /\ pc[RankOf(d)] \in {"send", "launch"} => dpuPc[d] = "off"
       /\ mux[d] = "host" => dpuPc[d] = "off" \/ state[d] = 1
  /\ \A r \in Rank :
       /\ pc[r] = "muxhost" =>
            \A i \in fin[r] : \A j \in Ig : SamePair(i, j) => j \in fin[r]
       /\ pc[r] = "state" =>
            k[r] \in fin[r] /\ \A d \in Line(r, k[r]) : mux[d] = "dpu"

\* Arguments, matrix and result belong to the partition the host recorded,
\* except while the host is between sending one and sending the other.
DataFollow ==
  \A d \in Dpu :
    LET r == RankOf(d)
    IN /\ args[d] = part[d]
       /\ part[d] \in Parts /\ ~(pc[r] = "matrix" /\ Holds(d)) => data[d] = part[d]
       /\ Holds(d) /\ pc[r] \in {"retrieve", "claim", "args", "matrix"} => mux[d] = "host"
       /\ Holds(d) /\ pc[r] = "muxhost" /\ IgOf(d) < k[r] => mux[d] = "host"
       /\ Holds(d) /\ pc[r] = "matrix" => part[d] = curr[r] + Before(r, d)
       /\ part[d] \in Parts /\ dpuPc[d] = "end" => output[d] = part[d]
       /\ /\ part[d] \in Parts
          /\ state[d] = 1
          /\ ~(Holds(d) /\ pc[r] \in {"matrix", "muxdpu", "state"})
          => output[d] = part[d]

IInv ==
  TypeOK /\ FinishedDpusWait /\ BanksFollow /\ DataFollow /\ OutputCorrect
=============================================================================
