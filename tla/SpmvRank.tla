------------------------------ MODULE SpmvRank ------------------------------
(***************************************************************************)
(* The SpMV application at rank granularity                                *)
(* (SpMV/SpMV_OFIS/CSR_host_OFIS_rank.c): a thread waits until its whole   *)
(* rank has finished, collects every result and hands out a full rank of   *)
(* partitions.  No index is guarded: the scripts beside the program give   *)
(* a number of partitions that whole ranks divide.                         *)
(*                                                                         *)
(* OFIS_get_finished_rank compares the sum of the state words with the     *)
(* number of DPUs.  BootSettles says whether every DPU of a rank has       *)
(* executed the first statement of main before the rank's first poll,      *)
(* which nothing in the program waits for.                                 *)
(***************************************************************************)
EXTENDS OfisDevice

CONSTANT BootSettles

ASSUME WholeRanks ==
  /\ BootSettles \in BOOLEAN
  /\ NrPart % NrDpusPerRank = 0
  /\ NrDpus <= NrPart

VARIABLES
  pc, k,
  sum,       \* sum of the state words the current poll has read
  part, curr, change, finished, p_count, outvec

hostVars == <<pc, k, sum, part, curr, change, finished, p_count, outvec>>
vars == <<deviceVars, hostVars>>

Parts == 0 .. NrPart - 1

HostPc == {"send", "launch", "poll", "muxhost", "retrieve", "claim",
           "args", "matrix", "muxdpu", "state", "done"}

TypeOK ==
  /\ DeviceTypeOK
  /\ pc \in [Rank -> HostPc]
  /\ k \in [Rank -> 0 .. NrIgs]
  /\ sum \in [Rank -> 0 .. 2 * NrDpusPerRank]
  /\ part \in [Dpu -> Parts \cup {None}]
  /\ curr \in [Rank -> Parts]
  /\ change \in [Rank -> {0, 2}]
  /\ finished \in [Rank -> {0, NrDpusPerRank}]
  /\ p_count \in 0 .. NrPart
  /\ outvec \in [Parts -> PartOrNone]

Init ==
  /\ DeviceInit
  /\ pc = [r \in Rank |-> "send"]
  /\ k = [r \in Rank |-> 0]
  /\ sum = [r \in Rank |-> 0]
  /\ part = [d \in Dpu |-> None]
  /\ curr = [r \in Rank |-> 0]
  /\ change = [r \in Rank |-> 0]
  /\ finished = [r \in Rank |-> 0]
  /\ p_count = NrDpus
  /\ outvec = [p \in Parts |-> None]

Goto(r, from, to) == pc[r] = from /\ pc' = [pc EXCEPT ![r] = to]

-----------------------------------------------------------------------------

SendFirst(r) ==
  /\ Goto(r, "send", "launch")
  /\ OFIS_set_mux_rank(r, "host")
  /\ LET first == [d \in RankDpus(r) |-> NrDpusPerRank * r + Pos(d)]
     IN /\ args' = [d \in Dpu |-> IF d \in RankDpus(r) THEN first[d] ELSE args[d]]
        /\ data' = [d \in Dpu |-> IF d \in RankDpus(r) THEN first[d] ELSE data[d]]
        /\ part' = [d \in Dpu |-> IF d \in RankDpus(r) THEN first[d] ELSE part[d]]
  /\ UNCHANGED <<state, dpuPc, output, k, sum, curr, change, finished, p_count,
                 outvec>>

Launch(r) ==
  /\ Goto(r, "launch", "poll")
  /\ OFIS_dpu_launch(r)
  /\ UNCHANGED <<state, args, data, output, k, sum, part, curr, change, finished,
                 p_count, outvec>>

\* One line of OFIS_get_finished_rank.
StateCount(r, i, s) == Cardinality({d \in Line(r, i) : state[d] = s})

PollLine(r) ==
  /\ pc[r] = "poll"
  /\ k[r] < NrIgs
  /\ BootSettles => \A d \in RankDpus(r) : dpuPc[d] # "boot"
  /\ k' = [k EXCEPT ![r] = @ + 1]
  /\ sum' = [sum EXCEPT ![r] = @ + StateCount(r, k[r], 1) + 2 * StateCount(r, k[r], 2)]
  /\ UNCHANGED <<deviceVars, pc, part, curr, change, finished, p_count, outvec>>

\* Fault: the comparison takes a larger sum for a finished rank.
RankReportedAtLeast(r) == sum[r] >= NrDpusPerRank

\* OFIS_get_finished_rank returns 1 when the sum is the number of DPUs.
RankReported(r) == sum[r] = NrDpusPerRank

PollEnd(r) ==
  /\ pc[r] = "poll"
  /\ k[r] = NrIgs
  /\ k' = [k EXCEPT ![r] = 0]
  /\ sum' = [sum EXCEPT ![r] = 0]
  /\ pc' = [pc EXCEPT ![r] = IF RankReported(r) THEN "muxhost" ELSE "poll"]
  /\ UNCHANGED <<deviceVars, part, curr, change, finished, p_count, outvec>>

MuxHost(r) ==
  /\ Goto(r, "muxhost", "retrieve")
  /\ OFIS_set_mux_rank(r, "host")
  /\ UNCHANGED <<state, dpuPc, args, data, output, k, sum, part, curr, change,
                 finished, p_count, outvec>>

Retrieve(r) ==
  /\ Goto(r, "retrieve", "claim")
  /\ outvec' = [p \in Parts |->
                  IF \E d \in RankDpus(r) : part[d] = p
                  THEN MramPull(CHOOSE d \in RankDpus(r) : part[d] = p)
                  ELSE outvec[p]]
  /\ UNCHANGED <<deviceVars, k, sum, part, curr, change, finished, p_count>>

\* Faults of Claim: one partition too far; finish_count also counts a rank that
\* got work.
ClaimWith(r, last, count) ==
  /\ pc[r] = "claim"
  /\ IF p_count >= last
     THEN /\ change' = [change EXCEPT ![r] = 0]
          /\ finished' = [finished EXCEPT ![r] = @ + NrDpusPerRank]
          /\ pc' = [pc EXCEPT ![r] = "muxdpu"]
          /\ UNCHANGED <<curr, p_count>>
     ELSE /\ curr' = [curr EXCEPT ![r] = p_count]
          /\ p_count' = p_count + NrDpusPerRank
          /\ change' = [change EXCEPT ![r] = 2]
          /\ finished' = [finished EXCEPT ![r] = @ + count]
          /\ pc' = [pc EXCEPT ![r] = "args"]
  /\ UNCHANGED <<deviceVars, k, sum, part, outvec>>

ClaimOneTooFar(r)  == ClaimWith(r, NrPart + 1, 0)
ClaimCountsWork(r) == ClaimWith(r, NrPart, NrDpusPerRank)

\* The section under p_count_mutex.
Claim(r) ==
  /\ pc[r] = "claim"
  /\ \/ /\ p_count >= NrPart
        /\ change' = [change EXCEPT ![r] = 0]
        /\ finished' = [finished EXCEPT ![r] = @ + NrDpusPerRank]
        /\ pc' = [pc EXCEPT ![r] = "muxdpu"]
        /\ UNCHANGED <<curr, p_count>>
     \/ /\ p_count < NrPart
        /\ curr' = [curr EXCEPT ![r] = p_count]
        /\ p_count' = p_count + NrDpusPerRank
        /\ change' = [change EXCEPT ![r] = 2]
        /\ pc' = [pc EXCEPT ![r] = "args"]
        /\ UNCHANGED finished
  /\ UNCHANGED <<deviceVars, k, sum, part, outvec>>

SendArgs(r) ==
  /\ Goto(r, "args", "matrix")
  /\ args' = [d \in Dpu |-> IF d \in RankDpus(r) THEN curr[r] + Pos(d) ELSE args[d]]
  /\ part' = [d \in Dpu |-> IF d \in RankDpus(r) THEN curr[r] + Pos(d) ELSE part[d]]
  /\ UNCHANGED <<state, dpuPc, mux, data, output, k, sum, curr, change, finished,
                 p_count, outvec>>

SendMatrix(r) ==
  /\ Goto(r, "matrix", "muxdpu")
  /\ data' = [d \in Dpu |-> IF d \in RankDpus(r)
                            THEN MramPushed(d, curr[r] + Pos(d)) ELSE data[d]]
  /\ UNCHANGED <<state, dpuPc, mux, args, output, k, sum, part, curr, change,
                 finished, p_count, outvec>>

\* Fault: the banks stay on the host's side.
MuxDpuForgotten(r) ==
  /\ Goto(r, "muxdpu", "state")
  /\ UNCHANGED <<deviceVars, k, sum, part, curr, change, finished, p_count, outvec>>

MuxDpu(r) ==
  /\ Goto(r, "muxdpu", "state")
  /\ OFIS_set_mux_rank(r, "dpu")
  /\ UNCHANGED <<state, dpuPc, args, data, output, k, sum, part, curr, change,
                 finished, p_count, outvec>>

SetState(r) ==
  /\ Goto(r, "state", IF finished[r] < NrDpusPerRank THEN "poll" ELSE "done")
  /\ OFIS_set_state_rank(r, change[r])
  /\ UNCHANGED <<dpuPc, mux, args, data, output, k, sum, part, curr, change,
                 finished, p_count, outvec>>

HostStep(r) ==
  \/ SendFirst(r) \/ Launch(r) \/ PollLine(r) \/ PollEnd(r) \/ MuxHost(r)
  \/ Retrieve(r) \/ Claim(r) \/ SendArgs(r) \/ SendMatrix(r) \/ MuxDpu(r)
  \/ SetState(r)

DpuRuns(d) == DpuStep(d) /\ UNCHANGED hostVars

Terminated ==
  /\ \A r \in Rank : pc[r] = "done"
  /\ \A d \in Dpu : dpuPc[d] = "halted"
  /\ UNCHANGED vars

Next ==
  \/ \E r \in Rank : HostStep(r)
  \/ \E d \in Dpu : DpuRuns(d)
  \/ Terminated

Spec == Init /\ [][Next]_vars

FairSpec ==
  /\ Spec
  /\ \A r \in Rank : WF_vars(HostStep(r))
  /\ \A d \in Dpu : WF_vars(DpuRuns(d))

-----------------------------------------------------------------------------
(* Properties.                                                             *)

\* A positive answer of OFIS_get_finished_rank means that every DPU of the
\* rank has finished (README.md:17, ofis/ofis.h "Return 1 only if
\* OFIS_dpu_state = 1 for all DPUs in the rank").
FinishedRankSound ==
  \A r \in Rank : pc[r] = "muxhost" => \A d \in RankDpus(r) : state[d] = 1

\* A DPU never computes while its bank is on the host's side.
MuxExclusive == \A d \in Dpu : dpuPc[d] = "run" => mux[d] = "dpu"

\* When the threads have been joined the output is complete and every DPU was
\* told to exit.
CompleteAtJoin ==
  (\A r \in Rank : pc[r] = "done") =>
    /\ \A p \in Parts : outvec[p] = p
    /\ \A d \in Dpu : state[d] = 0

\* Every thread returns and every DPU leaves main.
Terminates ==
  <>(/\ \A r \in Rank : pc[r] = "done"
     /\ \A d \in Dpu : dpuPc[d] = "halted")
=============================================================================
