------------------------------ MODULE PageRank ------------------------------
(***************************************************************************)
(* The PageRank application (PageRank/src/pr/w_ofis): one host thread per  *)
(* rank runs thread_fct_dpu, thread_fct_ig or thread_fct_rank (main.c),    *)
(* which hands the subgraphs to single DPUs, lines or the rank as they     *)
(* finish, and the DPUs run pr_kernel.c.  Arguments, row pointers and      *)
(* results all live in WRAM, so no multiplexer moves after the launch.     *)
(*                                                                         *)
(* Of OfisDevice's DPU state, `args` is the subgraph of "arg", `data` that *)
(* of "ptr" and `output` the one whose ranks are in "rank".                *)
(*                                                                         *)
(* BootSettles is SpmvRank's: whether every DPU of a rank has executed the *)
(* first statement of main before the rank's first OFIS_get_finished_rank, *)
(* which nothing in thread_fct_rank waits for.                             *)
(***************************************************************************)
EXTENDS OfisDevice

CONSTANTS
  Modes,     \* the granularities to run: "dpu", "ig", "rank" (mode_exec)
  NumSGs,    \* numbers of subgraphs to run, at most NrPart (argv[2])
  Empties,   \* the sets of subgraphs without nodes to run
  BootSettles

ASSUME PageRankAssumption ==
  /\ Modes \subseteq {"dpu", "ig", "rank"}
  /\ NumSGs \subseteq NrDpus .. NrPart
  /\ Empties \subseteq SUBSET Nat
  /\ BootSettles \in BOOLEAN

VARIABLES
  mode, num_SGs, empty,  \* the program's inputs; they never change
  pc,          \* where each host thread is
  k,           \* line or unit its current loop is at
  seen,        \* the DPUs whose state it read as 1
  sum,         \* OFIS_get_finished_rank's sum
  fin,         \* the report: DPUs of finish_dpu, finish_ig or the rank
  sg_pos,      \* subgraph a DPU was last given
  curr,        \* curr_p_count
  change,      \* change_state
  finished,    \* finish_count
  p_count,     \* next subgraph to hand out (shared)
  result_rank  \* the subgraph whose ranks a slot holds (shared)

inputs == <<mode, num_SGs, empty>>
polled == <<seen, sum, fin>>
rest == <<sg_pos, curr, change, finished, p_count, result_rank>>
vars == <<deviceVars, inputs, pc, k, polled, rest>>

Subgraphs == 0 .. num_SGs - 1

Init ==
  /\ DeviceInit
  /\ mode \in Modes
  /\ num_SGs \in NumSGs
  /\ empty \in Empties
  /\ pc = [r \in Rank |-> "send"]
  /\ k = [r \in Rank |-> 0]
  /\ seen = [r \in Rank |-> {}]
  /\ sum = [r \in Rank |-> 0]
  /\ fin = [r \in Rank |-> {}]
  /\ sg_pos = [d \in Dpu |-> None]
  /\ curr = [r \in Rank |-> 0]
  /\ change = [r \in Rank |-> 0]
  /\ finished = [r \in Rank |-> 0]
  /\ p_count = NrDpus
  /\ result_rank = [s \in Subgraphs |-> None]

Goto(r, from, to) == pc[r] = from /\ pc' = [pc EXCEPT ![r] = to]

\* The values of a push: new[d] where it is defined, what the DPU had elsewhere.
Pushed(old, new) == [d \in Dpu |-> IF d \in DOMAIN new THEN new[d] ELSE old[d]]

-----------------------------------------------------------------------------
(* The host thread of rank r.                                              *)

SendFirst(r) ==
  /\ Goto(r, "send", "launch")
  /\ LET first == [d \in RankDpus(r) |-> NrDpusPerRank * r + Pos(d)]
     IN /\ args' = Pushed(args, first)
        /\ data' = Pushed(data, first)
        /\ sg_pos' = Pushed(sg_pos, first)
  /\ UNCHANGED <<state, dpuPc, mux, output, inputs, k, polled, curr, change,
                 finished, p_count, result_rank>>

Launch(r) ==
  /\ Goto(r, "launch", "poll")
  /\ OFIS_dpu_launch(r)
  /\ UNCHANGED <<state, args, data, output, inputs, k, polled, rest>>

\* The sum that OFIS_get_finished_rank adds for one line.
SumOfLine(r, i) ==
  Cardinality({d \in Line(r, i) : state[d] # 0})
  + Cardinality({d \in Line(r, i) : state[d] = 2})

\* One line of OFIS_get_finished_dpu, _ig or _rank.
PollLine(r) ==
  /\ pc[r] = "poll"
  /\ k[r] < NrIgs
  /\ mode = "rank" /\ BootSettles => \A d \in RankDpus(r) : dpuPc[d] # "boot"
  /\ k' = [k EXCEPT ![r] = @ + 1]
  /\ seen' = [seen EXCEPT ![r] = @ \cup {d \in Line(r, k[r]) : state[d] = 1}]
  /\ sum' = [sum EXCEPT ![r] = IF mode = "rank" THEN @ + SumOfLine(r, k[r]) ELSE 0]
  /\ UNCHANGED <<deviceVars, inputs, pc, fin, rest>>

\* What the poll reports: pairs of DPUs of one interface, pairs of lines, or the
\* rank.
Reported(r) ==
  CASE mode = "dpu"  -> {d \in seen[r] : \A e \in RankDpus(r) :
                           e[2] = d[2] /\ SamePair(IgOf(e), IgOf(d)) => e \in seen[r]}
    [] mode = "ig"   -> {d \in seen[r] :
                           IgOf(d) \in ReportedLines({i \in Ig : Line(r, i) \subseteq seen[r]})}
    [] mode = "rank" -> IF sum[r] = NrDpusPerRank THEN RankDpus(r) ELSE {}

PollEnd(r) ==
  /\ pc[r] = "poll"
  /\ k[r] = NrIgs
  /\ k' = [k EXCEPT ![r] = 0]
  /\ fin' = [fin EXCEPT ![r] = Reported(r)]
  /\ seen' = [seen EXCEPT ![r] = {}]
  /\ sum' = [sum EXCEPT ![r] = 0]
  /\ pc' = [pc EXCEPT ![r] = IF Reported(r) = {} THEN "poll" ELSE "retrieve"]
  /\ UNCHANGED <<deviceVars, inputs, rest>>

Retrieve(r) ==
  /\ Goto(r, "retrieve", "claim")
  /\ result_rank' = [s \in Subgraphs |->
                       IF \E d \in fin[r] : sg_pos[d] = s
                       THEN output[CHOOSE d \in fin[r] : sg_pos[d] = s]
                       ELSE result_rank[s]]
  /\ UNCHANGED <<deviceVars, inputs, k, polled, sg_pos, curr, change, finished,
                 p_count>>

\* Fault: a round with work counts as finished too.
ClaimCountsWork(r) ==
  /\ Goto(r, "claim", IF p_count >= num_SGs THEN "state" ELSE "arg")
  /\ change' = [change EXCEPT ![r] = IF p_count >= num_SGs THEN 0 ELSE 2]
  /\ finished' = [finished EXCEPT ![r] = @ + Cardinality(fin[r])]
  /\ curr' = [curr EXCEPT ![r] = p_count]
  /\ p_count' = IF p_count >= num_SGs THEN p_count ELSE p_count + Cardinality(fin[r])
  /\ UNCHANGED <<deviceVars, inputs, k, polled, sg_pos, result_rank>>

\* The section under p_count_mutex.
Claim(r) ==
  /\ \/ /\ p_count >= num_SGs
        /\ Goto(r, "claim", "state")
        /\ change' = [change EXCEPT ![r] = 0]
        /\ finished' = [finished EXCEPT ![r] = @ + Cardinality(fin[r])]
        /\ UNCHANGED <<curr, p_count>>
     \/ /\ p_count < num_SGs
        /\ Goto(r, "claim", "arg")
        /\ change' = [change EXCEPT ![r] = 2]
        /\ curr' = [curr EXCEPT ![r] = p_count]
        /\ p_count' = p_count + Cardinality(fin[r])
        /\ UNCHANGED finished
  /\ UNCHANGED <<deviceVars, inputs, k, polled, sg_pos, result_rank>>

Before(r, d) == Cardinality({e \in fin[r] : Pos(e) < Pos(d)})
Assigned(r) == [d \in fin[r] |-> curr[r] + Before(r, d)]

\* Fault: no granularity looks for the end of the subgraphs.
GuardsNothing == FALSE

\* Only thread_fct_dpu skips the DPUs for which no subgraph is left; they keep
\* what they have.
GuardsEnd == mode = "dpu"

\* Past the end of dpu_args and SGs the program has no defined behaviour: the
\* thread's steps end.
SendArg(r) ==
  LET new == Assigned(r)
      valid == {d \in fin[r] : new[d] < num_SGs}
      given == [d \in valid |-> new[d]]
  IN /\ IF valid = fin[r] \/ GuardsEnd
        THEN /\ Goto(r, "arg", "ptr")
             /\ args' = Pushed(args, given)
             /\ sg_pos' = Pushed(sg_pos, given)
        ELSE /\ Goto(r, "arg", "overrun")
             /\ UNCHANGED <<args, sg_pos>>
     /\ UNCHANGED <<state, dpuPc, mux, data, output, inputs, k, polled, curr,
                    change, finished, p_count, result_rank>>

\* Fault: the DPUs get the row pointers they had.
SendPtrOnce(r) ==
  /\ Goto(r, "ptr", "state")
  /\ UNCHANGED <<deviceVars, inputs, k, polled, rest>>

SendPtr(r) ==
  /\ Goto(r, "ptr", "state")
  /\ data' = Pushed(data, [d \in fin[r] |-> sg_pos[d]])
  /\ UNCHANGED <<state, dpuPc, mux, args, output, inputs, k, polled, rest>>

\* The calls OFIS_set_state_dpu, _ig or _rank of the last loop.
NrUnits == CASE mode = "dpu"  -> NrDpusPerRank
             [] mode = "ig"   -> NrIgs
             [] mode = "rank" -> 1

Unit(r, i) == CASE mode = "dpu"  -> {d \in RankDpus(r) : Pos(d) = i}
                [] mode = "ig"   -> Line(r, i)
                [] mode = "rank" -> RankDpus(r)

\* Fault: the bit of the first unit is not looked at.
SetStateFromOne(r) ==
  /\ pc[r] = "state"
  /\ k[r] < NrUnits
  /\ k' = [k EXCEPT ![r] = @ + 1]
  /\ state' = [d \in Dpu |-> IF k[r] > 0 /\ d \in Unit(r, k[r]) \cap fin[r]
                             THEN change[r] ELSE state[d]]
  /\ UNCHANGED <<dpuPc, mux, args, data, output, inputs, pc, polled, rest>>

SetState(r) ==
  /\ pc[r] = "state"
  /\ k[r] < NrUnits
  /\ k' = [k EXCEPT ![r] = @ + 1]
  /\ state' = [d \in Dpu |-> IF d \in Unit(r, k[r]) \cap fin[r] THEN change[r] ELSE state[d]]
  /\ UNCHANGED <<dpuPc, mux, args, data, output, inputs, pc, polled, rest>>

\* while(finish_count < 64)
RoundEnd(r) ==
  /\ k[r] = NrUnits
  /\ Goto(r, "state", IF finished[r] < NrDpusPerRank THEN "poll" ELSE "done")
  /\ k' = [k EXCEPT ![r] = 0]
  /\ fin' = [fin EXCEPT ![r] = {}]
  /\ UNCHANGED <<deviceVars, inputs, seen, sum, rest>>

HostStep(r) ==
  \/ SendFirst(r) \/ Launch(r) \/ PollLine(r) \/ PollEnd(r) \/ Retrieve(r)
  \/ Claim(r) \/ SendArg(r) \/ SendPtr(r) \/ SetState(r) \/ RoundEnd(r)

-----------------------------------------------------------------------------
(* pr_kernel.c.  Booting, leaving the loop and the state 1 are as in the    *)
(* SpMV kernel.                                                            *)

PrEnter(d) == args[d] \notin empty /\ DpuEnter(d)

\* if (arg.num_node == 0) return 0;  the state stays 2.
PrReturn(d) ==
  /\ dpuPc[d] = "spin"
  /\ state[d] = 2
  /\ args[d] \in empty
  /\ dpuPc' = [dpuPc EXCEPT ![d] = "halted"]
  /\ UNCHANGED <<state, mux, args, data, output>>

PrCompute(d) ==
  /\ dpuPc[d] = "run"
  /\ output' = [output EXCEPT ![d] = IF data[d] = args[d] THEN args[d] ELSE Junk]
  /\ dpuPc' = [dpuPc EXCEPT ![d] = "end"]
  /\ UNCHANGED <<state, mux, args, data>>

KernelStep(d) ==
  /\ \/ DpuBoot(d) \/ PrEnter(d) \/ PrReturn(d) \/ DpuExit(d)
     \/ PrCompute(d) \/ DpuFinish(d)
  /\ UNCHANGED <<inputs, pc, k, polled, rest>>

Next == (\E r \in Rank : HostStep(r)) \/ (\E d \in Dpu : KernelStep(d))

Spec == Init /\ [][Next]_vars

\* The operating system runs every host thread, and a booted DPU runs.
FairSpec ==
  /\ Spec
  /\ \A r \in Rank : WF_vars(HostStep(r))
  /\ \A d \in Dpu : WF_vars(KernelStep(d))

-----------------------------------------------------------------------------
(* Properties.                                                             *)

\* A slot of result_rank only ever holds its own subgraph's ranks, although the
\* DPUs that found no new subgraph compute their old one again (main.c 108).
RanksCorrect == \A s \in Subgraphs : result_rank[s] \in {None, s}

Overrun == \E r \in Rank : pc[r] = "overrun"

\* The indexes into dpu_args, SGs and result_rank stay in range for single DPUs
\* whatever the number of subgraphs (main.c 108), and for ranks whenever the
\* subgraphs fill whole ranks.
IndexesInRange ==
  Overrun => mode = "ig" \/ (mode = "rank" /\ num_SGs % NrDpusPerRank # 0)

\* When OFIS_parallel_exec has joined the threads, main reads every subgraph's
\* ranks, and every DPU was told to leave its loop.
RanksComplete ==
  (\A r \in Rank : pc[r] = "done") =>
    /\ \A s \in Subgraphs : result_rank[s] = s
    /\ \A d \in Dpu : state[d] = 0

\* A DPU that has returned with the state 2 (pr_kernel.c 96) never says 1 again.
ReturnedEarly == \E d \in Dpu : dpuPc[d] = "halted" /\ state[d] = 2

\* The threads return and the DPUs leave main before dpu_free, unless a thread ran
\* past the subgraphs or a DPU really met an empty one.
Finishes ==
  <>(\/ Overrun \/ ReturnedEarly
     \/ /\ \A r \in Rank : pc[r] = "done"
        /\ \A d \in Dpu : dpuPc[d] = "halted")
=============================================================================
