--------------------------- MODULE PageRankProofs ---------------------------
(***************************************************************************)
(* Proofs about the PageRank application, for every granularity, topology  *)
(* and number of subgraphs: the subgraphs' indexes stay in range where the *)
(* code guards them or the subgraphs fill whole ranks; no slot of          *)
(* result_rank ever holds another subgraph's ranks, and when the threads   *)
(* are joined no subgraph is missing.  At rank granularity the last two    *)
(* need that no poll happens during the boot (Settled): without it         *)
(* OFIS_get_finished_rank reports ranks that have not finished, and both   *)
(* are false.                                                              *)
(***************************************************************************)
EXTENDS PageRank, OfisDeviceProofs

PrPc == {"send", "launch", "poll", "retrieve", "claim", "arg", "ptr", "state",
         "done", "overrun"}

PrType ==
  /\ state \in [Dpu -> 0 .. 2]
  /\ dpuPc \in [Dpu -> DpuPc]
  /\ args \in [Dpu -> PartOrNone]
  /\ data \in [Dpu -> PartOrNone]
  /\ output \in [Dpu -> PartOrNone]
  /\ mode \in {"dpu", "ig", "rank"}
  /\ num_SGs \in Nat /\ NrDpus <= num_SGs
  /\ pc \in [Rank -> PrPc]
  /\ k \in [Rank -> Nat]
  /\ seen \in [Rank -> SUBSET Dpu]
  /\ sum \in [Rank -> Nat]
  /\ fin \in [Rank -> SUBSET Dpu]
  /\ sg_pos \in [Dpu -> Subgraphs \cup {None}]
  /\ curr \in [Rank -> Nat]
  /\ change \in [Rank -> {0, 2}]
  /\ finished \in [Rank -> Nat]
  /\ p_count \in Nat
  /\ result_rank \in [Subgraphs -> PartOrNone]

\* The rank's report, if it is used, is not asked for before the DPUs have booted.
Settled == "rank" \in Modes => BootSettles

\* The call of OFIS_set_state_dpu, _ig or _rank that reaches a DPU.
UnitOf(d) ==
  CASE mode = "dpu"  -> Pos(d)
    [] mode = "ig"   -> IgOf(d)
    [] mode = "rank" -> 0

\* The thread is working on what its last poll reported.
AtWork(r) == pc[r] \in {"retrieve", "claim", "arg", "ptr", "state", "overrun"}

\* A reported DPU whose state the thread has not set yet.
Held(d) ==
  LET r == RankOf(d)
  IN d \in fin[r] /\ AtWork(r) /\ (pc[r] = "state" => k[r] <= UnitOf(d))

\* What a thread is doing says what its DPUs are doing.
Follows(d) ==
  LET r == RankOf(d)
  IN /\ dpuPc[d] \in {"off", "boot"} => state[d] = 0
     /\ state[d] = 1 => dpuPc[d] = "spin"
     /\ dpuPc[d] \in {"run", "end"} => state[d] = 2
     /\ pc[r] \in {"send", "launch"} <=> dpuPc[d] = "off"
     /\ d \in seen[r] \/ Held(d) => state[d] = 1
     /\ mode = "rank" /\ pc[r] = "poll" => dpuPc[d] = "boot" \/ state[d] \in {1, 2}
     /\ mode = "rank" /\ pc[r] = "poll" /\ k[r] > 0 => dpuPc[d] # "boot"
     /\ mode = "rank" /\ AtWork(r) => d \in fin[r]
     /\ pc[r] = "state" /\ d \in fin[r] /\ ~Held(d) =>
          /\ dpuPc[d] # "boot"
          /\ change[r] = 2 => state[d] \in {1, 2}
          /\ change[r] = 0 => state[d] = 0

\* A thread's own variables; at rank granularity one that polls again has given
\* its rank the state 2.
Threads(r) ==
  /\ seen[r] \subseteq RankDpus(r) /\ fin[r] \subseteq RankDpus(r)
  /\ pc[r] \notin {"poll", "state"} => k[r] = 0
  /\ pc[r] # "poll" => sum[r] = 0 /\ seen[r] = {}
  /\ pc[r] \in {"arg", "ptr"} => change[r] = 2
  /\ mode = "rank" /\ pc[r] \notin {"state", "done"} => finished[r] = 0
  /\ mode = "rank" /\ pc[r] = "state" =>
       \/ finished[r] = 0 /\ change[r] = 2
       \/ finished[r] >= NrDpusPerRank

\* The DPUs the current poll has read.
ReadDpus(r) == {d \in Dpu : RankOf(d) = r /\ IgOf(d) < k[r]}

\* A sum of ones and twos is their number only if all are ones.
SumTells(r) ==
  mode = "rank" /\ pc[r] = "poll" =>
    /\ sum[r] >= Cardinality(ReadDpus(r))
    /\ sum[r] = Cardinality(ReadDpus(r)) => \A d \in ReadDpus(r) : state[d] = 1

PrInv ==
  /\ PrType
  /\ mode = "rank" => BootSettles
  /\ \A d \in Dpu : Follows(d)
  /\ \A r \in Rank : Threads(r) /\ SumTells(r)

LEMMA UnitReaches ==
  ASSUME mode \in {"dpu", "ig", "rank"}, NEW r \in Rank, NEW d \in RankDpus(r)
  PROVE  /\ UnitOf(d) \in Nat /\ UnitOf(d) < NrUnits
         /\ \A i \in Nat : i < NrUnits => (d \in Unit(r, i) <=> i = UnitOf(d))
<1>1. d \in Dpu /\ RankOf(d) = r /\ IgOf(d) \in 0 .. NrIgs - 1 /\ NrIgs \in Nat
  BY Constants DEF RankDpus, Ig
<1>2. Pos(d) \in 0 .. NrDpusPerRank - 1 /\ NrDpusPerRank \in Nat
  BY PosRange, Constants
<1>3. CASE mode = "dpu"
  BY <1>1, <1>2, <1>3 DEF UnitOf, Unit, NrUnits
<1>4. CASE mode = "ig"
  BY <1>1, <1>2, <1>4 DEF UnitOf, Unit, NrUnits, Line
<1>5. CASE mode = "rank"
  BY <1>1, <1>2, <1>5 DEF UnitOf, Unit, NrUnits
<1>6. QED
  BY <1>3, <1>4, <1>5

LEMMA InitType == Init => PrType
BY Constants, PageRankAssumption
   DEF Init, DeviceInit, PrType, DpuPc, PrPc, PartOrNone

LEMMA InitPr == Settled /\ Init => PrInv
<1> SUFFICES ASSUME Settled, Init PROVE PrInv
  OBVIOUS
<1>1. PrType /\ (mode = "rank" => BootSettles)
  BY InitType DEF Init, Settled
<1>2. ASSUME NEW d \in Dpu PROVE Follows(d)
  BY Constants DEF Init, DeviceInit, Follows, Held, AtWork
<1>3. ASSUME NEW r \in Rank PROVE Threads(r) /\ SumTells(r)
  BY DEF Init, Threads, SumTells
<1>4. QED
  BY <1>1, <1>2, <1>3 DEF PrInv

-----------------------------------------------------------------------------
(* What one step leaves alone.                                             *)

LEMMA HostFrame ==
  ASSUME PrType, NEW r \in Rank, fin[r] \subseteq RankDpus(r), HostStep(r)
  PROVE  /\ UNCHANGED inputs
         /\ \A q \in Rank \ {r} :
              UNCHANGED <<pc[q], k[q], seen[q], sum[q], fin[q], curr[q], change[q],
                          finished[q]>>
         /\ \A d \in Dpu : RankOf(d) # r =>
              UNCHANGED <<state[d], dpuPc[d], args[d], data[d], output[d], sg_pos[d]>>
<1> USE DEF PrType, inputs, polled, rest, deviceVars, Goto
<1>1. CASE SendFirst(r)
  BY <1>1 DEF SendFirst, Pushed, RankDpus
<1>2. CASE Launch(r)
  BY <1>2 DEF Launch, OFIS_dpu_launch, RankDpus
<1>3. CASE PollLine(r)
  BY <1>3 DEF PollLine
<1>4. CASE PollEnd(r)
  BY <1>4 DEF PollEnd
<1>5. CASE Retrieve(r)
  BY <1>5 DEF Retrieve
<1>6. CASE Claim(r)
  BY <1>6 DEF Claim
<1>7. CASE SendArg(r)
  BY <1>7 DEF SendArg, Pushed, RankDpus
<1>8. CASE SendPtr(r)
  BY <1>8 DEF SendPtr, Pushed, RankDpus
<1>9. CASE SetState(r)
  BY <1>9 DEF SetState, RankDpus
<1>10. CASE RoundEnd(r)
  BY <1>10 DEF RoundEnd
<1>11. QED
  BY <1>1, <1>2, <1>3, <1>4, <1>5, <1>6, <1>7, <1>8, <1>9, <1>10 DEF HostStep

-----------------------------------------------------------------------------
(* Dealing subgraphs.                                                      *)

\* The subgraph a reported DPU would be given.
Next_SG(r, d) == curr[r] + Before(r, d)

LEMMA DealtNumber ==
  ASSUME PrType, NEW r \in Rank, NEW d \in fin[r]
  PROVE  /\ Next_SG(r, d) \in Nat
         /\ Next_SG(r, d) < curr[r] + Cardinality(fin[r])
<1>1. fin[r] \in SUBSET Dpu /\ curr[r] \in Nat
  BY DEF PrType
<1>2. Before(r, d) \in 0 .. Cardinality(fin[r]) - 1 /\ Cardinality(fin[r]) \in Nat
  BY <1>1, AheadRange, Finite DEF Before, Ahead
<1>3. QED
  BY <1>1, <1>2 DEF Next_SG

\* What SendArg does, DPU by DPU: all whose number is in range get it.
LEMMA SendArgGives ==
  ASSUME PrType, NEW r \in Rank, SendArg(r)
  PROVE  /\ UNCHANGED <<state, dpuPc, mux, data, output, inputs, k, polled, curr,
                        change, finished, p_count, result_rank>>
         /\ pc[r] = "arg"
         /\ \/ /\ pc' = [pc EXCEPT ![r] = "ptr"]
               /\ \A d \in Dpu \ fin[r] : args'[d] = args[d] /\ sg_pos'[d] = sg_pos[d]
               /\ \A d \in fin[r] :
                    IF Next_SG(r, d) < num_SGs
                    THEN args'[d] = Next_SG(r, d) /\ sg_pos'[d] = Next_SG(r, d)
                    ELSE args'[d] = args[d] /\ sg_pos'[d] = sg_pos[d]
               /\ args' = [d \in Dpu |-> args'[d]] /\ sg_pos' = [d \in Dpu |-> sg_pos'[d]]
            \/ /\ pc' = [pc EXCEPT ![r] = "overrun"]
               /\ UNCHANGED <<args, sg_pos>>
               /\ mode # "dpu"
               /\ \E d \in fin[r] : ~(Next_SG(r, d) < num_SGs)
<1> DEFINE new == Assigned(r)
           valid == {d \in fin[r] : new[d] < num_SGs}
           given == [d \in valid |-> new[d]]
<1>1. fin[r] \in SUBSET Dpu /\ \A d \in fin[r] : new[d] = Next_SG(r, d)
  BY DEF PrType, Assigned, Next_SG
<1>2. /\ UNCHANGED <<state, dpuPc, mux, data, output, inputs, k, polled, curr,
                     change, finished, p_count, result_rank>>
      /\ pc[r] = "arg"
      /\ IF valid = fin[r] \/ GuardsEnd
         THEN /\ pc' = [pc EXCEPT ![r] = "ptr"]
              /\ args' = Pushed(args, given)
              /\ sg_pos' = Pushed(sg_pos, given)
         ELSE /\ pc' = [pc EXCEPT ![r] = "overrun"]
              /\ UNCHANGED <<args, sg_pos>>
  BY DEF SendArg, Goto
<1>3. CASE valid = fin[r] \/ GuardsEnd
  <2>1. /\ pc' = [pc EXCEPT ![r] = "ptr"]
        /\ args' = [d \in Dpu |-> IF d \in valid THEN new[d] ELSE args[d]]
        /\ sg_pos' = [d \in Dpu |-> IF d \in valid THEN new[d] ELSE sg_pos[d]]
    BY <1>2, <1>3 DEF Pushed
  <2>2. args' = [d \in Dpu |-> args'[d]] /\ sg_pos' = [d \in Dpu |-> sg_pos'[d]]
    BY <2>1
  <2>3. \A d \in Dpu \ fin[r] : args'[d] = args[d] /\ sg_pos'[d] = sg_pos[d]
    BY <2>1
  <2>4. ASSUME NEW d \in fin[r]
        PROVE  IF Next_SG(r, d) < num_SGs
               THEN args'[d] = Next_SG(r, d) /\ sg_pos'[d] = Next_SG(r, d)
               ELSE args'[d] = args[d] /\ sg_pos'[d] = sg_pos[d]
    <3>1. d \in Dpu /\ new[d] = Next_SG(r, d) /\ (d \in valid <=> Next_SG(r, d) < num_SGs)
      BY <1>1
    <3> HIDE DEF new, valid
    <3>2. QED
      BY <2>1, <3>1
  <2>5. QED
    BY <1>2, <2>1, <2>2, <2>3, <2>4
<1>4. CASE ~(valid = fin[r] \/ GuardsEnd)
  BY <1>1, <1>2, <1>4 DEF GuardsEnd
<1>5. QED
  BY <1>2, <1>3, <1>4

LEMMA FirstSG ==
  ASSUME PrType, NEW r \in Rank, NEW d \in RankDpus(r)
  PROVE  NrDpusPerRank * r + Pos(d) \in Subgraphs
<1>1. Pos(d) \in 0 .. NrDpusPerRank - 1 /\ r \in Nat /\ r < NrRanks
  BY PosRange, Constants DEF Rank
<1>2. r * NrDpusPerRank + Pos(d) \in 0 .. NrDpus - 1
  BY <1>1, Flattened, Constants DEF NrDpus
<1>3. NrDpusPerRank * r = r * NrDpusPerRank
  BY <1>1, Constants
<1>4. QED
  BY <1>1, <1>2, <1>3, Constants DEF Subgraphs, PrType

-----------------------------------------------------------------------------
(* Types.                                                                  *)

LEMMA HostStepType ==
  ASSUME PrType, NEW r \in Rank, fin[r] \subseteq RankDpus(r), HostStep(r)
  PROVE  PrType'
<1> USE DEF PrType, PrPc, inputs, polled, rest, deviceVars, Goto
<1>0. Subgraphs \subseteq PartOrNone /\ {None} \subseteq PartOrNone /\ Nat \subseteq PartOrNone
  BY DEF Subgraphs, PartOrNone
<1>1. CASE SendFirst(r)
  <2>1. \A d \in RankDpus(r) : NrDpusPerRank * r + Pos(d) \in Subgraphs
    BY FirstSG
  <2>2. /\ args' \in [Dpu -> PartOrNone] /\ data' \in [Dpu -> PartOrNone]
        /\ sg_pos' \in [Dpu -> Subgraphs \cup {None}]
    BY <1>0, <1>1, <2>1 DEF SendFirst, Pushed
  <2>3. QED
    BY <1>1, <2>2 DEF SendFirst, Subgraphs
<1>2. CASE Launch(r)
  BY <1>2 DEF Launch, OFIS_dpu_launch, DpuPc, Subgraphs
<1>3. CASE PollLine(r)
  <2>1. SumOfLine(r, k[r]) \in Nat
    <3>1. \A S \in SUBSET Line(r, k[r]) : S \in SUBSET Dpu
      BY DEF Line
    <3>2. QED
      BY <3>1, Finite DEF SumOfLine
  <2>2. seen' \in [Rank -> SUBSET Dpu] /\ sum' \in [Rank -> Nat]
    BY <1>3, <2>1 DEF PollLine, Line
  <2>3. QED
    BY <1>3, <2>2 DEF PollLine, Subgraphs
<1>4. CASE PollEnd(r)
  <2>1. Reported(r) \in SUBSET Dpu
    BY DEF Reported, RankDpus
  <2>2. QED
    BY <1>4, <2>1 DEF PollEnd, Subgraphs
<1>5. CASE Retrieve(r)
  <2>1. \A s \in Subgraphs : (\E d \in fin[r] : sg_pos[d] = s) =>
          output[CHOOSE d \in fin[r] : sg_pos[d] = s] \in PartOrNone
    OBVIOUS
  <2>2. result_rank' \in [Subgraphs -> PartOrNone]
    BY <1>5, <2>1 DEF Retrieve
  <2>3. QED
    BY <1>5, <2>2 DEF Retrieve, Subgraphs
<1>6. CASE Claim(r)
  <2>1. Cardinality(fin[r]) \in Nat
    BY Finite
  <2>2. finished[r] + Cardinality(fin[r]) \in Nat /\ p_count + Cardinality(fin[r]) \in Nat
    BY <2>1
  <2>3. UNCHANGED <<state, dpuPc, args, data, output, mode, num_SGs, k, seen, sum, fin,
                    sg_pos, result_rank>>
    BY <1>6 DEF Claim
  <2>4. pc' \in [Rank -> PrPc] /\ change' \in [Rank -> {0, 2}]
    BY <1>6 DEF Claim
  <2>5. curr' \in [Rank -> Nat] /\ p_count' \in Nat
    BY <1>6, <2>2 DEF Claim
  <2>6. finished' \in [Rank -> Nat]
    BY <1>6, <2>2 DEF Claim
  <2>7. QED
    BY <2>3, <2>4, <2>5, <2>6 DEF Subgraphs
<1>7. CASE SendArg(r)
  <2>1. \A d \in fin[r] : Next_SG(r, d) \in Nat
    BY DealtNumber
  <2>2. args' \in [Dpu -> PartOrNone] /\ sg_pos' \in [Dpu -> Subgraphs \cup {None}]
    <3>1. CASE UNCHANGED <<args, sg_pos>>
      BY <3>1
    <3>2. CASE pc' = [pc EXCEPT ![r] = "ptr"]
      <4>1. ASSUME NEW d \in Dpu
            PROVE  args'[d] \in PartOrNone /\ sg_pos'[d] \in Subgraphs \cup {None}
        <5>1. args[d] \in PartOrNone /\ sg_pos[d] \in Subgraphs \cup {None}
          OBVIOUS
        <5>2. d \in fin[r] /\ Next_SG(r, d) < num_SGs =>
                Next_SG(r, d) \in Subgraphs /\ Next_SG(r, d) \in PartOrNone
          BY <1>0, <2>1 DEF Subgraphs
        <5>3. \/ args'[d] = args[d] /\ sg_pos'[d] = sg_pos[d]
              \/ /\ d \in fin[r] /\ Next_SG(r, d) < num_SGs
                 /\ args'[d] = Next_SG(r, d) /\ sg_pos'[d] = Next_SG(r, d)
          BY <1>7, SendArgGives
        <5>4. QED
          BY <5>1, <5>2, <5>3
      <4>2. args' = [d \in Dpu |-> args'[d]] /\ sg_pos' = [d \in Dpu |-> sg_pos'[d]]
        BY <1>7, <3>2, SendArgGives
      <4>3. QED
        BY <4>1, <4>2
    <3>3. QED
      BY <1>7, <3>1, <3>2, SendArgGives
  <2>3. pc' \in [Rank -> PrPc]
    BY <1>7, SendArgGives
  <2>4. QED
    BY <1>7, <2>2, <2>3, SendArgGives DEF Subgraphs
<1>8. CASE SendPtr(r)
  <2>1. data' \in [Dpu -> PartOrNone]
    BY <1>0, <1>8 DEF SendPtr, Pushed
  <2>2. QED
    BY <1>8, <2>1 DEF SendPtr, Subgraphs
<1>9. CASE SetState(r)
  BY <1>9 DEF SetState, Subgraphs
<1>10. CASE RoundEnd(r)
  BY <1>10 DEF RoundEnd, Subgraphs
<1>11. QED
  BY <1>1, <1>2, <1>3, <1>4, <1>5, <1>6, <1>7, <1>8, <1>9, <1>10 DEF HostStep

-----------------------------------------------------------------------------
(* The poll.                                                               *)

LEMMA PollSum ==
  ASSUME PrInv, NEW r \in Rank, PollLine(r)
  PROVE  SumTells(r)'
<1> SUFFICES ASSUME mode = "rank"
             PROVE  /\ sum'[r] >= Cardinality(ReadDpus(r)')
                    /\ sum'[r] = Cardinality(ReadDpus(r)') =>
                         \A d \in ReadDpus(r)' : state'[d] = 1
  BY DEF SumTells, PollLine, inputs
<1>1. /\ pc[r] = "poll" /\ k[r] \in Nat /\ k'[r] = k[r] + 1 /\ state' = state
      /\ sum'[r] = sum[r] + SumOfLine(r, k[r])
      /\ \A d \in Dpu : RankOf(d) = r => state[d] \in {1, 2}
      /\ sum[r] \in Nat /\ SumTells(r)
  BY Constants DEF PollLine, PrInv, PrType, Follows, deviceVars, RankDpus
<1> DEFINE old == ReadDpus(r)
           line == Line(r, k[r])
           twos == {d \in line : state[d] = 2}
<1>2. /\ old \in SUBSET Dpu /\ line \in SUBSET Dpu /\ twos \in SUBSET Dpu
      /\ ReadDpus(r)' \in SUBSET Dpu
  BY DEF ReadDpus, Line
<1>3. ReadDpus(r)' = old \cup line /\ old \cap line = {}
  BY <1>1, Constants DEF ReadDpus, Line, Ig
<1>4. SumOfLine(r, k[r]) = Cardinality(line) + Cardinality(twos)
  <2>1. {d \in line : state[d] # 0} = line
    BY <1>1 DEF Line
  <2>2. QED
    BY <2>1 DEF SumOfLine
<1>5. Cardinality(twos) = 0 => \A d \in line : state[d] = 1
  <2>1. Cardinality(twos) = 0 => twos = {}
    BY <1>2, Finite, FS_EmptySet
  <2>2. QED
    BY <1>1, <2>1 DEF Line
<1>6. Cardinality(ReadDpus(r)') = Cardinality(old) + Cardinality(line)
  <2> HIDE DEF old, line, twos
  <2>1. IsFiniteSet(old) /\ IsFiniteSet(line) /\ Cardinality({}) = 0
    BY <1>2, Finite, FS_EmptySet
  <2>2. Cardinality(old) \in Nat /\ Cardinality(line) \in Nat
    BY <1>2, Finite
  <2>3. Cardinality(old \cup line) = Cardinality(old) + Cardinality(line) - 0
    BY <1>3, <2>1, FS_Union
  <2>4. QED
    BY <1>3, <2>2, <2>3
<1>7. /\ Cardinality(old) \in Nat /\ Cardinality(line) \in Nat /\ Cardinality(twos) \in Nat
  BY <1>2, Finite
<1>8. /\ sum[r] >= Cardinality(old)
      /\ sum[r] = Cardinality(old) => \A d \in old : state[d] = 1
  BY <1>1 DEF SumTells
<1>9. \A a, b, c, e \in Nat : a >= b => a + (c + e) >= b + c
                                      /\ (a + (c + e) = b + c => a = b /\ e = 0)
  OBVIOUS
<1>10. sum'[r] >= Cardinality(ReadDpus(r)')
  BY <1>1, <1>4, <1>6, <1>7, <1>8
<1>11. sum'[r] = Cardinality(ReadDpus(r)') => sum[r] = Cardinality(old) /\ Cardinality(twos) = 0
  <2> HIDE DEF old, line, twos
  <2>1. QED
    BY <1>1, <1>4, <1>6, <1>7, <1>8, <1>9
<1>12. sum'[r] = Cardinality(ReadDpus(r)') => \A d \in ReadDpus(r)' : state'[d] = 1
  BY <1>1, <1>3, <1>5, <1>8, <1>11
<1>13. QED
  BY <1>10, <1>12

\* Whatever the granularity, a reported DPU has finished.
LEMMA ReportTells ==
  ASSUME PrInv, NEW r \in Rank, PollEnd(r)
  PROVE  /\ Reported(r) \subseteq RankDpus(r)
         /\ \A d \in Reported(r) : state[d] = 1
         /\ mode = "rank" => Reported(r) \in {{}, RankDpus(r)}
<1>1. /\ pc[r] = "poll" /\ k[r] = NrIgs /\ SumTells(r) /\ seen[r] \subseteq RankDpus(r)
      /\ mode \in {"dpu", "ig", "rank"}
      /\ \A d \in seen[r] : state[d] = 1
  BY DEF PollEnd, PrInv, PrType, Threads, Follows, RankDpus
<1>2. CASE mode \in {"dpu", "ig"}
  <2>1. Reported(r) \subseteq seen[r]
    BY <1>2 DEF Reported
  <2>2. QED
    BY <1>1, <1>2, <2>1
<1>3. CASE mode = "rank"
  <2>1. Reported(r) = IF sum[r] = NrDpusPerRank THEN RankDpus(r) ELSE {}
    BY <1>3 DEF Reported
  <2>2. ReadDpus(r) = RankDpus(r)
    BY <1>1, Constants DEF ReadDpus, RankDpus, Ig
  <2>3. sum[r] = NrDpusPerRank => \A d \in RankDpus(r) : state[d] = 1
    BY <1>1, <1>3, <2>2, RankSize DEF SumTells
  <2>4. QED
    BY <1>3, <2>1, <2>3
<1>4. QED
  BY <1>1, <1>2, <1>3

-----------------------------------------------------------------------------
(* Who waits for whom.                                                     *)

\* The parts of the invariant the steps of one thread need.
LEMMA Own ==
  ASSUME PrInv, NEW r \in Rank, NEW d \in Dpu
  PROVE  /\ PrType /\ Follows(d) /\ Threads(r) /\ RankOf(d) \in Rank
         /\ fin[r] \subseteq RankDpus(r)
         /\ NrDpusPerRank \in Nat /\ NrDpusPerRank > 0
         /\ UnitOf(d) \in Nat /\ UnitOf(d) < NrUnits /\ NrUnits \in Nat
         /\ \A i \in Nat : i < NrUnits =>
              (d \in Unit(RankOf(d), i) <=> i = UnitOf(d))
<1>1. d \in RankDpus(RankOf(d)) /\ RankOf(d) \in Rank
  BY Constants DEF RankDpus
<1>2. mode \in {"dpu", "ig", "rank"}
  BY DEF PrInv, PrType
<1>3. NrUnits \in Nat
  BY <1>2, Constants DEF NrUnits
<1>4. QED
  BY <1>1, <1>2, <1>3, UnitReaches, RankNotEmpty DEF PrInv, Threads

LEMMA HostStepFollows ==
  ASSUME PrInv, NEW r \in Rank, HostStep(r), NEW d \in Dpu
  PROVE  Follows(d)'
<1>1. /\ PrType /\ Follows(d) /\ Threads(r) /\ RankOf(d) \in Rank
      /\ fin[r] \subseteq RankDpus(r)
      /\ NrDpusPerRank \in Nat /\ NrDpusPerRank > 0
      /\ UnitOf(d) \in Nat /\ UnitOf(d) < NrUnits /\ NrUnits \in Nat
      /\ \A i \in Nat : i < NrUnits => (d \in Unit(RankOf(d), i) <=> i = UnitOf(d))
  BY Own
<1>2. UNCHANGED inputs /\ UnitOf(d)' = UnitOf(d)
  <2>1. UNCHANGED inputs
    BY <1>1, HostFrame
  <2>2. QED
    BY <2>1 DEF inputs, UnitOf
<1>3. CASE RankOf(d) # r
  <2>1. /\ UNCHANGED <<pc[RankOf(d)], k[RankOf(d)], seen[RankOf(d)], fin[RankOf(d)],
                       change[RankOf(d)]>>
        /\ UNCHANGED <<state[d], dpuPc[d]>>
    BY <1>1, <1>3, HostFrame
  <2>2. Held(d)' = Held(d) /\ AtWork(RankOf(d))' = AtWork(RankOf(d))
    BY <1>2, <2>1 DEF Held, AtWork
  <2>3. QED
    BY <1>1, <1>2, <2>1, <2>2 DEF Follows, inputs
<1>4. CASE RankOf(d) = r
  <2> d \in RankDpus(r)
    BY <1>4 DEF RankDpus
  <2> USE <1>1, <1>2, <1>4 DEF PrType, Follows, Threads, Held, AtWork, deviceVars, inputs,
                               polled, rest, Goto
  <2>1. CASE SendFirst(r)
    BY <2>1 DEF SendFirst
  <2>2. CASE Launch(r)
    BY <2>2 DEF Launch, OFIS_dpu_launch
  <2>3. CASE PollLine(r)
    BY <2>3 DEF PollLine, PrInv
  <2>4. CASE PollEnd(r)
    <3>1. /\ d \in Reported(r) => state[d] = 1
          /\ mode = "rank" /\ Reported(r) # {} => d \in Reported(r)
      BY <2>4, ReportTells
    <3>2. /\ pc[r] = "poll" /\ k'[r] = 0 /\ fin'[r] = Reported(r) /\ seen'[r] = {}
          /\ pc'[r] = (IF Reported(r) = {} THEN "poll" ELSE "retrieve")
          /\ UNCHANGED <<state, dpuPc>>
      BY <2>4 DEF PollEnd
    <3>3. QED
      BY <3>1, <3>2
  <2>5. CASE Retrieve(r)
    BY <2>5 DEF Retrieve
  <2>6. CASE Claim(r)
    <3>1. /\ pc[r] = "claim" /\ pc'[r] \in {"state", "arg"} /\ k[r] = 0
          /\ UNCHANGED <<state, dpuPc, k, seen, fin>>
      BY <2>6 DEF Claim
    <3>2. d \in fin[r] => Held(d)
      BY <3>1
    <3>3. d \in fin'[r] => Held(d)'
      BY <3>1, <3>2
    <3>4. QED
      BY <3>1, <3>2, <3>3
  <2>7. CASE SendArg(r)
    <3>1. /\ pc[r] = "arg" /\ pc'[r] \in {"ptr", "overrun"}
          /\ UNCHANGED <<state, dpuPc, k, seen, fin, change>>
      BY <2>7, SendArgGives
    <3>2. QED
      BY <3>1
  <2>8. CASE SendPtr(r)
    BY <2>8 DEF SendPtr
  <2>9. CASE SetState(r)
    <3>1. /\ pc[r] = "state" /\ pc' = pc /\ k[r] < NrUnits /\ k'[r] = k[r] + 1
          /\ state'[d] = IF UnitOf(d) = k[r] /\ d \in fin[r] THEN change[r] ELSE state[d]
          /\ UNCHANGED <<dpuPc, seen, fin, change>>
      BY <2>9 DEF SetState
    <3>2. k[r] \in Nat /\ change[r] \in {0, 2}
      OBVIOUS
    <3>3. CASE UnitOf(d) = k[r] /\ d \in fin[r]
      <4>1. state[d] = 1 /\ dpuPc[d] = "spin" /\ state'[d] = change[r]
        BY <3>1, <3>2, <3>3
      <4>2. ~Held(d)' /\ d \notin seen'[r]
        BY <3>1, <3>2, <3>3, <4>1
      <4>3. QED
        BY <3>1, <3>2, <4>1, <4>2
    <3>4. CASE ~(UnitOf(d) = k[r] /\ d \in fin[r])
      <4>1. state'[d] = state[d]
        BY <3>1, <3>4
      <4>2. Held(d)' = Held(d)
        BY <3>1, <3>2, <3>4
      <4>3. QED
        BY <3>1, <4>1, <4>2
    <3>5. QED
      BY <3>3, <3>4
  <2>10. CASE RoundEnd(r)
    <3>1. /\ pc[r] = "state" /\ k[r] = NrUnits /\ pc'[r] \in {"poll", "done"}
          /\ k'[r] = 0 /\ fin'[r] = {}
          /\ pc'[r] = "poll" => finished[r] < NrDpusPerRank
          /\ UNCHANGED <<state, dpuPc, seen>>
      BY <2>10 DEF RoundEnd
    <3>2. ~Held(d) /\ ~Held(d)'
      BY <3>1
    <3>3. mode = "rank" /\ pc'[r] = "poll" => change[r] = 2 /\ d \in fin[r]
      BY <3>1
    <3>4. QED
      BY <3>1, <3>2, <3>3
  <2>11. QED
    BY <2>1, <2>2, <2>3, <2>4, <2>5, <2>6, <2>7, <2>8, <2>9, <2>10 DEF HostStep
<1>5. QED
  BY <1>3, <1>4

LEMMA SumStarts ==
  ASSUME NEW r \in Rank, sum'[r] = 0, k'[r] = 0
  PROVE  SumTells(r)'
<1>1. ReadDpus(r)' = {}
  BY Constants DEF ReadDpus, Ig
<1>2. Cardinality(ReadDpus(r)') = 0
  BY <1>1, FS_EmptySet
<1>3. QED
  BY <1>1, <1>2 DEF SumTells

LEMMA ReadFrame ==
  ASSUME NEW q \in Rank, UNCHANGED <<mode, pc[q], k[q], sum[q]>>, SumTells(q),
         \A d \in Dpu : RankOf(d) = q /\ state[d] = 1 => state'[d] = 1
  PROVE  SumTells(q)'
<1>1. ReadDpus(q)' = ReadDpus(q)
  BY DEF ReadDpus
<1>2. QED
  BY <1>1 DEF SumTells, ReadDpus

LEMMA HostStepThreads ==
  ASSUME PrInv, NEW r \in Rank, HostStep(r), NEW q \in Rank
  PROVE  Threads(q)' /\ SumTells(q)'
<1>1. /\ PrType /\ Threads(q) /\ SumTells(q) /\ UNCHANGED inputs
      /\ NrDpusPerRank \in Nat /\ NrDpusPerRank > 0
      /\ fin[r] \subseteq RankDpus(r)
  BY HostFrame, RankNotEmpty DEF PrInv, Threads
<1>2. CASE q # r
  <2>1. /\ UNCHANGED <<mode, pc[q], k[q], seen[q], sum[q], fin[q], change[q], finished[q]>>
        /\ \A d \in Dpu : RankOf(d) = q => state'[d] = state[d]
    BY <1>1, <1>2, HostFrame DEF inputs
  <2>2. Threads(q)'
    BY <1>1, <2>1 DEF Threads, RankDpus
  <2>3. QED
    BY <1>1, <2>1, <2>2, ReadFrame
<1>3. CASE q = r
  <2> USE <1>1, <1>3 DEF PrType, Threads, deviceVars, inputs, polled, rest, Goto
  <2>1. CASE PollLine(r)
    <3>1. Line(r, k[r]) \subseteq RankDpus(r)
      BY DEF Line, RankDpus
    <3>2. RankDpus(r)' = RankDpus(r)
      BY DEF RankDpus
    <3>3. Threads(r)'
      BY <2>1, <3>1, <3>2 DEF PollLine
    <3>4. QED
      BY <2>1, <3>3, PollSum
  <2>2. CASE PollEnd(r)
    <3>1. RankDpus(r)' = RankDpus(r) /\ Reported(r) \subseteq RankDpus(r)
      BY <2>2, ReportTells DEF RankDpus
    <3>2. Threads(r)'
      BY <2>2, <3>1 DEF PollEnd
    <3>3. sum'[r] = 0 /\ k'[r] = 0
      BY <2>2 DEF PollEnd
    <3>4. QED
      BY <3>2, <3>3, SumStarts
  <2>3. CASE ~PollLine(r) /\ ~PollEnd(r)
    <3>1. RankDpus(r)' = RankDpus(r) /\ pc[r] # "poll" /\ sum' = sum
      BY <2>3, SendArgGives DEF RankDpus, HostStep, SendFirst, Launch, Retrieve, Claim,
         SendPtr, SetState, RoundEnd
    <3>2. pc'[r] = "poll" => k'[r] = 0
      BY <2>3, SendArgGives DEF HostStep, SendFirst, Launch, Retrieve, Claim, SendPtr,
         SetState, RoundEnd
    <3>3. SumTells(r)'
      <4>1. CASE pc'[r] = "poll"
        BY <3>1, <3>2, <4>1, SumStarts
      <4>2. CASE pc'[r] # "poll"
        BY <4>2 DEF SumTells
      <4>3. QED
        BY <4>1, <4>2
    <3>4. CASE SendFirst(r) \/ Launch(r) \/ Retrieve(r) \/ SendPtr(r)
      BY <3>1, <3>3, <3>4 DEF SendFirst, Launch, Retrieve, SendPtr
    <3>5. CASE Claim(r)
      <4>1. finished[r] \in Nat /\ Cardinality(fin[r]) \in Nat
        BY Finite
      <4>2. mode = "rank" => Cardinality(fin[r]) = NrDpusPerRank /\ finished[r] = 0
        <5> SUFFICES ASSUME mode = "rank"
                     PROVE  Cardinality(fin[r]) = NrDpusPerRank /\ finished[r] = 0
          OBVIOUS
        <5>1. pc[r] = "claim"
          BY <3>5 DEF Claim
        <5>2. fin[r] = RankDpus(r)
          BY <5>1 DEF PrInv, Follows, AtWork, RankDpus
        <5>3. QED
          BY <5>1, <5>2, RankSize
      <4>3. QED
        BY <3>1, <3>3, <3>5, <4>1, <4>2 DEF Claim
    <3>6. CASE SendArg(r)
      <4>1. /\ pc[r] = "arg" /\ pc'[r] \in {"ptr", "overrun"}
            /\ UNCHANGED <<k, seen, sum, fin, change, finished, mode>>
        BY <3>6, SendArgGives
      <4>2. QED
        BY <3>1, <3>3, <4>1
    <3>7. CASE SetState(r)
      BY <3>1, <3>3, <3>7 DEF SetState
    <3>8. CASE RoundEnd(r)
      BY <3>1, <3>3, <3>8 DEF RoundEnd
    <3>9. QED
      BY <2>3, <3>4, <3>5, <3>6, <3>7, <3>8 DEF HostStep
  <2>4. QED
    BY <2>1, <2>2, <2>3
<1>4. QED
  BY <1>2, <1>3

-----------------------------------------------------------------------------
(* The DPUs' steps.                                                        *)

\* What a step of one DPU does to what the invariants look at.
LEMMA KernelFrame ==
  ASSUME PrInv, NEW e \in Dpu, KernelStep(e)
  PROVE  /\ UNCHANGED <<mux, args, data, inputs, pc, k, polled, rest>>
         /\ \A d \in Dpu \ {e} : UNCHANGED <<state[d], dpuPc[d], output[d]>>
         /\ dpuPc[e] \notin {"off", "halted"} /\ state[e] # 1
         /\ dpuPc'[e] \notin {"off", "boot"}
         /\ dpuPc[e] = "boot" => state'[e] = 2
         /\ state[e] = 2 => state'[e] \in {1, 2}
         /\ state[e] = 0 /\ dpuPc[e] # "boot" => state'[e] = 0
         /\ state'[e] = 1 => dpuPc'[e] = "spin" /\ dpuPc[e] = "end" /\ output'[e] = output[e]
         /\ dpuPc'[e] \in {"run", "end"} => state'[e] = 2
         /\ dpuPc'[e] = "end" =>
              /\ dpuPc[e] = "run"
              /\ output'[e] = IF data[e] = args[e] THEN args[e] ELSE Junk
<1>1. PrType /\ Follows(e)
  BY DEF PrInv
<1> USE <1>1 DEF PrType, Follows, KernelStep
<1>2. CASE DpuBoot(e)
  BY <1>2 DEF DpuBoot
<1>3. CASE PrEnter(e)
  BY <1>3 DEF PrEnter, DpuEnter
<1>4. CASE PrReturn(e)
  BY <1>4 DEF PrReturn
<1>5. CASE DpuExit(e)
  BY <1>5 DEF DpuExit
<1>6. CASE PrCompute(e)
  BY <1>6 DEF PrCompute
<1>7. CASE DpuFinish(e)
  BY <1>7 DEF DpuFinish
<1>8. QED
  BY <1>2, <1>3, <1>4, <1>5, <1>6, <1>7

LEMMA KernelStepType ==
  ASSUME PrType, NEW e \in Dpu, KernelStep(e)
  PROVE  PrType' /\ UNCHANGED <<args, data, inputs, pc, k, polled, rest>>
<1>1. Junk \in PartOrNone
  BY DEF PartOrNone
<1>2. UNCHANGED <<args, data, inputs, pc, k, polled, rest>>
  BY DEF KernelStep, DpuBoot, PrEnter, DpuEnter, PrReturn, DpuExit, PrCompute, DpuFinish
<1>3. /\ state' \in [Dpu -> 0 .. 2] /\ dpuPc' \in [Dpu -> DpuPc]
      /\ output' \in [Dpu -> PartOrNone]
  <2> USE <1>1 DEF PrType, DpuPc
  <2>1. CASE DpuBoot(e) \/ PrEnter(e) \/ PrReturn(e) \/ DpuExit(e)
    BY <2>1 DEF DpuBoot, PrEnter, DpuEnter, PrReturn, DpuExit
  <2>2. CASE PrCompute(e)
    BY <2>2 DEF PrCompute
  <2>3. CASE DpuFinish(e)
    BY <2>3 DEF DpuFinish
  <2>4. QED
    BY <2>1, <2>2, <2>3 DEF KernelStep
<1>4. QED
  BY <1>2, <1>3 DEF PrType, inputs, polled, rest, Subgraphs

LEMMA KernelStepPr ==
  ASSUME PrInv, NEW e \in Dpu, KernelStep(e)
  PROVE  PrInv'
<1>1. PrType' /\ (mode = "rank" => BootSettles)'
  BY KernelStepType DEF PrInv, inputs
<1>2. ASSUME NEW d \in Dpu PROVE Follows(d)'
  <2>1. /\ Follows(d) /\ PrType /\ (Held(d)' <=> Held(d))
        /\ (AtWork(RankOf(d))' <=> AtWork(RankOf(d)))
        /\ UNCHANGED <<inputs, pc, k, polled, rest>>
    BY KernelFrame DEF PrInv, Held, AtWork, UnitOf, inputs, polled
  <2>2. CASE d # e
    <3>1. UNCHANGED <<state[d], dpuPc[d]>>
      BY <2>2, KernelFrame
    <3>2. QED
      BY <2>1, <3>1 DEF Follows, inputs, polled, rest
  <2>3. CASE d = e
    <3>1. state[e] \in 0 .. 2 /\ dpuPc[e] \in DpuPc
      BY <2>1 DEF PrType
    <3>2. QED
      BY <2>1, <2>3, <3>1, KernelFrame DEF Follows, inputs, polled, rest
  <2>4. QED
    BY <2>2, <2>3
<1>3. ASSUME NEW q \in Rank PROVE Threads(q)' /\ SumTells(q)'
  <2>1. Threads(q) /\ SumTells(q) /\ UNCHANGED <<inputs, pc, k, polled, rest>>
    BY KernelFrame DEF PrInv
  <2>2. Threads(q)'
    BY <2>1 DEF Threads, RankDpus, inputs, polled, rest
  <2>3. \A d \in Dpu : state[d] = 1 => state'[d] = 1
    BY KernelFrame
  <2>4. QED
    BY <2>1, <2>2, <2>3, ReadFrame DEF inputs, polled
<1>4. QED
  BY <1>1, <1>2, <1>3 DEF PrInv

LEMMA StutterPr == PrInv /\ UNCHANGED vars => PrInv'
<1> SUFFICES ASSUME PrInv, UNCHANGED vars PROVE PrInv'
  OBVIOUS
<1> USE DEF vars, deviceVars, inputs, polled, rest, PrInv
<1>1. PrType' /\ (mode = "rank" => BootSettles)'
  BY DEF PrType, Subgraphs
<1>2. \A d \in Dpu : Follows(d)'
  BY DEF Follows, Held, AtWork, UnitOf
<1>3. \A q \in Rank : Threads(q)'
  BY DEF Threads, RankDpus
<1>4. \A q \in Rank : SumTells(q)'
  BY ReadFrame
<1>5. QED
  BY <1>1, <1>2, <1>3, <1>4

LEMMA NextPr == PrInv /\ [Next]_vars => PrInv'
<1> SUFFICES ASSUME PrInv, [Next]_vars PROVE PrInv'
  OBVIOUS
<1>1. ASSUME NEW r \in Rank, HostStep(r) PROVE PrInv'
  <2>1. PrType /\ fin[r] \subseteq RankDpus(r) /\ (mode = "rank" => BootSettles)
    BY DEF PrInv, Threads
  <2>2. (mode = "rank" => BootSettles)'
    BY <1>1, <2>1, HostFrame DEF inputs
  <2>3. QED
    BY <1>1, <2>1, <2>2, HostStepType, HostStepFollows, HostStepThreads DEF PrInv
<1>2. QED
  BY <1>1, KernelStepPr, StutterPr DEF Next

-----------------------------------------------------------------------------
(* Whose ranks are where.                                                  *)

\* A DPU has its subgraph's arguments and row pointers, but for the reported ones
\* between the two pushes; a DPU that says 1 has its subgraph's ranks, but for
\* the reported ones that were given another.
DataOf(d) ==
  LET r == RankOf(d)
  IN /\ pc[r] = "send" => sg_pos[d] = None
     /\ pc[r] # "send" => sg_pos[d] \in Subgraphs /\ args[d] = sg_pos[d]
     /\ pc[r] # "send" /\ ~(pc[r] = "ptr" /\ Held(d)) => data[d] = sg_pos[d]
     /\ dpuPc[d] = "end" => output[d] = sg_pos[d]
     /\ state[d] = 1 /\ ~(pc[r] \in {"ptr", "state"} /\ Held(d)) => output[d] = sg_pos[d]

DataInv == PrInv /\ (\A d \in Dpu : DataOf(d)) /\ RanksCorrect

LEMMA HostStepData ==
  ASSUME DataInv, NEW r \in Rank, HostStep(r), NEW d \in Dpu
  PROVE  DataOf(d)'
<1>1. /\ PrInv /\ DataOf(d) /\ PrType /\ Follows(d) /\ Threads(r) /\ RankOf(d) \in Rank
      /\ fin[r] \subseteq RankDpus(r)
      /\ UnitOf(d) \in Nat /\ UnitOf(d) < NrUnits /\ NrUnits \in Nat
      /\ \A i \in Nat : i < NrUnits => (d \in Unit(RankOf(d), i) <=> i = UnitOf(d))
  BY Own DEF DataInv
<1>2. UNCHANGED inputs /\ UnitOf(d)' = UnitOf(d) /\ Subgraphs' = Subgraphs
  <2>1. UNCHANGED inputs
    BY <1>1, HostFrame
  <2>2. QED
    BY <2>1 DEF inputs, UnitOf, Subgraphs
<1>3. CASE RankOf(d) # r
  <2>1. /\ UNCHANGED <<pc[RankOf(d)], k[RankOf(d)], fin[RankOf(d)]>>
        /\ UNCHANGED <<state[d], dpuPc[d], args[d], data[d], output[d], sg_pos[d]>>
    BY <1>1, <1>3, HostFrame
  <2>2. Held(d)' = Held(d)
    BY <1>2, <2>1 DEF Held, AtWork
  <2>3. QED
    BY <1>1, <1>2, <2>1, <2>2 DEF DataOf
<1>4. CASE RankOf(d) = r
  <2> d \in RankDpus(r)
    BY <1>4 DEF RankDpus
  <2> USE <1>1, <1>2, <1>4 DEF DataOf, deviceVars, inputs, polled, rest, Goto
  <2>1. CASE SendFirst(r)
    <3> DEFINE s == NrDpusPerRank * r + Pos(d)
    <3>1. s \in Subgraphs
      BY FirstSG
    <3>2. /\ args'[d] = s /\ data'[d] = s /\ sg_pos'[d] = s
          /\ state'[d] = state[d] /\ dpuPc'[d] = dpuPc[d]
          /\ pc[r] = "send" /\ pc'[r] = "launch"
      BY <2>1 DEF SendFirst, Pushed, PrType
    <3> HIDE DEF s
    <3>3. state[d] = 0 /\ dpuPc[d] = "off"
      BY <3>2 DEF Follows
    <3>4. QED
      BY <3>1, <3>2, <3>3
  <2>2. CASE Launch(r) \/ PollLine(r) \/ PollEnd(r) \/ Retrieve(r) \/ Claim(r)
    <3>1. /\ UNCHANGED <<state, args, data, output, sg_pos>>
          /\ dpuPc'[d] \in {dpuPc[d], "boot"}
          /\ pc[r] \notin {"send", "ptr", "state"} /\ pc'[r] \notin {"send", "ptr"}
      BY <2>2 DEF PrType, Launch, OFIS_dpu_launch, PollLine, PollEnd, Retrieve, Claim
    <3>2. QED
      BY <3>1
  <2>3. CASE SendArg(r)
    <3>1. /\ UNCHANGED <<state, dpuPc, data, output, k, fin>>
          /\ pc[r] = "arg" /\ pc'[r] \in {"ptr", "overrun"}
          /\ k[r] = 0
      BY <2>3, SendArgGives DEF PrType, Threads
    <3>2. CASE d \in fin[r] /\ pc'[r] = "ptr"
      <4>1. Held(d)' /\ Held(d)
        BY <3>1, <3>2 DEF Held, AtWork
      <4>2. state[d] = 1 /\ dpuPc[d] = "spin"
        BY <4>1 DEF Follows
      <4>3. sg_pos'[d] \in Subgraphs /\ args'[d] = sg_pos'[d]
        <5>1. Next_SG(r, d) \in Nat
          BY <3>2, DealtNumber
        <5>2. Next_SG(r, d) < num_SGs => Next_SG(r, d) \in Subgraphs
          BY <5>1 DEF Subgraphs, PrType
        <5>3. pc' = [pc EXCEPT ![r] = "ptr"]
          BY <2>3, <3>2, SendArgGives DEF PrType
        <5>4. \/ args'[d] = args[d] /\ sg_pos'[d] = sg_pos[d]
              \/ /\ Next_SG(r, d) < num_SGs
                 /\ args'[d] = Next_SG(r, d) /\ sg_pos'[d] = Next_SG(r, d)
          BY <2>3, <3>2, SendArgGives
        <5>5. QED
          BY <3>1, <5>2, <5>4
      <4>4. QED
        BY <3>1, <3>2, <4>1, <4>2, <4>3
    <3>3. CASE ~(d \in fin[r] /\ pc'[r] = "ptr")
      <4>1. args'[d] = args[d] /\ sg_pos'[d] = sg_pos[d]
        BY <2>3, <3>3, SendArgGives DEF PrType
      <4>2. QED
        BY <3>1, <3>3, <4>1
    <3>4. QED
      BY <3>2, <3>3
  <2>4. CASE SendPtr(r)
    <3>1. /\ UNCHANGED <<state, dpuPc, args, output, sg_pos, k, fin>>
          /\ pc[r] = "ptr" /\ pc'[r] = "state" /\ k[r] = 0
          /\ data'[d] = IF d \in fin[r] THEN sg_pos[d] ELSE data[d]
      BY <2>4 DEF SendPtr, Pushed, PrType, Threads
    <3>2. Held(d)' <=> d \in fin[r]
      BY <3>1 DEF Held, AtWork
    <3>3. Held(d) <=> d \in fin[r]
      BY <3>1 DEF Held, AtWork
    <3>4. QED
      BY <3>1, <3>2, <3>3
  <2>5. CASE SetState(r)
    <3>1. /\ pc[r] = "state" /\ pc' = pc /\ k[r] < NrUnits /\ k'[r] = k[r] + 1
          /\ k[r] \in Nat /\ change[r] \in {0, 2}
          /\ state'[d] = IF UnitOf(d) = k[r] /\ d \in fin[r] THEN change[r] ELSE state[d]
          /\ UNCHANGED <<dpuPc, args, data, output, sg_pos, fin>>
      BY <2>5 DEF SetState, PrType
    <3>2. CASE UnitOf(d) = k[r] /\ d \in fin[r]
      <4>1. state'[d] # 1
        BY <3>1, <3>2
      <4>2. QED
        BY <3>1, <4>1
    <3>3. CASE ~(UnitOf(d) = k[r] /\ d \in fin[r])
      <4>1. state'[d] = state[d] /\ (Held(d)' <=> Held(d))
        BY <3>1, <3>3 DEF Held, AtWork
      <4>2. QED
        BY <3>1, <4>1
    <3>4. QED
      BY <3>2, <3>3
  <2>6. CASE RoundEnd(r)
    <3>1. /\ pc[r] = "state" /\ k[r] = NrUnits /\ pc'[r] \in {"poll", "done"}
          /\ UNCHANGED <<state, dpuPc, args, data, output, sg_pos>>
      BY <2>6 DEF RoundEnd, PrType
    <3>2. ~Held(d)
      BY <3>1 DEF Held
    <3>3. QED
      BY <3>1, <3>2
  <2>7. QED
    BY <2>1, <2>2, <2>3, <2>4, <2>5, <2>6 DEF HostStep
<1>5. QED
  BY <1>3, <1>4

\* What Retrieve reads from a reported DPU is its own subgraph's.
LEMMA RetrievesOwn ==
  ASSUME DataInv, NEW r \in Rank, Retrieve(r)
  PROVE  /\ \A d \in fin[r] : output[d] = sg_pos[d] /\ sg_pos[d] \in Subgraphs
         /\ \A s \in Subgraphs :
              result_rank'[s] = IF \E d \in fin[r] : sg_pos[d] = s THEN s ELSE result_rank[s]
<1>1. pc[r] = "retrieve" /\ fin[r] \subseteq RankDpus(r) /\ num_SGs' = num_SGs
  BY DEF Retrieve, Goto, DataInv, PrInv, Threads, inputs
<1>2. ASSUME NEW d \in fin[r]
      PROVE  output[d] = sg_pos[d] /\ sg_pos[d] \in Subgraphs
  <2>1. d \in Dpu /\ RankOf(d) = r
    BY <1>1 DEF RankDpus
  <2>2. Held(d) /\ Follows(d) /\ DataOf(d)
    BY <1>1, <2>1 DEF Held, AtWork, DataInv, PrInv
  <2>3. state[d] = 1
    BY <2>2 DEF Follows
  <2>4. QED
    BY <1>1, <2>1, <2>2, <2>3 DEF DataOf
<1>3. ASSUME NEW s \in Subgraphs
      PROVE  result_rank'[s] = IF \E d \in fin[r] : sg_pos[d] = s THEN s ELSE result_rank[s]
  <2> DEFINE e == CHOOSE x \in fin[r] : sg_pos[x] = s
  <2>1. (\E d \in fin[r] : sg_pos[d] = s) => e \in fin[r] /\ sg_pos[e] = s
    OBVIOUS
  <2>2. result_rank'[s] = IF \E d \in fin[r] : sg_pos[d] = s THEN output[e] ELSE result_rank[s]
    BY DEF Retrieve
  <2>3. QED
    BY <1>2, <2>1, <2>2
<1>4. QED
  BY <1>2, <1>3

LEMMA HostStepRanks ==
  ASSUME DataInv, NEW r \in Rank, HostStep(r)
  PROVE  RanksCorrect' /\ \A s \in Subgraphs : result_rank[s] = s => result_rank'[s] = s
<1>1. Subgraphs' = Subgraphs /\ RanksCorrect
  <2>1. UNCHANGED inputs
    BY HostFrame DEF DataInv, PrInv, Threads
  <2>2. QED
    BY <2>1 DEF inputs, Subgraphs, DataInv
<1>2. CASE Retrieve(r)
  BY <1>1, <1>2, RetrievesOwn DEF RanksCorrect
<1>3. CASE ~Retrieve(r)
  <2>1. result_rank' = result_rank
    BY <1>3, SendArgGives DEF HostStep, SendFirst, Launch, PollLine, PollEnd, Claim,
       SendPtr, SetState, RoundEnd, rest, DataInv, PrInv
  <2>2. QED
    BY <1>1, <2>1 DEF RanksCorrect
<1>4. QED
  BY <1>2, <1>3

LEMMA KernelStepData ==
  ASSUME DataInv, NEW e \in Dpu, KernelStep(e)
  PROVE  (\A d \in Dpu : DataOf(d)') /\ RanksCorrect'
<1>1. PrInv /\ UNCHANGED <<mux, args, data, inputs, pc, k, polled, rest>>
  BY KernelFrame DEF DataInv
<1>2. ASSUME NEW d \in Dpu PROVE DataOf(d)'
  <2>1. /\ DataOf(d) /\ Follows(d) /\ (Held(d)' <=> Held(d)) /\ Subgraphs' = Subgraphs
    BY <1>1 DEF DataInv, PrInv, Held, AtWork, UnitOf, Subgraphs, inputs, polled
  <2>2. CASE d # e
    <3>1. UNCHANGED <<state[d], dpuPc[d], output[d]>>
      BY <1>1, <2>2, KernelFrame
    <3>2. QED
      BY <1>1, <2>1, <3>1 DEF DataOf, rest
  <2>3. CASE d = e
    <3>1. pc[RankOf(d)] # "send"
      BY <1>1, <2>1, <2>3, KernelFrame DEF Follows
    <3>2. dpuPc'[d] = "end" => output'[d] = sg_pos[d]
      <4> SUFFICES ASSUME dpuPc'[d] = "end" PROVE output'[d] = sg_pos[d]
        OBVIOUS
      <4>1. dpuPc[d] = "run" /\ output'[d] = IF data[d] = args[d] THEN args[d] ELSE Junk
        BY <1>1, <2>3, KernelFrame
      <4>2. ~Held(d)
        BY <2>1, <4>1 DEF Follows
      <4>3. data[d] = sg_pos[d] /\ args[d] = sg_pos[d]
        BY <2>1, <3>1, <4>2 DEF DataOf
      <4>4. QED
        BY <4>1, <4>3
    <3>3. state'[d] = 1 => output'[d] = sg_pos[d]
      <4> SUFFICES ASSUME state'[d] = 1 PROVE output'[d] = sg_pos[d]
        OBVIOUS
      <4>1. dpuPc[d] = "end" /\ output'[d] = output[d]
        BY <1>1, <2>3, KernelFrame
      <4>2. QED
        BY <2>1, <4>1 DEF DataOf
    <3>4. QED
      BY <1>1, <2>1, <3>1, <3>2, <3>3 DEF DataOf, rest
  <2>4. QED
    BY <2>2, <2>3
<1>3. RanksCorrect'
  BY <1>1 DEF DataInv, RanksCorrect, Subgraphs, inputs, rest
<1>4. QED
  BY <1>2, <1>3

LEMMA NextData == DataInv /\ [Next]_vars => DataInv'
<1> SUFFICES ASSUME DataInv, [Next]_vars PROVE DataInv'
  OBVIOUS
<1>1. PrInv'
  BY NextPr DEF DataInv
<1>2. CASE UNCHANGED vars
  BY <1>1, <1>2 DEF vars, deviceVars, inputs, polled, rest, DataInv, DataOf, Held, AtWork,
     UnitOf, Subgraphs, RanksCorrect
<1>3. QED
  BY <1>1, <1>2, HostStepData, HostStepRanks, KernelStepData DEF Next, DataInv

LEMMA InitData == Settled /\ Init => DataInv
<1> SUFFICES ASSUME Settled, Init PROVE DataInv
  OBVIOUS
<1>1. ASSUME NEW d \in Dpu PROVE DataOf(d)
  BY Constants DEF Init, DeviceInit, DataOf
<1>2. RanksCorrect
  BY DEF Init, RanksCorrect
<1>3. QED
  BY <1>1, <1>2, InitPr DEF DataInv

-----------------------------------------------------------------------------
(* Whole ranks of subgraphs.                                               *)

\* Where whole ranks divide the subgraphs, a rank that gets any gets a whole rank
\* of them.
WholeRanks ==
  mode = "rank" /\ num_SGs % NrDpusPerRank = 0 =>
    /\ Aligned(p_count)
    /\ \A r \in Rank : pc[r] = "arg" => curr[r] + NrDpusPerRank <= num_SGs

\* A rank's report, true or not, names the whole rank.
Reports(r) ==
  /\ seen[r] \subseteq RankDpus(r) /\ fin[r] \subseteq RankDpus(r)
  /\ mode = "rank" /\ AtWork(r) => fin[r] = RankDpus(r)

RangeInv ==
  /\ PrType
  /\ \A r \in Rank : Reports(r)
  /\ WholeRanks
  /\ IndexesInRange

LEMMA HostStepReports ==
  ASSUME PrType, \A q \in Rank : Reports(q), NEW r \in Rank, HostStep(r), NEW q \in Rank
  PROVE  Reports(q)'
<1>1. /\ Reports(q) /\ fin[r] \subseteq RankDpus(r) /\ RankDpus(q)' = RankDpus(q)
  BY DEF Reports, RankDpus
<1>2. UNCHANGED inputs
  BY <1>1, HostFrame
<1>3. CASE q # r
  BY <1>1, <1>2, <1>3, HostFrame DEF Reports, AtWork, inputs
<1>4. CASE q = r
  <2> USE <1>1, <1>2, <1>4 DEF PrType, Reports, AtWork, inputs, polled, rest, Goto
  <2>1. CASE PollLine(r)
    <3>1. Line(r, k[r]) \subseteq RankDpus(r)
      BY DEF Line, RankDpus
    <3>2. QED
      BY <2>1, <3>1 DEF PollLine
  <2>2. CASE PollEnd(r)
    <3>1. /\ Reported(r) \subseteq RankDpus(r)
          /\ mode = "rank" => Reported(r) \in {{}, RankDpus(r)}
      BY DEF Reported
    <3>2. QED
      BY <2>2, <3>1 DEF PollEnd
  <2>3. CASE SendArg(r)
    BY <2>3, SendArgGives
  <2>4. CASE RoundEnd(r)
    BY <2>4 DEF RoundEnd
  <2>5. CASE SendFirst(r) \/ Launch(r) \/ Retrieve(r) \/ Claim(r) \/ SendPtr(r) \/ SetState(r)
    BY <2>5 DEF SendFirst, Launch, Retrieve, Claim, SendPtr, SetState
  <2>6. QED
    BY <2>1, <2>2, <2>3, <2>4, <2>5 DEF HostStep
<1>5. QED
  BY <1>3, <1>4

LEMMA HostStepRange ==
  ASSUME RangeInv, NEW r \in Rank, HostStep(r)
  PROVE  RangeInv'
<1>0. PrType /\ Reports(r) /\ fin[r] \subseteq RankDpus(r)
  BY DEF RangeInv, Reports
<1>1. /\ PrType /\ fin[r] \subseteq RankDpus(r) /\ UNCHANGED inputs /\ NrDpusPerRank \in Nat
      /\ \A q \in Rank \ {r} : pc'[q] = pc[q] /\ curr'[q] = curr[q]
  BY <1>0, HostFrame, Constants
<1>2. mode = "rank" /\ pc[r] \in {"claim", "arg"} =>
        fin[r] = RankDpus(r) /\ Cardinality(fin[r]) = NrDpusPerRank
  <2>1. mode = "rank" /\ pc[r] \in {"claim", "arg"} => fin[r] = RankDpus(r)
    BY <1>0 DEF Reports, AtWork
  <2>2. QED
    BY <2>1, RankSize
<1>3. WholeRanks'
  <2> SUFFICES ASSUME mode = "rank", num_SGs % NrDpusPerRank = 0
               PROVE  /\ Aligned(p_count')
                      /\ \A q \in Rank : pc'[q] = "arg" => curr'[q] + NrDpusPerRank <= num_SGs
    BY <1>1 DEF WholeRanks, inputs, Aligned
  <2>1. /\ Aligned(p_count)
        /\ \A q \in Rank : pc[q] = "arg" => curr[q] + NrDpusPerRank <= num_SGs
    BY DEF RangeInv, WholeRanks
  <2>2. CASE Claim(r) /\ p_count < num_SGs
    <3>1. /\ curr'[r] = p_count /\ p_count' = p_count + NrDpusPerRank
      BY <1>1, <1>2, <2>2 DEF Claim, Goto, PrType
    <3>2. p_count + NrDpusPerRank <= num_SGs /\ Aligned(p_count + NrDpusPerRank)
      BY <1>1, <2>1, <2>2, NextBlock DEF PrType
    <3>3. QED
      BY <1>1, <2>1, <3>1, <3>2
  <2>3. CASE ~(Claim(r) /\ p_count < num_SGs)
    <3>1. p_count' = p_count /\ pc'[r] # "arg"
      BY <1>1, <2>3, SendArgGives DEF HostStep, SendFirst, Launch, PollLine, PollEnd, Retrieve,
         Claim, SendPtr, SetState, RoundEnd, Goto, rest, PrType
    <3>2. QED
      BY <1>1, <2>1, <3>1
  <2>4. QED
    BY <2>2, <2>3
<1>4. IndexesInRange'
  <2> SUFFICES ASSUME Overrun', ~(mode = "ig")
               PROVE  mode = "rank" /\ num_SGs % NrDpusPerRank # 0
    BY <1>1 DEF IndexesInRange, inputs
  <2>1. CASE Overrun
    BY <2>1 DEF RangeInv, IndexesInRange
  <2>2. CASE ~Overrun
    <3>1. pc'[r] = "overrun"
      BY <1>1, <2>2 DEF Overrun
    <3>2. pc[r] # "overrun"
      BY <2>2 DEF Overrun
    <3>3. SendArg(r)
      BY <1>1, <3>1, <3>2 DEF HostStep, SendFirst, Launch, PollLine, PollEnd, Retrieve,
         Claim, SendPtr, SetState, RoundEnd, Goto, PrType
    <3>4. PICK d \in fin[r] : ~(Next_SG(r, d) < num_SGs)
      BY <1>1, <3>1, <3>3, SendArgGives DEF PrType
    <3>5. mode = "rank" /\ pc[r] = "arg"
      BY <1>1, <3>1, <3>3, SendArgGives DEF PrType
    <3>6. /\ Next_SG(r, d) \in Nat /\ curr[r] \in Nat /\ num_SGs \in Nat
          /\ Next_SG(r, d) < curr[r] + NrDpusPerRank
      BY <1>1, <1>2, <3>5, DealtNumber DEF PrType
    <3>7. ~(curr[r] + NrDpusPerRank <= num_SGs)
      BY <1>1, <3>4, <3>6
    <3>8. QED
      BY <3>5, <3>7 DEF RangeInv, WholeRanks
  <2>3. QED
    BY <2>1, <2>2
<1>5. QED
  BY <1>0, <1>3, <1>4, HostStepType, HostStepReports DEF RangeInv

LEMMA NextRange == RangeInv /\ [Next]_vars => RangeInv'
<1> SUFFICES ASSUME RangeInv, [Next]_vars PROVE RangeInv'
  OBVIOUS
<1>1. ASSUME PrType', UNCHANGED <<inputs, pc, k, polled, rest>> PROVE RangeInv'
  <2>1. \A q \in Rank : Reports(q)'
    BY <1>1 DEF inputs, polled, rest, RangeInv, Reports, AtWork, RankDpus
  <2>2. WholeRanks' /\ IndexesInRange'
    BY <1>1 DEF inputs, rest, RangeInv, WholeRanks, IndexesInRange, Overrun, Aligned
  <2>3. QED
    BY <1>1, <2>1, <2>2 DEF RangeInv
<1>2. CASE UNCHANGED vars
  <2>1. PrType'
    BY <1>2 DEF RangeInv, PrType, vars, deviceVars, inputs, polled, rest, Subgraphs
  <2>2. QED
    BY <1>1, <1>2, <2>1 DEF vars
<1>3. ASSUME NEW e \in Dpu, KernelStep(e) PROVE RangeInv'
  BY <1>1, <1>3, KernelStepType DEF RangeInv
<1>4. QED
  BY <1>2, <1>3, HostStepRange DEF Next

LEMMA InitRange == Init => RangeInv
<1> SUFFICES ASSUME Init PROVE RangeInv
  OBVIOUS
<1>1. Aligned(p_count)
  BY Constants DEF Init, NrDpus, Aligned
<1>2. \A r \in Rank : Reports(r)
  BY DEF Init, Reports, AtWork
<1>3. QED
  BY <1>1, <1>2, InitType DEF Init, RangeInv, WholeRanks, IndexesInRange, Overrun

-----------------------------------------------------------------------------
(* Nothing is missing at the join.                                         *)

\* The DPUs told to leave their loop, or that the thread is about to tell.
Stopped(r) ==
  {d \in RankDpus(r) :
     \/ state[d] = 0 /\ dpuPc[d] \notin {"off", "boot"}
     \/ pc[r] = "state" /\ change[r] = 0 /\ d \in fin[r]}

\* finish_count is their number, and grows only when the subgraphs are all dealt.
Counts(r) ==
  /\ finished[r] = Cardinality(Stopped(r))
  /\ finished[r] > 0 => p_count >= num_SGs
  /\ pc[r] = "done" => finished[r] >= NrDpusPerRank

\* A DPU that is told to stop or gets another subgraph has delivered its last.
Delivered(d) ==
  LET r == RankOf(d)
  IN d \in Stopped(r) \/ (d \in fin[r] /\ pc[r] \in {"claim", "arg"})
       => result_rank[sg_pos[d]] = sg_pos[d]

\* The subgraphs a thread has reserved and not yet given to its DPUs.
Owed(r) ==
  IF pc[r] = "send"
  THEN NrDpusPerRank * r .. NrDpusPerRank * r + NrDpusPerRank - 1
  ELSE IF pc[r] \in {"arg", "overrun"}
  THEN curr[r] .. curr[r] + Cardinality(fin[r]) - 1 ELSE {}

Accounted(s) ==
  \/ result_rank[s] = s
  \/ \E r \in Rank : s \in Owed(r)
  \/ \E d \in Dpu : sg_pos[d] = s

NothingLost == \A s \in Subgraphs : s < p_count => Accounted(s)

CountInv ==
  /\ \A r \in Rank : Counts(r)
  /\ \A d \in Dpu : Delivered(d)
  /\ NothingLost

LEMMA CounterGrows ==
  ASSUME PrInv, NEW r \in Rank, HostStep(r)
  PROVE  p_count \in Nat /\ p_count' \in Nat /\ p_count <= p_count'
<1>1. p_count \in Nat /\ Cardinality(fin[r]) \in Nat
  BY Finite DEF PrInv, PrType
<1>2. CASE Claim(r)
  BY <1>1, <1>2 DEF Claim
<1>3. CASE ~Claim(r)
  BY <1>1, <1>3, SendArgGives DEF PrInv, HostStep, SendFirst, Launch, PollLine, PollEnd,
     Retrieve, SendPtr, SetState, RoundEnd, rest
<1>4. QED
  BY <1>2, <1>3

\* The thread stops DPUs when it finds no subgraph left, and only then.
LEMMA HostStepStopped ==
  ASSUME PrInv, NEW r \in Rank, HostStep(r), NEW d \in Dpu
  PROVE  LET q == RankOf(d)
         IN d \in Stopped(q)' <=>
              d \in Stopped(q) \/ (q = r /\ Claim(r) /\ p_count >= num_SGs /\ d \in fin[r])
<1>1. /\ PrType /\ Follows(d) /\ Threads(r) /\ RankOf(d) \in Rank
      /\ fin[r] \subseteq RankDpus(r)
      /\ UnitOf(d) \in Nat /\ UnitOf(d) < NrUnits /\ NrUnits \in Nat
      /\ \A i \in Nat : i < NrUnits => (d \in Unit(RankOf(d), i) <=> i = UnitOf(d))
  BY Own
<1> DEFINE In == \/ state[d] = 0 /\ dpuPc[d] \notin {"off", "boot"}
                 \/ pc[RankOf(d)] = "state" /\ change[RankOf(d)] = 0 /\ d \in fin[RankOf(d)]
<1>2. (d \in Stopped(RankOf(d)) <=> In) /\ (d \in Stopped(RankOf(d))' <=> In')
  BY DEF Stopped, RankDpus
<1>3. CASE RankOf(d) # r
  <2>1. UNCHANGED <<pc[RankOf(d)], change[RankOf(d)], fin[RankOf(d)], state[d], dpuPc[d]>>
    BY <1>1, <1>3, HostFrame
  <2>2. QED
    BY <1>2, <1>3, <2>1
<1>4. CASE RankOf(d) = r
  <2> USE <1>1, <1>2, <1>4
  <2>1. CASE SendFirst(r) \/ Launch(r)
    <3>1. /\ pc[r] \in {"send", "launch"} /\ pc'[r] \in {"launch", "poll"}
          /\ state' = state /\ dpuPc'[d] \in {dpuPc[d], "boot"}
      BY <2>1 DEF SendFirst, Launch, OFIS_dpu_launch, Goto, PrType
    <3>2. ~Claim(r)
      BY <3>1 DEF Claim, Goto
    <3>3. QED
      BY <3>1, <3>2 DEF Follows
  <2>2. CASE PollLine(r) \/ PollEnd(r) \/ Retrieve(r)
    <3>1. /\ UNCHANGED <<state, dpuPc>>
          /\ pc[r] \in {"poll", "retrieve"} /\ pc'[r] # "state"
      BY <2>2 DEF PollLine, PollEnd, Retrieve, Goto, PrType, deviceVars
    <3>2. ~Claim(r)
      BY <3>1 DEF Claim, Goto
    <3>3. QED
      BY <3>1, <3>2
  <2>3. CASE Claim(r)
    <3>1. /\ UNCHANGED <<state, dpuPc, fin>> /\ pc[r] = "claim" /\ num_SGs \in Nat
          /\ p_count \in Nat
          /\ p_count >= num_SGs => pc'[r] = "state" /\ change'[r] = 0
          /\ ~(p_count >= num_SGs) => pc'[r] = "arg"
      BY <2>3 DEF Claim, Goto, PrType, deviceVars, polled
    <3>2. QED
      BY <2>3, <3>1
  <2>4. CASE SendArg(r)
    <3>1. /\ UNCHANGED <<state, dpuPc>> /\ pc[r] = "arg" /\ pc'[r] \in {"ptr", "overrun"}
      BY <2>4, SendArgGives DEF PrType
    <3>2. ~Claim(r)
      BY <3>1 DEF Claim, Goto
    <3>3. QED
      BY <3>1, <3>2
  <2>5. CASE SendPtr(r)
    <3>1. /\ UNCHANGED <<state, dpuPc, change>> /\ pc[r] = "ptr" /\ change[r] = 2
      BY <2>5 DEF SendPtr, Goto, Threads, rest
    <3>2. ~Claim(r)
      BY <3>1 DEF Claim, Goto
    <3>3. QED
      BY <3>1, <3>2
  <2>6. CASE SetState(r)
    <3>1. /\ pc[r] = "state" /\ pc' = pc /\ k[r] < NrUnits /\ k[r] \in Nat
          /\ change[r] \in {0, 2}
          /\ state'[d] = IF UnitOf(d) = k[r] /\ d \in fin[r] THEN change[r] ELSE state[d]
          /\ UNCHANGED <<dpuPc, fin, change>>
      BY <2>6 DEF SetState, PrType, polled, rest
    <3>2. ~Claim(r)
      BY <3>1 DEF Claim, Goto
    <3>3. CASE UnitOf(d) = k[r] /\ d \in fin[r]
      <4>1. state[d] = 1
        BY <3>1, <3>3 DEF Follows, Held, AtWork
      <4>2. QED
        BY <3>1, <3>2, <3>3, <4>1
    <3>4. CASE ~(UnitOf(d) = k[r] /\ d \in fin[r])
      BY <3>1, <3>2, <3>4
    <3>5. QED
      BY <3>3, <3>4
  <2>7. CASE RoundEnd(r)
    <3>1. /\ pc[r] = "state" /\ k[r] = NrUnits /\ pc'[r] \in {"poll", "done"}
          /\ UNCHANGED <<state, dpuPc>>
      BY <2>7 DEF RoundEnd, Goto, PrType, deviceVars
    <3>2. ~Claim(r) /\ ~Held(d)
      BY <3>1 DEF Claim, Goto, Held
    <3>3. d \in fin[r] /\ change[r] = 0 => state[d] = 0 /\ dpuPc[d] \notin {"off", "boot"}
      BY <3>1, <3>2 DEF Follows
    <3>4. QED
      BY <3>1, <3>2, <3>3
  <2>8. QED
    BY <2>1, <2>2, <2>3, <2>4, <2>5, <2>6, <2>7 DEF HostStep
<1>5. QED
  BY <1>3, <1>4

\* A rank's stopped DPUs as sets.
LEMMA StoppedSets ==
  ASSUME PrInv, NEW r \in Rank, HostStep(r), NEW q \in Rank
  PROVE  Stopped(q)' = IF q = r /\ Claim(r) /\ p_count >= num_SGs
                       THEN Stopped(r) \cup fin[r] ELSE Stopped(q)
<1>1. /\ fin[r] \subseteq RankDpus(r)
      /\ \A d \in RankDpus(q) : d \in Dpu /\ RankOf(d) = q
      /\ Stopped(q) \subseteq RankDpus(q) /\ Stopped(q)' \subseteq RankDpus(q)
  BY DEF PrInv, Threads, RankDpus, Stopped
<1>2. \A d \in RankDpus(q) :
        d \in Stopped(q)' <=>
          d \in Stopped(q) \/ (q = r /\ Claim(r) /\ p_count >= num_SGs /\ d \in fin[r])
  BY <1>1, HostStepStopped
<1>3. QED
  BY <1>1, <1>2

LEMMA HostStepCounts ==
  ASSUME PrInv, CountInv, NEW r \in Rank, HostStep(r), NEW q \in Rank
  PROVE  Counts(q)'
<1>1. /\ PrType /\ Threads(r) /\ Counts(q) /\ UNCHANGED inputs /\ NrDpusPerRank \in Nat
      /\ fin[r] \in SUBSET Dpu /\ fin[r] \subseteq RankDpus(r) /\ Stopped(q) \in SUBSET Dpu
      /\ finished[q] \in Nat
  BY HostFrame, Constants DEF PrInv, CountInv, Threads, PrType, Stopped, RankDpus
<1>2. p_count \in Nat /\ p_count' \in Nat /\ p_count <= p_count' /\ num_SGs \in Nat
  BY <1>1, CounterGrows DEF PrType
<1>3. CASE q = r /\ Claim(r) /\ p_count >= num_SGs
  <2>1. /\ pc[r] = "claim" /\ pc'[r] = "state" /\ p_count' = p_count
        /\ finished'[r] = finished[r] + Cardinality(fin[r])
    BY <1>1, <1>2, <1>3 DEF Claim, Goto, PrType
  <2>2. Stopped(r)' = Stopped(r) \cup fin[r]
    BY <1>3, StoppedSets
  <2>3. Stopped(r) \cap fin[r] = {}
    <3>1. ASSUME NEW d \in fin[r] PROVE d \notin Stopped(r)
      <4>1. d \in Dpu /\ RankOf(d) = r
        BY <1>1 DEF RankDpus
      <4>2. Held(d) /\ Follows(d)
        BY <2>1, <4>1 DEF Held, AtWork, PrInv
      <4>3. QED
        BY <2>1, <4>1, <4>2 DEF Follows, Stopped
    <3>2. QED
      BY <3>1
  <2>4. Cardinality(Stopped(r)') = Cardinality(Stopped(r)) + Cardinality(fin[r])
    <3>1. /\ IsFiniteSet(Stopped(r)) /\ IsFiniteSet(fin[r]) /\ Cardinality({}) = 0
          /\ Cardinality(Stopped(r)) \in Nat /\ Cardinality(fin[r]) \in Nat
      BY <1>1, <1>3, Finite, FS_EmptySet
    <3>2. Cardinality(Stopped(r) \cup fin[r])
            = Cardinality(Stopped(r)) + Cardinality(fin[r]) - 0
      BY <2>3, <3>1, FS_Union
    <3>3. QED
      BY <2>2, <3>1, <3>2
  <2>5. QED
    BY <1>1, <1>2, <1>3, <2>1, <2>4 DEF Counts, inputs
<1>4. CASE ~(q = r /\ Claim(r) /\ p_count >= num_SGs)
  <2>1. Stopped(q)' = Stopped(q)
    BY <1>4, StoppedSets
  <2>2. finished'[q] = finished[q]
    <3>1. CASE q # r
      BY <1>1, <3>1, HostFrame
    <3>2. CASE q = r /\ Claim(r)
      BY <1>4, <3>2 DEF Claim
    <3>3. CASE q = r /\ ~Claim(r)
      BY <1>1, <3>3, SendArgGives DEF HostStep, SendFirst, Launch, PollLine, PollEnd,
         Retrieve, SendPtr, SetState, RoundEnd, rest
    <3>4. QED
      BY <3>1, <3>2, <3>3
  <2>3. pc'[q] = "done" => pc[q] = "done" \/ finished[q] >= NrDpusPerRank
    <3>1. CASE q # r
      BY <1>1, <3>1, HostFrame
    <3>2. CASE q = r /\ RoundEnd(r)
      BY <1>1, <3>2 DEF RoundEnd, Goto, PrType
    <3>3. CASE q = r /\ ~RoundEnd(r)
      <4>1. pc'[r] # "done"
        BY <1>1, <3>3, SendArgGives DEF HostStep, SendFirst, Launch, PollLine, PollEnd,
           Retrieve, Claim, SendPtr, SetState, Goto, PrType
      <4>2. QED
        BY <3>3, <4>1
    <3>4. QED
      BY <3>1, <3>2, <3>3
  <2>4. QED
    BY <1>1, <1>2, <2>1, <2>2, <2>3 DEF Counts, inputs
<1>5. QED
  BY <1>3, <1>4

\* A DPU is given another subgraph at the start, when its thread has reserved it
\* one, and at no other step.
LEMMA SubgraphMoves ==
  ASSUME PrInv, NEW r \in Rank, HostStep(r), NEW d \in Dpu, sg_pos'[d] # sg_pos[d]
  PROVE  /\ RankOf(d) = r
         /\ pc[r] = "send" \/ (pc[r] = "arg" /\ d \in fin[r])
         /\ pc'[r] \in {"launch", "ptr"}
<1>1. PrType /\ fin[r] \subseteq RankDpus(r)
  BY DEF PrInv, Threads
<1>2. RankOf(d) = r
  BY <1>1, HostFrame
<1>3. CASE SendFirst(r)
  BY <1>1, <1>2, <1>3 DEF SendFirst, Goto, PrType
<1>4. CASE SendArg(r)
  BY <1>1, <1>2, <1>4, SendArgGives DEF PrType
<1>5. CASE ~SendFirst(r) /\ ~SendArg(r)
  BY <1>5 DEF HostStep, Launch, PollLine, PollEnd, Retrieve, Claim, SendPtr, SetState,
     RoundEnd, rest
<1>6. QED
  BY <1>2, <1>3, <1>4, <1>5

LEMMA HostStepDelivered ==
  ASSUME DataInv, CountInv, NEW r \in Rank, HostStep(r), NEW d \in Dpu
  PROVE  Delivered(d)'
<1>1. /\ PrInv /\ PrType /\ Delivered(d) /\ DataOf(d) /\ Follows(d) /\ Threads(r)
      /\ RankOf(d) \in Rank /\ fin[r] \subseteq RankDpus(r)
  BY Constants DEF DataInv, PrInv, CountInv, Threads
<1>2. \A s \in Subgraphs : result_rank[s] = s => result_rank'[s] = s
  BY HostStepRanks
<1> SUFFICES ASSUME \/ d \in Stopped(RankOf(d))'
                    \/ d \in fin'[RankOf(d)] /\ pc'[RankOf(d)] \in {"claim", "arg"}
             PROVE  result_rank'[sg_pos'[d]] = sg_pos'[d]
  BY DEF Delivered
<1>3. \/ d \in Stopped(RankOf(d))
      \/ d \in fin[RankOf(d)] /\ pc[RankOf(d)] \in {"claim", "arg"}
      \/ RankOf(d) = r /\ d \in fin[r] /\ Retrieve(r)
  <2>1. CASE d \in Stopped(RankOf(d))'
    <3>1. \/ d \in Stopped(RankOf(d))
          \/ RankOf(d) = r /\ Claim(r) /\ d \in fin[r]
      BY <1>1, <2>1, HostStepStopped
    <3>2. Claim(r) => pc[r] = "claim"
      BY DEF Claim, Goto
    <3>3. QED
      BY <3>1, <3>2
  <2>2. CASE d \in fin'[RankOf(d)] /\ pc'[RankOf(d)] \in {"claim", "arg"}
    <3>1. CASE RankOf(d) # r
      BY <1>1, <2>2, <3>1, HostFrame
    <3>2. CASE RankOf(d) = r
      <4>1. Retrieve(r) \/ Claim(r)
        BY <1>1, <2>2, <3>2, SendArgGives DEF HostStep, SendFirst, Launch, PollLine,
           PollEnd, SendPtr, SetState, RoundEnd, Goto, PrType
      <4>2. fin' = fin
        BY <4>1 DEF Retrieve, Claim, polled
      <4>3. Claim(r) => pc[r] = "claim"
        BY DEF Claim, Goto
      <4>4. QED
        BY <2>2, <3>2, <4>1, <4>2, <4>3
    <3>3. QED
      BY <3>1, <3>2
  <2>3. QED
    BY <2>1, <2>2
<1>4. sg_pos'[d] = sg_pos[d]
  <2> SUFFICES ASSUME sg_pos'[d] # sg_pos[d] PROVE FALSE
    OBVIOUS
  <2>1. /\ RankOf(d) = r /\ pc'[r] \in {"launch", "ptr"}
        /\ pc[r] = "send" \/ (pc[r] = "arg" /\ d \in fin[r])
    BY <1>1, SubgraphMoves
  <2>2. ~Claim(r) /\ ~Retrieve(r)
    BY <2>1 DEF Claim, Retrieve, Goto
  <2>3. d \in Stopped(r)
    BY <1>1, <2>1, <2>2, HostStepStopped
  <2>4. state[d] = 0 /\ dpuPc[d] \notin {"off", "boot"}
    BY <2>1, <2>3 DEF Stopped
  <2>5. CASE pc[r] = "send"
    BY <1>1, <2>1, <2>4, <2>5 DEF Follows
  <2>6. CASE pc[r] = "arg" /\ d \in fin[r]
    <3>1. Held(d)
      BY <2>1, <2>6 DEF Held, AtWork
    <3>2. QED
      BY <1>1, <2>4, <3>1 DEF Follows
  <2>7. QED
    BY <2>1, <2>5, <2>6
<1>5. sg_pos[d] \in Subgraphs
  <2>1. pc[RankOf(d)] # "send"
    <3>1. d \in Stopped(RankOf(d)) => pc[RankOf(d)] # "send"
      BY <1>1 DEF Stopped, Follows
    <3>2. Retrieve(r) => pc[r] = "retrieve"
      BY DEF Retrieve, Goto
    <3>3. QED
      BY <1>3, <3>1, <3>2
  <2>2. QED
    BY <1>1, <2>1 DEF DataOf
<1>6. CASE RankOf(d) = r /\ d \in fin[r] /\ Retrieve(r)
  BY <1>4, <1>5, <1>6, RetrievesOwn
<1>7. CASE result_rank[sg_pos[d]] = sg_pos[d]
  BY <1>2, <1>4, <1>5, <1>7
<1>8. QED
  BY <1>1, <1>3, <1>6, <1>7 DEF Delivered

LEMMA HostStepAccounts ==
  ASSUME DataInv, CountInv, NEW r \in Rank, HostStep(r)
  PROVE  NothingLost'
<1>1. /\ PrInv /\ PrType /\ Threads(r) /\ UNCHANGED inputs /\ num_SGs \in Nat
      /\ p_count \in Nat /\ p_count' \in Nat
      /\ fin[r] \in SUBSET RankDpus(r) /\ Cardinality(fin[r]) \in Nat
      /\ curr[r] \in Nat
  BY HostFrame, CounterGrows, Finite DEF DataInv, PrInv, Threads, PrType
<1> SUFFICES ASSUME NEW s \in Subgraphs, s < p_count' PROVE Accounted(s)'
  BY <1>1 DEF NothingLost, Subgraphs, inputs
<1>2. s \in Nat /\ s < num_SGs
  BY <1>1 DEF Subgraphs
<1>3. CASE ~(s < p_count)
  <2>1. Claim(r) /\ p_count' # p_count
    BY <1>1, <1>2, <1>3, SendArgGives DEF HostStep, SendFirst, Launch, PollLine, PollEnd,
       Retrieve, SendPtr, SetState, RoundEnd, rest
  <2>2. /\ curr'[r] = p_count /\ p_count' = p_count + Cardinality(fin[r])
        /\ pc'[r] = "arg" /\ fin' = fin
    BY <1>1, <2>1 DEF Claim, Goto, PrType, polled
  <2>3. s \in p_count .. p_count + Cardinality(fin[r]) - 1
    BY <1>1, <1>2, <1>3, <2>2
  <2>4. s \in Owed(r)'
    BY <2>2, <2>3 DEF Owed
  <2>5. QED
    BY <2>4 DEF Accounted
<1>4. CASE result_rank[s] = s
  BY <1>4, HostStepRanks DEF Accounted
<1>5. ASSUME NEW q \in Rank, s \in Owed(q) PROVE Accounted(s)'
  <2>1. CASE q # r
    <3>1. UNCHANGED <<pc[q], curr[q], fin[q]>>
      BY <1>1, <2>1, HostFrame
    <3>2. Owed(q)' = Owed(q)
      BY <3>1 DEF Owed
    <3>3. QED
      BY <1>5, <3>2 DEF Accounted
  <2>2. CASE q = r /\ pc[r] = "send"
    <3>1. SendFirst(r)
      BY <2>2 DEF HostStep, Launch, PollLine, PollEnd, Retrieve, Claim, SendArg, SendPtr,
         SetState, RoundEnd, Goto
    <3>2. NrDpusPerRank * r \in Nat
      BY Constants DEF Rank
    <3>3. PICK d \in RankDpus(r) : NrDpusPerRank * r + Pos(d) = s
      BY <1>5, <2>2, <3>2, BlockGiven DEF Owed
    <3>4. d \in Dpu /\ sg_pos'[d] = s
      BY <3>1, <3>3 DEF SendFirst, Pushed, RankDpus
    <3>5. QED
      BY <3>4 DEF Accounted
  <2>3. CASE q = r /\ pc[r] = "arg"
    <3>1. SendArg(r)
      BY <2>3 DEF HostStep, SendFirst, Launch, PollLine, PollEnd, Retrieve, Claim, SendPtr,
         SetState, RoundEnd, Goto
    <3>2. curr' = curr /\ fin' = fin
      BY <1>1, <3>1, SendArgGives DEF polled
    <3>3. CASE pc'[r] = "overrun"
      <4>1. s \in Owed(r)'
        BY <1>5, <2>3, <3>2, <3>3 DEF Owed
      <4>2. QED
        BY <4>1 DEF Accounted
    <3>4. CASE pc'[r] # "overrun"
      <4>1. s - curr[r] \in 0 .. Cardinality(fin[r]) - 1
        BY <1>1, <1>2, <1>5, <2>3 DEF Owed
      <4>2. PICK d \in fin[r] : Ahead(fin[r], d) = s - curr[r]
        BY <1>1, <4>1, AheadCovers
      <4>3. Next_SG(r, d) = s
        BY <1>1, <1>2, <4>2 DEF Next_SG, Before, Ahead
      <4>4. pc' = [pc EXCEPT ![r] = "ptr"]
        BY <1>1, <3>1, <3>4, SendArgGives DEF PrType
      <4>5. sg_pos'[d] = s /\ d \in Dpu
        BY <1>1, <1>2, <3>1, <3>4, <4>3, <4>4, SendArgGives DEF PrType, RankDpus
      <4>6. QED
        BY <4>5 DEF Accounted
    <3>5. QED
      BY <3>3, <3>4
  <2>4. CASE q = r /\ pc[r] = "overrun"
    BY <2>4, SendArgGives, <1>1 DEF HostStep, SendFirst, Launch, PollLine, PollEnd, Retrieve,
       Claim, SendPtr, SetState, RoundEnd, Goto
  <2>5. QED
    BY <1>5, <2>1, <2>2, <2>3, <2>4 DEF Owed
<1>6. ASSUME NEW d \in Dpu, sg_pos[d] = s PROVE Accounted(s)'
  <2>1. CASE sg_pos'[d] = s
    BY <2>1 DEF Accounted
  <2>2. CASE sg_pos'[d] # s
    <3>1. RankOf(d) = r /\ (pc[r] = "send" \/ (pc[r] = "arg" /\ d \in fin[r]))
      BY <1>1, <1>6, <2>2, SubgraphMoves
    <3>2. pc[r] # "send"
      BY <1>2, <1>6, <3>1 DEF DataInv, DataOf, None
    <3>3. Delivered(d)
      BY DEF CountInv
    <3>4. result_rank[s] = s
      BY <1>6, <3>1, <3>2, <3>3 DEF Delivered
    <3>5. QED
      BY <1>4, <3>4
  <2>3. QED
    BY <2>1, <2>2
<1>7. QED
  BY <1>3, <1>4, <1>5, <1>6 DEF CountInv, NothingLost, Accounted

LEMMA KernelStepCount ==
  ASSUME PrInv, CountInv, NEW e \in Dpu, KernelStep(e)
  PROVE  CountInv'
<1>1. UNCHANGED <<inputs, pc, k, polled, rest>>
  BY KernelFrame
<1>2. ASSUME NEW q \in Rank PROVE Stopped(q)' = Stopped(q)
  <2>1. ASSUME NEW d \in RankDpus(q) PROVE d \in Stopped(q)' <=> d \in Stopped(q)
    <3>1. d \in Dpu /\ RankDpus(q)' = RankDpus(q) /\ state[d] \in 0 .. 2
      BY DEF RankDpus, PrInv, PrType
    <3>2. state'[d] = 0 /\ dpuPc'[d] \notin {"off", "boot"}
            <=> state[d] = 0 /\ dpuPc[d] \notin {"off", "boot"}
      BY <3>1, KernelFrame
    <3>3. QED
      BY <1>1, <3>1, <3>2 DEF Stopped, polled, rest
  <2>2. QED
    BY <2>1 DEF Stopped, RankDpus
<1>3. \A q \in Rank : Counts(q)'
  BY <1>1, <1>2 DEF CountInv, Counts, inputs, rest
<1>4. \A d \in Dpu : Delivered(d)'
  BY <1>1, <1>2, Constants DEF CountInv, Delivered, polled, rest
<1>5. NothingLost'
  BY <1>1 DEF CountInv, NothingLost, Accounted, Owed, Subgraphs, inputs, polled, rest
<1>6. QED
  BY <1>3, <1>4, <1>5 DEF CountInv

LEMMA NextCount == DataInv /\ CountInv /\ [Next]_vars => CountInv'
<1> SUFFICES ASSUME DataInv, CountInv, [Next]_vars PROVE CountInv'
  OBVIOUS
<1>0. PrInv
  BY DEF DataInv
<1>1. ASSUME NEW r \in Rank, HostStep(r) PROVE CountInv'
  BY <1>0, <1>1, HostStepCounts, HostStepDelivered, HostStepAccounts DEF CountInv
<1>2. CASE UNCHANGED vars
  <2> USE <1>2 DEF vars, deviceVars, inputs, polled, rest
  <2>1. \A q \in Rank : Stopped(q)' = Stopped(q)
    BY DEF Stopped, RankDpus
  <2>2. \A q \in Rank : Counts(q)'
    BY <2>1 DEF CountInv, Counts
  <2>3. \A d \in Dpu : Delivered(d)'
    BY <2>1, Constants DEF CountInv, Delivered
  <2>4. NothingLost'
    BY DEF CountInv, NothingLost, Accounted, Owed, Subgraphs
  <2>5. QED
    BY <2>2, <2>3, <2>4 DEF CountInv
<1>3. QED
  BY <1>0, <1>1, <1>2, KernelStepCount DEF Next

LEMMA InitCount == Init => CountInv
<1> SUFFICES ASSUME Init PROVE CountInv
  OBVIOUS
<1>1. ASSUME NEW r \in Rank PROVE Stopped(r) = {}
  BY DEF Init, DeviceInit, Stopped, RankDpus
<1>2. ASSUME NEW r \in Rank PROVE Counts(r)
  BY <1>1, FS_EmptySet DEF Init, Counts
<1>3. ASSUME NEW d \in Dpu PROVE Delivered(d)
  BY <1>1, Constants DEF Init, Delivered
<1>4. NothingLost
  <2> SUFFICES ASSUME NEW s \in Subgraphs, s < p_count PROVE Accounted(s)
    BY DEF NothingLost
  <2>1. s \in 0 .. NrDpus - 1
    BY Constants, InitType DEF Init, Subgraphs, PrType
  <2>2. PICK r \in Rank :
          s \in NrDpusPerRank * r .. NrDpusPerRank * r + NrDpusPerRank - 1
    BY <2>1, FirstOwner
  <2>3. pc[r] = "send"
    BY DEF Init
  <2>4. QED
    BY <2>2, <2>3 DEF Owed, Accounted
<1>5. QED
  BY <1>2, <1>3, <1>4 DEF CountInv

\* What the results and the join rest on.
PageRankInv == DataInv /\ CountInv

LEMMA PageRankInvHolds ==
  ASSUME Settled
  PROVE  Spec => []PageRankInv
<1>1. Init => PageRankInv
  BY InitData, InitCount DEF PageRankInv
<1>2. PageRankInv /\ [Next]_vars => PageRankInv'
  BY NextData, NextCount DEF PageRankInv
<1>3. QED
  BY <1>1, <1>2, PTL DEF Spec

\* Whatever the order in which DPUs finish, main.c never stores one subgraph's
\* ranks in another's slot, although a DPU that finds no new subgraph is started
\* again with its old one: by single DPUs and by lines, and by ranks if every DPU
\* has written its first state before thread_fct_rank polls.
THEOREM NoRankMisplaced ==
  ASSUME Settled
  PROVE  Spec => []RanksCorrect
<1>1. PageRankInv => RanksCorrect
  BY DEF PageRankInv, DataInv
<1>2. QED
  BY <1>1, PageRankInvHolds, PTL

\* An index runs past the subgraphs only where the code has no guard and the
\* subgraphs do not fill whole ranks (or lines), whether or not the polls' reports
\* are true.
THEOREM IndexesGuarded == Spec => []IndexesInRange
<1>1. RangeInv => IndexesInRange
  BY DEF RangeInv
<1>2. Spec => []RangeInv
  BY InitRange, NextRange, PTL DEF Spec
<1>3. QED
  BY <1>1, <1>2, PTL

\* When OFIS_parallel_exec has joined the threads every subgraph's ranks are in
\* result_rank and every DPU was told to leave its loop: by single DPUs and by
\* lines, and by ranks if every DPU has written its first state before
\* thread_fct_rank polls.
THEOREM NoRankMissing ==
  ASSUME Settled
  PROVE  Spec => []RanksComplete
<1>1. PageRankInv => RanksComplete
  <2> SUFFICES ASSUME PageRankInv, \A r \in Rank : pc[r] = "done"
               PROVE  /\ \A s \in Subgraphs : result_rank[s] = s
                      /\ \A d \in Dpu : state[d] = 0
    BY DEF RanksComplete
  <2>1. ASSUME NEW r \in Rank PROVE Stopped(r) = RankDpus(r) /\ finished[r] > 0
    <3>1. Stopped(r) \subseteq RankDpus(r) /\ Stopped(r) \in SUBSET Dpu
      BY DEF Stopped, RankDpus
    <3>2. Cardinality(Stopped(r)) >= NrDpusPerRank /\ finished[r] = Cardinality(Stopped(r))
      BY DEF PageRankInv, CountInv, Counts
    <3>3. Cardinality(Stopped(r)) = Cardinality(RankDpus(r))
      <4>1. Cardinality(Stopped(r)) <= Cardinality(RankDpus(r))
        BY <3>1, RankSize, FS_Subset
      <4>2. Cardinality(Stopped(r)) \in Nat
        BY <3>1, Finite
      <4>3. QED
        BY <3>2, <4>1, <4>2, RankSize, RankNotEmpty
    <3>4. Stopped(r) = RankDpus(r)
      BY <3>1, <3>3, RankSize, FS_Subset
    <3>5. QED
      BY <3>2, <3>3, <3>4, RankSize, RankNotEmpty
  <2>2. ASSUME NEW d \in Dpu PROVE state[d] = 0 /\ result_rank[sg_pos[d]] = sg_pos[d]
    <3>1. d \in Stopped(RankOf(d)) /\ RankOf(d) \in Rank
      BY <2>1, Constants DEF RankDpus
    <3>2. QED
      BY <3>1 DEF Stopped, PageRankInv, CountInv, Delivered
  <2>3. p_count >= num_SGs
    <3>1. 0 \in Rank
      BY TopologyAssumption DEF Rank
    <3>2. QED
      BY <2>1, <3>1 DEF PageRankInv, CountInv, Counts
  <2>4. ASSUME NEW s \in Subgraphs PROVE result_rank[s] = s
    <3>1. s < p_count
      BY <2>3 DEF Subgraphs, PageRankInv, DataInv, PrInv, PrType
    <3>2. \A r \in Rank : Owed(r) = {}
      BY DEF Owed
    <3>3. QED
      BY <2>2, <3>1, <3>2 DEF PageRankInv, CountInv, NothingLost, Accounted
  <2>5. QED
    BY <2>2, <2>4
<1>2. QED
  BY <1>1, PageRankInvHolds, PTL
=============================================================================
