--------------------------- MODULE SpmvRankProofs ---------------------------
(***************************************************************************)
(* Proofs about the SpMV application at rank granularity, for any number   *)
(* of ranks, interfaces, lines and partitions: no number leaves its range; *)
(* and once the DPUs have booted before the first poll, the report of      *)
(* OFIS_get_finished_rank, a sum of state words, is sound, no thread moves *)
(* the bank of a computing DPU, and joined threads leave every result in   *)
(* the output vector.                                                      *)
(***************************************************************************)
EXTENDS SpmvRank, OfisDeviceProofs

\* The types the argument needs; the partitions play no part in it.
RankType ==
  /\ state \in [Dpu -> 0 .. 2]
  /\ dpuPc \in [Dpu -> DpuPc]
  /\ mux \in [Dpu -> {"host", "dpu"}]
  /\ pc \in [Rank -> HostPc]
  /\ k \in [Rank -> 0 .. NrIgs]
  /\ sum \in [Rank -> Nat]
  /\ change \in [Rank -> {0, 2}]
  /\ finished \in [Rank -> Nat]

\* What the thread is doing says what its DPUs are doing.
DpuFollows(d) ==
  LET r == RankOf(d)
  IN /\ dpuPc[d] \in {"off", "boot"} => state[d] = 0
     /\ state[d] = 1 => dpuPc[d] = "spin"
     /\ mux[d] = "host" => dpuPc[d] = "off" \/ state[d] = 1
     /\ pc[r] \in {"send", "launch"} => dpuPc[d] = "off"
     /\ pc[r] = "poll" => dpuPc[d] = "boot" \/ state[d] \in {1, 2}
     /\ pc[r] = "poll" /\ k[r] > 0 => dpuPc[d] # "boot"
     /\ pc[r] \in {"muxhost", "retrieve", "claim", "args", "matrix", "muxdpu", "state"}
          => state[d] = 1
     /\ pc[r] = "state" => mux[d] = "dpu"

\* A thread that goes on polling has given its rank the state 2.
ThreadCounts(r) ==
  /\ pc[r] \notin {"muxdpu", "state", "done"} => finished[r] = 0
  /\ pc[r] \in {"args", "matrix"} => change[r] = 2
  /\ pc[r] \in {"muxdpu", "state"} =>
       (finished[r] = 0 /\ change[r] = 2) \/ finished[r] >= NrDpusPerRank
  /\ pc[r] # "poll" => k[r] = 0 /\ sum[r] = 0

\* The DPUs the current poll has read.
ReadDpus(r) == {d \in Dpu : RankOf(d) = r /\ IgOf(d) < k[r]}

\* The words read are 1 and 2, so their sum is their number only if all are 1;
\* and a DPU that says 1 waits for the host.
SumTells(r) ==
  pc[r] = "poll" =>
    /\ sum[r] >= Cardinality(ReadDpus(r))
    /\ sum[r] = Cardinality(ReadDpus(r)) => \A d \in ReadDpus(r) : state[d] = 1

RankInv ==
  /\ RankType
  /\ \A d \in Dpu : DpuFollows(d)
  /\ \A r \in Rank : ThreadCounts(r) /\ SumTells(r)

LEMMA InitRank == Init => RankInv
<1> SUFFICES ASSUME Init PROVE RankInv
  OBVIOUS
<1>1. RankType
  BY Constants DEF Init, DeviceInit, RankType, DpuPc, HostPc
<1>2. ASSUME NEW d \in Dpu PROVE DpuFollows(d)
  BY Constants DEF Init, DeviceInit, DpuFollows
<1>3. ASSUME NEW r \in Rank PROVE ThreadCounts(r) /\ SumTells(r)
  BY DEF Init, ThreadCounts, SumTells
<1>4. QED
  BY <1>1, <1>2, <1>3 DEF RankInv

-----------------------------------------------------------------------------
(* The poll.                                                               *)

\* One more line read: the sum grows by the line's DPUs, and by one more for
\* each that says 2.
LEMMA LineAdds ==
  ASSUME NEW r \in Rank, NEW i \in Ig, \A d \in Line(r, i) : state[d] \in {1, 2}
  PROVE  /\ StateCount(r, i, 1) \in Nat /\ StateCount(r, i, 2) \in Nat
         /\ StateCount(r, i, 1) + StateCount(r, i, 2) = Cardinality(Line(r, i))
         /\ StateCount(r, i, 2) = 0 => \A d \in Line(r, i) : state[d] = 1
<1> DEFINE ones == {d \in Line(r, i) : state[d] = 1}
           twos == {d \in Line(r, i) : state[d] = 2}
<1>1. ones \in SUBSET Dpu /\ twos \in SUBSET Dpu
  BY DEF Line
<1>2. IsFiniteSet(ones) /\ IsFiniteSet(twos)
  BY <1>1, Finite
<1>3. Line(r, i) = ones \cup twos /\ ones \cap twos = {}
  OBVIOUS
<1>4. /\ Cardinality(ones) \in Nat /\ Cardinality(twos) \in Nat
      /\ Cardinality(ones \cap twos) = 0
      /\ Cardinality(twos) = 0 => twos = {}
  BY <1>1, <1>2, <1>3, Finite, FS_EmptySet
<1>5. Cardinality(ones \cup twos) = Cardinality(ones) + Cardinality(twos) - 0
  <2> HIDE DEF ones, twos
  <2>1. QED
    BY <1>2, <1>4, FS_Union
<1>6. Cardinality(twos) = 0 => \A d \in Line(r, i) : state[d] = 1
  BY <1>3, <1>4
<1>7. Cardinality(Line(r, i)) = Cardinality(ones) + Cardinality(twos)
  BY <1>3, <1>4, <1>5
<1>8. QED
  BY <1>4, <1>6, <1>7 DEF StateCount

LEMMA PollSum ==
  ASSUME BootSettles, RankInv, NEW r \in Rank, PollLine(r)
  PROVE  SumTells(r)'
<1>1. /\ pc[r] = "poll" /\ k[r] \in Ig /\ k'[r] = k[r] + 1 /\ state' = state
      /\ sum'[r] = sum[r] + StateCount(r, k[r], 1) + 2 * StateCount(r, k[r], 2)
      /\ \A d \in Dpu : RankOf(d) = r => state[d] \in {1, 2}
      /\ sum[r] \in Nat /\ SumTells(r)
  BY Constants DEF PollLine, RankInv, RankType, DpuFollows, deviceVars, RankDpus, Ig
<1> DEFINE old == ReadDpus(r)
           line == Line(r, k[r])
<1>2. old \in SUBSET Dpu /\ line \in SUBSET Dpu /\ ReadDpus(r)' \in SUBSET Dpu
  BY DEF ReadDpus, Line
<1>3. ReadDpus(r)' = old \cup line /\ old \cap line = {}
  BY <1>1, Constants DEF ReadDpus, Line, Ig
<1>4. Cardinality(ReadDpus(r)') = Cardinality(old) + Cardinality(line)
  <2>1. IsFiniteSet(old) /\ IsFiniteSet(line) /\ Cardinality({}) = 0
    BY <1>2, Finite, FS_EmptySet
  <2>2. Cardinality(old) \in Nat /\ Cardinality(line) \in Nat
    BY <1>2, Finite
  <2>3. Cardinality(old \cup line) = Cardinality(old) + Cardinality(line) - 0
    BY <1>3, <2>1, FS_Union
  <2>4. QED
    BY <1>3, <2>2, <2>3
<1>5. /\ StateCount(r, k[r], 1) \in Nat /\ StateCount(r, k[r], 2) \in Nat
      /\ StateCount(r, k[r], 1) + StateCount(r, k[r], 2) = Cardinality(line)
      /\ StateCount(r, k[r], 2) = 0 => \A d \in line : state[d] = 1
  BY <1>1, LineAdds DEF Line
<1>6. /\ sum[r] >= Cardinality(old) /\ Cardinality(old) \in Nat
      /\ sum[r] = Cardinality(old) => \A d \in old : state[d] = 1
  BY <1>1, <1>2, Finite DEF SumTells
<1>7. sum'[r] - Cardinality(ReadDpus(r)')
        = (sum[r] - Cardinality(old)) + StateCount(r, k[r], 2)
  BY <1>1, <1>4, <1>5, <1>6
<1>8. sum'[r] >= Cardinality(ReadDpus(r)')
  BY <1>1, <1>4, <1>5, <1>6
<1>9. sum'[r] = Cardinality(ReadDpus(r)') => \A d \in ReadDpus(r)' : state'[d] = 1
  <2> SUFFICES ASSUME sum'[r] = Cardinality(ReadDpus(r)')
               PROVE  \A d \in ReadDpus(r)' : state'[d] = 1
    OBVIOUS
  <2>1. \A a, b, c \in Nat : a >= b /\ (a - b) + c = 0 => a = b /\ c = 0
    OBVIOUS
  <2>2. (sum[r] - Cardinality(old)) + StateCount(r, k[r], 2) = 0
    BY <1>4, <1>5, <1>6, <1>7
  <2>3. sum[r] = Cardinality(old) /\ StateCount(r, k[r], 2) = 0
    BY <1>1, <1>5, <1>6, <2>1, <2>2
  <2>4. QED
    BY <1>1, <1>3, <1>5, <1>6, <2>3
<1>10. (Cardinality(ReadDpus(r)))' = Cardinality(ReadDpus(r)')
  OBVIOUS
<1>11. QED
  BY <1>8, <1>9, <1>10 DEF SumTells

\* A thread that leaves the loop has read 1 from every DPU of its rank.
LEMMA PollTells ==
  ASSUME RankInv, NEW r \in Rank, PollEnd(r), RankReported(r),
         NEW d \in Dpu, RankOf(d) = r
  PROVE  state[d] = 1
<1>1. pc[r] = "poll" /\ k[r] = NrIgs /\ SumTells(r)
  BY DEF PollEnd, RankInv
<1>2. ReadDpus(r) = RankDpus(r)
  BY <1>1, Constants DEF ReadDpus, RankDpus, Ig
<1>3. sum[r] = Cardinality(ReadDpus(r))
  BY <1>2, RankSize DEF RankReported
<1>4. QED
  BY <1>1, <1>2, <1>3 DEF SumTells, RankDpus

\* Nothing read: nothing to tell.
LEMMA SumStarts ==
  ASSUME NEW r \in Rank, sum'[r] = 0, k'[r] = 0
  PROVE  SumTells(r)'
<1>1. ReadDpus(r)' = {}
  BY Constants DEF ReadDpus, Ig
<1>2. Cardinality(ReadDpus(r)') = 0
  BY <1>1, FS_EmptySet
<1>3. QED
  BY <1>1, <1>2 DEF SumTells

-----------------------------------------------------------------------------
(* The steps.                                                              *)

LEMMA HostFrame ==
  ASSUME RankType, NEW r \in Rank, HostStep(r)
  PROVE  /\ \A q \in Rank \ {r} :
              /\ pc'[q] = pc[q] /\ k'[q] = k[q] /\ sum'[q] = sum[q]
              /\ change'[q] = change[q] /\ finished'[q] = finished[q]
         /\ \A d \in Dpu : RankOf(d) # r =>
              /\ state'[d] = state[d] /\ dpuPc'[d] = dpuPc[d] /\ mux'[d] = mux[d]
<1> USE DEF RankType, deviceVars, Goto
<1>1. CASE SendFirst(r) \/ Launch(r)
  BY <1>1 DEF SendFirst, Launch, OFIS_dpu_launch, OFIS_set_mux_rank, RankDpus
<1>2. CASE PollLine(r) \/ PollEnd(r) \/ Retrieve(r) \/ SendArgs(r) \/ SendMatrix(r)
  BY <1>2 DEF PollLine, PollEnd, Retrieve, SendArgs, SendMatrix
<1>3. CASE MuxHost(r) \/ MuxDpu(r)
  BY <1>3 DEF MuxHost, MuxDpu, OFIS_set_mux_rank, RankDpus
<1>4. CASE Claim(r)
  BY <1>4 DEF Claim
<1>5. CASE SetState(r)
  BY <1>5 DEF SetState, OFIS_set_state_rank, RankDpus
<1>6. QED
  BY <1>1, <1>2, <1>3, <1>4, <1>5 DEF HostStep

LEMMA HostStepType ==
  ASSUME RankInv, NEW r \in Rank, HostStep(r)
  PROVE  RankType'
<1> USE Constants DEF RankInv, RankType, deviceVars, Goto, HostPc, DpuPc
<1>1. CASE SendFirst(r) \/ Launch(r)
  BY <1>1 DEF SendFirst, Launch, OFIS_dpu_launch, OFIS_set_mux_rank
<1>2. CASE PollLine(r)
  <2>1. StateCount(r, k[r], 1) \in Nat /\ StateCount(r, k[r], 2) \in Nat
    <3>1. \A s : {d \in Line(r, k[r]) : state[d] = s} \in SUBSET Dpu
      BY DEF Line
    <3>2. QED
      BY <3>1, Finite DEF StateCount
  <2>2. sum' \in [Rank -> Nat]
    BY <1>2, <2>1 DEF PollLine
  <2>3. QED
    BY <1>2, <2>2 DEF PollLine
<1>3. CASE PollEnd(r) \/ Retrieve(r) \/ SendArgs(r) \/ SendMatrix(r)
  BY <1>3 DEF PollEnd, Retrieve, SendArgs, SendMatrix
<1>4. CASE MuxHost(r) \/ MuxDpu(r)
  BY <1>4 DEF MuxHost, MuxDpu, OFIS_set_mux_rank
<1>5. CASE Claim(r)
  BY <1>5 DEF Claim
<1>6. CASE SetState(r)
  BY <1>6 DEF SetState, OFIS_set_state_rank
<1>7. QED
  BY <1>1, <1>2, <1>3, <1>4, <1>5, <1>6 DEF HostStep

LEMMA HostStepFollows ==
  ASSUME BootSettles, RankInv, NEW r \in Rank, HostStep(r), NEW d \in Dpu
  PROVE  DpuFollows(d)'
<1>1. /\ DpuFollows(d) /\ ThreadCounts(r) /\ RankType /\ RankOf(d) \in Rank
      /\ NrDpusPerRank \in Nat
  BY Constants DEF RankInv
<1>2. CASE RankOf(d) # r
  BY <1>1, <1>2, HostFrame DEF DpuFollows
<1>3. CASE RankOf(d) = r
  <2> USE <1>1, <1>3 DEF RankType, DpuFollows, ThreadCounts, deviceVars, Goto
  <2>1. CASE SendFirst(r)
    BY <2>1 DEF SendFirst, OFIS_set_mux_rank
  <2>2. CASE Launch(r)
    BY <2>2 DEF Launch, OFIS_dpu_launch, OFIS_set_mux_rank, RankDpus
  <2>3. CASE PollLine(r)
    BY <2>3 DEF PollLine, RankDpus
  <2>4. CASE PollEnd(r)
    <3>1. CASE RankReported(r)
      <4>1. state[d] = 1
        BY <2>4, <3>1, PollTells
      <4>2. QED
        BY <2>4, <4>1 DEF PollEnd
    <3>2. CASE ~RankReported(r)
      BY <2>4, <3>2 DEF PollEnd
    <3>3. QED
      BY <3>1, <3>2
  <2>5. CASE MuxHost(r) \/ MuxDpu(r)
    BY <2>5 DEF MuxHost, MuxDpu, OFIS_set_mux_rank, RankDpus
  <2>6. CASE Retrieve(r) \/ SendArgs(r) \/ SendMatrix(r)
    BY <2>6 DEF Retrieve, SendArgs, SendMatrix
  <2>7. CASE Claim(r)
    BY <2>7 DEF Claim
  <2>8. CASE SetState(r)
    <3>1. d \in RankDpus(r) /\ k'[r] = 0 /\ state'[d] = change[r]
      BY <2>8 DEF SetState, OFIS_set_state_rank, RankDpus
    <3>2. pc'[r] = "poll" => change[r] = 2
      BY <2>8 DEF SetState
    <3>3. pc'[r] \in {"poll", "done"}
      BY <2>8 DEF SetState
    <3>4. dpuPc'[d] = "spin" /\ mux'[d] = "dpu"
      BY <2>8 DEF SetState
    <3>5. QED
      BY <3>1, <3>2, <3>3, <3>4
  <2>9. QED
    BY <2>1, <2>2, <2>3, <2>4, <2>5, <2>6, <2>7, <2>8 DEF HostStep
<1>4. QED
  BY <1>2, <1>3

LEMMA ReadFrame ==
  ASSUME NEW q \in Rank, UNCHANGED <<pc[q], k[q], sum[q]>>, SumTells(q),
         \A d \in Dpu : RankOf(d) = q /\ state[d] = 1 => state'[d] = 1
  PROVE  SumTells(q)'
<1>1. ReadDpus(q)' = ReadDpus(q)
  BY DEF ReadDpus
<1>2. QED
  BY <1>1 DEF SumTells, ReadDpus

LEMMA HostStepCounts ==
  ASSUME BootSettles, RankInv, NEW r \in Rank, HostStep(r), NEW q \in Rank
  PROVE  ThreadCounts(q)' /\ SumTells(q)'
<1>1. /\ ThreadCounts(q) /\ SumTells(q) /\ RankType /\ NrDpusPerRank \in Nat
  BY Constants DEF RankInv
<1>2. CASE q # r
  <2>1. ThreadCounts(q)'
    BY <1>1, <1>2, HostFrame DEF ThreadCounts
  <2>2. QED
    BY <1>1, <1>2, <2>1, HostFrame, ReadFrame
<1>3. CASE q = r
  <2> USE <1>1, <1>3 DEF RankType, ThreadCounts, deviceVars, Goto
  <2>1. CASE PollLine(r)
    BY <2>1, PollSum DEF PollLine
  <2>2. CASE PollEnd(r)
    <3>1. sum'[r] = 0 /\ k'[r] = 0
      BY <2>2 DEF PollEnd
    <3>2. SumTells(r)'
      BY <3>1, SumStarts
    <3>3. QED
      BY <2>2, <3>2 DEF PollEnd
  <2>3. CASE ~PollLine(r) /\ ~PollEnd(r)
    <3>1. pc[r] # "poll" /\ sum' = sum /\ k' = k
      BY <2>3 DEF HostStep, SendFirst, Launch, MuxHost, Retrieve, Claim, SendArgs,
         SendMatrix, MuxDpu, SetState
    <3>2. SumTells(r)'
      BY <3>1, SumStarts
    <3>3. CASE SendFirst(r) \/ Launch(r) \/ MuxHost(r) \/ Retrieve(r) \/ MuxDpu(r)
      BY <3>1, <3>2, <3>3 DEF SendFirst, Launch, MuxHost, Retrieve, MuxDpu
    <3>4. CASE Claim(r)
      BY <3>1, <3>2, <3>4 DEF Claim
    <3>5. CASE SendArgs(r) \/ SendMatrix(r)
      BY <3>1, <3>2, <3>5 DEF SendArgs, SendMatrix
    <3>6. CASE SetState(r)
      BY <3>1, <3>2, <3>6 DEF SetState
    <3>7. QED
      BY <2>3, <3>3, <3>4, <3>5, <3>6 DEF HostStep
  <2>4. QED
    BY <2>1, <2>2, <2>3
<1>4. QED
  BY <1>2, <1>3

LEMMA DpuStepRank ==
  ASSUME RankInv, NEW e \in Dpu, DpuRuns(e)
  PROVE  RankInv'
<1>1. DpuFollows(e) /\ RankType /\ UNCHANGED <<hostVars, mux>>
  BY DEF RankInv, DpuRuns, DpuStep, DpuBoot, DpuEnter, DpuExit, DpuCompute, DpuFinish
<1>2. /\ \A d \in Dpu \ {e} : state'[d] = state[d] /\ dpuPc'[d] = dpuPc[d]
      /\ dpuPc[e] \notin {"off", "halted"} /\ state[e] # 1
      /\ dpuPc'[e] \notin {"off", "boot"}
      /\ state'[e] = 1 => dpuPc'[e] = "spin"
      /\ dpuPc[e] = "boot" => state'[e] = 2
      /\ state[e] = 2 => state'[e] \in {1, 2}
  BY <1>1 DEF DpuRuns, DpuStep, DpuBoot, DpuEnter, DpuExit, DpuCompute, DpuFinish,
              DpuFollows, RankType
<1>3. RankType'
  BY <1>1 DEF DpuRuns, DpuStep, DpuBoot, DpuEnter, DpuExit, DpuCompute, DpuFinish,
              RankType, DpuPc, hostVars
<1>4. ASSUME NEW d \in Dpu PROVE DpuFollows(d)'
  BY <1>1, <1>2, <1>3 DEF RankInv, RankType, DpuFollows, hostVars
<1>5. ASSUME NEW q \in Rank PROVE ThreadCounts(q)' /\ SumTells(q)'
  <2>1. ThreadCounts(q)'
    BY <1>1 DEF RankInv, ThreadCounts, hostVars
  <2>2. SumTells(q)'
    BY <1>1, <1>2, ReadFrame DEF RankInv, hostVars
  <2>3. QED
    BY <2>1, <2>2
<1>6. QED
  BY <1>3, <1>4, <1>5 DEF RankInv

LEMMA RankInvHolds ==
  ASSUME BootSettles
  PROVE  Spec => []RankInv
<1>1. RankInv /\ [Next]_vars => RankInv'
  <2> SUFFICES ASSUME RankInv, [Next]_vars PROVE RankInv'
    OBVIOUS
  <2>1. ASSUME NEW r \in Rank, HostStep(r) PROVE RankInv'
    BY <2>1, HostStepType, HostStepFollows, HostStepCounts DEF RankInv
  <2>2. CASE UNCHANGED vars
    <3>1. \A q \in Rank : SumTells(q)'
      BY <2>2, ReadFrame DEF vars, deviceVars, hostVars, RankInv
    <3>2. \A q \in Rank : ThreadCounts(q)'
      BY <2>2 DEF vars, hostVars, RankInv, ThreadCounts
    <3>3. RankType' /\ \A d \in Dpu : DpuFollows(d)'
      BY <2>2 DEF vars, deviceVars, hostVars, RankInv, RankType, DpuFollows
    <3>4. QED
      BY <3>1, <3>2, <3>3 DEF RankInv
  <2>3. QED
    BY <2>1, <2>2, DpuStepRank DEF Next, Terminated
<1>2. QED
  BY <1>1, InitRank, PTL DEF Spec

\* Once every DPU has executed the first statement of main before the first poll,
\* a sum that equals the number of DPUs means that every DPU of the rank says 1
\* (dpu_memory.c 1222), for any topology.
THEOREM RankReportSound ==
  ASSUME BootSettles
  PROVE  Spec => []FinishedRankSound
<1>1. RankInv => FinishedRankSound
  BY DEF RankInv, DpuFollows, FinishedRankSound, RankDpus
<1>2. QED
  BY <1>1, RankInvHolds, PTL

\* Neither does the rank host ever move the bank of a computing DPU.
THEOREM RankMuxSafe ==
  ASSUME BootSettles
  PROVE  Spec => []MuxExclusive
<1>1. RankInv => MuxExclusive
  BY DEF RankInv, RankType, DpuFollows, MuxExclusive
<1>2. QED
  BY <1>1, RankInvHolds, PTL

-----------------------------------------------------------------------------
(* The numbers: no index leaves the partitions, whole ranks at a time.     *)

\* The thread has met the end of the partitions.
Ended(r) == pc[r] = "done" \/ (pc[r] \in {"muxdpu", "state"} /\ change[r] = 0)

Numbers(r) ==
  /\ pc[r] \notin {"muxdpu", "state", "done"} => finished[r] = 0
  /\ pc[r] \in {"args", "matrix"} =>
       change[r] = 2 /\ curr[r] + NrDpusPerRank <= p_count
  /\ pc[r] \in {"muxdpu", "state"} =>
       \/ finished[r] = 0 /\ change[r] = 2
       \/ finished[r] = NrDpusPerRank /\ change[r] = 0
  /\ pc[r] # "poll" => k[r] = 0 /\ sum[r] = 0
  /\ sum[r] <= 2 * Cardinality(ReadDpus(r))
  /\ Ended(r) => p_count = NrPart

NumberInv == TypeOK /\ Aligned(p_count) /\ \A r \in Rank : Numbers(r)

LEMMA InitNumber == Init => NumberInv
<1> SUFFICES ASSUME Init PROVE NumberInv
  OBVIOUS
<1>1. NrPart \in Nat \ {0} /\ NrDpus \in 0 .. NrPart /\ NrDpusPerRank \in Nat
  BY Constants, TopologyAssumption, WholeRanks
<1>2. TypeOK
  <2>1. DeviceTypeOK
    BY DEF Init, DeviceInit, DeviceTypeOK, DpuPc, PartOrNone
  <2>2. \A n \in {0} : n \in 0 .. NrIgs /\ n \in 0 .. 2 * NrDpusPerRank /\ n \in Parts
    BY <1>1, Constants DEF Parts
  <2>3. QED
    BY <1>1, <2>1, <2>2 DEF Init, TypeOK, HostPc, PartOrNone
<1>3. Aligned(p_count)
  BY Constants DEF Init, NrDpus, Aligned
<1>4. ASSUME NEW r \in Rank PROVE Numbers(r)
  <2>1. 0 <= 2 * Cardinality(ReadDpus(r))
    BY Finite DEF ReadDpus
  <2>2. QED
    BY <2>1 DEF Init, Numbers, Ended
<1>5. QED
  BY <1>2, <1>3, <1>4 DEF NumberInv

\* What one more line of a poll adds.
LEMMA LineReads ==
  ASSUME NEW r \in Rank, k[r] \in Ig, k'[r] = k[r] + 1
  PROVE  /\ Cardinality(ReadDpus(r)) \in Nat
         /\ StateCount(r, k[r], 1) \in Nat /\ StateCount(r, k[r], 2) \in Nat
         /\ Cardinality(ReadDpus(r)) + StateCount(r, k[r], 1) + StateCount(r, k[r], 2)
              <= Cardinality(ReadDpus(r)')
<1> DEFINE old == ReadDpus(r)
           ones == {d \in Line(r, k[r]) : state[d] = 1}
           twos == {d \in Line(r, k[r]) : state[d] = 2}
<1>1. /\ old \in SUBSET Dpu /\ ones \in SUBSET Dpu /\ twos \in SUBSET Dpu
      /\ ReadDpus(r)' \in SUBSET Dpu
  BY DEF ReadDpus, Line
<1>2. /\ old \cap (ones \cup twos) = {} /\ ones \cap twos = {}
      /\ old \cup (ones \cup twos) \subseteq ReadDpus(r)'
  BY Constants DEF ReadDpus, Line, Ig
<1>3. Cardinality(ones \cup twos) = Cardinality(ones) + Cardinality(twos)
  <2> HIDE DEF ones, twos
  <2>1. Cardinality(ones \cap twos) = 0
    BY <1>2, FS_EmptySet
  <2>2. IsFiniteSet(ones) /\ IsFiniteSet(twos)
        /\ Cardinality(ones) \in Nat /\ Cardinality(twos) \in Nat
    BY <1>1, Finite
  <2>3. Cardinality(ones \cup twos) = Cardinality(ones) + Cardinality(twos) - 0
    BY <2>1, <2>2, FS_Union
  <2>4. QED
    BY <2>2, <2>3
<1>4. Cardinality(old \cup (ones \cup twos)) = Cardinality(old) + Cardinality(ones \cup twos)
  <2> HIDE DEF ones, twos, old
  <2>1. Cardinality(old \cap (ones \cup twos)) = 0
    BY <1>2, FS_EmptySet
  <2>2. IsFiniteSet(old) /\ IsFiniteSet(ones \cup twos)
        /\ Cardinality(old) \in Nat /\ Cardinality(ones \cup twos) \in Nat
    <3>1. ones \cup twos \in SUBSET Dpu
      BY <1>1
    <3>2. QED
      BY <1>1, <3>1, Finite
  <2>3. Cardinality(old \cup (ones \cup twos))
          = Cardinality(old) + Cardinality(ones \cup twos) - 0
    BY <2>1, <2>2, FS_Union
  <2>4. QED
    BY <2>2, <2>3
<1>5. Cardinality(old \cup (ones \cup twos)) <= Cardinality(ReadDpus(r)')
  BY <1>1, <1>2, Finite, FS_Subset
<1>6. /\ Cardinality(old) \in Nat /\ Cardinality(ones) \in Nat /\ Cardinality(twos) \in Nat
      /\ Cardinality(ReadDpus(r)') \in Nat
  BY <1>1, Finite
<1>7. QED
  BY <1>3, <1>4, <1>5, <1>6 DEF StateCount

LEMMA ReadBound ==
  ASSUME NEW r \in Rank
  PROVE  Cardinality(ReadDpus(r)) \in 0 .. NrDpusPerRank
<1>1. ReadDpus(r) \subseteq RankDpus(r)
  BY DEF ReadDpus, RankDpus
<1>2. Cardinality(ReadDpus(r)) <= Cardinality(RankDpus(r))
  BY <1>1, RankSize, FS_Subset
<1>3. Cardinality(ReadDpus(r)) \in Nat
  BY Finite DEF ReadDpus
<1>4. QED
  BY <1>2, <1>3, RankSize, Constants

LEMMA BlockParts ==
  ASSUME NEW r \in Rank, NEW d \in RankDpus(r)
  PROVE  /\ NrDpusPerRank * r + Pos(d) \in Parts
         /\ \A c \in Nat : c + NrDpusPerRank <= NrPart => c + Pos(d) \in Parts
<1>1. Pos(d) \in 0 .. NrDpusPerRank - 1 /\ r \in Nat /\ r < NrRanks
  BY PosRange, Constants DEF Rank
<1>2. r * NrDpusPerRank + Pos(d) \in 0 .. NrDpus - 1
  BY <1>1, Flattened, Constants DEF NrDpus
<1>3. NrDpusPerRank * r = r * NrDpusPerRank
  BY <1>1, Constants
<1>4. QED
  BY <1>1, <1>2, <1>3, Constants, WholeRanks DEF Parts

LEMMA ComputedType ==
  ASSUME DeviceTypeOK, NEW d \in Dpu
  PROVE  Computed(d) \in PartOrNone
BY DEF DeviceTypeOK, Computed, PartOrNone

LEMMA HostStepTypes ==
  ASSUME NumberInv, NEW r \in Rank, HostStep(r)
  PROVE  TypeOK'
<1> USE DEF NumberInv, TypeOK, DeviceTypeOK, deviceVars, Goto, HostPc, DpuPc
<1>1. NrPart \in Nat /\ NrDpusPerRank \in Nat /\ Parts \subseteq Nat /\ p_count \in Nat
      /\ Nat \subseteq PartOrNone /\ None \in PartOrNone /\ Junk \in PartOrNone
  BY Constants DEF Parts, PartOrNone
<1>2. \A d \in RankDpus(r) :
        /\ NrDpusPerRank * r + Pos(d) \in Parts
        /\ \A c \in Nat : c + NrDpusPerRank <= NrPart => c + Pos(d) \in Parts
  BY BlockParts
<1>3. CASE SendFirst(r)
  <2> HIDE DEF DeviceTypeOK
  <2>1. args' \in [Dpu -> PartOrNone] /\ data' \in [Dpu -> PartOrNone]
        /\ part' \in [Dpu -> Parts \cup {None}]
    BY <1>1, <1>2, <1>3 DEF SendFirst, DeviceTypeOK
  <2>2. mux' \in [Dpu -> {"host", "dpu"}]
    BY <1>3 DEF SendFirst, OFIS_set_mux_rank, DeviceTypeOK
  <2>3. DeviceTypeOK'
    BY <1>3, <2>1, <2>2 DEF SendFirst, DeviceTypeOK
  <2>4. QED
    BY <1>3, <2>1, <2>3 DEF SendFirst
<1>4. CASE Launch(r)
  BY <1>4 DEF Launch, OFIS_dpu_launch, OFIS_set_mux_rank
<1>5. CASE PollLine(r)
  <2>1. k[r] \in Ig /\ k'[r] = k[r] + 1 /\ k'[r] \in 0 .. NrIgs
    BY <1>5, Constants DEF PollLine, Ig
  <2>2. sum'[r] \in 0 .. 2 * NrDpusPerRank
    <3>1. Cardinality(ReadDpus(r)') \in 0 .. NrDpusPerRank
      <4>1. ReadDpus(r)' \subseteq RankDpus(r)
        BY DEF ReadDpus, RankDpus
      <4>2. Cardinality(ReadDpus(r)') <= Cardinality(RankDpus(r))
        BY <4>1, RankSize, FS_Subset
      <4>3. Cardinality(ReadDpus(r)') \in Nat
        <5>1. ReadDpus(r)' \in SUBSET Dpu
          BY DEF ReadDpus
        <5>2. QED
          BY <5>1, Finite
      <4>4. QED
        BY <4>2, <4>3, RankSize, Constants
    <3>2. sum'[r] = sum[r] + StateCount(r, k[r], 1) + 2 * StateCount(r, k[r], 2)
          /\ sum[r] \in Nat
      BY <1>5 DEF PollLine
    <3>3. sum[r] <= 2 * Cardinality(ReadDpus(r))
      BY DEF Numbers
    <3>4. QED
      BY <2>1, <3>1, <3>2, <3>3, LineReads, Constants
  <2>3. QED
    BY <1>5, <2>1, <2>2 DEF PollLine
<1>6. CASE PollEnd(r)
  BY <1>1, <1>6, Constants DEF PollEnd
<1>7. CASE MuxHost(r) \/ MuxDpu(r)
  BY <1>7 DEF MuxHost, MuxDpu, OFIS_set_mux_rank
<1>8. CASE Retrieve(r)
  <2>1. \A d \in Dpu : MramPull(d) \in PartOrNone
    BY <1>1 DEF MramPull
  <2>2. \A p \in Parts : (\E d \in RankDpus(r) : part[d] = p) =>
          MramPull(CHOOSE d \in RankDpus(r) : part[d] = p) \in PartOrNone
    BY <2>1 DEF RankDpus
  <2>3. outvec' \in [Parts -> PartOrNone]
    BY <1>8, <2>2 DEF Retrieve
  <2>4. QED
    BY <1>8, <2>3 DEF Retrieve
<1>9. CASE Claim(r)
  <2>1. finished[r] = 0
    BY <1>9 DEF Claim, Numbers
  <2>2. CASE p_count >= NrPart
    BY <1>1, <1>9, <2>1, <2>2 DEF Claim
  <2>3. CASE p_count < NrPart
    <3>1. p_count + NrDpusPerRank <= NrPart
      BY <1>1, <2>3, NextBlock, WholeRanks
    <3>2. p_count \in Parts /\ p_count + NrDpusPerRank \in 0 .. NrPart
      BY <1>1, <2>3, <3>1 DEF Parts
    <3>3. QED
      BY <1>1, <1>9, <2>3, <3>2 DEF Claim
  <2>4. QED
    BY <1>1, <2>2, <2>3
<1>10. CASE SendArgs(r)
  <2>1. curr[r] \in Nat /\ curr[r] + NrDpusPerRank <= NrPart
    <3>1. pc[r] = "args" /\ curr[r] \in Parts /\ p_count \in 0 .. NrPart
      BY <1>10 DEF SendArgs
    <3>2. curr[r] + NrDpusPerRank <= p_count
      BY <3>1 DEF Numbers
    <3>3. QED
      <4> HIDE DEF NumberInv, TypeOK, DeviceTypeOK, deviceVars, Goto, HostPc, DpuPc
      <4>1. curr[r] \in Nat
        BY <1>1, <3>1
      <4>2. QED
        BY <1>1, <3>1, <3>2, <4>1
  <2>2. args' \in [Dpu -> PartOrNone] /\ part' \in [Dpu -> Parts \cup {None}]
    BY <1>1, <1>2, <1>10, <2>1 DEF SendArgs
  <2>3. QED
    BY <1>10, <2>2 DEF SendArgs
<1>11. CASE SendMatrix(r)
  <2>1. \A d \in RankDpus(r) : MramPushed(d, curr[r] + Pos(d)) \in PartOrNone
    <3>1. curr[r] \in Nat
      BY <1>1
    <3>2. \A d \in RankDpus(r) : Pos(d) \in Nat
      BY PosRange, Constants DEF RankDpus
    <3>3. \A d \in RankDpus(r) : curr[r] + Pos(d) \in Nat
      <4> HIDE DEF NumberInv, TypeOK, DeviceTypeOK, deviceVars, Goto, HostPc, DpuPc
      <4>1. QED
        BY <3>1, <3>2
    <3>4. QED
      BY <1>1, <3>3 DEF MramPushed
  <2>2. data' \in [Dpu -> PartOrNone]
    BY <1>11, <2>1 DEF SendMatrix
  <2>3. QED
    BY <1>11, <2>2 DEF SendMatrix
<1>12. CASE SetState(r)
  BY <1>12 DEF SetState, OFIS_set_state_rank
<1>13. QED
  BY <1>3, <1>4, <1>5, <1>6, <1>7, <1>8, <1>9, <1>10, <1>11, <1>12 DEF HostStep

LEMMA TypesGiveRankType ==
  ASSUME TypeOK PROVE RankType
<1>1. {0, NrDpusPerRank} \subseteq Nat /\ 0 .. 2 * NrDpusPerRank \subseteq Nat
  BY Constants
<1>2. QED
  BY <1>1 DEF TypeOK, DeviceTypeOK, RankType

\* The counter of partitions only moves by whole ranks, never past the end.
LEMMA CounterMoves ==
  ASSUME NumberInv, NEW r \in Rank, HostStep(r)
  PROVE  /\ Aligned(p_count')
         /\ p_count \in Nat /\ p_count' \in Nat /\ p_count <= p_count'
         /\ p_count = NrPart => p_count' = p_count
         /\ \A q \in Rank \ {r} : curr'[q] = curr[q]
<1>1. p_count \in 0 .. NrPart /\ Aligned(p_count) /\ curr \in [Rank -> Parts]
  BY DEF NumberInv, TypeOK
<1>2. NrPart \in Nat /\ NrDpusPerRank \in Nat
  BY Constants
<1>3. CASE Claim(r)
  <2>1. CASE p_count >= NrPart
    BY <1>1, <1>2, <1>3, <2>1 DEF Claim
  <2>2. CASE p_count < NrPart
    <3>1. p_count' = p_count + NrDpusPerRank /\ \A q \in Rank \ {r} : curr'[q] = curr[q]
      BY <1>1, <1>2, <1>3, <2>2 DEF Claim
    <3>2. Aligned(p_count')
      BY <1>1, <1>2, <2>2, <3>1, NextBlock, WholeRanks
    <3>3. QED
      BY <1>1, <1>2, <2>2, <3>1, <3>2
  <2>3. QED
    BY <1>1, <1>2, <2>1, <2>2
<1>4. CASE ~Claim(r)
  <2>1. p_count' = p_count /\ curr' = curr
    BY <1>4 DEF HostStep, SendFirst, Launch, PollLine, PollEnd, MuxHost, Retrieve,
       SendArgs, SendMatrix, MuxDpu, SetState
  <2>2. QED
    BY <1>1, <1>2, <2>1
<1>5. QED
  BY <1>3, <1>4

\* Nothing read: the sum is within any bound.
LEMMA NothingRead ==
  ASSUME NEW r \in Rank, k'[r] = 0
  PROVE  Cardinality(ReadDpus(r)') = 0
<1>1. ReadDpus(r)' = {}
  BY Constants DEF ReadDpus, Ig
<1>2. QED
  BY <1>1, FS_EmptySet

LEMMA HostStepNumbers ==
  ASSUME NumberInv, NEW r \in Rank, HostStep(r), NEW q \in Rank
  PROVE  Numbers(q)'
<1>1. /\ RankType /\ Numbers(q) /\ NrDpusPerRank \in Nat /\ NrPart \in Nat
      /\ p_count \in 0 .. NrPart /\ curr \in [Rank -> Parts] /\ Parts \subseteq Nat
      /\ finished[q] \in {0, NrDpusPerRank}
  BY TypesGiveRankType, Constants DEF NumberInv, TypeOK, Parts
<1>2. /\ p_count \in Nat /\ p_count' \in Nat /\ p_count <= p_count'
      /\ p_count = NrPart => p_count' = p_count
  BY CounterMoves
<1>3. CASE q # r
  <2>1. /\ pc'[q] = pc[q] /\ k'[q] = k[q] /\ sum'[q] = sum[q]
        /\ change'[q] = change[q] /\ finished'[q] = finished[q]
        /\ curr'[q] = curr[q]
    BY <1>1, <1>3, HostFrame, CounterMoves
  <2>2. ReadDpus(q)' = ReadDpus(q)
    BY <2>1 DEF ReadDpus
  <2>3. curr[q] \in Nat
    BY <1>1
  <2>4. Ended(q)' = Ended(q)
    BY <2>1 DEF Ended
  <2>5. curr[q] + NrDpusPerRank <= p_count => curr[q] + NrDpusPerRank <= p_count'
    BY <1>1, <1>2, <2>3
  <2>6. QED
    BY <1>1, <1>2, <2>1, <2>2, <2>4, <2>5 DEF Numbers
<1>4. CASE q = r
  <2> USE <1>1, <1>2, <1>4 DEF RankType, Numbers, Ended, deviceVars, Goto
  <2>1. CASE PollLine(r)
    <3>1. k[r] \in Ig /\ k'[r] = k[r] + 1
      BY <2>1, Constants DEF PollLine, Ig
    <3>2. sum'[r] = sum[r] + StateCount(r, k[r], 1) + 2 * StateCount(r, k[r], 2)
          /\ sum[r] \in Nat
      BY <2>1 DEF PollLine
    <3>3. sum'[r] <= 2 * Cardinality(ReadDpus(r)')
      <4>1. Cardinality(ReadDpus(r)') \in Nat
        <5>1. ReadDpus(r)' \in SUBSET Dpu
          BY DEF ReadDpus
        <5>2. QED
          BY <5>1, Finite
      <4>2. QED
        BY <3>1, <3>2, <4>1, LineReads
    <3>4. QED
      BY <2>1, <3>3 DEF PollLine
  <2>2. CASE ~PollLine(r)
    <3>1. k'[r] = 0 /\ sum'[r] = 0
      BY <2>2 DEF HostStep, SendFirst, Launch, PollEnd, MuxHost, Retrieve, Claim,
         SendArgs, SendMatrix, MuxDpu, SetState
    <3>2. sum'[r] <= 2 * Cardinality(ReadDpus(r)')
      BY <3>1, NothingRead
    <3>3. CASE SendFirst(r) \/ Launch(r) \/ PollEnd(r) \/ MuxHost(r) \/ Retrieve(r)
      BY <3>1, <3>2, <3>3 DEF SendFirst, Launch, PollEnd, MuxHost, Retrieve
    <3>4. CASE Claim(r)
      <4>1. CASE p_count >= NrPart
        BY <3>1, <3>2, <3>4, <4>1 DEF Claim
      <4>2. CASE p_count < NrPart
        BY <3>1, <3>2, <3>4, <4>2 DEF Claim
      <4>3. QED
        BY <4>1, <4>2
    <3>5. CASE SendArgs(r) \/ SendMatrix(r) \/ MuxDpu(r)
      BY <3>1, <3>2, <3>5 DEF SendArgs, SendMatrix, MuxDpu
    <3>6. CASE SetState(r)
      <4>1. NrDpusPerRank > 0
        BY RankNotEmpty
      <4>2. pc[r] = "state" /\ UNCHANGED <<finished, change, curr, p_count>>
        BY <3>6 DEF SetState
      <4>3. CASE finished[r] = 0 /\ change[r] = 2
        BY <3>1, <3>2, <3>6, <4>1, <4>2, <4>3 DEF SetState
      <4>4. CASE finished[r] = NrDpusPerRank /\ change[r] = 0
        BY <3>1, <3>2, <3>6, <4>1, <4>2, <4>4 DEF SetState
      <4>5. QED
        BY <4>2, <4>3, <4>4
    <3>7. QED
      BY <2>2, <3>3, <3>4, <3>5, <3>6 DEF HostStep
  <2>3. QED
    BY <2>1, <2>2
<1>5. QED
  BY <1>3, <1>4

LEMMA NumberInvHolds == Spec => []NumberInv
<1>1. NumberInv /\ [Next]_vars => NumberInv'
  <2> SUFFICES ASSUME NumberInv, [Next]_vars PROVE NumberInv'
    OBVIOUS
  <2>1. ASSUME NEW r \in Rank, HostStep(r) PROVE NumberInv'
    BY <2>1, HostStepTypes, HostStepNumbers, CounterMoves DEF NumberInv, Aligned
  <2>2. ASSUME NEW d \in Dpu, DpuRuns(d) PROVE NumberInv'
    <3>1. UNCHANGED hostVars /\ DeviceTypeOK
      BY <2>2 DEF DpuRuns, NumberInv, TypeOK
    <3>2. DeviceTypeOK'
      BY <2>2, <3>1, ComputedType DEF DpuRuns, DpuStep, DpuBoot, DpuEnter, DpuExit,
         DpuCompute, DpuFinish, DeviceTypeOK, DpuPc
    <3>3. TypeOK' /\ Aligned(p_count)'
      BY <3>1, <3>2 DEF hostVars, NumberInv, TypeOK, Aligned
    <3>4. ASSUME NEW q \in Rank PROVE Numbers(q)'
      <4>1. ReadDpus(q)' = ReadDpus(q)
        BY <3>1 DEF ReadDpus, hostVars
      <4>2. QED
        BY <3>1, <4>1 DEF NumberInv, Numbers, Ended, hostVars
    <3>5. QED
      BY <3>3, <3>4 DEF NumberInv
  <2>3. CASE UNCHANGED vars
    <3>1. TypeOK' /\ Aligned(p_count)'
      BY <2>3 DEF vars, hostVars, deviceVars, NumberInv, TypeOK, DeviceTypeOK, Aligned
    <3>2. ASSUME NEW q \in Rank PROVE Numbers(q)'
      <4>1. ReadDpus(q)' = ReadDpus(q)
        BY <2>3 DEF ReadDpus, vars, hostVars
      <4>2. QED
        BY <2>3, <4>1 DEF NumberInv, Numbers, Ended, vars, hostVars
    <3>3. QED
      BY <3>1, <3>2 DEF NumberInv
  <2>4. QED
    BY <2>1, <2>2, <2>3 DEF Next, Terminated
<1>2. QED
  BY <1>1, InitNumber, PTL DEF Spec

\* No partition number, argument block or poll sum leaves its range, whether or not
\* the DPUs have booted when the thread first polls: whole ranks divide the
\* partitions, so the unguarded index of CSR_host_OFIS_rank.c stays inside.
THEOREM RankTypeCorrect == Spec => []TypeOK
<1>1. NumberInv => TypeOK
  BY DEF NumberInv
<1>2. QED
  BY <1>1, NumberInvHolds, PTL

-----------------------------------------------------------------------------
(* The results: every partition is with a thread, with a DPU or collected. *)

\* What a thread has handed its rank says where the rank's result is.
DataFollows(d) ==
  LET r == RankOf(d)
  IN /\ pc[r] = "send" => part[d] = None
     /\ pc[r] # "send" => part[d] \in Parts /\ args[d] = part[d]
     /\ pc[r] = "matrix" => part[d] = curr[r] + Pos(d)
     /\ pc[r] \notin {"send", "matrix"} => data[d] = part[d]
     /\ pc[r] \in {"retrieve", "claim", "args", "matrix"} => mux[d] = "host"
     /\ dpuPc[d] = "end" => output[d] = part[d]
     /\ state[d] = 1 /\ pc[r] \in {"poll", "muxhost", "retrieve"} => output[d] = part[d]
     /\ pc[r] = "done" => state[d] = 0 /\ dpuPc[d] \in {"spin", "halted"}
     /\ pc[r] \in {"claim", "args"} \/ Ended(r) => outvec[part[d]] = part[d]

\* The partitions a thread has reserved and not yet given to its DPUs.
Owed(r) ==
  IF pc[r] = "send"
  THEN NrDpusPerRank * r .. NrDpusPerRank * r + NrDpusPerRank - 1
  ELSE IF pc[r] = "args" THEN curr[r] .. curr[r] + NrDpusPerRank - 1 ELSE {}

Accounted(p) ==
  \/ outvec[p] = p
  \/ \E r \in Rank : p \in Owed(r)
  \/ \E d \in Dpu : part[d] = p

NothingLost == \A p \in Parts : p < p_count => Accounted(p)

JoinInv ==
  /\ RankInv
  /\ NumberInv
  /\ \A d \in Dpu : DataFollows(d)
  /\ NothingLost

LEMMA InitJoin == Init => JoinInv
<1> SUFFICES ASSUME Init PROVE JoinInv
  OBVIOUS
<1>1. ASSUME NEW d \in Dpu PROVE DataFollows(d)
  BY Constants DEF Init, DeviceInit, DataFollows, Ended
<1>2. NothingLost
  <2> SUFFICES ASSUME NEW p \in Parts, p < p_count PROVE Accounted(p)
    BY DEF NothingLost
  <2>1. p \in 0 .. NrDpus - 1
    BY Constants DEF Init, Parts
  <2>2. PICK r \in Rank :
          p \in NrDpusPerRank * r .. NrDpusPerRank * r + NrDpusPerRank - 1
    BY <2>1, FirstOwner
  <2>3. pc[r] = "send"
    BY DEF Init
  <2>4. QED
    BY <2>2, <2>3 DEF Owed, Accounted
<1>3. QED
  BY <1>1, <1>2, InitRank, InitNumber DEF JoinInv

\* A thread writes the output only with the results of its rank.
LEMMA OutvecGrows ==
  ASSUME JoinInv, NEW r \in Rank, HostStep(r)
  PROVE  /\ \A p \in Parts : outvec[p] = p => outvec'[p] = p
         /\ Retrieve(r) => \A d \in RankDpus(r) : outvec'[part[d]] = part[d]
<1>1. CASE Retrieve(r)
  <2>1. \A d \in RankDpus(r) : MramPull(d) = part[d] /\ part[d] \in Parts
    <3> SUFFICES ASSUME NEW d \in RankDpus(r)
                 PROVE  MramPull(d) = part[d] /\ part[d] \in Parts
      OBVIOUS
    <3>1. DpuFollows(d) /\ DataFollows(d) /\ RankOf(d) = r
      BY DEF JoinInv, RankInv, RankDpus
    <3>2. pc[r] = "retrieve"
      BY <1>1 DEF Retrieve, Goto
    <3>3. QED
      BY <3>1, <3>2 DEF DpuFollows, DataFollows, MramPull
  <2>2. \A p \in Parts : (\E d \in RankDpus(r) : part[d] = p) => outvec'[p] = p
    <3> SUFFICES ASSUME NEW p \in Parts, NEW d \in RankDpus(r), part[d] = p
                 PROVE  outvec'[p] = p
      OBVIOUS
    <3> DEFINE e == CHOOSE x \in RankDpus(r) : part[x] = p
    <3>1. e \in RankDpus(r) /\ part[e] = p
      OBVIOUS
    <3>2. MramPull(e) = p
      BY <2>1, <3>1
    <3>3. outvec'[p] = MramPull(e)
      BY <1>1 DEF Retrieve
    <3>4. QED
      BY <3>2, <3>3
  <2>3. \A p \in Parts : ~(\E d \in RankDpus(r) : part[d] = p) => outvec'[p] = outvec[p]
    BY <1>1 DEF Retrieve
  <2>4. QED
    BY <2>1, <2>2, <2>3
<1>2. CASE ~Retrieve(r)
  BY <1>2 DEF HostStep, SendFirst, Launch, PollLine, PollEnd, MuxHost, Claim,
     SendArgs, SendMatrix, MuxDpu, SetState
<1>3. QED
  BY <1>1, <1>2

\* The host's steps leave the other ranks' data alone.
LEMMA DataFrame ==
  ASSUME JoinInv, NEW r \in Rank, HostStep(r), NEW d \in Dpu, RankOf(d) # r
  PROVE  UNCHANGED <<args[d], data[d], output[d], part[d], curr[RankOf(d)]>>
<1>1. RankOf(d) \in Rank /\ d \notin RankDpus(r)
  BY Constants DEF RankDpus
<1>2. CASE SendFirst(r) \/ SendArgs(r) \/ SendMatrix(r)
  BY <1>1, <1>2 DEF SendFirst, SendArgs, SendMatrix
<1>3. CASE Claim(r)
  BY <1>1, <1>3, CounterMoves DEF Claim, deviceVars, JoinInv
<1>4. CASE ~SendFirst(r) /\ ~SendArgs(r) /\ ~SendMatrix(r) /\ ~Claim(r)
  BY <1>1, <1>4 DEF HostStep, Launch, PollLine, PollEnd, MuxHost, Retrieve, MuxDpu,
     SetState, deviceVars
<1>5. QED
  BY <1>2, <1>3, <1>4

LEMMA HostStepData ==
  ASSUME JoinInv, NEW r \in Rank, HostStep(r), NEW d \in Dpu
  PROVE  DataFollows(d)'
<1>1. /\ DpuFollows(d) /\ DataFollows(d) /\ Numbers(r) /\ RankType /\ RankOf(d) \in Rank
      /\ args \in [Dpu -> PartOrNone] /\ data \in [Dpu -> PartOrNone]
      /\ part \in [Dpu -> Parts \cup {None}] /\ curr \in [Rank -> Parts]
      /\ outvec \in [Parts -> PartOrNone]
      /\ NrDpusPerRank \in Nat /\ NrDpusPerRank > 0
  BY RankNotEmpty, Constants DEF JoinInv, RankInv, NumberInv, TypeOK, DeviceTypeOK
<1>2. CASE RankOf(d) # r
  <2>1. UNCHANGED <<args[d], data[d], output[d], part[d], curr[RankOf(d)]>>
    BY <1>2, DataFrame
  <2>2. /\ UNCHANGED <<pc[RankOf(d)], change[RankOf(d)]>>
        /\ UNCHANGED <<state[d], dpuPc[d], mux[d]>>
    BY <1>1, <1>2, HostFrame
  <2>3. Ended(RankOf(d))' = Ended(RankOf(d))
    BY <2>2 DEF Ended
  <2>4. part[d] \in Parts /\ outvec[part[d]] = part[d] => outvec'[part[d]] = part[d]
    BY OutvecGrows
  <2>5. pc[RankOf(d)] \in {"claim", "args"} \/ Ended(RankOf(d)) => pc[RankOf(d)] # "send"
    BY DEF Ended
  <2>6. QED
    BY <1>1, <2>1, <2>2, <2>3, <2>4, <2>5 DEF DataFollows
<1>3. CASE RankOf(d) = r
  <2> d \in RankDpus(r)
    BY <1>3 DEF RankDpus
  <2> USE <1>1, <1>3 DEF RankType, DpuFollows, DataFollows, Ended, deviceVars, Goto
  <2>1. CASE SendFirst(r)
    <3> DEFINE p == NrDpusPerRank * r + Pos(d)
    <3>1. p \in Parts
      BY BlockParts
    <3>2. /\ args'[d] = p /\ data'[d] = p /\ part'[d] = p
          /\ pc[r] = "send" /\ pc'[r] = "launch"
          /\ state'[d] = state[d] /\ dpuPc'[d] = dpuPc[d]
      BY <2>1 DEF SendFirst
    <3> HIDE DEF p
    <3>3. QED
      BY <3>1, <3>2
  <2>2. CASE Launch(r)
    BY <2>2 DEF Launch, OFIS_dpu_launch, OFIS_set_mux_rank
  <2>3. CASE PollLine(r)
    BY <2>3 DEF PollLine
  <2>4. CASE PollEnd(r)
    BY <2>4 DEF PollEnd
  <2>5. CASE MuxHost(r)
    BY <2>5 DEF MuxHost, OFIS_set_mux_rank
  <2>6. CASE Retrieve(r)
    <3>1. outvec'[part[d]] = part[d]
      BY <2>6, OutvecGrows
    <3>2. QED
      BY <2>6, <3>1 DEF Retrieve
  <2>7. CASE Claim(r)
    <3>1. /\ pc[r] = "claim" /\ pc'[r] \in {"muxdpu", "args"}
          /\ UNCHANGED <<state, dpuPc, mux, args, data, output, part, outvec>>
      BY <2>7 DEF Claim
    <3>2. QED
      BY <3>1
  <2>8. CASE SendArgs(r)
    <3>1. curr[r] + Pos(d) \in Parts
      <4>1. pc[r] = "args" /\ p_count \in 0 .. NrPart /\ NrPart \in Nat
        BY <2>8, Constants DEF SendArgs, JoinInv, NumberInv, TypeOK
      <4>2. curr[r] + NrDpusPerRank <= p_count /\ curr[r] \in Nat
        BY <4>1, Constants DEF Numbers, Parts
      <4>3. curr[r] + NrDpusPerRank <= NrPart
        BY <4>1, <4>2
      <4>4. QED
        BY <4>2, <4>3, BlockParts
    <3>2. /\ args'[d] = curr[r] + Pos(d) /\ part'[d] = curr[r] + Pos(d)
          /\ pc[r] = "args" /\ pc'[r] = "matrix" /\ curr' = curr
          /\ UNCHANGED <<state, dpuPc, mux, output>>
      BY <2>8 DEF SendArgs
    <3>3. QED
      BY <3>1, <3>2
  <2>9. CASE SendMatrix(r)
    <3>1. /\ pc[r] = "matrix" /\ pc'[r] = "muxdpu" /\ change[r] = 2 /\ change' = change
          /\ data'[d] = MramPushed(d, curr[r] + Pos(d))
          /\ UNCHANGED <<state, dpuPc, mux, args, output, part>>
      BY <2>9 DEF SendMatrix, Numbers
    <3>2. data'[d] = part[d]
      BY <3>1 DEF MramPushed
    <3>3. QED
      BY <3>1, <3>2
  <2>10. CASE MuxDpu(r)
    BY <2>10 DEF MuxDpu, OFIS_set_mux_rank
  <2>11. CASE SetState(r)
    <3>1. /\ pc[r] = "state" /\ state[d] = 1 /\ dpuPc[d] = "spin" /\ state'[d] = change[r]
          /\ UNCHANGED <<dpuPc, mux, args, data, output, part, outvec, change>>
          /\ pc'[r] = IF finished[r] < NrDpusPerRank THEN "poll" ELSE "done"
      BY <2>11 DEF SetState, OFIS_set_state_rank
    <3>2. CASE finished[r] = 0 /\ change[r] = 2
      BY <3>1, <3>2
    <3>3. CASE finished[r] = NrDpusPerRank /\ change[r] = 0
      BY <3>1, <3>3
    <3>4. QED
      BY <3>1, <3>2, <3>3 DEF Numbers
  <2>12. QED
    BY <2>1, <2>2, <2>3, <2>4, <2>5, <2>6, <2>7, <2>8, <2>9, <2>10, <2>11 DEF HostStep
<1>4. QED
  BY <1>2, <1>3

LEMMA DpuStepData ==
  ASSUME JoinInv, NEW e \in Dpu, DpuRuns(e), NEW d \in Dpu
  PROVE  DataFollows(d)'
<1>1. /\ DpuFollows(d) /\ DataFollows(d) /\ DataFollows(e) /\ DpuFollows(e)
      /\ RankType /\ DeviceTypeOK /\ UNCHANGED <<hostVars, mux, args, data>>
  BY DEF JoinInv, RankInv, NumberInv, TypeOK, DpuRuns, DpuStep, DpuBoot, DpuEnter,
     DpuExit, DpuCompute, DpuFinish
<1>2. CASE d # e
  <2>1. UNCHANGED <<state[d], dpuPc[d], output[d]>>
    BY <1>1, <1>2 DEF DpuRuns, DpuStep, DpuBoot, DpuEnter, DpuExit, DpuCompute,
       DpuFinish, DeviceTypeOK
  <2>2. QED
    BY <1>1, <2>1 DEF DataFollows, Ended, hostVars
<1>3. CASE d = e
  <2> USE <1>1, <1>3 DEF DataFollows, Ended, DpuFollows, RankType, DeviceTypeOK, hostVars
  <2>1. CASE DpuBoot(e)
    BY <2>1 DEF DpuBoot
  <2>2. CASE DpuEnter(e) \/ DpuExit(e)
    BY <2>2 DEF DpuEnter, DpuExit
  <2>3. CASE DpuCompute(e)
    <3>1. dpuPc[d] = "run" /\ state[d] # 1 /\ mux[d] = "dpu"
      BY <2>3 DEF DpuCompute
    <3>2. pc[RankOf(d)] \notin {"send", "matrix", "done"}
      BY <3>1
    <3>3. args[d] = part[d] /\ data[d] = part[d] /\ part[d] \in Parts
      BY <3>2
    <3>4. Computed(d) = part[d]
      BY <3>1, <3>3, Constants DEF Computed, Parts
    <3>5. output'[d] = part[d] /\ dpuPc'[d] = "end" /\ state' = state
      BY <2>3, <3>4 DEF DpuCompute
    <3>6. QED
      BY <3>2, <3>5
  <2>4. CASE DpuFinish(e)
    BY <2>4 DEF DpuFinish
  <2>5. QED
    BY <2>1, <2>2, <2>3, <2>4 DEF DpuRuns, DpuStep
<1>4. QED
  BY <1>2, <1>3

LEMMA HostStepAccounts ==
  ASSUME JoinInv, NEW r \in Rank, HostStep(r)
  PROVE  NothingLost'
<1> SUFFICES ASSUME NEW p \in Parts, p < p_count' PROVE Accounted(p)'
  BY DEF NothingLost
<1>1. /\ RankType /\ NrDpusPerRank \in Nat /\ NrPart \in Nat /\ p \in Nat
      /\ p_count \in 0 .. NrPart /\ curr \in [Rank -> Parts] /\ Parts \subseteq Nat
      /\ part \in [Dpu -> Parts \cup {None}]
  BY TypesGiveRankType, Constants DEF JoinInv, NumberInv, TypeOK, Parts
<1>2. CASE ~(p < p_count)
  <2>1. Claim(r)
    BY <1>1, <1>2 DEF HostStep, SendFirst, Launch, PollLine, PollEnd, MuxHost, Retrieve,
       SendArgs, SendMatrix, MuxDpu, SetState
  <2>2. curr'[r] = p_count /\ p_count' = p_count + NrDpusPerRank /\ pc'[r] = "args"
    BY <1>1, <1>2, <2>1 DEF Claim, RankType
  <2>3. p \in p_count .. p_count + NrDpusPerRank - 1
    BY <1>1, <1>2, <2>2
  <2>4. p \in Owed(r)'
    BY <2>2, <2>3 DEF Owed
  <2>5. QED
    BY <2>4 DEF Accounted
<1>3. CASE outvec[p] = p
  BY <1>3, OutvecGrows DEF Accounted
<1>4. ASSUME NEW q \in Rank, p \in Owed(q) PROVE Accounted(p)'
  <2>1. CASE q # r
    <3>1. pc'[q] = pc[q] /\ curr'[q] = curr[q]
      BY <1>1, <2>1, HostFrame, CounterMoves DEF JoinInv
    <3>2. Owed(q)' = Owed(q)
      BY <3>1 DEF Owed
    <3>3. QED
      BY <1>4, <3>2 DEF Accounted
  <2>2. CASE q = r /\ pc[r] = "send"
    <3>1. SendFirst(r)
      BY <2>2 DEF HostStep, Launch, PollLine, PollEnd, MuxHost, Retrieve, Claim,
         SendArgs, SendMatrix, MuxDpu, SetState, Goto
    <3>2. NrDpusPerRank * r \in Nat
      BY <1>1, Constants DEF Rank
    <3>3. PICK d \in RankDpus(r) : NrDpusPerRank * r + Pos(d) = p
      BY <1>4, <2>2, <3>2, BlockGiven DEF Owed
    <3>4. d \in Dpu /\ part'[d] = p
      BY <3>1, <3>3 DEF SendFirst, RankDpus
    <3>5. QED
      BY <3>4 DEF Accounted
  <2>3. CASE q = r /\ pc[r] = "args"
    <3>1. SendArgs(r)
      BY <2>3 DEF HostStep, SendFirst, Launch, PollLine, PollEnd, MuxHost, Retrieve,
         Claim, SendMatrix, MuxDpu, SetState, Goto
    <3>2. curr[r] \in Nat
      BY <1>1
    <3>3. PICK d \in RankDpus(r) : curr[r] + Pos(d) = p
      BY <1>4, <2>3, <3>2, BlockGiven DEF Owed
    <3>4. d \in Dpu /\ part'[d] = p
      BY <3>1, <3>3 DEF SendArgs, RankDpus
    <3>5. QED
      BY <3>4 DEF Accounted
  <2>4. QED
    BY <1>4, <2>1, <2>2, <2>3 DEF Owed
<1>5. ASSUME NEW d \in Dpu, part[d] = p PROVE Accounted(p)'
  <2>1. CASE part'[d] = p
    BY <2>1 DEF Accounted
  <2>2. CASE part'[d] # p
    <3>1. RankOf(d) = r
      BY <1>5, <2>2, DataFrame
    <3>2. pc[r] \in {"send", "args"}
      BY <1>5, <2>2 DEF HostStep, SendFirst, Launch, PollLine, PollEnd, MuxHost, Retrieve,
         Claim, SendArgs, SendMatrix, MuxDpu, SetState, Goto
    <3>3. DataFollows(d)
      BY DEF JoinInv
    <3>4. pc[r] = "args"
      BY <1>1, <1>5, <3>1, <3>2, <3>3 DEF DataFollows, None
    <3>5. outvec[p] = p
      BY <1>5, <3>1, <3>3, <3>4 DEF DataFollows
    <3>6. QED
      BY <1>3, <3>5
  <2>3. QED
    BY <2>1, <2>2
<1>6. QED
  BY <1>2, <1>3, <1>4, <1>5 DEF JoinInv, NothingLost, Accounted

LEMMA JoinInvHolds ==
  ASSUME BootSettles
  PROVE  Spec => []JoinInv
<1>1. JoinInv /\ RankInv' /\ NumberInv' /\ [Next]_vars => JoinInv'
  <2> SUFFICES ASSUME JoinInv, RankInv', NumberInv', [Next]_vars PROVE JoinInv'
    OBVIOUS
  <2>1. ASSUME NEW r \in Rank, HostStep(r) PROVE JoinInv'
    BY <2>1, HostStepData, HostStepAccounts DEF JoinInv
  <2>2. ASSUME NEW e \in Dpu, DpuRuns(e) PROVE JoinInv'
    <3>1. \A d \in Dpu : DataFollows(d)'
      BY <2>2, DpuStepData
    <3>2. NothingLost'
      BY <2>2 DEF DpuRuns, hostVars, JoinInv, NothingLost, Accounted, Owed
    <3>3. QED
      BY <3>1, <3>2 DEF JoinInv
  <2>3. CASE UNCHANGED vars
    BY <2>3 DEF vars, deviceVars, hostVars, JoinInv, DataFollows, Ended, NothingLost,
       Accounted, Owed
  <2>4. QED
    BY <2>1, <2>2, <2>3 DEF Next, Terminated
<1>2. QED
  BY <1>1, InitJoin, RankInvHolds, NumberInvHolds, PTL DEF Spec

\* Once the DPUs have booted before the first poll, joined threads leave the result
\* of every partition in the output vector and every DPU told to leave main,
\* whatever the order in which the ranks finish and draw from p_count.
THEOREM RankJoinComplete ==
  ASSUME BootSettles
  PROVE  Spec => []CompleteAtJoin
<1>1. JoinInv => CompleteAtJoin
  <2> SUFFICES ASSUME JoinInv, \A r \in Rank : pc[r] = "done"
               PROVE  /\ \A p \in Parts : outvec[p] = p
                      /\ \A d \in Dpu : state[d] = 0
    BY DEF CompleteAtJoin
  <2>1. \A d \in Dpu : DataFollows(d) /\ pc[RankOf(d)] = "done" /\ Ended(RankOf(d))
    BY Constants DEF JoinInv, Ended
  <2>2. p_count = NrPart
    <3>1. 0 \in Rank
      BY TopologyAssumption DEF Rank
    <3>2. Numbers(0) /\ Ended(0)
      BY <3>1 DEF JoinInv, NumberInv, Ended
    <3>3. QED
      BY <3>2 DEF Numbers
  <2>3. ASSUME NEW p \in Parts PROVE outvec[p] = p
    <3>1. Accounted(p)
      BY <2>2, Constants DEF JoinInv, NothingLost, Parts
    <3>2. \A r \in Rank : Owed(r) = {}
      BY DEF Owed
    <3>3. QED
      BY <2>1, <3>1, <3>2 DEF Accounted, DataFollows
  <2>4. QED
    BY <2>1, <2>3 DEF DataFollows
<1>2. QED
  BY <1>1, JoinInvHolds, PTL
=============================================================================
