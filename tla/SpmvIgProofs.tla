---------------------------- MODULE SpmvIgProofs ----------------------------
(***************************************************************************)
(* Proofs about the SpMV application at IG granularity, for any number of *)
(* ranks, control interfaces, lines and partitions: its host threads keep  *)
(* the invariant IInv, and with it MuxExclusive and OutputCorrect; no      *)
(* result is lost, as a DPU gets nothing new before its last one is in     *)
(* output_vec; no index leaves the padding, whatever the order in which    *)
(* the threads reach the last partitions; the application implements       *)
(* PartitionPool, as every partition is dealt to one DPU, once, and its    *)
(* result stored from there; and when the threads are joined, no result is *)
(* missing.                                                                *)
(***************************************************************************)
EXTENDS SpmvIg, OfisDeviceProofs

LEMMA BeforeNat ==
  \A r \in Rank, d \in Dpu : Before(r, d) \in Nat
BY Finite DEF Before, FinDpus

-----------------------------------------------------------------------------
(* Type correctness.                                                       *)

LEMMA InitType == Init => TypeOK
BY Constants DEF Init, TypeOK, DeviceInit, DeviceTypeOK, DpuPc, HostPc, PartOrNone, Parts, None

LEMMA HostStepType ==
  ASSUME TypeOK, BanksFollow, NEW r \in Rank, HostStep(r)
  PROVE  TypeOK'
<1> USE Constants DEF TypeOK, DeviceTypeOK, DpuPc, HostPc, Goto, deviceVars
<1>1. CASE SendFirst(r)
  <2>1. \A d \in Dpu : NrDpusPerRank * r + Pos(d) \in Nat
    <3>1. r \in Nat
      BY DEF Rank
    <3>2. \A a, b \in Nat : a * b \in Nat
      OBVIOUS
    <3>3. QED
      BY <3>1, <3>2
  <2>2. RankDpus(r) \subseteq Dpu
    BY DEF RankDpus
  <2>3. QED
    BY <1>1, <2>1, <2>2 DEF SendFirst, OFIS_set_mux_rank, PartOrNone
<1>2. CASE Launch(r)
  BY <1>2 DEF Launch, OFIS_dpu_launch, OFIS_set_mux_rank
<1>3. CASE PollLine(r)
  BY <1>3 DEF PollLine, Ig
<1>4. CASE PollEnd(r)
  <2>1. ReportedLines(fin[r]) \in SUBSET Ig
    BY DEF ReportedLines
  <2>2. QED
    BY <1>4, <2>1 DEF PollEnd
<1>5. CASE MuxHost(r)
  BY <1>5 DEF MuxHost, AtLine, SkipLine, NextLine, OFIS_set_mux_ig
<1>6. CASE MuxHostEnd(r)
  BY <1>6 DEF MuxHostEnd
<1>7. CASE Retrieve(r)
  <2>1. ASSUME NEW p \in Parts, \E d \in FinDpus(r) : part[d] = p
        PROVE  MramPull(CHOOSE d \in FinDpus(r) : part[d] = p) \in PartOrNone
    <3>1. (CHOOSE d \in FinDpus(r) : part[d] = p) \in Dpu
      BY <2>1 DEF FinDpus
    <3>2. QED
      BY <3>1 DEF MramPull, PartOrNone
  <2>2. outvec' \in [Parts -> PartOrNone]
    BY <1>7, <2>1 DEF Retrieve
  <2>3. QED
    BY <1>7, <2>2 DEF Retrieve
<1>8. CASE Claim(r)
  <2>1. NrCis * Cardinality(fin[r]) \in Nat
    <3>1. Cardinality(fin[r]) \in Nat
      BY Finite
    <3>2. \A a, b \in Nat : a * b \in Nat
      OBVIOUS
    <3>3. QED
      BY <3>1, <3>2
  <2>2. QED
    BY <1>8, <2>1 DEF Claim
<1>9. CASE SendArgs(r)
  <2>1. \A d \in FinDpus(r) : d \in Dpu /\ curr[r] + Before(r, d) \in Nat
    BY BeforeNat DEF FinDpus
  <2>2. QED
    BY <1>9, <2>1 DEF SendArgs, PartOrNone
<1>10. CASE SendMatrix(r)
  <2>1. \A d \in Dpu : MramPushed(d, curr[r] + Before(r, d)) \in PartOrNone
    BY BeforeNat DEF MramPushed, PartOrNone
  <2>2. QED
    BY <1>10, <2>1 DEF SendMatrix
<1>11. CASE MuxDpu(r)
  BY <1>11 DEF MuxDpu, AtLine, SkipLine, NextLine, OFIS_set_mux_ig
<1>12. CASE SetState(r)
  <2>1. k[r] \in Ig
    BY <1>12 DEF SetState, BanksFollow
  <2>2. QED
    BY <1>12, <2>1 DEF SetState, OFIS_set_state_ig, NextLine, Ig
<1>13. CASE RoundEnd(r)
  BY <1>13 DEF RoundEnd
<1>14. QED
  BY <1>1, <1>2, <1>3, <1>4, <1>5, <1>6, <1>7, <1>8, <1>9, <1>10, <1>11, <1>12,
     <1>13 DEF HostStep

LEMMA DpuStepType ==
  ASSUME TypeOK, NEW d \in Dpu, DpuRuns(d)
  PROVE  TypeOK'
<1> USE DEF TypeOK, DeviceTypeOK, DpuPc, hostVars, DpuRuns
<1>1. CASE DpuBoot(d)
  BY <1>1 DEF DpuBoot
<1>2. CASE DpuEnter(d)
  BY <1>2 DEF DpuEnter
<1>3. CASE DpuExit(d)
  BY <1>3 DEF DpuExit
<1>4. CASE DpuCompute(d)
  BY <1>4 DEF DpuCompute, Computed, PartOrNone
<1>5. CASE DpuFinish(d)
  BY <1>5 DEF DpuFinish
<1>6. QED
  BY <1>1, <1>2, <1>3, <1>4, <1>5 DEF DpuStep

-----------------------------------------------------------------------------
(* The multiplexers.                                                       *)

\* A step of one thread leaves the other threads and their ranks alone.
LEMMA HostFrame ==
  ASSUME TypeOK, NEW r \in Rank, HostStep(r)
  PROVE  /\ \A q \in Rank \ {r} : pc'[q] = pc[q] /\ k'[q] = k[q] /\ fin'[q] = fin[q]
         /\ \A d \in Dpu : RankOf(d) # r =>
              /\ state'[d] = state[d] /\ dpuPc'[d] = dpuPc[d] /\ mux'[d] = mux[d]
<1> USE DEF TypeOK, DeviceTypeOK, deviceVars, Goto, NextLine
<1>1. CASE SendFirst(r)
  BY <1>1 DEF SendFirst, OFIS_set_mux_rank, RankDpus
<1>2. CASE Launch(r)
  BY <1>2 DEF Launch, OFIS_dpu_launch, OFIS_set_mux_rank, RankDpus
<1>3. CASE PollLine(r) \/ PollEnd(r) \/ RoundEnd(r)
  BY <1>3 DEF PollLine, PollEnd, RoundEnd
<1>4. CASE MuxHost(r) \/ MuxDpu(r)
  BY <1>4 DEF MuxHost, MuxDpu, OFIS_set_mux_ig, PairLines
<1>5. CASE MuxHostEnd(r) \/ Retrieve(r) \/ SendArgs(r) \/ SendMatrix(r)
  BY <1>5 DEF MuxHostEnd, Retrieve, SendArgs, SendMatrix
<1>6. CASE Claim(r)
  BY <1>6 DEF Claim
<1>7. CASE SetState(r)
  BY <1>7 DEF SetState, OFIS_set_state_ig, Line
<1>8. QED
  BY <1>1, <1>2, <1>3, <1>4, <1>5, <1>6, <1>7 DEF HostStep

LEMMA HostStepWait ==
  ASSUME TypeOK, FinishedDpusWait, BanksFollow, NEW r \in Rank, HostStep(r)
  PROVE  FinishedDpusWait'
<1> DEFINE Waits(d) ==
      /\ state[d] = 1 => dpuPc[d] = "spin"
      /\ pc[RankOf(d)] = "poll" /\ IgOf(d) \in fin[RankOf(d)] => state[d] = 1
      /\ Holds(d) => state[d] = 1
<1>1. \A d \in Dpu : Waits(d)
  BY DEF FinishedDpusWait
<1>2. ASSUME NEW d \in Dpu, RankOf(d) # r
      PROVE  Waits(d)'
  BY <1>1, <1>2, HostFrame, Constants DEF Holds
<1>3. ASSUME NEW d \in Dpu, RankOf(d) = r
      PROVE  Waits(d)'
  <2> USE <1>1, <1>3, Constants DEF Holds, TypeOK, DeviceTypeOK, deviceVars, Goto, Ig
  <2>1. CASE SendFirst(r)
    BY <2>1 DEF SendFirst
  <2>2. CASE Launch(r)
    BY <2>2 DEF Launch, OFIS_dpu_launch, BanksFollow
  <2>3. CASE PollLine(r)
    BY <2>3 DEF PollLine, LineFinished, Line
  <2>4. CASE PollEnd(r)
    BY <2>4 DEF PollEnd, ReportedLines
  <2>5. CASE MuxHost(r)
    BY <2>5 DEF MuxHost
  <2>6. CASE MuxHostEnd(r) \/ Retrieve(r) \/ SendArgs(r)
    BY <2>6 DEF MuxHostEnd, Retrieve, SendArgs
  <2>7. CASE Claim(r)
    BY <2>7 DEF Claim
  <2>8. CASE SendMatrix(r)
    BY <2>8 DEF SendMatrix
  <2>9. CASE MuxDpu(r)
    BY <2>9 DEF MuxDpu, NextLine, AtLine, SkipLine
  <2>10. CASE SetState(r)
    BY <2>10 DEF SetState, OFIS_set_state_ig, NextLine, Line
  <2>11. CASE RoundEnd(r)
    BY <2>11 DEF RoundEnd
  <2>12. QED
    BY <2>1, <2>2, <2>3, <2>4, <2>5, <2>6, <2>7, <2>8, <2>9, <2>10, <2>11
       DEF HostStep
<1>4. QED
  BY <1>2, <1>3 DEF FinishedDpusWait

LEMMA HostStepBanks ==
  ASSUME TypeOK, FinishedDpusWait, BanksFollow, NEW r \in Rank, HostStep(r)
  PROVE  BanksFollow'
<1> DEFINE Bank(d) ==
      /\ pc[RankOf(d)] \in {"send", "launch"} => dpuPc[d] = "off"
      /\ mux[d] = "host" => dpuPc[d] = "off" \/ state[d] = 1
<1> DEFINE Thread(q) ==
      /\ pc[q] = "muxhost" =>
           \A i \in fin[q] : \A j \in Ig : SamePair(i, j) => j \in fin[q]
      /\ pc[q] = "state" =>
           k[q] \in fin[q] /\ \A d \in Line(q, k[q]) : mux[d] = "dpu"
<1>1. (\A d \in Dpu : Bank(d)) /\ (\A q \in Rank : Thread(q))
  BY DEF BanksFollow
<1>2. ASSUME NEW d \in Dpu, RankOf(d) # r
      PROVE  Bank(d)'
  BY <1>1, <1>2, HostFrame, Constants
<1>3. ASSUME NEW q \in Rank, q # r
      PROVE  Thread(q)'
  <2>1. \A d \in Line(q, k[q]) : d \in Dpu /\ RankOf(d) # r
    BY <1>3 DEF Line
  <2>2. Line(q, k[q])' = Line(q, k[q])
    BY <1>3, HostFrame DEF Line
  <2>3. QED
    BY <1>1, <1>3, <2>1, <2>2, HostFrame
<1>4. ASSUME NEW d \in Dpu, RankOf(d) = r
      PROVE  Bank(d)'
  <2> USE <1>1, <1>4, Constants DEF TypeOK, DeviceTypeOK, deviceVars, Goto
  <2>1. CASE SendFirst(r)
    BY <2>1 DEF SendFirst, OFIS_set_mux_rank
  <2>2. CASE Launch(r)
    BY <2>2 DEF Launch, OFIS_dpu_launch, OFIS_set_mux_rank, RankDpus
  <2>3. CASE PollLine(r) \/ PollEnd(r) \/ RoundEnd(r)
    BY <2>3 DEF PollLine, PollEnd, RoundEnd
  <2>4. CASE MuxHost(r)
    <3>1. CASE AtLine(r) /\ d \in PairLines(r, k[r])
      <4>1. IgOf(d) \in fin[r]
        BY <3>1, <2>4 DEF AtLine, PairLines, SamePair, MuxHost
      <4>2. state[d] = 1
        BY <4>1, <2>4 DEF FinishedDpusWait, Holds, MuxHost
      <4>3. QED
        BY <4>2, <2>4 DEF MuxHost
    <3>2. CASE ~(AtLine(r) /\ d \in PairLines(r, k[r]))
      BY <3>2, <2>4 DEF MuxHost, OFIS_set_mux_ig, AtLine, SkipLine
    <3>3. QED
      BY <3>1, <3>2
  <2>5. CASE MuxHostEnd(r) \/ Retrieve(r) \/ SendArgs(r) \/ SendMatrix(r)
    BY <2>5 DEF MuxHostEnd, Retrieve, SendArgs, SendMatrix
  <2>6. CASE Claim(r)
    BY <2>6 DEF Claim
  <2>7. CASE MuxDpu(r)
    BY <2>7 DEF MuxDpu, OFIS_set_mux_ig
  <2>8. CASE SetState(r)
    BY <2>8 DEF SetState, OFIS_set_state_ig
  <2>9. QED
    BY <2>1, <2>2, <2>3, <2>4, <2>5, <2>6, <2>7, <2>8 DEF HostStep
<1>5. Thread(r)'
  <2> USE <1>1, Constants DEF TypeOK, DeviceTypeOK, deviceVars, Goto
  <2>1. CASE SendFirst(r) \/ Launch(r) \/ PollLine(r) \/ RoundEnd(r)
    BY <2>1 DEF SendFirst, Launch, PollLine, RoundEnd
  <2>2. CASE PollEnd(r)
    BY <2>2 DEF PollEnd, ReportedLines, SamePair
  <2>3. CASE MuxHost(r)
    BY <2>3 DEF MuxHost
  <2>4. CASE MuxHostEnd(r) \/ Retrieve(r) \/ SendArgs(r) \/ SendMatrix(r)
    BY <2>4 DEF MuxHostEnd, Retrieve, SendArgs, SendMatrix
  <2>5. CASE Claim(r)
    BY <2>5 DEF Claim
  <2>6. CASE MuxDpu(r)
    BY <2>6 DEF MuxDpu, AtLine, SkipLine, NextLine, OFIS_set_mux_ig, PairLines,
                SamePair, Line
  <2>7. CASE SetState(r)
    BY <2>7 DEF SetState
  <2>8. QED
    BY <2>1, <2>2, <2>3, <2>4, <2>5, <2>6, <2>7 DEF HostStep
<1>6. QED
  BY <1>2, <1>3, <1>4, <1>5 DEF BanksFollow

LEMMA DpuStepBanks ==
  ASSUME TypeOK, FinishedDpusWait, BanksFollow, NEW e \in Dpu, DpuRuns(e)
  PROVE  FinishedDpusWait' /\ BanksFollow'
<1>1. /\ UNCHANGED <<pc, k, fin, mux>>
      /\ \A d \in Dpu \ {e} : state'[d] = state[d] /\ dpuPc'[d] = dpuPc[d]
      /\ dpuPc[e] \in {"boot", "run", "end", "spin"}
      /\ state[e] = 1 => dpuPc[e] # "spin"
      /\ dpuPc'[e] # "off"
      /\ state'[e] = 1 => dpuPc'[e] = "spin"
  BY DEF DpuRuns, hostVars, DpuStep, DpuBoot, DpuEnter, DpuExit, DpuCompute,
         DpuFinish, TypeOK, DeviceTypeOK, FinishedDpusWait
<1>2. \A d \in Dpu : Holds(d)' <=> Holds(d)
  BY <1>1 DEF Holds
<1>3. state[e] # 1 /\ mux[e] = "dpu"
  BY <1>1 DEF FinishedDpusWait, BanksFollow, TypeOK, DeviceTypeOK
<1>4. FinishedDpusWait'
  BY <1>1, <1>2, <1>3 DEF FinishedDpusWait
<1>5. BanksFollow'
  BY <1>1, <1>3 DEF BanksFollow, Line
<1>6. QED
  BY <1>4, <1>5

\* The part of IInv that is inductive by itself and implies MuxExclusive.
BankInv == TypeOK /\ FinishedDpusWait /\ BanksFollow

LEMMA InitBanks == Init => BankInv
<1> SUFFICES ASSUME Init PROVE BankInv
  OBVIOUS
<1>1. TypeOK
  BY InitType
<1>2. FinishedDpusWait /\ BanksFollow
  BY Constants DEF Init, DeviceInit, FinishedDpusWait, BanksFollow, Holds
<1>3. QED
  BY <1>1, <1>2 DEF BankInv

LEMMA NextBanks == BankInv /\ [Next]_vars => BankInv'
<1> SUFFICES ASSUME BankInv, [Next]_vars PROVE BankInv'
  OBVIOUS
<1> USE DEF BankInv
<1>1. ASSUME NEW r \in Rank, HostStep(r) PROVE BankInv'
  BY <1>1, HostStepType, HostStepWait, HostStepBanks
<1>2. ASSUME NEW d \in Dpu, DpuRuns(d) PROVE BankInv'
  BY <1>2, DpuStepType, DpuStepBanks
<1>3. CASE UNCHANGED vars
  BY <1>3 DEF vars, deviceVars, hostVars, TypeOK, DeviceTypeOK, FinishedDpusWait,
     BanksFollow, Holds, Line
<1>4. QED
  BY <1>1, <1>2, <1>3 DEF Next, Terminated

\* The variables of threads and DPUs keep their types in every behaviour.
THEOREM TypeCorrect == Spec => []TypeOK
<1>1. BankInv => TypeOK
  BY DEF BankInv
<1>2. QED
  BY <1>1, InitBanks, NextBanks, PTL DEF Spec

\* No DPU ever computes with its bank on the host's side, for any number of
\* ranks, interfaces and lines.
THEOREM MuxSafe == Spec => []MuxExclusive
<1>1. BankInv => MuxExclusive
  BY DEF BankInv, MuxExclusive, FinishedDpusWait, BanksFollow, TypeOK, DeviceTypeOK
<1>2. QED
  BY <1>1, InitBanks, NextBanks, PTL DEF Spec

-----------------------------------------------------------------------------
(* The results.                                                            *)

\* Neither do the other threads' partitions and data change.
LEMMA HostFrameData ==
  ASSUME TypeOK, NEW r \in Rank, HostStep(r)
  PROVE  /\ \A q \in Rank \ {r} : curr'[q] = curr[q]
         /\ \A d \in Dpu : RankOf(d) # r =>
              /\ args'[d] = args[d] /\ data'[d] = data[d]
              /\ output'[d] = output[d] /\ part'[d] = part[d]
<1> USE DEF TypeOK, DeviceTypeOK, deviceVars
<1>1. CASE SendFirst(r)
  BY <1>1 DEF SendFirst, RankDpus
<1>2. CASE \/ Launch(r) \/ PollLine(r) \/ PollEnd(r) \/ RoundEnd(r) \/ MuxHost(r)
           \/ MuxDpu(r) \/ MuxHostEnd(r) \/ Retrieve(r) \/ SetState(r)
  BY <1>2 DEF Launch, PollLine, PollEnd, RoundEnd, MuxHost, MuxDpu, MuxHostEnd,
              Retrieve, SetState
<1>3. CASE Claim(r)
  BY <1>3 DEF Claim
<1>4. CASE SendArgs(r) \/ SendMatrix(r)
  BY <1>4 DEF SendArgs, SendMatrix, FinDpus
<1>5. QED
  BY <1>1, <1>2, <1>3, <1>4 DEF HostStep

LEMMA BeforeFrame ==
  ASSUME NEW q \in Rank, fin'[q] = fin[q], NEW d \in Dpu
  PROVE  Before(q, d)' = Before(q, d)
<1>1. FinDpus(q)' = FinDpus(q)
  BY DEF FinDpus
<1>2. QED
  BY <1>1 DEF Before

\* DataFollow, for one DPU.
Data(d) ==
  LET r == RankOf(d)
  IN /\ args[d] = part[d]
     /\ part[d] \in Parts /\ ~(pc[r] = "matrix" /\ Holds(d)) => data[d] = part[d]
     /\ Holds(d) /\ pc[r] \in {"retrieve", "claim", "args", "matrix"} => mux[d] = "host"
     /\ Holds(d) /\ pc[r] = "muxhost" /\ IgOf(d) < k[r] => mux[d] = "host"
     /\ Holds(d) /\ pc[r] = "matrix" => part[d] = curr[r] + Before(r, d)
     /\ part[d] \in Parts /\ dpuPc[d] = "end" => output[d] = part[d]
     /\ /\ part[d] \in Parts
        /\ state[d] = 1
        /\ ~(Holds(d) /\ pc[r] \in {"matrix", "muxdpu", "state"})
        => output[d] = part[d]

LEMMA HostStepData ==
  ASSUME BankInv, DataFollow, NEW r \in Rank, HostStep(r)
  PROVE  DataFollow'
<1>0. \A d \in Dpu : Data(d)
  BY DEF DataFollow, Data
<1>1. ASSUME NEW d \in Dpu, RankOf(d) # r
      PROVE  Data(d)'
  <2>1. RankOf(d) \in Rank \ {r}
    BY <1>1, Constants
  <2>2. Before(RankOf(d), d)' = Before(RankOf(d), d)
    BY <2>1, HostFrame, BeforeFrame DEF BankInv
  <2>3. Holds(d)' <=> Holds(d)
    BY <2>1, HostFrame DEF BankInv, Holds
  <2>4. QED
    BY <1>0, <1>1, <2>1, <2>2, <2>3, HostFrame, HostFrameData DEF BankInv, Data
<1>2. ASSUME NEW d \in Dpu, RankOf(d) = r
      PROVE  Data(d)'
  <2>0. /\ Data(d)
        /\ state[d] = 1 => dpuPc[d] = "spin"
        /\ Holds(d) => state[d] = 1
        /\ pc[r] \in {"send", "launch"} => dpuPc[d] = "off"
        /\ IgOf(d) \in 0 .. NrIgs - 1
        /\ NrIgs \in Nat /\ NrPart \in Nat
        /\ TypeOK
    BY <1>0, <1>2, Constants DEF BankInv, FinishedDpusWait, BanksFollow, Ig
  <2> USE <1>2, <2>0 DEF Holds, TypeOK, DeviceTypeOK, deviceVars, Goto, Data
  <2>1. CASE SendFirst(r)
    BY <2>1 DEF SendFirst, RankDpus
  <2>2. CASE Launch(r)
    BY <2>2 DEF Launch, OFIS_dpu_launch, RankDpus
  <2>3. CASE PollLine(r)
    BY <2>3 DEF PollLine
  <2>4. CASE PollEnd(r)
    BY <2>4 DEF PollEnd
  <2>5. CASE MuxHost(r)
    <3>1. Before(r, d)' = Before(r, d)
      BY <2>5, BeforeFrame DEF MuxHost
    <3>2. mux[d] = "host" => mux'[d] = "host"
      BY <2>5 DEF MuxHost, OFIS_set_mux_ig
    <3>3. IgOf(d) = k[r] /\ IgOf(d) \in fin[r] => mux'[d] = "host"
      BY <2>5 DEF MuxHost, AtLine, SkipLine, OFIS_set_mux_ig, PairLines, SamePair
    <3>4. QED
      BY <2>5, <3>1, <3>2, <3>3 DEF MuxHost, NextLine
  <2>6. CASE MuxHostEnd(r) \/ Retrieve(r)
    BY <2>6 DEF MuxHostEnd, Retrieve
  <2>7. CASE Claim(r)
    BY <2>7 DEF Claim
  <2>8. CASE SendArgs(r)
    <3>1. Before(r, d)' = Before(r, d)
      BY <2>8, BeforeFrame DEF SendArgs
    <3>2. Holds(d) <=> d \in FinDpus(r)
      BY <2>8 DEF SendArgs, FinDpus
    <3>3. QED
      BY <2>8, <3>1, <3>2 DEF SendArgs
  <2>9. CASE SendMatrix(r)
    <3>1. Holds(d) <=> d \in FinDpus(r)
      BY <2>9 DEF SendMatrix, FinDpus
    <3>2. QED
      BY <2>9, <3>1 DEF SendMatrix, MramPushed, Parts
  <2>10. CASE MuxDpu(r)
    BY <2>10 DEF MuxDpu, AtLine, SkipLine, NextLine
  <2>11. CASE SetState(r)
    BY <2>11 DEF SetState, NextLine, OFIS_set_state_ig, Line
  <2>12. CASE RoundEnd(r)
    BY <2>12 DEF RoundEnd
  <2>13. QED
    BY <2>1, <2>2, <2>3, <2>4, <2>5, <2>6, <2>7, <2>8, <2>9, <2>10, <2>11, <2>12
       DEF HostStep
<1>3. QED
  BY <1>1, <1>2 DEF DataFollow, Data

LEMMA DpuStepData ==
  ASSUME BankInv, DataFollow, NEW e \in Dpu, DpuRuns(e)
  PROVE  DataFollow'
<1>1. /\ UNCHANGED <<hostVars, mux, args, data>>
      /\ \A d \in Dpu \ {e} : /\ state'[d] = state[d] /\ dpuPc'[d] = dpuPc[d]
                              /\ output'[d] = output[d]
      /\ dpuPc[e] # "off" /\ ~(state[e] = 1)
  BY DEF DpuRuns, DpuStep, DpuBoot, DpuEnter, DpuExit, DpuCompute, DpuFinish,
         BankInv, TypeOK, DeviceTypeOK, FinishedDpusWait
<1>2. mux[e] = "dpu" /\ ~Holds(e)
  BY <1>1 DEF BankInv, BanksFollow, FinishedDpusWait, TypeOK, DeviceTypeOK
<1>3. \A d \in Dpu : (Holds(d)' <=> Holds(d)) /\ Before(RankOf(d), d)' = Before(RankOf(d), d)
  BY <1>1, Constants, BeforeFrame DEF Holds, hostVars
<1>4. ASSUME NEW d \in Dpu, d # e
      PROVE  Data(d)'
  <2>1. Data(d)
    BY DEF DataFollow, Data
  <2>2. QED
    BY <1>1, <1>3, <1>4, <2>1 DEF Data, hostVars
<1>5. Data(e)'
  <2>1. Data(e)
    BY DEF DataFollow, Data
  <2>2. part[e] \in Parts => part[e] = args[e] /\ part[e] = data[e] /\ ~(args[e] >= NrPart)
    BY <1>2, <2>1, Constants DEF Data, Parts
  <2>3. ~Holds(e)'
    BY <1>2, <1>3
  <2>4. UNCHANGED <<hostVars, args, data>>
    BY <1>1
  <2> HIDE <1>1
  <2>5. CASE DpuBoot(e) \/ DpuEnter(e) \/ DpuExit(e)
    BY <2>1, <2>3, <2>4, <2>5, <1>2
       DEF DpuBoot, DpuEnter, DpuExit, Data, BankInv, TypeOK, DeviceTypeOK, hostVars,
           FinishedDpusWait
  <2>6. CASE DpuCompute(e)
    BY <2>1, <2>2, <2>3, <2>4, <2>6, <1>2
       DEF DpuCompute, Computed, Data, BankInv, TypeOK, DeviceTypeOK, hostVars,
           FinishedDpusWait
  <2>7. CASE DpuFinish(e)
    BY <2>1, <2>3, <2>4, <2>7, <1>2
       DEF DpuFinish, Data, BankInv, TypeOK, DeviceTypeOK, hostVars
  <2>8. QED
    BY <2>5, <2>6, <2>7 DEF DpuRuns, DpuStep
<1>6. QED
  BY <1>4, <1>5 DEF DataFollow, Data

\* What a thread pulls for a partition is that partition's result.
LEMMA RetrievesOwn ==
  ASSUME BankInv, DataFollow, NEW r \in Rank, Retrieve(r), NEW p \in Parts,
         \E d \in FinDpus(r) : part[d] = p
  PROVE  MramPull(CHOOSE d \in FinDpus(r) : part[d] = p) = p
<1> DEFINE e == CHOOSE d \in FinDpus(r) : part[d] = p
<1>1. e \in FinDpus(r) /\ part[e] = p
  OBVIOUS
<1> HIDE DEF e
<1>2. e \in Dpu /\ RankOf(e) = r /\ Holds(e)
  BY <1>1 DEF FinDpus, Holds, Retrieve, Goto
<1>3. state[e] = 1 /\ mux[e] = "host" /\ output[e] = p
  BY <1>1, <1>2 DEF BankInv, FinishedDpusWait, DataFollow, Retrieve, Goto
<1>4. MramPull(e) = p
  BY <1>3 DEF MramPull
<1>5. QED
  BY <1>4 DEF e

LEMMA NextOutput == BankInv /\ DataFollow /\ OutputCorrect /\ [Next]_vars => OutputCorrect'
<1> SUFFICES ASSUME BankInv, DataFollow, OutputCorrect, [Next]_vars
             PROVE  OutputCorrect'
  OBVIOUS
<1>1. ASSUME NEW r \in Rank, Retrieve(r)
      PROVE  OutputCorrect'
  <2>1. ASSUME NEW p \in Parts, \E d \in FinDpus(r) : part[d] = p
        PROVE  MramPull(CHOOSE d \in FinDpus(r) : part[d] = p) = p
    BY <1>1, <2>1, RetrievesOwn
  <2>2. QED
    BY <1>1, <2>1 DEF OutputCorrect, Retrieve, BankInv, TypeOK
<1>2. ASSUME NEW r \in Rank, HostStep(r), ~Retrieve(r)
      PROVE  outvec' = outvec
  BY <1>2 DEF HostStep, SendFirst, Launch, PollLine, PollEnd, MuxHost, MuxHostEnd,
     Claim, SendArgs, SendMatrix, MuxDpu, SetState, RoundEnd
<1>3. ASSUME NEW d \in Dpu, DpuRuns(d)
      PROVE  outvec' = outvec
  BY <1>3 DEF DpuRuns, hostVars
<1>4. CASE UNCHANGED vars
  BY <1>4 DEF vars, hostVars, OutputCorrect
<1>5. QED
  BY <1>1, <1>2, <1>3, <1>4 DEF Next, Terminated, OutputCorrect

LEMMA InitInvariant == Init => IInv
<1> SUFFICES ASSUME Init PROVE IInv
  OBVIOUS
<1>1. BankInv
  BY InitBanks
<1>2. DataFollow
  BY Constants DEF Init, DeviceInit, DataFollow, Holds, Parts, None
<1>3. OutputCorrect
  BY DEF Init, OutputCorrect
<1>4. QED
  BY <1>1, <1>2, <1>3 DEF BankInv, IInv

LEMMA NextInvariant == IInv /\ [Next]_vars => IInv'
<1> SUFFICES ASSUME IInv, [Next]_vars PROVE IInv'
  OBVIOUS
<1>1. BankInv /\ DataFollow /\ OutputCorrect
  BY DEF IInv, BankInv
<1>2. BankInv'
  BY <1>1, NextBanks
<1>3. DataFollow'
  <2>1. ASSUME NEW r \in Rank, HostStep(r) PROVE DataFollow'
    BY <1>1, <2>1, HostStepData
  <2>2. ASSUME NEW d \in Dpu, DpuRuns(d) PROVE DataFollow'
    BY <1>1, <2>2, DpuStepData
  <2>3. CASE UNCHANGED vars
    <3>1. \A q \in Rank, d \in Dpu : Before(q, d)' = Before(q, d)
      BY <2>3, BeforeFrame DEF vars, hostVars
    <3>2. QED
      BY <1>1, <2>3, <3>1, Constants DEF vars, deviceVars, hostVars, DataFollow, Holds
  <2>4. QED
    BY <2>1, <2>2, <2>3 DEF Next, Terminated
<1>4. OutputCorrect'
  BY <1>1, NextOutput
<1>5. QED
  BY <1>2, <1>3, <1>4 DEF BankInv, IInv

\* The whole invariant is inductive.
THEOREM InvariantHolds == Spec => []IInv
BY InitInvariant, NextInvariant, PTL DEF Spec

\* Every slot of output_vec that has been written holds its own partition's
\* result: no thread retrieves a stale, partial or foreign one.
THEOREM ResultsCorrect == Spec => []OutputCorrect
<1>1. IInv => OutputCorrect
  BY DEF IInv
<1>2. QED
  BY <1>1, InvariantHolds, PTL

-----------------------------------------------------------------------------
(* Results are collected.                                                  *)

Collected(d) ==
  output[d] = None \/ (output[d] \in Parts /\ outvec[output[d]] = output[d])

\* A padding partition leaves the result of the one before it in MRAM, so a DPU
\* with such a partition holds nothing new, like one whose result was retrieved.
Saved(d) ==
  /\ pc[RankOf(d)] = "send" => output[d] = None
  /\ pc[RankOf(d)] # "send" => part[d] \in Nat
  /\ part[d] \notin Parts => Collected(d)
  /\ Holds(d) /\ pc[RankOf(d)] \in {"claim", "args", "matrix", "muxdpu", "state"}
       => Collected(d)

SavedInv == \A d \in Dpu : Saved(d)

LEMMA InitSaved == Init => SavedInv
<1> SUFFICES ASSUME Init, NEW d \in Dpu PROVE Saved(d)
  BY DEF SavedInv
<1>1. RankOf(d) \in Rank
  BY Constants
<1>2. QED
  BY <1>1 DEF Init, DeviceInit, Saved, Collected, Holds

\* A result that is in output_vec stays there.
LEMMA StoredStays ==
  ASSUME IInv, NEW r \in Rank, HostStep(r), NEW p \in Parts, outvec[p] = p
  PROVE  outvec'[p] = p
<1>1. BankInv /\ DataFollow
  BY DEF IInv, BankInv
<1>2. CASE Retrieve(r)
  <2>1. outvec'[p] = IF \E d \in FinDpus(r) : part[d] = p
                     THEN MramPull(CHOOSE d \in FinDpus(r) : part[d] = p) ELSE outvec[p]
    BY <1>2 DEF Retrieve
  <2>2. QED
    BY <1>1, <1>2, <2>1, RetrievesOwn
<1>3. CASE ~Retrieve(r)
  BY <1>3 DEF HostStep, SendFirst, Launch, PollLine, PollEnd, MuxHost, MuxHostEnd,
     Claim, SendArgs, SendMatrix, MuxDpu, SetState, RoundEnd
<1>4. QED
  BY <1>2, <1>3

LEMMA HostStepCollected ==
  ASSUME IInv, NEW r \in Rank, HostStep(r), NEW d \in Dpu
  PROVE  output' = output /\ (Collected(d) => Collected(d)')
<1>1. output' = output
  BY DEF HostStep, SendFirst, Launch, PollLine, PollEnd, MuxHost, MuxHostEnd, Retrieve,
     Claim, SendArgs, SendMatrix, MuxDpu, SetState, RoundEnd, deviceVars
<1>2. QED
  BY <1>1, StoredStays DEF Collected

LEMMA HostStepSaved ==
  ASSUME IInv, SavedInv, NEW r \in Rank, HostStep(r)
  PROVE  SavedInv'
<1>0. \A d \in Dpu : Saved(d)
  BY DEF SavedInv
<1>1. ASSUME NEW d \in Dpu, RankOf(d) # r
      PROVE  Saved(d)'
  <2>1. RankOf(d) \in Rank \ {r} /\ TypeOK
    BY <1>1, Constants DEF IInv
  <2>2. Holds(d)' <=> Holds(d)
    BY <2>1, HostFrame DEF Holds
  <2>3. QED
    BY <1>0, <1>1, <2>1, <2>2, HostFrame, HostFrameData, HostStepCollected DEF Saved
<1>2. ASSUME NEW d \in Dpu, RankOf(d) = r
      PROVE  Saved(d)'
  <2>0. /\ Saved(d) /\ output' = output /\ (Collected(d) => Collected(d)')
        /\ Holds(d) => state[d] = 1
        /\ IgOf(d) \in 0 .. NrIgs - 1 /\ NrIgs \in Nat
        /\ TypeOK
    BY <1>0, <1>2, HostStepCollected, Constants DEF IInv, FinishedDpusWait, Ig
  <2> USE <1>2, <2>0 DEF Holds, TypeOK, DeviceTypeOK, deviceVars, Goto, Saved
  <2>1. CASE SendFirst(r)
    <3>1. part'[d] \in Nat /\ Collected(d)
      <4>1. r \in Nat /\ Pos(d) \in Nat /\ NrDpusPerRank \in Nat
        BY Constants DEF Rank
      <4>2. \A a, b, c \in Nat : a * b + c \in Nat
        OBVIOUS
      <4>3. part'[d] = NrDpusPerRank * r + Pos(d)
        BY <2>1 DEF SendFirst, RankDpus
      <4>4. QED
        BY <2>1, <4>1, <4>2, <4>3 DEF SendFirst, Collected
    <3>2. QED
      BY <2>1, <3>1 DEF SendFirst
  <2>2. CASE Launch(r)
    BY <2>2 DEF Launch
  <2>3. CASE PollLine(r) \/ PollEnd(r) \/ RoundEnd(r)
    BY <2>3 DEF PollLine, PollEnd, RoundEnd
  <2>4. CASE MuxHost(r) \/ MuxHostEnd(r)
    BY <2>4 DEF MuxHost, MuxHostEnd
  <2>5. CASE Retrieve(r)
    <3>1. ASSUME Holds(d), part[d] \in Parts PROVE Collected(d)'
      <4>1. d \in FinDpus(r)
        BY <3>1 DEF FinDpus
      <4>2. outvec'[part[d]] = part[d]
        <5>1. outvec'[part[d]] = MramPull(CHOOSE e \in FinDpus(r) : part[e] = part[d])
          BY <2>5, <3>1, <4>1 DEF Retrieve
        <5>2. BankInv /\ DataFollow /\ \E e \in FinDpus(r) : part[e] = part[d]
          BY <4>1 DEF IInv, BankInv
        <5>3. MramPull(CHOOSE e \in FinDpus(r) : part[e] = part[d]) = part[d]
          <6> HIDE DEF TypeOK, DeviceTypeOK, Saved, Holds
          <6>1. QED
            BY <2>5, <3>1, <5>2, RetrievesOwn
        <5>4. QED
          BY <5>1, <5>3
      <4>3. output[d] = part[d]
        BY <2>5, <3>1 DEF IInv, DataFollow, Retrieve
      <4>4. QED
        BY <3>1, <4>2, <4>3 DEF Collected
    <3>2. QED
      BY <2>5, <3>1 DEF Retrieve
  <2>6. CASE Claim(r)
    BY <2>6 DEF Claim
  <2>7. CASE SendArgs(r)
    <3>1. d \in FinDpus(r) => part'[d] \in Nat /\ Holds(d)
      BY <2>7, BeforeNat DEF SendArgs, FinDpus
    <3>2. d \notin FinDpus(r) => part'[d] = part[d] /\ ~(Holds(d)')
      BY <2>7 DEF SendArgs, FinDpus
    <3>3. QED
      BY <2>7, <3>1, <3>2 DEF SendArgs
  <2>8. CASE SendMatrix(r)
    BY <2>8 DEF SendMatrix
  <2>9. CASE MuxDpu(r)
    BY <2>9 DEF MuxDpu, NextLine, AtLine, SkipLine
  <2>10. CASE SetState(r)
    BY <2>10 DEF SetState, NextLine
  <2>11. QED
    BY <2>1, <2>2, <2>3, <2>4, <2>5, <2>6, <2>7, <2>8, <2>9, <2>10 DEF HostStep
<1>3. QED
  BY <1>1, <1>2 DEF SavedInv

LEMMA DpuStepSaved ==
  ASSUME IInv, SavedInv, NEW e \in Dpu, DpuRuns(e)
  PROVE  SavedInv'
<1> SUFFICES ASSUME NEW d \in Dpu PROVE Saved(d)'
  BY DEF SavedInv
<1>1. Saved(d) /\ UNCHANGED hostVars /\ (Holds(d)' <=> Holds(d))
  BY DEF SavedInv, DpuRuns, Saved, hostVars, Holds
<1>2. CASE output'[d] = output[d]
  BY <1>1, <1>2 DEF Saved, Collected, hostVars
<1>3. CASE output'[d] # output[d]
  <2>1. e = d /\ DpuCompute(d)
    BY <1>3 DEF DpuRuns, DpuStep, DpuBoot, DpuEnter, DpuExit, DpuCompute, DpuFinish,
                IInv, TypeOK, DeviceTypeOK
  <2>2. pc[RankOf(d)] # "send" /\ ~Holds(d)
    BY <2>1 DEF DpuCompute, IInv, BanksFollow, FinishedDpusWait
  <2>3. args[d] = part[d] /\ part[d] \in Nat /\ ~(args[d] >= NrPart)
    BY <1>1, <1>3, <2>1, <2>2
       DEF Saved, IInv, DataFollow, DpuCompute, Computed, TypeOK, DeviceTypeOK
  <2>4. part[d] \in Parts
    BY <2>3, Constants DEF Parts
  <2>5. QED
    BY <1>1, <2>2, <2>4 DEF Saved, hostVars
<1>4. QED
  BY <1>2, <1>3

LEMMA SavedInvHolds == Spec => [](IInv /\ SavedInv)
<1>1. IInv /\ SavedInv /\ [Next]_vars => IInv' /\ SavedInv'
  <2> SUFFICES ASSUME IInv, SavedInv, [Next]_vars PROVE SavedInv'
    BY NextInvariant
  <2>1. CASE UNCHANGED vars
    BY <2>1 DEF vars, deviceVars, hostVars, SavedInv, Saved, Holds, Collected
  <2>2. QED
    BY <2>1, HostStepSaved, DpuStepSaved DEF Next, Terminated
<1>2. QED
  BY <1>1, InitInvariant, InitSaved, PTL DEF Spec

\* The host never gives a DPU anything new before its result is in output_vec
\* (the pull of line 223 before the pushes that follow).
THEOREM ResultsKept == Spec => NoResultOverwritten
<1> DEFINE Kept(d) ==
      /\ output[d] # None
      /\ state[d] = 1
      /\ args'[d] # args[d] \/ data'[d] # data[d] \/ state'[d] # state[d]
      => output[d] \in Parts /\ outvec[output[d]] = output[d]
<1>1. ASSUME IInv, SavedInv, Next, NEW d \in Dpu PROVE Kept(d)
  <2> SUFFICES ASSUME output[d] # None, state[d] = 1,
                      args'[d] # args[d] \/ data'[d] # data[d] \/ state'[d] # state[d]
               PROVE  Collected(d)
    BY DEF Collected
  <2>1. dpuPc[d] = "spin" /\ TypeOK
    BY <1>1 DEF IInv, FinishedDpusWait
  <2>2. ASSUME NEW e \in Dpu, DpuRuns(e) PROVE FALSE
    BY <2>1, <2>2 DEF DpuRuns, DpuStep, DpuBoot, DpuEnter, DpuExit, DpuCompute, DpuFinish,
                      TypeOK, DeviceTypeOK
  <2>3. ASSUME NEW r \in Rank, HostStep(r)
        PROVE  /\ Holds(d)
               /\ pc[RankOf(d)] \in {"claim", "args", "matrix", "muxdpu", "state"}
    <3>1. RankOf(d) = r
      BY <2>1, <2>3, HostFrame, HostFrameData
    <3>2. pc[r] # "send"
      BY <1>1, <2>1, <3>1 DEF IInv, BanksFollow
    <3>3. SendArgs(r) \/ SendMatrix(r) \/ SetState(r)
      BY <2>1, <2>3, <3>2
         DEF HostStep, SendFirst, Launch, PollLine, PollEnd, MuxHost, MuxHostEnd, Retrieve,
             Claim, MuxDpu, RoundEnd, deviceVars, OFIS_dpu_launch, Goto
    <3>4. CASE SendArgs(r)
      BY <2>1, <3>1, <3>4 DEF SendArgs, FinDpus, Holds, Goto, TypeOK, DeviceTypeOK
    <3>5. CASE SendMatrix(r)
      BY <2>1, <3>1, <3>5 DEF SendMatrix, FinDpus, Holds, Goto, TypeOK, DeviceTypeOK
    <3>6. CASE SetState(r)
      <4>1. d \in Line(r, k[r])
        BY <2>1, <3>6 DEF SetState, OFIS_set_state_ig, TypeOK, DeviceTypeOK
      <4>2. k[r] \in fin[r] /\ pc[r] = "state" /\ k[r] \in Int
        BY <1>1, <2>1, <3>6 DEF SetState, Goto, IInv, BanksFollow, TypeOK
      <4>3. QED
        BY <3>1, <4>1, <4>2 DEF Line, Holds
    <3>7. QED
      BY <3>3, <3>4, <3>5, <3>6
  <2>4. ~ UNCHANGED vars
    BY DEF vars, deviceVars
  <2>5. QED
    BY <1>1, <2>2, <2>3, <2>4 DEF Next, Terminated, SavedInv, Saved
<1>2. IInv /\ SavedInv /\ [Next]_vars => [\A d \in Dpu : Kept(d)]_vars
  BY <1>1
<1>3. QED
  BY <1>2, SavedInvHolds, PTL DEF Spec, NoResultOverwritten

-----------------------------------------------------------------------------
(* Indexes stay in the padding.                                            *)

\* A DPU comes after less than a rank's worth of others.
LEMMA BeforeBound ==
  ASSUME NEW r \in Rank, NEW d \in FinDpus(r)
  PROVE  Before(r, d) \in Nat /\ Before(r, d) <= NrDpusPerRank - 1
<1>1. FinDpus(r) \subseteq RankDpus(r) /\ FinDpus(r) \in SUBSET Dpu
  BY DEF FinDpus, RankDpus
<1>2. Cardinality(FinDpus(r)) <= NrDpusPerRank
  BY <1>1, RankSize, FS_Subset
<1>3. Before(r, d) \in 0 .. Cardinality(FinDpus(r)) - 1
  BY <1>1, AheadRange DEF Before, Ahead
<1>4. QED
  BY <1>1, <1>2, <1>3, Finite, Constants

\* The first partitions are numbered like the DPUs.
LEMMA FirstBound ==
  ASSUME NEW r \in Rank, NEW d \in RankDpus(r)
  PROVE  NrDpusPerRank * r + Pos(d) \in Padded
<1>1. d[2] \in Ci /\ d[3] \in Ig
  BY DEF RankDpus, Dpu
<1>2. Pos(d) \in 0 .. NrDpusPerRank - 1
  BY <1>1, Flattened, Constants DEF Ci, Ig, Pos, NrDpusPerRank
<1>3. r * NrDpusPerRank + Pos(d) \in 0 .. NrDpus - 1
  BY <1>2, Flattened, Constants DEF Rank, NrDpus
<1>4. NrDpusPerRank * r = r * NrDpusPerRank
  BY Constants DEF Rank
<1>5. QED
  BY <1>3, <1>4, FirstAssignmentFits, Constants DEF Padded

\* A thread that deals partitions starts at one that exists.
PaddingInv ==
  /\ IndexesPadded
  /\ \A r \in Rank : pc[r] = "args" => curr[r] < NrPart

LEMMA HostStepPadded ==
  ASSUME TypeOK, PaddingInv, NEW r \in Rank, HostStep(r)
  PROVE  PaddingInv'
<1> USE DEF TypeOK, PaddingInv, IndexesPadded, Goto
<1>1. CASE SendFirst(r)
  BY <1>1, FirstBound DEF SendFirst
<1>2. CASE \/ Launch(r) \/ PollLine(r) \/ PollEnd(r) \/ RoundEnd(r) \/ MuxHost(r)
           \/ MuxDpu(r) \/ MuxHostEnd(r) \/ Retrieve(r) \/ SetState(r) \/ SendMatrix(r)
  BY <1>2 DEF Launch, PollLine, PollEnd, RoundEnd, MuxHost, MuxDpu, MuxHostEnd, Retrieve,
              SetState, SendMatrix
<1>3. CASE Claim(r)
  BY <1>3 DEF Claim
<1>4. CASE SendArgs(r)
  <2>1. ASSUME NEW d \in FinDpus(r) PROVE curr[r] + Before(r, d) \in Padded
    <3>1. curr[r] \in Nat /\ curr[r] < NrPart
      BY <1>4 DEF SendArgs
    <3>2. QED
      BY <3>1, BeforeBound, Constants DEF Padded
  <2>2. QED
    BY <1>4, <2>1 DEF SendArgs
<1>5. QED
  BY <1>1, <1>2, <1>3, <1>4 DEF HostStep

\* No index into dpu_info and input_args leaves the NrDpusPerRank partitions of
\* padding, whatever the order in which the threads take the last ones.
THEOREM IndexesStayPadded == Spec => []IndexesPadded
<1>1. Init => PaddingInv
  BY DEF Init, PaddingInv, IndexesPadded
<1>2. TypeOK /\ PaddingInv /\ [Next]_vars => PaddingInv'
  BY HostStepPadded DEF Next, Terminated, DpuRuns, vars, hostVars, PaddingInv, IndexesPadded
<1>3. PaddingInv => IndexesPadded
  BY DEF PaddingInv
<1>4. QED
  BY <1>1, <1>2, <1>3, TypeCorrect, PTL DEF Spec

-----------------------------------------------------------------------------
(* The refinement of PartitionPool, and completeness when the threads are  *)
(* joined.                                                                 *)

\* The partitions a thread has taken from the queue and not handed out.
Reserved(r) ==
  IF pc[r] = "send"
  THEN NrDpusPerRank * r .. NrDpusPerRank * r + NrDpusPerRank - 1
  ELSE IF pc[r] = "args"
  THEN curr[r] .. curr[r] + NrCis * Cardinality(fin[r]) - 1
  ELSE {}

\* Whatever was dealt or reserved is behind p_count.
Behind ==
  /\ \A r \in Rank : \A n \in Reserved(r) : n < p_count
  /\ \A d \in Dpu : part[d] < p_count
  /\ \A p \in Parts : outvec[p] = p => p < p_count

\* What a thread reserved belongs to nobody else and was never dealt.
Fresh ==
  \A r \in Rank : \A n \in Reserved(r) :
    /\ \A q \in Rank : n \in Reserved(q) => q = r
    /\ \A d \in Dpu : part[d] # n
    /\ n \in Parts => outvec[n] # n

DealtOnce == \A d \in Dpu, e \in Dpu : part[d] = part[e] /\ part[d] # None => d = e

\* A DPU that gets a partition has none, or one whose result was stored.
GivenBack ==
  \A d \in Dpu :
    /\ pc[RankOf(d)] = "send" => part[d] = None
    /\ Holds(d) /\ pc[RankOf(d)] \in {"claim", "args"} /\ part[d] \in Parts
         => outvec[part[d]] = part[d]

DealInv == Behind /\ Fresh /\ DealtOnce /\ GivenBack

-----------------------------------------------------------------------------
(* Numbering.                                                              *)

\* Two reported DPUs get different partitions.
LEMMA BeforeOnce ==
  ASSUME NEW r \in Rank, NEW d \in FinDpus(r), NEW e \in FinDpus(r),
         Before(r, d) = Before(r, e)
  PROVE  d = e
<1>1. FinDpus(r) \in SUBSET RankDpus(r)
  BY DEF FinDpus, RankDpus
<1>2. QED
  BY <1>1, AheadOnce DEF Before, Ahead

\* The reported DPUs are as many as their lines times the interfaces, by which
\* p_count is advanced.
LEMMA ReportedSize ==
  ASSUME NEW r \in Rank, fin[r] \in SUBSET Ig
  PROVE  IsFiniteSet(FinDpus(r)) /\ Cardinality(FinDpus(r)) = NrCis * Cardinality(fin[r])
<1> DEFINE pack == [t \in Ci \X fin[r] |-> <<r, t[1], t[2]>>]
<1>1. IsFiniteSet(Ci) /\ Cardinality(Ci) = NrCis
  <2>1. NrCis \in Nat \ {0}
    BY TopologyAssumption
  <2>2. QED
    BY <2>1, FS_Interval DEF Ci
<1>2. IsFiniteSet(fin[r])
  <2>1. IsFiniteSet(Ig)
    BY FS_Interval, Constants DEF Ig
  <2>2. QED
    BY <2>1, FS_Subset
<1>3. IsFiniteSet(Ci \X fin[r]) /\ Cardinality(Ci \X fin[r]) = NrCis * Cardinality(fin[r])
  BY <1>1, <1>2, FS_Product
<1>4. pack \in [Ci \X fin[r] -> FinDpus(r)]
  BY DEF FinDpus, Dpu, RankOf, IgOf
<1>5. ASSUME NEW e \in FinDpus(r) PROVE \E t \in Ci \X fin[r] : pack[t] = e
  <2>1. e = <<r, e[2], e[3]>> /\ e[2] \in Ci /\ e[3] \in fin[r]
    BY DEF FinDpus, Dpu, RankOf, IgOf
  <2>2. <<e[2], e[3]>> \in Ci \X fin[r]
    BY <2>1
  <2>3. pack[<<e[2], e[3]>>] = e
    BY <2>1, <2>2
  <2>4. QED
    BY <2>2, <2>3
<1>6. ASSUME NEW x \in Ci \X fin[r], NEW y \in Ci \X fin[r], pack[x] = pack[y] PROVE x = y
  <2>1. x = <<x[1], x[2]>> /\ y = <<y[1], y[2]>>
    OBVIOUS
  <2>2. x[1] = y[1] /\ x[2] = y[2]
    BY <1>6
  <2>3. QED
    BY <2>1, <2>2
<1>7. pack \in Surjection(Ci \X fin[r], FinDpus(r)) /\ pack \in Injection(Ci \X fin[r], FinDpus(r))
  BY <1>4, <1>5, <1>6 DEF Surjection, Injection, IsInjective
<1>8. QED
  BY <1>3, <1>7, FS_Surjection

\* Each gets one of the partitions that were taken for them.
LEMMA BeforeReserved ==
  ASSUME NEW r \in Rank, fin[r] \in SUBSET Ig, NEW d \in FinDpus(r)
  PROVE  Before(r, d) \in 0 .. NrCis * Cardinality(fin[r]) - 1
<1>1. FinDpus(r) \in SUBSET Dpu
  BY DEF FinDpus
<1>2. Ahead(FinDpus(r), d) \in 0 .. Cardinality(FinDpus(r)) - 1
  BY <1>1, AheadRange
<1>3. QED
  BY <1>2, ReportedSize DEF Before, Ahead

\* Every reserved partition goes to some reported DPU.
LEMMA BeforeCovers ==
  ASSUME NEW r \in Rank, fin[r] \in SUBSET Ig,
         NEW m \in 0 .. NrCis * Cardinality(fin[r]) - 1
  PROVE  \E d \in FinDpus(r) : Before(r, d) = m
<1>1. FinDpus(r) \in SUBSET RankDpus(r)
  BY DEF FinDpus, RankDpus
<1>2. m \in 0 .. Cardinality(FinDpus(r)) - 1
  BY ReportedSize
<1>3. QED
  BY <1>1, <1>2, AheadCovers DEF Before, Ahead

-----------------------------------------------------------------------------
(* Init.                                                                   *)

LEMMA InitDeal == Init => DealInv /\ Pool!Init
<1> SUFFICES ASSUME Init PROVE DealInv /\ Pool!Init
  OBVIOUS
<1>1. \A r \in Rank : Reserved(r) = NrDpusPerRank * r .. NrDpusPerRank * r + NrDpusPerRank - 1
  BY DEF Init, Reserved
<1>2. ASSUME NEW r \in Rank, NEW n \in Reserved(r)
      PROVE  /\ n \in Nat /\ n < NrDpus
             /\ \A q \in Rank : n \in Reserved(q) => q = r
  <2>1. ASSUME NEW q \in Rank
        PROVE  /\ q \in Nat /\ NrDpusPerRank \in Nat
               /\ NrDpusPerRank * q \in Nat /\ NrDpusPerRank * q = q * NrDpusPerRank
    BY Constants DEF Rank
  <2>2. n \in Nat /\ r * NrDpusPerRank <= n /\ n < r * NrDpusPerRank + NrDpusPerRank
    BY <1>1, <2>1
  <2>3. n < NrDpus
    <3>1. r * NrDpusPerRank + NrDpusPerRank <= NrRanks * NrDpusPerRank
      BY <2>1, Stride, Constants DEF Rank
    <3>2. QED
      BY <2>1, <2>2, <3>1, Constants DEF NrDpus
  <2>4. ASSUME NEW q \in Rank, n \in Reserved(q) PROVE q = r
    <3>1. q * NrDpusPerRank <= n /\ n < q * NrDpusPerRank + NrDpusPerRank
      BY <1>1, <2>1, <2>4
    <3>2. ~(q < r)
      <4> SUFFICES ASSUME q < r PROVE FALSE
        OBVIOUS
      <4>1. q * NrDpusPerRank + NrDpusPerRank <= r * NrDpusPerRank
        BY <2>1, Stride
      <4>2. QED
        BY <2>1, <2>2, <3>1, <4>1
    <3>3. ~(r < q)
      <4> SUFFICES ASSUME r < q PROVE FALSE
        OBVIOUS
      <4>1. r * NrDpusPerRank + NrDpusPerRank <= q * NrDpusPerRank
        BY <2>1, Stride
      <4>2. QED
        BY <2>1, <2>2, <3>1, <4>1
    <3>4. QED
      BY <2>1, <3>2, <3>3
  <2>5. QED
    BY <2>2, <2>3, <2>4
<1>3. /\ p_count = NrDpus /\ NrDpus \in Nat
      /\ \A d \in Dpu : part[d] = None
      /\ \A p \in Parts : outvec[p] = None
      /\ \A p \in Parts : p \in Nat
  BY Constants DEF Init, Parts
<1>4. DealInv
  BY <1>2, <1>3, Constants DEF DealInv, Behind, Fresh, DealtOnce, GivenBack, None
<1>5. Pool!Init
  BY <1>3 DEF Pool!Init, Pool!Nobody, PoolPart, None
<1>6. QED
  BY <1>4, <1>5

-----------------------------------------------------------------------------
(* The steps.                                                              *)

\* A thread hands out what it reserved, to DPUs that have given back what they
\* had: SendFirst and SendArgs.
LEMMA Dealing ==
  ASSUME TypeOK, DealInv, NEW r \in Rank, NEW D \in SUBSET Dpu,
         NEW new, new \in [D -> Reserved(r)],
         \A d \in D, e \in D : new[d] = new[e] => d = e,
         \A d \in D : part[d] \in Parts => outvec[part[d]] = part[d],
         \A n \in Reserved(r) : n \in Nat,
         part' = [d \in Dpu |-> IF d \in D THEN new[d] ELSE part[d]],
         outvec' = outvec, p_count' = p_count,
         Reserved(r)' = {}, \A q \in Rank \ {r} : Reserved(q)' = Reserved(q)
  PROVE  Pool!Deal /\ Behind' /\ Fresh' /\ DealtOnce'
<1>1. \A d \in D : /\ new[d] \in Reserved(r) /\ new[d] \in Nat /\ part'[d] = new[d]
                   /\ new[d] < p_count /\ new[d] # None
                   /\ new[d] \in Parts => outvec[new[d]] # new[d]
                   /\ \A e \in Dpu : part[e] # new[d]
                   /\ \A q \in Rank : new[d] \in Reserved(q) => q = r
  BY DEF DealInv, Behind, Fresh, None
<1>2. \A d \in Dpu \ D : part'[d] = part[d]
  OBVIOUS
<1>3. \A d \in D : /\ PoolPart(d) = None
                   /\ PoolPart(d)' = IF new[d] \in Parts THEN new[d] ELSE None
  BY <1>1 DEF PoolPart
<1>4. \A d \in Dpu \ D : PoolPart(d)' = PoolPart(d)
  BY <1>2 DEF PoolPart
<1> DEFINE reservedA == IF p_count < NrPart THEN p_count ELSE NrPart
           dealtA == {p \in Parts : outvec[p] = p \/ \E d \in Dpu : part[d] = p}
           given == {new[d] : d \in {e \in D : new[e] \in Parts}}
<1>5. ASSUME NEW d \in D, new[d] \in Parts
      PROVE  new[d] \in 0 .. reservedA - 1 /\ new[d] \notin dealtA
  <2>1. new[d] \in Nat /\ new[d] < p_count /\ new[d] < NrPart /\ p_count \in Nat
    <3>1. p_count \in Nat /\ NrPart \in Nat
      BY Constants DEF TypeOK
    <3>2. new[d] \in 0 .. NrPart - 1
      BY <1>5 DEF Parts
    <3>3. QED
      BY <1>1, <3>1, <3>2
  <2>2. outvec[new[d]] # new[d] /\ \A e \in Dpu : part[e] # new[d]
    BY <1>1, <1>5
  <2>3. QED
    BY <2>1, <2>2, Constants
<1>6. dealtA' = dealtA \cup given
  <2>1. ASSUME NEW p \in Parts, \E d \in Dpu : part[d] = p
        PROVE  outvec[p] = p \/ \E d \in Dpu : part'[d] = p
    BY <1>2, <2>1
  <2>2. ASSUME NEW p \in Parts, \E d \in Dpu : part'[d] = p
        PROVE  p \in given \/ \E d \in Dpu : part[d] = p
    BY <1>1, <1>2, <2>2
  <2>3. \A p \in given : p \in Parts /\ \E d \in Dpu : part'[d] = p
    BY <1>1
  <2>4. QED
    BY <2>1, <2>2, <2>3
<1>7. Pool!Deal
  <2> DEFINE h == [d \in Dpu |-> PoolPart(d)]
             W == {w \in Dpu : h'[w] # h[w]}
  <2>1. \A d \in Dpu : h[d] = PoolPart(d) /\ h'[d] = PoolPart(d)'
    OBVIOUS
  <2>2. W = {d \in D : new[d] \in Parts}
    BY <1>1, <1>3, <1>4, <2>1
  <2> HIDE DEF h, W, reservedA, dealtA
  <2>3. \A w \in W : /\ h[w] = -1 /\ h'[w] = new[w]
                     /\ h'[w] \in 0 .. reservedA - 1 /\ h'[w] \notin dealtA
    BY <1>3, <1>5, <2>1, <2>2 DEF None
  <2>4. \A w \in W, v \in W : h'[w] = h'[v] => w = v
    BY <2>2, <2>3
  <2>5. {h'[w] : w \in W} = given
    BY <2>2, <2>3
  <2> HIDE DEF given
  <2>6. h' \in [Dpu -> (0 .. NrPart - 1) \cup {-1}]
    BY DEF h, PoolPart, Parts, None
  <2>7. /\ reservedA' = reservedA
        /\ {p \in Parts : outvec[p] = p}' = {p \in Parts : outvec[p] = p}
    BY DEF reservedA
  <2>8. /\ h' \in [Dpu -> (0 .. NrPart - 1) \cup {-1}]
        /\ LET V == {w \in Dpu : h'[w] # h[w]}
           IN /\ \A w \in V : /\ h[w] = -1
                              /\ h'[w] \in 0 .. reservedA - 1
                              /\ h'[w] \notin dealtA
              /\ \A w \in V, v \in V : h'[w] = h'[v] => w = v
              /\ dealtA' = dealtA \cup {h'[w] : w \in V}
    BY <1>6, <2>3, <2>4, <2>5, <2>6 DEF W
  <2>9. QED
    BY <2>7, <2>8 DEF Pool!Deal, Pool!Part, Pool!Nobody, h, reservedA, dealtA
<1>8. Behind'
  BY <1>1, <1>2 DEF DealInv, Behind
<1>9. Fresh'
  BY <1>1, <1>2 DEF DealInv, Fresh
<1>10. DealtOnce'
  BY <1>1, <1>2 DEF DealInv, DealtOnce
<1>11. QED
  BY <1>7, <1>8, <1>9, <1>10

\* The slots of output_vec after the pull.
LEMMA RetrieveSlots ==
  ASSUME IInv, NEW r \in Rank, Retrieve(r), NEW p \in Parts
  PROVE  outvec'[p] = IF \E d \in FinDpus(r) : part[d] = p THEN p ELSE outvec[p]
<1>1. BankInv /\ DataFollow
  BY DEF IInv, BankInv
<1>2. outvec'[p] = IF \E d \in FinDpus(r) : part[d] = p
                   THEN MramPull(CHOOSE d \in FinDpus(r) : part[d] = p) ELSE outvec[p]
  BY DEF Retrieve
<1>3. QED
  BY <1>1, <1>2, RetrievesOwn

\* A pull stores what the reported DPUs held, and only that.
LEMMA Storing ==
  ASSUME IInv, DealInv, NEW r \in Rank, Retrieve(r)
  PROVE  Pool!Store
<1> DEFINE h == [d \in Dpu |-> PoolPart(d)]
           stored == {p \in Parts : outvec[p] = p}
           dealt == {p \in Parts : outvec[p] = p \/ \E d \in Dpu : part[d] = p}
           W == {d \in FinDpus(r) : PoolPart(d) # None}
<1>1. /\ part' = part /\ p_count' = p_count
      /\ FinDpus(r) \subseteq Dpu
      /\ \A p \in Parts : p # None
  BY DEF Retrieve, FinDpus, Parts, None
<1>2. ASSUME NEW d \in FinDpus(r) PROVE PoolPart(d)' = None
  BY <1>1, <1>2, RetrieveSlots DEF PoolPart
<1>3. ASSUME NEW d \in Dpu, d \notin FinDpus(r) PROVE PoolPart(d)' = PoolPart(d)
  <2>1. CASE part[d] \in Parts
    <3>1. ~ \E e \in FinDpus(r) : part[e] = part[d]
      BY <1>1, <1>3, <2>1 DEF DealInv, DealtOnce
    <3>2. outvec'[part[d]] = outvec[part[d]]
      BY <2>1, <3>1, RetrieveSlots
    <3>3. QED
      BY <1>1, <3>2 DEF PoolPart
  <2>2. CASE part[d] \notin Parts
    BY <1>1, <2>2 DEF PoolPart
  <2>3. QED
    BY <2>1, <2>2
<1>4. stored' = stored \cup {h[w] : w \in W}
  <2>1. ASSUME NEW p \in Parts, outvec'[p] = p
        PROVE  outvec[p] = p \/ \E w \in W : PoolPart(w) = p
    <3>1. CASE \E d \in FinDpus(r) : part[d] = p
      BY <1>1, <3>1 DEF PoolPart
    <3>2. CASE ~ \E d \in FinDpus(r) : part[d] = p
      BY <2>1, <3>2, RetrieveSlots
    <3>3. QED
      BY <3>1, <3>2
  <2>2. \A p \in Parts : outvec[p] = p => outvec'[p] = p
    BY RetrieveSlots
  <2>3. ASSUME NEW w \in W PROVE PoolPart(w) \in Parts /\ outvec'[PoolPart(w)] = PoolPart(w)
    <3>1. PoolPart(w) = part[w] /\ part[w] \in Parts /\ w \in FinDpus(r)
      BY <2>3 DEF PoolPart
    <3>2. QED
      BY <3>1, RetrieveSlots
  <2>4. \A w \in W : h[w] = PoolPart(w)
    BY <1>1
  <2> HIDE DEF h, W
  <2>5. QED
    BY <2>1, <2>2, <2>3, <2>4
<1>5. h' = [w \in Dpu |-> IF w \in W THEN -1 ELSE h[w]]
  <2>1. \A w \in Dpu : PoolPart(w)' = IF w \in W THEN -1 ELSE PoolPart(w)
    BY <1>2, <1>3 DEF None
  <2>2. QED
    BY <2>1
<1>6. W \in SUBSET {w \in Dpu : h[w] # -1}
  BY <1>1 DEF None
<1>7. dealt' = dealt
  <2>1. \A p \in Parts : outvec'[p] = p => outvec[p] = p \/ \E d \in Dpu : part[d] = p
    BY <1>1, RetrieveSlots
  <2>2. \A p \in Parts : outvec[p] = p => outvec'[p] = p
    BY RetrieveSlots
  <2>3. QED
    BY <1>1, <2>1, <2>2
<1> HIDE DEF h, stored, dealt, W
<1>8. /\ \E V \in SUBSET {w \in Dpu : h[w] # -1} :
           /\ stored' = stored \cup {h[w] : w \in V}
           /\ h' = [w \in Dpu |-> IF w \in V THEN -1 ELSE h[w]]
      /\ dealt' = dealt
  BY <1>4, <1>5, <1>6, <1>7
<1>9. QED
  BY <1>1, <1>8 DEF Pool!Store, Pool!Nobody, h, stored, dealt

LEMMA ReservedFrame ==
  ASSUME TypeOK, NEW r \in Rank, HostStep(r), NEW q \in Rank \ {r}
  PROVE  Reserved(q)' = Reserved(q)
BY HostFrame, HostFrameData DEF Reserved

\* Claim takes the next partitions, if there are any.
LEMMA Claiming ==
  ASSUME IInv, DealInv, NEW r \in Rank, Claim(r)
  PROVE  (Pool!Reserve \/ UNCHANGED Pool!poolVars) /\ Behind' /\ Fresh'
<1> DEFINE n == NrCis * Cardinality(fin[r])
           res == IF p_count < NrPart THEN p_count ELSE NrPart
<1>1. n \in Nat /\ p_count \in Nat /\ NrPart \in Nat /\ TypeOK
  <2>1. Cardinality(fin[r]) \in Nat
    BY Finite DEF IInv, TypeOK
  <2>2. \A a, b \in Nat : a * b \in Nat
    OBVIOUS
  <2>3. QED
    BY <2>1, <2>2, Constants DEF IInv, TypeOK
<1>2. /\ part' = part /\ outvec' = outvec
      /\ p_count' = p_count \/ (p_count < NrPart /\ p_count' = p_count + n)
      /\ Reserved(r)' = {} \/ (p_count < NrPart /\ p_count' = p_count + n
                               /\ Reserved(r)' = p_count .. p_count + n - 1)
  BY <1>1 DEF Claim, Reserved, TypeOK
<1>3. \A q \in Rank \ {r} : Reserved(q)' = Reserved(q)
  BY <1>1, ReservedFrame DEF HostStep
<1> HIDE DEF n
<1>4. Pool!Reserve \/ UNCHANGED Pool!poolVars
  <2>1. /\ UNCHANGED <<[d \in Dpu |-> PoolPart(d)],
                       {p \in Parts : outvec[p] = p \/ \E d \in Dpu : part[d] = p},
                       {p \in Parts : outvec[p] = p}>>
    BY <1>2 DEF PoolPart
  <2>2. res' = res \/ (res < NrPart /\ res' \in res + 1 .. NrPart)
    BY <1>1, <1>2
  <2>3. QED
    BY <2>1, <2>2 DEF Pool!Reserve, Pool!poolVars
<1>5. Behind'
  <2>1. p_count' \in Nat /\ p_count' >= p_count
    BY <1>1, <1>2
  <2>2. \A d \in Dpu : part[d] \in Int
    BY <1>1 DEF TypeOK, None
  <2>3. \A q \in Rank : Reserved(q) \subseteq Int
    BY Constants, <1>1, Finite DEF Reserved, TypeOK, Rank
  <2>4. ASSUME NEW q \in Rank, NEW x \in Reserved(q)' PROVE x < p_count'
    <3>1. CASE q = r
      BY <1>1, <1>2, <2>4, <3>1
    <3>2. CASE q # r
      <4>1. x \in Reserved(q) /\ x \in Int /\ x < p_count
        BY <1>3, <2>3, <2>4, <3>2 DEF DealInv, Behind
      <4>2. QED
        BY <1>1, <2>1, <4>1
    <3>3. QED
      BY <3>1, <3>2
  <2>5. \A d \in Dpu : part'[d] < p_count'
    BY <1>1, <1>2, <2>1, <2>2 DEF DealInv, Behind
  <2>6. \A p \in Parts : outvec'[p] = p => p < p_count'
    BY <1>1, <1>2, <2>1 DEF DealInv, Behind, Parts
  <2>7. QED
    BY <2>4, <2>5, <2>6 DEF Behind
<1>6. Fresh'
  <2>1. ASSUME NEW x \in Reserved(r)'
        PROVE  /\ \A q \in Rank : x \in Reserved(q)' => q = r
               /\ \A d \in Dpu : part'[d] # x
               /\ x \in Parts => outvec'[x] # x
    <3>1. x \in Int /\ ~(x < p_count)
      BY <1>1, <1>2, <2>1
    <3>2. QED
      BY <1>2, <1>3, <3>1 DEF DealInv, Behind
  <2>2. ASSUME NEW q \in Rank, q # r, NEW x \in Reserved(q)'
        PROVE  /\ \A o \in Rank : x \in Reserved(o)' => o = q
               /\ \A d \in Dpu : part'[d] # x
               /\ x \in Parts => outvec'[x] # x
    <3>1. x \in Reserved(q)
      BY <1>3, <2>2
    <3>2. x \notin Reserved(r)'
      BY <2>1, <2>2
    <3>3. QED
      BY <1>2, <1>3, <2>2, <3>1, <3>2 DEF DealInv, Fresh
  <2>3. QED
    BY <2>1, <2>2 DEF Fresh
<1>7. QED
  BY <1>4, <1>5, <1>6

LEMMA HostStepGivenBack ==
  ASSUME IInv, DealInv, NEW r \in Rank, HostStep(r)
  PROVE  GivenBack'
<1> SUFFICES ASSUME NEW d \in Dpu
             PROVE  /\ pc'[RankOf(d)] = "send" => part'[d] = None
                    /\ Holds(d)' /\ pc'[RankOf(d)] \in {"claim", "args"} /\ part'[d] \in Parts
                         => outvec'[part'[d]] = part'[d]
  BY DEF GivenBack
<1>1. TypeOK /\ RankOf(d) \in Rank
  BY Constants DEF IInv
<1>2. CASE RankOf(d) # r
  <2>1. Holds(d)' <=> Holds(d)
    BY <1>1, <1>2, HostFrame DEF Holds
  <2>2. pc'[RankOf(d)] = pc[RankOf(d)] /\ part'[d] = part[d]
    BY <1>1, <1>2, HostFrame, HostFrameData
  <2>3. QED
    BY <2>1, <2>2, StoredStays DEF DealInv, GivenBack
<1>3. CASE RankOf(d) = r
  <2>1. CASE Retrieve(r)
    <3>1. ASSUME Holds(d)', part[d] \in Parts PROVE outvec'[part[d]] = part[d]
      <4>1. d \in FinDpus(r)
        BY <1>3, <2>1, <3>1 DEF Holds, Retrieve, FinDpus
      <4>2. QED
        BY <2>1, <3>1, <4>1, RetrieveSlots
    <3>2. QED
      BY <1>1, <1>3, <2>1, <3>1 DEF Retrieve, Goto, TypeOK
  <2>2. CASE Claim(r)
    BY <1>1, <1>3, <2>2 DEF Claim, Holds, DealInv, GivenBack, TypeOK
  <2>3. CASE ~Retrieve(r) /\ ~Claim(r)
    <3>1. pc'[r] \notin {"send", "claim", "args"}
      BY <1>1, <2>3 DEF HostStep, SendFirst, Launch, PollLine, PollEnd, MuxHost, MuxHostEnd,
         SendArgs, SendMatrix, MuxDpu, SetState, RoundEnd, Goto, TypeOK
    <3>2. QED
      BY <1>3, <3>1
  <2>4. QED
    BY <2>1, <2>2, <2>3
<1>4. QED
  BY <1>2, <1>3

\* Nothing of the pool moves.
LEMMA Quiet ==
  ASSUME DealInv, UNCHANGED <<part, outvec, p_count>>,
         \A r \in Rank : Reserved(r)' \subseteq Reserved(r)
  PROVE  UNCHANGED Pool!poolVars /\ Behind' /\ Fresh' /\ DealtOnce'
<1>1. UNCHANGED Pool!poolVars
  BY DEF Pool!poolVars, PoolPart
<1>2. Behind' /\ Fresh' /\ DealtOnce'
  BY DEF DealInv, Behind, Fresh, DealtOnce
<1>3. QED
  BY <1>1, <1>2

PoolNext == Pool!Next \/ UNCHANGED Pool!poolVars

LEMMA HostStepDeal ==
  ASSUME IInv, DealInv, NEW r \in Rank, HostStep(r)
  PROVE  PoolNext /\ DealInv'
<1>1. TypeOK /\ GivenBack'
  BY HostStepGivenBack DEF IInv
<1>2. \A q \in Rank \ {r} : Reserved(q)' = Reserved(q)
  BY <1>1, ReservedFrame
<1>3. CASE SendFirst(r)
  <2> DEFINE new == [d \in RankDpus(r) |-> NrDpusPerRank * r + Pos(d)]
  <2>1. /\ pc[r] = "send" /\ pc'[r] = "launch" /\ outvec' = outvec /\ p_count' = p_count
        /\ part' = [d \in Dpu |-> IF d \in RankDpus(r) THEN new[d] ELSE part[d]]
    BY <1>1, <1>3 DEF SendFirst, Goto, TypeOK
  <2>2. /\ Reserved(r) = NrDpusPerRank * r .. NrDpusPerRank * r + NrDpusPerRank - 1
        /\ Reserved(r)' = {}
    BY <2>1 DEF Reserved
  <2>3. NrDpusPerRank * r \in Nat /\ RankDpus(r) \in SUBSET Dpu
    BY Constants DEF Rank, RankDpus
  <2>4. new \in [RankDpus(r) -> Reserved(r)] /\ \A n \in Reserved(r) : n \in Nat
    BY <2>2, <2>3, FirstReserved
  <2>5. ASSUME NEW d \in RankDpus(r), NEW e \in RankDpus(r), new[d] = new[e] PROVE d = e
    <3>1. Pos(d) \in Nat /\ Pos(e) \in Nat /\ d \in Dpu /\ e \in Dpu /\ RankOf(d) = RankOf(e)
      BY Constants DEF RankDpus
    <3>2. NrDpusPerRank * r + Pos(d) = NrDpusPerRank * r + Pos(e)
      BY <2>5
    <3>3. Pos(d) = Pos(e)
      BY <2>3, <3>1, <3>2
    <3>4. QED
      BY <3>1, <3>3, PosOnce
  <2>6. \A d \in RankDpus(r) : part[d] = None
    BY <2>1 DEF DealInv, GivenBack, RankDpus
  <2>7. \A d \in RankDpus(r) : part[d] \in Parts => outvec[part[d]] = part[d]
    BY <2>6 DEF Parts, None
  <2> HIDE DEF new
  <2>8. Pool!Deal /\ Behind' /\ Fresh' /\ DealtOnce'
    BY <1>1, <1>2, <2>1, <2>2, <2>3, <2>4, <2>5, <2>7, Dealing
  <2>9. QED
    BY <1>1, <2>8 DEF PoolNext, Pool!Next, DealInv
<1>4. CASE Retrieve(r)
  <2>1. Pool!Store
    BY <1>4, Storing
  <2>2. /\ part' = part /\ p_count' = p_count
        /\ Reserved(r) = {} /\ Reserved(r)' = {}
    BY <1>1, <1>4 DEF Retrieve, Goto, Reserved, TypeOK
  <2>3. \A p \in Parts : outvec'[p] = p => outvec[p] = p \/ \E d \in Dpu : part[d] = p
    BY <1>4, RetrieveSlots DEF FinDpus
  <2>4. Behind'
    BY <1>2, <2>2, <2>3 DEF DealInv, Behind
  <2>5. Fresh'
    BY <1>2, <2>2, <2>3 DEF DealInv, Fresh
  <2>6. DealtOnce'
    BY <2>2 DEF DealInv, DealtOnce
  <2>7. QED
    BY <1>1, <2>1, <2>4, <2>5, <2>6 DEF PoolNext, Pool!Next, DealInv
<1>5. CASE Claim(r)
  <2>1. (Pool!Reserve \/ UNCHANGED Pool!poolVars) /\ Behind' /\ Fresh'
    BY <1>5, Claiming
  <2>2. DealtOnce'
    BY <1>5 DEF Claim, DealInv, DealtOnce
  <2>3. QED
    BY <1>1, <2>1, <2>2 DEF PoolNext, Pool!Next, DealInv
<1>6. CASE SendArgs(r)
  <2> DEFINE D == FinDpus(r)
             new == [d \in FinDpus(r) |-> curr[r] + Before(r, d)]
  <2>1. /\ pc[r] = "args" /\ pc'[r] = "matrix" /\ outvec' = outvec /\ p_count' = p_count
        /\ part' = [d \in Dpu |-> IF d \in D THEN new[d] ELSE part[d]]
    BY <1>1, <1>6 DEF SendArgs, Goto, TypeOK
  <2>2. /\ Reserved(r) = curr[r] .. curr[r] + NrCis * Cardinality(fin[r]) - 1
        /\ Reserved(r)' = {}
    BY <2>1 DEF Reserved
  <2>3. /\ curr[r] \in Nat /\ fin[r] \in SUBSET Ig /\ D \in SUBSET Dpu
        /\ NrCis * Cardinality(fin[r]) \in Nat
    <3>1. Cardinality(fin[r]) \in Nat
      BY <1>1, Finite DEF TypeOK
    <3>2. \A a, b \in Nat : a * b \in Nat
      OBVIOUS
    <3>3. QED
      BY <1>1, <3>1, <3>2, Constants DEF TypeOK, FinDpus
  <2>4. \A d \in D : curr[r] + Before(r, d) \in Reserved(r)
    BY <2>2, <2>3, BeforeReserved
  <2>5. new \in [D -> Reserved(r)] /\ \A n \in Reserved(r) : n \in Nat
    BY <2>2, <2>3, <2>4
  <2>6. ASSUME NEW d \in D, NEW e \in D, new[d] = new[e] PROVE d = e
    <3>1. Before(r, d) \in Nat /\ Before(r, e) \in Nat
      BY BeforeNat DEF FinDpus
    <3>2. curr[r] + Before(r, d) = curr[r] + Before(r, e)
      BY <2>6
    <3>3. QED
      BY <2>3, <3>1, <3>2, BeforeOnce
  <2>7. \A d \in D : part[d] \in Parts => outvec[part[d]] = part[d]
    BY <2>1 DEF DealInv, GivenBack, FinDpus, Holds
  <2> HIDE DEF new, D
  <2>8. Pool!Deal /\ Behind' /\ Fresh' /\ DealtOnce'
    BY <1>1, <1>2, <2>1, <2>2, <2>3, <2>5, <2>6, <2>7, Dealing
  <2>9. QED
    BY <1>1, <2>8 DEF PoolNext, Pool!Next, DealInv
<1>7. CASE ~SendFirst(r) /\ ~Retrieve(r) /\ ~Claim(r) /\ ~SendArgs(r)
  <2>1. /\ UNCHANGED <<part, outvec, p_count>>
        /\ pc'[r] \notin {"send", "args"}
    BY <1>1, <1>7
       DEF HostStep, Launch, PollLine, PollEnd, MuxHost, MuxHostEnd, SendMatrix, MuxDpu,
           SetState, RoundEnd, Goto, TypeOK
  <2>2. \A q \in Rank : Reserved(q)' \subseteq Reserved(q)
    BY <1>2, <2>1 DEF Reserved
  <2>3. QED
    BY <1>1, <2>1, <2>2, Quiet DEF PoolNext, DealInv
<1>8. QED
  BY <1>3, <1>4, <1>5, <1>6, <1>7

\* Every step of threads and DPUs is a step of the pool or leaves it alone.
LEMMA NextDeal == IInv /\ DealInv /\ [Next]_vars => PoolNext /\ DealInv'
<1> SUFFICES ASSUME IInv, DealInv, [Next]_vars PROVE PoolNext /\ DealInv'
  OBVIOUS
<1>1. CASE UNCHANGED hostVars
  <2>1. \A r \in Rank : Reserved(r)' \subseteq Reserved(r)
    BY <1>1 DEF hostVars, Reserved
  <2>2. GivenBack'
    BY <1>1 DEF hostVars, Holds, DealInv, GivenBack
  <2>3. QED
    BY <1>1, <2>1, <2>2, Quiet DEF hostVars, PoolNext, DealInv
<1>2. QED
  BY <1>1, HostStepDeal DEF Next, Terminated, DpuRuns, vars

\* The threads and DPUs implement the pool of partitions: whatever the
\* interleaving, p_count_mutex and the report of finished lines see to it that each
\* partition is dealt to one DPU, once, after that DPU's last result was stored.
THEOREM PoolImplemented == Spec => ImplementsPool
<1>1. Init => Pool!Init
  BY InitDeal
<1>2. IInv /\ DealInv /\ [Next]_vars => [Pool!Next]_(Pool!poolVars)
  BY NextDeal DEF PoolNext
<1>3. IInv /\ DealInv /\ [Next]_vars => DealInv'
  BY NextDeal
<1>4. Init => DealInv
  BY InitDeal
<1>5. QED
  BY <1>1, <1>2, <1>3, <1>4, InvariantHolds, PTL DEF Spec, ImplementsPool, Pool!Spec

-----------------------------------------------------------------------------
(* At the join.                                                            *)

\* A DPU that was told to exit, and a line that is about to be.
Exit(d) == state[d] = 0 /\ dpuPc[d] \in {"spin", "halted"}

Pending(r, i) ==
  pc[r] \in {"muxdpu", "state"} /\ change[r] = 0 /\ i \in fin[r] /\ k[r] <= i

Told(d) == Pending(RankOf(d), IgOf(d)) \/ Exit(d)

\* The lines finish_count counts.
Out(r, i) == Pending(r, i) \/ \A d \in Line(r, i) : Exit(d)
ToldLines(r) == {i \in Ig : Out(r, i)}

\* A line is counted once, when it is told to exit.
CountInv ==
  \A r \in Rank :
    /\ finished[r] = NrCis * Cardinality(ToldLines(r))
    /\ pc[r] \in {"args", "matrix"} => change[r] = 2
    /\ pc[r] = "done" => finished[r] >= NrDpusPerRank

\* A DPU is told to exit when nothing is left, and its last result is stored.
ToldLast ==
  \A d \in Dpu :
    Told(d) => p_count >= NrPart /\ (part[d] \in Parts => outvec[part[d]] = part[d])

\* No partition is lost on the way from the queue to output_vec.
NothingLost ==
  \A p \in Parts :
    p < p_count => \/ outvec[p] = p
                   \/ \E d \in Dpu : part[d] = p
                   \/ \E r \in Rank : p \in Reserved(r)

JoinInv == CountInv /\ ToldLast /\ NothingLost

\* Every line has a DPU.
LEMMA LineInhabited ==
  ASSUME NEW r \in Rank, NEW i \in Ig
  PROVE  /\ Line(r, i) # {}
         /\ \A d \in Line(r, i) : d \in Dpu /\ RankOf(d) = r /\ IgOf(d) = i
<1>1. 0 \in Ci
  BY TopologyAssumption DEF Ci
<1>2. <<r, 0, i>> \in Line(r, i)
  BY <1>1 DEF Line, Dpu, RankOf, IgOf
<1>3. QED
  BY <1>2 DEF Line

LEMMA InitJoin == Init => JoinInv
<1> SUFFICES ASSUME Init PROVE JoinInv
  OBVIOUS
<1>1. \A d \in Dpu : ~Exit(d)
  BY DEF Init, DeviceInit, Exit
<1>2. \A r \in Rank : pc[r] = "send" /\ finished[r] = 0
  BY DEF Init
<1>3. ASSUME NEW r \in Rank PROVE finished[r] = NrCis * Cardinality(ToldLines(r))
  <2>1. ToldLines(r) = {}
    BY <1>1, <1>2, LineInhabited DEF ToldLines, Out, Pending
  <2>2. Cardinality(ToldLines(r)) = 0
    BY <2>1, FS_EmptySet
  <2>3. QED
    BY <1>2, <2>2, Constants
<1>4. ToldLast
  BY <1>1, <1>2, Constants DEF ToldLast, Told, Pending
<1>5. NothingLost
  <2> SUFFICES ASSUME NEW p \in Parts, p < p_count
               PROVE  \E r \in Rank : p \in Reserved(r)
    BY DEF NothingLost
  <2>1. p \in 0 .. NrDpus - 1
    BY Constants DEF Init, Parts
  <2>2. PICK r \in Rank : p \in NrDpusPerRank * r .. NrDpusPerRank * r + NrDpusPerRank - 1
    BY <2>1, FirstOwner
  <2>3. QED
    BY <1>2, <2>2 DEF Reserved
<1>6. QED
  BY <1>2, <1>3, <1>4, <1>5 DEF JoinInv, CountInv

\* The other threads' counts are their own.
LEMMA CountFrame ==
  ASSUME TypeOK, NEW r \in Rank, HostStep(r), NEW q \in Rank \ {r}
  PROVE  /\ change'[q] = change[q] /\ finished'[q] = finished[q]
         /\ \A i \in Ig : Out(q, i)' <=> Out(q, i)
<1>1. change'[q] = change[q] /\ finished'[q] = finished[q]
  <2>1. CASE Claim(r)
    BY <2>1 DEF Claim, TypeOK
  <2>2. CASE ~Claim(r)
    BY <2>2 DEF HostStep, SendFirst, Launch, PollLine, PollEnd, MuxHost, MuxHostEnd, Retrieve,
       SendArgs, SendMatrix, MuxDpu, SetState, RoundEnd
  <2>3. QED
    BY <2>1, <2>2
<1>2. ASSUME NEW i \in Ig PROVE Out(q, i)' <=> Out(q, i)
  <2>1. Line(q, i)' = Line(q, i)
    BY DEF Line
  <2>2. \A d \in Line(q, i) : Exit(d)' <=> Exit(d)
    BY HostFrame, LineInhabited DEF Exit
  <2>3. Pending(q, i)' <=> Pending(q, i)
    BY <1>1, HostFrame DEF Pending
  <2>4. QED
    BY <2>1, <2>2, <2>3 DEF Out
<1>3. QED
  BY <1>1, <1>2

\* A step that is not a claim counts no line and tells none: the state goes to the
\* lines that the claim has counted.
LEMMA OutStays ==
  ASSUME IInv, CountInv, NEW r \in Rank, HostStep(r), ~Claim(r), NEW i \in Ig
  PROVE  Out(r, i)' <=> Out(r, i)
<1>1. /\ TypeOK /\ i \in 0 .. NrIgs - 1 /\ NrIgs \in Nat
      /\ Line(r, i) # {} /\ Line(r, i)' = Line(r, i)
      /\ \A d \in Line(r, i) : d \in Dpu /\ RankOf(d) = r /\ IgOf(d) = i
  BY LineInhabited, Constants DEF IInv, Ig, Line
<1>2. \A d \in Line(r, i) : /\ state[d] = 1 => dpuPc[d] = "spin"
                            /\ Holds(d) => state[d] = 1
                            /\ pc[r] \in {"send", "launch"} => dpuPc[d] = "off"
  BY <1>1 DEF IInv, FinishedDpusWait, BanksFollow
<1> USE <1>1 DEF TypeOK, DeviceTypeOK, deviceVars, Goto
<1>3. CASE Launch(r)
  <2>1. \A d \in Line(r, i) : dpuPc'[d] = "boot" /\ dpuPc[d] = "off"
    BY <1>2, <1>3 DEF Launch, OFIS_dpu_launch, RankDpus
  <2>2. QED
    BY <1>3, <2>1 DEF Launch, Out, Pending, Exit
<1>4. CASE SetState(r)
  <2>1. k[r] \in fin[r] /\ pc[r] = "state" /\ pc'[r] = "muxdpu"
    BY <1>4 DEF SetState, IInv, BanksFollow
  <2>2. k[r] \in 0 .. NrIgs /\ k'[r] = k[r] + 1 /\ fin' = fin /\ change' = change
    BY <1>4 DEF SetState, NextLine
  <2>3. \A d \in Line(r, i) : /\ dpuPc'[d] = dpuPc[d]
                              /\ state'[d] = IF i = k[r] THEN change[r] ELSE state[d]
    BY <1>4 DEF SetState, OFIS_set_state_ig, Line
  <2>4. CASE i = k[r]
    <3>1. \A d \in Line(r, i) : state[d] = 1 /\ dpuPc[d] = "spin"
      BY <1>2, <2>1, <2>2, <2>4 DEF Holds
    <3>2. ~Pending(r, i)' /\ (Pending(r, i) <=> change[r] = 0)
      BY <2>1, <2>2, <2>4 DEF Pending
    <3>3. QED
      BY <2>3, <2>4, <3>1, <3>2 DEF Out, Exit
  <2>5. CASE i # k[r]
    <3>1. Pending(r, i)' <=> Pending(r, i)
      BY <2>1, <2>2, <2>5 DEF Pending
    <3>2. QED
      BY <2>3, <2>5, <3>1 DEF Out, Exit
  <2>6. QED
    BY <2>4, <2>5
<1>5. CASE ~Launch(r) /\ ~SetState(r)
  <2>1. state' = state /\ dpuPc' = dpuPc
    BY <1>5 DEF HostStep, SendFirst, PollLine, PollEnd, MuxHost, MuxHostEnd, Retrieve, Claim,
       SendArgs, SendMatrix, MuxDpu, RoundEnd
  <2>2. Pending(r, i)' <=> Pending(r, i)
    <3>1. CASE SendFirst(r) \/ PollLine(r) \/ PollEnd(r)
      BY <3>1 DEF SendFirst, PollLine, PollEnd, Pending
    <3>2. CASE MuxHost(r) \/ MuxHostEnd(r) \/ Retrieve(r) \/ SendArgs(r)
      BY <3>2 DEF MuxHost, MuxHostEnd, Retrieve, SendArgs, Pending
    <3>3. CASE SendMatrix(r)
      BY <3>3 DEF SendMatrix, Pending, CountInv
    <3>4. CASE MuxDpu(r)
      BY <3>4 DEF MuxDpu, AtLine, SkipLine, NextLine, Pending
    <3>5. CASE RoundEnd(r)
      BY <3>5 DEF RoundEnd, Pending
    <3>6. QED
      BY <1>5, <3>1, <3>2, <3>3, <3>4, <3>5 DEF HostStep
  <2>3. QED
    BY <2>1, <2>2 DEF Out, Exit
<1>6. QED
  BY <1>3, <1>4, <1>5

\* The claim that finds nothing left counts the reported lines, which were not
\* counted before.
LEMMA ClaimCounts ==
  ASSUME IInv, CountInv, NEW r \in Rank, Claim(r)
  PROVE  finished'[r] = NrCis * Cardinality(ToldLines(r)')
<1>1. TypeOK /\ fin[r] \in SUBSET Ig /\ finished[r] = NrCis * Cardinality(ToldLines(r))
  BY DEF IInv, TypeOK, CountInv
<1>2. /\ pc[r] = "claim" /\ fin' = fin /\ state' = state /\ dpuPc' = dpuPc
      /\ \A i \in Ig : ~Pending(r, i)
  BY DEF Claim, Pending, deviceVars
<1>3. \A i \in fin[r] : i \notin ToldLines(r)
  <2> SUFFICES ASSUME NEW i \in fin[r], i \in ToldLines(r) PROVE FALSE
    OBVIOUS
  <2>1. i \in Ig
    BY <1>1
  <2>2. PICK d \in Line(r, i) : d \in Dpu /\ RankOf(d) = r /\ IgOf(d) = i
    BY <2>1, LineInhabited
  <2>3. Exit(d)
    BY <1>2, <2>1, <2>2 DEF ToldLines, Out
  <2>4. state[d] = 1
    BY <1>2, <2>2 DEF IInv, FinishedDpusWait, Holds
  <2>5. QED
    BY <2>3, <2>4 DEF Exit
<1>4. CASE p_count >= NrPart
  <2>1. /\ pc'[r] = "muxdpu" /\ change'[r] = 0 /\ k'[r] = 0
        /\ finished'[r] = finished[r] + NrCis * Cardinality(fin[r])
    BY <1>1, <1>4, Constants DEF Claim, TypeOK
  <2>2. ToldLines(r)' = ToldLines(r) \cup fin[r]
    <3>1. \A i \in Ig : Pending(r, i)' <=> i \in fin[r]
      BY <1>2, <2>1, Constants DEF Pending, Ig
    <3>2. \A i \in Ig : Out(r, i)' <=> (Out(r, i) \/ i \in fin[r])
      BY <1>2, <3>1 DEF Out, Exit, Line
    <3>3. QED
      BY <1>1, <3>2 DEF ToldLines
  <2>3. Cardinality(ToldLines(r) \cup fin[r]) = Cardinality(ToldLines(r)) + Cardinality(fin[r])
    <3>1. IsFiniteSet(Ig)
      BY FS_Interval, Constants DEF Ig
    <3>2. ToldLines(r) \in SUBSET Ig
      BY DEF ToldLines
    <3>3. IsFiniteSet(ToldLines(r)) /\ IsFiniteSet(fin[r])
      BY <1>1, <3>1, <3>2, FS_Subset
    <3>4. Cardinality(ToldLines(r) \cap fin[r]) = 0
      BY <1>3, FS_EmptySet
    <3>5. Cardinality(ToldLines(r)) \in Nat /\ Cardinality(fin[r]) \in Nat
      BY <1>1, <3>2, Finite
    <3>6. Cardinality(ToldLines(r) \cup fin[r])
            = Cardinality(ToldLines(r)) + Cardinality(fin[r]) - Cardinality(ToldLines(r) \cap fin[r])
      BY <3>3, FS_Union
    <3>7. QED
      BY <3>4, <3>5, <3>6
  <2>4. \A c, a, b \in Nat : c * (a + b) = c * a + c * b
    OBVIOUS
  <2>5. Cardinality(ToldLines(r)) \in Nat /\ Cardinality(fin[r]) \in Nat
    BY <1>1, Finite DEF ToldLines
  <2>6. NrCis * Cardinality(ToldLines(r)')
          = NrCis * Cardinality(ToldLines(r)) + NrCis * Cardinality(fin[r])
    BY <2>2, <2>3, <2>4, <2>5, Constants
  <2>7. QED
    BY <1>1, <2>1, <2>6
<1>5. CASE ~(p_count >= NrPart)
  <2>1. pc'[r] = "args" /\ finished' = finished
    BY <1>1, <1>5, Constants DEF Claim, TypeOK
  <2>2. \A i \in Ig : Out(r, i)' <=> Out(r, i)
    BY <1>2, <2>1 DEF Out, Exit, Line, Pending
  <2>3. ToldLines(r)' = ToldLines(r)
    BY <2>2 DEF ToldLines
  <2>4. QED
    BY <1>1, <2>1, <2>3
<1>6. QED
  BY <1>4, <1>5

LEMMA HostStepCount ==
  ASSUME IInv, CountInv, NEW r \in Rank, HostStep(r)
  PROVE  CountInv'
<1>1. TypeOK
  BY DEF IInv
<1>2. ASSUME NEW q \in Rank, q # r
      PROVE  /\ finished'[q] = NrCis * Cardinality(ToldLines(q)')
             /\ pc'[q] \in {"args", "matrix"} => change'[q] = 2
             /\ pc'[q] = "done" => finished'[q] >= NrDpusPerRank
  <2>1. ToldLines(q)' = ToldLines(q)
    BY <1>1, <1>2, CountFrame DEF ToldLines
  <2>2. QED
    BY <1>1, <1>2, <2>1, HostFrame, CountFrame DEF CountInv
<1>3. finished'[r] = NrCis * Cardinality(ToldLines(r)')
  <2>1. CASE Claim(r)
    BY <2>1, ClaimCounts
  <2>2. CASE ~Claim(r)
    <3>1. ToldLines(r)' = ToldLines(r)
      BY <2>2, OutStays DEF ToldLines
    <3>2. finished' = finished
      BY <2>2 DEF HostStep, SendFirst, Launch, PollLine, PollEnd, MuxHost, MuxHostEnd, Retrieve,
         SendArgs, SendMatrix, MuxDpu, SetState, RoundEnd
    <3>3. QED
      BY <3>1, <3>2 DEF CountInv
  <2>3. QED
    BY <2>1, <2>2
<1>4. pc'[r] \in {"args", "matrix"} => change'[r] = 2
  <2>1. CASE Claim(r)
    BY <1>1, <2>1 DEF Claim, TypeOK
  <2>2. CASE SendArgs(r)
    BY <1>1, <2>2 DEF SendArgs, CountInv, Goto, TypeOK
  <2>3. CASE ~Claim(r) /\ ~SendArgs(r)
    <3>1. pc'[r] \notin {"args", "matrix"}
      BY <1>1, <2>3 DEF HostStep, SendFirst, Launch, PollLine, PollEnd, MuxHost, MuxHostEnd,
         Retrieve, SendMatrix, MuxDpu, SetState, RoundEnd, Goto, TypeOK
    <3>2. QED
      BY <3>1
  <2>4. QED
    BY <2>1, <2>2, <2>3
<1>5. pc'[r] = "done" => finished'[r] >= NrDpusPerRank
  <2>1. CASE RoundEnd(r)
    BY <1>1, <2>1, Constants DEF RoundEnd, TypeOK
  <2>2. CASE ~RoundEnd(r)
    BY <1>1, <2>2 DEF HostStep, SendFirst, Launch, PollLine, PollEnd, MuxHost, MuxHostEnd,
       Retrieve, Claim, SendArgs, SendMatrix, MuxDpu, SetState, Goto, TypeOK
  <2>3. QED
    BY <2>1, <2>2
<1>6. QED
  BY <1>2, <1>3, <1>4, <1>5 DEF CountInv

\* Only a claim tells a DPU to exit that was not told before.
LEMMA ToldStays ==
  ASSUME IInv, CountInv, NEW r \in Rank, HostStep(r), NEW d \in Dpu, Told(d)'
  PROVE  /\ part'[d] = part[d]
         /\ Told(d) \/ (Claim(r) /\ p_count >= NrPart /\ Holds(d) /\ RankOf(d) = r)
<1>1. /\ TypeOK /\ RankOf(d) \in Rank /\ IgOf(d) \in 0 .. NrIgs - 1 /\ NrIgs \in Nat
      /\ state[d] = 1 => dpuPc[d] = "spin"
      /\ Holds(d) => state[d] = 1
      /\ pc[RankOf(d)] \in {"send", "launch"} => dpuPc[d] = "off"
      /\ p_count \in Nat /\ NrPart \in Nat
  BY Constants DEF IInv, FinishedDpusWait, BanksFollow, Ig, TypeOK
<1>2. CASE RankOf(d) # r
  <2>1. Pending(RankOf(d), IgOf(d))' <=> Pending(RankOf(d), IgOf(d))
    BY <1>1, <1>2, HostFrame, CountFrame DEF Pending
  <2>2. Exit(d)' <=> Exit(d)
    BY <1>1, <1>2, HostFrame DEF Exit
  <2>3. QED
    BY <1>1, <1>2, <2>1, <2>2, HostFrameData DEF Told
<1>3. CASE RankOf(d) = r
  <2> USE <1>1, <1>3 DEF TypeOK, DeviceTypeOK, deviceVars, Goto
  <2>1. CASE SendFirst(r) \/ Launch(r)
    <3>1. /\ dpuPc'[d] \in {"off", "boot"}
          /\ pc'[r] \notin {"muxdpu", "state"}
      BY <2>1 DEF SendFirst, Launch, OFIS_dpu_launch, RankDpus
    <3>2. QED
      BY <3>1 DEF Told, Pending, Exit
  <2>2. CASE SendArgs(r)
    <3>1. Exit(d) /\ ~Holds(d)
      BY <2>2 DEF SendArgs, Told, Pending, Exit
    <3>2. d \notin FinDpus(r)
      BY <2>2, <3>1 DEF SendArgs, FinDpus, Holds
    <3>3. QED
      BY <2>2, <3>1, <3>2 DEF SendArgs, Told
  <2>3. CASE SetState(r)
    <3>1. k[r] \in fin[r] /\ pc[r] = "state" /\ part' = part /\ pc'[r] = "muxdpu"
      BY <2>3 DEF SetState, IInv, BanksFollow
    <3>2. k[r] \in 0 .. NrIgs /\ k'[r] = k[r] + 1 /\ fin' = fin /\ change' = change
      BY <2>3 DEF SetState, NextLine
    <3>3. /\ dpuPc'[d] = dpuPc[d]
          /\ state'[d] = IF IgOf(d) = k[r] THEN change[r] ELSE state[d]
      BY <2>3 DEF SetState, OFIS_set_state_ig, Line
    <3>4. QED
      BY <3>1, <3>2, <3>3 DEF Told, Pending, Exit
  <2>4. CASE Claim(r)
    <3>1. part' = part /\ state' = state /\ dpuPc' = dpuPc /\ pc[r] = "claim" /\ fin' = fin
      BY <2>4 DEF Claim
    <3>2. CASE p_count >= NrPart
      BY <2>4, <3>1, <3>2 DEF Told, Pending, Exit, Holds
    <3>3. CASE ~(p_count >= NrPart)
      <4>1. pc'[r] = "args"
        BY <2>4, <3>3 DEF Claim
      <4>2. QED
        BY <3>1, <4>1 DEF Told, Pending, Exit
    <3>4. QED
      BY <3>2, <3>3
  <2>5. CASE \/ PollLine(r) \/ PollEnd(r) \/ MuxHost(r) \/ MuxHostEnd(r) \/ Retrieve(r)
             \/ SendMatrix(r) \/ MuxDpu(r) \/ RoundEnd(r)
    <3>1. part' = part /\ state' = state /\ dpuPc' = dpuPc
      BY <2>5 DEF PollLine, PollEnd, MuxHost, MuxHostEnd, Retrieve, SendMatrix, MuxDpu, RoundEnd
    <3>2. Pending(r, IgOf(d))' => Pending(r, IgOf(d))
      <4>1. CASE PollLine(r) \/ PollEnd(r) \/ MuxHost(r) \/ MuxHostEnd(r) \/ Retrieve(r)
        BY <4>1 DEF PollLine, PollEnd, MuxHost, MuxHostEnd, Retrieve, Pending
      <4>2. CASE SendMatrix(r)
        BY <4>2 DEF SendMatrix, Pending, CountInv
      <4>3. CASE MuxDpu(r) \/ RoundEnd(r)
        BY <4>3 DEF MuxDpu, AtLine, SkipLine, NextLine, RoundEnd, Pending
      <4>4. QED
        BY <2>5, <4>1, <4>2, <4>3
    <3>3. QED
      BY <3>1, <3>2 DEF Told, Exit
  <2>6. QED
    BY <2>1, <2>2, <2>3, <2>4, <2>5 DEF HostStep
<1>4. QED
  BY <1>2, <1>3

LEMMA HostStepToldLast ==
  ASSUME IInv, DealInv, JoinInv, NEW r \in Rank, HostStep(r)
  PROVE  ToldLast'
<1> SUFFICES ASSUME NEW d \in Dpu, Told(d)'
             PROVE  /\ p_count' >= NrPart
                    /\ part'[d] \in Parts => outvec'[part'[d]] = part'[d]
  BY DEF ToldLast
<1>1. /\ part'[d] = part[d]
      /\ Told(d) \/ (Claim(r) /\ p_count >= NrPart /\ Holds(d) /\ RankOf(d) = r)
  BY ToldStays DEF JoinInv
<1>2. p_count >= NrPart /\ (part[d] \in Parts => outvec[part[d]] = part[d])
  BY <1>1 DEF JoinInv, ToldLast, DealInv, GivenBack, Claim
<1>3. p_count' >= NrPart
  <2>1. p_count \in Nat /\ NrPart \in Nat
    BY Constants DEF IInv, TypeOK
  <2>2. p_count' = p_count
    BY <1>2, <2>1 DEF HostStep, SendFirst, Launch, PollLine, PollEnd, MuxHost, MuxHostEnd,
       Retrieve, Claim, SendArgs, SendMatrix, MuxDpu, SetState, RoundEnd
  <2>3. QED
    BY <1>2, <2>2
<1>4. QED
  BY <1>1, <1>2, <1>3, StoredStays

LEMMA HostStepNothingLost ==
  ASSUME IInv, DealInv, NothingLost, NEW r \in Rank, HostStep(r)
  PROVE  NothingLost'
<1> SUFFICES ASSUME NEW p \in Parts, p < p_count'
             PROVE  \/ outvec'[p] = p
                    \/ \E d \in Dpu : part'[d] = p
                    \/ \E q \in Rank : p \in Reserved(q)'
  BY DEF NothingLost
<1>1. /\ TypeOK /\ p \in Nat /\ p_count \in Nat /\ NrPart \in Nat /\ p < NrPart
      /\ \A q \in Rank \ {r} : Reserved(q)' = Reserved(q)
  BY Constants, ReservedFrame DEF IInv, TypeOK, Parts
<1>2. ~(p < p_count) => Claim(r) /\ p \in Reserved(r)'
  <2> SUFFICES ASSUME ~(p < p_count) PROVE Claim(r) /\ p \in Reserved(r)'
    OBVIOUS
  <2>1. Claim(r)
    BY DEF HostStep, SendFirst, Launch, PollLine, PollEnd, MuxHost, MuxHostEnd,
       Retrieve, SendArgs, SendMatrix, MuxDpu, SetState, RoundEnd
  <2>2. /\ pc'[r] = "args" /\ curr'[r] = p_count /\ fin' = fin
        /\ p_count' = p_count + NrCis * Cardinality(fin[r])
    BY <1>1, <2>1 DEF Claim, TypeOK
  <2>3. NrCis * Cardinality(fin[r]) \in Nat
    BY <1>1, ReportedSize, FS_CardinalityType DEF TypeOK
  <2>4. QED
    BY <1>1, <2>1, <2>2, <2>3 DEF Reserved
<1>3. outvec[p] = p => outvec'[p] = p
  BY StoredStays
<1>4. ASSUME NEW d \in Dpu, part[d] = p
      PROVE  outvec'[p] = p \/ part'[d] = p
  <2>1. CASE SendFirst(r)
    <3>1. d \notin RankDpus(r)
      BY <1>4, <2>1 DEF SendFirst, Goto, RankDpus, DealInv, GivenBack, Parts, None
    <3>2. QED
      BY <1>4, <2>1, <3>1 DEF SendFirst
  <2>2. CASE SendArgs(r)
    <3>1. CASE d \in FinDpus(r)
      <4>1. outvec[p] = p
        BY <1>4, <2>2, <3>1 DEF SendArgs, Goto, FinDpus, Holds, DealInv, GivenBack
      <4>2. QED
        BY <1>3, <4>1
    <3>2. CASE d \notin FinDpus(r)
      BY <1>4, <2>2, <3>2 DEF SendArgs
    <3>3. QED
      BY <3>1, <3>2
  <2>3. CASE ~SendFirst(r) /\ ~SendArgs(r)
    BY <1>4, <2>3 DEF HostStep, Launch, PollLine, PollEnd, MuxHost, MuxHostEnd,
       Retrieve, Claim, SendMatrix, MuxDpu, SetState, RoundEnd
  <2>4. QED
    BY <2>1, <2>2, <2>3
<1>5. ASSUME p \in Reserved(r)
      PROVE  \E d \in Dpu : part'[d] = p
  <2>1. CASE pc[r] = "send"
    <3>1. SendFirst(r)
      BY <2>1 DEF HostStep, Launch, PollLine, PollEnd, MuxHost, MuxHostEnd,
         Retrieve, Claim, SendArgs, SendMatrix, MuxDpu, SetState, RoundEnd, Goto
    <3>2. NrDpusPerRank * r \in Nat /\ NrDpusPerRank \in Nat
      BY Constants DEF Rank
    <3>3. p - NrDpusPerRank * r \in 0 .. NrDpusPerRank - 1
      BY <1>1, <1>5, <2>1, <3>2 DEF Reserved
    <3>4. PICK d \in RankDpus(r) : Pos(d) = p - NrDpusPerRank * r
      BY <3>3, PosCovers
    <3>5. NrDpusPerRank * r + Pos(d) = p /\ d \in Dpu
      BY <1>1, <3>2, <3>4 DEF RankDpus
    <3>6. part'[d] = p
      BY <3>1, <3>5 DEF SendFirst
    <3>7. QED
      BY <3>5, <3>6
  <2>2. CASE pc[r] = "args"
    <3>1. SendArgs(r)
      BY <2>2 DEF HostStep, SendFirst, Launch, PollLine, PollEnd, MuxHost, MuxHostEnd,
         Retrieve, Claim, SendMatrix, MuxDpu, SetState, RoundEnd, Goto
    <3>2. curr[r] \in Nat /\ fin[r] \in SUBSET Ig /\ NrCis * Cardinality(fin[r]) \in Nat
      BY <1>1, ReportedSize, FS_CardinalityType DEF TypeOK
    <3>3. p - curr[r] \in 0 .. NrCis * Cardinality(fin[r]) - 1
      BY <1>1, <1>5, <2>2, <3>2 DEF Reserved
    <3>4. PICK d \in FinDpus(r) : Before(r, d) = p - curr[r]
      BY <3>2, <3>3, BeforeCovers
    <3>5. curr[r] + Before(r, d) = p /\ d \in Dpu
      BY <1>1, <3>2, <3>4 DEF FinDpus
    <3>6. part'[d] = p
      BY <3>1, <3>5 DEF SendArgs
    <3>7. QED
      BY <3>5, <3>6
  <2>3. QED
    BY <1>5, <2>1, <2>2 DEF Reserved
<1>6. QED
  BY <1>1, <1>2, <1>3, <1>4, <1>5 DEF NothingLost

LEMMA NextJoin == IInv /\ DealInv /\ JoinInv /\ [Next]_vars => JoinInv'
<1> SUFFICES ASSUME IInv, DealInv, JoinInv, [Next]_vars PROVE JoinInv'
  OBVIOUS
<1>1. ASSUME NEW r \in Rank, HostStep(r) PROVE JoinInv'
  BY <1>1, HostStepCount, HostStepToldLast, HostStepNothingLost DEF JoinInv
<1>2. CASE UNCHANGED hostVars /\ \A d \in Dpu : Exit(d)' <=> Exit(d)
  <2>1. \A r \in Rank, i \in Ig : Out(r, i)' <=> Out(r, i)
    BY <1>2, LineInhabited DEF hostVars, Out, Pending, Line
  <2>2. \A r \in Rank : ToldLines(r)' = ToldLines(r)
    BY <2>1 DEF ToldLines
  <2>3. CountInv'
    BY <1>2, <2>2 DEF JoinInv, CountInv, hostVars
  <2>4. \A d \in Dpu : Told(d)' <=> Told(d)
    BY <1>2 DEF Told, Pending, hostVars
  <2>5. ToldLast'
    BY <1>2, <2>4 DEF JoinInv, ToldLast, hostVars
  <2>6. NothingLost'
    BY <1>2 DEF JoinInv, NothingLost, Reserved, hostVars
  <2>7. QED
    BY <2>3, <2>5, <2>6 DEF JoinInv
<1>3. ASSUME NEW e \in Dpu, DpuRuns(e) PROVE \A d \in Dpu : Exit(d)' <=> Exit(d)
  BY <1>3 DEF DpuRuns, DpuStep, DpuBoot, DpuEnter, DpuExit, DpuCompute, DpuFinish, Exit,
              IInv, TypeOK, DeviceTypeOK
<1>4. CASE UNCHANGED vars
  BY <1>2, <1>4 DEF vars, deviceVars, hostVars, Exit
<1>5. QED
  BY <1>1, <1>2, <1>3, <1>4 DEF Next, Terminated, DpuRuns

\* A thread that is done has counted every line.
LEMMA DoneTold ==
  ASSUME IInv, JoinInv, NEW r \in Rank, pc[r] = "done", NEW d \in Dpu, RankOf(d) = r
  PROVE  Exit(d)
<1>1. /\ ToldLines(r) \in SUBSET Ig /\ NrCis * Cardinality(ToldLines(r)) >= NrCis * NrIgs
  BY DEF JoinInv, CountInv, ToldLines, NrDpusPerRank
<1>2. IsFiniteSet(Ig) /\ Cardinality(Ig) = NrIgs
  <2>1. NrIgs \in Nat \ {0}
    BY TopologyAssumption
  <2>2. QED
    BY <2>1, FS_Interval DEF Ig
<1>3. Cardinality(ToldLines(r)) \in Nat /\ Cardinality(ToldLines(r)) <= NrIgs
  BY <1>1, <1>2, Finite, FS_Subset
<1>4. ~(Cardinality(ToldLines(r)) < NrIgs)
  <2> SUFFICES ASSUME Cardinality(ToldLines(r)) < NrIgs PROVE FALSE
    OBVIOUS
  <2>1. Cardinality(ToldLines(r)) * NrCis + NrCis <= NrIgs * NrCis
    BY <1>3, Stride, Constants
  <2>2. \A a, b \in Nat : a * b \in Nat /\ a * b = b * a
    OBVIOUS
  <2>3. /\ Cardinality(ToldLines(r)) * NrCis \in Nat /\ NrIgs * NrCis \in Nat
        /\ NrCis * Cardinality(ToldLines(r)) = Cardinality(ToldLines(r)) * NrCis
        /\ NrCis * NrIgs = NrIgs * NrCis
        /\ NrCis \in Nat /\ NrCis > 0
    BY <1>3, <2>2, Constants, TopologyAssumption
  <2>4. QED
    BY <1>1, <2>1, <2>3
<1>5. ToldLines(r) = Ig
  BY <1>1, <1>2, <1>3, <1>4, FS_Subset, Constants
<1>6. IgOf(d) \in Ig /\ d \in Line(r, IgOf(d))
  BY Constants DEF Line
<1>7. QED
  BY <1>5, <1>6 DEF ToldLines, Out, Pending

\* When OFIS_parallel_exec has joined a thread, every DPU of its rank was told to
\* exit; when it has joined them all, output_vec is complete.
THEOREM JoinComplete == Spec => []CompleteAtJoin
<1>1. IInv /\ JoinInv => CompleteAtJoin
  <2> SUFFICES ASSUME IInv, JoinInv PROVE CompleteAtJoin
    OBVIOUS
  <2>1. ASSUME NEW r \in Rank, pc[r] = "done", NEW d \in RankDpus(r) PROVE state[d] = 0
    BY <2>1, DoneTold DEF RankDpus, Exit
  <2>2. ASSUME \A r \in Rank : pc[r] = "done", NEW p \in Parts PROVE outvec[p] = p
    <3>1. \A d \in Dpu : Told(d)
      BY <2>2, DoneTold, Constants DEF Told
    <3>2. p_count >= NrPart
      <4>1. <<0, 0, 0>> \in Dpu
        BY TopologyAssumption DEF Dpu, Rank, Ci, Ig
      <4>2. QED
        BY <3>1, <4>1 DEF JoinInv, ToldLast
    <3>3. p < p_count
      BY <3>2, Constants DEF Parts, IInv, TypeOK
    <3>4. \A r \in Rank : Reserved(r) = {}
      BY <2>2 DEF Reserved
    <3>5. QED
      BY <3>1, <3>3, <3>4 DEF JoinInv, NothingLost, ToldLast
  <2>3. QED
    BY <2>1, <2>2 DEF CompleteAtJoin
<1>2. QED
  BY <1>1, InitDeal, InitJoin, NextDeal, NextJoin, InvariantHolds, PTL DEF Spec
=============================================================================
