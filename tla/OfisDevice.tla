----------------------------- MODULE OfisDevice -----------------------------
(***************************************************************************)
(* The ranks of DPUs as an OFIS application sees them: the WRAM variable   *)
(* OFIS_dpu_state of every DPU, the multiplexer that gives an MRAM bank    *)
(* either to the host or to the DPU, the DPU program's main loop, and the  *)
(* OFIS host API that reads and writes them                                *)
(*   (api/src/api/dpu_memory.c 1007-1234, api/src/api/dpu_runner.c         *)
(*    115-192), with the SpMV kernel's main loop (SpMV_OFIS/CSR_dpu.c).    *)
(*                                                                         *)
(* A DPU is <<rank, control interface, line>>: the DPUs with the same      *)
(* number in every control interface of a rank form one line, which the    *)
(* code calls an IG.  The sources fix 8 interfaces and 8 lines.            *)
(*                                                                         *)
(* The multiplexer itself is hardware, modelled from what the host library *)
(* says of it: "MRAM mux is set by pair of DPUs: DPU0-DPU1, DPU2-DPU3,     *)
(* DPU4-DPU5, DPU6-DPU7 have the same mux state" (ufi/src/ufi_memory.c     *)
(* 175), so a command to one line of a pair moves the other one's too.     *)
(*                                                                         *)
(* A partition's data is its number: `args` is the partition described by  *)
(* DPU_INPUT_ARGS in WRAM, `data` the one whose matrix is in MRAM, and     *)
(* `output` the one whose result is in the MRAM output area.               *)
(***************************************************************************)
EXTENDS Integers, FiniteSets

CONSTANTS
  NrRanks,   \* ranks, one OFIS host thread each
  NrCis,     \* control interfaces per rank
  NrIgs,     \* DPU lines per rank, paired 0-1, 2-3, ...
  NrPart     \* partitions of the matrix (csr_m->nr_part)

ASSUME TopologyAssumption ==
  /\ NrRanks \in Nat \ {0}
  /\ NrCis \in Nat \ {0}
  /\ NrIgs \in Nat \ {0}
  /\ NrIgs % 2 = 0
  /\ NrPart \in Nat \ {0}

Rank == 0 .. NrRanks - 1
Ci   == 0 .. NrCis - 1
Ig   == 0 .. NrIgs - 1
Dpu  == Rank \X Ci \X Ig

RankOf(d) == d[1]
IgOf(d)   == d[3]

NrDpusPerRank == NrCis * NrIgs
NrDpus        == NrRanks * NrDpusPerRank

\* The lines whose MRAM banks share one multiplexer.
SamePair(i, j) == i \div 2 = j \div 2

\* Position of a DPU in DPU_FOREACH over its rank: by interface, then by line.
Pos(d) == d[2] * NrIgs + d[3]

None == -1   \* nothing there yet
Junk == -2   \* bytes that are no partition's data

PartOrNone == Nat \cup {None, Junk}

VARIABLES
  state,    \* OFIS_dpu_state of each DPU
  dpuPc,    \* where the DPU's program is
  mux,      \* which side owns the DPU's MRAM bank
  args,     \* partition DPU_INPUT_ARGS describes
  data,     \* partition whose matrix is in MRAM
  output    \* partition whose result is in MRAM

deviceVars == <<state, dpuPc, mux, args, data, output>>

DpuPc == {"off", "boot", "spin", "run", "end", "halted"}

DeviceTypeOK ==
  /\ state \in [Dpu -> 0 .. 2]
  /\ dpuPc \in [Dpu -> DpuPc]
  /\ mux \in [Dpu -> {"host", "dpu"}]
  /\ args \in [Dpu -> PartOrNone]
  /\ data \in [Dpu -> PartOrNone]
  /\ output \in [Dpu -> PartOrNone]

\* A loaded program that has not been booted; the reset of the rank at its
\* allocation gave the banks to the host.
DeviceInit ==
  /\ state = [d \in Dpu |-> 0]
  /\ dpuPc = [d \in Dpu |-> "off"]
  /\ mux = [d \in Dpu |-> "host"]
  /\ args = [d \in Dpu |-> None]
  /\ data = [d \in Dpu |-> None]
  /\ output = [d \in Dpu |-> None]

-----------------------------------------------------------------------------
(* The DPU program, one action per step of its main loop.                  *)

\* main: OFIS_dpu_state = 2.
DpuBoot(d) ==
  /\ dpuPc[d] = "boot"
  /\ state' = [state EXCEPT ![d] = 2]
  /\ dpuPc' = [dpuPc EXCEPT ![d] = "spin"]
  /\ UNCHANGED <<mux, args, data, output>>

\* Both loop conditions read the state: 2 starts a round, 0 leaves main, and
\* 1 keeps the tasklets spinning.
DpuEnter(d) ==
  /\ dpuPc[d] = "spin"
  /\ state[d] = 2
  /\ dpuPc' = [dpuPc EXCEPT ![d] = "run"]
  /\ UNCHANGED <<state, mux, args, data, output>>

\* Fault: the inner loop has no exit of its own and swallows the state 0.
DpuExitSwallowed(d) ==
  /\ dpuPc[d] = "spin"
  /\ state[d] = 0
  /\ UNCHANGED deviceVars

DpuExit(d) ==
  /\ dpuPc[d] = "spin"
  /\ state[d] = 0
  /\ dpuPc' = [dpuPc EXCEPT ![d] = "halted"]
  /\ UNCHANGED <<state, mux, args, data, output>>

\* A padding partition has nr_rows = 0 and writes nothing.
Computed(d) ==
  IF args[d] >= NrPart THEN output[d]
  ELSE IF args[d] = data[d] /\ mux[d] = "dpu" THEN args[d]
  ELSE Junk

DpuCompute(d) ==
  /\ dpuPc[d] = "run"
  /\ output' = [output EXCEPT ![d] = Computed(d)]
  /\ dpuPc' = [dpuPc EXCEPT ![d] = "end"]
  /\ UNCHANGED <<state, mux, args, data>>

\* exec_barrier passed: tasklet 0 sets the state to 1.
DpuFinish(d) ==
  /\ dpuPc[d] = "end"
  /\ state' = [state EXCEPT ![d] = 1]
  /\ dpuPc' = [dpuPc EXCEPT ![d] = "spin"]
  /\ UNCHANGED <<mux, args, data, output>>

DpuStep(d) ==
  DpuBoot(d) \/ DpuEnter(d) \/ DpuExit(d) \/ DpuCompute(d) \/ DpuFinish(d)

-----------------------------------------------------------------------------
(* The host API.  The operators below are conjuncts of a host thread's     *)
(* actions; a thread only ever names its own rank.                         *)

Line(r, i) == {d \in Dpu : RankOf(d) = r /\ IgOf(d) = i}
RankDpus(r) == {d \in Dpu : RankOf(d) = r}

\* One multiplexer per pair of lines.
PairLines(r, i) == {d \in Dpu : RankOf(d) = r /\ SamePair(IgOf(d), i)}

OFIS_set_mux_ig(r, i, dir) ==
  mux' = [d \in Dpu |-> IF d \in PairLines(r, i) THEN dir ELSE mux[d]]

OFIS_set_mux_rank(r, dir) ==
  mux' = [d \in Dpu |-> IF d \in RankDpus(r) THEN dir ELSE mux[d]]

OFIS_set_state_ig(r, i, s) ==
  state' = [d \in Dpu |-> IF d \in Line(r, i) THEN s ELSE state[d]]

OFIS_set_state_rank(r, s) ==
  state' = [d \in Dpu |-> IF d \in RankDpus(r) THEN s ELSE state[d]]

\* All the DPUs of the rank get their banks, then all of them boot.
OFIS_dpu_launch(r) ==
  /\ OFIS_set_mux_rank(r, "dpu")
  /\ dpuPc' = [d \in Dpu |-> IF d \in RankDpus(r) THEN "boot" ELSE dpuPc[d]]

\* OFIS_get_finished_ig, one line: a single command reads the line's state in
\* all the interfaces at once.
LineFinished(r, i) == \A d \in Line(r, i) : state[d] = 1

\* Fault: lines are reported singly, whatever the other line of the pair does.
ReportedSingly(bits) == bits

\* OFIS_get_finished_ig, the result: only complete pairs of lines.
ReportedLines(bits) ==
  {i \in bits : \A j \in Ig : SamePair(i, j) => j \in bits}

\* What a push of partition p leaves in the DPU's MRAM: bytes sent through a
\* bank the DPU owns do not arrive.
MramPushed(d, p) == IF mux[d] = "host" THEN p ELSE Junk

\* What a pull from the DPU's MRAM returns.
MramPull(d) == IF mux[d] = "host" THEN output[d] ELSE Junk
=============================================================================
