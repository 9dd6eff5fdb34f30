---------------------------- MODULE MuxTransfer ----------------------------
(***************************************************************************)
(* MRAM transfers of one rank (ufi/src/ufi_memory.c 161-533): which sides  *)
(* the multiplexers of the banks are moved to before the bytes go, with    *)
(* the library's record of those sides (host_mux_mram_state), the checks   *)
(* against running DPUs (ufi/src/ufi_config.c 1280-1502), the boot that    *)
(* moves them back (ufi/src/ufi_runner.c 18-104), and, in OFIS programs,   *)
(* the calls that move them directly (api/src/api/dpu_runner.c 169-193).   *)
(*                                                                         *)
(* The hardware is modelled from ufi_memory.c 175-196: a pair of lines has *)
(* one multiplexer per control interface, and a write to a line carries    *)
(* bytes for every interface, so that a bank of that line which is on the  *)
(* host's side is written whether or not the matrix has a buffer for it.   *)
(***************************************************************************)
EXTENDS Integers, FiniteSets, Sequences

CONSTANTS
  NrCis, NrLines,   \* control interfaces; DPUs per interface
  Disabled,         \* DPUs the rank's description disables
  Programs,         \* whether a program also uses OFIS_set_mux_*: {FALSE}, {TRUE}
                    \* or both
  Asserts           \* whether the build keeps assertions

Ci   == 0 .. NrCis - 1
Line == 0 .. NrLines - 1
Dpu  == Ci \X Line
Enabled == Dpu \ Disabled

ASSUME MuxTransferAssumption ==
  /\ NrCis \in Nat \ {0}
  /\ NrLines \in Nat \ {0} /\ NrLines % 2 = 0
  /\ Disabled \subseteq Dpu
  /\ \A c \in Ci : \E l \in Line : <<c, l>> \notin Disabled
  /\ Programs \subseteq BOOLEAN
  /\ Asserts \in BOOLEAN

Base   == {l \in Line : l % 2 = 0}     \* dpu_pair_base_id
Pair(l) == {m \in Line : m \div 2 = l \div 2}
On(l)  == {d \in Dpu : d[2] = l}
Side   == {"host", "dpu"}

VARIABLES
  ofis,      \* whether this program uses OFIS_set_mux_*; never changes
  mux,       \* hardware: the side of each DPU's bank
  cache,     \* host_mux_mram_state
  running,   \* run_context.dpu_running
  pc,        \* "idle", "access", "xfer" or, after the failed assertion, "abort"
  todo,      \* transfer matrices still to do: sets of DPUs with a buffer
  write,     \* whether the copy is TO_DPU
  at,        \* pair host_get_access_for_transfer_matrix is at
  missed,    \* banks whose bytes a copy carried past them
  overwritten \* banks that got bytes not meant for them

vars == <<ofis, mux, cache, running, pc, todo, write, at, missed, overwritten>>

TypeOK ==
  /\ ofis \in BOOLEAN
  /\ mux \in [Dpu -> Side]
  /\ cache \in [Dpu -> Side]
  /\ running \subseteq Enabled
  /\ pc \in {"idle", "access", "xfer", "abort"}
  /\ todo \in Seq(SUBSET Enabled) /\ Len(todo) <= 2
  /\ write \in BOOLEAN
  /\ at \in Base \cup {NrLines}
  /\ missed \subseteq Dpu
  /\ overwritten \subseteq Dpu

\* dpu_alloc ends with a reset, which gives every bank to the host.
Init ==
  /\ ofis \in Programs
  /\ mux = [d \in Dpu |-> "host"]
  /\ cache = [d \in Dpu |-> "host"]
  /\ running = {}
  /\ pc = "idle"
  /\ todo = <<>>
  /\ write = FALSE
  /\ at = 0
  /\ missed = {}
  /\ overwritten = {}

-----------------------------------------------------------------------------
(* Moving the multiplexers.                                                *)

\* The sides of the rank after line l was commanded to give the interfaces of
\* mask to the host and the others to the DPUs.
Commanded(sides, lines, mask) ==
  [d \in Dpu |-> IF \E l \in lines : d[2] \in Pair(l)
                 THEN (IF d[1] \in mask THEN "host" ELSE "dpu")
                 ELSE sides[d]]

\* The lines of l's pair whose recorded sides are not those of mask.
Stale(l, mask) ==
  {m \in Pair(l) : \E d \in On(m) : (cache[d] = "host") # (d[1] \in mask)}

LineBusy(l, mask) == \E d \in running : d[2] \in Stale(l, mask)

\* Fault: only the line of the call is recorded, not its pair.
SwitchLineOnce(l, mask) ==
  /\ cache' = [d \in Dpu |-> IF d[2] = l THEN (IF d[1] \in mask THEN "host" ELSE "dpu")
                             ELSE cache[d]]
  /\ mux' = Commanded(mux, Stale(l, mask), mask)

\* Fault: the new sides are not recorded.
SwitchLineUnrecorded(l, mask) ==
  /\ mux' = Commanded(mux, Stale(l, mask), mask)
  /\ UNCHANGED cache

\* dpu_switch_mux_for_dpu_line, past the MRAM_BUSY check.
SwitchLine(l, mask) ==
  /\ cache' = Commanded(cache, Stale(l, mask), mask)
  /\ mux' = Commanded(mux, Stale(l, mask), mask)

\* dpu_switch_mux_for_rank, past the MRAM_BUSY check.
RankStale(side) == \E d \in Dpu : cache[d] # side

SwitchRank(side) ==
  IF RankStale(side)
  THEN /\ cache' = [d \in Dpu |-> side]
       /\ mux' = [d \in Dpu |-> side]
  ELSE UNCHANGED <<cache, mux>>

-----------------------------------------------------------------------------
(* Copies.                                                                 *)

Interfaces(m, l) == {c \in Ci : <<c, l>> \in m}

\* The pairs of line l that duplicate_transfer_matrix compares.
Compared(l) == {c \in Ci : <<c, l>> \in Enabled /\ <<c, l + 1>> \in Enabled}

Mismatch(m, l) == {c \in Compared(l) : (<<c, l>> \in m) # (<<c, l + 1>> \in m)}

\* The interfaces the loop visits: it breaks at the first mismatch, so what it
\* knows of the two lines is what it has seen up to there.
Visited(m, l) ==
  {c \in Compared(l) : \A e \in Mismatch(m, l) : c <= e}

\* duplicate_transfer_matrix
Duplicated(m) ==
  \E l \in Base :
    /\ Mismatch(m, l) # {}
    /\ \E c \in Visited(m, l) : <<c, l>> \in m
    /\ \E c \in Visited(m, l) : <<c, l + 1>> \in m

EvenPart(m) == {d \in m : d[2] \in Base}

\* copy_mram_for_dpus, up to the first access.  An OFIS program has opened the
\* banks it copies to or from.
Copy(m, w) ==
  /\ pc = "idle"
  /\ ofis => \A d \in m : mux[d] = "host"
  /\ pc' = "access"
  /\ at' = 0
  /\ write' = w
  /\ todo' = IF Duplicated(m) THEN <<EvenPart(m), m \ EvenPart(m)>> ELSE <<m>>
  /\ UNCHANGED <<mux, cache, running, missed, overwritten>>

Matrix == Head(todo)

\* Fault: the loop only looks for a buffer in each line.
FullByLine == \A l \in Line : Interfaces(Matrix, l) # {}

\* is_transfer_matrix_full; the halves of a split matrix never are.
Full == Matrix = Enabled

\* A copy that meets a running DPU gives up with MRAM_BUSY.
GiveUp ==
  /\ pc' = "idle"
  /\ todo' = <<>>
  /\ at' = 0
  /\ UNCHANGED <<mux, cache, running, write, missed, overwritten>>

\* Fault: the whole rank is opened without asking whether DPUs run.
AccessRankUnchecked ==
  /\ pc = "access"
  /\ Full
  /\ SwitchRank("host")
  /\ pc' = "xfer"
  /\ UNCHANGED <<running, todo, write, at, missed, overwritten>>

AccessRank ==
  /\ pc = "access"
  /\ Full
  /\ \/ /\ running # {}
        /\ GiveUp
     \/ /\ running = {}
        /\ SwitchRank("host")
        /\ pc' = "xfer"
        /\ UNCHANGED <<running, todo, write, at, missed, overwritten>>

\* One pair of host_get_access_for_transfer_matrix.  Its second call to
\* dpu_switch_mux_for_dpu_line, for the other line, finds nothing to do.
Mask(l) == Interfaces(Matrix, l) \cup Interfaces(Matrix, l + 1)

Conflict(l) ==
  /\ Interfaces(Matrix, l) # {}
  /\ Interfaces(Matrix, l + 1) # {}
  /\ Interfaces(Matrix, l) # Interfaces(Matrix, l + 1)

Unopposed(l) == Mask(l) # {} /\ (Conflict(l) => ~Asserts)

AccessPair ==
  /\ pc = "access"
  /\ ~Full
  /\ at < NrLines
  /\ \/ /\ Mask(at) = {}
        /\ at' = at + 2
        /\ UNCHANGED <<mux, cache, running, pc, todo, write, missed, overwritten>>
     \/ /\ Conflict(at) /\ Asserts
        /\ pc' = "abort"
        /\ UNCHANGED <<mux, cache, running, todo, write, at, missed, overwritten>>
     \/ /\ Unopposed(at) /\ LineBusy(at, Mask(at))
        /\ GiveUp
     \/ /\ Unopposed(at) /\ ~LineBusy(at, Mask(at))
        /\ SwitchLine(at, Mask(at))
        /\ at' = at + 2
        /\ UNCHANGED <<running, pc, todo, write, missed, overwritten>>

AccessDone ==
  /\ pc = "access"
  /\ ~Full
  /\ at = NrLines
  /\ pc' = "xfer"
  /\ UNCHANGED <<mux, cache, running, todo, write, at, missed, overwritten>>

\* do_mram_transfer: the bytes go line by line, through all the interfaces.
PassedBy == {d \in Matrix : mux[d] = "dpu"}
AlsoHit ==
  {d \in Dpu \ Matrix : mux[d] = "host" /\ \E e \in Matrix : e[2] = d[2]}

Transfer ==
  /\ pc = "xfer"
  /\ missed' = missed \cup PassedBy
  /\ overwritten' = overwritten \cup (IF write THEN AlsoHit \cap Enabled ELSE {})
  /\ todo' = Tail(todo)
  /\ at' = 0
  /\ pc' = IF Len(todo) = 1 THEN "idle" ELSE "access"
  /\ UNCHANGED <<mux, cache, running, write>>

-----------------------------------------------------------------------------
(* Runs.  An OFIS program boots with OFIS_dpu_launch, which leaves the      *)
(* record of running DPUs alone, instead.                                  *)

\* dpu_boot_rank
BootRank ==
  /\ ~ofis
  /\ pc = "idle"
  /\ running = {}
  /\ SwitchRank("dpu")
  /\ running' = Enabled
  /\ UNCHANGED <<pc, todo, write, at, missed, overwritten>>

\* dpu_boot_dpu: the other interfaces of the line keep their side.
BootMask(d) == {c \in Ci \ {d[1]} : cache[<<c, d[2]>>] = "host"}

\* Fault: nothing asks whether the DPU is enabled.
BootDpuAny(d) ==
  /\ ~ofis
  /\ pc = "idle"
  /\ d \in Dpu \ running
  /\ ~LineBusy(d[2], BootMask(d))
  /\ SwitchLine(d[2], BootMask(d))
  /\ running' = running \cup {d}
  /\ UNCHANGED <<pc, todo, write, at, missed, overwritten>>

BootDpu(d) ==
  /\ ~ofis
  /\ pc = "idle"
  /\ d \in Enabled \ running
  /\ ~LineBusy(d[2], BootMask(d))
  /\ SwitchLine(d[2], BootMask(d))
  /\ running' = running \cup {d}
  /\ UNCHANGED <<pc, todo, write, at, missed, overwritten>>

\* A DPU stops, and a poll of the rank sees it.
Stop(d) ==
  /\ d \in running
  /\ running' = running \ {d}
  /\ UNCHANGED <<mux, cache, pc, todo, write, at, missed, overwritten>>

-----------------------------------------------------------------------------
(* OFIS calls, OFIS_dpu_launch's rank-wide one included: the hardware moves *)
(* and the record does not.                                                *)

OFIS_set_mux_ig(l, side) ==
  /\ ofis
  /\ pc = "idle"
  /\ mux' = [d \in Dpu |-> IF d[2] \in Pair(l) THEN side ELSE mux[d]]
  /\ UNCHANGED <<cache, running, pc, todo, write, at, missed, overwritten>>

OFIS_set_mux_rank(side) ==
  /\ ofis
  /\ pc = "idle"
  /\ mux' = [d \in Dpu |-> side]
  /\ UNCHANGED <<cache, running, pc, todo, write, at, missed, overwritten>>

Next ==
  /\ \/ \E m \in SUBSET Enabled \ {{}}, w \in BOOLEAN : Copy(m, w)
     \/ AccessRank \/ AccessPair \/ AccessDone \/ Transfer
     \/ BootRank
     \/ \E d \in Dpu : BootDpu(d) \/ Stop(d)
     \/ \E l \in Line, side \in Side : OFIS_set_mux_ig(l, side)
     \/ \E side \in Side : OFIS_set_mux_rank(side)
  /\ UNCHANGED ofis

Spec == Init /\ [][Next]_vars

-----------------------------------------------------------------------------
(* Properties.                                                             *)

\* Every bank a copy is for is open when the bytes pass, also when the copy is
\* split and its first half closed the banks of the second, and when OFIS calls
\* have made the record stale but the program opened the banks it copies.
NothingMissed == missed = {}

\* No copy writes into a bank it is not for (ufi_memory.c 176: "we must take care
\* not overriding MRAMs whose transfer in the matrix is not defined"), as long as
\* the library alone moves the multiplexers.
NothingOverwritten == ~ofis => overwritten = {}

\* The same of every program (README.md 33: "a parallel data transfer is
\* performed only to the specified DPUs or IGs in a rank").
OnlySpecified == overwritten = {}

\* The record of the sides is the truth, after failed copies as well.
RecordTrue == ~ofis => cache = mux

\* A running DPU keeps its bank whatever is copied, booted or refused.
RunningKeepsBank == \A d \in running : mux[d] = "dpu"

\* The matrices that reach host_get_access_for_transfer_matrix have no pair of
\* lines with different interfaces (ufi_memory.c 419, "there should not be any
\* mux conflict", asserted on the next line).
NoMuxConflict == pc # "abort"
=============================================================================
