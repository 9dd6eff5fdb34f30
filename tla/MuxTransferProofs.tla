------------------------- MODULE MuxTransferProofs -------------------------
(***************************************************************************)
(* A program of the SDK, one that leaves the multiplexers to the library:  *)
(* the library's record of them is the truth and no running DPU loses its  *)
(* bank.  And copies reach the banks they are for and, in a build with     *)
(* assertions, no others.  For ranks of every size, any DPUs disabled and  *)
(* any matrix.                                                             *)
(***************************************************************************)
EXTENDS MuxTransfer, SequenceTheorems, TLAPS

\* A DPU that runs was given its bank, and the record shows what the hardware
\* did: the refusal of LineBusy looks at the lines whose record differs, so it
\* protects the running DPUs only as long as the record is the truth.
BankInv ==
  /\ mux \in [Dpu -> Side]
  /\ cache = mux
  /\ running \subseteq Dpu
  /\ RunningKeepsBank
  /\ at \in Nat

\* A program with OFIS calls boots with OFIS_dpu_launch, which the record of
\* running DPUs does not see.
ProgramInv == ofis \in BOOLEAN /\ (IF ofis THEN running = {} ELSE BankInv)

LEMMA InitProgramInv == Init => ProgramInv
  BY MuxTransferAssumption DEF Init, ProgramInv, BankInv, RunningKeepsBank, Side

\* A line switched for mask keeps the record true, and closes every bank of the
\* line's pair whose interface is not in mask.
LEMMA SwitchLineBanks ==
  ASSUME NEW l \in Line, NEW mask \in SUBSET Ci,
         BankInv, ~LineBusy(l, mask), SwitchLine(l, mask)
  PROVE  /\ mux' \in [Dpu -> Side]
         /\ cache' = mux'
         /\ \A d \in running : mux'[d] = "dpu"
         /\ \A d \in Dpu : d[2] = l /\ d[1] \notin mask => mux'[d] = "dpu"
  <1> USE DEF BankInv, RunningKeepsBank
  <1>1. cache' = mux'
    BY DEF SwitchLine
  <1>2. mux' = [d \in Dpu |-> IF \E m \in Stale(l, mask) : d[2] \in Pair(m)
                              THEN (IF d[1] \in mask THEN "host" ELSE "dpu")
                              ELSE mux[d]]
    BY DEF SwitchLine, Commanded
  <1>3. mux' \in [Dpu -> Side]
    BY <1>2 DEF Side
  <1>4. ASSUME NEW d \in running PROVE mux'[d] = "dpu"
    <2>1. d \in Dpu /\ mux[d] = "dpu" /\ cache[d] = "dpu"
      OBVIOUS
    <2>2. CASE \E m \in Stale(l, mask) : d[2] \in Pair(m)
      <3>1. PICK m \in Stale(l, mask) : d[2] \in Pair(m)
        BY <2>2
      <3>2. d[2] \in Pair(l)
        BY <3>1, MuxTransferAssumption DEF Stale, Pair, Line
      <3>3. d[2] \notin Stale(l, mask)
        BY DEF LineBusy
      <3>4. d \in On(d[2])
        BY <2>1 DEF On
      <3>5. ~((cache[d] = "host") # (d[1] \in mask))
        BY <3>2, <3>3, <3>4 DEF Stale
      <3>6. d[1] \notin mask
        BY <3>5, <2>1
      <3> QED BY <1>2, <2>1, <2>2, <3>6
    <2>3. CASE ~ \E m \in Stale(l, mask) : d[2] \in Pair(m)
      BY <1>2, <2>1, <2>3
    <2> QED BY <2>2, <2>3
  <1>5. ASSUME NEW d \in Dpu, d[2] = l, d[1] \notin mask PROVE mux'[d] = "dpu"
    <2>1. CASE \E m \in Stale(l, mask) : d[2] \in Pair(m)
      BY <1>2, <1>5, <2>1
    <2>2. CASE ~ \E m \in Stale(l, mask) : d[2] \in Pair(m)
      <3>1. l \in Pair(l)
        BY DEF Pair
      <3>2. l \notin Stale(l, mask)
        BY <2>2, <3>1, <1>5
      <3>3. ~((cache[d] = "host") # (d[1] \in mask))
        BY <3>1, <3>2, <1>5 DEF Stale, On
      <3>4. mux[d] = "dpu"
        BY <3>3, <1>5 DEF Side
      <3> QED BY <1>2, <2>2, <3>4
    <2> QED BY <2>1, <2>2
  <1> QED BY <1>1, <1>3, <1>4, <1>5

\* A rank switched while nothing runs.
LEMMA SwitchRankBanks ==
  ASSUME NEW side \in Side, BankInv, SwitchRank(side)
  PROVE  /\ mux' = [d \in Dpu |-> side]
         /\ cache' = mux'
  <1>1. CASE RankStale(side)
    BY <1>1 DEF SwitchRank
  <1>2. CASE ~RankStale(side)
    <2>1. \A d \in Dpu : mux[d] = side
      BY <1>2 DEF RankStale, BankInv
    <2>2. mux' = mux /\ cache' = cache
      BY <1>2 DEF SwitchRank
    <2>3. mux = [d \in Dpu |-> side]
      BY <2>1 DEF BankInv
    <2> QED BY <2>2, <2>3 DEF BankInv
  <1> QED BY <1>1, <1>2

\* The steps of copies and runs, in a program without OFIS calls.
LEMMA NextBankInv ==
  ASSUME ofis = FALSE, BankInv, [Next]_vars
  PROVE  BankInv'
  <1> USE DEF BankInv, RunningKeepsBank
  <1>1. CASE UNCHANGED <<mux, cache, running>> /\ at' \in Nat
    BY <1>1
  <1>2. CASE \E m \in SUBSET Enabled \ {{}}, w \in BOOLEAN : Copy(m, w)
    <2>1. UNCHANGED <<mux, cache, running>> /\ at' = 0
      BY <1>2 DEF Copy
    <2> QED BY <2>1, <1>1
  <1>3. CASE AccessRank
    <2>1. CASE GiveUp
      BY <2>1, <1>1 DEF GiveUp
    <2>2. CASE running = {} /\ SwitchRank("host") /\ UNCHANGED <<running, at>>
      BY <2>2, SwitchRankBanks DEF Side
    <2> QED BY <1>3, <2>1, <2>2 DEF AccessRank
  <1>4. CASE AccessPair
    <2>1. CASE UNCHANGED <<mux, cache, running>> /\ at' \in Nat
      BY <2>1, <1>1
    <2>2. CASE /\ at < NrLines
               /\ ~LineBusy(at, Mask(at))
               /\ SwitchLine(at, Mask(at))
               /\ UNCHANGED running
               /\ at' = at + 2
      <3>1. Mask(at) \in SUBSET Ci
        BY DEF Mask, Interfaces
      <3>2. at \in Line /\ at' \in Nat
        BY <2>2, MuxTransferAssumption DEF Line
      <3> QED BY <2>2, <3>1, <3>2, SwitchLineBanks
    <2> QED BY <1>4, <2>1, <2>2 DEF AccessPair, GiveUp
  <1>5. CASE AccessDone \/ Transfer
    BY <1>5, <1>1 DEF AccessDone, Transfer
  <1>6. CASE BootRank
    <2>1. SwitchRank("dpu") /\ running' = Enabled /\ at' = at
      BY <1>6 DEF BootRank
    <2>2. mux' = [d \in Dpu |-> "dpu"] /\ cache' = mux'
      BY <2>1, SwitchRankBanks DEF Side
    <2> QED BY <2>1, <2>2 DEF Enabled, Side
  <1>7. ASSUME NEW d \in Dpu, BootDpu(d) PROVE BankInv'
    <2>1. /\ ~LineBusy(d[2], BootMask(d))
          /\ SwitchLine(d[2], BootMask(d))
          /\ running' = running \cup {d}
          /\ at' = at
      BY <1>7 DEF BootDpu
    <2>2. d[2] \in Line /\ BootMask(d) \in SUBSET Ci /\ d[1] \notin BootMask(d)
      BY DEF Dpu, BootMask
    <2>3. /\ mux' \in [Dpu -> Side]
          /\ cache' = mux'
          /\ \A e \in running : mux'[e] = "dpu"
          /\ mux'[d] = "dpu"
      BY <2>1, <2>2, SwitchLineBanks
    <2> QED BY <2>1, <2>3
  <1>8. ASSUME NEW d \in Dpu, Stop(d) PROVE BankInv'
    BY <1>8 DEF Stop
  <1>9. CASE \/ \E l \in Line, side \in Side : OFIS_set_mux_ig(l, side)
             \/ \E side \in Side : OFIS_set_mux_rank(side)
    BY <1>9 DEF OFIS_set_mux_ig, OFIS_set_mux_rank
  <1>10. CASE UNCHANGED vars
    BY <1>10, <1>1 DEF vars
  <1> QED
    BY <1>2, <1>3, <1>4, <1>5, <1>6, <1>7, <1>8, <1>9, <1>10 DEF Next

\* With OFIS calls nothing ever counts as running.
LEMMA NextOfis ==
  ASSUME ofis = TRUE, running = {}, [Next]_vars
  PROVE  running' = {}
  <1>1. CASE \E m \in SUBSET Enabled \ {{}}, w \in BOOLEAN : Copy(m, w)
    BY <1>1 DEF Copy
  <1>2. CASE AccessRank \/ AccessPair \/ AccessDone \/ Transfer
    BY <1>2 DEF AccessRank, AccessPair, AccessDone, Transfer, GiveUp
  <1>3. CASE BootRank
    BY <1>3 DEF BootRank
  <1>4. CASE \E d \in Dpu : BootDpu(d) \/ Stop(d)
    BY <1>4 DEF BootDpu, Stop
  <1>5. CASE \/ \E l \in Line, side \in Side : OFIS_set_mux_ig(l, side)
             \/ \E side \in Side : OFIS_set_mux_rank(side)
    BY <1>5 DEF OFIS_set_mux_ig, OFIS_set_mux_rank
  <1>6. CASE UNCHANGED vars
    BY <1>6 DEF vars
  <1> QED BY <1>1, <1>2, <1>3, <1>4, <1>5, <1>6 DEF Next

LEMMA ProgramInvHolds == Spec => []ProgramInv
  <1>1. ProgramInv /\ [Next]_vars => ProgramInv'
    <2> SUFFICES ASSUME ProgramInv, [Next]_vars PROVE ProgramInv'
      OBVIOUS
    <2>1. ofis' = ofis
      BY DEF Next, vars
    <2>2. CASE ofis = TRUE
      BY <2>1, <2>2, NextOfis DEF ProgramInv
    <2>3. CASE ofis = FALSE
      BY <2>1, <2>3, NextBankInv DEF ProgramInv
    <2> QED BY <2>2, <2>3 DEF ProgramInv
  <1> QED BY <1>1, InitProgramInv, PTL DEF Spec

\* host_mux_mram_state "contains the state of all the MRAM muxes"
\* (commons/include/dpu_rank.h), after refused copies and boots as well, in a
\* program without OFIS calls.
THEOREM RecordIsTrue == Spec => []RecordTrue
  <1>1. ProgramInv => RecordTrue
    BY DEF ProgramInv, BankInv, RecordTrue
  <1> QED BY <1>1, ProgramInvHolds, PTL

\* No copy and no boot takes the bank of a DPU that the library knows to run.
THEOREM RunningDpusKeepBanks == Spec => []RunningKeepsBank
  <1>1. ProgramInv => RunningKeepsBank
    BY DEF ProgramInv, BankInv, RunningKeepsBank
  <1> QED BY <1>1, ProgramInvHolds, PTL

-----------------------------------------------------------------------------
(* The copies.                                                             *)

\* A pair of lines whose banks are to be copied is as the program opened it, or
\* was moved by the library, which then knows its sides.  A split copy needs
\* this of the second half's banks, which the first half may have closed.
PairKnown(l) ==
  \/ \A i \in DOMAIN todo : \A d \in todo[i] : d[2] \in Pair(l) => mux[d] = "host"
  \/ \A d \in Dpu : d[2] \in Pair(l) => cache[d] = mux[d]

\* Lines that host_get_access_for_transfer_matrix is done with.
Passed(l) == pc = "xfer" \/ (pc = "access" /\ l < at)

Opened == \A d \in Matrix : Passed(d[2]) => mux[d] = "host"

Closed ==
  Matrix = Enabled \/
  \A d \in Dpu \ Matrix : \A e \in Matrix :
    d[2] = e[2] /\ Passed(d[2]) => mux[d] = "dpu"

CopyInv ==
  /\ TypeOK
  /\ pc = "idle" => todo = <<>>
  /\ pc \in {"access", "xfer"} => todo # <<>> /\ Opened
  /\ \A l \in Line : PairKnown(l)
  /\ missed = {}

CloseInv ==
  Asserts /\ ~ofis =>
    /\ pc \in {"access", "xfer"} => Closed
    /\ overwritten = {}

-----------------------------------------------------------------------------
(* What moving the multiplexers does.                                      *)

\* Outside of l's pair nothing moves; inside, either nothing moves because the
\* record shows what is wanted, or both the banks and the record become it.
LEMMA SwitchLineEffect ==
  ASSUME NEW l \in Line, NEW mask \in SUBSET Ci, SwitchLine(l, mask),
         mux \in [Dpu -> Side], cache \in [Dpu -> Side]
  PROVE  /\ mux' \in [Dpu -> Side] /\ cache' \in [Dpu -> Side]
         /\ \A d \in Dpu : d[2] \notin Pair(l) => mux'[d] = mux[d] /\ cache'[d] = cache[d]
         /\ \A d \in Dpu : d[2] \in Pair(l) =>
              cache'[d] = IF d[1] \in mask THEN "host" ELSE "dpu"
         /\ \/ \A d \in Dpu : d[2] \in Pair(l) => mux'[d] = cache'[d]
            \/ UNCHANGED <<mux, cache>>
  <1> DEFINE Moved(d) == \E m \in Stale(l, mask) : d[2] \in Pair(m)
  <1>1. /\ mux' = [d \in Dpu |-> IF Moved(d) THEN (IF d[1] \in mask THEN "host" ELSE "dpu")
                                ELSE mux[d]]
        /\ cache' = [d \in Dpu |-> IF Moved(d) THEN (IF d[1] \in mask THEN "host" ELSE "dpu")
                                  ELSE cache[d]]
    BY DEF SwitchLine, Commanded
  <1>2. \A m \in Stale(l, mask) : Pair(m) = Pair(l)
    BY MuxTransferAssumption DEF Stale, Pair, Line
  <1>3. CASE Stale(l, mask) = {}
    <2>1. \A d \in Dpu : ~Moved(d)
      BY <1>3
    <2>2. mux' = mux /\ cache' = cache
      BY <1>1, <2>1
    <2>3. \A d \in Dpu : d[2] \in Pair(l) => ((cache[d] = "host") <=> (d[1] \in mask))
      BY <1>3 DEF Stale, On
    <2>4. \A d \in Dpu : cache[d] \in {"host", "dpu"}
      BY DEF Side
    <2> QED BY <2>2, <2>3, <2>4
  <1>4. CASE Stale(l, mask) # {}
    <2>1. \A d \in Dpu : Moved(d) <=> d[2] \in Pair(l)
      BY <1>2, <1>4
    <2> QED BY <1>1, <2>1 DEF Side
  <1> QED BY <1>3, <1>4

LEMMA SwitchRankEffect ==
  ASSUME NEW side \in Side, SwitchRank(side),
         mux \in [Dpu -> Side], cache \in [Dpu -> Side]
  PROVE  /\ mux' \in [Dpu -> Side] /\ cache' \in [Dpu -> Side]
         /\ \A d \in Dpu : cache'[d] = side
         /\ mux' = cache' \/ UNCHANGED <<mux, cache>>
  BY DEF SwitchRank, RankStale

LEMMA InitCopyInv == Init => CopyInv /\ CloseInv
  <1> SUFFICES ASSUME Init PROVE CopyInv /\ CloseInv
    OBVIOUS
  <1>1. TypeOK
    <2>1. 0 \in Base
      BY MuxTransferAssumption DEF Base, Line
    <2>2. <<>> \in Seq(SUBSET Enabled) /\ Len(<<>>) = 0
      OBVIOUS
    <2>3. todo \in Seq(SUBSET Enabled) /\ Len(todo) <= 2
      BY <2>2 DEF Init
    <2>4. mux \in [Dpu -> Side] /\ cache \in [Dpu -> Side]
      BY DEF Init, Side
    <2> QED BY <2>1, <2>3, <2>4, MuxTransferAssumption DEF Init, TypeOK
  <1> QED BY <1>1 DEF Init, CopyInv, CloseInv, PairKnown

-----------------------------------------------------------------------------
(* Every step keeps both.                                                  *)

LEMMA CopyKeeps ==
  ASSUME CopyInv, CloseInv, ProgramInv,
         NEW m \in SUBSET Enabled \ {{}}, NEW w \in BOOLEAN, Copy(m, w), ofis' = ofis
  PROVE  CopyInv' /\ CloseInv'
  <1> USE DEF CopyInv
  <1>1. /\ pc' = "access" /\ at' = 0 /\ write' = w
        /\ UNCHANGED <<mux, cache, running, missed, overwritten>>
        /\ todo' \in {<<m>>, <<EvenPart(m), m \ EvenPart(m)>>}
    BY DEF Copy
  <1>2. EvenPart(m) \subseteq m
    BY DEF EvenPart
  <1>3. /\ todo' \in Seq(SUBSET Enabled) /\ Len(todo') <= 2 /\ todo' # <<>>
        /\ \A i \in DOMAIN todo' : todo'[i] \subseteq m
    <2>1. m \in SUBSET Enabled /\ EvenPart(m) \in SUBSET Enabled /\ m \ EvenPart(m) \in SUBSET Enabled
      BY <1>2
    <2>2. CASE todo' = <<m>>
      BY <2>1, <2>2
    <2>3. CASE todo' = <<EvenPart(m), m \ EvenPart(m)>>
      BY <1>2, <2>1, <2>3
    <2> QED BY <1>1, <2>2, <2>3
  <1>4. 0 \in Base
    BY MuxTransferAssumption DEF Base, Line
  <1>5. TypeOK'
    BY <1>1, <1>3, <1>4 DEF TypeOK
  <1>6. Matrix' \subseteq Dpu
    BY <1>3 DEF Matrix, Enabled
  <1>7. \A d \in Dpu : ~(Passed(d[2])')
    BY <1>1 DEF Passed, Dpu, Line
  <1>8. Opened' /\ Closed'
    BY <1>6, <1>7 DEF Opened, Closed
  <1>9. ASSUME NEW l \in Line PROVE PairKnown(l)'
    <2>1. CASE ofis
      <3>1. \A d \in m : mux[d] = "host"
        BY <2>1 DEF Copy
      <3> QED BY <1>1, <1>3, <3>1 DEF PairKnown
    <2>2. CASE ~ofis
      BY <1>1, <2>2 DEF PairKnown, ProgramInv, BankInv
    <2> QED BY <2>1, <2>2
  <1> QED BY <1>1, <1>3, <1>5, <1>8, <1>9 DEF CloseInv

\* A refused copy leaves no matrix.
LEMMA GiveUpKeeps ==
  ASSUME CopyInv, CloseInv, GiveUp, ofis' = ofis
  PROVE  CopyInv' /\ CloseInv'
  <1>1. 0 \in Base
    BY MuxTransferAssumption DEF Base, Line
  <1>2. <<>> \in Seq(SUBSET Enabled) /\ Len(<<>>) = 0
    OBVIOUS
  <1>3. TypeOK'
    BY <1>1, <1>2 DEF CopyInv, GiveUp, TypeOK
  <1>4. \A l \in Line : PairKnown(l)'
    BY DEF GiveUp, PairKnown
  <1> QED BY <1>3, <1>4 DEF CopyInv, CloseInv, GiveUp

LEMMA AccessRankKeeps ==
  ASSUME CopyInv, CloseInv, AccessRank, ofis' = ofis
  PROVE  CopyInv' /\ CloseInv'
  <1>1. CASE GiveUp
    BY <1>1, GiveUpKeeps
  <1>2. CASE SwitchRank("host") /\ pc' = "xfer" /\ UNCHANGED <<running, todo, write, at, missed, overwritten>>
    <2> USE DEF CopyInv
    <2>1. pc = "access" /\ Full
      BY DEF AccessRank
    <2>2. /\ mux' \in [Dpu -> Side] /\ cache' \in [Dpu -> Side]
          /\ \A d \in Dpu : cache'[d] = "host"
          /\ mux' = cache' \/ UNCHANGED <<mux, cache>>
      BY <1>2, SwitchRankEffect DEF TypeOK, Side
    <2>3. TypeOK'
      BY <1>2, <2>2 DEF TypeOK
    <2>4. \A l \in Line : PairKnown(l)'
      BY <1>2, <2>2 DEF PairKnown
    <2>5. todo[1] = Enabled /\ 1 \in DOMAIN todo /\ Matrix' = Enabled
      BY <1>2, <2>1 DEF Full, Matrix, TypeOK
    <2>6. ASSUME NEW d \in Enabled PROVE mux'[d] = "host"
      <3>1. d[2] \in Line /\ d \in Dpu
        BY DEF Enabled, Dpu
      <3>2. d[2] \in Pair(d[2])
        BY <3>1 DEF Pair
      <3>3. PairKnown(d[2])
        BY <3>1
      <3> QED BY <2>2, <2>5, <3>1, <3>2, <3>3 DEF PairKnown
    <2>7. Opened' /\ Closed'
      BY <2>5, <2>6 DEF Opened, Closed
    <2> QED BY <1>2, <2>1, <2>3, <2>4, <2>7 DEF CloseInv
  <1> QED BY <1>1, <1>2 DEF AccessRank

\* One pair: the lines below stay as they are, and those of the pair become what
\* the matrix wants of them.
LEMMA AccessPairKeeps ==
  ASSUME CopyInv, CloseInv, ProgramInv, AccessPair, ofis' = ofis
  PROVE  CopyInv' /\ CloseInv'
  <1> USE DEF CopyInv
  <1>1. /\ at \in Base /\ at \in Line /\ at + 1 \in Line /\ at + 2 \in Base \cup {NrLines}
        /\ Pair(at) = {at, at + 1}
        /\ pc = "access" /\ ~Full
    BY MuxTransferAssumption DEF AccessPair, TypeOK, Base, Line, Pair
  <1>2. /\ todo # <<>> /\ Matrix \in SUBSET Enabled /\ 1 \in DOMAIN todo /\ Matrix = todo[1]
    BY <1>1 DEF TypeOK, Matrix
  <1>3. CASE Mask(at) = {} /\ at' = at + 2 /\ UNCHANGED <<mux, cache, running, pc, todo, write, missed, overwritten>>
    <2>1. TypeOK'
      BY <1>1, <1>3 DEF TypeOK
    <2>2. \A l \in Line : PairKnown(l)'
      BY <1>3 DEF PairKnown
    <2>3. \A d \in Matrix : d[2] \in Line /\ d[1] \in Ci /\ d = <<d[1], d[2]>>
      BY <1>2 DEF Enabled, Dpu
    <2>4. \A d \in Matrix : d[2] # at /\ d[2] # at + 1
      BY <1>3, <2>3 DEF Mask, Interfaces
    <2>5. \A d \in Matrix : d[2] < at + 2 => d[2] < at
      BY <1>1, <2>3, <2>4 DEF Line
    <2>6. Matrix' = Matrix
      BY <1>3 DEF Matrix
    <2>7. Opened'
      BY <1>1, <1>3, <2>5, <2>6 DEF Opened, Passed
    <2>8. Closed => Closed'
      BY <1>1, <1>3, <2>5, <2>6 DEF Closed, Passed
    <2> QED BY <1>1, <1>2, <1>3, <2>1, <2>2, <2>7, <2>8 DEF CloseInv
  <1>4. CASE Asserts /\ pc' = "abort" /\ UNCHANGED <<mux, cache, running, todo, write, at, missed, overwritten>>
    <2>1. TypeOK'
      BY <1>4 DEF TypeOK
    <2>2. \A l \in Line : PairKnown(l)'
      BY <1>4 DEF PairKnown
    <2> QED BY <1>4, <2>1, <2>2 DEF CloseInv
  <1>5. CASE GiveUp
    BY <1>5, GiveUpKeeps
  <1>6. CASE /\ Unopposed(at)
             /\ SwitchLine(at, Mask(at))
             /\ at' = at + 2
             /\ UNCHANGED <<running, pc, todo, write, missed, overwritten>>
    <2> DEFINE mask == Mask(at)
    <2>1. mask \in SUBSET Ci
      BY DEF Mask, Interfaces
    <2>2. /\ mux' \in [Dpu -> Side] /\ cache' \in [Dpu -> Side]
          /\ \A d \in Dpu : d[2] \notin Pair(at) => mux'[d] = mux[d] /\ cache'[d] = cache[d]
          /\ \A d \in Dpu : d[2] \in Pair(at) =>
               cache'[d] = IF d[1] \in mask THEN "host" ELSE "dpu"
          /\ \/ \A d \in Dpu : d[2] \in Pair(at) => mux'[d] = cache'[d]
             \/ UNCHANGED <<mux, cache>>
      BY <1>1, <1>6, <2>1, SwitchLineEffect DEF TypeOK
    <2>3. TypeOK'
      BY <1>1, <1>6, <2>2 DEF TypeOK
    <2>4. Matrix' = Matrix
      BY <1>6 DEF Matrix
    <2>5. \A d \in Matrix : d \in Dpu /\ d[2] \in Line /\ d[1] \in Ci /\ d = <<d[1], d[2]>>
      BY <1>2 DEF Enabled, Dpu
    <2>6. \A i \in DOMAIN todo : todo[i] \subseteq Dpu
      BY DEF TypeOK, Enabled
    <2>7. ASSUME NEW l \in Line PROVE PairKnown(l)'
      <3>1. CASE UNCHANGED <<mux, cache>>
        BY <1>6, <3>1 DEF PairKnown
      <3>2. CASE \A d \in Dpu : d[2] \in Pair(at) => mux'[d] = cache'[d]
        <4>1. CASE l \in Pair(at)
          <5>1. Pair(l) = Pair(at)
            BY <1>1, <4>1, MuxTransferAssumption DEF Pair, Line
          <5> QED BY <3>2, <5>1 DEF PairKnown
        <4>2. CASE l \notin Pair(at)
          <5>1. \A j \in Pair(l) : j \notin Pair(at)
            BY <1>1, <4>2, MuxTransferAssumption DEF Pair, Line
          <5>2. todo' = todo
            BY <1>6
          <5>3. \A d \in Dpu : d[2] \in Pair(l) => mux'[d] = mux[d] /\ cache'[d] = cache[d]
            BY <2>2, <5>1
          <5>4. PairKnown(l)
            OBVIOUS
          <5> QED BY <2>6, <5>2, <5>3, <5>4 DEF PairKnown
        <4> QED BY <4>1, <4>2
      <3> QED BY <2>2, <3>1, <3>2
    <2>8. \A d \in Dpu : Passed(d[2])' => d[2] \in Pair(at) \/ (Passed(d[2]) /\ d[2] \notin Pair(at))
      <3>1. \A d \in Dpu : d[2] \in Line
        BY DEF Dpu
      <3> QED BY <1>1, <1>6, <3>1 DEF Passed, Line
    <2>9. ASSUME NEW d \in Matrix, d[2] \in Pair(at) PROVE d[1] \in mask /\ mux'[d] = "host"
      <3>1. d[1] \in mask
        BY <1>1, <2>5, <2>9 DEF Mask, Interfaces
      <3>2. cache'[d] = "host"
        BY <2>2, <2>5, <2>9, <3>1
      <3>3. CASE \A e \in Dpu : e[2] \in Pair(at) => mux'[e] = cache'[e]
        BY <2>5, <2>9, <3>1, <3>2, <3>3
      <3>4. CASE UNCHANGED <<mux, cache>>
        <4>1. PairKnown(at)
          BY <1>1
        <4> QED BY <1>2, <2>5, <2>9, <3>1, <3>2, <3>4, <4>1 DEF PairKnown
      <3> QED BY <2>2, <3>3, <3>4
    <2>10. Opened'
      <3>1. \A d \in Matrix : Passed(d[2])' => mux'[d] = "host"
        <4> SUFFICES ASSUME NEW d \in Matrix, Passed(d[2])' PROVE mux'[d] = "host"
          OBVIOUS
        <4>1. CASE d[2] \in Pair(at)
          BY <2>9, <4>1
        <4>2. CASE Passed(d[2]) /\ d[2] \notin Pair(at)
          BY <1>1, <2>2, <2>5, <4>2 DEF Opened
        <4> QED BY <2>5, <2>8, <4>1, <4>2
      <3> QED BY <2>4, <3>1 DEF Opened
    <2>11. ASSUME Asserts, ~ofis, Closed PROVE Closed'
      <3>1. CASE Matrix = Enabled
        BY <2>4, <3>1 DEF Closed, Enabled
      <3>2. ASSUME Matrix # Enabled, NEW d \in Dpu \ Matrix, NEW e \in Matrix,
                   d[2] = e[2], Passed(d[2])'
            PROVE  mux'[d] = "dpu"
        <4>1. CASE Passed(d[2]) /\ d[2] \notin Pair(at)
          BY <2>2, <2>11, <3>2, <4>1 DEF Closed
        <4>2. CASE d[2] \in Pair(at)
          <5>1. d[1] \notin Interfaces(Matrix, d[2]) /\ Interfaces(Matrix, d[2]) # {}
            <6>1. d = <<d[1], d[2]>> /\ e[1] \in Ci /\ e = <<e[1], d[2]>>
              BY <2>5, <3>2 DEF Dpu
            <6> QED BY <3>2, <6>1 DEF Interfaces
          <5>2. mask = Interfaces(Matrix, d[2])
            BY <1>1, <1>6, <2>11, <4>2, <5>1 DEF Unopposed, Conflict, Mask
          <5>3. cache'[d] = "dpu"
            BY <2>2, <4>2, <5>1, <5>2
          <5>4. cache = mux
            BY <2>11 DEF ProgramInv, BankInv
          <5> QED BY <2>2, <4>2, <5>3, <5>4
        <4> QED BY <2>8, <3>2, <4>1, <4>2
      <3> QED BY <2>4, <3>1, <3>2 DEF Closed
    <2> QED BY <1>1, <1>2, <1>6, <2>3, <2>7, <2>10, <2>11 DEF CloseInv
  <1> QED BY <1>3, <1>4, <1>5, <1>6 DEF AccessPair

LEMMA AccessDoneKeeps ==
  ASSUME CopyInv, CloseInv, AccessDone, ofis' = ofis
  PROVE  CopyInv' /\ CloseInv'
  <1> USE DEF CopyInv
  <1>1. /\ pc = "access" /\ at = NrLines /\ pc' = "xfer"
        /\ UNCHANGED <<mux, cache, running, todo, write, at, missed, overwritten>>
    BY DEF AccessDone
  <1>2. TypeOK' /\ \A l \in Line : PairKnown(l)'
    BY <1>1 DEF TypeOK, PairKnown
  <1>3. todo # <<>> /\ Matrix \subseteq Dpu /\ Matrix' = Matrix
    BY <1>1 DEF TypeOK, Matrix, Enabled
  <1>4. \A d \in Dpu : Passed(d[2])
    BY <1>1, MuxTransferAssumption DEF Passed, Dpu, Line
  <1>5. Opened'
    BY <1>1, <1>3, <1>4 DEF Opened
  <1>6. Closed => Closed'
    BY <1>1, <1>3, <1>4 DEF Closed, Enabled
  <1> QED BY <1>1, <1>2, <1>3, <1>5, <1>6 DEF CloseInv

\* What is left of the matrices once the first is done.
LEMMA ShorterTail ==
  ASSUME NEW S, NEW s \in Seq(S), s # <<>>, Len(s) <= 2, NEW r, r = Tail(s)
  PROVE  /\ r \in Seq(S) /\ Len(r) = Len(s) - 1 /\ Len(s) \in 1 .. 2
         /\ \A i \in DOMAIN r : i + 1 \in DOMAIN s /\ r[i] = s[i + 1]
  <1>1. /\ r \in Seq(S) /\ Len(r) = Len(s) - 1
        /\ \A i \in 1 .. Len(r) : r[i] = s[i + 1]
    BY HeadTailProperties
  <1>2. Len(s) \in Nat /\ Len(r) \in Nat /\ DOMAIN r = 1 .. Len(r) /\ DOMAIN s = 1 .. Len(s)
    BY <1>1
  <1>3. Len(s) \in 1 .. 2
    BY <1>1, <1>2
  <1> QED BY <1>1, <1>2, <1>3

\* No byte passes by a bank it is for; a second half finds its pairs known.
LEMMA TransferKeeps ==
  ASSUME CopyInv, CloseInv, Transfer, ofis' = ofis
  PROVE  CopyInv' /\ CloseInv'
  <1> USE DEF CopyInv
  <1>1. pc = "xfer" /\ todo # <<>> /\ Opened
    BY DEF Transfer
  <1>2. \A d \in Matrix : mux[d] = "host"
    BY <1>1 DEF Opened, Passed
  <1>3. PassedBy = {} /\ missed' = {}
    BY <1>2 DEF PassedBy, Transfer
  <1>4. /\ todo' = Tail(todo) /\ at' = 0 /\ UNCHANGED <<mux, cache, running, write>>
        /\ pc' = IF Len(todo) = 1 THEN "idle" ELSE "access"
        /\ overwritten' = overwritten \cup (IF write THEN AlsoHit \cap Enabled ELSE {})
    BY DEF Transfer
  <1>5. /\ todo' \in Seq(SUBSET Enabled) /\ Len(todo') = Len(todo) - 1 /\ Len(todo) \in 1 .. 2
        /\ \A i \in DOMAIN todo' : i + 1 \in DOMAIN todo /\ todo'[i] = todo[i + 1]
    <2>1. todo \in Seq(SUBSET Enabled) /\ todo # <<>> /\ Len(todo) <= 2
      BY <1>1 DEF TypeOK
    <2>2. todo' = Tail(todo)
      BY <1>4
    <2> QED BY ONLY <2>1, <2>2, ShorterTail
  <1>6. 0 \in Base
    BY MuxTransferAssumption DEF Base, Line
  <1>7. overwritten' \subseteq Dpu
    BY <1>4 DEF TypeOK, Enabled
  <1>8. TypeOK'
    BY <1>3, <1>4, <1>5, <1>6, <1>7 DEF TypeOK
  <1>9. \A l \in Line : PairKnown(l)'
    BY <1>4, <1>5 DEF PairKnown
  <1>10. pc' = "idle" => todo' = <<>>
    BY <1>4, <1>5
  <1>11. ASSUME pc' # "idle" PROVE todo' # <<>> /\ Opened' /\ Closed'
    <2>1. pc' = "access" /\ todo' # <<>> /\ Matrix' \subseteq Dpu
      BY <1>4, <1>5, <1>11 DEF Matrix, Enabled
    <2>2. \A d \in Dpu : ~(Passed(d[2])')
      BY <1>4, <2>1 DEF Passed, Dpu, Line
    <2> QED BY <2>1, <2>2 DEF Opened, Closed
  <1>12. ASSUME Asserts, ~ofis PROVE overwritten' = {}
    <2>1. Closed /\ overwritten = {}
      BY <1>1, <1>12 DEF CloseInv
    <2>2. AlsoHit \cap Enabled = {}
      BY <1>1, <2>1 DEF Closed, Passed, AlsoHit
    <2> QED BY <1>4, <2>1, <2>2
  <1> QED BY <1>3, <1>4, <1>8, <1>9, <1>10, <1>11, <1>12 DEF CloseInv

\* Boots, stops and OFIS calls: boots and OFIS calls come between copies.
LEMMA RunKeeps ==
  ASSUME CopyInv, CloseInv, ofis' = ofis,
         \/ BootRank
         \/ \E d \in Dpu : BootDpu(d) \/ Stop(d)
         \/ \E l \in Line, side \in Side : OFIS_set_mux_ig(l, side)
         \/ \E side \in Side : OFIS_set_mux_rank(side)
  PROVE  CopyInv' /\ CloseInv'
  <1> USE DEF CopyInv
  <1>1. ASSUME pc = "idle", mux' \in [Dpu -> Side], cache' \in [Dpu -> Side], running' \subseteq Enabled,
               UNCHANGED <<pc, todo, write, at, missed, overwritten>>
        PROVE  CopyInv' /\ CloseInv'
    <2>1. TypeOK'
      BY <1>1 DEF TypeOK
    <2>2. \A l \in Line : PairKnown(l)'
      BY <1>1 DEF PairKnown
    <2> QED BY <1>1, <2>1, <2>2 DEF CloseInv
  <1>2. CASE BootRank
    BY <1>1, <1>2, SwitchRankEffect DEF BootRank, TypeOK, Side
  <1>3. ASSUME NEW d \in Dpu, BootDpu(d) PROVE CopyInv' /\ CloseInv'
    <2>1. d[2] \in Line /\ BootMask(d) \in SUBSET Ci
      BY DEF Dpu, BootMask
    <2> QED BY <1>1, <1>3, <2>1, SwitchLineEffect DEF BootDpu, TypeOK
  <1>4. ASSUME NEW d \in Dpu, Stop(d) PROVE CopyInv' /\ CloseInv'
    <2>1. UNCHANGED <<mux, cache, pc, todo, write, at, missed, overwritten>> /\ running' \subseteq running
      BY <1>4 DEF Stop
    <2>2. TypeOK'
      BY <2>1 DEF TypeOK
    <2>3. /\ \A l \in Line : PairKnown(l)'
          /\ Matrix' = Matrix
          /\ \A l : Passed(l)' = Passed(l)
      BY <2>1 DEF PairKnown, Matrix, Passed
    <2> QED BY <2>1, <2>2, <2>3 DEF Opened, Closed, CloseInv, Enabled
  <1>5. CASE \/ \E l \in Line, side \in Side : OFIS_set_mux_ig(l, side)
             \/ \E side \in Side : OFIS_set_mux_rank(side)
    BY <1>1, <1>5 DEF OFIS_set_mux_ig, OFIS_set_mux_rank, TypeOK
  <1> QED BY <1>2, <1>3, <1>4, <1>5

LEMMA CopyInvHolds == Spec => [](CopyInv /\ CloseInv)
  <1>1. CopyInv /\ CloseInv /\ ProgramInv /\ [Next]_vars => CopyInv' /\ CloseInv'
    <2> SUFFICES ASSUME CopyInv, CloseInv, ProgramInv, [Next]_vars PROVE CopyInv' /\ CloseInv'
      OBVIOUS
    <2>1. ofis' = ofis
      BY DEF Next, vars
    <2>2. CASE UNCHANGED vars
      BY <2>2 DEF vars, CopyInv, CloseInv, TypeOK, PairKnown, Opened, Closed, Matrix, Passed, Enabled
    <2> QED
      BY <2>1, <2>2, CopyKeeps, AccessRankKeeps, AccessPairKeeps, AccessDoneKeeps,
         TransferKeeps, RunKeeps DEF Next
  <1> QED BY <1>1, InitCopyInv, ProgramInvHolds, PTL DEF Spec

\* Type correctness of the copies, the boots and the OFIS calls of a rank.
THEOREM MuxTypeCorrect == Spec => []TypeOK
  <1>1. CopyInv => TypeOK
    BY DEF CopyInv
  <1> QED BY <1>1, CopyInvHolds, PTL

\* Every bank a copy is for is open when the bytes pass (do_mram_transfer,
\* ufi_memory.c 450): after a split, with a stale record, with and without
\* assertions.
THEOREM NoBankMissed == Spec => []NothingMissed
  <1>1. CopyInv => NothingMissed
    BY DEF CopyInv, NothingMissed
  <1> QED BY <1>1, CopyInvHolds, PTL

\* "we must take care not overriding MRAMs whose transfer in the matrix is not
\* defined" (ufi_memory.c 176): a build that keeps the assertion of line 420
\* writes no bank a copy is not for, as long as no OFIS call moves the banks.
THEOREM NoBankOverwritten == ASSUME Asserts PROVE Spec => []NothingOverwritten
  <1>1. CloseInv => NothingOverwritten
    BY DEF CloseInv, NothingOverwritten
  <1> QED BY <1>1, CopyInvHolds, PTL
=============================================================================
