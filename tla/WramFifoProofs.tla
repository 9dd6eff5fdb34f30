--------------------------- MODULE WramFifoProofs ---------------------------
(***************************************************************************)
(* For every number of tasklets, inputs and retries, in both loops, and    *)
(* every number of slots that the host's uint8_t can number (IndexFits):   *)
(* neither end of a FIFO overwrites what the other has not read, and every *)
(* input sent is at one place, however often it is passed on.  And where   *)
(* all tasklets work on each input, the answers come in the order of the   *)
(* pushes, each of one input's parts.  With more slots than that, which    *)
(* init_fifo allows, only the types and the pointers (FifoInv) do.         *)
(***************************************************************************)
EXTENDS WramFifo, FiniteSetTheorems, TLAPS

-----------------------------------------------------------------------------
(* Pointers that are not full leave a slot.                                *)

LEMMA Distribute ==
  ASSUME NEW m \in Int, NEW x \in Int, NEW y \in Int
  PROVE  m * (x - y - 1) = m * x - m * y - m
  OBVIOUS

LEMMA SmallMultiple ==
  ASSUME NEW k \in Int, NEW m \in Nat \ {0}, m * k < m, -m < m * k
  PROVE  k = 0
  <1>1. CASE k >= 1
    <2>1. m * k >= m * 1
      BY <1>1, Z3
    <2> QED BY <2>1
  <1>2. CASE k <= -1
    BY <1>2, SMT
  <1> QED BY <1>1, <1>2

LEMMA Divide ==
  ASSUME NEW a \in Nat, NEW m \in Nat \ {0}
  PROVE  a = m * (a \div m) + (a % m) /\ a \div m \in Nat /\ a % m \in 0 .. m - 1
  OBVIOUS

LEMMA SlotWraps == ASSUME NEW rd \in Nat PROVE Slot(rd + NrSlots) = Slot(rd)
  <1> DEFINE m == NrSlots
             q == rd \div m
             r == rd % m
             u == (rd + m) \div m
             v == (rd + m) % m
  <1>1. m \in Nat \ {0}
    BY WramFifoAssumption
  <1>2. rd = m * q + r /\ q \in Nat /\ r \in 0 .. m - 1
    BY <1>1, Divide
  <1>3. rd + m = m * u + v /\ u \in Nat /\ v \in 0 .. m - 1
    <2>1. rd + m \in Nat
      BY <1>1
    <2> HIDE DEF m
    <2> QED BY <1>1, <2>1, Divide
  <1> HIDE DEF m, q, r, u, v
  <1>4. m * (u - q - 1) = r - v
    <2>1. m * (u - q - 1) = m * u - m * q - m
      BY <1>1, <1>2, <1>3, Distribute
    <2> QED BY <2>1, <1>1, <1>2, <1>3
  <1>5. u - q - 1 = 0
    BY <1>1, <1>2, <1>3, <1>4, SmallMultiple
  <1>6. r = v
    BY <1>1, <1>2, <1>3, <1>4, <1>5
  <1> QED BY <1>1, <1>6 DEF Slot, m, q, r, u, v

\* The low bits of two pointers tell a full FIFO from one with room, as long as
\* the pointers are at most one round apart.
LEMMA NotFull ==
  ASSUME NEW rd \in Nat, NEW wr \in Nat, wr - rd <= NrSlots, ~Full(rd, wr)
  PROVE  wr - rd < NrSlots
  <1>1. wr = rd + NrSlots => Full(rd, wr)
    BY WramFifoAssumption, SlotWraps DEF Full
  <1> QED BY <1>1, WramFifoAssumption

LEMMA SlotRange == \A p \in Nat : Slot(p) \in 0 .. NrSlots - 1
  BY WramFifoAssumption DEF Slot

-----------------------------------------------------------------------------
(* The slots of the host.                                                  *)

\* The host's uint8_t can number every slot: ptr_size is at most 8.
IndexFits == NrSlots <= NrIndexes

LEMMA Remainder ==
  ASSUME NEW a \in Nat, NEW m \in Nat \ {0}
  PROVE  /\ a % m \in Nat /\ a % m <= a
         /\ a < m => a % m = a
  <1>1. a = m * (a \div m) + (a % m) /\ a \div m \in Nat /\ a % m \in 0 .. m - 1
    BY Divide
  <1>2. m * (a \div m) \in Nat
    BY <1>1
  <1>3. a % m \in Nat /\ a % m <= a
    BY <1>1, <1>2
  <1>4. a < m => a % m = a
    OBVIOUS
  <1> QED BY <1>3, <1>4

\* However wide its slot numbers are, it stays within the array,
LEMMA HostSlotRange == \A p \in Nat : HostSlot(p) \in 0 .. NrSlots - 1
  <1> SUFFICES ASSUME NEW p \in Nat PROVE HostSlot(p) \in 0 .. NrSlots - 1
    OBVIOUS
  <1>1. Slot(p) \in Nat /\ Slot(p) <= NrSlots - 1
    BY SlotRange
  <1>2. HostSlot(p) \in Nat /\ HostSlot(p) <= Slot(p)
    BY <1>1, WramFifoAssumption, Remainder DEF HostSlot
  <1> QED BY <1>1, <1>2, WramFifoAssumption

\* and where they are wide enough it finds the slots of the tasklets.
LEMMA HostSlotFits == ASSUME IndexFits PROVE \A p \in Nat : HostSlot(p) = Slot(p)
  <1> SUFFICES ASSUME NEW p \in Nat PROVE HostSlot(p) = Slot(p)
    OBVIOUS
  <1>1. Slot(p) \in Nat /\ Slot(p) < NrIndexes
    BY SlotRange, WramFifoAssumption DEF IndexFits
  <1> QED BY <1>1, WramFifoAssumption, Remainder DEF HostSlot

LEMMA ElementFits ==
  ASSUME IndexFits, NEW i \in Nat, i < NrSlots
  PROVE  i % NrIndexes = i
  BY WramFifoAssumption, Remainder DEF IndexFits

-----------------------------------------------------------------------------
(* The invariant.                                                          *)

\* What the host knows is old, but only on the safe side: it alone moves the input
\* FIFO's write pointer and the output FIFO's read pointer.
HostInv ==
  /\ hpc \in {"push", "check", "data", "pointer"} => pushed < NrItems /\ retries <= MaxRetries
  /\ hpc \in {"check", "data", "pointer"} =>
       h_wr = in_wr /\ h_rd <= in_rd /\ h_wr - h_rd <= NrSlots
  /\ hpc \in {"data", "pointer"} => h_wr - h_rd < NrSlots
  /\ hpc \in {"copy", "release"} => h_rd = out_rd /\ h_rd <= h_wr /\ h_wr <= out_wr

\* Places of one loop only.
AllPc == {"wait1", "process", "wait2", "reduce", "publish", "pop", "arrive", "wait3"}
HoldPc == {"locked", "popping", "push", "ready", "cede"}
SlotPc == {"work", "relock", "push", "ready", "cede"}
EachPc == HoldPc \cup SlotPc \cup {"lock"}

\* Tasklets with an output slot of their own.
Reserved == {t \in Tasklet : pc[t] \in SlotPc}

TaskletInv ==
  /\ \A t \in Tasklet : pc[t] \in AllPc => mode = "all"
  /\ \A t \in Tasklet : pc[t] \in EachPc => mode = "each"
  /\ \A t \in Tasklet : pc[t] \in HoldPc => mutex = t
  /\ nb_reserved = Cardinality(Reserved)

\* Slots of the output FIFO that are or will be needed.  A tasklet that has
\* published and not yet ceded its slot counts twice.
Needed == (out_wr + nb_reserved) - out_rd
Ceding == \E t \in Tasklet : pc[t] = "cede"

\* Tasklet 0 works for all after the checks of its own loop.
ChecksPc == {"wait1", "process", "wait2", "reduce", "publish"}

RoomInv ==
  /\ Needed <= NrSlots + (IF Ceding THEN 1 ELSE 0)
  /\ \A t \in Tasklet : pc[t] = "popping" => in_rd < in_wr /\ Needed < NrSlots
  /\ mode = "all" /\ pc[0] \in ChecksPc => Needed < NrSlots
  /\ mode = "all" /\ pc[0] \in ChecksPc \cup {"room", "pop"} => in_rd < in_wr

PointerInv ==
  /\ in_rd <= in_wr /\ in_wr - in_rd <= NrSlots
  /\ out_rd <= out_wr

FifoInv == TypeOK /\ HostInv /\ TaskletInv /\ RoomInv /\ PointerInv

LEMMA ReservedFinite ==
  /\ IsFiniteSet(Tasklet)
  /\ Cardinality(Tasklet) = NrTasklets
  /\ IsFiniteSet(Reserved)
  /\ Cardinality(Reserved) \in 0 .. NrTasklets
  <1>1. IsFiniteSet(Tasklet) /\ Cardinality(Tasklet) = NrTasklets
    BY WramFifoAssumption, FS_Interval DEF Tasklet
  <1>2. Reserved \subseteq Tasklet
    BY DEF Reserved
  <1>3. IsFiniteSet(Reserved) /\ Cardinality(Reserved) <= NrTasklets
    BY <1>1, <1>2, FS_Subset
  <1> QED BY <1>1, <1>3, FS_CardinalityType, WramFifoAssumption

LEMMA InvImpliesWithin == FifoInv => WithinSlots
  <1> SUFFICES ASSUME FifoInv PROVE out_wr - out_rd <= NrSlots
    BY DEF WithinSlots, FifoInv, PointerInv
  <1> USE DEF FifoInv
  <1>1. nb_reserved \in Nat /\ out_wr \in Nat /\ out_rd \in Nat /\ NrSlots \in Nat
    BY WramFifoAssumption DEF TypeOK
  <1>2. CASE ~Ceding
    BY <1>1, <1>2 DEF RoomInv, Needed
  <1>3. CASE Ceding
    <2>1. Reserved # {}
      BY <1>3 DEF Ceding, Reserved, SlotPc
    <2>2. nb_reserved # 0
      BY <2>1, ReservedFinite, FS_EmptySet DEF TaskletInv
    <2> QED BY <1>1, <1>3, <2>2 DEF RoomInv, Needed
  <1> QED BY <1>2, <1>3

LEMMA InitFifoInv == Init => FifoInv
  <1> SUFFICES ASSUME Init PROVE FifoInv
    OBVIOUS
  <1>1. TypeOK
    BY WramFifoAssumption DEF Init, TypeOK, Item, Pc, Free
  <1>2. Reserved = {}
    BY DEF Init, Reserved, SlotPc
  <1>3. TaskletInv
    BY <1>2, FS_EmptySet DEF Init, TaskletInv, AllPc, HoldPc, SlotPc, EachPc
  <1>4. 0 \in Tasklet
    BY WramFifoAssumption DEF Tasklet
  <1>5. RoomInv
    BY <1>4, WramFifoAssumption DEF Init, RoomInv, Needed, Ceding, ChecksPc
  <1>6. HostInv /\ PointerInv
    BY WramFifoAssumption DEF Init, HostInv, PointerInv
  <1> QED BY <1>1, <1>3, <1>5, <1>6 DEF FifoInv

-----------------------------------------------------------------------------
(* The tasklets.                                                           *)

\* Steps that move neither a pointer nor a reservation: what they leave alone,
\* and where tasklet t goes.
Unmoved ==
  /\ UNCHANGED <<mode, in_rd, in_wr, in_data, out_rd, out_wr, nb_reserved, active>>
  /\ UNCHANGED <<hpc, h_rd, h_wr, h_data, retries, pushed, sent, refused, got>>

DataTyped ==
  /\ out_data \in [0 .. NrSlots - 1 -> Item]
  /\ tmp \in [Tasklet -> Item]
  /\ entered \in [Tasklet -> Nat] /\ left \in [Tasklet -> Nat]

Move(t, to) ==
  /\ to \in Pc /\ Goto(t, to)
  /\ mutex' \in Tasklet \cup {Free}
  /\ to \in AllPc => mode = "all"
  /\ to \in EachPc => mode = "each"
  /\ (to \in SlotPc) <=> (pc[t] \in SlotPc)
  /\ pc[t] # "cede" /\ to # "cede"
  /\ to \in HoldPc => mutex' = t
  /\ \A u \in Tasklet \ {t} : pc[u] \in HoldPc => mutex' = u
  /\ to = "popping" => in_rd < in_wr /\ Needed < NrSlots
  /\ mode = "all" /\ t = 0 =>
       /\ to \in ChecksPc => Needed < NrSlots
       /\ to \in ChecksPc \cup {"room", "pop"} => in_rd < in_wr

LocalStep(t, to) == Unmoved /\ DataTyped' /\ Move(t, to)

LEMMA LocalStepKeeps ==
  ASSUME NEW t \in Tasklet, NEW to, FifoInv, LocalStep(t, to)
  PROVE  FifoInv'
  <1> USE DEF FifoInv
  <1>1. pc' = [pc EXCEPT ![t] = to] /\ pc \in [Tasklet -> Pc] /\ to \in Pc
    BY DEF LocalStep, Move, Goto, TypeOK
  <1>2. /\ UNCHANGED <<mode, in_rd, in_wr, in_data, out_rd, out_wr, nb_reserved, active>>
        /\ UNCHANGED <<hpc, h_rd, h_wr, h_data, retries, pushed, sent, refused, got>>
    BY DEF LocalStep, Unmoved
  <1>3. TypeOK'
    BY <1>1, <1>2 DEF TypeOK, LocalStep, DataTyped, Move
  <1>4. HostInv' /\ PointerInv'
    BY <1>2 DEF HostInv, PointerInv
  <1>5. Reserved' = Reserved
    BY <1>1 DEF Reserved, LocalStep, Move
  <1>6. TaskletInv'
    BY <1>1, <1>2, <1>5 DEF TaskletInv, LocalStep, Move
  <1>7. Needed' = Needed /\ Ceding' = Ceding
    BY <1>1, <1>2 DEF Needed, Ceding, LocalStep, Move
  <1>8. RoomInv'
    BY <1>1, <1>2, <1>7 DEF RoomInv, LocalStep, Move
  <1> QED BY <1>3, <1>4, <1>6, <1>8

LEMMA RoomFound ==
  ASSUME TypeOK, RoomInv, ~Ceding, ~Full(out_rd, out_wr + nb_reserved)
  PROVE  Needed < NrSlots
  <1>1. out_wr \in Nat /\ nb_reserved \in Nat /\ out_wr + nb_reserved \in Nat /\ out_rd \in Nat
    BY DEF TypeOK
  <1>2. (out_wr + nb_reserved) - out_rd <= NrSlots
    BY <1>1, WramFifoAssumption DEF RoomInv, Needed
  <1>3. (out_wr + nb_reserved) - out_rd < NrSlots
    BY <1>1, <1>2, NotFull
  <1> QED BY <1>1, <1>3 DEF Needed

\* The checks of both loops.
LEMMA ChecksKeep ==
  ASSUME NEW t \in Tasklet, FifoInv, Top(t) \/ Room(t) \/ Active(t)
  PROVE  FifoInv'
  <1> USE DEF AllPc, EachPc, HoldPc, SlotPc, ChecksPc
  <1>1. TypeOK /\ TaskletInv /\ PointerInv /\ RoomInv
    BY DEF FifoInv
  <1>2. CASE Top(t)
    <2>1. Unmoved /\ DataTyped'
      BY <1>1, <1>2 DEF Top, TypeOK, Unmoved, DataTyped, inVars, outVars, barVars, hostVars, pushVars
    <2>2. in_rd # in_wr => in_rd < in_wr
      BY <1>1 DEF TypeOK, PointerInv
    <2>3. Move(t, "room") \/ Move(t, "active")
      BY <1>1, <1>2, <2>2 DEF Top, Goto, TypeOK, TaskletInv, Move, Pc
    <2> QED BY <2>1, <2>3, LocalStepKeeps DEF LocalStep
  <1>3. CASE Active(t)
    <2>1. Unmoved /\ DataTyped'
      BY <1>1, <1>3 DEF Active, TypeOK, Unmoved, DataTyped, inVars, outVars, barVars, hostVars, pushVars
    <2>2. Move(t, "top") \/ Move(t, "exit")
      BY <1>1, <1>3 DEF Active, Goto, TypeOK, TaskletInv, Move, Pc
    <2> QED BY <2>1, <2>2, LocalStepKeeps DEF LocalStep
  <1>4. CASE Room(t)
    <2>1. entered' \in [Tasklet -> Nat] /\ left' \in [Tasklet -> Nat]
      <3>1. entered \in [Tasklet -> Nat] /\ left \in [Tasklet -> Nat]
        BY <1>1 DEF TypeOK
      <3>2. left' = left /\ (entered' = entered \/ entered' = [entered EXCEPT ![t] = @ + 1])
        BY <1>4 DEF Room, barVars, Bar!Enter
      <3> QED BY <3>1, <3>2
    <2>2. Unmoved /\ DataTyped'
      BY <1>1, <1>4, <2>1 DEF Room, TypeOK, Unmoved, DataTyped, inVars, outVars, barVars, hostVars, pushVars
    <2>3. ASSUME mode = "all", ~Full(out_rd, out_wr + nb_reserved) PROVE Needed < NrSlots
      <3>1. ~Ceding
        BY <1>1, <2>3 DEF Ceding, TaskletInv
      <3> QED BY <1>1, <2>3, <3>1, RoomFound
    <2>4. t = 0 /\ mode = "all" => in_rd < in_wr
      BY <1>1, <1>4 DEF Room, RoomInv
    <2>5. pc[t] = "room" /\ mutex' = mutex /\ mutex \in Tasklet \cup {Free}
      BY <1>1, <1>4 DEF Room, TypeOK
    <2>6. CASE Goto(t, "top")
      <3>1. Move(t, "top")
        BY <1>1, <2>5, <2>6 DEF TaskletInv, Move, Pc
      <3> QED BY <2>2, <3>1, LocalStepKeeps DEF LocalStep
    <2>7. CASE ~Full(out_rd, out_wr + nb_reserved) /\ mode = "all" /\ Goto(t, "wait1")
      <3>1. Move(t, "wait1")
        BY <1>1, <2>3, <2>4, <2>5, <2>7 DEF TaskletInv, Move, Pc
      <3> QED BY <2>2, <3>1, LocalStepKeeps DEF LocalStep
    <2>8. CASE mode = "each" /\ Goto(t, "lock")
      <3>1. Move(t, "lock")
        BY <1>1, <2>5, <2>8 DEF TaskletInv, Move, Pc
      <3> QED BY <2>2, <3>1, LocalStepKeeps DEF LocalStep
    <2> QED BY <1>4, <2>6, <2>7, <2>8 DEF Room
  <1> QED BY <1>2, <1>3, <1>4

\* The barriers and the work between them.
LEMMA AllLocalKeep ==
  ASSUME NEW t \in Tasklet, FifoInv, Passed(t) \/ Process(t) \/ Arrive(t) \/ (t = 0 /\ Reduce)
  PROVE  FifoInv'
  <1> USE DEF AllPc, EachPc, HoldPc, SlotPc, ChecksPc
  <1>1. TypeOK /\ TaskletInv /\ RoomInv
    BY DEF FifoInv
  <1>2. mode = "all"
    BY <1>1 DEF TaskletInv, Passed, Process, Arrive, Reduce
  <1>3. Slot(in_rd) \in 0 .. NrSlots - 1 /\ Slot(out_wr) \in 0 .. NrSlots - 1
    BY <1>1, SlotRange DEF TypeOK
  <1>4. CASE Passed(t)
    <2>1. entered' = entered /\ left' \in [Tasklet -> Nat]
      BY <1>1, <1>4 DEF Passed, TypeOK, Bar!Leave
    <2>2. Unmoved /\ DataTyped'
      BY <1>1, <1>4, <2>1 DEF Passed, TypeOK, Unmoved, DataTyped, inVars, outVars, barVars, hostVars, pushVars
    <2>3. mutex' = mutex /\ mutex \in Tasklet \cup {Free}
      BY <1>1, <1>4 DEF Passed, TypeOK
    <2>4. CASE pc[t] = "wait1" /\ Goto(t, "process")
      <3>1. Move(t, "process")
        BY <1>1, <1>2, <2>3, <2>4 DEF TaskletInv, RoomInv, Move, Pc
      <3> QED BY <2>2, <3>1, LocalStepKeeps DEF LocalStep
    <2>5. CASE pc[t] = "wait2" /\ t = 0 /\ Goto(t, "reduce")
      <3>1. Move(t, "reduce")
        BY <1>1, <1>2, <2>3, <2>5 DEF TaskletInv, RoomInv, Move, Pc
      <3> QED BY <2>2, <3>1, LocalStepKeeps DEF LocalStep
    <2>6. CASE pc[t] = "wait2" /\ Goto(t, "arrive")
      <3>1. Move(t, "arrive")
        BY <1>1, <1>2, <2>3, <2>6 DEF TaskletInv, Move, Pc
      <3> QED BY <2>2, <3>1, LocalStepKeeps DEF LocalStep
    <2>7. CASE pc[t] = "wait3" /\ Goto(t, "top")
      <3>1. Move(t, "top")
        BY <1>1, <1>2, <2>3, <2>7 DEF TaskletInv, Move, Pc
      <3> QED BY <2>2, <3>1, LocalStepKeeps DEF LocalStep
    <2> QED BY <1>4, <2>4, <2>5, <2>6, <2>7 DEF Passed, AfterWait
  <1>5. CASE Process(t)
    <2>1. entered' \in [Tasklet -> Nat] /\ left' \in [Tasklet -> Nat] /\ tmp' \in [Tasklet -> Item]
      <3>1. /\ entered \in [Tasklet -> Nat] /\ left \in [Tasklet -> Nat]
            /\ tmp \in [Tasklet -> Item] /\ in_data[Slot(in_rd)] \in Item
        BY <1>1, <1>3 DEF TypeOK
      <3>2. /\ left' = left /\ entered' = [entered EXCEPT ![t] = @ + 1]
            /\ tmp' = [tmp EXCEPT ![t] = in_data[Slot(in_rd)]]
        BY <1>5 DEF Process, Bar!Enter
      <3> QED BY <3>1, <3>2
    <2>2. Unmoved /\ DataTyped'
      BY <1>1, <1>5, <2>1 DEF Process, TypeOK, Unmoved, DataTyped, inVars, outVars, barVars, hostVars, pushVars
    <2>3. Move(t, "wait2")
      BY <1>1, <1>2, <1>5 DEF Process, TypeOK, TaskletInv, RoomInv, Move, Pc
    <2> QED BY <2>2, <2>3, LocalStepKeeps DEF LocalStep
  <1>6. CASE Arrive(t)
    <2>1. entered' \in [Tasklet -> Nat] /\ left' \in [Tasklet -> Nat]
      BY <1>1, <1>6 DEF Arrive, TypeOK, Bar!Enter
    <2>2. Unmoved /\ DataTyped'
      BY <1>1, <1>6, <2>1 DEF Arrive, TypeOK, Unmoved, DataTyped, inVars, outVars, barVars, hostVars, pushVars
    <2>3. Move(t, "wait3")
      BY <1>1, <1>2, <1>6 DEF Arrive, TypeOK, TaskletInv, Move, Pc
    <2> QED BY <2>2, <2>3, LocalStepKeeps DEF LocalStep
  <1>7. CASE t = 0 /\ Reduce
    <2>1. Reduced \in Item
      <3>1. tmp[0] \in Item /\ -1 \in Item
        BY <1>1, <1>7, WramFifoAssumption DEF TypeOK, Item
      <3> QED BY <3>1 DEF Reduced
    <2>2. out_data' \in [0 .. NrSlots - 1 -> Item]
      BY <1>1, <1>3, <1>7, <2>1 DEF Reduce, TypeOK
    <2>3. Unmoved /\ DataTyped'
      BY <1>1, <1>7, <2>2 DEF Reduce, TypeOK, Unmoved, DataTyped, inVars, outVars, barVars, hostVars, pushVars
    <2>4. Move(t, "publish")
      BY <1>1, <1>2, <1>7 DEF Reduce, TypeOK, TaskletInv, RoomInv, Move, Pc
    <2> QED BY <2>3, <2>4, LocalStepKeeps DEF LocalStep
  <1> QED BY <1>4, <1>5, <1>6, <1>7

\* The mutex, both checks under it, and the copies of an input and an output.
LEMMA EachLocalKeep ==
  ASSUME NEW t \in Tasklet, FifoInv, Lock(t) \/ Take(t) \/ Work(t) \/ PushOut(t)
  PROVE  FifoInv'
  <1> USE DEF AllPc, EachPc, HoldPc, SlotPc, ChecksPc
  <1>1. TypeOK /\ TaskletInv /\ RoomInv /\ PointerInv
    BY DEF FifoInv
  <1>2. mode = "each" /\ Free \notin Tasklet
    BY <1>1, WramFifoAssumption DEF TaskletInv, Lock, Take, Work, PushOut, Free, Tasklet
  <1>3. Slot(in_rd) \in 0 .. NrSlots - 1 /\ Slot(out_wr) \in 0 .. NrSlots - 1
    BY <1>1, SlotRange DEF TypeOK
  <1>4. CASE Lock(t)
    <2>1. Unmoved /\ DataTyped'
      BY <1>1, <1>4 DEF Lock, TypeOK, Unmoved, DataTyped, inVars, outVars, barVars, hostVars, pushVars
    <2>2. Move(t, "locked") \/ Move(t, "push")
      BY <1>1, <1>2, <1>4 DEF Lock, Goto, TaskletInv, Move, Pc
    <2> QED BY <2>1, <2>2, LocalStepKeeps DEF LocalStep
  <1>5. CASE Take(t)
    <2>1. pc[t] = "locked" /\ mutex = t /\ ~Ceding
      BY <1>1, <1>5 DEF Take, TaskletInv, Ceding
    <2>2. [tmp EXCEPT ![t] = in_data[Slot(in_rd)]] \in [Tasklet -> Item]
      BY <1>1, <1>3 DEF TypeOK
    <2>3. Unmoved /\ DataTyped'
      BY <1>1, <1>5, <2>2 DEF Take, TypeOK, Unmoved, DataTyped, inVars, outVars, barVars, hostVars, pushVars
    <2>4. CASE /\ in_rd # in_wr /\ ~Full(out_rd, out_wr + nb_reserved)
               /\ Goto(t, "popping") /\ UNCHANGED mutex
      <3>1. in_rd \in Nat /\ in_wr \in Nat
        BY <1>1 DEF TypeOK
      <3>2. Needed < NrSlots
        BY <1>1, <2>1, <2>4, RoomFound
      <3>3. in_rd < in_wr
        BY <1>1, <2>4, <3>1 DEF PointerInv
      <3>4. Move(t, "popping")
        BY <1>1, <1>2, <2>1, <2>4, <3>2, <3>3 DEF TaskletInv, Move, Pc
      <3> QED BY <2>3, <3>4, LocalStepKeeps DEF LocalStep
    <2>5. CASE mutex' = Free /\ Goto(t, "top")
      <3>1. Move(t, "top")
        BY <1>1, <1>2, <2>1, <2>5 DEF TaskletInv, Move, Pc
      <3> QED BY <2>3, <3>1, LocalStepKeeps DEF LocalStep
    <2> QED BY <1>5, <2>4, <2>5 DEF Take
  <1>6. CASE Work(t)
    <2>1. Unmoved /\ DataTyped'
      BY <1>1, <1>6 DEF Work, TypeOK, Unmoved, DataTyped, inVars, outVars, barVars, hostVars, pushVars
    <2>2. Move(t, "relock")
      BY <1>1, <1>2, <1>6 DEF Work, TypeOK, TaskletInv, Move, Pc
    <2> QED BY <2>1, <2>2, LocalStepKeeps DEF LocalStep
  <1>7. CASE PushOut(t)
    <2>1. out_data' \in [0 .. NrSlots - 1 -> Item]
      BY <1>1, <1>3, <1>7 DEF PushOut, TypeOK
    <2>2. Unmoved /\ DataTyped'
      BY <1>1, <1>7, <2>1 DEF PushOut, TypeOK, Unmoved, DataTyped, inVars, outVars, barVars, hostVars, pushVars
    <2>3. Move(t, "ready")
      BY <1>1, <1>2, <1>7 DEF PushOut, TypeOK, TaskletInv, Move, Pc
    <2> QED BY <2>2, <2>3, LocalStepKeeps DEF LocalStep
  <1> QED BY <1>4, <1>5, <1>6, <1>7

\* Tasklet 0 publishes and pops for all.
LEMMA PublishKeeps == FifoInv /\ Publish => FifoInv'
  <1> SUFFICES ASSUME FifoInv, Publish PROVE FifoInv'
    OBVIOUS
  <1> USE DEF FifoInv, AllPc, EachPc, HoldPc, SlotPc, ChecksPc
  <1>1. /\ pc[0] = "publish" /\ pc' = [pc EXCEPT ![0] = "pop"] /\ out_wr' = out_wr + 1
        /\ UNCHANGED <<mode, in_rd, in_wr, in_data, out_rd, out_data, nb_reserved, active, tmp, mutex,
                       entered, left, hpc, h_rd, h_wr, h_data, retries, pushed, sent, refused, got>>
    BY DEF Publish, Goto, inVars, barVars, hostVars, pushVars
  <1>2. 0 \in Tasklet /\ mode = "all" /\ TypeOK
    BY <1>1, WramFifoAssumption DEF Tasklet, TaskletInv
  <1>3. TypeOK'
    BY <1>1, <1>2 DEF TypeOK, Pc
  <1>4. Needed < NrSlots /\ Needed' = Needed + 1 /\ Needed \in Int
    BY <1>1, <1>2 DEF RoomInv, Needed, TypeOK
  <1>5. Reserved' = Reserved /\ Ceding' = Ceding
    BY <1>1, <1>2 DEF Reserved, Ceding, TypeOK
  <1>6. TaskletInv'
    BY <1>1, <1>2, <1>5 DEF TaskletInv, TypeOK
  <1>7. \A t \in Tasklet : pc[t] # "popping" /\ pc'[t] # "popping"
    BY <1>1, <1>2 DEF TaskletInv, TypeOK
  <1>8. pc'[0] = "pop"
    BY <1>1, <1>2 DEF TypeOK
  <1>9. RoomInv'
    BY <1>1, <1>2, <1>4, <1>7, <1>8, WramFifoAssumption DEF RoomInv
  <1>10. HostInv' /\ PointerInv'
    BY <1>1, <1>2 DEF HostInv, PointerInv, TypeOK
  <1> QED BY <1>3, <1>6, <1>9, <1>10

LEMMA PopKeeps == FifoInv /\ Pop => FifoInv'
  <1> SUFFICES ASSUME FifoInv, Pop PROVE FifoInv'
    OBVIOUS
  <1> USE DEF FifoInv, AllPc, EachPc, HoldPc, SlotPc, ChecksPc
  <1>1. /\ pc[0] = "pop" /\ pc' = [pc EXCEPT ![0] = "wait3"] /\ in_rd' = in_rd + 1
        /\ UNCHANGED <<mode, in_wr, in_data, out_rd, out_wr, out_data, nb_reserved, active, tmp, mutex,
                       left, hpc, h_rd, h_wr, h_data, retries, pushed, sent, refused, got>>
        /\ entered' = [entered EXCEPT ![0] = @ + 1]
    BY DEF Pop, Goto, outVars, hostVars, pushVars, Bar!Enter
  <1>2. 0 \in Tasklet /\ mode = "all" /\ TypeOK
    BY <1>1, WramFifoAssumption DEF Tasklet, TaskletInv
  <1>3. TypeOK'
    <2>1. /\ pc \in [Tasklet -> Pc] /\ "wait3" \in Pc /\ in_rd \in Nat
          /\ entered \in [Tasklet -> Nat]
      BY <1>2 DEF TypeOK, Pc
    <2>2. pc' \in [Tasklet -> Pc] /\ in_rd' \in Nat /\ entered' \in [Tasklet -> Nat]
      BY <1>1, <1>2, <2>1
    <2> QED BY <1>1, <1>2, <2>2 DEF TypeOK
  <1>4. Reserved' = Reserved /\ Ceding' = Ceding /\ Needed' = Needed
    BY <1>1, <1>2 DEF Reserved, Ceding, TypeOK, Needed
  <1>5. TaskletInv'
    BY <1>1, <1>2, <1>4 DEF TaskletInv, TypeOK
  <1>6. \A t \in Tasklet : pc[t] # "popping" /\ pc'[t] # "popping"
    BY <1>1, <1>2 DEF TaskletInv, TypeOK
  <1>7. pc'[0] = "wait3"
    BY <1>1, <1>2 DEF TypeOK
  <1>8. RoomInv'
    BY <1>1, <1>2, <1>4, <1>6, <1>7 DEF RoomInv
  <1>9. in_rd < in_wr
    BY <1>1, <1>2 DEF RoomInv
  <1>10. HostInv' /\ PointerInv'
    BY <1>1, <1>2, <1>9, WramFifoAssumption DEF HostInv, PointerInv, TypeOK
  <1> QED BY <1>3, <1>5, <1>8, <1>10

\* A tasklet with the mutex has it alone.
LEMMA HolderAlone ==
  ASSUME TypeOK, TaskletInv, NEW t \in Tasklet, pc[t] \in HoldPc
  PROVE  mode = "each" /\ \A u \in Tasklet : u # t => pc[u] \notin HoldPc
  BY DEF TaskletInv, EachPc

LEMMA PopReserveKeeps == ASSUME NEW t \in Tasklet, FifoInv, PopReserve(t) PROVE FifoInv'
  <1>1. /\ pc[t] = "popping" /\ pc' = [pc EXCEPT ![t] = "work"]
        /\ in_rd' = in_rd + 1 /\ nb_reserved' = nb_reserved + 1 /\ mutex' = Free
        /\ UNCHANGED <<mode, in_wr, in_data, out_rd, out_wr, out_data, active, tmp, entered, left,
                       hpc, h_rd, h_wr, h_data, retries, pushed, sent, refused, got>>
    BY DEF PopReserve, Goto, outVars, barVars, hostVars, pushVars
  <1>2. TypeOK /\ TaskletInv /\ RoomInv /\ PointerInv /\ HostInv
    BY DEF FifoInv
  <1>3. mode = "each" /\ \A u \in Tasklet : u # t => pc[u] \notin HoldPc
    BY <1>1, <1>2, HolderAlone DEF HoldPc
  <1>4. in_rd < in_wr /\ Needed < NrSlots /\ NrSlots \in Nat
    BY <1>1, <1>2, WramFifoAssumption DEF RoomInv
  <1>5. Reserved' = Reserved \cup {t} /\ t \notin Reserved
    BY <1>1, <1>2 DEF Reserved, SlotPc, TypeOK
  <1>6. nb_reserved' = Cardinality(Reserved')
    BY <1>1, <1>2, <1>5, ReservedFinite, FS_AddElement DEF TaskletInv
  <1>7. nb_reserved' \in 0 .. NrTasklets
    <2>1. Reserved' \subseteq Tasklet
      BY <1>5 DEF Reserved
    <2> QED BY <1>6, <2>1, ReservedFinite, FS_Subset, FS_CardinalityType
  <1>8. TypeOK'
    BY <1>1, <1>2, <1>7 DEF TypeOK, Pc
  <1>9. TaskletInv'
    BY <1>1, <1>2, <1>3, <1>6 DEF TaskletInv, TypeOK, AllPc, EachPc, HoldPc, SlotPc
  <1>10. \A u \in Tasklet : pc'[u] # "popping" /\ pc'[u] # "cede" /\ pc[u] # "cede"
    BY <1>1, <1>2, <1>3 DEF TypeOK, HoldPc
  <1>11. Needed' = Needed + 1 /\ Needed \in Int
    BY <1>1, <1>2 DEF TypeOK, Needed
  <1>12. RoomInv'
    BY <1>1, <1>3, <1>4, <1>10, <1>11 DEF RoomInv, Ceding
  <1>13. HostInv' /\ PointerInv'
    BY <1>1, <1>2, <1>4 DEF HostInv, PointerInv, TypeOK
  <1> QED BY <1>8, <1>9, <1>12, <1>13 DEF FifoInv

LEMMA PublishOutKeeps == ASSUME NEW t \in Tasklet, FifoInv, PublishOut(t) PROVE FifoInv'
  <1>1. /\ pc[t] = "ready" /\ pc' = [pc EXCEPT ![t] = "cede"] /\ out_wr' = out_wr + 1
        /\ UNCHANGED <<mode, in_rd, in_wr, in_data, out_rd, out_data, nb_reserved, active, tmp, mutex,
                       entered, left, hpc, h_rd, h_wr, h_data, retries, pushed, sent, refused, got>>
    BY DEF PublishOut, Goto, inVars, barVars, hostVars, pushVars
  <1>2. TypeOK /\ TaskletInv /\ RoomInv /\ PointerInv /\ HostInv /\ NrSlots \in Nat
    BY WramFifoAssumption DEF FifoInv
  <1>3. mode = "each" /\ \A u \in Tasklet : u # t => pc[u] \notin HoldPc
    BY <1>1, <1>2, HolderAlone DEF HoldPc
  <1>4. TypeOK'
    BY <1>1, <1>2 DEF TypeOK, Pc
  <1>5. Reserved' = Reserved
    BY <1>1, <1>2 DEF Reserved, SlotPc, TypeOK
  <1>6. TaskletInv'
    BY <1>1, <1>2, <1>5 DEF TaskletInv, TypeOK, AllPc, EachPc, HoldPc, SlotPc
  <1>7. ~Ceding /\ Ceding' /\ \A u \in Tasklet : pc'[u] # "popping"
    BY <1>1, <1>2, <1>3 DEF TypeOK, HoldPc, Ceding
  <1>8. Needed' = Needed + 1 /\ Needed \in Int
    BY <1>1, <1>2 DEF TypeOK, Needed
  <1>9. RoomInv'
    BY <1>1, <1>2, <1>3, <1>7, <1>8 DEF RoomInv
  <1>10. HostInv' /\ PointerInv'
    BY <1>1, <1>2 DEF HostInv, PointerInv, TypeOK
  <1> QED BY <1>4, <1>6, <1>9, <1>10 DEF FifoInv

LEMMA CedeKeeps == ASSUME NEW t \in Tasklet, FifoInv, Cede(t) PROVE FifoInv'
  <1>1. /\ pc[t] = "cede" /\ pc' = [pc EXCEPT ![t] = "top"]
        /\ nb_reserved' = nb_reserved - 1 /\ mutex' = Free
        /\ UNCHANGED <<mode, in_rd, in_wr, in_data, out_rd, out_wr, out_data, active, tmp, entered, left,
                       hpc, h_rd, h_wr, h_data, retries, pushed, sent, refused, got>>
    BY DEF Cede, Goto, inVars, outVars, barVars, hostVars, pushVars
  <1>2. TypeOK /\ TaskletInv /\ RoomInv /\ PointerInv /\ HostInv /\ NrSlots \in Nat
    BY WramFifoAssumption DEF FifoInv
  <1>3. mode = "each" /\ \A u \in Tasklet : u # t => pc[u] \notin HoldPc
    BY <1>1, <1>2, HolderAlone DEF HoldPc
  <1>4. Reserved' = Reserved \ {t} /\ t \in Reserved
    BY <1>1, <1>2 DEF Reserved, SlotPc, TypeOK
  <1>5. nb_reserved' = Cardinality(Reserved') /\ nb_reserved' \in 0 .. NrTasklets
    <2>1. Cardinality(Reserved') = Cardinality(Reserved) - 1 /\ Cardinality(Reserved') \in Nat
      BY <1>4, ReservedFinite, FS_RemoveElement, FS_CardinalityType
    <2>2. nb_reserved = Cardinality(Reserved)
      BY <1>2 DEF TaskletInv
    <2>3. Cardinality(Reserved) \in 0 .. NrTasklets
      BY ReservedFinite
    <2> QED BY <1>1, <2>1, <2>2, <2>3, WramFifoAssumption
  <1>6. TypeOK'
    BY <1>1, <1>2, <1>5 DEF TypeOK, Pc
  <1>7. TaskletInv'
    BY <1>1, <1>2, <1>3, <1>5 DEF TaskletInv, TypeOK, AllPc, EachPc, HoldPc, SlotPc
  <1>8. Ceding /\ ~Ceding' /\ \A u \in Tasklet : pc'[u] # "popping"
    BY <1>1, <1>2, <1>3 DEF TypeOK, HoldPc, Ceding
  <1>9. Needed' = Needed - 1 /\ Needed \in Int
    BY <1>1, <1>2 DEF TypeOK, Needed
  <1>10. RoomInv'
    BY <1>1, <1>2, <1>3, <1>8, <1>9 DEF RoomInv
  <1>11. HostInv' /\ PointerInv'
    BY <1>1, <1>2 DEF HostInv, PointerInv
  <1> QED BY <1>6, <1>7, <1>10, <1>11 DEF FifoInv

-----------------------------------------------------------------------------
(* The host.                                                               *)

\* What the tasklets see of the host: more inputs, and more room for outputs.
LEMMA HostOnlyHelps ==
  ASSUME FifoInv, UNCHANGED <<mode, nb_reserved, pc, mutex, in_rd, out_wr>>,
         in_wr' \in Nat, in_wr <= in_wr', out_rd' \in Nat, out_rd <= out_rd'
  PROVE  TaskletInv' /\ RoomInv'
  <1>1. TypeOK /\ TaskletInv /\ RoomInv /\ NrSlots \in Nat
    BY WramFifoAssumption DEF FifoInv
  <1>2. Reserved' = Reserved /\ Ceding' = Ceding
    BY DEF Reserved, Ceding
  <1>3. Needed \in Int /\ Needed' \in Int /\ Needed' <= Needed
    <2>1. out_wr \in Nat /\ nb_reserved \in Nat /\ out_rd \in Nat
      BY <1>1 DEF TypeOK
    <2>2. out_wr' = out_wr /\ nb_reserved' = nb_reserved
      OBVIOUS
    <2>3. out_rd' \in Nat /\ out_rd <= out_rd'
      OBVIOUS
    <2>4. Needed = (out_wr + nb_reserved) - out_rd /\ Needed' = (out_wr + nb_reserved) - out_rd'
      BY <2>2 DEF Needed
    <2>5. \A a, b, c, e \in Nat : b <= c =>
            /\ (a + e) - b \in Int /\ (a + e) - c \in Int
            /\ (a + e) - c <= (a + e) - b
      OBVIOUS
    <2> QED BY <2>1, <2>3, <2>4, <2>5
  <1>4. in_rd \in Nat /\ in_wr \in Nat
    BY <1>1 DEF TypeOK
  <1>5. TaskletInv'
    BY <1>1, <1>2 DEF TaskletInv
  <1>6. RoomInv'
    BY <1>1, <1>2, <1>3, <1>4 DEF RoomInv
  <1> QED BY <1>5, <1>6

LEMMA PushKeeps ==
  ASSUME FifoInv, BeginPush \/ ReadInput \/ CheckFull \/ SendData \/ SendPointer
  PROVE  FifoInv'
  <1>1. TypeOK /\ HostInv /\ PointerInv
    BY DEF FifoInv
  <1>2. /\ NrItems \in Nat /\ MaxRetries \in Nat /\ NrSlots \in Nat
        /\ in_rd \in Nat /\ in_wr \in Nat /\ out_rd \in Nat /\ h_rd \in Nat /\ h_wr \in Nat
    BY <1>1, WramFifoAssumption DEF TypeOK
  <1>3. CASE BeginPush
    <2>1. TaskletInv' /\ RoomInv'
      BY <1>2, <1>3, HostOnlyHelps DEF BeginPush, kernelVars, inVars, outVars
    <2>2. TypeOK'
      BY <1>1, <1>2, <1>3 DEF BeginPush, TypeOK, kernelVars, inVars, outVars, barVars, pushVars
    <2>3. HostInv' /\ PointerInv'
      BY <1>1, <1>2, <1>3 DEF BeginPush, HostInv, PointerInv, TypeOK, inVars, outVars, pushVars
    <2> QED BY <2>1, <2>2, <2>3 DEF FifoInv
  <1>4. CASE ReadInput
    <2>1. TaskletInv' /\ RoomInv'
      BY <1>2, <1>4, HostOnlyHelps DEF ReadInput, kernelVars, inVars, outVars
    <2>2. TypeOK'
      BY <1>1, <1>2, <1>4 DEF ReadInput, TypeOK, kernelVars, inVars, outVars, barVars, pushVars
    <2>3. HostInv' /\ PointerInv'
      BY <1>1, <1>2, <1>4 DEF ReadInput, HostInv, PointerInv, TypeOK, inVars, outVars, pushVars
    <2> QED BY <2>1, <2>2, <2>3 DEF FifoInv
  <1>5. CASE CheckFull
    <2>1. TaskletInv' /\ RoomInv'
      BY <1>2, <1>5, HostOnlyHelps DEF CheckFull, kernelVars, inVars, outVars
    <2>2. hpc = "check" /\ pushed < NrItems /\ retries <= MaxRetries /\ pushed \in Nat /\ retries \in Nat
      BY <1>1, <1>5 DEF CheckFull, HostInv, TypeOK
    <2>3. /\ pushed' \in 0 .. NrItems /\ refused' \subseteq 0 .. NrItems - 1
          /\ retries' \in 0 .. MaxRetries + 1 /\ hpc' \in {"idle", "push", "data"}
          /\ hpc' # "idle" => pushed' < NrItems /\ retries' <= MaxRetries
          /\ hpc' = "data" => ~Full(h_rd, h_wr)
      BY <1>1, <1>2, <1>5, <2>2 DEF CheckFull, TypeOK
    <2>4. TypeOK'
      BY <1>1, <1>5, <2>3 DEF CheckFull, TypeOK, kernelVars, inVars, outVars, barVars
    <2>5. h_wr - h_rd <= NrSlots /\ (~Full(h_rd, h_wr) => h_wr - h_rd < NrSlots)
      BY <1>1, <1>2, <2>2, NotFull DEF HostInv
    <2>6. HostInv' /\ PointerInv'
      BY <1>1, <1>5, <2>2, <2>3, <2>5 DEF CheckFull, HostInv, PointerInv, inVars, outVars
    <2> QED BY <2>1, <2>4, <2>6 DEF FifoInv
  <1>6. CASE SendData
    <2>1. TaskletInv' /\ RoomInv'
      BY <1>2, <1>6, HostOnlyHelps DEF SendData, kernelVars, outVars
    <2>2. pushed \in Item
      BY <1>1, <1>2, <1>6 DEF SendData, HostInv, TypeOK, Item
    <2>3. in_data' = [in_data EXCEPT ![HostSlot(h_wr)] = pushed]
      BY <1>6 DEF SendData
    <2>4. in_data' \in [0 .. NrSlots - 1 -> Item]
      BY <1>1, <2>2, <2>3 DEF TypeOK
    <2>5. TypeOK'
      BY <1>1, <1>6, <2>4 DEF SendData, TypeOK, kernelVars, outVars, barVars, pushVars
    <2>6. HostInv' /\ PointerInv'
      BY <1>1, <1>6 DEF SendData, HostInv, PointerInv, outVars, pushVars
    <2> QED BY <2>1, <2>5, <2>6 DEF FifoInv
  <1>7. CASE SendPointer
    <2>1. h_wr = in_wr /\ h_wr - h_rd < NrSlots /\ h_rd <= in_rd /\ pushed < NrItems /\ pushed \in Nat
      BY <1>1, <1>7 DEF SendPointer, HostInv, TypeOK
    <2>2. in_wr' = in_wr + 1
      BY <1>7, <2>1 DEF SendPointer
    <2>3. TaskletInv' /\ RoomInv'
      BY <1>2, <1>7, <2>2, HostOnlyHelps DEF SendPointer, kernelVars, outVars
    <2>4. /\ pushed' \in 0 .. NrItems /\ sent' \subseteq 0 .. NrItems - 1
          /\ refused' \subseteq 0 .. NrItems - 1
      BY <1>1, <1>2, <1>7, <2>1 DEF SendPointer, TypeOK
    <2>5. TypeOK'
      BY <1>1, <1>2, <1>7, <2>2, <2>4 DEF SendPointer, TypeOK, kernelVars, outVars, barVars
    <2>6. HostInv' /\ PointerInv'
      BY <1>1, <1>2, <1>7, <2>1, <2>2 DEF SendPointer, HostInv, PointerInv, outVars
    <2> QED BY <2>3, <2>5, <2>6 DEF FifoInv
  <1> QED BY <1>3, <1>4, <1>5, <1>6, <1>7

LEMMA FlushKeeps ==
  ASSUME FifoInv, BeginFlush \/ CopyOutput \/ Release \/ ClearActive
  PROVE  FifoInv'
  <1>1. TypeOK /\ HostInv /\ PointerInv
    BY DEF FifoInv
  <1>2. /\ in_rd \in Nat /\ in_wr \in Nat /\ out_rd \in Nat /\ out_wr \in Nat
        /\ h_rd \in Nat /\ h_wr \in Nat
    BY <1>1 DEF TypeOK
  <1>3. CASE BeginFlush
    <2>1. TaskletInv' /\ RoomInv'
      BY <1>2, <1>3, HostOnlyHelps DEF BeginFlush, kernelVars, inVars, outVars
    <2>2. TypeOK'
      BY <1>1, <1>3 DEF BeginFlush, TypeOK, kernelVars, inVars, outVars, barVars, pushVars
    <2>3. HostInv' /\ PointerInv'
      BY <1>1, <1>2, <1>3 DEF BeginFlush, HostInv, PointerInv, inVars, outVars, pushVars
    <2> QED BY <2>1, <2>2, <2>3 DEF FifoInv
  <1>4. CASE CopyOutput
    <2>1. TaskletInv' /\ RoomInv'
      BY <1>2, <1>4, HostOnlyHelps DEF CopyOutput, kernelVars, inVars, outVars
    <2>2. TypeOK'
      BY <1>1, <1>4 DEF CopyOutput, TypeOK, kernelVars, inVars, outVars, barVars, pushVars
    <2>3. HostInv' /\ PointerInv'
      BY <1>1, <1>4 DEF CopyOutput, HostInv, PointerInv, inVars, outVars, pushVars
    <2> QED BY <2>1, <2>2, <2>3 DEF FifoInv
  <1>5. CASE Release
    <2>1. h_rd = out_rd /\ h_rd <= h_wr /\ h_wr <= out_wr /\ out_rd' = h_wr
      BY <1>1, <1>5 DEF Release, HostInv
    <2>2. TaskletInv' /\ RoomInv'
      BY <1>2, <1>5, <2>1, HostOnlyHelps DEF Release, kernelVars, inVars
    <2>3. Elements \in Seq(Item)
      <3>1. h_wr - h_rd \in Nat
        BY <1>2, <2>1
      <3>2. \A i \in 1 .. h_wr - h_rd : h_data[HostSlot(h_rd + ((i - 1) % NrIndexes))] \in Item
        <4> SUFFICES ASSUME NEW i \in 1 .. h_wr - h_rd
                     PROVE  h_data[HostSlot(h_rd + ((i - 1) % NrIndexes))] \in Item
          OBVIOUS
        <4>1. i - 1 \in Nat
          BY <1>2, <3>1
        <4>2. (i - 1) % NrIndexes \in Nat
          BY <4>1, WramFifoAssumption, Remainder
        <4>3. h_rd + ((i - 1) % NrIndexes) \in Nat
          BY <1>2, <4>2
        <4>4. HostSlot(h_rd + ((i - 1) % NrIndexes)) \in 0 .. NrSlots - 1
          BY <4>3, HostSlotRange
        <4> QED BY <1>1, <4>4 DEF TypeOK
      <3> QED BY <3>1, <3>2 DEF Elements
    <2>4. TypeOK'
      BY <1>1, <1>2, <1>5, <2>1, <2>3 DEF Release, TypeOK, kernelVars, inVars, barVars, pushVars
    <2>5. HostInv' /\ PointerInv'
      BY <1>1, <1>2, <1>5, <2>1 DEF Release, HostInv, PointerInv, inVars, pushVars
    <2> QED BY <2>2, <2>4, <2>5 DEF FifoInv
  <1>6. CASE ClearActive
    <2>1. TaskletInv' /\ RoomInv'
      BY <1>2, <1>6, HostOnlyHelps DEF ClearActive, kernelVars, inVars, outVars
    <2>2. TypeOK'
      BY <1>1, <1>6 DEF ClearActive, TypeOK, kernelVars, inVars, outVars, barVars, hostVars, pushVars
    <2>3. HostInv' /\ PointerInv'
      BY <1>1, <1>6 DEF ClearActive, HostInv, PointerInv, inVars, outVars, hostVars, pushVars
    <2> QED BY <2>1, <2>2, <2>3 DEF FifoInv
  <1> QED BY <1>3, <1>4, <1>5, <1>6

-----------------------------------------------------------------------------
(* The theorems.                                                           *)

LEMMA StutterKeeps == FifoInv /\ UNCHANGED vars => FifoInv'
  <1> SUFFICES ASSUME FifoInv, UNCHANGED vars PROVE FifoInv'
    OBVIOUS
  <1> USE DEF FifoInv, vars, inVars, outVars, barVars, hostVars, pushVars
  <1>1. TypeOK'
    BY DEF TypeOK
  <1>2. HostInv' /\ PointerInv'
    BY DEF HostInv, PointerInv
  <1>3. TaskletInv'
    BY DEF TaskletInv, Reserved
  <1>4. RoomInv'
    BY DEF RoomInv, Needed, Ceding
  <1> QED BY <1>1, <1>2, <1>3, <1>4

LEMMA FifoStep == FifoInv /\ [Next]_vars => FifoInv'
  <1> SUFFICES ASSUME FifoInv, [Next]_vars PROVE FifoInv'
    OBVIOUS
  <1>1. ASSUME NEW t \in Tasklet, TaskletStep(t) PROVE FifoInv'
    BY <1>1, ChecksKeep, AllLocalKeep, EachLocalKeep, PublishKeeps, PopKeeps, PopReserveKeeps,
       PublishOutKeeps, CedeKeeps DEF TaskletStep, AllTasklets, EachTasklet
  <1> QED BY <1>1, PushKeeps, FlushKeeps, StutterKeeps DEF Next, Call

LEMMA FifoInvHolds == Spec => []FifoInv
  BY InitFifoInv, FifoStep, PTL DEF Spec

\* Type correctness of the FIFOs, their tasklets and the host.
THEOREM FifoTypeCorrect == Spec => []TypeOK
  <1>1. FifoInv => TypeOK
    BY DEF FifoInv
  <1> QED BY <1>1, FifoInvHolds, PTL

-----------------------------------------------------------------------------
(* The place of an input in the order of the pushes.                       *)

\* Within one round of a FIFO every position has a slot of its own.
LEMMA SlotsDiffer ==
  ASSUME NEW p \in Nat, NEW q \in Nat, p < q, q < p + NrSlots
  PROVE  Slot(p) # Slot(q)
  <1> DEFINE m == NrSlots
             a == p \div m
             b == q \div m
             r == p % m
             s == q % m
  <1>1. m \in Nat \ {0}
    BY WramFifoAssumption
  <1>2. p = m * a + r /\ a \in Nat /\ r \in 0 .. m - 1
    BY <1>1, Divide
  <1>3. q = m * b + s /\ b \in Nat /\ s \in 0 .. m - 1
    BY <1>1, Divide
  <1> SUFFICES ASSUME r = s PROVE FALSE
    BY DEF Slot
  <1>4. p < q /\ q < p + m
    OBVIOUS
  <1> HIDE DEF m, a, b, r, s
  <1>5. m * (b - a - 1) = m * b - m * a - m
    BY <1>1, <1>2, <1>3, Distribute
  <1>6. -m < m * (b - a - 1) /\ m * (b - a - 1) < 0
    BY <1>1, <1>2, <1>3, <1>4, <1>5
  <1>7. b - a - 1 = 0
    BY <1>1, <1>2, <1>3, <1>6, SmallMultiple
  <1> QED BY <1>1, <1>6, <1>7

\* n is the input at position p: p others were sent before it.
Before(n) == {m \in sent : m < n}
Nth(n, p) == n \in sent /\ Cardinality(Before(n)) = p

LEMMA SentFinite ==
  ASSUME TypeOK
  PROVE  /\ IsFiniteSet(sent) /\ sent \subseteq Nat
         /\ \A n : /\ IsFiniteSet(Before(n)) /\ Cardinality(Before(n)) \in Nat
                   /\ Cardinality(Before(n)) <= Cardinality(sent)
         /\ \A n \in sent : Cardinality(Before(n)) < Cardinality(sent)
  <1>1. IsFiniteSet(0 .. NrItems - 1)
    BY WramFifoAssumption, FS_Interval
  <1>2. IsFiniteSet(sent) /\ sent \subseteq Nat
    <2>1. sent \subseteq 0 .. NrItems - 1 /\ NrItems \in Nat
      BY WramFifoAssumption DEF TypeOK
    <2>2. IsFiniteSet(sent)
      BY <1>1, <2>1, FS_Subset
    <2> QED BY <2>1, <2>2
  <1>3. \A n : Before(n) \subseteq sent
    BY DEF Before
  <1>4. \A n : /\ IsFiniteSet(Before(n)) /\ Cardinality(Before(n)) \in Nat
               /\ Cardinality(Before(n)) <= Cardinality(sent)
    BY <1>2, <1>3, FS_Subset, FS_CardinalityType
  <1>5. ASSUME NEW n \in sent PROVE Cardinality(Before(n)) < Cardinality(sent)
    <2>1. n \notin Before(n) /\ n \in sent
      BY <1>2 DEF Before
    <2>2. Before(n) # sent
      BY <2>1
    <2>3. Cardinality(Before(n)) # Cardinality(sent)
      BY <1>2, <1>3, <2>2, FS_Subset
    <2>4. Cardinality(sent) \in Nat
      BY <1>2, FS_CardinalityType
    <2> QED BY <1>4, <2>3, <2>4
  <1> QED BY <1>2, <1>4, <1>5

LEMMA NthOnce ==
  ASSUME TypeOK, NEW n, NEW m, NEW p, Nth(n, p), Nth(m, p)
  PROVE  n = m
  <1>1. ASSUME NEW x \in sent, NEW y \in sent, x < y
        PROVE  Cardinality(Before(x)) # Cardinality(Before(y))
    <2>1. Before(x) \subseteq Before(y) /\ x \in Before(y) /\ x \notin Before(x)
      BY <1>1, SentFinite DEF Before
    <2> QED BY <2>1, SentFinite, FS_Subset
  <1>2. n \in Nat /\ m \in Nat /\ n \in sent /\ m \in sent
    BY SentFinite DEF Nth
  <1> QED BY <1>1, <1>2 DEF Nth

-----------------------------------------------------------------------------
(* The input FIFO holds what was sent and not yet popped, in order.        *)

SentInv ==
  /\ in_wr = Cardinality(sent)
  /\ \A n \in sent : n < pushed
  /\ hpc = "pointer" => in_data[Slot(in_wr)] = pushed
  /\ \A p \in in_rd .. in_wr - 1 : Nth(in_data[Slot(p)], p)

LEMMA InitSent == Init => SentInv
  BY FS_EmptySet DEF Init, SentInv

\* Another input at the end leaves the others where they are.
LEMMA SentGrows ==
  ASSUME TypeOK, SentInv, HostInv, SendPointer
  PROVE  /\ \A n, p : Nth(n, p) => Nth(n, p)'
         /\ \A n, p : n = pushed /\ p = in_wr => Nth(n, p)'
         /\ sent' = sent \cup {pushed} /\ pushed \notin sent
         /\ in_wr' = in_wr + 1 /\ in_wr \in Nat /\ Cardinality(sent') = in_wr + 1
  <1>1. sent' = sent \cup {pushed} /\ pushed \in Nat /\ in_wr' = in_wr + 1 /\ in_wr \in Nat
    BY DEF SendPointer, TypeOK, HostInv
  <1>2. sent \subseteq Nat /\ IsFiniteSet(sent)
    BY SentFinite
  <1>3. pushed \notin sent
    BY <1>1, <1>2 DEF SentInv
  <1>4. \A n \in sent : Before(n)' = Before(n)
    <2> SUFFICES ASSUME NEW n \in sent PROVE ~(pushed < n)
      BY <1>1 DEF Before
    <2> QED BY <1>1, <1>2 DEF SentInv
  <1>5. \A n, p : Nth(n, p) => Nth(n, p)'
    BY <1>1, <1>4 DEF Nth
  <1>6. ~(pushed < pushed) /\ \A m \in sent : m < pushed
    BY <1>1 DEF SentInv
  <1>7. {m \in sent' : m < pushed} = sent
    <2> HIDE DEF SentInv
    <2> QED BY <1>1, <1>6
  <1>8. \A n, p : n = pushed /\ p = in_wr => Nth(n, p)'
    <2>1. in_wr = Cardinality({m \in sent' : m < pushed})
      BY <1>7 DEF SentInv
    <2> QED BY <1>1, <2>1 DEF Nth, Before
  <1>9. Cardinality(sent') = in_wr + 1
    BY <1>1, <1>2, <1>3, FS_AddElement DEF SentInv
  <1> QED BY <1>1, <1>3, <1>5, <1>8, <1>9

\* What the tasklets leave to the host.
LEMMA TaskletFrame ==
  ASSUME NEW t \in Tasklet, TaskletStep(t)
  PROVE  /\ UNCHANGED <<mode, in_wr, in_data, out_rd, hpc, h_rd, h_wr, h_data, pushed, sent, got>>
         /\ in_rd' \in {in_rd, in_rd + 1}
  <1> USE DEF inVars, outVars, hostVars, pushVars
  <1>1. CASE Top(t) \/ Room(t) \/ Active(t)
    BY <1>1 DEF Top, Room, Active
  <1>2. CASE AllTasklets(t)
    BY <1>2 DEF AllTasklets, Passed, Process, Arrive, Reduce, Publish, Pop
  <1>3. CASE EachTasklet(t)
    BY <1>3 DEF EachTasklet, Lock, Take, PopReserve, Work, PushOut, PublishOut, Cede
  <1> QED BY <1>1, <1>2, <1>3 DEF TaskletStep

LEMMA SentFrame ==
  ASSUME TypeOK, SentInv, UNCHANGED <<in_wr, sent, in_data>>, in_rd' \in {in_rd, in_rd + 1},
         pushed' \in {pushed, pushed + 1}, hpc' = "pointer" => hpc = "pointer" /\ pushed' = pushed
  PROVE  SentInv'
  <1>1. in_rd \in Nat /\ in_wr \in Nat /\ pushed \in Nat /\ sent \subseteq Nat
    BY SentFinite DEF TypeOK
  <1>2. \A n \in sent : n < pushed'
    BY <1>1 DEF SentInv
  <1>3. \A n, p : Nth(n, p) => Nth(n, p)'
    BY DEF Nth, Before
  <1>4. \A p \in in_rd' .. in_wr - 1 : p \in in_rd .. in_wr - 1
    BY <1>1
  <1>5. \A p \in in_rd' .. in_wr - 1 : Nth(in_data[Slot(p)], p)
    BY <1>4 DEF SentInv
  <1>6. ASSUME NEW p \in in_rd' .. in_wr' - 1 PROVE Nth(in_data[Slot(p)], p)'
    <2> DEFINE n == in_data[Slot(p)]
    <2>1. Nth(n, p)
      BY <1>5, <1>6
    <2>2. in_data'[Slot(p)] = n
      OBVIOUS
    <2> HIDE DEF n
    <2>3. n \in sent' /\ Cardinality({m \in sent' : m < n}) = p
      BY <2>1 DEF Nth, Before
    <2> QED BY <2>2, <2>3 DEF Nth, Before
  <1>7. hpc' = "pointer" => in_data'[Slot(in_wr')] = pushed'
    BY DEF SentInv
  <1> QED BY <1>2, <1>6, <1>7 DEF SentInv

\* The host writes a slot that no input is in.
LEMMA SentKept ==
  ASSUME IndexFits, FifoInv, SendData
  PROVE  /\ in_data'[Slot(in_wr)] = pushed
         /\ \A p \in in_rd .. in_wr - 1 : in_data'[Slot(p)] = in_data[Slot(p)]
  <1>1. /\ hpc = "data" /\ in_data' = [in_data EXCEPT ![Slot(h_wr)] = pushed]
        /\ UNCHANGED <<in_rd, in_wr, pushed, sent>>
    <2>1. HostSlot(h_wr) = Slot(h_wr)
      BY HostSlotFits DEF FifoInv, TypeOK
    <2> QED BY <2>1 DEF SendData, kernelVars, pushVars
  <1>2. /\ in_data \in [0 .. NrSlots - 1 -> Item] /\ in_rd \in Nat /\ in_wr \in Nat
        /\ h_wr = in_wr /\ in_wr < in_rd + NrSlots
    BY <1>1, WramFifoAssumption DEF FifoInv, TypeOK, HostInv
  <1>3. in_data'[Slot(in_wr)] = pushed
    BY <1>1, <1>2, SlotRange
  <1>4. ASSUME NEW p \in in_rd .. in_wr - 1 PROVE in_data'[Slot(p)] = in_data[Slot(p)]
    <2>1. p \in Nat /\ p < in_wr /\ in_wr < p + NrSlots
      BY <1>2, WramFifoAssumption
    <2>2. Slot(p) # Slot(in_wr) /\ Slot(p) \in 0 .. NrSlots - 1
      BY <1>2, <2>1, SlotsDiffer, SlotRange
    <2> QED BY <1>1, <1>2, <2>2
  <1> QED BY <1>3, <1>4

LEMMA SendDataSent == IndexFits /\ FifoInv /\ SentInv /\ SendData => SentInv'
  <1> SUFFICES ASSUME IndexFits, FifoInv, SentInv, SendData PROVE SentInv'
    OBVIOUS
  <1>1. UNCHANGED <<in_rd, in_wr, pushed, sent>>
    BY DEF SendData, kernelVars, pushVars
  <1>2. ASSUME NEW p \in in_rd' .. in_wr' - 1 PROVE Nth(in_data[Slot(p)], p)'
    <2>1. Nth(in_data[Slot(p)], p)
      BY <1>1, <1>2 DEF SentInv
    <2>2. in_data'[Slot(p)] = in_data[Slot(p)]
      BY <1>1, <1>2, SentKept
    <2> QED BY <1>1, <2>1, <2>2 DEF Nth, Before
  <1>3. in_wr' = Cardinality(sent') /\ \A n \in sent' : n < pushed'
    BY <1>1 DEF SentInv
  <1>4. in_data'[Slot(in_wr')] = pushed'
    BY <1>1, SentKept
  <1> QED BY <1>2, <1>3, <1>4 DEF SentInv

LEMMA SendPointerSent == FifoInv /\ SentInv /\ SendPointer => SentInv'
  <1> SUFFICES ASSUME FifoInv, SentInv, SendPointer PROVE SentInv'
    OBVIOUS
  <1>1. TypeOK /\ HostInv
    BY DEF FifoInv
  <1>2. /\ \A n, p : Nth(n, p) => Nth(n, p)'
        /\ \A n, p : n = pushed /\ p = in_wr => Nth(n, p)'
        /\ sent' = sent \cup {pushed} /\ in_wr' = in_wr + 1 /\ in_wr \in Nat
        /\ Cardinality(sent') = in_wr + 1
    BY <1>1, SentGrows
  <1>3. /\ hpc = "pointer" /\ hpc' = "idle" /\ pushed' = pushed + 1
        /\ UNCHANGED <<in_data, in_rd>> /\ in_rd \in Nat /\ pushed \in Nat
    BY <1>1 DEF SendPointer, kernelVars, TypeOK
  <1>4. sent \subseteq Nat
    BY <1>1, SentFinite
  <1>5. \A n \in sent' : n < pushed'
    BY <1>2, <1>3, <1>4 DEF SentInv
  <1>6. ASSUME NEW p \in in_rd' .. in_wr' - 1 PROVE Nth(in_data[Slot(p)], p)'
    <2>0. PICK n : n = in_data[Slot(p)]
      OBVIOUS
    <2>1. p \in in_rd .. in_wr - 1 \/ p = in_wr
      BY <1>2, <1>3
    <2>2. Nth(n, p) \/ (p = in_wr /\ n = pushed)
      BY <1>3, <2>0, <2>1 DEF SentInv
    <2>3. n = in_data'[Slot(p)]
      BY <1>3, <2>0
    <2>4. Nth(n, p)'
      BY <1>2, <2>2
    <2>5. n \in sent' /\ Cardinality({m \in sent' : m < n}) = p
      BY <2>4 DEF Nth, Before
    <2> QED BY <2>3, <2>5 DEF Nth, Before
  <1> QED BY <1>2, <1>3, <1>5, <1>6 DEF SentInv

LEMMA SentStep == IndexFits /\ FifoInv /\ SentInv /\ [Next]_vars => SentInv'
  <1> SUFFICES ASSUME IndexFits, FifoInv, SentInv, [Next]_vars PROVE SentInv'
    OBVIOUS
  <1> USE DEF inVars, outVars, hostVars, pushVars, kernelVars
  <1>1. TypeOK
    BY DEF FifoInv
  <1>2. ASSUME NEW t \in Tasklet, TaskletStep(t) PROVE SentInv'
    BY <1>1, <1>2, TaskletFrame, SentFrame
  <1>3. CASE BeginPush \/ ReadInput \/ CheckFull
    BY <1>1, <1>3, SentFrame DEF BeginPush, ReadInput, CheckFull
  <1>4. CASE BeginFlush \/ CopyOutput \/ Release \/ ClearActive
    BY <1>1, <1>4, SentFrame DEF BeginFlush, CopyOutput, Release, ClearActive
  <1>5. CASE UNCHANGED vars
    BY <1>1, <1>5, SentFrame DEF vars
  <1> QED BY <1>2, <1>3, <1>4, <1>5, SendDataSent, SendPointerSent DEF Next, Call

-----------------------------------------------------------------------------
(* The rounds of process_inputs_all_tasklets: three waits for each input.  *)

WaitPc == {"wait1", "wait2", "wait3"}
Offset(at) ==
  IF at \in {"wait1", "process"} THEN 1
  ELSE IF at \in {"wait2", "reduce", "publish", "pop", "arrive"} THEN 2 ELSE 0
Round(t) == (entered[t] - Offset(pc[t])) \div 3

RoundOf(t) ==
  /\ entered[t] = 3 * Round(t) + Offset(pc[t])
  /\ left[t] = entered[t] - (IF pc[t] \in WaitPc THEN 1 ELSE 0)

RoundsInv ==
  mode = "all" =>
    /\ \A t \in Tasklet : RoundOf(t)
    /\ \A t, u \in Tasklet : left[t] <= entered[u]
    /\ pc[0] # "arrive"
    /\ in_rd = Round(0)

LEMMA Divided == ASSUME NEW r \in Int, NEW o \in 0 .. 2 PROVE (3 * r + o - o) \div 3 = r
  OBVIOUS

LEMMA Rounds ==
  ASSUME TypeOK, RoundsInv, mode = "all", NEW t \in Tasklet
  PROVE  /\ Offset(pc[t]) \in 0 .. 2 /\ Round(t) \in Int /\ entered[t] \in Nat /\ left[t] \in Nat
         /\ entered[t] = 3 * Round(t) + Offset(pc[t])
         /\ left[t] = entered[t] - (IF pc[t] \in WaitPc THEN 1 ELSE 0)
         /\ pc[t] \in Pc
  <1>1. entered[t] \in Nat /\ left[t] \in Nat /\ pc[t] \in Pc
    BY DEF TypeOK
  <1>2. Offset(pc[t]) \in 0 .. 2
    BY DEF Offset
  <1>3. Round(t) \in Int
    BY <1>1, <1>2 DEF Round
  <1> QED BY <1>1, <1>2, <1>3 DEF RoundsInv, RoundOf

LEMMA InitRounds == Init => RoundsInv
  <1> SUFFICES ASSUME Init PROVE RoundsInv
    OBVIOUS
  <1>1. 0 \in Tasklet
    BY WramFifoAssumption DEF Tasklet
  <1>2. \A t \in Tasklet : /\ pc[t] = "top" /\ Offset(pc[t]) = 0 /\ Round(t) = 0
                           /\ entered[t] = 0 /\ left[t] = 0
    BY DEF Init, Offset, Round
  <1>3. \A t \in Tasklet : RoundOf(t)
    BY <1>2 DEF RoundOf, WaitPc
  <1>4. \A t, u \in Tasklet : left[t] <= entered[u]
    BY <1>2
  <1>5. in_rd = Round(0) /\ pc[0] # "arrive"
    BY <1>1, <1>2 DEF Init
  <1> QED BY <1>3, <1>4, <1>5 DEF RoundsInv

\* The tasklet where it is, with other numbers: what has to be shown of a step.
LEMMA RoundsMove ==
  ASSUME TypeOK, RoundsInv, mode = "all", mode' = mode, NEW t \in Tasklet, NEW to \in Pc,
         Goto(t, to), NEW r \in Int,
         \A u \in Tasklet \ {t} : entered'[u] = entered[u] /\ left'[u] = left[u],
         entered'[t] = 3 * r + Offset(to),
         left'[t] = entered'[t] - (IF to \in WaitPc THEN 1 ELSE 0),
         entered[t] <= entered'[t], \A u \in Tasklet : left'[t] <= entered[u],
         t = 0 => to # "arrive" /\ in_rd' = r,
         t # 0 => in_rd' = in_rd
  PROVE  RoundsInv' /\ Round(t)' = r /\ \A u \in Tasklet \ {t} : Round(u)' = Round(u)
  <1>1. pc' = [pc EXCEPT ![t] = to] /\ pc \in [Tasklet -> Pc]
    BY DEF Goto, TypeOK
  <1>2. pc'[t] = to /\ \A u \in Tasklet \ {t} : pc'[u] = pc[u]
    BY <1>1
  <1>3. \A u \in Tasklet \ {t} : Round(u)' = Round(u) /\ Offset(pc'[u]) = Offset(pc[u])
    BY <1>2 DEF Round
  <1>4. Offset(to) \in 0 .. 2
    BY DEF Offset
  <1>5. Round(t)' = r
    <2>1. Round(t)' = (entered'[t] - Offset(to)) \div 3
      BY <1>2 DEF Round
    <2> QED BY <1>4, <2>1, Divided
  <1>6. ASSUME NEW u \in Tasklet PROVE RoundOf(u)'
    <2>1. CASE u = t
      <3>1. entered'[t] = 3 * r + Offset(pc'[t])
        BY <1>2
      <3>2. left'[t] = entered'[t] - (IF pc'[t] \in WaitPc THEN 1 ELSE 0)
        BY <1>2
      <3> QED BY <1>5, <2>1, <3>1, <3>2 DEF RoundOf
    <2>2. CASE u # t
      <3>1. RoundOf(u) /\ Round(u)' = Round(u) /\ pc'[u] = pc[u]
        BY <1>2, <1>3, <2>2 DEF RoundsInv
      <3>2. entered'[u] = entered[u] /\ left'[u] = left[u]
        BY <2>2
      <3> QED BY <3>1, <3>2 DEF RoundOf
    <2> QED BY <2>1, <2>2
  <1>7. ASSUME NEW u \in Tasklet, NEW v \in Tasklet PROVE left'[u] <= entered'[v]
    <2>1. /\ entered[u] \in Nat /\ entered[v] \in Nat /\ left[u] \in Nat
          /\ entered[t] \in Nat /\ left[u] <= entered[v]
      BY Rounds DEF RoundsInv
    <2>2. entered'[t] \in Int /\ left'[t] \in Int
      BY <1>4
    <2>3. entered[v] <= entered'[v]
      <3>1. CASE v = t
        BY <3>1
      <3>2. CASE v # t
        BY <2>1, <3>2
      <3> QED BY <3>1, <3>2
    <2>4. left'[u] <= entered[v]
      <3>1. CASE u = t
        BY <3>1
      <3>2. CASE u # t
        BY <2>1, <3>2
      <3> QED BY <3>1, <3>2
    <2>5. entered'[v] \in Int /\ left'[u] \in Int
      <3>1. v # t => entered'[v] = entered[v]
        OBVIOUS
      <3>2. u # t => left'[u] = left[u]
        OBVIOUS
      <3> QED BY <2>1, <2>2, <3>1, <3>2
    <2> QED BY <2>1, <2>3, <2>4, <2>5
  <1>8. 0 \in Tasklet
    BY WramFifoAssumption DEF Tasklet
  <1>9. pc'[0] # "arrive" /\ in_rd' = Round(0)'
    <2>1. CASE t = 0
      BY <1>2, <1>5, <2>1
    <2>2. CASE t # 0
      BY <1>2, <1>3, <1>8, <2>2 DEF RoundsInv
    <2> QED BY <2>1, <2>2
  <1>10. RoundsInv'
    BY <1>6, <1>7, <1>9 DEF RoundsInv
  <1> QED BY <1>3, <1>5, <1>10

\* A tasklet that begins no wait and ends none.
LEMMA RoundsStay ==
  ASSUME TypeOK, RoundsInv, mode = "all", mode' = mode, NEW t \in Tasklet, NEW to \in Pc,
         Goto(t, to), UNCHANGED <<entered, left, in_rd>>, to # "arrive",
         Offset(to) = Offset(pc[t]), pc[t] \notin WaitPc, to \notin WaitPc
  PROVE  RoundsInv' /\ \A u \in Tasklet : Round(u)' = Round(u)
  <1>1. \A u \in Tasklet : left[t] <= entered[u]
    BY DEF RoundsInv
  <1>2. t = 0 => in_rd' = Round(t)
    BY DEF RoundsInv
  <1>3. /\ Round(t) \in Int /\ entered[t] = 3 * Round(t) + Offset(to) /\ left[t] = entered[t]
        /\ entered[t] \in Nat
    BY Rounds
  <1> QED BY <1>1, <1>2, <1>3, RoundsMove

\* A tasklet that comes to a wait.
LEMMA RoundsEnter ==
  ASSUME TypeOK, RoundsInv, mode = "all", mode' = mode, NEW t \in Tasklet, NEW to \in WaitPc,
         Goto(t, to), Bar!Enter(t), NEW r \in Int,
         3 * r + Offset(to) = 3 * Round(t) + Offset(pc[t]) + 1,
         t = 0 => in_rd' = r, t # 0 => in_rd' = in_rd
  PROVE  RoundsInv' /\ Round(t)' = r /\ \A u \in Tasklet \ {t} : Round(u)' = Round(u)
  <1>1. /\ entered' = [entered EXCEPT ![t] = @ + 1] /\ left' = left /\ left[t] = entered[t]
        /\ entered \in [Tasklet -> Nat]
    BY DEF Bar!Enter, TypeOK
  <1>2. to \in Pc /\ to # "arrive"
    BY DEF Pc, WaitPc
  <1>3. entered'[t] = entered[t] + 1 /\ \A u \in Tasklet \ {t} : entered'[u] = entered[u]
    BY <1>1
  <1>4. entered'[t] = 3 * r + Offset(to)
    BY <1>3, Rounds
  <1>5. left'[t] = entered'[t] - 1 /\ entered[t] <= entered'[t]
    BY <1>1, <1>3
  <1>6. \A u \in Tasklet : left'[t] <= entered[u]
    BY <1>1 DEF RoundsInv
  <1> QED BY <1>1, <1>2, <1>3, <1>4, <1>5, <1>6, RoundsMove

\* A tasklet that returns from one.
LEMMA RoundsLeave ==
  ASSUME TypeOK, RoundsInv, mode = "all", mode' = mode, NEW t \in Tasklet, NEW to \in Pc,
         pc[t] \in WaitPc, Goto(t, to), Bar!Leave({t}), to \notin WaitPc,
         Offset(to) = Offset(pc[t]), in_rd' = in_rd, t = 0 => to # "arrive"
  PROVE  RoundsInv' /\ \A u \in Tasklet : Round(u)' = Round(u)
  <1>1. /\ left' = [u \in Tasklet |-> IF u \in {t} THEN left[u] + 1 ELSE left[u]]
        /\ entered' = entered /\ \A u \in Tasklet : entered[t] <= entered[u]
    <2>1. \A u \in Tasklet : entered[u] >= entered[t]
      BY DEF Bar!Leave
    <2>2. \A u \in Tasklet : entered[u] \in Nat
      BY DEF TypeOK
    <2> QED BY <2>1, <2>2 DEF Bar!Leave
  <1>2. left \in [Tasklet -> Nat]
    BY DEF TypeOK
  <1>3. left'[t] = left[t] + 1 /\ \A u \in Tasklet \ {t} : left'[u] = left[u]
    BY <1>1, <1>2
  <1>4. /\ Round(t) \in Int /\ entered[t] = 3 * Round(t) + Offset(to)
        /\ left[t] = entered[t] - 1 /\ entered[t] \in Nat
    BY Rounds
  <1>5. t = 0 => in_rd' = Round(t)
    BY DEF RoundsInv
  <1>6. left'[t] = entered[t]
    BY <1>3, <1>4
  <1> QED BY <1>1, <1>3, <1>4, <1>5, <1>6, RoundsMove

\* What a tasklet of the first loop does, and which round it is then in.
LEMMA AllModes ==
  ASSUME FifoInv, mode = "all", NEW t \in Tasklet, TaskletStep(t)
  PROVE  Top(t) \/ Room(t) \/ Active(t) \/ AllTasklets(t)
  <1>1. pc[t] \notin EachPc
    BY DEF FifoInv, TaskletInv
  <1>2. ~EachTasklet(t)
    BY <1>1 DEF EachTasklet, Lock, Take, PopReserve, Work, PushOut, PublishOut, Cede,
                EachPc, HoldPc, SlotPc
  <1> QED BY <1>2 DEF TaskletStep

LEMMA RoundsTasklet ==
  ASSUME FifoInv, RoundsInv, mode = "all", NEW t \in Tasklet, TaskletStep(t)
  PROVE  /\ RoundsInv'
         /\ Round(t)' = IF pc[t] \in {"pop", "arrive"} THEN Round(t) + 1 ELSE Round(t)
         /\ \A u \in Tasklet \ {t} : Round(u)' = Round(u)
  <1> USE DEF inVars, outVars, barVars
  <1>1. TypeOK /\ mode' = mode /\ 0 \in Tasklet
    BY TaskletFrame, WramFifoAssumption DEF FifoInv, Tasklet
  <1>2. CASE Top(t)
    <2>1. \/ Goto(t, "room") /\ UNCHANGED <<entered, left, in_rd>> /\ pc[t] = "top"
          \/ Goto(t, "active") /\ UNCHANGED <<entered, left, in_rd>> /\ pc[t] = "top"
      BY <1>2 DEF Top
    <2> QED BY <1>1, <2>1, RoundsStay DEF Offset, WaitPc, Pc
  <1>3. CASE Active(t)
    <2>1. \/ Goto(t, "top") /\ UNCHANGED <<entered, left, in_rd>> /\ pc[t] = "active"
          \/ Goto(t, "exit") /\ UNCHANGED <<entered, left, in_rd>> /\ pc[t] = "active"
      BY <1>3 DEF Active
    <2> QED BY <1>1, <2>1, RoundsStay DEF Offset, WaitPc, Pc
  <1>4. CASE Room(t)
    <2>1. \/ Goto(t, "top") /\ UNCHANGED <<entered, left, in_rd>> /\ pc[t] = "room"
          \/ Goto(t, "wait1") /\ Bar!Enter(t) /\ in_rd' = in_rd /\ pc[t] = "room"
      BY <1>4 DEF Room
    <2>2. CASE Goto(t, "top") /\ UNCHANGED <<entered, left, in_rd>> /\ pc[t] = "room"
      BY <1>1, <2>2, RoundsStay DEF Offset, WaitPc, Pc
    <2>3. CASE Goto(t, "wait1") /\ Bar!Enter(t) /\ in_rd' = in_rd /\ pc[t] = "room"
      <3>1. Round(t) \in Int /\ 3 * Round(t) + Offset("wait1") = 3 * Round(t) + Offset(pc[t]) + 1
        BY <1>1, <2>3, Rounds DEF Offset
      <3>2. "wait1" \in WaitPc /\ (t = 0 => in_rd' = Round(t))
        BY <2>3 DEF WaitPc, RoundsInv
      <3> QED BY <1>1, <2>3, <3>1, <3>2, RoundsEnter
    <2> QED BY <2>1, <2>2, <2>3
  <1>5. CASE Passed(t)
    <2>1. /\ \/ pc[t] = "wait1" /\ Goto(t, "process")
             \/ pc[t] = "wait2" /\ t = 0 /\ Goto(t, "reduce")
             \/ pc[t] = "wait2" /\ t # 0 /\ Goto(t, "arrive")
             \/ pc[t] = "wait3" /\ Goto(t, "top")
          /\ Bar!Leave({t}) /\ in_rd' = in_rd
      BY <1>5 DEF Passed, AfterWait
    <2>2. /\ "process" \in Pc /\ "reduce" \in Pc /\ "arrive" \in Pc /\ "top" \in Pc
          /\ \A at \in {"process", "reduce", "arrive", "top"} : at \notin WaitPc
          /\ Offset("process") = 1 /\ Offset("reduce") = 2 /\ Offset("arrive") = 2
          /\ Offset("top") = 0 /\ Offset("wait1") = 1 /\ Offset("wait2") = 2
          /\ Offset("wait3") = 0
      BY DEF Pc, WaitPc, Offset
    <2>3. pc[t] \in WaitPc
      BY <2>1 DEF WaitPc
    <2> QED BY <1>1, <2>1, <2>2, <2>3, RoundsLeave
  <1>6. CASE Process(t)
    <2>1. Goto(t, "wait2") /\ Bar!Enter(t) /\ in_rd' = in_rd /\ pc[t] = "process"
      BY <1>6 DEF Process
    <2>2. Round(t) \in Int /\ 3 * Round(t) + Offset("wait2") = 3 * Round(t) + Offset(pc[t]) + 1
      BY <1>1, <2>1, Rounds DEF Offset
    <2>3. "wait2" \in WaitPc /\ (t = 0 => in_rd' = Round(t))
      BY <1>1, <2>1 DEF WaitPc, RoundsInv
    <2> QED BY <1>1, <2>1, <2>2, <2>3, RoundsEnter
  <1>7. CASE Arrive(t)
    <2>1. Goto(t, "wait3") /\ Bar!Enter(t) /\ in_rd' = in_rd /\ pc[t] = "arrive"
      BY <1>7 DEF Arrive
    <2>2. /\ Round(t) + 1 \in Int
          /\ 3 * (Round(t) + 1) + Offset("wait3") = 3 * Round(t) + Offset(pc[t]) + 1
      BY <1>1, <2>1, Rounds DEF Offset
    <2>3. "wait3" \in WaitPc /\ t # 0
      BY <2>1 DEF WaitPc, RoundsInv
    <2> QED BY <1>1, <2>1, <2>2, <2>3, RoundsEnter
  <1>8. CASE t = 0 /\ Reduce
    <2>1. Goto(t, "publish") /\ UNCHANGED <<entered, left, in_rd>> /\ pc[t] = "reduce"
      BY <1>8 DEF Reduce
    <2> QED BY <1>1, <2>1, RoundsStay DEF Offset, WaitPc, Pc
  <1>9. CASE t = 0 /\ Publish
    <2>1. Goto(t, "pop") /\ UNCHANGED <<entered, left, in_rd>> /\ pc[t] = "publish"
      BY <1>9 DEF Publish
    <2> QED BY <1>1, <2>1, RoundsStay DEF Offset, WaitPc, Pc
  <1>10. CASE t = 0 /\ Pop
    <2>1. t = 0 /\ Goto(t, "wait3") /\ Bar!Enter(t) /\ in_rd' = in_rd + 1 /\ pc[t] = "pop"
      BY <1>10 DEF Pop
    <2>2. /\ Round(t) + 1 \in Int
          /\ 3 * (Round(t) + 1) + Offset("wait3") = 3 * Round(t) + Offset(pc[t]) + 1
      BY <1>1, <2>1, Rounds DEF Offset
    <2>3. "wait3" \in WaitPc /\ in_rd' = Round(t) + 1
      BY <2>1 DEF WaitPc, RoundsInv
    <2> QED BY <1>1, <2>1, <2>2, <2>3, RoundsEnter
  <1> QED BY <1>2, <1>3, <1>4, <1>5, <1>6, <1>7, <1>8, <1>9, <1>10, AllModes DEF AllTasklets

LEMMA HostFrame ==
  ASSUME BeginPush \/ BeginFlush \/ Call \/ ClearActive \/ UNCHANGED vars
  PROVE  /\ UNCHANGED <<mode, in_rd, out_wr, out_data, nb_reserved, pc, tmp, mutex, entered, left>>
         /\ out_rd' # out_rd \/ got' # got => Release
         /\ sent' # sent => SendPointer
  BY DEF BeginPush, BeginFlush, Call, ReadInput, CheckFull, SendData, SendPointer, CopyOutput,
         Release, ClearActive, vars, kernelVars, barVars, inVars, outVars, hostVars, pushVars

LEMMA RoundsStep == FifoInv /\ RoundsInv /\ [Next]_vars => RoundsInv'
  <1> SUFFICES ASSUME FifoInv, RoundsInv, [Next]_vars PROVE RoundsInv'
    OBVIOUS
  <1>1. ASSUME NEW t \in Tasklet, TaskletStep(t) PROVE RoundsInv'
    <2>1. CASE mode = "all"
      BY <1>1, <2>1, RoundsTasklet
    <2>2. CASE mode # "all"
      BY <1>1, <2>2, TaskletFrame DEF RoundsInv
    <2> QED BY <2>1, <2>2
  <1>2. CASE BeginPush \/ BeginFlush \/ Call \/ ClearActive \/ UNCHANGED vars
    <2>1. UNCHANGED <<mode, in_rd, pc, entered, left>>
      BY <1>2, HostFrame
    <2> QED BY <2>1 DEF RoundsInv, RoundOf, Round
  <1> QED BY <1>1, <1>2 DEF Next

-----------------------------------------------------------------------------
(* The outputs that the host may read stay as they are.                    *)

LEMMA OutWritten ==
  ASSUME TypeOK, out_wr < out_rd + NrSlots, NEW v,
         out_data' = [out_data EXCEPT ![Slot(out_wr)] = v]
  PROVE  /\ \A p \in out_rd .. out_wr - 1 : out_data'[Slot(p)] = out_data[Slot(p)]
         /\ out_data'[Slot(out_wr)] = v
  <1>1. out_data \in [0 .. NrSlots - 1 -> Item] /\ out_rd \in Nat /\ out_wr \in Nat
    BY DEF TypeOK
  <1>2. out_data'[Slot(out_wr)] = v
    BY <1>1, SlotRange
  <1>3. ASSUME NEW p \in out_rd .. out_wr - 1 PROVE out_data'[Slot(p)] = out_data[Slot(p)]
    <2>1. p \in Nat /\ p < out_wr /\ out_wr < p + NrSlots
      BY <1>1, WramFifoAssumption
    <2>2. Slot(p) # Slot(out_wr) /\ Slot(p) \in 0 .. NrSlots - 1
      BY <1>1, <2>1, SlotsDiffer, SlotRange
    <2> QED BY <1>1, <2>2
  <1> QED BY <1>2, <1>3

LEMMA OutRoom ==
  ASSUME FifoInv, NEW t \in Tasklet, (mode = "all" /\ pc[0] = "reduce") \/ pc[t] = "push"
  PROVE  out_wr < out_rd + NrSlots
  <1>1. /\ TypeOK /\ TaskletInv /\ RoomInv
        /\ out_wr \in Nat /\ out_rd \in Nat /\ nb_reserved \in Nat /\ NrSlots \in Nat
    BY WramFifoAssumption DEF FifoInv, TypeOK
  <1>2. CASE mode = "all" /\ pc[0] = "reduce"
    BY <1>1, <1>2 DEF RoomInv, ChecksPc, Needed
  <1>3. CASE pc[t] = "push"
    <2>1. t \in Reserved
      BY <1>3 DEF Reserved, SlotPc
    <2>2. nb_reserved # 0
      BY <1>1, <2>1, ReservedFinite, FS_EmptySet DEF TaskletInv
    <2>3. ~Ceding
      BY <1>1, <1>3, HolderAlone DEF Ceding, HoldPc
    <2> QED BY <1>1, <2>2, <2>3 DEF RoomInv, Needed
  <1> QED BY <1>2, <1>3

LEMMA OutFrame ==
  ASSUME FifoInv, NEW t \in Tasklet, TaskletStep(t)
  PROVE  \A p \in out_rd .. out_wr - 1 : out_data'[Slot(p)] = out_data[Slot(p)]
  <1>1. TypeOK
    BY DEF FifoInv
  <1>2. CASE t = 0 /\ Reduce
    <2>1. mode = "all" /\ pc[0] = "reduce"
      BY <1>2 DEF Reduce, FifoInv, TaskletInv, AllPc
    <2> QED BY <1>1, <1>2, <2>1, OutRoom, OutWritten DEF Reduce
  <1>3. CASE PushOut(t)
    BY <1>1, <1>3, OutRoom, OutWritten DEF PushOut
  <1>4. CASE ~(t = 0 /\ Reduce) /\ ~PushOut(t)
    <2>1. out_data' = out_data
      BY <1>4 DEF outVars, TaskletStep, Top, Room, Active, AllTasklets, Passed, Process, Arrive,
                  Publish, Pop, EachTasklet, Lock, Take, PopReserve, Work, PublishOut, Cede
    <2> QED BY <2>1
  <1> QED BY <1>2, <1>3, <1>4

\* A step leaves the elements between the pointers as they are.
UnreadKept ==
  /\ \A p \in in_rd .. in_wr - 1 : in_data'[Slot(p)] = in_data[Slot(p)]
  /\ \A p \in out_rd .. out_wr - 1 : out_data'[Slot(p)] = out_data[Slot(p)]

LEMMA StepKeepsUnread == ASSUME IndexFits, FifoInv, [Next]_vars PROVE UnreadKept
  <1>1. ASSUME NEW t \in Tasklet, TaskletStep(t) PROVE UnreadKept
    BY <1>1, TaskletFrame, OutFrame DEF UnreadKept
  <1>2. CASE BeginPush \/ BeginFlush \/ Call \/ ClearActive \/ UNCHANGED vars
    <2>1. out_data' = out_data
      BY <1>2, HostFrame
    <2>2. CASE SendData
      BY <2>1, <2>2, SentKept DEF UnreadKept
    <2>3. CASE ~SendData
      <3>1. in_data' = in_data
        BY <1>2, <2>3 DEF BeginPush, BeginFlush, Call, ReadInput, CheckFull, SendPointer,
                          CopyOutput, Release, ClearActive, vars, inVars
      <3> QED BY <2>1, <3>1 DEF UnreadKept
    <2> QED BY <2>2, <2>3
  <1> QED BY <1>1, <1>2 DEF Next

\* In FIFOs whose slots a uint8_t can number (get_fifo_wr_ptr, dpu_fifo.c 48) no input
\* is overwritten before a tasklet has taken it, and no output before the host has it,
\* although the host checks with old pointers (dpu_fifo.c 110) and the tasklets before
\* they have the mutex (wramfifo.c 142).
THEOREM FifosKeepTheirSlots == ASSUME IndexFits PROVE Spec => []WithinSlots /\ [][UnreadKept]_vars
  <1>1. FifoInv /\ [Next]_vars => [UnreadKept]_vars
    BY StepKeepsUnread
  <1> QED BY <1>1, FifoInvHolds, InvImpliesWithin, PTL DEF Spec

\* What the host has copied and not yet released is still in the FIFO.
CopyInv ==
  hpc = "release" => \A p \in h_rd .. h_wr - 1 : h_data[Slot(p)] = out_data[Slot(p)]

LEMMA CopyStep == FifoInv /\ CopyInv /\ [Next]_vars => CopyInv'
  <1> SUFFICES ASSUME FifoInv, CopyInv, [Next]_vars PROVE CopyInv'
    OBVIOUS
  <1>1. TypeOK /\ HostInv
    BY DEF FifoInv
  <1>2. ASSUME NEW t \in Tasklet, TaskletStep(t) PROVE CopyInv'
    <2> SUFFICES ASSUME hpc = "release", NEW p \in h_rd .. h_wr - 1
                 PROVE  h_data[Slot(p)] = out_data'[Slot(p)]
      BY <1>2, TaskletFrame DEF CopyInv
    <2>1. p \in out_rd .. out_wr - 1
      BY <1>1 DEF HostInv, TypeOK
    <2> QED BY <1>2, <2>1, OutFrame DEF CopyInv
  <1>3. CASE CopyOutput
    <2>1. CASE h_wr # h_rd
      BY <1>3, <2>1 DEF CopyOutput, CopyInv, outVars
    <2>2. CASE h_wr = h_rd
      <3>1. h_rd' .. h_wr' - 1 = {}
        BY <1>1, <1>3, <2>2 DEF CopyOutput, TypeOK
      <3> QED BY <3>1 DEF CopyInv
    <2> QED BY <2>1, <2>2
  <1>4. CASE BeginPush \/ ReadInput \/ CheckFull \/ SendData \/ SendPointer \/ BeginFlush
             \/ Release
    BY <1>4 DEF CopyInv, BeginPush, ReadInput, CheckFull, SendData, SendPointer, BeginFlush, Release
  <1>5. CASE ClearActive \/ UNCHANGED vars
    BY <1>5 DEF CopyInv, ClearActive, vars, outVars, hostVars
  <1> QED BY <1>2, <1>3, <1>4, <1>5 DEF Next, Call

-----------------------------------------------------------------------------
(* The first loop answers in order.                                        *)

\* A tasklet that has processed an input keeps its part until the next one.
PartOf(t) ==
  /\ pc[t] \in {"wait2", "reduce", "publish", "pop", "arrive"} => Nth(tmp[t], Round(t))
  /\ pc[t] = "wait3" => Nth(tmp[t], Round(t) - 1)

OrderInv ==
  mode = "all" =>
    /\ out_wr = in_rd + (IF pc[0] = "pop" THEN 1 ELSE 0)
    /\ \A t \in Tasklet : PartOf(t)
    /\ pc[0] = "publish" => Nth(out_data[Slot(out_wr)], out_wr)
    /\ \A p \in out_rd .. out_wr - 1 : Nth(out_data[Slot(p)], p)
    /\ Len(got) = out_rd
    /\ \A i \in 1 .. Len(got) : Nth(got[i], i - 1)

LEMMA InitOrder == Init => OrderInv
  <1> SUFFICES ASSUME Init PROVE OrderInv
    OBVIOUS
  <1>1. 0 \in Tasklet
    BY WramFifoAssumption DEF Tasklet
  <1>2. \A t \in Tasklet : PartOf(t)
    BY DEF Init, PartOf
  <1>3. Len(got) = 0
    BY DEF Init
  <1> QED BY <1>1, <1>2, <1>3 DEF Init, OrderInv

LEMMA NthFrame == sent' = sent => \A n, p : Nth(n, p) => Nth(n, p)'
  BY DEF Nth, Before

\* Who processes, processes the head of the FIFO of the round it is in.
LEMMA AtHead ==
  ASSUME FifoInv, RoundsInv, NEW t \in Tasklet, mode = "all", pc[t] = "process"
  PROVE  in_rd = Round(t) /\ in_rd < in_wr
  <1>1. 0 \in Tasklet /\ TypeOK
    BY WramFifoAssumption DEF Tasklet, FifoInv
  <1>2. left[t] <= entered[0] /\ left[0] <= entered[t] /\ in_rd = Round(0)
    BY <1>1 DEF RoundsInv
  <1>3. left[t] = entered[t] /\ entered[t] = 3 * Round(t) + 1 /\ Round(t) \in Int
    BY <1>1, Rounds DEF Offset, WaitPc
  <1>4. /\ entered[0] = 3 * Round(0) + Offset(pc[0]) /\ Round(0) \in Int
        /\ Offset(pc[0]) \in 0 .. 2
        /\ left[0] = entered[0] - (IF pc[0] \in WaitPc THEN 1 ELSE 0)
    BY <1>1, Rounds
  <1>5. Offset(pc[0]) = 1 \/ (Offset(pc[0]) = 2 /\ pc[0] \in WaitPc)
    <2>1. CASE pc[0] \in WaitPc
      <3>1. Offset(pc[0]) # 0
        BY <1>2, <1>3, <1>4, <2>1
      <3> QED BY <1>4, <2>1, <3>1
    <2>2. CASE pc[0] \notin WaitPc
      BY <1>2, <1>3, <1>4, <2>2
    <2> QED BY <2>1, <2>2
  <1>6. Round(0) = Round(t)
    BY <1>2, <1>3, <1>4, <1>5
  <1>7. pc[0] \in ChecksPc
    BY <1>5 DEF Offset, WaitPc, ChecksPc
  <1> QED BY <1>2, <1>6, <1>7 DEF FifoInv, RoomInv

\* When tasklet 0 reduces, all have processed that input and none the next.
LEMMA AllParts ==
  ASSUME FifoInv, RoundsInv, OrderInv, mode = "all", pc[0] = "reduce"
  PROVE  \A t \in Tasklet : Nth(tmp[t], in_rd)
  <1> SUFFICES ASSUME NEW t \in Tasklet PROVE Nth(tmp[t], in_rd)
    OBVIOUS
  <1>1. 0 \in Tasklet /\ TypeOK
    BY WramFifoAssumption DEF Tasklet, FifoInv
  <1>2. left[t] <= entered[0] /\ left[0] <= entered[t] /\ in_rd = Round(0)
    BY <1>1 DEF RoundsInv
  <1>3. left[0] = entered[0] /\ entered[0] = 3 * Round(0) + 2 /\ Round(0) \in Int
    BY <1>1, Rounds DEF Offset, WaitPc
  <1>4. /\ entered[t] = 3 * Round(t) + Offset(pc[t]) /\ Round(t) \in Int
        /\ Offset(pc[t]) \in 0 .. 2
        /\ left[t] = entered[t] - (IF pc[t] \in WaitPc THEN 1 ELSE 0)
    BY <1>1, Rounds
  <1>5. CASE Offset(pc[t]) = 2
    <2>1. Round(t) = in_rd
      BY <1>2, <1>3, <1>4, <1>5
    <2>2. pc[t] \in {"wait2", "reduce", "publish", "pop", "arrive"}
      BY <1>5 DEF Offset
    <2> QED BY <2>1, <2>2 DEF OrderInv, PartOf
  <1>6. CASE Offset(pc[t]) # 2
    <2>1. Offset(pc[t]) = 0 /\ pc[t] \in WaitPc /\ Round(t) - 1 = in_rd
      <3>1. CASE pc[t] \in WaitPc
        BY <1>2, <1>3, <1>4, <1>6, <3>1
      <3>2. CASE pc[t] \notin WaitPc
        BY <1>2, <1>3, <1>4, <1>6, <3>2
      <3> QED BY <3>1, <3>2
    <2>2. pc[t] = "wait3"
      BY <2>1 DEF Offset, WaitPc
    <2> QED BY <2>1, <2>2 DEF OrderInv, PartOf
  <1> QED BY <1>5, <1>6

LEMMA ReducedPart ==
  ASSUME FifoInv, RoundsInv, OrderInv, mode = "all", pc[0] = "reduce"
  PROVE  Nth(Reduced, in_rd)
  <1>1. 0 \in Tasklet /\ TypeOK
    BY WramFifoAssumption DEF Tasklet, FifoInv
  <1>2. \A t \in Tasklet : tmp[t] = tmp[0]
    BY <1>1, AllParts, NthOnce
  <1>3. Reduced = tmp[0]
    BY <1>2 DEF Reduced
  <1> QED BY <1>1, <1>3, AllParts

\* The steps of a round, by what they change of the FIFOs and the parts.
LEMMA AllEffects ==
  ASSUME FifoInv, mode = "all", NEW t \in Tasklet, TaskletStep(t)
  PROVE  /\ \A u \in Tasklet \ {t} : pc'[u] = pc[u] /\ tmp'[u] = tmp[u]
         /\ \/ /\ pc[t] \in {"top", "room", "active", "wait1", "wait3"}
               /\ pc'[t] \in {"top", "room", "active", "exit", "wait1", "process"}
               /\ UNCHANGED <<in_rd, out_wr, out_data>>
            \/ /\ pc[t] = "process" /\ pc'[t] = "wait2" /\ tmp'[t] = in_data[Slot(in_rd)]
               /\ UNCHANGED <<in_rd, out_wr, out_data>>
            \/ /\ pc[t] = "wait2" /\ pc'[t] \in {"reduce", "arrive"}
               /\ UNCHANGED <<tmp, in_rd, out_wr, out_data>>
            \/ /\ t = 0 /\ pc[t] = "reduce" /\ pc'[t] = "publish"
               /\ out_data' = [out_data EXCEPT ![Slot(out_wr)] = Reduced]
               /\ UNCHANGED <<tmp, in_rd, out_wr>>
            \/ /\ t = 0 /\ pc[t] = "publish" /\ pc'[t] = "pop" /\ out_wr' = out_wr + 1
               /\ UNCHANGED <<tmp, in_rd, out_data>>
            \/ /\ t = 0 /\ pc[t] = "pop" /\ pc'[t] = "wait3" /\ in_rd' = in_rd + 1
               /\ UNCHANGED <<tmp, out_wr, out_data>>
            \/ /\ pc[t] = "arrive" /\ pc'[t] = "wait3"
               /\ UNCHANGED <<tmp, in_rd, out_wr, out_data>>
  <1> USE DEF inVars, outVars, Goto
  <1>1. pc \in [Tasklet -> Pc] /\ tmp \in [Tasklet -> Item] /\ 0 \in Tasklet
    BY WramFifoAssumption DEF FifoInv, TypeOK, Tasklet
  <1>2. CASE Top(t)
    BY <1>1, <1>2 DEF Top
  <1>3. CASE Room(t)
    BY <1>1, <1>3 DEF Room
  <1>4. CASE Active(t)
    BY <1>1, <1>4 DEF Active
  <1>5. CASE Passed(t)
    <2>1. pc' = [pc EXCEPT ![t] = AfterWait(t)] /\ UNCHANGED <<tmp, in_rd, out_wr, out_data>>
      BY <1>5 DEF Passed
    <2>2. \/ pc[t] = "wait1" /\ AfterWait(t) = "process"
          \/ pc[t] = "wait2" /\ AfterWait(t) \in {"reduce", "arrive"}
          \/ pc[t] = "wait3" /\ AfterWait(t) = "top"
      BY <1>5 DEF Passed, AfterWait
    <2> QED BY <1>1, <2>1, <2>2
  <1>6. CASE Process(t)
    BY <1>1, <1>6 DEF Process
  <1>7. CASE Arrive(t)
    BY <1>1, <1>7 DEF Arrive
  <1>8. CASE t = 0 /\ Reduce
    BY <1>1, <1>8 DEF Reduce
  <1>9. CASE t = 0 /\ Publish
    BY <1>1, <1>9 DEF Publish
  <1>10. CASE t = 0 /\ Pop
    BY <1>1, <1>10 DEF Pop
  <1> QED BY <1>2, <1>3, <1>4, <1>5, <1>6, <1>7, <1>8, <1>9, <1>10, AllModes DEF AllTasklets

LEMMA OrderTasklet ==
  ASSUME FifoInv, SentInv, RoundsInv, OrderInv, mode = "all", NEW t \in Tasklet, TaskletStep(t)
  PROVE  OrderInv'
  <1>1. /\ TypeOK /\ UNCHANGED <<mode, in_data, out_rd, sent, got>> /\ 0 \in Tasklet
        /\ out_rd \in Nat /\ out_wr \in Nat /\ in_rd \in Nat /\ in_wr \in Nat
    <2>1. UNCHANGED <<mode, in_data, out_rd, sent, got>>
      BY TaskletFrame
    <2>2. TypeOK /\ out_rd \in Nat /\ out_wr \in Nat /\ in_rd \in Nat /\ in_wr \in Nat
      BY DEF FifoInv, TypeOK
    <2>3. 0 \in Tasklet
      BY WramFifoAssumption DEF Tasklet
    <2> QED BY <2>1, <2>2, <2>3
  <1>2. \A n, p : Nth(n, p) => Nth(n, p)'
    BY <1>1, NthFrame
  <1>3. ASSUME NEW u \in Tasklet PROVE PartOf(u)'
    <2>1. CASE u # t
      <3>1. pc'[u] = pc[u] /\ tmp'[u] = tmp[u] /\ Round(u)' = Round(u)
        BY <2>1, AllEffects, RoundsTasklet
      <3>2. PartOf(u)
        BY DEF OrderInv
      <3> QED BY <1>2, <3>1, <3>2 DEF PartOf
    <2>2. CASE u = t
      <3>1. PartOf(t)
        BY DEF OrderInv
      <3>2. Round(t)' = (IF pc[t] \in {"pop", "arrive"} THEN Round(t) + 1 ELSE Round(t))
        BY RoundsTasklet
      <3>3. CASE pc[t] = "process" /\ pc'[t] = "wait2" /\ tmp'[t] = in_data[Slot(in_rd)]
        <4>1. in_rd = Round(t) /\ in_rd \in in_rd .. in_wr - 1
          BY <1>1, <3>3, AtHead
        <4>2. Nth(tmp'[t], Round(t))
          BY <3>3, <4>1 DEF SentInv
        <4> QED BY <1>2, <2>2, <3>2, <3>3, <4>2 DEF PartOf
      <3>4. CASE /\ pc[t] \in {"wait2", "reduce", "publish"}
                 /\ pc'[t] \in {"reduce", "arrive", "publish", "pop"} /\ tmp' = tmp
        BY <1>2, <2>2, <3>1, <3>2, <3>4 DEF PartOf
      <3>5. CASE pc[t] \in {"pop", "arrive"} /\ pc'[t] = "wait3" /\ tmp' = tmp
        <4>1. Round(t) \in Int /\ Round(t)' = Round(t) + 1 /\ Nth(tmp[t], Round(t))
          BY <1>1, <3>1, <3>2, <3>5, Rounds DEF PartOf
        <4>2. Round(t)' - 1 = Round(t)
          BY <4>1
        <4> QED BY <1>2, <2>2, <3>5, <4>1, <4>2 DEF PartOf
      <3>6. CASE pc'[t] \in {"top", "room", "active", "exit", "wait1", "process"}
        BY <2>2, <3>6 DEF PartOf
      <3> QED BY <3>3, <3>4, <3>5, <3>6, AllEffects
    <2> QED BY <2>1, <2>2
  <1>4. out_wr' = in_rd' + (IF pc'[0] = "pop" THEN 1 ELSE 0)
    <2>1. out_wr = in_rd + (IF pc[0] = "pop" THEN 1 ELSE 0)
      BY DEF OrderInv
    <2>2. CASE t # 0
      BY <1>1, <2>1, <2>2, AllEffects
    <2>3. CASE t = 0
      <3>1. pc[0] = "arrive" => FALSE
        BY DEF RoundsInv
      <3> QED BY <1>1, <2>1, <2>3, <3>1, AllEffects
    <2> QED BY <2>2, <2>3
  <1>5. ASSUME pc'[0] = "publish" PROVE Nth(out_data'[Slot(out_wr')], out_wr')
    <2>1. CASE t # 0
      <3>1. pc[0] = "publish" /\ UNCHANGED <<out_wr, out_data>>
        BY <1>1, <1>5, <2>1, AllEffects
      <3> QED BY <3>1 DEF OrderInv
    <2>2. CASE t = 0
      <3>1. /\ pc[0] = "reduce" /\ out_wr' = out_wr
            /\ out_data' = [out_data EXCEPT ![Slot(out_wr)] = Reduced]
        BY <1>5, <2>2, AllEffects
      <3>2. out_data'[Slot(out_wr)] = Reduced
        BY <1>1, <3>1, OutRoom, OutWritten
      <3>3. out_wr = in_rd
        BY <1>1, <3>1 DEF OrderInv
      <3> QED BY <3>1, <3>2, <3>3, ReducedPart
    <2> QED BY <2>1, <2>2
  <1>6. ASSUME NEW p \in out_rd .. out_wr' - 1 PROVE Nth(out_data'[Slot(p)], p)
    <2>1. CASE p \in out_rd .. out_wr - 1
      BY <2>1, OutFrame DEF OrderInv
    <2>2. CASE p \notin out_rd .. out_wr - 1
      <3>1. out_wr' = out_wr + 1 /\ out_data' = out_data /\ pc[0] = "publish"
        BY <1>1, <1>6, <2>2, AllEffects
      <3>2. p = out_wr
        BY <1>1, <1>6, <2>2, <3>1
      <3> QED BY <3>1, <3>2 DEF OrderInv
    <2> QED BY <2>1, <2>2
  <1> QED BY <1>1, <1>2, <1>3, <1>4, <1>5, <1>6 DEF OrderInv

LEMMA Concatenation ==
  ASSUME NEW s \in Seq(Item), NEW e \in Seq(Item)
  PROVE  /\ s \o e \in Seq(Item) /\ Len(s \o e) = Len(s) + Len(e)
         /\ \A i \in 1 .. Len(s) : (s \o e)[i] = s[i]
         /\ \A i \in 1 .. Len(e) : (s \o e)[Len(s) + i] = e[i]
  <1>1. s \o e \in Seq(Item) /\ Len(s \o e) = Len(s) + Len(e)
    OBVIOUS
  <1>2. Len(s) \in Nat /\ Len(e) \in Nat
    OBVIOUS
  <1>3. ASSUME NEW i \in 1 .. Len(s) PROVE (s \o e)[i] = s[i]
    BY <1>2
  <1>4. ASSUME NEW i \in 1 .. Len(e) PROVE (s \o e)[Len(s) + i] = e[i]
    <2>1. Len(s) + i \in 1 .. Len(s) + Len(e) /\ Len(s) + i > Len(s) /\ Len(s) + i - Len(s) = i
      BY <1>2
    <2> QED BY <1>2, <2>1
  <1> QED BY <1>1, <1>3, <1>4

\* What the host appends to what it has.
LEMMA Appended ==
  ASSUME IndexFits, FifoInv, CopyInv, Release
  PROVE  /\ out_rd' = h_wr /\ out_rd <= h_wr /\ h_wr <= out_wr
         /\ got' \in Seq(Item) /\ Len(got') = Len(got) + (h_wr - out_rd)
         /\ \A i \in 1 .. Len(got) : got'[i] = got[i]
         /\ \A i \in 1 .. h_wr - out_rd : got'[Len(got) + i] = out_data[Slot(out_rd + i - 1)]
  <1>1. /\ h_rd = out_rd /\ out_rd <= h_wr /\ h_wr <= out_wr /\ hpc = "release"
        /\ out_rd' = h_wr /\ got' = got \o Elements /\ got \in Seq(Item)
        /\ h_wr \in Nat /\ out_rd \in Nat /\ out_wr \in Nat
    BY DEF FifoInv, TypeOK, HostInv, Release
  <1>2. h_wr - h_rd \in Nat
    BY <1>1
  <1>3. ASSUME NEW i \in 1 .. h_wr - h_rd
        PROVE  /\ Elements[i] = out_data[Slot(out_rd + i - 1)]
               /\ Elements[i] \in Item
    <2>1. Elements[i] = h_data[Slot(h_rd + i - 1)]
      <3>1. h_wr - h_rd <= NrSlots
        <4>1. WithinSlots
          BY InvImpliesWithin
        <4> QED BY <1>1, <4>1, WramFifoAssumption DEF WithinSlots
      <3>2. i - 1 \in Nat /\ i - 1 < NrSlots /\ h_rd + (i - 1) = h_rd + i - 1
        BY <1>1, <1>2, <3>1, WramFifoAssumption
      <3>3. (i - 1) % NrIndexes = i - 1
        BY <3>2, ElementFits
      <3>4. Elements[i] = h_data[HostSlot(h_rd + i - 1)]
        BY <3>2, <3>3 DEF Elements
      <3>5. h_rd + i - 1 \in Nat
        BY <1>1, <3>2
      <3> QED BY <3>4, <3>5, HostSlotFits
    <2>2. h_rd + i - 1 \in h_rd .. h_wr - 1 /\ h_rd + i - 1 \in Nat
      BY <1>1, <1>2
    <2>3. h_data[Slot(h_rd + i - 1)] = out_data[Slot(h_rd + i - 1)]
      BY <1>1, <2>2 DEF CopyInv
    <2>4. Slot(h_rd + i - 1) \in 0 .. NrSlots - 1
      BY <2>2, SlotRange
    <2> QED BY <1>1, <2>1, <2>3, <2>4 DEF FifoInv, TypeOK
  <1>4. Elements \in Seq(Item) /\ Len(Elements) = h_wr - h_rd
    <2>1. Elements = [i \in 1 .. h_wr - h_rd |-> Elements[i]]
      BY DEF Elements
    <2> QED BY <1>2, <1>3, <2>1
  <1>5. /\ Len(got') = Len(got) + (h_wr - h_rd) /\ got' \in Seq(Item)
        /\ \A i \in 1 .. Len(got) : got'[i] = got[i]
        /\ \A i \in 1 .. h_wr - h_rd : got'[Len(got) + i] = Elements[i]
    <2>1. /\ Len(got \o Elements) = Len(got) + Len(Elements) /\ got \o Elements \in Seq(Item)
          /\ \A i \in 1 .. Len(got) : (got \o Elements)[i] = got[i]
          /\ \A i \in 1 .. Len(Elements) : (got \o Elements)[Len(got) + i] = Elements[i]
      BY <1>1, <1>4, Concatenation
    <2>2. /\ Len(got') = Len(got) + (h_wr - h_rd) /\ got' \in Seq(Item)
      BY <1>1, <1>4, <2>1
    <2>3. ASSUME NEW i \in 1 .. Len(got) PROVE got'[i] = got[i]
      BY <1>1, <2>1
    <2>4. ASSUME NEW i \in 1 .. h_wr - h_rd PROVE got'[Len(got) + i] = Elements[i]
      BY <1>1, <1>4, <2>1
    <2> QED BY <2>2, <2>3, <2>4
  <1> QED BY <1>1, <1>3, <1>5

LEMMA OrderRelease == IndexFits /\ FifoInv /\ CopyInv /\ OrderInv /\ Release => OrderInv'
  <1> SUFFICES ASSUME IndexFits, FifoInv, CopyInv, OrderInv, Release, mode' = "all"
               PROVE  OrderInv'
    BY DEF OrderInv
  <1>1. UNCHANGED <<mode, in_rd, out_wr, out_data, pc, tmp, entered, sent>>
    BY DEF Release, kernelVars, inVars, barVars, pushVars
  <1>2. \A n, p : Nth(n, p) => Nth(n, p)'
    BY <1>1, NthFrame
  <1>3. /\ out_rd' = h_wr /\ out_rd <= h_wr /\ h_wr <= out_wr
        /\ Len(got') = Len(got) + (h_wr - out_rd)
        /\ \A i \in 1 .. Len(got) : got'[i] = got[i]
        /\ \A i \in 1 .. h_wr - out_rd : got'[Len(got) + i] = out_data[Slot(out_rd + i - 1)]
    BY Appended
  <1>4. Len(got) = out_rd /\ out_rd \in Nat /\ h_wr \in Nat /\ out_wr \in Nat
    BY <1>1 DEF OrderInv, FifoInv, TypeOK
  <1>5. ASSUME NEW t \in Tasklet PROVE PartOf(t)'
    BY <1>1, <1>2 DEF OrderInv, PartOf, Round
  <1>6. ASSUME NEW i \in 1 .. Len(got') PROVE Nth(got'[i], i - 1)
    <2>1. CASE i \in 1 .. Len(got)
      BY <1>1, <1>3, <2>1 DEF OrderInv
    <2>2. CASE i \notin 1 .. Len(got)
      <3>1. PICK l \in 1 .. h_wr - out_rd : i = Len(got) + l
        <4>1. i - Len(got) \in 1 .. h_wr - out_rd
          BY <1>3, <1>4, <1>6, <2>2
        <4> QED BY <1>4, <1>6, <4>1
      <3>2. out_rd + l - 1 \in out_rd .. out_wr - 1 /\ i - 1 = out_rd + l - 1
        BY <1>3, <1>4, <3>1
      <3>3. got'[i] = out_data[Slot(out_rd + l - 1)]
        BY <1>3, <3>1
      <3> QED BY <1>1, <3>2, <3>3 DEF OrderInv
    <2> QED BY <2>1, <2>2
  <1>7. ASSUME NEW p \in out_rd' .. out_wr' - 1 PROVE Nth(out_data'[Slot(p)], p)
    <2>1. p \in out_rd .. out_wr - 1
      BY <1>1, <1>3, <1>4, <1>7
    <2> QED BY <1>1, <2>1 DEF OrderInv
  <1>8. pc'[0] = "publish" => Nth(out_data'[Slot(out_wr')], out_wr')
    BY <1>1 DEF OrderInv
  <1>9. out_wr' = in_rd' + (IF pc'[0] = "pop" THEN 1 ELSE 0)
    BY <1>1 DEF OrderInv
  <1>10. Len(got') = out_rd'
    BY <1>3, <1>4
  <1> QED BY <1>2, <1>5, <1>6, <1>7, <1>8, <1>9, <1>10 DEF OrderInv

LEMMA OrderFrame ==
  ASSUME OrderInv, \A n, p : Nth(n, p) => Nth(n, p)',
         UNCHANGED <<mode, in_rd, out_rd, out_wr, out_data, pc, tmp, entered, got>>
  PROVE  OrderInv'
  <1> SUFFICES ASSUME mode = "all" PROVE OrderInv'
    BY DEF OrderInv
  <1>1. ASSUME NEW t \in Tasklet PROVE PartOf(t)'
    BY DEF OrderInv, PartOf, Round
  <1>2. \A p \in out_rd .. out_wr - 1 : Nth(out_data[Slot(p)], p)'
    BY DEF OrderInv
  <1>3. \A i \in 1 .. Len(got) : Nth(got[i], i - 1)
    BY DEF OrderInv
  <1>4. pc[0] = "publish" => Nth(out_data[Slot(out_wr)], out_wr)
    BY DEF OrderInv
  <1> QED BY <1>1, <1>2, <1>3, <1>4 DEF OrderInv

LEMMA OrderStep ==
  IndexFits /\ FifoInv /\ SentInv /\ RoundsInv /\ CopyInv /\ OrderInv /\ [Next]_vars => OrderInv'
  <1> SUFFICES ASSUME IndexFits, FifoInv, SentInv, RoundsInv, CopyInv, OrderInv, [Next]_vars
               PROVE  OrderInv'
    OBVIOUS
  <1>1. ASSUME NEW t \in Tasklet, TaskletStep(t) PROVE OrderInv'
    <2>1. mode # "all" => OrderInv'
      BY <1>1, TaskletFrame DEF OrderInv
    <2> QED BY <1>1, <2>1, OrderTasklet
  <1>2. CASE /\ BeginPush \/ BeginFlush \/ Call \/ ClearActive \/ UNCHANGED vars
             /\ ~Release
    <2>1. UNCHANGED <<mode, in_rd, out_rd, out_wr, out_data, pc, tmp, entered, got>>
      BY <1>2, HostFrame
    <2>2. \A n, p : Nth(n, p) => Nth(n, p)'
      BY <1>2, HostFrame, NthFrame, SentGrows DEF FifoInv
    <2> QED BY <2>1, <2>2, OrderFrame
  <1> QED BY <1>1, <1>2, OrderRelease DEF Next

DataInv == FifoInv /\ SentInv /\ RoundsInv /\ CopyInv /\ OrderInv

LEMMA InitData == Init => DataInv
  BY InitFifoInv, InitSent, InitRounds, InitOrder DEF DataInv, CopyInv, Init

LEMMA DataStep == IndexFits /\ DataInv /\ [Next]_vars => DataInv'
  <1>1. FifoInv /\ [Next]_vars => FifoInv'
    BY FifoStep
  <1> QED BY <1>1, SentStep, RoundsStep, CopyStep, OrderStep DEF DataInv

LEMMA DataInvHolds == ASSUME IndexFits PROVE Spec => []DataInv
  BY InitData, DataStep, PTL DEF Spec

\* With at most 256 slots (IndexFits):
\* the outputs that the host collects are those of the inputs in the order of their
\* pushes, although the tasklets come to each input and leave it at different times,
\* and although the host reads pointers, data and pointers again in separate steps.
THEOREM AnswersInOrder == ASSUME IndexFits PROVE Spec => []InOrder
  <1>1. DataInv => InOrder
    <2> SUFFICES ASSUME DataInv, mode = "all", NEW i \in DOMAIN got
                 PROVE  Nth(got[i], i - 1)
      BY DEF InOrder, Nth, Before
    <2>1. got \in Seq(Item) /\ \A j \in 1 .. Len(got) : Nth(got[j], j - 1)
      BY DEF DataInv, FifoInv, TypeOK, OrderInv
    <2>2. i \in 1 .. Len(got)
      BY <2>1
    <2> QED BY <2>1, <2>2
  <1>2. Spec => []DataInv
    BY DataInvHolds
  <1> QED BY <1>1, <1>2, PTL

-----------------------------------------------------------------------------
(* Every input is at one place, in both loops.                             *)

\* The parts of Places(n).
Ins(n) == {i \in Inputs : in_data[Slot(i)] = n}
HeldPc == {"work", "relock", "push", "ready"}
Holders(n) == {t \in Tasklet : tmp[t] = n /\ pc[t] \in HeldPc}
Outs(n) == {i \in out_rd .. out_wr - 1 : out_data[Slot(i)] = n}
Gots(n) == {i \in DOMAIN got : got[i] = n}

Alone(S, others) == (\E x : S = {x}) /\ \A T \in others : T = {}

Placed(n) ==
  IF n \in sent
  THEN \/ Alone(Ins(n), {Holders(n), Outs(n), Gots(n)})
       \/ Alone(Holders(n), {Ins(n), Outs(n), Gots(n)})
       \/ Alone(Outs(n), {Ins(n), Holders(n), Gots(n)})
       \/ Alone(Gots(n), {Ins(n), Holders(n), Outs(n)})
  ELSE Ins(n) = {} /\ Holders(n) = {} /\ Outs(n) = {} /\ Gots(n) = {}

\* Between the copy of an input or output and the step of the pointer, which are two
\* steps under one hold of the mutex, the copy is that of the slot at the pointer.
CopyOf(t) ==
  /\ pc[t] = "popping" => tmp[t] = in_data[Slot(in_rd)]
  /\ pc[t] = "ready" => out_data[Slot(out_wr)] = tmp[t]

OnceInv ==
  /\ \A n \in Item : Placed(n)
  /\ \A t \in Tasklet : CopyOf(t)

LEMMA TagNone == \A k : {<<k, i>> : i \in {}} = {}
  OBVIOUS

LEMMA OnceEnough == OnceInv /\ TypeOK => ExactlyOnce
  <1> SUFFICES ASSUME OnceInv, TypeOK, NEW n \in sent PROVE Cardinality(Places(n)) = 1
    BY DEF ExactlyOnce
  <1> DEFINE In == {<<"in", i>> : i \in Ins(n)}
             Held == {<<"held", i>> : i \in Holders(n)}
             Out == {<<"out", i>> : i \in Outs(n)}
             Got == {<<"got", i>> : i \in Gots(n)}
  <1>1. Places(n) = In \cup Held \cup Out \cup Got
    BY DEF Places, Ins, Holders, Outs, Gots, HeldPc
  <1>2. n \in Item
    BY WramFifoAssumption DEF TypeOK, Item
  <1>3. /\ Ins(n) = {} => In = {}
        /\ Holders(n) = {} => Held = {}
        /\ Outs(n) = {} => Out = {}
        /\ Gots(n) = {} => Got = {}
    BY TagNone
  <1>4. /\ (\E x : Ins(n) = {x}) => \E y : In = {y}
        /\ (\E x : Holders(n) = {x}) => \E y : Held = {y}
        /\ (\E x : Outs(n) = {x}) => \E y : Out = {y}
        /\ (\E x : Gots(n) = {x}) => \E y : Got = {y}
    <2>1. (\E x : Ins(n) = {x}) => \E y : In = {y}
      <3> SUFFICES ASSUME NEW x, Ins(n) = {x} PROVE In = {<<"in", x>>}
        OBVIOUS
      <3> QED BY DEF In
    <2>2. (\E x : Holders(n) = {x}) => \E y : Held = {y}
      <3> SUFFICES ASSUME NEW x, Holders(n) = {x} PROVE Held = {<<"held", x>>}
        OBVIOUS
      <3> QED BY DEF Held
    <2>3. (\E x : Outs(n) = {x}) => \E y : Out = {y}
      <3> SUFFICES ASSUME NEW x, Outs(n) = {x} PROVE Out = {<<"out", x>>}
        OBVIOUS
      <3> QED BY DEF Out
    <2>4. (\E x : Gots(n) = {x}) => \E y : Got = {y}
      <3> SUFFICES ASSUME NEW x, Gots(n) = {x} PROVE Got = {<<"got", x>>}
        OBVIOUS
      <3> QED BY DEF Got
    <2> QED BY <2>1, <2>2, <2>3, <2>4
  <1> HIDE DEF In, Held, Out, Got
  <1>5. \E x : Places(n) = {x}
    <2>1. CASE Alone(Ins(n), {Holders(n), Outs(n), Gots(n)})
      <3>1. Held = {} /\ Out = {} /\ Got = {}
        BY <1>3, <2>1 DEF Alone
      <3> QED BY <1>1, <1>4, <2>1, <3>1 DEF Alone
    <2>2. CASE Alone(Holders(n), {Ins(n), Outs(n), Gots(n)})
      <3>1. In = {} /\ Out = {} /\ Got = {}
        BY <1>3, <2>2 DEF Alone
      <3> QED BY <1>1, <1>4, <2>2, <3>1 DEF Alone
    <2>3. CASE Alone(Outs(n), {Ins(n), Holders(n), Gots(n)})
      <3>1. In = {} /\ Held = {} /\ Got = {}
        BY <1>3, <2>3 DEF Alone
      <3> QED BY <1>1, <1>4, <2>3, <3>1 DEF Alone
    <2>4. CASE Alone(Gots(n), {Ins(n), Holders(n), Outs(n)})
      <3>1. In = {} /\ Held = {} /\ Out = {}
        BY <1>3, <2>4 DEF Alone
      <3> QED BY <1>1, <1>4, <2>4, <3>1 DEF Alone
    <2> QED BY <1>2, <2>1, <2>2, <2>3, <2>4 DEF OnceInv, Placed
  <1> QED BY <1>5, FS_Singleton

LEMMA InitOnce == Init => OnceInv
  <1> SUFFICES ASSUME Init PROVE OnceInv
    OBVIOUS
  <1>1. \A n : Ins(n) = {} /\ Outs(n) = {}
    BY DEF Init, Ins, Outs, Inputs
  <1>2. \A n : Holders(n) = {} /\ Gots(n) = {}
    BY DEF Init, Holders, HeldPc, Gots
  <1>3. \A t \in Tasklet : CopyOf(t)
    BY DEF Init, CopyOf
  <1> QED BY <1>1, <1>2, <1>3 DEF Init, OnceInv, Placed

LEMMA EachModes ==
  ASSUME FifoInv, mode # "all", NEW t \in Tasklet, TaskletStep(t)
  PROVE  Top(t) \/ Room(t) \/ Active(t) \/ EachTasklet(t)
  <1>1. pc[t] \notin AllPc
    BY DEF FifoInv, TaskletInv
  <1> QED BY <1>1 DEF TaskletStep, AllTasklets, AllPc, Passed, Process, Arrive, Reduce, Publish, Pop

\* The steps of the second loop, by what they change.
LEMMA EachEffects ==
  ASSUME FifoInv, mode # "all", NEW t \in Tasklet, TaskletStep(t)
  PROVE  /\ \A u \in Tasklet \ {t} : pc'[u] = pc[u] /\ tmp'[u] = tmp[u]
         /\ \/ /\ pc[t] \in {"top", "room", "active", "lock", "locked", "cede"}
               /\ pc'[t] \in {"top", "room", "active", "exit", "lock", "locked"}
               /\ UNCHANGED <<in_rd, out_wr, out_data>>
            \/ /\ pc[t] = "locked" /\ pc'[t] = "popping" /\ tmp'[t] = in_data[Slot(in_rd)]
               /\ UNCHANGED <<in_rd, out_wr, out_data>>
            \/ /\ pc[t] = "popping" /\ pc'[t] = "work" /\ in_rd' = in_rd + 1
               /\ UNCHANGED <<tmp, out_wr, out_data>>
            \/ /\ pc[t] \in {"work", "relock"} /\ pc'[t] \in {"relock", "push"}
               /\ UNCHANGED <<tmp, in_rd, out_wr, out_data>>
            \/ /\ pc[t] = "push" /\ pc'[t] = "ready"
               /\ out_data' = [out_data EXCEPT ![Slot(out_wr)] = tmp[t]]
               /\ UNCHANGED <<tmp, in_rd, out_wr>>
            \/ /\ pc[t] = "ready" /\ pc'[t] = "cede" /\ out_wr' = out_wr + 1
               /\ UNCHANGED <<tmp, in_rd, out_data>>
  <1> USE DEF inVars, outVars, Goto
  <1>1. pc \in [Tasklet -> Pc] /\ tmp \in [Tasklet -> Item]
    BY DEF FifoInv, TypeOK
  <1>2. CASE Top(t) \/ Active(t)
    BY <1>1, <1>2 DEF Top, Active
  <1>3. CASE Room(t)
    BY <1>1, <1>3 DEF Room
  <1>4. CASE Lock(t)
    BY <1>1, <1>4 DEF Lock
  <1>5. CASE Take(t)
    BY <1>1, <1>5 DEF Take
  <1>6. CASE PopReserve(t)
    BY <1>1, <1>6 DEF PopReserve
  <1>7. CASE Work(t)
    BY <1>1, <1>7 DEF Work
  <1>8. CASE PushOut(t)
    BY <1>1, <1>8 DEF PushOut
  <1>9. CASE PublishOut(t)
    BY <1>1, <1>9 DEF PublishOut
  <1>10. CASE Cede(t)
    BY <1>1, <1>10 DEF Cede
  <1> QED BY <1>2, <1>3, <1>4, <1>5, <1>6, <1>7, <1>8, <1>9, <1>10, EachModes DEF EachTasklet

\* An input at a place of its own is not at another.
LEMMA OnlyThere ==
  ASSUME OnceInv, NEW n \in Item
  PROVE  /\ \A i \in Ins(n) : /\ n \in sent /\ Ins(n) = {i}
                              /\ Holders(n) = {} /\ Outs(n) = {} /\ Gots(n) = {}
         /\ \A i \in Holders(n) : /\ n \in sent /\ Holders(n) = {i}
                                  /\ Ins(n) = {} /\ Outs(n) = {} /\ Gots(n) = {}
         /\ \A i \in Outs(n) : /\ n \in sent /\ Outs(n) = {i}
                               /\ Ins(n) = {} /\ Holders(n) = {} /\ Gots(n) = {}
         /\ \A i \in Gots(n) : /\ n \in sent /\ Gots(n) = {i}
                               /\ Ins(n) = {} /\ Holders(n) = {} /\ Outs(n) = {}
  <1>1. Placed(n)
    BY DEF OnceInv
  <1>2. CASE n \notin sent
    BY <1>1, <1>2 DEF Placed
  <1>3. CASE n \in sent /\ Alone(Ins(n), {Holders(n), Outs(n), Gots(n)})
    BY <1>3 DEF Alone
  <1>4. CASE n \in sent /\ Alone(Holders(n), {Ins(n), Outs(n), Gots(n)})
    BY <1>4 DEF Alone
  <1>5. CASE n \in sent /\ Alone(Outs(n), {Ins(n), Holders(n), Gots(n)})
    BY <1>5 DEF Alone
  <1>6. CASE n \in sent /\ Alone(Gots(n), {Ins(n), Holders(n), Outs(n)})
    BY <1>6 DEF Alone
  <1> QED BY <1>1, <1>2, <1>3, <1>4, <1>5, <1>6 DEF Placed

\* Nothing happens to an input.
LEMMA PlacedStays ==
  ASSUME NEW n, Placed(n), (n \in sent') = (n \in sent), Ins(n)' = Ins(n),
         Holders(n)' = Holders(n), Outs(n)' = Outs(n), Gots(n)' = Gots(n)
  PROVE  Placed(n)'
  <1>1. Placed(n)' =
          IF n \in sent'
          THEN \/ Alone(Ins(n)', {Holders(n)', Outs(n)', Gots(n)'})
               \/ Alone(Holders(n)', {Ins(n)', Outs(n)', Gots(n)'})
               \/ Alone(Outs(n)', {Ins(n)', Holders(n)', Gots(n)'})
               \/ Alone(Gots(n)', {Ins(n)', Holders(n)', Outs(n)'})
          ELSE Ins(n)' = {} /\ Holders(n)' = {} /\ Outs(n)' = {} /\ Gots(n)' = {}
    BY DEF Placed, Alone
  <1> QED BY <1>1 DEF Placed

\* An input with a place.
LEMMA PlacedIn ==
  ASSUME NEW n, NEW x, n \in sent', Ins(n)' = {x}, Holders(n)' = {}, Outs(n)' = {}, Gots(n)' = {}
  PROVE  Placed(n)'
  BY DEF Placed, Alone

LEMMA PlacedHeld ==
  ASSUME NEW n, NEW x, n \in sent', Holders(n)' = {x}, Ins(n)' = {}, Outs(n)' = {}, Gots(n)' = {}
  PROVE  Placed(n)'
  BY DEF Placed, Alone

LEMMA PlacedOut ==
  ASSUME NEW n, NEW x, n \in sent', Outs(n)' = {x}, Ins(n)' = {}, Holders(n)' = {}, Gots(n)' = {}
  PROVE  Placed(n)'
  BY DEF Placed, Alone

LEMMA PlacedGot ==
  ASSUME NEW n, NEW x, n \in sent', Gots(n)' = {x}, Ins(n)' = {}, Holders(n)' = {}, Outs(n)' = {}
  PROVE  Placed(n)'
  BY DEF Placed, Alone

\* The mutex, or tasklet 0's turn, keeps the copy.
LEMMA CopyOfStep ==
  IndexFits /\ FifoInv /\ OnceInv /\ [Next]_vars => \A t \in Tasklet : CopyOf(t)'
  <1> SUFFICES ASSUME IndexFits, FifoInv, OnceInv, [Next]_vars, NEW t \in Tasklet PROVE CopyOf(t)'
    OBVIOUS
  <1>1. TypeOK /\ TaskletInv /\ RoomInv /\ HostInv /\ PointerInv /\ CopyOf(t)
    BY DEF FifoInv, OnceInv
  <1>2. ASSUME NEW u \in Tasklet, TaskletStep(u) PROVE CopyOf(t)'
    <2>1. in_data' = in_data
      BY <1>2, TaskletFrame
    <2>2. CASE mode = "all"
      <3>1. TaskletInv' /\ mode' = "all"
        BY <1>2, <2>2, FifoStep, TaskletFrame DEF FifoInv
      <3>2. pc'[t] \notin EachPc
        BY <3>1 DEF TaskletInv
      <3> QED BY <3>2 DEF CopyOf, EachPc, HoldPc
    <2>3. CASE mode # "all" /\ u = t
      <3>1. out_data \in [0 .. NrSlots - 1 -> Item] /\ Slot(out_wr) \in 0 .. NrSlots - 1
        BY <1>1, SlotRange DEF TypeOK
      <3>2. ASSUME pc'[t] = "popping" PROVE tmp'[t] = in_data'[Slot(in_rd')]
        BY <1>2, <2>1, <2>3, <3>2, EachEffects
      <3>3. ASSUME pc'[t] = "ready" PROVE out_data'[Slot(out_wr')] = tmp'[t]
        <4>1. /\ out_data' = [out_data EXCEPT ![Slot(out_wr)] = tmp[t]]
              /\ tmp' = tmp /\ out_wr' = out_wr
          BY <1>2, <2>3, <3>3, EachEffects
        <4> QED BY <3>1, <4>1
      <3> QED BY <3>2, <3>3 DEF CopyOf
    <2>4. CASE mode # "all" /\ u # t
      <3> SUFFICES ASSUME pc[t] \in {"popping", "ready"} PROVE CopyOf(t)'
        BY <1>2, <2>4, EachEffects DEF CopyOf
      <3>1. pc[u] \notin HoldPc
        BY <1>1, <2>4, HolderAlone DEF HoldPc
      <3>2. pc'[t] = pc[t] /\ tmp'[t] = tmp[t] /\ UNCHANGED <<in_rd, out_wr, out_data>>
        BY <1>2, <2>4, <3>1, EachEffects DEF HoldPc
      <3> QED BY <1>1, <2>1, <3>2 DEF CopyOf
    <2> QED BY <2>2, <2>3, <2>4
  <1>3. CASE SendData
    <2>1. UNCHANGED <<pc, tmp, in_rd, out_wr, out_data>>
      BY <1>3 DEF SendData, kernelVars, outVars
    <2>2. ASSUME pc[t] = "popping" PROVE in_data'[Slot(in_rd)] = in_data[Slot(in_rd)]
      <3>1. in_rd \in in_rd .. in_wr - 1
        BY <1>1, <2>2 DEF RoomInv, TypeOK
      <3> QED BY <1>3, <3>1, SentKept
    <2> QED BY <1>1, <2>1, <2>2 DEF CopyOf
  <1>4. CASE /\ BeginPush \/ BeginFlush \/ Call \/ ClearActive \/ UNCHANGED vars
             /\ ~SendData
    <2>1. in_data' = in_data
      BY <1>4 DEF BeginPush, BeginFlush, Call, ReadInput, CheckFull, SendPointer, CopyOutput,
                  Release, ClearActive, vars, inVars
    <2>2. UNCHANGED <<pc, tmp, in_rd, out_wr, out_data>>
      BY <1>4, HostFrame
    <2> QED BY <1>1, <2>1, <2>2 DEF CopyOf
  <1> QED BY <1>2, <1>3, <1>4 DEF Next

\* The second loop: an input goes from the input FIFO to the tasklet that pops it, and
\* from there to the output FIFO.
LEMMA OnceEach ==
  ASSUME FifoInv, OnceInv, mode # "all", NEW t \in Tasklet, TaskletStep(t), NEW n \in Item
  PROVE  Placed(n)'
  <1>1. /\ TypeOK /\ UNCHANGED <<mode, in_wr, in_data, out_rd, sent, got>> /\ 0 \in Tasklet
        /\ CopyOf(t) /\ Placed(n)
    BY TaskletFrame, WramFifoAssumption DEF FifoInv, Tasklet, OnceInv
  <1>2. pc[0] # "pop" /\ pc'[0] # "pop"
    <2>1. TaskletInv /\ TaskletInv'
      BY FifoStep DEF FifoInv, Next
    <2> QED BY <1>1, <2>1 DEF TaskletInv, AllPc
  <1>3. /\ Ins(n) = {i \in in_rd .. in_wr - 1 : in_data[Slot(i)] = n}
        /\ Ins(n)' = {i \in in_rd' .. in_wr - 1 : in_data[Slot(i)] = n}
    BY <1>1, <1>2 DEF Ins, Inputs
  <1>4. Gots(n)' = Gots(n)
    BY <1>1 DEF Gots
  <1>5. Outs(n)' = {i \in out_rd .. out_wr' - 1 : out_data'[Slot(i)] = n}
    BY <1>1 DEF Outs
  <1>6. out_wr' = out_wr => Outs(n)' = Outs(n)
    BY <1>5, OutFrame DEF Outs
  <1>7. \A u \in Tasklet \ {t} : u \in Holders(n)' <=> u \in Holders(n)
    BY EachEffects DEF Holders
  <1>8. t \in Holders(n) <=> tmp[t] = n /\ pc[t] \in HeldPc
    BY DEF Holders
  <1>9. t \in Holders(n)' <=> tmp'[t] = n /\ pc'[t] \in HeldPc
    BY DEF Holders
  <1>10. Holders(n) \subseteq Tasklet /\ Holders(n)' \subseteq Tasklet
    BY DEF Holders
  <1>11. CASE /\ (t \in Holders(n)' <=> t \in Holders(n))
              /\ in_rd' = in_rd /\ out_wr' = out_wr
    <2>1. Holders(n)' = Holders(n)
      BY <1>7, <1>10, <1>11
    <2>2. Ins(n)' = Ins(n)
      BY <1>3, <1>11
    <2> QED BY <1>1, <1>4, <1>6, <1>11, <2>1, <2>2, PlacedStays
  <1>12. CASE pc[t] = "popping" /\ pc'[t] = "work" /\ in_rd' = in_rd + 1
              /\ tmp' = tmp /\ out_wr' = out_wr
    <2>1. tmp[t] = in_data[Slot(in_rd)] /\ in_rd \in Nat /\ in_wr \in Nat /\ in_rd < in_wr
      BY <1>1, <1>12 DEF CopyOf, TypeOK, FifoInv, RoomInv
    <2>2. Ins(n)' = Ins(n) \ {in_rd}
      BY <1>3, <1>12, <2>1
    <2>3. in_rd \in Ins(n) <=> tmp[t] = n
      BY <1>3, <2>1
    <2>4. t \notin Holders(n) /\ (t \in Holders(n)' <=> tmp[t] = n)
      BY <1>8, <1>9, <1>12 DEF HeldPc
    <2>5. CASE tmp[t] = n
      <3>1. n \in sent /\ Ins(n) = {in_rd} /\ Holders(n) = {} /\ Outs(n) = {} /\ Gots(n) = {}
        BY <2>3, <2>5, OnlyThere
      <3>2. Ins(n)' = {} /\ Outs(n)' = {} /\ Gots(n)' = {}
        BY <1>4, <1>6, <1>12, <2>2, <3>1
      <3>3. Holders(n)' = {t}
        BY <1>7, <1>10, <2>4, <2>5, <3>1
      <3> QED BY <1>1, <3>1, <3>2, <3>3, PlacedHeld
    <2>6. CASE tmp[t] # n
      <3>1. Ins(n)' = Ins(n)
        BY <2>2, <2>3, <2>6
      <3>2. Holders(n)' = Holders(n)
        BY <1>7, <1>10, <2>4, <2>6
      <3> QED BY <1>1, <1>4, <1>6, <1>12, <3>1, <3>2, PlacedStays
    <2> QED BY <2>5, <2>6
  <1>13. CASE pc[t] = "ready" /\ pc'[t] = "cede" /\ out_wr' = out_wr + 1
              /\ tmp' = tmp /\ in_rd' = in_rd /\ out_data' = out_data
    <2>1. /\ out_data[Slot(out_wr)] = tmp[t] /\ out_rd \in Nat /\ out_wr \in Nat
          /\ out_rd <= out_wr
      BY <1>1, <1>13 DEF CopyOf, TypeOK, FifoInv, PointerInv
    <2>2. Ins(n)' = Ins(n)
      BY <1>3, <1>13
    <2>3. t \notin Holders(n)' /\ (t \in Holders(n) <=> tmp[t] = n)
      BY <1>8, <1>9, <1>13 DEF HeldPc
    <2>4. Outs(n)' = Outs(n) \cup (IF tmp[t] = n THEN {out_wr} ELSE {})
      BY <1>5, <1>13, <2>1 DEF Outs
    <2>5. CASE tmp[t] = n
      <3>1. n \in sent /\ Holders(n) = {t} /\ Ins(n) = {} /\ Outs(n) = {} /\ Gots(n) = {}
        BY <2>3, <2>5, OnlyThere
      <3>2. Holders(n)' = {}
        BY <1>7, <1>10, <2>3, <3>1
      <3>3. Outs(n)' = {out_wr} /\ Ins(n)' = {} /\ Gots(n)' = {}
        BY <1>4, <2>2, <2>4, <2>5, <3>1
      <3> QED BY <1>1, <3>1, <3>2, <3>3, PlacedOut
    <2>6. CASE tmp[t] # n
      <3>1. Holders(n)' = Holders(n)
        BY <1>7, <1>10, <2>3, <2>6
      <3> QED BY <1>1, <1>4, <2>2, <2>4, <2>6, <3>1, PlacedStays
    <2> QED BY <2>5, <2>6
  <1> QED
    <2>1. \/ pc[t] \notin HeldPc /\ pc'[t] \notin HeldPc /\ in_rd' = in_rd /\ out_wr' = out_wr
          \/ /\ pc[t] \in HeldPc /\ pc'[t] \in HeldPc /\ tmp' = tmp /\ in_rd' = in_rd
             /\ out_wr' = out_wr
          \/ /\ pc[t] = "popping" /\ pc'[t] = "work" /\ in_rd' = in_rd + 1
             /\ tmp' = tmp /\ out_wr' = out_wr
          \/ /\ pc[t] = "ready" /\ pc'[t] = "cede" /\ out_wr' = out_wr + 1
             /\ tmp' = tmp /\ in_rd' = in_rd /\ out_data' = out_data
      BY EachEffects DEF HeldPc
    <2> QED BY <1>8, <1>9, <1>11, <1>12, <1>13, <2>1

\* The first loop: an input goes from the input FIFO to the output FIFO when tasklet 0
\* publishes its output, which OrderInv says is the one of the input it then pops.
LEMMA OnceAll ==
  ASSUME FifoInv, SentInv, RoundsInv, OrderInv, OnceInv, mode = "all",
         NEW t \in Tasklet, TaskletStep(t), NEW n \in Item
  PROVE  Placed(n)'
  <1>1. /\ TypeOK /\ UNCHANGED <<mode, in_wr, in_data, out_rd, sent, got>> /\ 0 \in Tasklet
        /\ Placed(n) /\ in_rd \in Nat /\ in_wr \in Nat /\ out_rd \in Nat /\ out_wr \in Nat
    <2>1. UNCHANGED <<mode, in_wr, in_data, out_rd, sent, got>> /\ 0 \in Tasklet /\ Placed(n)
      BY TaskletFrame, WramFifoAssumption DEF Tasklet, OnceInv
    <2> QED BY <2>1 DEF FifoInv, TypeOK
  <1>2. Holders(n) = {} /\ Holders(n)' = {}
    <2>1. TaskletInv /\ TaskletInv'
      BY FifoStep DEF FifoInv, Next
    <2> QED BY <1>1, <2>1 DEF TaskletInv, EachPc, SlotPc, HoldPc, Holders, HeldPc
  <1>3. Gots(n)' = Gots(n)
    BY <1>1 DEF Gots
  <1>4. Ins(n)' = {i \in Inputs' : in_data[Slot(i)] = n}
    BY <1>1 DEF Ins
  <1>5. Outs(n)' = {i \in out_rd .. out_wr' - 1 : out_data'[Slot(i)] = n}
    BY <1>1 DEF Outs
  <1>6. out_wr' = out_wr => Outs(n)' = Outs(n)
    BY <1>5, OutFrame DEF Outs
  <1>7. CASE t = 0 /\ pc[0] = "publish"
    <2>1. /\ pc'[0] = "pop" /\ out_wr' = out_wr + 1 /\ in_rd' = in_rd /\ out_data' = out_data
      BY <1>7, AllEffects
    <2>2. in_rd < in_wr /\ out_wr = in_rd /\ out_rd <= out_wr
      BY <1>1, <1>7 DEF FifoInv, RoomInv, ChecksPc, OrderInv, PointerInv
    <2>3. Nth(out_data[Slot(out_wr)], in_rd) /\ Nth(in_data[Slot(in_rd)], in_rd)
      BY <1>1, <1>7, <2>2 DEF OrderInv, SentInv
    <2>4. out_data[Slot(out_wr)] = in_data[Slot(in_rd)]
      BY <1>1, <2>3, NthOnce
    <2>5. Inputs = in_rd .. in_wr - 1 /\ Inputs' = in_rd + 1 .. in_wr - 1
      BY <1>1, <1>7, <2>1 DEF Inputs
    <2>6. Ins(n)' = Ins(n) \ {in_rd}
      BY <1>1, <1>4, <2>2, <2>5 DEF Ins
    <2>7. in_rd \in Ins(n) <=> in_data[Slot(in_rd)] = n
      BY <1>1, <2>2, <2>5 DEF Ins
    <2>8. Outs(n)' = Outs(n) \cup (IF in_data[Slot(in_rd)] = n THEN {out_wr} ELSE {})
      BY <1>1, <1>5, <2>1, <2>2, <2>4 DEF Outs
    <2>9. CASE in_data[Slot(in_rd)] = n
      <3>1. n \in sent /\ Ins(n) = {in_rd} /\ Outs(n) = {} /\ Gots(n) = {}
        BY <2>7, <2>9, OnlyThere
      <3>2. Ins(n)' = {} /\ Gots(n)' = {} /\ Outs(n)' = {out_wr}
        BY <1>3, <2>6, <2>8, <2>9, <3>1
      <3> QED BY <1>1, <1>2, <3>1, <3>2, PlacedOut
    <2>10. CASE in_data[Slot(in_rd)] # n
      <3>1. Ins(n)' = Ins(n) /\ Outs(n)' = Outs(n)
        BY <2>6, <2>7, <2>8, <2>10
      <3> QED BY <1>1, <1>2, <1>3, <3>1, PlacedStays
    <2> QED BY <2>9, <2>10
  <1>8. CASE ~(t = 0 /\ pc[0] = "publish")
    <2>1. out_wr' = out_wr
      BY <1>8, AllEffects
    <2>2. Inputs' = Inputs
      <3>1. CASE t = 0 /\ pc[0] = "pop"
        <4>1. in_rd' = in_rd + 1 /\ pc'[0] = "wait3"
          BY <3>1, AllEffects
        <4> QED BY <1>1, <3>1, <4>1 DEF Inputs
      <3>2. CASE ~(t = 0 /\ pc[0] = "pop")
        <4>1. in_rd' = in_rd /\ (pc'[0] = "pop" <=> pc[0] = "pop")
          BY <1>1, <1>8, <3>2, AllEffects
        <4> QED BY <1>1, <4>1 DEF Inputs
      <3> QED BY <3>1, <3>2
    <2>3. Ins(n)' = Ins(n)
      BY <1>4, <2>2 DEF Ins
    <2> QED BY <1>1, <1>2, <1>3, <1>6, <2>1, <2>3, PlacedStays
  <1> QED BY <1>7, <1>8

\* The host brings a new input.
LEMMA OnceSend ==
  ASSUME FifoInv, SentInv, OnceInv, SendPointer, NEW n \in Item
  PROVE  Placed(n)'
  <1>1. /\ TypeOK /\ UNCHANGED <<mode, in_rd, in_data, out_rd, out_wr, out_data, got, pc, tmp>>
        /\ Placed(n) /\ in_rd \in Nat /\ in_wr \in Nat /\ 0 \in Tasklet
        /\ in_data[Slot(in_wr)] = pushed
    BY WramFifoAssumption DEF SendPointer, kernelVars, outVars, FifoInv, Tasklet, OnceInv, TypeOK,
       SentInv
  <1>2. sent' = sent \cup {pushed} /\ pushed \notin sent /\ in_wr' = in_wr + 1
    BY SentGrows DEF FifoInv
  <1>3. Holders(n)' = Holders(n) /\ Outs(n)' = Outs(n) /\ Gots(n)' = Gots(n)
    BY <1>1 DEF Holders, Outs, Gots
  <1>4. Inputs' = Inputs \cup {in_wr}
    <2>1. in_rd <= in_wr /\ (pc[0] = "pop" => in_rd < in_wr)
      BY <1>1 DEF FifoInv, PointerInv, RoomInv, TaskletInv, AllPc
    <2>2. CASE pc[0] = "pop"
      BY <1>1, <1>2, <2>1, <2>2 DEF Inputs
    <2>3. CASE pc[0] # "pop"
      BY <1>1, <1>2, <2>1, <2>3 DEF Inputs
    <2> QED BY <2>2, <2>3
  <1>5. Ins(n)' = Ins(n) \cup (IF pushed = n THEN {in_wr} ELSE {})
    BY <1>1, <1>4 DEF Ins
  <1>6. CASE pushed = n
    <2>1. Ins(n) = {} /\ Holders(n) = {} /\ Outs(n) = {} /\ Gots(n) = {}
      BY <1>1, <1>2, <1>6 DEF Placed
    <2> QED BY <1>2, <1>3, <1>5, <1>6, <2>1, PlacedIn
  <1>7. CASE pushed # n
    <2>1. (n \in sent') = (n \in sent) /\ Ins(n)' = Ins(n)
      BY <1>2, <1>5, <1>7
    <2> QED BY <1>1, <1>3, <2>1, PlacedStays
  <1> QED BY <1>6, <1>7

\* The host takes what it releases.
LEMMA OnceRelease ==
  ASSUME IndexFits, FifoInv, CopyInv, OnceInv, Release, NEW n \in Item
  PROVE  Placed(n)'
  <1>1. /\ TypeOK /\ UNCHANGED <<mode, in_rd, in_wr, in_data, out_wr, out_data, sent, pc, tmp>>
        /\ Placed(n) /\ out_rd \in Nat /\ out_wr \in Nat /\ h_wr \in Nat
    BY DEF Release, kernelVars, inVars, pushVars, FifoInv, OnceInv, TypeOK
  <1>2. Ins(n)' = Ins(n) /\ Holders(n)' = Holders(n)
    BY <1>1 DEF Ins, Inputs, Holders
  <1>3. /\ out_rd' = h_wr /\ out_rd <= h_wr /\ h_wr <= out_wr
        /\ got' \in Seq(Item) /\ Len(got') = Len(got) + (h_wr - out_rd)
        /\ \A i \in 1 .. Len(got) : got'[i] = got[i]
        /\ \A i \in 1 .. h_wr - out_rd : got'[Len(got) + i] = out_data[Slot(out_rd + i - 1)]
    BY Appended
  <1>4. /\ got \in Seq(Item) /\ Len(got) \in Nat
        /\ Gots(n) = {i \in 1 .. Len(got) : got[i] = n}
        /\ Gots(n)' = {i \in 1 .. Len(got') : got'[i] = n}
    BY <1>1, <1>3 DEF Gots, TypeOK
  <1>5. Outs(n)' = {i \in Outs(n) : i >= h_wr}
    BY <1>1, <1>3 DEF Outs
  <1>6. \A i \in Gots(n) : i \in Gots(n)'
    BY <1>1, <1>3, <1>4
  <1>7. ASSUME NEW i \in Gots(n)', i \notin Gots(n)
        PROVE  /\ i - Len(got) \in 1 .. h_wr - out_rd
               /\ out_rd + (i - Len(got)) - 1 \in Outs(n)
               /\ out_rd + (i - Len(got)) - 1 < h_wr
    <2>1. i \in 1 .. Len(got') /\ got'[i] = n
      BY <1>4, <1>7
    <2>2. i \notin 1 .. Len(got)
      BY <1>3, <1>4, <1>7, <2>1
    <2>3. i - Len(got) \in 1 .. h_wr - out_rd
      BY <1>1, <1>3, <1>4, <2>1, <2>2
    <2>4. PICK l \in 1 .. h_wr - out_rd : i = Len(got) + l /\ l = i - Len(got)
      BY <1>4, <2>1, <2>3
    <2>5. out_data[Slot(out_rd + l - 1)] = n
      BY <1>3, <2>1, <2>4
    <2>6. out_rd + l - 1 \in out_rd .. out_wr - 1 /\ out_rd + l - 1 < h_wr
      BY <1>1, <1>3, <2>4
    <2> QED BY <2>3, <2>4, <2>5, <2>6 DEF Outs
  <1>8. CASE \E p \in Outs(n) : p < h_wr
    <2>1. PICK p \in Outs(n) : p < h_wr
      BY <1>8
    <2>2. n \in sent /\ Outs(n) = {p} /\ Ins(n) = {} /\ Holders(n) = {} /\ Gots(n) = {}
      BY <2>1, OnlyThere
    <2>3. p \in Nat /\ out_rd <= p /\ out_data[Slot(p)] = n
      BY <1>1, <2>1 DEF Outs
    <2>4. Outs(n)' = {}
      BY <1>1, <1>5, <2>1, <2>2, <2>3
    <2>5. PICK l \in 1 .. h_wr - out_rd : l = p - out_rd + 1 /\ p = out_rd + l - 1
      <3>1. p - out_rd + 1 \in 1 .. h_wr - out_rd /\ p = out_rd + (p - out_rd + 1) - 1
        BY <1>1, <1>3, <2>1, <2>3
      <3> QED BY <3>1
    <2>6. Len(got) + l \in Gots(n)'
      <3>1. Len(got) + l \in 1 .. Len(got')
        BY <1>1, <1>3, <1>4, <2>5
      <3>2. got'[Len(got) + l] = n
        BY <1>3, <2>3, <2>5
      <3> QED BY <1>4, <3>1, <3>2
    <2>7. ASSUME NEW i \in Gots(n)' PROVE i = Len(got) + l
      <3>1. i - Len(got) \in 1 .. h_wr - out_rd /\ out_rd + (i - Len(got)) - 1 = p
        BY <1>7, <2>2, <2>7
      <3>2. i \in Int /\ Len(got) \in Int /\ l \in Int /\ out_rd \in Int
        BY <1>1, <1>4, <2>5, <2>7
      <3>3. i - Len(got) = l
        BY <2>5, <3>1, <3>2
      <3> QED BY <3>2, <3>3
    <2>8. Gots(n)' = {Len(got) + l}
      BY <2>6, <2>7
    <2> QED BY <1>1, <1>2, <2>2, <2>4, <2>8, PlacedGot
  <1>9. CASE ~\E p \in Outs(n) : p < h_wr
    <2>1. Outs(n)' = Outs(n)
      BY <1>1, <1>5, <1>9 DEF Outs
    <2>2. Gots(n)' = Gots(n)
      BY <1>6, <1>7, <1>9
    <2> QED BY <1>1, <1>2, <2>1, <2>2, PlacedStays
  <1> QED BY <1>8, <1>9

LEMMA OnceStep ==
  IndexFits /\ FifoInv /\ SentInv /\ RoundsInv /\ CopyInv /\ OrderInv /\ OnceInv /\ [Next]_vars
    => OnceInv'
  <1> SUFFICES ASSUME IndexFits, FifoInv, SentInv, RoundsInv, CopyInv, OrderInv, OnceInv,
                      [Next]_vars, NEW n \in Item
               PROVE  Placed(n)'
    BY CopyOfStep DEF OnceInv
  <1>1. ASSUME NEW t \in Tasklet, TaskletStep(t) PROVE Placed(n)'
    BY <1>1, OnceAll, OnceEach
  <1>2. CASE SendData
    <2>1. /\ UNCHANGED <<mode, in_rd, in_wr, out_rd, out_wr, out_data, sent, got, pc, tmp>>
      BY <1>2 DEF SendData, kernelVars, outVars, pushVars
    <2>2. \A p \in in_rd .. in_wr - 1 : in_data'[Slot(p)] = in_data[Slot(p)]
      BY <1>2, SentKept
    <2>3. Inputs' = Inputs /\ Inputs \subseteq in_rd .. in_wr - 1
      BY <2>1 DEF Inputs, FifoInv, TypeOK
    <2>4. Ins(n)' = Ins(n)
      BY <2>2, <2>3 DEF Ins
    <2>5. Holders(n)' = Holders(n) /\ Outs(n)' = Outs(n) /\ Gots(n)' = Gots(n)
      BY <2>1 DEF Holders, Outs, Gots
    <2> QED BY <2>1, <2>4, <2>5, PlacedStays DEF OnceInv
  <1>3. CASE /\ BeginPush \/ BeginFlush \/ Call \/ ClearActive \/ UNCHANGED vars
             /\ ~SendData /\ ~SendPointer /\ ~Release
    <2>1. UNCHANGED <<mode, in_rd, out_wr, out_data, pc, tmp, out_rd, got, sent>>
      BY <1>3, HostFrame
    <2>2. UNCHANGED <<in_wr, in_data>>
      BY <1>3 DEF BeginPush, BeginFlush, Call, ReadInput, CheckFull, CopyOutput, ClearActive,
                  vars, inVars
    <2>3. Ins(n)' = Ins(n) /\ Holders(n)' = Holders(n) /\ Outs(n)' = Outs(n) /\ Gots(n)' = Gots(n)
      BY <2>1, <2>2 DEF Ins, Inputs, Holders, Outs, Gots
    <2> QED BY <2>1, <2>3, PlacedStays DEF OnceInv
  <1> QED BY <1>1, <1>2, <1>3, OnceSend, OnceRelease DEF Next

\* With at most 256 slots (IndexFits),
\* in both loops no input is lost or answered twice: it is in the input FIFO, with one
\* tasklet, in the output FIFO or with the host, although tasklets see the FIFOs before
\* they have the mutex, and the host's pointers are old when it writes and releases.
THEOREM EveryInputOnce == ASSUME IndexFits PROVE Spec => []ExactlyOnce
  <1>1. Init => DataInv /\ OnceInv
    BY InitData, InitOnce
  <1>2. DataInv /\ OnceInv /\ [Next]_vars => (DataInv /\ OnceInv)'
    BY DataStep, OnceStep DEF DataInv
  <1>3. DataInv /\ OnceInv => ExactlyOnce
    BY OnceEnough DEF DataInv, FifoInv
  <1> QED BY <1>1, <1>2, <1>3, PTL DEF Spec
=============================================================================
