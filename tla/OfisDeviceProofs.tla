-------------------------- MODULE OfisDeviceProofs --------------------------
(***************************************************************************)
(* What the proofs about the applications need of the topology: numbers,   *)
(* finite sets of DPUs, the size of a rank.                                *)
(***************************************************************************)
EXTENDS OfisDevice, FiniteSetTheorems, TLAPS

\* The constants' types, and what a DPU is.
LEMMA Constants ==
  /\ NrRanks \in Nat /\ NrCis \in Nat /\ NrIgs \in Nat /\ NrPart \in Nat
  /\ NrDpusPerRank \in Nat /\ NrDpus \in Nat
  /\ \A d \in Dpu : RankOf(d) \in Rank /\ IgOf(d) \in Ig /\ Pos(d) \in Nat
<1>1. NrRanks \in Nat /\ NrCis \in Nat /\ NrIgs \in Nat /\ NrPart \in Nat
  BY TopologyAssumption
<1>2. \A a, b \in Nat : a * b \in Nat
  OBVIOUS
<1>3. NrDpusPerRank \in Nat /\ NrDpus \in Nat
  BY <1>1, <1>2 DEF NrDpusPerRank, NrDpus
<1>4. ASSUME NEW d \in Dpu
      PROVE  RankOf(d) \in Rank /\ IgOf(d) \in Ig /\ Pos(d) \in Nat
  <2>1. d[1] \in Rank /\ d[2] \in Ci /\ d[3] \in Ig
    BY DEF Dpu
  <2>2. d[2] \in Nat /\ d[3] \in Nat
    BY <2>1, <1>1 DEF Ci, Ig
  <2>3. d[2] * NrIgs \in Nat
    BY <2>2, <1>1, <1>2
  <2>4. QED
    BY <2>1, <2>2, <2>3 DEF RankOf, IgOf, Pos
<1>5. QED
  BY <1>1, <1>3, <1>4

\* Sets of DPUs and of lines are finite, so the counters are numbers.
LEMMA Finite ==
  /\ \A S \in SUBSET Dpu : IsFiniteSet(S) /\ Cardinality(S) \in Nat
  /\ \A S \in SUBSET Ig : Cardinality(S) \in Nat
<1>1. IsFiniteSet(Rank) /\ IsFiniteSet(Ci) /\ IsFiniteSet(Ig)
  BY FS_Interval, Constants DEF Rank, Ci, Ig
<1>2. \A S \in SUBSET Ig : Cardinality(S) \in Nat
  BY <1>1, FS_Subset, FS_CardinalityType
<1>3. IsFiniteSet(Dpu)
  <2>1. IsFiniteSet(Ci \X Ig)
    BY <1>1, FS_Product
  <2>2. IsFiniteSet(Rank \X (Ci \X Ig))
    BY <2>1, <1>1, FS_Product
  <2> DEFINE pack == [t \in Rank \X (Ci \X Ig) |-> <<t[1], t[2][1], t[2][2]>>]
  <2>3. pack \in [Rank \X (Ci \X Ig) -> Dpu]
    BY DEF Dpu
  <2>4. ASSUME NEW d \in Dpu
        PROVE  \E t \in Rank \X (Ci \X Ig) : pack[t] = d
    <3>1. d = <<d[1], d[2], d[3]>> /\ d[1] \in Rank /\ d[2] \in Ci /\ d[3] \in Ig
      BY DEF Dpu
    <3>2. <<d[1], <<d[2], d[3]>>>> \in Rank \X (Ci \X Ig)
      BY <3>1
    <3>3. pack[<<d[1], <<d[2], d[3]>>>>] = d
      BY <3>1, <3>2
    <3>4. QED
      BY <3>2, <3>3
  <2>5. pack \in Surjection(Rank \X (Ci \X Ig), Dpu)
    BY <2>3, <2>4 DEF Surjection
  <2>6. QED
    BY <2>2, <2>5, FS_Surjection
<1>4. QED
  BY <1>2, <1>3, FS_Subset, FS_CardinalityType

\* The DPUs of a rank are as many as its interfaces times its lines.
LEMMA RankSize ==
  ASSUME NEW r \in Rank
  PROVE  IsFiniteSet(RankDpus(r)) /\ Cardinality(RankDpus(r)) = NrDpusPerRank
<1> DEFINE pack == [t \in Ci \X Ig |-> <<r, t[1], t[2]>>]
<1>1. /\ IsFiniteSet(Ci) /\ Cardinality(Ci) = NrCis
      /\ IsFiniteSet(Ig) /\ Cardinality(Ig) = NrIgs
  <2>1. NrCis \in Nat \ {0} /\ NrIgs \in Nat \ {0}
    BY TopologyAssumption
  <2>2. QED
    <3>1. IsFiniteSet(0 .. NrCis - 1) /\ Cardinality(0 .. NrCis - 1) = NrCis
      BY <2>1, FS_Interval
    <3>2. IsFiniteSet(0 .. NrIgs - 1) /\ Cardinality(0 .. NrIgs - 1) = NrIgs
      BY <2>1, FS_Interval
    <3>3. QED
      BY <3>1, <3>2 DEF Ci, Ig
<1>2. IsFiniteSet(Ci \X Ig) /\ Cardinality(Ci \X Ig) = NrDpusPerRank
  BY <1>1, FS_Product DEF NrDpusPerRank
<1>3. pack \in [Ci \X Ig -> RankDpus(r)]
  BY DEF RankDpus, Dpu, RankOf
<1>4. ASSUME NEW d \in RankDpus(r) PROVE \E t \in Ci \X Ig : pack[t] = d
  <2>1. d = <<r, d[2], d[3]>> /\ d[2] \in Ci /\ d[3] \in Ig
    BY DEF RankDpus, Dpu, RankOf
  <2>2. <<d[2], d[3]>> \in Ci \X Ig
    BY <2>1
  <2>3. pack[<<d[2], d[3]>>] = d
    BY <2>1, <2>2
  <2>4. QED
    BY <2>2, <2>3
<1>5. ASSUME NEW s \in Ci \X Ig, NEW t \in Ci \X Ig, pack[s] = pack[t] PROVE s = t
  <2>1. s = <<s[1], s[2]>> /\ t = <<t[1], t[2]>>
    OBVIOUS
  <2>2. s[1] = t[1] /\ s[2] = t[2]
    BY <1>5
  <2>3. QED
    BY <2>1, <2>2
<1>6. pack \in Surjection(Ci \X Ig, RankDpus(r)) /\ pack \in Injection(Ci \X Ig, RankDpus(r))
  BY <1>3, <1>4, <1>5 DEF Surjection, Injection, IsInjective
<1>7. QED
  BY <1>2, <1>6, FS_Surjection

-----------------------------------------------------------------------------
(* Numbering.                                                              *)

LEMMA Stride ==
  ASSUME NEW i \in Nat, NEW j \in Nat, NEW n \in Nat, i < j
  PROVE  i * n + n <= j * n
<1>1. PICK c \in Nat : j = i + 1 + c
  <2>1. j - i - 1 \in Nat /\ j = i + 1 + (j - i - 1)
    OBVIOUS
  <2>2. QED
    BY <2>1
<1>2. j * n = i * n + n + c * n
  BY <1>1
<1>3. i * n \in Nat /\ c * n \in Nat
  OBVIOUS
<1>4. QED
  BY <1>2, <1>3

\* Numbering a pair of indexes row by row stays below the product.
LEMMA Flattened ==
  ASSUME NEW i \in Nat, NEW a \in Nat, NEW n \in Nat, NEW b \in 0 .. n - 1, i < a
  PROVE  i * n + b \in 0 .. a * n - 1
<1>1. PICK c \in Nat : a = i + 1 + c
  <2>1. a - i - 1 \in Nat /\ a = i + 1 + (a - i - 1)
    OBVIOUS
  <2>2. QED
    BY <2>1
<1>2. a * n = i * n + n + c * n
  BY <1>1
<1>3. i * n \in Nat /\ c * n \in Nat
  OBVIOUS
<1>4. QED
  BY <1>2, <1>3

\* Two DPUs of a rank have different positions.
LEMMA PosOnce ==
  ASSUME NEW d \in Dpu, NEW e \in Dpu, RankOf(d) = RankOf(e), Pos(d) = Pos(e)
  PROVE  d = e
<1>1. /\ d = <<d[1], d[2], d[3]>> /\ e = <<e[1], e[2], e[3]>>
      /\ d[2] \in Nat /\ e[2] \in Nat
      /\ d[3] \in 0 .. NrIgs - 1 /\ e[3] \in 0 .. NrIgs - 1
      /\ d[1] = e[1]
  BY Constants DEF Dpu, RankOf, Ci, Ig
<1>2. d[2] * NrIgs + d[3] = e[2] * NrIgs + e[3]
  BY DEF Pos
<1>3. d[2] * NrIgs \in Nat /\ e[2] * NrIgs \in Nat /\ NrIgs \in Nat
  BY <1>1, Constants
<1>4. ~(d[2] < e[2])
  <2> SUFFICES ASSUME d[2] < e[2] PROVE FALSE
    OBVIOUS
  <2>1. d[2] * NrIgs + NrIgs <= e[2] * NrIgs
    BY <1>1, <1>3, Stride
  <2>2. QED
    BY <1>1, <1>2, <1>3, <2>1
<1>5. ~(e[2] < d[2])
  <2> SUFFICES ASSUME e[2] < d[2] PROVE FALSE
    OBVIOUS
  <2>1. e[2] * NrIgs + NrIgs <= d[2] * NrIgs
    BY <1>1, <1>3, Stride
  <2>2. QED
    BY <1>1, <1>2, <1>3, <2>1
<1>6. d[2] = e[2]
  BY <1>1, <1>4, <1>5
<1>7. d[3] = e[3]
  BY <1>1, <1>2, <1>3, <1>6
<1>8. QED
  BY <1>1, <1>6, <1>7

LEMMA PosRange ==
  ASSUME NEW r \in Rank, NEW d \in RankDpus(r)
  PROVE  Pos(d) \in 0 .. NrDpusPerRank - 1
<1>1. d[2] \in Ci /\ d[3] \in Ig
  BY DEF RankDpus, Dpu
<1>2. QED
  BY <1>1, Flattened, Constants DEF Ci, Ig, Pos, NrDpusPerRank

\* An injection that is as large as its target leaves nothing out.
LEMMA Covers ==
  ASSUME NEW S, NEW n \in Nat, IsFiniteSet(S), Cardinality(S) = n,
         NEW f \in [S -> 0 .. n - 1],
         \A x \in S, y \in S : f[x] = f[y] => x = y,
         NEW m \in 0 .. n - 1
  PROVE  \E x \in S : f[x] = m
<1>1. IsFiniteSet(0 .. n - 1) /\ Cardinality(0 .. n - 1) = n
  BY FS_Interval
<1>2. f \in Injection(S, 0 .. n - 1)
  BY DEF Injection, IsInjective
<1>3. f \in Surjection(S, 0 .. n - 1)
  BY <1>1, <1>2, FS_Injection
<1>4. QED
  BY <1>3 DEF Surjection

\* Every position of a rank is some DPU's.
LEMMA PosCovers ==
  ASSUME NEW r \in Rank, NEW m \in 0 .. NrDpusPerRank - 1
  PROVE  \E d \in RankDpus(r) : Pos(d) = m
<1> DEFINE f == [d \in RankDpus(r) |-> Pos(d)]
<1>1. IsFiniteSet(RankDpus(r)) /\ Cardinality(RankDpus(r)) = NrDpusPerRank /\ NrDpusPerRank \in Nat
  BY RankSize, Constants
<1>2. f \in [RankDpus(r) -> 0 .. NrDpusPerRank - 1]
  BY PosRange
<1>3. \A d \in RankDpus(r), e \in RankDpus(r) : f[d] = f[e] => d = e
  BY PosOnce DEF RankDpus
<1>4. \E d \in RankDpus(r) : f[d] = m
  <2> HIDE DEF f
  <2>1. QED
    BY <1>1, <1>2, <1>3, Covers
<1>5. QED
  BY <1>4

\* The first partitions of a rank, before they are sent.
LEMMA FirstReserved ==
  ASSUME NEW r \in Rank, NEW d \in RankDpus(r)
  PROVE  NrDpusPerRank * r + Pos(d)
           \in NrDpusPerRank * r .. NrDpusPerRank * r + NrDpusPerRank - 1
<1>1. Pos(d) \in 0 .. NrDpusPerRank - 1
  BY PosRange
<1>2. NrDpusPerRank * r \in Nat /\ NrDpusPerRank \in Nat
  BY Constants DEF Rank
<1>3. QED
  BY <1>1, <1>2

\* The first partitions are numbered rank by rank.
LEMMA FirstOwner ==
  ASSUME NEW p \in 0 .. NrDpus - 1
  PROVE  \E r \in Rank : p \in NrDpusPerRank * r .. NrDpusPerRank * r + NrDpusPerRank - 1
<1> DEFINE q == p \div NrDpusPerRank
<1>1. p \in Nat /\ p < NrRanks * NrDpusPerRank
  BY Constants DEF NrDpus
<1>2. NrDpusPerRank \in Nat /\ NrRanks \in Nat /\ NrDpusPerRank > 0
  <2>1. \A a, b \in Nat \ {0} : a * b > 0
    OBVIOUS
  <2>2. QED
    BY <2>1, TopologyAssumption, Constants DEF NrDpusPerRank
<1>3. \A a \in Nat, n \in Nat : n > 0 =>
        /\ a \div n \in Nat /\ a % n \in 0 .. n - 1
        /\ a = n * (a \div n) + (a % n)
  OBVIOUS
<1>4. q \in Nat /\ p % NrDpusPerRank \in 0 .. NrDpusPerRank - 1
      /\ p = NrDpusPerRank * q + (p % NrDpusPerRank)
  BY <1>1, <1>2, <1>3
<1> HIDE DEF q
<1>5. q < NrRanks
  <2> SUFFICES ASSUME ~(q < NrRanks) PROVE FALSE
    OBVIOUS
  <2>1. NrRanks * NrDpusPerRank <= q * NrDpusPerRank
    <3>1. CASE q = NrRanks
      BY <1>2, <1>4, <3>1
    <3>2. CASE NrRanks < q
      <4>1. NrRanks * NrDpusPerRank + NrDpusPerRank <= q * NrDpusPerRank
        BY <1>2, <1>4, <3>2, Stride
      <4>2. NrRanks * NrDpusPerRank \in Nat /\ q * NrDpusPerRank \in Nat
        BY <1>2, <1>4
      <4>3. QED
        BY <1>2, <4>1, <4>2
    <3>3. QED
      BY <1>2, <1>4, <3>1, <3>2
  <2>2. NrDpusPerRank * q = q * NrDpusPerRank /\ q * NrDpusPerRank \in Nat
        /\ NrRanks * NrDpusPerRank \in Nat
    BY <1>2, <1>4
  <2>3. QED
    BY <1>1, <1>2, <1>4, <2>1, <2>2
<1>6. q \in Rank /\ NrDpusPerRank * q \in Nat
  BY <1>2, <1>4, <1>5 DEF Rank
<1>7. QED
  BY <1>2, <1>4, <1>6

-----------------------------------------------------------------------------
(* Dealing: the DPUs of a set take numbers in the order of DPU_FOREACH.    *)

Ahead(S, d) == Cardinality({e \in S : Pos(e) < Pos(d)})

\* Each takes a number below the size of the set,
LEMMA AheadRange ==
  ASSUME NEW S \in SUBSET Dpu, NEW d \in S
  PROVE  Ahead(S, d) \in 0 .. Cardinality(S) - 1
<1> DEFINE earlier == {e \in S : Pos(e) < Pos(d)}
<1>1. earlier \subseteq S \ {d}
  BY Constants
<1>2. IsFiniteSet(S) /\ Cardinality(S) \in Nat /\ Cardinality(earlier) \in Nat
  BY Finite
<1>3. IsFiniteSet(S \ {d}) /\ Cardinality(S \ {d}) = Cardinality(S) - 1
  BY <1>2, FS_RemoveElement
<1>4. Cardinality(earlier) <= Cardinality(S \ {d})
  BY <1>1, <1>3, FS_Subset
<1>5. QED
  BY <1>2, <1>3, <1>4 DEF Ahead

\* a later one a larger number,
LEMMA AheadGrows ==
  ASSUME NEW S \in SUBSET Dpu, NEW d \in S, NEW e \in S, Pos(d) < Pos(e)
  PROVE  Ahead(S, d) < Ahead(S, e)
<1> DEFINE U(x) == {y \in S : Pos(y) < Pos(x)}
<1>1. U(d) \in SUBSET Dpu /\ U(e) \in SUBSET Dpu
  OBVIOUS
<1>2. d \in U(e) /\ U(d) \subseteq U(e) \ {d}
  <2>1. \A y \in S : Pos(y) \in Nat
    BY Constants
  <2>2. QED
    BY <2>1
<1>3. /\ IsFiniteSet(U(e)) /\ Cardinality(U(e)) \in Nat /\ Cardinality(U(d)) \in Nat
  BY <1>1, Finite
<1>4. IsFiniteSet(U(e) \ {d}) /\ Cardinality(U(e) \ {d}) = Cardinality(U(e)) - 1
  BY <1>2, <1>3, FS_RemoveElement
<1>5. Cardinality(U(d)) <= Cardinality(U(e) \ {d})
  BY <1>2, <1>4, FS_Subset
<1>6. QED
  BY <1>3, <1>4, <1>5 DEF Ahead

\* no two of one rank the same number,
LEMMA AheadOnce ==
  ASSUME NEW r \in Rank, NEW S \in SUBSET RankDpus(r), NEW d \in S, NEW e \in S,
         Ahead(S, d) = Ahead(S, e)
  PROVE  d = e
<1>1. d \in Dpu /\ e \in Dpu /\ RankOf(d) = RankOf(e) /\ S \in SUBSET Dpu
  BY DEF RankDpus
<1>2. Ahead(S, d) \in Nat /\ Ahead(S, e) \in Nat /\ Pos(d) \in Nat /\ Pos(e) \in Nat
  <2>1. Cardinality(S) \in Nat
    BY <1>1, Finite
  <2>2. QED
    BY <1>1, <2>1, AheadRange, Constants
<1>3. ~(Pos(d) < Pos(e)) /\ ~(Pos(e) < Pos(d))
  BY <1>1, <1>2, AheadGrows
<1>4. QED
  BY <1>1, <1>2, <1>3, PosOnce

\* and every number is taken.
LEMMA AheadCovers ==
  ASSUME NEW r \in Rank, NEW S \in SUBSET RankDpus(r), NEW m \in 0 .. Cardinality(S) - 1
  PROVE  \E d \in S : Ahead(S, d) = m
<1> DEFINE f == [d \in S |-> Ahead(S, d)]
           n == Cardinality(S)
<1>1. S \in SUBSET Dpu
  BY DEF RankDpus
<1>2. IsFiniteSet(S) /\ n \in Nat
  BY <1>1, Finite
<1>3. f \in [S -> 0 .. n - 1]
  BY <1>1, AheadRange
<1>4. \A d \in S, e \in S : f[d] = f[e] => d = e
  BY AheadOnce
<1>5. \E d \in S : f[d] = m
  <2> HIDE DEF f
  <2>1. Cardinality(S) = n /\ m \in 0 .. n - 1
    OBVIOUS
  <2> HIDE DEF n
  <2>2. QED
    BY <1>2, <1>3, <1>4, <2>1, Covers
<1>6. QED
  BY <1>5

-----------------------------------------------------------------------------
(* Handing out whole ranks.                                                *)

Aligned(n) == \E i \in Nat : n = i * NrDpusPerRank

LEMMA RankNotEmpty == NrDpusPerRank \in Nat /\ NrDpusPerRank > 0
<1>1. \A a, b \in Nat \ {0} : a * b > 0
  OBVIOUS
<1>2. QED
  BY <1>1, TopologyAssumption, Constants DEF NrDpusPerRank

\* A whole rank is left where one is, if whole ranks divide the total.
LEMMA NextBlock ==
  ASSUME NEW total \in Nat, total % NrDpusPerRank = 0,
         NEW n \in Nat, Aligned(n), n < total
  PROVE  n + NrDpusPerRank <= total /\ Aligned(n + NrDpusPerRank)
<1> DEFINE m == total \div NrDpusPerRank
<1>1. NrDpusPerRank \in Nat /\ NrDpusPerRank > 0
  BY RankNotEmpty
<1>2. m \in Nat /\ total = m * NrDpusPerRank
  <2>1. \A a \in Nat, b \in Nat : b > 0 /\ a % b = 0 => a \div b \in Nat /\ a = (a \div b) * b
    OBVIOUS
  <2>2. QED
    BY <1>1, <2>1
<1> HIDE DEF m
<1>3. PICK i \in Nat : n = i * NrDpusPerRank
  BY DEF Aligned
<1>4. i < m
  <2> SUFFICES ASSUME ~(i < m) PROVE FALSE
    OBVIOUS
  <2>1. CASE i = m
    BY <1>2, <1>3, <2>1
  <2>2. CASE m < i
    <3>1. m * NrDpusPerRank + NrDpusPerRank <= i * NrDpusPerRank
      BY <1>1, <1>2, <2>2, Stride
    <3>2. QED
      BY <1>1, <1>2, <1>3, <3>1
  <2>3. QED
    BY <1>2, <2>1, <2>2
<1>5. n + NrDpusPerRank <= total
  BY <1>1, <1>2, <1>3, <1>4, Stride
<1>6. n + NrDpusPerRank = (i + 1) * NrDpusPerRank
  BY <1>1, <1>3
<1>7. QED
  BY <1>5, <1>6 DEF Aligned

\* A block that a thread has reserved reaches its DPUs whole.
LEMMA BlockGiven ==
  ASSUME NEW r \in Rank, NEW c \in Nat, NEW p \in c .. c + NrDpusPerRank - 1
  PROVE  \E d \in RankDpus(r) : c + Pos(d) = p
<1>1. p - c \in 0 .. NrDpusPerRank - 1
  BY Constants
<1>2. PICK d \in RankDpus(r) : Pos(d) = p - c
  BY <1>1, PosCovers
<1>3. c + Pos(d) = p
  BY <1>1, <1>2, Constants
<1>4. QED
  BY <1>3
=============================================================================
