------------------------- MODULE EncodeLinesProofs -------------------------
(***************************************************************************)
(* Proofs about the streaming encoder: which rows come out of its          *)
(* transform, which code-blocks are handed to the encoders and when, and   *)
(* what its threads share.                                                 *)
(*                                                                         *)
(* LinesInv relates the flags of the code-block rows to the rows that came *)
(* out of the transform, BlocksInv the flags to the places of the blocks.  *)
(* Neither looks at the samples. Rested says of the ring of a level that   *)
(* each row it holds has the steps it can have, TransformInv how many rows *)
(* entered a level and that every row it put is right; the theorems at the *)
(* end bring the three together. The lifting itself is in LiftRingProofs.  *)
(***************************************************************************)
EXTENDS EncodeLines, FiniteSetTheorems, SequenceTheorems, LiftRingProofs

-----------------------------------------------------------------------------
(* What the transform's operations leave alone. *)

FdwtFields ==
  {"flushed", "v0", "v1", "xf", "first", "depth", "topN", "botN", "origin", "nextIn",
   "nextOut", "cells"}

\* t is s with other cells, and perhaps another flag or another row to enter.
SameLevel(s, t) ==
  DOMAIN t = FdwtFields /\ t.v0 = s.v0 /\ t.v1 = s.v1 /\ t.nextOut = s.nextOut

\* A phase lifts in place.
LEMMA PhaseSame ==
  ASSUME NEW s, DOMAIN s = FdwtFields, NEW p, NEW cur, NEW need
  PROVE  SameLevel(s, Phase(s, p, cur, need))
BY DEF Phase, Put, SameLevel, FdwtFields

\* So does a cascade, of either filter.
LEMMA CascadeSame ==
  ASSUME NEW s, DOMAIN s = FdwtFields
  PROVE  SameLevel(s, FdwtCascade(s))
<1>1. SameLevel(s, Phase(Phase(s, 1, 0, 0), 0, 0, 1))
  <2> DEFINE t == Phase(s, 1, 0, 0)
  <2>1. SameLevel(s, t)
    BY PhaseSame
  <2> HIDE DEF t
  <2>2. SameLevel(t, Phase(t, 0, 0, 1))
    BY <2>1, PhaseSame DEF SameLevel
  <2> QED
    BY <2>1, <2>2 DEF SameLevel, t
<1>2. SameLevel(s, UntilStable(s))
  BY DEF UntilStable, SameLevel, FdwtFields
<1> QED
  BY <1>1, <1>2 DEF FdwtCascade

\* The extension rows are cells of the ring.
LEMMA FillSame ==
  ASSUME NEW s, DOMAIN s = FdwtFields, NEW rows
  PROVE  SameLevel(s, FillPse(s, rows))
BY DEF FillPse, Put, SameLevel, FdwtFields

\* A row that enters is not one that leaves.
LEMMA PushedSame ==
  ASSUME NEW s, DOMAIN s = FdwtFields, NEW val
  PROVE  SameLevel(s, Pushed(s, val))
<1> DEFINE r == s.nextIn
           in == [Store(s, r, val) EXCEPT !.nextIn = r + 1]
           one == [s EXCEPT !.nextIn = r + 1, !.cells[SlotOf(s, r)].val = val]
           t == FillPse(in, {r})
<1>1. SameLevel(s, in)
  BY DEF SameLevel, Store, FdwtFields
<1>2. SameLevel(s, one)
  BY DEF SameLevel, FdwtFields
<1>3. Pushed(s, val) = IF r >= s.v1 THEN s ELSE IF OneRow(s) THEN one ELSE FdwtCascade(t)
  BY DEF Pushed
<1> HIDE DEF in, one
<1>4. SameLevel(s, t)
  BY <1>1, FillSame DEF SameLevel
<1> HIDE DEF t
<1>5. SameLevel(s, FdwtCascade(t))
  BY <1>4, CascadeSame DEF SameLevel
<1> QED
  BY <1>2, <1>3, <1>5 DEF SameLevel

\* Nor does flush put a row.
LEMMA FlushedSame ==
  ASSUME NEW s, DOMAIN s = FdwtFields
  PROVE  SameLevel(s, Flushed(s))
<1> DEFINE t == [s EXCEPT !.flushed = TRUE]
           u == FillPse(t, LateSources(t))
<1>1. SameLevel(s, t)
  BY DEF SameLevel, FdwtFields
<1>3. Flushed(s) = IF OneRow(s) \/ s.v1 = s.v0 THEN t ELSE FdwtCascade(u)
  BY DEF Flushed
<1> HIDE DEF t
<1>4. SameLevel(s, u)
  BY <1>1, FillSame DEF SameLevel
<1> HIDE DEF u
<1>5. SameLevel(s, FdwtCascade(u))
  BY <1>4, CascadeSame DEF SameLevel
<1> QED
  BY <1>1, <1>3, <1>5

\* An emission moves on to the next row.
LEMMA EmittedNext ==
  ASSUME NEW s, DOMAIN s = FdwtFields
  PROVE  /\ DOMAIN Emitted(s) = FdwtFields
         /\ Emitted(s).v0 = s.v0 /\ Emitted(s).v1 = s.v1
         /\ Emitted(s).nextOut = s.nextOut + 1
<1> DEFINE t    == [s EXCEPT !.nextOut = @ + 1]
           stop == {r \in t.origin .. t.nextOut - 5 : Level(t, r) < MaxLevel(t.xf)}
           last == t.nextOut - 4
           o    == IF stop = {} THEN last ELSE Min(stop)
<1>1. DOMAIN t = FdwtFields /\ t.v0 = s.v0 /\ t.v1 = s.v1 /\ t.nextOut = s.nextOut + 1
  BY DEF FdwtFields
<1>2. Emitted(s) = IF OneRow(s) \/ o <= t.origin THEN t ELSE EvictTo(t, o)
  BY DEF Emitted
<1> HIDE DEF t, o
<1>3. SameLevel(t, EvictTo(t, o))
  BY <1>1 DEF EvictTo, SameLevel, FdwtFields
<1> QED
  BY <1>1, <1>2, <1>3 DEF SameLevel

\* A level begins with its first row to come.
LEMMA FreshLevel ==
  ASSUME NEW v0, NEW v1, NEW xf
  PROVE  LET s == FdwtInit(v0, v1, xf) IN
         DOMAIN s = FdwtFields /\ s.v0 = v0 /\ s.v1 = v1 /\ s.nextOut = v0
BY DEF FdwtInit, FdwtFields

\* A row that is emitted is a row of the level.
LEMMA CanEmitRow ==
  ASSUME NEW s, CanEmit(s), s.v0 \in Int, s.v1 \in Int, s.nextOut \in Int
  PROVE  s.nextOut < s.v1
BY DEF CanEmit, OneRow, Ready

-----------------------------------------------------------------------------
(* Geometry. *)

Sane(t) ==
  TileOK(t) /\ 2 ^ 0 = 1 /\ \A k \in 1 .. t.NL : 2 ^ k = 2 * 2 ^ (k - 1) /\ 2 ^ k > 0

\* Powers of two, as far as a tile has levels.
LEMMA Powers ==
  ASSUME NEW t, Sane(t), NEW k \in 0 .. t.NL
  PROVE  2 ^ k \in Nat \ {0}
<1>1. t.NL \in Nat /\ k \in Nat
  BY DEF Sane, TileOK
<1>2. 2 ^ k \in Int
  BY <1>1
<1>3. CASE k = 0
  BY <1>3, <1>2 DEF Sane
<1>4. CASE k # 0
  <2>1. k \in 1 .. t.NL
    BY <1>1, <1>4
  <2>2. 2 ^ k > 0
    BY <2>1 DEF Sane
  <2> QED
    BY <1>2, <2>2
<1> QED
  BY <1>3, <1>4

\* A quotient rounded up lies between its neighbours.
LEMMA CeilDivIs ==
  ASSUME NEW a \in Nat, NEW b \in Nat \ {0}
  PROVE  /\ CeilDiv(a, b) \in Int
         /\ a <= b * CeilDiv(a, b) /\ b * CeilDiv(a, b) < a + b
<1> DEFINE q == CeilDiv(a, b)
           m == (a + b - 1) % b
<1>1. q \in Int /\ m \in 0 .. b - 1 /\ a + b - 1 = b * q + m
  <2> DEFINE e == a + b - 1
  <2>1. e \in Int
    OBVIOUS
  <2>2. q = e \div b /\ m = e % b
    BY DEF CeilDiv
  <2> HIDE DEF e, q, m
  <2>3. q \in Int /\ m \in 0 .. b - 1 /\ e = b * q + m
    BY <2>1, <2>2, DivMod
  <2> QED
    BY <2>3 DEF e
<1> HIDE DEF q, m
<1>2. b * q \in Int
  BY <1>1
<1>3. a <= b * q /\ b * q < a + b
  <2> DEFINE p == b * q
  <2>1. p \in Int /\ a + b - 1 = p + m
    BY <1>1, <1>2
  <2> HIDE DEF p
  <2>2. a <= p /\ p < a + b
    BY <1>1, <2>1
  <2> QED
    BY <2>2 DEF p
<1> QED
  BY <1>1, <1>3 DEF q

\* Of two multiples of d that are ordered the factors are.
LEMMA Factors ==
  ASSUME NEW d \in Nat \ {0}, NEW p \in Int, NEW q \in Int
  PROVE  /\ d * p < d * q + d => p <= q
         /\ p <= q => d * p <= d * q
<1>1. ASSUME p <= q PROVE d * p <= d * q
  BY <1>1
<1>2. ASSUME p >= q + 1 PROVE d * p >= d * q + d
  <2>1. d * p >= d * (q + 1)
    BY <1>2
  <2>2. d * (q + 1) = d * q + d
    OBVIOUS
  <2> QED
    BY <2>1, <2>2
<1>3. d * p \in Int /\ d * q \in Int
  OBVIOUS
<1> QED
  BY <1>1, <1>2, <1>3

\* It is the least number that is large enough.
LEMMA CeilDivLeast ==
  ASSUME NEW a \in Nat, NEW b \in Nat \ {0}, NEW m \in Int, a <= b * m
  PROVE  CeilDiv(a, b) <= m
<1> DEFINE q == CeilDiv(a, b)
<1>1. q \in Int /\ b * q < a + b
  BY CeilDivIs
<1> HIDE DEF q
<1>2. b * q < b * m + b
  <2>1. b * q \in Int /\ b * m \in Int
    BY <1>1
  <2> QED
    BY <1>1, <2>1
<1>3. q <= m
  BY <1>1, <1>2, Factors
<1> QED
  BY <1>3 DEF q

\* It grows with the dividend.
LEMMA CeilDivMonotone ==
  ASSUME NEW a \in Nat, NEW e \in Nat, a <= e, NEW b \in Nat \ {0}
  PROVE  CeilDiv(a, b) <= CeilDiv(e, b) /\ CeilDiv(a, b) \in Nat
<1> DEFINE q == CeilDiv(e, b)
           p == CeilDiv(a, b)
<1>1. q \in Int /\ e <= b * q /\ p \in Int /\ a <= b * p
  BY CeilDivIs
<1>2. p <= q
  <2>1. b * q \in Int
    BY <1>1
  <2>2. a <= b * q
    BY <1>1, <2>1
  <2> QED
    BY <1>1, <2>2, CeilDivLeast
<1>3. p >= 0
  <2> HIDE DEF p
  <2>1. b * 0 < b * p + b
    <3>1. b * p \in Int /\ b * 0 = 0
      BY <1>1
    <3> QED
      BY <1>1, <3>1
  <2>2. 0 <= p
    BY <1>1, <2>1, Factors
  <2> QED
    BY <2>2
<1> QED
  BY <1>1, <1>2, <1>3

\* First and last rows of a level are numbers in order.
LEMMA RowType ==
  ASSUME NEW t, Sane(t), NEW c \in DOMAIN t.yrs, NEW l \in 0 .. t.NL
  PROVE  /\ EncRow(t, c, l, t.v0) \in Nat /\ EncRow(t, c, l, t.v1) \in Nat
         /\ EncRow(t, c, l, t.v0) <= EncRow(t, c, l, t.v1)
<1> DEFINE d == t.yrs[c] * 2 ^ (t.NL - l)
<1>1. t.yrs[c] \in Nat \ {0} /\ t.v0 \in Nat /\ t.v1 \in Nat /\ t.v0 <= t.v1 /\ t.NL \in Nat
  BY DEF Sane, TileOK
<1>2. 2 ^ (t.NL - l) \in Nat \ {0}
  <2>1. t.NL - l \in 0 .. t.NL
    BY <1>1
  <2> QED
    BY <2>1, Powers
<1>3. d \in Nat \ {0}
  BY <1>1, <1>2
<1> HIDE DEF d
<1>4. /\ EncRow(t, c, l, t.v0) = CeilDiv(t.v0, d) /\ EncRow(t, c, l, t.v1) = CeilDiv(t.v1, d)
  BY DEF EncRow, d
<1>5. CeilDiv(t.v0, d) <= CeilDiv(t.v1, d) /\ CeilDiv(t.v0, d) \in Nat /\ CeilDiv(t.v1, d) \in Nat
  BY <1>1, <1>3, CeilDivMonotone
<1> QED
  BY <1>4, <1>5

\* The lowest level's rows are the even ones of the level above.
LEMMA LowestRows ==
  ASSUME NEW t, Sane(t), NEW c \in DOMAIN t.yrs, NEW y \in Int, NEW v \in Nat
  PROVE  /\ EncRow(t, c, 0, v) <= y => EncRow(t, c, 1, v) <= 2 * y
         /\ y < EncRow(t, c, 0, v) => 2 * y < EncRow(t, c, 1, v)
         /\ EncRow(t, c, 0, v) \in Int
<1> DEFINE d == t.yrs[c] * 2 ^ (t.NL - 1)
           q == CeilDiv(v, 2 * d)
           p == CeilDiv(v, d)
<1>1. t.yrs[c] \in Nat \ {0} /\ t.NL \in Nat \ {0}
  BY DEF Sane, TileOK
<1>2. 2 ^ (t.NL - 1) \in Nat \ {0} /\ 2 ^ t.NL = 2 * 2 ^ (t.NL - 1)
  <2>1. t.NL - 1 \in 0 .. t.NL /\ t.NL \in 1 .. t.NL
    BY <1>1
  <2>2. 2 ^ t.NL = 2 * 2 ^ (t.NL - 1)
    BY <2>1 DEF Sane
  <2> QED
    BY <2>1, <2>2, Powers
<1>3. d \in Nat \ {0} /\ t.yrs[c] * 2 ^ t.NL = 2 * d
  BY <1>1, <1>2
<1>4. /\ EncRow(t, c, 0, v) = q /\ EncRow(t, c, 1, v) = p
  <2>1. t.NL - 0 = t.NL
    BY <1>1
  <2> QED
    BY <1>3, <2>1 DEF EncRow
<1> HIDE DEF d
<1>5. /\ q \in Int /\ v <= (2 * d) * q /\ (2 * d) * q < v + 2 * d
      /\ p \in Int /\ v <= d * p /\ d * p < v + d
  <2> DEFINE e == 2 * d
  <2>1. e \in Nat \ {0}
    BY <1>3
  <2> HIDE DEF e
  <2>2. CeilDiv(v, e) \in Int /\ v <= e * CeilDiv(v, e) /\ e * CeilDiv(v, e) < v + e
    BY <2>1, CeilDivIs
  <2>3. p \in Int /\ v <= d * p /\ d * p < v + d
    BY <1>3, CeilDivIs
  <2> QED
    BY <2>2, <2>3 DEF e
<1>6. ASSUME q <= y PROVE p <= 2 * y
  <2>1. (2 * d) * q <= (2 * d) * y
    BY <1>3, <1>5, <1>6, Factors
  <2>2. (2 * d) * y = d * (2 * y)
    BY <1>3
  <2> HIDE DEF q, p
  <2>3. v <= d * (2 * y)
    <3>1. (2 * d) * q \in Int /\ (2 * d) * y \in Int
      BY <1>3, <1>5
    <3> QED
      BY <1>5, <2>1, <2>2, <3>1
  <2> QED
    BY <1>3, <2>3, CeilDivLeast DEF p
<1>7. ASSUME y < q PROVE 2 * y < p
  <2>1. SUFFICES ASSUME p <= 2 * y PROVE FALSE
    BY <1>5
  <2>2. d * p <= d * (2 * y)
    BY <1>3, <1>5, <2>1, Factors
  <2>3. d * (2 * y) = (2 * d) * y
    BY <1>3
  <2> HIDE DEF p
  <2>4. v <= (2 * d) * y
    <3>1. d * p \in Int /\ (2 * d) * y \in Int
      BY <1>3, <1>5
    <3> QED
      BY <1>5, <2>2, <2>3, <3>1
  <2>5. q <= y
    BY <1>3, <2>4, CeilDivLeast
  <2> QED
    BY <1>5, <1>7, <2>5
<1> QED
  BY <1>4, <1>5, <1>6, <1>7

HalfBand(f) == IF f = 1 THEN "HL" ELSE "LH"

\* The bands of a level hold its rows: the even ones in HL, the odd ones in LH and HH.
LEMMA BandRows ==
  ASSUME NEW t, Sane(t), NEW c \in DOMAIN t.yrs, NEW l \in 1 .. t.NL, NEW b \in BandsOf(l),
         NEW r \in Int,
         NEW f, f = IF b = "HL" THEN 1 ELSE 2
  PROVE  /\ BandTop(t, c, l, b) \in Nat /\ BandEnd(t, c, l, b) \in Nat
         /\ BandTop(t, c, l, b) <= BandEnd(t, c, l, b)
         /\ BandHeight(t, c, l, b) = BandEnd(t, c, l, b) - BandTop(t, c, l, b)
         /\ BandTop(t, c, l, b) = BandTop(t, c, l, HalfBand(f))
         /\ BandEnd(t, c, l, b) = BandEnd(t, c, l, HalfBand(f))
         /\ \A y \in Int : (BandTop(t, c, l, b) <= y <=> EncRow(t, c, l, t.v0) <= 2 * y + f - 1)
         /\ \A y \in Int : (y < BandEnd(t, c, l, b) <=> 2 * y + f - 1 < EncRow(t, c, l, t.v1))
<1> DEFINE v == EncRow(t, c, l, t.v0)
           w == EncRow(t, c, l, t.v1)
<1>1. v \in Nat /\ w \in Nat /\ v <= w
  <2>1. l \in 0 .. t.NL
    BY DEF Sane, TileOK
  <2> QED
    BY <2>1, RowType
<1>2. /\ BandTop(t, c, l, b) = EncBandRow(b, v) /\ BandEnd(t, c, l, b) = EncBandRow(b, w)
      /\ BandTop(t, c, l, HalfBand(f)) = EncBandRow(HalfBand(f), v)
      /\ BandEnd(t, c, l, HalfBand(f)) = EncBandRow(HalfBand(f), w)
  BY DEF BandTop, BandEnd
<1>3. BandHeight(t, c, l, b) = BandEnd(t, c, l, b) - BandTop(t, c, l, b)
  BY DEF BandHeight
<1> HIDE DEF v, w
<1>4. b \in {"HL", "LH", "HH"}
  <2>1. l # 0
    BY DEF Sane, TileOK
  <2> QED
    BY <2>1 DEF BandsOf
<1>5. CASE b = "HL"
  <2>1. f = 1 /\ HalfBand(f) = "HL" /\ EncBandRow(b, v) = (v + 1) \div 2
        /\ EncBandRow(b, w) = (w + 1) \div 2
    BY <1>5 DEF HalfBand, EncBandRow
  <2>2. /\ (v + 1) \div 2 \in Nat /\ (w + 1) \div 2 \in Nat
        /\ (v + 1) \div 2 <= (w + 1) \div 2
        /\ \A y \in Int : ((v + 1) \div 2 <= y <=> v <= 2 * y)
        /\ \A y \in Int : (y < (w + 1) \div 2 <=> 2 * y < w)
    BY <1>1
  <2> QED
    BY <1>2, <1>3, <2>1, <2>2 DEF v, w
<1>6. CASE b # "HL"
  <2>1. f = 2 /\ HalfBand(f) = "LH" /\ EncBandRow(b, v) = v \div 2
        /\ EncBandRow(b, w) = w \div 2
        /\ EncBandRow("LH", v) = v \div 2 /\ EncBandRow("LH", w) = w \div 2
    BY <1>4, <1>6 DEF HalfBand, EncBandRow
  <2>2. /\ v \div 2 \in Nat /\ w \div 2 \in Nat
        /\ v \div 2 <= w \div 2
        /\ \A y \in Int : (v \div 2 <= y <=> v <= 2 * y + 1)
        /\ \A y \in Int : (y < w \div 2 <=> 2 * y + 1 < w)
    BY <1>1
  <2> QED
    BY <1>2, <1>3, <2>1, <2>2 DEF v, w
<1> QED
  BY <1>5, <1>6

-----------------------------------------------------------------------------
(* Tables and sets of code-blocks. *)

\* G is a table with rows A and columns B.
Table(G, A, B) == G = [c \in A |-> [l \in B |-> G[c][l]]]

\* G is F with another entry e at c, l.
Updated(F, G, c, l, e, A, B) ==
  /\ Table(G, A, B) /\ G[c][l] = e
  /\ \A d \in A : \A k \in B : d # c \/ k # l => G[d][k] = F[d][k]

\* Two indices into a table of tables.
LEMMA TableUpdate ==
  \A A, B, F, c, l, e, G :
    /\ Table(F, A, B) /\ c \in A /\ l \in B
    /\ G = [F EXCEPT ![c][l] = e]
    => Updated(F, G, c, l, e, A, B)
<1> TAKE A, B, F, c, l, e, G
<1> HAVE Table(F, A, B) /\ c \in A /\ l \in B /\ G = [F EXCEPT ![c][l] = e]
<1> DEFINE row == [F[c] EXCEPT ![l] = e]
<1>1. F = [d \in A |-> [k \in B |-> F[d][k]]] /\ G = [F EXCEPT ![c] = row]
  BY DEF Table
<1>2. row = [k \in B |-> IF k = l THEN e ELSE F[c][k]]
  BY <1>1
<1> HIDE DEF row
<1>3. G = [d \in A |-> IF d = c THEN row ELSE F[d]]
  BY <1>1
<1>4. \A d \in A : \A k \in B : G[d][k] = IF d = c /\ k = l THEN e ELSE F[d][k]
  BY <1>2, <1>3
<1>5. \A d \in A : G[d] = [k \in B |-> G[d][k]]
  <2>1. G[c] = row /\ row = [k \in B |-> row[k]]
    BY <1>2, <1>3
  <2>2. \A d \in A : d # c => G[d] = F[d] /\ F[d] = [k \in B |-> F[d][k]]
    BY <1>1, <1>3
  <2> QED
    BY <2>1, <2>2
<1>6. Table(G, A, B)
  BY <1>3, <1>5 DEF Table
<1> QED
  BY <1>4, <1>6 DEF Updated

\* Min and Max of two numbers.
LEMMA TwoNumbers ==
  ASSUME NEW a \in Int, NEW b \in Int
  PROVE  /\ Min({a, b}) = IF a <= b THEN a ELSE b
         /\ Max({a, b}) = IF a <= b THEN b ELSE a
BY DEF Min, Max

\* Min of a set of numbers is its least.
LEMMA MinIs ==
  ASSUME NEW S \in SUBSET Nat, S # {}
  PROVE  Min(S) \in S /\ \A k \in S : Min(S) <= k
<1>1. \E m \in S : \A k \in S : m <= k
  BY NatLeast
<1> QED
  BY <1>1 DEF Min

\* Max of a bounded set of numbers is its greatest.
LEMMA MaxIs ==
  ASSUME NEW n \in Nat, NEW S \in SUBSET (0 .. n), S # {}
  PROVE  Max(S) \in S /\ \A k \in S : k <= Max(S)
<1> DEFINE T == {n - k : k \in S}
<1>1. \A k \in S : k \in 0 .. n /\ n - k \in Nat /\ n - k \in T
  OBVIOUS
<1>2. \A e \in T : \E k \in S : e = n - k
  OBVIOUS
<1> HIDE DEF T
<1>3. T \in SUBSET Nat /\ T # {}
  BY <1>1, <1>2
<1>4. PICK m \in T : \A k \in T : m <= k
  BY <1>3, NatLeast
<1>5. PICK x \in S : m = n - x
  BY <1>2
<1>6. ASSUME NEW k \in S PROVE x >= k
  <2>1. n - x <= n - k
    BY <1>1, <1>4, <1>5
  <2>2. k \in Int /\ x \in Int
    BY <1>1
  <2> QED
    BY <2>1, <2>2
<1>7. \E y \in S : \A k \in S : y >= k
  BY <1>6
<1>8. Max(S) \in S /\ \A k \in S : Max(S) >= k
  BY <1>7 DEF Max
<1> QED
  BY <1>1, <1>8

\* A band's blocks, its columns side by side.
BandBlocks(t, c, l, b) == {<<c, l, b, n, x>> : n \in BlockRows(t, c, l, b), x \in EncCols}

\* A set indexed by a finite one is finite.
LEMMA ImageFinite ==
  ASSUME NEW A, IsFiniteSet(A), NEW g, DOMAIN g = A
  PROVE  IsFiniteSet({g[x] : x \in A})
<1> DEFINE B == {g[x] : x \in A}
           m == [x \in A |-> g[x]]
<1>1. m \in Surjection(A, B)
  BY DEF Surjection
<1> QED
  BY <1>1, FS_Surjection

\* Rows of a band are numbers.
LEMMA BandRowType ==
  ASSUME NEW b, NEW v \in Nat
  PROVE  EncBandRow(b, v) \in Nat
BY DEF EncBandRow

\* A band has finitely many blocks.
LEMMA BandFinite ==
  ASSUME NEW t, Sane(t), NEW c \in DOMAIN t.yrs, NEW l \in 0 .. t.NL, NEW b \in BandsOf(l)
  PROVE  IsFiniteSet(BandBlocks(t, c, l, b))
<1> DEFINE N == BlockRows(t, c, l, b)
           g == [p \in N \X EncCols |-> <<c, l, b, p[1], p[2]>>]
<1>1. IsFiniteSet(N)
  <2>1. t.cbh \in Nat \ {0} /\ BandTop(t, c, l, b) \in Int /\ BandEnd(t, c, l, b) \in Int
    <3>1. EncRow(t, c, l, t.v0) \in Nat /\ EncRow(t, c, l, t.v1) \in Nat
      BY RowType
    <3>2. BandTop(t, c, l, b) \in Nat /\ BandEnd(t, c, l, b) \in Nat
      BY <3>1, BandRowType DEF BandTop, BandEnd
    <3> QED
      BY <3>2 DEF Sane, TileOK
  <2>2. /\ BandTop(t, c, l, b) \div t.cbh \in Int
        /\ (BandEnd(t, c, l, b) - 1) \div t.cbh \in Int
    <3>1. BandEnd(t, c, l, b) - 1 \in Int
      BY <2>1
    <3> QED
      BY <2>1, <3>1, DivMod
  <2> QED
    BY <2>2, FS_Interval, FS_EmptySet DEF BlockRows
<1>2. IsFiniteSet(N \X EncCols)
  BY <1>1, EncWorkersAssumption, FS_Product
<1>3. DOMAIN g = N \X EncCols
  OBVIOUS
<1>4. BandBlocks(t, c, l, b) = {g[p] : p \in N \X EncCols}
  <2>1. ASSUME NEW e \in BandBlocks(t, c, l, b) PROVE \E p \in N \X EncCols : e = g[p]
    <3>1. PICK n \in N, x \in EncCols : e = <<c, l, b, n, x>>
      BY DEF BandBlocks
    <3>2. <<n, x>> \in N \X EncCols /\ e = g[<<n, x>>]
      BY <3>1
    <3> QED
      BY <3>2
  <2>2. ASSUME NEW p \in N \X EncCols PROVE g[p] \in BandBlocks(t, c, l, b)
    <3>1. p[1] \in N /\ p[2] \in EncCols /\ g[p] = <<c, l, b, p[1], p[2]>>
      OBVIOUS
    <3> QED
      BY <3>1 DEF BandBlocks
  <2> HIDE DEF g
  <2> QED
    BY <2>1, <2>2
<1> HIDE DEF g, N
<1> QED
  BY <1>2, <1>3, <1>4, ImageFinite

\* A resolution has finitely many blocks.
LEMMA ResolutionFinite ==
  ASSUME NEW t, Sane(t), NEW c \in DOMAIN t.yrs, NEW l \in 0 .. t.NL
  PROVE  IsFiniteSet(Resolution(t, c, l))
<1> DEFINE g == [b \in BandsOf(l) |-> BandBlocks(t, c, l, b)]
           S == {g[b] : b \in BandsOf(l)}
<1>1. IsFiniteSet(BandsOf(l))
  <2>1. IsFiniteSet({"LL"})
    BY FS_Singleton
  <2>2. IsFiniteSet({"HL", "LH", "HH"})
    <3>1. {"HL", "LH", "HH"} = ({"HL"} \cup {"LH"}) \cup {"HH"}
      OBVIOUS
    <3>2. IsFiniteSet({"HL"})
      BY FS_Singleton
    <3>3. IsFiniteSet({"HL"} \cup {"LH"})
      BY <3>2, FS_AddElement
    <3>4. IsFiniteSet(({"HL"} \cup {"LH"}) \cup {"HH"})
      BY <3>3, FS_AddElement
    <3> QED
      BY <3>1, <3>4
  <2> QED
    BY <2>1, <2>2 DEF BandsOf
<1>2. IsFiniteSet(S)
  <2>1. DOMAIN g = BandsOf(l)
    OBVIOUS
  <2> HIDE DEF g
  <2> QED
    BY <1>1, <2>1, ImageFinite
<1>3. \A T \in S : IsFiniteSet(T)
  BY BandFinite
<1>4. Resolution(t, c, l) = UNION S
  <2>1. S = {BandBlocks(t, c, l, b) : b \in BandsOf(l)}
    OBVIOUS
  <2> HIDE DEF S
  <2> QED
    BY <2>1 DEF Resolution, BandBlocks
<1> HIDE DEF S
<1> QED
  BY <1>2, <1>3, <1>4, FS_UNION

\* A block of a tile is one of some resolution.
LEMMA BlocksAre ==
  ASSUME NEW t, NEW e
  PROVE  e \in Blocks(t)
           <=> \E c \in DOMAIN t.yrs : \E l \in 0 .. t.NL : e \in Resolution(t, c, l)
BY DEF Blocks

\* A tile has finitely many blocks.
LEMMA BlocksFinite ==
  ASSUME NEW t, Sane(t)
  PROVE  IsFiniteSet(Blocks(t))
<1> DEFINE I == (DOMAIN t.yrs) \X (0 .. t.NL)
           g == [p \in I |-> Resolution(t, p[1], p[2])]
           S == {g[p] : p \in I}
<1>1. IsFiniteSet(I)
  <2>1. DOMAIN t.yrs = 1 .. Len(t.yrs) /\ Len(t.yrs) \in Int /\ t.NL \in Int
    BY DEF Sane, TileOK
  <2>2. IsFiniteSet(1 .. Len(t.yrs)) /\ IsFiniteSet(0 .. t.NL)
    BY <2>1, FS_Interval
  <2> QED
    BY <2>1, <2>2, FS_Product
<1>2. IsFiniteSet(S)
  <2>1. DOMAIN g = I
    OBVIOUS
  <2> HIDE DEF g, I
  <2> QED
    BY <1>1, <2>1, ImageFinite
<1>3. \A T \in S : IsFiniteSet(T)
  BY ResolutionFinite
<1>4. Blocks(t) = UNION S
  <2>1. \A e : e \in Blocks(t)
                <=> \E c \in DOMAIN t.yrs : \E l \in 0 .. t.NL : e \in Resolution(t, c, l)
    BY BlocksAre
  <2>2. \A c \in DOMAIN t.yrs : \A l \in 0 .. t.NL :
          <<c, l>> \in I /\ g[<<c, l>>] = Resolution(t, c, l)
    OBVIOUS
  <2>3. \A p \in I : p[1] \in DOMAIN t.yrs /\ p[2] \in 0 .. t.NL
                    /\ g[p] = Resolution(t, p[1], p[2])
    OBVIOUS
  <2> HIDE DEF g, I
  <2>4. ASSUME NEW e \in Blocks(t) PROVE \E p \in I : e \in g[p]
    <3>1. PICK c \in DOMAIN t.yrs : \E l \in 0 .. t.NL : e \in Resolution(t, c, l)
      BY <2>1
    <3>2. PICK l \in 0 .. t.NL : e \in Resolution(t, c, l)
      BY <3>1
    <3> QED
      BY <2>2, <3>2
  <2>5. ASSUME NEW p \in I PROVE \A e \in g[p] : e \in Blocks(t)
    BY <2>1, <2>3
  <2>6. \A e : e \in UNION S <=> \E p \in I : e \in g[p]
    OBVIOUS
  <2> HIDE DEF S
  <2> QED
    BY <2>4, <2>5, <2>6
<1> HIDE DEF S
<1> QED
  BY <1>2, <1>3, <1>4, FS_UNION

\* A block's place in the tile.
LEMMA BlockPlace ==
  ASSUME NEW t, Sane(t), NEW b \in Blocks(t)
  PROVE  /\ b[1] \in DOMAIN t.yrs /\ b[2] \in 0 .. t.NL /\ b[3] \in BandsOf(b[2])
         /\ b[4] \in BlockRows(t, b[1], b[2], b[3])
         /\ b \in Resolution(t, b[1], b[2]) /\ b # NoBlock
<1>1. PICK c \in DOMAIN t.yrs, l \in 0 .. t.NL : b \in Resolution(t, c, l)
  BY BlocksAre
<1>2. PICK d \in BandsOf(l) : b \in BandBlocks(t, c, l, d)
  BY <1>1 DEF Resolution, BandBlocks
<1>3. PICK n \in BlockRows(t, c, l, d), x \in EncCols : b = <<c, l, d, n, x>>
  BY <1>2 DEF BandBlocks
<1>4. b # NoBlock
  BY <1>3 DEF NoBlock
<1> QED
  BY <1>1, <1>2, <1>3, <1>4

\* A resolution is the blocks that name it.
LEMMA ResolutionIs ==
  ASSUME NEW t, Sane(t), NEW c \in DOMAIN t.yrs, NEW l \in 0 .. t.NL
  PROVE  Resolution(t, c, l) = {b \in Blocks(t) : b[1] = c /\ b[2] = l}
<1>1. ASSUME NEW b \in Resolution(t, c, l) PROVE b \in Blocks(t) /\ b[1] = c /\ b[2] = l
  <2>1. b \in Blocks(t)
    <3>1. \E d \in DOMAIN t.yrs : \E k \in 0 .. t.NL : b \in Resolution(t, d, k)
      OBVIOUS
    <3> QED
      BY <3>1, BlocksAre
  <2>2. PICK d \in BandsOf(l) : b \in BandBlocks(t, c, l, d)
    BY DEF Resolution, BandBlocks
  <2>3. PICK n \in BlockRows(t, c, l, d), x \in EncCols : b = <<c, l, d, n, x>>
    BY <2>2 DEF BandBlocks
  <2> QED
    BY <2>1, <2>3
<1>2. \A b \in Blocks(t) : b \in Resolution(t, b[1], b[2])
  BY BlockPlace
<1> QED
  BY <1>1, <1>2

\* The blocks of a set in some order, each once.
LEMMA SetToSeqIs ==
  ASSUME NEW S, IsFiniteSet(S)
  PROVE  LET q == SetToSeq(S) IN
         /\ Len(q) = Cardinality(S) /\ DOMAIN q = 1 .. Len(q) /\ Len(q) \in Nat
         /\ q \in Seq(S)
         /\ \A i, j \in DOMAIN q : i # j => q[i] # q[j]
         /\ \A x \in S : \E i \in DOMAIN q : q[i] = x
<1> DEFINE q == SetToSeq(S)
           n == Cardinality(S)
<1>1. n \in Nat /\ ExistsBijection(1 .. n, S)
  BY FS_CardinalityType
<1>2. \E f \in [1 .. n -> S] : IsInjective(f)
  BY <1>1 DEF ExistsBijection, Bijection, Injection
<1>3. q \in [1 .. n -> S] /\ IsInjective(q)
  BY <1>2 DEF SetToSeq
<1> HIDE DEF q
<1>4. q \in Injection(1 .. n, S)
  BY <1>3 DEF Injection
<1>5. q \in Surjection(1 .. n, S)
  <2>1. Cardinality(1 .. n) = n
    BY <1>1, FS_Interval
  <2> QED
    BY <1>4, <2>1, FS_Injection
<1>6. q \in Seq(S) /\ Len(q) = n
  BY <1>1, <1>3
<1>7. DOMAIN q = 1 .. n
  BY <1>3
<1>8. \A i, j \in DOMAIN q : i # j => q[i] # q[j]
  BY <1>3 DEF IsInjective
<1>9. \A x \in S : \E i \in DOMAIN q : q[i] = x
  BY <1>5, <1>7 DEF Surjection
<1> QED
  BY <1>1, <1>6, <1>7, <1>8, <1>9 DEF q

-----------------------------------------------------------------------------
(* The flags of the code-block rows. *)

HalfTop(t, c, l, f)    == BandTop(t, c, l, HalfBand(f))
HalfHeight(t, c, l, f) == BandHeight(t, c, l, HalfBand(f))

\* num_cblk_rows.
BlockRange(t, c, l) ==
  0 .. CeilDiv(Max({HalfHeight(t, c, l, 1), HalfHeight(t, c, l, 2)}), t.cbh) - 1

\* Rows of a half from the first one to the end of block row br.
HalfEnd(t, c, l, f, br) == Min({(br + 1) * t.cbh, HalfHeight(t, c, l, f)})

\* A half has no block row br, or the last row of it came out before row n.
HalfDone(t, c, l, f, br, n) ==
  \/ br * t.cbh >= HalfHeight(t, c, l, f)
  \/ 2 * (HalfTop(t, c, l, f) + HalfEnd(t, c, l, f, br) - 1) + f - 1 < n

\* The flags of a level whose rows below n came out.
FlagsOf(t, c, l, n) ==
  [br \in BlockRange(t, c, l) |-> {f \in {1, 2} : HalfDone(t, c, l, f, br, n)}]

\* A quotient is known by the multiples next to the dividend.
LEMMA DivIs ==
  ASSUME NEW a \in Int, NEW d \in Nat \ {0}, NEW q \in Int, d * q <= a, a < d * q + d
  PROVE  a \div d = q
<1>1. a \div d \in Int /\ a % d \in 0 .. d - 1 /\ a = d * (a \div d) + (a % d)
  BY DivMod
<1> DEFINE e == a \div d
           m == a % d
<1> HIDE DEF e, m
<1>2. e \in Int /\ m \in 0 .. d - 1 /\ a = d * e + m
  BY <1>1 DEF e, m
<1>3. d * e \in Int /\ d * q \in Int
  BY <1>2
<1>4. d * e < d * q + d /\ d * q < d * e + d
  <2> DEFINE x == d * e
             y == d * q
  <2>1. x \in Int /\ y \in Int /\ a = x + m /\ y <= a /\ a < y + d
    BY <1>2, <1>3
  <2> HIDE DEF x, y
  <2>2. x < y + d /\ y < x + d
    BY <1>2, <2>1
  <2> QED
    BY <2>2 DEF x, y
<1>5. e <= q /\ q <= e
  BY <1>2, <1>4, Factors
<1> QED
  BY <1>2, <1>5 DEF e

\* Rows of a half are those of one parity in the level.
LEMMA HalfRows ==
  ASSUME NEW t, Sane(t), NEW c \in DOMAIN t.yrs, NEW l \in 1 .. t.NL, NEW f \in {1, 2}
  PROVE  /\ HalfTop(t, c, l, f) \in Nat /\ HalfHeight(t, c, l, f) \in Nat
         /\ \A y \in Int : HalfTop(t, c, l, f) <= y <=> EncRow(t, c, l, t.v0) <= 2 * y + f - 1
         /\ \A y \in Int : y < HalfTop(t, c, l, f) + HalfHeight(t, c, l, f)
                             <=> 2 * y + f - 1 < EncRow(t, c, l, t.v1)
<1> DEFINE b == HalfBand(f)
<1>1. b \in BandsOf(l) /\ f = IF b = "HL" THEN 1 ELSE 2
  BY DEF HalfBand, BandsOf, Sane, TileOK
<1>2. b \in BandsOf(l)
  BY <1>1
<1> HIDE DEF b
<1>3. /\ BandTop(t, c, l, b) \in Nat /\ BandEnd(t, c, l, b) \in Nat
      /\ BandTop(t, c, l, b) <= BandEnd(t, c, l, b)
      /\ BandHeight(t, c, l, b) = BandEnd(t, c, l, b) - BandTop(t, c, l, b)
      /\ \A y \in Int : (BandTop(t, c, l, b) <= y <=> EncRow(t, c, l, t.v0) <= 2 * y + f - 1)
      /\ \A y \in Int : (y < BandEnd(t, c, l, b) <=> 2 * y + f - 1 < EncRow(t, c, l, t.v1))
  BY <1>1, BandRows
<1>4. HalfTop(t, c, l, f) = BandTop(t, c, l, b) /\ HalfHeight(t, c, l, f) = BandHeight(t, c, l, b)
  BY DEF HalfTop, HalfHeight, b
<1>5. /\ HalfHeight(t, c, l, f) \in Nat
      /\ BandEnd(t, c, l, b) = HalfTop(t, c, l, f) + HalfHeight(t, c, l, f)
  BY <1>3, <1>4
<1> QED
  BY <1>3, <1>4, <1>5

\* Block rows that some half has are those with a flag.
LEMMA BlockRangeIs ==
  ASSUME NEW t, Sane(t), NEW c \in DOMAIN t.yrs, NEW l \in 1 .. t.NL, NEW br \in Nat
  PROVE  br \in BlockRange(t, c, l) <=> \E f \in {1, 2} : br * t.cbh < HalfHeight(t, c, l, f)
<1> DEFINE h == HalfHeight(t, c, l, 1)
           k == HalfHeight(t, c, l, 2)
           m == Max({h, k})
           d == t.cbh
           q == CeilDiv(m, d)
<1>1. h \in Nat /\ k \in Nat /\ d \in Nat \ {0}
  BY HalfRows DEF Sane, TileOK
<1>2. m = IF h <= k THEN k ELSE h
  <2> HIDE DEF h, k
  <2>1. h \in Int /\ k \in Int
    BY <1>1
  <2>2. Max({h, k}) = IF h <= k THEN k ELSE h
    BY <2>1, TwoNumbers
  <2> QED
    BY <2>2
<1>3. q \in Int /\ m <= d * q /\ d * q < m + d
  BY <1>1, <1>2, CeilDivIs
<1>4. br < q <=> br * d < m
  <2> HIDE DEF h, k, m, d, q
  <2>1. m \in Nat /\ br * d = d * br /\ d * br \in Int /\ d * q \in Int
    BY <1>1, <1>2, <1>3
  <2>2. ASSUME br * d < m PROVE br < q
    <3>1. ~ (q <= br)
      <4> SUFFICES ASSUME q <= br PROVE FALSE
        OBVIOUS
      <4>1. d * q <= d * br
        BY <1>1, <1>3, Factors
      <4> QED
        BY <1>3, <2>1, <2>2, <4>1
    <3> QED
      BY <1>3, <3>1
  <2>3. ASSUME br < q PROVE br * d < m
    <3>1. d * (br + 1) <= d * q
      BY <1>1, <1>3, <2>3, Factors
    <3>2. d * (br + 1) = d * br + d
      BY <1>1
    <3> QED
      BY <1>1, <1>3, <2>1, <3>1, <3>2
  <2> QED
    BY <2>2, <2>3
<1>5. br \in BlockRange(t, c, l) <=> br < q
  <2>1. BlockRange(t, c, l) = 0 .. q - 1
    BY DEF BlockRange
  <2> HIDE DEF q
  <2> QED
    BY <1>3, <2>1
<1>6. br * d < m <=> br * d < h \/ br * d < k
  <2> HIDE DEF h, k, m, d
  <2>1. br * d \in Int
    BY <1>1
  <2> QED
    BY <1>1, <1>2, <2>1
<1> QED
  BY <1>4, <1>5, <1>6

\* The end of a block row, in numbers.
LEMMA HalfEndIs ==
  ASSUME NEW t, Sane(t), NEW c \in DOMAIN t.yrs, NEW l \in 1 .. t.NL, NEW f \in {1, 2},
         NEW br \in Nat
  PROVE  LET h == HalfHeight(t, c, l, f) e == HalfEnd(t, c, l, f, br) IN
         /\ br * t.cbh \in Nat /\ e \in Nat /\ h \in Nat
         /\ e = IF br * t.cbh + t.cbh <= h THEN br * t.cbh + t.cbh ELSE h
<1> DEFINE h == HalfHeight(t, c, l, f)
<1>1. h \in Nat /\ t.cbh \in Nat \ {0}
  BY HalfRows DEF Sane, TileOK
<1> HIDE DEF h
<1>2. br * t.cbh \in Nat /\ (br + 1) * t.cbh = br * t.cbh + t.cbh
  BY <1>1
<1>3. HalfEnd(t, c, l, f, br) = Min({br * t.cbh + t.cbh, h})
  BY <1>2 DEF HalfEnd, h
<1> DEFINE p == br * t.cbh
<1> HIDE DEF p
<1>4. Min({p + t.cbh, h}) = IF p + t.cbh <= h THEN p + t.cbh ELSE h
  <2>1. p + t.cbh \in Int
    BY <1>1, <1>2 DEF p
  <2> QED
    BY <1>1, <2>1, TwoNumbers
<1> QED
  BY <1>1, <1>2, <1>3, <1>4 DEF h, p

\* Before the first row, the flags are those of the halves without the row.
LEMMA FlagsFresh ==
  ASSUME NEW t, Sane(t), NEW c \in DOMAIN t.yrs, NEW l \in 1 .. t.NL
  PROVE  FreshRowDone(t, c, l) = FlagsOf(t, c, l, EncRow(t, c, l, t.v0))
<1> DEFINE v == EncRow(t, c, l, t.v0)
<1>1. ASSUME NEW br \in BlockRange(t, c, l), NEW f \in {1, 2}
      PROVE  HalfDone(t, c, l, f, br, v) <=> br * t.cbh >= HalfHeight(t, c, l, f)
  <2> DEFINE h == HalfHeight(t, c, l, f)
             e == HalfEnd(t, c, l, f, br)
             top == HalfTop(t, c, l, f)
             p == br * t.cbh
  <2>1. br \in Nat
    BY DEF BlockRange
  <2>2. /\ p \in Nat /\ e \in Nat /\ h \in Nat /\ t.cbh \in Nat \ {0}
        /\ e = IF p + t.cbh <= h THEN p + t.cbh ELSE h
    BY <2>1, HalfEndIs DEF Sane, TileOK
  <2>3. top \in Nat /\ \A y \in Int : top <= y <=> v <= 2 * y + f - 1
    BY HalfRows
  <2>4. v \in Int
    <3>1. l \in 0 .. t.NL
      BY DEF Sane, TileOK
    <3> QED
      BY <3>1, RowType
  <2>5. HalfDone(t, c, l, f, br, v) <=> (p >= h \/ 2 * (top + e - 1) + f - 1 < v)
    BY DEF HalfDone
  <2> HIDE DEF h, e, top, v, p
  <2>6. ASSUME p < h PROVE ~ (2 * (top + e - 1) + f - 1 < v)
    <3>1. top + e - 1 \in Int /\ top <= top + e - 1
      BY <2>2, <2>3, <2>6
    <3>2. v <= 2 * (top + e - 1) + f - 1
      BY <2>3, <3>1
    <3> QED
      BY <2>2, <2>3, <2>4, <3>2
  <2>7. HalfDone(t, c, l, f, br, v) <=> p >= h
    BY <2>2, <2>5, <2>6
  <2> QED
    BY <2>7 DEF h, p, v
<1>2. /\ BandHeight(t, c, l, "HL") = HalfHeight(t, c, l, 1)
      /\ BandHeight(t, c, l, "LH") = HalfHeight(t, c, l, 2)
  BY DEF HalfHeight, HalfBand
<1>3. FreshRowDone(t, c, l)
        = [br \in BlockRange(t, c, l) |->
             {f \in {1, 2} : br * t.cbh >= HalfHeight(t, c, l, f)}]
  BY <1>2 DEF FreshRowDone, BlockRange
<1> HIDE DEF v
<1> QED
  BY <1>1, <1>3 DEF FlagsOf, v

\* One more row comes out: it completes the block row of its half that it is the
\* last one of, and no other.
LEMMA FlagsNext ==
  ASSUME NEW t, Sane(t), NEW c \in DOMAIN t.yrs, NEW l \in 1 .. t.NL,
         NEW r \in Int, EncRow(t, c, l, t.v0) <= r, r < EncRow(t, c, l, t.v1),
         NEW f, f = IF r % 2 = 0 THEN 1 ELSE 2,
         NEW sub, sub = (r \div 2) - HalfTop(t, c, l, f),
         NEW last, last = HalfEnd(t, c, l, f, sub \div t.cbh) - 1
  PROVE  /\ sub \div t.cbh \in BlockRange(t, c, l)
         /\ \A br \in BlockRange(t, c, l), g \in {1, 2} :
              HalfDone(t, c, l, g, br, r + 1)
                <=> (HalfDone(t, c, l, g, br, r) \/ (br = sub \div t.cbh /\ g = f /\ sub = last))
         /\ sub = last => ~ HalfDone(t, c, l, f, sub \div t.cbh, r)
<1> DEFINE d == t.cbh
           now == sub \div d
           top == HalfTop(t, c, l, f)
           h == HalfHeight(t, c, l, f)
<1>1. f \in {1, 2} /\ r = 2 * (r \div 2) + f - 1 /\ r \div 2 \in Int /\ d \in Nat \ {0}
  BY DEF Sane, TileOK
<1>2. top \in Nat /\ h \in Nat
      /\ (\A y \in Int : top <= y <=> EncRow(t, c, l, t.v0) <= 2 * y + f - 1)
      /\ (\A y \in Int : y < top + h <=> 2 * y + f - 1 < EncRow(t, c, l, t.v1))
  BY <1>1, HalfRows
<1>3. top <= r \div 2 /\ r \div 2 < top + h
  BY <1>1, <1>2
<1>4. sub \in Nat /\ sub < h /\ r \div 2 = top + sub
  BY <1>1, <1>2, <1>3
<1>5. now \in Nat /\ d * now <= sub /\ sub < d * now + d
  <2> DEFINE m == sub % d
  <2>1. now \in Int /\ m \in 0 .. d - 1 /\ sub = d * now + m
    BY <1>1, <1>4, DivMod
  <2> HIDE DEF m, now
  <2>2. d * now \in Int
    BY <1>1, <2>1
  <2> DEFINE p == d * now
  <2>3. p \in Int /\ sub = p + m
    BY <2>1, <2>2
  <2>4. p <= sub /\ sub < p + d
    <3> HIDE DEF p
    <3> QED
      BY <1>1, <1>4, <2>1, <2>3
  <2>5. d * 0 < d * now + d
    BY <1>1, <1>4, <2>2, <2>4
  <2>6. 0 <= now
    BY <1>1, <2>1, <2>5, Factors
  <2> QED
    BY <2>1, <2>4, <2>6
<1>6. now * d = d * now /\ d * now \in Int
  BY <1>1, <1>5
<1> HIDE DEF d, now, top, h
<1>7. now * d < h
  <2> DEFINE p == d * now
  <2>1. p \in Int /\ p <= sub
    BY <1>5, <1>6
  <2> HIDE DEF p
  <2>2. p < h
    BY <1>2, <1>4, <2>1
  <2> QED
    BY <1>6, <2>2 DEF p
<1>8. now \in BlockRange(t, c, l)
  <2>1. now * t.cbh < HalfHeight(t, c, l, f)
    BY <1>7 DEF d, h
  <2>2. \E g \in {1, 2} : now * t.cbh < HalfHeight(t, c, l, g)
    BY <1>1, <2>1
  <2> HIDE DEF now
  <2>3. now \in Nat
    BY <1>5
  <2> QED
    BY <2>2, <2>3, BlockRangeIs
<1>9. ASSUME NEW br \in BlockRange(t, c, l), NEW g \in {1, 2}
      PROVE  HalfDone(t, c, l, g, br, r + 1)
               <=> (HalfDone(t, c, l, g, br, r) \/ (br = now /\ g = f /\ sub = last))
  <2> DEFINE k == HalfHeight(t, c, l, g)
             e == HalfEnd(t, c, l, g, br)
             a == HalfTop(t, c, l, g)
             p == br * d
  <2>1. br \in Nat
    BY DEF BlockRange
  <2>2. p \in Nat /\ e \in Nat /\ k \in Nat /\ e = IF p + d <= k THEN p + d ELSE k
    BY <2>1, HalfEndIs DEF d
  <2>3. a \in Nat
    BY HalfRows
  <2>4. \A n : HalfDone(t, c, l, g, br, n) <=> (p >= k \/ 2 * (a + e - 1) + g - 1 < n)
    BY DEF HalfDone, d
  <2>5. g = f => a = top /\ k = h
    BY DEF top, h
  <2>6. br = now => p = d * now
    BY <1>6
  <2>7. br = now /\ g = f => last = e - 1
    BY DEF now, d
  <2>8. p = d * br
    BY <1>1, <2>1
  <2> HIDE DEF k, e, a, p
  <2>9. HalfDone(t, c, l, g, br, r + 1)
          <=> (HalfDone(t, c, l, g, br, r) \/ (p < k /\ 2 * (a + e - 1) + g - 1 = r))
    BY <2>2, <2>3, <2>4
  <2>10. ASSUME br = now, g = f, sub = last PROVE p < k /\ 2 * (a + e - 1) + g - 1 = r
    <3>1. p <= sub /\ sub < k
      BY <1>4, <1>5, <2>5, <2>6, <2>10
    <3>2. a + e - 1 = r \div 2
      BY <1>4, <2>2, <2>3, <2>5, <2>7, <2>10
    <3> QED
      BY <1>1, <1>4, <2>2, <2>10, <3>1, <3>2
  <2>11. ASSUME p < k, 2 * (a + e - 1) + g - 1 = r PROVE br = now /\ g = f /\ sub = last
    <3>1. g = f /\ a + e - 1 = r \div 2
      BY <1>1, <2>2, <2>3, <2>11
    <3>2. sub = e - 1 /\ p <= sub /\ sub < p + d
      BY <1>1, <1>4, <2>2, <2>3, <2>5, <2>11, <3>1
    <3>3. br = now
      <4>1. d * br <= sub /\ sub < d * br + d
        BY <2>8, <3>2
      <4>2. sub \div d = br
        BY <1>1, <1>4, <2>1, <4>1, DivIs
      <4> QED
        BY <4>2 DEF now
    <3> QED
      BY <2>7, <3>1, <3>2, <3>3
  <2> QED
    BY <2>9, <2>10, <2>11
<1>10. ASSUME sub = last PROVE ~ HalfDone(t, c, l, f, now, r)
  <2> DEFINE e == HalfEnd(t, c, l, f, now)
  <2>1. /\ HalfDone(t, c, l, f, now, r) <=> (now * d >= h \/ 2 * (top + e - 1) + f - 1 < r)
    BY DEF HalfDone, d, h, top
  <2>2. last = e - 1 /\ e \in Nat
    <3>1. e \in Nat
      BY <1>1, <1>5, HalfEndIs
    <3> QED
      BY <3>1 DEF now, d
  <2> HIDE DEF e
  <2>3. 2 * (top + e - 1) + f - 1 = r
    BY <1>1, <1>2, <1>4, <1>10, <2>2
  <2>4. now * d \in Int
    BY <1>6
  <2> QED
    BY <1>1, <1>2, <1>4, <1>7, <2>1, <2>2, <2>3, <2>4
<1> QED
  BY <1>8, <1>9, <1>10 DEF now, d

\* In flags, row by row.
LEMMA FlagsGrow ==
  ASSUME NEW t, Sane(t), NEW c \in DOMAIN t.yrs, NEW l \in 1 .. t.NL,
         NEW r \in Int, EncRow(t, c, l, t.v0) <= r, r < EncRow(t, c, l, t.v1),
         NEW f, f = IF r % 2 = 0 THEN 1 ELSE 2,
         NEW sub, sub = (r \div 2) - HalfTop(t, c, l, f),
         NEW br, br = sub \div t.cbh,
         NEW done, done = FlagsOf(t, c, l, r)
  PROVE  /\ br \in DOMAIN done /\ f \in {1, 2}
         /\ FlagsOf(t, c, l, r + 1) =
              IF sub = HalfEnd(t, c, l, f, br) - 1
              THEN [done EXCEPT ![br] = @ \cup {f}] ELSE done
         /\ sub = HalfEnd(t, c, l, f, br) - 1 => f \notin done[br]
<1> DEFINE last == HalfEnd(t, c, l, f, br) - 1
           R == BlockRange(t, c, l)
           new == FlagsOf(t, c, l, r + 1)
<1>1. /\ br \in R
      /\ \A k \in R, g \in {1, 2} :
           HalfDone(t, c, l, g, k, r + 1)
             <=> (HalfDone(t, c, l, g, k, r) \/ (k = br /\ g = f /\ sub = last))
      /\ sub = last => ~ HalfDone(t, c, l, f, br, r)
  BY FlagsNext
<1>2. f \in {1, 2}
  OBVIOUS
<1>3. /\ done = [k \in R |-> done[k]] /\ new = [k \in R |-> new[k]]
      /\ \A k \in R : done[k] = {g \in {1, 2} : HalfDone(t, c, l, g, k, r)}
      /\ \A k \in R : new[k] = {g \in {1, 2} : HalfDone(t, c, l, g, k, r + 1)}
  BY DEF FlagsOf
<1> HIDE DEF last, R, new
<1>4. \A k \in R : new[k] = IF k = br /\ sub = last THEN done[k] \cup {f} ELSE done[k]
  <2>1. ASSUME NEW k \in R, NEW g
        PROVE  g \in new[k] <=> g \in done[k] \/ (k = br /\ sub = last /\ g = f)
    BY <1>1, <1>2, <1>3
  <2> QED
    BY <2>1
<1>5. CASE sub = last
  <2>1. new = [done EXCEPT ![br] = @ \cup {f}]
    BY <1>1, <1>3, <1>4, <1>5
  <2>2. f \notin done[br]
    BY <1>1, <1>3, <1>5
  <2> QED
    BY <1>1, <1>2, <1>3, <1>5, <2>1, <2>2 DEF last, new
<1>6. CASE sub # last
  <2>1. new = done
    BY <1>1, <1>3, <1>4, <1>6
  <2> QED
    BY <1>1, <1>2, <1>3, <1>6, <2>1 DEF last, new
<1> QED
  BY <1>5, <1>6

-----------------------------------------------------------------------------
(* Rows and flags. *)

TileInv == job \in Jobs /\ tile \in 1 .. Len(job) /\ encPool \in BOOLEAN

\* The state of a level, and the rows of it that were put.
LevelOK(t, c, l, s, put) ==
  /\ DOMAIN s = FdwtFields
  /\ s.v0 = EncRow(t, c, l, t.v0) /\ s.v1 = EncRow(t, c, l, t.v1)
  /\ s.nextOut \in Int /\ s.v0 <= s.nextOut /\ s.nextOut <= s.v1
  /\ put \in Seq(BOOLEAN) /\ Len(put) = s.nextOut - s.v0

\* Each level has put its rows up to nextOut, and the flags tell which block rows
\* these complete.
LinesInv ==
  /\ TileInv
  /\ Table(fdwt, Lanes, Levels) /\ Table(written, Lanes, Levels) /\ Table(rowDone, Lanes, Levels)
  /\ \A c \in Lanes : \A l \in Levels :
       /\ LevelOK(Tile, c, l, fdwt[c][l], written[c][l])
       /\ Overlap(Tile, c) => rowDone[c][l] = FlagsOf(Tile, c, l, fdwt[c][l].nextOut)

\* What the assumptions on jobs say of the current tile.
LEMMA TileFacts ==
  ASSUME TileInv
  PROVE  /\ Sane(Tile) /\ Lanes = DOMAIN Tile.yrs /\ Levels \subseteq 0 .. Tile.NL
         /\ Tile.NL \in Nat
<1>1. tile \in DOMAIN job
  <2>1. job \in Seq(Range(job))
    BY JobsAssumption DEF TileInv
  <2> QED
    BY <2>1 DEF TileInv
<1>2. TileOK(Tile)
  BY <1>1, JobsAssumption DEF TileInv, Tile
<1>3. Sane(Tile)
  BY <1>1, <1>2, PowersAssumption DEF TileInv, Tile, Sane
<1>4. Lanes = DOMAIN Tile.yrs /\ Levels \subseteq 0 .. Tile.NL /\ Tile.NL \in Nat
  BY <1>2 DEF TileOK, Lanes, Levels
<1> QED
  BY <1>3, <1>4

\* A level without any row out.
LEMMA LevelFresh ==
  ASSUME NEW t, Sane(t), NEW c \in DOMAIN t.yrs, NEW l \in 1 .. t.NL,
         NEW s, s = FdwtInit(EncRow(t, c, l, t.v0), EncRow(t, c, l, t.v1), t.xf)
  PROVE  /\ LevelOK(t, c, l, s, <<>>)
         /\ FreshRowDone(t, c, l) = FlagsOf(t, c, l, s.nextOut)
<1>1. /\ DOMAIN s = FdwtFields /\ s.v0 = EncRow(t, c, l, t.v0) /\ s.v1 = EncRow(t, c, l, t.v1)
      /\ s.nextOut = EncRow(t, c, l, t.v0)
  BY FreshLevel
<1>2. l \in 0 .. t.NL
  BY DEF Sane, TileOK
<1>3. /\ EncRow(t, c, l, t.v0) \in Nat /\ EncRow(t, c, l, t.v1) \in Nat
      /\ EncRow(t, c, l, t.v0) <= EncRow(t, c, l, t.v1)
  BY <1>2, RowType
<1>4. <<>> \in Seq(BOOLEAN) /\ Len(<<>>) = 0
  OBVIOUS
<1> QED
  BY <1>1, <1>3, <1>4, FlagsFresh DEF LevelOK

\* A tile begins.
LEMMA LinesFresh ==
  ASSUME TileInv, fdwt = FreshFdwt(Tile), written = NothingWritten(Tile),
         rowDone = FreshRowsDone(Tile)
  PROVE  LinesInv
<1> DEFINE t == Tile
<1>1. Sane(t) /\ Lanes = DOMAIN t.yrs /\ Levels = 1 .. t.NL
  BY TileFacts DEF Levels
<1>2. /\ Table(fdwt, Lanes, Levels) /\ Table(written, Lanes, Levels)
      /\ Table(rowDone, Lanes, Levels)
  BY <1>1 DEF Table, FreshFdwt, NothingWritten, FreshRowsDone
<1>3. ASSUME NEW c \in Lanes, NEW l \in Levels
      PROVE  /\ LevelOK(t, c, l, fdwt[c][l], written[c][l])
             /\ rowDone[c][l] = FlagsOf(t, c, l, fdwt[c][l].nextOut)
  <2>1. /\ fdwt[c][l] = FdwtInit(EncRow(t, c, l, t.v0), EncRow(t, c, l, t.v1), t.xf)
        /\ written[c][l] = <<>> /\ rowDone[c][l] = FreshRowDone(t, c, l)
    BY <1>1 DEF FreshFdwt, NothingWritten, FreshRowsDone
  <2> HIDE DEF t
  <2> QED
    BY <1>1, <2>1, LevelFresh
<1> QED
  BY <1>2, <1>3 DEF LinesInv

\* The tile stays: what is said of it does.
LEMMA TileSame ==
  ASSUME TileInv, UNCHANGED <<job, tile, encPool>>
  PROVE  TileInv' /\ Tile' = Tile /\ Lanes' = Lanes /\ Levels' = Levels
BY DEF TileInv, Tile, Lanes, Levels

\* Steps that touch neither rows nor flags.
LEMMA LinesSame ==
  ASSUME LinesInv, UNCHANGED <<job, tile, encPool, laneVars>>
  PROVE  LinesInv'
<1>1. TileInv
  BY DEF LinesInv
<1>2. TileInv' /\ Tile' = Tile /\ Lanes' = Lanes /\ Levels' = Levels
  BY <1>1, TileSame
<1> HIDE DEF Tile, Lanes, Levels
<1> QED
  BY <1>2 DEF LinesInv, laneVars

\* The transform takes a row in, or is flushed.
LEMMA LinesMoved ==
  ASSUME LinesInv, UNCHANGED <<job, tile, encPool, written, rowDone>>,
         NEW c \in Lanes, NEW l \in Levels, NEW s, SameLevel(fdwt[c][l], s),
         fdwt' = [fdwt EXCEPT ![c][l] = s]
  PROVE  LinesInv'
<1>1. TileInv
  BY DEF LinesInv
<1>2. TileInv' /\ Tile' = Tile /\ Lanes' = Lanes /\ Levels' = Levels
  BY <1>1, TileSame
<1> HIDE DEF Tile, Lanes, Levels
<1>3. /\ Table(fdwt', Lanes, Levels) /\ fdwt'[c][l] = s
      /\ \A d \in Lanes : \A k \in Levels : d # c \/ k # l => fdwt'[d][k] = fdwt[d][k]
  <2>1. Table(fdwt, Lanes, Levels)
    BY DEF LinesInv
  <2>2. Updated(fdwt, fdwt', c, l, s, Lanes, Levels)
    BY <2>1, TableUpdate
  <2> QED
    BY <2>2 DEF Updated
<1>4. ASSUME NEW d \in Lanes, NEW k \in Levels
      PROVE  /\ LevelOK(Tile, d, k, fdwt'[d][k], written[d][k])
             /\ Overlap(Tile, d) => rowDone[d][k] = FlagsOf(Tile, d, k, fdwt'[d][k].nextOut)
  <2>1. /\ LevelOK(Tile, d, k, fdwt[d][k], written[d][k])
        /\ Overlap(Tile, d) => rowDone[d][k] = FlagsOf(Tile, d, k, fdwt[d][k].nextOut)
    BY DEF LinesInv
  <2>2. CASE d = c /\ k = l
    BY <1>3, <2>1, <2>2 DEF LevelOK, SameLevel
  <2>3. CASE d # c \/ k # l
    BY <1>3, <2>1, <2>3
  <2> QED
    BY <2>2, <2>3
<1>5. Table(written', Lanes, Levels) /\ Table(rowDone', Lanes, Levels)
  BY DEF LinesInv
<1>6. \A d \in Lanes' : \A k \in Levels' :
        /\ LevelOK(Tile', d, k, fdwt'[d][k], written'[d][k])
        /\ Overlap(Tile', d) => rowDone'[d][k] = FlagsOf(Tile', d, k, fdwt'[d][k].nextOut)
  BY <1>2, <1>4
<1>7. Table(fdwt', Lanes', Levels') /\ Table(written', Lanes', Levels')
      /\ Table(rowDone', Lanes', Levels')
  BY <1>2, <1>3, <1>5
<1> QED
  BY <1>2, <1>6, <1>7 DEF LinesInv

\* The half and the block row that the next row of a level belongs to.
NextHalf(c, l) == IF fdwt[c][l].nextOut % 2 = 0 THEN 1 ELSE 2
NextSub(c, l)  == (fdwt[c][l].nextOut \div 2) - HalfTop(Tile, c, l, NextHalf(c, l))
NextBlockRow(c, l) == NextSub(c, l) \div Tile.cbh

\* The row completes its half of a block row.
Completing(c, l) ==
  Overlap(Tile, c) /\ NextSub(c, l) = HalfEnd(Tile, c, l, NextHalf(c, l), NextBlockRow(c, l)) - 1

\* What is submitted with the row.
Released(c, l) ==
  IF rowDone[c][l][NextBlockRow(c, l)] \cup {NextHalf(c, l)} = {1, 2}
  THEN RowBlocks(c, l, NextBlockRow(c, l)) ELSE {}

\* The parts of an emission.
LEMMA EmitParts ==
  ASSUME TileInv, NEW c \in Lanes, NEW l \in Levels, Emit(c, l)
  PROVE  /\ CanEmit(fdwt[c][l])
         /\ \E low : fdwt' =
              IF NextHalf(c, l) = 1 /\ l > 1
              THEN [[fdwt EXCEPT ![c][l] = Emitted(fdwt[c][l])]
                      EXCEPT ![c][l - 1] = Pushed(@, low)]
              ELSE [fdwt EXCEPT ![c][l] = Emitted(fdwt[c][l])]
         /\ \E good \in BOOLEAN : written' = [written EXCEPT ![c][l] = Append(@, good)]
         /\ IF Completing(c, l)
            THEN /\ rowDone' = [rowDone EXCEPT ![c][l][NextBlockRow(c, l)] = @ \cup {NextHalf(c, l)}]
                 /\ Submit(Released(c, l))
            ELSE UNCHANGED <<rowDone, queue, running, left, slot, slotCnt, coded>>
         /\ UNCHANGED <<jobVars, pushes, gen>>
<1> DEFINE s    == fdwt[c][l]
           r    == s.nextOut
           val  == Emittee(s)
           good == val = Row(c, r, MaxLevel(s.xf))
           f    == IF r % 2 = 0 THEN 1 ELSE 2
           sub  == (r \div 2) - BandTop(Tile, c, l, IF f = 1 THEN "HL" ELSE "LH")
           br   == sub \div Tile.cbh
           low  == IF val = Junk THEN Junk ELSE Row(c, val[2] \div 2, 0)
           own  == [fdwt EXCEPT ![c][l] = Emitted(s)]
<1>1. /\ Emitting(c) # {} /\ l = Min(Emitting(c))
      /\ fdwt' = IF f = 1 /\ l > 1 THEN [own EXCEPT ![c][l - 1] = Pushed(@, low)] ELSE own
      /\ written' = [written EXCEPT ![c][l] = Append(@, good)]
      /\ IF Overlap(Tile, c) /\ Completes(c, l, f, sub)
         THEN /\ rowDone' = [rowDone EXCEPT ![c][l][br] = @ \cup {f}]
              /\ Submit(IF rowDone[c][l][br] \cup {f} = {1, 2}
                        THEN RowBlocks(c, l, br) ELSE {})
         ELSE UNCHANGED <<rowDone, queue, running, left, slot, slotCnt, coded>>
      /\ UNCHANGED <<jobVars, pushes, gen>>
  BY DEF Emit
<1>2. f = NextHalf(c, l) /\ sub = NextSub(c, l) /\ br = NextBlockRow(c, l)
  BY DEF NextHalf, NextSub, NextBlockRow, HalfTop, HalfBand
<1>3. Completes(c, l, f, sub) <=> sub = HalfEnd(Tile, c, l, f, br) - 1
  BY DEF Completes, HalfEnd, HalfHeight, HalfBand
<1>4. good \in BOOLEAN
  OBVIOUS
<1> HIDE DEF s, r, val, good, f, sub, br, low
<1>5. Overlap(Tile, c) /\ Completes(c, l, f, sub) <=> Completing(c, l)
  BY <1>2, <1>3 DEF Completing
<1>6. (IF rowDone[c][l][br] \cup {f} = {1, 2} THEN RowBlocks(c, l, br) ELSE {})
        = Released(c, l)
  BY <1>2 DEF Released
<1>7. fdwt' = IF NextHalf(c, l) = 1 /\ l > 1
              THEN [[fdwt EXCEPT ![c][l] = Emitted(fdwt[c][l])]
                      EXCEPT ![c][l - 1] = Pushed(@, low)]
              ELSE [fdwt EXCEPT ![c][l] = Emitted(fdwt[c][l])]
  BY <1>1, <1>2 DEF s
<1>8. IF Completing(c, l)
      THEN /\ rowDone' = [rowDone EXCEPT ![c][l][NextBlockRow(c, l)] = @ \cup {NextHalf(c, l)}]
           /\ Submit(Released(c, l))
      ELSE UNCHANGED <<rowDone, queue, running, left, slot, slotCnt, coded>>
  BY <1>1, <1>2, <1>5, <1>6
<1>9. CanEmit(fdwt[c][l])
  <2>1. Emitting(c) \in SUBSET Nat
    BY TileFacts DEF Emitting
  <2>2. l \in Emitting(c)
    BY <1>1, <2>1, MinIs
  <2> QED
    BY <2>2 DEF Emitting
<1> QED
  BY <1>1, <1>4, <1>7, <1>8, <1>9

\* A row that may leave is a row of the level.
LEMMA NextRowIs ==
  ASSUME LinesInv, NEW c \in Lanes, NEW l \in Levels, CanEmit(fdwt[c][l])
  PROVE  LET r == fdwt[c][l].nextOut IN
         r \in Int /\ EncRow(Tile, c, l, Tile.v0) <= r /\ r < EncRow(Tile, c, l, Tile.v1)
<1> DEFINE s == fdwt[c][l]
<1>1. LevelOK(Tile, c, l, s, written[c][l]) /\ TileInv
  BY DEF LinesInv
<1>2. l \in 0 .. Tile.NL /\ c \in DOMAIN Tile.yrs /\ Sane(Tile)
  BY <1>1, TileFacts
<1>3. EncRow(Tile, c, l, Tile.v0) \in Nat /\ EncRow(Tile, c, l, Tile.v1) \in Nat
  BY <1>2, RowType
<1> HIDE DEF s
<1>4. s.v0 \in Int /\ s.v1 \in Int /\ s.nextOut \in Int
  BY <1>1, <1>3 DEF LevelOK
<1>5. CanEmit(s)
  BY DEF s
<1>6. s.nextOut < s.v1
  BY <1>4, <1>5, CanEmitRow
<1> QED
  BY <1>1, <1>4, <1>6 DEF LevelOK, s

\* Emission moves one level on by one row.
LEMMA EmitRows ==
  ASSUME LinesInv, NEW c \in Lanes, NEW l \in Levels, Emit(c, l)
  PROVE  /\ Table(fdwt', Lanes, Levels)
         /\ \A d \in Lanes : \A k \in Levels :
              /\ DOMAIN fdwt'[d][k] = FdwtFields
              /\ fdwt'[d][k].v0 = fdwt[d][k].v0 /\ fdwt'[d][k].v1 = fdwt[d][k].v1
              /\ fdwt'[d][k].nextOut
                   = IF d = c /\ k = l THEN fdwt[d][k].nextOut + 1 ELSE fdwt[d][k].nextOut
<1> DEFINE s == fdwt[c][l]
           own == [fdwt EXCEPT ![c][l] = Emitted(s)]
<1>1. PICK low :
        fdwt' = IF NextHalf(c, l) = 1 /\ l > 1
                THEN [own EXCEPT ![c][l - 1] = Pushed(@, low)] ELSE own
  BY EmitParts DEF LinesInv
<1>2. /\ Table(fdwt, Lanes, Levels)
      /\ \A d \in Lanes : \A k \in Levels : DOMAIN fdwt[d][k] = FdwtFields
  BY DEF LinesInv, LevelOK
<1>3. Levels \subseteq Nat /\ \A k \in Levels : k > 1 => k - 1 \in Levels /\ k - 1 # k
  <2>1. TileInv
    BY DEF LinesInv
  <2> QED
    BY <2>1, TileFacts DEF Levels
<1> DEFINE A == Lanes
           B == Levels
           F == fdwt
<1>4. Updated(F, own, c, l, Emitted(s), A, B)
  <2>1. Table(F, A, B) /\ c \in A /\ l \in B /\ own = [F EXCEPT ![c][l] = Emitted(s)]
    BY <1>2
  <2> HIDE DEF own, s, A, B, F
  <2> QED
    BY <2>1, TableUpdate
<1>5. /\ DOMAIN Emitted(s) = FdwtFields
      /\ Emitted(s).v0 = s.v0 /\ Emitted(s).v1 = s.v1 /\ Emitted(s).nextOut = s.nextOut + 1
  BY <1>2, EmittedNext
<1> HIDE DEF own
<1>6. /\ Table(own, A, B)
      /\ \A d \in A : \A k \in B :
           /\ DOMAIN own[d][k] = FdwtFields
           /\ own[d][k].v0 = F[d][k].v0 /\ own[d][k].v1 = F[d][k].v1
           /\ own[d][k].nextOut
                = IF d = c /\ k = l THEN F[d][k].nextOut + 1 ELSE F[d][k].nextOut
  BY <1>2, <1>4, <1>5 DEF Updated
<1>7. CASE ~ (NextHalf(c, l) = 1 /\ l > 1)
  <2>1. fdwt' = own
    BY <1>1, <1>7
  <2> QED
    BY <1>6, <2>1
<1>8. CASE NextHalf(c, l) = 1 /\ l > 1
  <2> DEFINE k == l - 1
             u == own[c][k]
             new == [own EXCEPT ![c][k] = Pushed(own[c][k], low)]
  <2>1. fdwt' = new
    BY <1>1, <1>8
  <2>2. k \in B /\ c \in A
    BY <1>3, <1>8
  <2>3. SameLevel(u, Pushed(u, low))
    BY <1>6, <2>2, PushedSame
  <2>4. Updated(own, new, c, k, Pushed(u, low), A, B)
    <3> HIDE DEF A, B, k
    <3> QED
      BY <1>6, <2>2, TableUpdate
  <2> HIDE DEF new, k, A, B, F
  <2>5. /\ Table(new, A, B)
        /\ \A d \in A : \A i \in B :
             /\ DOMAIN new[d][i] = FdwtFields
             /\ new[d][i].v0 = own[d][i].v0 /\ new[d][i].v1 = own[d][i].v1
             /\ new[d][i].nextOut = own[d][i].nextOut
    BY <1>6, <2>3, <2>4 DEF Updated, SameLevel
  <2>6. \A d \in A : \A i \in B :
             /\ new[d][i].v0 = F[d][i].v0 /\ new[d][i].v1 = F[d][i].v1
             /\ new[d][i].nextOut
                = IF d = c /\ i = l THEN F[d][i].nextOut + 1 ELSE F[d][i].nextOut
    BY <1>6, <2>5
  <2> QED
    BY <2>1, <2>5, <2>6 DEF A, B, F
<1> QED
  BY <1>7, <1>8

\* The flags after an emission.
LEMMA EmitFlags ==
  ASSUME LinesInv, NEW c \in Lanes, NEW l \in Levels, Emit(c, l)
  PROVE  /\ Table(rowDone', Lanes, Levels)
         /\ \A d \in Lanes : \A k \in Levels : d # c \/ k # l => rowDone'[d][k] = rowDone[d][k]
         /\ rowDone'[c][l] =
              IF Completing(c, l)
              THEN [rowDone[c][l] EXCEPT ![NextBlockRow(c, l)] = @ \cup {NextHalf(c, l)}]
              ELSE rowDone[c][l]
<1> DEFINE br == NextBlockRow(c, l)
           f == NextHalf(c, l)
           e == [rowDone[c][l] EXCEPT ![br] = @ \cup {f}]
<1>1. Table(rowDone, Lanes, Levels) /\ TileInv
  BY DEF LinesInv
<1>2. IF Completing(c, l) THEN rowDone' = [rowDone EXCEPT ![c][l][br] = @ \cup {f}]
      ELSE UNCHANGED rowDone
  BY <1>1, EmitParts
<1> HIDE DEF br, f
<1>3. CASE ~ Completing(c, l)
  BY <1>1, <1>2, <1>3
<1>4. CASE Completing(c, l)
  <2>1. rowDone' = [rowDone EXCEPT ![c][l] = e]
    BY <1>2, <1>4
  <2> HIDE DEF e
  <2>2. Updated(rowDone, rowDone', c, l, e, Lanes, Levels)
    <3> HIDE DEF Lanes, Levels
    <3> QED
      BY <1>1, <2>1, TableUpdate
  <2> QED
    BY <1>4, <2>2 DEF Updated, e, br, f
<1> QED
  BY <1>3, <1>4

\* A row that completes half of a block row had not done so before.
LEMMA EmitCompletes ==
  ASSUME LinesInv, NEW c \in Lanes, NEW l \in Levels, CanEmit(fdwt[c][l]), Overlap(Tile, c)
  PROVE  LET done == rowDone[c][l]
             br == NextBlockRow(c, l)
             f == NextHalf(c, l)
         IN  /\ br \in DOMAIN done /\ f \in {1, 2}
             /\ FlagsOf(Tile, c, l, fdwt[c][l].nextOut + 1)
                  = IF Completing(c, l) THEN [done EXCEPT ![br] = @ \cup {f}] ELSE done
             /\ Completing(c, l) => f \notin done[br]
<1> DEFINE r == fdwt[c][l].nextOut
           f == NextHalf(c, l)
           sub == NextSub(c, l)
           br == NextBlockRow(c, l)
           done == rowDone[c][l]
           t == Tile
<1>1. r \in Int /\ EncRow(t, c, l, t.v0) <= r /\ r < EncRow(t, c, l, t.v1)
  BY NextRowIs
<1>2. Sane(t) /\ c \in DOMAIN t.yrs /\ l \in 1 .. t.NL
  BY TileFacts DEF LinesInv, Levels
<1>3. done = FlagsOf(t, c, l, r)
  BY DEF LinesInv
<1>4. /\ f = IF r % 2 = 0 THEN 1 ELSE 2
      /\ sub = (r \div 2) - HalfTop(t, c, l, f)
      /\ br = sub \div t.cbh
  BY DEF NextHalf, NextSub, NextBlockRow
<1>5. Completing(c, l) <=> sub = HalfEnd(t, c, l, f, br) - 1
  BY DEF Completing
<1> HIDE DEF r, f, sub, br, done, t
<1>6. /\ br \in DOMAIN done /\ f \in {1, 2}
      /\ FlagsOf(t, c, l, r + 1) =
              IF sub = HalfEnd(t, c, l, f, br) - 1
              THEN [done EXCEPT ![br] = @ \cup {f}] ELSE done
      /\ sub = HalfEnd(t, c, l, f, br) - 1 => f \notin done[br]
  BY <1>1, <1>2, <1>3, <1>4, FlagsGrow
<1>7. /\ FlagsOf(t, c, l, r + 1) = IF Completing(c, l) THEN [done EXCEPT ![br] = @ \cup {f}] ELSE done
      /\ Completing(c, l) => f \notin done[br]
  BY <1>5, <1>6
<1> QED
  BY <1>6, <1>7 DEF r, f, br, done, t

\* A row comes out.
LEMMA EmitLines ==
  ASSUME LinesInv, NEW c \in Lanes, NEW l \in Levels, Emit(c, l)
  PROVE  LinesInv'
<1>1. TileInv
  BY DEF LinesInv
<1>2. UNCHANGED <<job, tile, encPool>> /\ CanEmit(fdwt[c][l])
  BY <1>1, EmitParts DEF jobVars
<1>3. TileInv' /\ Tile' = Tile /\ Lanes' = Lanes /\ Levels' = Levels
  BY <1>1, <1>2, TileSame
<1>4. PICK good \in BOOLEAN : written' = [written EXCEPT ![c][l] = Append(@, good)]
  BY <1>1, EmitParts
<1> DEFINE put == Append(written[c][l], good)
<1>5. Updated(written, written', c, l, put, Lanes, Levels)
  <2>1. Table(written, Lanes, Levels)
    BY DEF LinesInv
  <2>2. written' = [written EXCEPT ![c][l] = put]
    BY <1>4
  <2> HIDE DEF Lanes, Levels, put
  <2> QED
    BY <2>1, <2>2, TableUpdate
<1>6. LevelOK(Tile, c, l, fdwt[c][l], written[c][l])
  BY DEF LinesInv
<1>7. LevelOK(Tile, c, l, fdwt'[c][l], put)
  <2>1. put \in Seq(BOOLEAN) /\ Len(put) = Len(written[c][l]) + 1
    BY <1>6 DEF LevelOK
  <2> HIDE DEF put
  <2>2. /\ DOMAIN fdwt'[c][l] = FdwtFields
        /\ fdwt'[c][l].v0 = fdwt[c][l].v0 /\ fdwt'[c][l].v1 = fdwt[c][l].v1
        /\ fdwt'[c][l].nextOut = fdwt[c][l].nextOut + 1
    BY EmitRows
  <2>3. LET r == fdwt[c][l].nextOut IN r \in Int /\ r < EncRow(Tile, c, l, Tile.v1)
    BY <1>2, NextRowIs
  <2>4. EncRow(Tile, c, l, Tile.v0) \in Nat /\ EncRow(Tile, c, l, Tile.v1) \in Nat
    BY <1>1, TileFacts, RowType
  <2> DEFINE s == fdwt[c][l]
             u == fdwt'[c][l]
             p == written[c][l]
  <2>5. /\ DOMAIN u = FdwtFields /\ u.v0 = s.v0 /\ u.v1 = s.v1 /\ u.nextOut = s.nextOut + 1
        /\ s.nextOut \in Int /\ s.nextOut < s.v1 /\ LevelOK(Tile, c, l, s, p)
        /\ Len(put) = Len(p) + 1 /\ s.v0 \in Int /\ s.v1 \in Int
    BY <1>6, <2>1, <2>2, <2>3, <2>4 DEF LevelOK
  <2> HIDE DEF s, u, p
  <2>6. LevelOK(Tile, c, l, u, put)
    BY <2>1, <2>5 DEF LevelOK
  <2> QED
    BY <2>6 DEF u
<1> HIDE DEF put
<1>8. ASSUME NEW d \in Lanes, NEW k \in Levels
      PROVE  LevelOK(Tile, d, k, fdwt'[d][k], written'[d][k])
  <2>1. CASE d = c /\ k = l
    BY <1>5, <1>7, <2>1 DEF Updated
  <2>2. CASE d # c \/ k # l
    <3>1. written'[d][k] = written[d][k]
      BY <1>5, <2>2 DEF Updated
    <3>2. /\ DOMAIN fdwt'[d][k] = FdwtFields
          /\ fdwt'[d][k].v0 = fdwt[d][k].v0 /\ fdwt'[d][k].v1 = fdwt[d][k].v1
          /\ fdwt'[d][k].nextOut = fdwt[d][k].nextOut
      BY <2>2, EmitRows
    <3>3. LevelOK(Tile, d, k, fdwt[d][k], written[d][k])
      BY DEF LinesInv
    <3> QED
      BY <3>1, <3>2, <3>3 DEF LevelOK
  <2> QED
    BY <2>1, <2>2
<1>9. ASSUME NEW d \in Lanes, NEW k \in Levels, Overlap(Tile, d)
      PROVE  rowDone'[d][k] = FlagsOf(Tile, d, k, fdwt'[d][k].nextOut)
  <2>1. rowDone[d][k] = FlagsOf(Tile, d, k, fdwt[d][k].nextOut)
    BY <1>9 DEF LinesInv
  <2>2. CASE d = c /\ k = l
    <3> DEFINE done == rowDone[c][l]
               more == [done EXCEPT ![NextBlockRow(c, l)] = @ \cup {NextHalf(c, l)}]
    <3>1. rowDone'[c][l] = FlagsOf(Tile, c, l, fdwt[c][l].nextOut + 1)
      <4>1. FlagsOf(Tile, c, l, fdwt[c][l].nextOut + 1)
              = IF Completing(c, l) THEN more ELSE done
        BY <1>2, <1>9, <2>2, EmitCompletes
      <4>2. rowDone'[c][l] = IF Completing(c, l) THEN more ELSE done
        BY EmitFlags
      <4> QED
        BY <4>1, <4>2
    <3>2. fdwt'[c][l].nextOut = fdwt[c][l].nextOut + 1
      BY EmitRows
    <3> QED
      BY <2>2, <3>1, <3>2
  <2>3. CASE d # c \/ k # l
    <3>1. rowDone'[d][k] = rowDone[d][k]
      <4>1. \A e \in Lanes : \A i \in Levels :
              e # c \/ i # l => rowDone'[e][i] = rowDone[e][i]
        BY EmitFlags
      <4> QED
        BY <2>3, <4>1
    <3>2. fdwt'[d][k].nextOut = fdwt[d][k].nextOut
      BY <2>3, EmitRows
    <3> QED
      BY <2>1, <3>1, <3>2
  <2> QED
    BY <2>2, <2>3
<1>10. Table(fdwt', Lanes, Levels) /\ Table(written', Lanes, Levels)
       /\ Table(rowDone', Lanes, Levels)
  BY <1>5, EmitRows, EmitFlags DEF Updated
<1> HIDE DEF Lanes, Levels, Tile
<1> QED
  BY <1>3, <1>8, <1>9, <1>10 DEF LinesInv

\* Workers leave rows and flags alone.
LEMMA WorkersKeepLines ==
  ASSUME LinesInv, NEW w, EncWorker(w)
  PROVE  LinesInv'
<1>1. UNCHANGED <<job, tile, encPool, laneVars>>
  BY DEF EncWorker, StartBlock, EncodeBlock, jobVars
<1> QED
  BY <1>1, LinesSame

\* Component by component, the finest level first.
LEMMA NextPair ==
  ASSUME NEW n \in Nat, NEW S, S \subseteq Nat \X (0 .. n), S # {},
         NEW c, c = Min({p[1] : p \in S}),
         NEW l, l = Max({p[2] : p \in {q \in S : q[1] = c}})
  PROVE  <<c, l>> \in S /\ c \in Nat /\ l \in 0 .. n
<1> DEFINE C == {p[1] : p \in S}
           R == {q \in S : q[1] = c}
           L == {p[2] : p \in R}
<1>1. \A p \in S : p[1] \in Nat /\ p[2] \in 0 .. n /\ p = <<p[1], p[2]>>
  OBVIOUS
<1>2. C \in SUBSET Nat /\ C # {}
  BY <1>1
<1>3. c \in C
  <2> HIDE DEF C
  <2>1. c = Min(C)
    BY DEF C
  <2> QED
    BY <1>2, <2>1, MinIs
<1>4. R # {}
  BY <1>3
<1>5. L \in SUBSET (0 .. n) /\ L # {}
  BY <1>1, <1>4
<1>6. l \in L
  <2> HIDE DEF L
  <2>1. l = Max(L)
    BY DEF L
  <2> QED
    BY <1>5, <2>1, MaxIs
<1>7. PICK p \in S : p[1] = c /\ p[2] = l
  BY <1>6
<1> QED
  BY <1>1, <1>7

\* A row of the image enters.
LEMMA PushKeepsLines ==
  ASSUME LinesInv, pushes \in Nat, PushRow
  PROVE  LinesInv' /\ pushes' \in Nat
<1> DEFINE n == Len(Tile.yrs)
           y == pushes \div n
           c == (pushes % n) + 1
           k == Tile.NL
           val == Image(c, y)
<1>1. TileInv /\ UNCHANGED <<job, tile, encPool, written, rowDone>> /\ pushes' = pushes + 1
  BY DEF LinesInv, PushRow, jobVars
<1>2. fdwt' = fdwt \/ fdwt' = [fdwt EXCEPT ![c][k] = Pushed(@, val)]
  BY DEF PushRow
<1>3. c \in Lanes /\ k \in Levels
  <2>1. n \in Nat /\ k \in Nat \ {0}
    BY <1>1, TileFacts DEF Sane, TileOK
  <2>2. n # 0
    <3>1. pushes < Height1 * n
      BY DEF PushRow, Pushing
    <3>2. Height1 \in Int
      BY <1>1, TileFacts DEF Sane, TileOK, Height1
    <3> HIDE DEF n
    <3>3. ASSUME n = 0 PROVE FALSE
      <4>1. Height1 * n = 0
        BY <3>2, <3>3
      <4> QED
        BY <3>1, <4>1
    <3> QED
      BY <3>3
  <2>3. pushes % n \in 0 .. n - 1
    <3> HIDE DEF n
    <3>1. n \in Nat \ {0} /\ pushes \in Int
      BY <2>1, <2>2
    <3> QED
      BY <3>1, DivMod
  <2>4. Lanes = 1 .. n /\ Levels = 1 .. k
    BY DEF Lanes, Levels
  <2> DEFINE m == pushes % n
  <2>5. c = m + 1 /\ m \in 0 .. n - 1
    BY <2>3
  <2> HIDE DEF m, n, k, c
  <2> QED
    BY <2>1, <2>4, <2>5
<1> HIDE DEF c, k, val, y
<1>4. CASE fdwt' = fdwt
  <2>1. LinesInv'
    <3>1. Tile' = Tile /\ Lanes' = Lanes /\ Levels' = Levels /\ TileInv'
      BY <1>1, TileSame
    <3> HIDE DEF Tile, Lanes, Levels
    <3> QED
      BY <1>1, <1>4, <3>1 DEF LinesInv
  <2> QED
    BY <1>1, <2>1
<1>5. CASE fdwt' = [fdwt EXCEPT ![c][k] = Pushed(@, val)]
  <2> DEFINE s == Pushed(fdwt[c][k], val)
  <2>1. SameLevel(fdwt[c][k], s)
    <3>1. DOMAIN fdwt[c][k] = FdwtFields
      BY <1>3 DEF LinesInv, LevelOK
    <3> QED
      BY <3>1, PushedSame
  <2>2. fdwt' = [fdwt EXCEPT ![c][k] = s]
    BY <1>5
  <2> HIDE DEF s
  <2>3. LinesInv'
    BY <1>1, <1>3, <2>1, <2>2, LinesMoved
  <2> QED
    BY <1>1, <2>3
<1> QED
  BY <1>2, <1>4, <1>5

\* A level is flushed.
LEMMA FlushKeepsLines ==
  ASSUME LinesInv, Flush
  PROVE  LinesInv' /\ UNCHANGED pushes
<1> DEFINE c == Min({p[1] : p \in Unflushed})
           l == Max({p[2] : p \in {q \in Unflushed : q[1] = c}})
<1>1. /\ UNCHANGED <<job, tile, encPool, written, rowDone, pushes>>
      /\ fdwt' = [fdwt EXCEPT ![c][l] = Flushed(@)]
      /\ Unflushed # {} /\ TileInv
  BY DEF Flush, jobVars, LinesInv
<1>2. c \in Lanes /\ l \in Levels
  <2>1. Unflushed \subseteq Nat \X (0 .. Tile.NL) /\ Tile.NL \in Nat
    <3>1. Levels \subseteq 0 .. Tile.NL /\ Tile.NL \in Nat
      BY <1>1, TileFacts
    <3>2. Lanes \subseteq Nat
      BY DEF Lanes
    <3>3. Unflushed \subseteq Lanes \X Levels
      BY DEF Unflushed
    <3> HIDE DEF Lanes, Levels, Unflushed
    <3> QED
      BY <3>1, <3>2, <3>3
  <2>2. <<c, l>> \in Unflushed
    <3> HIDE DEF c
    <3>1. c = Min({p[1] : p \in Unflushed})
      BY DEF c
    <3>2. l = Max({p[2] : p \in {q \in Unflushed : q[1] = c}})
      OBVIOUS
    <3> HIDE DEF l
    <3> QED
      BY <1>1, <2>1, <3>1, <3>2, NextPair
  <2> HIDE DEF c, l
  <2> QED
    BY <2>2 DEF Unflushed
<1> HIDE DEF c, l
<1> DEFINE s == Flushed(fdwt[c][l])
<1>3. SameLevel(fdwt[c][l], s)
  <2>1. DOMAIN fdwt[c][l] = FdwtFields
    BY <1>2 DEF LinesInv, LevelOK
  <2> QED
    BY <2>1, FlushedSame
<1>4. fdwt' = [fdwt EXCEPT ![c][l] = s]
  BY <1>1
<1> HIDE DEF s
<1>5. LinesInv'
  BY <1>1, <1>2, <1>3, <1>4, LinesMoved
<1> QED
  BY <1>1, <1>5

\* A job's tiles.
LEMMA FirstTile ==
  ASSUME EncInit
  PROVE  TileInv /\ Tile = job[1]
<1>1. job \in Seq(Range(job)) /\ job # <<>>
  BY JobsAssumption DEF EncInit
<1>2. Len(job) \in Nat /\ Len(job) # 0
  BY <1>1
<1> QED
  BY <1>2 DEF EncInit, TileInv, Tile

\* The first tile begins.
LEMMA InitLines == EncInit => LinesInv /\ pushes \in Nat
<1> SUFFICES ASSUME EncInit PROVE LinesInv /\ pushes \in Nat
  OBVIOUS
<1>1. TileInv /\ Tile = job[1]
  BY FirstTile
<1>2. fdwt = FreshFdwt(Tile) /\ written = NothingWritten(Tile) /\ rowDone = FreshRowsDone(Tile)
      /\ pushes = 0
  BY <1>1 DEF EncInit
<1> QED
  BY <1>1, <1>2, LinesFresh

\* The next tile begins.
LEMMA NextTileKeepsLines ==
  ASSUME LinesInv, NextTile
  PROVE  LinesInv' /\ pushes' \in Nat /\ TileInv' /\ Tile' = job[tile + 1]
<1>1. job \in Seq(Range(job)) /\ TileInv
  BY JobsAssumption DEF LinesInv, TileInv
<1>2. /\ tile < Len(job) /\ tile' = tile + 1 /\ pushes' = 0
      /\ fdwt' = FreshFdwt(job[tile + 1]) /\ written' = NothingWritten(job[tile + 1])
      /\ rowDone' = FreshRowsDone(job[tile + 1])
      /\ UNCHANGED <<job, encPool>>
  BY DEF NextTile
<1>3. TileInv'
  BY <1>1, <1>2 DEF TileInv
<1>4. Tile' = job[tile + 1]
  BY <1>2 DEF Tile
<1>5. /\ fdwt' = FreshFdwt(Tile)' /\ written' = NothingWritten(Tile)'
      /\ rowDone' = FreshRowsDone(Tile)'
  <2>1. FreshFdwt(Tile)' = FreshFdwt(Tile') /\ NothingWritten(Tile)' = NothingWritten(Tile')
        /\ FreshRowsDone(Tile)' = FreshRowsDone(Tile')
    BY DEF FreshFdwt, NothingWritten, FreshRowsDone
  <2> QED
    BY <1>2, <1>4, <2>1
<1>6. (TileInv /\ fdwt = FreshFdwt(Tile) /\ written = NothingWritten(Tile)
       /\ rowDone = FreshRowsDone(Tile) => LinesInv)'
  BY LinesFresh, PTL
<1> QED
  BY <1>2, <1>3, <1>4, <1>5, <1>6

-----------------------------------------------------------------------------
(* Where blocks are. *)

Busy      == {w \in EncWorkers : running[w] # NoBlock}
Queued(b) == \E i \in DOMAIN queue : queue[i] = b
Held(b)   == \E w \in EncWorkers : running[w] = b

\* S are the blocks handed over: each of them is in the queue, at one thread or
\* coded, and the others are nowhere.
Placed(S) ==
  /\ S \subseteq DOMAIN coded /\ NoBlock \notin S
  /\ coded \in [DOMAIN coded -> {0, 1}]
  /\ queue \in Seq(S)
  /\ \A i, j \in DOMAIN queue : i # j => queue[i] # queue[j]
  /\ running \in [EncWorkers -> S \cup {NoBlock}]
  /\ \A v, w \in Busy : v # w => running[v] # running[w]
  /\ \A i \in DOMAIN queue : \A w \in EncWorkers : queue[i] # running[w]
  /\ \A b \in DOMAIN coded : coded[b] = 1 => b \in S
  /\ \A b \in S : coded[b] = 0 <=> Queued(b) \/ Held(b)

\* enc_remaining counts the blocks that are not coded.
Waited ==
  /\ left = Len(queue) + Cardinality(Busy)
  /\ ~encPool => queue = <<>> /\ Busy = {}

\* Threads can be counted.
LEMMA BusyFinite == IsFiniteSet(Busy) /\ Cardinality(Busy) \in Nat
BY EncWorkersAssumption, FS_Subset, FS_CardinalityType DEF Busy

\* A set of blocks is handed over.
LEMMA SubmitPlaces ==
  ASSUME NEW S, Placed(S), Waited, UNCHANGED encPool,
         NEW B, IsFiniteSet(B), B \subseteq DOMAIN coded, B \cap S = {}, NoBlock \notin B,
         Submit(B)
  PROVE  Placed(S \cup B)' /\ Waited' /\ DOMAIN coded' = DOMAIN coded
<1> DEFINE T == S \cup B
           D == DOMAIN coded
<1>1. NoBlock' = NoBlock
  BY DEF NoBlock
<1> HIDE DEF NoBlock
<1>2. UNCHANGED running /\ Busy' = Busy
  BY <1>1 DEF Submit, Busy
<1>3. T \subseteq D /\ NoBlock \notin T
  BY DEF Placed
<1>4. \A b \in B : coded[b] = 0 /\ ~ Queued(b) /\ ~ Held(b)
  <2>1. ASSUME NEW b \in B PROVE coded[b] = 0
    BY DEF Placed
  <2>2. ASSUME NEW b \in B PROVE ~ Queued(b)
    BY DEF Placed, Queued
  <2>3. ASSUME NEW b \in B PROVE ~ Held(b)
    BY DEF Placed, Held
  <2> QED
    BY <2>1, <2>2, <2>3
<1>5. running \in [EncWorkers -> T \cup {NoBlock}] /\ \A v, w \in Busy : v # w => running[v] # running[w]
  BY DEF Placed
<1>6. CASE encPool
  <2> DEFINE q == SetToSeq(B)
             n == Len(queue)
             new == queue \o q
  <2>1. UNCHANGED coded /\ queue' = new /\ left' = left + Cardinality(B)
    BY <1>6 DEF Submit
  <2>2. /\ Len(q) = Cardinality(B) /\ DOMAIN q = 1 .. Len(q) /\ Len(q) \in Nat /\ q \in Seq(B)
        /\ \A i, j \in DOMAIN q : i # j => q[i] # q[j]
        /\ \A x \in B : \E i \in DOMAIN q : q[i] = x
    BY SetToSeqIs
  <2>3. queue \in Seq(S) /\ n \in Nat /\ DOMAIN queue = 1 .. n
        /\ \A i \in 1 .. n : queue[i] \in S
    BY DEF Placed
  <2> HIDE DEF q
  <2>4. /\ \A i \in DOMAIN q : q[i] \in B
        /\ new \in Seq(T) /\ Len(new) = n + Len(q) /\ DOMAIN new = 1 .. n + Len(q)
        /\ \A i \in 1 .. n : new[i] = queue[i]
        /\ \A i \in DOMAIN q : new[n + i] = q[i]
    <3>1. queue \in Seq(T) /\ q \in Seq(T)
      BY <2>2, <2>3
    <3>2. /\ \A i \in DOMAIN q : q[i] \in B
          /\ Len(q) \in Nat /\ DOMAIN q = 1 .. Len(q)
      BY <2>2, <3>1
    <3>3. /\ new \in Seq(T) /\ Len(new) = n + Len(q)
          /\ \A i \in 1 .. n : new[i] = queue[i]
          /\ \A i \in DOMAIN q : new[n + i] = q[i]
      BY <2>3, <3>1, <3>2
    <3> QED
      BY <3>2, <3>3
  <2>5. \A i \in DOMAIN new : (i \in 1 .. n /\ new[i] = queue[i])
                              \/ \E j \in DOMAIN q : i = n + j /\ new[i] = q[j]
    <3> SUFFICES ASSUME NEW i \in DOMAIN new, i \notin 1 .. n
                 PROVE  \E j \in DOMAIN q : i = n + j /\ new[i] = q[j]
      BY <2>4
    <3>1. i - n \in DOMAIN q /\ i = n + (i - n)
      BY <2>2, <2>3, <2>4
    <3> QED
      BY <2>4, <3>1
  <2>6. \A i, j \in 1 .. n : i # j => queue[i] # queue[j]
    BY <2>3 DEF Placed
  <2> HIDE DEF new, n
  <2>7. ASSUME NEW i \in DOMAIN new, NEW j \in DOMAIN new, i # j PROVE new[i] # new[j]
    <3>1. CASE i \in 1 .. n /\ j \in 1 .. n
      BY <2>4, <2>6, <2>7, <3>1
    <3>2. CASE i \notin 1 .. n /\ j \notin 1 .. n
      <4>1. PICK a \in DOMAIN q : i = n + a /\ new[i] = q[a]
        BY <2>5, <3>2
      <4>2. PICK b \in DOMAIN q : j = n + b /\ new[j] = q[b]
        BY <2>5, <3>2
      <4>3. a # b
        BY <2>7, <4>1, <4>2
      <4> QED
        BY <2>2, <4>1, <4>2, <4>3
    <3>3. CASE i \in 1 .. n /\ j \notin 1 .. n
      <4>1. new[i] \in S
        BY <2>3, <2>4, <3>3
      <4>2. new[j] \in B
        BY <2>4, <2>5, <3>3
      <4> QED
        BY <4>1, <4>2
    <3>4. CASE i \notin 1 .. n /\ j \in 1 .. n
      <4>1. new[j] \in S
        BY <2>3, <2>4, <3>4
      <4>2. new[i] \in B
        BY <2>4, <2>5, <3>4
      <4> QED
        BY <4>1, <4>2
    <3> QED
      BY <3>1, <3>2, <3>3, <3>4
  <2>8. \A b : Queued(b)' <=> Queued(b) \/ b \in B
    <3>1. \A b : Queued(b)' <=> \E i \in DOMAIN new : new[i] = b
      BY <2>1 DEF Queued
    <3>2. ASSUME NEW b, NEW i \in DOMAIN new, new[i] = b PROVE Queued(b) \/ b \in B
      BY <2>3, <2>4, <2>5, <3>2 DEF Queued
    <3>3. ASSUME NEW b \in B PROVE \E i \in DOMAIN new : new[i] = b
      <4>1. PICK j \in DOMAIN q : q[j] = b
        BY <2>2
      <4>2. n + j \in DOMAIN new
        BY <2>2, <2>3, <2>4
      <4> QED
        BY <2>4, <4>1, <4>2
    <3>4. ASSUME NEW b, Queued(b) PROVE \E i \in DOMAIN new : new[i] = b
      <4>1. PICK i \in 1 .. n : queue[i] = b
        BY <2>3, <3>4 DEF Queued
      <4>2. i \in DOMAIN new
        BY <2>2, <2>3, <2>4
      <4> QED
        BY <2>4, <4>1, <4>2
    <3> QED
      BY <3>1, <3>2, <3>3, <3>4
  <2>9. \A b : Held(b)' <=> Held(b)
    BY <1>2 DEF Held
  <2>10. ASSUME NEW i \in DOMAIN new, NEW w \in EncWorkers PROVE new[i] # running[w]
    <3>1. CASE i \in 1 .. n
      BY <2>3, <2>4, <3>1 DEF Placed
    <3>2. CASE i \notin 1 .. n
      <4>1. new[i] \in B
        BY <2>4, <2>5, <3>2
      <4> QED
        BY <1>4, <4>1 DEF Held
    <3> QED
      BY <3>1, <3>2
  <2>11. \A b \in T : coded[b] = 0 <=> Queued(b)' \/ Held(b)'
    BY <1>4, <2>8, <2>9 DEF Placed
  <2>12. \A b \in D : coded[b] = 1 => b \in T
    BY DEF Placed
  <2>13. coded \in [D -> {0, 1}]
    BY DEF Placed
  <2>14. Placed(T)'
    BY <1>1, <1>2, <1>3, <1>5, <2>1, <2>4, <2>7, <2>10, <2>11, <2>12, <2>13 DEF Placed
  <2>15. left' = Len(queue') + Cardinality(Busy')
    <3>1. left = n + Cardinality(Busy)
      BY DEF Waited, n
    <3>2. Cardinality(Busy) \in Nat
      BY BusyFinite
    <3> QED
      BY <1>2, <2>1, <2>2, <2>3, <2>4, <3>1, <3>2
  <2>16. Waited'
    BY <1>6, <2>15 DEF Waited
  <2> QED
    BY <2>1, <2>14, <2>16
<1>7. CASE ~ encPool
  <2>1. /\ coded' = [b \in D |-> IF b \in B THEN coded[b] + 1 ELSE coded[b]]
        /\ UNCHANGED <<queue, left>>
    BY <1>7 DEF Submit
  <2>2. queue = <<>> /\ Busy = {}
    BY <1>7 DEF Waited
  <2>3. /\ DOMAIN coded' = D /\ coded' \in [D -> {0, 1}]
        /\ \A b \in B : coded'[b] = 1
        /\ \A b \in D : b \notin B => coded'[b] = coded[b]
    <3>1. coded \in [D -> {0, 1}]
      BY DEF Placed
    <3> QED
      BY <1>4, <2>1, <3>1
  <2>4. \A b : (Queued(b)' <=> Queued(b)) /\ (Held(b)' <=> Held(b))
    BY <1>2, <2>1 DEF Queued, Held
  <2>5. \A b \in T : coded'[b] = 0 <=> Queued(b)' \/ Held(b)'
    BY <1>3, <1>4, <2>3, <2>4 DEF Placed
  <2>6. \A b \in D : coded'[b] = 1 => b \in T
    BY <2>3 DEF Placed
  <2>7. /\ queue' \in Seq(T)
        /\ \A i, j \in DOMAIN queue' : i # j => queue'[i] # queue'[j]
        /\ \A i \in DOMAIN queue' : \A w \in EncWorkers : queue'[i] # running'[w]
    <3>1. queue \in Seq(T)
      BY <2>2
    <3> QED
      BY <1>2, <2>1, <3>1 DEF Placed
  <2>8. T \subseteq DOMAIN coded' /\ coded' \in [DOMAIN coded' -> {0, 1}]
        /\ \A b \in DOMAIN coded' : coded'[b] = 1 => b \in T
    BY <1>3, <2>3, <2>6
  <2>9. Placed(T)'
    BY <1>1, <1>2, <1>3, <1>5, <2>5, <2>7, <2>8 DEF Placed
  <2>10. Waited'
    BY <1>2, <2>1 DEF Waited
  <2> QED
    BY <2>3, <2>9, <2>10
<1> QED
  BY <1>6, <1>7

\* A thread takes the block at the head of the queue.
LEMMA StartPlaces ==
  ASSUME NEW S, Placed(S), Waited, NEW w \in EncWorkers, StartBlock(w)
  PROVE  Placed(S)' /\ Waited' /\ UNCHANGED coded
<1> DEFINE h == Head(queue)
           q == Tail(queue)
           n == Len(queue)
<1>1. /\ running[w] = NoBlock /\ queue # <<>>
      /\ running' = [running EXCEPT ![w] = h] /\ queue' = q
      /\ UNCHANGED <<left, coded, encPool>>
  BY DEF StartBlock, jobVars
<1>2. NoBlock' = NoBlock
  BY DEF NoBlock
<1> HIDE DEF NoBlock
<1>3. queue \in Seq(S) /\ n \in Nat \ {0} /\ DOMAIN queue = 1 .. n /\ h = queue[1] /\ h \in S
  <2>1. queue \in Seq(S)
    BY DEF Placed
  <2> QED
    BY <1>1, <2>1
<1>4. /\ q \in Seq(S) /\ Len(q) = n - 1 /\ DOMAIN q = 1 .. n - 1
      /\ \A i \in 1 .. n - 1 : i + 1 \in DOMAIN queue /\ q[i] = queue[i + 1]
  BY <1>1, <1>3
<1>5. h # NoBlock
  BY <1>3 DEF Placed
<1>6. running \in [EncWorkers -> S \cup {NoBlock}]
  BY DEF Placed
<1> HIDE DEF h, q, n
<1>7. /\ running'[w] = h /\ \A v \in EncWorkers : v # w => running'[v] = running[v]
      /\ running' \in [EncWorkers -> S \cup {NoBlock}]
  BY <1>1, <1>3, <1>6
<1>8. Busy' = Busy \cup {w} /\ w \notin Busy
  BY <1>1, <1>2, <1>5, <1>7 DEF Busy
<1>9. \A i, j \in DOMAIN queue : i # j => queue[i] # queue[j]
  BY DEF Placed
<1>10. \A i \in DOMAIN q : q[i] # h
  BY <1>3, <1>4, <1>9
<1>11. ASSUME NEW i \in DOMAIN q, NEW j \in DOMAIN q, i # j PROVE q[i] # q[j]
  <2>1. i + 1 \in DOMAIN queue /\ j + 1 \in DOMAIN queue /\ i + 1 # j + 1
    BY <1>3, <1>4, <1>11
  <2>2. q[i] = queue[i + 1] /\ q[j] = queue[j + 1]
    BY <1>4
  <2> QED
    BY <1>9, <2>1, <2>2
<1>12. \A i \in DOMAIN q : \A v \in EncWorkers : q[i] # running'[v]
  BY <1>4, <1>7, <1>10 DEF Placed
<1>13. \A v \in Busy : running[v] # h
  BY <1>3 DEF Placed, Busy
<1>14. \A u, v \in Busy' : u # v => running'[u] # running'[v]
  BY <1>7, <1>8, <1>13 DEF Placed, Busy
<1>15. ASSUME NEW b \in S PROVE (Queued(b) \/ Held(b)) <=> (Queued(b)' \/ Held(b)')
  <2>1. Queued(b)' <=> \E i \in DOMAIN q : q[i] = b
    BY <1>1 DEF Queued
  <2>2. Held(b)' <=> \E v \in EncWorkers : running'[v] = b
    BY DEF Held
  <2>3. ASSUME Queued(b) PROVE Queued(b)' \/ Held(b)'
    <3>1. PICK i \in 1 .. n : queue[i] = b
      BY <1>3, <2>3 DEF Queued
    <3>2. CASE i = 1
      BY <1>3, <1>7, <2>2, <3>1, <3>2
    <3>3. CASE i # 1
      <4>1. i - 1 \in 1 .. n - 1 /\ (i - 1) + 1 = i
        BY <1>3, <3>3
      <4>2. q[i - 1] = b
        BY <1>4, <3>1, <4>1
      <4> QED
        BY <1>4, <2>1, <4>1, <4>2
    <3> QED
      BY <3>2, <3>3
  <2>4. ASSUME Held(b) PROVE Held(b)'
    <3>1. PICK v \in EncWorkers : running[v] = b
      BY <2>4 DEF Held
    <3>2. b # NoBlock
      BY DEF Placed
    <3>3. v # w
      BY <1>1, <3>1, <3>2
    <3> QED
      BY <1>7, <2>2, <3>1, <3>3
  <2>5. ASSUME Queued(b)' PROVE Queued(b)
    BY <1>4, <2>1, <2>5 DEF Queued
  <2>6. ASSUME Held(b)' PROVE Queued(b) \/ Held(b)
    <3>1. PICK v \in EncWorkers : running'[v] = b
      BY <2>2, <2>6
    <3>2. CASE v = w
      <4>1. queue[1] = b /\ 1 \in DOMAIN queue
        BY <1>3, <1>7, <3>1, <3>2
      <4> QED
        BY <4>1 DEF Queued
    <3>3. CASE v # w
      BY <1>7, <3>1, <3>3 DEF Held
    <3> QED
      BY <3>2, <3>3
  <2> QED
    BY <2>3, <2>4, <2>5, <2>6
<1>16. \A b \in S : coded'[b] = 0 <=> Queued(b)' \/ Held(b)'
  BY <1>1, <1>15 DEF Placed
<1>17. Placed(S)'
  <2>1. queue' \in Seq(S)
    BY <1>1, <1>4
  <2>2. \A i, j \in DOMAIN queue' : i # j => queue'[i] # queue'[j]
    BY <1>1, <1>11
  <2>3. \A i \in DOMAIN queue' : \A v \in EncWorkers : queue'[i] # running'[v]
    BY <1>1, <1>12
  <2>4. /\ S \subseteq DOMAIN coded' /\ NoBlock' \notin S
        /\ coded' \in [DOMAIN coded' -> {0, 1}]
        /\ \A b \in DOMAIN coded' : coded'[b] = 1 => b \in S
    BY <1>1, <1>2 DEF Placed
  <2> QED
    BY <1>2, <1>7, <1>14, <1>16, <2>1, <2>2, <2>3, <2>4 DEF Placed
<1>18. Waited'
  <2>1. left = n + Cardinality(Busy) /\ (~ encPool => queue = <<>>)
    BY DEF Waited, n
  <2>2. Cardinality(Busy') = Cardinality(Busy) + 1 /\ Cardinality(Busy) \in Nat
    BY <1>8, BusyFinite, FS_AddElement
  <2>3. left' = Len(queue') + Cardinality(Busy')
    BY <1>1, <1>3, <1>4, <2>1, <2>2
  <2>4. encPool
    BY <1>1, <2>1
  <2> QED
    BY <1>1, <2>3, <2>4 DEF Waited
<1> QED
  BY <1>1, <1>17, <1>18

\* A thread has coded its block.
LEMMA EndPlaces ==
  ASSUME NEW S, Placed(S), Waited, NEW w \in EncWorkers, EncodeBlock(w)
  PROVE  Placed(S)' /\ Waited' /\ DOMAIN coded' = DOMAIN coded
<1> DEFINE h == running[w]
           D == DOMAIN coded
<1>1. /\ h # NoBlock
      /\ coded' = [coded EXCEPT ![h] = @ + 1]
      /\ running' = [running EXCEPT ![w] = NoBlock]
      /\ left' = left - 1 /\ UNCHANGED <<queue, encPool>>
  BY DEF EncodeBlock, jobVars
<1>2. NoBlock' = NoBlock
  BY DEF NoBlock
<1> HIDE DEF NoBlock
<1>3. /\ running \in [EncWorkers -> S \cup {NoBlock}] /\ S \subseteq D /\ NoBlock \notin S
      /\ coded \in [D -> {0, 1}]
  BY DEF Placed
<1>4. h \in S /\ coded[h] = 0 /\ w \in Busy
  <2>1. h \in S /\ Held(h)
    BY <1>1, <1>3 DEF Held
  <2> QED
    BY <1>1, <2>1 DEF Placed, Busy
<1> HIDE DEF h
<1>5. /\ running'[w] = NoBlock /\ \A v \in EncWorkers : v # w => running'[v] = running[v]
      /\ running' \in [EncWorkers -> S \cup {NoBlock}]
  BY <1>1, <1>3
<1>6. /\ DOMAIN coded' = D /\ coded' \in [D -> {0, 1}] /\ coded'[h] = 1
      /\ \A b \in D : b # h => coded'[b] = coded[b]
  BY <1>1, <1>3, <1>4
<1>7. Busy' = Busy \ {w}
  BY <1>2, <1>5 DEF Busy
<1>8. \A v \in EncWorkers : v # w => running[v] # h
  BY <1>1, <1>4 DEF Placed, Busy, h
<1>9. \A i \in DOMAIN queue : queue[i] # h
  BY DEF Placed, h
<1>10. ASSUME NEW b \in S PROVE coded'[b] = 0 <=> Queued(b)' \/ Held(b)'
  <2>1. Queued(b)' <=> Queued(b)
    BY <1>1 DEF Queued
  <2>2. Held(b)' <=> \E v \in EncWorkers : running'[v] = b
    BY DEF Held
  <2>3. b \in D /\ b # NoBlock
    BY <1>3
  <2>4. coded[b] = 0 <=> Queued(b) \/ Held(b)
    BY DEF Placed
  <2>5. CASE b = h
    <3>1. ~ Queued(b)
      BY <1>9, <2>5 DEF Queued
    <3>2. ~ Held(b)'
      BY <1>5, <1>8, <2>2, <2>3, <2>5
    <3> QED
      BY <1>6, <2>1, <2>5, <3>1, <3>2
  <2>6. CASE b # h
    <3>1. Held(b)' <=> Held(b)
      BY <1>5, <2>2, <2>3, <2>6 DEF Held, h
    <3> QED
      BY <1>6, <2>1, <2>3, <2>4, <2>6, <3>1
  <2> QED
    BY <2>5, <2>6
<1>11. Placed(S)'
  <2>1. /\ queue' \in Seq(S)
        /\ \A i, j \in DOMAIN queue' : i # j => queue'[i] # queue'[j]
    BY <1>1 DEF Placed
  <2>2. \A i \in DOMAIN queue' : \A v \in EncWorkers : queue'[i] # running'[v]
    <3>1. \A i \in DOMAIN queue : queue[i] \in S
      BY DEF Placed
    <3> QED
      BY <1>1, <1>3, <1>5, <3>1 DEF Placed
  <2>3. \A u, v \in Busy' : u # v => running'[u] # running'[v]
    BY <1>5, <1>7 DEF Placed, Busy
  <2>4. S \subseteq DOMAIN coded' /\ NoBlock' \notin S /\ coded' \in [DOMAIN coded' -> {0, 1}]
    BY <1>2, <1>3, <1>6
  <2>5. \A b \in DOMAIN coded' : coded'[b] = 1 => b \in S
    BY <1>4, <1>6 DEF Placed
  <2> QED
    BY <1>2, <1>5, <1>10, <2>1, <2>2, <2>3, <2>4, <2>5 DEF Placed
<1>12. Waited'
  <2>1. left = Len(queue) + Cardinality(Busy) /\ (~ encPool => queue = <<>> /\ Busy = {})
    BY DEF Waited
  <2>2. Cardinality(Busy') = Cardinality(Busy) - 1
    BY <1>4, <1>7, BusyFinite, FS_RemoveElement
  <2>3. Len(queue) \in Nat /\ Cardinality(Busy) \in Nat
    <3>1. queue \in Seq(S)
      BY DEF Placed
    <3> QED
      BY <3>1, BusyFinite
  <2>4. left' = Len(queue') + Cardinality(Busy')
    BY <1>1, <2>1, <2>2, <2>3
  <2>5. encPool
    BY <1>4, <2>1
  <2> QED
    BY <1>1, <2>4, <2>5 DEF Waited
<1> QED
  BY <1>6, <1>11, <1>12

-----------------------------------------------------------------------------
(* Which blocks are handed over. *)

\* The blocks of a level whose component overlaps go by block rows, counted
\* from the top of the band.
Overlapped(b) == b[2] # 0 /\ Overlap(Tile, b[1])
BrOf(b)       == b[4] - (BandTop(Tile, b[1], b[2], b[3]) \div Tile.cbh)

\* A block of an overlapped level is handed over when both halves of its row are
\* out, any other with its resolution.
IsSent(b) ==
  IF Overlapped(b)
  THEN BrOf(b) \in DOMAIN rowDone[b[1]][b[2]] /\ rowDone[b[1]][b[2]][BrOf(b)] = {1, 2}
  ELSE stage = "blocks" /\ <<b[1], b[2]>> \notin rest

SentBlocks == {b \in Blocks(Tile) : IsSent(b)}

\* Where the tile stands.
StageInv ==
  /\ stage \in {"lines", "blocks"} /\ rest \subseteq Rest(Tile)
  /\ stage = "lines" => rest = {}

\* The blocks handed over are just those that are queued, held or coded.
BlocksInv ==
  /\ LinesInv /\ pushes \in Nat /\ StageInv
  /\ DOMAIN coded = Blocks(Tile)
  /\ Placed(SentBlocks) /\ Waited

\* Placed is said of the blocks handed over by now.
LEMMA PlacedMoves ==
  ASSUME NEW S, Placed(S)', SentBlocks' = S
  PROVE  Placed(SentBlocks)'
BY DEF Placed

\* A whole block row lower in the band is a whole block row lower.
LEMMA RowBelow ==
  ASSUME NEW a \in Nat, NEW d \in Nat \ {0}, NEW k \in Int
  PROVE  (a + k * d) \div d = (a \div d) + k
<1> DEFINE q == a \div d
           m == a % d
           p == d * q
           z == k * d
<1>1. q \in Int /\ m \in Int /\ p \in Int /\ z \in Int /\ a = p + m /\ 0 <= m /\ m < d
  BY DivMod
<1>2. d * (q + k) = p + z
  <2> HIDE DEF q
  <2>1. q \in Int
    BY <1>1
  <2> QED
    BY <2>1
<1> HIDE DEF q, m, p, z
<1>3. a + z \in Int /\ q + k \in Int /\ d * (q + k) <= a + z /\ a + z < d * (q + k) + d
  <2> DEFINE x == d * (q + k)
  <2>1. x = p + z
    BY <1>2
  <2> HIDE DEF x
  <2>2. a + z \in Int /\ q + k \in Int /\ x <= a + z /\ a + z < x + d
    BY <1>1, <2>1
  <2> QED
    BY <2>2 DEF x
<1>4. (a + z) \div d = q + k
  BY <1>3, DivIs
<1> QED
  BY <1>4 DEF z, q

\* Code-block rows are the rows of a band divided by the height of a block.
LEMMA BlockNumbers ==
  ASSUME NEW t, Sane(t), NEW b \in Blocks(t), b[2] \in 1 .. t.NL
  PROVE  LET top == BandTop(t, b[1], b[2], b[3])
             end == BandEnd(t, b[1], b[2], b[3])
         IN  /\ top \in Nat /\ end \in Nat /\ top < end
             /\ top \div t.cbh \in Int /\ b[4] \in Int
             /\ top \div t.cbh <= b[4] /\ b[4] <= (end - 1) \div t.cbh
             /\ (end - 1) \div t.cbh \in Int
<1> DEFINE c == b[1]
           l == b[2]
           top == BandTop(t, c, l, b[3])
           end == BandEnd(t, c, l, b[3])
           p == top \div t.cbh
           q == (end - 1) \div t.cbh
<1>1. c \in DOMAIN t.yrs /\ l \in 1 .. t.NL /\ b[3] \in BandsOf(l) /\ b[4] \in BlockRows(t, c, l, b[3])
  BY BlockPlace
<1>2. BandHeight(t, c, l, b[3]) = end - top
  BY DEF BandHeight
<1>3. BandHeight(t, c, l, b[3]) # 0 /\ b[4] \in p .. q
  BY <1>1 DEF BlockRows
<1>4. t.cbh \in Nat \ {0}
  BY DEF Sane, TileOK
<1> HIDE DEF c, l
<1>5. top \in Nat /\ end \in Nat /\ top <= end
  <2>1. PICK f : f = IF b[3] = "HL" THEN 1 ELSE 2
    OBVIOUS
  <2>2. 0 \in Int
    OBVIOUS
  <2> QED
    BY <1>1, <2>1, <2>2, BandRows
<1> HIDE DEF top, end
<1>6. end - 1 \in Int /\ top \in Int /\ top < end
  BY <1>2, <1>3, <1>5
<1>7. p \in Int
  BY <1>4, <1>6, DivMod
<1>8. q \in Int
  BY <1>4, <1>6, DivMod
<1> HIDE DEF p, q
<1>9. b[4] \in Int /\ p <= b[4] /\ b[4] <= q
  BY <1>3, <1>7, <1>8
<1> QED
  BY <1>5, <1>6, <1>7, <1>8, <1>9 DEF top, end, p, q, c, l

\* The blocks of a logical row.
LEMMA RowBlocksAre ==
  ASSUME TileInv, NEW c \in Lanes, NEW l \in Levels, NEW br \in Int
  PROVE  RowBlocks(c, l, br) = {b \in Blocks(Tile) : b[1] = c /\ b[2] = l /\ BrOf(b) = br}
<1>1. Sane(Tile) /\ c \in DOMAIN Tile.yrs /\ l \in 0 .. Tile.NL /\ l \in 1 .. Tile.NL
  BY TileFacts DEF Levels
<1>2. Tile.cbh \in Nat \ {0}
  BY <1>1 DEF Sane, TileOK
<1> DEFINE t == Tile
<1>3. Resolution(t, c, l) = {b \in Blocks(t) : b[1] = c /\ b[2] = l}
  <2> HIDE DEF t
  <2> QED
    BY <1>1, ResolutionIs DEF t
<1>4. ASSUME NEW b \in Blocks(t), b[1] = c, b[2] = l
      PROVE  b[4] = (BandTop(t, c, l, b[3]) + br * t.cbh) \div t.cbh <=> BrOf(b) = br
  <2> DEFINE top == BandTop(t, c, l, b[3])
  <2>1. Sane(t) /\ b \in Blocks(t) /\ b[2] \in 1 .. t.NL
    BY <1>1, <1>4
  <2>2. /\ BandTop(t, b[1], b[2], b[3]) \in Nat
        /\ BandTop(t, b[1], b[2], b[3]) \div t.cbh \in Int /\ b[4] \in Int
    <3> HIDE DEF t
    <3> QED
      BY <2>1, BlockNumbers
  <2>3. top \in Nat /\ top \div t.cbh \in Int /\ b[4] \in Int
    BY <1>4, <2>2
  <2>5. (top + br * t.cbh) \div t.cbh = (top \div t.cbh) + br
    BY <1>2, <2>3, RowBelow
  <2>6. BrOf(b) = b[4] - (top \div t.cbh)
    BY <1>4 DEF BrOf
  <2> DEFINE z == top \div t.cbh
             g == (top + br * t.cbh) \div t.cbh
  <2> HIDE DEF z, g
  <2>7. z \in Int /\ g = z + br /\ BrOf(b) = b[4] - z
    BY <2>3, <2>5, <2>6 DEF z, g
  <2>8. b[4] = g <=> BrOf(b) = br
    BY <2>3, <2>7
  <2> QED
    BY <2>8 DEF g
<1> HIDE DEF t
<1> QED
  BY <1>3, <1>4 DEF RowBlocks, t

\* The block rows of a fresh level are not complete.
LEMMA FreshNotDone ==
  ASSUME NEW t, Sane(t), NEW c \in DOMAIN t.yrs, NEW l \in 1 .. t.NL,
         NEW br \in DOMAIN FreshRowDone(t, c, l)
  PROVE  FreshRowDone(t, c, l)[br] # {1, 2}
<1> DEFINE hl == BandHeight(t, c, l, "HL")
           lh == BandHeight(t, c, l, "LH")
           R == 0 .. CeilDiv(Max({hl, lh}), t.cbh) - 1
<1>1. br \in R
  BY DEF FreshRowDone
<1>2. FreshRowDone(t, c, l)[br] = {f \in {1, 2} : br * t.cbh >= IF f = 1 THEN hl ELSE lh}
  BY <1>1 DEF FreshRowDone
<1>3. br \in Nat /\ br \in BlockRange(t, c, l)
  BY <1>1 DEF BlockRange, HalfHeight, HalfBand
<1>4. PICK f \in {1, 2} : br * t.cbh < HalfHeight(t, c, l, f)
  BY <1>3, BlockRangeIs
<1>5. HalfHeight(t, c, l, f) = (IF f = 1 THEN hl ELSE lh) /\ HalfHeight(t, c, l, f) \in Nat
      /\ br * t.cbh \in Nat
  <2>1. HalfHeight(t, c, l, f) \in Nat
    BY HalfRows
  <2>2. t.cbh \in Nat
    BY DEF Sane, TileOK
  <2> QED
    BY <1>3, <1>4, <2>1, <2>2 DEF HalfHeight, HalfBand
<1> DEFINE z == br * t.cbh
           h == HalfHeight(t, c, l, f)
           F == {g \in {1, 2} : z >= IF g = 1 THEN hl ELSE lh}
<1> HIDE DEF hl, lh
<1>6. z >= h <=> z >= IF f = 1 THEN hl ELSE lh
  BY <1>5
<1> HIDE DEF z, h
<1>7. ~(z >= h)
  BY <1>4, <1>5 DEF z, h
<1>8. f \notin F
  BY <1>6, <1>7
<1> QED
  BY <1>2, <1>4, <1>8 DEF z

\* Nothing is handed over of a tile that begins.
TileFresh ==
  /\ TileInv /\ rowDone = FreshRowsDone(Tile) /\ stage = "lines"
  /\ coded = [b \in Blocks(Tile) |-> 0]
  /\ queue = <<>> /\ running = [w \in EncWorkers |-> NoBlock] /\ left = 0

\* Nothing of a tile that begins is handed over.
LEMMA FreshPlaces == TileFresh => Placed(SentBlocks) /\ Waited
<1> SUFFICES ASSUME TileFresh PROVE Placed(SentBlocks) /\ Waited
  OBVIOUS
<1> USE DEF TileFresh
<1>1. Sane(Tile)
  BY TileFacts
<1>2. \A b \in Blocks(Tile) : ~ IsSent(b)
  <2> SUFFICES ASSUME NEW b \in Blocks(Tile), Overlapped(b),
                      BrOf(b) \in DOMAIN rowDone[b[1]][b[2]]
               PROVE  rowDone[b[1]][b[2]][BrOf(b)] # {1, 2}
    BY DEF IsSent
  <2> DEFINE c == b[1]
             l == b[2]
             t == Tile
  <2>1. c \in DOMAIN t.yrs /\ l \in 0 .. t.NL
    BY <1>1, BlockPlace
  <2>2. l \in 1 .. t.NL
    BY <2>1 DEF Overlapped
  <2>3. rowDone[c][l] = FreshRowDone(t, c, l)
    BY <2>1, <2>2 DEF FreshRowsDone
  <2>4. Sane(t) /\ BrOf(b) \in DOMAIN FreshRowDone(t, c, l)
    BY <1>1, <2>3
  <2> HIDE DEF t, c, l
  <2>5. FreshRowDone(t, c, l)[BrOf(b)] # {1, 2}
    BY <2>1, <2>2, <2>4, FreshNotDone
  <2> QED
    BY <2>3, <2>5 DEF c, l
<1>3. SentBlocks = {}
  BY <1>2 DEF SentBlocks
<1>4. Busy = {}
  BY DEF Busy
<1>5. Placed({})
  <2>1. queue \in Seq({}) /\ DOMAIN queue = {}
    OBVIOUS
  <2>2. coded \in [DOMAIN coded -> {0, 1}] /\ \A b \in DOMAIN coded : coded[b] = 0
    OBVIOUS
  <2>3. running \in [EncWorkers -> {} \cup {NoBlock}]
    OBVIOUS
  <2> QED
    BY <1>4, <2>1, <2>2, <2>3 DEF Placed
<1>6. Waited
  BY <1>4, FS_EmptySet DEF Waited
<1> QED
  BY <1>3, <1>5, <1>6

\* Nothing happens to the flags and the blocks.
LEMMA BlocksSame ==
  ASSUME BlocksInv, LinesInv', pushes' \in Nat,
         UNCHANGED <<job, tile, encPool, rowDone, stage, rest, queue, running, left, coded>>
  PROVE  BlocksInv'
<1>1. TileInv
  BY DEF BlocksInv, LinesInv
<1>2. Tile' = Tile
  BY <1>1, TileSame
<1> HIDE DEF Tile
<1>3. SentBlocks' = SentBlocks
  BY <1>2 DEF SentBlocks, IsSent, Overlapped, BrOf
<1>4. PICK S : S = SentBlocks
  OBVIOUS
<1>5. Placed(S)
  BY <1>4 DEF BlocksInv
<1>6. NoBlock' = NoBlock
  BY DEF NoBlock
<1> HIDE DEF NoBlock
<1>7. Placed(S)' /\ Waited'
  <2>1. Waited'
    BY <1>6 DEF Waited, Busy, BlocksInv
  <2>2. Busy' = Busy
    BY <1>6 DEF Busy
  <2>3. Placed(S)'
    BY <1>5, <1>6, <2>2 DEF Placed, Queued, Held
  <2> QED
    BY <2>1, <2>3
<1>8. Placed(SentBlocks)'
  BY <1>3, <1>4, <1>7, PlacedMoves
<1>9. StageInv' /\ DOMAIN coded' = Blocks(Tile')
  BY <1>2 DEF BlocksInv, StageInv
<1> QED
  BY <1>7, <1>8, <1>9 DEF BlocksInv

\* Workers take and code what was handed over.
LEMMA WorkersKeepBlocks ==
  ASSUME BlocksInv, NEW w \in EncWorkers, EncWorker(w)
  PROVE  BlocksInv'
<1>1. TileInv /\ LinesInv
  BY DEF BlocksInv, LinesInv
<1>2. UNCHANGED <<job, tile, encPool, rowDone, stage, rest, pushes>>
  BY DEF EncWorker, StartBlock, EncodeBlock, jobVars, laneVars
<1>3. Tile' = Tile
  BY <1>1, <1>2, TileSame
<1> HIDE DEF Tile
<1>4. SentBlocks' = SentBlocks
  BY <1>2, <1>3 DEF SentBlocks, IsSent, Overlapped, BrOf
<1>5. PICK S : S = SentBlocks
  OBVIOUS
<1>6. Placed(S) /\ Waited
  BY <1>5 DEF BlocksInv
<1>7. Placed(S)' /\ Waited' /\ DOMAIN coded' = DOMAIN coded
  <2>1. CASE StartBlock(w)
    BY <1>6, <2>1, StartPlaces
  <2>2. CASE EncodeBlock(w)
    BY <1>6, <2>2, EndPlaces
  <2> QED
    BY <2>1, <2>2 DEF EncWorker
<1>8. Placed(SentBlocks)'
  BY <1>4, <1>5, <1>7, PlacedMoves
<1>9. LinesInv'
  BY <1>1, WorkersKeepLines
<1>10. StageInv' /\ DOMAIN coded' = Blocks(Tile')
  BY <1>2, <1>3, <1>7 DEF BlocksInv, StageInv
<1>11. pushes' \in Nat
  BY <1>2 DEF BlocksInv
<1> QED
  BY <1>7, <1>8, <1>9, <1>10, <1>11 DEF BlocksInv

\* The main thread hands over a set of blocks.
LEMMA HandedOver ==
  ASSUME BlocksInv, LinesInv', pushes' \in Nat, StageInv', UNCHANGED <<job, tile, encPool>>,
         NEW B, B \subseteq Blocks(Tile), Submit(B),
         \A b \in Blocks(Tile) : (IsSent(b)' <=> IsSent(b) \/ b \in B) /\ ~ (IsSent(b) /\ b \in B)
  PROVE  BlocksInv'
<1>1. TileInv
  BY DEF BlocksInv, LinesInv
<1>2. Tile' = Tile /\ Sane(Tile)
  BY <1>1, TileSame, TileFacts
<1>3. IsFiniteSet(B) /\ NoBlock \notin B
  <2>1. IsFiniteSet(Blocks(Tile))
    BY <1>2, BlocksFinite
  <2>2. \A b \in Blocks(Tile) : b # NoBlock
    BY <1>2, BlockPlace
  <2> QED
    BY <2>1, <2>2, FS_Subset
<1> HIDE DEF Tile
<1>4. PICK S : S = SentBlocks
  OBVIOUS
<1>5. Placed(S) /\ Waited /\ B \subseteq DOMAIN coded
  BY <1>4 DEF BlocksInv
<1>6. B \cap S = {}
  BY <1>4 DEF SentBlocks
<1>7. Placed(S \cup B)' /\ Waited' /\ DOMAIN coded' = DOMAIN coded
  BY <1>3, <1>5, <1>6, SubmitPlaces
<1>8. SentBlocks' = S \cup B
  BY <1>2, <1>4 DEF SentBlocks
<1>9. PICK T : T = S \cup B
  OBVIOUS
<1>10. Placed(T)' /\ SentBlocks' = T
  BY <1>7, <1>8, <1>9
<1>11. Placed(SentBlocks)'
  BY <1>10, PlacedMoves
<1>12. DOMAIN coded' = Blocks(Tile')
  BY <1>2, <1>7 DEF BlocksInv
<1> QED
  BY <1>7, <1>11, <1>12 DEF BlocksInv

\* The stages of the main thread that hand nothing over.
LEMMA WaitKeepsBlocks ==
  ASSUME BlocksInv, WaitOverlap
  PROVE  BlocksInv'
<1>1. TileInv /\ LinesInv
  BY DEF BlocksInv, LinesInv
<1>2. /\ UNCHANGED <<job, tile, encPool, laneVars, queue, running, left, coded>>
      /\ stage = "lines" /\ stage' = "blocks" /\ rest' = Rest(Tile)
  BY DEF WaitOverlap, poolVars
<1>3. Tile' = Tile /\ Sane(Tile)
  BY <1>1, <1>2, TileSame, TileFacts
<1>4. LinesInv'
  BY <1>1, <1>2, LinesSame
<1>5. \A b \in Blocks(Tile) : <<b[1], b[2]>> \in Rest(Tile) \/ Overlapped(b)
  <2> SUFFICES ASSUME NEW b \in Blocks(Tile), ~ Overlapped(b)
               PROVE  <<b[1], b[2]>> \in Rest(Tile)
    OBVIOUS
  <2>1. b[1] \in DOMAIN Tile.yrs /\ b[2] \in 0 .. Tile.NL
    BY <1>3, BlockPlace
  <2> QED
    BY <2>1 DEF Rest, Overlapped
<1> HIDE DEF Tile
<1>6. \A b : Overlapped(b)' <=> Overlapped(b)
  BY <1>3 DEF Overlapped
<1>7. \A b : BrOf(b)' = BrOf(b)
  BY <1>3 DEF BrOf
<1>8. ASSUME NEW b \in Blocks(Tile) PROVE IsSent(b)' <=> IsSent(b)
  <2>1. CASE Overlapped(b)
    BY <1>2, <1>6, <1>7, <2>1 DEF IsSent, laneVars
  <2>2. CASE ~ Overlapped(b)
    <3>1. ~ IsSent(b)
      BY <1>2, <2>2 DEF IsSent
    <3>2. ~ IsSent(b)'
      BY <1>2, <1>5, <1>6, <2>2 DEF IsSent
    <3> QED
      BY <3>1, <3>2
  <2> QED
    BY <2>1, <2>2
<1>9. SentBlocks' = SentBlocks
  BY <1>3, <1>8 DEF SentBlocks
<1>10. PICK S : S = SentBlocks
  OBVIOUS
<1>11. Placed(S) /\ Waited
  BY <1>10 DEF BlocksInv
<1>12. NoBlock' = NoBlock
  BY DEF NoBlock
<1> HIDE DEF NoBlock
<1>13. Busy' = Busy
  BY <1>2, <1>12 DEF Busy
<1>14. Placed(S)'
  BY <1>2, <1>11, <1>12, <1>13 DEF Placed, Queued, Held
<1>15. Waited'
  BY <1>2, <1>11, <1>13 DEF Waited
<1>16. Placed(SentBlocks)'
  BY <1>9, <1>10, <1>14, PlacedMoves
<1>17. StageInv' /\ DOMAIN coded' = Blocks(Tile') /\ pushes' \in Nat
  BY <1>2, <1>3 DEF BlocksInv, StageInv, laneVars
<1> QED
  BY <1>4, <1>15, <1>16, <1>17 DEF BlocksInv

\* A resolution that is left to the end is handed over whole.
LEMMA ResolutionKeepsBlocks ==
  ASSUME BlocksInv, EncodeResolution
  PROVE  BlocksInv'
<1> DEFINE c == Min({p[1] : p \in rest})
           l == Max({p[2] : p \in {q \in rest : q[1] = c}})
           B == Resolution(Tile, c, l)
<1>1. TileInv /\ LinesInv /\ StageInv
  BY DEF BlocksInv, LinesInv
<1>2. /\ rest # {} /\ Submit(B) /\ rest' = rest \ {<<c, l>>}
      /\ UNCHANGED <<job, encPool, tile, stage, laneVars>>
  BY DEF EncodeResolution
<1>3. Tile' = Tile /\ Sane(Tile)
  BY <1>1, <1>2, TileSame, TileFacts
<1>4. LinesInv'
  BY <1>1, <1>2, LinesSame
<1>5. <<c, l>> \in rest
  <2>1. Tile.NL \in Nat /\ Lanes = DOMAIN Tile.yrs
    BY <1>1, TileFacts
  <2>2. rest \subseteq Nat \X (0 .. Tile.NL)
    <3>1. Lanes \subseteq Nat
      BY DEF Lanes
    <3> QED
      BY <1>1, <2>1, <3>1 DEF StageInv, Rest
  <2> HIDE DEF c, l, Tile
  <2> QED
    BY <1>2, <2>1, <2>2, NextPair DEF c, l
<1> HIDE DEF c, l
<1>6. c \in DOMAIN Tile.yrs /\ l \in 0 .. Tile.NL /\ (l = 0 \/ ~ Overlap(Tile, c))
  BY <1>1, <1>5 DEF StageInv, Rest
<1>7. B = {b \in Blocks(Tile) : b[1] = c /\ b[2] = l}
  <2> HIDE DEF Tile
  <2> QED
    BY <1>3, <1>6, ResolutionIs
<1> HIDE DEF B
<1>8. stage = "blocks"
  BY <1>1, <1>2 DEF StageInv
<1>9. \A b : Overlapped(b)' <=> Overlapped(b)
  <2> HIDE DEF Tile
  <2> QED
    BY <1>3 DEF Overlapped
<1>10. \A b : BrOf(b)' = BrOf(b)
  <2> HIDE DEF Tile
  <2> QED
    BY <1>3 DEF BrOf
<1>11. ASSUME NEW b \in Blocks(Tile)
       PROVE  (IsSent(b)' <=> IsSent(b) \/ b \in B) /\ ~ (IsSent(b) /\ b \in B)
  <2>1. b \in B <=> b[1] = c /\ b[2] = l
    BY <1>7
  <2>2. CASE Overlapped(b)
    <3>1. b \notin B
      BY <1>6, <2>1, <2>2 DEF Overlapped
    <3>2. IsSent(b)' <=> IsSent(b)
      BY <1>2, <1>9, <1>10, <2>2 DEF IsSent, laneVars
    <3> QED
      BY <3>1, <3>2
  <2>3. CASE ~ Overlapped(b)
    <3>1. IsSent(b) <=> <<b[1], b[2]>> \notin rest
      BY <1>8, <2>3 DEF IsSent
    <3>2. IsSent(b)' <=> <<b[1], b[2]>> \notin rest'
      BY <1>2, <1>8, <1>9, <2>3 DEF IsSent
    <3>3. <<b[1], b[2]>> = <<c, l>> <=> b \in B
      BY <2>1
    <3> QED
      BY <1>2, <1>5, <3>1, <3>2, <3>3
  <2> QED
    BY <2>2, <2>3
<1>12. B \subseteq Blocks(Tile)
  BY <1>7
<1>13. StageInv'
  <2> HIDE DEF Tile
  <2> QED
    BY <1>1, <1>2, <1>3, <1>8 DEF StageInv
<1>14. pushes' \in Nat
  BY <1>2 DEF BlocksInv, laneVars
<1> QED
  BY <1>2, <1>4, <1>11, <1>12, <1>13, <1>14, HandedOver

\* A row comes out: if it is the last one of a block row in every band, the block
\* row is handed over, for the first time.
LEMMA EmitKeepsBlocks ==
  ASSUME BlocksInv, NEW c \in Lanes, NEW l \in Levels, Emit(c, l)
  PROVE  BlocksInv'
<1> DEFINE f == NextHalf(c, l)
           br == NextBlockRow(c, l)
           done == rowDone[c][l]
           B == Released(c, l)
<1>1. TileInv /\ LinesInv /\ StageInv
  BY DEF BlocksInv, LinesInv
<1>2. /\ CanEmit(fdwt[c][l])
      /\ UNCHANGED <<job, encPool, tile, stage, rest, pushes>>
  BY <1>1, EmitParts DEF jobVars
<1>3. Tile' = Tile /\ Sane(Tile) /\ Lanes' = Lanes /\ Levels' = Levels
  BY <1>1, <1>2, TileSame, TileFacts
<1>4. LinesInv'
  BY <1>1, EmitLines
<1>5. StageInv' /\ pushes' \in Nat
  <2> HIDE DEF Tile
  <2> QED
    BY <1>1, <1>2, <1>3 DEF StageInv, BlocksInv
<1>6. CASE ~ Completing(c, l)
  <2>1. UNCHANGED <<rowDone, queue, running, left, coded>>
    BY <1>1, <1>6, EmitParts
  <2> QED
    BY <1>2, <1>4, <1>5, <2>1, BlocksSame
<1>7. CASE Completing(c, l)
  <2>1. Submit(B)
    BY <1>1, <1>7, EmitParts
  <2>2. Overlap(Tile, c)
    BY <1>7 DEF Completing
  <2>3. br \in DOMAIN done /\ f \in {1, 2} /\ f \notin done[br]
    BY <1>1, <1>2, <1>7, <2>2, EmitCompletes
  <2>4. /\ \A d \in Lanes : \A k \in Levels : d # c \/ k # l => rowDone'[d][k] = rowDone[d][k]
        /\ rowDone'[c][l] = [done EXCEPT ![br] = @ \cup {f}]
    BY <1>1, <1>7, EmitFlags
  <2>5. B = IF done[br] \cup {f} = {1, 2} THEN RowBlocks(c, l, br) ELSE {}
    BY DEF Released
  <2>6. br \in Int
    <3>1. done = FlagsOf(Tile, c, l, fdwt[c][l].nextOut)
      BY <1>1, <2>2 DEF LinesInv
    <3>2. DOMAIN done = BlockRange(Tile, c, l)
      BY <3>1 DEF FlagsOf
    <3> HIDE DEF br, done
    <3> QED
      BY <2>3, <3>2 DEF BlockRange
  <2> HIDE DEF f, br, B, done
  <2>7. RowBlocks(c, l, br) = {b \in Blocks(Tile) : b[1] = c /\ b[2] = l /\ BrOf(b) = br}
    BY <1>1, <2>6, RowBlocksAre
  <2>8. \A b : Overlapped(b)' <=> Overlapped(b)
    <3> HIDE DEF Tile
    <3> QED
      BY <1>3 DEF Overlapped
  <2>9. \A b : BrOf(b)' = BrOf(b)
    <3> HIDE DEF Tile
    <3> QED
      BY <1>3 DEF BrOf
  <2>10. ASSUME NEW b \in Blocks(Tile)
         PROVE  (IsSent(b)' <=> IsSent(b) \/ b \in B) /\ ~ (IsSent(b) /\ b \in B)
    <3>1. b[1] \in Lanes /\ b[2] \in 0 .. Tile.NL
      BY <1>1, <1>3, BlockPlace, TileFacts
    <3>2. b \in B <=> done[br] \cup {f} = {1, 2} /\ b[1] = c /\ b[2] = l /\ BrOf(b) = br
      BY <2>5, <2>7
    <3>3. Overlapped(b) <=> b[2] \in Levels /\ Overlap(Tile, b[1])
      BY <1>1, <3>1, TileFacts DEF Overlapped, Levels
    <3>4. l # 0
      BY <1>1, TileFacts DEF Levels
    <3> HIDE DEF Tile, Lanes, Levels, BrOf
    <3>5. CASE ~ Overlapped(b)
      <4>1. b \notin B
        BY <2>2, <3>2, <3>3, <3>5
      <4>2. IsSent(b)' <=> IsSent(b)
        BY <1>2, <2>8, <3>5 DEF IsSent
      <4> QED
        BY <4>1, <4>2
    <3>6. CASE Overlapped(b) /\ (b[1] # c \/ b[2] # l)
      <4>1. b \notin B
        BY <3>2, <3>6
      <4>2. rowDone'[b[1]][b[2]] = rowDone[b[1]][b[2]]
        BY <2>4, <3>1, <3>3, <3>6
      <4>3. IsSent(b)' <=> IsSent(b)
        BY <2>8, <2>9, <3>6, <4>2 DEF IsSent
      <4> QED
        BY <4>1, <4>3
    <3>7. CASE Overlapped(b) /\ b[1] = c /\ b[2] = l
      <4> DEFINE m == BrOf(b)
                 more == rowDone'[c][l]
      <4>1. IsSent(b) <=> m \in DOMAIN done /\ done[m] = {1, 2}
        BY <3>7 DEF IsSent, done
      <4>2. IsSent(b)' <=> m \in DOMAIN more /\ more[m] = {1, 2}
        BY <2>8, <2>9, <3>7 DEF IsSent
      <4> HIDE DEF m
      <4>3. DOMAIN more = DOMAIN done
        BY <2>4
      <4>4. CASE m = br
        <5>1. more[m] = done[m] \cup {f}
          BY <2>3, <2>4, <4>4
        <5>2. ~ IsSent(b)
          BY <2>3, <4>1, <4>4
        <5>3. b \in B <=> done[m] \cup {f} = {1, 2}
          BY <3>2, <3>7, <4>4 DEF m
        <5> QED
          BY <2>3, <4>2, <4>3, <4>4, <5>1, <5>2, <5>3
      <4>5. CASE m # br
        <5>1. m \in DOMAIN done => more[m] = done[m]
          BY <2>4, <4>5
        <5>2. b \notin B
          BY <3>2, <4>5 DEF m
        <5> QED
          BY <4>1, <4>2, <4>3, <5>1, <5>2
      <4> QED
        BY <4>4, <4>5
    <3> QED
      BY <3>5, <3>6, <3>7
  <2>11. B \subseteq Blocks(Tile)
    BY <2>5, <2>7
  <2> QED
    BY <1>2, <1>4, <1>5, <2>1, <2>10, <2>11, HandedOver
<1> QED
  BY <1>6, <1>7

\* Initially, and when a tile begins.
LEMMA InitBlocks == EncInit => BlocksInv
<1> SUFFICES ASSUME EncInit PROVE BlocksInv
  OBVIOUS
<1>1. LinesInv /\ pushes \in Nat /\ TileInv /\ Tile = job[1]
  BY InitLines, FirstTile
<1>2. /\ rowDone = FreshRowsDone(Tile) /\ stage = "lines" /\ rest = {}
      /\ coded = [b \in Blocks(Tile) |-> 0] /\ queue = <<>> /\ left = 0
      /\ running = [w \in EncWorkers |-> NoBlock]
  BY <1>1 DEF EncInit
<1>3. StageInv /\ DOMAIN coded = Blocks(Tile)
  BY <1>2 DEF StageInv
<1>4. Placed(SentBlocks) /\ Waited
  BY <1>1, <1>2, FreshPlaces DEF TileFresh
<1> QED
  BY <1>1, <1>3, <1>4 DEF BlocksInv

\* A tile begins when no block of the last one is queued or held.
LEMMA NextTileKeepsBlocks ==
  ASSUME BlocksInv, NextTile
  PROVE  BlocksInv'
<1>1. LinesInv' /\ pushes' \in Nat /\ TileInv' /\ Tile' = job[tile + 1]
  BY NextTileKeepsLines DEF BlocksInv
<1>2. /\ left <= 0 /\ UNCHANGED <<queue, running, left>>
      /\ rowDone' = FreshRowsDone(job[tile + 1]) /\ stage' = "lines" /\ rest' = {}
      /\ coded' = [b \in Blocks(job[tile + 1]) |-> 0]
  BY DEF NextTile, Encoded
<1>3. queue = <<>> /\ Busy = {} /\ left = 0
  <2>1. queue \in Seq(SentBlocks) /\ left = Len(queue) + Cardinality(Busy)
    BY DEF BlocksInv, Placed, Waited
  <2>2. Len(queue) \in Nat /\ Cardinality(Busy) \in Nat /\ IsFiniteSet(Busy)
    BY <2>1, BusyFinite
  <2>3. Len(queue) = 0 /\ Cardinality(Busy) = 0 /\ left = 0
    BY <1>2, <2>1, <2>2
  <2> QED
    BY <2>1, <2>2, <2>3, FS_EmptySet
<1>4. running = [w \in EncWorkers |-> NoBlock]
  <2>1. running \in [EncWorkers -> SentBlocks \cup {NoBlock}]
    BY DEF BlocksInv, Placed
  <2> QED
    BY <1>3, <2>1 DEF Busy
<1>5. NoBlock' = NoBlock
  BY DEF NoBlock
<1>6. TileFresh'
  <2> HIDE DEF NoBlock, Tile
  <2> QED
    BY <1>1, <1>2, <1>3, <1>4, <1>5 DEF TileFresh
<1>7. Placed(SentBlocks)' /\ Waited'
  <2>1. (TileFresh => Placed(SentBlocks) /\ Waited)'
    BY FreshPlaces, PTL
  <2> QED
    BY <1>6, <2>1
<1>8. StageInv' /\ DOMAIN coded' = Blocks(Tile')
  BY <1>1, <1>2 DEF StageInv
<1> QED
  BY <1>1, <1>7, <1>8 DEF BlocksInv

\* BlocksInv is inductive.
LEMMA NextKeepsBlocks == BlocksInv /\ [EncNext]_encVars => BlocksInv'
<1> SUFFICES ASSUME BlocksInv, [EncNext]_encVars PROVE BlocksInv'
  OBVIOUS
<1>1. LinesInv /\ pushes \in Nat
  BY DEF BlocksInv
<1>2. CASE PushRow
  <2>1. LinesInv' /\ pushes' \in Nat
    BY <1>1, <1>2, PushKeepsLines
  <2>2. UNCHANGED <<job, tile, encPool, rowDone, stage, rest, queue, running, left, coded>>
    BY <1>2 DEF PushRow, jobVars, poolVars
  <2> QED
    BY <2>1, <2>2, BlocksSame
<1>3. CASE Flush
  <2>1. LinesInv' /\ pushes' \in Nat
    BY <1>1, <1>3, FlushKeepsLines
  <2>2. UNCHANGED <<job, tile, encPool, rowDone, stage, rest, queue, running, left, coded>>
    BY <1>3 DEF Flush, jobVars, poolVars
  <2> QED
    BY <2>1, <2>2, BlocksSame
<1>4. CASE WaitOverlap
  BY <1>4, WaitKeepsBlocks
<1>5. CASE EncodeResolution
  BY <1>5, ResolutionKeepsBlocks
<1>6. CASE NextTile
  BY <1>6, NextTileKeepsBlocks
<1>7. ASSUME NEW c \in Lanes, NEW l \in Levels, Emit(c, l)
      PROVE  BlocksInv'
  BY <1>7, EmitKeepsBlocks
<1>8. ASSUME NEW w \in EncWorkers, EncWorker(w)
      PROVE  BlocksInv'
  BY <1>8, WorkersKeepBlocks
<1>9. CASE UNCHANGED encVars
  <2>1. UNCHANGED <<job, tile, encPool, laneVars, stage, rest, queue, running, left, coded>>
    BY <1>9 DEF encVars, jobVars, poolVars
  <2>2. LinesInv'
    BY <1>1, <2>1, LinesSame
  <2>3. pushes' \in Nat /\ rowDone' = rowDone
    BY <1>1, <2>1 DEF laneVars
  <2> QED
    BY <2>1, <2>2, <2>3, BlocksSame
<1> QED
  BY <1>2, <1>3, <1>4, <1>5, <1>6, <1>7, <1>8, <1>9 DEF EncNext, EncMain

\* The blocks handed over are queued, held by one thread or coded, those that
\* t1_encode or the overlapped dispatch has not reached are none of these: the
\* bookkeeping behind enc_remaining.
THEOREM BlocksInvariant == EncSpec => []BlocksInv
<1>1. EncInit => BlocksInv
  BY InitBlocks
<1>2. BlocksInv /\ [EncNext]_encVars => BlocksInv'
  BY NextKeepsBlocks
<1> QED
  BY <1>1, <1>2, PTL DEF EncSpec

-----------------------------------------------------------------------------
(* Rows of the blocks handed over. *)

\* When both halves of a block row are done, the rows of its blocks are out, also
\* where a band has a block in it although it is lower than the block row.
LEMMA DoneRows ==
  ASSUME NEW t, Sane(t), NEW c \in DOMAIN t.yrs, NEW l \in 1 .. t.NL,
         HalfTop(t, c, l, 1) = HalfTop(t, c, l, 2),
         NEW br \in BlockRange(t, c, l), NEW v \in Int,
         \A g \in {1, 2} : HalfDone(t, c, l, g, br, v),
         NEW f \in {1, 2}, NEW y \in Int,
         y < HalfTop(t, c, l, f) + HalfHeight(t, c, l, f),
         y < HalfTop(t, c, l, f) + br * t.cbh + t.cbh
  PROVE  2 * y + f - 1 < v
<1> DEFINE top == HalfTop(t, c, l, f)
           h(g) == HalfHeight(t, c, l, g)
           e(g) == HalfEnd(t, c, l, g, br)
           p == br * t.cbh
           d == t.cbh
<1>1. top \in Int /\ d \in Nat \ {0} /\ br \in Nat
  <2>1. top \in Int
    BY HalfRows
  <2> QED
    BY <2>1 DEF Sane, TileOK, BlockRange
<1>2. \A g \in {1, 2} :
        /\ h(g) \in Nat /\ p \in Nat /\ e(g) \in Nat
        /\ e(g) = IF p + d <= h(g) THEN p + d ELSE h(g)
        /\ HalfTop(t, c, l, g) = top
        /\ p >= h(g) \/ 2 * (top + e(g) - 1) + g - 1 < v
  <2> SUFFICES ASSUME NEW g \in {1, 2}
               PROVE  /\ h(g) \in Nat /\ p \in Nat /\ e(g) \in Nat
                      /\ e(g) = IF p + d <= h(g) THEN p + d ELSE h(g)
                      /\ HalfTop(t, c, l, g) = top
                      /\ p >= h(g) \/ 2 * (top + e(g) - 1) + g - 1 < v
    OBVIOUS
  <2>1. /\ h(g) \in Nat /\ p \in Nat /\ e(g) \in Nat
        /\ e(g) = IF p + d <= h(g) THEN p + d ELSE h(g)
    BY <1>1, HalfEndIs
  <2>2. HalfTop(t, c, l, g) = top
    OBVIOUS
  <2>3. HalfDone(t, c, l, g, br, v)
    OBVIOUS
  <2> QED
    BY <2>1, <2>2, <2>3 DEF HalfDone
<1>3. y < top + h(f) /\ y < top + p + d
  OBVIOUS
<1>4. PICK g \in {1, 2} : p < h(g)
  BY <1>1, BlockRangeIs
<1> HIDE DEF top, h, e, p, d
<1>5. CASE p < h(f)
  <2>1. e(f) \in Nat /\ h(f) \in Nat /\ p \in Nat /\ 2 * (top + e(f) - 1) + f - 1 < v
        /\ e(f) = IF p + d <= h(f) THEN p + d ELSE h(f)
    BY <1>2, <1>5
  <2>2. y <= top + e(f) - 1
    BY <1>1, <1>3, <2>1
  <2> QED
    BY <1>1, <2>1, <2>2
<1>6. CASE p >= h(f)
  <2>1. e(g) \in Nat /\ h(g) \in Nat /\ h(f) \in Nat /\ p \in Nat
        /\ 2 * (top + e(g) - 1) + g - 1 < v
        /\ e(g) = IF p + d <= h(g) THEN p + d ELSE h(g)
    BY <1>2, <1>4
  <2>2. e(g) >= p + 1
    BY <1>1, <1>4, <2>1
  <2>3. 2 * (top + p) < v
    BY <1>1, <2>1, <2>2
  <2>4. y <= top + p - 1
    BY <1>1, <1>3, <1>6, <2>1
  <2> QED
    BY <1>1, <2>1, <2>3, <2>4
<1>7. p \in Nat /\ h(f) \in Nat
  BY <1>2
<1> QED
  BY <1>5, <1>6, <1>7

\* When all rows of a level are out every block row is complete.
LEMMA DrainedFlags ==
  ASSUME NEW t, Sane(t), NEW c \in DOMAIN t.yrs, NEW l \in 1 .. t.NL,
         NEW br \in BlockRange(t, c, l)
  PROVE  FlagsOf(t, c, l, EncRow(t, c, l, t.v1))[br] = {1, 2}
<1>1. ASSUME NEW f \in {1, 2}
      PROVE  HalfDone(t, c, l, f, br, EncRow(t, c, l, t.v1))
  <2> DEFINE top == HalfTop(t, c, l, f)
             h == HalfHeight(t, c, l, f)
             e == HalfEnd(t, c, l, f, br)
             w == EncRow(t, c, l, t.v1)
             y == top + e - 1
  <2>1. top \in Nat /\ h \in Nat
        /\ \A z \in Int : z < top + h <=> 2 * z + f - 1 < w
    BY HalfRows
  <2>2. br \in Nat
    BY DEF BlockRange
  <2>3. e \in Nat /\ e <= h
    <3> DEFINE p == br * t.cbh
    <3>1. e \in Nat /\ h \in Nat /\ p \in Nat
          /\ e = IF p + t.cbh <= h THEN p + t.cbh ELSE h
      BY <2>2, HalfEndIs
    <3>2. t.cbh \in Nat
      BY DEF Sane, TileOK
    <3> HIDE DEF e, h, p
    <3> QED
      BY <3>1, <3>2
  <2>4. HalfDone(t, c, l, f, br, w) <=> br * t.cbh >= h \/ 2 * y + f - 1 < w
    BY DEF HalfDone
  <2> HIDE DEF top, h, e, w
  <2>5. y \in Int /\ y < top + h
    BY <2>1, <2>3
  <2> HIDE DEF y
  <2>6. 2 * y + f - 1 < w
    BY <2>1, <2>5
  <2>7. HalfDone(t, c, l, f, br, w)
    BY <2>4, <2>6
  <2> QED
    BY <2>7 DEF w
<1> QED
  BY <1>1 DEF FlagsOf

\* Rows that the blocks of a band cover, in the level that writes them: for LL0
\* the lowest one.
LEMMA BlockRowsInLevel ==
  ASSUME NEW t, Sane(t), NEW b \in Blocks(t),
         NEW l, l = IF b[2] = 0 THEN 1 ELSE b[2],
         NEW odd, odd = IF b[3] \in {"LH", "HH"} THEN 1 ELSE 0,
         NEW y \in Int, BandTop(t, b[1], b[2], b[3]) <= y, y < BandEnd(t, b[1], b[2], b[3])
  PROVE  /\ l \in 1 .. t.NL /\ 2 * y + odd \in Int
         /\ EncRow(t, b[1], l, t.v0) <= 2 * y + odd
         /\ 2 * y + odd < EncRow(t, b[1], l, t.v1)
<1>1. b[1] \in DOMAIN t.yrs /\ b[2] \in 0 .. t.NL /\ b[3] \in BandsOf(b[2])
  BY BlockPlace
<1>2. l \in 1 .. t.NL
  BY <1>1 DEF Sane, TileOK
<1>3. CASE b[2] = 0
  <2>1. b[3] = "LL" /\ odd = 0 /\ l = 1
    BY <1>1, <1>3 DEF BandsOf
  <2>2. EncRow(t, b[1], 0, t.v0) <= y /\ y < EncRow(t, b[1], 0, t.v1)
    BY <1>3, <2>1 DEF BandTop, BandEnd, EncBandRow
  <2>3. t.v0 \in Nat /\ t.v1 \in Nat
    BY DEF Sane, TileOK
  <2>4. EncRow(t, b[1], 1, t.v0) <= 2 * y /\ 2 * y < EncRow(t, b[1], 1, t.v1)
    <3>1. EncRow(t, b[1], 1, t.v0) <= 2 * y
      BY <1>1, <2>2, <2>3, LowestRows
    <3>2. 2 * y < EncRow(t, b[1], 1, t.v1)
      BY <1>1, <2>2, <2>3, LowestRows
    <3> QED
      BY <3>1, <3>2
  <2>5. 2 * y + odd = 2 * y
    BY <2>1
  <2> QED
    BY <1>2, <2>1, <2>4, <2>5
<1>4. CASE b[2] # 0
  <2>1. PICK f : f = IF b[3] = "HL" THEN 1 ELSE 2
    OBVIOUS
  <2>2. b[3] \in {"HL", "LH", "HH"} /\ l = b[2] /\ odd = f - 1 /\ f \in {1, 2}
    BY <1>1, <1>4, <2>1 DEF BandsOf
  <2>3. /\ EncRow(t, b[1], b[2], t.v0) <= 2 * y + f - 1
        /\ 2 * y + f - 1 < EncRow(t, b[1], b[2], t.v1)
    BY <1>1, <1>2, <2>1, <2>2, BandRows
  <2>4. 2 * y + odd = 2 * y + f - 1
    BY <2>2
  <2> QED
    BY <1>2, <2>2, <2>3, <2>4
<1> QED
  BY <1>3, <1>4

\* A quotient is rounded down.
LEMMA FloorBelow == \A a \in Int, d \in Nat \ {0} : a \div d \in Int /\ d * (a \div d) <= a
<1> SUFFICES ASSUME NEW a \in Int, NEW d \in Nat \ {0}
             PROVE  a \div d \in Int /\ d * (a \div d) <= a
  OBVIOUS
<1> DEFINE q == a \div d
           m == a % d
           p == d * q
<1>1. q \in Int /\ m \in Int /\ p \in Int /\ a = p + m /\ 0 <= m
  BY DivMod
<1> HIDE DEF q, m, p
<1>2. p <= a
  BY <1>1
<1> QED
  BY <1>1, <1>2 DEF p, q

\* The rows of a block are put, and rightly, when they are out.
LEMMA PutRows ==
  ASSUME LinesInv, RowsComeOut, NEW b \in Blocks(Tile),
         NEW l, l = IF b[2] = 0 THEN 1 ELSE b[2],
         NEW odd, odd = IF b[3] \in {"LH", "HH"} THEN 1 ELSE 0,
         NEW y \in Int,
         BandTop(Tile, b[1], b[2], b[3]) <= y, y < BandEnd(Tile, b[1], b[2], b[3]),
         2 * y + odd < fdwt[b[1]][l].nextOut
  PROVE  /\ Position(b, y) <= Len(written[b[1]][l])
         /\ written[b[1]][l][Position(b, y)]
<1> DEFINE c == b[1]
           s == fdwt[c][l]
           put == written[c][l]
           r == 2 * y + odd
           k == Position(b, y)
<1>1. Sane(Tile) /\ Lanes = DOMAIN Tile.yrs /\ Levels = 1 .. Tile.NL /\ TileInv
  BY TileFacts DEF LinesInv, Levels
<1>2. l \in 1 .. Tile.NL /\ r \in Int /\ EncRow(Tile, c, l, Tile.v0) <= r
  <2> HIDE DEF Tile
  <2> QED
    BY <1>1, BlockRowsInLevel
<1>3. c \in Lanes /\ l \in Levels
  <2>1. c \in Lanes
    <3> HIDE DEF Tile
    <3> QED
      BY <1>1, BlockPlace
  <2> QED
    BY <1>1, <1>2, <2>1
<1>4. LevelOK(Tile, c, l, s, put)
  BY <1>3 DEF LinesInv
<1>5. /\ s.v0 <= r /\ s.nextOut \in Int /\ r < s.nextOut
      /\ put \in Seq(BOOLEAN) /\ Len(put) = s.nextOut - s.v0
  BY <1>2, <1>4 DEF LevelOK
<1>6. s.v0 \in Int
  <2>1. EncRow(Tile, c, l, Tile.v0) \in Nat
    <3> HIDE DEF Tile
    <3>1. l \in 0 .. Tile.NL
      BY <1>1, <1>2 DEF Sane, TileOK
    <3> QED
      BY <1>1, <1>3, <3>1, RowType
  <2> QED
    BY <1>4, <2>1 DEF LevelOK
<1>7. k = r - s.v0 + 1
  BY DEF Position
<1> HIDE DEF s, r, k, put
<1>8. k \in Int /\ 1 <= k /\ k <= Len(put)
  BY <1>2, <1>5, <1>6, <1>7
<1>9. k \in DOMAIN put
  BY <1>5, <1>8
<1>10. put[k]
  <2>1. c \in DOMAIN written /\ l \in DOMAIN written[c]
    BY <1>3 DEF LinesInv, Table
  <2>2. \A i \in DOMAIN put : put[i]
    BY <2>1 DEF RowsComeOut, put
  <2> QED
    BY <1>9, <2>2
<1> QED
  BY <1>8, <1>10 DEF k, put

\* The blocks handed over have all their rows.
LEMMA SentFinished ==
  ASSUME BlocksInv, RowsComeOut, NEW b \in SentBlocks
  PROVE  Finished(b)
<1> DEFINE t == Tile
           c == b[1]
           l == IF b[2] = 0 THEN 1 ELSE b[2]
           odd == IF b[3] \in {"LH", "HH"} THEN 1 ELSE 0
           top == BandTop(t, c, b[2], b[3])
           end == BandEnd(t, c, b[2], b[3])
           s == fdwt[c][l]
<1>1. /\ LinesInv /\ TileInv /\ Sane(t) /\ Lanes = DOMAIN t.yrs /\ Levels = 1 .. t.NL
      /\ b \in Blocks(t) /\ IsSent(b)
  BY TileFacts DEF BlocksInv, LinesInv, SentBlocks, Levels
<1>2. c \in Lanes /\ b[2] \in 0 .. t.NL /\ b[3] \in BandsOf(b[2])
  <2>1. Sane(t) /\ b \in Blocks(t)
    BY <1>1
  <2> HIDE DEF t
  <2> QED
    BY <1>1, <2>1, BlockPlace
<1>3. l \in Levels
  BY <1>1, <1>2 DEF Sane, TileOK
<1>4. LevelOK(t, c, l, s, written[c][l])
  BY <1>1, <1>2, <1>3 DEF LinesInv
<1>5. t.cbh \in Nat \ {0}
  BY <1>1 DEF Sane, TileOK
<1>6. top \in Nat /\ end \in Nat /\ b[4] \in Int
  <2>1. CASE b[2] = 0
    <3>1. /\ EncRow(t, c, 0, t.v0) \in Nat /\ EncRow(t, c, 0, t.v1) \in Nat
          /\ 0 \in 0 .. t.NL
      <4>1. 0 \in 0 .. t.NL /\ c \in DOMAIN t.yrs
        BY <1>1, <1>2, <2>1
      <4> HIDE DEF t
      <4> QED
        BY <1>1, <4>1, RowType
    <3>2. b[3] = "LL" /\ top = EncRow(t, c, 0, t.v0) /\ end = EncRow(t, c, 0, t.v1)
      BY <1>2, <2>1 DEF BandsOf, BandTop, BandEnd, EncBandRow
    <3>3. b[4] \in BlockRows(t, c, b[2], b[3])
      <4>1. Sane(t) /\ b \in Blocks(t)
        BY <1>1
      <4> HIDE DEF t
      <4> QED
        BY <4>1, BlockPlace
    <3>4. b[4] \in top \div t.cbh .. (end - 1) \div t.cbh
      BY <3>3 DEF BlockRows
    <3> HIDE DEF top, end
    <3>5. top \in Int /\ end - 1 \in Int /\ top \in Nat /\ end \in Nat
      BY <3>1, <3>2
    <3>6. top \div t.cbh \in Int /\ (end - 1) \div t.cbh \in Int
      BY <1>5, <3>5, DivMod
    <3> QED
      BY <3>4, <3>5, <3>6
  <2>2. CASE b[2] # 0
    <3>1. Sane(t) /\ b \in Blocks(t) /\ b[2] \in 1 .. t.NL
      BY <1>1, <1>2, <2>2
    <3> HIDE DEF t
    <3>2. /\ BandTop(t, b[1], b[2], b[3]) \in Nat /\ BandEnd(t, b[1], b[2], b[3]) \in Nat
          /\ b[4] \in Int
      BY <3>1, BlockNumbers
    <3> QED
      BY <3>2
  <2> QED
    BY <2>1, <2>2
<1>7. ASSUME NEW y \in Int, top <= y, y < end, y < (b[4] + 1) * t.cbh
      PROVE  2 * y + odd < s.nextOut
  <2>1. CASE Overlapped(b)
    <3>1. b[2] # 0 /\ Overlap(t, c)
      BY <2>1 DEF Overlapped
    <3>2. l = b[2] /\ l \in 1 .. t.NL
      BY <1>1, <1>3, <3>1
    <3>3. PICK f : f = IF b[3] = "HL" THEN 1 ELSE 2
      OBVIOUS
    <3>4. b[3] \in {"HL", "LH", "HH"} /\ f \in {1, 2} /\ odd = f - 1
      BY <1>2, <3>1, <3>3 DEF BandsOf
    <3>5. HalfTop(t, c, l, 1) = HalfTop(t, c, l, 2)
      BY <3>1, <3>2 DEF Overlap, HalfTop, HalfBand
    <3>6. c \in DOMAIN t.yrs /\ b[3] \in BandsOf(l)
      BY <1>1, <1>2, <3>2
    <3> DEFINE br == BrOf(b)
               z == top \div t.cbh
    <3>7. /\ br \in DOMAIN rowDone[c][l] /\ rowDone[c][l][br] = {1, 2}
          /\ rowDone[c][l] = FlagsOf(t, c, l, s.nextOut)
      <4>1. br \in DOMAIN rowDone[c][b[2]] /\ rowDone[c][b[2]][br] = {1, 2}
        BY <1>1, <2>1 DEF IsSent
      <4> QED
        BY <1>1, <1>2, <1>3, <3>1, <3>2, <4>1 DEF LinesInv
    <3>8. br = b[4] - z
      BY DEF BrOf
    <3>9. z \in Int /\ t.cbh * z <= top
      <4>1. top \in Int
        BY <1>6
      <4> HIDE DEF top
      <4> QED
        BY <1>5, <4>1, FloorBelow
    <3> HIDE DEF br, z
    <3>10. br \in BlockRange(t, c, l) /\ \A g \in {1, 2} : HalfDone(t, c, l, g, br, s.nextOut)
      BY <3>7 DEF FlagsOf
    <3>11. br \in Int
      BY <3>10 DEF BlockRange
    <3>12. y < top + br * t.cbh + t.cbh
      <4> DEFINE d == t.cbh
      <4> HIDE DEF d
      <4>1. (b[4] + 1) * d = d * z + br * d + d
        <5>1. b[4] = br + z
          BY <1>6, <3>8, <3>9
        <5>2. d \in Int
          BY <1>5 DEF d
        <5> QED
          BY <3>9, <3>11, <5>1, <5>2
      <4> DEFINE p == d * z
                 w == br * d
                 x == (b[4] + 1) * d
      <4>2. p \in Int /\ w \in Int /\ x \in Int /\ d \in Int
        BY <1>5, <1>6, <3>9, <3>11 DEF d
      <4>3. x = p + w + d /\ y < x /\ p <= top
        BY <1>7, <3>9, <4>1 DEF d
      <4> HIDE DEF p, w, x, top
      <4>4. y < top + w + d
        BY <1>6, <4>2, <4>3
      <4> QED
        BY <4>4 DEF w, d
    <3>13. y < HalfTop(t, c, l, f) + HalfHeight(t, c, l, f) /\ top = HalfTop(t, c, l, f)
      <4>1. /\ top = HalfTop(t, c, l, f) /\ end = BandEnd(t, c, l, HalfBand(f))
        <5>1. 0 \in Int /\ Sane(t) /\ l \in 1 .. t.NL /\ top = BandTop(t, c, l, b[3])
              /\ end = BandEnd(t, c, l, b[3])
          BY <1>1, <3>2
        <5> HIDE DEF t, top, end, c, l
        <5> QED
          BY <3>3, <3>6, <5>1, BandRows DEF HalfTop
      <4>2. HalfTop(t, c, l, f) + HalfHeight(t, c, l, f) = end
        <5>1. HalfHeight(t, c, l, f) = end - top
          BY <4>1 DEF HalfHeight, BandHeight, HalfTop
        <5> HIDE DEF top, end
        <5> QED
          BY <1>6, <4>1, <5>1
      <4> QED
        BY <1>7, <4>1, <4>2
    <3>14. s.nextOut \in Int
      BY <1>4 DEF LevelOK
    <3>15. y < HalfTop(t, c, l, f) + br * t.cbh + t.cbh
      BY <3>12, <3>13
    <3> DEFINE n == s.nextOut
    <3>16. /\ Sane(t) /\ n \in Int /\ l \in 1 .. t.NL
           /\ \A g \in {1, 2} : HalfDone(t, c, l, g, br, n)
      BY <1>1, <3>2, <3>10, <3>14
    <3> HIDE DEF n, t, c, l
    <3>17. 2 * y + f - 1 < n
      BY <3>4, <3>5, <3>6, <3>10, <3>13, <3>15, <3>16, DoneRows
    <3>18. 2 * y + odd = 2 * y + f - 1
      BY <3>4
    <3> QED
      BY <3>17, <3>18 DEF n
  <2>2. CASE ~ Overlapped(b)
    <3>1. stage = "blocks"
      BY <1>1, <2>2 DEF IsSent
    <3>2. c \in DOMAIN written /\ l \in DOMAIN written[c]
      BY <1>1, <1>2, <1>3 DEF LinesInv, Table
    <3>3. Len(written[c][l]) = s.v1 - s.v0
      BY <3>1, <3>2 DEF RowsComeOut
    <3>4. /\ s.v0 = EncRow(t, c, l, t.v0) /\ s.v1 = EncRow(t, c, l, t.v1)
          /\ s.nextOut \in Int /\ Len(written[c][l]) = s.nextOut - s.v0
      BY <1>4 DEF LevelOK
    <3>5. EncRow(t, c, l, t.v0) \in Nat /\ EncRow(t, c, l, t.v1) \in Nat
      <4>1. c \in DOMAIN t.yrs /\ l \in 0 .. t.NL /\ Sane(t)
        BY <1>1, <1>2, <1>3 DEF Sane, TileOK
      <4> HIDE DEF t, c, l
      <4> QED
        BY <4>1, RowType
    <3>6. s.nextOut = EncRow(t, c, l, t.v1)
      <4> DEFINE n == s.nextOut
                 v == s.v0
                 w == s.v1
      <4>1. n \in Int /\ v \in Int /\ w \in Int /\ n - v = w - v
        BY <3>3, <3>4, <3>5
      <4> HIDE DEF n, v, w
      <4>2. n = w
        BY <4>1
      <4> QED
        BY <3>4, <4>2 DEF n, w
    <3>7. Sane(t) /\ b \in Blocks(t) /\ BandTop(t, b[1], b[2], b[3]) <= y
          /\ y < BandEnd(t, b[1], b[2], b[3])
      BY <1>1, <1>7
    <3>8. 2 * y + odd < EncRow(t, b[1], l, t.v1)
      <4> HIDE DEF t
      <4> QED
        BY <3>7, BlockRowsInLevel
    <3> QED
      BY <3>6, <3>8
  <2> QED
    BY <2>1, <2>2
<1> DEFINE first == b[4] * t.cbh
           last == (b[4] + 1) * t.cbh
           rows == Max({top, first}) .. Min({end, last}) - 1
<1>8. \A y \in rows : y \in Int /\ top <= y /\ y < end /\ y < last
  <2>1. first \in Int /\ last \in Int /\ top \in Int /\ end \in Int
    BY <1>5, <1>6
  <2> HIDE DEF first, last, top, end
  <2>2. /\ Max({top, first}) = IF top <= first THEN first ELSE top
        /\ Min({end, last}) = IF end <= last THEN end ELSE last
    BY <2>1, TwoNumbers
  <2> DEFINE m == Max({top, first})
             n == Min({end, last})
  <2>3. m \in Int /\ n \in Int /\ top <= m /\ n <= end /\ n <= last
    BY <2>1, <2>2
  <2> HIDE DEF m, n
  <2> SUFFICES ASSUME NEW y \in m .. n - 1
               PROVE  y \in Int /\ top <= y /\ y < end /\ y < last
    BY DEF m, n
  <2> QED
    BY <2>1, <2>3
<1>9. ASSUME NEW y \in rows
      PROVE  Position(b, y) <= Len(written[c][l]) /\ written[c][l][Position(b, y)]
  <2>1. y \in Int /\ top <= y /\ y < end /\ y < last
    BY <1>8
  <2>2. 2 * y + odd < s.nextOut
    BY <1>7, <2>1
  <2>3. BandTop(Tile, b[1], b[2], b[3]) <= y /\ y < BandEnd(Tile, b[1], b[2], b[3])
        /\ b \in Blocks(Tile)
    BY <1>1, <2>1
  <2> HIDE DEF rows, top, end, s, t
  <2> QED
    BY <1>1, <2>1, <2>2, <2>3, PutRows DEF s
<1> QED
  BY <1>9 DEF Finished

-----------------------------------------------------------------------------
(* The properties. *)

\* num_cblk_rows, computed from the heights of the bands, counts each block row
\* of the bands of an overlapped component.
RowsCounted(t) ==
  \A b \in Blocks(t) :
    b[2] # 0 /\ Overlap(t, b[1])
    => b[4] - (BandTop(t, b[1], b[2], b[3]) \div t.cbh) \in DOMAIN FreshRowDone(t, b[1], b[2])

\* It does where bands start at a multiple of the height of a block.
LEMMA AlignedRowsCounted ==
  ASSUME NEW t, Sane(t),
         \A c \in DOMAIN t.yrs : \A l \in 1 .. t.NL : \A b \in BandsOf(l) :
           BandTop(t, c, l, b) % t.cbh = 0
  PROVE  RowsCounted(t)
<1> SUFFICES ASSUME NEW b \in Blocks(t), b[2] # 0
             PROVE  b[4] - (BandTop(t, b[1], b[2], b[3]) \div t.cbh)
                      \in DOMAIN FreshRowDone(t, b[1], b[2])
  BY DEF RowsCounted
<1> DEFINE c == b[1]
           l == b[2]
           top == BandTop(t, c, l, b[3])
           end == BandEnd(t, c, l, b[3])
           d == t.cbh
           z == top \div d
           q == (end - 1) \div d
           br == b[4] - z
<1>1. d \in Nat \ {0}
  BY DEF Sane, TileOK
<1>2. c \in DOMAIN t.yrs /\ l \in 1 .. t.NL /\ b[3] \in BandsOf(l)
  <2>1. c \in DOMAIN t.yrs /\ l \in 0 .. t.NL /\ b[3] \in BandsOf(l)
    BY BlockPlace
  <2> QED
    BY <2>1 DEF Sane, TileOK
<1>3. /\ top \in Nat /\ end \in Nat /\ z \in Int /\ q \in Int /\ b[4] \in Int
      /\ z <= b[4] /\ b[4] <= q
  BY <1>2, BlockNumbers
<1>4. top % d = 0
  BY <1>2
<1>5. PICK f : f = IF b[3] = "HL" THEN 1 ELSE 2
  OBVIOUS
<1>6. f \in {1, 2} /\ top = HalfTop(t, c, l, f) /\ end = BandEnd(t, c, l, HalfBand(f))
  <2>1. 0 \in Int
    OBVIOUS
  <2> QED
    BY <1>2, <1>5, <2>1, BandRows DEF HalfTop
<1>7. HalfHeight(t, c, l, f) = end - top
  BY <1>6 DEF HalfHeight, BandHeight, HalfTop
<1>8. d * q <= end - 1
  <2>1. end - 1 \in Int
    BY <1>3
  <2> HIDE DEF end, d
  <2> QED
    BY <1>1, <2>1, FloorBelow
<1>9. top = d * z
  <2>1. top \in Int
    BY <1>3
  <2> HIDE DEF top, d
  <2>2. top = d * z + (top % d)
    BY <1>1, <2>1, DivMod
  <2> DEFINE x == d * z
  <2>3. x \in Int /\ top = x + 0
    <3>1. z \in Int
      BY <1>3
    <3> HIDE DEF z
    <3>2. x \in Int
      BY <1>1, <3>1
    <3> QED
      BY <1>4, <2>2, <3>2
  <2> HIDE DEF x
  <2>4. top = x
    BY <2>3
  <2> QED
    BY <2>4 DEF x
<1> HIDE DEF top, end, d, z, q, c, l
<1>10. d * b[4] <= d * q
  BY <1>1, <1>3, Factors
<1>11. br \in Nat /\ br * d = d * b[4] - d * z
  BY <1>1, <1>3
<1>12. br * d < end - top
  <2> DEFINE u == br * d
             v == d * b[4]
             w == d * z
             x == d * q
  <2>1. u \in Int /\ v \in Int /\ w \in Int /\ x \in Int
    BY <1>1, <1>3
  <2>2. u = v - w /\ v <= x /\ x <= end - 1 /\ top = w
    BY <1>8, <1>9, <1>10, <1>11
  <2> HIDE DEF u, v, w, x
  <2>3. u < end - top
    BY <1>3, <2>1, <2>2
  <2> QED
    BY <2>3 DEF u
<1> HIDE DEF br
<1>13. br \in BlockRange(t, c, l)
  BY <1>2, <1>6, <1>7, <1>11, <1>12, BlockRangeIs DEF d
<1>14. BlockRange(t, c, l) = DOMAIN FreshRowDone(t, c, l)
  BY DEF BlockRange, FreshRowDone, HalfHeight, HalfBand
<1> QED
  BY <1>13, <1>14 DEF br, z, top, d, c, l

AtMostOnce == \A b \in DOMAIN coded : coded[b] <= 1

\* A code-block is never coded twice, whatever the transform hands on: the rows of
\* flags, the overlapped dispatch and t1_encode divide the blocks among them.
THEOREM NoBlockCodedTwice == EncSpec => []AtMostOnce
<1>1. BlocksInv => AtMostOnce
  <2> SUFFICES ASSUME BlocksInv, NEW b \in DOMAIN coded PROVE coded[b] <= 1
    BY DEF AtMostOnce
  <2>1. coded \in [DOMAIN coded -> {0, 1}]
    BY DEF BlocksInv, Placed
  <2> QED
    BY <2>1
<1> QED
  BY <1>1, BlocksInvariant, PTL

\* When the main thread is done with a tile all its blocks are coded.
LEMMA AllCoded ==
  ASSUME BlocksInv, RowsComeOut, Encoded, RowsCounted(Tile), NEW b \in DOMAIN coded
  PROVE  coded[b] = 1
<1> DEFINE t == Tile
           c == b[1]
           l == b[2]
<1>1. /\ LinesInv /\ TileInv /\ Sane(t) /\ Lanes = DOMAIN t.yrs /\ Levels = 1 .. t.NL
      /\ b \in Blocks(t)
  BY TileFacts DEF BlocksInv, LinesInv, Levels
<1>2. c \in Lanes /\ l \in 0 .. t.NL
  <2>1. Sane(t) /\ b \in Blocks(t)
    BY <1>1
  <2> HIDE DEF t
  <2> QED
    BY <1>1, <2>1, BlockPlace
<1>3. stage = "blocks" /\ rest = {} /\ left <= 0
  BY DEF Encoded
<1>4. ASSUME Overlapped(b)
      PROVE  BrOf(b) \in DOMAIN rowDone[c][l] /\ rowDone[c][l][BrOf(b)] = {1, 2}
  <2>1. l # 0 /\ Overlap(t, c) /\ l \in Levels
    BY <1>1, <1>2, <1>4 DEF Overlapped
  <2>2. LevelOK(t, c, l, fdwt[c][l], written[c][l])
        /\ rowDone[c][l] = FlagsOf(t, c, l, fdwt[c][l].nextOut)
    BY <1>1, <1>2, <2>1 DEF LinesInv
  <2>3. BrOf(b) \in BlockRange(t, c, l)
    <3>1. BlockRange(t, c, l) = DOMAIN FreshRowDone(t, c, l)
      BY DEF BlockRange, FreshRowDone, HalfHeight, HalfBand
    <3>2. BrOf(b) \in DOMAIN FreshRowDone(t, c, l)
      BY <1>1, <2>1 DEF RowsCounted, BrOf
    <3> QED
      BY <3>1, <3>2
  <2> DEFINE s == fdwt[c][l]
             n == s.nextOut
             v == EncRow(t, c, l, t.v0)
             w == EncRow(t, c, l, t.v1)
  <2>4. n = w
    <3>1. c \in DOMAIN written /\ l \in DOMAIN written[c]
      BY <1>1, <1>2, <2>1 DEF LinesInv, Table
    <3>2. Len(written[c][l]) = s.v1 - s.v0
      BY <1>3, <3>1 DEF RowsComeOut
    <3>3. n \in Int /\ Len(written[c][l]) = n - v /\ Len(written[c][l]) = w - v
      BY <2>2, <3>2 DEF LevelOK
    <3>4. v \in Int /\ w \in Int
      <4>1. Sane(t) /\ c \in DOMAIN t.yrs /\ l \in 0 .. t.NL
        BY <1>1, <1>2
      <4> HIDE DEF t, c, l
      <4> QED
        BY <4>1, RowType
    <3> HIDE DEF n, v, w
    <3> QED
      BY <3>3, <3>4
  <2>5. Sane(t) /\ c \in DOMAIN t.yrs /\ l \in 1 .. t.NL
    BY <1>1, <1>2, <2>1
  <2>6. PICK br \in BlockRange(t, c, l) : br = BrOf(b)
    BY <2>3
  <2>7. FlagsOf(t, c, l, w)[br] = {1, 2}
    <3> HIDE DEF t, c, l
    <3> QED
      BY <2>5, <2>6, DrainedFlags DEF w
  <2>8. DOMAIN FlagsOf(t, c, l, w) = BlockRange(t, c, l)
    BY DEF FlagsOf
  <2> QED
    BY <2>2, <2>3, <2>4, <2>6, <2>7, <2>8
<1>5. IsSent(b)
  BY <1>3, <1>4 DEF IsSent
<1>6. b \in SentBlocks
  BY <1>1, <1>5 DEF SentBlocks
<1>7. queue = <<>> /\ Busy = {}
  <2>1. queue \in Seq(SentBlocks) /\ left = Len(queue) + Cardinality(Busy)
    BY DEF BlocksInv, Placed, Waited
  <2>2. Len(queue) \in Nat /\ Cardinality(Busy) \in Nat /\ IsFiniteSet(Busy)
    BY <2>1, BusyFinite
  <2>3. Len(queue) = 0 /\ Cardinality(Busy) = 0
    BY <1>3, <2>1, <2>2
  <2> QED
    BY <2>1, <2>2, <2>3, FS_EmptySet
<1>8. /\ coded[b] = 0 <=> Queued(b) \/ Held(b)
      /\ coded \in [DOMAIN coded -> {0, 1}] /\ NoBlock \notin SentBlocks
  BY <1>6 DEF BlocksInv, Placed
<1>9. ~ Queued(b)
  BY <1>7 DEF Queued
<1>10. ~ Held(b)
  BY <1>6, <1>7, <1>8 DEF Held, Busy
<1> QED
  BY <1>8, <1>9, <1>10

\* What the encoder reads is finished, in a state where the rows come out.
LEMMA ReadsFinished ==
  ASSUME BlocksInv, RowsComeOut
  PROVE  BlocksReadFinishedRows
<1> SUFFICES ASSUME NEW b \in DOMAIN coded,
                    b \in Range(queue) \/ coded[b] > 0 \/ \E w \in EncWorkers : running[w] = b
             PROVE  Finished(b)
  BY DEF BlocksReadFinishedRows
<1>1. b \in SentBlocks
  <2>1. CASE b \in Range(queue)
    <3>1. queue \in Seq(SentBlocks)
      BY DEF BlocksInv, Placed
    <3> QED
      BY <2>1, <3>1 DEF Range
  <2>2. CASE coded[b] > 0
    <3>1. coded[b] \in {0, 1}
      BY DEF BlocksInv, Placed
    <3>2. coded[b] = 1
      BY <2>2, <3>1
    <3> QED
      BY <3>2 DEF BlocksInv, Placed
  <2>3. CASE \E w \in EncWorkers : running[w] = b
    <3>1. running \in [EncWorkers -> SentBlocks \cup {NoBlock}] /\ DOMAIN coded = Blocks(Tile)
      BY DEF BlocksInv, Placed
    <3>2. b # NoBlock
      BY <3>1, TileFacts, BlockPlace DEF BlocksInv, LinesInv
    <3> QED
      BY <2>3, <3>1, <3>2
  <2> QED
    BY <2>1, <2>2, <2>3
<1> QED
  BY <1>1, SentFinished

\* So is what is coded, when the block rows are counted right.
LEMMA CodedOnce ==
  ASSUME BlocksInv, RowsComeOut, RowsCounted(Tile)
  PROVE  EveryBlockCodedOnce
<1> SUFFICES ASSUME NEW b \in DOMAIN coded
             PROVE  coded[b] <= 1 /\ (Encoded => coded[b] = 1)
  BY DEF EveryBlockCodedOnce
<1>1. coded \in [DOMAIN coded -> {0, 1}]
  BY DEF BlocksInv, Placed
<1> QED
  BY <1>1, AllCoded

\* The block rows are counted right in a tile that starts at row 0.
LEMMA OriginRowsCounted ==
  ASSUME NEW t, Sane(t), t.v0 = 0
  PROVE  RowsCounted(t)
<1>1. ASSUME NEW c \in DOMAIN t.yrs, NEW l \in 1 .. t.NL, NEW b \in BandsOf(l)
      PROVE  BandTop(t, c, l, b) % t.cbh = 0
  <2>1. EncRow(t, c, l, 0) = 0
    <3>1. t.NL - l \in 0 .. t.NL
      BY DEF Sane, TileOK
    <3>2. 2 ^ (t.NL - l) \in Nat \ {0} /\ t.yrs[c] \in Nat \ {0}
      <4>1. 2 ^ (t.NL - l) \in Nat \ {0}
        BY <3>1, Powers
      <4>2. t.yrs \in Seq(Nat \ {0})
        BY DEF Sane, TileOK
      <4>3. t.yrs[c] \in Nat \ {0}
        BY <4>2
      <4> QED
        BY <4>1, <4>3
    <3> DEFINE p == 2 ^ (t.NL - l)
               r == t.yrs[c]
               d == r * p
    <3> HIDE DEF p, r
    <3>3. d \in Nat \ {0}
      BY <3>2 DEF p, r
    <3> HIDE DEF d
    <3>4. 0 <= d * 0
      BY <3>3
    <3>5. CeilDiv(0, d) <= 0 /\ CeilDiv(0, d) \in Nat
      BY <3>3, <3>4, CeilDivLeast, CeilDivMonotone
    <3>6. CeilDiv(0, d) = 0
      BY <3>5
    <3> QED
      BY <3>6 DEF EncRow, d, p, r
  <2>2. BandTop(t, c, l, b) = 0
    BY <2>1 DEF BandTop, EncBandRow
  <2>3. t.cbh \in Nat \ {0}
    BY DEF Sane, TileOK
  <2> QED
    BY <2>2, <2>3
<1> QED
  BY <1>1, AlignedRowsCounted

-----------------------------------------------------------------------------
(* Pool slots. *)

\* The threads that have taken a slot of the tile's pools.
Owners == {w \in EncWorkers : slot[w].gen = gen}

Owned ==
  /\ slotCnt = Cardinality(Owners)
  /\ \A w \in Owners : 0 <= slot[w].at /\ slot[w].at < slotCnt
  /\ \A v, w \in Owners : v # w => slot[v].at # slot[w].at
  /\ \A w \in EncWorkers : running[w] # NoBlock => w \in Owners

\* In the first tile a slot is taken by one thread, and every thread that
\* encodes a block has one.
SlotsInv ==
  /\ tile \in Nat \ {0} /\ gen = 1 /\ slotCnt \in Nat
  /\ running = [w \in EncWorkers |-> running[w]]
  /\ slot \in [EncWorkers -> [at : Int, gen : Int]]
  /\ tile = 1 => Owned

\* Owners can be counted.
LEMMA OwnersFinite == IsFiniteSet(Owners)
BY EncWorkersAssumption, FS_Subset DEF Owners

\* What a step that keeps slots, their counter, the generation and the tile
\* must show: that it gives no block to a thread without a slot.
LEMMA SlotsKept ==
  ASSUME SlotsInv, UNCHANGED <<tile, gen, slot, slotCnt>>,
         running' = [w \in EncWorkers |-> running'[w]],
         \A w \in EncWorkers : running'[w] # NoBlock => running[w] # NoBlock
  PROVE  SlotsInv'
<1>1. Owners' = Owners
  BY DEF Owners
<1>2. NoBlock' = NoBlock
  BY DEF NoBlock
<1> HIDE DEF NoBlock
<1>3. ASSUME tile = 1 PROVE Owned'
  BY <1>1, <1>2, <1>3 DEF SlotsInv, Owned
<1> QED
  BY <1>3 DEF SlotsInv

\* No thread has a slot when the first tile begins.
LEMMA SlotsInit == EncInit => SlotsInv
<1> SUFFICES ASSUME EncInit PROVE SlotsInv
  OBVIOUS
<1>1. Owners = {} /\ slotCnt = 0 /\ tile = 1 /\ gen = 1
  BY DEF EncInit, Owners
<1>2. running = [w \in EncWorkers |-> NoBlock]
  BY DEF EncInit
<1>3. slot \in [EncWorkers -> [at : Int, gen : Int]]
  BY DEF EncInit
<1>4. Owned
  BY <1>1, <1>2, FS_EmptySet DEF Owned
<1> QED
  BY <1>1, <1>2, <1>3, <1>4 DEF SlotsInv

\* A thread that begins a task takes a slot of its own.
LEMMA SlotsStart ==
  ASSUME SlotsInv, NEW w \in EncWorkers, StartBlock(w)
  PROVE  SlotsInv'
<1> DEFINE b == Head(queue)
<1>1. UNCHANGED <<tile, gen>> /\ running' = [running EXCEPT ![w] = b] /\ ClaimSlot(w)
  BY DEF StartBlock, jobVars
<1>2. NoBlock' = NoBlock
  BY DEF NoBlock
<1> HIDE DEF NoBlock, b
<1>3. running = [v \in EncWorkers |-> running[v]]
  BY DEF SlotsInv
<1>4. /\ running' = [v \in EncWorkers |-> running'[v]]
      /\ \A v \in EncWorkers : v # w => running'[v] = running[v]
  BY <1>1, <1>3
<1>5. Owners \subseteq EncWorkers /\ IsFiniteSet(Owners)
  BY OwnersFinite DEF Owners
<1>6. CASE w \in Owners
  <2>1. UNCHANGED <<slot, slotCnt>>
    BY <1>1, <1>6 DEF ClaimSlot, Owners
  <2>2. Owners' = Owners
    BY <1>1, <2>1 DEF Owners
  <2>3. ASSUME tile = 1 PROVE Owned'
    BY <1>2, <1>4, <1>6, <2>1, <2>2, <2>3 DEF SlotsInv, Owned
  <2> QED
    BY <1>1, <1>4, <2>1, <2>3 DEF SlotsInv
<1>7. CASE w \notin Owners
  <2> DEFINE at == Min({slotCnt, Cardinality(EncWorkers)})
  <2>1. slot' = [slot EXCEPT ![w] = [at |-> at, gen |-> gen]] /\ slotCnt' = slotCnt + 1
    BY <1>1, <1>7 DEF ClaimSlot, Owners
  <2>2. Owners' = Owners \cup {w}
    BY <1>1, <2>1 DEF Owners, SlotsInv
  <2>3. Cardinality(Owners) < Cardinality(EncWorkers)
        /\ Cardinality(Owners) \in Nat /\ Cardinality(EncWorkers) \in Nat
    <3>1. Owners # EncWorkers
      BY <1>7
    <3> QED
      BY <3>1, <1>5, EncWorkersAssumption, FS_Subset, FS_CardinalityType
  <2>4. Cardinality(Owners \cup {w}) = Cardinality(Owners) + 1
    BY <1>5, <1>7, FS_AddElement
  <2>5. ASSUME tile = 1 PROVE Owned' /\ at \in Int
    <3>1. slotCnt = Cardinality(Owners)
      BY <2>5 DEF SlotsInv, Owned
    <3>2. at = slotCnt
      BY <2>3, <3>1, TwoNumbers
    <3> HIDE DEF at
    <3>3. /\ slot'[w].at = slotCnt
          /\ \A v \in Owners : slot'[v].at = slot[v].at /\ v # w
      BY <1>5, <1>7, <2>1, <3>2 DEF SlotsInv
    <3>4. \A v \in Owners : slot[v].at \in Int
      BY <1>5 DEF SlotsInv
    <3>5. \A v \in Owners' : 0 <= slot'[v].at /\ slot'[v].at < slotCnt'
      BY <2>1, <2>2, <2>3, <2>5, <3>1, <3>3, <3>4 DEF SlotsInv, Owned
    <3>6. \A u, v \in Owners' : u # v => slot'[u].at # slot'[v].at
      BY <2>2, <2>3, <2>5, <3>1, <3>3, <3>4 DEF SlotsInv, Owned
    <3>7. \A v \in EncWorkers : running'[v] # NoBlock => v \in Owners'
      BY <1>4, <2>2, <2>5 DEF SlotsInv, Owned
    <3>8. slotCnt' = Cardinality(Owners')
      BY <2>1, <2>2, <2>4, <3>1
    <3> QED
      BY <1>2, <2>3, <3>1, <3>2, <3>5, <3>6, <3>7, <3>8 DEF Owned
  <2>6. at \in Int
    <3>1. slotCnt \in Nat
      BY DEF SlotsInv
    <3>2. at = slotCnt \/ at = Cardinality(EncWorkers)
      BY <2>3, <3>1, TwoNumbers
    <3> QED
      BY <2>3, <3>1, <3>2
  <2> QED
    BY <1>1, <1>4, <2>1, <2>5, <2>6 DEF SlotsInv
<1> QED
  BY <1>6, <1>7

\* It keeps it when the task ends.
LEMMA SlotsEnd ==
  ASSUME SlotsInv, NEW w \in EncWorkers, EncodeBlock(w)
  PROVE  SlotsInv'
<1>1. UNCHANGED <<tile, gen, slot, slotCnt>> /\ running' = [running EXCEPT ![w] = NoBlock]
  BY DEF EncodeBlock, jobVars
<1> HIDE DEF NoBlock
<1>2. running = [v \in EncWorkers |-> running[v]]
  BY DEF SlotsInv
<1>3. /\ running' = [v \in EncWorkers |-> running'[v]]
      /\ \A v \in EncWorkers : running'[v] # NoBlock => running[v] # NoBlock
  BY <1>1, <1>2
<1> QED
  BY <1>1, <1>3, SlotsKept

\* Whatever the main thread submits, it leaves slots and running blocks alone.
LEMMA SubmitKeepsSlots ==
  ASSUME NEW blocks, Submit(blocks)
  PROVE  UNCHANGED <<running, slot, slotCnt>>
BY DEF Submit

\* The main thread leaves slots alone, except between tiles.
LEMMA MainKeepsSlots ==
  ASSUME PushRow \/ Flush \/ WaitOverlap \/ EncodeResolution
         \/ \E c \in Lanes : \E l \in Levels : Emit(c, l)
  PROVE  UNCHANGED <<tile, gen, slot, slotCnt, running>>
<1>1. CASE PushRow
  BY <1>1 DEF PushRow, jobVars, poolVars
<1>2. CASE Flush
  BY <1>2 DEF Flush, jobVars, poolVars
<1>3. CASE WaitOverlap
  BY <1>3 DEF WaitOverlap, poolVars
<1>4. CASE EncodeResolution
  BY <1>4, SubmitKeepsSlots DEF EncodeResolution
<1>5. ASSUME NEW c \in Lanes, NEW l \in Levels, Emit(c, l)
      PROVE  UNCHANGED <<tile, gen, slot, slotCnt, running>>
  BY <1>5, SubmitKeepsSlots DEF Emit, jobVars
<1> QED
  BY <1>1, <1>2, <1>3, <1>4, <1>5

\* SlotsInv is inductive.
LEMMA SlotsStep == SlotsInv /\ [EncNext]_encVars => SlotsInv'
<1> SUFFICES ASSUME SlotsInv, [EncNext]_encVars PROVE SlotsInv'
  OBVIOUS
<1>1. ASSUME UNCHANGED <<tile, gen, slot, slotCnt, running>> PROVE SlotsInv'
  BY <1>1, SlotsKept DEF SlotsInv
<1>2. CASE UNCHANGED encVars
  BY <1>1, <1>2 DEF encVars, jobVars, poolVars
<1>3. CASE NextTile
  <2>1. UNCHANGED <<slot, running>> /\ gen' = 1 /\ slotCnt' = 0 /\ tile' = tile + 1
    BY <1>3 DEF NextTile
  <2> QED
    BY <2>1 DEF SlotsInv
<1>4. ASSUME NEW w \in EncWorkers, EncWorker(w) PROVE SlotsInv'
  BY <1>4, SlotsStart, SlotsEnd DEF EncWorker
<1> QED
  BY <1>1, <1>2, <1>3, <1>4, MainKeepsSlots DEF EncNext, EncMain

\* In the first tile no two threads allocate from one pool: the slot counter
\* gives every thread a slot of its own, and there are as many slots as
\* threads. From the second tile on it is not so, see MCLineCodecSlots.
THEOREM FirstTilePoolsNotShared == EncSpec => [](tile = 1 => PoolsNotShared)
<1>1. SlotsInv => (tile = 1 => PoolsNotShared)
  BY DEF SlotsInv, Owned, PoolsNotShared
<1> QED
  BY SlotsInit, SlotsStep, <1>1, PTL DEF EncSpec

-----------------------------------------------------------------------------
(* The passes of the 9/7's loop. *)

\* A pass goes from row to row: what upTo says has a solution.
LEMMA PassRows ==
  ASSUME NEW s, NEW lo \in Int, NEW hi \in Int, lo = Lo(s), hi = Hi(s), lo <= hi
  PROVE  \E f : /\ f[lo - 1] = s /\ \A r \in lo .. hi - 1 : f[r] = Tried(f[r - 1], r)
                /\ AscendingPass(s) = f[hi - 1]
<1> DEFINE R == lo - 1 .. hi - 1
           Solves(f, n) == f = [r \in lo - 1 .. lo - 1 + n |-> IF r < lo THEN s ELSE Tried(f[r - 1], r)]
           S == {n \in Nat : \E f : Solves(f, n)}
           Whole == CHOOSE f : f = [r \in R |-> IF r < lo THEN s ELSE Tried(f[r - 1], r)]
<1>1. AscendingPass(s) = Whole[hi - 1]
  BY DEF AscendingPass
<1>2. 0 \in S
  <2>1. Solves([r \in lo - 1 .. lo - 1 + 0 |-> s], 0)
    <3>1. \A r \in lo - 1 .. lo - 1 + 0 : r < lo
      OBVIOUS
    <3> QED
      BY <3>1
  <2> QED
    BY <2>1
<1>3. ASSUME NEW m \in 0 .. hi - lo - 1, m \in S PROVE m + 1 \in S
  <2>0. PICK f : Solves(f, m)
    BY <1>3
  <2> DEFINE g == [r \in lo - 1 .. lo - 1 + (m + 1) |-> IF r = lo + m THEN Tried(f[lo - 1 + m], r) ELSE f[r]]
  <2>1. m \in Nat
    OBVIOUS
  <2>2. /\ DOMAIN g = lo - 1 .. lo - 1 + (m + 1)
        /\ \A r \in lo - 1 .. lo - 1 + (m + 1) : g[r] = IF r = lo + m THEN Tried(f[lo - 1 + m], r) ELSE f[r]
    OBVIOUS
  <2>3. \A r \in lo - 1 .. lo - 1 + m : f[r] = IF r < lo THEN s ELSE Tried(f[r - 1], r)
    BY <2>0
  <2> HIDE DEF g
  <2>4. ASSUME NEW r \in lo - 1 .. lo - 1 + (m + 1)
        PROVE  g[r] = IF r < lo THEN s ELSE Tried(g[r - 1], r)
    <3>1. CASE r = lo + m
      <4>1. r - 1 = lo - 1 + m /\ ~ (r < lo) /\ r - 1 \in lo - 1 .. lo - 1 + (m + 1) /\ r - 1 # lo + m
        BY <2>1, <3>1
      <4>2. g[r - 1] = f[lo - 1 + m] /\ g[r] = Tried(f[lo - 1 + m], r)
        BY <2>2, <3>1, <4>1
      <4> QED
        BY <4>1, <4>2
    <3>2. CASE r < lo
      <4>1. r \in lo - 1 .. lo - 1 + m /\ r # lo + m
        BY <2>1, <3>2
      <4> QED
        BY <2>2, <2>3, <3>2, <4>1
    <3>3. CASE r # lo + m /\ ~ (r < lo)
      <4>1. /\ r \in lo - 1 .. lo - 1 + m /\ r - 1 \in lo - 1 .. lo - 1 + (m + 1) /\ r - 1 # lo + m
        BY <2>1, <3>3
      <4>2. g[r] = f[r] /\ g[r - 1] = f[r - 1]
        BY <2>2, <3>3, <4>1
      <4> QED
        BY <2>3, <3>3, <4>1, <4>2
    <3> QED
      BY <3>1, <3>2, <3>3
  <2>5. g = [r \in lo - 1 .. lo - 1 + (m + 1) |-> g[r]]
    BY DEF g
  <2>6. Solves(g, m + 1)
    BY <2>4, <2>5
  <2>7. m + 1 \in Nat
    BY <2>1
  <2> HIDE DEF Solves
  <2> QED
    BY <2>6, <2>7
<1>4. hi - lo \in Nat
  OBVIOUS
<1>5. \E f : f = [r \in R |-> IF r < lo THEN s ELSE Tried(f[r - 1], r)]
  <2>1. hi - lo \in 0 .. hi - lo
    BY <1>4
  <2> HIDE DEF S
  <2>2. hi - lo \in S
    <3>1. \A m \in 0 .. (hi - lo) - 1 : m \in S => m + 1 \in S
      BY <1>3
    <3> DEFINE n == hi - lo
    <3>2. n \in Nat /\ n \in 0 .. n
      BY <1>4
    <3>3. \A m \in 0 .. n - 1 : m \in S => m + 1 \in S
      BY <3>1
    <3> HIDE DEF n
    <3>4. 0 .. n \subseteq S
      BY <1>2, <3>2, <3>3, Climb
    <3> QED
      BY <3>2, <3>4 DEF n
  <2>3. \E f : Solves(f, hi - lo)
    BY <2>2 DEF S
  <2>4. lo - 1 + (hi - lo) = hi - 1
    OBVIOUS
  <2> QED
    BY <2>3, <2>4
<1>6. Whole = [r \in R |-> IF r < lo THEN s ELSE Tried(Whole[r - 1], r)]
  BY <1>5
<1> HIDE DEF Whole
<1>7. lo - 1 \in R /\ \A r \in lo .. hi - 1 : r \in R /\ ~ (r < lo)
  OBVIOUS
<1>8. Whole[lo - 1] = s /\ \A r \in lo .. hi - 1 : Whole[r] = Tried(Whole[r - 1], r)
  BY <1>6, <1>7
<1> QED
  BY <1>1, <1>8

\* So do the passes, of which the loop makes as many as change something.
LEMMA StableRounds ==
  ASSUME NEW s, NEW k \in Nat, k = MaxLevel(s.xf) * Cardinality(DOMAIN s.cells)
  PROVE  \E f : /\ f[0] = s /\ \A n \in 1 .. k : f[n] = AscendingPass(f[n - 1])
                /\ \E last : /\ last = CHOOSE n \in 0 .. k - 1 : f[n + 1] = f[n]
                             /\ UntilStable(s) = [s EXCEPT !.cells = f[last].cells]
<1> DEFINE Solves(f, m) == f = [n \in 0 .. m |-> IF n = 0 THEN s ELSE AscendingPass(f[n - 1])]
           S == {m \in Nat : \E f : Solves(f, m)}
           Whole == CHOOSE f : f = [n \in 0 .. k |-> IF n = 0 THEN s ELSE AscendingPass(f[n - 1])]
           last == CHOOSE n \in 0 .. k - 1 : Whole[n + 1] = Whole[n]
<1>1. UntilStable(s) = [s EXCEPT !.cells = Whole[last].cells]
  BY DEF UntilStable
<1>2. 0 \in S
  <2>1. Solves([n \in 0 .. 0 |-> s], 0)
    <3>1. \A n \in 0 .. 0 : n = 0
      OBVIOUS
    <3> QED
      BY <3>1
  <2> QED
    BY <2>1
<1>3. ASSUME NEW m \in 0 .. k - 1, m \in S PROVE m + 1 \in S
  <2>0. PICK f : Solves(f, m)
    BY <1>3
  <2> DEFINE g == [n \in 0 .. m + 1 |-> IF n = m + 1 THEN AscendingPass(f[m]) ELSE f[n]]
  <2>1. m \in Nat
    OBVIOUS
  <2>2. /\ DOMAIN g = 0 .. m + 1
        /\ \A n \in 0 .. m + 1 : g[n] = IF n = m + 1 THEN AscendingPass(f[m]) ELSE f[n]
    OBVIOUS
  <2>3. \A n \in 0 .. m : f[n] = IF n = 0 THEN s ELSE AscendingPass(f[n - 1])
    BY <2>0
  <2> HIDE DEF g
  <2>4. ASSUME NEW n \in 0 .. m + 1
        PROVE  g[n] = IF n = 0 THEN s ELSE AscendingPass(g[n - 1])
    <3>1. CASE n = m + 1
      <4>1. n - 1 = m /\ n # 0 /\ m \in 0 .. m + 1 /\ m # m + 1
        BY <2>1, <3>1
      <4>2. g[m] = f[m] /\ g[n] = AscendingPass(f[m])
        BY <2>2, <3>1, <4>1
      <4> QED
        BY <4>1, <4>2
    <3>2. CASE n # m + 1
      <4>1. n \in 0 .. m /\ (n # 0 => n - 1 \in 0 .. m + 1 /\ n - 1 # m + 1)
        BY <2>1, <3>2
      <4>2. g[n] = f[n] /\ (n # 0 => g[n - 1] = f[n - 1])
        BY <2>2, <3>2, <4>1
      <4> QED
        BY <2>3, <4>1, <4>2
    <3> QED
      BY <3>1, <3>2
  <2>5. g = [n \in 0 .. m + 1 |-> g[n]]
    BY DEF g
  <2>6. Solves(g, m + 1)
    BY <2>4, <2>5
  <2>7. m + 1 \in Nat
    BY <2>1
  <2> HIDE DEF Solves
  <2> QED
    BY <2>6, <2>7
<1>4. \E f : Solves(f, k)
  <2> HIDE DEF S
  <2>1. 0 .. k \subseteq S
    BY <1>2, <1>3, Climb
  <2>2. k \in S
    BY <2>1
  <2> QED
    BY <2>2 DEF S
<1>5. Whole = [n \in 0 .. k |-> IF n = 0 THEN s ELSE AscendingPass(Whole[n - 1])]
  BY <1>4
<1> HIDE DEF Whole
<1>6. 0 \in 0 .. k /\ \A n \in 1 .. k : n \in 0 .. k /\ n # 0
  OBVIOUS
<1>7. Whole[0] = s /\ \A n \in 1 .. k : Whole[n] = AscendingPass(Whole[n - 1])
  BY <1>5, <1>6
<1> QED
  BY <1>1, <1>7

\* Row p can take the step from level cur, and when the steps' turn comes.
CanStep(s, p, cur) ==
  cur \in 0 .. MaxLevel(s.xf) - 1 /\ Able(s, p, cur, NeighbourLevel(s, p, cur))
StepRank(s, p, cur) == 2 * cur + (IF p % 2 = s.first THEN 0 ELSE 1)

\* Rings that differ in their samples only have the same steps, in the same turn.
LEMMA AlikeSteps ==
  ASSUME NEW s, NEW t, Alike(s, t), NEW p, NEW c
  PROVE  /\ NeighbourLevel(t, p, c) = NeighbourLevel(s, p, c)
         /\ StepRank(t, p, c) = StepRank(s, p, c)
         /\ MaxLevel(t.xf) = MaxLevel(s.xf) /\ Lo(t) = Lo(s) /\ Hi(t) = Hi(s)
<1>1. t.first = s.first
  BY AlikeAre
<1>2. MaxLevel(t.xf) = MaxLevel(s.xf) /\ Lo(t) = Lo(s) /\ Hi(t) = Hi(s)
  BY AlikeRows
<1> QED
  BY <1>1, <1>2 DEF NeighbourLevel, StepRank

\* Trying a row lifts it if it can be lifted; what can be lifted afterwards could
\* before, or its turn comes after the step's.
LEMMA TriedKeeps ==
  ASSUME NEW s, NEW tag, InRing(s, tag), NEW r \in Int, NEW t, t = Tried(s, r)
  PROVE  /\ InRing(t, tag) /\ Alike(s, t) /\ \A p \in Int : Level(t, p) >= Level(s, p)
         /\ \A p \in Int : \A c \in Nat : CanStep(t, p, c) =>
              \/ CanStep(s, p, c) /\ p # r
              \/ \E b \in Nat : CanStep(s, r, b) /\ StepRank(s, p, c) > StepRank(s, r, b)
<1> DEFINE cur == Level(s, r)
           M == MaxLevel(s.xf)
           need == NeighbourLevel(s, r, cur)
           go == 0 <= cur /\ cur < M /\ Able(s, r, cur, need)
<1>1. Shaped(s) /\ Arrived(s) /\ Staggered(s) /\ Faithful(s, tag)
  BY DEF InRing
<1>2. \A p \in Int : Level(s, p) \in Int
  BY <1>1, LevelOfRow
<1>3. M \in {1, 2} /\ s.first \in {0, 1}
  BY <1>1, RangesAre DEF MaxLevel
<1>4. CASE ~ go
  <2>1. t = s
    BY <1>4 DEF Tried
  <2>2. ASSUME NEW c \in Nat, CanStep(s, r, c) PROVE FALSE
    <3>1. c \in 0 .. M - 1 /\ Able(s, r, c, NeighbourLevel(s, r, c))
      BY <2>2 DEF CanStep
    <3>2. cur = c
      BY <3>1 DEF Able
    <3> HIDE DEF cur, M
    <3> QED
      BY <1>3, <1>4, <3>1, <3>2
  <2>3. Alike(s, s)
    BY <1>1 DEF Alike, Shaped
  <2> QED
    BY <1>2, <2>1, <2>2, <2>3
<1>5. CASE go
  <2> DEFINE par == r % 2
             R == {r}
             cell == [x \in R |-> Lifted(s, x, cur)]
  <2>1. par \in {0, 1} /\ cur \in 0 .. M - 1 /\ cur \in Nat
    <3>1. r % 2 \in {0, 1}
      OBVIOUS
    <3>2. cur \in Int
      BY <1>2
    <3> HIDE DEF cur, M
    <3> QED
      BY <1>3, <1>5, <3>1, <3>2
  <2>2. t = Put(s, cell)
    <3>1. HasSlot(s, r)
      BY <1>1, <1>5, <2>1, LiftedRow
    <3>2. t = [s EXCEPT !.cells[SlotOf(s, r)] = Lifted(s, r, cur)]
      BY <1>5 DEF Tried
    <3>3. DOMAIN cell = {r} /\ cell[r] = Lifted(s, r, cur)
      OBVIOUS
    <3> HIDE DEF cell, cur
    <3>4. [s EXCEPT !.cells[SlotOf(s, r)] = Lifted(s, r, cur)] = Put(s, cell)
      BY <1>1, <3>1, <3>3, CellIsPut
    <3> QED
      BY <3>2, <3>4
  <2>3. /\ InRing(t, tag) /\ Alike(s, t)
        /\ \A p \in Int : Level(t, p) = IF p \in R THEN cur + 1 ELSE Level(s, p)
    <3>1. R \in SUBSET Int /\ \A x \in R : x % 2 = par /\ Able(s, x, cur, NeighbourLevel(s, x, cur))
      BY <1>5
    <3> HIDE DEF cur, R, par, M
    <3>2. LET y == Put(s, [x \in R |-> Lifted(s, x, cur)]) IN
          /\ InRing(y, tag) /\ Alike(s, y)
          /\ \A p \in Int : Level(y, p) = IF p \in R THEN cur + 1 ELSE Level(s, p)
      BY <2>1, <3>1, LiftKeeps DEF M
    <3> QED
      BY <2>2, <3>2
  <2>4. \A p \in Int : Level(t, p) = IF p = r THEN cur + 1 ELSE Level(s, p)
    BY <2>3
  <2>5. \A p \in Int : Level(t, p) >= Level(s, p)
    BY <1>2, <2>4
  <2>6. CanStep(s, r, cur)
    BY <1>5, <2>1 DEF CanStep
  <2>7. ASSUME NEW p \in Int, NEW c \in Nat, CanStep(t, p, c)
        PROVE  \/ CanStep(s, p, c) /\ p # r
               \/ StepRank(s, p, c) > StepRank(s, r, cur)
    <3> DEFINE n == NeighbourLevel(s, p, c)
    <3>1. /\ c \in 0 .. M - 1 /\ Level(t, p) = c
          /\ Level(t, p - 1) >= n /\ Level(t, p + 1) >= n
      BY <2>3, <2>7, AlikeSteps DEF CanStep, Able
    <3>2. n = IF p % 2 = s.first THEN c ELSE c + 1
      BY DEF NeighbourLevel
    <3>3. /\ StepRank(s, p, c) = 2 * c + (IF p % 2 = s.first THEN 0 ELSE 1)
          /\ StepRank(s, r, cur) = 2 * cur + (IF r % 2 = s.first THEN 0 ELSE 1)
      BY DEF StepRank
    <3> HIDE DEF n
    <3>4. p - 1 \in Int /\ p + 1 \in Int
      OBVIOUS
    <3>5. /\ Level(t, p - 1) = IF p - 1 = r THEN cur + 1 ELSE Level(s, p - 1)
          /\ Level(t, p + 1) = IF p + 1 = r THEN cur + 1 ELSE Level(s, p + 1)
          /\ Level(t, p) = IF p = r THEN cur + 1 ELSE Level(s, p)
      BY <2>4, <3>4
    <3> HIDE DEF cur
    <3>6. CASE p = r
      <4>1. c = cur + 1
        BY <3>1, <3>5, <3>6
      <4> QED
        BY <2>1, <3>3, <3>6, <4>1
    <3>7. CASE p # r /\ p - 1 # r /\ p + 1 # r
      <4>1. Level(s, p) = c /\ Level(s, p - 1) >= n /\ Level(s, p + 1) >= n
        BY <3>1, <3>5, <3>7
      <4> QED
        BY <3>1, <3>7, <4>1 DEF CanStep, Able, n
    <3>8. CASE p # r /\ (p - 1 = r \/ p + 1 = r)
      <4>1. CASE cur >= n
        <5>1. Level(s, p) = c /\ Level(s, p - 1) >= n /\ Level(s, p + 1) >= n
          BY <3>1, <3>5, <3>8, <4>1 DEF cur
        <5> QED
          BY <3>1, <3>8, <5>1 DEF CanStep, Able, n
      <4>2. CASE ~ (cur >= n)
        <5>1. n = cur + 1
          <6>1. cur + 1 >= n /\ n \in Int
            BY <3>1, <3>2, <3>5, <3>8
          <6> QED
            BY <2>1, <4>2, <6>1
        <5>2. p % 2 = s.first <=> ~ (r % 2 = s.first)
          <6>1. p % 2 = 1 - (r % 2)
            BY <3>8
          <6> QED
            BY <1>3, <6>1
        <5> QED
          BY <2>1, <3>2, <3>3, <5>1, <5>2
      <4> QED
        BY <2>1, <3>2, <4>1, <4>2
    <3> QED
      BY <3>6, <3>7, <3>8
  <2> QED
    BY <2>1, <2>3, <2>5, <2>6, <2>7
<1> QED
  BY <1>4, <1>5

\* Alike is an equivalence on what it compares.
LEMMA AlikeOn ==
  ASSUME NEW s, NEW t, NEW u, Alike(s, t), Alike(t, u)
  PROVE  Alike(s, u)
BY DEF Alike

\* The window of a cascade holds the rows it may lift.
LEMMA WindowOpen ==
  ASSUME NEW s, NEW tag, InRing(s, tag)
  PROVE  Lo(s) \in Int /\ Hi(s) \in Int /\ Lo(s) <= Hi(s)
<1>1. /\ s.v0 \in Nat /\ s.v1 \in Nat /\ s.origin \in Nat /\ s.nextIn \in Nat
      /\ s.topN \in 1 .. 4 /\ s.botN \in 1 .. 4
  BY RangesAre DEF InRing
<1>2. s.v0 <= s.origin /\ s.origin <= s.nextIn /\ s.nextIn <= s.v1
  BY DEF InRing
<1>3. Lo(s) \in Int /\ Hi(s) \in Int
  BY WindowInt DEF InRing
<1>4. MaxLevel(s.xf) \in {1, 2}
  BY DEF MaxLevel
<1>5. Margin(s) \in Nat
  BY <1>1, <1>4 DEF Margin
<1>6. Lo(s) <= s.origin
  BY <1>1, <1>2, <1>5 DEF Lo
<1>7. Hi(s) = s.nextIn + s.botN
  BY <1>1, <1>2 DEF Hi
<1> QED
  BY <1>1, <1>2, <1>3, <1>6, <1>7

\* A pass leaves nothing to do at the first turn that had something to do before.
LEMMA PassKeeps ==
  ASSUME NEW s, NEW tag, InRing(s, tag), NEW k \in Nat,
         \A p \in Lo(s) .. Hi(s) - 1 : \A c \in Nat : CanStep(s, p, c) => StepRank(s, p, c) >= k,
         NEW t, t = AscendingPass(s)
  PROVE  /\ InRing(t, tag) /\ Alike(s, t) /\ \A p \in Int : Level(t, p) >= Level(s, p)
         /\ \A p \in Lo(s) .. Hi(s) - 1 : \A c \in Nat :
              CanStep(t, p, c) => StepRank(s, p, c) >= k + 1
<1> DEFINE lo == Lo(s)
           hi == Hi(s)
<1>1. lo \in Int /\ hi \in Int /\ lo <= hi
  BY WindowOpen
<1>2. \A x : InRing(x, tag) => \A p \in Int : Level(x, p) \in Int
  BY LevelOfRow DEF InRing
<1>3. \A p \in Int : \A c \in Nat : StepRank(s, p, c) \in Nat
  BY DEF StepRank
<1>4. PICK f : /\ f[lo - 1] = s /\ \A r \in lo .. hi - 1 : f[r] = Tried(f[r - 1], r)
               /\ AscendingPass(s) = f[hi - 1]
  BY <1>1, PassRows
<1> DEFINE Good(x, n) ==
             /\ InRing(x, tag) /\ Alike(s, x) /\ \A p \in Int : Level(x, p) >= Level(s, p)
             /\ \A p \in lo .. hi - 1 : \A c \in Nat : CanStep(x, p, c) =>
                  /\ StepRank(s, p, c) >= k
                  /\ p <= lo - 1 + n => StepRank(s, p, c) >= k + 1
           S == {n \in Nat : Good(f[lo - 1 + n], n)}
           N == hi - lo
<1>5. N \in Nat /\ lo - 1 + N = hi - 1 /\ lo - 1 + 0 = lo - 1
  BY <1>1
<1>6. 0 \in S
  <2>1. Alike(s, s)
    BY DEF Alike, InRing, Shaped
  <2>2. \A p \in Int : Level(s, p) >= Level(s, p)
    BY <1>2
  <2>3. \A p \in lo .. hi - 1 : ~ (p <= lo - 1 + 0)
    BY <1>1
  <2>4. Good(s, 0)
    BY <2>1, <2>2, <2>3
  <2> HIDE DEF Good
  <2> QED
    BY <1>4, <1>5, <2>4
<1>7. ASSUME NEW m \in 0 .. N - 1, m \in S PROVE m + 1 \in S
  <2> DEFINE r == lo + m
             x == f[lo - 1 + m]
             y == f[lo - 1 + (m + 1)]
  <2>1. /\ m \in Nat /\ m + 1 \in Nat /\ r \in lo .. hi - 1 /\ r \in Int
        /\ r - 1 = lo - 1 + m /\ r = lo - 1 + (m + 1)
    BY <1>1
  <2>2. y = Tried(x, r)
    BY <1>4, <2>1
  <2>3. Good(x, m)
    BY <1>7
  <2> HIDE DEF x, y
  <2>4. /\ InRing(y, tag) /\ Alike(x, y) /\ \A p \in Int : Level(y, p) >= Level(x, p)
        /\ \A p \in Int : \A c \in Nat : CanStep(y, p, c) =>
             \/ CanStep(x, p, c) /\ p # r
             \/ \E b \in Nat : CanStep(x, r, b) /\ StepRank(x, p, c) > StepRank(x, r, b)
    <3> HIDE DEF r
    <3> QED
      BY <2>1, <2>2, <2>3, TriedKeeps
  <2>5. Alike(s, y)
    BY <2>3, <2>4, AlikeOn
  <2>6. \A p \in Int : Level(y, p) >= Level(s, p)
    <3>1. \A p \in Int : Level(y, p) \in Int /\ Level(x, p) \in Int /\ Level(s, p) \in Int
      BY <1>2, <2>3, <2>4
    <3> QED
      BY <2>3, <2>4, <3>1
  <2>7. \A p : \A c : StepRank(x, p, c) = StepRank(s, p, c)
    BY <2>3, AlikeSteps
  <2>8. ASSUME NEW p \in lo .. hi - 1, NEW c \in Nat, CanStep(y, p, c)
        PROVE  /\ StepRank(s, p, c) >= k
               /\ p <= lo - 1 + (m + 1) => StepRank(s, p, c) >= k + 1
    <3>1. p \in Int
      BY <1>1
    <3>2. StepRank(s, p, c) \in Nat
      BY <1>3, <3>1
    <3>3. CASE CanStep(x, p, c) /\ p # r
      <4>1. StepRank(s, p, c) >= k /\ (p <= lo - 1 + m => StepRank(s, p, c) >= k + 1)
        BY <2>3, <3>3
      <4>2. p <= lo - 1 + (m + 1) => p <= lo - 1 + m
        BY <1>1, <2>1, <3>1, <3>3
      <4> QED
        BY <4>1, <4>2
    <3>4. CASE \E b \in Nat : CanStep(x, r, b) /\ StepRank(x, p, c) > StepRank(x, r, b)
      <4>1. PICK b \in Nat : CanStep(x, r, b) /\ StepRank(s, p, c) > StepRank(s, r, b)
        BY <2>7, <3>4
      <4>2. StepRank(s, r, b) >= k
        BY <2>1, <2>3, <4>1
      <4>3. StepRank(s, r, b) \in Nat
        BY <1>3, <2>1
      <4> QED
        BY <3>2, <4>1, <4>2, <4>3
    <3> HIDE DEF r
    <3> QED
      BY <2>4, <2>8, <3>1, <3>3, <3>4
  <2>9. Good(y, m + 1)
    BY <2>4, <2>5, <2>6, <2>8
  <2> HIDE DEF Good
  <2> QED
    BY <2>1, <2>9 DEF y
<1>8. Good(t, N)
  <2>1. N \in 0 .. N
    BY <1>5
  <2> HIDE DEF Good, N
  <2>2. N \in S
    <3> HIDE DEF S
    <3> QED
      BY <1>5, <1>6, <1>7, <2>1, Climb
  <2>3. Good(f[lo - 1 + N], N)
    BY <2>2
  <2> QED
    BY <1>4, <1>5, <2>3
<1>9. \A p \in lo .. hi - 1 : p <= lo - 1 + N
  BY <1>1
<1> QED
  BY <1>8, <1>9

\* A pass over a ring in which nothing can be lifted changes nothing.
LEMMA PassIdle ==
  ASSUME NEW s, NEW tag, InRing(s, tag),
         \A p \in Lo(s) .. Hi(s) - 1 : \A c \in Nat : ~ CanStep(s, p, c)
  PROVE  AscendingPass(s) = s
<1> DEFINE lo == Lo(s)
           hi == Hi(s)
           N == hi - lo
<1>1. lo \in Int /\ hi \in Int /\ lo <= hi
  BY WindowOpen
<1>2. PICK f : /\ f[lo - 1] = s /\ \A r \in lo .. hi - 1 : f[r] = Tried(f[r - 1], r)
               /\ AscendingPass(s) = f[hi - 1]
  BY <1>1, PassRows
<1>3. ASSUME NEW r \in lo .. hi - 1 PROVE Tried(s, r) = s
  <2> DEFINE cur == Level(s, r)
  <2>1. r \in Int
    BY <1>1
  <2>2. cur \in Int
    BY <2>1, LevelOfRow DEF InRing
  <2>3. MaxLevel(s.xf) \in {1, 2}
    BY DEF MaxLevel
  <2>4. CASE 0 <= cur /\ cur < MaxLevel(s.xf)
    <3>1. cur \in Nat /\ cur \in 0 .. MaxLevel(s.xf) - 1
      BY <2>2, <2>3, <2>4
    <3> HIDE DEF cur
    <3>2. ~ CanStep(s, r, cur)
      BY <3>1
    <3>3. ~ Able(s, r, cur, NeighbourLevel(s, r, cur))
      BY <3>1, <3>2 DEF CanStep
    <3> QED
      BY <3>3 DEF cur, Tried
  <2>5. CASE ~ (0 <= cur /\ cur < MaxLevel(s.xf))
    BY <2>5 DEF Tried
  <2> QED
    BY <2>4, <2>5
<1> DEFINE S == {n \in Nat : f[lo - 1 + n] = s}
<1>4. N \in Nat /\ lo - 1 + N = hi - 1 /\ lo - 1 + 0 = lo - 1 /\ N \in 0 .. N
  BY <1>1
<1>5. 0 \in S
  BY <1>2, <1>4
<1>6. ASSUME NEW m \in 0 .. N - 1, m \in S PROVE m + 1 \in S
  <2>1. /\ m \in Nat /\ m + 1 \in Nat /\ lo + m \in lo .. hi - 1
        /\ lo - 1 + (m + 1) = lo + m /\ (lo + m) - 1 = lo - 1 + m
    BY <1>1
  <2>2. f[lo + m] = Tried(f[lo - 1 + m], lo + m)
    BY <1>2, <2>1
  <2>3. f[lo - 1 + m] = s
    BY <1>6
  <2>4. f[lo + m] = s
    BY <1>3, <2>1, <2>2, <2>3
  <2> QED
    BY <2>1, <2>4
<1> HIDE DEF N, lo, hi
<1>7. N \in S
  <2> HIDE DEF S
  <2> QED
    BY <1>4, <1>5, <1>6, Climb
<1>8. f[lo - 1 + N] = s
  BY <1>7
<1> QED
  BY <1>2, <1>4, <1>8

\* The while loop of the 9/7: after four passes nothing is left to lift, whatever
\* the order of the rows; and when a pass changes nothing, nothing was.
LEMMA StableRests ==
  ASSUME NEW s, NEW tag, InRing(s, tag), NEW t, t = UntilStable(s)
  PROVE  /\ InRing(t, tag) /\ Alike(s, t) /\ AtRest(t)
         /\ \A p \in Int : Level(t, p) >= Level(s, p)
<1> DEFINE M == MaxLevel(s.xf)
           k == M * Cardinality(DOMAIN s.cells)
<1>1. M \in {1, 2}
  BY DEF MaxLevel
<1>2. k \in Nat /\ k > 2 * M
  <2>1. DOMAIN s.cells = 0 .. s.depth + 7 /\ s.depth \in {8, 12}
    BY RangesAre DEF InRing, Shaped, Cells
  <2>2. Cardinality(0 .. s.depth + 7) = s.depth + 8
    <3> DEFINE b == s.depth + 7
    <3>1. b \in Int /\ b >= 0
      BY <2>1
    <3> HIDE DEF b
    <3>2. Cardinality(0 .. b) = b - 0 + 1
      BY <3>1, FS_Interval
    <3> QED
      BY <2>1, <3>2 DEF b
  <2>3. Cardinality(DOMAIN s.cells) \in {16, 20}
    BY <2>1, <2>2
  <2> HIDE DEF M
  <2> QED
    BY <1>1, <2>3
<1>3. \A x : InRing(x, tag) => \A p \in Int : Level(x, p) \in Int
  BY LevelOfRow DEF InRing
<1>4. \A p \in Int : \A c \in Nat : StepRank(s, p, c) \in Nat
  BY DEF StepRank
<1>5. Lo(s) \in Int /\ Hi(s) \in Int
  BY WindowOpen
<1>10. PICK f : /\ f[0] = s /\ \A n \in 1 .. k : f[n] = AscendingPass(f[n - 1])
               /\ \E last : /\ last = CHOOSE n \in 0 .. k - 1 : f[n + 1] = f[n]
                            /\ UntilStable(s) = [s EXCEPT !.cells = f[last].cells]
  <2> HIDE DEF k
  <2> QED
    BY <1>2, StableRounds DEF k
<1> DEFINE Good(x, n) ==
             /\ InRing(x, tag) /\ Alike(s, x) /\ \A p \in Int : Level(x, p) >= Level(s, p)
             /\ \A p \in Lo(s) .. Hi(s) - 1 : \A c \in Nat :
                  CanStep(x, p, c) => StepRank(s, p, c) >= n
           S == {n \in Nat : Good(f[n], n)}
<1>6. 0 \in S
  <2>1. Alike(s, s)
    BY DEF Alike, InRing, Shaped
  <2>2. \A p \in Int : Level(s, p) >= Level(s, p)
    BY <1>3
  <2>3. \A p \in Lo(s) .. Hi(s) - 1 : \A c \in Nat : StepRank(s, p, c) >= 0
    BY <1>4, <1>5
  <2>4. Good(s, 0)
    BY <2>1, <2>2, <2>3
  <2> HIDE DEF Good
  <2> QED
    BY <1>10, <2>4
<1> HIDE DEF k
<1>7. ASSUME NEW m \in 0 .. k - 1, m \in S PROVE m + 1 \in S
  <2> DEFINE x == f[m]
             y == f[m + 1]
  <2>1. m \in Nat /\ m + 1 \in 1 .. k /\ (m + 1) - 1 = m
    BY <1>2
  <2>2. y = AscendingPass(x)
    BY <1>10, <2>1
  <2>3. Good(x, m)
    BY <1>7
  <2> HIDE DEF x, y
  <2>4. Lo(x) = Lo(s) /\ Hi(x) = Hi(s) /\ \A p : \A c : StepRank(x, p, c) = StepRank(s, p, c)
    BY <2>3, AlikeSteps
  <2>5. /\ InRing(y, tag) /\ Alike(x, y) /\ \A p \in Int : Level(y, p) >= Level(x, p)
        /\ \A p \in Lo(x) .. Hi(x) - 1 : \A c \in Nat :
             CanStep(y, p, c) => StepRank(x, p, c) >= m + 1
    <3>1. \A p \in Lo(x) .. Hi(x) - 1 : \A c \in Nat : CanStep(x, p, c) => StepRank(x, p, c) >= m
      BY <2>3, <2>4
    <3> QED
      BY <2>1, <2>2, <2>3, <3>1, PassKeeps
  <2>6. Alike(s, y)
    BY <2>3, <2>5, AlikeOn
  <2>7. \A p \in Int : Level(y, p) >= Level(s, p)
    <3>1. \A p \in Int : Level(y, p) \in Int /\ Level(x, p) \in Int /\ Level(s, p) \in Int
      BY <1>3, <2>3, <2>5
    <3> QED
      BY <2>3, <2>5, <3>1
  <2>8. Good(y, m + 1)
    BY <2>4, <2>5, <2>6, <2>7
  <2> HIDE DEF Good
  <2> QED
    BY <2>1, <2>8 DEF y
<1>8. 0 .. k \subseteq S
  <2> HIDE DEF S
  <2> QED
    BY <1>2, <1>6, <1>7, Climb
<1>9. ASSUME NEW x, InRing(x, tag), Alike(s, x), NEW p \in Lo(s) .. Hi(s) - 1, NEW c \in Nat,
             CanStep(x, p, c)
      PROVE  StepRank(s, p, c) \in Nat /\ StepRank(s, p, c) < 2 * M
  <2>1. MaxLevel(x.xf) = M
    BY <1>9, AlikeSteps
  <2>2. c \in 0 .. M - 1
    BY <1>9, <2>1 DEF CanStep
  <2> HIDE DEF M
  <2>3. c \in Nat /\ c <= M - 1
    BY <1>1, <2>2
  <2>4. StepRank(s, p, c) \in {2 * c, 2 * c + 1}
    BY <2>3 DEF StepRank
  <2> QED
    BY <1>1, <2>3, <2>4
<1>11. ASSUME NEW x, InRing(x, tag), Alike(s, x), AscendingPass(x) = x
       PROVE  \A p \in Lo(s) .. Hi(s) - 1 : \A c \in Nat : ~ CanStep(x, p, c)
  <2>1. Lo(x) = Lo(s) /\ Hi(x) = Hi(s) /\ \A p : \A c : StepRank(x, p, c) = StepRank(s, p, c)
    BY <1>11, AlikeSteps
  <2> DEFINE Late(n) == \A p \in Lo(x) .. Hi(x) - 1 : \A c \in Nat :
                          CanStep(x, p, c) => StepRank(x, p, c) >= n
             L == {n \in Nat : Late(n)}
  <2>2. 0 \in L
    <3>1. \A p \in Lo(x) .. Hi(x) - 1 : \A c \in Nat : StepRank(x, p, c) >= 0
      BY <1>4, <1>5, <2>1
    <3> QED
      BY <3>1
  <2>3. ASSUME NEW m \in 0 .. 2 * M - 1, m \in L PROVE m + 1 \in L
    <3>1. m \in Nat /\ m + 1 \in Nat
      OBVIOUS
    <3>2. \A p \in Lo(x) .. Hi(x) - 1 : \A c \in Nat : CanStep(x, p, c) => StepRank(x, p, c) >= m
      BY <2>3
    <3>3. \A p \in Lo(x) .. Hi(x) - 1 : \A c \in Nat : CanStep(x, p, c) => StepRank(x, p, c) >= m + 1
      BY <1>11, <3>1, <3>2, PassKeeps
    <3> QED
      BY <3>1, <3>3
  <2>4. 2 * M \in Nat /\ 2 * M \in 0 .. 2 * M
    <3> HIDE DEF M
    <3> QED
      BY <1>1
  <2>5. 2 * M \in L
    <3> HIDE DEF L, M
    <3> QED
      BY <2>2, <2>3, <2>4, Climb
  <2>6. ASSUME NEW p \in Lo(s) .. Hi(s) - 1, NEW c \in Nat, CanStep(x, p, c) PROVE FALSE
    <3>1. StepRank(s, p, c) \in Nat /\ StepRank(s, p, c) < 2 * M
      BY <1>9, <1>11, <2>6
    <3>2. StepRank(x, p, c) >= 2 * M
      BY <2>1, <2>5, <2>6
    <3>3. StepRank(x, p, c) = StepRank(s, p, c)
      BY <2>1
    <3> HIDE DEF M
    <3> QED
      BY <2>4, <3>1, <3>2, <3>3
  <2> QED
    BY <2>6
<1>12. \E n \in 0 .. k - 1 : f[n + 1] = f[n]
  <2> DEFINE h == 2 * M
             x == f[h]
  <2>1. h \in Nat /\ h \in 0 .. k - 1 /\ h \in 0 .. k /\ h + 1 \in 1 .. k /\ (h + 1) - 1 = h
    <3> HIDE DEF M
    <3> QED
      BY <1>1, <1>2
  <2>2. Good(x, h)
    <3> HIDE DEF Good, h
    <3> QED
      BY <1>8, <2>1
  <2> HIDE DEF x
  <2>3. Lo(x) = Lo(s) /\ Hi(x) = Hi(s)
    BY <2>2, AlikeSteps
  <2>4. ASSUME NEW p \in Lo(s) .. Hi(s) - 1, NEW c \in Nat, CanStep(x, p, c) PROVE FALSE
    <3>1. StepRank(s, p, c) \in Nat /\ StepRank(s, p, c) < h
      BY <1>9, <2>2, <2>4
    <3>2. StepRank(s, p, c) >= h
      BY <2>2, <2>4
    <3> HIDE DEF h
    <3> QED
      BY <2>1, <3>1, <3>2
  <2>5. AscendingPass(x) = x
    BY <2>2, <2>3, <2>4, PassIdle
  <2> HIDE DEF h
  <2>6. f[h + 1] = AscendingPass(f[h])
    BY <1>10, <2>1
  <2>7. f[h + 1] = f[h]
    BY <2>5, <2>6 DEF x
  <2> QED
    BY <2>1, <2>7
<1>13. PICK last \in 0 .. k - 1 : /\ f[last + 1] = f[last]
                                  /\ UntilStable(s) = [s EXCEPT !.cells = f[last].cells]
  BY <1>10, <1>12
<1> DEFINE y == f[last]
<1>14. last \in 0 .. k /\ last + 1 \in 1 .. k /\ (last + 1) - 1 = last
  BY <1>2
<1>15. Good(y, last)
  <2> HIDE DEF Good
  <2> QED
    BY <1>8, <1>14
<1>16. AscendingPass(y) = y
  BY <1>10, <1>13, <1>14
<1>17. t = [s EXCEPT !.cells = y.cells]
  BY <1>13
<1> HIDE DEF y
<1>18. Alike(s, y)
  BY <1>15
<1>19. t = y
  BY <1>17, <1>18 DEF Alike, IsRing, RingFields
<1>20. \A p \in Lo(s) .. Hi(s) - 1 : \A c \in Nat : ~ CanStep(y, p, c)
  BY <1>11, <1>15, <1>16
<1>21. AtRest(y)
  <2>1. Lo(y) = Lo(s) /\ Hi(y) = Hi(s)
    BY <1>18, AlikeSteps
  <2> SUFFICES ASSUME NEW p \in Lo(y) .. Hi(y) - 1, NEW cur \in 0 .. MaxLevel(y.xf) - 1,
                      Able(y, p, cur, NeighbourLevel(y, p, cur))
               PROVE  FALSE
    BY DEF AtRest
  <2>2. cur \in Nat
    BY DEF MaxLevel
  <2>3. CanStep(y, p, cur)
    BY DEF CanStep
  <2> QED
    BY <1>20, <2>1, <2>2, <2>3
<1> QED
  BY <1>15, <1>19, <1>21

-----------------------------------------------------------------------------
(* The ring of a level of two rows or more. *)

\* The level's rows and filter are the same.
SameSpan(s, t) == t.v0 = s.v0 /\ t.v1 = s.v1 /\ t.xf = s.xf

\* The ring of a level of two rows or more between two calls: it keeps at most four
\* of the rows that left.
Rested(s, tag) ==
  /\ Steady(s, tag) /\ DOMAIN s = FdwtFields /\ s.first = 1 /\ s.depth = 12
  /\ s.nextOut <= s.origin + 4

\* The cascade of either filter leaves no row that can be lifted.
LEMMA CascadeRests ==
  ASSUME NEW s, NEW tag, InRing(s, tag), s.first = 1, NEW t, t = FdwtCascade(s)
  PROVE  /\ InRing(t, tag) /\ Alike(s, t) /\ AtRest(t)
         /\ \A p \in Int : Level(t, p) >= Level(s, p)
<1>1. CASE s.xf = 0
  <2>1. t = UntilStable(s)
    BY <1>1 DEF FdwtCascade
  <2> QED
    BY <2>1, StableRests
<1>2. CASE s.xf # 0
  <2> DEFINE a == Phase(s, 1, 0, 0)
             b == Phase(a, 0, 0, 1)
  <2>1. t = b
    BY <1>2 DEF FdwtCascade
  <2>2. MaxLevel(s.xf) = 1
    BY <1>2 DEF MaxLevel
  <2>3. NeedOf(s, 1, 0) = 0 /\ 1 \in {0, 1} /\ 0 \in {0, 1} /\ 0 \in 0 .. MaxLevel(s.xf) - 1
    BY <2>2 DEF NeedOf
  <2>4. InRing(a, tag) /\ Alike(s, a)
    BY <2>3, PhaseKeeps
  <2>5. StepDone(a, 1, 0) /\ \A p \in Int : Level(a, p) >= Level(s, p)
    BY <2>3, PhaseRests
  <2> HIDE DEF a
  <2>6. a.first = 1 /\ a.xf = s.xf
    BY <2>4, AlikeAre
  <2>7. NeedOf(a, 0, 0) = 1 /\ MaxLevel(a.xf) = 1 /\ 0 \in 0 .. MaxLevel(a.xf) - 1
    BY <2>2, <2>6 DEF NeedOf
  <2>8. InRing(b, tag) /\ Alike(a, b)
    BY <2>3, <2>4, <2>7, PhaseKeeps
  <2>9. /\ StepDone(b, 0, 0) /\ \A p \in Int : Level(b, p) >= Level(a, p)
        /\ RankOf(a, 1, 0) < RankOf(a, 0, 0) /\ StepDone(a, 1, 0) => StepDone(b, 1, 0)
    BY <2>3, <2>4, <2>7, PhaseRests
  <2>10. RankOf(a, 1, 0) < RankOf(a, 0, 0)
    BY <2>6 DEF RankOf
  <2> HIDE DEF b
  <2>11. AtRest(b)
    <3>1. MaxLevel(b.xf) = 1 /\ Shaped(b)
      BY <2>7, <2>8, AlikeAre DEF InRing
    <3>2. \A par \in {0, 1} : \A cur \in 0 .. MaxLevel(b.xf) - 1 : StepDone(b, par, cur)
      BY <2>5, <2>9, <2>10, <3>1
    <3> QED
      BY <3>1, <3>2, AllDoneRests
  <2>12. ASSUME NEW p \in Int PROVE Level(b, p) >= Level(s, p)
    <3>1. Level(s, p) \in Int /\ Level(a, p) \in Int /\ Level(b, p) \in Int
      BY <2>4, <2>8, LevelOfRow DEF InRing
    <3>2. Level(a, p) >= Level(s, p) /\ Level(b, p) >= Level(a, p)
      BY <2>5, <2>9
    <3> QED
      BY <3>1, <3>2
  <2> QED
    BY <2>1, <2>4, <2>8, <2>11, <2>12, AlikeOn
<1> QED
  BY <1>1, <1>2

\* When no row may leave, at most four are there that have not left, and none once the
\* last one has entered.
LEMMA RestBounds ==
  ASSUME NEW s, NEW tag, Rested(s, tag), ~ Ready(s)
  PROVE  /\ s.nextOut < s.v1 => s.nextIn <= s.nextOut + 4
         /\ s.nextIn = s.v1 => s.nextOut = s.v1
<1>1. InRing(s, tag) /\ AtRest(s) /\ Leaving(s)
  BY DEF Rested, Steady
<1>2. s.nextOut < s.v1 => s.nextIn < s.v1 /\ s.nextIn <= s.nextOut + 4
  BY <1>1, NotHeldBack
<1>3. s.nextOut \in Nat /\ s.v1 \in Nat /\ s.nextIn \in Nat /\ s.nextIn <= s.v1
  BY <1>1, RangesAre DEF InRing
<1>4. s.nextOut <= s.nextIn
  BY <1>1 DEF Leaving
<1> QED
  BY <1>2, <1>3, <1>4

\* The bounds of a ring of two rows or more.
LEMMA RestedIs ==
  ASSUME NEW s, NEW tag, Rested(s, tag)
  PROVE  /\ InRing(s, tag) /\ Leaving(s) /\ AtRest(s) /\ Shaped(s) /\ IsRing(s)
         /\ s.v0 \in Nat /\ s.v1 \in Nat /\ s.origin \in Nat /\ s.nextIn \in Nat /\ s.nextOut \in Nat
         /\ s.v1 >= s.v0 + 2 /\ s.v0 <= s.origin /\ s.origin <= s.nextOut /\ s.nextOut <= s.nextIn
         /\ s.nextIn <= s.v1 /\ s.nextOut <= s.origin + 4 /\ s.first = 1 /\ s.depth = 12
         /\ DOMAIN s = FdwtFields /\ ~ OneRow(s) /\ s.v1 # s.v0
<1>1. /\ InRing(s, tag) /\ Leaving(s) /\ AtRest(s) /\ Shaped(s) /\ IsRing(s)
      /\ s.nextOut <= s.origin + 4 /\ s.first = 1 /\ s.depth = 12 /\ DOMAIN s = FdwtFields
  BY DEF Rested, Steady, InRing, Shaped
<1>2. /\ s.v0 \in Nat /\ s.v1 \in Nat /\ s.origin \in Nat /\ s.nextIn \in Nat /\ s.nextOut \in Nat
      /\ s.v1 >= s.v0 + 2
  BY <1>1, RangesAre
<1>3. s.v0 <= s.origin /\ s.origin <= s.nextOut /\ s.nextOut <= s.nextIn /\ s.nextIn <= s.v1
  BY <1>1 DEF InRing, Leaving
<1>4. ~ OneRow(s) /\ s.v1 # s.v0
  BY <1>2 DEF OneRow
<1> QED
  BY <1>1, <1>2, <1>3, <1>4

\* A cascade of a ring that differs from one at rest in rows that were filled.
LEMMA LiftedRests ==
  ASSUME NEW s, NEW tag, Rested(s, tag), NEW w, InRing(w, tag), DOMAIN w = DOMAIN s,
         \A f \in DOMAIN s : f \notin {"cells", "nextIn", "flushed"} => w[f] = s[f],
         w.nextIn >= s.nextIn, \A p \in Int : Level(w, p) >= Level(s, p),
         NEW t, t = FdwtCascade(w)
  PROVE  Rested(t, tag) /\ SameSpan(s, t) /\ t.nextIn = w.nextIn /\ t.nextOut = s.nextOut
<1>1. /\ InRing(s, tag) /\ Leaving(s) /\ s.nextOut <= s.origin + 4 /\ s.first = 1 /\ s.depth = 12
      /\ DOMAIN s = FdwtFields
  BY RestedIs
<1>2. /\ w.v0 = s.v0 /\ w.v1 = s.v1 /\ w.xf = s.xf /\ w.first = 1 /\ w.depth = 12
      /\ w.origin = s.origin /\ w.nextOut = s.nextOut
  BY <1>1 DEF FdwtFields
<1>3. InRing(t, tag) /\ Alike(w, t) /\ AtRest(t) /\ \A p \in Int : Level(t, p) >= Level(w, p)
  BY <1>2, CascadeRests
<1>4. /\ t.v0 = s.v0 /\ t.v1 = s.v1 /\ t.xf = s.xf /\ t.first = 1 /\ t.depth = 12
      /\ t.origin = s.origin /\ t.nextOut = s.nextOut /\ t.nextIn = w.nextIn
      /\ DOMAIN t = FdwtFields
  BY <1>1, <1>2, <1>3, AlikeAre DEF Alike
<1>5. ASSUME NEW p \in Int PROVE Level(t, p) >= Level(s, p)
  <2>1. Level(s, p) \in Int /\ Level(w, p) \in Int /\ Level(t, p) \in Int
    BY <1>1, <1>3, LevelOfRow DEF InRing
  <2>2. Level(t, p) >= Level(w, p) /\ Level(w, p) >= Level(s, p)
    BY <1>3
  <2> QED
    BY <2>1, <2>2
<1>6. Leaving(t)
  BY <1>1, <1>3, <1>4, <1>5, LeavingStays
<1> QED
  BY <1>1, <1>3, <1>4, <1>6 DEF Rested, Steady, SameSpan

\* The next row of the picture enters.
LEMMA PushedRests ==
  ASSUME NEW s, NEW tag, Rested(s, tag), ~ Ready(s), s.nextIn < s.v1,
         NEW t, t = Pushed(s, Row(tag, s.nextIn, 0))
  PROVE  Rested(t, tag) /\ SameSpan(s, t) /\ t.nextIn = s.nextIn + 1 /\ t.nextOut = s.nextOut
<1> DEFINE w == Enter(s, Row(tag, s.nextIn, 0))
<1>1. /\ InRing(s, tag) /\ s.depth = 12 /\ ~ OneRow(s) /\ DOMAIN s = FdwtFields
      /\ s.origin \in Nat /\ s.nextIn \in Nat /\ s.nextOut \in Nat /\ s.v1 \in Nat
      /\ s.nextOut <= s.origin + 4 /\ s.nextOut <= s.nextIn
  BY RestedIs
<1>2. s.nextIn < s.origin + s.depth
  <2>1. s.nextIn <= s.nextOut + 4
    BY <1>1, RestBounds
  <2> QED
    BY <1>1, <2>1
<1>3. t = FdwtCascade(w)
  <2>1. ~ (s.nextIn >= s.v1)
    BY <1>1
  <2> QED
    BY <1>1, <2>1 DEF Pushed, Enter
<1>4. /\ InRing(w, tag) /\ DOMAIN w = DOMAIN s /\ w.nextIn = s.nextIn + 1
      /\ \A f \in DOMAIN s : f \notin {"cells", "nextIn"} => w[f] = s[f]
      /\ \A p \in Int : Level(w, p) >= Level(s, p)
  <2> HIDE DEF w
  <2> QED
    BY <1>1, <1>2, EnterKeeps DEF w
<1> HIDE DEF w
<1>5. /\ w.nextIn >= s.nextIn
      /\ \A f \in DOMAIN s : f \notin {"cells", "nextIn", "flushed"} => w[f] = s[f]
  BY <1>1, <1>4
<1> QED
  BY <1>3, <1>4, <1>5, LiftedRests

\* What leaves a ring at rest has all its steps; the rows four behind are given up.
LEMMA EmittedRests ==
  ASSUME NEW s, NEW tag, Rested(s, tag), Ready(s), NEW t, t = Emitted(s)
  PROVE  /\ Rested(t, tag) /\ SameSpan(s, t) /\ s.nextOut < s.v1
         /\ t.nextIn = s.nextIn /\ t.nextOut = s.nextOut + 1
         /\ Emittee(s) = Row(tag, s.nextOut, MaxLevel(s.xf))
<1> DEFINE n == s.nextOut
           u == [s EXCEPT !.nextOut = @ + 1]
           stop == {r \in u.origin .. u.nextOut - 5 : Level(u, r) < MaxLevel(u.xf)}
           last == u.nextOut - 4
           o == IF stop = {} THEN last ELSE Min(stop)
<1>1. /\ s.origin \in Nat /\ n \in Nat /\ ~ OneRow(s) /\ DOMAIN s = FdwtFields /\ s.v1 \in Nat
      /\ s.nextIn \in Nat /\ s.origin <= n /\ n <= s.origin + 4 /\ n <= s.nextIn /\ s.nextIn <= s.v1
      /\ s.first = 1 /\ s.depth = 12 /\ Steady(s, tag)
  BY RestedIs DEF Rested
<1>2. /\ NextRow(s) = Row(tag, n, MaxLevel(s.xf)) /\ Steady(u, tag) /\ Moved(s, u)
      /\ u.nextIn = s.nextIn /\ u.nextOut = n + 1 /\ n < s.nextIn
  BY <1>1, LeaveKeeps
<1>3. Emittee(s) = Row(tag, n, MaxLevel(s.xf))
  BY <1>1, <1>2 DEF Emittee
<1>4. t = IF OneRow(s) \/ o <= u.origin THEN u ELSE EvictTo(u, o)
  BY DEF Emitted
<1> HIDE DEF u, o
<1>5. /\ u.v0 = s.v0 /\ u.v1 = s.v1 /\ u.xf = s.xf /\ u.first = 1 /\ u.depth = 12
      /\ u.origin = s.origin /\ DOMAIN u = FdwtFields
  BY <1>1, <1>2 DEF Moved, FdwtFields
<1>6. o = n - 3
  <2>1. stop = {}
    <3> SUFFICES ASSUME NEW r \in u.origin .. u.nextOut - 5, Level(u, r) < MaxLevel(u.xf)
                 PROVE  FALSE
      OBVIOUS
    <3>1. r \in u.origin .. u.nextOut - 1
      BY <1>1, <1>2, <1>5
    <3>2. Level(u, r) = MaxLevel(u.xf)
      BY <1>2, <3>1 DEF Steady, Leaving
    <3>3. MaxLevel(u.xf) \in {1, 2}
      BY DEF MaxLevel
    <3> QED
      BY <3>2, <3>3
  <2>2. o = last
    BY <2>1 DEF o
  <2> QED
    BY <1>1, <1>2, <2>2
<1>7. CASE o <= u.origin
  <2>1. t = u
    BY <1>4, <1>7
  <2>2. n + 1 <= s.origin + 4
    BY <1>1, <1>5, <1>6, <1>7
  <2>3. Rested(t, tag)
    BY <1>2, <1>5, <2>1, <2>2 DEF Rested
  <2> QED
    BY <1>1, <1>2, <1>3, <1>5, <2>1, <2>3 DEF SameSpan
<1>8. CASE ~ (o <= u.origin)
  <2>1. t = EvictTo(u, o) /\ o \in u.origin .. u.nextOut - 1
    BY <1>1, <1>2, <1>4, <1>5, <1>6, <1>8
  <2>2. /\ Steady(t, tag) /\ DOMAIN t = DOMAIN u /\ t.origin = o
        /\ \A f \in DOMAIN u : f \notin {"cells", "origin"} => t[f] = u[f]
    BY <1>2, <2>1, EvictSteady
  <2>3. /\ t.v0 = s.v0 /\ t.v1 = s.v1 /\ t.xf = s.xf /\ t.first = 1 /\ t.depth = 12
        /\ t.nextIn = s.nextIn /\ t.nextOut = n + 1
    BY <1>2, <1>5, <2>2 DEF FdwtFields
  <2>4. t.nextOut <= t.origin + 4
    BY <1>1, <1>6, <2>2, <2>3
  <2>5. Rested(t, tag)
    BY <1>5, <2>2, <2>3, <2>4 DEF Rested
  <2> QED
    BY <1>1, <1>2, <1>3, <2>3, <2>5 DEF SameSpan
<1> QED
  BY <1>7, <1>8

\* The flag of a level is not its ring's.
LEMMA FlagAlone ==
  ASSUME NEW s, NEW tag, InRing(s, tag), NEW u, IsRing(u), \A f \in RingFields : u[f] = s[f]
  PROVE  InRing(u, tag) /\ \A p : Level(u, p) = Level(s, p)
<1>1. /\ u.v0 = s.v0 /\ u.v1 = s.v1 /\ u.xf = s.xf /\ u.first = s.first /\ u.depth = s.depth
      /\ u.topN = s.topN /\ u.botN = s.botN /\ u.origin = s.origin /\ u.nextIn = s.nextIn
      /\ u.nextOut = s.nextOut /\ u.cells = s.cells
  BY DEF RingFields
<1>2. /\ Shaped(s) /\ s.v0 <= s.origin /\ s.origin <= s.nextIn /\ s.nextIn <= s.v1
      /\ s.nextIn <= s.origin + s.depth /\ Arrived(s) /\ Faithful(s, tag) /\ Staggered(s)
  BY DEF InRing
<1>3. \A p : IsReal(u, p) = IsReal(s, p)
  BY <1>1 DEF IsReal
<1>4. \A p : SlotOf(u, p) = SlotOf(s, p)
  BY <1>1, <1>3 DEF SlotOf
<1>5. PseRows(u) = PseRows(s) /\ SlottedRows(u) = SlottedRows(s)
  BY <1>1 DEF PseRows, SlottedRows
<1>6. \A p : Level(u, p) = Level(s, p) /\ CellAt(u, p) = CellAt(s, p)
  BY <1>1, <1>3, <1>4, <1>5 DEF Level, CellAt
<1>7. \A p : SourceRow(u, p) = SourceRow(s, p)
  BY <1>1, <1>3 DEF SourceRow, PseSource
<1>8. KeptRows(u) = KeptRows(s)
  BY <1>1, <1>3, <1>5 DEF KeptRows, GivenUp
<1>9. Shaped(u)
  <2>1. Ranges(s) /\ Cursors(s) /\ Cells(s)
    BY <1>2 DEF Shaped
  <2>2. Outer(u) = Outer(s)
    BY <1>1 DEF Outer
  <2>3. Ranges(u)
    BY <1>1, <2>1, <2>2 DEF Ranges
  <2>4. Cursors(u) /\ Cells(u)
    BY <1>1, <2>1 DEF Cursors, Cells
  <2> QED
    BY <2>3, <2>4 DEF Shaped
<1>10. MaxLevel(u.xf) = MaxLevel(s.xf)
  BY <1>1
<1>11. Arrived(u) /\ Faithful(u, tag) /\ Staggered(u)
  BY <1>1, <1>2, <1>6, <1>7, <1>8, <1>10 DEF Arrived, Faithful, Staggered
<1> QED
  BY <1>1, <1>2, <1>6, <1>9, <1>11 DEF InRing

\* When a ring of two rows or more is flushed nothing is left to be mirrored: each
\* extension row was filled when the row it mirrors came.
LEMMA FlushedRests ==
  ASSUME NEW s, NEW tag, Rested(s, tag), NEW t, t = Flushed(s)
  PROVE  Rested(t, tag) /\ SameSpan(s, t) /\ t.nextIn = s.nextIn /\ t.nextOut = s.nextOut
<1> DEFINE u == [s EXCEPT !.flushed = TRUE]
           late == LateSources(u)
           w == FillPse(u, late)
<1>1. /\ InRing(s, tag) /\ IsRing(s) /\ DOMAIN s = FdwtFields /\ ~ OneRow(s) /\ s.v1 # s.v0
      /\ s.depth = 12 /\ s.nextIn \in Nat
  BY RestedIs
<1>2. t = FdwtCascade(w)
  BY <1>1 DEF Flushed
<1>3. /\ IsRing(u) /\ DOMAIN u = FdwtFields /\ \A f \in FdwtFields \ {"flushed"} : u[f] = s[f]
  BY <1>1 DEF IsRing
<1> HIDE DEF u
<1>4. InRing(u, tag) /\ \A p : Level(u, p) = Level(s, p)
  <2>1. RingFields \subseteq FdwtFields \ {"flushed"}
    BY DEF RingFields, FdwtFields
  <2> QED
    BY <1>1, <1>3, <2>1, FlagAlone
<1>5. late = {}
  <2> SUFFICES ASSUME NEW q \in u.v1 .. u.v1 + u.botN - 1, Level(u, q) < 0,
                      NEW r \in u.origin .. u.origin + u.depth - 1, Level(u, r) >= 0,
                      r = PseSource(u, q)
               PROVE  FALSE
    BY DEF LateSources
  <2>1. Shaped(u) /\ Arrived(u)
    BY <1>4 DEF InRing
  <2>2. /\ u.v0 \in Nat /\ u.v1 \in Nat /\ u.v1 >= u.v0 + 2 /\ u.topN \in 1 .. 4 /\ u.botN \in 1 .. 4
        /\ u.origin \in Nat /\ u.depth \in Nat /\ u.nextIn \in Nat
    BY <2>1, RangesAre
  <2>3. q \in Int /\ r \in Int /\ q \in SlottedRows(u) /\ ~ IsReal(u, q)
    BY <2>2 DEF SlottedRows, IsReal
  <2>4. q \in KeptRows(u)
    BY <2>3 DEF KeptRows, GivenUp
  <2>5. SourceRow(u, q) = r
    BY <2>3 DEF SourceRow
  <2>6. r \in u.v0 .. u.v1 - 1
    BY <2>1, <2>3, <2>5, SourceRowIs
  <2>7. SourceRow(u, r) = r
    BY <2>2, <2>6 DEF SourceRow, IsReal
  <2>8. r \in KeptRows(u)
    BY <2>1, <2>3, LevelHeld
  <2>9. r < u.nextIn
    BY <2>1, <2>7, <2>8 DEF Arrived
  <2>10. Level(u, q) >= 0
    BY <2>1, <2>4, <2>5, <2>9 DEF Arrived
  <2>11. Level(u, q) \in Int
    BY <2>1, <2>3, LevelOfRow
  <2> QED
    BY <2>10, <2>11
<1>6. InRing(w, tag) /\ Alike(u, w) /\ \A p \in Int : Level(w, p) = Level(u, p)
  <2> DEFINE R == {}
             none == [r \in R |-> Lifted(u, r, 0)]
             D == {q \in PseRows(u) : Level(u, q) < 0 /\ PseSource(u, q) \in {}}
             cell == [p \in D |-> [lvl |-> 0, val |-> u.cells[SlotOf(u, PseSource(u, p))].val]]
  <2>1. w = Put(u, cell)
    BY <1>5 DEF FillPse
  <2>2. cell = none
    <3>1. D = {}
      OBVIOUS
    <3> HIDE DEF D
    <3> QED
      BY <3>1
  <2>3. 0 \in {0, 1} /\ 0 \in 0 .. MaxLevel(u.xf) - 1
    BY DEF MaxLevel
  <2>4. R \in SUBSET Int /\ \A r \in R : r % 2 = 0 /\ Able(u, r, 0, NeighbourLevel(u, r, 0))
    OBVIOUS
  <2>5. \A p : p \notin R
    OBVIOUS
  <2> HIDE DEF cell, D, w, R
  <2>6. LET y == Put(u, [r \in R |-> Lifted(u, r, 0)]) IN
        /\ InRing(y, tag) /\ Alike(u, y)
        /\ \A p \in Int : Level(y, p) = IF p \in R THEN 0 + 1 ELSE Level(u, p)
    BY <1>4, <2>3, <2>4, LiftKeeps
  <2> QED
    BY <2>1, <2>2, <2>5, <2>6
<1> HIDE DEF w
<1>7. /\ DOMAIN w = DOMAIN s /\ w.nextIn = s.nextIn
      /\ \A f \in DOMAIN s : f \notin {"cells", "nextIn", "flushed"} => w[f] = s[f]
  BY <1>1, <1>3, <1>6 DEF Alike, FdwtFields
<1>8. \A p \in Int : Level(w, p) >= Level(s, p)
  <2>1. \A p \in Int : Level(s, p) \in Int
    BY <1>1, LevelOfRow DEF InRing
  <2> QED
    BY <1>4, <1>6, <2>1
<1>9. w.nextIn >= s.nextIn
  BY <1>1, <1>7
<1>10. Rested(t, tag) /\ SameSpan(s, t) /\ t.nextIn = w.nextIn /\ t.nextOut = s.nextOut
  BY <1>2, <1>6, <1>7, <1>8, <1>9, LiftedRests
<1> QED
  BY <1>7, <1>10

\* A ring that nothing has entered.
LEMMA FreshRests ==
  ASSUME NEW v0 \in Nat, NEW v1 \in Nat, NEW xf \in Nat, v1 >= v0 + 2, NEW tag,
         NEW s, s = FdwtInit(v0, v1, xf)
  PROVE  Rested(s, tag)
<1> DEFINE C == EmptyRing(12)
           tn == kPseFdwtTop[(v0 % 2) + 1][TableCol(xf)]
           bn == kPseFdwtBot[(v1 % 2) + 1][TableCol(xf)]
           O == IF xf = 0 THEN 3 ELSE 1
<1>1. s = [flushed |-> FALSE, v0 |-> v0, v1 |-> v1, xf |-> xf, first |-> 1, depth |-> 12,
           topN |-> tn, botN |-> bn, origin |-> v0, nextIn |-> v0, nextOut |-> v0, cells |-> C]
  BY DEF FdwtInit, FDWT_STATE_RING_DEPTH
<1>2. v0 % 2 \in {0, 1} /\ v1 % 2 \in {0, 1}
  OBVIOUS
<1>3. /\ tn = O + (IF v0 % 2 = 1 THEN 0 ELSE 1)
      /\ bn = O + (IF v1 % 2 = 1 THEN 1 ELSE 0)
  <2>1. CASE xf = 0
    BY <1>2, <2>1 DEF kPseFdwtTop, kPseFdwtBot, TableCol
  <2>2. CASE xf # 0
    BY <1>2, <2>2 DEF kPseFdwtTop, kPseFdwtBot, TableCol
  <2> QED
    BY <2>1, <2>2
<1>4. C = [k \in 0 .. 19 |-> C[k]] /\ \A k \in 0 .. 19 : C[k].lvl = -1 /\ IsCell(C[k])
  <2>1. C = [k \in 0 .. 19 |-> Empty]
    BY DEF EmptyRing
  <2>2. Empty.lvl = -1 /\ IsCell(Empty)
    BY DEF Empty, IsCell
  <2> HIDE DEF C
  <2> QED
    BY <2>1, <2>2
<1> HIDE DEF C, tn, bn
<1>5. IsRing(s) /\ DOMAIN s = FdwtFields
  BY <1>1 DEF IsRing, RingFields, FdwtFields
<1>6. /\ s.v0 = v0 /\ s.v1 = v1 /\ s.xf = xf /\ s.first = 1 /\ s.depth = 12
      /\ s.topN = tn /\ s.botN = bn /\ s.origin = v0 /\ s.nextIn = v0 /\ s.nextOut = v0
      /\ s.cells = C
  BY <1>1
<1>7. Ranges(s)
  BY <1>3, <1>6 DEF Ranges, Outer
<1>8. Cursors(s)
  BY <1>6 DEF Cursors
<1>9. Cells(s)
  <2>1. 12 + 7 = 19
    OBVIOUS
  <2> QED
    BY <1>4, <1>6, <2>1 DEF Cells
<1>10. Shaped(s)
  BY <1>5, <1>7, <1>8, <1>9 DEF Shaped
<1>11. \A k \in 0 .. s.depth + 7 : s.cells[k].lvl = -1
  <2>1. s.depth + 7 = 19
    BY <1>6
  <2> QED
    BY <1>4, <1>6, <2>1
<1>12. Steady(s, tag)
  BY <1>6, <1>10, <1>11, NewRingSteady
<1>13. s.nextOut <= s.origin + 4
  BY <1>6
<1> QED
  BY <1>5, <1>6, <1>12, <1>13 DEF Rested

-----------------------------------------------------------------------------
(* Levels of any height. *)

\* The ring of a level of one row keeps it until it is flushed.
Lone(s, tag) ==
  /\ DOMAIN s = FdwtFields
  /\ s.v0 \in Nat /\ s.v1 = s.v0 + 1 /\ s.xf \in Nat /\ s.depth = 12
  /\ s.nextIn \in {s.v0, s.v1} /\ s.nextOut \in {s.v0, s.nextIn}
  /\ DOMAIN s.cells = 0 .. 19
  /\ \A k \in 0 .. 19 : s.cells[k] = [lvl |-> s.cells[k].lvl, val |-> s.cells[k].val]
  /\ s.nextIn = s.v1 => s.cells[s.v0 % 12].val = Row(tag, s.v0, 0)

\* A level without rows.
Void(s) ==
  /\ DOMAIN s = FdwtFields
  /\ s.v0 \in Nat /\ s.v1 = s.v0 /\ s.xf \in Nat /\ s.nextIn = s.v0 /\ s.nextOut = s.v0

\* A level of any height, between two calls.
Streaming(s, tag) == Rested(s, tag) \/ Lone(s, tag) \/ Void(s)

\* Rows leave in the order they enter.
LEMMA StreamingIs ==
  ASSUME NEW s, NEW tag, Streaming(s, tag)
  PROVE  /\ s.v0 \in Nat /\ s.v1 \in Nat /\ s.nextIn \in Int /\ s.nextOut \in Int
         /\ s.v0 <= s.nextOut /\ s.nextOut <= s.nextIn /\ s.nextIn <= s.v1
<1>1. CASE Rested(s, tag)
  BY <1>1, RestedIs
<1>2. CASE Lone(s, tag)
  BY <1>2 DEF Lone
<1>3. CASE Void(s)
  BY <1>3 DEF Void
<1> QED
  BY <1>1, <1>2, <1>3 DEF Streaming

\* The three heights apart.
LEMMA HeightsApart ==
  ASSUME NEW s, NEW tag
  PROVE  /\ Rested(s, tag) => ~ OneRow(s) /\ s.v0 # s.v1
         /\ Lone(s, tag) => OneRow(s)
         /\ Void(s) => ~ OneRow(s) /\ ~ CanEmit(s)
<1>1. Rested(s, tag) => ~ OneRow(s) /\ s.v0 # s.v1
  BY RestedIs
<1>2. Lone(s, tag) => OneRow(s)
  BY DEF Lone, OneRow
<1>3. Void(s) => ~ OneRow(s) /\ ~ CanEmit(s)
  BY DEF Void, OneRow, CanEmit, Ready
<1> QED
  BY <1>1, <1>2, <1>3

\* As init leaves a level.
LEMMA FreshStreams ==
  ASSUME NEW v0 \in Nat, NEW v1 \in Nat, NEW xf \in Nat, v0 <= v1, NEW tag,
         NEW s, s = FdwtInit(v0, v1, xf)
  PROVE  /\ Streaming(s, tag) /\ s.v0 = v0 /\ s.v1 = v1 /\ s.xf = xf
         /\ s.nextIn = v0 /\ s.nextOut = v0
<1>1. /\ DOMAIN s = FdwtFields /\ s.v0 = v0 /\ s.v1 = v1 /\ s.xf = xf
      /\ s.depth = 12 /\ s.nextIn = v0 /\ s.nextOut = v0
      /\ s.cells = EmptyRing(12)
  BY DEF FdwtInit, FdwtFields, FDWT_STATE_RING_DEPTH
<1>2. CASE v1 >= v0 + 2
  BY <1>1, <1>2, FreshRests DEF Streaming
<1>3. CASE v1 = v0 + 1
  <2>1. /\ DOMAIN s.cells = 0 .. 19
        /\ \A k \in 0 .. 19 : s.cells[k] = [lvl |-> s.cells[k].lvl, val |-> s.cells[k].val]
    BY <1>1 DEF EmptyRing, Empty
  <2>2. Lone(s, tag)
    BY <1>1, <1>3, <2>1 DEF Lone
  <2> QED
    BY <1>1, <2>2 DEF Streaming
<1>4. CASE v1 = v0
  BY <1>1, <1>4 DEF Streaming, Void
<1> QED
  BY <1>2, <1>3, <1>4

\* The next row is pushed.
LEMMA PushedStreams ==
  ASSUME NEW s, NEW tag, Streaming(s, tag), ~ CanEmit(s), s.nextIn < s.v1,
         NEW t, t = Pushed(s, Row(tag, s.nextIn, 0))
  PROVE  /\ Streaming(t, tag) /\ SameSpan(s, t)
         /\ t.nextIn = s.nextIn + 1 /\ t.nextOut = s.nextOut
<1>1. CASE Rested(s, tag)
  <2>1. ~ Ready(s)
    BY <1>1, HeightsApart DEF CanEmit
  <2> QED
    BY <1>1, <2>1, PushedRests DEF Streaming
<1>2. CASE Lone(s, tag)
  <2> DEFINE v == s.v0
             k == v % 12
             val == Row(tag, v, 0)
  <2>1. /\ DOMAIN s = FdwtFields /\ v \in Nat /\ s.v1 = v + 1 /\ s.nextIn = v /\ s.nextOut = v
        /\ s.xf \in Nat /\ s.depth = 12 /\ DOMAIN s.cells = 0 .. 19 /\ k \in 0 .. 19
        /\ \A i \in 0 .. 19 : s.cells[i] = [lvl |-> s.cells[i].lvl, val |-> s.cells[i].val]
    BY <1>2 DEF Lone
  <2>2. SlotOf(s, s.nextIn) = k
    BY <2>1 DEF SlotOf, IsReal
  <2>3. t = [s EXCEPT !.nextIn = v + 1, !.cells[k].val = val]
    <3>1. ~ (s.nextIn >= s.v1) /\ OneRow(s)
      BY <2>1 DEF OneRow
    <3> HIDE DEF k, val
    <3>2. t = [s EXCEPT !.nextIn = s.nextIn + 1, !.cells[SlotOf(s, s.nextIn)].val
                                                        = Row(tag, s.nextIn, 0)]
      BY <3>1 DEF Pushed
    <3>3. val = Row(tag, s.nextIn, 0)
      BY <2>1 DEF val
    <3> QED
      BY <2>1, <2>2, <3>2, <3>3
  <2> HIDE DEF val, k
  <2> DEFINE cells == [s.cells EXCEPT ![k] = [@ EXCEPT !.val = val]]
  <2>4. t = [[s EXCEPT !.nextIn = v + 1] EXCEPT !.cells = cells]
    BY <2>1, <2>3
  <2>5. /\ DOMAIN cells = 0 .. 19 /\ cells[k].val = val
        /\ \A i \in 0 .. 19 : cells[i] = [lvl |-> cells[i].lvl, val |-> cells[i].val]
    <3> DEFINE cut == [s.cells[k] EXCEPT !.val = val]
    <3>1. s.cells[k] = [lvl |-> s.cells[k].lvl, val |-> s.cells[k].val]
      BY <2>1
    <3>2. cut = [lvl |-> s.cells[k].lvl, val |-> val] /\ cut.lvl = s.cells[k].lvl /\ cut.val = val
      BY <3>1
    <3>3. DOMAIN cells = 0 .. 19 /\ \A i \in 0 .. 19 : cells[i] = IF i = k THEN cut ELSE s.cells[i]
      BY <2>1
    <3> HIDE DEF cut, cells
    <3> QED
      BY <2>1, <3>2, <3>3
  <2> HIDE DEF cells
  <2>6. /\ DOMAIN t = FdwtFields /\ t.v0 = v /\ t.v1 = s.v1 /\ t.xf = s.xf /\ t.depth = 12
        /\ t.nextIn = v + 1 /\ t.nextOut = v /\ t.cells = cells
    BY <2>1, <2>4 DEF FdwtFields
  <2>7. Lone(t, tag)
    BY <2>1, <2>5, <2>6 DEF Lone, val, k
  <2> QED
    BY <2>1, <2>6, <2>7 DEF Streaming, SameSpan
<1>3. CASE Void(s)
  BY <1>3 DEF Void
<1> QED
  BY <1>1, <1>2, <1>3 DEF Streaming

\* A row leaves, with all its lifting steps.
LEMMA EmittedStreams ==
  ASSUME NEW s, NEW tag, Streaming(s, tag), CanEmit(s), NEW t, t = Emitted(s)
  PROVE  /\ Streaming(t, tag) /\ SameSpan(s, t)
         /\ t.nextIn = s.nextIn /\ t.nextOut = s.nextOut + 1 /\ s.nextOut < s.v1
         /\ Emittee(s) = Row(tag, s.nextOut, MaxLevel(s.xf))
<1>1. CASE Rested(s, tag)
  <2>1. Ready(s)
    BY <1>1, HeightsApart DEF CanEmit
  <2> QED
    BY <1>1, <2>1, EmittedRests DEF Streaming
<1>2. CASE Lone(s, tag)
  <2>1. OneRow(s) /\ s.nextIn = s.v1 /\ s.nextOut = s.v0
    BY <1>2, HeightsApart DEF CanEmit
  <2>2. t = [s EXCEPT !.nextOut = @ + 1]
    BY <2>1 DEF Emitted
  <2>3. /\ DOMAIN s = FdwtFields /\ s.v0 \in Nat /\ s.v1 = s.v0 + 1 /\ s.depth = 12
        /\ s.cells[s.v0 % 12].val = Row(tag, s.v0, 0) /\ s.xf \in Nat
    BY <1>2, <2>1 DEF Lone
  <2>4. /\ DOMAIN t = FdwtFields /\ t.v0 = s.v0 /\ t.v1 = s.v1 /\ t.xf = s.xf /\ t.depth = s.depth
        /\ t.nextIn = s.nextIn /\ t.nextOut = s.v0 + 1 /\ t.cells = s.cells
    BY <2>1, <2>2, <2>3 DEF FdwtFields
  <2>5. Lone(t, tag)
    BY <1>2, <2>1, <2>3, <2>4 DEF Lone
  <2>6. Emittee(s) = Row(tag, s.nextOut, MaxLevel(s.xf))
    <3>1. NextRow(s) = Row(tag, s.v0, 0)
      BY <2>1, <2>3 DEF NextRow, SlotOf, IsReal
    <3>2. NextRow(s) # Junk /\ NextRow(s)[1] = tag /\ NextRow(s)[2] = s.v0
      BY <3>1 DEF Row, Junk
    <3> QED
      BY <2>1, <3>2 DEF Emittee
  <2> QED
    BY <2>1, <2>3, <2>4, <2>5, <2>6 DEF Streaming, SameSpan
<1>3. CASE Void(s)
  BY <1>3, HeightsApart
<1> QED
  BY <1>1, <1>2, <1>3 DEF Streaming

\* A flush moves no row in or out.
LEMMA FlushedStreams ==
  ASSUME NEW s, NEW tag, Streaming(s, tag), NEW t, t = Flushed(s)
  PROVE  /\ Streaming(t, tag) /\ SameSpan(s, t)
         /\ t.nextIn = s.nextIn /\ t.nextOut = s.nextOut
<1>1. CASE Rested(s, tag)
  BY <1>1, FlushedRests DEF Streaming
<1>2. CASE Lone(s, tag)
  <2>1. OneRow(s)
    BY <1>2, HeightsApart
  <2>2. t = [s EXCEPT !.flushed = TRUE]
    BY <2>1 DEF Flushed
  <2>3. DOMAIN s = FdwtFields
    BY <1>2 DEF Lone
  <2>4. /\ DOMAIN t = FdwtFields /\ t.v0 = s.v0 /\ t.v1 = s.v1 /\ t.xf = s.xf /\ t.depth = s.depth
        /\ t.nextIn = s.nextIn /\ t.nextOut = s.nextOut /\ t.cells = s.cells
    BY <2>2, <2>3 DEF FdwtFields
  <2>5. Lone(t, tag)
    BY <1>2, <2>4 DEF Lone
  <2> QED
    BY <2>4, <2>5 DEF Streaming, SameSpan
<1>3. CASE Void(s)
  <2>1. s.v1 = s.v0 /\ DOMAIN s = FdwtFields
    BY <1>3 DEF Void
  <2>2. t = [s EXCEPT !.flushed = TRUE]
    BY <2>1 DEF Flushed
  <2>3. /\ DOMAIN t = FdwtFields /\ t.v0 = s.v0 /\ t.v1 = s.v1 /\ t.xf = s.xf
        /\ t.nextIn = s.nextIn /\ t.nextOut = s.nextOut
    BY <2>1, <2>2 DEF FdwtFields
  <2> QED
    BY <1>3, <2>3 DEF Streaming, SameSpan, Void
<1> QED
  BY <1>1, <1>2, <1>3 DEF Streaming

\* Nothing is held back once the last row has entered a level that was flushed.
LEMMA NothingHeldBack ==
  ASSUME NEW s, NEW tag, Streaming(s, tag), ~ CanEmit(s), s.flushed, s.nextIn = s.v1
  PROVE  s.nextOut = s.v1
<1>1. CASE Rested(s, tag)
  <2>1. ~ Ready(s)
    BY <1>1, HeightsApart DEF CanEmit
  <2> QED
    BY <1>1, <2>1, RestBounds
<1>2. CASE Lone(s, tag)
  <2>1. OneRow(s)
    BY <1>2, HeightsApart
  <2> QED
    BY <1>2, <2>1 DEF Lone, CanEmit
<1>3. CASE Void(s)
  BY <1>3 DEF Void
<1> QED
  BY <1>1, <1>2, <1>3 DEF Streaming

-----------------------------------------------------------------------------
(* Rows of one level and of the next. *)

\* Half of a level's rows, the even ones, are those of the level below.
LEMMA HalvedRows ==
  ASSUME NEW t, Sane(t), NEW c \in DOMAIN t.yrs, NEW l \in 1 .. t.NL, NEW v \in Nat
  PROVE  EncRow(t, c, l - 1, v) = (EncRow(t, c, l, v) + 1) \div 2
<1> DEFINE d == t.yrs[c] * 2 ^ (t.NL - l)
           q == CeilDiv(v, 2 * d)
           p == CeilDiv(v, d)
           m == (p + 1) \div 2
<1>1. t.yrs[c] \in Nat \ {0} /\ t.NL \in Nat \ {0}
  BY DEF Sane, TileOK
<1>2. 2 ^ (t.NL - l) \in Nat \ {0} /\ 2 ^ (t.NL - (l - 1)) = 2 * 2 ^ (t.NL - l)
  <2>1. t.NL - l \in 0 .. t.NL /\ t.NL - (l - 1) \in 1 .. t.NL
        /\ (t.NL - (l - 1)) - 1 = t.NL - l
    BY <1>1
  <2>2. 2 ^ (t.NL - (l - 1)) = 2 * 2 ^ (t.NL - l)
    BY <2>1 DEF Sane
  <2> QED
    BY <2>1, <2>2, Powers
<1>3. d \in Nat \ {0} /\ t.yrs[c] * 2 ^ (t.NL - (l - 1)) = 2 * d
  BY <1>1, <1>2
<1>4. EncRow(t, c, l - 1, v) = q /\ EncRow(t, c, l, v) = p
  BY <1>3 DEF EncRow
<1> HIDE DEF d
<1>5. /\ q \in Int /\ v <= (2 * d) * q
      /\ p \in Int /\ v <= d * p
  <2> DEFINE e == 2 * d
  <2>1. e \in Nat \ {0}
    BY <1>3
  <2> HIDE DEF e
  <2>2. CeilDiv(v, e) \in Int /\ v <= e * CeilDiv(v, e)
    BY <2>1, CeilDivIs
  <2>3. p \in Int /\ v <= d * p
    BY <1>3, CeilDivIs
  <2> QED
    BY <2>2, <2>3 DEF e
<1>6. p <= 2 * q
  <2>1. (2 * d) * q = d * (2 * q)
    BY <1>3, <1>5
  <2> HIDE DEF q
  <2>2. v <= d * (2 * q)
    BY <1>5, <2>1
  <2> QED
    BY <1>3, <1>5, <2>2, CeilDivLeast
<1> HIDE DEF p
<1>7. m \in Int /\ p <= 2 * m /\ 2 * m <= p + 1
  BY <1>5
<1>8. q <= m
  <2>1. d * p <= d * (2 * m)
    BY <1>3, <1>5, <1>7, Factors
  <2>2. d * (2 * m) = (2 * d) * m
    BY <1>3, <1>7
  <2> DEFINE a == d * p
             b == (2 * d) * m
             e == 2 * d
  <2>3. a \in Int /\ b \in Int /\ e \in Nat \ {0}
    BY <1>3, <1>5, <1>7
  <2>4. v <= a /\ a <= b
    BY <1>5, <2>1, <2>2
  <2> HIDE DEF a
  <2>5. v <= b
    BY <2>3, <2>4
  <2>6. v <= e * m
    BY <2>5
  <2> HIDE DEF e, m
  <2>7. CeilDiv(v, e) <= m
    BY <1>7, <2>3, <2>6, CeilDivLeast
  <2> QED
    BY <2>7 DEF e
<1> HIDE DEF q, m
<1>9. q = m
  BY <1>5, <1>6, <1>7, <1>8
<1> QED
  BY <1>4, <1>9 DEF m

\* A quotient rounded up is known by the multiples next to the dividend.
LEMMA CeilIs ==
  ASSUME NEW a \in Int, NEW q \in Nat \ {0}, NEW m \in Int,
         q * m <= a + q - 1, a + q - 1 < q * m + q
  PROVE  CeilDiv(a, q) = m
<1> DEFINE e == a + q - 1
<1>1. e \in Int /\ q * m <= e /\ e < q * m + q /\ CeilDiv(a, q) = e \div q
  BY DEF CeilDiv
<1> HIDE DEF e
<1>2. e \div q = m
  BY <1>1, DivIs
<1> QED
  BY <1>1, <1>2

\* Lines of the image, and those of a subsampled component.
LEMMA CeilNext ==
  ASSUME NEW a \in Nat, NEW q \in Nat \ {0}
  PROVE  /\ a % q = 0 => CeilDiv(a, q) = a \div q /\ CeilDiv(a + 1, q) = CeilDiv(a, q) + 1
         /\ a % q # 0 => CeilDiv(a + 1, q) = CeilDiv(a, q)
         /\ CeilDiv(0, q) = 0
<1> DEFINE m == a \div q
           r == a % q
<1>1. m \in Int /\ r \in 0 .. q - 1 /\ a = q * m + r
  BY DivMod
<1> HIDE DEF m, r
<1>2. CeilDiv(0, q) = 0
  <2>1. q * 0 <= 0 + q - 1 /\ 0 + q - 1 < q * 0 + q /\ 0 + q - 1 \in Int
    OBVIOUS
  <2> QED
    BY <2>1, CeilIs
<1>3. CASE r = 0
  <2>1. q * m <= a + q - 1 /\ a + q - 1 < q * m + q /\ a + q - 1 \in Int
    BY <1>1, <1>3
  <2>2. CeilDiv(a, q) = m
    BY <1>1, <2>1, CeilIs
  <2>3. /\ q * (m + 1) <= (a + 1) + q - 1 /\ (a + 1) + q - 1 < q * (m + 1) + q
        /\ (a + 1) + q - 1 \in Int /\ m + 1 \in Int
    <3>1. q * (m + 1) = q * m + q
      BY <1>1
    <3> QED
      BY <1>1, <1>3, <3>1
  <2>4. CeilDiv(a + 1, q) = m + 1
    <3> DEFINE b == a + 1
               e == m + 1
    <3>1. b \in Int /\ e \in Int /\ q * e <= b + q - 1 /\ b + q - 1 < q * e + q
      BY <2>3
    <3> HIDE DEF b, e
    <3>2. CeilDiv(b, q) = e
      BY <3>1, CeilIs
    <3> QED
      BY <3>2 DEF b, e
  <2> QED
    BY <1>2, <1>3, <2>2, <2>4 DEF m, r
<1>4. CASE r # 0
  <2>1. /\ q * (m + 1) <= a + q - 1 /\ a + q - 1 < q * (m + 1) + q /\ a + q - 1 \in Int
        /\ q * (m + 1) <= (a + 1) + q - 1 /\ (a + 1) + q - 1 < q * (m + 1) + q
        /\ (a + 1) + q - 1 \in Int /\ m + 1 \in Int
    <3>1. q * (m + 1) = q * m + q /\ q * m \in Int
      BY <1>1
    <3> QED
      BY <1>1, <1>4, <3>1
  <2>2. CeilDiv(a, q) = m + 1 /\ CeilDiv(a + 1, q) = m + 1
    <3> DEFINE b == a + 1
               e == m + 1
    <3>1. /\ b \in Int /\ e \in Int /\ q * e <= b + q - 1 /\ b + q - 1 < q * e + q
          /\ q * e <= a + q - 1 /\ a + q - 1 < q * e + q
      BY <2>1
    <3> HIDE DEF b, e
    <3>2. CeilDiv(b, q) = e /\ CeilDiv(a, q) = e
      BY <3>1, CeilIs
    <3> QED
      BY <3>2 DEF b, e
  <2> QED
    BY <1>2, <1>4, <2>2 DEF r
<1> QED
  BY <1>3, <1>4

\* Lines of the image that component c of k has handed in after n pushes.
LinesOf(n, k, c) == (n \div k) + (IF n % k >= c THEN 1 ELSE 0)

\* Lines are handed in component by component.
LEMMA LinesNext ==
  ASSUME NEW n \in Nat, NEW k \in Nat \ {0}, NEW c \in 1 .. k
  PROVE  /\ LinesOf(n + 1, k, c) = LinesOf(n, k, c) + (IF c = (n % k) + 1 THEN 1 ELSE 0)
         /\ c = (n % k) + 1 => LinesOf(n, k, c) = n \div k
         /\ LinesOf(n, k, c) \in Nat /\ LinesOf(0, k, c) = 0
<1> DEFINE y == n \div k
           m == n % k
<1>1. y \in Int /\ m \in 0 .. k - 1 /\ n = k * y + m
  BY DivMod
<1>2. y \in Nat
  OBVIOUS
<1> HIDE DEF y, m
<1>3. LinesOf(n, k, c) = y + (IF m >= c THEN 1 ELSE 0)
  BY DEF LinesOf, y, m
<1>4. LinesOf(0, k, c) = 0
  <2>1. k * 0 <= 0 /\ 0 < k * 0 + k /\ 0 = k * 0 + 0 /\ 0 \in 0 .. k - 1
    OBVIOUS
  <2>2. 0 \div k = 0 /\ 0 % k = 0
    BY <2>1, DivIs, ModUnique
  <2> QED
    BY <2>2 DEF LinesOf
<1>5. LinesOf(n + 1, k, c) = LinesOf(n, k, c) + (IF c = m + 1 THEN 1 ELSE 0)
  <2>1. CASE m + 1 < k
    <3> DEFINE a == n + 1
               e == m + 1
    <3>1. a = k * y + e /\ e \in 0 .. k - 1 /\ a \in Int
      BY <1>1, <2>1
    <3> HIDE DEF a
    <3>2. a % k = e /\ a \div k = y
      <4>1. k * y <= a /\ a < k * y + k
        <5>1. k * y \in Int
          BY <1>1
        <5> QED
          BY <3>1, <5>1
      <4> HIDE DEF e
      <4> QED
        BY <1>1, <3>1, <4>1, DivIs, ModUnique
    <3>3. LinesOf(a, k, c) = y + (IF m + 1 >= c THEN 1 ELSE 0)
      BY <3>2 DEF LinesOf
    <3> QED
      BY <1>1, <1>3, <3>3 DEF a
  <2>2. CASE m + 1 >= k
    <3> DEFINE a == n + 1
               e == y + 1
    <3>1. m + 1 = k
      BY <1>1, <2>2
    <3>2. a = k * e + 0 /\ a \in Int /\ e \in Int
      <4>1. k * (y + 1) = k * y + k
        BY <1>1
      <4> QED
        BY <1>1, <3>1, <4>1
    <3> HIDE DEF a, e
    <3>3. a % k = 0 /\ a \div k = e
      <4>1. k * e <= a /\ a < k * e + k
        <5>1. k * e \in Int
          BY <3>2
        <5> QED
          BY <3>2, <5>1
      <4>2. 0 \in 0 .. k - 1
        OBVIOUS
      <4> QED
        BY <3>2, <4>1, <4>2, DivIs, ModUnique
    <3>4. LinesOf(a, k, c) = y + 1
      BY <3>2, <3>3 DEF LinesOf, e
    <3> QED
      BY <1>1, <1>3, <3>1, <3>4 DEF a
  <2> QED
    BY <1>1, <2>1, <2>2
<1>6. c = m + 1 => LinesOf(n, k, c) = y
  BY <1>1, <1>2, <1>3
<1>7. LinesOf(n, k, c) \in Nat
  BY <1>1, <1>2, <1>3
<1> QED
  BY <1>4, <1>5, <1>6, <1>7 DEF y, m

\* Every line has been handed in when pushes are over.
LEMMA LinesAll ==
  ASSUME NEW n \in Nat, NEW k \in Nat \ {0}, NEW h \in Nat, n >= h * k, NEW c \in 1 .. k
  PROVE  LinesOf(n, k, c) >= h
<1> DEFINE y == n \div k
           m == n % k
<1>1. y \in Int /\ m \in 0 .. k - 1 /\ n = k * y + m
  BY DivMod
<1> HIDE DEF y, m
<1>2. y >= h
  <2>1. k * h < k * y + k
    <3>1. k * h = h * k /\ k * h \in Int /\ k * y \in Int
      BY <1>1
    <3> QED
      BY <1>1, <3>1
  <2> QED
    BY <1>1, <2>1, Factors
<1>3. LinesOf(n, k, c) = y + (IF m >= c THEN 1 ELSE 0)
  BY DEF LinesOf, y, m
<1> QED
  BY <1>1, <1>2, <1>3

\* Rows of the finest level of component c that entered with n pushes.
RowsFed(t, c, n) ==
  LET top == EncRow(t, c, t.NL, t.v0)
      end == EncRow(t, c, t.NL, t.v1)
      row == top + CeilDiv(LinesOf(n, Len(t.yrs), c), t.yrs[c])
  IN  IF row < end THEN row ELSE end

\* When pushes are over all rows have entered.
LEMMA AllFed ==
  ASSUME NEW t, Sane(t), NEW c \in DOMAIN t.yrs, NEW n \in Nat,
         n >= (t.v1 - t.v0) * Len(t.yrs)
  PROVE  RowsFed(t, c, n) = EncRow(t, c, t.NL, t.v1)
<1> DEFINE q == t.yrs[c]
           k == Len(t.yrs)
           h == t.v1 - t.v0
           a == LinesOf(n, k, c)
<1>1. /\ q \in Nat \ {0} /\ t.NL \in Nat \ {0} /\ t.v0 \in Nat /\ t.v1 \in Nat /\ h \in Nat
      /\ k \in Nat \ {0} /\ c \in 1 .. k /\ t.v1 = t.v0 + h
  <2>1. /\ t.NL \in Nat \ {0} /\ t.v0 \in Nat /\ t.v1 \in Nat /\ t.v0 <= t.v1
        /\ t.yrs \in Seq(Nat \ {0})
    BY DEF Sane, TileOK
  <2>2. q \in Nat \ {0} /\ k \in Nat /\ c \in 1 .. k
    BY <2>1
  <2>3. h \in Nat /\ t.v1 = t.v0 + h
    BY <2>1
  <2> QED
    BY <2>1, <2>2, <2>3
<1>2. a \in Nat /\ h <= a
  <2> HIDE DEF k, h, a
  <2>1. LinesOf(n, k, c) >= h
    BY <1>1, LinesAll DEF h, k
  <2>2. LinesOf(n, k, c) \in Nat
    BY <1>1, LinesNext
  <2> QED
    BY <1>1, <2>1, <2>2 DEF a
<1>3. \A v : EncRow(t, c, t.NL, v) = CeilDiv(v, q)
  <2>1. t.NL - t.NL = 0 /\ 2 ^ 0 = 1
    BY <1>1 DEF Sane
  <2>2. q * 2 ^ (t.NL - t.NL) = q
    <3> DEFINE e == 2 ^ (t.NL - t.NL)
    <3>1. e = 1
      BY <2>1
    <3> HIDE DEF e, q
    <3>2. q * e = q
      BY <1>1, <3>1
    <3> QED
      BY <3>2 DEF e
  <2> QED
    BY <2>2 DEF EncRow
<1> HIDE DEF q, k, h, a
<1> DEFINE x == CeilDiv(t.v0, q)
           z == CeilDiv(a, q)
<1>4. x \in Int /\ t.v0 <= q * x /\ z \in Int /\ a <= q * z
  BY <1>1, <1>2, CeilDivIs
<1>5. CeilDiv(t.v1, q) \in Int
  BY <1>1, CeilDivIs
<1> HIDE DEF x, z
<1>6. t.v1 <= q * (x + z) /\ x + z \in Int
  <2>1. q * (x + z) = q * x + q * z /\ q * x \in Int /\ q * z \in Int
    BY <1>1, <1>4
  <2> QED
    BY <1>1, <1>2, <1>4, <2>1
<1>7. CeilDiv(t.v1, q) <= x + z
  BY <1>1, <1>6, CeilDivLeast
<1>8. RowsFed(t, c, n) = IF x + z < CeilDiv(t.v1, q) THEN x + z ELSE CeilDiv(t.v1, q)
  BY <1>3 DEF RowsFed, x, z, a, q, k
<1> QED
  BY <1>3, <1>4, <1>5, <1>7, <1>8

-----------------------------------------------------------------------------
(* The levels of a component. *)

\* Rows of level l that are due, from those that the level above put.
RowsDue(t, F, n, c, l) ==
  IF l = t.NL THEN RowsFed(t, c, n) ELSE (F[c][l + 1].nextOut + 1) \div 2

\* Every level lifts rows of its own component, has taken in what it is due and put
\* only right rows; when the overlapped blocks were waited for it has put them all.
TransformInv ==
  /\ \A c \in Lanes : \A l \in Levels :
       /\ Streaming(fdwt[c][l], c)
       /\ fdwt[c][l].nextIn = RowsDue(Tile, fdwt, pushes, c, l)
       /\ \A k \in DOMAIN written[c][l] : written[c][l][k]
  /\ stage = "blocks" => /\ ~ Pushing
                         /\ \A c \in Lanes : \A l \in Levels : fdwt[c][l].nextOut = fdwt[c][l].v1

\* The levels below one that puts a row are done with theirs.
LEMMA DoneBelow ==
  ASSUME TileInv, NEW c \in Lanes, NEW l \in Levels, Emit(c, l)
  PROVE  \A k \in Levels : k < l => ~ CanEmit(fdwt[c][k])
<1>1. Emitting(c) # {} /\ l = Min(Emitting(c))
  BY DEF Emit
<1>2. Emitting(c) \in SUBSET Nat /\ Levels \subseteq Int
  BY TileFacts DEF Emitting, Levels
<1>3. \A k \in Emitting(c) : l <= k
  BY <1>1, <1>2, MinIs
<1> QED
  BY <1>2, <1>3 DEF Emitting

\* What is put and handed on with a row that is right.
LEMMA EmitPuts ==
  ASSUME NEW c \in Lanes, NEW l \in Levels, Emit(c, l),
         Emittee(fdwt[c][l]) = Row(c, fdwt[c][l].nextOut, MaxLevel(fdwt[c][l].xf))
  PROVE  /\ fdwt' =
              IF fdwt[c][l].nextOut % 2 = 0 /\ l > 1
              THEN [[fdwt EXCEPT ![c][l] = Emitted(fdwt[c][l])]
                      EXCEPT ![c][l - 1] = Pushed(@, Row(c, fdwt[c][l].nextOut \div 2, 0))]
              ELSE [fdwt EXCEPT ![c][l] = Emitted(fdwt[c][l])]
         /\ written' = [written EXCEPT ![c][l] = Append(@, TRUE)]
<1> DEFINE s == fdwt[c][l]
           val == Emittee(s)
           low == IF val = Junk THEN Junk ELSE Row(c, val[2] \div 2, 0)
           good == val = Row(c, s.nextOut, MaxLevel(s.xf))
           own == [fdwt EXCEPT ![c][l] = Emitted(s)]
           f == IF s.nextOut % 2 = 0 THEN 1 ELSE 2
<1>1. /\ fdwt' = IF f = 1 /\ l > 1 THEN [own EXCEPT ![c][l - 1] = Pushed(@, low)] ELSE own
      /\ written' = [written EXCEPT ![c][l] = Append(@, good)]
  BY DEF Emit
<1>2. f = 1 <=> s.nextOut % 2 = 0
  OBVIOUS
<1>3. good = TRUE
  OBVIOUS
<1>4. low = Row(c, s.nextOut \div 2, 0)
  <2>1. val # Junk /\ val[2] = s.nextOut
    BY DEF Row, Junk
  <2> QED
    BY <2>1
<1> HIDE DEF f, good, low
<1> QED
  BY <1>1, <1>2, <1>3, <1>4

\* The frame of a level is that of its tile.
LEMMA LevelFrame ==
  ASSUME LinesInv, NEW c \in Lanes, NEW l \in Levels
  PROVE  /\ fdwt[c][l].v0 = EncRow(Tile, c, l, Tile.v0)
         /\ fdwt[c][l].v1 = EncRow(Tile, c, l, Tile.v1)
         /\ fdwt[c][l].v0 \in Nat /\ fdwt[c][l].v1 \in Nat
         /\ l > 1 => /\ l - 1 \in Levels
                     /\ fdwt[c][l - 1].v1 = (fdwt[c][l].v1 + 1) \div 2
                     /\ fdwt[c][l - 1].v0 = (fdwt[c][l].v0 + 1) \div 2
<1>1. TileInv
  BY DEF LinesInv
<1>2. /\ Sane(Tile) /\ c \in DOMAIN Tile.yrs /\ l \in 0 .. Tile.NL /\ l \in 1 .. Tile.NL
      /\ Levels = 1 .. Tile.NL /\ Tile.v0 \in Nat /\ Tile.v1 \in Nat /\ Tile.NL \in Nat
  BY <1>1, TileFacts DEF Levels, Sane, TileOK
<1>3. \A k \in Levels : /\ fdwt[c][k].v0 = EncRow(Tile, c, k, Tile.v0)
                        /\ fdwt[c][k].v1 = EncRow(Tile, c, k, Tile.v1)
  BY DEF LinesInv, LevelOK
<1> HIDE DEF Tile, Levels, Lanes
<1>4. EncRow(Tile, c, l, Tile.v0) \in Nat /\ EncRow(Tile, c, l, Tile.v1) \in Nat
  BY <1>2, RowType
<1>5. l > 1 => l - 1 \in Levels
  BY <1>2
<1>6. /\ EncRow(Tile, c, l - 1, Tile.v0) = (EncRow(Tile, c, l, Tile.v0) + 1) \div 2
      /\ EncRow(Tile, c, l - 1, Tile.v1) = (EncRow(Tile, c, l, Tile.v1) + 1) \div 2
  BY <1>2, HalvedRows
<1> QED
  BY <1>3, <1>4, <1>5, <1>6

\* The even rows of a level are pushed into the level below as they leave.
LEMMA EmitLevels ==
  ASSUME LinesInv, TransformInv, NEW c \in Lanes, NEW l \in Levels, Emit(c, l)
  PROVE  /\ \A d \in Lanes : \A k \in Levels :
              /\ Streaming(fdwt'[d][k], d)
              /\ fdwt'[d][k].nextIn
                   = IF d = c /\ k = l - 1 /\ fdwt[c][l].nextOut % 2 = 0
                     THEN fdwt[d][k].nextIn + 1 ELSE fdwt[d][k].nextIn
         /\ written' = [written EXCEPT ![c][l] = Append(@, TRUE)]
         /\ fdwt[c][l].nextOut \in Int
<1> DEFINE s == fdwt[c][l]
           r == s.nextOut
           low == Row(c, r \div 2, 0)
           own == [fdwt EXCEPT ![c][l] = Emitted(s)]
           A == Lanes
           B == Levels
           F == fdwt
<1>1. TileInv /\ Table(F, A, B)
  BY DEF LinesInv
<1>2. CanEmit(s)
  BY <1>1, EmitParts
<1>3. \A d \in A : \A k \in B : Streaming(F[d][k], d)
  BY DEF TransformInv
<1>4. /\ Streaming(Emitted(s), c) /\ Emitted(s).nextIn = s.nextIn
      /\ r < s.v1 /\ Emittee(s) = Row(c, r, MaxLevel(s.xf))
  <2>1. Streaming(s, c)
    BY <1>3
  <2> HIDE DEF s
  <2> QED
    BY <1>2, <2>1, EmittedStreams
<1>5. r \in Int
  <2>1. Streaming(s, c)
    BY <1>3
  <2> HIDE DEF s
  <2> QED
    BY <2>1, StreamingIs
<1>6. \A k \in Levels : k < l => ~ CanEmit(fdwt[c][k])
  BY <1>1, DoneBelow
<1>7. fdwt' = IF r % 2 = 0 /\ l > 1 THEN [own EXCEPT ![c][l - 1] = Pushed(@, low)] ELSE own
  BY <1>4, EmitPuts
<1>8. written' = [written EXCEPT ![c][l] = Append(@, TRUE)]
  BY <1>4, EmitPuts
<1>9. Updated(F, own, c, l, Emitted(s), A, B)
  <2>1. Table(F, A, B) /\ c \in A /\ l \in B /\ own = [F EXCEPT ![c][l] = Emitted(s)]
    BY <1>1
  <2> HIDE DEF own, s, A, B, F
  <2> QED
    BY <2>1, TableUpdate
<1>10. B \subseteq Int /\ l \in Int
  <2>1. Levels \subseteq 0 .. Tile.NL /\ Tile.NL \in Nat
    BY <1>1, TileFacts
  <2> HIDE DEF Levels
  <2> QED
    BY <2>1
<1> HIDE DEF own
<1>11. /\ Table(own, A, B)
       /\ \A d \in A : \A k \in B : Streaming(own[d][k], d) /\ own[d][k].nextIn = F[d][k].nextIn
       /\ \A k \in B : k # l => own[c][k] = F[c][k]
  <2> HIDE DEF A, B, F, r
  <2>1. s = F[c][l] /\ c \in A /\ l \in B
    BY DEF A, B, F
  <2> HIDE DEF s
  <2>2. ASSUME NEW d \in A, NEW k \in B
        PROVE  Streaming(own[d][k], d) /\ own[d][k].nextIn = F[d][k].nextIn
    <3>1. CASE d = c /\ k = l
      BY <1>4, <1>9, <2>1, <3>1 DEF Updated
    <3>2. CASE d # c \/ k # l
      BY <1>3, <1>9, <3>2 DEF Updated
    <3> QED
      BY <3>1, <3>2
  <2>3. \A k \in B : k # l => own[c][k] = F[c][k]
    BY <1>9, <2>1 DEF Updated
  <2> QED
    BY <1>9, <2>2, <2>3 DEF Updated
<1>12. CASE ~ (r % 2 = 0 /\ l > 1)
  <2>1. fdwt' = own
    BY <1>7, <1>12
  <2>2. \A k \in Levels : ~ (k = l - 1 /\ r % 2 = 0)
    BY <1>10, <1>12 DEF Levels
  <2> HIDE DEF r
  <2> QED
    BY <1>5, <1>8, <1>11, <2>1, <2>2 DEF r
<1>13. CASE r % 2 = 0 /\ l > 1
  <2> DEFINE j == l - 1
             u == own[c][j]
             new == [own EXCEPT ![c][j] = Pushed(u, low)]
  <2>1. fdwt' = new
    BY <1>7, <1>13
  <2>2. /\ j \in B /\ c \in A /\ j # l /\ j < l /\ j + 1 = l
        /\ F[c][j].v1 = (s.v1 + 1) \div 2 /\ s.v1 \in Nat
    BY <1>10, <1>13, LevelFrame
  <2>3. u = fdwt[c][j] /\ Streaming(u, c) /\ ~ CanEmit(u)
    BY <1>6, <1>11, <2>2
  <2>4. u.nextIn = r \div 2 /\ u.nextIn < u.v1
    <3>1. u.nextIn = (r + 1) \div 2
      <4>1. u.nextIn = RowsDue(Tile, fdwt, pushes, c, j)
        BY <2>2, <2>3 DEF TransformInv
      <4>2. j # Tile.NL
        <5>1. l \in 1 .. Tile.NL /\ Tile.NL \in Nat
          BY <1>1, TileFacts DEF Levels
        <5> QED
          BY <2>2, <5>1
      <4> QED
        BY <2>2, <4>1, <4>2 DEF RowsDue
    <3>2. u.v1 = (s.v1 + 1) \div 2
      BY <2>2, <2>3
    <3> HIDE DEF u, s, r
    <3>3. (r + 1) \div 2 = r \div 2 /\ r \div 2 < (s.v1 + 1) \div 2
      <4>1. s.v1 \in Nat /\ r < s.v1
        BY <1>4, <2>2
      <4> QED
        BY <1>5, <1>13, <4>1
    <3> QED
      BY <3>1, <3>2, <3>3
  <2>5. Streaming(Pushed(u, low), c) /\ Pushed(u, low).nextIn = u.nextIn + 1
    <3>1. low = Row(c, u.nextIn, 0)
      BY <2>4
    <3> HIDE DEF u, low
    <3> QED
      BY <2>3, <2>4, <3>1, PushedStreams
  <2>6. Updated(own, new, c, j, Pushed(u, low), A, B)
    <3> HIDE DEF A, B, j, low
    <3> QED
      BY <1>11, <2>2, TableUpdate
  <2> HIDE DEF new
  <2>7. ASSUME NEW d \in A, NEW k \in B
        PROVE  /\ Streaming(new[d][k], d)
               /\ new[d][k].nextIn = IF d = c /\ k = j THEN F[d][k].nextIn + 1 ELSE F[d][k].nextIn
    <3> HIDE DEF A, B, F, j, low, u
    <3>1. CASE d = c /\ k = j
      <4>1. new[d][k] = Pushed(u, low)
        BY <2>6, <3>1 DEF Updated
      <4>2. u.nextIn = F[d][k].nextIn
        BY <2>3, <3>1 DEF F
      <4> QED
        BY <2>5, <3>1, <4>1, <4>2
    <3>2. CASE d # c \/ k # j
      <4>1. new[d][k] = own[d][k]
        BY <2>6, <3>2 DEF Updated
      <4> QED
        BY <1>11, <3>2, <4>1
    <3> QED
      BY <3>1, <3>2
  <2> HIDE DEF r
  <2> QED
    BY <1>5, <1>8, <1>13, <2>1, <2>7 DEF r
<1> QED
  BY <1>12, <1>13

\* A component row more, in numbers.
LEMMA FedNext ==
  ASSUME NEW t, Sane(t), NEW n \in Nat, Len(t.yrs) # 0
  PROVE  LET k == Len(t.yrs)
             c == (n % k) + 1
             y == n \div k
             top == EncRow(t, c, t.NL, t.v0)
             end == EncRow(t, c, t.NL, t.v1)
             row == top + y \div t.yrs[c]
         IN  /\ c \in DOMAIN t.yrs /\ y \in Nat
             /\ \A d \in DOMAIN t.yrs : d # c \/ y % t.yrs[c] # 0
                                        => RowsFed(t, d, n + 1) = RowsFed(t, d, n)
             /\ y % t.yrs[c] = 0
                  => /\ RowsFed(t, c, n) = IF row < end THEN row ELSE end
                     /\ RowsFed(t, c, n + 1) = IF row + 1 < end THEN row + 1 ELSE end
                     /\ row \in Int /\ end \in Int
<1> DEFINE k == Len(t.yrs)
           c == (n % k) + 1
           y == n \div k
           top == EncRow(t, c, t.NL, t.v0)
           end == EncRow(t, c, t.NL, t.v1)
           q == t.yrs[c]
           m == y \div q
<1>1. k \in Nat \ {0} /\ DOMAIN t.yrs = 1 .. k /\ t.NL \in Nat
  BY DEF Sane, TileOK
<1> HIDE DEF k
<1>2. /\ c \in 1 .. k
      /\ LinesOf(n, k, c) = y /\ LinesOf(n + 1, k, c) = y + 1
      /\ \A d \in 1 .. k : d # c => LinesOf(n + 1, k, d) = LinesOf(n, k, d)
      /\ y \in Nat
  <2>1. c = (n % k) + 1 /\ c \in 1 .. k
    <3> DEFINE r == n % k
    <3>1. r \in 0 .. k - 1
      <4>1. k \in Nat \ {0} /\ n \in Int
        BY <1>1
      <4>2. n \div k \in Int /\ n % k \in 0 .. k - 1 /\ n = k * (n \div k) + (n % k)
        BY <4>1, DivMod
      <4> QED
        BY <4>2
    <3>2. c = r + 1
      OBVIOUS
    <3> HIDE DEF r, c
    <3>3. c \in 1 .. k
      BY <1>1, <3>1, <3>2
    <3> QED
      BY <3>3 DEF c
  <2> HIDE DEF c
  <2>2. LinesOf(n, k, c) = y /\ LinesOf(n + 1, k, c) = LinesOf(n, k, c) + 1 /\ LinesOf(n, k, c) \in Nat
    BY <1>1, <2>1, LinesNext
  <2>3. \A d \in 1 .. k : d # c => LinesOf(n + 1, k, d) = LinesOf(n, k, d)
    <3> SUFFICES ASSUME NEW d \in 1 .. k, d # c
                 PROVE  LinesOf(n + 1, k, d) = LinesOf(n, k, d)
      OBVIOUS
    <3>1. LinesOf(n + 1, k, d) = LinesOf(n, k, d) + 0 /\ LinesOf(n, k, d) \in Nat
      BY <1>1, <2>1, LinesNext
    <3> QED
      BY <3>1
  <2> QED
    BY <2>1, <2>2, <2>3
<1> HIDE DEF c, y
<1>3. q \in Nat \ {0}
  BY <1>1, <1>2 DEF Sane, TileOK
<1>4. \A d \in 1 .. k : LinesOf(n + 1, k, d) = LinesOf(n, k, d)
                        => RowsFed(t, d, n + 1) = RowsFed(t, d, n)
  BY DEF RowsFed, k
<1>5. /\ RowsFed(t, c, n) = LET row == top + CeilDiv(y, q)
                            IN  IF row < end THEN row ELSE end
      /\ RowsFed(t, c, n + 1) = LET row == top + CeilDiv(y + 1, q)
                                IN  IF row < end THEN row ELSE end
  BY <1>2 DEF RowsFed, k
<1>6. top \in Int /\ end \in Int
  <2>1. t.NL \in 0 .. t.NL /\ c \in DOMAIN t.yrs
    BY <1>1, <1>2
  <2> QED
    BY <2>1, RowType
<1> HIDE DEF q, top, end
<1>7. /\ y % q = 0 => /\ CeilDiv(y, q) = m
                      /\ CeilDiv(y + 1, q) = CeilDiv(y, q) + 1
      /\ y % q # 0 => CeilDiv(y + 1, q) = CeilDiv(y, q)
  BY <1>2, <1>3, CeilNext
<1>8. m \in Int
  BY <1>2, <1>3, DivMod
<1> HIDE DEF m
<1>9. ASSUME NEW d \in DOMAIN t.yrs, d # c \/ y % q # 0
      PROVE  RowsFed(t, d, n + 1) = RowsFed(t, d, n)
  <2>1. CASE d # c
    BY <1>1, <1>2, <1>4, <2>1
  <2>2. CASE d = c
    <3>1. CeilDiv(y + 1, q) = CeilDiv(y, q)
      BY <1>7, <1>9, <2>2
    <3> QED
      BY <1>5, <2>2, <3>1
  <2> QED
    BY <2>1, <2>2
<1>10. ASSUME y % q = 0
       PROVE  LET row == top + m IN
              /\ RowsFed(t, c, n) = IF row < end THEN row ELSE end
              /\ RowsFed(t, c, n + 1) = IF row + 1 < end THEN row + 1 ELSE end
              /\ row \in Int /\ end \in Int
  <2>1. CeilDiv(y, q) = m /\ CeilDiv(y + 1, q) = m + 1
    BY <1>7, <1>10
  <2>2. /\ RowsFed(t, c, n) = IF top + m < end THEN top + m ELSE end
        /\ RowsFed(t, c, n + 1) = IF top + (m + 1) < end THEN top + (m + 1) ELSE end
    BY <1>5, <2>1
  <2>3. top + (m + 1) = (top + m) + 1 /\ top + m \in Int
    BY <1>6, <1>8
  <2> QED
    BY <1>6, <2>2, <2>3
<1> QED
  BY <1>1, <1>2, <1>9, <1>10 DEF m, q, top, end, y, c, k

\* A tile begins.
LEMMA TransformFresh ==
  ASSUME TileInv, fdwt = FreshFdwt(Tile), written = NothingWritten(Tile),
         pushes = 0, stage = "lines"
  PROVE  TransformInv
<1> DEFINE t == Tile
<1>1. /\ Sane(t) /\ Lanes = DOMAIN t.yrs /\ Levels = 1 .. t.NL /\ t.NL \in Nat \ {0}
      /\ t.xf \in Nat /\ t.v0 \in Nat /\ t.v1 \in Nat /\ t.yrs \in Seq(Nat \ {0})
  BY TileFacts DEF Levels, Sane, TileOK
<1>2. \A c \in Lanes : \A l \in Levels :
        /\ fdwt[c][l] = FdwtInit(EncRow(t, c, l, t.v0), EncRow(t, c, l, t.v1), t.xf)
        /\ written[c][l] = <<>>
  BY <1>1 DEF FreshFdwt, NothingWritten
<1> HIDE DEF t
<1>3. ASSUME NEW c \in Lanes, NEW l \in Levels
      PROVE  /\ Streaming(fdwt[c][l], c)
             /\ fdwt[c][l].nextIn = EncRow(t, c, l, t.v0) /\ fdwt[c][l].nextOut = EncRow(t, c, l, t.v0)
             /\ EncRow(t, c, l, t.v0) \in Nat /\ EncRow(t, c, l, t.v1) \in Nat
             /\ EncRow(t, c, l, t.v0) <= EncRow(t, c, l, t.v1)
  <2>1. l \in 0 .. t.NL /\ c \in DOMAIN t.yrs
    BY <1>1
  <2>2. /\ EncRow(t, c, l, t.v0) \in Nat /\ EncRow(t, c, l, t.v1) \in Nat
        /\ EncRow(t, c, l, t.v0) <= EncRow(t, c, l, t.v1)
    BY <1>1, <2>1, RowType
  <2> DEFINE a == EncRow(t, c, l, t.v0)
             b == EncRow(t, c, l, t.v1)
             s == fdwt[c][l]
  <2>3. s = FdwtInit(a, b, t.xf)
    BY <1>2
  <2> HIDE DEF a, b, s
  <2>4. a \in Nat /\ b \in Nat /\ a <= b
    BY <2>2 DEF a, b
  <2>5. Streaming(s, c) /\ s.nextIn = a /\ s.nextOut = a
    <3> DEFINE xf == t.xf
    <3>1. xf \in Nat /\ s = FdwtInit(a, b, xf)
      BY <1>1, <2>3
    <3> HIDE DEF xf
    <3> QED
      BY <2>4, <3>1, FreshStreams
  <2> QED
    BY <2>4, <2>5 DEF a, b, s
<1>4. ASSUME NEW c \in Lanes, NEW l \in Levels
      PROVE  fdwt[c][l].nextIn = RowsDue(t, fdwt, pushes, c, l)
  <2>1. CASE l = t.NL
    <3>1. Len(t.yrs) \in Nat \ {0} /\ c \in 1 .. Len(t.yrs) /\ t.yrs[c] \in Nat \ {0}
      BY <1>1
    <3>2. LinesOf(0, Len(t.yrs), c) = 0
      <4> DEFINE k == Len(t.yrs)
      <4>1. k \in Nat \ {0} /\ c \in 1 .. k /\ 0 \in Nat
        BY <3>1
      <4> HIDE DEF k
      <4>2. LinesOf(0, k, c) = 0
        BY <4>1, LinesNext
      <4> QED
        BY <4>2 DEF k
    <3>3. CeilDiv(0, t.yrs[c]) = 0
      BY <3>1, CeilNext
    <3>4. RowsFed(t, c, 0) = EncRow(t, c, l, t.v0)
      <4>1. RowsFed(t, c, 0) = IF EncRow(t, c, l, t.v0) + 0 < EncRow(t, c, l, t.v1)
                               THEN EncRow(t, c, l, t.v0) + 0 ELSE EncRow(t, c, l, t.v1)
        BY <2>1, <3>2, <3>3 DEF RowsFed
      <4>2. /\ EncRow(t, c, l, t.v0) \in Nat /\ EncRow(t, c, l, t.v1) \in Nat
            /\ EncRow(t, c, l, t.v0) <= EncRow(t, c, l, t.v1)
        BY <1>3
      <4> QED
        BY <4>1, <4>2
    <3> QED
      BY <1>3, <2>1, <3>4 DEF RowsDue
  <2>2. CASE l # t.NL
    <3>1. l + 1 \in 1 .. t.NL /\ (l + 1) - 1 = l /\ c \in DOMAIN t.yrs /\ l + 1 \in Levels
      BY <1>1, <2>2
    <3>2. EncRow(t, c, (l + 1) - 1, t.v0) = (EncRow(t, c, l + 1, t.v0) + 1) \div 2
      BY <1>1, <3>1, HalvedRows
    <3>3. fdwt[c][l + 1].nextOut = EncRow(t, c, l + 1, t.v0)
      BY <1>3, <3>1
    <3>4. fdwt[c][l].nextIn = EncRow(t, c, l, t.v0)
      BY <1>3
    <3> QED
      BY <2>2, <3>1, <3>2, <3>3, <3>4 DEF RowsDue
  <2> QED
    BY <2>1, <2>2
<1>5. \A c \in Lanes : \A l \in Levels : \A k \in DOMAIN written[c][l] : written[c][l][k]
  BY <1>2
<1> QED
  BY <1>3, <1>4, <1>5 DEF TransformInv, t

\* Steps that put no row: rows enter the finest level, or none.
LEMMA TransformMoved ==
  ASSUME LinesInv, TransformInv, UNCHANGED <<job, tile, encPool, written, stage>>,
         stage = "blocks" => pushes' = pushes,
         \A c \in Lanes : \A l \in Levels :
           /\ Streaming(fdwt'[c][l], c)
           /\ fdwt'[c][l].nextOut = fdwt[c][l].nextOut /\ fdwt'[c][l].v1 = fdwt[c][l].v1
           /\ fdwt'[c][l].nextIn = IF l = Tile.NL THEN RowsFed(Tile, c, pushes')
                                   ELSE fdwt[c][l].nextIn
  PROVE  TransformInv'
<1>1. TileInv
  BY DEF LinesInv
<1>2. Tile' = Tile /\ Lanes' = Lanes /\ Levels' = Levels /\ stage' = stage
  BY <1>1, TileSame
<1>3. Levels = 1 .. Tile.NL /\ Tile.NL \in Nat
  BY <1>1, TileFacts DEF Levels
<1>4. stage = "blocks" => (Pushing' <=> Pushing)
  BY <1>2 DEF Pushing, Height1
<1> HIDE DEF Tile, Lanes, Levels, Pushing
<1>5. ASSUME NEW c \in Lanes, NEW l \in Levels
      PROVE  /\ fdwt'[c][l].nextIn = RowsDue(Tile, fdwt', pushes', c, l)
             /\ \A k \in DOMAIN written'[c][l] : written'[c][l][k]
  <2>1. /\ fdwt[c][l].nextIn = RowsDue(Tile, fdwt, pushes, c, l)
        /\ \A k \in DOMAIN written[c][l] : written[c][l][k]
    BY DEF TransformInv
  <2>2. CASE l = Tile.NL
    BY <2>1, <2>2 DEF RowsDue
  <2>3. CASE l # Tile.NL
    <3>1. l + 1 \in Levels
      BY <1>3, <2>3
    <3> QED
      BY <2>1, <2>3, <3>1 DEF RowsDue
  <2> QED
    BY <2>2, <2>3
<1>6. stage' = "blocks" => /\ ~ Pushing'
                           /\ \A c \in Lanes : \A l \in Levels :
                                fdwt'[c][l].nextOut = fdwt'[c][l].v1
  BY <1>2, <1>4 DEF TransformInv
<1>7. \A c \in Lanes' : \A l \in Levels' :
        /\ Streaming(fdwt'[c][l], c)
        /\ fdwt'[c][l].nextIn = RowsDue(Tile', fdwt', pushes', c, l)
        /\ \A k \in DOMAIN written'[c][l] : written'[c][l][k]
  BY <1>2, <1>5
<1> QED
  BY <1>2, <1>6, <1>7 DEF TransformInv

\* Steps that leave the transform alone.
LEMMA TransformSame ==
  ASSUME LinesInv, TransformInv, UNCHANGED <<job, tile, encPool, stage, laneVars>>
  PROVE  TransformInv'
<1>1. UNCHANGED <<fdwt, written, pushes>> /\ TileInv
  BY DEF laneVars, LinesInv
<1>2. \A c \in Lanes : \A l \in Levels :
        /\ Streaming(fdwt'[c][l], c)
        /\ fdwt'[c][l].nextOut = fdwt[c][l].nextOut /\ fdwt'[c][l].v1 = fdwt[c][l].v1
        /\ fdwt'[c][l].nextIn = IF l = Tile.NL THEN RowsFed(Tile, c, pushes')
                                ELSE fdwt[c][l].nextIn
  BY <1>1 DEF TransformInv, RowsDue
<1> QED
  BY <1>1, <1>2, TransformMoved

\* A row comes out.
LEMMA EmitTransforms ==
  ASSUME LinesInv, TransformInv, NEW c \in Lanes, NEW l \in Levels, Emit(c, l)
  PROVE  TransformInv'
<1>1. TileInv /\ UNCHANGED <<job, tile, encPool, pushes, stage>> /\ CanEmit(fdwt[c][l])
  <2>1. TileInv
    BY DEF LinesInv
  <2> QED
    BY <2>1, EmitParts DEF jobVars
<1>2. /\ \A d \in Lanes : \A k \in Levels :
           /\ Streaming(fdwt'[d][k], d)
           /\ fdwt'[d][k].nextIn
                = IF d = c /\ k = l - 1 /\ fdwt[c][l].nextOut % 2 = 0
                  THEN fdwt[d][k].nextIn + 1 ELSE fdwt[d][k].nextIn
      /\ written' = [written EXCEPT ![c][l] = Append(@, TRUE)]
      /\ fdwt[c][l].nextOut \in Int
  BY EmitLevels
<1>3. \A d \in Lanes : \A k \in Levels :
        /\ fdwt'[d][k].v1 = fdwt[d][k].v1
        /\ fdwt'[d][k].nextOut
             = IF d = c /\ k = l THEN fdwt[d][k].nextOut + 1 ELSE fdwt[d][k].nextOut
  BY EmitRows
<1>4. Tile' = Tile /\ Lanes' = Lanes /\ Levels' = Levels
  BY <1>1, TileSame
<1>5. Levels = 1 .. Tile.NL /\ Tile.NL \in Nat
  BY <1>1, TileFacts DEF Levels
<1>6. stage # "blocks"
  <2>1. fdwt[c][l].nextOut # fdwt[c][l].v1
    <3>1. /\ fdwt[c][l].nextOut < EncRow(Tile, c, l, Tile.v1)
          /\ fdwt[c][l].v1 = EncRow(Tile, c, l, Tile.v1)
          /\ fdwt[c][l].v1 \in Nat
      BY <1>1, NextRowIs, LevelFrame
    <3> QED
      BY <1>2, <3>1
  <2> QED
    BY <2>1 DEF TransformInv
<1> HIDE DEF Tile, Lanes, Levels
<1>7. ASSUME NEW d \in Lanes, NEW k \in Levels
      PROVE  fdwt'[d][k].nextIn = RowsDue(Tile, fdwt', pushes', d, k)
  <2>1. fdwt[d][k].nextIn = RowsDue(Tile, fdwt, pushes, d, k)
    BY DEF TransformInv
  <2>2. CASE k = Tile.NL
    <3>1. k # l - 1
      BY <1>5, <2>2
    <3> QED
      BY <1>1, <1>2, <2>1, <2>2, <3>1 DEF RowsDue
  <2>3. CASE k # Tile.NL
    <3>1. k + 1 \in Levels /\ (k + 1 = l <=> k = l - 1)
      BY <1>5, <2>3
    <3>2. fdwt[d][k].nextIn = (fdwt[d][k + 1].nextOut + 1) \div 2
      BY <2>1, <2>3 DEF RowsDue
    <3>3. fdwt'[d][k].nextIn = (fdwt'[d][k + 1].nextOut + 1) \div 2
      <4>1. CASE d = c /\ k = l - 1
        <5> DEFINE r == fdwt[c][l].nextOut
        <5>1. fdwt'[d][k + 1].nextOut = r + 1 /\ fdwt[d][k + 1].nextOut = r /\ r \in Int
          BY <1>2, <1>3, <3>1, <4>1
        <5>2. fdwt'[d][k].nextIn = IF r % 2 = 0 THEN fdwt[d][k].nextIn + 1 ELSE fdwt[d][k].nextIn
          BY <1>2, <4>1
        <5>3. fdwt[d][k].nextIn = (r + 1) \div 2
          BY <3>2, <5>1
        <5> HIDE DEF r
        <5>4. ((r + 1) + 1) \div 2 = IF r % 2 = 0 THEN ((r + 1) \div 2) + 1 ELSE (r + 1) \div 2
          BY <5>1
        <5> QED
          BY <5>1, <5>2, <5>3, <5>4
      <4>2. CASE ~ (d = c /\ k = l - 1)
        <5>1. fdwt'[d][k + 1].nextOut = fdwt[d][k + 1].nextOut
          BY <1>3, <3>1, <4>2
        <5>2. fdwt'[d][k].nextIn = fdwt[d][k].nextIn
          BY <1>2, <4>2
        <5> QED
          BY <3>2, <5>1, <5>2
      <4> QED
        BY <4>1, <4>2
    <3> QED
      BY <2>3, <3>3 DEF RowsDue
  <2> QED
    BY <2>2, <2>3
<1>8. ASSUME NEW d \in Lanes, NEW k \in Levels
      PROVE  \A i \in DOMAIN written'[d][k] : written'[d][k][i]
  <2>1. Updated(written, written', c, l, Append(written[c][l], TRUE), Lanes, Levels)
    <3>1. Table(written, Lanes, Levels)
      BY DEF LinesInv
    <3> QED
      BY <1>2, <3>1, TableUpdate
  <2>2. \A i \in DOMAIN written[d][k] : written[d][k][i]
    BY DEF TransformInv
  <2>3. CASE d = c /\ k = l
    <3> DEFINE put == written[c][l]
    <3>1. put \in Seq(BOOLEAN)
      BY DEF LinesInv, LevelOK
    <3>2. written'[d][k] = Append(put, TRUE)
      BY <2>1, <2>3 DEF Updated
    <3>3. \A i \in DOMAIN put : put[i]
      BY <2>2, <2>3
    <3> HIDE DEF put
    <3>4. /\ DOMAIN put = 1 .. Len(put) /\ Len(put) \in Nat
          /\ DOMAIN Append(put, TRUE) = 1 .. Len(put) + 1
      <4>1. Append(put, TRUE) \in Seq(BOOLEAN) /\ Len(Append(put, TRUE)) = Len(put) + 1
        BY <3>1
      <4> QED
        BY <3>1, <4>1
    <3>5. /\ Append(put, TRUE)[Len(put) + 1] = TRUE
          /\ \A i \in 1 .. Len(put) : Append(put, TRUE)[i] = put[i]
      <4> DEFINE S == BOOLEAN
      <4>1. put \in Seq(S) /\ TRUE \in S
        BY <3>1
      <4> HIDE DEF S
      <4> QED
        BY <4>1, AppendProperties
    <3> DEFINE longer == Append(put, TRUE)
    <3> HIDE DEF longer
    <3>6. ASSUME NEW i \in DOMAIN longer
          PROVE  longer[i]
      <4>1. i \in 1 .. Len(put) + 1
        BY <3>4 DEF longer
      <4>3. CASE i = Len(put) + 1
        BY <3>5, <4>3 DEF longer
      <4>4. CASE i # Len(put) + 1
        <5>1. i \in 1 .. Len(put) /\ i \in DOMAIN put
          BY <3>4, <4>1, <4>4
        <5>2. longer[i] = put[i]
          BY <3>5, <5>1 DEF longer
        <5>3. put[i]
          BY <3>3, <5>1
        <5> QED
          BY <5>2, <5>3
      <4> QED
        BY <4>3, <4>4
    <3> QED
      BY <3>2, <3>6 DEF longer
  <2>4. CASE d # c \/ k # l
    BY <2>1, <2>2, <2>4 DEF Updated
  <2> QED
    BY <2>3, <2>4
<1>9. \A d \in Lanes' : \A k \in Levels' :
        /\ Streaming(fdwt'[d][k], d)
        /\ fdwt'[d][k].nextIn = RowsDue(Tile', fdwt', pushes', d, k)
        /\ \A i \in DOMAIN written'[d][k] : written'[d][k][i]
  BY <1>2, <1>4, <1>7, <1>8
<1>10. stage' # "blocks"
  BY <1>1, <1>6
<1> QED
  BY <1>9, <1>10 DEF TransformInv

\* A level is flushed.
LEMMA FlushTransforms ==
  ASSUME LinesInv, TransformInv, Flush
  PROVE  TransformInv'
<1> DEFINE c == Min({p[1] : p \in Unflushed})
           l == Max({p[2] : p \in {q \in Unflushed : q[1] = c}})
<1>1. /\ UNCHANGED <<job, tile, encPool, written, pushes, stage>>
      /\ fdwt' = [fdwt EXCEPT ![c][l] = Flushed(@)]
      /\ Unflushed # {} /\ TileInv /\ Table(fdwt, Lanes, Levels)
  BY DEF Flush, jobVars, LinesInv
<1>2. c \in Lanes /\ l \in Levels
  <2>1. Unflushed \subseteq Nat \X (0 .. Tile.NL) /\ Tile.NL \in Nat
    <3>1. Levels \subseteq 0 .. Tile.NL /\ Tile.NL \in Nat
      BY <1>1, TileFacts
    <3>2. Lanes \subseteq Nat
      BY DEF Lanes
    <3>3. Unflushed \subseteq Lanes \X Levels
      BY DEF Unflushed
    <3> HIDE DEF Lanes, Levels, Unflushed
    <3> QED
      BY <3>1, <3>2, <3>3
  <2>2. <<c, l>> \in Unflushed
    <3> HIDE DEF c
    <3>1. c = Min({p[1] : p \in Unflushed})
      BY DEF c
    <3>2. l = Max({p[2] : p \in {q \in Unflushed : q[1] = c}})
      OBVIOUS
    <3> HIDE DEF l
    <3> QED
      BY <1>1, <2>1, <3>1, <3>2, NextPair
  <2> HIDE DEF c, l
  <2> QED
    BY <2>2 DEF Unflushed
<1> HIDE DEF c, l
<1> DEFINE s == fdwt[c][l]
           t == Flushed(s)
<1>3. /\ Streaming(t, c) /\ t.v1 = s.v1
      /\ t.nextIn = s.nextIn /\ t.nextOut = s.nextOut
  <2>1. Streaming(s, c)
    BY <1>2 DEF TransformInv
  <2> HIDE DEF s
  <2> QED
    BY <2>1, FlushedStreams DEF SameSpan
<1>4. Updated(fdwt, fdwt', c, l, t, Lanes, Levels)
  <2>1. fdwt' = [fdwt EXCEPT ![c][l] = t]
    BY <1>1
  <2> HIDE DEF t
  <2> QED
    BY <1>1, <1>2, <2>1, TableUpdate
<1> HIDE DEF t
<1>5. ASSUME NEW d \in Lanes, NEW k \in Levels
      PROVE  /\ Streaming(fdwt'[d][k], d)
             /\ fdwt'[d][k].nextOut = fdwt[d][k].nextOut /\ fdwt'[d][k].v1 = fdwt[d][k].v1
             /\ fdwt'[d][k].nextIn = fdwt[d][k].nextIn
  <2>1. CASE d = c /\ k = l
    BY <1>3, <1>4, <2>1 DEF Updated
  <2>2. CASE d # c \/ k # l
    BY <1>4, <2>2 DEF Updated, TransformInv
  <2> QED
    BY <2>1, <2>2
<1>6. \A d \in Lanes : fdwt[d][Tile.NL].nextIn = RowsFed(Tile, d, pushes)
  <2>1. Tile.NL \in Levels
    BY <1>1, TileFacts DEF Levels, Sane, TileOK
  <2> QED
    BY <2>1 DEF TransformInv, RowsDue
<1>7. \A d \in Lanes : \A k \in Levels :
        /\ Streaming(fdwt'[d][k], d)
        /\ fdwt'[d][k].nextOut = fdwt[d][k].nextOut /\ fdwt'[d][k].v1 = fdwt[d][k].v1
        /\ fdwt'[d][k].nextIn = IF k = Tile.NL THEN RowsFed(Tile, d, pushes')
                                ELSE fdwt[d][k].nextIn
  BY <1>1, <1>5, <1>6
<1> QED
  BY <1>1, <1>7, TransformMoved

\* A row of the image comes.
LEMMA PushTransforms ==
  ASSUME LinesInv, pushes \in Nat, TransformInv, PushRow
  PROVE  TransformInv'
<1> DEFINE t == Tile
           n == Len(t.yrs)
           y == pushes \div n
           c == (pushes % n) + 1
           k == t.NL
           top == EncRow(t, c, k, t.v0)
           end == EncRow(t, c, k, t.v1)
           row == top + y \div t.yrs[c]
           s == fdwt[c][k]
<1>1. /\ TileInv /\ Settled /\ Pushing /\ stage # "blocks" /\ Table(fdwt, Lanes, Levels)
      /\ UNCHANGED <<job, tile, encPool, written, stage>> /\ pushes' = pushes + 1
  BY DEF LinesInv, PushRow, jobVars, TransformInv
<1>2. /\ Sane(t) /\ Lanes = DOMAIN t.yrs /\ Lanes = 1 .. n /\ Levels = 1 .. k /\ k \in Levels
      /\ n \in Nat
  BY <1>1, TileFacts DEF Sane, TileOK, Lanes, Levels
<1>3. n # 0
  <2>1. pushes < Height1 * n
    BY <1>1 DEF Pushing
  <2>2. Height1 \in Int
    BY <1>2 DEF Sane, TileOK, Height1
  <2> HIDE DEF n
  <2>3. ASSUME n = 0 PROVE FALSE
    <3>1. Height1 * n = 0
      BY <2>2, <2>3
    <3> QED
      BY <2>1, <3>1
  <2> QED
    BY <2>3
<1>4. /\ c \in Lanes
      /\ \A d \in Lanes : d # c \/ y % t.yrs[c] # 0
                          => RowsFed(t, d, pushes + 1) = RowsFed(t, d, pushes)
      /\ y % t.yrs[c] = 0
           => /\ RowsFed(t, c, pushes) = IF row < end THEN row ELSE end
              /\ RowsFed(t, c, pushes + 1) = IF row + 1 < end THEN row + 1 ELSE end
              /\ row \in Int /\ end \in Int
  <2> HIDE DEF t
  <2> QED
    BY <1>2, <1>3, FedNext
<1>5. IF y % t.yrs[c] # 0 THEN UNCHANGED fdwt
      ELSE fdwt' = [fdwt EXCEPT ![c][k] = Pushed(s, Row(c, row, 0))]
  BY DEF PushRow, Image
<1>6. \A d \in Lanes : fdwt[d][k].nextIn = RowsFed(t, d, pushes)
  BY <1>2 DEF TransformInv, RowsDue
<1>7. \A d \in Lanes : \A l \in Levels : Streaming(fdwt[d][l], d)
  BY DEF TransformInv
<1>8. s.v1 = end /\ ~ CanEmit(s)
  <2>1. s.v1 = end
    BY <1>2, <1>4, LevelFrame
  <2>2. Emitting(c) = {}
    BY <1>1, <1>4 DEF Settled
  <2> QED
    BY <1>2, <2>1, <2>2 DEF Emitting
<1> HIDE DEF c, y, k, row, end, top, t, n
<1>9. CASE y % t.yrs[c] # 0
  <2>1. fdwt' = fdwt
    BY <1>5, <1>9
  <2>2. \A d \in Lanes : RowsFed(t, d, pushes + 1) = RowsFed(t, d, pushes)
    BY <1>4, <1>9
  <2>3. \A d \in Lanes : \A l \in Levels :
          /\ Streaming(fdwt'[d][l], d)
          /\ fdwt'[d][l].nextOut = fdwt[d][l].nextOut /\ fdwt'[d][l].v1 = fdwt[d][l].v1
          /\ fdwt'[d][l].nextIn = IF l = Tile.NL THEN RowsFed(Tile, d, pushes')
                                  ELSE fdwt[d][l].nextIn
    BY <1>1, <1>6, <1>7, <2>1, <2>2 DEF k, t
  <2> QED
    BY <1>1, <2>3, TransformMoved
<1>10. CASE y % t.yrs[c] = 0
  <2> DEFINE u == Pushed(s, Row(c, row, 0))
  <2>1. Streaming(s, c) /\ s.nextIn = IF row < end THEN row ELSE end
    BY <1>2, <1>4, <1>6, <1>7, <1>10
  <2>2. /\ Streaming(u, c) /\ u.v1 = s.v1 /\ u.nextOut = s.nextOut
        /\ u.nextIn = IF row + 1 < end THEN row + 1 ELSE end
    <3> HIDE DEF s
    <3>1. CASE row < end
      <4>1. s.nextIn = row /\ s.nextIn < s.v1
        BY <1>8, <2>1, <3>1
      <4>2. /\ Streaming(u, c) /\ SameSpan(s, u)
            /\ u.nextIn = s.nextIn + 1 /\ u.nextOut = s.nextOut
        <5> HIDE DEF u
        <5>1. u = Pushed(s, Row(c, s.nextIn, 0))
          BY <4>1 DEF u
        <5> QED
          BY <1>8, <2>1, <4>1, <5>1, PushedStreams
      <4>3. row \in Int /\ end \in Int
        BY <1>4, <1>10
      <4> HIDE DEF u
      <4> QED
        BY <3>1, <4>1, <4>2, <4>3 DEF SameSpan
    <3>2. CASE ~ (row < end)
      <4>1. row \in Int /\ end \in Int
        BY <1>4, <1>10
      <4>2. s.nextIn = end /\ s.nextIn >= s.v1
        BY <1>8, <2>1, <3>2, <4>1
      <4>3. u = s
        BY <4>2 DEF Pushed
      <4> HIDE DEF u
      <4> QED
        BY <2>1, <3>2, <4>1, <4>2, <4>3
    <3> QED
      BY <3>1, <3>2
  <2>3. Updated(fdwt, fdwt', c, k, u, Lanes, Levels)
    <3>1. fdwt' = [fdwt EXCEPT ![c][k] = u]
      BY <1>5, <1>10
    <3> HIDE DEF u
    <3> QED
      BY <1>1, <1>2, <1>4, <3>1, TableUpdate
  <2> HIDE DEF u
  <2>4. ASSUME NEW d \in Lanes, NEW l \in Levels
        PROVE  /\ Streaming(fdwt'[d][l], d)
               /\ fdwt'[d][l].nextOut = fdwt[d][l].nextOut /\ fdwt'[d][l].v1 = fdwt[d][l].v1
               /\ fdwt'[d][l].nextIn = IF l = k THEN RowsFed(t, d, pushes + 1)
                                       ELSE fdwt[d][l].nextIn
    <3>1. CASE d = c /\ l = k
      <4>1. fdwt'[d][l] = u
        BY <2>3, <3>1 DEF Updated
      <4>2. s = fdwt[d][l]
        BY <3>1
      <4>3. u.nextIn = RowsFed(t, d, pushes + 1)
        BY <1>4, <1>10, <2>2, <3>1
      <4> HIDE DEF s
      <4> QED
        BY <2>2, <3>1, <4>1, <4>2, <4>3
    <3>2. CASE d # c \/ l # k
      <4>1. fdwt'[d][l] = fdwt[d][l] /\ Streaming(fdwt[d][l], d)
        BY <1>7, <2>3, <3>2 DEF Updated
      <4>2. l = k => fdwt[d][l].nextIn = RowsFed(t, d, pushes + 1)
        BY <1>4, <1>6, <3>2
      <4> QED
        BY <4>1, <4>2
    <3> QED
      BY <3>1, <3>2
  <2>5. \A d \in Lanes : \A l \in Levels :
          /\ Streaming(fdwt'[d][l], d)
          /\ fdwt'[d][l].nextOut = fdwt[d][l].nextOut /\ fdwt'[d][l].v1 = fdwt[d][l].v1
          /\ fdwt'[d][l].nextIn = IF l = Tile.NL THEN RowsFed(Tile, d, pushes')
                                  ELSE fdwt[d][l].nextIn
    BY <1>1, <2>4 DEF k, t
  <2> QED
    BY <1>1, <2>5, TransformMoved
<1> QED
  BY <1>9, <1>10

\* When the rows are in and every level is flushed, nothing is left in the transform.
LEMMA AllRowsOut ==
  ASSUME LinesInv, pushes \in Nat, TransformInv, Settled, ~ Pushing, Unflushed = {},
         NEW c \in Lanes, NEW l \in Levels
  PROVE  fdwt[c][l].nextOut = fdwt[c][l].v1
<1> DEFINE t == Tile
           k == t.NL
           S == {m \in 0 .. k - 1 : fdwt[c][k - m].nextOut = fdwt[c][k - m].v1}
<1>1. /\ Sane(t) /\ c \in DOMAIN t.yrs /\ Levels = 1 .. k /\ k \in Nat \ {0}
      /\ Len(t.yrs) \in Nat /\ t.v0 \in Nat /\ t.v1 \in Nat
  BY TileFacts DEF LinesInv, Levels, Sane, TileOK
<1>2. RowsFed(t, c, pushes) = EncRow(t, c, k, t.v1)
  <2> DEFINE h == t.v1 - t.v0
             n == Len(t.yrs)
  <2>1. ~ (pushes < h * n) /\ h \in Int /\ n \in Nat
    BY <1>1 DEF Pushing, Height1
  <2>2. pushes >= h * n
    <3> HIDE DEF h, n
    <3>1. h * n \in Int
      BY <2>1
    <3> QED
      BY <2>1, <3>1
  <2> HIDE DEF t
  <2> QED
    BY <1>1, <2>2, AllFed
<1>3. ASSUME NEW j \in Levels, fdwt[c][j].nextIn = fdwt[c][j].v1
      PROVE  fdwt[c][j].nextOut = fdwt[c][j].v1
  <2> DEFINE s == fdwt[c][j]
  <2>1. Streaming(s, c)
    BY DEF TransformInv
  <2>2. ~ CanEmit(s)
    BY DEF Settled, Emitting
  <2>3. s.flushed
    <3>1. <<c, j>> \notin Unflushed
      OBVIOUS
    <3> QED
      BY <3>1 DEF Unflushed
  <2> HIDE DEF s
  <2>4. s.nextIn = s.v1
    BY <1>3 DEF s
  <2>5. s.nextOut = s.v1
    BY <2>1, <2>2, <2>3, <2>4, NothingHeldBack
  <2> QED
    BY <2>5 DEF s
<1> HIDE DEF t
<1>4. \A j \in Levels : fdwt[c][j].nextIn = RowsDue(t, fdwt, pushes, c, j)
  BY DEF TransformInv, t
<1>5. 0 \in S
  <2>1. k \in Levels /\ 0 \in 0 .. k - 1 /\ k - 0 = k
    BY <1>1
  <2>2. fdwt[c][k].nextIn = fdwt[c][k].v1
    <3>1. fdwt[c][k].v1 = EncRow(t, c, k, t.v1)
      BY <2>1, LevelFrame DEF t
    <3> QED
      BY <1>2, <1>4, <2>1, <3>1 DEF RowsDue
  <2>3. fdwt[c][k].nextOut = fdwt[c][k].v1
    BY <1>3, <2>1, <2>2
  <2> QED
    BY <2>1, <2>3
<1>6. ASSUME NEW m \in 0 .. (k - 1) - 1, m \in S
      PROVE  m + 1 \in S
  <2> DEFINE j == k - m
             i == k - (m + 1)
  <2>1. /\ j \in Levels /\ i \in Levels /\ j > 1 /\ i = j - 1 /\ i + 1 = j /\ i # k
        /\ m + 1 \in 0 .. k - 1
    <3> HIDE DEF S, k
    <3>1. /\ j \in 1 .. k /\ i \in 1 .. k /\ j > 1 /\ i = j - 1 /\ i + 1 = j /\ i # k
          /\ m + 1 \in 0 .. k - 1
      BY <1>1
    <3> HIDE DEF i, j
    <3> QED
      BY <1>1, <3>1
  <2>2. fdwt[c][j].nextOut = fdwt[c][j].v1
    BY <1>6
  <2> HIDE DEF i, j
  <2>3. fdwt[c][i].v1 = (fdwt[c][j].v1 + 1) \div 2
    BY <2>1, LevelFrame
  <2>4. fdwt[c][i].nextIn = (fdwt[c][j].nextOut + 1) \div 2
    BY <1>4, <2>1 DEF RowsDue
  <2>5. fdwt[c][i].nextOut = fdwt[c][i].v1
    BY <1>3, <2>1, <2>2, <2>3, <2>4
  <2> QED
    BY <2>1, <2>5 DEF i
<1>7. 0 .. k - 1 \subseteq S
  <2> DEFINE e == k - 1
  <2>1. e \in Nat /\ 0 \in S /\ \A m \in 0 .. e - 1 : m \in S => m + 1 \in S
    BY <1>1, <1>5, <1>6
  <2> HIDE DEF S, e
  <2>2. 0 .. e \subseteq S
    BY <2>1, Climb
  <2> QED
    BY <2>2 DEF e
<1>8. k - l \in 0 .. k - 1 /\ k - (k - l) = l
  BY <1>1
<1>9. k - l \in S
  BY <1>7, <1>8
<1> QED
  BY <1>8, <1>9

\* The overlapped blocks are waited for.
LEMMA WaitTransforms ==
  ASSUME LinesInv, pushes \in Nat, TransformInv, WaitOverlap
  PROVE  TransformInv'
<1>1. /\ TileInv /\ UNCHANGED <<job, tile, encPool, pushes, fdwt, written>>
      /\ Settled /\ ~ Pushing /\ Unflushed = {}
  BY DEF LinesInv, WaitOverlap, laneVars
<1>2. Tile' = Tile /\ Lanes' = Lanes /\ Levels' = Levels
  BY <1>1, TileSame
<1>3. ~ Pushing'
  BY <1>1, <1>2 DEF Pushing, Height1
<1>4. \A c \in Lanes : \A l \in Levels : fdwt[c][l].nextOut = fdwt[c][l].v1
  BY <1>1, AllRowsOut
<1> HIDE DEF Tile, Lanes, Levels, Pushing
<1>5. \A c \in Lanes : \A l \in Levels :
        /\ Streaming(fdwt[c][l], c)
        /\ fdwt[c][l].nextIn = RowsDue(Tile, fdwt, pushes, c, l)
        /\ \A k \in DOMAIN written[c][l] : written[c][l][k]
  BY DEF TransformInv
<1> QED
  BY <1>1, <1>2, <1>3, <1>4, <1>5 DEF TransformInv

\* The first tile begins.
LEMMA InitTransforms ==
  ASSUME EncInit
  PROVE  TransformInv
<1>1. TileInv /\ Tile = job[1]
  BY FirstTile
<1>2. /\ fdwt = FreshFdwt(Tile) /\ written = NothingWritten(Tile)
      /\ pushes = 0 /\ stage = "lines"
  BY <1>1 DEF EncInit
<1> QED
  BY <1>1, <1>2, TransformFresh

\* The next tile begins.
LEMMA NextTileTransforms ==
  ASSUME LinesInv, NextTile
  PROVE  TransformInv'
<1>1. TileInv' /\ Tile' = job[tile + 1]
  BY NextTileKeepsLines
<1>2. /\ pushes' = 0 /\ stage' = "lines"
      /\ fdwt' = FreshFdwt(job[tile + 1]) /\ written' = NothingWritten(job[tile + 1])
  BY DEF NextTile
<1>3. fdwt' = FreshFdwt(Tile)' /\ written' = NothingWritten(Tile)'
  <2>1. FreshFdwt(Tile)' = FreshFdwt(Tile') /\ NothingWritten(Tile)' = NothingWritten(Tile')
    BY DEF FreshFdwt, NothingWritten
  <2> QED
    BY <1>1, <1>2, <2>1
<1>4. (TileInv /\ fdwt = FreshFdwt(Tile) /\ written = NothingWritten(Tile)
       /\ pushes = 0 /\ stage = "lines" => TransformInv)'
  BY TransformFresh, PTL
<1> QED
  BY <1>1, <1>2, <1>3, <1>4

\* Every step keeps it.
LEMMA NextKeepsTransforms ==
  ASSUME BlocksInv, TransformInv, [EncNext]_encVars
  PROVE  TransformInv'
<1>1. LinesInv /\ pushes \in Nat /\ TileInv
  BY DEF BlocksInv, LinesInv
<1>2. CASE NextTile
  BY <1>1, <1>2, NextTileTransforms
<1>3. CASE PushRow
  BY <1>1, <1>3, PushTransforms
<1>4. CASE Flush
  BY <1>1, <1>4, FlushTransforms
<1>5. CASE WaitOverlap
  BY <1>1, <1>5, WaitTransforms
<1>6. ASSUME NEW c \in Lanes, NEW l \in Levels, Emit(c, l)
      PROVE  TransformInv'
  BY <1>1, <1>6, EmitTransforms
<1>7. ASSUME UNCHANGED <<job, tile, encPool, stage, laneVars>>
      PROVE  TransformInv'
  BY <1>1, <1>7, TransformSame
<1>8. CASE EncodeResolution
  <2>1. UNCHANGED <<job, tile, encPool, stage, laneVars>>
    BY <1>8 DEF EncodeResolution
  <2> QED
    BY <1>7, <2>1
<1>9. ASSUME NEW w \in EncWorkers, EncWorker(w)
      PROVE  TransformInv'
  <2>1. UNCHANGED <<job, tile, encPool, stage, laneVars>>
    BY <1>9 DEF EncWorker, StartBlock, EncodeBlock, jobVars
  <2> QED
    BY <1>7, <2>1
<1>10. CASE UNCHANGED encVars
  <2>1. UNCHANGED <<job, tile, encPool, stage, laneVars>>
    BY <1>10 DEF encVars, jobVars
  <2> QED
    BY <1>7, <2>1
<1> QED
  BY <1>2, <1>3, <1>4, <1>5, <1>6, <1>8, <1>9, <1>10 DEF EncNext, EncMain

\* What it says of the rows put.
LEMMA TransformComesOut ==
  ASSUME LinesInv, TransformInv
  PROVE  RowsComeOut
<1>1. Table(written, Lanes, Levels)
  BY DEF LinesInv
<1>2. DOMAIN written = Lanes /\ \A c \in Lanes : DOMAIN written[c] = Levels
  <2> HIDE DEF Lanes, Levels
  <2> QED
    BY <1>1 DEF Table
<1>3. ASSUME NEW c \in Lanes, NEW l \in Levels
      PROVE  /\ \A k \in DOMAIN written[c][l] : written[c][l][k]
             /\ stage = "blocks" => Len(written[c][l]) = fdwt[c][l].v1 - fdwt[c][l].v0
  <2>1. \A k \in DOMAIN written[c][l] : written[c][l][k]
    BY DEF TransformInv
  <2>2. Len(written[c][l]) = fdwt[c][l].nextOut - fdwt[c][l].v0
    BY DEF LinesInv, LevelOK
  <2>3. stage = "blocks" => fdwt[c][l].nextOut = fdwt[c][l].v1
    BY DEF TransformInv
  <2> QED
    BY <2>1, <2>2, <2>3
<1> QED
  BY <1>2, <1>3 DEF RowsComeOut

-----------------------------------------------------------------------------
(* What comes out of the transform, and what is coded. *)

\* The transform of a tile, from the first row to the last and with either filter:
\* every level's ring is in order, and has taken in all the rows it is due.
THEOREM TransformInvariant == EncSpec => []TransformInv
<1>1. EncInit => TransformInv
  BY InitTransforms
<1>2. BlocksInv /\ TransformInv /\ [EncNext]_encVars => TransformInv'
  BY NextKeepsTransforms
<1> QED
  BY <1>1, <1>2, BlocksInvariant, PTL DEF EncSpec

\* RowsComeOut: every row that a level puts (emit_ready_f) has all the lifting steps of
\* its filter, taken from its own neighbours, and no level holds a row back when the
\* main thread stops waiting for the overlapped blocks.
THEOREM EveryRowComesOut == EncSpec => []RowsComeOut
<1>1. BlocksInv /\ TransformInv => RowsComeOut
  BY TransformComesOut DEF BlocksInv
<1> QED
  BY <1>1, BlocksInvariant, TransformInvariant, PTL

\* BlocksReadFinishedRows: a block is handed to an encoder when the transform has put
\* the last of its rows, and put it right, although the transform goes on.
THEOREM BlocksReadOnlyFinishedRows == EncSpec => []BlocksReadFinishedRows
<1>1. BlocksInv /\ RowsComeOut => BlocksReadFinishedRows
  BY ReadsFinished
<1> QED
  BY <1>1, BlocksInvariant, EveryRowComesOut, PTL

\* EveryBlockCodedOnce, of a tile whose num_cblk_rows is right: when the main thread
\* leaves the tile every block was coded, and coded once.
THEOREM EveryBlockIsCodedOnce ==
  EncSpec => [](RowsCounted(Tile) => EveryBlockCodedOnce)
<1>1. BlocksInv /\ RowsComeOut => (RowsCounted(Tile) => EveryBlockCodedOnce)
  BY CodedOnce
<1> QED
  BY <1>1, BlocksInvariant, EveryRowComesOut, PTL

\* EveryBlockCodedOnce, of a tile that starts at row 0 of the image: num_cblk_rows is
\* right there, however high the tile is.
THEOREM OriginTilesAreCodedOnce ==
  EncSpec => [](Tile.v0 = 0 => EveryBlockCodedOnce)
<1>1. BlocksInv /\ Tile.v0 = 0 => RowsCounted(Tile)
  <2> SUFFICES ASSUME BlocksInv, Tile.v0 = 0 PROVE RowsCounted(Tile)
    OBVIOUS
  <2>1. Sane(Tile)
    BY TileFacts DEF BlocksInv, LinesInv
  <2> HIDE DEF Tile
  <2> QED
    BY <2>1, OriginRowsCounted
<1>2. BlocksInv /\ (RowsCounted(Tile) => EveryBlockCodedOnce)
      => (Tile.v0 = 0 => EveryBlockCodedOnce)
  BY <1>1
<1> QED
  BY <1>2, BlocksInvariant, EveryBlockIsCodedOnce, PTL

=============================================================================
