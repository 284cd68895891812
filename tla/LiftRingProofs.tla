--------------------------- MODULE LiftRingProofs ---------------------------
(***************************************************************************)
(* Proofs about the sliding ring of rows, for both directions of the       *)
(* transform and every filter. The invariant of a ring, InRing, says that  *)
(* a row has entered when the row it shows has, that its samples are that  *)
(* row's after as many steps as its slot claims, and that a row of the     *)
(* parity lifted first is level with its neighbours or one above them. A   *)
(* row that can be lifted then finds its neighbours at exactly the level   *)
(* the step asks for (NeighboursExact), so that every step leaves what the *)
(* transform would (LiftKeeps); entering and giving up rows keeps it too   *)
(* (EnterKeeps, EvictKeeps). A ring in which no row can be lifted holds    *)
(* its next row back only for want of one of the next four (NotHeldBack).  *)
(***************************************************************************)
EXTENDS LiftRing, WellFoundedInduction, TLAPS

----------------------------------------------------------------------------
(* Division with remainder, and what replaces induction on numbers.        *)

\* Division with remainder.
LEMMA DivMod ==
  ASSUME NEW a \in Int, NEW N \in Nat \ {0}
  PROVE  a \div N \in Int /\ a % N \in 0 .. N - 1 /\ a = N * (a \div N) + (a % N)
OBVIOUS

\* The only multiple of N below N is 0.
LEMMA SmallMultiple ==
  ASSUME NEW q \in Int, NEW N \in Nat \ {0}, NEW d \in 0 .. N - 1, d = N * q
  PROVE  d = 0
<1>1. CASE q <= -1
  <2>1. N * q <= -N BY <1>1
  <2>2. QED BY <2>1
<1>2. CASE q >= 1
  <2>1. N * q >= N BY <1>2
  <2>2. QED BY <2>1
<1>3. CASE q = 0 BY <1>3
<1>4. QED BY <1>1, <1>2, <1>3

\* The remainder is determined by the congruence class.
LEMMA ModUnique ==
  ASSUME NEW a \in Int, NEW k \in Int, NEW N \in Nat \ {0}, NEW d \in 0 .. N - 1,
         a = N * k + d
  PROVE  a % N = d
<1> DEFINE e == a % N
           m == a \div N
<1>1. e \in 0 .. N - 1 /\ m \in Int /\ N * m + e = N * k + d
  BY DivMod
<1> HIDE DEF e, m
<1>2. CASE e >= d
  <2>1. e - d \in 0 .. N - 1 /\ e - d = N * (k - m) BY <1>1, <1>2
  <2>2. e - d = 0 BY <2>1, <1>1, SmallMultiple
  <2>3. QED BY <2>2, <1>1 DEF e
<1>3. CASE e < d
  <2>1. d - e \in 0 .. N - 1 /\ d - e = N * (m - k) BY <1>1, <1>3
  <2>2. d - e = 0 BY <2>1, <1>1, SmallMultiple
  <2>3. QED BY <2>2, <1>1 DEF e
<1>4. QED BY <1>1, <1>2, <1>3

\* Numbers that are congruent and less than N apart are equal.
LEMMA ModEqual ==
  ASSUME NEW a \in Int, NEW b \in Int, NEW N \in Nat \ {0},
         a - b < N, b - a < N, a % N = b % N
  PROVE  a = b
<1> DEFINE i == a \div N
           j == b \div N
           r == b % N
<1>1. i \in Int /\ j \in Int /\ r \in Int /\ a = N * i + r /\ b = N * j + r
  BY DivMod
<1> HIDE DEF i, j, r
<1>2. a - b = N * (i - j) /\ b - a = N * (j - i)
  BY <1>1
<1>3. CASE a >= b
  <2>1. a - b \in 0 .. N - 1 BY <1>3
  <2>2. a - b = 0 BY <1>1, <1>2, <2>1, SmallMultiple
  <2>3. QED BY <2>2
<1>4. CASE a < b
  <2>1. b - a \in 0 .. N - 1 BY <1>4
  <2>2. b - a = 0 BY <1>1, <1>2, <2>1, SmallMultiple
  <2>3. QED BY <2>2
<1>5. QED BY <1>3, <1>4

\* Every set of numbers that has an element has a least one.
LEMMA NatLeast ==
  ASSUME NEW S \in SUBSET Nat, S # {}
  PROVE  \E m \in S : \A k \in S : m <= k
<1> DEFINE R == {ss \in Nat \X Nat : ss[1] < ss[2]}
<1>1. IsWellFoundedOn(R, Nat)
  BY NatLessThanWellFounded DEF OpToRel
<1>2. \A x, y \in Nat : <<y, x>> \in R <=> y < x
  OBVIOUS
<1> HIDE DEF R
<1>3. \E x \in S : \A y \in S : ~ (<<y, x>> \in R)
  BY <1>1, WFMin
<1>4. PICK m \in S : \A y \in S : ~ (<<y, m>> \in R)
  BY <1>3
<1>5. ASSUME NEW k \in S PROVE m <= k
  <2>1. m \in Nat /\ k \in Nat
    OBVIOUS
  <2>2. ~ (k < m)
    BY <1>2, <1>4, <2>1
  <2> QED
    BY <2>1, <2>2
<1> QED
  BY <1>5

\* Induction up to a number.
LEMMA Climb ==
  ASSUME NEW S, NEW n \in Nat, 0 \in S, \A m \in 0 .. n - 1 : m \in S => m + 1 \in S
  PROVE  0 .. n \subseteq S
<1> DEFINE Bad == {m \in 0 .. n : m \notin S}
<1> SUFFICES ASSUME Bad # {} PROVE FALSE
  OBVIOUS
<1>1. PICK m \in Bad : \A k \in Bad : m <= k
  <2>1. Bad \in SUBSET Nat
    OBVIOUS
  <2> HIDE DEF Bad
  <2> QED
    BY <2>1, NatLeast
<1>2. m \in 0 .. n /\ m \notin S /\ m # 0
  OBVIOUS
<1>3. m - 1 \in 0 .. n - 1 /\ (m - 1) + 1 = m /\ ~ (m <= m - 1) /\ m - 1 \in 0 .. n
  BY <1>2
<1>4. m - 1 \in S
  BY <1>1, <1>3
<1> QED
  BY <1>2, <1>3, <1>4

----------------------------------------------------------------------------
(* The symmetric extension, as distances from the first row.               *)

\* Mirroring at the borders of N + 1 rows, of the row at distance x from the first.
Folded(m, N) == IF m < 2 * N - m THEN m ELSE 2 * N - m
Mirror(x, N) == IF 0 <= x /\ x <= N THEN x ELSE IF x < 0 THEN Folded((-x) % (2 * N), N)
                ELSE Folded(x % (2 * N), N)

\* Where the mirror is not hit twice.
LEMMA MirrorOnce ==
  ASSUME NEW N \in Nat, N >= 4, NEW x \in -4 .. N + 4
  PROVE  Mirror(x, N) = IF x < 0 THEN -x ELSE IF x <= N THEN x ELSE 2 * N - x
<1> DEFINE M == 2 * N
<1>1. M \in Nat \ {0} /\ M = 2 * N /\ x \in Int
  OBVIOUS
<1> HIDE DEF M
<1>2. ASSUME NEW m \in Nat, m < M PROVE m % M = m
  <2>1. m = M * 0 + m /\ m \in 0 .. M - 1
    BY <1>1, <1>2
  <2> QED
    BY <1>1, <2>1, ModUnique
<1>3. \A m \in Int : Folded(m, N) = IF m < M - m THEN m ELSE M - m
  BY <1>1 DEF Folded
<1>4. M % M = 0
  <2>1. M = M * 1 + 0 /\ 0 \in 0 .. M - 1
    BY <1>1
  <2> QED
    BY <1>1, <2>1, ModUnique
<1>5. Mirror(x, N) = IF 0 <= x /\ x <= N THEN x
                     ELSE IF x < 0 THEN Folded((-x) % M, N) ELSE Folded(x % M, N)
  BY <1>1 DEF Mirror
<1>6. CASE x < 0
  <2>1. -x \in Nat /\ -x < M
    BY <1>1, <1>6
  <2>2. (-x) % M = -x
    BY <1>2, <2>1
  <2>3. Folded(-x, N) = -x
    BY <1>1, <1>3, <1>6
  <2> QED
    BY <1>1, <1>5, <1>6, <2>2, <2>3
<1>7. CASE x > N /\ x < M
  <2>1. x % M = x
    BY <1>1, <1>2, <1>7
  <2>2. Folded(x, N) = M - x
    BY <1>1, <1>3, <1>7
  <2> QED
    BY <1>1, <1>5, <1>7, <2>1, <2>2
<1>8. CASE x > N /\ ~ (x < M)
  <2>1. x = M
    BY <1>1, <1>8
  <2>2. Folded(0, N) = 0
    BY <1>1, <1>3
  <2> QED
    BY <1>1, <1>4, <1>5, <1>8, <2>1, <2>2
<1>9. CASE 0 <= x /\ x <= N
  BY <1>1, <1>5, <1>9
<1> QED
  BY <1>1, <1>6, <1>7, <1>8, <1>9

\* The small tables.
LEMMA MirrorSmall ==
  ASSUME NEW N \in {1, 2, 3}, NEW x \in -4 .. N + 4
  PROVE  /\ N = 1 => Mirror(x, N) = x % 2
         /\ N = 2 => Mirror(x, N) = IF x % 2 = 1 THEN 1 ELSE IF x % 4 = 0 THEN 0 ELSE 2
         /\ N = 3 => Mirror(x, N) = IF x % 6 <= 3 THEN x % 6 ELSE 6 - (x % 6)
<1>1. CASE N = 1
  <2>1. x \in {-4, -3, -2, -1, 0, 1, 2, 3, 4, 5}
    BY <1>1
  <2>2. 2 * 1 = 2
    OBVIOUS
  <2> QED
    BY <1>1, <2>1, <2>2 DEF Mirror, Folded
<1>2. CASE N = 2
  <2>1. x \in {-4, -3, -2, -1, 0, 1, 2, 3, 4, 5, 6}
    BY <1>2
  <2>2. 2 * 2 = 4
    OBVIOUS
  <2> QED
    BY <1>2, <2>1, <2>2 DEF Mirror, Folded
<1>3. CASE N = 3
  <2>1. x \in {-4, -3, -2, -1, 0, 1, 2, 3, 4, 5, 6, 7}
    BY <1>3
  <2>2. 2 * 3 = 6
    OBVIOUS
  <2> QED
    BY <1>3, <2>1, <2>2 DEF Mirror, Folded
<1> QED
  BY <1>1, <1>2, <1>3

\* What a mirrored row is, and what is next to it.
LEMMA FoldedIs ==
  ASSUME NEW N \in Nat \ {0}, NEW x \in -4 .. N + 4
  PROVE  /\ Mirror(x, N) \in 0 .. N /\ Mirror(x, N) % 2 = x % 2
         /\ 0 <= x /\ x <= N => Mirror(x, N) = x
         /\ Mirror(x, N) <= x \/ Mirror(x, N) <= -x
<1>1. CASE N >= 4
  <2>1. Mirror(x, N) = IF x < 0 THEN -x ELSE IF x <= N THEN x ELSE 2 * N - x
    BY <1>1, MirrorOnce
  <2> QED
    BY <1>1, <2>1
<1>2. CASE N = 1
  <2>1. Mirror(x, N) = x % 2
    BY <1>2, MirrorSmall
  <2> QED
    BY <1>2, <2>1
<1>3. CASE N = 2
  <2>1. Mirror(x, N) = IF x % 2 = 1 THEN 1 ELSE IF x % 4 = 0 THEN 0 ELSE 2
    BY <1>3, MirrorSmall
  <2> QED
    BY <1>3, <2>1
<1>4. CASE N = 3
  <2>1. Mirror(x, N) = IF x % 6 <= 3 THEN x % 6 ELSE 6 - (x % 6)
    BY <1>4, MirrorSmall
  <2>2. x \in {-4, -3, -2, -1, 0, 1, 2, 3, 4, 5, 6, 7}
    BY <1>4
  <2> QED
    BY <1>4, <2>1, <2>2
<1> QED
  BY <1>1, <1>2, <1>3, <1>4

\* The neighbours of a mirrored row are the mirrored row's neighbours, mirrored.
LEMMA MirrorBeside ==
  ASSUME NEW N \in Nat \ {0}, NEW x \in -3 .. N + 3
  PROVE  LET m == Mirror(x, N) IN
         {Mirror(x - 1, N), Mirror(x + 1, N)}
           = {IF m - 1 < 0 THEN 1 ELSE m - 1, IF m + 1 > N THEN N - 1 ELSE m + 1}
<1> DEFINE m == Mirror(x, N)
           l == Mirror(x - 1, N)
           r == Mirror(x + 1, N)
           L == IF m - 1 < 0 THEN 1 ELSE m - 1
           R == IF m + 1 > N THEN N - 1 ELSE m + 1
<1>0. x - 1 \in -4 .. N + 4 /\ x + 1 \in -4 .. N + 4 /\ x \in -4 .. N + 4
  OBVIOUS
<1>1. CASE N >= 4
  <2>1. /\ m = IF x < 0 THEN -x ELSE IF x <= N THEN x ELSE 2 * N - x
        /\ l = IF x - 1 < 0 THEN -(x - 1) ELSE IF x - 1 <= N THEN x - 1 ELSE 2 * N - (x - 1)
        /\ r = IF x + 1 < 0 THEN -(x + 1) ELSE IF x + 1 <= N THEN x + 1 ELSE 2 * N - (x + 1)
    BY <1>0, <1>1, MirrorOnce
  <2> HIDE DEF m, l, r
  <2>2. (l = L /\ r = R) \/ (l = R /\ r = L)
    BY <1>1, <2>1
  <2> HIDE DEF L, R
  <2>3. {l, r} = {L, R}
    BY <2>2
  <2> QED
    BY <2>3 DEF l, r, L, R, m
<1>2. CASE N = 1
  <2>1. m = x % 2 /\ l = (x - 1) % 2 /\ r = (x + 1) % 2
    BY <1>0, <1>2, MirrorSmall
  <2> HIDE DEF m, l, r
  <2>2. l = L /\ r = R
    BY <1>2, <2>1
  <2> HIDE DEF L, R
  <2>3. {l, r} = {L, R}
    BY <2>2
  <2> QED
    BY <2>3 DEF l, r, L, R, m
<1>3. CASE N = 2
  <2>1. /\ m = IF x % 2 = 1 THEN 1 ELSE IF x % 4 = 0 THEN 0 ELSE 2
        /\ l = IF (x - 1) % 2 = 1 THEN 1 ELSE IF (x - 1) % 4 = 0 THEN 0 ELSE 2
        /\ r = IF (x + 1) % 2 = 1 THEN 1 ELSE IF (x + 1) % 4 = 0 THEN 0 ELSE 2
    BY <1>0, <1>3, MirrorSmall
  <2> HIDE DEF m, l, r
  <2>2. (l = L /\ r = R) \/ (l = R /\ r = L)
    BY <1>3, <2>1
  <2> HIDE DEF L, R
  <2>3. {l, r} = {L, R}
    BY <2>2
  <2> QED
    BY <2>3 DEF l, r, L, R, m
<1>4. CASE N = 3
  <2>1. /\ m = IF x % 6 <= 3 THEN x % 6 ELSE 6 - (x % 6)
        /\ l = IF (x - 1) % 6 <= 3 THEN (x - 1) % 6 ELSE 6 - ((x - 1) % 6)
        /\ r = IF (x + 1) % 6 <= 3 THEN (x + 1) % 6 ELSE 6 - ((x + 1) % 6)
    BY <1>0, <1>4, MirrorSmall
  <2> HIDE DEF m, l, r
  <2>2. (l = L /\ r = R) \/ (l = R /\ r = L)
    BY <1>4, <2>1
  <2> HIDE DEF L, R
  <2>3. {l, r} = {L, R}
    BY <2>2
  <2> QED
    BY <2>3 DEF l, r, L, R, m
<1> QED
  BY <1>1, <1>2, <1>3, <1>4

----------------------------------------------------------------------------
(* Rings: which rows have slots, and what these hold.                      *)

\* What makes a record a ring: its fields, their ranges and the tables of init.
\* A level that is lifted has two rows or more.
RingFields == {"v0", "v1", "xf", "first", "depth", "topN", "botN", "origin",
               "nextIn", "nextOut", "cells"}
IsRing(s) == s = [f \in DOMAIN s |-> s[f]] /\ RingFields \subseteq DOMAIN s
Outer(s)  == IF s.xf = 0 THEN 3 ELSE 1
Ranges(s) ==
  /\ s.v0 \in Nat /\ s.v1 \in Nat /\ s.v1 >= s.v0 + 2 /\ s.xf \in Nat
  /\ s.first \in {0, 1} /\ s.depth \in {8, 12}
  /\ s.topN = Outer(s) + (IF s.v0 % 2 = s.first THEN 0 ELSE 1)
  /\ s.botN = Outer(s) + (IF s.v1 % 2 = s.first THEN 1 ELSE 0)
Cursors(s) == s.origin \in Nat /\ s.nextIn \in Nat /\ s.nextOut \in Nat
IsCell(x) == x = [lvl |-> x.lvl, val |-> x.val] /\ x.lvl \in Int
Cells(s)  == /\ s.cells = [k \in 0 .. s.depth + 7 |-> s.cells[k]]
             /\ \A k \in 0 .. s.depth + 7 : IsCell(s.cells[k])
Shaped(s) == IsRing(s) /\ Ranges(s) /\ Cursors(s) /\ Cells(s)

\* The rows with a slot, what they show, and their cells.
SlottedRows(s)       == s.v0 - s.topN .. s.v1 + s.botN - 1
SourceRow(s, p) == IF IsReal(s, p) THEN p ELSE PseSource(s, p)
CellAt(s, p)    == s.cells[SlotOf(s, p)]

\* The ranges of a ring's fields, for the arithmetic.
LEMMA RangesAre ==
  ASSUME NEW s, Shaped(s)
  PROVE  /\ s.v0 \in Nat /\ s.v1 \in Nat /\ s.v1 >= s.v0 + 2
         /\ s.first \in {0, 1} /\ s.depth \in {8, 12}
         /\ s.origin \in Nat /\ s.nextIn \in Nat /\ s.nextOut \in Nat
         /\ Outer(s) \in {1, 3} /\ s.topN \in 1 .. 4 /\ s.botN \in 1 .. 4
<1>1. Outer(s) \in {1, 3}
  BY DEF Outer
<1>2. Ranges(s) /\ Cursors(s)
  BY DEF Shaped
<1>3. s.topN \in 1 .. 4 /\ s.botN \in 1 .. 4
  BY <1>1, <1>2 DEF Ranges
<1> QED
  BY <1>1, <1>2, <1>3 DEF Ranges, Cursors

\* The extension rows mirror the level's.
LEMMA SourceRowIs ==
  ASSUME NEW s, Shaped(s), NEW p \in SlottedRows(s)
  PROVE  /\ p \in Int /\ p >= s.v0 - s.topN /\ p <= s.v1 + s.botN - 1
         /\ p - s.v0 \in -4 .. (s.v1 - s.v0 - 1) + 4
         /\ SourceRow(s, p) = s.v0 + Mirror(p - s.v0, s.v1 - s.v0 - 1)
         /\ (IsReal(s, p) <=> s.v0 <= p /\ p < s.v1)
         /\ SourceRow(s, p) \in s.v0 .. s.v1 - 1 /\ SourceRow(s, p) % 2 = p % 2
         /\ IsReal(s, p) => SourceRow(s, p) = p
         /\ SourceRow(s, p) <= p \/ SourceRow(s, p) <= 2 * s.v0 - p
<1> DEFINE a == s.v0
           b == s.v1
           N == b - a - 1
           x == p - a
<1>0. a \in Nat /\ b \in Nat /\ b >= a + 2 /\ s.topN \in 1 .. 4 /\ s.botN \in 1 .. 4
  BY RangesAre
<1>1. /\ a \in Nat /\ b \in Nat /\ b >= a + 2 /\ s.topN \in 1 .. 4 /\ s.botN \in 1 .. 4
      /\ N \in Nat \ {0}
  BY <1>0
<1>2. p \in Int /\ p >= a - s.topN /\ p <= b + s.botN - 1
  BY <1>1 DEF SlottedRows
<1>3. x \in -4 .. N + 4
  BY <1>1, <1>2
<1>4. IsReal(s, p) <=> a <= p /\ p < b
  BY DEF IsReal
<1>5. SourceRow(s, p) = IF a <= p /\ p < b THEN p ELSE a + PSEo(p, a, b)
  BY <1>4 DEF SourceRow, PseSource
<1>6. PSEo(p, a, b) = Folded((IF x < 0 THEN -x ELSE x) % (2 * N), N)
  <2>1. (IF p < a THEN a - p ELSE p - a) = IF x < 0 THEN -x ELSE x
    BY <1>1, <1>2
  <2>2. 2 * (b - a - 1) = 2 * N
    OBVIOUS
  <2> HIDE DEF x, N
  <2> QED
    BY <2>1, <2>2 DEF PSEo, Folded
<1>7. a <= p /\ p < b <=> 0 <= x /\ x <= N
  BY <1>1, <1>2
<1>8. p = a + x
  BY <1>1, <1>2
<1> HIDE DEF N, x
<1>9. SourceRow(s, p) = a + Mirror(x, N)
  <2>1. CASE 0 <= x /\ x <= N
    BY <1>5, <1>7, <1>8, <2>1 DEF Mirror
  <2>2. CASE ~ (0 <= x /\ x <= N)
    <3>1. Mirror(x, N) = Folded((IF x < 0 THEN -x ELSE x) % (2 * N), N)
      BY <2>2 DEF Mirror
    <3> QED
      BY <1>5, <1>6, <1>7, <2>2, <3>1
  <2> QED
    BY <2>1, <2>2
<1> DEFINE m == Mirror(x, N)
<1>10. /\ m \in 0 .. N /\ m % 2 = x % 2 /\ (0 <= x /\ x <= N => m = x)
       /\ m <= x \/ m <= -x
  BY <1>1, <1>3, FoldedIs
<1> HIDE DEF m
<1>11. SourceRow(s, p) = a + m
  BY <1>9 DEF m
<1> DEFINE q == SourceRow(s, p)
<1> HIDE DEF q
<1>12. /\ q \in a .. b - 1 /\ q % 2 = p % 2 /\ (a <= p /\ p < b => q = p)
       /\ q <= p \/ q <= 2 * a - p
  <2>1. q = a + m /\ p = a + x /\ N = b - a - 1 /\ x \in Int /\ m \in Int
    BY <1>3, <1>8, <1>10, <1>11 DEF q, N
  <2>2. (a + m) % 2 = (a + x) % 2
    BY <1>1, <1>10, <2>1
  <2> HIDE DEF a, b
  <2> QED
    BY <1>1, <1>7, <1>10, <2>1, <2>2
<1> QED
  BY <1>2, <1>3, <1>4, <1>9, <1>12 DEF q, x, N

\* What is beside a row shows what is beside the row it shows.
LEMMA BesideIs ==
  ASSUME NEW s, Shaped(s), NEW p \in SlottedRows(s), p - 1 \in SlottedRows(s), p + 1 \in SlottedRows(s)
  PROVE  {SourceRow(s, p - 1), SourceRow(s, p + 1)} = {Beside(s, SourceRow(s, p), d) : d \in {-1, 1}}
<1> DEFINE a == s.v0
           b == s.v1
           N == b - a - 1
           x == p - a
           m == Mirror(x, N)
<1>0. a \in Nat /\ b \in Nat /\ b >= a + 2
  BY RangesAre
<1>1. a \in Nat /\ b \in Nat /\ b >= a + 2 /\ N \in Nat \ {0}
  BY <1>0
<1>21. \A u \in SlottedRows(s) : u \in Int /\ u - a \in -4 .. N + 4 /\ SourceRow(s, u) = a + Mirror(u - a, N)
  BY SourceRowIs
<1>22. p \in Int
  BY <1>21
<1>23. p - 1 - a = x - 1 /\ p + 1 - a = x + 1
  BY <1>1, <1>22
<1>20. ASSUME NEW u \in SlottedRows(s), NEW y, u - a = y
      PROVE  y \in -4 .. N + 4 /\ SourceRow(s, u) = a + Mirror(y, N)
  BY <1>20, <1>21
<1>2. /\ x - 1 \in -4 .. N + 4 /\ SourceRow(s, p - 1) = a + Mirror(x - 1, N)
      /\ x + 1 \in -4 .. N + 4 /\ SourceRow(s, p + 1) = a + Mirror(x + 1, N)
      /\ x \in -4 .. N + 4 /\ SourceRow(s, p) = a + m
  <2>1. /\ x - 1 \in -4 .. N + 4 /\ SourceRow(s, p - 1) = a + Mirror(x - 1, N)
        /\ x + 1 \in -4 .. N + 4 /\ SourceRow(s, p + 1) = a + Mirror(x + 1, N)
    <3>1. PICK u : u = p - 1
      OBVIOUS
    <3>2. PICK v : v = p + 1
      OBVIOUS
    <3>3. u \in SlottedRows(s) /\ v \in SlottedRows(s) /\ u - a = x - 1 /\ v - a = x + 1
      <4>1. u \in SlottedRows(s) /\ v \in SlottedRows(s)
        BY <3>1, <3>2
      <4>2. u - a = x - 1 /\ v - a = x + 1
        BY <1>1, <1>22, <3>1, <3>2
      <4> QED
        BY <4>1, <4>2
    <3> HIDE DEF N, x
    <3>4. /\ x - 1 \in -4 .. N + 4 /\ SourceRow(s, u) = a + Mirror(x - 1, N)
          /\ x + 1 \in -4 .. N + 4 /\ SourceRow(s, v) = a + Mirror(x + 1, N)
      BY <1>20, <3>3
    <3> QED
      BY <3>1, <3>2, <3>4
  <2>2. x \in -4 .. N + 4 /\ SourceRow(s, p) = a + m
    <3> HIDE DEF N
    <3> QED
      BY <1>21
  <2> QED
    BY <2>1, <2>2
<1>3. x \in -3 .. N + 3
  BY <1>1, <1>2
<1>4. {Mirror(x - 1, N), Mirror(x + 1, N)}
        = {IF m - 1 < 0 THEN 1 ELSE m - 1, IF m + 1 > N THEN N - 1 ELSE m + 1}
  BY <1>1, <1>3, MirrorBeside
<1>5. m \in 0 .. N
  BY <1>1, <1>2, FoldedIs
<1> DEFINE q == a + m
           l == Mirror(x - 1, N)
           r == Mirror(x + 1, N)
           L == IF m - 1 < 0 THEN 1 ELSE m - 1
           R == IF m + 1 > N THEN N - 1 ELSE m + 1
<1>6. Beside(s, q, -1) = a + L /\ Beside(s, q, 1) = a + R
  <2> HIDE DEF m
  <2>1. /\ q + (-1) = q - 1
        /\ q - 1 < a <=> m - 1 < 0
        /\ q + 1 < a <=> FALSE
        /\ q - 1 >= b <=> FALSE
        /\ q + 1 >= b <=> m + 1 > N
    BY <1>1, <1>5
  <2>2. /\ m - 1 < 0 => 2 * a - (q - 1) = a + 1
        /\ ~ (m - 1 < 0) => q - 1 = a + (m - 1)
        /\ m + 1 > N => 2 * (b - 1) - (q + 1) = a + (N - 1)
        /\ q + 1 = a + (m + 1)
    BY <1>1, <1>5
  <2> HIDE DEF N, q
  <2> QED
    BY <2>1, <2>2 DEF Beside
<1>7. {a + l, a + r} = {a + L, a + R}
  <2>1. {l, r} = {L, R}
    BY <1>4
  <2> HIDE DEF l, r, L, R
  <2> QED
    BY <2>1
<1>8. SourceRow(s, p) = q /\ SourceRow(s, p - 1) = a + l /\ SourceRow(s, p + 1) = a + r
  BY <1>2
<1> HIDE DEF q, l, r, L, R
<1> QED
  BY <1>6, <1>7, <1>8

\* Slots of the rows of the level are below the depth, those of the others above.
LEMMA SlotOfRow ==
  ASSUME NEW s, Shaped(s), NEW p \in SlottedRows(s)
  PROVE  /\ SlotOf(s, p) \in 0 .. s.depth + 7
         /\ IsReal(s, p) => SlotOf(s, p) = p % s.depth /\ SlotOf(s, p) < s.depth
         /\ ~ IsReal(s, p) => SlotOf(s, p) >= s.depth
         /\ ~ IsReal(s, p) /\ p < s.v0 => SlotOf(s, p) = s.depth + (s.v0 - 1 - p)
                                          /\ SlotOf(s, p) < s.depth + 4
         /\ ~ IsReal(s, p) /\ ~ (p < s.v0) => SlotOf(s, p) = s.depth + 4 + (p - s.v1)
                                              /\ SlotOf(s, p) >= s.depth + 4
<1> DEFINE a == s.v0
           b == s.v1
           D == s.depth
           k == SlotOf(s, p)
<1>1. a \in Nat /\ b \in Nat /\ D \in {8, 12} /\ s.topN \in 1 .. 4 /\ s.botN \in 1 .. 4
  BY RangesAre
<1>2. /\ p \in Int /\ p >= a - s.topN /\ p <= b + s.botN - 1
      /\ (IsReal(s, p) <=> a <= p /\ p < b)
  BY SourceRowIs
<1>3. k = IF IsReal(s, p) THEN p % D ELSE IF p < a THEN D + (a - 1 - p) ELSE D + 4 + (p - b)
  BY DEF SlotOf
<1> HIDE DEF a, b, k, D
<1>4. p % D \in 0 .. D - 1 /\ D \in Nat
  <2>1. p % 8 \in 0 .. 7 /\ p % 12 \in 0 .. 11
    BY <1>2
  <2> QED
    BY <1>1, <2>1
<1>5. CASE IsReal(s, p)
  BY <1>2, <1>3, <1>4, <1>5 DEF k, D
<1>6. CASE ~ IsReal(s, p) /\ p < a
  <2>1. k = D + (a - 1 - p)
    BY <1>3, <1>6
  <2>2. k \in D .. D + 3
    BY <1>1, <1>2, <1>4, <1>6, <2>1
  <2> QED
    BY <1>2, <1>4, <1>6, <2>1, <2>2 DEF k, a, b, D
<1>7. CASE ~ IsReal(s, p) /\ ~ (p < a)
  <2>0. p >= b
    BY <1>1, <1>2, <1>7
  <2>1. k = D + 4 + (p - b)
    BY <1>1, <1>2, <1>3, <1>7
  <2>2. k \in D + 4 .. D + 7
    BY <1>1, <1>2, <1>4, <2>0, <2>1
  <2> QED
    BY <1>2, <1>4, <1>7, <2>1, <2>2 DEF k, a, b, D
<1> QED
  BY <1>5, <1>6, <1>7

\* Rows whose slots are theirs now.
HasSlot(s, p) == p \in SlottedRows(s) /\ (IsReal(s, p) => s.origin <= p /\ p < s.origin + s.depth)

\* Rows that have slots have different ones.
LEMMA SlotsDiffer ==
  ASSUME NEW s, Shaped(s), NEW p, NEW q, HasSlot(s, p), HasSlot(s, q), SlotOf(s, p) = SlotOf(s, q)
  PROVE  p = q
<1> DEFINE D == s.depth
<1>1. p \in SlottedRows(s) /\ q \in SlottedRows(s)
  BY DEF HasSlot
<1>2. /\ IsReal(s, p) => s.origin <= p /\ p < s.origin + D
      /\ IsReal(s, q) => s.origin <= q /\ q < s.origin + D
  BY DEF HasSlot
<1>3. /\ p \in Int /\ q \in Int /\ s.origin \in Int /\ s.v0 \in Int /\ s.v1 \in Int
      /\ D \in {8, 12}
  <2>1. p \in Int /\ q \in Int
    BY <1>1, SourceRowIs
  <2>2. s.origin \in Nat /\ s.v0 \in Nat /\ s.v1 \in Nat /\ D \in {8, 12}
    BY RangesAre
  <2> QED
    BY <2>1, <2>2
<1>4. CASE IsReal(s, p) /\ IsReal(s, q)
  <2>1. p % D = q % D
    BY <1>1, <1>4, SlotOfRow
  <2> HIDE DEF D
  <2>2. p - q < D /\ q - p < D
    BY <1>2, <1>3, <1>4
  <2>3. p % 8 = q % 8 /\ p - q < 8 /\ q - p < 8 => p = q
    BY <1>3
  <2>4. p % 12 = q % 12 /\ p - q < 12 /\ q - p < 12 => p = q
    BY <1>3
  <2> QED
    BY <1>3, <2>1, <2>2, <2>3, <2>4
<1>5. CASE IsReal(s, p) /\ ~ IsReal(s, q)
  <2>1. SlotOf(s, p) < D
    BY <1>1, <1>5, SlotOfRow
  <2>2. SlotOf(s, q) >= D /\ SlotOf(s, q) \in 0 .. D + 7
    BY <1>1, <1>5, SlotOfRow
  <2> QED
    BY <1>3, <2>1, <2>2
<1>6. CASE ~ IsReal(s, p) /\ IsReal(s, q)
  <2>1. SlotOf(s, q) < D
    BY <1>1, <1>6, SlotOfRow
  <2>2. SlotOf(s, p) >= D /\ SlotOf(s, q) \in 0 .. D + 7
    BY <1>1, <1>6, SlotOfRow
  <2> QED
    BY <1>3, <2>1, <2>2
<1>7. CASE ~ IsReal(s, p) /\ ~ IsReal(s, q)
  <2>1. /\ p < s.v0 => SlotOf(s, p) = D + (s.v0 - 1 - p) /\ SlotOf(s, p) < D + 4
        /\ ~ (p < s.v0) => SlotOf(s, p) = D + 4 + (p - s.v1) /\ SlotOf(s, p) >= D + 4
    BY <1>1, <1>7, SlotOfRow
  <2>2. /\ q < s.v0 => SlotOf(s, q) = D + (s.v0 - 1 - q) /\ SlotOf(s, q) < D + 4
        /\ ~ (q < s.v0) => SlotOf(s, q) = D + 4 + (q - s.v1) /\ SlotOf(s, q) >= D + 4
    BY <1>1, <1>7, SlotOfRow
  <2> QED
    BY <1>3, <2>1, <2>2
<1> QED
  BY <1>4, <1>5, <1>6, <1>7

\* The level of a row is that of its slot, if it has one.
LEMMA LevelOfRow ==
  ASSUME NEW s, Shaped(s), NEW p \in Int
  PROVE  /\ HasSlot(s, p) => Level(s, p) = CellAt(s, p).lvl
         /\ ~ HasSlot(s, p) => Level(s, p) = -1
         /\ Level(s, p) \in Int
<1> DEFINE a == s.v0
           b == s.v1
           m == s.topN
           n == s.botN
<1>1. /\ a \in Nat /\ b \in Nat /\ b >= a + 2 /\ m \in 1 .. 4 /\ n \in 1 .. 4
      /\ s.depth \in {8, 12} /\ s.origin \in Nat
  BY RangesAre
<1>8. \A k \in 0 .. s.depth + 7 : s.cells[k].lvl \in Int
  BY DEF Shaped, Cells, IsCell
<1>2. p \in SlottedRows(s) <=> IsReal(s, p) \/ p \in PseRows(s)
  <2>1. /\ SlottedRows(s) = a - m .. b + n - 1
        /\ PseRows(s) = (a - m .. a - 1) \cup (b .. b + n - 1)
        /\ (IsReal(s, p) <=> a <= p /\ p < b)
    BY DEF SlottedRows, PseRows, IsReal
  <2>2. a \in Int /\ b \in Int /\ m \in Nat /\ n \in Nat /\ a <= b
    BY <1>1
  <2> HIDE DEF a, b, m, n
  <2> QED
    BY <2>1, <2>2
<1>3. Level(s, p) = IF IsReal(s, p)
                    THEN IF p < s.origin \/ p >= s.origin + s.depth THEN -1 ELSE CellAt(s, p).lvl
                    ELSE IF p \in PseRows(s) THEN CellAt(s, p).lvl ELSE -1
  BY DEF Level, CellAt
<1>5. CASE HasSlot(s, p)
  <2>1. p \in SlottedRows(s)
    BY <1>5 DEF HasSlot
  <2>2. SlotOf(s, p) \in 0 .. s.depth + 7
    BY <2>1, SlotOfRow
  <2>3. CellAt(s, p).lvl \in Int
    BY <1>8, <2>2 DEF CellAt
  <2>5. IsReal(s, p) => s.origin <= p /\ p < s.origin + s.depth
    BY <1>5 DEF HasSlot
  <2>4. Level(s, p) = CellAt(s, p).lvl
    BY <1>1, <1>2, <1>3, <2>1, <2>5
  <2> QED
    BY <1>5, <2>3, <2>4
<1>6. CASE ~ HasSlot(s, p)
  <2>1. Level(s, p) = -1
    BY <1>1, <1>2, <1>3, <1>6 DEF HasSlot
  <2> QED
    BY <1>6, <2>1
<1> QED
  BY <1>5, <1>6

----------------------------------------------------------------------------
(* Changing the samples of some rows.                                      *)

\* Two rings that differ in their samples only.
Alike(s, t) == /\ IsRing(s) /\ IsRing(t) /\ DOMAIN t = DOMAIN s
               /\ \A f \in DOMAIN s : f # "cells" => t[f] = s[f]

\* Rows the ring has not given up.
GivenUp(s, p) == IsReal(s, p) /\ p < s.origin
KeptRows(s)    == {p \in SlottedRows(s) : ~ GivenUp(s, p)}

\* The fields rings share that differ in their samples only.
LEMMA AlikeAre ==
  ASSUME NEW s, NEW t, Alike(s, t)
  PROVE  /\ t.v0 = s.v0 /\ t.v1 = s.v1 /\ t.xf = s.xf /\ t.first = s.first /\ t.depth = s.depth
         /\ t.topN = s.topN /\ t.botN = s.botN
         /\ t.origin = s.origin /\ t.nextIn = s.nextIn /\ t.nextOut = s.nextOut
  BY DEF Alike, IsRing, RingFields

\* Their rows are the same, and in the same slots.
LEMMA AlikeRows ==
  ASSUME NEW s, NEW t, Alike(s, t)
  PROVE  /\ SlottedRows(t) = SlottedRows(s) /\ KeptRows(t) = KeptRows(s) /\ PseRows(t) = PseRows(s)
         /\ Lo(t) = Lo(s) /\ Hi(t) = Hi(s) /\ MaxLevel(t.xf) = MaxLevel(s.xf)
         /\ \A p : /\ IsReal(t, p) = IsReal(s, p) /\ SlotOf(t, p) = SlotOf(s, p)
                   /\ SourceRow(t, p) = SourceRow(s, p) /\ HasSlot(t, p) = HasSlot(s, p)
                   /\ GivenUp(t, p) = GivenUp(s, p) /\ PseSource(t, p) = PseSource(s, p)
<1>1. /\ t.v0 = s.v0 /\ t.v1 = s.v1 /\ t.xf = s.xf /\ t.first = s.first /\ t.depth = s.depth
      /\ t.topN = s.topN /\ t.botN = s.botN
      /\ t.origin = s.origin /\ t.nextIn = s.nextIn /\ t.nextOut = s.nextOut
  BY AlikeAre
<1>2. /\ SlottedRows(t) = SlottedRows(s) /\ PseRows(t) = PseRows(s)
      /\ Lo(t) = Lo(s) /\ Hi(t) = Hi(s) /\ MaxLevel(t.xf) = MaxLevel(s.xf)
  BY <1>1, Zenon DEF SlottedRows, PseRows, Lo, Hi, Margin, MaxLevel
<1>3. ASSUME NEW p
      PROVE  /\ IsReal(t, p) = IsReal(s, p) /\ SlotOf(t, p) = SlotOf(s, p)
             /\ SourceRow(t, p) = SourceRow(s, p) /\ HasSlot(t, p) = HasSlot(s, p)
             /\ GivenUp(t, p) = GivenUp(s, p) /\ PseSource(t, p) = PseSource(s, p)
  <2>1. IsReal(t, p) = IsReal(s, p) /\ PseSource(t, p) = PseSource(s, p)
    BY <1>1, Zenon DEF IsReal, PseSource
  <2>2. SlotOf(t, p) = SlotOf(s, p) /\ SourceRow(t, p) = SourceRow(s, p)
    BY <1>1, <2>1, Zenon DEF SlotOf, SourceRow
  <2>3. HasSlot(t, p) = HasSlot(s, p) /\ GivenUp(t, p) = GivenUp(s, p)
    BY <1>1, <1>2, <2>1, Zenon DEF HasSlot, GivenUp
  <2> QED
    BY <2>1, <2>2, <2>3
<1>4. KeptRows(t) = KeptRows(s)
  BY <1>2, <1>3 DEF KeptRows
<1> QED
  BY <1>2, <1>3, <1>4

\* A ring with other samples is a ring.
LEMMA AlikeShaped ==
  ASSUME NEW s, NEW t, Shaped(s), Alike(s, t), Cells(t)
  PROVE  Shaped(t)
<1>1. /\ t.v0 = s.v0 /\ t.v1 = s.v1 /\ t.xf = s.xf /\ t.first = s.first /\ t.depth = s.depth
      /\ t.topN = s.topN /\ t.botN = s.botN
      /\ t.origin = s.origin /\ t.nextIn = s.nextIn /\ t.nextOut = s.nextOut
  BY AlikeAre
<1>2. Ranges(s) /\ Cursors(s) /\ IsRing(t)
  BY DEF Shaped, Alike
<1>3. Ranges(t)
  BY <1>1, <1>2, Zenon DEF Ranges, Outer
<1>4. Cursors(t)
  BY <1>1, <1>2 DEF Cursors
<1> QED
  BY <1>2, <1>3, <1>4 DEF Shaped

\* Samples put into some rows' slots are in these rows and in no other.
LEMMA PutKeepsRows ==
  ASSUME NEW s, Shaped(s), NEW cell, \A r \in DOMAIN cell : HasSlot(s, r) /\ IsCell(cell[r])
  PROVE  LET t == Put(s, cell) IN
         /\ Shaped(t) /\ Alike(s, t)
         /\ \A p : HasSlot(s, p) => CellAt(t, p) = IF p \in DOMAIN cell THEN cell[p] ELSE CellAt(s, p)
         /\ \A p \in Int : Level(t, p) = IF p \in DOMAIN cell THEN cell[p].lvl ELSE Level(s, p)
<1> DEFINE t == Put(s, cell)
           New(k) == IF \E r \in DOMAIN cell : SlotOf(s, r) = k
                     THEN cell[CHOOSE r \in DOMAIN cell : SlotOf(s, r) = k] ELSE s.cells[k]
           K == 0 .. s.depth + 7
<1>1. IsRing(s) /\ Cells(s)
  BY DEF Shaped
<1>2. DOMAIN s.cells = K
  BY <1>1 DEF Cells
<1>3. /\ IsRing(t) /\ Alike(s, t)
      /\ t.cells = [k \in K |-> New(k)]
  <2>1. t = [s EXCEPT !.cells = [k \in K |-> New(k)]]
    BY <1>1, <1>2 DEF Put, IsRing, RingFields
  <2> HIDE DEF t, New, K
  <2> DEFINE C == [k \in K |-> New(k)]
  <2> HIDE DEF C
  <2>2. t = [s EXCEPT !.cells = C]
    BY <2>1 DEF C
  <2>3. IsRing(t) /\ Alike(s, t) /\ t.cells = C
    BY <1>1, <2>2 DEF IsRing, RingFields, Alike
  <2> QED
    BY <2>3 DEF C
<1>4. ASSUME NEW p, HasSlot(s, p)
      PROVE  New(SlotOf(s, p)) = IF p \in DOMAIN cell THEN cell[p] ELSE CellAt(s, p)
  <2>1. ASSUME NEW r \in DOMAIN cell, SlotOf(s, r) = SlotOf(s, p) PROVE r = p
    <3>1. HasSlot(s, r)
      OBVIOUS
    <3> QED
      BY <1>4, <2>1, <3>1, SlotsDiffer
  <2>2. CASE p \in DOMAIN cell
    <3>1. \E r \in DOMAIN cell : SlotOf(s, r) = SlotOf(s, p)
      BY <2>2
    <3>2. (CHOOSE r \in DOMAIN cell : SlotOf(s, r) = SlotOf(s, p)) = p
      BY <2>1, <3>1
    <3> QED
      BY <2>2, <3>1, <3>2
  <2>3. CASE p \notin DOMAIN cell
    <3>1. ~ \E r \in DOMAIN cell : SlotOf(s, r) = SlotOf(s, p)
      BY <2>1, <2>3
    <3> QED
      BY <2>3, <3>1 DEF CellAt
  <2> QED
    BY <2>2, <2>3
<1>5. ASSUME NEW k \in K PROVE IsCell(New(k))
  <2>1. IsCell(s.cells[k])
    BY <1>1 DEF Cells
  <2>2. CASE \E r \in DOMAIN cell : SlotOf(s, r) = k
    <3>1. (CHOOSE r \in DOMAIN cell : SlotOf(s, r) = k) \in DOMAIN cell
      BY <2>2
    <3> HIDE DEF K
    <3> QED
      BY <2>2, <3>1
  <2>3. CASE ~ \E r \in DOMAIN cell : SlotOf(s, r) = k
    <3>1. New(k) = s.cells[k]
      BY <2>3
    <3> QED
      BY <2>1, <3>1
  <2> QED
    BY <2>2, <2>3
<1> HIDE DEF t
<1>6. t.depth = s.depth
  BY <1>3, AlikeAre
<1>7. Cells(t)
  <2>1. t.cells = [k \in K |-> t.cells[k]]
    BY <1>3
  <2>2. \A k \in K : t.cells[k] = New(k)
    BY <1>3
  <2> HIDE DEF New
  <2>3. \A k \in K : IsCell(t.cells[k])
    BY <1>5, <2>2
  <2> QED
    BY <1>6, <2>1, <2>3 DEF Cells
<1>8. Shaped(t)
  BY <1>3, <1>7, AlikeShaped
<1>9. ASSUME NEW p, HasSlot(s, p)
      PROVE  CellAt(t, p) = IF p \in DOMAIN cell THEN cell[p] ELSE CellAt(s, p)
  <2>1. p \in SlottedRows(s)
    BY <1>9 DEF HasSlot
  <2>2. SlotOf(s, p) \in K
    BY <2>1, SlotOfRow
  <2>3. SlotOf(t, p) = SlotOf(s, p)
    BY <1>3, AlikeRows
  <2>4. New(SlotOf(s, p)) = IF p \in DOMAIN cell THEN cell[p] ELSE CellAt(s, p)
    BY <1>4, <1>9
  <2> HIDE DEF New, K
  <2>5. CellAt(t, p) = New(SlotOf(s, p))
    BY <1>3, <2>2, <2>3 DEF CellAt
  <2> QED
    BY <2>4, <2>5
<1>10. ASSUME NEW p \in Int
       PROVE  Level(t, p) = IF p \in DOMAIN cell THEN cell[p].lvl ELSE Level(s, p)
  <2>1. HasSlot(t, p) = HasSlot(s, p)
    BY <1>3, AlikeRows
  <2>2. CASE HasSlot(s, p)
    <3>1. Level(t, p) = CellAt(t, p).lvl
      BY <1>8, <2>1, <2>2, LevelOfRow
    <3>2. Level(s, p) = CellAt(s, p).lvl
      BY <2>2, LevelOfRow
    <3> QED
      BY <1>9, <2>2, <3>1, <3>2
  <2>3. CASE ~ HasSlot(s, p)
    <3>1. Level(t, p) = -1
      BY <1>8, <2>1, <2>3, LevelOfRow
    <3>2. Level(s, p) = -1
      BY <2>3, LevelOfRow
    <3>3. p \notin DOMAIN cell
      BY <2>3
    <3> QED
      BY <3>1, <3>2, <3>3
  <2> QED
    BY <2>2, <2>3
<1> QED
  BY <1>3, <1>8, <1>9, <1>10 DEF t

----------------------------------------------------------------------------
(* What is true of a ring through a picture, and lifting its rows.         *)

\* A row has entered the ring when the row it shows has, and then its samples are
\* that row's, of the picture the tag names, at the level its slot claims.
Arrived(s) ==
  \A p \in KeptRows(s) : /\ Level(s, p) \in -1 .. MaxLevel(s.xf)
                         /\ Level(s, p) >= 0 <=> SourceRow(s, p) < s.nextIn
Faithful(s, tag) ==
  \A p \in KeptRows(s) : Level(s, p) >= 0 => CellAt(s, p).val = Row(tag, SourceRow(s, p), Level(s, p))

\* A row of the parity lifted first is level with its neighbours or one above them.
Staggered(s) ==
  \A p, q \in KeptRows(s) : p % 2 = s.first /\ q \in {p - 1, p + 1} =>
    /\ Level(s, p) <= Level(s, q) + 1
    /\ Level(s, q) <= Level(s, p) \/ Level(s, q) <= 0

InRing(s, tag) ==
  /\ Shaped(s)
  /\ s.v0 <= s.origin /\ s.origin <= s.nextIn /\ s.nextIn <= s.v1
  /\ s.nextIn <= s.origin + s.depth
  /\ Arrived(s) /\ Faithful(s, tag) /\ Staggered(s)

\* A row at a level has a slot, and the level is its slot's.
LEMMA LevelHeld ==
  ASSUME NEW s, Shaped(s), NEW p \in Int, Level(s, p) >= 0
  PROVE  HasSlot(s, p) /\ p \in KeptRows(s) /\ p \in SlottedRows(s) /\ Level(s, p) = CellAt(s, p).lvl
<1>1. HasSlot(s, p)
  <2>1. ~ HasSlot(s, p) => Level(s, p) = -1
    BY LevelOfRow
  <2> QED
    BY <2>1
<1>2. p \in SlottedRows(s) /\ (IsReal(s, p) => s.origin <= p)
  BY <1>1 DEF HasSlot
<1>3. ~ GivenUp(s, p)
  <2>1. s.origin \in Int
    BY RangesAre
  <2> QED
    BY <1>2, <2>1 DEF GivenUp
<1>4. Level(s, p) = CellAt(s, p).lvl
  BY <1>1, LevelOfRow
<1> QED
  BY <1>1, <1>2, <1>3, <1>4 DEF KeptRows

\* The rows kept are numbers, and so are their levels.
LEMMA HeldInt ==
  ASSUME NEW s, Shaped(s), NEW p \in KeptRows(s)
  PROVE  p \in Int /\ p \in SlottedRows(s) /\ Level(s, p) \in Int
<1>1. p \in SlottedRows(s)
  BY DEF KeptRows
<1>2. p \in Int
  BY <1>1, SourceRowIs
<1> QED
  BY <1>1, <1>2, LevelOfRow

\* A row that can be lifted finds its neighbours at exactly the level the step asks
\* for, however far the others are.
LEMMA NeighboursExact ==
  ASSUME NEW s, Shaped(s), Arrived(s), Staggered(s), NEW r \in Int, NEW cur \in Nat,
         Able(s, r, cur, NeighbourLevel(s, r, cur))
  PROVE  /\ Level(s, r) = cur
         /\ Level(s, r - 1) = NeighbourLevel(s, r, cur)
         /\ Level(s, r + 1) = NeighbourLevel(s, r, cur)
<1> DEFINE need == NeighbourLevel(s, r, cur)
<1>1. need \in Nat /\ need = IF r % 2 = s.first THEN cur ELSE cur + 1
  BY DEF NeighbourLevel
<1>2. Level(s, r) = cur /\ Level(s, r - 1) >= need /\ Level(s, r + 1) >= need
  BY DEF Able
<1>3. r - 1 \in Int /\ r + 1 \in Int
  OBVIOUS
<1> HIDE DEF need
<1>4. Level(s, r) \in Int /\ Level(s, r - 1) \in Int /\ Level(s, r + 1) \in Int
  BY <1>3, LevelOfRow
<1>5. Level(s, r) >= 0 /\ Level(s, r - 1) >= 0 /\ Level(s, r + 1) >= 0
  BY <1>1, <1>2, <1>4
<1>6. r \in KeptRows(s) /\ r - 1 \in KeptRows(s) /\ r + 1 \in KeptRows(s)
  BY <1>3, <1>5, LevelHeld
<1>7. s.first \in {0, 1}
  BY RangesAre
<1>8. CASE r % 2 = s.first
  <2>1. /\ Level(s, r - 1) <= Level(s, r) \/ Level(s, r - 1) <= 0
        /\ Level(s, r + 1) <= Level(s, r) \/ Level(s, r + 1) <= 0
    BY <1>6, <1>8 DEF Staggered
  <2> QED
    BY <1>1, <1>2, <1>4, <1>8, <2>1 DEF need
<1>9. CASE r % 2 # s.first
  <2>1. (r - 1) % 2 = s.first /\ (r + 1) % 2 = s.first
    BY <1>7, <1>9
  <2>2. r \in {(r - 1) - 1, (r - 1) + 1} /\ r \in {(r + 1) - 1, (r + 1) + 1}
    OBVIOUS
  <2>3. Level(s, r - 1) <= Level(s, r) + 1 /\ Level(s, r + 1) <= Level(s, r) + 1
    BY <1>6, <2>1, <2>2 DEF Staggered
  <2> QED
    BY <1>1, <1>2, <1>4, <1>9, <2>3 DEF need
<1> QED
  BY <1>8, <1>9

\* The step then leaves the row's next level.
LEMMA LiftedRow ==
  ASSUME NEW s, NEW tag, Shaped(s), Arrived(s), Staggered(s), Faithful(s, tag),
         NEW r \in Int, NEW cur \in Nat, Able(s, r, cur, NeighbourLevel(s, r, cur))
  PROVE  /\ HasSlot(s, r) /\ r \in KeptRows(s)
         /\ Lifted(s, r, cur) = [lvl |-> cur + 1, val |-> Row(tag, SourceRow(s, r), cur + 1)]
<1> DEFINE need == NeighbourLevel(s, r, cur)
           l == SourceRow(s, r - 1)
           m == SourceRow(s, r)
           n == SourceRow(s, r + 1)
<1>1. need \in Nat
  BY DEF NeighbourLevel
<1>2. Level(s, r) = cur /\ Level(s, r - 1) = need /\ Level(s, r + 1) = need
  BY NeighboursExact
<1>3. r - 1 \in Int /\ r + 1 \in Int
  OBVIOUS
<1> HIDE DEF need
<1>4. Level(s, r) >= 0 /\ Level(s, r - 1) >= 0 /\ Level(s, r + 1) >= 0
  BY <1>1, <1>2
<1>5. /\ r \in KeptRows(s) /\ r - 1 \in KeptRows(s) /\ r + 1 \in KeptRows(s) /\ HasSlot(s, r)
      /\ r \in SlottedRows(s) /\ r - 1 \in SlottedRows(s) /\ r + 1 \in SlottedRows(s)
  BY <1>3, <1>4, LevelHeld
<1>6. /\ CellAt(s, r).val = Row(tag, m, cur)
      /\ CellAt(s, r - 1).val = Row(tag, l, need)
      /\ CellAt(s, r + 1).val = Row(tag, n, need)
  <2> HIDE DEF l, m, n
  <2>1. CellAt(s, r).val = Row(tag, SourceRow(s, r), cur)
    BY <1>2, <1>4, <1>5 DEF Faithful
  <2>2. CellAt(s, r - 1).val = Row(tag, SourceRow(s, r - 1), need)
    BY <1>2, <1>4, <1>5 DEF Faithful
  <2>3. CellAt(s, r + 1).val = Row(tag, SourceRow(s, r + 1), need)
    BY <1>2, <1>4, <1>5 DEF Faithful
  <2> QED
    BY <2>1, <2>2, <2>3 DEF l, m, n
<1>7. {l, n} = {Beside(s, m, d) : d \in {-1, 1}}
  BY <1>5, BesideIs
<1> HIDE DEF l, m, n
<1> DEFINE tgt == s.cells[SlotOf(s, r)].val
           near == {s.cells[SlotOf(s, x)].val : x \in {r - 1, r + 1}}
           want == {Row(tgt[1], Beside(s, tgt[2], d), need) : d \in {-1, 1}}
<1>8. near = {Row(tag, l, need), Row(tag, n, need)}
  BY <1>6 DEF CellAt
<1>9. tgt = Row(tag, m, cur)
  BY <1>6 DEF CellAt
<1>10. tgt[1] = tag /\ tgt[2] = m /\ tgt[3] = cur /\ tgt # Junk
  BY <1>9 DEF Row, Junk
<1>11. near = want
  <2>1. near = {Row(tag, x, need) : x \in {l, n}}
    BY <1>8
  <2>2. want = {Row(tag, x, need) : x \in {Beside(s, m, d) : d \in {-1, 1}}}
    BY <1>10
  <2> HIDE DEF near, want
  <2> QED
    BY <1>7, <2>1, <2>2
<1>12. Lifted(s, r, cur) = [lvl |-> cur + 1,
          val |-> IF tgt # Junk /\ tgt[3] = cur /\ near = want
                  THEN Row(tgt[1], tgt[2], cur + 1) ELSE Junk]
  BY DEF Lifted, need
<1> HIDE DEF tgt, near, want
<1>13. Lifted(s, r, cur) = [lvl |-> cur + 1, val |-> Row(tag, m, cur + 1)]
  BY <1>10, <1>11, <1>12
<1> QED
  BY <1>5, <1>13 DEF m

\* Rows of one parity that can be lifted are, and the ring stays what it is.
LEMMA LiftKeeps ==
  ASSUME NEW s, NEW tag, InRing(s, tag), NEW par \in {0, 1},
         NEW cur \in 0 .. MaxLevel(s.xf) - 1, NEW R \in SUBSET Int,
         \A r \in R : r % 2 = par /\ Able(s, r, cur, NeighbourLevel(s, r, cur))
  PROVE  LET t == Put(s, [r \in R |-> Lifted(s, r, cur)]) IN
         /\ InRing(t, tag) /\ Alike(s, t)
         /\ \A p \in Int : Level(t, p) = IF p \in R THEN cur + 1 ELSE Level(s, p)
<1> DEFINE cell == [r \in R |-> Lifted(s, r, cur)]
           t == Put(s, cell)
           M == MaxLevel(s.xf)
<1>1. /\ Shaped(s) /\ Arrived(s) /\ Faithful(s, tag) /\ Staggered(s)
      /\ s.v0 <= s.origin /\ s.origin <= s.nextIn /\ s.nextIn <= s.v1
      /\ s.nextIn <= s.origin + s.depth
  BY DEF InRing
<1>2. M \in {1, 2} /\ cur \in Nat /\ cur + 1 \in 0 .. M
  BY DEF MaxLevel
<1>3. ASSUME NEW r \in R
      PROVE  /\ r \in Int /\ r % 2 = par /\ HasSlot(s, r) /\ r \in KeptRows(s)
             /\ cell[r] = [lvl |-> cur + 1, val |-> Row(tag, SourceRow(s, r), cur + 1)]
             /\ Level(s, r) = cur
             /\ Level(s, r - 1) = NeighbourLevel(s, r, cur)
             /\ Level(s, r + 1) = NeighbourLevel(s, r, cur)
  <2>1. r \in Int /\ r % 2 = par /\ Able(s, r, cur, NeighbourLevel(s, r, cur)) /\ cell[r] = Lifted(s, r, cur)
    BY <1>3
  <2> HIDE DEF cell
  <2>2. /\ HasSlot(s, r) /\ r \in KeptRows(s)
        /\ Lifted(s, r, cur) = [lvl |-> cur + 1, val |-> Row(tag, SourceRow(s, r), cur + 1)]
    BY <1>1, <1>2, <2>1, LiftedRow
  <2>3. /\ Level(s, r) = cur
        /\ Level(s, r - 1) = NeighbourLevel(s, r, cur)
        /\ Level(s, r + 1) = NeighbourLevel(s, r, cur)
    BY <1>1, <1>2, <2>1, NeighboursExact
  <2> QED
    BY <2>1, <2>2, <2>3
<1>4. DOMAIN cell = R
  OBVIOUS
<1> HIDE DEF cell
<1>31. ASSUME NEW r \in R PROVE IsCell(cell[r]) /\ cell[r].lvl = cur + 1
  <2>1. cell[r] = [lvl |-> cur + 1, val |-> Row(tag, SourceRow(s, r), cur + 1)]
    BY <1>3
  <2>2. cell[r].lvl = cur + 1 /\ cell[r].val = Row(tag, SourceRow(s, r), cur + 1)
    BY <2>1
  <2> QED
    BY <1>2, <2>1, <2>2 DEF IsCell
<1>5. \A r \in DOMAIN cell : HasSlot(s, r) /\ IsCell(cell[r])
  <2>1. \A r \in R : HasSlot(s, r)
    BY <1>3
  <2> QED
    BY <1>4, <1>31, <2>1
<1>6. /\ Shaped(t) /\ Alike(s, t)
      /\ \A p : HasSlot(s, p) => CellAt(t, p) = IF p \in R THEN cell[p] ELSE CellAt(s, p)
      /\ \A p \in Int : Level(t, p) = IF p \in R THEN cell[p].lvl ELSE Level(s, p)
  BY <1>1, <1>4, <1>5, PutKeepsRows
<1> HIDE DEF t, M
<1>7. \A p \in Int : Level(t, p) = IF p \in R THEN cur + 1 ELSE Level(s, p)
  BY <1>6, <1>31
<1>8. /\ KeptRows(t) = KeptRows(s) /\ MaxLevel(t.xf) = M
      /\ \A p : SourceRow(t, p) = SourceRow(s, p) /\ HasSlot(t, p) = HasSlot(s, p)
  BY <1>6, AlikeRows DEF M
<1>9. /\ t.v0 = s.v0 /\ t.v1 = s.v1 /\ t.first = s.first /\ t.depth = s.depth
      /\ t.origin = s.origin /\ t.nextIn = s.nextIn
  BY <1>6, AlikeAre
<1>10. \A p \in KeptRows(s) : p \in Int /\ Level(s, p) \in Int
  BY <1>1, HeldInt
<1>11. Arrived(t)
  <2> SUFFICES ASSUME NEW p \in KeptRows(s)
               PROVE  Level(t, p) \in -1 .. M /\ (Level(t, p) >= 0 <=> SourceRow(s, p) < s.nextIn)
    BY <1>8, <1>9 DEF Arrived
  <2>1. Level(s, p) \in -1 .. M /\ (Level(s, p) >= 0 <=> SourceRow(s, p) < s.nextIn)
    BY <1>1 DEF Arrived, M
  <2>2. CASE p \in R
    <3>1. Level(s, p) = cur /\ p \in Int
      BY <1>3, <2>2
    <3>2. Level(t, p) = cur + 1
      BY <1>7, <2>2, <3>1
    <3> QED
      BY <1>2, <2>1, <3>1, <3>2
  <2>3. CASE p \notin R
    BY <1>7, <1>10, <2>1, <2>3
  <2> QED
    BY <2>2, <2>3
<1>12. Faithful(t, tag)
  <2> SUFFICES ASSUME NEW p \in KeptRows(s), Level(t, p) >= 0
               PROVE  CellAt(t, p).val = Row(tag, SourceRow(s, p), Level(t, p))
    BY <1>8 DEF Faithful
  <2>1. p \in Int
    BY <1>10
  <2>2. HasSlot(s, p)
    BY <1>6, <1>8, <2>1, LevelHeld
  <2>3. CASE p \in R
    <3>1. CellAt(t, p) = [lvl |-> cur + 1, val |-> Row(tag, SourceRow(s, p), cur + 1)]
      BY <1>3, <1>6, <2>2, <2>3
    <3> QED
      BY <1>7, <2>1, <2>3, <3>1
  <2>4. CASE p \notin R
    <3>1. CellAt(t, p) = CellAt(s, p) /\ Level(t, p) = Level(s, p)
      BY <1>6, <1>7, <2>1, <2>2, <2>4
    <3> QED
      BY <1>1, <3>1 DEF Faithful
  <2> QED
    BY <2>3, <2>4
<1>13. Staggered(t)
  <2> SUFFICES ASSUME NEW p \in KeptRows(s), NEW q \in KeptRows(s), p % 2 = s.first, q \in {p - 1, p + 1}
               PROVE  /\ Level(t, p) <= Level(t, q) + 1
                      /\ Level(t, q) <= Level(t, p) \/ Level(t, q) <= 0
    BY <1>8, <1>9 DEF Staggered
  <2>1. p \in Int /\ q \in Int /\ Level(s, p) \in Int /\ Level(s, q) \in Int
    BY <1>10
  <2>2. /\ Level(s, p) <= Level(s, q) + 1
        /\ Level(s, q) <= Level(s, p) \/ Level(s, q) <= 0
    BY <1>1 DEF Staggered
  <2>3. q % 2 # s.first /\ (p = q - 1 \/ p = q + 1)
    <3>1. s.first \in {0, 1}
      BY <1>1, RangesAre
    <3> QED
      BY <2>1, <3>1
  <2>4. CASE p \in R
    <3>1. q \notin R
      BY <1>3, <2>3, <2>4
    <3>2. Level(s, q) = cur
      BY <1>3, <2>4 DEF NeighbourLevel
    <3>3. Level(t, p) = cur + 1 /\ Level(t, q) = cur
      BY <1>7, <2>1, <2>4, <3>1, <3>2
    <3> QED
      BY <1>2, <3>3
  <2>5. CASE q \in R
    <3>1. p \notin R
      BY <1>3, <2>3, <2>5
    <3>2. Level(s, p) = cur + 1
      BY <1>3, <2>3, <2>5 DEF NeighbourLevel
    <3>3. Level(t, q) = cur + 1 /\ Level(t, p) = cur + 1
      BY <1>7, <2>1, <2>5, <3>1, <3>2
    <3> QED
      BY <1>2, <3>3
  <2>6. CASE p \notin R /\ q \notin R
    BY <1>7, <2>1, <2>2, <2>6
  <2> QED
    BY <2>4, <2>5, <2>6
<1>14. InRing(t, tag)
  BY <1>1, <1>6, <1>9, <1>11, <1>12, <1>13 DEF InRing
<1> QED
  BY <1>6, <1>7, <1>14 DEF t, cell

----------------------------------------------------------------------------
(* The phases of a cascade.                                                *)

\* The level a step of one parity asks its neighbours for.
NeedOf(s, par, cur) == IF par = s.first THEN cur ELSE cur + 1

\* No row of one parity in the window can take the step from level cur.
StepDone(s, par, cur) ==
  \A p \in Lo(s) .. Hi(s) - 1 : p % 2 = par => ~ Able(s, p, cur, NeedOf(s, par, cur))

\* The order the phases of a cascade come in.
RankOf(s, par, cur) == 2 * cur + (IF par = s.first THEN 0 ELSE 1)

\* The window of a cascade is an interval of numbers.
LEMMA WindowInt ==
  ASSUME NEW s, Shaped(s)
  PROVE  Lo(s) \in Int /\ Hi(s) \in Int
<1>1. /\ s.v0 \in Nat /\ s.v1 \in Nat /\ s.origin \in Nat /\ s.nextIn \in Nat
      /\ s.topN \in 1 .. 4 /\ s.botN \in 1 .. 4
  BY RangesAre
<1>2. Margin(s) \in Nat
  BY <1>1 DEF Margin, MaxLevel
<1> QED
  BY <1>1, <1>2 DEF Lo, Hi

\* A phase lifts the rows it can and leaves the others.
LEMMA PhaseKeeps ==
  ASSUME NEW s, NEW tag, InRing(s, tag), NEW par \in {0, 1},
         NEW cur \in 0 .. MaxLevel(s.xf) - 1
  PROVE  LET t == Phase(s, par, cur, NeedOf(s, par, cur)) IN
         /\ InRing(t, tag) /\ Alike(s, t)
         /\ \A p \in Int :
              Level(t, p) = IF /\ p \in Lo(s) .. Hi(s) - 1 /\ p % 2 = par
                               /\ Able(s, p, cur, NeedOf(s, par, cur))
                            THEN cur + 1 ELSE Level(s, p)
<1> DEFINE need == NeedOf(s, par, cur)
           R == {q \in Lo(s) .. Hi(s) - 1 : q % 2 = par /\ Able(s, q, cur, need)}
           t == Phase(s, par, cur, need)
<1>1. Lo(s) \in Int /\ Hi(s) \in Int
  BY WindowInt DEF InRing
<1>2. R \in SUBSET Int
  BY <1>1
<1>3. \A r \in R : r % 2 = par /\ Able(s, r, cur, NeighbourLevel(s, r, cur))
  BY DEF NeighbourLevel, NeedOf
<1>4. t = Put(s, [r \in R |-> Lifted(s, r, cur)])
  BY Zenon DEF Phase
<1> HIDE DEF t
<1>5. /\ InRing(t, tag) /\ Alike(s, t)
      /\ \A p \in Int : Level(t, p) = IF p \in R THEN cur + 1 ELSE Level(s, p)
  <2> HIDE DEF R
  <2> QED
    BY <1>2, <1>3, <1>4, LiftKeeps
<1>6. ASSUME NEW p \in Int
      PROVE  Level(t, p) = IF /\ p \in Lo(s) .. Hi(s) - 1 /\ p % 2 = par
                              /\ Able(s, p, cur, need)
                           THEN cur + 1 ELSE Level(s, p)
  <2> HIDE DEF need
  <2> QED
    BY <1>5
<1> QED
  BY <1>5, <1>6 DEF t

\* What a phase could lift it has, and it gives nothing to do to the ones before it.
LEMMA PhaseRests ==
  ASSUME NEW s, NEW tag, InRing(s, tag), NEW par \in {0, 1},
         NEW cur \in 0 .. MaxLevel(s.xf) - 1
  PROVE  LET t == Phase(s, par, cur, NeedOf(s, par, cur)) IN
         /\ StepDone(t, par, cur)
         /\ \A x \in {0, 1} : \A c \in Nat :
              RankOf(s, x, c) < RankOf(s, par, cur) /\ StepDone(s, x, c) => StepDone(t, x, c)
         /\ \A p \in Int : Level(t, p) >= Level(s, p)
<1> DEFINE t == Phase(s, par, cur, NeedOf(s, par, cur))
           Up(p) == /\ p \in Lo(s) .. Hi(s) - 1 /\ p % 2 = par
                    /\ Able(s, p, cur, NeedOf(s, par, cur))
<1>1. /\ InRing(t, tag) /\ Alike(s, t)
      /\ \A p \in Int : Level(t, p) = IF Up(p) THEN cur + 1 ELSE Level(s, p)
  BY PhaseKeeps
<1> HIDE DEF t
<1>2. Shaped(s) /\ Lo(s) \in Int /\ Hi(s) \in Int
  BY WindowInt DEF InRing
<1>3. Lo(t) = Lo(s) /\ Hi(t) = Hi(s) /\ t.first = s.first /\ s.first \in {0, 1}
  BY <1>1, <1>2, AlikeRows, AlikeAre, RangesAre
<1>4. cur \in Nat
  OBVIOUS
<1>5. \A p : Up(p) => Level(s, p) = cur /\ p % 2 = par
  BY DEF Able
<1>6. \A p \in Int : Level(s, p) \in Int
  BY <1>2, LevelOfRow
<1>7. \A p \in Int : Level(t, p) >= Level(s, p)
  <2> SUFFICES ASSUME NEW p \in Int PROVE Level(t, p) >= Level(s, p)
    OBVIOUS
  <2>1. CASE Up(p)
    <3> HIDE DEF Up
    <3> QED
      BY <1>1, <1>4, <1>5, <2>1
  <2>2. CASE ~ Up(p)
    <3> HIDE DEF Up
    <3> QED
      BY <1>1, <1>6, <2>2
  <2> QED
    BY <2>1, <2>2
<1>8. StepDone(t, par, cur)
  <2> SUFFICES ASSUME NEW p \in Lo(s) .. Hi(s) - 1, p % 2 = par,
                      Able(t, p, cur, NeedOf(s, par, cur))
               PROVE  FALSE
    BY <1>3 DEF StepDone, NeedOf
  <2> DEFINE need == NeedOf(s, par, cur)
  <2>1. p \in Int /\ p - 1 \in Int /\ p + 1 \in Int /\ need \in Nat
    BY <1>2, <1>4 DEF NeedOf
  <2>2. Level(t, p) = cur /\ Level(t, p - 1) >= need /\ Level(t, p + 1) >= need
    BY DEF Able
  <2>3. (p - 1) % 2 # par /\ (p + 1) % 2 # par
    BY <2>1
  <2>4. ~ Up(p - 1) /\ ~ Up(p + 1)
    BY <1>5, <2>3
  <2>5. ~ Up(p)
    <3> HIDE DEF Up
    <3> QED
      BY <1>1, <1>4, <2>1, <2>2
  <2>6. Level(s, p) = cur /\ Level(s, p - 1) >= need /\ Level(s, p + 1) >= need
    <3> HIDE DEF Up, need
    <3> QED
      BY <1>1, <2>1, <2>2, <2>4, <2>5
  <2>7. Up(p)
    BY <2>6 DEF Able
  <2> QED
    BY <2>5, <2>7
<1>9. ASSUME NEW x \in {0, 1}, NEW c \in Nat, RankOf(s, x, c) < RankOf(s, par, cur),
             StepDone(s, x, c)
      PROVE  StepDone(t, x, c)
  <2> SUFFICES ASSUME NEW p \in Lo(s) .. Hi(s) - 1, p % 2 = x, Able(t, p, c, NeedOf(s, x, c))
               PROVE  FALSE
    BY <1>3 DEF StepDone, NeedOf
  <2> DEFINE need == NeedOf(s, x, c)
  <2>1. p \in Int /\ p - 1 \in Int /\ p + 1 \in Int /\ need \in Nat
    BY <1>2, <1>4 DEF NeedOf
  <2>2. Level(t, p) = c /\ Level(t, p - 1) >= need /\ Level(t, p + 1) >= need
    BY DEF Able
  <2>3. 2 * c + (IF x = s.first THEN 0 ELSE 1) < 2 * cur + (IF par = s.first THEN 0 ELSE 1)
    BY <1>9 DEF RankOf
  <2>4. c < cur + 1
    BY <1>4, <2>3
  <2>5. ~ Up(p)
    <3> HIDE DEF Up
    <3> QED
      BY <1>1, <1>4, <2>1, <2>2, <2>4
  <2>6. ASSUME NEW q \in Int, q \in {p - 1, p + 1}, Level(t, q) >= need PROVE Level(s, q) >= need
    <3>1. CASE Up(q)
      <4>1. Level(s, q) = cur /\ q % 2 = par
        BY <1>5, <3>1
      <4>2. x # par
        BY <2>1, <2>6, <4>1
      <4>3. need <= cur
        BY <1>3, <1>4, <2>3, <4>2 DEF NeedOf
      <4> HIDE DEF Up, need
      <4> QED
        BY <4>1, <4>3, <2>1, <1>4
    <3>2. CASE ~ Up(q)
      <4> HIDE DEF Up, need
      <4> QED
        BY <1>1, <2>6, <3>2
    <3> QED
      BY <3>1, <3>2
  <2>7. Level(s, p) = c
    <3> HIDE DEF Up
    <3> QED
      BY <1>1, <2>1, <2>2, <2>5
  <2>8. Level(s, p - 1) >= need /\ Level(s, p + 1) >= need
    <3> HIDE DEF need, Up
    <3>1. PICK u : u = p - 1
      OBVIOUS
    <3>2. PICK v : v = p + 1
      OBVIOUS
    <3> QED
      BY <2>1, <2>2, <2>6, <3>1, <3>2
  <2>9. Able(s, p, c, need)
    BY <2>7, <2>8 DEF Able
  <2> QED
    BY <1>9, <2>9 DEF StepDone
<1> QED
  BY <1>7, <1>8, <1>9 DEF t

\* No row of the ring can be lifted.
AtRest(s) ==
  \A p \in Lo(s) .. Hi(s) - 1 : \A cur \in 0 .. MaxLevel(s.xf) - 1 :
    ~ Able(s, p, cur, NeighbourLevel(s, p, cur))

\* When no phase has a row left to lift, the ring is at rest.
LEMMA AllDoneRests ==
  ASSUME NEW s, Shaped(s),
         \A par \in {0, 1} : \A cur \in 0 .. MaxLevel(s.xf) - 1 : StepDone(s, par, cur)
  PROVE  AtRest(s)
<1> SUFFICES ASSUME NEW p \in Lo(s) .. Hi(s) - 1, NEW cur \in 0 .. MaxLevel(s.xf) - 1
             PROVE  ~ Able(s, p, cur, NeighbourLevel(s, p, cur))
  BY DEF AtRest
<1>1. p % 2 \in {0, 1}
  BY WindowInt
<1>2. StepDone(s, p % 2, cur)
  BY <1>1
<1>3. NeighbourLevel(s, p, cur) = NeedOf(s, p % 2, cur)
  BY DEF NeighbourLevel, NeedOf
<1> QED
  BY <1>2, <1>3 DEF StepDone

----------------------------------------------------------------------------
(* A row of the source enters.                                             *)

\* Two rings that differ in the cursors of what enters and leaves only.
Moved(s, t) ==
  /\ IsRing(s) /\ IsRing(t) /\ DOMAIN t = DOMAIN s
  /\ \A f \in DOMAIN s : f \notin {"nextIn", "nextOut"} => t[f] = s[f]
  /\ t.nextIn \in Nat /\ t.nextOut \in Nat

\* Moving the cursors leaves every row where it is.
LEMMA MovedAre ==
  ASSUME NEW s, NEW t, Shaped(s), Moved(s, t)
  PROVE  /\ Shaped(t)
         /\ t.v0 = s.v0 /\ t.v1 = s.v1 /\ t.xf = s.xf /\ t.first = s.first /\ t.depth = s.depth
         /\ t.topN = s.topN /\ t.botN = s.botN /\ t.origin = s.origin
         /\ SlottedRows(t) = SlottedRows(s) /\ KeptRows(t) = KeptRows(s) /\ PseRows(t) = PseRows(s)
         /\ \A p : /\ IsReal(t, p) = IsReal(s, p) /\ SlotOf(t, p) = SlotOf(s, p)
                   /\ SourceRow(t, p) = SourceRow(s, p) /\ HasSlot(t, p) = HasSlot(s, p)
                   /\ CellAt(t, p) = CellAt(s, p) /\ Level(t, p) = Level(s, p)
                   /\ PseSource(t, p) = PseSource(s, p)
<1>1. /\ t.v0 = s.v0 /\ t.v1 = s.v1 /\ t.xf = s.xf /\ t.first = s.first /\ t.depth = s.depth
      /\ t.topN = s.topN /\ t.botN = s.botN
      /\ t.origin = s.origin /\ t.cells = s.cells
  BY DEF Moved, IsRing, RingFields
<1>2. Ranges(s) /\ Cursors(s) /\ Cells(s) /\ IsRing(t)
  BY DEF Shaped, Moved
<1>3. Ranges(t)
  BY <1>1, <1>2, Zenon DEF Ranges, Outer
<1>4. Cursors(t)
  BY <1>1, <1>2 DEF Cursors, Moved
<1>5. Cells(t)
  BY <1>1, <1>2, Zenon DEF Cells
<1>6. Shaped(t)
  BY <1>2, <1>3, <1>4, <1>5 DEF Shaped
<1>7. SlottedRows(t) = SlottedRows(s) /\ PseRows(t) = PseRows(s)
  BY <1>1, Zenon DEF SlottedRows, PseRows
<1>8. ASSUME NEW p
      PROVE  /\ IsReal(t, p) = IsReal(s, p) /\ SlotOf(t, p) = SlotOf(s, p)
             /\ SourceRow(t, p) = SourceRow(s, p) /\ HasSlot(t, p) = HasSlot(s, p)
             /\ CellAt(t, p) = CellAt(s, p) /\ Level(t, p) = Level(s, p)
             /\ GivenUp(t, p) = GivenUp(s, p) /\ PseSource(t, p) = PseSource(s, p)
  <2>1. IsReal(t, p) = IsReal(s, p) /\ PseSource(t, p) = PseSource(s, p)
    BY <1>1, Zenon DEF IsReal, PseSource
  <2>2. SlotOf(t, p) = SlotOf(s, p) /\ SourceRow(t, p) = SourceRow(s, p)
    BY <1>1, <2>1, Zenon DEF SlotOf, SourceRow
  <2>3. HasSlot(t, p) = HasSlot(s, p) /\ GivenUp(t, p) = GivenUp(s, p)
    BY <1>1, <1>7, <2>1, Zenon DEF HasSlot, GivenUp
  <2>4. CellAt(t, p) = CellAt(s, p) /\ Level(t, p) = Level(s, p)
    BY <1>1, <1>7, <2>1, <2>2, Zenon DEF CellAt, Level
  <2> QED
    BY <2>1, <2>2, <2>3, <2>4
<1>9. KeptRows(t) = KeptRows(s)
  BY <1>7, <1>8 DEF KeptRows
<1> QED
  BY <1>1, <1>6, <1>7, <1>8, <1>9

\* Changing one cell is a Put of one row.
LEMMA CellIsPut ==
  ASSUME NEW s, Shaped(s), NEW r, HasSlot(s, r), NEW c,
         NEW cell, DOMAIN cell = {r}, cell[r] = c
  PROVE  [s EXCEPT !.cells[SlotOf(s, r)] = c] = Put(s, cell)
<1> DEFINE K == 0 .. s.depth + 7
<1>1. IsRing(s) /\ s.cells = [k \in K |-> s.cells[k]]
  BY DEF Shaped, Cells
<1>2. SlotOf(s, r) \in K
  BY SlotOfRow DEF HasSlot
<1>3. [s.cells EXCEPT ![SlotOf(s, r)] = c]
        = [k \in K |-> IF \E x \in DOMAIN cell : SlotOf(s, x) = k
                       THEN cell[CHOOSE x \in DOMAIN cell : SlotOf(s, x) = k] ELSE s.cells[k]]
  <2>1. DOMAIN cell = {r} /\ cell[r] = c
    OBVIOUS
  <2> HIDE DEF K
  <2>2. ASSUME NEW k \in K
        PROVE  [s.cells EXCEPT ![SlotOf(s, r)] = c][k]
                 = IF \E x \in DOMAIN cell : SlotOf(s, x) = k
                   THEN cell[CHOOSE x \in DOMAIN cell : SlotOf(s, x) = k] ELSE s.cells[k]
    <3>1. CASE SlotOf(s, r) = k
      <4>1. (CHOOSE x \in DOMAIN cell : SlotOf(s, x) = k) = r
        BY <2>1, <3>1
      <4> QED
        BY <1>1, <1>2, <2>1, <3>1, <4>1
    <3>2. CASE SlotOf(s, r) # k
      BY <1>1, <1>2, <2>1, <3>2
    <3> QED
      BY <3>1, <3>2
  <2>3. [s.cells EXCEPT ![SlotOf(s, r)] = c]
          = [k \in K |-> [s.cells EXCEPT ![SlotOf(s, r)] = c][k]]
    BY <1>1
  <2> QED
    BY <2>2, <2>3
<1>4. DOMAIN s.cells = K
  BY <1>1
<1>5. [s EXCEPT !.cells[SlotOf(s, r)] = c] = [s EXCEPT !.cells = [s.cells EXCEPT ![SlotOf(s, r)] = c]]
  BY <1>1 DEF IsRing, RingFields
<1>6. Put(s, cell) = [s EXCEPT !.cells =
        [k \in K |-> IF \E x \in DOMAIN cell : SlotOf(s, x) = k
                     THEN cell[CHOOSE x \in DOMAIN cell : SlotOf(s, x) = k] ELSE s.cells[k]]]
  <2> HIDE DEF K
  <2> QED
    BY <1>1, <1>4 DEF Put, IsRing, RingFields
<1> QED
  BY <1>3, <1>5, <1>6

\* So is a row's arrival.
LEMMA StoreIsPut ==
  ASSUME NEW s, Shaped(s), NEW r, NEW val, HasSlot(s, r),
         NEW cell, DOMAIN cell = {r}, cell[r] = [lvl |-> 0, val |-> val]
  PROVE  Store(s, r, val) = Put(s, cell)
<1>1. [s EXCEPT !.cells[SlotOf(s, r)] = [lvl |-> 0, val |-> val]] = Put(s, cell)
  BY CellIsPut
<1> QED
  BY <1>1 DEF Store

\* A row enters: it and the rows that mirror it are at level 0.
Enter(s, val) == FillPse([Store(s, s.nextIn, val) EXCEPT !.nextIn = s.nextIn + 1], {s.nextIn})

\* The next row of the source entering, the ring stays what it is.
LEMMA EnterKeeps ==
  ASSUME NEW s, NEW tag, InRing(s, tag), s.nextIn < s.v1, s.nextIn < s.origin + s.depth
  PROVE  LET t == Enter(s, Row(tag, s.nextIn, 0)) IN
         /\ InRing(t, tag) /\ DOMAIN t = DOMAIN s /\ t.nextIn = s.nextIn + 1
         /\ \A f \in DOMAIN s : f \notin {"cells", "nextIn"} => t[f] = s[f]
         /\ \A p \in Int : Level(t, p) >= Level(s, p)
<1> DEFINE r    == s.nextIn
           val  == Row(tag, r, 0)
           c    == [lvl |-> 0, val |-> val]
           cell == [x \in {r} |-> c]
           u    == Put(s, cell)
           w    == [u EXCEPT !.nextIn = r + 1]
           P    == {q \in PseRows(w) : Level(w, q) < 0 /\ PseSource(w, q) \in {r}}
           copy == [p \in P |-> [lvl |-> 0, val |-> w.cells[SlotOf(w, PseSource(w, p))].val]]
           t    == Put(w, copy)
           New  == {p \in KeptRows(s) : SourceRow(s, p) = r}
           M    == MaxLevel(s.xf)
<1>1. /\ Shaped(s) /\ Arrived(s) /\ Faithful(s, tag) /\ Staggered(s)
      /\ s.v0 <= s.origin /\ s.origin <= r /\ r < s.v1 /\ r < s.origin + s.depth
  BY DEF InRing
<1>2. s.v0 \in Nat /\ s.v1 \in Nat /\ s.origin \in Nat /\ r \in Nat /\ s.depth \in {8, 12}
      /\ s.topN \in 1 .. 4 /\ s.botN \in 1 .. 4 /\ s.first \in {0, 1} /\ s.nextOut \in Nat
  BY <1>1, RangesAre
<1>3. IsReal(s, r) /\ r \in SlottedRows(s) /\ HasSlot(s, r) /\ r \in KeptRows(s) /\ SourceRow(s, r) = r
  <2>1. IsReal(s, r)
    BY <1>1, <1>2 DEF IsReal
  <2>2. r \in SlottedRows(s)
    <3> HIDE DEF r
    <3> QED
      BY <1>1, <1>2 DEF SlottedRows
  <2>3. HasSlot(s, r) /\ ~ GivenUp(s, r)
    <3> HIDE DEF r
    <3> QED
      BY <1>1, <1>2, <2>2 DEF HasSlot, GivenUp
  <2> HIDE DEF r
  <2> QED
    BY <2>1, <2>2, <2>3 DEF KeptRows, SourceRow
<1>4. Enter(s, val) = t
  <2>1. Store(s, r, val) = u
    <3> HIDE DEF r, val
    <3>1. Shaped(s) /\ HasSlot(s, r)
      BY <1>1, <1>3
    <3>2. DOMAIN cell = {r} /\ cell[r] = [lvl |-> 0, val |-> val]
      OBVIOUS
    <3> HIDE DEF cell, u
    <3>3. Store(s, r, val) = Put(s, cell)
      BY <3>1, <3>2, StoreIsPut
    <3> QED
      BY <3>3 DEF u
  <2>2. Enter(s, val) = FillPse(w, {r})
    BY <2>1, Zenon DEF Enter
  <2> HIDE DEF w
  <2> QED
    BY <2>2, Zenon DEF FillPse
<1> HIDE DEF t, r
<1>5. IsCell(c) /\ c.lvl = 0 /\ c.val = val /\ DOMAIN cell = {r} /\ cell[r] = c
  BY DEF IsCell
<1> HIDE DEF c, val, cell
<1>6. /\ Shaped(u) /\ Alike(s, u)
      /\ \A p : HasSlot(s, p) => CellAt(u, p) = IF p \in {r} THEN cell[p] ELSE CellAt(s, p)
      /\ \A p \in Int : Level(u, p) = IF p \in {r} THEN cell[p].lvl ELSE Level(s, p)
  <2>1. \A x \in DOMAIN cell : HasSlot(s, x) /\ IsCell(cell[x])
    BY <1>3, <1>5
  <2> HIDE DEF u
  <2> QED
    BY <1>1, <1>5, <2>1, PutKeepsRows DEF u
<1> HIDE DEF u
<1>7. Moved(u, w) /\ w.nextIn = r + 1
  <2>1. IsRing(u) /\ u.nextOut \in Nat
    BY <1>2, <1>6, AlikeAre DEF Shaped
  <2> QED
    BY <1>2, <2>1 DEF Moved, IsRing, RingFields
<1> HIDE DEF w
<1>8. /\ Shaped(w) /\ KeptRows(w) = KeptRows(s) /\ PseRows(w) = PseRows(s) /\ SlottedRows(w) = SlottedRows(s)
      /\ \A p : /\ IsReal(w, p) = IsReal(s, p) /\ SourceRow(w, p) = SourceRow(s, p)
                /\ HasSlot(w, p) = HasSlot(s, p) /\ PseSource(w, p) = PseSource(s, p)
                /\ CellAt(w, p) = CellAt(u, p) /\ Level(w, p) = Level(u, p)
  BY <1>6, <1>7, MovedAre, AlikeRows
<1>9. \A p : HasSlot(s, p) => CellAt(w, p) = IF p = r THEN c ELSE CellAt(s, p)
  BY <1>5, <1>6, <1>8
<1>10. \A p \in Int : Level(w, p) = IF p = r THEN 0 ELSE Level(s, p)
  BY <1>5, <1>6, <1>8
<1>11. \A p \in KeptRows(s) : p \in Int /\ p \in SlottedRows(s) /\ Level(s, p) \in Int
  BY <1>1, HeldInt
<1>12. ASSUME NEW p \in KeptRows(s)
       PROVE  /\ Level(s, p) \in -1 .. M /\ (Level(s, p) >= 0 <=> SourceRow(s, p) < r)
              /\ SourceRow(s, p) \in Int /\ SourceRow(s, p) % 2 = p % 2
              /\ (IsReal(s, p) => SourceRow(s, p) = p)
  <2>1. Level(s, p) \in -1 .. M /\ (Level(s, p) >= 0 <=> SourceRow(s, p) < r)
    BY <1>1 DEF Arrived, r
  <2>2. /\ SourceRow(s, p) \in s.v0 .. s.v1 - 1 /\ SourceRow(s, p) % 2 = p % 2
        /\ (IsReal(s, p) => SourceRow(s, p) = p)
    BY <1>1, <1>11, SourceRowIs
  <2> QED
    BY <1>2, <2>1, <2>2
<1>13. ASSUME NEW p
       PROVE  p \in P <=> p \in New /\ p # r
  <2>1. CASE p \in P
    <3>1. p \in PseRows(s) /\ PseSource(s, p) = r /\ Level(w, p) < 0
      BY <1>8, <2>1
    <3>2. ~ IsReal(s, p) /\ p \in SlottedRows(s)
      <4>1. s.v0 <= s.v1
        BY <1>1, <1>2
      <4> QED
        BY <1>2, <3>1, <4>1 DEF PseRows, IsReal, SlottedRows
    <3>3. p \in KeptRows(s) /\ SourceRow(s, p) = r
      BY <3>1, <3>2 DEF KeptRows, GivenUp, SourceRow
    <3>4. p \in New /\ p # r
      BY <1>3, <3>2, <3>3
    <3> QED
      BY <2>1, <3>4
  <2>2. CASE p \in New /\ p # r
    <3>1. p \in KeptRows(s) /\ SourceRow(s, p) = r /\ p \in Int /\ p \in SlottedRows(s)
      BY <1>11, <2>2
    <3>2. ~ IsReal(s, p)
      BY <1>12, <2>2, <3>1
    <3>3. PseSource(s, p) = r
      BY <3>1, <3>2 DEF SourceRow
    <3>4. p \in PseRows(s)
      BY <1>2, <3>1, <3>2 DEF PseRows, IsReal, SlottedRows
    <3>5. Level(w, p) = Level(s, p)
      BY <1>10, <2>2, <3>1
    <3>6. Level(s, p) < 0
      BY <1>2, <1>11, <1>12, <3>1
    <3>7. p \in PseRows(w) /\ PseSource(w, p) \in {r} /\ Level(w, p) < 0
      BY <1>8, <3>3, <3>4, <3>5, <3>6
    <3>8. p \in P
      BY <3>7
    <3> QED
      BY <2>2, <3>8
  <2> QED
    BY <2>1, <2>2
<1>14. ASSUME NEW p \in P
       PROVE  HasSlot(w, p) /\ copy[p] = c
  <2>1. p \in New /\ p # r /\ PseSource(w, p) = r
    BY <1>13
  <2>2. p \in SlottedRows(s) /\ ~ IsReal(s, p)
    <3>1. p \in KeptRows(s) /\ SourceRow(s, p) = r
      BY <2>1
    <3> QED
      BY <1>11, <1>12, <2>1, <3>1
  <2>3. HasSlot(w, p)
    BY <1>8, <2>2 DEF HasSlot
  <2>4. w.cells[SlotOf(w, r)] = c
    BY <1>3, <1>9 DEF CellAt
  <2> HIDE DEF P
  <2>5. copy[p] = [lvl |-> 0, val |-> w.cells[SlotOf(w, PseSource(w, p))].val]
    OBVIOUS
  <2>6. copy[p] = [lvl |-> 0, val |-> val]
    BY <1>5, <2>1, <2>4, <2>5
  <2> QED
    BY <2>3, <2>6 DEF c
<1>15. DOMAIN copy = P
  OBVIOUS
<1> HIDE DEF P, copy
<1>16. /\ Shaped(t) /\ Alike(w, t)
       /\ \A p : HasSlot(w, p) => CellAt(t, p) = IF p \in P THEN copy[p] ELSE CellAt(w, p)
       /\ \A p \in Int : Level(t, p) = IF p \in P THEN copy[p].lvl ELSE Level(w, p)
  <2>1. \A x \in DOMAIN copy : HasSlot(w, x) /\ IsCell(copy[x])
    BY <1>5, <1>14, <1>15
  <2> QED
    BY <1>8, <1>15, <2>1, PutKeepsRows DEF t
<1> HIDE DEF New
<1>17. r \in New
  BY <1>3 DEF New
<1>18. \A p : HasSlot(s, p) => CellAt(t, p) = IF p \in New THEN c ELSE CellAt(s, p)
  BY <1>8, <1>9, <1>13, <1>14, <1>16, <1>17
<1>19. \A p \in Int : Level(t, p) = IF p \in New THEN 0 ELSE Level(s, p)
  BY <1>5, <1>10, <1>13, <1>14, <1>16, <1>17
<1>20. /\ DOMAIN t = DOMAIN s /\ t.nextIn = r + 1
       /\ \A f \in DOMAIN s : f \notin {"cells", "nextIn"} => t[f] = s[f]
  <2>1. DOMAIN u = DOMAIN s /\ \A f \in DOMAIN s : f # "cells" => u[f] = s[f]
    BY <1>6 DEF Alike
  <2>2. w = [u EXCEPT !.nextIn = r + 1] /\ IsRing(u)
    BY <1>6 DEF w, Shaped
  <2>3. DOMAIN w = DOMAIN u /\ \A f \in DOMAIN u : f # "nextIn" => w[f] = u[f]
    BY <2>2 DEF IsRing, RingFields
  <2>4. DOMAIN t = DOMAIN w /\ \A f \in DOMAIN w : f # "cells" => t[f] = w[f]
    BY <1>16 DEF Alike
  <2>5. t.nextIn = w.nextIn
    BY <1>16, AlikeAre
  <2> QED
    BY <1>7, <2>1, <2>3, <2>4, <2>5
<1>21. /\ KeptRows(t) = KeptRows(s)
       /\ \A p : SourceRow(t, p) = SourceRow(s, p) /\ HasSlot(t, p) = HasSlot(s, p)
  BY <1>8, <1>16, AlikeRows
<1>22. /\ t.v0 = s.v0 /\ t.v1 = s.v1 /\ t.first = s.first /\ t.depth = s.depth
       /\ t.origin = s.origin /\ MaxLevel(t.xf) = M
  BY <1>1, <1>20 DEF Shaped, IsRing, RingFields
<1>23. M \in {1, 2}
  BY DEF MaxLevel
<1> HIDE DEF M
<1>24. ASSUME NEW p \in New PROVE p \in KeptRows(s) /\ SourceRow(s, p) = r /\ Level(s, p) = -1
  <2>1. p \in KeptRows(s) /\ SourceRow(s, p) = r
    BY DEF New
  <2>2. ~ (Level(s, p) >= 0) /\ Level(s, p) \in -1 .. M
    BY <1>2, <1>12, <2>1
  <2> QED
    BY <1>23, <2>1, <2>2
<1>25. \A p \in Int : Level(t, p) >= Level(s, p)
  <2> SUFFICES ASSUME NEW p \in Int PROVE Level(t, p) >= Level(s, p)
    OBVIOUS
  <2>1. Level(s, p) \in Int
    BY <1>1, LevelOfRow
  <2>2. CASE p \in New
    BY <1>19, <1>24, <2>2
  <2>3. CASE p \notin New
    BY <1>19, <2>1, <2>3
  <2> QED
    BY <2>2, <2>3
<1>26. Arrived(t)
  <2> SUFFICES ASSUME NEW p \in KeptRows(s)
               PROVE  Level(t, p) \in -1 .. M /\ (Level(t, p) >= 0 <=> SourceRow(s, p) < r + 1)
    BY <1>20, <1>21, <1>22 DEF Arrived
  <2>1. CASE p \in New
    BY <1>2, <1>11, <1>19, <1>23, <1>24, <2>1
  <2>2. CASE p \notin New
    <3>1. SourceRow(s, p) # r
      BY <2>2 DEF New
    <3>2. Level(t, p) = Level(s, p)
      BY <1>11, <1>19, <2>2
    <3> QED
      BY <1>2, <1>12, <3>1, <3>2
  <2> QED
    BY <2>1, <2>2
<1>27. Faithful(t, tag)
  <2> SUFFICES ASSUME NEW p \in KeptRows(s), Level(t, p) >= 0
               PROVE  CellAt(t, p).val = Row(tag, SourceRow(s, p), Level(t, p))
    BY <1>21 DEF Faithful
  <2>1. p \in Int
    BY <1>11
  <2>2. HasSlot(s, p)
    BY <1>16, <1>21, <2>1, LevelHeld
  <2>3. CASE p \in New
    <3>1. CellAt(t, p).val = val /\ Level(t, p) = 0 /\ SourceRow(s, p) = r
      BY <1>5, <1>18, <1>19, <1>24, <2>1, <2>2, <2>3
    <3> QED
      BY <3>1 DEF val
  <2>4. CASE p \notin New
    <3>1. CellAt(t, p) = CellAt(s, p) /\ Level(t, p) = Level(s, p)
      BY <1>18, <1>19, <2>1, <2>2, <2>4
    <3> QED
      BY <1>1, <3>1 DEF Faithful
  <2> QED
    BY <2>3, <2>4
<1>28. Staggered(t)
  <2> SUFFICES ASSUME NEW p \in KeptRows(s), NEW q \in KeptRows(s), p % 2 = s.first, q \in {p - 1, p + 1}
               PROVE  /\ Level(t, p) <= Level(t, q) + 1
                      /\ Level(t, q) <= Level(t, p) \/ Level(t, q) <= 0
    BY <1>21, <1>22 DEF Staggered
  <2>1. p \in Int /\ q \in Int /\ Level(s, p) \in Int /\ Level(s, q) \in Int
    BY <1>11
  <2>2. /\ Level(s, p) <= Level(s, q) + 1
        /\ Level(s, q) <= Level(s, p) \/ Level(s, q) <= 0
    BY <1>1 DEF Staggered
  <2>3. q % 2 # p % 2
    BY <2>1
  <2>4. Level(s, q) >= -1 /\ Level(s, p) >= -1
    BY <1>12
  <2>5. CASE p \in New
    <3>1. q \notin New
      BY <1>12, <1>24, <2>3, <2>5
    <3>2. Level(t, p) = 0 /\ Level(t, q) = Level(s, q) /\ Level(s, p) = -1
      BY <1>19, <1>24, <2>1, <2>5, <3>1
    <3> QED
      BY <2>1, <2>2, <2>4, <3>2
  <2>6. CASE q \in New /\ p \notin New
    <3>1. Level(t, q) = 0 /\ Level(t, p) = Level(s, p) /\ Level(s, q) = -1
      BY <1>19, <1>24, <2>1, <2>6
    <3> QED
      BY <2>1, <2>2, <2>4, <3>1
  <2>7. CASE p \notin New /\ q \notin New
    BY <1>19, <2>1, <2>2, <2>7
  <2> QED
    BY <2>5, <2>6, <2>7
<1>29. InRing(t, tag)
  BY <1>1, <1>2, <1>16, <1>20, <1>22, <1>26, <1>27, <1>28 DEF InRing
<1> QED
  BY <1>4, <1>20, <1>25, <1>29 DEF val, r

----------------------------------------------------------------------------
(* The rows that left are given up.                                        *)

\* Giving up rows frees the slots of as many rows that follow, and no other.
LEMMA EvictKeeps ==
  ASSUME NEW s, NEW tag, InRing(s, tag), NEW o \in s.origin .. s.nextIn
  PROVE  LET t == EvictTo(s, o) IN
         /\ InRing(t, tag) /\ DOMAIN t = DOMAIN s /\ t.origin = o
         /\ \A f \in DOMAIN s : f \notin {"cells", "origin"} => t[f] = s[f]
         /\ \A p \in KeptRows(t) : p \in KeptRows(s) /\ Level(t, p) = Level(s, p)
<1> DEFINE D == s.depth
           K == 0 .. D + 7
           Free(k) == \E r \in s.origin .. o - 1 : k = r % D
           New(k) == IF Free(k) THEN [s.cells[k] EXCEPT !.lvl = -1] ELSE s.cells[k]
           t == EvictTo(s, o)
           M == MaxLevel(s.xf)
<1>1. /\ Shaped(s) /\ Arrived(s) /\ Faithful(s, tag) /\ Staggered(s)
      /\ s.v0 <= s.origin /\ s.origin <= s.nextIn /\ s.nextIn <= s.v1
      /\ s.nextIn <= s.origin + D
  BY DEF InRing
<1>2. s.v0 \in Nat /\ s.v1 \in Nat /\ s.origin \in Nat /\ D \in {8, 12}
      /\ s.nextIn \in Nat /\ s.nextOut \in Nat /\ o \in Nat
      /\ s.topN \in 1 .. 4 /\ s.botN \in 1 .. 4 /\ s.first \in {0, 1}
  BY <1>1, RangesAre
<1>3. IsRing(s) /\ Cells(s) /\ Ranges(s)
  BY <1>1 DEF Shaped
<1>4. DOMAIN s.cells = K
  BY <1>3 DEF Cells
<1>5. /\ IsRing(t) /\ DOMAIN t = DOMAIN s /\ t.origin = o
      /\ \A f \in DOMAIN s : f \notin {"cells", "origin"} => t[f] = s[f]
      /\ t.cells = [k \in K |-> New(k)]
  <2> DEFINE C == [k \in K |-> New(k)]
  <2>1. t = [s EXCEPT !.origin = o, !.cells = C]
    BY <1>3, <1>4 DEF EvictTo, IsRing, RingFields
  <2> HIDE DEF C, t
  <2>2. IsRing(t) /\ DOMAIN t = DOMAIN s /\ t.origin = o /\ t.cells = C
        /\ \A f \in DOMAIN s : f \notin {"cells", "origin"} => t[f] = s[f]
    BY <1>3, <2>1 DEF IsRing, RingFields
  <2> QED
    BY <2>2 DEF C
<1> HIDE DEF t
<1>6. /\ t.v0 = s.v0 /\ t.v1 = s.v1 /\ t.xf = s.xf /\ t.first = s.first /\ t.depth = D
      /\ t.topN = s.topN /\ t.botN = s.botN /\ t.nextIn = s.nextIn /\ t.nextOut = s.nextOut
  BY <1>3, <1>5 DEF IsRing, RingFields
<1>7. ASSUME NEW k \in K
      PROVE  IsCell(New(k)) /\ New(k).val = s.cells[k].val
             /\ New(k).lvl = IF Free(k) THEN -1 ELSE s.cells[k].lvl
  <2>1. IsCell(s.cells[k])
    BY <1>3 DEF Cells
  <2> DEFINE x == s.cells[k]
  <2> HIDE DEF x, Free
  <2>2. x = [lvl |-> x.lvl, val |-> x.val] /\ x.lvl \in Int
    BY <2>1 DEF IsCell, x
  <2>3. [x EXCEPT !.lvl = -1] = [lvl |-> -1, val |-> x.val]
    BY <2>2
  <2>4. IsCell([x EXCEPT !.lvl = -1]) /\ [x EXCEPT !.lvl = -1].lvl = -1
        /\ [x EXCEPT !.lvl = -1].val = x.val
    BY <2>3 DEF IsCell
  <2> QED
    BY <2>1, <2>4 DEF x
<1> HIDE DEF New, K
<1>8. Cells(t)
  <2>1. t.cells = [k \in K |-> t.cells[k]] /\ \A k \in K : t.cells[k] = New(k)
    BY <1>5
  <2>2. \A k \in K : IsCell(t.cells[k])
    BY <1>7, <2>1
  <2> QED
    BY <1>6, <2>1, <2>2 DEF Cells, K
<1>9. Shaped(t)
  <2>1. Ranges(t)
    BY <1>3, <1>6, Zenon DEF Ranges, Outer
  <2>2. Cursors(t)
    BY <1>2, <1>5, <1>6 DEF Cursors
  <2> QED
    BY <1>5, <1>8, <2>1, <2>2 DEF Shaped
<1>10. SlottedRows(t) = SlottedRows(s) /\ MaxLevel(t.xf) = M
  BY <1>6, Zenon DEF SlottedRows
<1>11. ASSUME NEW p
       PROVE  /\ IsReal(t, p) = IsReal(s, p) /\ SlotOf(t, p) = SlotOf(s, p)
              /\ SourceRow(t, p) = SourceRow(s, p)
  <2>1. IsReal(t, p) = IsReal(s, p) /\ PseSource(t, p) = PseSource(s, p)
    BY <1>6, Zenon DEF IsReal, PseSource
  <2> QED
    BY <1>6, <2>1, Zenon DEF SlotOf, SourceRow
<1> HIDE DEF M
<1>12. ASSUME NEW p \in KeptRows(t)
       PROVE  /\ p \in KeptRows(s) /\ p \in Int /\ p \in SlottedRows(s) /\ Level(s, p) \in Int
              /\ (IsReal(s, p) <=> s.v0 <= p /\ p < s.v1) /\ (IsReal(s, p) => o <= p)
  <2>1. p \in SlottedRows(s) /\ ~ (IsReal(s, p) /\ p < o)
    BY <1>5, <1>10, <1>11 DEF KeptRows, GivenUp
  <2>2. p \in Int /\ (IsReal(s, p) <=> s.v0 <= p /\ p < s.v1)
    BY <1>1, <2>1, SourceRowIs
  <2>3. IsReal(s, p) => o <= p
    BY <1>2, <2>1, <2>2
  <2>4. ~ GivenUp(s, p)
    BY <1>2, <2>2, <2>3 DEF GivenUp
  <2>5. Level(s, p) \in Int
    BY <1>1, <2>2, LevelOfRow
  <2> QED
    BY <2>1, <2>2, <2>3, <2>4, <2>5 DEF KeptRows
<1>13. ASSUME NEW p \in KeptRows(t)
       PROVE  /\ SlotOf(s, p) \in K /\ CellAt(t, p).val = CellAt(s, p).val
              /\ CellAt(t, p).lvl = IF Free(SlotOf(s, p)) THEN -1 ELSE CellAt(s, p).lvl
  <2>1. SlotOf(s, p) \in K
    BY <1>1, <1>12, SlotOfRow DEF K
  <2>2. CellAt(t, p) = New(SlotOf(s, p))
    BY <1>5, <1>11, <2>1 DEF CellAt
  <2> HIDE DEF Free
  <2> QED
    BY <1>7, <2>1, <2>2 DEF CellAt
<1>14. ASSUME NEW p \in KeptRows(t) PROVE Level(t, p) = Level(s, p)
  <2>0. p \in Int
    BY <1>12
  <2>1. HasSlot(t, p) <=> (IsReal(s, p) => p < o + D)
    BY <1>5, <1>6, <1>10, <1>11, <1>12 DEF HasSlot
  <2>2. HasSlot(s, p) <=> (IsReal(s, p) => p < s.origin + D)
    <3>1. IsReal(s, p) => s.origin <= p
      BY <1>2, <1>12
    <3> QED
      BY <1>12, <3>1 DEF HasSlot
  <2>3. CASE ~ IsReal(s, p)
    <3>1. SlotOf(s, p) >= D /\ SlotOf(s, p) \in 0 .. D + 7
      BY <1>1, <1>12, <2>3, SlotOfRow
    <3>2. ~ Free(SlotOf(s, p))
      <4>1. ASSUME NEW r \in s.origin .. o - 1 PROVE r % D < D
        <5>1. r % 8 < 8 /\ r % 12 < 12
          BY <1>2
        <5> QED
          BY <1>2, <5>1
      <4>2. ASSUME NEW r \in s.origin .. o - 1 PROVE r % D \in Int
        <5>1. r % 8 \in Int /\ r % 12 \in Int
          BY <1>2
        <5> QED
          BY <1>2, <5>1
      <4> HIDE DEF D
      <4> QED
        BY <1>2, <3>1, <4>1, <4>2
    <3> HIDE DEF Free
    <3>3. Level(t, p) = CellAt(t, p).lvl /\ Level(s, p) = CellAt(s, p).lvl
      BY <1>1, <1>9, <2>0, <2>1, <2>2, <2>3, LevelOfRow
    <3> QED
      BY <1>13, <3>2, <3>3
  <2>4. CASE IsReal(s, p)
    <3>0. SlotOf(s, p) = p % D /\ o <= p
      BY <1>1, <1>12, <2>4, SlotOfRow
    <3>1. CASE p >= o + D
      <4>1. Level(t, p) = -1
        BY <1>2, <1>9, <2>0, <2>1, <2>4, <3>1, LevelOfRow
      <4>2. Level(s, p) = -1
        <5>1. ~ HasSlot(s, p)
          BY <1>2, <2>0, <2>2, <2>4, <3>1
        <5> QED
          BY <1>1, <2>0, <5>1, LevelOfRow
      <4> QED
        BY <4>1, <4>2
    <3>2. CASE p < o + D /\ p >= s.origin + D
      <4>1. Level(s, p) = -1
        <5>1. ~ HasSlot(s, p)
          BY <1>2, <2>0, <2>2, <2>4, <3>2
        <5> QED
          BY <1>1, <2>0, <5>1, LevelOfRow
      <4>2. Free(SlotOf(s, p))
        <5>1. p - D \in s.origin .. o - 1
          BY <1>2, <2>0, <3>2
        <5>2. p % D = (p - D) % D
          <6>1. p % 8 = (p - 8) % 8 /\ p % 12 = (p - 12) % 12
            BY <2>0
          <6> QED
            BY <1>2, <6>1
        <5> HIDE DEF D
        <5> QED
          BY <3>0, <5>1, <5>2
      <4> HIDE DEF Free
      <4>3. Level(t, p) = CellAt(t, p).lvl
        BY <1>9, <2>0, <2>1, <3>2, LevelOfRow
      <4> QED
        BY <1>13, <4>1, <4>2, <4>3
    <3>3. CASE p < s.origin + D
      <4>1. ~ Free(SlotOf(s, p))
        <5>1. ASSUME NEW r \in s.origin .. o - 1, p % D = r % D PROVE FALSE
          <6>1. r \in Int /\ r < p /\ p - r < D
            BY <1>2, <2>0, <3>0, <3>3
          <6> HIDE DEF D
          <6>2. p % 8 = r % 8 /\ p - r < 8 => p = r \/ ~ (r < p)
            BY <2>0, <6>1
          <6>3. p % 12 = r % 12 /\ p - r < 12 => p = r \/ ~ (r < p)
            BY <2>0, <6>1
          <6> QED
            BY <1>2, <2>0, <5>1, <6>1, <6>2, <6>3
        <5> HIDE DEF D
        <5> QED
          BY <3>0, <5>1
      <4> HIDE DEF Free
      <4>2. HasSlot(t, p) /\ HasSlot(s, p)
        <5>1. p < o + D
          BY <1>2, <2>0, <3>3
        <5> QED
          BY <2>1, <2>2, <3>3, <5>1
      <4>3. Level(t, p) = CellAt(t, p).lvl /\ Level(s, p) = CellAt(s, p).lvl
        BY <1>1, <1>9, <2>0, <4>2, LevelOfRow
      <4> QED
        BY <1>13, <4>1, <4>3
    <3> QED
      BY <1>2, <2>0, <3>1, <3>2, <3>3
  <2> QED
    BY <2>3, <2>4
<1>15. Arrived(t)
  <2> SUFFICES ASSUME NEW p \in KeptRows(t)
               PROVE  Level(t, p) \in -1 .. M /\ (Level(t, p) >= 0 <=> SourceRow(s, p) < s.nextIn)
    BY <1>6, <1>10, <1>11 DEF Arrived
  <2>1. p \in KeptRows(s) /\ Level(t, p) = Level(s, p)
    BY <1>12, <1>14
  <2> QED
    BY <1>1, <2>1 DEF Arrived, M
<1>16. Faithful(t, tag)
  <2> SUFFICES ASSUME NEW p \in KeptRows(t), Level(t, p) >= 0
               PROVE  CellAt(t, p).val = Row(tag, SourceRow(t, p), Level(t, p))
    BY DEF Faithful
  <2>1. /\ p \in KeptRows(s) /\ Level(t, p) = Level(s, p) /\ SourceRow(t, p) = SourceRow(s, p)
        /\ CellAt(t, p).val = CellAt(s, p).val
    BY <1>11, <1>12, <1>13, <1>14
  <2>2. CellAt(s, p).val = Row(tag, SourceRow(s, p), Level(s, p))
    BY <1>1, <2>1 DEF Faithful
  <2> QED
    BY <2>1, <2>2
<1>17. Staggered(t)
  <2> SUFFICES ASSUME NEW p \in KeptRows(t), NEW q \in KeptRows(t), p % 2 = s.first, q \in {p - 1, p + 1}
               PROVE  /\ Level(t, p) <= Level(t, q) + 1
                      /\ Level(t, q) <= Level(t, p) \/ Level(t, q) <= 0
    BY <1>6 DEF Staggered
  <2>1. p \in KeptRows(s) /\ q \in KeptRows(s) /\ Level(t, p) = Level(s, p) /\ Level(t, q) = Level(s, q)
    BY <1>12, <1>14
  <2>2. /\ Level(s, p) <= Level(s, q) + 1
        /\ Level(s, q) <= Level(s, p) \/ Level(s, q) <= 0
    BY <1>1, <2>1 DEF Staggered
  <2> QED
    BY <2>1, <2>2
<1>18. InRing(t, tag)
  BY <1>1, <1>2, <1>5, <1>6, <1>9, <1>15, <1>16, <1>17 DEF InRing
<1> QED
  BY <1>5, <1>12, <1>14, <1>18 DEF t

----------------------------------------------------------------------------
(* Why a ring at rest holds nothing back.                                  *)

\* Where a row that waits may be: not among those that left, nor beyond the input.
Beyond(s, p) == (p >= s.nextOut \/ s.nextOut = s.v0) /\ (p < s.nextIn \/ s.nextIn = s.v1)
RowRank(s, p) == 2 * Level(s, p) + (IF p % 2 = s.first THEN 0 ELSE 1)
Waits(s, p) == /\ p \in Int /\ Level(s, p) \in 0 .. MaxLevel(s.xf) - 1 /\ Beyond(s, p)

\* The rows that left had all their steps, and one of them is kept if any was given up.
Leaving(s) ==
  /\ s.v0 <= s.origin /\ s.origin <= s.nextOut /\ s.nextOut <= s.nextIn
  /\ s.origin = s.v0 \/ s.origin < s.nextOut
  /\ \A r \in s.origin .. s.nextOut - 1 : Level(s, r) = MaxLevel(s.xf)

\* In a ring at rest a row that waits does so for a neighbour that waits for less,
\* or has not come.
LEMMA WaitsFor ==
  ASSUME NEW s, NEW tag, InRing(s, tag), AtRest(s), Leaving(s), NEW p, Waits(s, p)
  PROVE  \E q \in {p - 1, p + 1} :
           \/ Level(s, q) = -1 /\ (q >= s.nextOut \/ s.nextOut = s.v0)
           \/ Waits(s, q) /\ RowRank(s, q) < RowRank(s, p)
<1> DEFINE M == MaxLevel(s.xf)
           c == Level(s, p)
           need == NeighbourLevel(s, p, c)
<1>1. /\ Shaped(s) /\ Arrived(s) /\ s.nextIn <= s.v1
      /\ s.v0 <= s.origin /\ s.origin <= s.nextOut /\ s.nextOut <= s.nextIn
      /\ s.origin = s.v0 \/ s.origin < s.nextOut
      /\ \A r \in s.origin .. s.nextOut - 1 : Level(s, r) = M
  BY DEF InRing, Leaving
<1>2. /\ s.v0 \in Nat /\ s.v1 \in Nat /\ s.origin \in Nat
      /\ s.nextIn \in Nat /\ s.nextOut \in Nat
      /\ s.topN \in 1 .. 4 /\ s.botN \in 1 .. 4 /\ s.first \in {0, 1}
  BY <1>1, RangesAre
<1>3. p \in Int /\ c \in 0 .. M - 1 /\ Beyond(s, p)
  BY DEF Waits
<1>4. M \in {1, 2} /\ c \in Nat /\ c < M
  <2>1. M \in {1, 2}
    BY DEF MaxLevel
  <2> QED
    BY <1>3, <2>1
<1>5. p \in KeptRows(s) /\ p \in SlottedRows(s) /\ (IsReal(s, p) => s.origin <= p)
  <2>1. c >= 0
    BY <1>4
  <2>2. HasSlot(s, p) /\ p \in KeptRows(s) /\ p \in SlottedRows(s)
    BY <1>1, <1>3, <2>1, LevelHeld
  <2> QED
    BY <2>2 DEF HasSlot
<1> HIDE DEF M, c
<1>6. p \in Lo(s) .. Hi(s) - 1
  <2>1. p >= s.v0 - s.topN /\ p <= s.v1 + s.botN - 1
    BY <1>1, <1>5, SourceRowIs
  <2>2. p <= Hi(s) - 1
    <3>1. Hi(s) = s.nextIn + s.botN
      BY <1>1, <1>2 DEF Hi
    <3>2. p < s.nextIn \/ s.nextIn = s.v1
      BY <1>3 DEF Beyond
    <3> QED
      BY <1>2, <1>3, <2>1, <3>1, <3>2
  <2>3. Lo(s) <= p
    <3>1. Margin(s) \in Nat /\ Margin(s) >= s.topN
      BY <1>2, <1>4 DEF Margin, M
    <3>2. Lo(s) <= s.origin \/ Lo(s) = s.v0 - s.topN
      BY <1>2, <3>1 DEF Lo
    <3>3. s.origin = s.v0 => Lo(s) = s.v0 - s.topN
      BY <1>2, <3>1 DEF Lo
    <3>4. CASE p >= s.origin
      BY <1>1, <1>2, <1>3, <3>1, <3>2, <2>1, <3>4 DEF Lo
    <3>5. CASE ~ (p >= s.origin)
      <4>1. s.origin = s.v0
        BY <1>1, <1>2, <1>3, <3>5 DEF Beyond
      <4> QED
        BY <2>1, <3>3, <4>1
    <3> QED
      BY <3>4, <3>5
  <2> QED
    BY <1>1, <1>3, <2>2, <2>3, WindowInt
<1>7. ~ Able(s, p, c, need)
  BY <1>3, <1>6 DEF AtRest, M
<1>8. PICK q \in {p - 1, p + 1} : ~ (Level(s, q) >= need)
  BY <1>7 DEF Able, c
<1>9. need = (IF p % 2 = s.first THEN c ELSE c + 1) /\ need \in Nat
  BY <1>4 DEF NeighbourLevel
<1>10. q \in Int /\ q % 2 # p % 2 /\ q % 2 \in {0, 1} /\ p % 2 \in {0, 1}
  BY <1>3
<1>11. Level(s, q) \in Int /\ Level(s, q) >= -1
  <2>1. Level(s, q) \in Int
    BY <1>1, <1>10, LevelOfRow
  <2>2. CASE Level(s, q) >= 0
    BY <2>1, <2>2
  <2>3. CASE ~ (Level(s, q) >= 0) /\ HasSlot(s, q)
    <3>1. q \in SlottedRows(s) /\ (IsReal(s, q) => s.origin <= q)
      BY <2>3 DEF HasSlot
    <3>2. q \in KeptRows(s)
      BY <1>2, <1>10, <3>1 DEF KeptRows, GivenUp
    <3> QED
      BY <1>1, <1>4, <3>2 DEF Arrived, M
  <2>4. CASE ~ HasSlot(s, q)
    BY <1>1, <1>10, <2>4, LevelOfRow
  <2> QED
    BY <2>2, <2>3, <2>4
<1>12. Level(s, q) < M
  BY <1>4, <1>8, <1>9, <1>11
<1>13. q >= s.nextOut \/ s.nextOut = s.v0
  <2> SUFFICES ASSUME q < s.nextOut, s.nextOut # s.v0 PROVE FALSE
    BY <1>2, <1>10
  <2>1. p >= s.nextOut
    BY <1>3 DEF Beyond
  <2>2. q = s.nextOut - 1
    BY <1>2, <1>3, <1>8, <2>1
  <2>3. s.origin < s.nextOut
    BY <1>1, <1>2
  <2>4. q \in s.origin .. s.nextOut - 1
    BY <1>2, <2>2, <2>3
  <2>5. Level(s, q) = M
    BY <1>1, <2>4
  <2> QED
    BY <1>4, <1>12, <2>5
<1>14. CASE Level(s, q) = -1
  BY <1>8, <1>13, <1>14
<1>15. CASE Level(s, q) # -1
  <2>1. Level(s, q) \in 0 .. M - 1
    BY <1>4, <1>11, <1>12, <1>15
  <2>2. q < s.nextIn \/ s.nextIn = s.v1
    <3> SUFFICES ASSUME q >= s.nextIn, s.nextIn # s.v1 PROVE FALSE
      BY <1>2, <1>10
    <3>1. p < s.nextIn
      BY <1>3 DEF Beyond
    <3>2. q = s.nextIn /\ s.nextIn < s.v1
      BY <1>1, <1>2, <1>3, <1>8, <3>1
    <3>3. q \in KeptRows(s) /\ q \in SlottedRows(s)
      <4>1. Level(s, q) >= 0
        BY <1>4, <2>1
      <4> QED
        BY <1>1, <1>10, <4>1, LevelHeld
    <3>4. SourceRow(s, q) = q
      <4>1. IsReal(s, q)
        BY <1>1, <1>2, <3>2 DEF IsReal
      <4> QED
        BY <4>1 DEF SourceRow
    <3>5. SourceRow(s, q) < s.nextIn
      BY <1>1, <1>4, <2>1, <3>3 DEF Arrived
    <3> QED
      BY <1>2, <3>2, <3>4, <3>5
  <2>3. Waits(s, q)
    BY <1>10, <1>13, <2>1, <2>2 DEF Waits, Beyond, M
  <2>4. RowRank(s, q) < RowRank(s, p)
    <3>1. p % 2 = s.first \/ q % 2 = s.first
      BY <1>2, <1>10
    <3>2. 2 * Level(s, q) + (IF q % 2 = s.first THEN 0 ELSE 1) < 2 * c + (IF p % 2 = s.first THEN 0 ELSE 1)
      BY <1>4, <1>8, <1>9, <1>10, <1>11, <3>1
    <3> QED
      BY <3>2 DEF RowRank, c
  <2> QED
    BY <1>8, <2>3, <2>4
<1> QED
  BY <1>14, <1>15

\* Hence at most as far away as its rank says.
LEMMA WaitsNear ==
  ASSUME NEW s, NEW tag, InRing(s, tag), AtRest(s), Leaving(s), NEW p, Waits(s, p)
  PROVE  /\ RowRank(s, p) \in 0 .. 3
         /\ \E q \in p - (RowRank(s, p) + 1) .. p + (RowRank(s, p) + 1) :
              Level(s, q) = -1 /\ (q >= s.nextOut \/ s.nextOut = s.v0)
<1> DEFINE Ends(q) == Level(s, q) = -1 /\ (q >= s.nextOut \/ s.nextOut = s.v0)
           rk(x) == RowRank(s, x)
<1>1. ASSUME NEW x, Waits(s, x) PROVE x \in Int /\ rk(x) \in 0 .. 3
  <2>1. x \in Int /\ Level(s, x) \in 0 .. MaxLevel(s.xf) - 1
    BY <1>1 DEF Waits
  <2>2. Level(s, x) \in 0 .. 1
    BY <2>1 DEF MaxLevel
  <2> QED
    BY <2>1, <2>2 DEF RowRank
<1> HIDE DEF Ends, rk
<1>2. ASSUME NEW x, Waits(s, x)
      PROVE  \E y \in {x - 1, x + 1} : Ends(y) \/ (Waits(s, y) /\ rk(y) < rk(x))
  BY <1>2, WaitsFor DEF Ends, rk
<1>3. ASSUME NEW n \in 0 .. 3,
             \A y : Waits(s, y) /\ rk(y) < n => \E q \in y - (rk(y) + 1) .. y + (rk(y) + 1) : Ends(q),
             NEW x, Waits(s, x), rk(x) = n
      PROVE  \E q \in x - (rk(x) + 1) .. x + (rk(x) + 1) : Ends(q)
  <2>1. x \in Int
    BY <1>1, <1>3
  <2>2. PICK y \in {x - 1, x + 1} : Ends(y) \/ (Waits(s, y) /\ rk(y) < rk(x))
    BY <1>2, <1>3
  <2>3. CASE Ends(y)
    <3>1. y \in x - (rk(x) + 1) .. x + (rk(x) + 1)
      BY <1>3, <2>1, <2>2
    <3> QED
      BY <2>3, <3>1
  <2>4. CASE Waits(s, y) /\ rk(y) < rk(x)
    <3>1. PICK q \in y - (rk(y) + 1) .. y + (rk(y) + 1) : Ends(q)
      BY <1>3, <2>4
    <3>2. y \in Int /\ rk(y) \in 0 .. 3
      BY <1>1, <2>4
    <3>3. q \in x - (rk(x) + 1) .. x + (rk(x) + 1)
      BY <1>3, <2>1, <2>2, <2>4, <3>1, <3>2
    <3> QED
      BY <3>1, <3>3
  <2> QED
    BY <2>2, <2>3, <2>4
<1> DEFINE Near(n) == \A y : Waits(s, y) /\ rk(y) < n =>
                        \E q \in y - (rk(y) + 1) .. y + (rk(y) + 1) : Ends(q)
<1>4. Near(0)
  BY <1>1
<1>5. ASSUME NEW n \in 0 .. 3, Near(n) PROVE Near(n + 1)
  <2> SUFFICES ASSUME NEW x, Waits(s, x), rk(x) < n + 1
               PROVE  \E q \in x - (rk(x) + 1) .. x + (rk(x) + 1) : Ends(q)
    OBVIOUS
  <2>1. CASE rk(x) = n
    BY <1>3, <1>5, <2>1
  <2>2. CASE rk(x) # n
    <3>1. rk(x) < n
      BY <1>1, <2>2
    <3> QED
      BY <1>5, <3>1
  <2> QED
    BY <2>1, <2>2
<1> HIDE DEF Near
<1>6. Near(4)
  <2>1. Near(1)
    BY <1>4, <1>5
  <2>2. Near(2)
    BY <1>5, <2>1
  <2>3. Near(3)
    BY <1>5, <2>2
  <2> QED
    BY <1>5, <2>3
<1>7. rk(p) \in 0 .. 3
  BY <1>1
<1>8. \E q \in p - (rk(p) + 1) .. p + (rk(p) + 1) : Ends(q)
  BY <1>6, <1>7 DEF Near
<1> QED
  BY <1>7, <1>8 DEF rk, Ends

\* A ring at rest holds back its next row only for want of one of the next four.
LEMMA NotHeldBack ==
  ASSUME NEW s, NEW tag, InRing(s, tag), AtRest(s), Leaving(s), s.nextOut < s.v1, ~ Ready(s)
  PROVE  s.nextIn < s.v1 /\ s.nextIn <= s.nextOut + 4
<1> DEFINE M == MaxLevel(s.xf)
           p == s.nextOut
<1>1. /\ Shaped(s) /\ Arrived(s) /\ s.nextIn <= s.v1
      /\ s.v0 <= s.origin /\ s.origin <= p /\ p <= s.nextIn
      /\ s.origin = s.v0 \/ s.origin < p
  BY DEF InRing, Leaving
<1>2. /\ s.v0 \in Nat /\ s.v1 \in Nat /\ s.v1 >= s.v0 + 2 /\ s.origin \in Nat
      /\ s.nextIn \in Nat /\ p \in Nat
      /\ s.topN \in 1 .. 4 /\ s.botN \in 1 .. 4 /\ s.first \in {0, 1} /\ Outer(s) \in {1, 3}
  BY <1>1, RangesAre
<1>3. M \in {1, 2} /\ Outer(s) = 2 * M - 1
  BY DEF MaxLevel, Outer
<1>4. /\ s.topN = Outer(s) + (IF s.v0 % 2 = s.first THEN 0 ELSE 1)
      /\ s.botN = Outer(s) + (IF s.v1 % 2 = s.first THEN 1 ELSE 0)
  BY <1>1 DEF Shaped, Ranges
<1>5. IsReal(s, p) /\ SourceRow(s, p) = p /\ p \in SlottedRows(s) /\ p \in KeptRows(s)
  <2>1. IsReal(s, p)
    BY <1>1, <1>2 DEF IsReal
  <2> HIDE DEF p
  <2>2. p \in SlottedRows(s)
    BY <1>2, <2>1 DEF IsReal, SlottedRows
  <2>3. ~ GivenUp(s, p)
    BY <1>1, <1>2 DEF GivenUp
  <2> QED
    BY <2>1, <2>2, <2>3 DEF SourceRow, KeptRows
<1>6. Level(s, p) \in -1 .. M - 1
  <2>1. ~ (Level(s, p) >= M)
    BY DEF Ready
  <2> HIDE DEF p
  <2>2. Level(s, p) \in -1 .. M
    BY <1>1, <1>5 DEF Arrived
  <2> HIDE DEF M
  <2> QED
    BY <1>3, <2>1, <2>2
<1>7. CASE Level(s, p) = -1
  <2> HIDE DEF p
  <2>1. ~ (SourceRow(s, p) < s.nextIn)
    BY <1>1, <1>5, <1>7 DEF Arrived
  <2>2. s.nextIn = p
    BY <1>1, <1>2, <1>5, <2>1
  <2> QED
    BY <1>2, <2>2 DEF p
<1>8. CASE Level(s, p) # -1
  <2>1. Waits(s, p) /\ RowRank(s, p) <= 2 * M - 2 + (IF p % 2 = s.first THEN 0 ELSE 1)
    <3> HIDE DEF p, M
    <3>1. Level(s, p) \in 0 .. M - 1
      BY <1>3, <1>6, <1>8
    <3>2. SourceRow(s, p) < s.nextIn
      BY <1>1, <1>3, <1>5, <3>1 DEF Arrived
    <3>3. Beyond(s, p)
      BY <1>2, <1>5, <3>2 DEF Beyond, p
    <3> QED
      BY <1>2, <1>3, <3>1, <3>3 DEF Waits, RowRank, M
  <2>2. /\ RowRank(s, p) \in 0 .. 3
        /\ \E q \in p - (RowRank(s, p) + 1) .. p + (RowRank(s, p) + 1) :
              Level(s, q) = -1 /\ (q >= p \/ p = s.v0)
    BY <2>1, WaitsNear
  <2> DEFINE k == RowRank(s, p) + 1
  <2> HIDE DEF p, k, M
  <2>3. k \in 1 .. 4 /\ k <= Outer(s) + (IF p % 2 = s.first THEN 0 ELSE 1)
    BY <1>2, <1>3, <2>1, <2>2 DEF k
  <2>4. PICK q \in p - k .. p + k : Level(s, q) = -1 /\ (q >= p \/ p = s.v0)
    BY <2>2 DEF k
  <2>5. q \in Int /\ p - k <= q /\ q <= p + k
    BY <1>2, <2>3, <2>4
  <2>6. q \in SlottedRows(s)
    <3>1. q >= s.v0 - s.topN
      <4>1. CASE p = s.v0
        BY <1>2, <1>4, <2>3, <2>5, <4>1
      <4>2. CASE p # s.v0
        BY <1>1, <1>2, <2>4, <2>5, <4>2
      <4> QED
        BY <4>1, <4>2
    <3>2. q <= s.v1 + s.botN - 1
      <4>1. CASE p = s.v1 - 1
        <5>1. p % 2 = s.first <=> s.v1 % 2 # s.first
          BY <1>2, <4>1
        <5> QED
          BY <1>2, <1>4, <2>3, <2>5, <4>1, <5>1
      <4>2. CASE p # s.v1 - 1
        <5>1. p <= s.v1 - 2
          BY <1>2, <4>2 DEF p
        <5>2. k <= Outer(s) + 1 /\ s.botN >= Outer(s)
          BY <1>2, <1>4, <2>3
        <5> QED
          BY <1>2, <2>3, <2>5, <5>1, <5>2
      <4> QED
        BY <4>1, <4>2
    <3> QED
      BY <1>2, <2>5, <3>1, <3>2 DEF SlottedRows
  <2>7. q \in KeptRows(s)
    <3>1. ~ GivenUp(s, q)
      BY <1>1, <1>2, <2>4, <2>5 DEF GivenUp, IsReal
    <3> QED
      BY <2>6, <3>1 DEF KeptRows
  <2>8. ~ (SourceRow(s, q) < s.nextIn)
    BY <1>1, <2>4, <2>7 DEF Arrived
  <2>9. /\ SourceRow(s, q) \in s.v0 .. s.v1 - 1
        /\ SourceRow(s, q) <= q \/ SourceRow(s, q) <= 2 * s.v0 - q
    BY <1>1, <2>6, SourceRowIs
  <2>10. SourceRow(s, q) <= p + 4
    BY <1>1, <1>2, <2>3, <2>4, <2>5, <2>9
  <2> QED
    BY <1>2, <2>8, <2>9, <2>10 DEF p
<1> QED
  BY <1>7, <1>8

-----------------------------------------------------------------------------
(* A ring between two rows of the source. *)

\* A ring between two rows of the source: what it holds is right, no row can be
\* lifted, and the rows that left had all their steps.
Steady(s, tag) == InRing(s, tag) /\ Leaving(s) /\ AtRest(s)

\* The rows that left keep all their steps while levels only rise.
LEMMA LeavingStays ==
  ASSUME NEW s, NEW t, NEW tag, InRing(s, tag), Leaving(s), InRing(t, tag),
         t.v0 = s.v0, t.xf = s.xf, t.origin = s.origin, t.nextOut = s.nextOut,
         t.nextIn >= s.nextIn, \A p \in Int : Level(t, p) >= Level(s, p)
  PROVE  Leaving(t)
<1> DEFINE M == MaxLevel(s.xf)
<1>1. /\ s.v0 <= s.origin /\ s.origin <= s.nextOut /\ s.nextOut <= s.nextIn
      /\ s.origin = s.v0 \/ s.origin < s.nextOut
      /\ \A x \in s.origin .. s.nextOut - 1 : Level(s, x) = M
  BY DEF Leaving
<1>2. s.origin \in Nat /\ s.nextOut \in Nat /\ s.nextIn \in Nat /\ t.nextIn \in Nat
  BY RangesAre DEF InRing
<1>3. M \in {1, 2} /\ MaxLevel(t.xf) = M
  BY DEF MaxLevel
<1>4. ASSUME NEW x \in s.origin .. s.nextOut - 1 PROVE Level(t, x) = M
  <2>1. x \in Int
    BY <1>2
  <2>2. Level(s, x) = M /\ Level(t, x) >= Level(s, x)
    BY <1>1, <2>1
  <2>3. Level(t, x) \in Int
    BY <2>1, LevelOfRow DEF InRing
  <2> HIDE DEF M
  <2>4. Level(t, x) >= M /\ Level(t, x) >= 0
    BY <1>3, <2>2, <2>3
  <2>5. x \in KeptRows(t)
    BY <2>1, <2>4, LevelHeld DEF InRing
  <2>6. Level(t, x) \in -1 .. M
    BY <1>3, <2>5 DEF InRing, Arrived
  <2> QED
    BY <1>3, <2>3, <2>4, <2>6
<1>5. t.nextOut <= t.nextIn
  BY <1>1, <1>2
<1>6. \A x \in t.origin .. t.nextOut - 1 : Level(t, x) = MaxLevel(t.xf)
  BY <1>3, <1>4
<1> QED
  BY <1>1, <1>5, <1>6 DEF Leaving

\* The row that is ready is the picture's next one, with all its steps; it leaves.
LEMMA LeaveKeeps ==
  ASSUME NEW s, NEW tag, Steady(s, tag), Ready(s)
  PROVE  LET t == [s EXCEPT !.nextOut = @ + 1] IN
         /\ NextRow(s) = Row(tag, s.nextOut, MaxLevel(s.xf))
         /\ Steady(t, tag) /\ Moved(s, t) /\ t.nextIn = s.nextIn /\ t.nextOut = s.nextOut + 1
         /\ s.nextOut < s.nextIn
<1> DEFINE p == s.nextOut
           t == [s EXCEPT !.nextOut = @ + 1]
           M == MaxLevel(s.xf)
<1>1. InRing(s, tag) /\ Leaving(s) /\ AtRest(s)
  BY DEF Steady
<1>2. /\ s.v0 <= s.origin /\ s.origin <= p /\ p <= s.nextIn
      /\ s.origin = s.v0 \/ s.origin < p
      /\ \A x \in s.origin .. p - 1 : Level(s, x) = M
  BY <1>1 DEF Leaving
<1>3. /\ Shaped(s) /\ IsRing(s) /\ s.nextIn <= s.v1 /\ Arrived(s) /\ Faithful(s, tag)
      /\ Staggered(s) /\ s.nextIn <= s.origin + s.depth /\ s.origin <= s.nextIn
  BY <1>1 DEF InRing, Shaped
<1>4. /\ s.v0 \in Nat /\ s.v1 \in Nat /\ s.origin \in Nat /\ s.nextIn \in Nat /\ p \in Nat
  BY <1>3, RangesAre
<1>5. p < s.v1 /\ Level(s, p) >= M
  BY DEF Ready
<1>6. M \in {1, 2}
  BY DEF MaxLevel
<1>7. Level(s, p) = M /\ p \in KeptRows(s) /\ p \in Int /\ p \in SlottedRows(s)
  <2>1. Level(s, p) \in Int
    BY <1>3, <1>4, LevelOfRow
  <2>2. Level(s, p) >= 0 /\ p \in Int
    BY <1>4, <1>5, <1>6, <2>1
  <2> HIDE DEF p, M
  <2>3. p \in KeptRows(s) /\ p \in SlottedRows(s)
    BY <1>3, <2>2, LevelHeld
  <2>4. Level(s, p) \in -1 .. M
    BY <1>3, <2>3 DEF Arrived, M
  <2> QED
    BY <1>5, <1>6, <2>1, <2>2, <2>3, <2>4
<1>8. SourceRow(s, p) = p
  <2>1. IsReal(s, p)
    BY <1>2, <1>4, <1>5 DEF IsReal
  <2> HIDE DEF p
  <2> QED
    BY <2>1 DEF SourceRow
<1>9. p < s.nextIn
  <2>1. Level(s, p) >= 0
    BY <1>6, <1>7
  <2> QED
    BY <1>3, <1>7, <1>8, <2>1 DEF Arrived
<1>10. NextRow(s) = Row(tag, p, M)
  <2>1. Level(s, p) >= 0
    BY <1>6, <1>7
  <2>2. CellAt(s, p).val = Row(tag, SourceRow(s, p), Level(s, p))
    BY <1>3, <1>7, <2>1 DEF Faithful
  <2> QED
    BY <1>7, <1>8, <2>2 DEF NextRow, CellAt
<1>11. Moved(s, t) /\ t.nextIn = s.nextIn /\ t.nextOut = p + 1
  BY <1>3, <1>4 DEF IsRing, RingFields, Moved
<1> HIDE DEF t
<1>12. /\ Shaped(t)
       /\ t.v0 = s.v0 /\ t.v1 = s.v1 /\ t.xf = s.xf /\ t.first = s.first /\ t.depth = s.depth
       /\ t.topN = s.topN /\ t.botN = s.botN /\ t.origin = s.origin
       /\ KeptRows(t) = KeptRows(s)
       /\ \A x : /\ SourceRow(t, x) = SourceRow(s, x)
                 /\ CellAt(t, x) = CellAt(s, x) /\ Level(t, x) = Level(s, x)
  BY <1>3, <1>11, MovedAre
<1>13. Arrived(t) /\ Faithful(t, tag) /\ Staggered(t)
  BY <1>3, <1>11, <1>12 DEF Arrived, Faithful, Staggered
<1>14. InRing(t, tag)
  BY <1>2, <1>3, <1>11, <1>12, <1>13 DEF InRing
<1>15. AtRest(t)
  <2>1. Lo(t) = Lo(s) /\ Hi(t) = Hi(s)
    BY <1>11, <1>12, Zenon DEF Lo, Hi, Margin
  <2>2. \A x, c : NeighbourLevel(t, x, c) = NeighbourLevel(s, x, c)
    BY <1>12 DEF NeighbourLevel
  <2>3. \A x, c, n : Able(t, x, c, n) = Able(s, x, c, n)
    BY <1>12 DEF Able
  <2> QED
    BY <1>1, <1>12, <2>1, <2>2, <2>3 DEF AtRest
<1>16. Leaving(t)
  <2>1. ASSUME NEW x \in s.origin .. p PROVE Level(t, x) = M
    <3>1. x = p \/ x \in s.origin .. p - 1
      BY <1>4
    <3> QED
      BY <1>2, <1>7, <1>12, <3>1
  <2>2. p + 1 - 1 = p
    BY <1>4
  <2>3. s.origin < p + 1 /\ s.origin <= p + 1 /\ p + 1 <= s.nextIn
    BY <1>2, <1>4, <1>9
  <2>4. /\ t.origin = s.origin /\ t.v0 = s.v0 /\ t.nextIn = s.nextIn /\ t.nextOut = p + 1
        /\ MaxLevel(t.xf) = M
    BY <1>11, <1>12
  <2>5. t.v0 <= t.origin /\ t.origin <= t.nextOut /\ t.nextOut <= t.nextIn /\ t.origin < t.nextOut
    BY <1>2, <2>3, <2>4
  <2>6. \A x \in t.origin .. t.nextOut - 1 : Level(t, x) = MaxLevel(t.xf)
    <3>1. t.nextOut - 1 = p /\ t.origin = s.origin
      BY <2>4, <1>4
    <3> HIDE DEF M, p
    <3> QED
      BY <2>1, <2>4, <3>1
  <2> QED
    BY <2>5, <2>6 DEF Leaving
<1> QED
  BY <1>9, <1>10, <1>11, <1>14, <1>15, <1>16 DEF Steady, t

\* A ring nothing has entered.
LEMMA NewRingSteady ==
  ASSUME NEW s, NEW tag, Shaped(s), s.origin = s.v0, s.nextIn = s.v0, s.nextOut = s.v0,
         \A k \in 0 .. s.depth + 7 : s.cells[k].lvl = -1
  PROVE  Steady(s, tag)
<1>1. s.v0 \in Nat /\ s.v1 \in Nat /\ s.v1 >= s.v0 + 2 /\ s.depth \in {8, 12}
  BY RangesAre
<1>2. \A p \in Int : Level(s, p) = -1
  <2> SUFFICES ASSUME NEW p \in Int PROVE Level(s, p) = -1
    OBVIOUS
  <2>1. CASE HasSlot(s, p)
    <3>1. Level(s, p) = CellAt(s, p).lvl
      BY <2>1, LevelOfRow
    <3>2. SlotOf(s, p) \in 0 .. s.depth + 7
      BY <2>1, SlotOfRow DEF HasSlot
    <3> QED
      BY <3>1, <3>2 DEF CellAt
  <2>2. CASE ~ HasSlot(s, p)
    BY <2>2, LevelOfRow
  <2> QED
    BY <2>1, <2>2
<1>3. \A p \in KeptRows(s) : p \in Int /\ p \in SlottedRows(s)
  BY HeldInt
<1>4. MaxLevel(s.xf) \in {1, 2}
  BY DEF MaxLevel
<1>5. Arrived(s)
  <2> SUFFICES ASSUME NEW p \in KeptRows(s)
               PROVE  Level(s, p) \in -1 .. MaxLevel(s.xf) /\ (Level(s, p) >= 0 <=> SourceRow(s, p) < s.v0)
    BY DEF Arrived
  <2>1. SourceRow(s, p) \in s.v0 .. s.v1 - 1
    BY <1>3, SourceRowIs
  <2>2. Level(s, p) = -1
    BY <1>2, <1>3
  <2> QED
    BY <1>1, <1>4, <2>1, <2>2
<1>6. Faithful(s, tag)
  BY <1>2, <1>3 DEF Faithful
<1>7. Staggered(s)
  BY <1>2, <1>3 DEF Staggered
<1>8. InRing(s, tag)
  BY <1>1, <1>5, <1>6, <1>7 DEF InRing
<1>9. Leaving(s)
  BY <1>1 DEF Leaving
<1>10. AtRest(s)
  <2> SUFFICES ASSUME NEW p \in Lo(s) .. Hi(s) - 1, NEW cur \in 0 .. MaxLevel(s.xf) - 1,
                      Able(s, p, cur, NeighbourLevel(s, p, cur))
               PROVE  FALSE
    BY DEF AtRest
  <2>1. p \in Int
    BY WindowInt
  <2>2. Level(s, p) = -1
    BY <1>2, <2>1
  <2> QED
    BY <2>2 DEF Able
<1> QED
  BY <1>8, <1>9, <1>10 DEF Steady


\* Giving up rows that left, but for the last one, leaves the others steady.
LEMMA EvictSteady ==
  ASSUME NEW s, NEW tag, Steady(s, tag), NEW o \in s.origin .. s.nextOut - 1, NEW t, t = EvictTo(s, o)
  PROVE  /\ Steady(t, tag) /\ DOMAIN t = DOMAIN s /\ t.origin = o
         /\ \A f \in DOMAIN s : f \notin {"cells", "origin"} => t[f] = s[f]
<1>1. InRing(s, tag) /\ Leaving(s) /\ AtRest(s) /\ Shaped(s) /\ IsRing(s) /\ s.nextIn <= s.v1
  BY DEF Steady, InRing, Shaped
<1>2. s.v0 \in Nat /\ s.v1 \in Nat /\ s.origin \in Nat /\ s.nextIn \in Nat /\ s.nextOut \in Nat
  BY <1>1, RangesAre
<1>3. /\ s.v0 <= s.origin /\ s.nextOut <= s.nextIn
      /\ \A x \in s.origin .. s.nextOut - 1 : Level(s, x) = MaxLevel(s.xf)
  BY <1>1 DEF Leaving
<1>4. o \in Nat /\ s.origin <= o /\ o < s.nextOut /\ o \in s.origin .. s.nextIn
  BY <1>2, <1>3
<1>5. /\ InRing(t, tag) /\ DOMAIN t = DOMAIN s /\ t.origin = o
      /\ \A f \in DOMAIN s : f \notin {"cells", "origin"} => t[f] = s[f]
      /\ \A p \in KeptRows(t) : p \in KeptRows(s) /\ Level(t, p) = Level(s, p)
  BY <1>1, <1>4, EvictKeeps
<1>6. /\ t.v0 = s.v0 /\ t.v1 = s.v1 /\ t.xf = s.xf /\ t.first = s.first /\ t.depth = s.depth
      /\ t.topN = s.topN /\ t.botN = s.botN /\ t.nextIn = s.nextIn /\ t.nextOut = s.nextOut
  BY <1>1, <1>5 DEF IsRing, RingFields
<1>7. Leaving(t)
  <2>1. ASSUME NEW x \in o .. s.nextOut - 1 PROVE Level(t, x) = MaxLevel(s.xf)
    <3>1. /\ x \in Int /\ s.v0 <= x /\ x < s.v1 /\ ~ (x < o) /\ x \in s.origin .. s.nextOut - 1
      BY <1>1, <1>2, <1>3, <1>4
    <3>2. t.topN \in 1 .. 4 /\ t.botN \in 1 .. 4
      BY <1>5, RangesAre DEF InRing
    <3>3. x \in KeptRows(t)
      BY <1>2, <1>5, <1>6, <3>1, <3>2 DEF KeptRows, SlottedRows, GivenUp
    <3> QED
      BY <1>3, <1>5, <3>1, <3>3
  <2>2. t.v0 <= t.origin /\ t.origin <= t.nextOut /\ t.nextOut <= t.nextIn /\ t.origin < t.nextOut
    BY <1>2, <1>3, <1>4, <1>5, <1>6
  <2>3. \A x \in t.origin .. t.nextOut - 1 : Level(t, x) = MaxLevel(t.xf)
    BY <1>5, <1>6, <2>1
  <2> QED
    BY <2>2, <2>3 DEF Leaving
<1>8. AtRest(t)
  <2> SUFFICES ASSUME NEW p \in Lo(t) .. Hi(t) - 1, NEW cur \in 0 .. MaxLevel(t.xf) - 1,
                      Able(t, p, cur, NeighbourLevel(t, p, cur))
               PROVE  FALSE
    BY DEF AtRest
  <2> DEFINE n == NeighbourLevel(t, p, cur)
  <2>1. Margin(t) = Margin(s) /\ Hi(t) = Hi(s) /\ MaxLevel(t.xf) = MaxLevel(s.xf)
        /\ n = NeighbourLevel(s, p, cur)
    BY <1>6, Zenon DEF Margin, Hi, MaxLevel, NeighbourLevel
  <2>2. MaxLevel(s.xf) \in {1, 2} /\ s.topN \in 1 .. 4
    BY <1>1, RangesAre DEF MaxLevel
  <2>3. Lo(t) \in Int /\ Hi(t) \in Int /\ Lo(s) \in Int
    BY <1>1, <1>5, WindowInt DEF InRing
  <2>4. Margin(s) \in Nat
    BY <2>2 DEF Margin
  <2>5. Lo(s) <= Lo(t)
    <3> DEFINE m == Margin(s)
    <3>1. /\ Lo(s) = IF s.origin - m > s.v0 - s.topN THEN s.origin - m ELSE s.v0 - s.topN
          /\ Lo(t) = IF o - m > s.v0 - s.topN THEN o - m ELSE s.v0 - s.topN
      BY <1>5, <1>6, <2>1 DEF Lo
    <3> HIDE DEF m
    <3>2. m \in Nat
      BY <2>4 DEF m
    <3> QED
      BY <1>2, <1>4, <2>2, <3>1, <3>2
  <2>6. cur \in Nat /\ cur \in 0 .. MaxLevel(s.xf) - 1 /\ n \in Nat /\ p \in Int
    <3>1. cur \in Nat /\ cur \in 0 .. MaxLevel(s.xf) - 1
      BY <2>1, <2>2
    <3>2. n \in {cur, cur + 1}
      BY DEF NeighbourLevel
    <3> QED
      BY <2>3, <3>1, <3>2
  <2> HIDE DEF n
  <2>7. p \in Lo(s) .. Hi(s) - 1
    BY <2>1, <2>3, <2>5
  <2>8. ASSUME NEW x \in Int, Level(t, x) >= 0 PROVE Level(s, x) = Level(t, x)
    BY <1>5, <2>8, LevelHeld DEF InRing
  <2>9. /\ Level(t, p) = cur /\ Level(t, p - 1) >= n /\ Level(t, p + 1) >= n
        /\ p - 1 \in Int /\ p + 1 \in Int
    BY <2>6 DEF Able, n
  <2>10. Level(t, p - 1) \in Int /\ Level(t, p + 1) \in Int
    BY <1>5, <2>9, LevelOfRow DEF InRing
  <2>11. Level(t, p) >= 0 /\ Level(t, p - 1) >= 0 /\ Level(t, p + 1) >= 0
    BY <2>6, <2>9, <2>10
  <2>12. Able(s, p, cur, n)
    BY <2>6, <2>8, <2>9, <2>11 DEF Able
  <2> QED
    BY <1>1, <2>1, <2>6, <2>7, <2>12 DEF AtRest
<1> QED
  BY <1>5, <1>7, <1>8 DEF Steady

=============================================================================
