------------------------------ MODULE LiftRing ------------------------------
(***************************************************************************)
(* The sliding ring of rows that the streaming wavelet transforms lift in  *)
(* place: idwt_2d_state (synthesis, dwt.hpp and idwt.cpp) and              *)
(* fdwt_2d_state (analysis, fdwt.cpp) keep the same structure, and the     *)
(* operators here are what their static helpers share.                     *)
(*                                                                         *)
(* A state s is a record of                                                *)
(*   v0, v1     the rows of the level, v0 <= r < v1                        *)
(*   xf         transformation: 0 the 9/7 filter, 1 the 5/3, >= 2 ATK      *)
(*   depth      ring slots;  topN, botN   extension rows above and below   *)
(*   first      the parity that is lifted first: 1 (high pass) in the      *)
(*              analysis, 0 (low pass) in the synthesis                    *)
(*   origin     first row the ring still holds                             *)
(*   nextIn     next row to enter, nextOut  next row to leave              *)
(*   cells      slot -> [lvl, val]: d_level / top_dlevel / bot_dlevel, and *)
(*              the samples.                                               *)
(*                                                                         *)
(* Samples are abstracted to their provenance: <<tag, r, l>> is row r of   *)
(* the picture tag after l correct lifting steps, Junk anything else.      *)
(***************************************************************************)
EXTENDS Integers

Row(tag, r, l) == <<tag, r, l>>
Junk           == <<>>

\* An unfilled slot; its samples are whatever the allocation held.
Empty == [lvl |-> -1, val |-> Junk]

\* Levels a row goes through before it may leave (max_dl, max_dl_fdwt).
MaxLevel(xf) == IF xf = 0 THEN 2 ELSE 1

\* Column of the extension tables: every 2-step filter shares the 5/3's.
TableCol(xf) == IF xf = 0 THEN 1 ELSE 2

----------------------------------------------------------------------------
(* Symmetric extension.                                                    *)

\* PSEo: offset of the row that position i mirrors, for the rows i0 .. i1-1.
PSEo(i, i0, i1) ==
  LET tmp0 == 2 * (i1 - i0 - 1)
      tmp1 == IF i < i0 THEN i0 - i ELSE i - i0
      mod  == tmp1 % tmp0
  IN  IF mod < tmp0 - mod THEN mod ELSE tmp0 - mod

PseSource(s, p) == s.v0 + PSEo(p, s.v0, s.v1)

PseRows(s) == (s.v0 - s.topN .. s.v0 - 1) \cup (s.v1 .. s.v1 + s.botN - 1)

----------------------------------------------------------------------------
(* Slots and levels.                                                       *)

IsReal(s, r) == s.v0 <= r /\ r < s.v1

\* rptr: a real row lives in ring slot r % depth whatever the origin is; the
\* extension rows have four slots of their own on either side.
SlotOf(s, r) == IF IsReal(s, r) THEN r % s.depth
                ELSE IF r < s.v0 THEN s.depth + (s.v0 - 1 - r)
                ELSE s.depth + 4 + (r - s.v1)

\* get_dl: -1 outside the ring's window and outside the extension.
Level(s, r) ==
  IF IsReal(s, r)
    THEN IF r < s.origin \/ r >= s.origin + s.depth THEN -1
         ELSE s.cells[SlotOf(s, r)].lvl
    ELSE IF r \in PseRows(s) THEN s.cells[SlotOf(s, r)].lvl ELSE -1

\* Some row is ready to leave: the next one has all its lifting steps.
Ready(s) == s.nextOut < s.v1 /\ Level(s, s.nextOut) >= MaxLevel(s.xf)

NextRow(s) == s.cells[SlotOf(s, s.nextOut)].val

\* The slots of a ring nothing has entered: the _init functions' last lines.
EmptyRing(depth) == [k \in 0 .. depth + 7 |-> Empty]

\* The samples of row r arrive, at level 0.
Store(s, r, val) == [s EXCEPT !.cells[SlotOf(s, r)] = [lvl |-> 0, val |-> val]]

\* The samples put into the slots of some rows at once: cell[r] into row r's.
Put(s, cell) ==
  [s EXCEPT !.cells = [k \in DOMAIN @ |->
     IF \E r \in DOMAIN cell : SlotOf(s, r) = k
     THEN cell[CHOOSE r \in DOMAIN cell : SlotOf(s, r) = k] ELSE @[k]]]

\* fill_pse, fill_pse_f: each row of a set is copied to every unfilled
\* extension row it mirrors. No copy is the source of another, and each has a
\* slot of its own: the order of the loops makes no difference.
FillPse(s, rows) ==
  Put(s, [p \in {q \in PseRows(s) : Level(s, q) < 0 /\ PseSource(s, q) \in rows} |->
            [lvl |-> 0, val |-> s.cells[SlotOf(s, PseSource(s, p))].val]])

\* Give up the rows of the ring before row o.
EvictTo(s, o) ==
  [s EXCEPT !.origin = o,
            !.cells = [k \in DOMAIN @ |-> IF \E r \in s.origin .. o - 1 : k = r % s.depth
                                          THEN [@[k] EXCEPT !.lvl = -1] ELSE @[k]]]

----------------------------------------------------------------------------
(* Lifting.                                                                *)

\* The level a step on a row at level cur must find its neighbours at.
NeighbourLevel(s, r, cur) == IF r % 2 = s.first THEN cur ELSE cur + 1

\* The picture's row next to row r, at distance d, mirrored at the borders.
Beside(s, r, d) == LET n == r + d IN
                   IF n < s.v0 THEN 2 * s.v0 - n
                   ELSE IF n >= s.v1 THEN 2 * (s.v1 - 1) - n ELSE n

\* adv_step, adv_step_f: the in-place step tgt -= coeff * (prev + next). It
\* leaves the row's next level when the three slots hold, of one picture, the
\* row at level cur and its two neighbours at the level the filter asks for.
Lifted(s, r, cur) ==
  LET tgt  == s.cells[SlotOf(s, r)].val
      near == {s.cells[SlotOf(s, n)].val : n \in {r - 1, r + 1}}
      need == NeighbourLevel(s, r, cur)
      want == {Row(tgt[1], Beside(s, tgt[2], d), need) : d \in {-1, 1}}
  IN  [lvl |-> cur + 1,
       val |-> IF tgt # Junk /\ tgt[3] = cur /\ near = want
               THEN Row(tgt[1], tgt[2], cur + 1) ELSE Junk]

\* The window a cascade scans: lo follows the ring's origin, hi the input.
Margin(s) == s.topN + 2 * MaxLevel(s.xf) + 2
Lo(s)     == IF s.origin - Margin(s) > s.v0 - s.topN
             THEN s.origin - Margin(s) ELSE s.v0 - s.topN
Hi(s)     == (IF s.nextIn < s.v1 THEN s.nextIn ELSE s.v1) + s.botN

\* Row r is at level cur and its neighbours have reached need.
Able(s, r, cur, need) ==
  Level(s, r) = cur /\ Level(s, r - 1) >= need /\ Level(s, r + 1) >= need

\* One phase of a cascade: every row of one parity, in the window. A step
\* reads rows of the other parity only, so that the loop's order is as good as
\* any other, and as all steps at once.
Phase(s, parity, cur, need) ==
  Put(s, [r \in {q \in Lo(s) .. Hi(s) - 1 : q % 2 = parity /\ Able(s, q, cur, need)} |->
            Lifted(s, r, cur)])

=============================================================================
