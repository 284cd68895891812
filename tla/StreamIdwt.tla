----------------------------- MODULE StreamIdwt -----------------------------
(***************************************************************************)
(* The streaming inverse transform of one resolution level: idwt_2d_state  *)
(* of core/transform/idwt.cpp. Rows are fetched one by one from a source   *)
(* callback into a ring of 8 slots, lifted in place as soon as their       *)
(* neighbours allow, and handed out in order.                              *)
(***************************************************************************)
EXTENDS LiftRing

IDWT_STATE_RING_DEPTH == 8

\* Extension rows by the parity of the border (even, odd) and by filter.
kPseTop == << <<3, 1>>, <<4, 2>> >>
kPseBot == << <<4, 2>>, <<3, 1>> >>

\* idwt_2d_state_init and idwt_2d_state_rewind: rewinding keeps the samples
\* of the last picture in their slots and forgets their levels.
IdwtInit(v0, v1, xf, dir) ==
  [dir |-> dir, v0 |-> v0, v1 |-> v1, xf |-> xf, first |-> 0,
   depth |-> IDWT_STATE_RING_DEPTH,
   topN |-> kPseTop[(v0 % 2) + 1][TableCol(xf)],
   botN |-> kPseBot[(v1 % 2) + 1][TableCol(xf)],
   origin |-> v0, nextIn |-> v0, nextOut |-> v0,
   cells |-> EmptyRing(IDWT_STATE_RING_DEPTH)]

\* Mutant: the rewound ring still takes the last picture's rows for its own.
IdwtRewindKeepsLevels(s) == [s EXCEPT !.origin = s.v0, !.nextIn = s.v0, !.nextOut = s.v0]

IdwtRewind(s) ==
  [s EXCEPT !.origin = s.v0, !.nextIn = s.v0, !.nextOut = s.v0,
            !.cells = [k \in DOMAIN @ |-> [@[k] EXCEPT !.lvl = -1]]]

\* cascade: low-pass rows first; four phases for the 9/7, two for the others.
IdwtCascade(s) ==
  LET first2 == Phase(Phase(s, 0, 0, 0), 1, 0, 1)
  IN  IF s.xf # 0 THEN first2 ELSE Phase(Phase(first2, 0, 1, 1), 1, 1, 2)

\* The eviction loops of pull_row_ref and fetch_one: rows that were handed out
\* make room for row nextIn, and no other row does.
MakeRoom(s) ==
  LET wish == s.nextIn - s.depth + 1
      o    == IF wish > s.nextOut THEN s.nextOut ELSE wish
  IN  IF o > s.origin THEN EvictTo(s, o) ELSE s

\* fetch_one, once the source has written val into the row's slot.
Fetched(s, val) ==
  LET r    == s.nextIn
      room == MakeRoom(s)
      in   == [Store(room, r, val) EXCEPT !.nextIn = r + 1]
  IN  IdwtCascade(FillPse(in, {r}))

\* A picture of one row, or a level without vertical synthesis, hands the
\* source's row on as it is (a single odd row of the 5/3 is halved).
PassThrough(s) == s.dir # "BIDIR" \/ s.v1 = s.v0 + 1
Passed(s, val) == IF val = Junk THEN Junk ELSE Row(val[1], val[2], MaxLevel(s.xf))

=============================================================================
