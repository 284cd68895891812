----------------------------- MODULE StreamFdwt -----------------------------
(***************************************************************************)
(* The streaming forward transform of one resolution level: fdwt_2d_state  *)
(* of core/transform/fdwt.cpp. Rows are pushed into a ring of 12 slots,    *)
(* lifted as soon as their neighbours allow, and emitted in order to a     *)
(* sink; flush drains what the bottom border still holds back.             *)
(***************************************************************************)
EXTENDS LiftRing, FiniteSetsExt

FDWT_STATE_RING_DEPTH == 12

\* The mirror image of the synthesis's tables.
kPseFdwtTop == << <<4, 2>>, <<3, 1>> >>
kPseFdwtBot == << <<3, 1>>, <<4, 2>> >>

\* fdwt_2d_state_init.
FdwtInit(v0, v1, xf) ==
  [flushed |-> FALSE, v0 |-> v0, v1 |-> v1, xf |-> xf, first |-> 1,
   depth |-> FDWT_STATE_RING_DEPTH,
   topN |-> kPseFdwtTop[(v0 % 2) + 1][TableCol(xf)],
   botN |-> kPseFdwtBot[(v1 % 2) + 1][TableCol(xf)],
   origin |-> v0, nextIn |-> v0, nextOut |-> v0,
   cells |-> EmptyRing(FDWT_STATE_RING_DEPTH)]

OneRow(s) == s.v1 = s.v0 + 1

\* can_adv_f and adv_step_f on row r of the 9/7.
Tried(s, r) ==
  LET cur == Level(s, r)
  IN  IF /\ 0 <= cur /\ cur < MaxLevel(s.xf)
         /\ Able(s, r, cur, NeighbourLevel(s, r, cur))
      THEN [s EXCEPT !.cells[SlotOf(s, r)] = Lifted(s, r, cur)] ELSE s

\* One pass of the 9/7's generic loop, in ascending order: a row may see what
\* the step on the row before has left.
AscendingPass(s) ==
  LET upTo[r \in Lo(s) - 1 .. Hi(s) - 1] == IF r < Lo(s) THEN s ELSE Tried(upTo[r - 1], r)
  IN  upTo[Hi(s) - 1]

\* while (progress): passes until one changes nothing. A pass that changes
\* something raises the level of a row, so that the loop ends.
UntilStable(s) ==
  LET passes == MaxLevel(s.xf) * Cardinality(DOMAIN s.cells)
      after[n \in 0 .. passes] == IF n = 0 THEN s ELSE AscendingPass(after[n - 1])
      last == CHOOSE n \in 0 .. passes - 1 : after[n + 1] = after[n]
  IN  [s EXCEPT !.cells = after[last].cells]

\* cascade_f: two phases for the 2-step filters, high-pass rows first.
FdwtCascade(s) == IF s.xf # 0 THEN Phase(Phase(s, 1, 0, 0), 0, 0, 1)
                  ELSE UntilStable(s)

\* fdwt_2d_state_push_row, up to its emit_ready_f; a level of one row only
\* keeps it, and rows past the last one are ignored.
Pushed(s, val) ==
  LET r  == s.nextIn
      in == [Store(s, r, val) EXCEPT !.nextIn = r + 1]
  IN  IF r >= s.v1 THEN s
      ELSE IF OneRow(s)
        THEN [s EXCEPT !.nextIn = r + 1, !.cells[SlotOf(s, r)].val = val]
      ELSE FdwtCascade(FillPse(in, {r}))

\* Rows some unfilled bottom extension row mirrors and the ring still holds.
LateSources(s) ==
  {PseSource(s, p) : p \in {q \in s.v1 .. s.v1 + s.botN - 1 : Level(s, q) < 0}}
    \cap {r \in s.origin .. s.origin + s.depth - 1 : Level(s, r) >= 0}

\* fdwt_2d_state_flush, up to its emit_ready_f.
Flushed(s) ==
  LET t == [s EXCEPT !.flushed = TRUE] IN
  IF OneRow(s) \/ s.v1 = s.v0 THEN t
  ELSE FdwtCascade(FillPse(t, LateSources(t)))

\* A row is ready for emit_ready_f, or for flush's case of a single row.
CanEmit(s) ==
  IF OneRow(s) THEN s.flushed /\ s.nextIn = s.v1 /\ s.nextOut = s.v0
  ELSE Ready(s)

Emittee(s) ==
  IF OneRow(s) /\ NextRow(s) # Junk
  THEN Row(NextRow(s)[1], NextRow(s)[2], MaxLevel(s.xf)) ELSE NextRow(s)

\* Mutant: slots are reclaimed right behind next_emit, whose row still needs them.
EmittedGreedy(s) ==
  LET t == [s EXCEPT !.nextOut = @ + 1] IN IF OneRow(s) THEN t ELSE EvictTo(t, t.nextOut)

\* The rest of an emission: ring slots four rows behind next_emit are
\* reclaimed as long as their row is finished.
Emitted(s) ==
  LET t    == [s EXCEPT !.nextOut = @ + 1]
      stop == {r \in t.origin .. t.nextOut - 5 : Level(t, r) < MaxLevel(t.xf)}
      last == t.nextOut - 4
      o    == IF stop = {} THEN last ELSE Min(stop)
  IN  IF OneRow(s) \/ o <= t.origin THEN t ELSE EvictTo(t, o)

=============================================================================
