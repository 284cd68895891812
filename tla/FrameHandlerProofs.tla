------------------------- MODULE FrameHandlerProofs -------------------------
(***************************************************************************)
(* Proofs about frame assembly, for any streams, any width of the sequence *)
(* number and any bounds on losses and delays below it: no frame is lost   *)
(* from the counters, and a frame that is handed out is complete.          *)
(***************************************************************************)
EXTENDS FrameHandler, WellFoundedInduction, TLAPS

----------------------------------------------------------------------------
(* Division with remainder, and least numbers.                             *)

\* Division with remainder.
LEMMA DivMod ==
  ASSUME NEW a \in Int, NEW N \in Nat \ {0}
  PROVE  a \div N \in Int /\ a % N \in 0 .. N - 1 /\ a = N * (a \div N) + (a % N)
OBVIOUS

\* The only multiple of N below N is 0.
LEMMA SmallMultiple ==
  ASSUME NEW q \in Int, NEW N \in Nat \ {0}, NEW d \in 0 .. N - 1, d = N * q
  PROVE  d = 0
<1>1. CASE q <= -1
  <2>1. N * q <= -N BY <1>1
  <2>2. QED BY <2>1
<1>2. CASE q >= 1
  <2>1. N * q >= N BY <1>2
  <2>2. QED BY <2>1
<1>3. CASE q = 0 BY <1>3
<1>4. QED BY <1>1, <1>2, <1>3

\* The remainder is determined by the congruence class.
LEMMA ModUnique ==
  ASSUME NEW a \in Int, NEW k \in Int, NEW N \in Nat \ {0}, NEW d \in 0 .. N - 1,
         a = N * k + d
  PROVE  a % N = d
<1> DEFINE e == a % N
           m == a \div N
<1>1. e \in 0 .. N - 1 /\ m \in Int /\ N * m + e = N * k + d
  BY DivMod
<1> HIDE DEF e, m
<1>2. CASE e >= d
  <2>1. e - d \in 0 .. N - 1 /\ e - d = N * (k - m) BY <1>1, <1>2
  <2>2. e - d = 0 BY <2>1, <1>1, SmallMultiple
  <2>3. QED BY <2>2, <1>1 DEF e
<1>3. CASE e < d
  <2>1. d - e \in 0 .. N - 1 /\ d - e = N * (m - k) BY <1>1, <1>3
  <2>2. d - e = 0 BY <2>1, <1>1, SmallMultiple
  <2>3. QED BY <2>2, <1>1 DEF e
<1>4. QED BY <1>1, <1>2, <1>3

\* Numbers that are congruent and less than N apart are equal.
LEMMA ModEqual ==
  ASSUME NEW a \in Int, NEW b \in Int, NEW N \in Nat \ {0},
         a - b < N, b - a < N, a % N = b % N
  PROVE  a = b
<1> DEFINE i == a \div N
           j == b \div N
           r == b % N
<1>1. i \in Int /\ j \in Int /\ r \in Int /\ a = N * i + r /\ b = N * j + r
  BY DivMod
<1> HIDE DEF i, j, r
<1>2. a - b = N * (i - j) /\ b - a = N * (j - i)
  BY <1>1
<1>3. CASE a >= b
  <2>1. a - b \in 0 .. N - 1 BY <1>3
  <2>2. a - b = 0 BY <1>1, <1>2, <2>1, SmallMultiple
  <2>3. QED BY <2>2
<1>4. CASE a < b
  <2>1. b - a \in 0 .. N - 1 BY <1>4
  <2>2. b - a = 0 BY <1>1, <1>2, <2>1, SmallMultiple
  <2>3. QED BY <2>2
<1>5. QED BY <1>3, <1>4

\* Every set of numbers that has an element has a least one.
LEMMA NatLeast ==
  ASSUME NEW S \in SUBSET Nat, S # {}
  PROVE  \E m \in S : \A k \in S : m <= k
<1> DEFINE R == {ss \in Nat \X Nat : ss[1] < ss[2]}
<1>1. IsWellFoundedOn(R, Nat)
  BY NatLessThanWellFounded DEF OpToRel
<1>2. \A x, y \in Nat : <<y, x>> \in R <=> y < x
  OBVIOUS
<1> HIDE DEF R
<1>3. \E x \in S : \A y \in S : ~ (<<y, x>> \in R)
  BY <1>1, WFMin
<1>4. PICK m \in S : \A y \in S : ~ (<<y, m>> \in R)
  BY <1>3
<1>5. ASSUME NEW k \in S PROVE m <= k
  <2>1. m \in Nat /\ k \in Nat
    OBVIOUS
  <2>2. ~ (k < m)
    BY <1>2, <1>4, <2>1
  <2> QED
    BY <2>1, <2>2
<1> QED
  BY <1>5

----------------------------------------------------------------------------

ESeqs == 0 .. SeqMod - 1

AssembledFrames ==
  [ts : Nat, bytes : Seq(Tokens), eseq_first : ESeqs, eseq_last : ESeqs,
   packet_count : Nat, has_meta : BOOLEAN]

Fields ==
  {"have_frame", "current_ts", "intact", "last_marker", "accum", "cached_main",
   "has_meta", "eseq_first", "packet_count", "first_ever", "last_ext_seq", "started",
   "frames_dropped", "tail_loss_drops", "seq_gaps", "out_frame"}

Handler(s) ==
  /\ DOMAIN s = Fields
  /\ s.have_frame \in BOOLEAN /\ s.intact \in BOOLEAN /\ s.last_marker \in BOOLEAN
  /\ s.has_meta \in BOOLEAN /\ s.first_ever \in BOOLEAN
  /\ s.accum \in Seq(Tokens) /\ s.cached_main \in Seq(Tokens)
  /\ s.current_ts \in Nat /\ s.eseq_first \in ESeqs /\ s.last_ext_seq \in ESeqs
  /\ s.packet_count \in Nat /\ s.started \in Nat /\ s.frames_dropped \in Nat
  /\ s.tail_loss_drops \in Nat /\ s.seq_gaps \in Nat
  /\ s.out_frame \in {None} \cup AssembledFrames

One(b) == IF b THEN 1 ELSE 0

LEMMA FrameIsNotNone == \A f \in AssembledFrames : f # None
<1> SUFFICES ASSUME NEW f \in AssembledFrames PROVE f # None
  OBVIOUS
<1>1. "bytes" \in DOMAIN f
  BY DEF AssembledFrames
<1>2. "bytes" \notin DOMAIN None
  BY DEF None
<1> QED
  BY <1>1, <1>2

LEMMA ExtSeqType == \A i \in Nat : ExtSeq(i) \in ESeqs
BY StreamAssumption DEF ExtSeq, ESeqs

-----------------------------------------------------------------------------
(* What the handler's methods do to its fields. *)

\* A frame is handed out if it is intact, has its marker and is not empty; otherwise it
\* is counted as dropped.
Emits(s) == s.intact /\ s.last_marker /\ s.accum # <<>>

LEMMA FinalizeFacts ==
  ASSUME NEW s, Handler(s), s.have_frame, NEW f, f = finalize_frame(s)
  PROVE  /\ Handler(f) /\ ~ f.have_frame /\ f.last_marker = s.last_marker
         /\ f.cached_main = s.cached_main /\ f.current_ts = s.current_ts
         /\ f.first_ever = s.first_ever /\ f.last_ext_seq = s.last_ext_seq
         /\ f.started = s.started /\ f.seq_gaps = s.seq_gaps
         /\ f.frames_dropped = s.frames_dropped + One(~ Emits(s))
         /\ ~ Emits(s) => f.out_frame = s.out_frame
         /\ Emits(s) => /\ f.out_frame \in AssembledFrames
                        /\ f.out_frame.ts = s.current_ts /\ f.out_frame.bytes = s.accum
<1> DEFINE out == [ts |-> s.current_ts, bytes |-> s.accum,
                   eseq_first |-> s.eseq_first, eseq_last |-> s.last_ext_seq,
                   packet_count |-> s.packet_count, has_meta |-> s.has_meta]
<1>1. out \in AssembledFrames /\ out.ts = s.current_ts /\ out.bytes = s.accum
  BY DEF Handler, Fields, AssembledFrames
<1> HIDE DEF out
<1>2. f = [s EXCEPT
             !.tail_loss_drops = IF s.intact /\ ~ s.last_marker THEN @ + 1 ELSE @,
             !.frames_dropped  = IF Emits(s) THEN @ ELSE @ + 1,
             !.out_frame = IF Emits(s) THEN out ELSE @,
             !.accum = <<>>, !.have_frame = FALSE, !.packet_count = 0,
             !.intact = TRUE, !.has_meta = FALSE]
  BY DEF finalize_frame, Emits, out, Handler, Fields
<1>3. <<>> \in Seq(Tokens)
  OBVIOUS
<1>4. Handler(f)
  BY <1>1, <1>2, <1>3, SMTT(60) DEF Handler, Fields
<1>5. /\ ~ f.have_frame /\ f.last_marker = s.last_marker
      /\ f.cached_main = s.cached_main /\ f.current_ts = s.current_ts
      /\ f.first_ever = s.first_ever /\ f.last_ext_seq = s.last_ext_seq
      /\ f.started = s.started /\ f.seq_gaps = s.seq_gaps
      /\ f.frames_dropped = IF Emits(s) THEN s.frames_dropped ELSE s.frames_dropped + 1
      /\ f.out_frame = IF Emits(s) THEN out ELSE s.out_frame
  BY <1>2, SMTT(60) DEF Handler, Fields
<1>6. s.frames_dropped \in Nat
  BY DEF Handler, Fields
<1> QED
  BY <1>1, <1>4, <1>5, <1>6 DEF One

LEMMA StartFacts ==
  ASSUME NEW s, Handler(s), NEW bytes \in Seq(Tokens), NEW ok \in BOOLEAN,
         NEW f, f = start_frame(s, bytes, ok)
  PROVE  /\ Handler(f) /\ f.have_frame /\ f.started = s.started + 1
         /\ f.accum = bytes /\ f.intact = ok
         /\ f.cached_main = s.cached_main /\ f.current_ts = s.current_ts
         /\ f.first_ever = s.first_ever /\ f.last_ext_seq = s.last_ext_seq
         /\ f.frames_dropped = s.frames_dropped /\ f.out_frame = s.out_frame
         /\ f.seq_gaps = s.seq_gaps
<1>1. Handler(f)
  BY DEF start_frame, Handler, Fields
<1>2. /\ f.have_frame /\ f.started = s.started + 1
      /\ f.accum = bytes /\ f.intact = ok
      /\ f.cached_main = s.cached_main /\ f.current_ts = s.current_ts
      /\ f.first_ever = s.first_ever /\ f.last_ext_seq = s.last_ext_seq
      /\ f.frames_dropped = s.frames_dropped /\ f.out_frame = s.out_frame
      /\ f.seq_gaps = s.seq_gaps
  BY SMTT(60) DEF start_frame, Handler, Fields
<1> QED
  BY <1>1, <1>2

\* A packet is in order when it is the first one ever or follows the last one.
InOrder(s, e) == s.first_ever \/ e = (s.last_ext_seq + 1) % SeqMod

LEMMA TrackFacts ==
  ASSUME NEW s, Handler(s), NEW e \in ESeqs, NEW f, f = track_sequence(s, e)
  PROVE  /\ Handler(f) /\ f.have_frame = s.have_frame /\ f.started = s.started
         /\ f.accum = s.accum /\ f.cached_main = s.cached_main
         /\ f.current_ts = s.current_ts
         /\ ~ f.first_ever /\ f.last_ext_seq = e
         /\ f.frames_dropped = s.frames_dropped /\ f.out_frame = s.out_frame
         /\ f.intact <=> (s.intact /\ InOrder(s, e))
         /\ f.seq_gaps = s.seq_gaps + One(~ InOrder(s, e))
<1> DEFINE Rest == /\ f.have_frame = s.have_frame /\ f.started = s.started
                   /\ f.accum = s.accum /\ f.cached_main = s.cached_main
                   /\ f.current_ts = s.current_ts
                   /\ ~ f.first_ever /\ f.last_ext_seq = e
                   /\ f.frames_dropped = s.frames_dropped /\ f.out_frame = s.out_frame
<1>1. s.seq_gaps \in Nat /\ s.intact \in BOOLEAN
  BY DEF Handler
<1>2. CASE s.first_ever
  <2>1. f = [s EXCEPT !.first_ever = FALSE, !.last_ext_seq = e]
    BY <1>2 DEF track_sequence
  <2>2. Handler(f) /\ Rest /\ f.intact = s.intact /\ f.seq_gaps = s.seq_gaps
    BY <2>1, SMTT(60) DEF Handler, Fields
  <2> QED
    BY <2>2, <1>1, <1>2 DEF InOrder, One
<1>3. CASE ~ s.first_ever /\ e # (s.last_ext_seq + 1) % SeqMod
  <2>1. f = [s EXCEPT !.seq_gaps = @ + 1, !.intact = FALSE, !.last_ext_seq = e]
    BY <1>3 DEF track_sequence
  <2>2. Handler(f) /\ Rest /\ f.intact = FALSE /\ f.seq_gaps = s.seq_gaps + 1
    BY <1>1, <1>3, <2>1, SMTT(60) DEF Handler, Fields
  <2> QED
    BY <2>2, <1>1, <1>3 DEF InOrder, One
<1>4. CASE ~ s.first_ever /\ e = (s.last_ext_seq + 1) % SeqMod
  <2>1. f = [s EXCEPT !.last_ext_seq = e]
    BY <1>4 DEF track_sequence
  <2>2. Handler(f) /\ Rest /\ f.intact = s.intact /\ f.seq_gaps = s.seq_gaps
    BY <1>4, <2>1, SMTT(60) DEF Handler, Fields
  <2> QED
    BY <2>2, <1>1, <1>4 DEF InOrder, One
<1> QED
  BY <1>2, <1>3, <1>4

\* The push continues the frame in progress.
Continues(s, p) == s.have_frame /\ p.ts = s.current_ts

\* What a frame consists of after a push.
Grown(s, p) ==
  IF Continues(s, p) THEN s.accum \o p.data
  ELSE IF p.kind = "main" THEN p.data
  ELSE s.cached_main \o p.data

\* What a push finds that leaves the frame intact.
Sound(s, p, e) ==
  /\ InOrder(s, e)
  /\ Continues(s, p) => s.intact
  /\ ~ Continues(s, p) /\ p.kind = "body" => s.cached_main # <<>>

LEMMA BeginFacts ==
  ASSUME NEW s, Handler(s), s.have_frame => ~ s.last_marker,
         NEW p \in Packets, NEW e \in ESeqs, NEW b, b = Begin(s, p, e)
  PROVE  /\ Handler(b) /\ b.have_frame /\ b.last_marker = p.marker
         /\ b.current_ts = p.ts /\ b.cached_main = s.cached_main
         /\ ~ b.first_ever /\ b.last_ext_seq = e /\ b.out_frame = s.out_frame
         /\ b.started - b.frames_dropped - 1
              = s.started - s.frames_dropped - One(s.have_frame)
         /\ b.seq_gaps = s.seq_gaps + One(~ InOrder(s, e))
         /\ b.intact <=> Sound(s, p, e)
         /\ b.accum = Grown(s, p)
<1> DEFINE t == IF s.have_frame /\ p.ts # s.current_ts THEN finalize_frame(s) ELSE s
           new == [t EXCEPT !.current_ts = p.ts, !.eseq_first = e]
           u == IF t.have_frame THEN t
                ELSE IF p.kind = "main" THEN start_frame_empty(new)
                ELSE start_frame_with_main_prepend(new)
           v == track_sequence(u, e)
<1>p. /\ p.ts \in Nat /\ p.kind \in {"main", "body"} /\ p.marker \in BOOLEAN
      /\ p.data \in Seq(Tokens)
  BY DEF Packets
<1>e. <<>> \in Seq(Tokens) /\ <<>> \o p.data = p.data
  BY <1>p
<1>1. /\ Handler(t) /\ t.have_frame = Continues(s, p)
      /\ t.cached_main = s.cached_main /\ t.first_ever = s.first_ever
      /\ t.last_ext_seq = s.last_ext_seq /\ t.out_frame = s.out_frame
      /\ t.started = s.started /\ t.seq_gaps = s.seq_gaps
      /\ t.frames_dropped = s.frames_dropped + One(s.have_frame /\ ~ Continues(s, p))
      /\ Continues(s, p) => t = s
  <2>1. CASE s.have_frame /\ p.ts # s.current_ts
    <3>1. ~ Emits(s)
      BY <2>1 DEF Emits
    <3>2. /\ Handler(t) /\ ~ t.have_frame /\ t.cached_main = s.cached_main
          /\ t.first_ever = s.first_ever /\ t.last_ext_seq = s.last_ext_seq
          /\ t.started = s.started /\ t.seq_gaps = s.seq_gaps
          /\ t.frames_dropped = s.frames_dropped + One(~ Emits(s))
          /\ ~ Emits(s) => t.out_frame = s.out_frame
      BY <2>1, FinalizeFacts, Zenon
    <3>3. ~ Continues(s, p)
      BY <2>1 DEF Continues
    <3> HIDE DEF t
    <3>4. t.have_frame = Continues(s, p)
      BY <3>2, <3>3 DEF Handler, Continues
    <3>5. One(~ Emits(s)) = One(s.have_frame /\ ~ Continues(s, p))
      BY <2>1, <3>1, <3>3 DEF One
    <3> QED
      BY <3>1, <3>2, <3>3, <3>4, <3>5
  <2>2. CASE ~ (s.have_frame /\ p.ts # s.current_ts)
    BY <2>2 DEF Continues, One, Handler, Fields
  <2> QED
    BY <2>1, <2>2
<1> HIDE DEF t
<1>2. /\ Handler(new) /\ new.current_ts = p.ts /\ new.cached_main = t.cached_main
      /\ new.first_ever = t.first_ever /\ new.last_ext_seq = t.last_ext_seq
      /\ new.out_frame = t.out_frame /\ new.started = t.started
      /\ new.frames_dropped = t.frames_dropped /\ new.seq_gaps = t.seq_gaps
  BY <1>1, <1>p DEF Handler, Fields
<1> HIDE DEF new
<1>3. /\ Handler(u) /\ u.have_frame /\ u.cached_main = s.cached_main
      /\ u.current_ts = p.ts
      /\ u.first_ever = s.first_ever
      /\ u.last_ext_seq = s.last_ext_seq /\ u.out_frame = s.out_frame
      /\ u.frames_dropped = t.frames_dropped /\ u.seq_gaps = s.seq_gaps
      /\ u.started = s.started + One(~ Continues(s, p))
      /\ u.accum \o p.data = Grown(s, p)
      /\ u.intact <=>
           /\ Continues(s, p) => s.intact
           /\ ~ Continues(s, p) /\ p.kind = "body" => s.cached_main # <<>>
  <2>1. CASE Continues(s, p)
    <3>1. u = s /\ s.have_frame /\ t = s
      BY <2>1, <1>1 DEF Continues
    <3>2. s.current_ts = p.ts /\ Grown(s, p) = s.accum \o p.data
      BY <2>1 DEF Continues, Grown
    <3>3. s.started \in Nat /\ One(~ Continues(s, p)) = 0
      BY <2>1 DEF One, Handler
    <3> HIDE DEF u
    <3> QED
      BY <2>1, <3>1, <3>2, <3>3
  <2>2. CASE ~ Continues(s, p) /\ p.kind = "main"
    <3> DEFINE bytes == <<>>
               ok    == TRUE
    <3>1. u = start_frame(new, bytes, ok) /\ bytes \in Seq(Tokens) /\ ok \in BOOLEAN
      BY <2>2, <1>1 DEF start_frame_empty
    <3> HIDE DEF u, bytes, ok
    <3>2. /\ Handler(u) /\ u.have_frame /\ u.started = new.started + 1
          /\ u.accum = bytes /\ u.intact = ok /\ u.seq_gaps = new.seq_gaps
          /\ u.cached_main = new.cached_main /\ u.current_ts = new.current_ts
          /\ u.first_ever = new.first_ever /\ u.last_ext_seq = new.last_ext_seq
          /\ u.frames_dropped = new.frames_dropped /\ u.out_frame = new.out_frame
      BY <3>1, <1>2, StartFacts
    <3>3. Grown(s, p) = p.data /\ One(~ Continues(s, p)) = 1
      BY <2>2 DEF Grown, One
    <3> QED
      BY <2>2, <3>2, <3>3, <1>1, <1>2, <1>e DEF bytes, ok
  <2>3. CASE ~ Continues(s, p) /\ p.kind # "main"
    <3> DEFINE bytes == new.cached_main
               ok    == new.cached_main # <<>>
    <3>1. u = start_frame(new, bytes, ok)
      BY <2>3, <1>1 DEF start_frame_with_main_prepend
    <3>2. bytes \in Seq(Tokens) /\ ok \in BOOLEAN
      BY <1>2 DEF Handler
    <3> HIDE DEF u, bytes, ok
    <3>3. /\ Handler(u) /\ u.have_frame /\ u.started = new.started + 1
          /\ u.accum = bytes /\ u.intact = ok /\ u.seq_gaps = new.seq_gaps
          /\ u.cached_main = new.cached_main /\ u.current_ts = new.current_ts
          /\ u.first_ever = new.first_ever /\ u.last_ext_seq = new.last_ext_seq
          /\ u.frames_dropped = new.frames_dropped /\ u.out_frame = new.out_frame
      BY <3>1, <3>2, <1>2, StartFacts
    <3>4. Grown(s, p) = s.cached_main \o p.data /\ One(~ Continues(s, p)) = 1
      BY <2>3 DEF Grown, One
    <3> QED
      BY <2>3, <3>3, <3>4, <1>1, <1>2, <1>p DEF bytes, ok
  <2> QED
    BY <2>1, <2>2, <2>3
<1> HIDE DEF u
<1>4. /\ Handler(v) /\ v.have_frame /\ v.started = u.started
      /\ v.accum = u.accum /\ v.cached_main = u.cached_main
      /\ v.current_ts = u.current_ts
      /\ ~ v.first_ever /\ v.last_ext_seq = e
      /\ v.frames_dropped = u.frames_dropped /\ v.out_frame = u.out_frame
      /\ v.intact <=> (u.intact /\ InOrder(u, e))
      /\ v.seq_gaps = u.seq_gaps + One(~ InOrder(u, e))
  BY <1>3, TrackFacts
<1> HIDE DEF v
<1>5. b = [v EXCEPT !.packet_count = @ + 1, !.accum = @ \o p.data, !.last_marker = p.marker]
  BY DEF Begin, v, u, new, t
<1>6. v.accum \in Seq(Tokens) /\ v.accum \o p.data \in Seq(Tokens)
  BY <1>4, <1>p DEF Handler, Fields
<1>7. /\ Handler(b) /\ b.have_frame /\ b.last_marker = p.marker
      /\ b.current_ts = v.current_ts /\ b.cached_main = v.cached_main
      /\ ~ b.first_ever /\ b.last_ext_seq = e /\ b.out_frame = v.out_frame
      /\ b.started = v.started /\ b.frames_dropped = v.frames_dropped
      /\ b.intact = v.intact /\ b.accum = v.accum \o p.data
      /\ b.seq_gaps = v.seq_gaps
  <2>1. Handler(b)
    <3>1. v.packet_count + 1 \in Nat
      BY <1>4, SMTT(30) DEF Handler
    <3>2. DOMAIN v = Fields
      BY <1>4, SMTT(30) DEF Handler
    <3>3. /\ DOMAIN b = Fields /\ b.packet_count = v.packet_count + 1
          /\ b.accum = v.accum \o p.data /\ b.last_marker = p.marker
          /\ b.have_frame = v.have_frame /\ b.intact = v.intact
          /\ b.has_meta = v.has_meta /\ b.first_ever = v.first_ever
          /\ b.cached_main = v.cached_main /\ b.current_ts = v.current_ts
          /\ b.eseq_first = v.eseq_first /\ b.last_ext_seq = v.last_ext_seq
          /\ b.started = v.started /\ b.frames_dropped = v.frames_dropped
          /\ b.tail_loss_drops = v.tail_loss_drops /\ b.seq_gaps = v.seq_gaps
          /\ b.out_frame = v.out_frame
      BY <3>2, <1>5 DEF Fields
    <3> QED
      BY <3>1, <3>3, <1>4, <1>6, <1>p DEF Handler
  <2>2. Handler(v)
    BY <1>4
  <2>3. /\ b.have_frame = v.have_frame /\ b.last_marker = p.marker
        /\ b.current_ts = v.current_ts /\ b.cached_main = v.cached_main
        /\ b.first_ever = v.first_ever /\ b.last_ext_seq = v.last_ext_seq
        /\ b.out_frame = v.out_frame /\ b.started = v.started
        /\ b.frames_dropped = v.frames_dropped
        /\ b.intact = v.intact /\ b.accum = v.accum \o p.data
        /\ b.seq_gaps = v.seq_gaps
    BY <2>2, <1>5, SMTT(60) DEF Handler, Fields
  <2> QED
    BY <2>1, <2>3, <1>4
<1>8. s.started \in Nat /\ s.frames_dropped \in Nat
  BY DEF Handler, Fields
<1>9. b.started - b.frames_dropped - 1 = s.started - s.frames_dropped - One(s.have_frame)
  BY <1>1, <1>3, <1>4, <1>7, <1>8, SMTT(30) DEF One, Continues
<1>10. InOrder(u, e) <=> InOrder(s, e)
  BY <1>3 DEF InOrder
<1> QED
  <2>1. b.intact <=> Sound(s, p, e)
    BY <1>3, <1>4, <1>7, <1>10 DEF Sound
  <2>2. b.seq_gaps = s.seq_gaps + One(~ InOrder(s, e))
    BY <1>3, <1>4, <1>7, <1>10 DEF One
  <2> QED
    BY <2>1, <2>2, <1>3, <1>4, <1>7, <1>9

Push(s, p, e) ==
  IF p.kind = "main" THEN push_main_packet(s, p, e) ELSE push_body_packet(s, p, e)

Stores(p) == p.kind = "main" /\ p.r /\ p.data # <<>>

LEMMA PushFacts ==
  ASSUME NEW s, Handler(s), s.have_frame => ~ s.last_marker, s.out_frame = None,
         NEW p \in Packets, NEW e \in ESeqs, NEW f, f = Push(s, p, e)
  PROVE  /\ Handler(f) /\ ~ f.first_ever /\ f.last_ext_seq = e
         /\ f.have_frame <=> ~ p.marker
         /\ f.have_frame => ~ f.last_marker /\ f.current_ts = p.ts
         /\ f.cached_main = IF Stores(p) THEN p.data ELSE s.cached_main
         /\ f.started - f.frames_dropped - One(f.have_frame) - One(f.out_frame # None)
              = s.started - s.frames_dropped - One(s.have_frame)
         /\ f.seq_gaps = s.seq_gaps + One(~ InOrder(s, e))
         /\ f.have_frame => (f.intact <=> Sound(s, p, e)) /\ f.accum = Grown(s, p)
         /\ f.out_frame # None <=> p.marker /\ Sound(s, p, e) /\ Grown(s, p) # <<>>
         /\ f.out_frame # None =>
              /\ f.out_frame \in AssembledFrames
              /\ f.out_frame.ts = p.ts /\ f.out_frame.bytes = Grown(s, p)
<1> DEFINE b == Begin(s, p, e)
           t == [b EXCEPT !.has_meta = TRUE]
           u == IF p.kind = "main"
                THEN IF p.r /\ p.data # <<>> THEN [t EXCEPT !.cached_main = p.data] ELSE t
                ELSE b
<1>p. p.marker \in BOOLEAN /\ p.data \in Seq(Tokens) /\ p.kind \in {"main", "body"}
  BY DEF Packets
<1>1. /\ Handler(b) /\ b.have_frame /\ b.last_marker = p.marker
      /\ b.current_ts = p.ts /\ b.cached_main = s.cached_main
      /\ ~ b.first_ever /\ b.last_ext_seq = e /\ b.out_frame = s.out_frame
      /\ b.started - b.frames_dropped - 1 = s.started - s.frames_dropped - One(s.have_frame)
      /\ b.seq_gaps = s.seq_gaps + One(~ InOrder(s, e))
      /\ b.intact <=> Sound(s, p, e)
      /\ b.accum = Grown(s, p)
  BY BeginFacts
<1>2. f = IF p.marker THEN finalize_frame(u) ELSE u
  BY <1>p DEF Push, push_main_packet, push_body_packet, End
<1> HIDE DEF b
<1>3. /\ Handler(t) /\ t.have_frame = b.have_frame /\ t.last_marker = b.last_marker
      /\ t.current_ts = b.current_ts /\ t.cached_main = b.cached_main
      /\ t.first_ever = b.first_ever /\ t.last_ext_seq = b.last_ext_seq
      /\ t.out_frame = b.out_frame /\ t.started = b.started
      /\ t.frames_dropped = b.frames_dropped /\ t.intact = b.intact /\ t.accum = b.accum
      /\ t.seq_gaps = b.seq_gaps
  <2>1. DOMAIN b = Fields
    BY <1>1 DEF Handler
  <2>2. /\ DOMAIN t = Fields /\ t.has_meta = TRUE /\ t.have_frame = b.have_frame
        /\ t.last_marker = b.last_marker /\ t.current_ts = b.current_ts
        /\ t.cached_main = b.cached_main /\ t.first_ever = b.first_ever
        /\ t.last_ext_seq = b.last_ext_seq /\ t.out_frame = b.out_frame
        /\ t.started = b.started /\ t.frames_dropped = b.frames_dropped
        /\ t.intact = b.intact /\ t.accum = b.accum /\ t.eseq_first = b.eseq_first
        /\ t.packet_count = b.packet_count /\ t.tail_loss_drops = b.tail_loss_drops
        /\ t.seq_gaps = b.seq_gaps
    BY <2>1 DEF Fields
  <2> HIDE DEF t
  <2>3. Handler(t)
    BY <2>2, <1>1 DEF Handler
  <2> QED
    BY <2>2, <2>3
<1> HIDE DEF t
<1>4. /\ Handler(u) /\ u.have_frame = b.have_frame /\ u.last_marker = b.last_marker
      /\ u.current_ts = b.current_ts
      /\ u.first_ever = b.first_ever /\ u.last_ext_seq = b.last_ext_seq
      /\ u.out_frame = b.out_frame /\ u.started = b.started
      /\ u.frames_dropped = b.frames_dropped /\ u.intact = b.intact /\ u.accum = b.accum
      /\ u.seq_gaps = b.seq_gaps
      /\ u.cached_main = IF Stores(p) THEN p.data ELSE s.cached_main
  <2>1. CASE Stores(p)
    <3>1. u = [t EXCEPT !.cached_main = p.data]
      BY <2>1 DEF Stores
    <3> HIDE DEF u
    <3>2. DOMAIN t = Fields
      BY <1>3 DEF Handler
    <3>3. /\ DOMAIN u = Fields /\ u.cached_main = p.data /\ u.have_frame = t.have_frame
          /\ u.last_marker = t.last_marker /\ u.current_ts = t.current_ts
          /\ u.has_meta = t.has_meta /\ u.first_ever = t.first_ever
          /\ u.last_ext_seq = t.last_ext_seq /\ u.out_frame = t.out_frame
          /\ u.started = t.started /\ u.frames_dropped = t.frames_dropped
          /\ u.intact = t.intact /\ u.accum = t.accum /\ u.eseq_first = t.eseq_first
          /\ u.packet_count = t.packet_count /\ u.tail_loss_drops = t.tail_loss_drops
          /\ u.seq_gaps = t.seq_gaps
      BY <3>1, <3>2 DEF Fields
    <3>4. Handler(u)
      BY <3>3, <1>3, <1>p DEF Handler
    <3> QED
      BY <2>1, <3>3, <3>4, <1>3
  <2>2. CASE ~ Stores(p)
    BY <2>2, <1>1, <1>3, <1>p DEF Stores
  <2> QED
    BY <2>1, <2>2
<1> HIDE DEF u
<1>n. s.started \in Nat /\ s.frames_dropped \in Nat /\ u.started \in Nat
      /\ u.frames_dropped \in Nat
  BY <1>4 DEF Handler
<1>5. CASE ~ p.marker
  <2>1. f = u
    BY <1>2, <1>5
  <2>2. One(f.have_frame) = 1 /\ One(f.out_frame # None) = 0
    BY <2>1, <1>1, <1>4 DEF One
  <2> QED
    BY <2>1, <2>2, <1>1, <1>4, <1>5, <1>n
<1>6. CASE p.marker
  <2>1. u.have_frame /\ u.last_marker /\ f = finalize_frame(u)
    BY <1>1, <1>2, <1>4, <1>6
  <2>2. /\ Handler(f) /\ ~ f.have_frame
        /\ f.cached_main = u.cached_main /\ f.first_ever = u.first_ever
        /\ f.last_ext_seq = u.last_ext_seq /\ f.started = u.started
        /\ f.seq_gaps = u.seq_gaps
        /\ f.frames_dropped = u.frames_dropped + One(~ Emits(u))
        /\ ~ Emits(u) => f.out_frame = u.out_frame
        /\ Emits(u) => /\ f.out_frame \in AssembledFrames
                       /\ f.out_frame.ts = u.current_ts /\ f.out_frame.bytes = u.accum
    BY <2>1, <1>4, FinalizeFacts
  <2>3. f.out_frame # None <=> Emits(u)
    BY <2>2, <1>1, <1>4, FrameIsNotNone
  <2>4. One(~ Emits(u)) + One(f.out_frame # None) = 1 /\ One(~ Emits(u)) \in Nat
        /\ One(f.out_frame # None) \in Nat /\ One(f.have_frame) = 0
    BY <2>2, <2>3 DEF One
  <2>5. f.started - f.frames_dropped - One(f.have_frame) - One(f.out_frame # None)
          = s.started - s.frames_dropped - One(s.have_frame)
    BY <2>2, <2>4, <1>1, <1>4, <1>n
  <2>6. Emits(u) <=> (Sound(s, p, e) /\ Grown(s, p) # <<>>)
    BY <2>1, <1>1, <1>4 DEF Emits
  <2> QED
    BY <2>2, <2>3, <2>5, <2>6, <1>1, <1>4, <1>6
<1> QED
  BY <1>5, <1>6, <1>p

-----------------------------------------------------------------------------
(* Types and accounts. *)

\* A frame in progress never has its marker: a frame is handed out in the push that
\* brings it, and only then.
FrameInv ==
  /\ stream \in Streams
  /\ top \in 0 .. Len(stream) /\ last \in 0 .. Len(stream)
  /\ run \in 1 .. Len(stream) + 1
  /\ olds \in 0 .. MaxOld
  /\ Handler(h) /\ (h.have_frame => ~ h.last_marker)
  /\ log \in Seq(AssembledFrames)
  /\ EveryFrameAccounted

LEMMA InitFrameInv == Init => FrameInv
<1> SUFFICES ASSUME Init PROVE FrameInv
  OBVIOUS
<1> USE StreamAssumption DEF Init
<1>1. stream \in Seq(Packets) /\ Len(stream) \in Nat
  OBVIOUS
<1>2. top \in 0 .. Len(stream)
  BY <1>1
<1>3. Handler(h) /\ ~ h.have_frame /\ h.started = 0 /\ h.frames_dropped = 0
  BY DEF InitHandler, Handler, Fields, ESeqs
<1>4. log \in Seq(AssembledFrames) /\ Len(log) = 0
  OBVIOUS
<1> QED
  BY <1>1, <1>2, <1>3, <1>4 DEF FrameInv, EveryFrameAccounted

\* A received packet is pushed with a fresh out_frame.
LEMMA ReceiveFacts ==
  ASSUME FrameInv, NEW i \in Indices, Receive(i),
         NEW s, s = [h EXCEPT !.out_frame = None]
  PROVE  /\ stream \in Seq(Packets) /\ i \in 1 .. Len(stream) /\ Len(stream) \in Nat
         /\ stream[i] \in Packets /\ ExtSeq(i) \in ESeqs
         /\ Handler(s) /\ s.out_frame = None /\ (s.have_frame => ~ s.last_marker)
         /\ s.have_frame = h.have_frame /\ s.current_ts = h.current_ts
         /\ s.intact = h.intact /\ s.accum = h.accum /\ s.cached_main = h.cached_main
         /\ s.first_ever = h.first_ever /\ s.last_ext_seq = h.last_ext_seq
         /\ s.started = h.started /\ s.frames_dropped = h.frames_dropped
         /\ s.seq_gaps = h.seq_gaps
         /\ h' = Push(s, stream[i], ExtSeq(i))
<1>1. stream \in Seq(Packets) /\ i \in 1 .. Len(stream) /\ Len(stream) \in Nat
  BY StreamAssumption DEF FrameInv, Indices
<1>2. stream[i] \in Packets /\ ExtSeq(i) \in ESeqs
  BY <1>1, ExtSeqType
<1>3. DOMAIN h = Fields
  BY DEF FrameInv, Handler
<1>4. /\ DOMAIN s = Fields /\ s.out_frame = None /\ s.have_frame = h.have_frame
      /\ s.current_ts = h.current_ts /\ s.last_marker = h.last_marker
      /\ s.intact = h.intact /\ s.accum = h.accum /\ s.cached_main = h.cached_main
      /\ s.first_ever = h.first_ever /\ s.last_ext_seq = h.last_ext_seq
      /\ s.started = h.started /\ s.frames_dropped = h.frames_dropped
      /\ s.has_meta = h.has_meta /\ s.eseq_first = h.eseq_first
      /\ s.packet_count = h.packet_count /\ s.tail_loss_drops = h.tail_loss_drops
      /\ s.seq_gaps = h.seq_gaps
  BY <1>3 DEF Fields
<1>5. Handler(s)
  BY <1>4 DEF FrameInv, Handler
<1>6. h' = Push(s, stream[i], ExtSeq(i))
  BY DEF Receive, Push
<1> QED
  BY <1>1, <1>2, <1>4, <1>5, <1>6 DEF FrameInv

LEMMA ReceiveKeepsInv ==
  ASSUME FrameInv, NEW i \in Indices, Receive(i)
  PROVE  /\ stream' \in Streams /\ last' \in 0 .. Len(stream')
         /\ run' \in 1 .. Len(stream') + 1
         /\ Handler(h') /\ (h'.have_frame => ~ h'.last_marker)
         /\ log' \in Seq(AssembledFrames)
         /\ EveryFrameAccounted'
<1>0. PICK s : s = [h EXCEPT !.out_frame = None]
  OBVIOUS
<1>1. /\ stream \in Seq(Packets) /\ i \in 1 .. Len(stream) /\ Len(stream) \in Nat
      /\ stream[i] \in Packets /\ ExtSeq(i) \in ESeqs
      /\ Handler(s) /\ s.out_frame = None /\ (s.have_frame => ~ s.last_marker)
      /\ s.have_frame = h.have_frame
      /\ s.started = h.started /\ s.frames_dropped = h.frames_dropped
      /\ h' = Push(s, stream[i], ExtSeq(i))
  BY <1>0, ReceiveFacts
<1>2. /\ Handler(h') /\ (h'.have_frame => ~ h'.last_marker)
      /\ h'.started - h'.frames_dropped - One(h'.have_frame) - One(h'.out_frame # None)
           = s.started - s.frames_dropped - One(s.have_frame)
      /\ h'.out_frame # None => h'.out_frame \in AssembledFrames
  BY <1>1, PushFacts
<1>3. /\ stream' = stream /\ last' = i /\ run' \in {run, i}
      /\ log' = IF h'.out_frame = None THEN log ELSE Append(log, h'.out_frame)
  BY DEF Receive
<1>4. log \in Seq(AssembledFrames) /\ Len(log) \in Nat
  BY DEF FrameInv
<1>5. log' \in Seq(AssembledFrames) /\ Len(log') = Len(log) + One(h'.out_frame # None)
  <2>1. CASE h'.out_frame = None
    BY <2>1, <1>3, <1>4 DEF One
  <2>2. CASE h'.out_frame # None
    BY <2>2, <1>2, <1>3, <1>4 DEF One
  <2> QED
    BY <2>1, <2>2
<1>6. /\ h.started \in Nat /\ h.frames_dropped \in Nat
      /\ h'.started \in Nat /\ h'.frames_dropped \in Nat
  BY <1>2 DEF FrameInv, Handler
<1>7. /\ One(h.have_frame) \in Nat /\ One(h'.have_frame) \in Nat
      /\ One(h'.out_frame # None) \in Nat
  BY DEF One
<1>11. One(s.have_frame) = One(h.have_frame)
  BY <1>1
<1>8. h.started = Len(log) + h.frames_dropped + One(h.have_frame)
  BY DEF FrameInv, EveryFrameAccounted, One
<1>9. h'.started = Len(log') + h'.frames_dropped + One(h'.have_frame)
  <2> DEFINE a == One(h.have_frame)
             b == One(h'.have_frame)
             c == One(h'.out_frame # None)
             n == Len(log)
             m == Len(log')
             d == h.frames_dropped
             g == h'.frames_dropped
             k == h.started
             l == h'.started
  <2>1. /\ a \in Nat /\ b \in Nat /\ c \in Nat /\ n \in Nat /\ d \in Nat /\ g \in Nat
        /\ k \in Nat /\ l \in Nat
    BY <1>4, <1>6, <1>7
  <2>2. l - g - b - c = k - d - a
    BY <1>1, <1>2, <1>11
  <2>3. k = n + d + a /\ m = n + c
    BY <1>5, <1>8
  <2> HIDE DEF a, b, c, n, m, d, g, k, l
  <2>4. l = m + g + b
    BY <2>1, <2>2, <2>3
  <2> QED
    BY <2>4 DEF b, m, g, l
<1>10. EveryFrameAccounted'
  BY <1>9 DEF EveryFrameAccounted, One
<1> QED
  BY <1>1, <1>2, <1>3, <1>5, <1>10 DEF FrameInv

LEMMA NextFrameInv == FrameInv /\ [Next]_vars => FrameInv'
<1> SUFFICES ASSUME FrameInv, [Next]_vars PROVE FrameInv'
  OBVIOUS
<1>1. CASE ReceiveNew
  <2>1. PICK i \in Indices : Receive(i) /\ top' = i /\ UNCHANGED olds
    BY <1>1 DEF ReceiveNew
  <2>2. stream' = stream /\ i \in 0 .. Len(stream)
    BY <2>1, ReceiveFacts DEF Receive
  <2> QED
    BY <2>1, <2>2, ReceiveKeepsInv DEF FrameInv
<1>2. CASE ReceiveOld
  <2>1. PICK i \in Indices : Receive(i)
    BY <1>2 DEF ReceiveOld
  <2>2. stream' = stream /\ top' = top /\ olds' = olds + 1 /\ olds < MaxOld
    BY <1>2, <2>1 DEF ReceiveOld, Receive
  <2>3. olds' \in 0 .. MaxOld
    BY <2>2, StreamAssumption DEF FrameInv
  <2> QED
    BY <2>1, <2>2, <2>3, ReceiveKeepsInv DEF FrameInv
<1>3. CASE UNCHANGED vars
  BY <1>3 DEF vars, FrameInv, EveryFrameAccounted
<1> QED
  BY <1>1, <1>2, <1>3 DEF Next

THEOREM FrameInvariant == Spec => []FrameInv
<1> QED
  BY InitFrameInv, NextFrameInv, PTL DEF Spec

\* The types of the handler and of the network around it.
THEOREM FrameTypeCorrect == Spec => []TypeOK
<1>1. FrameInv => TypeOK
  BY DEF FrameInv, TypeOK, Handler, ESeqs
<1> QED
  BY <1>1, FrameInvariant, PTL

\* Every frame begun is handed out, in progress, or counted as dropped.
THEOREM FramesStayCounted == Spec => []EveryFrameAccounted
<1>1. FrameInv => EveryFrameAccounted
  BY DEF FrameInv
<1> QED
  BY <1>1, FrameInvariant, PTL

-----------------------------------------------------------------------------
(* Frames that are handed out are complete. *)

Header == CHOOSE header : HeadedBy(stream, header)

\* The handler remembers the packet that arrived last, which is close to the newest.
Recent ==
  IF h.first_ever THEN ~ h.have_frame /\ h.cached_main = <<>>
  ELSE /\ last \in Indices /\ top - Lag <= last /\ last <= top
       /\ h.last_ext_seq = ExtSeq(last)

\* A frame is in progress after any packet but the last of a frame; as long as it is
\* intact it is what was sent of it so far.
InProgress ==
  /\ ~ h.first_ever => (h.have_frame <=> ~ stream[last].marker)
  /\ h.have_frame => /\ ~ h.first_ever /\ h.current_ts = stream[last].ts
                     /\ h.intact => h.accum = stream[last].upto

CompleteInv ==
  /\ OneHeaderPacket(stream)
  /\ Recent /\ InProgress
  /\ h.cached_main \in {<<>>, Header}
  /\ EmittedIsComplete

\* A packet that is close and has the next number is the next packet: no loss and no
\* delay within the bounds passes for none.
LEMMA NextIndex ==
  ASSUME NEW i \in Nat, NEW j \in Nat, i - j <= Gap + Lag + 1, j - i <= Lag,
         ExtSeq(i) = (ExtSeq(j) + 1) % SeqMod
  PROVE  i = j + 1
<1> USE StreamAssumption
<1> DEFINE N == SeqMod
           a == Base + i
           b == Base + j + 1
           q == (Base + j) \div N
           r == (Base + j) % N
           k == (r + 1) \div N
           d == (r + 1) % N
<1>1. q \in Int /\ r \in 0 .. N - 1 /\ Base + j = N * q + r
  <2>1. Base + j \in Int /\ N \in Nat \ {0}
    OBVIOUS
  <2> QED
    BY ONLY <2>1, DivMod, Zenon
<1> HIDE DEF q, r
<1>2. k \in Int /\ d \in 0 .. N - 1 /\ r + 1 = N * k + d
  <2>1. r + 1 \in Int /\ N \in Nat \ {0}
    BY <1>1
  <2> QED
    BY ONLY <2>1, DivMod, Zenon
<1>3. a % N = d
  BY <1>1 DEF ExtSeq, r
<1> HIDE DEF k, d
<1>4. b = N * (q + k) + d
  BY <1>1, <1>2
<1>5. b % N = d
  <2>1. b \in Int /\ q + k \in Int
    BY <1>1, <1>2
  <2> HIDE DEF b
  <2> QED
    BY <1>2, <1>4, <2>1, ModUnique
<1>6. a \in Int /\ b \in Int /\ a - b < N /\ b - a < N
  OBVIOUS
<1>7. a = b
  <2> HIDE DEF a, b
  <2> QED
    BY <1>3, <1>5, <1>6, ModEqual
<1> QED
  BY <1>7

LEMMA HeaderFacts ==
  ASSUME OneHeaderPacket(stream)
  PROVE  FramesApart(stream) /\ HeadedBy(stream, Header)
BY DEF OneHeaderPacket, Header

\* The codestream of a frame is what is sent up to its marker.
LEMMA CodestreamIsUpto ==
  ASSUME FramesApart(stream), Len(stream) \in Nat, NEW i \in Indices, stream[i].marker
  PROVE  Codestream(stream[i].ts) = stream[i].upto
<1> DEFINE P(p) == p.ts = stream[i].ts /\ p.marker
           c == CHOOSE p \in {stream[j] : j \in Indices} : P(p)
<1>1. \E p \in {stream[j] : j \in Indices} : P(p)
  OBVIOUS
<1>2. c \in {stream[j] : j \in Indices} /\ P(c)
  BY <1>1
<1>3. PICK j \in Indices : c = stream[j]
  BY <1>2
<1>4. j = i
  <2>1. stream[j].ts = stream[i].ts /\ stream[j].marker
    BY <1>2, <1>3
  <2> QED
    BY <2>1 DEF FramesApart, Indices
<1> QED
  BY <1>3, <1>4 DEF Codestream

\* What a sound push has made of the frame is what was sent of it so far.
LEMMA GrownIsUpto ==
  ASSUME FrameInv, CompleteInv, NEW i \in Indices,
         top - Lag <= i, i <= top + 1 + Gap, Sound(h, stream[i], ExtSeq(i))
  PROVE  Grown(h, stream[i]) = stream[i].upto
<1> DEFINE p == stream[i]
<1>1. FramesApart(stream) /\ HeadedBy(stream, Header)
  BY HeaderFacts DEF CompleteInv
<1>2. /\ stream \in Seq(Packets) /\ Len(stream) \in Nat /\ i \in 1 .. Len(stream)
      /\ p \in Packets /\ top \in Nat
  BY StreamAssumption DEF FrameInv, Indices
<1>3. p.kind = "main" => IsFirst(stream, i)
  BY <1>1, <1>2 DEF HeadedBy
<1>4. p.upto = IF ~ IsFirst(stream, i) THEN stream[i - 1].upto \o p.data
               ELSE IF p.kind = "main" THEN p.data ELSE Header \o p.data
  BY <1>1, <1>2 DEF HeadedBy
<1>5. ASSUME ~ h.first_ever
      PROVE  last = i - 1 /\ last \in 1 .. Len(stream) - 1
  <2>1. /\ last \in Indices /\ top - Lag <= last /\ last <= top
        /\ h.last_ext_seq = ExtSeq(last)
    BY <1>5 DEF CompleteInv, Recent
  <2>2. ExtSeq(i) = (ExtSeq(last) + 1) % SeqMod
    BY <1>5, <2>1 DEF Sound, InOrder
  <2>3. /\ i \in Nat /\ last \in Nat /\ i - last <= Gap + Lag + 1 /\ last - i <= Lag
    BY <1>2, <2>1, StreamAssumption DEF Indices
  <2>4. i = last + 1
    BY <2>2, <2>3, NextIndex
  <2> QED
    BY <1>2, <2>1, <2>4 DEF Indices
<1>6. CASE Continues(h, p)
  <2>1. h.have_frame /\ h.intact
    BY <1>6 DEF Continues, Sound
  <2>2. ~ h.first_ever /\ h.accum = stream[last].upto /\ ~ stream[last].marker
    BY <2>1 DEF CompleteInv, InProgress
  <2>3. last = i - 1 /\ i # 1
    BY <1>5, <2>2
  <2>4. ~ IsFirst(stream, i)
    BY <2>2, <2>3 DEF IsFirst
  <2> QED
    BY <1>4, <1>6, <2>2, <2>3, <2>4 DEF Grown
<1>7. CASE ~ Continues(h, p) /\ p.kind = "main"
  BY <1>3, <1>4, <1>7 DEF Grown
<1>8. CASE ~ Continues(h, p) /\ p.kind # "main"
  <2>1. p.kind = "body"
    BY <1>2, <1>8 DEF Packets
  <2>2. h.cached_main # <<>>
    BY <1>8, <2>1 DEF Sound
  <2>3. h.cached_main = Header /\ ~ h.first_ever
    BY <2>2 DEF CompleteInv, Recent
  <2>4. last = i - 1 /\ last \in 1 .. Len(stream) - 1
    BY <1>5, <2>3
  <2>5. stream[last].marker
    <3>1. SUFFICES ASSUME ~ stream[last].marker PROVE FALSE
      OBVIOUS
    <3>2. h.have_frame /\ h.current_ts = stream[last].ts
      BY <2>3, <3>1 DEF CompleteInv, InProgress
    <3>3. stream[last + 1].ts = stream[last].ts
      BY <1>1, <2>4, <3>1 DEF FramesApart
    <3>4. last + 1 = i
      BY <1>2, <2>4
    <3> QED
      BY <1>8, <3>2, <3>3, <3>4 DEF Continues
  <2>6. IsFirst(stream, i)
    BY <2>4, <2>5 DEF IsFirst
  <2> QED
    BY <1>4, <1>8, <2>3, <2>6 DEF Grown
<1> QED
  BY <1>6, <1>7, <1>8

LEMMA ReceiveKeepsComplete ==
  ASSUME FrameInv, CompleteInv, NEW i \in Indices, Receive(i),
         top - Lag <= i, i <= top + 1 + Gap,
         top' \in Nat, top' - Lag <= i, i <= top'
  PROVE  CompleteInv'
<1> DEFINE p == stream[i]
           e == ExtSeq(i)
<1>0. PICK s : s = [h EXCEPT !.out_frame = None]
  OBVIOUS
<1>1. /\ stream \in Seq(Packets) /\ i \in 1 .. Len(stream) /\ Len(stream) \in Nat
      /\ p \in Packets /\ e \in ESeqs
      /\ Handler(s) /\ s.out_frame = None /\ (s.have_frame => ~ s.last_marker)
      /\ s.have_frame = h.have_frame /\ s.current_ts = h.current_ts
      /\ s.intact = h.intact /\ s.accum = h.accum /\ s.cached_main = h.cached_main
      /\ s.first_ever = h.first_ever /\ s.last_ext_seq = h.last_ext_seq
      /\ h' = Push(s, p, e)
  BY <1>0, ReceiveFacts
<1>2. /\ ~ h'.first_ever /\ h'.last_ext_seq = e
      /\ h'.have_frame <=> ~ p.marker
      /\ h'.have_frame => h'.current_ts = p.ts
      /\ h'.cached_main = IF Stores(p) THEN p.data ELSE s.cached_main
      /\ h'.have_frame /\ h'.intact => Sound(s, p, e) /\ h'.accum = Grown(s, p)
      /\ h'.out_frame # None =>
           /\ h'.out_frame \in AssembledFrames /\ p.marker /\ h'.out_frame.ts = p.ts
           /\ Sound(s, p, e) /\ h'.out_frame.bytes = Grown(s, p)
  BY <1>1, PushFacts
<1>3. /\ stream' = stream /\ last' = i
      /\ log' = IF h'.out_frame = None THEN log ELSE Append(log, h'.out_frame)
  BY DEF Receive
<1>4. Sound(s, p, e) => Grown(s, p) = p.upto
  <2>1. Grown(s, p) = Grown(h, p)
    BY <1>1 DEF Grown, Continues
  <2>2. Sound(s, p, e) => Sound(h, p, e)
    BY <1>1 DEF Sound, InOrder, Continues
  <2> QED
    BY <2>1, <2>2, GrownIsUpto
<1>5. FramesApart(stream) /\ HeadedBy(stream, Header)
  BY HeaderFacts DEF CompleteInv
<1> HIDE DEF p, e
<1>6. Recent'
  BY <1>1, <1>2, <1>3 DEF Recent, Indices, ExtSeq, e
<1>7. InProgress'
  BY <1>2, <1>3, <1>4 DEF InProgress, p
<1>8. (h.cached_main \in {<<>>, Header})'
  <2>1. Stores(p) => p.data = Header
    BY <1>1, <1>5 DEF Stores, HeadedBy, p
  <2>2. h'.cached_main \in {<<>>, Header}
    BY <1>1, <1>2, <2>1 DEF CompleteInv
  <2> QED
    BY <2>2, <1>3 DEF Header
<1>9. EmittedIsComplete'
  <2>1. log \in Seq(AssembledFrames) /\ Len(log) \in Nat
    BY DEF FrameInv
  <2>2. \A k \in DOMAIN log : log[k].bytes = Codestream(log[k].ts)
    BY DEF CompleteInv, EmittedIsComplete
  <2>3. CASE h'.out_frame = None
    BY <2>2, <2>3, <1>3 DEF EmittedIsComplete, Codestream, Indices
  <2>4. CASE h'.out_frame # None
    <3>1. h'.out_frame.bytes = p.upto /\ h'.out_frame.ts = p.ts /\ p.marker
      BY <2>4, <1>2, <1>4
    <3>2. Codestream(p.ts) = p.upto
      BY <3>1, <1>1, <1>5, CodestreamIsUpto DEF p
    <3>3. /\ log' = Append(log, h'.out_frame) /\ h'.out_frame \in AssembledFrames
      BY <2>4, <1>2, <1>3
    <3>4. ASSUME NEW k \in DOMAIN log'
          PROVE  (log[k].bytes = Codestream(log[k].ts))'
      <4>1. k \in 1 .. Len(log) + 1
        BY <2>1, <3>3
      <4>2. CASE k = Len(log) + 1
        <5>1. log'[k] = h'.out_frame
          BY <4>2, <2>1, <3>3
        <5> QED
          BY <5>1, <3>1, <3>2, <1>3 DEF Codestream, Indices
      <4>3. CASE k # Len(log) + 1
        <5>1. k \in DOMAIN log /\ log'[k] = log[k]
          BY <4>1, <4>3, <2>1, <3>3
        <5> QED
          BY <5>1, <2>2, <1>3 DEF Codestream, Indices
      <4> QED
        BY <4>2, <4>3
    <3> QED
      BY <3>4 DEF EmittedIsComplete
  <2> QED
    BY <2>3, <2>4
<1> QED
  BY <1>3, <1>6, <1>7, <1>8, <1>9 DEF CompleteInv

LEMMA NextCompleteInv == FrameInv /\ CompleteInv /\ [Next]_vars => CompleteInv'
<1> SUFFICES ASSUME FrameInv, CompleteInv, [Next]_vars PROVE CompleteInv'
  OBVIOUS
<1>0. /\ Len(stream) \in Nat /\ top \in Nat
  BY StreamAssumption DEF FrameInv
<1>1. CASE ReceiveNew
  <2>1. PICK i \in top + 1 .. top + 1 + Gap : i \in Indices /\ Receive(i) /\ top' = i
    BY <1>1 DEF ReceiveNew
  <2>2. /\ top - Lag <= i /\ i <= top + 1 + Gap
        /\ top' \in Nat /\ top' - Lag <= i /\ i <= top'
    BY <1>0, <2>1, StreamAssumption
  <2> QED
    BY <2>1, <2>2, ReceiveKeepsComplete
<1>2. CASE ReceiveOld
  <2>1. PICK i \in top - Lag .. top : i \in Indices /\ Receive(i)
    BY <1>2 DEF ReceiveOld
  <2>2. /\ top - Lag <= i /\ i <= top + 1 + Gap
        /\ top' \in Nat /\ top' - Lag <= i /\ i <= top'
    BY <1>0, <1>2, <2>1, StreamAssumption DEF ReceiveOld
  <2> QED
    BY <2>1, <2>2, ReceiveKeepsComplete
<1>3. CASE UNCHANGED vars
  BY <1>3 DEF vars, CompleteInv, Recent, InProgress, EmittedIsComplete, Codestream,
              Header, Indices, ExtSeq
<1> QED
  BY <1>1, <1>2, <1>3 DEF Next

\* Whatever is lost, late, repeated or missed: a frame that is handed out is a frame that
\* was sent, whole, if the main header travels in one packet.
THEOREM EmittedFramesAreComplete ==
  ASSUME \A s \in Streams : OneHeaderPacket(s)
  PROVE  Spec => []EmittedIsComplete
<1>1. Init => CompleteInv
  <2> SUFFICES ASSUME Init PROVE CompleteInv
    OBVIOUS
  <2>1. /\ h.first_ever /\ ~ h.have_frame /\ h.cached_main = <<>>
    BY DEF Init, InitHandler
  <2>2. EmittedIsComplete
    BY DEF Init, EmittedIsComplete
  <2> QED
    BY <2>1, <2>2 DEF CompleteInv, Recent, InProgress, Init
<1>2. CompleteInv => EmittedIsComplete
  BY DEF CompleteInv
<1> QED
  BY <1>1, <1>2, NextCompleteInv, FrameInvariant, PTL DEF Spec

-----------------------------------------------------------------------------
(* Frames that arrive whole are handed out. *)

\* The frame in progress has come without a gap, after the end of the one before, and
\* its main header is there.
CleanSoFar(ts) ==
  LET f == FirstOf(ts) IN
    /\ run < f \/ (run = f /\ h.seq_gaps = 0)
    /\ stream[f].kind = "main" \/ h.cached_main # <<>>

\* Nothing has damaged such a frame so far.  A run of packets has begun at or before the
\* last one that came.
WholeInv ==
  IF h.first_ever THEN run = last + 1
  ELSE /\ run <= last
       /\ ~ stream[last].marker /\ CleanSoFar(stream[last].ts) => h.intact

\* The number of the next packet is the next number.
LEMMA NextNumber ==
  ASSUME NEW j \in Nat
  PROVE  ExtSeq(j + 1) = (ExtSeq(j) + 1) % SeqMod
<1> USE StreamAssumption
<1> DEFINE N == SeqMod
           a == Base + j
           q == a \div N
           r == a % N
           k == (r + 1) \div N
           d == (r + 1) % N
<1>1. q \in Int /\ r \in 0 .. N - 1 /\ a = N * q + r
  <2>1. a \in Int /\ N \in Nat \ {0}
    OBVIOUS
  <2> QED
    BY ONLY <2>1, DivMod, Zenon
<1>2. ExtSeq(j) = r /\ Base + (j + 1) = a + 1 /\ a \in Int
  BY DEF ExtSeq
<1> HIDE DEF q, r, a
<1>3. k \in Int /\ d \in 0 .. N - 1 /\ r + 1 = N * k + d
  <2>1. r + 1 \in Int /\ N \in Nat \ {0}
    BY <1>1
  <2> QED
    BY ONLY <2>1, DivMod, Zenon
<1> HIDE DEF k
<1>4. a + 1 = N * (q + k) + d /\ q + k \in Int /\ a + 1 \in Int
  BY <1>1, <1>2, <1>3
<1>5. (a + 1) % N = d
  <2> DEFINE b == a + 1
             c == q + k
  <2>1. b = N * c + d /\ c \in Int /\ b \in Int
    BY <1>4
  <2> HIDE DEF b, c, d
  <2>2. b % N = d
    BY <1>3, <2>1, ModUnique
  <2> QED
    BY <2>2 DEF b
<1> QED
  BY <1>2, <1>5 DEF ExtSeq, d

\* The first packet of the frame of packet i.
LEMMA FirstOfIs ==
  ASSUME FramesApart(stream), Len(stream) \in Nat, NEW i \in Indices
  PROVE  LET f == FirstOf(stream[i].ts) IN
         /\ f \in Indices /\ f <= i /\ stream[f].ts = stream[i].ts
         /\ f < i => stream[i - 1].ts = stream[i].ts /\ ~ stream[i - 1].marker
         /\ f = i /\ i # 1 => stream[i - 1].marker
         /\ IsFirst(stream, i) => f = i
<1> DEFINE T == {j \in Indices : stream[j].ts = stream[i].ts}
           P(m) == m \in Indices /\ stream[m].ts = stream[i].ts
                   /\ \A j \in Indices : stream[j].ts = stream[i].ts => m <= j
           f == FirstOf(stream[i].ts)
<1>1. \E m \in Indices : stream[m].ts = stream[i].ts
                         /\ \A j \in Indices : stream[j].ts = stream[i].ts => m <= j
  <2>1. T \in SUBSET Nat /\ T # {}
    BY DEF Indices
  <2>2. PICK m \in T : \A j \in T : m <= j
    BY <2>1, NatLeast
  <2> QED
    BY <2>2
<1>2. f \in Indices /\ stream[f].ts = stream[i].ts
      /\ \A j \in Indices : stream[j].ts = stream[i].ts => f <= j
  BY <1>1 DEF FirstOf
<1> HIDE DEF f
<1>3. f <= i /\ f \in Nat /\ i \in Nat
  BY <1>2 DEF Indices
<1>4. ASSUME f < i PROVE stream[i - 1].ts = stream[i].ts /\ ~ stream[i - 1].marker
  <2>1. \A k \in f .. i - 1 : ~ stream[k].marker
    BY <1>2, <1>4 DEF FramesApart, Indices
  <2>2. ~ stream[i - 1].marker /\ i - 1 \in Indices /\ \A k \in i - 1 .. i - 1 : k = i - 1
    BY <1>2, <1>3, <1>4, <2>1 DEF Indices
  <2> QED
    BY <1>3, <2>2 DEF FramesApart, Indices
<1>5. ASSUME f = i, i # 1 PROVE stream[i - 1].marker
  <2>1. SUFFICES ASSUME ~ stream[i - 1].marker PROVE FALSE
    OBVIOUS
  <2>2. i - 1 \in Indices /\ \A k \in i - 1 .. i - 1 : k = i - 1
    BY <1>3, <1>5 DEF Indices
  <2>3. stream[i - 1].ts = stream[i].ts
    BY <1>3, <2>1, <2>2 DEF FramesApart, Indices
  <2> QED
    BY <1>2, <1>3, <1>5, <2>2, <2>3
<1>6. IsFirst(stream, i) => f = i
  BY <1>2, <1>3, <1>4 DEF IsFirst, Indices
<1> QED
  BY <1>2, <1>3, <1>4, <1>5, <1>6, Zenon DEF f

\* A packet of a clean frame leaves it intact.
LEMMA CleanIsSound ==
  ASSUME FrameInv, CompleteInv, WholeInv, NEW i \in Indices, Receive(i),
         top - Lag <= i, i <= top + 1 + Gap, CleanSoFar(stream[i].ts)'
  PROVE  Sound(h, stream[i], ExtSeq(i))
<1> DEFINE p == stream[i]
           e == ExtSeq(i)
           f == FirstOf(p.ts)
<1>0. PICK s : s = [h EXCEPT !.out_frame = None]
  OBVIOUS
<1>1. /\ stream \in Seq(Packets) /\ i \in 1 .. Len(stream) /\ Len(stream) \in Nat
      /\ p \in Packets /\ e \in ESeqs
      /\ Handler(s) /\ s.out_frame = None /\ (s.have_frame => ~ s.last_marker)
      /\ s.cached_main = h.cached_main /\ s.seq_gaps = h.seq_gaps
      /\ s.first_ever = h.first_ever /\ s.last_ext_seq = h.last_ext_seq
      /\ h' = Push(s, p, e)
  BY <1>0, ReceiveFacts
<1>2. /\ h'.seq_gaps = s.seq_gaps + One(~ InOrder(s, e))
      /\ h'.cached_main = IF Stores(p) THEN p.data ELSE s.cached_main
  BY <1>1, PushFacts
<1>3. /\ stream' = stream /\ last' = i
      /\ run' = IF i = last + 1 THEN run ELSE i
  BY DEF Receive
<1>4. /\ FramesApart(stream) /\ HeadedBy(stream, Header)
      /\ InOrder(s, e) <=> InOrder(h, e)
      /\ h.seq_gaps \in Nat
      /\ One(~ InOrder(s, e)) = IF InOrder(h, e) THEN 0 ELSE 1
  BY <1>1, HeaderFacts DEF CompleteInv, InOrder, One, FrameInv, Handler
<1>5. /\ f \in Indices /\ f <= i /\ stream[f].ts = p.ts
      /\ f < i => stream[i - 1].ts = p.ts /\ ~ stream[i - 1].marker
      /\ f = i /\ i # 1 => stream[i - 1].marker
      /\ IsFirst(stream, i) => f = i
  BY <1>1, <1>4, FirstOfIs
<1>6. /\ run' < f \/ (run' = f /\ h'.seq_gaps = 0)
      /\ stream[f].kind = "main" \/ h'.cached_main # <<>>
  BY <1>3 DEF CleanSoFar, FirstOf, Indices
<1>7. /\ f \in Nat /\ i \in Nat /\ run \in Nat /\ last \in Nat
      /\ h'.seq_gaps = 0 => h.seq_gaps = 0 /\ InOrder(h, e)
  <2>1. h'.seq_gaps = 0 => h.seq_gaps = 0 /\ InOrder(h, e)
    BY <1>1, <1>2, <1>4
  <2> QED
    BY <1>1, <1>5, <2>1 DEF FrameInv, Indices
\* A packet other than the first of its frame is a body packet, and stores nothing.
<1>8. /\ p.kind \in {"main", "body"} /\ (p.kind = "main" => f = i)
      /\ p.kind = "body" => h'.cached_main = h.cached_main
  BY <1>1, <1>2, <1>4, <1>5 DEF Packets, HeadedBy, Stores
<1> HIDE DEF f, e
<1>9. CASE run' < i
  <2>1. i = last + 1 /\ run' = run /\ ~ h.first_ever /\ run <= last /\ last = i - 1
    BY <1>3, <1>7, <1>9 DEF WholeInv
  <2>2. h.last_ext_seq = ExtSeq(last) /\ InOrder(h, e)
    <3>1. h.last_ext_seq = ExtSeq(last)
      BY <2>1 DEF CompleteInv, Recent
    <3>2. e = (ExtSeq(last) + 1) % SeqMod
      BY <1>7, <2>1, NextNumber DEF e
    <3> QED
      BY <3>1, <3>2 DEF InOrder
  <2>3. CASE f = i
    <3>1. stream[last].marker /\ ~ h.have_frame
      BY <1>5, <1>7, <2>1, <2>3 DEF CompleteInv, InProgress, Recent, Indices
    <3>2. ~ Continues(h, p)
      BY <3>1 DEF Continues
    <3> QED
      BY <1>6, <1>8, <2>2, <2>3, <3>2 DEF Sound, e
  <2>4. CASE f # i
    <3>1. f < i /\ stream[last].ts = p.ts /\ ~ stream[last].marker
      BY <1>5, <1>7, <2>1, <2>4
    <3>2. CleanSoFar(stream[last].ts)
      <4>1. p.kind = "body"
        BY <1>8, <2>4
      <4>2. run < f \/ (run = f /\ h.seq_gaps = 0)
        BY <1>6, <1>7, <2>1
      <4>3. stream[f].kind = "main" \/ h.cached_main # <<>>
        BY <1>6, <1>8, <4>1
      <4> QED
        BY <3>1, <4>2, <4>3 DEF CleanSoFar, f
    <3>3. h.intact
      BY <2>1, <3>1, <3>2 DEF WholeInv
    <3>4. Continues(h, p)
      BY <2>1, <3>1 DEF Continues, CompleteInv, InProgress
    <3> QED
      BY <2>2, <3>3, <3>4 DEF Sound, e
  <2> QED
    BY <2>3, <2>4
<1>10. CASE ~ (run' < i)
  <2>1. run' = i /\ f = i /\ h'.seq_gaps = 0 /\ InOrder(h, e)
    <3>1. run' \in Nat
      BY <1>3, <1>7
    <3> QED
      BY <1>5, <1>6, <1>7, <1>10, <3>1
  <2>2. h.first_ever
    <3>1. SUFFICES ASSUME ~ h.first_ever PROVE FALSE
      OBVIOUS
    <3>2. /\ last \in Indices /\ top - Lag <= last /\ last <= top
          /\ h.last_ext_seq = ExtSeq(last)
      BY <3>1 DEF CompleteInv, Recent
    <3>3. ExtSeq(i) = (ExtSeq(last) + 1) % SeqMod
      BY <2>1, <3>1, <3>2 DEF InOrder, e
    <3>4. i - last <= Gap + Lag + 1 /\ last - i <= Lag
      <4>1. top \in Nat
        BY <1>1 DEF FrameInv
      <4> QED
        BY <1>7, <3>2, <4>1, StreamAssumption
    <3>5. i = last + 1
      BY <1>7, <3>3, <3>4, NextIndex
    <3> QED
      BY <1>3, <1>7, <2>1, <3>1, <3>5 DEF WholeInv
  <2>3. ~ Continues(h, p)
    BY <2>2 DEF Continues, CompleteInv, InProgress
  <2> QED
    BY <1>6, <1>8, <2>1, <2>3 DEF Sound, e
<1> QED
  BY <1>9, <1>10

\* Receiving a packet keeps this, and the last packet of a clean frame hands it out.
LEMMA ReceiveWhole ==
  ASSUME FrameInv, CompleteInv, WholeInv, NEW i \in Indices, Receive(i),
         top - Lag <= i, i <= top + 1 + Gap
  PROVE  /\ WholeInv'
         /\ NoFrameEmpty(stream) /\ CleanEnd'
              => log' # log /\ log'[Len(log')].ts = stream[last'].ts
<1> DEFINE p == stream[i]
           e == ExtSeq(i)
<1>0. PICK s : s = [h EXCEPT !.out_frame = None]
  OBVIOUS
<1>1. /\ stream \in Seq(Packets) /\ i \in 1 .. Len(stream) /\ Len(stream) \in Nat
      /\ p \in Packets /\ e \in ESeqs
      /\ Handler(s) /\ s.out_frame = None /\ (s.have_frame => ~ s.last_marker)
      /\ s.have_frame = h.have_frame /\ s.current_ts = h.current_ts
      /\ s.intact = h.intact /\ s.accum = h.accum /\ s.cached_main = h.cached_main
      /\ s.first_ever = h.first_ever /\ s.last_ext_seq = h.last_ext_seq
      /\ h' = Push(s, p, e)
  BY <1>0, ReceiveFacts
<1>2. /\ ~ h'.first_ever
      /\ h'.have_frame <=> ~ p.marker
      /\ h'.have_frame => (h'.intact <=> Sound(s, p, e))
      /\ h'.out_frame # None <=> p.marker /\ Sound(s, p, e) /\ Grown(s, p) # <<>>
      /\ h'.out_frame # None => h'.out_frame.ts = p.ts
  BY <1>1, PushFacts
<1>3. /\ stream' = stream /\ last' = i
      /\ run' = IF i = last + 1 THEN run ELSE i
      /\ log' = IF h'.out_frame = None THEN log ELSE Append(log, h'.out_frame)
  BY DEF Receive
<1>4. /\ Sound(s, p, e) <=> Sound(h, p, e)
      /\ Grown(s, p) = Grown(h, p)
  BY <1>1 DEF Sound, InOrder, Continues, Grown
<1>5. CleanSoFar(p.ts)' => Sound(h, p, e)
  BY CleanIsSound
<1> HIDE DEF e
<1>6. WholeInv'
  <2>1. run' <= last'
    <3>1. run \in Nat /\ last \in Nat
      BY <1>1 DEF FrameInv
    <3> QED
      BY <1>1, <1>3, <3>1 DEF WholeInv
  <2>2. ~ p.marker /\ CleanSoFar(p.ts)' => h'.intact
    BY <1>2, <1>4, <1>5
  <2>3. ~ stream'[last'].marker /\ CleanSoFar(stream[last].ts)' => h'.intact
    BY <2>2, <1>3
  <2> QED
    BY <2>1, <2>3, <1>2, Zenon DEF WholeInv
<1>7. ASSUME NoFrameEmpty(stream), CleanEnd'
      PROVE  log' # log /\ log'[Len(log')].ts = stream[last'].ts
  <2>1. p.marker /\ CleanSoFar(p.ts)'
    BY <1>3, <1>7 DEF CleanEnd, CleanSoFar, FirstOf, Indices
  <2>2. Grown(h, p) = p.upto /\ p.upto # <<>>
    <3>1. Sound(h, p, ExtSeq(i))
      BY <1>5, <2>1 DEF e
    <3> QED
      BY <1>1, <1>7, <2>1, <3>1, GrownIsUpto DEF NoFrameEmpty
  <2>3. h'.out_frame # None /\ h'.out_frame.ts = p.ts
    BY <1>2, <1>4, <1>5, <2>1, <2>2
  <2>4. log \in Seq(AssembledFrames) /\ Len(log) \in Nat
    BY DEF FrameInv
  <2>5. /\ log' = Append(log, h'.out_frame)
        /\ Len(log') = Len(log) + 1 /\ log'[Len(log) + 1] = h'.out_frame
    BY <1>3, <2>3, <2>4
  <2> QED
    BY <1>3, <2>3, <2>4, <2>5
<1> QED
  BY <1>6, <1>7

LEMMA NextWhole ==
  ASSUME FrameInv, CompleteInv, WholeInv, [Next]_vars
  PROVE  /\ WholeInv'
         /\ NoFrameEmpty(stream)
              => [CleanEnd' => log' # log /\ log'[Len(log')].ts = stream[last'].ts]_vars
<1>0. Len(stream) \in Nat /\ top \in Nat
  BY StreamAssumption DEF FrameInv
<1>1. CASE ReceiveNew
  <2>1. PICK i \in top + 1 .. top + 1 + Gap : i \in Indices /\ Receive(i)
    BY <1>1 DEF ReceiveNew
  <2>2. top - Lag <= i /\ i <= top + 1 + Gap
    BY <1>0, <2>1, StreamAssumption
  <2> QED
    BY <2>1, <2>2, ReceiveWhole
<1>2. CASE ReceiveOld
  <2>1. PICK i \in top - Lag .. top : i \in Indices /\ Receive(i)
    BY <1>2 DEF ReceiveOld
  <2>2. top - Lag <= i /\ i <= top + 1 + Gap
    BY <1>0, <2>1, StreamAssumption
  <2> QED
    BY <2>1, <2>2, ReceiveWhole
<1>3. CASE UNCHANGED vars
  BY <1>3 DEF vars, WholeInv, CleanSoFar, FirstOf, Indices
<1> QED
  BY <1>1, <1>2, <1>3 DEF Next

\* A frame all of whose packets come in order, right behind its predecessor, is handed
\* out, whatever was lost, late or repeated before it and whenever the receiver joined.
THEOREM WholeFramesArrive ==
  ASSUME \A s \in Streams : OneHeaderPacket(s) /\ NoFrameEmpty(s)
  PROVE  Spec => IntactFramesArrive
<1>1. Init => CompleteInv /\ WholeInv
  <2> SUFFICES ASSUME Init PROVE CompleteInv /\ WholeInv
    OBVIOUS
  <2>1. /\ h.first_ever /\ ~ h.have_frame /\ h.cached_main = <<>>
        /\ run = last + 1
    BY DEF Init, InitHandler
  <2>2. EmittedIsComplete
    BY DEF Init, EmittedIsComplete
  <2> QED
    BY <2>1, <2>2 DEF CompleteInv, Recent, InProgress, WholeInv, Init
<1>2. FrameInv /\ CompleteInv /\ WholeInv /\ [Next]_vars => WholeInv'
  BY NextWhole
<1>3. FrameInv /\ CompleteInv /\ WholeInv /\ [Next]_vars
        => [CleanEnd' => log' # log /\ log'[Len(log')].ts = stream[last'].ts]_vars
  <2>1. FrameInv => NoFrameEmpty(stream)
    BY DEF FrameInv
  <2> QED
    BY <2>1, NextWhole
<1> QED
  BY <1>1, <1>2, <1>3, NextCompleteInv, FrameInvariant, PTL DEF Spec, IntactFramesArrive

=============================================================================
