--------------------------- MODULE MCFrameHandler ---------------------------
(***************************************************************************)
(* Streams of three frames for TLC.  A frame is a main header, in one      *)
(* packet or in two, followed by body packets; or, where the main header   *)
(* is reused (R = 1), body packets alone.  One shape ends with a packet    *)
(* that carries no codestream byte.                                        *)
(***************************************************************************)
EXTENDS FrameHandler

SequencesExt == INSTANCE SequencesExt

\* The packets of frame ts: the pieces of the main header, then the bodies, the third
\* of which carries nothing.  A frame without pieces takes header from the cache.
Frame(ts, r, heads, bodies, header) ==
  LET datas  == heads \o [k \in 1 .. bodies |-> IF k = 3 THEN <<>> ELSE <<<<ts, k>>>>]
      cached == IF heads = <<>> THEN header ELSE <<>>
  IN [i \in DOMAIN datas |->
        [ts |-> ts, kind |-> IF i <= Len(heads) THEN "main" ELSE "body", r |-> r,
         marker |-> i = Len(datas), data |-> datas[i],
         upto |-> cached \o SequencesExt!FlattenSeq(SubSeq(datas, 1, i))]]

\* Pieces of the main header and of the bodies of three frames.
SOC == <<0, 1>>
SOD == <<0, 2>>
Pieces == (0 .. 3) \X (1 .. 2)

\* The main header arrives in one packet; with reuse it may be left out.
OneHeader == <<<<SOC, SOD>>>>
SinglePacketHeader ==
  LET F(ts, r, first) ==
        {Frame(ts, r, OneHeader, b, <<SOC, SOD>>) : b \in 0 .. 3}
        \cup (IF r /\ ~ first THEN {Frame(ts, r, <<>>, b, <<SOC, SOD>>) : b \in 1 .. 2}
              ELSE {})
  IN UNION {{f1 \o f2 \o f3 : f1 \in F(1, r, TRUE), f2 \in F(2, r, FALSE), f3 \in F(3, r, FALSE)}
            : r \in BOOLEAN}

\* The main header is split over two Main packets (MH = 1, then MH = 2), and
\* the second frame reuses it.
TwoHeaders == <<<<SOC>>, <<SOD>>>>
SplitHeader ==
  {Frame(1, TRUE, TwoHeaders, b, <<SOC, SOD>>)
   \o Frame(2, TRUE, <<>>, c, <<SOC, SOD>>)
   \o Frame(3, TRUE, TwoHeaders, 1, <<SOC, SOD>>) : b, c \in 1 .. 2}

\* What the theorems about complete frames suppose of the streams is true of the first
\* set.
ASSUME OneHeaderAssumption ==
  \A s \in SinglePacketHeader : OneHeaderPacket(s) /\ NoFrameEmpty(s)

=============================================================================
