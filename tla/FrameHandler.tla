---------------------------- MODULE FrameHandler ----------------------------
(***************************************************************************)
(* Frame assembly in the RTP receiver (apps/rtp_recv/frame_handler.cpp):   *)
(* packets of a JPEG 2000 stream arrive with a timestamp, an extended      *)
(* sequence number and a marker bit on the last packet of a frame; the     *)
(* handler hands out whole codestreams and drops a frame with a gap.       *)
(*                                                                         *)
(* The handler is the record h, and each of its methods is an operator on  *)
(* it.  The network is the environment: it loses packets, delivers some    *)
(* again or late, and the receiver may join in the middle of the stream.   *)
(* Codestream bytes are tokens.                                            *)
(***************************************************************************)
EXTENDS Integers, Sequences

CONSTANTS
  Tokens,   \* pieces of a codestream
  Streams,  \* the packet sequences a sender may emit
  SeqMod,   \* extended sequence numbers wrap at SeqMod (2^24)
  Base,     \* the number of the first packet
  LateJoin, \* whether the receiver may join in the middle of the stream
  Gap,      \* bound: packets lost in a row
  Lag,      \* bound: how far behind the newest packet a late one may be
  MaxOld    \* bound: late or repeated deliveries

\* A packet, with the codestream of its frame up to and with it (upto), which only
\* the properties look at.
Packets == [ts : Nat, kind : {"main", "body"}, r : BOOLEAN, marker : BOOLEAN,
            data : Seq(Tokens), upto : Seq(Tokens)]

ASSUME StreamAssumption ==
  /\ Streams \subseteq Seq(Packets)
  /\ SeqMod \in Nat \ {0} /\ Base \in 0 .. SeqMod - 1
  /\ LateJoin \in BOOLEAN /\ Gap \in Nat /\ Lag \in Nat /\ MaxOld \in Nat
  \* Losses and delays stay well below one wrap of the sequence number.
  /\ Gap + Lag + 1 < SeqMod

VARIABLES
  stream,  \* what the sender emits, in order
  top,     \* index of the newest packet that has arrived or was passed over
  olds,    \* late or repeated deliveries so far
  run,     \* since which index every packet has arrived in order
  last,    \* index of the packet that arrived last
  h,       \* the handler
  log      \* the frames the caller received

vars == <<stream, top, olds, run, last, h, log>>

None == [ts |-> "none"]

Indices   == 1 .. Len(stream)

\* Mutant: the extended sequence number is not cut to its width.
ExtSeqUncut(i) == Base + i

ExtSeq(i) == (Base + i) % SeqMod

-----------------------------------------------------------------------------
(* The handler's methods. *)

InitHandler ==
  [have_frame   |-> FALSE,
   current_ts   |-> 0,
   intact       |-> TRUE,
   last_marker  |-> FALSE,   \* last_pkt_was_marker_
   accum        |-> <<>>,
   cached_main  |-> <<>>,    \* <<>> when have_cached_main_ is false
   has_meta     |-> FALSE,
   eseq_first   |-> 0,
   packet_count |-> 0,
   first_ever   |-> TRUE,
   last_ext_seq |-> 0,
   started      |-> 0,       \* frames begun (history, for the properties)
   frames_dropped  |-> 0,
   tail_loss_drops |-> 0,
   seq_gaps        |-> 0,
   out_frame       |-> None]

\* Mutants: a gap is counted but the frame stays intact; the number of the packet
\* behind a gap is not remembered.
track_sequence_lenient(s, e) ==
  IF s.first_ever THEN [s EXCEPT !.first_ever = FALSE, !.last_ext_seq = e]
  ELSE [s EXCEPT !.seq_gaps = @ + (IF e # (s.last_ext_seq + 1) % SeqMod THEN 1 ELSE 0),
                 !.last_ext_seq = e]
track_sequence_stuck(s, e) ==
  IF s.first_ever THEN [s EXCEPT !.first_ever = FALSE, !.last_ext_seq = e]
  ELSE IF e # (s.last_ext_seq + 1) % SeqMod
       THEN [s EXCEPT !.seq_gaps = @ + 1, !.intact = FALSE]
       ELSE [s EXCEPT !.last_ext_seq = e]

track_sequence(s, e) ==
  IF s.first_ever THEN [s EXCEPT !.first_ever = FALSE, !.last_ext_seq = e]
  ELSE IF e # (s.last_ext_seq + 1) % SeqMod
       THEN [s EXCEPT !.seq_gaps = @ + 1, !.intact = FALSE, !.last_ext_seq = e]
       ELSE [s EXCEPT !.last_ext_seq = e]

start_frame(s, bytes, ok) ==
  [s EXCEPT !.accum = bytes, !.intact = ok, !.have_frame = TRUE, !.packet_count = 0,
            !.last_marker = FALSE, !.has_meta = FALSE, !.started = @ + 1]

start_frame_empty(s) == start_frame(s, <<>>, TRUE)

\* A frame that begins with a Body packet takes the cached main header; with no
\* header cached it cannot be decoded and is marked lossy.
start_frame_with_main_prepend(s) ==
  start_frame(s, s.cached_main, s.cached_main # <<>>)

\* Mutant: damaged frames are handed out too.
finalize_frame_damaged(s) ==
  IF ~ s.have_frame THEN s
  ELSE LET emit == s.accum # <<>>
       IN [s EXCEPT
             !.frames_dropped  = IF emit THEN @ ELSE @ + 1,
             !.out_frame = IF emit
                           THEN [ts |-> s.current_ts, bytes |-> s.accum,
                                 eseq_first |-> s.eseq_first, eseq_last |-> s.last_ext_seq,
                                 packet_count |-> s.packet_count, has_meta |-> s.has_meta]
                           ELSE @,
             !.accum = <<>>, !.have_frame = FALSE, !.packet_count = 0,
             !.intact = TRUE, !.has_meta = FALSE]

finalize_frame(s) ==
  IF ~ s.have_frame THEN s
  ELSE LET tail_lost == s.intact /\ ~ s.last_marker
           emit == s.intact /\ ~ tail_lost /\ s.accum # <<>>
       IN [s EXCEPT
             !.tail_loss_drops = IF tail_lost THEN @ + 1 ELSE @,
             !.frames_dropped  = IF emit THEN @ ELSE @ + 1,
             !.out_frame = IF emit
                           THEN [ts |-> s.current_ts, bytes |-> s.accum,
                                 eseq_first |-> s.eseq_first, eseq_last |-> s.last_ext_seq,
                                 packet_count |-> s.packet_count, has_meta |-> s.has_meta]
                           ELSE @,
             !.accum = <<>>, !.have_frame = FALSE, !.packet_count = 0,
             !.intact = TRUE, !.has_meta = FALSE]

\* What both push methods do before and after the part that differs; a new frame
\* is started by the method of the packet's kind.
Begin(s, p, e) ==
  LET t == IF s.have_frame /\ p.ts # s.current_ts THEN finalize_frame(s) ELSE s
      new == [t EXCEPT !.current_ts = p.ts, !.eseq_first = e]
      u == IF t.have_frame THEN t
           ELSE IF p.kind = "main" THEN start_frame_empty(new)
           ELSE start_frame_with_main_prepend(new)
      v == track_sequence(u, e)
  IN [v EXCEPT !.packet_count = @ + 1, !.accum = @ \o p.data, !.last_marker = p.marker]

End(s, p) == IF p.marker THEN finalize_frame(s) ELSE s

push_main_packet(s, p, e) ==
  LET t == [Begin(s, p, e) EXCEPT !.has_meta = TRUE]
      u == IF p.r /\ p.data # <<>> THEN [t EXCEPT !.cached_main = p.data] ELSE t
  IN End(u, p)

push_body_packet(s, p, e) == End(Begin(s, p, e), p)

-----------------------------------------------------------------------------
Init ==
  /\ stream \in Streams
  /\ top \in IF LateJoin THEN 0 .. Len(stream) - 1 ELSE {0}
  /\ olds = 0
  /\ run = top + 1
  /\ last = top
  /\ h = InitHandler
  /\ log = <<>>

\* The receive loop takes packet i off the socket and pushes it, with a fresh
\* out_frame; the caller consumes the frame it gets back.
Receive(i) ==
  LET p == stream[i]
      fresh == [h EXCEPT !.out_frame = None]
  IN /\ h' = IF p.kind = "main" THEN push_main_packet(fresh, p, ExtSeq(i))
             ELSE push_body_packet(fresh, p, ExtSeq(i))
     /\ log' = IF h'.out_frame = None THEN log ELSE Append(log, h'.out_frame)
     /\ run' = IF i = last + 1 THEN run ELSE i
     /\ last' = i
     /\ UNCHANGED stream

\* The next packet, or one after a loss of up to Gap packets.
ReceiveNew ==
  \E i \in top + 1 .. top + 1 + Gap :
     /\ i \in Indices
     /\ Receive(i)
     /\ top' = i
     /\ UNCHANGED olds

\* A packet that arrives late, or again.
ReceiveOld ==
  /\ olds < MaxOld
  /\ \E i \in top - Lag .. top :
       /\ i \in Indices
       /\ Receive(i)
  /\ olds' = olds + 1
  /\ UNCHANGED top

Next == ReceiveNew \/ ReceiveOld

Spec == Init /\ [][Next]_vars

-----------------------------------------------------------------------------
(* Properties. *)

TypeOK ==
  /\ top \in 0 .. Len(stream)
  /\ olds \in 0 .. MaxOld
  /\ last \in 0 .. Len(stream)
  /\ run \in 1 .. Len(stream) + 1
  /\ {h.have_frame, h.intact, h.last_marker, h.has_meta, h.first_ever} \subseteq BOOLEAN
  /\ {h.last_ext_seq, h.eseq_first} \subseteq 0 .. SeqMod - 1
  /\ {h.packet_count, h.frames_dropped, h.tail_loss_drops, h.seq_gaps} \subseteq Nat

\* The codestream of the frame sent with timestamp ts.
Codestream(ts) == (CHOOSE p \in {stream[i] : i \in Indices} : p.ts = ts /\ p.marker).upto

\* "complete JPEG 2000 codestream ready for openhtj2k_decoder" (AssembledFrame):
\* whatever was lost, repeated, reordered or missed before the receiver joined,
\* every frame handed out is one sent frame, whole: its main header, received
\* with it or taken from the cache, and all of its packets in order.
EmittedIsComplete ==
  \A k \in DOMAIN log : log[k].bytes = Codestream(log[k].ts)

\* A stream for which that holds: two packets have one timestamp if and only if the
\* marker of no frame lies between them; a frame's main header is in its first packet or,
\* when a frame before it allowed that (R = 1), left out.
FramesApart(s) ==
  \A i, j \in 1 .. Len(s) :
     i < j => (s[i].ts = s[j].ts <=> \A k \in i .. j - 1 : ~ s[k].marker)

IsFirst(s, i) == i = 1 \/ s[i - 1].marker

HeadedBy(s, header) ==
  /\ header # <<>>
  /\ \A i \in 1 .. Len(s) :
       /\ s[i].kind = "main" => IsFirst(s, i) /\ (s[i].r => s[i].data = header)
       /\ s[i].upto = IF ~ IsFirst(s, i) THEN s[i - 1].upto \o s[i].data
                      ELSE IF s[i].kind = "main" THEN s[i].data
                      ELSE header \o s[i].data

OneHeaderPacket(s) ==
  FramesApart(s) /\ \E header \in {s[i].data : i \in 1 .. Len(s)} : HeadedBy(s, header)

\* A codestream has at least its main header.
NoFrameEmpty(s) == \A i \in 1 .. Len(s) : s[i].marker => s[i].upto # <<>>

\* Every frame that was started reaches the caller or is counted as dropped.  In
\* particular a push that ends one frame because the timestamp changed and the
\* next because of its marker bit never overwrites the out_frame of the first.
EveryFrameAccounted ==
  h.started = Len(log) + h.frames_dropped + (IF h.have_frame THEN 1 ELSE 0)

FirstOf(ts) == CHOOSE i \in Indices :
                 stream[i].ts = ts /\ \A j \in Indices : stream[j].ts = ts => i <= j

\* The packet just received ends a frame all of whose packets came in order
\* after the last packet of the frame before, or after nothing at all.
CleanEnd ==
  /\ last # 0 /\ stream[last].marker
  /\ LET f == FirstOf(stream[last].ts) IN
     /\ run < f \/ (run = f /\ h.seq_gaps = 0)
     /\ stream[f].kind = "main" \/ h.cached_main # <<>>

\* Resynchronisation: a frame that arrives whole right behind the end of its
\* predecessor is handed out, whatever happened to the stream before it.
IntactFramesArrive ==
  [][CleanEnd' => log' # log /\ log'[Len(log')].ts = stream[last'].ts]_vars

=============================================================================
