--------------------------- MODULE PacketHeaders ---------------------------
(***************************************************************************)
(* Packet headers, bit by bit: what t1_encode_packet and the packet's      *)
(* constructor write, and what read_packet makes of it. Tag trees, the     *)
(* length bits of a code-block and bit stuffing all carry state from one   *)
(* packet to the next, so that a bit too many goes unnoticed until the     *)
(* headers that follow are garbage.                                        *)
(*                                                                         *)
(* A stream is [grids, packets, ht, eph, packed, mute, ours, frames]: code-*)
(* blocks <<across, down>> of every band of every precinct; the packets    *)
(* <<precinct, layer>> in their order; HT or Part 1 blocks; EPH; headers   *)
(* in PPT markers; empty packets where nothing is included; written by     *)
(* this encoder or by another. A frame is [zbp, passes]: zero bit planes   *)
(* of block k; passes[k][l + 1] the lengths of its coding passes in layer  *)
(* l. Block k is <<precinct, band, index>>. Left out: SOP, PPM, placeholder *)
(* passes, HT blocks of more than three passes, RESTART, BYPASS and MIXED.  *)
(***************************************************************************)
EXTENDS Integers, SequencesExt

CONSTANTS HeaderStreams,  \* streams that are written and read
          ByteBits        \* bits of a byte

ASSUME ByteBitsAssumption == ByteBits \in Nat /\ ByteBits > 2

VARIABLES hs,       \* the stream
          shot,     \* number of the frame
          wire,     \* the bytes of the tile and of the PPT headers
          taken,    \* how many of them were read (pos)
          lastByte, \* last_byte of the headers' buffer
          nPackets, \* packets read
          incl,     \* inclusion_info: the nodes of every tree
          zero,     \* ZBP_info
          cblk,     \* the reader's code-blocks
          broken    \* an exception was thrown

headerVars == <<hs, shot, wire, taken, lastByte, nPackets, incl, zero, cblk, broken>>

----------------------------------------------------------------------------
(* Tag trees. A node is <<precinct, band, level, x, y>>, level 0 the       *)
(* leaves; it has a current value and, once decided, is done.              *)

Across(k) == hs.grids[k[1]][k[2]][1]
Down(k)   == hs.grids[k[1]][k[2]][2]
BandsIn(p) == DOMAIN hs.grids[p]
CblksOf(p, b) == [i \in 1 .. Across(<<p, b>>) * Down(<<p, b>>) |-> <<p, b, i - 1>>]
CblksIn(p) == FlattenSeq([b \in BandsIn(p) |-> CblksOf(p, b)])
Cblks == UNION {Range(CblksIn(p)) : p \in DOMAIN hs.grids}

RootLevel(k) == CHOOSE n \in 0 .. 8 : /\ 2 ^ n >= Max({Across(k), Down(k)})
                                      /\ n > 0 => 2 ^ (n - 1) < Max({Across(k), Down(k)})
NodeOver(k, n) == <<k[1], k[2], n, (k[3] % Across(k)) \div 2 ^ n, (k[3] \div Across(k)) \div 2 ^ n>>

\* tree_path, from the root to the leaf.
PathTo(k) == [i \in 1 .. RootLevel(k) + 1 |-> NodeOver(k, RootLevel(k) + 1 - i)]
TreeNodes == UNION {Range(PathTo(k)) : k \in Cblks}
ParentOf(n) == <<n[1], n[2], n[3] + 1, n[4] \div 2, n[5] \div 2>>

Undecided == [n \in TreeNodes |-> [cv |-> 0, done |-> FALSE]]

\* The least value below node n (tagtree::build).
Built(leaf) == [n \in TreeNodes |-> Min({leaf[k] : k \in {j \in Cblks : NodeOver(j, n[3]) = n}})]

\* A node starts no lower than its parent.
Floor(tree, n) ==
  LET up == ParentOf(n) IN Max({tree[n].cv} \cup IF up \in TreeNodes THEN {tree[up].cv} ELSE {})
Asks(tree, n, t) == ~tree[n].done /\ Floor(tree, n) <= t

\* One visit of a node at threshold t: the bit is 1 if its value is reached.
Visited(tree, n, t, bit) ==
  [tree EXCEPT ![n] = IF @.done THEN @
                      ELSE [cv   |-> Floor(tree, n) + IF Asks(tree, n, t) THEN 1 - bit ELSE 0,
                            done |-> Asks(tree, n, t) /\ bit = 1]]

----------------------------------------------------------------------------
(* The writer. w = [value, incl, zero, lblock, bits, tile, ppt, ends] goes *)
(* through packets and blocks; value is what the trees are to tell.        *)

Zeros(n) == [i \in 1 .. n |-> 0]
Ones(n)  == [i \in 1 .. n |-> 1]
Binary(v, n) == [i \in 1 .. n |-> (v \div 2 ^ (n - i)) % 2]
Log2Floor(n) == CHOOSE e \in 0 .. 8 : 2 ^ e <= n /\ n < 2 ^ (e + 1)
BitLength(v) == IF v = 0 THEN 0 ELSE Log2Floor(v) + 1

Bytes(lens) == FoldLeft(LAMBDA a, b : a + b, 0, lens)
LayerOf(k, l) == hs.frames[shot].passes[k][l + 1]
PassesBefore(k, l) == Bytes([i \in 1 .. l |-> Len(LayerOf(k, i - 1))])

\* The layer that first includes block k: what the inclusion tree tells.
FirstLayer(k) ==
  Min({l \in DOMAIN hs.frames[shot].passes[k] : LayerOf(k, l - 1) # <<>>}
        \cup {Len(hs.frames[shot].passes[k]) + 1}) - 1
TreeValues == [incl |-> Built([k \in Cblks |-> FirstLayer(k)]),
               zero |-> Built([k \in Cblks |-> hs.frames[shot].zbp[k]])]

\* generate_packet_header, which writes one layer only, visits each node of the
\* path once and compares with the threshold; a writer of layers goes on until the
\* node is above it.
Tell(w, n, t) ==
  LET bit == IF w.value.incl[n] <= (IF hs.ours THEN t ELSE Floor(w.incl, n)) THEN 1 ELSE 0
  IN  IF Asks(w.incl, n, t)
        THEN [w EXCEPT !.incl = Visited(@, n, t, bit), !.bits = Append(@, bit)]
        ELSE [w EXCEPT !.incl = Visited(@, n, t, 0)]
TellAll(w, n, t) == FoldLeft(LAMBDA v, i : Tell(v, n, t), w, Zeros(IF hs.ours THEN 1 ELSE t + 1))

TellZero(w, n) ==
  LET up == ParentOf(n)
      from == IF up \in TreeNodes THEN w.value.zero[up] ELSE 0
  IN  IF w.zero[n].done THEN w
      ELSE [w EXCEPT !.zero[n].done = TRUE,
                     !.bits = @ \o Zeros(w.value.zero[n] - from) \o <<1>>]

PassCode(n) ==
  CASE n = 1 -> <<0>>
    [] n = 2 -> <<1, 0>>
    [] n > 2 /\ n < 6 -> Ones(2) \o Binary(n - 3, 2)
    [] n >= 6 /\ n < 37 -> Ones(4) \o Binary(n - 6, 5)
    [] n >= 37 -> Ones(9) \o Binary(n - 37, 7)

\* The passes whose lengths are told in one number: an HT cleanup pass by
\* itself, then its refinements; all passes of a layer in Part 1.
Segments(first, lens) ==
  IF hs.ht /\ first /\ Len(lens) > 1 THEN <<SubSeq(lens, 1, 1), Tail(lens)>> ELSE <<lens>>

\* The passes of a block, the growth of lblock and the lengths of the segments.
WritePasses(w, k, lblock, segments) ==
  LET Needs(s) == BitLength(Bytes(s)) - Log2Floor(Len(s))
      lb == Max({lblock} \cup {Needs(s) : s \in Range(segments)})
  IN  [w EXCEPT !.bits = @ \o PassCode(Len(FlattenSeq(segments))) \o Ones(lb - lblock) \o <<0>>
                           \o FlattenSeq([i \in DOMAIN segments |->
                                Binary(Bytes(segments[i]), lb + Log2Floor(Len(segments[i])))]),
                !.lblock[k] = lb]

\* Whether layer l includes block k.
TellBlock(w, k, l) ==
  IF PassesBefore(k, l) = 0 THEN FoldLeft(LAMBDA v, n : TellAll(v, n, l), w, PathTo(k))
  ELSE [w EXCEPT !.bits = Append(@, IF LayerOf(k, l) = <<>> THEN 0 ELSE 1)]

\* A block's zero bit planes go with its first passes, and lblock is 3 again.
WriteBlock(w, k, l) ==
  LET first == PassesBefore(k, l) = 0
  IN  IF LayerOf(k, l) = <<>> THEN TellBlock(w, k, l)
      ELSE WritePasses(IF first THEN FoldLeft(TellZero, TellBlock(w, k, l), PathTo(k))
                       ELSE TellBlock(w, k, l),
                       k, IF first THEN 3 ELSE w.lblock[k], Segments(first, LayerOf(k, l)))

\* put_bit and flush: after a byte of ones the top bit of the next one is skipped.
Full(byte) == \A i \in DOMAIN byte : byte[i] = 1
Pad(bits, n) == bits \o Zeros(n - Len(bits))
PutBit(acc, bit) ==
  LET open == acc[Len(acc)]
  IN  IF Len(open) < ByteBits THEN Append(Front(acc), Append(open, bit))
      ELSE Append(acc, IF Full(open) THEN <<0, bit>> ELSE <<bit>>)
Stuffed(bits) ==
  LET acc  == FoldLeft(PutBit, <<<<>>>>, bits)
      all  == Append(Front(acc), Pad(acc[Len(acc)], ByteBits))
  IN  IF Full(all[Len(all)]) THEN Append(all, Zeros(ByteBits)) ELSE all

\* EPH is one item here; the bytes of a body are all alike.
EPH == [i \in 1 .. ByteBits |-> 2]
BodyByte == Zeros(ByteBits)

BodyBytes(p, l) == Bytes([i \in DOMAIN CblksIn(p) |-> Bytes(LayerOf(CblksIn(p)[i], l))])

Silent(pl) ==
  /\ hs.mute
  /\ \A k \in Range(CblksIn(pl[1])) : LayerOf(k, pl[2]) = <<>>

\* The header of packet pl, of which the bits are known, and the body.
SendPacket(w, pl) ==
  LET header == Stuffed(w.bits) \o IF hs.eph THEN <<EPH>> ELSE <<>>
      body   == [i \in 1 .. BodyBytes(pl[1], pl[2]) |-> BodyByte]
      tile   == w.tile \o (IF hs.packed THEN <<>> ELSE header) \o body
      ppt    == w.ppt \o IF hs.packed THEN header ELSE <<>>
  IN  [w EXCEPT !.tile = tile, !.ppt = ppt,
                !.ends = Append(@, [tile |-> Len(tile), ppt |-> Len(ppt)])]

WritePacket(w, pl) ==
  SendPacket(IF Silent(pl) THEN [w EXCEPT !.bits = <<0>>]
             ELSE FoldLeft(LAMBDA v, k : WriteBlock(v, k, pl[2]), [w EXCEPT !.bits = <<1>>],
                           CblksIn(pl[1])),
             pl)

\* The bytes and where each packet ends, of all that w is.
Output(w) == [tile |-> w.tile, ppt |-> w.ppt, ends |-> w.ends]

WrittenFrame ==
  Output(FoldLeft(WritePacket,
                  [value |-> TreeValues, incl |-> Undecided, zero |-> Undecided, bits |-> <<>>,
                   lblock |-> [k \in Cblks |-> 0], tile |-> <<>>, ppt |-> <<>>, ends |-> <<>>],
                  hs.packets))
----------------------------------------------------------------------------
(* The reader. q = [k, incl, zero, cblk, broken] goes through the blocks;  *)
(* k is the number of bits read so far.                                    *)

\* What get_bit returns from byte i + 1 on: the top bit after a full byte is skipped.
BitsAfter(bytes, i, last) ==
  FlattenSeq([j \in 1 .. Len(bytes) - i |->
    IF Full(IF j = 1 THEN last ELSE bytes[i + j - 1]) THEN Tail(bytes[i + j]) ELSE bytes[i + j]])

\* The bytes that k bits take up.
Loaded(bytes, i, last, k) ==
  Min({n \in 0 .. Len(bytes) - i :
         \/ n = Len(bytes) - i
         \/ Len(BitsAfter(SubSeq(bytes, 1, i + n), i, last)) >= k})

\* get_bit, get_N_bits; a byte beyond the end is zero.
BitAt(B, k) == IF k < Len(B) /\ B[k + 1] = 1 THEN 1 ELSE 0
NBits(B, k, n) == FoldLeft(LAMBDA v, i : 2 * v + BitAt(B, k + i - 1), 0, [i \in 1 .. n |-> i])
Run(B, k, bit) ==
  Min({n \in 0 .. Len(B) - k : n = Len(B) - k \/ BitAt(B, k + n) # bit})

\* One node of tree_path; the last bit read says whether the block is included.
AskNode(B, q, n, t) ==
  IF Asks(q.incl, n, t)
    THEN [q EXCEPT !.incl = Visited(@, n, t, BitAt(B, q.k)), !.k = @ + 1,
                   !.in = BitAt(B, q.k) = 1]
    ELSE [q EXCEPT !.incl = Visited(@, n, t, 0)]

AskZero(B, q, n) ==
  LET from == Floor(q.zero, n)
      run  == Run(B, q.k, 0)
  IN  IF q.zero[n].done THEN q
      ELSE [q EXCEPT !.zero[n] = [cv |-> from + run, done |-> TRUE], !.k = @ + run + 1]

Visit(B, q, k, t) == FoldLeft(LAMBDA v, n : AskNode(B, v, n, t), q, PathTo(k))

\* An included block's zero bit planes follow.
Include(B, q, k) ==
  LET known == FoldLeft(LAMBDA v, n : AskZero(B, v, n), q, PathTo(k))
  IN  IF q.in
        THEN [known EXCEPT !.cblk[k].included = TRUE, !.cblk[k].lblock = 3,
                           !.cblk[k].zbp = known.zero[NodeOver(k, 0)].cv]
        ELSE q

\* One visit of every node at threshold 0, in layers after the first, and one
\* at the layer's own.
FirstInclusion(B, q, k, l) ==
  LET out == [q EXCEPT !.in = FALSE]
  IN  Include(B, Visit(B, IF l > 0 THEN Visit(B, out, k, 0) ELSE out, k, l), k)

\* The number of coding passes and of the bits that told it.
NewPasses(B, k) ==
  CASE BitAt(B, k) = 0 -> [n |-> 1, bits |-> 1]
    [] NBits(B, k, 2) = 2 -> [n |-> 2, bits |-> 2]
    [] NBits(B, k, 2) = 3 /\ NBits(B, k + 2, 2) < 3 -> [n |-> 3 + NBits(B, k + 2, 2), bits |-> 4]
    [] NBits(B, k, 4) = 15 /\ NBits(B, k + 4, 5) < 31 -> [n |-> 6 + NBits(B, k + 4, 5), bits |-> 9]
    [] OTHER -> [n |-> 37 + NBits(B, k + 9, 7), bits |-> 16]

\* How many passes the next length tells, after p passes, of n new ones: the HT
\* cleanup pass (HT_PHLD), HT passes after it, or one segment of a Part 1 block.
\* (Placeholder passes and more than three HT passes are left out.)
SegmentPasses(p, n) ==
  CASE ~hs.ht            -> n
    [] hs.ht /\ p = 0    -> n - ((n - 1) % 3)
    [] hs.ht /\ p > 0    -> IF n > 1 THEN 3 - (p % 3) ELSE 1
LengthBits(lblock, n) == lblock + IF hs.ht THEN n - 1 ELSE Log2Floor(n)

ReadLength(B, q, k, n) ==
  LET bits == LengthBits(q.cblk[k].lblock, n)
      len  == NBits(B, q.k, bits)
  IN  [q EXCEPT !.k = @ + bits, !.cblk[k].lens = @ \o Zeros(n - 1) \o <<len>>,
                !.broken = @ \/ (hs.ht /\ q.cblk[k].lens = <<>> /\ len = 1)]

\* The number of passes, the growth of lblock.
ReadPasses(B, q, k, new) ==
  LET more == Run(B, q.k + new.bits, 1)
  IN  [q EXCEPT !.k = @ + new.bits + more + 1,
                !.cblk[k].lblock = @ + more, !.cblk[k].new = new.n]

ReadLengths(B, q, k) ==
  LET new   == q.cblk[k].new
      first == SegmentPasses(Len(q.cblk[k].lens), new)
  IN  IF first < new THEN ReadLength(B, ReadLength(B, q, k, first), k, new - first)
      ELSE ReadLength(B, q, k, first)

ReadIncluded(B, q, k) ==
  IF q.in THEN ReadLengths(B, ReadPasses(B, q, k, NewPasses(B, q.k)), k)
  ELSE [q EXCEPT !.cblk[k].new = 0]

ReadBlock(B, q, k, l) ==
  ReadIncluded(B, IF q.cblk[k].included THEN [q EXCEPT !.in = BitAt(B, q.k) = 1, !.k = @ + 1]
                  ELSE FirstInclusion(B, q, k, l), k)

\* create_compressed_buffer: the bytes of this layer's passes.
BodyOf(c) == Bytes(SubSeq(c.lens, Len(c.lens) - c.new + 1, Len(c.lens)))

----------------------------------------------------------------------------
(* Steps.                                                                  *)

NoWire == [tile |-> <<>>, ppt |-> <<>>, ends |-> <<>>]
NewCblk == [included |-> FALSE, lblock |-> 0, zbp |-> 0, lens |-> <<>>, new |-> 0, got |-> 0]
Fresh == [k \in Cblks |-> NewCblk]
Unread == [tile |-> 0, ppt |-> 0]

HeaderInit ==
  /\ hs \in HeaderStreams /\ shot = 1
  /\ wire = NoWire /\ taken = Unread /\ lastByte = Zeros(ByteBits) /\ nPackets = 0
  /\ incl = Undecided /\ zero = Undecided /\ cblk = Fresh /\ broken = FALSE

WriteFrame ==
  /\ wire = NoWire /\ shot \in DOMAIN hs.frames
  /\ wire' = WrittenFrame
  /\ UNCHANGED <<hs, shot, taken, lastByte, nPackets, incl, zero, cblk, broken>>

HeaderChain == IF hs.packed THEN "ppt" ELSE "tile"

NoEPH(bytes, i) == hs.eph /\ (i >= Len(bytes) \/ bytes[i + 1] # EPH)
AfterEPH(i) == i + IF hs.eph THEN 1 ELSE 0

\* read_packet of a packet whose first bit is 0.
ReadEmptyPacket ==
  /\ wire # NoWire /\ ~broken /\ nPackets < Len(hs.packets)
  /\ LET bytes == wire[HeaderChain]
         i     == taken[HeaderChain]
         end   == i + Loaded(bytes, i, lastByte, 1)
     IN  /\ BitAt(BitsAfter(bytes, i, lastByte), 0) = 0
         /\ lastByte' = bytes[end]
         /\ taken' = [taken EXCEPT ![HeaderChain] = AfterEPH(end)]
         /\ broken' = NoEPH(bytes, end)
  /\ nPackets' = nPackets + 1
  /\ UNCHANGED <<hs, shot, wire, incl, zero, cblk>>

\* Mutant: the bit stuffed after a header's last byte is left to the next header.
EndOfHeaderAtLastBit(bytes, i, k) == i + Loaded(bytes, i, lastByte, k)

\* Where the header that began at byte i + 1 ends after k bits: after a full byte
\* one bit more is read (check_last_FF).
EndOfHeader(bytes, i, k) ==
  LET end == i + Loaded(bytes, i, lastByte, k)
  IN  IF Full(bytes[end]) THEN i + Loaded(bytes, i, lastByte, k + 1) ELSE end

\* The end of read_packet: precinct p's header, of which q was read, began at byte
\* i + 1; the bodies of the blocks follow.
TakePacket(bytes, i, p, q) ==
  LET end     == EndOfHeader(bytes, i, q.k)
      Body(k) == IF k[1] = p THEN BodyOf(q.cblk[k]) ELSE 0
  IN  /\ broken' = (q.broken \/ NoEPH(bytes, end))
      /\ lastByte' = bytes[end]
      /\ taken' = [[taken EXCEPT ![HeaderChain] = AfterEPH(end)]
                     EXCEPT !.tile = @ + MapThenSumSet(Body, Cblks)]
      /\ incl' = q.incl /\ zero' = q.zero
      /\ cblk' = [k \in Cblks |-> [q.cblk[k] EXCEPT !.got = @ + Body(k)]]

\* read_packet of another packet.
ReadPacket ==
  /\ wire # NoWire /\ ~broken /\ nPackets < Len(hs.packets)
  /\ LET bytes == wire[HeaderChain]
         i     == taken[HeaderChain]
         B     == BitsAfter(bytes, i, lastByte)
         p     == hs.packets[nPackets + 1][1]
         l     == hs.packets[nPackets + 1][2]
         start == [k |-> 1, in |-> FALSE, incl |-> incl, zero |-> zero, cblk |-> cblk,
                   broken |-> FALSE]
     IN  /\ BitAt(B, 0) = 1
         /\ TakePacket(bytes, i, p,
                       FoldLeft(LAMBDA v, k : ReadBlock(B, v, k, l), start, CblksIn(p)))
  /\ nPackets' = nPackets + 1
  /\ UNCHANGED <<hs, shot, wire>>

\* prepare_for_next_frame.
NextShot ==
  /\ nPackets = Len(hs.packets) /\ shot < Len(hs.frames)
  /\ shot' = shot + 1
  /\ wire' = NoWire /\ taken' = Unread /\ lastByte' = Zeros(ByteBits) /\ nPackets' = 0
  /\ incl' = Undecided /\ zero' = Undecided /\ cblk' = Fresh
  /\ UNCHANGED <<hs, broken>>

HeaderNext == WriteFrame \/ ReadEmptyPacket \/ ReadPacket \/ NextShot

HeaderSpec == HeaderInit /\ [][HeaderNext]_headerVars

----------------------------------------------------------------------------

\* What the reader must know of block k after j packets.
LayersRead(k, j) == SelectSeq(SubSeq(hs.packets, 1, j), LAMBDA pl : pl[1] = k[1])
ToldLengths(k, l) ==
  IF LayerOf(k, l) = <<>> THEN <<>>
  ELSE LET segments == Segments(PassesBefore(k, l) = 0, LayerOf(k, l))
       IN  FlattenSeq([i \in DOMAIN segments |->
             Zeros(Len(segments[i]) - 1) \o <<Bytes(segments[i])>>])
LengthsKnown(k, j) ==
  FlattenSeq([i \in DOMAIN LayersRead(k, j) |-> ToldLengths(k, LayersRead(k, j)[i][2])])

\* After each packet the reader stands at the byte behind it, and knows of every
\* code-block the passes, lengths and zero bit planes that were written: of what
\* this encoder writes, and of layers, empty packets, EPH, PPT and Part 1 blocks
\* as other encoders write them; also in a frame that reuses the trees.
HeadersAgree ==
  /\ ~broken
  /\ nPackets > 0 => taken = wire.ends[nPackets]
  /\ \A k \in Cblks :
       /\ cblk[k].lens = LengthsKnown(k, nPackets)
       /\ cblk[k].got = Bytes(cblk[k].lens)
       /\ cblk[k].included <=> cblk[k].lens # <<>>
       /\ cblk[k].included => cblk[k].zbp = hs.frames[shot].zbp[k]

=============================================================================
