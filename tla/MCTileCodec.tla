---------------------------- MODULE MCTileCodec ----------------------------
(***************************************************************************)
(* One run for the parts of the codec: the streaming lines of MCLineCodec, *)
(* the packets of a tile (TilePackets) and their headers (PacketHeaders).  *)
(* An initial state has work for one of them; they share no state.         *)
(***************************************************************************)
EXTENDS MCLineCodec, TilePackets, PacketHeaders

----------------------------------------------------------------------------
(* Tiles whose packets are read or laid out.                               *)

PacketComp(sub, dirs, pps) ==
  [sx |-> sub[1], sy |-> sub[2], dirs |-> dirs, ppx |-> pps[1], ppy |-> pps[2]]

\* Two levels; a subsampled component with a level in one direction beside one
\* with fewer levels; different subsampling in x and y, one component without levels.
CompSets ==
  {<<PacketComp(<<1, 1>>, <<"BIDIR", "BIDIR">>, <<<<0, 1, 1>>, <<1, 1, 2>>>>)>>,
   <<PacketComp(<<1, 1>>, <<"BIDIR">>, <<<<1, 1>>, <<0, 1>>>>),
     PacketComp(<<2, 2>>, <<"HORZ", "BIDIR">>, <<<<1, 0, 1>>, <<1, 1, 1>>>>)>>,
   <<PacketComp(<<2, 1>>, <<>>, <<<<1>>, <<2>>>>),
     PacketComp(<<1, 4>>, <<"BIDIR">>, <<<<0, 2>>, <<1, 1>>>>)>>}

\* <<x0, x1>>, <<y0, y1>>: at the origin, and cut by the tile in the middle of
\* precincts.
Spans == {<<<<0, 8>>, <<0, 5>>>>, <<<<3, 9>>, <<2, 7>>>>, <<<<5, 8>>, <<1, 6>>>>}
Progressions == {"LRCP", "RLCP", "RPCL", "PCRL", "CPRL"}

PacketTile(span, comps, order, frames) ==
  [x0 |-> span[1][1], x1 |-> span[1][2], y0 |-> span[2][1], y1 |-> span[2][2],
   comps |-> comps, layers |-> 2, order |-> order, parts |-> 2, frames |-> frames]

NoPoc == [main |-> <<>>, part |-> <<>>]
PlainTiles ==
  {PacketTile(s, cs, o, <<NoPoc, NoPoc>>) : s \in Spans, cs \in CompSets, o \in Progressions}

\* The lowest resolution of the first layer before the rest, in any order.
Volume(re, lye, p) == [RS |-> 0, CS |-> 0, LYE |-> lye, RE |-> re, CE |-> 2, P |-> p]
Pocs == {<<Volume(1, 1, "RLCP"), Volume(3, 2, p)>> : p \in Progressions}
PocTiles ==
  {PacketTile(<<<<3, 9>>, <<2, 7>>>>, cs, o,
              <<[main |-> q, part |-> <<>>], NoPoc, [main |-> NoPoc.main, part |-> q]>>) :
     cs \in CompSets, o \in {"LRCP", "PCRL"}, q \in Pocs}

ReadTiles == PlainTiles \cup PocTiles

NoPackets ==
  /\ side = "none" /\ pt = <<>>
  /\ frame = 1 /\ parts = 0 /\ porder = <<>> /\ built = FALSE /\ reused = FALSE
  /\ numPackets = 0 /\ volume = 0 /\ log = <<>>

----------------------------------------------------------------------------
(* Streams whose headers are written and read.                             *)

Stream(grids, layers, ht, by, frames) ==
  [grids |-> grids,
   packets |-> FlattenSeq([l \in 1 .. layers |-> [p \in DOMAIN grids |-> <<p, l - 1>>]]),
   ht |-> ht, eph |-> "EPH" \in by, packed |-> "PPT" \in by, mute |-> "mute" \in by,
   ours |-> "ours" \in by, frames |-> frames]

CblkIds(grids) ==
  UNION {{<<p, b, i>> : b \in {b \in DOMAIN grids[p] : i < grids[p][b][1] * grids[p][b][2]}} :
           p \in DOMAIN grids, i \in 0 .. 5}

\* Frames whose blocks have contributions of the given kinds, and one zero bit
\* plane or none.
Shots(grids, kinds) ==
  {[zbp |-> [k \in CblkIds(grids) |-> ((k[3] + z) % 2) * 2], passes |-> f] :
     f \in [CblkIds(grids) -> kinds], z \in {0, 1}}

\* What the encoder makes of a block: nothing, a cleanup pass, refinements.
Coded == {<<<<>>>>, <<<<9>>>>, <<<<5, 1, 2>>>>}

\* Blocks side by side, above each other, in two bands and in two precincts; a
\* tree of three levels; two frames in a row.
OwnStreams ==
  UNION {{Stream(g, 1, TRUE, by, <<f>>) : f \in Shots(g, Coded)} :
           g \in {<<<<<<2, 1>>>>>>, <<<<<<1, 1>>, <<1, 1>>>>>>, <<<<<<1, 1>>>>, <<<<1, 1>>>>>>},
           by \in {{"ours"}, {"ours", "EPH"}}}
  \cup {Stream(<<<<<<3, 2>>>>>>, 1, TRUE, {"ours"}, <<f>>) :
          f \in {s \in Shots(<<<<<<3, 2>>>>>>, {<<<<>>>>, <<<<9>>>>}) : s.passes[<<1, 1, 3>>] = <<<<9>>>>}}

\* In three layers, by other encoders: zero lengths and many passes of Part 1
\* blocks, refinements of HT blocks in later layers.
Part1 == {<<<<>>, <<>>, <<>>>>, <<<<3>>, <<>>, <<0, 6>>>>, <<<<>>, <<0, 0, 17>>, <<>>>>,
          <<<<>>, <<>>, <<1>>>>, <<Zeros(6) \o <<40>>, <<2>>, Zeros(36) \o <<4>>>>}
HtLayers == {<<<<>>, <<>>, <<>>>>, <<<<3>>, <<>>, <<0, 6>>>>, <<<<>>, <<5, 0, 17>>, <<>>>>,
             <<<<>>, <<>>, <<31>>>>, <<<<2>>, <<1>>, <<9>>>>}
LayeredStreams ==
  UNION {{Stream(<<<<<<2, 1>>>>>>, 3, kinds = HtLayers, by, <<f>>) :
            f \in Shots(<<<<<<2, 1>>>>>>, kinds)} :
           kinds \in {Part1, HtLayers}, by \in {{}, {"EPH", "PPT"}}}

\* Nothing in the first layer, whose packet is empty; then the frame again. No
\* later packet is empty: the reader loses step with such a stream (see README).
LateShots ==
  {f \in Shots(<<<<<<2, 1>>>>>>, {<<<<>>, <<4>>, <<2>>>>, <<<<>>, <<>>, <<3>>>>}) :
     \E k \in DOMAIN f.passes : f.passes[k][2] # <<>>}
LateStreams ==
  {Stream(<<<<<<2, 1>>>>>>, 3, FALSE, by, <<f, f>>) :
     f \in LateShots, by \in {{"mute"}, {"mute", "EPH"}}}

Streams == OwnStreams \cup LayeredStreams \cup LateStreams

NoStream == Stream(<<>>, 0, FALSE, {}, <<>>)
NoHeaders ==
  /\ hs = NoStream /\ shot = 1
  /\ wire = NoWire /\ taken = Unread /\ lastByte = Zeros(ByteBits) /\ nPackets = 0
  /\ incl = <<>> /\ zero = <<>> /\ cblk = <<>> /\ broken = FALSE

----------------------------------------------------------------------------

NoLines == Init /\ dec = NoPicture /\ NoJob

CodecInit ==
  \/ LineInit /\ NoPackets /\ NoHeaders
  \/ NoLines /\ PacketInit /\ NoHeaders
  \/ NoLines /\ NoPackets /\ HeaderInit

\* The lines of a tile's pictures or of a job; with no picture left, the packets of
\* a tile or the headers of a stream.
CodecNext ==
  \/ LineNext /\ UNCHANGED <<packetVars, headerVars>>
  \/ picture = Pictures /\ PacketNext /\ UNCHANGED <<vars, encVars, headerVars>>
  \/ picture = Pictures /\ HeaderNext /\ UNCHANGED <<vars, encVars, packetVars>>

CodecSpec == CodecInit /\ [][CodecNext]_<<vars, encVars, packetVars, headerVars>>
             /\ (\A t \in Threads : Scheduled(t)) /\ EncFairness

=============================================================================
