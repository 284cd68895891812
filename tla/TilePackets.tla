---------------------------- MODULE TilePackets ----------------------------
(***************************************************************************)
(* The packets of a tile: the order in which create_tile_buf reads them    *)
(* and construct_packets lays them out, one volume of the progression      *)
(* order after another, and the tile that the decoder keeps from frame to  *)
(* frame (single-tile reuse). A packet is <<layer, resolution, component,  *)
(* precinct>>, all counted from 0.                                         *)
(*                                                                         *)
(* A tile is [x0, x1, y0, y1, comps, layers, order, parts, frames]; a      *)
(* component [sx, sy, dirs, ppx, ppy]: its subsampling, the direction of   *)
(* every level from the coarsest, log2 of the precincts' sizes by          *)
(* resolution. A frame is [main, part]: the POC of its main header and of  *)
(* its first tile-part's header. A volume [RS, CS, LYE, RE, CE, P] is one  *)
(* entry of a POC.                                                         *)
(***************************************************************************)
EXTENDS Integers, SequencesExt

CONSTANTS DecodeTiles,  \* tiles whose packets are read
          EncodeTiles   \* tiles whose packets are laid out

VARIABLES side,       \* "decode" or "encode"
          pt,         \* the tile
          frame,      \* number of the frame
          parts,      \* num_tile_part
          porder,     \* porder_info
          built,      \* structure_built_
          reused,     \* the frame began with a tile that was built
          numPackets, \* num_packets
          volume,     \* the entry of porder_info that is next, 0 before the loop
          log         \* packet[0], ..., packet[packet_count - 1]

tileVars   == <<side, pt, frame, parts, built, reused>>
packetVars == <<tileVars, porder, numPackets, volume, log>>

----------------------------------------------------------------------------
(* Geometry.                                                               *)

CeilBy(a, b) == (a + b - 1) \div b

Components(t) == 0 .. Len(t.comps) - 1
Component(t, c) == t.comps[c + 1]
TopRes(t, c) == Len(Component(t, c).dirs)
MaxRes(t) == Max({TopRes(t, c) : c \in Components(t)})
Resolutions(t) == {cr \in Components(t) \X (0 .. MaxRes(t)) : cr[2] <= TopRes(t, cr[1])}

\* hor_depth and ver_depth: how many of the levels above r split in these ways.
Depth(t, c, r, ways) ==
  Cardinality({l \in r + 1 .. TopRes(t, c) : Component(t, c).dirs[l] \in ways})

\* One axis of a resolution: its samples lo, ..., hi - 1, and what takes them to
\* the reference grid.
Axis(tile0, tile1, sub, d, pp) ==
  [tile |-> tile0, sub |-> sub, d |-> d, pp |-> pp,
   lo |-> CeilBy(CeilBy(tile0, sub), 2 ^ d), hi |-> CeilBy(CeilBy(tile1, sub), 2 ^ d)]

AxisX(t, c, r) ==
  LET k == Component(t, c)
  IN  Axis(t.x0, t.x1, k.sx, Depth(t, c, r, {"BIDIR", "HORZ"}), k.ppx[r + 1])
AxisY(t, c, r) ==
  LET k == Component(t, c)
  IN  Axis(t.y0, t.y1, k.sy, Depth(t, c, r, {"BIDIR", "VERT"}), k.ppy[r + 1])

\* npw, nph: precincts are cut at multiples of their size, not at the origin.
Along(a) == IF a.hi > a.lo THEN CeilBy(a.hi, 2 ^ a.pp) - a.lo \div 2 ^ a.pp ELSE 0
Precincts(t, c, r) == Along(AxisX(t, c, r)) * Along(AxisY(t, c, r))
AllPrecincts(t) == MapThenSumSet(LAMBDA cr : Precincts(t, cr[1], cr[2]), Resolutions(t))

----------------------------------------------------------------------------
(* The loops over one volume.                                              *)

Default(t) == [RS |-> 0, CS |-> 0, LYE |-> t.layers, RE |-> MaxRes(t) + 1,
               CE |-> Len(t.comps), P |-> t.order]

\* The nested loops of every order, outermost first.
Loops == [LRCP |-> <<"l", "r", "c", "p">>, RLCP |-> <<"r", "l", "c", "p">>,
          RPCL |-> <<"r", "y", "x", "c", "l">>, PCRL |-> <<"y", "x", "c", "r", "l">>,
          CPRL |-> <<"c", "y", "x", "r", "l">>]

\* x_examin, y_examin: the tile's origin, then the multiples of the step.
Examined(tile0, tile1, step) ==
  <<tile0>> \o SelectSeq([i \in 1 .. CeilBy(tile1, step) |-> (i - 1) * step],
                         LAMBDA x : x > tile0)

\* find_gcd_of_precinct_size.
LeastX(t) == 2 ^ Min({16} \cup {AxisX(t, cr[1], cr[2]).pp : cr \in Resolutions(t)})
LeastY(t) == 2 ^ Min({16} \cup {AxisY(t, cr[1], cr[2]).pp : cr \in Resolutions(t)})

UpTo(lo, end) == [i \in 1 .. end - lo |-> lo + i - 1]
Ranges(t, v) ==
  [l |-> UpTo(0, Min({v.LYE, t.layers})), r |-> UpTo(v.RS, v.RE),
   c |-> UpTo(v.CS, Min({v.CE, Len(t.comps)})),
   p |-> UpTo(0, Max({Precincts(t, cr[1], cr[2]) : cr \in Resolutions(t)})),
   x |-> Examined(t.x0, t.x1, LeastX(t)), y |-> Examined(t.y0, t.y1, LeastY(t))]

\* What the loops go through, in their order, as records of their counters.
Nest(names, range) ==
  LET Size[i \in 0 .. Len(names)] ==
        IF i = Len(names) THEN 1 ELSE Len(range[names[i + 1]]) * Size[i + 1]
      Turn(k, i) == (((k - 1) \div Size[i]) % Len(range[names[i]])) + 1
  IN  [k \in 1 .. Size[0] |->
         [n \in Range(names) |->
            LET i == CHOOSE i \in DOMAIN names : names[i] = n IN range[n][Turn(k, i)]]]

\* Mutant: a first precinct that the origin cuts is not met at the origin.
HitAligned(a, x) == x % (a.sub * 2 ^ (a.pp + a.d)) = 0

\* x_cond, y_cond.
Hit(a, x) ==
  \/ x % (a.sub * 2 ^ (a.pp + a.d)) = 0
  \/ x = a.tile /\ (a.lo * 2 ^ a.d) % 2 ^ (a.pp + a.d) # 0

ByLayer(P) == P \in {"LRCP", "RLCP"}

Reached(t, P, e) ==
  /\ e.r <= TopRes(t, e.c)
  /\ Precincts(t, e.c, e.r) # 0
  /\ IF ByLayer(P) THEN e.p < Precincts(t, e.c, e.r)
     ELSE Hit(AxisX(t, e.c, e.r), e.x) /\ Hit(AxisY(t, e.c, e.r), e.y)

\* The packets of volume v that are not in done, in the order of the loops. By
\* position, a resolution's precincts are counted as the loops meet them:
\* p_x + p_y * npw is the number of those met before.
Walk(t, v, done) ==
  LET met == SelectSeq(Nest(Loops[v.P], Ranges(t, v)), LAMBDA e : Reached(t, v.P, e))
      P(i) == IF ByLayer(v.P) THEN met[i].p
              ELSE Cardinality({j \in 1 .. i - 1 : /\ met[j].r = met[i].r
                                                   /\ met[j].c = met[i].c
                                                   /\ met[j].l = met[i].l})
  IN  SelectSeq([i \in DOMAIN met |-> <<met[i].l, met[i].r, met[i].c, P(i)>>],
                LAMBDA k : k \notin done)

----------------------------------------------------------------------------
(* Steps.                                                                  *)

PacketInit ==
  /\ \/ side = "decode" /\ pt \in DecodeTiles
     \/ side = "encode" /\ pt \in EncodeTiles
  /\ frame = 1 /\ parts = 0 /\ porder = <<>> /\ built = FALSE /\ reused = FALSE
  /\ numPackets = 0 /\ volume = 0 /\ log = <<>>

\* The POC that holds for frame f: that of the tile-part goes before the main one.
Signalled(f) == IF pt.frames[f].part # <<>> THEN pt.frames[f].part ELSE pt.frames[f].main

\* add_tile_part: only the tile-part of index 0 brings a progression order.
AddTilePart ==
  /\ side = "decode" /\ volume = 0 /\ parts < pt.parts
  /\ parts' = parts + 1
  /\ porder' = IF parts = 0 THEN porder \o Signalled(frame) ELSE porder
  /\ UNCHANGED <<side, pt, frame, built, reused, numPackets, volume, log>>

\* Up to the loop over porder_info. The order signalled so far is dropped when
\* the tile is built.
CreateTileBuf ==
  /\ side = "decode" /\ volume = 0 /\ parts = pt.parts
  /\ porder' = (IF built THEN <<>> ELSE porder) \o <<Default(pt)>>
  /\ numPackets' = ((IF built THEN 0 ELSE numPackets) + AllPrecincts(pt)) * pt.layers
  /\ volume' = 1 /\ log' = <<>>
  /\ UNCHANGED tileVars

\* One volume; the tile is built after the last one.
ReadVolume ==
  /\ side = "decode" /\ volume \in DOMAIN porder
  /\ log' = log \o Walk(pt, porder[volume], Range(log))
  /\ volume' = volume + 1
  /\ built' = (built \/ volume = Len(porder))
  /\ UNCHANGED <<side, pt, frame, parts, porder, reused, numPackets>>

\* A packet that cannot be read throws; the kept tile is dropped.
ReadFails ==
  /\ side = "decode" /\ volume \in DOMAIN porder /\ frame < Len(pt.frames)
  /\ frame' = frame + 1
  /\ parts' = 0 /\ porder' = <<>> /\ built' = FALSE /\ reused' = FALSE
  /\ numPackets' = 0 /\ volume' = 0 /\ log' = <<>>
  /\ UNCHANGED <<side, pt>>

\* The next frame's call, after a frame that was read or whose tile-parts broke
\* off: prepare_for_next_frame of a built tile, or a fresh one, as must be when the
\* header's fingerprint differs or no frame was decoded to its end.
NextFrame ==
  /\ side = "decode" /\ volume \notin DOMAIN porder /\ frame < Len(pt.frames)
  /\ frame' = frame + 1
  /\ reused' \in {built, FALSE} /\ built' = reused'
  /\ parts' = 0 /\ porder' = <<>> /\ numPackets' = 0 /\ volume' = 0 /\ log' = <<>>
  /\ UNCHANGED <<side, pt>>

\* construct_packets up to its loop: the encoder writes no POC.
ConstructPackets ==
  /\ side = "encode" /\ volume = 0
  /\ porder' = porder \o <<Default(pt)>>
  /\ numPackets' = AllPrecincts(pt) * pt.layers
  /\ volume' = 1
  /\ UNCHANGED <<tileVars, log>>

ConstructVolume ==
  /\ side = "encode" /\ volume \in DOMAIN porder
  /\ log' = log \o Walk(pt, porder[volume], Range(log))
  /\ volume' = volume + 1
  /\ UNCHANGED <<tileVars, porder, numPackets>>

PacketNext ==
  \/ AddTilePart \/ CreateTileBuf \/ ReadVolume \/ ReadFails \/ NextFrame
  \/ ConstructPackets \/ ConstructVolume

PacketSpec == PacketInit /\ [][PacketNext]_packetVars

----------------------------------------------------------------------------
(* The order of the standard: in a volume, packets are sorted by layer,    *)
(* resolution, component and the place of their precinct's upper left      *)
(* corner on the reference grid; a packet is in the first volume that      *)
(* holds it.                                                               *)

\* Where the i-th precinct along the axis begins, within the tile.
Edge(a, i) == Max({a.tile, (a.lo \div 2 ^ a.pp + i) * 2 ^ a.pp * 2 ^ a.d * a.sub})

SortKey(t, P, k) ==
  LET l == k[1]
      r == k[2]
      c == k[3]
      x == Edge(AxisX(t, c, r), k[4] % Along(AxisX(t, c, r)))
      y == Edge(AxisY(t, c, r), k[4] \div Along(AxisX(t, c, r)))
  IN  CASE P = "LRCP" -> <<l, r, c, y, x>>
        [] P = "RLCP" -> <<r, l, c, y, x>>
        [] P = "RPCL" -> <<r, y, x, c, l>>
        [] P = "PCRL" -> <<y, x, c, r, l>>
        [] P = "CPRL" -> <<c, y, x, r, l>>

Before(a, b) == \E i \in DOMAIN a : a[i] < b[i] /\ \A j \in 1 .. i - 1 : a[j] = b[j]

TilePacketsOf(t) ==
  UNION {{<<l, cr[2], cr[1], p>> : l \in 0 .. t.layers - 1,
                                   p \in 0 .. Precincts(t, cr[1], cr[2]) - 1}
           : cr \in Resolutions(t)}

FirstVolume(vs, k) ==
  Min({i \in DOMAIN vs : /\ k[1] < vs[i].LYE
                         /\ vs[i].RS <= k[2] /\ k[2] < vs[i].RE
                         /\ vs[i].CS <= k[3] /\ k[3] < vs[i].CE})

\* What the stream of the frame signals, with the order of the COD for the rest.
StreamOrder == (IF side = "encode" THEN <<>> ELSE Signalled(frame)) \o <<Default(pt)>>

\* The packets of the volumes gone through are read, or laid out, each once and
\* in the order of the stream, in the five progressions and under POCs; all of
\* them together fill the array packet[]. Otherwise the decoder takes one
\* packet's header for another's. (A POC is lost on a reused tile: such frames
\* are left out.)
PacketsInOrder ==
  volume > 0 /\ ~(reused /\ Signalled(frame) # <<>>) =>
    LET first == [k \in TilePacketsOf(pt) |-> FirstVolume(StreamOrder, k)]
        Key(k)  == <<first[k]>> \o SortKey(pt, StreamOrder[first[k]].P, k)
    IN  /\ Range(log) = {k \in DOMAIN first : first[k] < volume}
        /\ \A i \in 1 .. Len(log) - 1 : Before(Key(log[i]), Key(log[i + 1]))
        /\ volume > Len(StreamOrder) => Len(log) = numPackets

=============================================================================
