---------------------------- MODULE MCLineCodec ----------------------------
(***************************************************************************)
(* One run for both directions of the streaming codec: an initial state    *)
(* has a picture to decode (DecodeLines) or a job to encode (EncodeLines), *)
(* and the other side has nothing to do. The two never share state.        *)
(***************************************************************************)
EXTENDS DecodeLines, EncodeLines

----------------------------------------------------------------------------
(* Shapes of pictures.                                                     *)

Comp(v0, h, xf, dirs, yr) ==
  [v0 |-> v0, v1 |-> v0 + h, xf |-> xf, dirs |-> dirs, yr |-> yr]
Shape(comps, cbh, mct) == [comps |-> comps, cbh |-> cbh, mct |-> mct]

\* Two components pulled in parallel in two outer strips, one subsampled; three
\* strips of blocks prefetched one after another; a wavelet over blocks of one
\* row, in four buffers; a level whose low and high pass are both buffers.
PoolTiles ==
  {Shape(<<Comp(0, 4, 1, <<>>, 1), Comp(0, 2, 1, <<>>, 2)>>, 2, FALSE),
   Shape(<<Comp(0, 6, 1, <<>>, 1)>>, 2, FALSE),
   Shape(<<Comp(0, 4, 1, <<"HORZ">>, 1)>>, 2, FALSE),
   Shape(<<Comp(0, 3, 1, <<"BIDIR">>, 1)>>, 1, FALSE)}

\* Without a pool: even and odd origins, heights around the rings' sizes, both
\* filters, one and two levels, every direction, subsampling, the colour
\* transform.
SerialTiles ==
  {Shape(<<Comp(v, h, xf, dirs, 1)>>, 2, FALSE) :
     v \in {0, 2}, h \in {1, 2, 5, 12}, xf \in {0, 1},
     dirs \in {<<"BIDIR">>, <<"BIDIR", "BIDIR">>, <<"HORZ", "BIDIR">>, <<"BIDIR", "NO">>}}
  \cup {Shape(<<Comp(v, 9, xf, <<"BIDIR">>, 1)>>, 8, FALSE) : v \in {1, 3}, xf \in {0, 1}}
  \cup {Shape(<<Comp(0, 5, 1, <<"BIDIR">>, 1), Comp(0, 3, 1, <<>>, 2),
                Comp(0, 5, 1, <<"HORZ">>, 1)>>, c, FALSE) : c \in {2, 4}}
  \cup {Shape([i \in 1 .. 3 |-> Comp(0, 5, 1, <<"BIDIR">>, 1)], 2, TRUE)}

NoPicture == Shape(<<Comp(0, 0, 1, <<>>, 1)>>, 1, FALSE)

NoPictures == {NoPicture}
Tiles == PoolTiles \cup SerialTiles \cup NoPictures

TileBufs == ((1 .. 3) \X {0} \X {"LL"}) \cup ((1 .. 3) \X (1 .. 2) \X {"HL", "LH", "HH"})

----------------------------------------------------------------------------
(* Jobs of tiles.                                                          *)

EncTile(v0, h, n, xf, cbh, yrs) ==
  [v0 |-> v0, v1 |-> v0 + h, NL |-> n, xf |-> xf, cbh |-> cbh, yrs |-> yrs]

\* With workers: a tile of one level and two block rows, one of two levels,
\* and one with a subsampled component.
TilesForPool == {<<EncTile(0, 4, 1, 0, 1, <<1>>)>>, <<EncTile(0, 4, 2, 1, 1, <<1>>)>>,
                 <<EncTile(0, 4, 1, 1, 2, <<1, 2>>)>>}

\* With blocks coded at once: heights around the ring's size, odd origins
\* (no overlap), two tiles in a row.
TilesForOne ==
  {<<EncTile(v, h, n, xf, 2, <<1>>)>> :
     v \in {0, 8}, h \in {1, 2, 3, 4, 6, 11, 14}, n \in {1, 2}, xf \in {0, 1}}
  \cup {<<EncTile(v, 5, 2, 1, 8, <<1>>)>> : v \in {0, 1, 3}}
  \cup {<<EncTile(0, 8, 1, 0, 2, <<1, 2>>), EncTile(8, 5, 1, 0, 2, <<1, 2>>)>>}

LineJobs == TilesForPool \cup TilesForOne

\* Two tiles, each with a pool context of its own.
TwoTiles == {<<EncTile(0, 2, 1, 1, 1, <<1>>), EncTile(2, 2, 1, 1, 1, <<1>>)>>}

----------------------------------------------------------------------------

\* The encoder without a job.
NoJob ==
  /\ job = <<>> /\ encPool = FALSE /\ tile = 1
  /\ pushes = 0 /\ fdwt = <<>> /\ written = <<>> /\ rowDone = <<>>
  /\ stage = "lines" /\ rest = {}
  /\ gen = 1 /\ slotCnt = 0 /\ coded = <<>>
  /\ queue = <<>> /\ left = 0
  /\ running = [w \in EncWorkers |-> NoBlock]
  /\ slot = [w \in EncWorkers |-> [at |-> -1, gen |-> -1]]

LineInit == Init /\ IF dec = NoPicture THEN EncInit ELSE NoJob

LineNext == (Next /\ UNCHANGED encVars) \/ (EncNext /\ UNCHANGED vars)

LineSpec == LineInit /\ [][LineNext]_<<vars, encVars>>
            /\ (\A t \in Threads : Scheduled(t)) /\ EncFairness

=============================================================================
