----------------------------- MODULE EncodeLines -----------------------------
(***************************************************************************)
(* The streaming encode of tiles, encode_line_based_stream: the main       *)
(* thread pushes image rows through a chain of streaming forward           *)
(* transforms; as soon as a row of code-blocks of a level has all its      *)
(* subband rows, its blocks are pushed to the thread pool, while the       *)
(* transform goes on. Each worker allocates the coded bytes from a pool of *)
(* its own, found through a thread-local slot.                             *)
(*                                                                         *)
(* A tile is [v0, v1, NL, xf, cbh, yrs]: rows v0 <= y < v1 of the image,   *)
(* NL levels, code-blocks of cbh rows, yrs the vertical subsampling of     *)
(* every component (v0 and v1 are multiples of it). A code-block is        *)
(* <<component, level, band, n, column>>, rows n*cbh .. n*cbh + cbh - 1 of *)
(* the band; a resolution has one precinct. Tiles of a job are encoded one *)
(* after another, each with an EncodePoolCtx of its own.                   *)
(***************************************************************************)
EXTENDS StreamFdwt, SequencesExt

CONSTANTS Jobs,        \* sequences of tiles
          PoolJobs,    \* those encoded with a pool as well as without
          EncWorkers,  \* the pool's threads
          EncCols      \* code-block columns of a band

ASSUME EncWorkersAssumption == IsFiniteSet(EncWorkers) /\ IsFiniteSet(EncCols)

TileOK(t) ==
  /\ t.v0 \in Nat /\ t.v1 \in Nat /\ t.v0 <= t.v1
  /\ t.NL \in Nat \ {0} /\ t.cbh \in Nat \ {0} /\ t.xf \in Nat
  /\ t.yrs \in Seq(Nat \ {0})

ASSUME JobsAssumption ==
  \A j \in Jobs : j \in Seq(Range(j)) /\ j # <<>> /\ \A i \in DOMAIN j : TileOK(j[i])

\* Arithmetic that the provers do not know.
ASSUME PowersAssumption ==
  \A j \in Jobs : \A i \in DOMAIN j :
    2 ^ 0 = 1 /\ \A k \in 1 .. j[i].NL : 2 ^ k = 2 * 2 ^ (k - 1) /\ 2 ^ k > 0

VARIABLES job,      \* the tiles
          encPool,  \* there is a pool with more than one thread
          tile,     \* which of them is being encoded
          pushes,   \* component rows pushed so far
          fdwt,     \* fdwt[c][l]: state of level l of component c, NL the finest
          written,  \* written[c][l]: rows of that level put, TRUE if right
          rowDone,  \* cblk_row_done[c][l][br]: subset of {1, 2}
          stage,    \* "lines", or "blocks" once the overlapped ones are waited for
          rest,     \* resolutions still to be encoded by t1_encode
          queue,    \* code-blocks pushed to the pool, taken in that order
          running,  \* running[w]: the block worker w encodes, or NoBlock
          left,     \* enc_remaining
          slot,     \* g_tl_pool_slot of every worker
          gen, slotCnt,  \* of the tile's EncodePoolCtx
          coded     \* how often each block of the tile was encoded

laneVars == <<pushes, fdwt, written, rowDone>>
poolVars == <<queue, running, left, slot, gen, slotCnt, coded>>
jobVars  == <<job, encPool, tile, stage, rest>>
encVars  == <<jobVars, laneVars, poolVars>>

NoBlock == <<>>
Tile    == job[tile]
Lanes   == 1 .. Len(Tile.yrs)
Levels  == 1 .. Tile.NL

----------------------------------------------------------------------------
(* Geometry.                                                               *)

CeilDiv(a, b) == (a + b - 1) \div b

\* First row of resolution l of component c, or past-the-end row, from that
\* of the tile.
EncRow(t, c, l, end) == CeilDiv(end, t.yrs[c] * 2 ^ (t.NL - l))

\* Row v of level l of a band is the first at or below row v of the level.
EncBandRow(b, v) == IF b = "LL" THEN v ELSE IF b = "HL" THEN (v + 1) \div 2 ELSE v \div 2
BandTop(t, c, l, b) == EncBandRow(b, EncRow(t, c, l, t.v0))
BandEnd(t, c, l, b) == EncBandRow(b, EncRow(t, c, l, t.v1))
BandHeight(t, c, l, b) == BandEnd(t, c, l, b) - BandTop(t, c, l, b)

BandsOf(l) == IF l = 0 THEN {"LL"} ELSE {"HL", "LH", "HH"}

\* Code-block rows of a band; they are anchored at multiples of cbh.
BlockRows(t, c, l, b) ==
  IF BandHeight(t, c, l, b) = 0 THEN {}
  ELSE BandTop(t, c, l, b) \div t.cbh .. (BandEnd(t, c, l, b) - 1) \div t.cbh

Resolution(t, c, l) ==
  UNION {{<<c, l, b, n, x>> : n \in BlockRows(t, c, l, b), x \in EncCols} : b \in BandsOf(l)}

Blocks(t) ==
  UNION {Resolution(t, c, l) : c \in DOMAIN t.yrs, l \in 0 .. t.NL}

\* The overlap test: HL and LH start at the same row and HL is not empty, at
\* every level.
Overlap(t, c) ==
  \A l \in 1 .. t.NL : /\ BandTop(t, c, l, "HL") = BandTop(t, c, l, "LH")
                       /\ BandHeight(t, c, l, "HL") # 0

\* num_cblk_rows and the initial flags: a half that has no such row is done.
\* Mutant: every half is taken to have as many rows as the taller one.
FreshRowDoneNever(t, c, l) ==
  LET h == Max({BandHeight(t, c, l, "HL"), BandHeight(t, c, l, "LH")})
  IN  [br \in 0 .. CeilDiv(h, t.cbh) - 1 |-> {}]

FreshRowDone(t, c, l) ==
  LET hl == BandHeight(t, c, l, "HL")
      lh == BandHeight(t, c, l, "LH")
  IN  [br \in 0 .. CeilDiv(Max({hl, lh}), t.cbh) - 1 |->
         {f \in {1, 2} : br * t.cbh >= IF f = 1 THEN hl ELSE lh}]

----------------------------------------------------------------------------
(* Encoding a block.                                                       *)

\* Mutant: blocks coded at once are counted as outstanding too.
SubmitCountsAll(blocks) ==
  /\ left' = left + Cardinality(blocks)
  /\ IF encPool
     THEN /\ queue' = queue \o SetToSeq(blocks)
          /\ UNCHANGED <<running, slot, slotCnt, coded>>
     ELSE /\ coded' = [b \in DOMAIN coded |-> IF b \in blocks THEN coded[b] + 1 ELSE coded[b]]
          /\ UNCHANGED <<queue, running, slot, slotCnt>>

\* Blocks go to the pool, or coded at once when there is none.
Submit(blocks) ==
  IF encPool
  THEN /\ queue' = queue \o SetToSeq(blocks)
       /\ left' = left + Cardinality(blocks)
       /\ UNCHANGED <<running, slot, slotCnt, coded>>
  ELSE /\ coded' = [b \in DOMAIN coded |-> IF b \in blocks THEN coded[b] + 1 ELSE coded[b]]
       /\ UNCHANGED <<queue, running, left, slot, slotCnt>>

\* A task begins: a thread whose generation is not the tile's takes the next
\* slot of the tile's pools (one more than there are threads).
ClaimSlot(w) ==
  IF slot[w].gen # gen
  THEN /\ slot' = [slot EXCEPT ![w] = [at |-> Min({slotCnt, Cardinality(EncWorkers)}),
                                      gen |-> gen]]
       /\ slotCnt' = slotCnt + 1
  ELSE UNCHANGED <<slot, slotCnt>>

StartBlock(w) ==
  /\ running[w] = NoBlock /\ queue # <<>>
  /\ running' = [running EXCEPT ![w] = Head(queue)]
  /\ queue' = Tail(queue)
  /\ ClaimSlot(w)
  /\ UNCHANGED <<jobVars, laneVars, left, gen, coded>>

\* htj2k_encode returns and the task counts itself off.
EncodeBlock(w) ==
  /\ running[w] # NoBlock
  /\ coded' = [coded EXCEPT ![running[w]] = @ + 1]
  /\ running' = [running EXCEPT ![w] = NoBlock]
  /\ left' = left - 1
  /\ UNCHANGED <<jobVars, laneVars, queue, slot, gen, slotCnt>>

----------------------------------------------------------------------------
(* The main thread.                                                        *)

FreshFdwt(t) ==
  [c \in DOMAIN t.yrs |->
     [l \in 1 .. t.NL |-> FdwtInit(EncRow(t, c, l, t.v0), EncRow(t, c, l, t.v1), t.xf)]]

NothingWritten(t) == [c \in DOMAIN t.yrs |-> [l \in 1 .. t.NL |-> <<>>]]
FreshRowsDone(t)  == [c \in DOMAIN t.yrs |-> [l \in 1 .. t.NL |-> FreshRowDone(t, c, l)]]

\* The component row the y-th image row of component c brings; rows between
\* those of a subsampled component are skipped.
Image(c, y) == Row(c, EncRow(Tile, c, Tile.NL, Tile.v0) + y \div Tile.yrs[c], 0)

\* Levels a row can leave at, the coarsest one first: put_row of a level
\* hands the low-pass half to the coarser one, which emits before it returns.
Emitting(c) == {l \in Levels : CanEmit(fdwt[c][l])}
Settled     == \A c \in Lanes : Emitting(c) = {}

Height1 == Tile.v1 - Tile.v0
Pushing == pushes < Height1 * Len(Tile.yrs)

\* src_fn's row y, component by component: push_line_enc.
PushRow ==
  /\ Settled /\ Pushing
  /\ pushes' = pushes + 1
  /\ LET y == pushes \div Len(Tile.yrs)
         c == (pushes % Len(Tile.yrs)) + 1
     IN  IF y % Tile.yrs[c] # 0 THEN UNCHANGED fdwt
         ELSE fdwt' = [fdwt EXCEPT ![c][Tile.NL] = Pushed(@, Image(c, y))]
  /\ UNCHANGED <<jobVars, written, rowDone, poolVars>>

\* Mutant: the first row of a code-block row completes it.
CompletesAtFirst(c, l, f, sub) == sub % Tile.cbh = 0

\* The code-block row of level l that row sub of the band half f completes.
Completes(c, l, f, sub) ==
  LET h == BandHeight(Tile, c, l, IF f = 1 THEN "HL" ELSE "LH")
  IN  sub = Min({(sub \div Tile.cbh + 1) * Tile.cbh, h}) - 1

\* enc_overlap_dispatch: the blocks of logical row br in every band.
RowBlocks(c, l, br) ==
  {blk \in Resolution(Tile, c, l) :
     blk[4] = (BandTop(Tile, c, l, blk[3]) + br * Tile.cbh) \div Tile.cbh}

\* One row of emit_ready_f and fdwt_level_sink_fn: an even row goes to HL and
\* to the coarser level (or LL0), an odd one to LH and HH; the half that
\* completes a block row second submits its blocks.
Emit(c, l) ==
  /\ Emitting(c) # {} /\ l = Min(Emitting(c))
  /\ LET s    == fdwt[c][l]
         r    == s.nextOut
         val  == Emittee(s)
         good == val = Row(c, r, MaxLevel(s.xf))
         f    == IF r % 2 = 0 THEN 1 ELSE 2
         sub  == (r \div 2) - BandTop(Tile, c, l, IF f = 1 THEN "HL" ELSE "LH")
         br   == sub \div Tile.cbh
         low  == IF val = Junk THEN Junk ELSE Row(c, val[2] \div 2, 0)
         own  == [fdwt EXCEPT ![c][l] = Emitted(s)]
     IN  /\ fdwt' = IF f = 1 /\ l > 1 THEN [own EXCEPT ![c][l - 1] = Pushed(@, low)] ELSE own
         /\ written' = [written EXCEPT ![c][l] = Append(@, good)]
         /\ IF Overlap(Tile, c) /\ Completes(c, l, f, sub)
            THEN /\ rowDone' = [rowDone EXCEPT ![c][l][br] = @ \cup {f}]
                 /\ Submit(IF rowDone[c][l][br] \cup {f} = {1, 2}
                           THEN RowBlocks(c, l, br) ELSE {})
            ELSE UNCHANGED <<rowDone, queue, running, left, slot, slotCnt, coded>>
  /\ UNCHANGED <<jobVars, pushes, gen>>

\* finalize_line_encode: component by component, the finest level first.
Unflushed == {p \in Lanes \X Levels : ~fdwt[p[1]][p[2]].flushed}

Flush ==
  /\ Settled /\ ~Pushing /\ Unflushed # {}
  /\ LET c == Min({p[1] : p \in Unflushed})
         l == Max({p[2] : p \in {q \in Unflushed : q[1] = c}})
     IN  fdwt' = [fdwt EXCEPT ![c][l] = Flushed(@)]
  /\ UNCHANGED <<jobVars, pushes, written, rowDone, poolVars>>

\* After the wait for the overlapped blocks: what t1_encode is to do, all
\* levels of a component without overlap and every LL0.
Rest(t) == {p \in (DOMAIN t.yrs) \X (0 .. t.NL) : p[2] = 0 \/ ~Overlap(t, p[1])}

WaitOverlap ==
  /\ stage = "lines" /\ Settled /\ ~Pushing /\ Unflushed = {} /\ left <= 0
  /\ stage' = "blocks"
  /\ rest' = Rest(Tile)
  /\ UNCHANGED <<job, encPool, tile, laneVars, poolVars>>

\* t1_encode of one resolution, once the one before is waited for: component by
\* component, the finest level first.
EncodeResolution ==
  /\ rest # {} /\ left <= 0
  /\ LET c == Min({p[1] : p \in rest})
         l == Max({p[2] : p \in {q \in rest : q[1] = c}})
     IN  /\ Submit(Resolution(Tile, c, l))
         /\ rest' = rest \ {<<c, l>>}
  /\ UNCHANGED <<job, encPool, tile, stage, laneVars, gen>>

Encoded == stage = "blocks" /\ rest = {} /\ left <= 0

\* The next tile, with its own pool context; the workers and their
\* thread-local slots live on.
NextTile ==
  /\ Encoded /\ tile < Len(job)
  /\ tile' = tile + 1
  /\ LET t == job[tile + 1] IN
     /\ pushes' = 0 /\ fdwt' = FreshFdwt(t)
     /\ written' = NothingWritten(t) /\ rowDone' = FreshRowsDone(t)
     /\ stage' = "lines" /\ rest' = {}
     /\ gen' = 1 /\ slotCnt' = 0
     /\ coded' = [b \in Blocks(t) |-> 0]
  /\ UNCHANGED <<job, encPool, queue, running, left, slot>>

EncInit ==
  /\ job \in Jobs /\ tile = 1
  /\ encPool \in BOOLEAN /\ (encPool => job \in PoolJobs)
  /\ LET t == job[1] IN
     /\ pushes = 0 /\ fdwt = FreshFdwt(t)
     /\ written = NothingWritten(t) /\ rowDone = FreshRowsDone(t)
     /\ stage = "lines" /\ rest = {}
     /\ gen = 1 /\ slotCnt = 0
     /\ coded = [b \in Blocks(t) |-> 0]
  /\ queue = <<>> /\ left = 0
  /\ running = [w \in EncWorkers |-> NoBlock]
  /\ slot = [w \in EncWorkers |-> [at |-> -1, gen |-> -1]]

EncMain ==
  /\ job # <<>>
  /\ \/ PushRow \/ Flush \/ WaitOverlap \/ EncodeResolution \/ NextTile
     \/ \E c \in Lanes : \E l \in Levels : Emit(c, l)
EncWorker(w) == StartBlock(w) \/ EncodeBlock(w)

EncNext == EncMain \/ \E w \in EncWorkers : EncWorker(w)

\* The main thread runs on until it waits or is done; as for the decoder, the
\* enabling condition of WF is written out. Workers take blocks off the queue.
MayGoOn == /\ job # <<>>
           /\ ~Settled \/ Pushing \/ Unflushed # {} \/ left <= 0
           /\ ~(Encoded /\ tile = Len(job))
EncFairness ==
  /\ []<>~MayGoOn \/ []<><<EncMain>>_encVars
  /\ \A w \in EncWorkers : WF_encVars(EncWorker(w))

EncSpec == EncInit /\ [][EncNext]_encVars /\ EncFairness

----------------------------------------------------------------------------
(* Properties.                                                             *)

\* The streaming transform hands on every row of every level, rightly: each row it
\* puts has all its lifting steps, taken from its own neighbours, and none is held
\* back once the last level is flushed.
RowsComeOut ==
  \A c \in DOMAIN written : \A l \in DOMAIN written[c] :
    /\ \A k \in DOMAIN written[c][l] : written[c][l][k]
    /\ stage = "blocks" => Len(written[c][l]) = fdwt[c][l].v1 - fdwt[c][l].v0

\* Level and offset at which a band's row y was written.
Position(blk, y) ==
  LET l == IF blk[2] = 0 THEN 1 ELSE blk[2]
      r == 2 * y + (IF blk[3] \in {"LH", "HH"} THEN 1 ELSE 0)
  IN  r - fdwt[blk[1]][l].v0 + 1

\* The rows of a block, all of them written, and rightly.
Finished(blk) ==
  LET put  == written[blk[1]][IF blk[2] = 0 THEN 1 ELSE blk[2]]
      rows == Max({BandTop(Tile, blk[1], blk[2], blk[3]), blk[4] * Tile.cbh}) ..
              Min({BandEnd(Tile, blk[1], blk[2], blk[3]), (blk[4] + 1) * Tile.cbh}) - 1
  IN  \A y \in rows : Position(blk, y) <= Len(put) /\ put[Position(blk, y)]

\* No block is handed to an encoder before the transform has put the last of
\* its rows, although the transform still runs: htj2k_encode reads the band's
\* samples while the main thread writes those of the next block row.
BlocksReadFinishedRows ==
  \A b \in DOMAIN coded :
    b \in Range(queue) \/ coded[b] > 0 \/ (\E w \in EncWorkers : running[w] = b) => Finished(b)

\* When a tile is encoded every code-block was coded, by the overlapped
\* dispatch or by t1_encode, and none twice.
EveryBlockCodedOnce ==
  \A b \in DOMAIN coded : coded[b] <= 1 /\ (Encoded => coded[b] = 1)

\* "Each encoder thread owns its own instance via a per-thread slot": no two
\* threads allocate from one cblk_data_pool of the tile at the same time.
PoolsNotShared ==
  \A v, w \in EncWorkers :
    v # w /\ running[v] # NoBlock /\ running[w] # NoBlock => slot[v].at # slot[w].at

\* Every job is encoded to its last tile: the counter the main thread waits
\* for comes down to zero and no row is held back in the transform.
EncodeEnds == <>(job = <<>> \/ (Encoded /\ tile = Len(job)))

=============================================================================
