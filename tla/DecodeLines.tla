----------------------------- MODULE DecodeLines -----------------------------
(***************************************************************************)
(* The streaming decode of one tile, decode_line_based_stream: a driver    *)
(* pulls strips of rows from every component, a component's rows come from *)
(* a chain of streaming inverse transforms, the coarsest one and all high  *)
(* bands are read from row buffers, and code-blocks, prefetches and the    *)
(* components' strips are tasks of one thread pool whose waiting threads   *)
(* run other tasks. With single-tile reuse the same state decodes the next *)
(* picture.                                                                *)
(*                                                                         *)
(* dec is the tile's shape: comps, a sequence of [v0, v1, xf, dirs, yr]    *)
(* (dirs[l] the direction of level l, level 1 the coarsest), cbh, mct.     *)
(***************************************************************************)
EXTENDS RowBuffers, StreamIdwt, SequencesExt

CONSTANTS Shapes,         \* tile shapes
          PoolShapes,     \* those decoded with a pool as well as without
          MinStripRows,   \* least height of an outer strip (64 in the code)
          Pictures,       \* pictures decoded with one state
          Main, Workers   \* threads

VARIABLES dec,       \* the tile's shape
          phase,     \* of the driver: between strips, or pulling or delivering
          stripY,    \* strip_y0
          row,       \* y of the next row to deliver
          picture,   \* the driver's picture
          counts,    \* rows component c pulls in this strip
          pulled,    \* pulled[c]: rows of strip_buf written so far
          pullCnt,   \* pull_cnt
          waiting,   \* components whose strip is not taken up yet
          idwt,      \* idwt[c][l]: state of level l of component c
          nextRow,   \* next_row of a component without levels
          calls,     \* calls[c]: the pull in progress, a stack of levels
          stack,     \* stack[t]: the tasks thread t runs, nested
          shown      \* the rows last handed to the callback

driverVars == <<dec, phase, stripY, row, picture, counts, shown>>
taskVars   == <<pullCnt, waiting, stack>>
pullVars   == <<pulled, idwt, nextRow, calls>>
vars       == <<driverVars, taskVars, pullVars, bufVars>>

Threads == {Main} \cup Workers

ASSUME DecodeAssumption ==
  /\ Pictures \in Nat \ {0} /\ MinStripRows \in Nat
  /\ Bufs \subseteq (Nat \ {0}) \X Nat \X {"LL", "HL", "LH", "HH"}

----------------------------------------------------------------------------
(* Geometry.                                                               *)

NL(d, c) == Len(d.comps[c].dirs)

\* First (or past-the-end) row of resolution l, from that of resolution NL.
ResRow(d, c, end) ==
  LET f[l \in 0 .. NL(d, c)] ==
        IF l = NL(d, c) THEN end
        ELSE IF d.comps[c].dirs[l + 1] = "BIDIR" THEN (f[l + 1] + 1) \div 2
        ELSE f[l + 1]
  IN  f

V0(d, c, l) == ResRow(d, c, d.comps[c].v0)[l]
V1(d, c, l) == ResRow(d, c, d.comps[c].v1)[l]

\* Rows of band b of level l: HL has the low-pass rows, LH and HH the others.
BandRow(d, c, l, b, v) ==
  IF b = "LL" \/ d.comps[c].dirs[l] # "BIDIR" THEN v
  ELSE IF b = "HL" THEN (v + 1) \div 2 ELSE v \div 2

HasBand(d, c, l, b) ==
  \/ l = 0 /\ b = "LL"
  \/ l \in 1 .. NL(d, c) /\ b = "HL" /\ d.comps[c].dirs[l] # "NO"
  \/ l \in 1 .. NL(d, c) /\ b \in {"LH", "HH"} /\ d.comps[c].dirs[l] = "BIDIR"

\* The row buffers' geometry; a buffer the shape does not have is empty.
GeoOf(d) ==
  [k \in Bufs |->
     IF k[1] <= Len(d.comps) /\ HasBand(d, k[1], k[2], k[3])
     THEN [y0 |-> BandRow(d, k[1], k[2], k[3], V0(d, k[1], k[2])),
           y1 |-> BandRow(d, k[1], k[2], k[3], V1(d, k[1], k[2])), h |-> d.cbh]
     ELSE [y0 |-> 0, y1 |-> 0, h |-> d.cbh]]

Rows(d, c) == d.comps[c].v1 - d.comps[c].v0

\* The shapes a codestream gives: no component has more rows than the first one
\* has at its subsampling, those of the colour transform as many as the first,
\* and Bufs names every buffer.
CompShape == [v0 : Nat, v1 : Nat, xf : Nat, dirs : Seq({"BIDIR", "HORZ", "NO"}),
              yr : Nat \ {0}]

WellFormed(d) ==
  /\ d \in [comps : Seq(CompShape), cbh : Nat \ {0}, mct : BOOLEAN]
  /\ d.comps # <<>>
  /\ \A c \in 1 .. Len(d.comps) :
       /\ d.comps[c].v0 <= d.comps[c].v1
       /\ IF d.mct /\ c <= 3 THEN Rows(d, c) = Rows(d, 1)
          ELSE Rows(d, c) <= (Rows(d, 1) + d.comps[c].yr - 1) \div d.comps[c].yr
       /\ \A l \in 0 .. NL(d, c) : \A b \in {"LL", "HL", "LH", "HH"} :
            HasBand(d, c, l, b) => <<c, l, b>> \in Bufs

ASSUME ShapesAssumption == \A d \in Shapes : WellFormed(d)

Comps == 1 .. Len(dec.comps)
H == Rows(dec, 1)

\* Height of an outer strip: the code-block's, at least MinStripRows, rounded
\* up to the largest vertical subsampling.
StripRows ==
  LET maxYr == Max({dec.comps[c].yr : c \in Comps})
      h     == Max({dec.cbh, MinStripRows})
  IN  ((h + maxYr - 1) \div maxYr) * maxYr

StripTop == Min({stripY + StripRows, H})

\* Rows component c contributes to the strip.
Count(c) ==
  LET yr == dec.comps[c].yr
      c0 == stripY \div yr
      c1 == Min({(StripTop + yr - 1) \div yr, Rows(dec, c)})
  IN  IF dec.mct /\ c <= 3 THEN StripTop - stripY
      ELSE IF c1 > c0 THEN c1 - c0 ELSE 0

\* can_parallel_pull.
Parallel == pooled /\ Len(dec.comps) > 1

----------------------------------------------------------------------------
(* Where a level's rows come from: idwt_level_src_fn.                      *)

\* pse_row_idx: whole-sample symmetric extension of idx into 0 .. len - 1.
PseRowIdx(idx, len) ==
  LET period == 2 * (len - 1)
      i      == idx % period
  IN  IF len <= 1 THEN 0 ELSE IF i < len THEN i ELSE period - i

Buffer(c, l, b, y) == [buf |-> <<c, l, b>>, row |-> geo[<<c, l, b>>].y0 + y]
Child == [buf |-> <<>>]

\* The low-pass row: the child level's next row, or a row of LL0.
LowSource(c, l, sub) ==
  LET ll0 == geo[<<c, 0, "LL">>] IN
  IF l > 1 THEN Child ELSE Buffer(c, 0, "LL", PseRowIdx(sub, ll0.y1 - ll0.y0))

\* What row r of level l is interleaved from, in the order it is read.
Sources(c, l, r) ==
  LET dir == idwt[c][l].dir
      v0  == idwt[c][l].v0
      sub == IF dir # "BIDIR" THEN r - v0
             ELSE IF r % 2 = 0 THEN (r \div 2) - ((v0 + 1) \div 2)
             ELSE (r \div 2) - (v0 \div 2)
  IN  IF dir = "NO" THEN <<LowSource(c, l, sub)>>
      ELSE IF dir = "HORZ" \/ r % 2 = 0
        THEN <<LowSource(c, l, sub), Buffer(c, l, "HL", sub)>>
      ELSE <<Buffer(c, l, "LH", sub), Buffer(c, l, "HH", sub)>>

\* The subband row a reader finds at row x of buffer k: <<picture, row>>, if
\* the whole width holds one strip.
BandSamples(k, x) ==
  LET cell == {mem[k][ring[k]][c] : c \in Cols}
      at   == (CHOOSE v \in cell : TRUE)
  IN  IF cell = {at} /\ at # Junk THEN <<at[1], at[2] + x - strip[k]>> ELSE Junk

\* Row r of level l at lifting level 0, if every part is the row it should be.
Interleaved(c, l, r, parts) ==
  LET y == IF dec.comps[c].dirs[l] = "BIDIR" THEN r \div 2 ELSE r
      p == parts[1]
  IN  IF p # Junk /\ \A i \in DOMAIN parts : parts[i] = <<p[1], y>>
      THEN Row(p[1], r, 0) ELSE Junk

----------------------------------------------------------------------------
(* The pull of one row: pull_line_ref, idwt_2d_state_pull_row_ref and the  *)
(* source callbacks below it. A frame is a level and the low-pass row its  *)
(* child has returned.                                                     *)

NoRow == <<"none">>
Frame(l) == [lvl |-> l, low |-> NoRow]

\* The frames of component c; a call that has not begun has the finest level.
Frames(c) == IF calls[c] = <<>> THEN <<Frame(NL(dec, c))>> ELSE calls[c]
Level0(c) == Last(Frames(c)).lvl = 0
Top(c)    == idwt[c][Last(Frames(c)).lvl]

\* The row the level on top still needs, if it cannot return.
Wanted(s) == IF PassThrough(s) THEN s.nextOut ELSE s.nextIn
Hungry(c) ==
  /\ Len(pulled[c]) < counts[c]
  /\ IF Level0(c) THEN nextRow[c] < geo[<<c, 0, "LL">>].y1
     ELSE LET s == Top(c) IN
          s.nextOut < s.v1 /\ (PassThrough(s) \/ (~Ready(s) /\ s.nextIn < s.v1))

Ingredients(c) ==
  IF Level0(c) THEN <<Buffer(c, 0, "LL", nextRow[c] - geo[<<c, 0, "LL">>].y0)>>
  ELSE Sources(c, Last(Frames(c)).lvl, Wanted(Top(c)))

NeedsChild(c) == Ingredients(c)[1] = Child /\ Last(Frames(c)).low = NoRow

\* The ingredients that row_ptr cannot hand out at once, and the first of them.
Unsettled(c) ==
  {i \in DOMAIN Ingredients(c) :
     LET part == Ingredients(c)[i] IN
     part # Child /\ (sync[part.buf] \/ ~Holds(part.buf, strip[part.buf], part.row))}
Pending(c) == Ingredients(c)[Min(Unsettled(c))]

\* The level returns val to its caller: the parent level, or the strip.
Return(c, val) ==
  LET callers == Front(Frames(c)) IN
  IF callers = <<>>
    THEN /\ calls'  = [calls EXCEPT ![c] = <<>>]
         /\ pulled' = [pulled EXCEPT ![c] = Append(@, val)]
  ELSE /\ calls' = [calls EXCEPT ![c] = [callers EXCEPT ![Len(callers)].low = val]]
       /\ UNCHANGED pulled

\* It returns null: the parent uses zeros, the strip zeroes its tail.
ReturnNull(c) ==
  IF Len(Frames(c)) > 1 THEN Return(c, Junk)
  ELSE /\ pulled' = [pulled EXCEPT ![c] = @ \o [i \in 1 .. counts[c] - Len(@) |-> Junk]]
       /\ calls'  = [calls EXCEPT ![c] = <<>>]

\* No row left to fetch: the level returns its next row, after a last cascade
\* if need be, or null.
PullReturn(c) ==
  /\ Len(pulled[c]) < counts[c] /\ ~Hungry(c)
  /\ IF Level0(c) \/ Top(c).nextOut >= Top(c).v1
       THEN ReturnNull(c) /\ UNCHANGED idwt
     ELSE LET l == Last(Frames(c)).lvl
              s == IF Ready(Top(c)) THEN Top(c) ELSE IdwtCascade(Top(c))
          IN  IF Ready(s)
                THEN /\ idwt' = [idwt EXCEPT ![c][l] = [s EXCEPT !.nextOut = @ + 1]]
                     /\ Return(c, NextRow(s))
              ELSE idwt' = [idwt EXCEPT ![c][l] = s] /\ ReturnNull(c)
  /\ UNCHANGED <<driverVars, taskVars, nextRow, bufVars>>

\* idwt_level_src_fn pulls its low-pass row from the child level.
PullChild(c) ==
  /\ Hungry(c) /\ NeedsChild(c)
  /\ calls' = [calls EXCEPT ![c] = Append(Frames(c), Frame(Last(Frames(c)).lvl - 1))]
  /\ UNCHANGED <<driverVars, taskVars, pulled, idwt, nextRow, bufVars>>

\* row_ptr on the first buffer that does not hold its row.
PullBand(c) ==
  /\ Hungry(c) /\ ~NeedsChild(c) /\ Unsettled(c) # {}
  /\ LET i == Pending(c) IN
     RowHit(i.buf, i.row) \/ RowMiss(i.buf, i.row) \/ StripDone(i.buf)
  /\ UNCHANGED <<driverVars, taskVars, pullVars>>

\* Every ingredient is at hand: the row enters the level, or passes through.
PullFetch(c) ==
  /\ Hungry(c) /\ ~NeedsChild(c) /\ Unsettled(c) = {}
  /\ LET from  == Ingredients(c)
         top   == Last(Frames(c))
         low   == IF top.low # Junk /\ top.low[3] = MaxLevel(dec.comps[c].xf)
                  THEN <<top.low[1], top.low[2]>> ELSE Junk
         parts == [i \in DOMAIN from |->
                     IF from[i] = Child THEN low ELSE BandSamples(from[i].buf, from[i].row)]
         done  == MaxLevel(dec.comps[c].xf)
     IN  IF Level0(c)
           THEN /\ nextRow' = [nextRow EXCEPT ![c] = @ + 1]
                /\ Return(c, IF parts[1] = Junk THEN Junk
                             ELSE Row(parts[1][1], parts[1][2], done))
                /\ UNCHANGED idwt
         ELSE LET s   == Top(c)
                  val == Interleaved(c, top.lvl, Wanted(s), parts)
              IN  /\ UNCHANGED nextRow
                  /\ IF PassThrough(s)
                       THEN /\ idwt' = [idwt EXCEPT ![c][top.lvl].nextOut = @ + 1]
                            /\ Return(c, Passed(s, val))
                     ELSE /\ idwt' = [idwt EXCEPT ![c][top.lvl] = Fetched(s, val)]
                          /\ calls' = [calls EXCEPT ![c] = Append(Front(Frames(c)), Frame(top.lvl))]
                          /\ UNCHANGED pulled
  /\ UNCHANGED <<driverVars, taskVars, bufVars>>

Pull(c) == PullReturn(c) \/ PullChild(c) \/ PullBand(c) \/ PullFetch(c)

----------------------------------------------------------------------------
(* Threads: a stack of tasks each, nested where a task waits.              *)

Strip(c) == <<"strip", c>>
Block(b) == <<"block", b>>

Running(t) == IF stack[t] = <<>> THEN <<"nothing">> ELSE Last(stack[t])
Queued     == {b \in tasks : \A t \in Threads : Block(b) \notin Range(stack[t])}

\* dec_strip_barrier_wait.
AtBarrier == phase = "pull" /\ Parallel /\ stack[Main] = <<>> /\ pullCnt > 0

\* spin_wait: the strip of component c is inside it.
Spinning(c) ==
  /\ Hungry(c) /\ ~NeedsChild(c) /\ Unsettled(c) # {}
  /\ ~Drained(Pending(c).buf)

\* An idle worker, the driver at its barrier and a strip inside spin_wait
\* (try_run_one) take a task off the queue.
MayTake(t) ==
  \/ t \in Workers /\ pooled /\ stack[t] = <<>>
  \/ t = Main /\ AtBarrier
  \/ \E c \in Comps : Running(t) = Strip(c) /\ Spinning(c)

TakeBlock(t) ==
  /\ MayTake(t)
  /\ \E b \in Queued : stack' = [stack EXCEPT ![t] = Append(@, Block(b))]
  /\ UNCHANGED <<driverVars, pullCnt, waiting, pullVars, bufVars>>

TakeStrip(t) ==
  /\ IF Parallel THEN MayTake(t) ELSE t = Main /\ stack[t] = <<>> /\ phase = "pull"
  /\ \E c \in waiting :
       /\ ~Parallel => c = Min(waiting)
       /\ waiting' = waiting \ {c}
       /\ stack' = [stack EXCEPT ![t] = Append(@, Strip(c))]
  /\ UNCHANGED <<driverVars, pullCnt, pullVars, bufVars>>

EndBlock(t) ==
  /\ \E b \in tasks : Running(t) = Block(b) /\ FinishBlock(b)
  /\ stack' = [stack EXCEPT ![t] = Front(@)]
  /\ UNCHANGED <<driverVars, pullCnt, waiting, pullVars>>

\* Mutant: the serial loop's strips count themselves off as well.
EndStripAlwaysCounts(t) ==
  /\ \E c \in Comps : Running(t) = Strip(c) /\ Len(pulled[c]) = counts[c]
  /\ stack' = [stack EXCEPT ![t] = Front(@)]
  /\ pullCnt' = pullCnt - 1
  /\ UNCHANGED <<driverVars, waiting, pullVars, bufVars>>

\* pull_strip_into_buf returns and the task counts itself off.
EndStrip(t) ==
  /\ \E c \in Comps : Running(t) = Strip(c) /\ Len(pulled[c]) = counts[c]
  /\ stack' = [stack EXCEPT ![t] = Front(@)]
  /\ pullCnt' = IF Parallel THEN pullCnt - 1 ELSE pullCnt
  /\ UNCHANGED <<driverVars, waiting, pullVars, bufVars>>

PullStep(t) == \E c \in Comps : Running(t) = Strip(c) /\ Pull(c)

----------------------------------------------------------------------------
(* The driver, decode_line_based_stream.                                   *)

NoneOf(d, x) == [c \in 1 .. Len(d.comps) |-> x]

FreshIdwt(d) ==
  [c \in 1 .. Len(d.comps) |->
     [l \in 1 .. NL(d, c) |->
        IdwtInit(V0(d, c, l), V1(d, c, l), d.comps[c].xf, d.comps[c].dirs[l])]]

Init ==
  /\ dec \in Shapes
  /\ geo = GeoOf(dec) /\ BufInit
  /\ pooled => dec \in PoolShapes
  /\ phase = "strip" /\ stripY = 0 /\ row = 0 /\ picture = 1
  /\ counts = NoneOf(dec, 0) /\ pulled = NoneOf(dec, <<>>)
  /\ pullCnt = 0 /\ waiting = {}
  /\ idwt = FreshIdwt(dec)
  /\ nextRow = [c \in 1 .. Len(dec.comps) |-> V0(dec, c, 0)]
  /\ calls = NoneOf(dec, <<>>)
  /\ stack = [t \in Threads |-> <<>>]
  /\ shown = NoneOf(dec, Junk)

\* The top of the strip loop: counts, then the pulls, pushed as tasks when
\* there is a pool and more than one component.
BeginStrip ==
  /\ phase = "strip" /\ stripY < H
  /\ phase'   = "pull"
  /\ counts'  = [c \in Comps |-> Count(c)]
  /\ pulled'  = NoneOf(dec, <<>>)
  /\ waiting' = Comps
  /\ pullCnt' = IF Parallel THEN Len(dec.comps) ELSE 0
  /\ UNCHANGED <<dec, stripY, row, picture, shown, idwt, nextRow, calls, stack, bufVars>>

\* The barrier is passed, or the serial loop is over.
AllPulled == stack[Main] = <<>> /\ IF Parallel THEN pullCnt <= 0 ELSE waiting = {}

\* The inner loop hands row y to the callback; a vertically subsampled
\* component outside the colour transform repeats its row in between.
Deliver ==
  /\ phase = "pull" /\ AllPulled
  /\ LET New(c)   == \/ dec.mct /\ c <= 3
                     \/ row % dec.comps[c].yr = 0 /\ row \div dec.comps[c].yr < Rows(dec, c)
         Offset(c) == IF dec.mct /\ c <= 3 THEN row - stripY
                      ELSE (row - stripY) \div dec.comps[c].yr
     IN  shown' = [c \in Comps |-> IF New(c) THEN pulled[c][Offset(c) + 1] ELSE shown[c]]
  /\ row' = row + 1
  /\ IF row' = StripTop THEN phase' = "strip" /\ stripY' = stripY + StripRows
     ELSE UNCHANGED <<phase, stripY>>
  /\ UNCHANGED <<dec, picture, counts, taskVars, pullVars, bufVars>>

\* Mutant: the cursors are reset when the last strip is begun.
NextPictureEarly ==
  /\ stripY + StripRows >= H /\ picture < Pictures
  /\ picture' = picture + 1 /\ stripY' = 0 /\ row' = 0 /\ phase' = "strip"
  /\ Rewind({k \in Bufs : geo[k].y0 < geo[k].y1})
  /\ idwt' = [c \in Comps |-> [l \in DOMAIN idwt[c] |-> IdwtRewind(idwt[c][l])]]
  /\ nextRow' = [c \in Comps |-> V0(dec, c, 0)]
  /\ UNCHANGED <<dec, counts, shown, taskVars, pulled, calls>>

\* The next picture arrives: init_line_decode finds the persistent state and
\* calls reset_line_decode_cursors for every component.
NextPicture ==
  /\ phase = "strip" /\ stripY >= H /\ picture < Pictures
  /\ picture' = picture + 1 /\ stripY' = 0 /\ row' = 0
  /\ Rewind({k \in Bufs : geo[k].y0 < geo[k].y1})
  /\ idwt' = [c \in Comps |-> [l \in DOMAIN idwt[c] |-> IdwtRewind(idwt[c][l])]]
  /\ nextRow' = [c \in Comps |-> V0(dec, c, 0)]
  /\ UNCHANGED <<dec, phase, counts, shown, taskVars, pulled, calls>>

MainStep == BeginStrip \/ Deliver \/ NextPicture

ThreadStep(t) ==
  \/ TakeBlock(t) \/ TakeStrip(t) \/ EndBlock(t) \/ EndStrip(t) \/ PullStep(t)
  \/ t = Main /\ MainStep

Next == \E t \in Threads : ThreadStep(t)

\* A thread has something to do: a task to take, one to go on with, or the
\* driver's next step.
CanStep(t) ==
  \/ MayTake(t) /\ (Queued # {} \/ (Parallel /\ waiting # {}))
  \/ Running(t)[1] = "block"
  \/ \E c \in Comps : Running(t) = Strip(c) /\ ~Spinning(c)
  \/ /\ t = Main /\ stack[t] = <<>>
     /\ \/ phase = "strip" /\ (stripY < H \/ picture < Pictures)
        \/ phase = "pull" /\ (AllPulled \/ (~Parallel /\ waiting # {}))

\* Weak fairness of a thread: WF_vars(ThreadStep(t)), with CanStep(t) for the
\* enabling condition, which TLC would compute by running the transforms.
\* No thread blocks while it has a task; the operating system runs them all.
Scheduled(t) == []<>~CanStep(t) \/ []<><<ThreadStep(t)>>_vars

Spec == Init /\ [][Next]_vars /\ \A t \in Threads : Scheduled(t)

----------------------------------------------------------------------------
(* Properties.                                                             *)

\* What the state ranges over, and where a pull's calls stand: the frames of
\* a component are consecutive levels from the finest down.
TypeOK ==
  /\ phase \in {"strip", "pull"} /\ row \in 0 .. H /\ picture \in 1 .. Pictures
  /\ waiting \subseteq Comps /\ pullCnt \in 0 .. Len(dec.comps)
  /\ \A c \in Comps :
       /\ Len(pulled[c]) <= counts[c]
       /\ \A i \in DOMAIN calls[c] : calls[c][i].lvl = NL(dec, c) + 1 - i

\* What the caller is to be shown at row y: of every component its row at
\* that height, the last one when the component has none.
Right(d, p, y) ==
  [c \in 1 .. Len(d.comps) |->
     LET n == IF d.mct /\ c <= 3 THEN y ELSE Min({y \div d.comps[c].yr, Rows(d, c) - 1})
     IN  IF Rows(d, c) = 0 THEN Junk
         ELSE Row(p, d.comps[c].v0 + n, MaxLevel(d.comps[c].xf))]

Height(d) == Rows(d, 1)

Source == INSTANCE LineSource WITH shape <- dec

\* The decoder delivers the rows of every picture, each once, in order, built
\* from the right samples of that picture, and gets to the last one: whatever
\* the threads do, no wait of the pool, the buffers or the lifting is for ever.
ImplementsLineSource == Source!Spec

=============================================================================
