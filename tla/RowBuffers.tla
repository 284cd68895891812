----------------------------- MODULE RowBuffers -----------------------------
(***************************************************************************)
(* The subband row buffers of the streaming decoder, j2k_subband_row_buf   *)
(* in ring mode (core/coding/subband_row_buf.cpp). A buffer holds one      *)
(* strip of code-blocks in its ring half; while the rows of that strip are *)
(* read, pool tasks decode the next strip into the other half. A reader    *)
(* that leaves the strip waits until par_cnt is zero and swaps the halves, *)
(* or decodes its strip itself.                                            *)
(*                                                                         *)
(* geo[k] gives buffer k its subband rows y0 <= y < y1 and the code-block  *)
(* height h; strips and code-block rows coincide (y0 is a multiple of h or *)
(* the band fits one block row). mem[k][half][col] is what the code-block  *)
(* column col of that half holds: <<picture, strip>>, or Garbage. A strip is  *)
(* named by its first row: strip_y1 and prefetch_y1 are computed from it.  *)
(***************************************************************************)
EXTENDS Integers, FiniteSets

CONSTANTS Bufs,   \* row buffers
          Cols    \* code-block columns of a strip

ASSUME ColsAssumption == IsFiniteSet(Cols)

VARIABLES geo,     \* geometry of every buffer
          pooled,  \* there is a pool with more than one thread
          ring,    \* the half ring_buf points to; the other is prefetch_buf
          strip,   \* first row of the strip in the ring, or None (strip_y0)
          pre,     \* first row of the strip prefetched, or None (prefetch_y0)
          par,     \* par_cnt
          sync,    \* the reader is inside decode_strip
          mem,     \* contents of both halves
          pic,     \* number of the picture being decoded
          tasks    \* block decodes pushed to the pool and not finished

bufVars == <<geo, pooled, ring, strip, pre, par, sync, mem, pic, tasks>>

None == -1
Garbage == <<>>

StripEnd(k, at) == IF at + geo[k].h < geo[k].y1 THEN at + geo[k].h ELSE geo[k].y1
StripOf(k, row) == geo[k].y0 + ((row - geo[k].y0) \div geo[k].h) * geo[k].h
Holds(k, at, row) == at # None /\ at <= row /\ row < StripEnd(k, at)
TasksOf(k) == {t \in tasks : t.buf = k}

----------------------------------------------------------------------------
(* Initial states and operations.                                          *)

\* init: fresh cursors, unspecified samples.
BufInit ==
  /\ geo \in [Bufs -> [y0 : Nat, y1 : Nat, h : Nat \ {0}]]
  /\ pooled \in BOOLEAN
  /\ ring  = [k \in Bufs |-> 0]
  /\ strip = [k \in Bufs |-> None]
  /\ pre   = [k \in Bufs |-> None]
  /\ par   = [k \in Bufs |-> 0]
  /\ sync  = [k \in Bufs |-> FALSE]
  /\ mem   = [k \in Bufs |-> [half \in {0, 1} |-> [c \in Cols |-> Garbage]]]
  /\ pic   = [k \in Bufs |-> 1]
  /\ tasks = {}

\* The blocks of columns cs of strip at, as tasks that write into half.
BlockTasks(k, at, half, cs) ==
  {[buf |-> k, col |-> c, at |-> at, half |-> half, pic |-> pic[k]] : c \in cs}

\* Columns cs of a half now hold strip at of the current picture.
Written(k, half, at, cs) ==
  [mem EXCEPT ![k][half] = [c \in Cols |-> IF c \in cs THEN <<pic[k], at>> ELSE @[c]]]

\* The parallel path of decode_strip_core, and of trigger_prefetch: empty
\* blocks (no coding passes) are zeroed at once, par_cnt is set to the number
\* of the others before they are pushed.
Dispatch(k, at, half) ==
  \E empty \in SUBSET Cols :
    LET new == BlockTasks(k, at, half, Cols \ empty) IN
    /\ mem'   = Written(k, half, at, empty)
    /\ par'   = [par EXCEPT ![k] = Cardinality(new)]
    /\ tasks' = tasks \cup new

\* trigger_prefetch: the strip after the one in the ring, into the other half.
TriggerPrefetch(k, at, half) ==
  IF pooled /\ at < geo[k].y1
  THEN pre' = [pre EXCEPT ![k] = at] /\ Dispatch(k, at, half)
  ELSE pre' = [pre EXCEPT ![k] = None] /\ UNCHANGED <<par, mem, tasks>>

\* spin_wait returns: nothing of this buffer is outstanding.
Drained(k) == par[k] <= 0

\* Mutant: the halves are swapped while the prefetch still runs.
RowHitEarly(k, row) ==
  /\ ~sync[k] /\ ~Holds(k, strip[k], row) /\ Holds(k, pre[k], row)
  /\ ring'  = [ring EXCEPT ![k] = 1 - @]
  /\ strip' = [strip EXCEPT ![k] = pre[k]]
  /\ TriggerPrefetch(k, StripEnd(k, pre[k]), ring[k])
  /\ UNCHANGED <<geo, pooled, sync, pic>>

\* row_ptr, prefetch hit: swap the halves and prefetch the next strip.
RowHit(k, row) ==
  /\ ~sync[k] /\ ~Holds(k, strip[k], row) /\ Holds(k, pre[k], row)
  /\ Drained(k)
  /\ ring'  = [ring EXCEPT ![k] = 1 - @]
  /\ strip' = [strip EXCEPT ![k] = pre[k]]
  /\ TriggerPrefetch(k, StripEnd(k, pre[k]), ring[k])
  /\ UNCHANGED <<geo, pooled, sync, pic>>

\* row_ptr, miss: drop what was prefetched and decode the row's strip, here
\* (serial path) or as pool tasks the reader waits for.
RowMiss(k, row) ==
  /\ ~sync[k] /\ ~Holds(k, strip[k], row) /\ ~Holds(k, pre[k], row)
  /\ Drained(k)
  /\ strip' = [strip EXCEPT ![k] = StripOf(k, row)]
  /\ pre'   = [pre EXCEPT ![k] = None]
  /\ sync'  = [sync EXCEPT ![k] = TRUE]
  /\ IF pooled THEN Dispatch(k, StripOf(k, row), ring[k])
     ELSE /\ mem' = Written(k, ring[k], StripOf(k, row), Cols)
          /\ UNCHANGED <<par, tasks>>
  /\ UNCHANGED <<geo, pooled, ring, pic>>

\* The end of decode_strip: its blocks are done, prefetch the next strip.
StripDone(k) ==
  /\ sync[k] /\ Drained(k)
  /\ sync' = [sync EXCEPT ![k] = FALSE]
  /\ TriggerPrefetch(k, StripEnd(k, strip[k]), 1 - ring[k])
  /\ UNCHANGED <<geo, pooled, ring, strip, pic>>

\* A pool task ends: the block's samples are in place, par_cnt decreases.
FinishBlock(t) ==
  /\ t \in tasks
  /\ mem'   = [mem EXCEPT ![t.buf][t.half][t.col] = <<t.pic, t.at>>]
  /\ par'   = [par EXCEPT ![t.buf] = @ - 1]
  /\ tasks' = tasks \ {t}
  /\ UNCHANGED <<geo, pooled, ring, strip, pre, sync, pic>>

\* The rewind lambda of reset_line_decode_cursors, for the buffers ks of one
\* component: cursors and counters only, nothing is waited for.
Rewind(ks) ==
  /\ ring'  = [k \in Bufs |-> IF k \in ks THEN 0 ELSE ring[k]]
  /\ strip' = [k \in Bufs |-> IF k \in ks THEN None ELSE strip[k]]
  /\ pre'   = [k \in Bufs |-> IF k \in ks THEN None ELSE pre[k]]
  /\ par'   = [k \in Bufs |-> IF k \in ks THEN 0 ELSE par[k]]
  /\ pic'   = [k \in Bufs |-> IF k \in ks THEN pic[k] + 1 ELSE pic[k]]
  /\ UNCHANGED <<geo, pooled, sync, mem, tasks>>

----------------------------------------------------------------------------
(* The contract: what a client of the buffers may do.                      *)

\* The last strip of the buffer was reached, so nothing is prefetched.
Consumed(k) == ~sync[k] /\ strip[k] # None /\ StripEnd(k, strip[k]) = geo[k].y1

\* A client reads rows of the subband in any order, and rewinds buffers it
\* has read to the end; the pool finishes tasks in any order.
BufNext ==
  \/ \E k \in Bufs : \E row \in geo[k].y0 .. geo[k].y1 - 1 : RowHit(k, row)
  \/ \E k \in Bufs : \E row \in geo[k].y0 .. geo[k].y1 - 1 : RowMiss(k, row)
  \/ \E k \in Bufs : StripDone(k)
  \/ \E t \in tasks : FinishBlock(t)
  \/ \E ks \in SUBSET {k \in Bufs : Consumed(k)} : Rewind(ks)

BufSpec == BufInit /\ [][BufNext]_bufVars

----------------------------------------------------------------------------
(* What the buffers promise.                                               *)

\* row_ptr hands out a pointer into the ring half without further waiting:
\* whenever the reader may do so, no pool task writes to that half and every
\* code-block of it holds the strip it claims, of the picture being decoded.
ReadsSettled ==
  \A k \in Bufs : strip[k] # None /\ ~sync[k] =>
    /\ \A t \in TasksOf(k) : t.half # ring[k]
    /\ \A c \in Cols : mem[k][ring[k]][c] = <<pic[k], strip[k]>>

=============================================================================
