-------------------------- MODULE DecodeLinesProofs --------------------------
(***************************************************************************)
(* Proofs about the streaming decode of a tile, for any shape of tile, any *)
(* number of workers, code-block columns and pictures.                     *)
(*                                                                         *)
(* First the row buffers by themselves: whoever keeps to their contract,   *)
(* BufSpec, is handed settled rows only. The invariant says of every       *)
(* buffer where its outstanding tasks write: into the ring while the       *)
(* reader is inside decode_strip, into the other half otherwise; that      *)
(* par_cnt counts them; and that each column of the half being written is  *)
(* there already or will come.                                             *)
(*                                                                         *)
(* Then that the decoder keeps to the contract. What has to be shown is    *)
(* that a picture's end finds every buffer read to its last strip, since   *)
(* reset_line_decode_cursors waits for nothing. The invariant follows the  *)
(* rows: Paced, what the driver delivered was handed out by the finest     *)
(* level; Chained, what a level has used was given by the level below it;  *)
(* Drawn, what a level has used of a band was in the ring of its buffer;   *)
(* and TaskOK, the strip of a component is waiting, held once by one       *)
(* thread, or over, and pull_cnt counts those that are not over.           *)
(*                                                                         *)
(* Last that the rows the caller is shown are the picture's own, each once *)
(* and in order. A ring between two rows of its source holds, row by row,  *)
(* what the lifting steps have made of the rows fed so far (AtRest), so    *)
(* the row that leaves it is wholly lifted and the next one due. Told adds *)
(* to the decoder's invariant that this is so of every level (Lifts), that *)
(* a row on its way up is the one asked for (Poised), that no level gave   *)
(* more than was asked of it (Exact), and that a component has given the   *)
(* rows the driver counts, into the strip's buffer in order (OnTime,       *)
(* Handed).                                                                *)
(***************************************************************************)
EXTENDS DecodeLines, FiniteSetTheorems, SequenceTheorems, LiftRingProofs

Cell == {Garbage} \cup (Nat \X Nat)
Task == [buf : Bufs, col : Cols, at : Nat, half : {0, 1}, pic : Nat]

BufTypes ==
  /\ geo \in [Bufs -> [y0 : Nat, y1 : Nat, h : Nat \ {0}]]
  /\ pooled \in BOOLEAN
  /\ ring \in [Bufs -> {0, 1}]
  /\ strip \in [Bufs -> Nat \cup {None}]
  /\ pre \in [Bufs -> Nat \cup {None}]
  /\ par \in [Bufs -> Int]
  /\ sync \in [Bufs -> BOOLEAN]
  /\ mem \in [Bufs -> [{0, 1} -> [Cols -> Cell]]]
  /\ pic \in [Bufs -> Nat]
  /\ tasks \subseteq Task /\ IsFiniteSet(tasks)

\* The half outstanding tasks write, and the strip that will be there.
Target(k) == IF sync[k] THEN ring[k] ELSE 1 - ring[k]
Coming(k) == IF sync[k] THEN strip[k] ELSE pre[k]

Counted(k) == par[k] = Cardinality(TasksOf(k))

Aimed(k) == \A t \in TasksOf(k) :
  /\ Coming(k) # None
  /\ t.half = Target(k) /\ t.at = Coming(k) /\ t.pic = pic[k]

Arriving(k) == Coming(k) # None => \A c \in Cols :
  \/ mem[k][Target(k)][c] = <<pic[k], Coming(k)>>
  \/ \E t \in TasksOf(k) : t.col = c

\* The strip in the ring is there; a prefetched strip is the one after it.
Here(k) == strip[k] # None /\ ~sync[k] =>
             \A c \in Cols : mem[k][ring[k]][c] = <<pic[k], strip[k]>>

InOrder(k) ==
  /\ sync[k] => strip[k] # None /\ pre[k] = None
  /\ pre[k] # None => /\ strip[k] # None /\ pre[k] = StripEnd(k, strip[k])
                      /\ pre[k] < geo[k].y1

BufOK(k) == Counted(k) /\ Aimed(k) /\ Arriving(k) /\ Here(k) /\ InOrder(k)

BufInv == BufTypes /\ \A k \in Bufs : BufOK(k)

-----------------------------------------------------------------------------
(* Lemmas on the geometry and the operators. *)

\* A multiple of a block height that is not above the row is not negative.
LEMMA DivTimes == \A a \in Nat : \A h \in Nat \ {0} : (a \div h) * h \in Nat
<1> SUFFICES ASSUME NEW a \in Nat, NEW h \in Nat \ {0} PROVE (a \div h) * h \in Nat
  OBVIOUS
<1>1. (a \div h) \in Nat
  OBVIOUS
<1> QED
  BY <1>1

\* Strips are named by rows of the picture, never by None.
LEMMA StripNames ==
  ASSUME BufTypes, NEW k \in Bufs
  PROVE  /\ \A at \in Nat : StripEnd(k, at) \in Nat
         /\ \A y \in geo[k].y0 .. geo[k].y1 - 1 : StripOf(k, y) \in Nat
<1>1. geo[k].y0 \in Nat /\ geo[k].y1 \in Nat /\ geo[k].h \in Nat \ {0}
  BY DEF BufTypes
<1>2. \A at \in Nat : StripEnd(k, at) \in Nat
  BY <1>1 DEF StripEnd
<1>3. ASSUME NEW y \in geo[k].y0 .. geo[k].y1 - 1
      PROVE  StripOf(k, y) \in Nat
  <2>1. y - geo[k].y0 \in Nat
    BY <1>1
  <2>2. ((y - geo[k].y0) \div geo[k].h) * geo[k].h \in Nat
    BY <1>1, <2>1, DivTimes
  <2> QED
    BY <1>1, <2>2 DEF StripOf
<1> QED
  BY <1>2, <1>3

\* par_cnt at zero means that no task of the buffer is outstanding.
LEMMA DrainedIsEmpty ==
  ASSUME BufTypes, NEW k \in Bufs, Counted(k), Drained(k)
  PROVE  TasksOf(k) = {}
<1>1. IsFiniteSet(TasksOf(k))
  BY FS_Subset DEF BufTypes, TasksOf
<1>2. Cardinality(TasksOf(k)) \in Nat
  BY <1>1, FS_CardinalityType
<1>3. Cardinality(TasksOf(k)) = 0
  BY <1>2 DEF Counted, Drained
<1> QED
  BY <1>1, <1>3, FS_EmptySet

\* What BlockTasks makes: one task for each column.
LEMMA BlockTasksAre ==
  ASSUME BufTypes, NEW k \in Bufs, NEW at \in Nat, NEW half \in {0, 1},
         NEW cs \in SUBSET Cols
  PROVE  LET new == BlockTasks(k, at, half, cs) IN
         /\ new \subseteq Task /\ IsFiniteSet(new)
         /\ \A t \in new : t.buf = k /\ t.at = at /\ t.half = half /\ t.pic = pic[k]
         /\ \A c \in cs : \E t \in new : t.col = c
<1> DEFINE T(c) == [buf |-> k, col |-> c, at |-> at, half |-> half, pic |-> pic[k]]
           new == BlockTasks(k, at, half, cs)
           f == [c \in cs |-> T(c)]
<1>1. pic[k] \in Nat
  BY DEF BufTypes
<1>2. new = {T(c) : c \in cs}
  BY DEF BlockTasks
<1>3. \A c \in cs : T(c) \in Task
  BY <1>1 DEF Task
<1>4. IsFiniteSet(cs)
  BY ColsAssumption, FS_Subset
<1>5. f \in Surjection(cs, new)
  <2> HIDE DEF T
  <2> QED BY <1>2 DEF Surjection
<1>6. IsFiniteSet(new)
  BY <1>4, <1>5, FS_Surjection
<1>7. \A c \in cs : T(c).buf = k /\ T(c).at = at /\ T(c).half = half /\ T(c).pic = pic[k]
                  /\ T(c).col = c
  OBVIOUS
<1> HIDE DEF T, new
<1>8. /\ new \subseteq Task
      /\ \A t \in new : t.buf = k /\ t.at = at /\ t.half = half /\ t.pic = pic[k]
      /\ \A c \in cs : \E t \in new : t.col = c
  BY <1>2, <1>3, <1>7
<1> QED
  BY <1>6, <1>8 DEF new

\* Writing columns of one half leaves the other half and buffers alone.
LEMMA WrittenIs ==
  ASSUME BufTypes, NEW k \in Bufs, NEW at \in Nat, NEW half \in {0, 1},
         NEW cs \in SUBSET Cols
  PROVE  LET m == Written(k, half, at, cs) IN
         /\ m \in [Bufs -> [{0, 1} -> [Cols -> Cell]]]
         /\ \A j \in Bufs \ {k} : m[j] = mem[j]
         /\ m[k][1 - half] = mem[k][1 - half]
         /\ \A c \in cs : m[k][half][c] = <<pic[k], at>>
<1> DEFINE m == Written(k, half, at, cs)
           cell == <<pic[k], at>>
           half1 == [c \in Cols |-> IF c \in cs THEN cell ELSE mem[k][half][c]]
<1>1. pic[k] \in Nat /\ mem \in [Bufs -> [{0, 1} -> [Cols -> Cell]]]
  BY DEF BufTypes
<1>2. cell \in Cell
  BY <1>1 DEF Cell
<1>3. m = [mem EXCEPT ![k][half] = half1]
  BY <1>1 DEF Written
<1> HIDE DEF cell
<1>4. half1 \in [Cols -> Cell] /\ \A c \in cs : half1[c] = cell
  BY <1>1, <1>2
<1> HIDE DEF half1, m
<1>5. 1 - half \in {0, 1} /\ 1 - half # half
  OBVIOUS
<1>6. /\ m \in [Bufs -> [{0, 1} -> [Cols -> Cell]]]
      /\ \A j \in Bufs \ {k} : m[j] = mem[j]
      /\ m[k][1 - half] = mem[k][1 - half]
      /\ m[k][half] = half1
  BY <1>1, <1>3, <1>4, <1>5, Zenon
<1> QED
  BY <1>4, <1>6 DEF cell, m

\* What the parallel path does to a buffer with nothing outstanding, and that
\* it leaves the others alone.
LEMMA DispatchDoes ==
  ASSUME BufTypes, NEW k \in Bufs, NEW at \in Nat, NEW half \in {0, 1},
         TasksOf(k) = {}, Dispatch(k, at, half)
  PROVE  /\ mem' \in [Bufs -> [{0, 1} -> [Cols -> Cell]]]
         /\ par' \in [Bufs -> Int]
         /\ tasks' \subseteq Task /\ IsFiniteSet(tasks')
         /\ \A j \in Bufs \ {k} :
              mem'[j] = mem[j] /\ par'[j] = par[j] /\ TasksOf(j)' = TasksOf(j)
         /\ mem'[k][1 - half] = mem[k][1 - half]
         /\ Counted(k)'
         /\ \A t \in TasksOf(k)' : t.half = half /\ t.at = at /\ t.pic = pic[k]
         /\ \A c \in Cols : \/ mem'[k][half][c] = <<pic[k], at>>
                            \/ \E t \in TasksOf(k)' : t.col = c
<1>1. PICK empty \in SUBSET Cols :
        /\ mem' = Written(k, half, at, empty)
        /\ par' = [par EXCEPT ![k] = Cardinality(BlockTasks(k, at, half, Cols \ empty))]
        /\ tasks' = tasks \cup BlockTasks(k, at, half, Cols \ empty)
  BY DEF Dispatch
<1> DEFINE new == BlockTasks(k, at, half, Cols \ empty)
<1>2. /\ new \subseteq Task /\ IsFiniteSet(new)
      /\ \A t \in new : t.buf = k /\ t.at = at /\ t.half = half /\ t.pic = pic[k]
      /\ \A c \in Cols \ empty : \E t \in new : t.col = c
  BY BlockTasksAre
<1>3. tasks' = tasks \cup new
  BY <1>1
<1>4. par' = [par EXCEPT ![k] = Cardinality(new)]
  BY <1>1
<1> HIDE DEF new
<1>5. tasks' \subseteq Task /\ IsFiniteSet(tasks')
  BY <1>2, <1>3, FS_Union DEF BufTypes
<1>6. Cardinality(new) \in Int
  BY <1>2, FS_CardinalityType
<1>7. par' \in [Bufs -> Int] /\ par'[k] = Cardinality(new)
      /\ \A j \in Bufs \ {k} : par'[j] = par[j]
  BY <1>4, <1>6 DEF BufTypes
<1>8. TasksOf(k)' = new
  BY <1>2, <1>3 DEF TasksOf
<1>9. \A j \in Bufs \ {k} : TasksOf(j)' = TasksOf(j)
  BY <1>2, <1>3 DEF TasksOf
<1>10. /\ mem' \in [Bufs -> [{0, 1} -> [Cols -> Cell]]]
       /\ \A j \in Bufs \ {k} : mem'[j] = mem[j]
       /\ mem'[k][1 - half] = mem[k][1 - half]
       /\ \A c \in empty : mem'[k][half][c] = <<pic[k], at>>
  BY <1>1, WrittenIs
<1>11. Counted(k)'
  BY <1>7, <1>8 DEF Counted
<1>12. \A c \in Cols : \/ mem'[k][half][c] = <<pic[k], at>>
                      \/ \E t \in TasksOf(k)' : t.col = c
  BY <1>2, <1>8, <1>10
<1> QED
  BY <1>2, <1>5, <1>7, <1>8, <1>9, <1>10, <1>11, <1>12

\* What trigger_prefetch does: nothing, or a Dispatch of the strip at.
LEMMA TriggerDoes ==
  ASSUME BufTypes, NEW k \in Bufs, NEW at \in Nat, NEW half \in {0, 1},
         TasksOf(k) = {}, Counted(k), TriggerPrefetch(k, at, half)
  PROVE  /\ mem' \in [Bufs -> [{0, 1} -> [Cols -> Cell]]]
         /\ par' \in [Bufs -> Int]
         /\ pre' \in [Bufs -> Nat \cup {None}]
         /\ tasks' \subseteq Task /\ IsFiniteSet(tasks')
         /\ \A j \in Bufs \ {k} : /\ mem'[j] = mem[j] /\ par'[j] = par[j]
                                 /\ pre'[j] = pre[j] /\ TasksOf(j)' = TasksOf(j)
         /\ mem'[k][1 - half] = mem[k][1 - half]
         /\ Counted(k)'
         /\ pre'[k] # None => pre'[k] = at /\ at < geo[k].y1
         /\ \A t \in TasksOf(k)' :
              pre'[k] # None /\ t.half = half /\ t.at = pre'[k] /\ t.pic = pic[k]
         /\ pre'[k] # None => \A c \in Cols : \/ mem'[k][half][c] = <<pic[k], pre'[k]>>
                                             \/ \E t \in TasksOf(k)' : t.col = c
<1>1. pre \in [Bufs -> Nat \cup {None}]
  BY DEF BufTypes
<1>2. CASE pooled /\ at < geo[k].y1
  <2>1. pre' = [pre EXCEPT ![k] = at] /\ Dispatch(k, at, half)
    BY <1>2 DEF TriggerPrefetch
  <2>2. /\ pre' \in [Bufs -> Nat \cup {None}] /\ pre'[k] = at /\ at # None
        /\ \A j \in Bufs \ {k} : pre'[j] = pre[j]
    BY <1>1, <2>1 DEF None
  <2> QED
    BY <1>2, <2>1, <2>2, DispatchDoes
<1>3. CASE ~ (pooled /\ at < geo[k].y1)
  <2>1. pre' = [pre EXCEPT ![k] = None] /\ UNCHANGED <<par, mem, tasks>>
    BY <1>3 DEF TriggerPrefetch
  <2>2. /\ pre' \in [Bufs -> Nat \cup {None}] /\ pre'[k] = None
        /\ \A j \in Bufs \ {k} : pre'[j] = pre[j]
    BY <1>1, <2>1
  <2>3. \A j \in Bufs : TasksOf(j)' = TasksOf(j)
    BY <2>1 DEF TasksOf
  <2>4. Counted(k)'
    BY <2>1, <2>3 DEF Counted
  <2> QED
    BY <2>1, <2>2, <2>3, <2>4 DEF BufTypes
<1> QED
  BY <1>2, <1>3

\* A buffer of which nothing changes keeps its invariant.
LEMMA Undisturbed ==
  ASSUME NEW k \in Bufs, BufOK(k), geo' = geo, ring'[k] = ring[k], strip'[k] = strip[k],
         pre'[k] = pre[k], par'[k] = par[k], sync'[k] = sync[k], mem'[k] = mem[k],
         pic'[k] = pic[k], TasksOf(k)' = TasksOf(k)
  PROVE  BufOK(k)'
<1>1. Target(k)' = Target(k) /\ Coming(k)' = Coming(k)
  BY DEF Target, Coming
<1>2. Counted(k)' /\ Aimed(k)' /\ Arriving(k)'
  BY <1>1 DEF BufOK, Counted, Aimed, Arriving
<1>3. Here(k)' /\ InOrder(k)'
  BY DEF BufOK, Here, InOrder, StripEnd
<1> QED
  BY <1>2, <1>3 DEF BufOK

-----------------------------------------------------------------------------
(* Every action keeps the invariant. *)

\* Fresh buffers are in order.
LEMMA InitKeeps == BufInit => BufInv
<1> SUFFICES ASSUME BufInit PROVE BufInv
  OBVIOUS
<1>1. BufTypes
  <2>1. mem \in [Bufs -> [{0, 1} -> [Cols -> Cell]]]
    BY DEF BufInit, Cell
  <2>2. tasks \subseteq Task /\ IsFiniteSet(tasks)
    BY FS_EmptySet DEF BufInit
  <2> QED
    BY <2>1, <2>2 DEF BufInit, BufTypes
<1>2. ASSUME NEW k \in Bufs
      PROVE  BufOK(k)
  <2>1. TasksOf(k) = {} /\ strip[k] = None /\ pre[k] = None /\ par[k] = 0 /\ sync[k] = FALSE
    BY DEF BufInit, TasksOf
  <2>2. Counted(k)
    BY <2>1, FS_EmptySet DEF Counted
  <2> QED
    BY <2>1, <2>2 DEF BufOK, Aimed, Arriving, Here, InOrder, Coming
<1> QED
  BY <1>1, <1>2 DEF BufInv

\* The prefetched strip moves into the ring's place; the one after it is
\* prefetched into the half that was the ring.
LEMMA RowHitKeeps ==
  ASSUME BufInv, NEW k \in Bufs, NEW y \in geo[k].y0 .. geo[k].y1 - 1, RowHit(k, y)
  PROVE  BufInv'
<1> USE DEF BufInv
<1>1. BufTypes /\ BufOK(k)
  OBVIOUS
<1>2. /\ ~ sync[k] /\ pre[k] # None /\ pre[k] \in Nat
      /\ ring[k] \in {0, 1} /\ 1 - ring[k] \in {0, 1}
  BY <1>1 DEF RowHit, Holds, BufTypes, None
<1>3. TasksOf(k) = {}
  BY <1>1, DrainedIsEmpty DEF RowHit, BufOK
<1> DEFINE at == StripEnd(k, pre[k])
<1>4. at \in Nat
  BY <1>1, <1>2, StripNames
<1>5. TriggerPrefetch(k, at, ring[k])
  BY DEF RowHit
<1>6. /\ ring' = [ring EXCEPT ![k] = 1 - ring[k]] /\ strip' = [strip EXCEPT ![k] = pre[k]]
      /\ geo' = geo /\ pooled' = pooled /\ sync' = sync /\ pic' = pic
  BY DEF RowHit
<1>7. /\ ring'[k] = 1 - ring[k] /\ strip'[k] = pre[k] /\ sync'[k] = FALSE
      /\ ring' \in [Bufs -> {0, 1}] /\ strip' \in [Bufs -> Nat \cup {None}]
      /\ \A j \in Bufs \ {k} : ring'[j] = ring[j] /\ strip'[j] = strip[j]
  BY <1>1, <1>2, <1>6 DEF BufTypes
<1> HIDE DEF at
<1>8. BufTypes'
  BY <1>1, <1>2, <1>3, <1>4, <1>5, <1>6, <1>7, TriggerDoes DEF BufTypes, BufOK
<1>9. ASSUME NEW j \in Bufs \ {k}
      PROVE  BufOK(j)'
  <2>1. /\ mem'[j] = mem[j] /\ par'[j] = par[j] /\ pre'[j] = pre[j]
        /\ TasksOf(j)' = TasksOf(j)
    BY <1>1, <1>2, <1>3, <1>4, <1>5, TriggerDoes DEF BufOK
  <2> QED
    BY <1>6, <1>7, <2>1, Undisturbed
<1>10. BufOK(k)'
  <2>1. Target(k)' = ring[k] /\ Coming(k)' = pre'[k]
    BY <1>2, <1>7 DEF Target, Coming
  <2>2. Counted(k)' /\ Aimed(k)' /\ Arriving(k)'
    BY <1>1, <1>2, <1>3, <1>4, <1>5, <1>6, <2>1, TriggerDoes DEF Aimed, Arriving, BufOK
  <2>3. \A c \in Cols : mem[k][1 - ring[k]][c] = <<pic[k], pre[k]>>
    BY <1>1, <1>2, <1>3 DEF BufOK, Arriving, Target, Coming
  <2>4. mem'[k][1 - ring[k]] = mem[k][1 - ring[k]]
    BY <1>1, <1>2, <1>3, <1>4, <1>5, TriggerDoes DEF BufOK
  <2>5. Here(k)'
    BY <1>6, <1>7, <2>3, <2>4 DEF Here
  <2>6. InOrder(k)'
    <3>1. pre'[k] # None => pre'[k] = at /\ at < geo[k].y1
      BY <1>1, <1>2, <1>3, <1>4, <1>5, TriggerDoes DEF BufOK
    <3>2. StripEnd(k, strip[k])' = at
      BY <1>6, <1>7 DEF StripEnd, at
    <3> QED
      BY <1>2, <1>6, <1>7, <3>1, <3>2 DEF InOrder
  <2> QED
    BY <2>2, <2>5, <2>6 DEF BufOK
<1> QED
  BY <1>8, <1>9, <1>10

\* The reader enters decode_strip for another strip: its blocks go to the
\* ring, by its own hand or by tasks.
LEMMA RowMissKeeps ==
  ASSUME BufInv, NEW k \in Bufs, NEW y \in geo[k].y0 .. geo[k].y1 - 1, RowMiss(k, y)
  PROVE  BufInv'
<1> USE DEF BufInv
<1>1. BufTypes /\ BufOK(k)
  OBVIOUS
<1> DEFINE at == StripOf(k, y)
<1>2. at \in Nat /\ at # None
  BY <1>1, StripNames DEF None
<1>3. TasksOf(k) = {}
  BY <1>1, DrainedIsEmpty DEF RowMiss, BufOK
<1>4. /\ strip' = [strip EXCEPT ![k] = at] /\ pre' = [pre EXCEPT ![k] = None]
      /\ sync' = [sync EXCEPT ![k] = TRUE]
      /\ geo' = geo /\ pooled' = pooled /\ ring' = ring /\ pic' = pic
      /\ IF pooled THEN Dispatch(k, at, ring[k])
         ELSE mem' = Written(k, ring[k], at, Cols) /\ par' = par /\ tasks' = tasks
  BY DEF RowMiss
<1> HIDE DEF at
<1>5. /\ strip'[k] = at /\ pre'[k] = None /\ sync'[k] = TRUE /\ ring[k] \in {0, 1}
      /\ strip' \in [Bufs -> Nat \cup {None}] /\ pre' \in [Bufs -> Nat \cup {None}]
      /\ sync' \in [Bufs -> BOOLEAN]
      /\ \A j \in Bufs \ {k} : strip'[j] = strip[j] /\ pre'[j] = pre[j] /\ sync'[j] = sync[j]
  BY <1>1, <1>2, <1>4 DEF BufTypes
<1>6. /\ mem' \in [Bufs -> [{0, 1} -> [Cols -> Cell]]]
      /\ par' \in [Bufs -> Int]
      /\ tasks' \subseteq Task /\ IsFiniteSet(tasks')
      /\ \A j \in Bufs \ {k} :
           mem'[j] = mem[j] /\ par'[j] = par[j] /\ TasksOf(j)' = TasksOf(j)
      /\ Counted(k)'
      /\ \A t \in TasksOf(k)' : t.half = ring[k] /\ t.at = at /\ t.pic = pic[k]
      /\ \A c \in Cols : \/ mem'[k][ring[k]][c] = <<pic[k], at>>
                         \/ \E t \in TasksOf(k)' : t.col = c
  <2>1. CASE pooled
    BY <1>1, <1>2, <1>3, <1>4, <1>5, <2>1, DispatchDoes
  <2>2. CASE ~ pooled
    <3>1. mem' = Written(k, ring[k], at, Cols) /\ par' = par /\ tasks' = tasks
      BY <1>4, <2>2
    <3>2. \A j \in Bufs : TasksOf(j)' = TasksOf(j)
      BY <3>1 DEF TasksOf
    <3>3. Counted(k)'
      BY <1>1, <3>1, <3>2 DEF Counted, BufOK
    <3>4. par' \in [Bufs -> Int] /\ tasks' \subseteq Task /\ IsFiniteSet(tasks')
      BY <1>1, <3>1 DEF BufTypes
    <3> QED
      BY <1>1, <1>2, <1>3, <1>5, <3>1, <3>2, <3>3, <3>4, WrittenIs
  <2> QED
    BY <2>1, <2>2
<1>7. BufTypes'
  BY <1>1, <1>4, <1>5, <1>6 DEF BufTypes
<1>8. ASSUME NEW j \in Bufs \ {k}
      PROVE  BufOK(j)'
  BY <1>4, <1>5, <1>6, Undisturbed
<1>9. BufOK(k)'
  <2>1. Target(k)' = ring[k] /\ Coming(k)' = at
    BY <1>4, <1>5 DEF Target, Coming
  <2>2. Aimed(k)' /\ Arriving(k)'
    BY <1>2, <1>4, <1>6, <2>1 DEF Aimed, Arriving
  <2>3. Here(k)' /\ InOrder(k)'
    BY <1>2, <1>5 DEF Here, InOrder
  <2> QED
    BY <1>6, <2>2, <2>3 DEF BufOK
<1> QED
  BY <1>7, <1>8, <1>9

\* decode_strip returns: its strip is there, the next one is prefetched.
LEMMA StripDoneKeeps ==
  ASSUME BufInv, NEW k \in Bufs, StripDone(k)
  PROVE  BufInv'
<1> USE DEF BufInv
<1>1. BufTypes /\ BufOK(k)
  OBVIOUS
<1>2. /\ sync[k] /\ strip[k] # None /\ strip[k] \in Nat
      /\ ring[k] \in {0, 1} /\ 1 - ring[k] \in {0, 1} /\ 1 - (1 - ring[k]) = ring[k]
  BY <1>1 DEF StripDone, BufOK, InOrder, BufTypes, None
<1>3. TasksOf(k) = {}
  BY <1>1, DrainedIsEmpty DEF StripDone, BufOK
<1> DEFINE at == StripEnd(k, strip[k])
<1>4. at \in Nat
  BY <1>1, <1>2, StripNames
<1>5. TriggerPrefetch(k, at, 1 - ring[k])
  BY DEF StripDone
<1>6. /\ sync' = [sync EXCEPT ![k] = FALSE]
      /\ geo' = geo /\ pooled' = pooled /\ ring' = ring /\ strip' = strip /\ pic' = pic
  BY DEF StripDone
<1>7. /\ sync'[k] = FALSE /\ sync' \in [Bufs -> BOOLEAN]
      /\ \A j \in Bufs \ {k} : sync'[j] = sync[j]
  BY <1>1, <1>6 DEF BufTypes
<1> HIDE DEF at
<1>8. BufTypes'
  BY <1>1, <1>2, <1>3, <1>4, <1>5, <1>6, <1>7, TriggerDoes DEF BufTypes, BufOK
<1>9. ASSUME NEW j \in Bufs \ {k}
      PROVE  BufOK(j)'
  <2>1. /\ mem'[j] = mem[j] /\ par'[j] = par[j] /\ pre'[j] = pre[j]
        /\ TasksOf(j)' = TasksOf(j)
    BY <1>1, <1>2, <1>3, <1>4, <1>5, TriggerDoes DEF BufOK
  <2> QED
    BY <1>6, <1>7, <2>1, Undisturbed
<1>10. BufOK(k)'
  <2>1. Target(k)' = 1 - ring[k] /\ Coming(k)' = pre'[k]
    BY <1>6, <1>7 DEF Target, Coming
  <2>2. Counted(k)' /\ Aimed(k)' /\ Arriving(k)'
    BY <1>1, <1>2, <1>3, <1>4, <1>5, <1>6, <2>1, TriggerDoes DEF Aimed, Arriving, BufOK
  <2>3. \A c \in Cols : mem[k][ring[k]][c] = <<pic[k], strip[k]>>
    BY <1>1, <1>2, <1>3 DEF BufOK, Arriving, Target, Coming
  <2>4. mem'[k][ring[k]] = mem[k][ring[k]]
    BY <1>1, <1>2, <1>3, <1>4, <1>5, TriggerDoes DEF BufOK
  <2>5. Here(k)'
    BY <1>6, <1>7, <2>3, <2>4 DEF Here
  <2>6. InOrder(k)'
    <3>1. pre'[k] # None => pre'[k] = at /\ at < geo[k].y1
      BY <1>1, <1>2, <1>3, <1>4, <1>5, TriggerDoes DEF BufOK
    <3>2. StripEnd(k, strip[k])' = at
      BY <1>6 DEF StripEnd, at
    <3> QED
      BY <1>2, <1>6, <1>7, <3>1, <3>2 DEF InOrder
  <2> QED
    BY <2>2, <2>5, <2>6 DEF BufOK
<1> QED
  BY <1>8, <1>9, <1>10

\* A block's samples land in the half they are aimed at.
LEMMA FinishBlockKeeps ==
  ASSUME BufInv, NEW t \in tasks, FinishBlock(t)
  PROVE  BufInv'
<1> USE DEF BufInv
<1> DEFINE k == t.buf
           cell == <<t.pic, t.at>>
<1>1. /\ BufTypes /\ t \in Task
      /\ k \in Bufs /\ t.col \in Cols /\ t.half \in {0, 1} /\ cell \in Cell
  BY DEF BufTypes, Task, Cell
<1>2. /\ mem'   = [mem EXCEPT ![k][t.half][t.col] = cell]
      /\ par'   = [par EXCEPT ![k] = par[k] - 1]
      /\ tasks' = tasks \ {t}
      /\ geo' = geo /\ pooled' = pooled /\ ring' = ring /\ strip' = strip
      /\ pre' = pre /\ sync' = sync /\ pic' = pic
  BY DEF FinishBlock
<1>3. t \in TasksOf(k)
  BY DEF TasksOf
<1> HIDE DEF k, cell
<1>4. BufOK(k)
  BY <1>1
<1>5. TasksOf(k)' = TasksOf(k) \ {t} /\ \A j \in Bufs \ {k} : TasksOf(j)' = TasksOf(j)
  BY <1>1, <1>2 DEF TasksOf, k
<1>6. /\ mem' \in [Bufs -> [{0, 1} -> [Cols -> Cell]]]
      /\ \A j \in Bufs \ {k} : mem'[j] = mem[j]
      /\ mem'[k][t.half][t.col] = cell
      /\ \A half \in {0, 1}, c \in Cols :
           half # t.half \/ c # t.col => mem'[k][half][c] = mem[k][half][c]
  <2> DEFINE half1 == [mem[k][t.half] EXCEPT ![t.col] = cell]
             both == [mem[k] EXCEPT ![t.half] = half1]
  <2>1. /\ mem \in [Bufs -> [{0, 1} -> [Cols -> Cell]]]
        /\ mem[k] \in [{0, 1} -> [Cols -> Cell]] /\ mem[k][t.half] \in [Cols -> Cell]
    BY <1>1 DEF BufTypes
  <2>2. mem' = [mem EXCEPT ![k] = both]
    BY <1>2
  <2>3. /\ half1 \in [Cols -> Cell] /\ half1[t.col] = cell
        /\ \A c \in Cols : c # t.col => half1[c] = mem[k][t.half][c]
    BY <1>1, <2>1
  <2> HIDE DEF half1
  <2>4. /\ both \in [{0, 1} -> [Cols -> Cell]] /\ both[t.half] = half1
        /\ \A half \in {0, 1} : half # t.half => both[half] = mem[k][half]
    BY <1>1, <2>1, <2>3
  <2> HIDE DEF both
  <2>5. /\ mem' \in [Bufs -> [{0, 1} -> [Cols -> Cell]]] /\ mem'[k] = both
        /\ \A j \in Bufs \ {k} : mem'[j] = mem[j]
    BY <1>1, <2>1, <2>2, <2>4
  <2> QED
    BY <1>1, <2>3, <2>4, <2>5
<1>7. /\ par' \in [Bufs -> Int] /\ par'[k] = par[k] - 1
      /\ \A j \in Bufs \ {k} : par'[j] = par[j]
  BY <1>1, <1>2 DEF BufTypes
<1>8. BufTypes'
  <2>1. tasks' \subseteq Task /\ IsFiniteSet(tasks')
    BY <1>1, <1>2, FS_Subset DEF BufTypes
  <2> QED
    BY <1>1, <1>2, <1>6, <1>7, <2>1 DEF BufTypes
<1>9. ASSUME NEW j \in Bufs \ {k}
      PROVE  BufOK(j)'
  BY <1>2, <1>5, <1>6, <1>7, Undisturbed
<1>10. BufOK(k)'
  <2>1. /\ Target(k)' = Target(k) /\ Coming(k)' = Coming(k)
        /\ ring[k] \in {0, 1} /\ Target(k) \in {0, 1}
    BY <1>1, <1>2 DEF Target, Coming, BufTypes
  <2>2. /\ Coming(k) # None /\ t.half = Target(k) /\ cell = <<pic[k], Coming(k)>>
    BY <1>3, <1>4 DEF BufOK, Aimed, cell
  <2>3. Counted(k)'
    <3>1. IsFiniteSet(TasksOf(k))
      BY <1>1, FS_Subset DEF BufTypes, TasksOf
    <3>2. Cardinality(TasksOf(k) \ {t}) = Cardinality(TasksOf(k)) - 1
      BY <1>3, <3>1, FS_RemoveElement
    <3> QED
      BY <1>4, <1>5, <1>7, <3>2 DEF Counted, BufOK
  <2>4. Aimed(k)'
    BY <1>2, <1>4, <1>5, <2>1 DEF Aimed, BufOK
  <2>5. Arriving(k)'
    <3> SUFFICES ASSUME NEW c \in Cols
                 PROVE  \/ mem'[k][Target(k)][c] = <<pic[k], Coming(k)>>
                        \/ \E u \in TasksOf(k)' : u.col = c
      BY <1>2, <2>1 DEF Arriving
    <3>1. CASE c = t.col
      BY <1>6, <2>2, <3>1
    <3>2. CASE c # t.col
      <4>1. \/ mem[k][Target(k)][c] = <<pic[k], Coming(k)>>
            \/ \E u \in TasksOf(k) : u.col = c
        BY <1>4, <2>2 DEF BufOK, Arriving
      <4>2. mem'[k][Target(k)][c] = mem[k][Target(k)][c]
        BY <1>6, <2>1, <3>2
      <4> QED
        BY <1>5, <3>2, <4>1, <4>2
    <3> QED
      BY <3>1, <3>2
  <2>6. Here(k)'
    <3> SUFFICES ASSUME strip[k] # None, ~ sync[k], NEW c \in Cols
                 PROVE  mem'[k][ring[k]][c] = <<pic[k], strip[k]>>
      BY <1>2 DEF Here
    <3>1. t.half = 1 - ring[k] /\ t.half # ring[k]
      BY <2>1, <2>2 DEF Target
    <3>2. mem[k][ring[k]][c] = <<pic[k], strip[k]>>
      BY <1>4 DEF BufOK, Here
    <3> QED
      BY <1>6, <2>1, <3>1, <3>2
  <2>7. InOrder(k)'
    BY <1>2, <1>4 DEF BufOK, InOrder, StripEnd
  <2> QED
    BY <2>3, <2>4, <2>5, <2>6, <2>7 DEF BufOK
<1> QED
  BY <1>8, <1>9, <1>10

\* A buffer read to its end has nothing outstanding.
LEMMA ConsumedIsQuiet ==
  ASSUME BufInv, NEW k \in Bufs, Consumed(k)
  PROVE  TasksOf(k) = {} /\ ~ sync[k]
<1>1. BufTypes /\ BufOK(k) /\ geo[k].y1 \in Nat /\ ~ sync[k]
  BY DEF BufInv, BufTypes, Consumed
<1>2. pre[k] = None
  BY <1>1 DEF Consumed, BufOK, InOrder
<1> QED
  BY <1>1, <1>2 DEF BufOK, Aimed, Coming

\* Resetting the cursors of buffers that were read to their end.
LEMMA RewindKeeps ==
  ASSUME BufInv, NEW ks \in SUBSET {k \in Bufs : Consumed(k)}, Rewind(ks)
  PROVE  BufInv'
<1>1. BufTypes
  BY DEF BufInv
<1>2. /\ ring'  = [k \in Bufs |-> IF k \in ks THEN 0 ELSE ring[k]]
      /\ strip' = [k \in Bufs |-> IF k \in ks THEN None ELSE strip[k]]
      /\ pre'   = [k \in Bufs |-> IF k \in ks THEN None ELSE pre[k]]
      /\ par'   = [k \in Bufs |-> IF k \in ks THEN 0 ELSE par[k]]
      /\ pic'   = [k \in Bufs |-> IF k \in ks THEN pic[k] + 1 ELSE pic[k]]
      /\ geo' = geo /\ pooled' = pooled /\ sync' = sync /\ mem' = mem /\ tasks' = tasks
  BY DEF Rewind
<1>3. BufTypes'
  <2>1. /\ ring' \in [Bufs -> {0, 1}] /\ par' \in [Bufs -> Int] /\ pic' \in [Bufs -> Nat]
        /\ strip' \in [Bufs -> Nat \cup {None}] /\ pre' \in [Bufs -> Nat \cup {None}]
    BY <1>1, <1>2 DEF BufTypes
  <2> QED
    BY <1>1, <1>2, <2>1 DEF BufTypes
<1>4. \A k \in Bufs : TasksOf(k)' = TasksOf(k)
  BY <1>2 DEF TasksOf
<1>5. ASSUME NEW k \in Bufs, k \in ks
      PROVE  BufOK(k)'
  <2>1. TasksOf(k) = {} /\ ~ sync[k]
    BY <1>5, ConsumedIsQuiet
  <2>2. TasksOf(k)' = {} /\ strip'[k] = None /\ pre'[k] = None /\ par'[k] = 0 /\ ~ sync'[k]
    BY <1>2, <1>4, <1>5, <2>1
  <2>3. Counted(k)'
    BY <2>2, FS_EmptySet DEF Counted
  <2> QED
    BY <2>2, <2>3 DEF BufOK, Aimed, Arriving, Here, InOrder, Coming
<1>6. ASSUME NEW k \in Bufs, k \notin ks
      PROVE  BufOK(k)'
  BY <1>2, <1>4, <1>6, Undisturbed DEF BufInv
<1> QED
  BY <1>3, <1>5, <1>6 DEF BufInv

-----------------------------------------------------------------------------
(* The invariant, and what it is for. *)

\* Every step of a client keeps the buffers in order.
LEMMA BuffersStep == BufInv /\ [BufNext]_bufVars => BufInv'
<1> SUFFICES ASSUME BufInv, [BufNext]_bufVars PROVE BufInv'
  OBVIOUS
<1>1. CASE UNCHANGED bufVars
  <2>1. BufTypes'
    BY <1>1 DEF bufVars, BufInv, BufTypes
  <2>2. ASSUME NEW k \in Bufs PROVE BufOK(k)'
    <3>1. TasksOf(k)' = TasksOf(k)
      BY <1>1 DEF bufVars, TasksOf
    <3> QED
      BY <1>1, <3>1, Undisturbed DEF bufVars, BufInv
  <2> QED
    BY <2>1, <2>2 DEF BufInv
<1>2. ASSUME NEW k \in Bufs, NEW y \in geo[k].y0 .. geo[k].y1 - 1,
             RowHit(k, y) \/ RowMiss(k, y)
      PROVE  BufInv'
  BY <1>2, RowHitKeeps, RowMissKeeps
<1>3. ASSUME NEW k \in Bufs, StripDone(k) PROVE BufInv'
  BY <1>3, StripDoneKeeps
<1>4. ASSUME NEW t \in tasks, FinishBlock(t) PROVE BufInv'
  BY <1>4, FinishBlockKeeps
<1>5. ASSUME NEW ks \in SUBSET {k \in Bufs : Consumed(k)}, Rewind(ks) PROVE BufInv'
  BY <1>5, RewindKeeps
<1> QED
  BY <1>1, <1>2, <1>3, <1>4, <1>5 DEF BufNext

\* Whatever rows are read in whatever order, par_cnt counts the outstanding
\* blocks of its buffer, and they write where nobody reads.
THEOREM BuffersInvariant == BufSpec => []BufInv
  BY InitKeeps, BuffersStep, PTL DEF BufSpec

\* row_ptr never hands out a row that a pool task still writes, or one of
\* another strip or picture: the halves swap only when nothing is outstanding.
THEOREM RowsSettled == BufSpec => []ReadsSettled
<1>1. BufInv => ReadsSettled
  <2> SUFFICES ASSUME BufInv, NEW k \in Bufs, strip[k] # None, ~ sync[k]
               PROVE  /\ \A t \in TasksOf(k) : t.half # ring[k]
                      /\ \A c \in Cols : mem[k][ring[k]][c] = <<pic[k], strip[k]>>
    BY DEF ReadsSettled
  <2>1. BufOK(k) /\ ring[k] \in {0, 1}
    BY DEF BufInv, BufTypes
  <2>2. \A t \in TasksOf(k) : t.half = 1 - ring[k]
    BY <2>1 DEF BufOK, Aimed, Target
  <2> QED
    BY <2>1, <2>2 DEF BufOK, Here
<1> QED
  BY BuffersInvariant, <1>1, PTL

-----------------------------------------------------------------------------
(* The ring of a level. *)

Rings(V) ==
  [dir : {"BIDIR", "HORZ", "NO"}, v0 : Nat, v1 : Nat, xf : Nat, first : {0}, depth : {8},
   topN : Nat, botN : Nat, origin : Nat, nextIn : Nat, nextOut : Nat,
   cells : [0 .. 15 -> [lvl : Int, val : V]]]

RingType(s) == s.v0 <= s.v1 /\ \E V : s \in Rings(V)

\* What init sets and nothing changes.
SameLevel(s, t) ==
  /\ t.dir = s.dir /\ t.v0 = s.v0 /\ t.v1 = s.v1 /\ t.xf = s.xf
  /\ t.first = s.first /\ t.depth = s.depth /\ t.topN = s.topN /\ t.botN = s.botN

SameCursors(s, t) == t.origin = s.origin /\ t.nextIn = s.nextIn /\ t.nextOut = s.nextOut

\* Nothing that has not entered has a level.
NothingAhead(s) == \A r \in s.nextIn .. s.v1 - 1 : Level(s, r) < 0

RingOK(s) ==
  /\ RingType(s) /\ NothingAhead(s)
  /\ s.v0 <= s.origin /\ s.origin <= s.nextOut /\ s.nextOut <= s.v1
  /\ s.v0 <= s.nextIn /\ s.nextIn <= s.v1
  /\ PassThrough(s) \/ s.nextOut <= s.nextIn

\* Ring slots are below 8 and those of the extension rows above.
LEMMA RingSlots ==
  ASSUME NEW s, RingType(s), NEW r \in Int
  PROVE  /\ IsReal(s, r) => SlotOf(s, r) = r % 8 /\ SlotOf(s, r) \in 0 .. 7
         /\ ~ IsReal(s, r) => SlotOf(s, r) \in Nat /\ SlotOf(s, r) >= 8
<1> PICK V : s \in Rings(V)
  BY DEF RingType
<1>1. s.v0 \in Nat /\ s.v1 \in Nat /\ s.v0 <= s.v1 /\ s.depth = 8
  BY DEF Rings, RingType
<1>2. IsReal(s, r) \in BOOLEAN
  BY DEF IsReal
<1> QED
  BY <1>1, <1>2 DEF SlotOf, IsReal

\* Rows less than a ring apart do not share a slot.
LEMMA SlotsApart ==
  \A p, q \in Int : p % 8 = q % 8 /\ p - q < 8 /\ q - p < 8 => p = q
OBVIOUS

\* What is put into slots.
CellsFor(s, cell) == \A r \in DOMAIN cell : r \in Int /\ cell[r].lvl \in Int
                                            /\ cell[r] = [lvl |-> cell[r].lvl, val |-> cell[r].val]

\* Putting cells leaves the other slots and the cursors alone.
LEMMA PutKeeps ==
  ASSUME NEW s, NEW cell, RingType(s), CellsFor(s, cell)
  PROVE  /\ RingType(Put(s, cell)) /\ SameLevel(s, Put(s, cell)) /\ SameCursors(s, Put(s, cell))
         /\ \A k \in 0 .. 15 : (\A r \in DOMAIN cell : SlotOf(s, r) # k)
                                => Put(s, cell).cells[k] = s.cells[k]
<1> PICK V : s \in Rings(V)
  BY DEF RingType
<1> DEFINE W == V \cup {cell[r].val : r \in DOMAIN cell}
           new == [k \in 0 .. 15 |->
                     IF \E r \in DOMAIN cell : SlotOf(s, r) = k
                     THEN cell[CHOOSE r \in DOMAIN cell : SlotOf(s, r) = k] ELSE s.cells[k]]
<1>1. s.cells \in [0 .. 15 -> [lvl : Int, val : V]]
  BY DEF Rings
<1>2. Put(s, cell) = [s EXCEPT !.cells = new]
  <2>1. DOMAIN s.cells = 0 .. 15
    BY <1>1
  <2> QED
    BY <2>1 DEF Put
<1>3. ASSUME NEW k \in 0 .. 15 PROVE new[k] \in [lvl : Int, val : W]
  <2>1. CASE \E r \in DOMAIN cell : SlotOf(s, r) = k
    <3> DEFINE q == CHOOSE r \in DOMAIN cell : SlotOf(s, r) = k
    <3>1. q \in DOMAIN cell
      BY <2>1
    <3>2. new[k] = cell[q]
      BY <2>1
    <3> HIDE DEF q, new
    <3>3. cell[q] \in [lvl : Int, val : W]
      BY <3>1 DEF CellsFor
    <3> QED
      BY <3>2, <3>3
  <2>2. CASE ~ \E r \in DOMAIN cell : SlotOf(s, r) = k
    <3>1. new[k] = s.cells[k]
      BY <2>2
    <3> QED
      BY <3>1, <1>1
  <2> QED
    BY <2>1, <2>2
<1>4. new \in [0 .. 15 -> [lvl : Int, val : W]]
  <2>1. new = [k \in 0 .. 15 |-> new[k]]
    OBVIOUS
  <2> HIDE DEF new
  <2> QED
    BY <1>3, <2>1
<1>5. \A k \in 0 .. 15 : (\A r \in DOMAIN cell : SlotOf(s, r) # k) => new[k] = s.cells[k]
  OBVIOUS
<1> HIDE DEF new, W
<1>6. Put(s, cell) \in Rings(W) /\ Put(s, cell).cells = new
  BY <1>2, <1>4 DEF Rings
<1>7. SameLevel(s, Put(s, cell)) /\ SameCursors(s, Put(s, cell))
  BY <1>2 DEF Rings, SameLevel, SameCursors
<1> QED
  BY <1>5, <1>6, <1>7 DEF RingType, SameLevel

\* Level of a real row, spelled out.
LEMMA LevelReal ==
  ASSUME NEW s, RingType(s), NEW r \in Int, s.v0 <= r, r < s.v1
  PROVE  /\ Level(s, r) = IF r < s.origin \/ r >= s.origin + 8 THEN -1
                          ELSE s.cells[r % 8].lvl
         /\ Level(s, r) \in Int /\ IsReal(s, r) /\ r % 8 \in 0 .. 7
<1> PICK V : s \in Rings(V)
  BY DEF RingType
<1>1. s.v0 \in Nat /\ s.v1 \in Nat /\ s.depth = 8 /\ s.origin \in Nat
      /\ s.cells \in [0 .. 15 -> [lvl : Int, val : V]]
  BY DEF Rings
<1>2. IsReal(s, r)
  BY DEF IsReal
<1>3. SlotOf(s, r) = r % 8 /\ r % 8 \in 0 .. 7
  BY <1>2, RingSlots
<1>4. s.cells[r % 8].lvl \in Int
  BY <1>1, <1>3
<1> QED
  BY <1>1, <1>2, <1>3, <1>4 DEF Level

\* Lifting a row that has entered, or filling an extension row, leaves the
\* rows that have not entered alone.
Entered(s, cell) == \A r \in DOMAIN cell : ~ IsReal(s, r) \/ Level(s, r) >= 0

\* Putting cells of rows that have entered keeps the ring's invariant.
LEMMA PutOK ==
  ASSUME NEW s, NEW cell, RingOK(s), CellsFor(s, cell), Entered(s, cell)
  PROVE  RingOK(Put(s, cell)) /\ SameLevel(s, Put(s, cell)) /\ SameCursors(s, Put(s, cell))
<1> DEFINE t == Put(s, cell)
<1>1. RingType(s) /\ NothingAhead(s)
  BY DEF RingOK
<1>2. /\ RingType(t) /\ SameLevel(s, t) /\ SameCursors(s, t)
      /\ \A k \in 0 .. 15 : (\A r \in DOMAIN cell : SlotOf(s, r) # k) => t.cells[k] = s.cells[k]
  BY <1>1, PutKeeps
<1> HIDE DEF t
<1> PICK V : s \in Rings(V)
  BY <1>1 DEF RingType
<1>3. /\ s.v0 \in Nat /\ s.v1 \in Nat /\ s.origin \in Nat /\ s.nextIn \in Nat
      /\ s.v0 <= s.nextIn
  BY DEF Rings, RingOK
<1>4. ASSUME NEW r \in s.nextIn .. s.v1 - 1 PROVE Level(t, r) < 0
  <2>1. r \in Int /\ s.v0 <= r /\ r < s.v1 /\ IsReal(s, r) /\ r % 8 \in 0 .. 7
    BY <1>3, <1>1, LevelReal
  <2>2. Level(s, r) < 0 /\ Level(s, r) = IF r < s.origin \/ r >= s.origin + 8 THEN -1
                                         ELSE s.cells[r % 8].lvl
    BY <1>1, <2>1, LevelReal DEF NothingAhead
  <2>3. Level(t, r) = IF r < s.origin \/ r >= s.origin + 8 THEN -1 ELSE t.cells[r % 8].lvl
    BY <1>2, <2>1, LevelReal DEF SameLevel, SameCursors
  <2>4. CASE r < s.origin \/ r >= s.origin + 8
    BY <2>3, <2>4
  <2>5. CASE s.origin <= r /\ r < s.origin + 8
    <3>1. ASSUME NEW q \in DOMAIN cell PROVE SlotOf(s, q) # r % 8
      <4>1. q \in Int
        BY DEF CellsFor
      <4>2. CASE ~ IsReal(s, q)
        BY <1>1, <2>1, <4>1, <4>2, RingSlots
      <4>3. CASE IsReal(s, q)
        <5>1. Level(s, q) >= 0 /\ s.v0 <= q /\ q < s.v1
          BY <4>3 DEF Entered, IsReal
        <5>2. s.origin <= q /\ q < s.origin + 8
          BY <1>1, <1>3, <4>1, <5>1, LevelReal
        <5>3. ~ (s.nextIn <= q)
          <6>1. Level(s, q) \in Int
            BY <1>1, <4>1, <5>1, LevelReal
          <6>2. ~ (q \in s.nextIn .. s.v1 - 1)
            BY <1>1, <5>1, <6>1 DEF NothingAhead
          <6> QED
            BY <1>3, <4>1, <5>1, <6>2
        <5>4. SlotOf(s, q) = q % 8
          BY <1>1, <4>1, <4>3, RingSlots
        <5> QED
          BY <1>3, <2>1, <2>5, <4>1, <5>2, <5>3, <5>4, SlotsApart
      <4> QED
        BY <4>2, <4>3
    <3>2. t.cells[r % 8] = s.cells[r % 8]
      BY <1>2, <2>1, <3>1
    <3> QED
      BY <1>3, <2>1, <2>2, <2>3, <2>5, <3>2
  <2> QED
    BY <1>3, <2>1, <2>4, <2>5
<1>5. NothingAhead(t)
  BY <1>2, <1>4 DEF NothingAhead, SameLevel, SameCursors
<1>6. PassThrough(t) <=> PassThrough(s)
  BY <1>2 DEF PassThrough, SameLevel
<1>7. RingOK(t)
  BY <1>2, <1>5, <1>6 DEF RingOK, SameLevel, SameCursors
<1> QED
  BY <1>2, <1>7 DEF t

\* Both are the same but for the slots.
SameButCells(s, t) == SameLevel(s, t) /\ SameCursors(s, t)

\* One phase of the cascade keeps it.
LEMMA PhaseOK ==
  ASSUME NEW s, RingOK(s), NEW parity \in {0, 1}, NEW cur \in Nat, NEW need \in Nat
  PROVE  RingOK(Phase(s, parity, cur, need)) /\ SameButCells(s, Phase(s, parity, cur, need))
<1> DEFINE rows == {q \in Lo(s) .. Hi(s) - 1 : q % 2 = parity /\ Able(s, q, cur, need)}
           cell == [r \in rows |-> Lifted(s, r, cur)]
<1>1. Phase(s, parity, cur, need) = Put(s, cell)
  BY DEF Phase
<1>2. DOMAIN cell = rows
  OBVIOUS
<1>3. ASSUME NEW r \in rows
      PROVE  /\ r \in Int /\ Level(s, r) >= 0
             /\ cell[r].lvl \in Int /\ cell[r] = [lvl |-> cell[r].lvl, val |-> cell[r].val]
  <2>1. r \in Int /\ Able(s, r, cur, need)
    OBVIOUS
  <2>2. Level(s, r) >= 0
    BY <2>1 DEF Able
  <2>3. cell[r] = Lifted(s, r, cur)
    OBVIOUS
  <2> HIDE DEF cell, rows
  <2>4. \E v : Lifted(s, r, cur) = [lvl |-> cur + 1, val |-> v]
    BY DEF Lifted
  <2> QED
    BY <2>1, <2>2, <2>3, <2>4
<1> HIDE DEF cell, rows
<1>4. CellsFor(s, cell) /\ Entered(s, cell)
  BY <1>2, <1>3 DEF CellsFor, Entered
<1> QED
  BY <1>1, <1>4, PutOK DEF SameButCells

\* Steps that only touch slots compose.
LEMMA SameTrans ==
  \A s, t, u : SameButCells(s, t) /\ SameButCells(t, u) => SameButCells(s, u)
BY DEF SameButCells, SameLevel, SameCursors

\* The cascade keeps it.
LEMMA CascadeOK ==
  ASSUME NEW s, RingOK(s)
  PROVE  RingOK(IdwtCascade(s)) /\ SameButCells(s, IdwtCascade(s))
<1> DEFINE a == Phase(s, 0, 0, 0)
           b == Phase(a, 1, 0, 1)
           c == Phase(b, 0, 1, 1)
           d == Phase(c, 1, 1, 2)
<1>1. RingOK(a) /\ SameButCells(s, a)
  BY PhaseOK
<1>2. RingOK(b) /\ SameButCells(a, b)
  BY <1>1, PhaseOK
<1>3. RingOK(c) /\ SameButCells(b, c)
  BY <1>2, PhaseOK
<1>4. RingOK(d) /\ SameButCells(c, d)
  BY <1>3, PhaseOK
<1>5. IdwtCascade(s) = b \/ IdwtCascade(s) = d
  BY DEF IdwtCascade
<1> HIDE DEF a, b, c, d
<1> QED
  BY <1>1, <1>2, <1>3, <1>4, <1>5, SameTrans

\* Filling the extension rows keeps it.
LEMMA FillPseOK ==
  ASSUME NEW s, RingOK(s), NEW rows
  PROVE  RingOK(FillPse(s, rows)) /\ SameButCells(s, FillPse(s, rows))
<1> DEFINE due == {q \in PseRows(s) : Level(s, q) < 0 /\ PseSource(s, q) \in rows}
           cell == [p \in due |-> [lvl |-> 0, val |-> s.cells[SlotOf(s, PseSource(s, p))].val]]
<1>1. FillPse(s, rows) = Put(s, cell) /\ DOMAIN cell = due
  BY DEF FillPse
<1>2. PICK V : s \in Rings(V)
  BY DEF RingOK, RingType
<1>3. ASSUME NEW p \in due
      PROVE  /\ p \in Int /\ ~ IsReal(s, p)
             /\ cell[p].lvl \in Int /\ cell[p] = [lvl |-> cell[p].lvl, val |-> cell[p].val]
  <2>1. p \in PseRows(s)
    OBVIOUS
  <2>2. s.v0 \in Nat /\ s.v1 \in Nat /\ s.topN \in Nat /\ s.botN \in Nat /\ s.v0 <= s.v1
    BY <1>2 DEF Rings, RingOK, RingType
  <2>3. p \in Int /\ ~ IsReal(s, p)
    BY <2>1, <2>2 DEF PseRows, IsReal
  <2> QED
    BY <2>3
<1> HIDE DEF cell, due
<1>4. CellsFor(s, cell) /\ Entered(s, cell)
  BY <1>1, <1>3 DEF CellsFor, Entered
<1> QED
  BY <1>1, <1>4, PutOK DEF SameButCells

\* A ring whose origin and next input move on.
LEMMA EvictOK ==
  ASSUME NEW s, RingOK(s), NEW o \in Int,
         s.origin < o, o <= s.nextOut, o <= s.nextIn - 7
  PROVE  /\ RingOK(EvictTo(s, o)) /\ SameLevel(s, EvictTo(s, o))
         /\ EvictTo(s, o).nextIn = s.nextIn /\ EvictTo(s, o).nextOut = s.nextOut
<1> DEFINE new == [k \in 0 .. 15 |-> IF \E r \in s.origin .. o - 1 : k = r % 8
                                     THEN [s.cells[k] EXCEPT !.lvl = -1] ELSE s.cells[k]]
           t == EvictTo(s, o)
<1> PICK V : s \in Rings(V)
  BY DEF RingOK, RingType
<1>1. /\ s.v0 \in Nat /\ s.v1 \in Nat /\ s.origin \in Nat /\ s.nextIn \in Nat /\ s.nextOut \in Nat
      /\ s.depth = 8 /\ s.cells \in [0 .. 15 -> [lvl : Int, val : V]]
      /\ s.v0 <= s.origin /\ s.v0 <= s.nextIn /\ s.v0 <= s.v1
  BY DEF Rings, RingOK, RingType
<1>2. t = [s EXCEPT !.origin = o, !.cells = new]
  <2>1. DOMAIN s.cells = 0 .. 15
    BY <1>1
  <2> QED
    BY <1>1, <2>1 DEF EvictTo
<1>3. ASSUME NEW k \in 0 .. 15 PROVE new[k] \in [lvl : Int, val : V]
  <2>1. s.cells[k] \in [lvl : Int, val : V]
    BY <1>1
  <2>2. [s.cells[k] EXCEPT !.lvl = -1] \in [lvl : Int, val : V]
    BY <2>1
  <2> QED
    BY <2>1, <2>2
<1>4. new \in [0 .. 15 -> [lvl : Int, val : V]]
  <2>1. new = [k \in 0 .. 15 |-> new[k]]
    OBVIOUS
  <2> HIDE DEF new
  <2> QED
    BY <1>3, <2>1
<1>5. new[(o - 1) % 8].lvl = -1
  <2>1. (o - 1) % 8 \in 0 .. 15 /\ o - 1 \in s.origin .. o - 1
    BY <1>1
  <2>2. s.cells[(o - 1) % 8] \in [lvl : Int, val : V]
    BY <1>1, <2>1
  <2> QED
    BY <2>1, <2>2
<1> HIDE DEF new, t
<1>6. t \in Rings(V) /\ t.cells = new /\ t.origin = o
      /\ SameLevel(s, t) /\ t.nextIn = s.nextIn /\ t.nextOut = s.nextOut
  <2>1. o \in Nat
    BY <1>1
  <2> QED
    BY <1>2, <1>4, <2>1 DEF Rings, SameLevel
<1>7. RingType(t)
  BY <1>6, <1>1 DEF RingType, SameLevel
<1>8. ASSUME NEW r \in s.nextIn .. s.v1 - 1 PROVE Level(t, r) < 0
  <2>1. Level(t, r) = IF r < o \/ r >= o + 8 THEN -1 ELSE new[r % 8].lvl
    BY <1>1, <1>6, <1>7, LevelReal DEF SameLevel
  <2>2. CASE r < o \/ r >= o + 8
    BY <2>1, <2>2
  <2>3. CASE ~ (r < o \/ r >= o + 8)
    <3>1. r = o + 7
      BY <1>1, <2>3
    <3>2. r % 8 = (o - 1) % 8
      BY <3>1
    <3> QED
      BY <1>5, <2>1, <2>3, <3>2
  <2> QED
    BY <2>2, <2>3
<1>9. NothingAhead(t)
  BY <1>6, <1>8 DEF NothingAhead, SameLevel
<1>10. PassThrough(t) <=> PassThrough(s)
  BY <1>6 DEF PassThrough, SameLevel
<1>11. RingOK(t)
  BY <1>1, <1>6, <1>7, <1>9, <1>10 DEF RingOK, SameLevel
<1> QED
  BY <1>6, <1>11 DEF t

\* Evicting the rows that were handed out keeps it.
LEMMA MakeRoomOK ==
  ASSUME NEW s, RingOK(s)
  PROVE  /\ RingOK(MakeRoom(s)) /\ SameLevel(s, MakeRoom(s))
         /\ MakeRoom(s).nextIn = s.nextIn /\ MakeRoom(s).nextOut = s.nextOut
<1> DEFINE wish == s.nextIn - s.depth + 1
           o == IF wish > s.nextOut THEN s.nextOut ELSE wish
<1> PICK V : s \in Rings(V)
  BY DEF RingOK, RingType
<1>1. /\ s.origin \in Nat /\ s.nextIn \in Nat /\ s.nextOut \in Nat /\ s.depth = 8
  BY DEF Rings
<1>2. o \in Int /\ o <= s.nextOut /\ o <= s.nextIn - 7
  BY <1>1
<1>3. MakeRoom(s) = IF o > s.origin THEN EvictTo(s, o) ELSE s
  BY DEF MakeRoom
<1> HIDE DEF o, wish
<1>4. CASE o > s.origin
  BY <1>1, <1>2, <1>3, <1>4, EvictOK
<1>5. CASE ~ (o > s.origin)
  BY <1>3, <1>5 DEF SameLevel
<1> QED
  BY <1>4, <1>5

\* The row nextIn arrives.
LEMMA StoreOK ==
  ASSUME NEW s, RingOK(s), ~ PassThrough(s), s.nextIn < s.v1, NEW val, NEW t,
         t = [Store(s, s.nextIn, val) EXCEPT !.nextIn = s.nextIn + 1]
  PROVE  /\ RingOK(t) /\ SameLevel(s, t)
         /\ t.nextIn = s.nextIn + 1 /\ t.nextOut = s.nextOut
<1> DEFINE n == s.nextIn
           W(V) == V \cup {val}
<1> PICK V : s \in Rings(V)
  BY DEF RingOK, RingType
<1>1. /\ s.v0 \in Nat /\ s.v1 \in Nat /\ s.origin \in Nat /\ n \in Nat /\ s.nextOut \in Nat
      /\ s.depth = 8 /\ s.cells \in [0 .. 15 -> [lvl : Int, val : V]]
      /\ s.v0 <= n /\ s.v0 <= s.v1 /\ n < s.v1 /\ s.origin <= s.nextOut /\ s.nextOut <= n
  BY DEF Rings, RingOK, RingType
<1>2. RingType(s)
  BY DEF RingOK
<1>3. SlotOf(s, n) = n % 8 /\ n % 8 \in 0 .. 15 /\ n % 8 \in 0 .. 7
  BY <1>1, <1>2, RingSlots DEF IsReal
<1> DEFINE new == [s.cells EXCEPT ![n % 8] = [lvl |-> 0, val |-> val]]
<1>4. t = [[s EXCEPT !.cells = new] EXCEPT !.nextIn = n + 1]
  <2>1. Store(s, n, val) = [s EXCEPT !.cells = new]
    BY <1>3 DEF Store
  <2> QED
    BY <2>1
<1>5. s.cells \in [0 .. 15 -> [lvl : Int, val : W(V)]]
  BY <1>1
<1>6. /\ new \in [0 .. 15 -> [lvl : Int, val : W(V)]]
      /\ \A k \in 0 .. 15 : k # n % 8 => new[k] = s.cells[k]
  <2>1. [lvl |-> 0, val |-> val] \in [lvl : Int, val : W(V)]
    OBVIOUS
  <2> HIDE DEF W
  <2> QED
    BY <1>3, <1>5, <2>1
<1> HIDE DEF new, n, W
<1>7. t \in Rings(W(V)) /\ t.cells = new /\ t.nextIn = n + 1
      /\ SameLevel(s, t) /\ t.origin = s.origin /\ t.nextOut = s.nextOut
  <2> DEFINE u == [s EXCEPT !.cells = new]
  <2>1. s \in [dir : {"BIDIR", "HORZ", "NO"}, v0 : Nat, v1 : Nat, xf : Nat, first : {0},
               depth : {8}, topN : Nat, botN : Nat, origin : Nat, nextIn : Nat,
               nextOut : Nat, cells : {s.cells}]
    BY DEF Rings
  <2>2. u \in Rings(W(V)) /\ u.cells = new
    BY <1>6, <2>1 DEF Rings
  <2>5. SameLevel(s, u) /\ SameCursors(s, u)
    BY <2>1 DEF SameLevel, SameCursors
  <2>3. n + 1 \in Nat
    BY <1>1
  <2>6. t = [u EXCEPT !.nextIn = n + 1]
    BY ONLY <1>4, Zenon
  <2> HIDE DEF u
  <2>4. t \in Rings(W(V)) /\ t.cells = u.cells /\ t.nextIn = n + 1
        /\ SameLevel(u, t) /\ t.origin = u.origin /\ t.nextOut = u.nextOut
    BY <2>2, <2>3, <2>6 DEF Rings, SameLevel
  <2> QED
    BY <2>2, <2>4, <2>5 DEF SameLevel, SameCursors
<1>8. RingType(t)
  BY <1>1, <1>7 DEF RingType, SameLevel
<1>9. ASSUME NEW r \in n + 1 .. s.v1 - 1 PROVE Level(t, r) < 0
  <2>0. r \in Int /\ t.v0 <= r /\ r < t.v1
    BY <1>1, <1>7 DEF SameLevel
  <2>1. Level(t, r) = IF r < s.origin \/ r >= s.origin + 8 THEN -1 ELSE new[r % 8].lvl
    BY <1>7, <1>8, <2>0, LevelReal
  <2>2. Level(s, r) = (IF r < s.origin \/ r >= s.origin + 8 THEN -1 ELSE s.cells[r % 8].lvl)
        /\ r % 8 \in 0 .. 15
    BY <1>1, <1>2, LevelReal
  <2>3. Level(s, r) < 0
    BY <1>1 DEF RingOK, NothingAhead, n
  <2>4. CASE r < s.origin \/ r >= s.origin + 8
    BY <2>1, <2>4
  <2>5. CASE ~ (r < s.origin \/ r >= s.origin + 8)
    <3>1. r % 8 # n % 8
      BY <1>1, <2>5, SlotsApart
    <3> QED
      BY <1>6, <2>1, <2>2, <2>3, <2>5, <3>1
  <2> QED
    BY <2>4, <2>5
<1>10. NothingAhead(t)
  BY <1>7, <1>9 DEF NothingAhead, SameLevel
<1>11. PassThrough(t) <=> PassThrough(s)
  BY <1>7 DEF PassThrough, SameLevel
<1>12. RingOK(t)
  BY <1>1, <1>7, <1>8, <1>10, <1>11 DEF RingOK, SameLevel
<1> QED
  BY <1>7, <1>12 DEF n

\* Fetching a row and lifting what it allows keeps it.
LEMMA FetchedOK ==
  ASSUME NEW s, RingOK(s), ~ PassThrough(s), s.nextIn < s.v1, NEW val
  PROVE  /\ RingOK(Fetched(s, val)) /\ SameLevel(s, Fetched(s, val))
         /\ Fetched(s, val).nextIn = s.nextIn + 1 /\ Fetched(s, val).nextOut = s.nextOut
<1> DEFINE room == MakeRoom(s)
           in == [Store(room, s.nextIn, val) EXCEPT !.nextIn = s.nextIn + 1]
           full == FillPse(in, {s.nextIn})
<1>1. RingOK(room) /\ SameLevel(s, room) /\ room.nextIn = s.nextIn /\ room.nextOut = s.nextOut
  BY MakeRoomOK
<1>2. ~ PassThrough(room) /\ room.nextIn < room.v1
  BY <1>1 DEF PassThrough, SameLevel
<1> HIDE DEF room
<1>3. in = [Store(room, room.nextIn, val) EXCEPT !.nextIn = room.nextIn + 1]
  BY <1>1
<1> HIDE DEF in
<1>4. RingOK(in) /\ SameLevel(room, in) /\ in.nextIn = room.nextIn + 1 /\ in.nextOut = room.nextOut
  BY <1>1, <1>2, <1>3, StoreOK
<1>5. RingOK(full) /\ SameButCells(in, full)
  BY <1>4, FillPseOK
<1> HIDE DEF full
<1>6. RingOK(IdwtCascade(full)) /\ SameButCells(full, IdwtCascade(full))
  BY <1>5, CascadeOK
<1>7. Fetched(s, val) = IdwtCascade(full)
  BY DEF Fetched, full, in, room
<1> QED
  BY <1>1, <1>4, <1>5, <1>6, <1>7 DEF SameButCells, SameLevel, SameCursors

\* The next row leaves.
LEMMA AdvanceOK ==
  ASSUME NEW s, RingOK(s), s.nextOut < s.v1, PassThrough(s) \/ s.nextOut < s.nextIn, NEW t,
         t = [s EXCEPT !.nextOut = s.nextOut + 1]
  PROVE  /\ RingOK(t) /\ SameLevel(s, t)
         /\ t.nextIn = s.nextIn /\ t.nextOut = s.nextOut + 1
<1> PICK V : s \in Rings(V)
  BY DEF RingOK, RingType
<1>1. /\ s.v0 \in Nat /\ s.v1 \in Nat /\ s.origin \in Nat /\ s.nextIn \in Nat /\ s.nextOut \in Nat
      /\ s.nextOut + 1 \in Nat
  BY DEF Rings
<1>2. t \in Rings(V) /\ t.cells = s.cells /\ t.nextOut = s.nextOut + 1
  BY <1>1 DEF Rings
<1>3. SameLevel(s, t) /\ t.origin = s.origin /\ t.nextIn = s.nextIn
  BY DEF SameLevel, Rings
<1>4. RingType(s) /\ RingType(t)
  BY <1>2, <1>3 DEF RingType, RingOK, SameLevel
<1>5. ASSUME NEW r \in s.nextIn .. s.v1 - 1 PROVE Level(t, r) < 0
  <2>1. r \in Int /\ s.v0 <= r /\ r < s.v1
    BY <1>1 DEF RingOK
  <2>2. t.v0 <= r /\ r < t.v1
    BY <1>3, <2>1 DEF SameLevel
  <2>3. Level(s, r) = IF r < s.origin \/ r >= s.origin + 8 THEN -1 ELSE s.cells[r % 8].lvl
    BY <1>4, <2>1, LevelReal
  <2>4. Level(t, r) = IF r < t.origin \/ r >= t.origin + 8 THEN -1 ELSE t.cells[r % 8].lvl
    BY <1>4, <2>1, <2>2, LevelReal
  <2> QED
    BY <1>2, <1>3, <2>3, <2>4 DEF RingOK, NothingAhead
<1>6. NothingAhead(t)
  BY <1>3, <1>5 DEF NothingAhead, SameLevel
<1>7. PassThrough(t) <=> PassThrough(s)
  BY <1>3 DEF PassThrough, SameLevel
<1>8. RingOK(t)
  BY <1>1, <1>2, <1>3, <1>4, <1>6, <1>7 DEF RingOK, SameLevel
<1> QED
  BY <1>2, <1>3, <1>8

\* A row that is ready has entered.
LEMMA ReadyEntered ==
  ASSUME NEW s, RingOK(s), Ready(s)
  PROVE  s.nextOut < s.v1 /\ s.nextOut < s.nextIn
<1> PICK V : s \in Rings(V)
  BY DEF RingOK, RingType
<1>1. /\ s.v0 \in Nat /\ s.v1 \in Nat /\ s.origin \in Nat /\ s.nextIn \in Nat /\ s.nextOut \in Nat
      /\ s.v0 <= s.nextOut
  BY DEF Rings, RingOK
<1>2. s.nextOut < s.v1 /\ Level(s, s.nextOut) >= MaxLevel(s.xf) /\ MaxLevel(s.xf) \in {1, 2}
  BY DEF Ready, MaxLevel
<1>3. Level(s, s.nextOut) \in Int
  BY <1>1, <1>2, LevelReal DEF RingOK
<1>4. ~ (Level(s, s.nextOut) < 0)
  BY <1>2, <1>3
<1>5. ~ (s.nextOut \in s.nextIn .. s.v1 - 1)
  BY <1>4 DEF RingOK, NothingAhead
<1> QED
  BY <1>1, <1>2, <1>5

\* A rewound ring begins again at its first row.
LEMMA RewindOK ==
  ASSUME NEW s, RingOK(s)
  PROVE  /\ RingOK(IdwtRewind(s)) /\ SameLevel(s, IdwtRewind(s))
         /\ IdwtRewind(s).nextIn = s.v0 /\ IdwtRewind(s).nextOut = s.v0
<1> DEFINE new == [k \in 0 .. 15 |-> [s.cells[k] EXCEPT !.lvl = -1]]
           t == IdwtRewind(s)
<1> PICK V : s \in Rings(V)
  BY DEF RingOK, RingType
<1>1. /\ s.v0 \in Nat /\ s.v1 \in Nat /\ s.v0 <= s.v1
      /\ s.cells \in [0 .. 15 -> [lvl : Int, val : V]]
  BY DEF Rings, RingOK, RingType
<1>2. t = [s EXCEPT !.origin = s.v0, !.nextIn = s.v0, !.nextOut = s.v0, !.cells = new]
  <2>1. DOMAIN s.cells = 0 .. 15
    BY <1>1
  <2> QED
    BY <2>1 DEF IdwtRewind
<1>3. ASSUME NEW k \in 0 .. 15 PROVE new[k] \in [lvl : Int, val : V] /\ new[k].lvl = -1
  <2>1. s.cells[k] \in [lvl : Int, val : V]
    BY <1>1
  <2>2. [s.cells[k] EXCEPT !.lvl = -1] \in [lvl : Int, val : V]
        /\ [s.cells[k] EXCEPT !.lvl = -1].lvl = -1
    BY <2>1
  <2> QED
    BY <2>2
<1>4. new \in [0 .. 15 -> [lvl : Int, val : V]]
  <2>1. new = [k \in 0 .. 15 |-> new[k]]
    OBVIOUS
  <2> HIDE DEF new
  <2> QED
    BY <1>3, <2>1
<1> HIDE DEF new, t
<1>5. t \in Rings(V) /\ t.cells = new /\ t.origin = s.v0 /\ t.nextIn = s.v0 /\ t.nextOut = s.v0
  BY <1>1, <1>2, <1>4 DEF Rings
<1>6. SameLevel(s, t)
  BY <1>2 DEF SameLevel, Rings
<1>7. RingType(t)
  BY <1>1, <1>5, <1>6 DEF RingType, SameLevel
<1>8. ASSUME NEW r \in s.v0 .. s.v1 - 1 PROVE Level(t, r) < 0
  <2>1. Level(t, r) = (IF r < s.v0 \/ r >= s.v0 + 8 THEN -1 ELSE new[r % 8].lvl) /\ r % 8 \in 0 .. 7
    BY <1>1, <1>5, <1>6, <1>7, LevelReal DEF SameLevel
  <2>2. new[r % 8].lvl = -1
    BY <1>3, <2>1
  <2> QED
    BY <2>1, <2>2
<1>9. NothingAhead(t)
  BY <1>5, <1>6, <1>8 DEF NothingAhead, SameLevel
<1>10. RingOK(t)
  BY <1>1, <1>5, <1>6, <1>7, <1>9 DEF RingOK, SameLevel
<1> QED
  BY <1>5, <1>6, <1>10 DEF t

\* A new ring begins at its first row.
LEMMA InitRingOK ==
  ASSUME NEW v0 \in Nat, NEW v1 \in Nat, v0 <= v1, NEW xf \in Nat,
         NEW dir \in {"BIDIR", "HORZ", "NO"}
  PROVE  LET s == IdwtInit(v0, v1, xf, dir) IN
         /\ RingOK(s) /\ s.v0 = v0 /\ s.v1 = v1 /\ s.dir = dir /\ s.nextIn = v0 /\ s.nextOut = v0
<1> DEFINE s == IdwtInit(v0, v1, xf, dir)
           top == kPseTop[(v0 % 2) + 1][TableCol(xf)]
           bot == kPseBot[(v1 % 2) + 1][TableCol(xf)]
<1>1. top \in Nat /\ bot \in Nat
  <2>1. (v0 % 2 = 0 \/ v0 % 2 = 1) /\ (v1 % 2 = 0 \/ v1 % 2 = 1)
    OBVIOUS
  <2>2. TableCol(xf) = 1 \/ TableCol(xf) = 2
    BY DEF TableCol
  <2> QED
    BY <2>1, <2>2 DEF kPseTop, kPseBot
<1>2. EmptyRing(8) \in [0 .. 15 -> [lvl : Int, val : {Junk}]]
  BY DEF EmptyRing, Empty
<1>3. s = [dir |-> dir, v0 |-> v0, v1 |-> v1, xf |-> xf, first |-> 0, depth |-> 8,
           topN |-> top, botN |-> bot, origin |-> v0, nextIn |-> v0, nextOut |-> v0,
           cells |-> EmptyRing(8)]
  BY DEF IdwtInit, IDWT_STATE_RING_DEPTH
<1> HIDE DEF top, bot, s
<1>4. s \in Rings({Junk})
  BY <1>1, <1>2, <1>3 DEF Rings
<1>5. /\ s.v0 = v0 /\ s.v1 = v1 /\ s.dir = dir /\ s.nextIn = v0 /\ s.nextOut = v0
      /\ s.origin = v0 /\ s.cells = EmptyRing(8)
  BY <1>3
<1>6. RingType(s)
  BY <1>4, <1>5 DEF RingType
<1>7. ASSUME NEW r \in v0 .. v1 - 1 PROVE Level(s, r) < 0
  <2>1. Level(s, r) = (IF r < v0 \/ r >= v0 + 8 THEN -1 ELSE EmptyRing(8)[r % 8].lvl) /\ r % 8 \in 0 .. 7
    BY <1>5, <1>6, LevelReal
  <2>2. EmptyRing(8)[r % 8].lvl = -1
    BY <2>1 DEF EmptyRing, Empty
  <2> QED
    BY <2>1, <2>2
<1>8. NothingAhead(s)
  BY <1>5, <1>7 DEF NothingAhead
<1>9. RingOK(s)
  BY <1>5, <1>6, <1>8 DEF RingOK
<1> QED
  BY <1>5, <1>9 DEF s

-----------------------------------------------------------------------------
(* Geometry of the levels. *)

\* The row of level l from that of the level above.
Halved(dir, row_) == IF dir = "BIDIR" THEN (row_ + 1) \div 2 ELSE row_

\* ResRow's recursive function exists.
HasRows(dirs, n, end) ==
  \E f : f = [l \in 0 .. n |-> IF l = n THEN end ELSE Halved(dirs[l + 1], f[l + 1])]

\* The recursion of ResRow has a solution.
LEMMA RowsByLevel ==
  ASSUME NEW dirs, NEW n \in Nat, NEW end
  PROVE  HasRows(dirs, n, end)
<1> DEFINE Body(g, l) == IF l = n THEN end ELSE Halved(dirs[l + 1], g[l + 1])
           P(m) == \E g : \A l \in n - m .. n : g[l] = Body(g, l)
<1>1. P(0)
  <2> DEFINE g == [l \in {n} |-> end]
  <2>1. \A l \in n - 0 .. n : l = n /\ g[l] = end
    OBVIOUS
  <2>2. \A l \in n - 0 .. n : g[l] = Body(g, l)
    BY <2>1
  <2> QED
    BY <2>2
<1>2. ASSUME NEW m \in Nat, m < n, P(m) PROVE P(m + 1)
  <2>1. PICK g : \A l \in n - m .. n : g[l] = Body(g, l)
    BY <1>2
  <2> DEFINE k == n - (m + 1)
             h == [l \in k .. n |-> IF l = k THEN Halved(dirs[k + 1], g[k + 1]) ELSE g[l]]
  <2>2. k \in Nat /\ k < n /\ k + 1 = n - m
    BY <1>2
  <2>3. \A l \in k .. n : l = k \/ l \in n - m .. n
    BY <2>2
  <2>4. \A l \in n - m .. n : h[l] = g[l]
    BY <2>2
  <2>5. ASSUME NEW l \in k .. n PROVE h[l] = Body(h, l)
    <3>1. CASE l = k
      <4>1. h[k] = Halved(dirs[k + 1], g[k + 1]) /\ h[k + 1] = g[k + 1] /\ k # n
        BY <2>2, <2>4
      <4> HIDE DEF h, k
      <4> QED
        BY <3>1, <4>1
    <3>2. CASE l \in n - m .. n
      <4>1. h[l] = g[l] /\ g[l] = Body(g, l)
        BY <2>1, <2>4, <3>2
      <4>2. l # n => l + 1 \in n - m .. n
        BY <3>2, <1>2
      <4>3. l # n => h[l + 1] = g[l + 1]
        BY <2>4, <4>2
      <4> HIDE DEF h, k
      <4> QED
        BY <4>1, <4>3
    <3> QED
      BY <2>3, <3>1, <3>2
  <2> HIDE DEF h
  <2> QED
    BY <2>5
<1> HIDE DEF P
<1>3. 0 .. n \subseteq {m \in Nat : P(m)}
  <2> DEFINE S == {m \in Nat : P(m)}
  <2>1. 0 \in S /\ \A m \in 0 .. n - 1 : m \in S => m + 1 \in S
    BY <1>1, <1>2
  <2> HIDE DEF S
  <2>2. 0 .. n \subseteq S
    BY <2>1, Climb
  <2> QED
    BY <2>2 DEF S
<1>4. P(n)
  BY <1>3
<1>5. PICK g : \A l \in n - n .. n : g[l] = Body(g, l)
  BY <1>4 DEF P
<1> DEFINE f == [l \in 0 .. n |-> g[l]]
<1>6. ASSUME NEW l \in 0 .. n PROVE f[l] = Body(f, l)
  <2>1. l \in n - n .. n /\ (l # n => l + 1 \in 0 .. n)
    OBVIOUS
  <2>2. f[l] = g[l] /\ g[l] = Body(g, l) /\ (l # n => f[l + 1] = g[l + 1])
    BY <1>5, <2>1
  <2> HIDE DEF f
  <2> QED
    BY <2>2
<1>7. f = [l \in 0 .. n |-> f[l]]
  OBVIOUS
<1> HIDE DEF f
<1>8. f = [l \in 0 .. n |-> Body(f, l)]
  BY <1>6, <1>7
<1> QED
  BY <1>8 DEF HasRows

\* ResRow is the recursion it is written as.
LEMMA ResRowIs ==
  ASSUME NEW d, NEW c, NEW end, NL(d, c) \in Nat
  PROVE  /\ ResRow(d, c, end)[NL(d, c)] = end
         /\ \A l \in 0 .. NL(d, c) - 1 :
              ResRow(d, c, end)[l] = Halved(d.comps[c].dirs[l + 1], ResRow(d, c, end)[l + 1])
<1> DEFINE n == NL(d, c)
           dirs == d.comps[c].dirs
           Eq(f) == f = [l \in 0 .. n |-> IF l = n THEN end ELSE Halved(dirs[l + 1], f[l + 1])]
           r == ResRow(d, c, end)
<1>1. r = CHOOSE f : Eq(f)
  BY DEF ResRow, Halved
<1>0. n \in Nat
  OBVIOUS
<1> HIDE DEF n, dirs, r
<1>2. \E f : Eq(f)
  <2>1. HasRows(dirs, n, end)
    BY <1>0, RowsByLevel
  <2> QED
    BY <2>1 DEF HasRows
<1> HIDE DEF Eq
<1>3. Eq(r)
  BY <1>1, <1>2
<1>5. \A l \in 0 .. n : r[l] = IF l = n THEN end ELSE Halved(dirs[l + 1], r[l + 1])
  <2>1. r = [l \in 0 .. n |-> IF l = n THEN end ELSE Halved(dirs[l + 1], r[l + 1])]
    BY <1>3 DEF Eq
  <2> QED
    BY <2>1
<1>6. r[n] = end /\ \A l \in 0 .. n - 1 : r[l] = Halved(dirs[l + 1], r[l + 1])
  BY <1>0, <1>5
<1> QED
  BY <1>6 DEF r, n, dirs

\* Halving keeps the order of rows.
LEMMA HalvedKeeps ==
  \A dir : \A a, b \in Nat :
    /\ Halved(dir, a) \in Nat
    /\ a <= b => Halved(dir, a) <= Halved(dir, b)
BY DEF Halved

\* The rows of every level, from those of the level above.
LEMMA LevelRows ==
  ASSUME NEW d \in Shapes, NEW c \in 1 .. Len(d.comps)
  PROVE  /\ NL(d, c) \in Nat /\ d.comps[c] \in CompShape
         /\ V0(d, c, NL(d, c)) = d.comps[c].v0 /\ V1(d, c, NL(d, c)) = d.comps[c].v1
         /\ \A l \in 0 .. NL(d, c) :
              V0(d, c, l) \in Nat /\ V1(d, c, l) \in Nat /\ V0(d, c, l) <= V1(d, c, l)
         /\ \A l \in 1 .. NL(d, c) :
              /\ V0(d, c, l - 1) = Halved(d.comps[c].dirs[l], V0(d, c, l))
              /\ V1(d, c, l - 1) = Halved(d.comps[c].dirs[l], V1(d, c, l))
              /\ d.comps[c].dirs[l] \in {"BIDIR", "HORZ", "NO"}
<1> DEFINE n == NL(d, c)
           dirs == d.comps[c].dirs
           top == d.comps[c].v0
           end == d.comps[c].v1
           v0(l) == V0(d, c, l)
           v1(l) == V1(d, c, l)
           Good(l) == v0(l) \in Nat /\ v1(l) \in Nat /\ v0(l) <= v1(l)
           S == {m \in Nat : Good(n - m)}
<1>1. d.comps[c] \in CompShape /\ d.comps[c].v0 <= d.comps[c].v1
  BY ShapesAssumption DEF WellFormed
<1>2. n \in Nat /\ top \in Nat /\ end \in Nat /\ top <= end /\ dirs \in Seq({"BIDIR", "HORZ", "NO"})
      /\ Len(dirs) = n
  BY <1>1 DEF CompShape, NL
<1>3. \A l \in 1 .. n : dirs[l] \in {"BIDIR", "HORZ", "NO"}
  BY <1>2
<1>4. v0(n) = top /\ \A l \in 0 .. n - 1 : v0(l) = Halved(dirs[l + 1], v0(l + 1))
  BY <1>2, ResRowIs DEF V0
<1>5. v1(n) = end /\ \A l \in 0 .. n - 1 : v1(l) = Halved(dirs[l + 1], v1(l + 1))
  BY <1>2, ResRowIs DEF V1
<1> HIDE DEF n, dirs, top, end, v0, v1
<1>6. 0 \in S
  BY <1>2, <1>4, <1>5
<1>7. ASSUME NEW m \in 0 .. n - 1, m \in S PROVE m + 1 \in S
  <2> DEFINE l == n - (m + 1)
  <2>1. l \in 0 .. n - 1 /\ l + 1 = n - m /\ m + 1 \in Nat
    BY <1>2
  <2>2. Good(l + 1)
    BY <1>7, <2>1
  <2>3. v0(l) = Halved(dirs[l + 1], v0(l + 1)) /\ v1(l) = Halved(dirs[l + 1], v1(l + 1))
    BY <1>4, <1>5, <2>1
  <2> HIDE DEF l
  <2>4. Good(l)
    BY <2>2, <2>3, HalvedKeeps
  <2> QED
    BY <2>1, <2>4 DEF l
<1>8. 0 .. n \subseteq S
  <2> HIDE DEF S
  <2> QED
    BY <1>2, <1>6, <1>7, Climb
<1>9. ASSUME NEW l \in 0 .. n PROVE Good(l)
  <2>1. n - l \in 0 .. n /\ n - (n - l) = l
    BY <1>2
  <2> QED
    BY <1>8, <2>1
<1>10. ASSUME NEW l \in 1 .. n
       PROVE  v0(l - 1) = Halved(dirs[l], v0(l)) /\ v1(l - 1) = Halved(dirs[l], v1(l))
  <2>1. l - 1 \in 0 .. n - 1 /\ (l - 1) + 1 = l
    BY <1>2
  <2> QED
    BY <1>4, <1>5, <2>1
<1> QED
  BY <1>1, <1>2, <1>3, <1>4, <1>5, <1>9, <1>10 DEF n, dirs, top, end, v0, v1

\* The buffers of a shape; the level that reads a buffer.
IsBuf(d, k) == k \in Bufs /\ k[1] <= Len(d.comps) /\ HasBand(d, k[1], k[2], k[3])
Reader(k)   == IF k[2] = 0 THEN 1 ELSE k[2]
ReaderDir(d, k) == d.comps[k[1]].dirs[Reader(k)]

\* The row of buffer k that row r of its reader is made of, if it is of one;
\* otherwise of the next row that is.
RowIn(d, k, r)  == IF k[2] = 0 THEN Halved(ReaderDir(d, k), r) ELSE BandRow(d, k[1], k[2], k[3], r)
Takes(d, k, r)  == ReaderDir(d, k) # "BIDIR" \/ (r % 2 = 0 <=> k[3] \in {"LL", "HL"})

\* A buffer names a component, a level and a band of the shape.
LEMMA BufIsTriple ==
  ASSUME NEW d \in Shapes, NEW k, IsBuf(d, k)
  PROVE  /\ k = <<k[1], k[2], k[3]>> /\ k \in Bufs
         /\ k[1] \in 1 .. Len(d.comps) /\ k[2] \in 0 .. NL(d, k[1])
         /\ k[3] \in {"LL", "HL", "LH", "HH"} /\ (k[2] = 0 <=> k[3] = "LL")
         /\ NL(d, k[1]) \in Nat
         /\ NL(d, k[1]) # 0 => Reader(k) \in 1 .. NL(d, k[1])
                               /\ ReaderDir(d, k) \in {"BIDIR", "HORZ", "NO"}
<1>1. /\ k \in (Nat \ {0}) \X Nat \X {"LL", "HL", "LH", "HH"} /\ k[1] <= Len(d.comps)
      /\ HasBand(d, k[1], k[2], k[3])
  BY DecodeAssumption DEF IsBuf
<1>2. d.comps \in Seq(CompShape)
  BY ShapesAssumption DEF WellFormed
<1>3. k = <<k[1], k[2], k[3]>> /\ k[1] \in Nat \ {0} /\ k[2] \in Nat /\ k[3] \in {"LL", "HL", "LH", "HH"}
  BY <1>1
<1>4. k[1] \in 1 .. Len(d.comps)
  BY <1>1, <1>2, <1>3
<1>5. NL(d, k[1]) \in Nat /\ \A l \in 1 .. NL(d, k[1]) : d.comps[k[1]].dirs[l] \in {"BIDIR", "HORZ", "NO"}
  BY <1>4, LevelRows
<1>6. k[2] \in 0 .. NL(d, k[1]) /\ (k[2] = 0 <=> k[3] = "LL")
  BY <1>1, <1>3, <1>5 DEF HasBand
<1>7. NL(d, k[1]) # 0 => Reader(k) \in 1 .. NL(d, k[1])
  BY <1>5, <1>6 DEF Reader
<1> QED
  BY <1>3, <1>4, <1>5, <1>6, <1>7 DEF IsBuf, ReaderDir

\* Halves of consecutive rows.
LEMMA Halving ==
  \A r \in Nat : /\ r \div 2 \in Nat /\ (r + 1) \div 2 \in Nat
                 /\ r % 2 = 0 => (r + 1) \div 2 = r \div 2 /\ (r + 2) \div 2 = r \div 2 + 1
                                 /\ (r + 1) \div 2 + 1 = (r + 2) \div 2
                 /\ r % 2 # 0 => (r + 1) \div 2 = r \div 2 + 1 /\ (r + 2) \div 2 = (r + 1) \div 2
OBVIOUS

\* The row of a buffer advances by one exactly at the rows that take it.
LEMMA RowInSteps ==
  ASSUME NEW d \in Shapes, NEW k, IsBuf(d, k), NL(d, k[1]) # 0, NEW r \in Nat
  PROVE  /\ RowIn(d, k, r) \in Nat
         /\ RowIn(d, k, r + 1) = IF Takes(d, k, r) THEN RowIn(d, k, r) + 1 ELSE RowIn(d, k, r)
         /\ \A q \in Nat : r <= q => RowIn(d, k, r) <= RowIn(d, k, q)
<1>1. /\ k[3] \in {"LL", "HL", "LH", "HH"} /\ (k[2] = 0 <=> k[3] = "LL")
      /\ ReaderDir(d, k) \in {"BIDIR", "HORZ", "NO"}
  BY BufIsTriple
<1>2. CASE ReaderDir(d, k) # "BIDIR"
  <2>1. \A q : RowIn(d, k, q) = q
    BY <1>1, <1>2 DEF RowIn, BandRow, Halved, ReaderDir, Reader
  <2> QED
    BY <1>2, <2>1 DEF Takes
<1>3. CASE ReaderDir(d, k) = "BIDIR" /\ k[3] \in {"LL", "HL"}
  <2>1. \A q : RowIn(d, k, q) = (q + 1) \div 2
    BY <1>1, <1>3 DEF RowIn, BandRow, Halved, ReaderDir, Reader
  <2>2. Takes(d, k, r) <=> r % 2 = 0
    BY <1>3 DEF Takes
  <2>3. (r + 1) + 1 = r + 2 /\ \A q \in Nat : r <= q => (r + 1) \div 2 <= (q + 1) \div 2
    OBVIOUS
  <2> QED
    BY <2>1, <2>2, <2>3, Halving
<1>4. CASE ReaderDir(d, k) = "BIDIR" /\ k[3] \in {"LH", "HH"}
  <2>1. \A q : RowIn(d, k, q) = q \div 2
    BY <1>1, <1>4 DEF RowIn, BandRow, Halved, ReaderDir, Reader
  <2>2. Takes(d, k, r) <=> r % 2 # 0
    BY <1>4 DEF Takes
  <2>3. \A q \in Nat : r <= q => r \div 2 <= q \div 2
    OBVIOUS
  <2> QED
    BY <2>1, <2>2, <2>3, Halving
<1> QED
  BY <1>1, <1>2, <1>3, <1>4

\* The rows of the buffers.
LEMMA BufRows ==
  ASSUME NEW d \in Shapes, NEW k, IsBuf(d, k)
  PROVE  LET g == GeoOf(d)[k] c == k[1] IN
         /\ g.y0 \in Nat /\ g.y1 \in Nat /\ g.h \in Nat \ {0}
         /\ NL(d, c) = 0 => g.y0 = V0(d, c, 0) /\ g.y1 = V1(d, c, 0)
         /\ NL(d, c) # 0 => g.y0 = RowIn(d, k, V0(d, c, Reader(k)))
                            /\ g.y1 = RowIn(d, k, V1(d, c, Reader(k)))
<1> DEFINE g == GeoOf(d)[k]
           c == k[1]
           l == k[2]
<1>1. /\ k \in Bufs /\ c \in 1 .. Len(d.comps) /\ l \in 0 .. NL(d, c)
      /\ k[3] \in {"LL", "HL", "LH", "HH"} /\ (l = 0 <=> k[3] = "LL") /\ NL(d, c) \in Nat
      /\ NL(d, c) # 0 => Reader(k) \in 1 .. NL(d, c)
  BY BufIsTriple
<1>2. g = [y0 |-> BandRow(d, c, l, k[3], V0(d, c, l)), y1 |-> BandRow(d, c, l, k[3], V1(d, c, l)),
           h |-> d.cbh]
  BY <1>1 DEF GeoOf, IsBuf
<1>3. d.cbh \in Nat \ {0}
  BY ShapesAssumption DEF WellFormed
<1>4. /\ \A m \in 0 .. NL(d, c) : V0(d, c, m) \in Nat /\ V1(d, c, m) \in Nat
      /\ \A m \in 1 .. NL(d, c) : /\ V0(d, c, m - 1) = Halved(d.comps[c].dirs[m], V0(d, c, m))
                                  /\ V1(d, c, m - 1) = Halved(d.comps[c].dirs[m], V1(d, c, m))
  BY <1>1, LevelRows
<1> HIDE DEF g, c, l
<1>5. CASE l = 0
  <2>1. g.y0 = V0(d, c, 0) /\ g.y1 = V1(d, c, 0)
    BY <1>1, <1>2, <1>5 DEF BandRow
  <2>2. NL(d, c) # 0 => V0(d, c, 0) = RowIn(d, k, V0(d, c, Reader(k)))
                        /\ V1(d, c, 0) = RowIn(d, k, V1(d, c, Reader(k)))
    <3>1. Reader(k) = 1
      BY <1>5 DEF Reader, l
    <3>2. NL(d, c) # 0 => 1 \in 1 .. NL(d, c)
      BY <1>1
    <3>3. NL(d, c) # 0 => V0(d, c, 0) = Halved(d.comps[c].dirs[1], V0(d, c, 1))
                          /\ V1(d, c, 0) = Halved(d.comps[c].dirs[1], V1(d, c, 1))
      <4> SUFFICES ASSUME NL(d, c) # 0 PROVE V0(d, c, 1 - 1) = Halved(d.comps[c].dirs[1], V0(d, c, 1))
                          /\ V1(d, c, 1 - 1) = Halved(d.comps[c].dirs[1], V1(d, c, 1))
        OBVIOUS
      <4> QED
        BY <1>4, <3>2
    <3> QED
      BY <1>5, <3>1, <3>3 DEF RowIn, ReaderDir, l, c
  <2>3. g.y0 \in Nat /\ g.y1 \in Nat /\ g.h \in Nat \ {0}
    BY <1>1, <1>2, <1>3, <1>4, <2>1
  <2> QED
    BY <2>1, <2>2, <2>3 DEF g, c
<1>6. CASE l # 0
  <2>1. Reader(k) = l
    BY <1>6 DEF Reader, l
  <2>2. \A q : RowIn(d, k, q) = BandRow(d, c, l, k[3], q)
    BY <1>6 DEF RowIn, l, c
  <2>3. NL(d, c) # 0 /\ l \in 1 .. NL(d, c)
    BY <1>1, <1>6
  <2>4. g.y0 = RowIn(d, k, V0(d, c, Reader(k))) /\ g.y1 = RowIn(d, k, V1(d, c, Reader(k)))
    BY <1>2, <2>1, <2>2
  <2>5. V0(d, c, Reader(k)) \in Nat /\ V1(d, c, Reader(k)) \in Nat
    BY <1>4, <2>1, <2>3
  <2>6. g.y0 \in Nat /\ g.y1 \in Nat /\ g.h \in Nat \ {0}
    BY <1>2, <1>3, <2>3, <2>4, <2>5, RowInSteps DEF c
  <2> QED
    BY <2>3, <2>4, <2>6 DEF g, c
<1> QED
  BY <1>5, <1>6

ShapeOK == dec \in Shapes /\ geo = GeoOf(dec)

LevelOK(c, l) ==
  /\ RingOK(idwt[c][l])
  /\ idwt[c][l].v0 = V0(dec, c, l) /\ idwt[c][l].v1 = V1(dec, c, l)
  /\ idwt[c][l].dir = dec.comps[c].dirs[l]

\* What row r of a level takes from buffer k.
Read(k, r) == [buf |-> k, row |-> RowIn(dec, k, r)]

\* What row r takes from below: the child's next row or a row of LL0.
LowRead(c, l, r) == IF l > 1 THEN Child ELSE Read(<<c, 0, "LL">>, r)

\* The row asked of a buffer lies in the buffer.
LEMMA BufferIs ==
  ASSUME ShapeOK, NEW k, IsBuf(dec, k), NL(dec, k[1]) # 0, NEW r \in Nat,
         V0(dec, k[1], Reader(k)) <= r, r < V1(dec, k[1], Reader(k)), Takes(dec, k, r), NEW sub,
         sub = RowIn(dec, k, r) - RowIn(dec, k, V0(dec, k[1], Reader(k)))
  PROVE  /\ Buffer(k[1], k[2], k[3], sub) = Read(k, r)
         /\ geo[k].y0 <= RowIn(dec, k, r) /\ RowIn(dec, k, r) < geo[k].y1
         /\ sub \in 0 .. geo[k].y1 - geo[k].y0 - 1
         /\ geo[k].y0 \in Nat /\ geo[k].y1 \in Nat
<1> DEFINE v0 == V0(dec, k[1], Reader(k))
           v1 == V1(dec, k[1], Reader(k))
<1>1. dec \in Shapes /\ geo = GeoOf(dec)
  BY DEF ShapeOK
<1>2. k = <<k[1], k[2], k[3]>> /\ k[1] \in 1 .. Len(dec.comps) /\ Reader(k) \in 1 .. NL(dec, k[1])
      /\ NL(dec, k[1]) \in Nat
  BY <1>1, BufIsTriple
<1>3. v0 \in Nat /\ v1 \in Nat
  BY <1>1, <1>2, LevelRows
<1>4. geo[k].y0 = RowIn(dec, k, v0) /\ geo[k].y1 = RowIn(dec, k, v1)
  BY <1>1, BufRows
<1>5. r \in Nat /\ r + 1 \in Nat /\ v0 <= r /\ r + 1 <= v1
  BY <1>3
<1> HIDE DEF v0, v1
<1>6. /\ RowIn(dec, k, v0) \in Nat /\ RowIn(dec, k, v1) \in Nat /\ RowIn(dec, k, r) \in Nat
      /\ RowIn(dec, k, v0) <= RowIn(dec, k, r)
  BY <1>1, <1>3, <1>5, RowInSteps
<1>7. RowIn(dec, k, r) + 1 <= RowIn(dec, k, v1)
  <2>1. RowIn(dec, k, r + 1) = RowIn(dec, k, r) + 1
    BY <1>1, RowInSteps
  <2>2. RowIn(dec, k, r + 1) <= RowIn(dec, k, v1)
    BY <1>1, <1>3, <1>5, RowInSteps
  <2> QED
    BY <2>1, <2>2
<1>8. sub = RowIn(dec, k, r) - geo[k].y0
  BY <1>4 DEF v0
<1>9. Buffer(k[1], k[2], k[3], sub) = [buf |-> k, row |-> geo[k].y0 + sub]
  BY <1>2 DEF Buffer
<1>10. geo[k].y0 + sub = RowIn(dec, k, r) /\ sub \in 0 .. geo[k].y1 - geo[k].y0 - 1
  BY <1>4, <1>6, <1>7, <1>8
<1> QED
  BY <1>4, <1>6, <1>7, <1>9, <1>10 DEF Read

\* Bufs names every band of a shape.
LEMMA BandIsBuf ==
  ASSUME NEW d \in Shapes, NEW c \in 1 .. Len(d.comps), NEW l \in 0 .. NL(d, c),
         NEW b \in {"LL", "HL", "LH", "HH"}, HasBand(d, c, l, b)
  PROVE  IsBuf(d, <<c, l, b>>)
<1>1. <<c, l, b>> \in Bufs
  BY ShapesAssumption DEF WellFormed
<1>2. c <= Len(d.comps)
  <2>1. Len(d.comps) \in Nat
    BY ShapesAssumption DEF WellFormed
  <2> QED
    BY <2>1
<1> QED
  BY <1>1, <1>2 DEF IsBuf

\* A row inside the band is its own extension.
LEMMA PseRowIdxInside ==
  ASSUME NEW len \in Nat, NEW idx \in 0 .. len - 1
  PROVE  PseRowIdx(idx, len) = idx
<1>1. CASE len <= 1
  <2>1. idx = 0
    BY <1>1
  <2> QED
    BY <1>1, <2>1 DEF PseRowIdx
<1>2. CASE len > 1
  <2>1. idx \in Int /\ 2 * (len - 1) \in Int /\ 0 <= idx /\ idx < 2 * (len - 1)
    BY <1>2
  <2>2. \A a, b \in Int : 0 <= a /\ a < b => a % b = a
    OBVIOUS
  <2>3. idx % (2 * (len - 1)) = idx
    BY <2>1, <2>2
  <2> QED
    BY <1>2, <2>3 DEF PseRowIdx
<1> QED
  BY <1>1, <1>2

\* What a row is interleaved from, in terms of rows read so far.
LEMMA SourcesAre ==
  ASSUME ShapeOK, NEW c \in Comps, NEW l \in 1 .. NL(dec, c), LevelOK(c, l), NEW r \in Nat,
         V0(dec, c, l) <= r, r < V1(dec, c, l)
  PROVE  LET dir == dec.comps[c].dirs[l] IN
         Sources(c, l, r) =
           IF dir = "NO" THEN <<LowRead(c, l, r)>>
           ELSE IF dir = "HORZ" \/ r % 2 = 0 THEN <<LowRead(c, l, r), Read(<<c, l, "HL">>, r)>>
           ELSE <<Read(<<c, l, "LH">>, r), Read(<<c, l, "HH">>, r)>>
<1> DEFINE dir == dec.comps[c].dirs[l]
           v0 == V0(dec, c, l)
           sub == IF dir # "BIDIR" THEN r - v0
                  ELSE IF r % 2 = 0 THEN (r \div 2) - ((v0 + 1) \div 2)
                  ELSE (r \div 2) - (v0 \div 2)
           hl == <<c, l, "HL">>
           lh == <<c, l, "LH">>
           hh == <<c, l, "HH">>
           ll == <<c, 0, "LL">>
<1>1. dec \in Shapes /\ geo = GeoOf(dec) /\ c \in 1 .. Len(dec.comps)
  BY DEF ShapeOK, Comps
<1>2. /\ NL(dec, c) \in Nat /\ v0 \in Nat /\ dir \in {"BIDIR", "HORZ", "NO"}
  <2>1. NL(dec, c) \in Nat /\ l \in 0 .. NL(dec, c)
    BY <1>1, LevelRows
  <2> QED
    BY <1>1, <2>1, LevelRows
<1>3. idwt[c][l].v0 = v0 /\ idwt[c][l].dir = dir
  BY DEF LevelOK
<1>4. Sources(c, l, r) =
        IF dir = "NO" THEN <<LowSource(c, l, sub)>>
        ELSE IF dir = "HORZ" \/ r % 2 = 0 THEN <<LowSource(c, l, sub), Buffer(c, l, "HL", sub)>>
        ELSE <<Buffer(c, l, "LH", sub), Buffer(c, l, "HH", sub)>>
  BY <1>3 DEF Sources
<1>5. \A b \in {"HL", "LH", "HH"} : HasBand(dec, c, l, b) => IsBuf(dec, <<c, l, b>>)
  <2>1. l \in 0 .. NL(dec, c)
    BY <1>2
  <2> SUFFICES ASSUME NEW b \in {"HL", "LH", "HH"}, HasBand(dec, c, l, b) PROVE IsBuf(dec, <<c, l, b>>)
    OBVIOUS
  <2> QED
    BY <1>1, <2>1, BandIsBuf
<1>6. HasBand(dec, c, 0, "LL") /\ IsBuf(dec, ll)
  <2>1. HasBand(dec, c, 0, "LL") /\ 0 \in 0 .. NL(dec, c)
    BY <1>2 DEF HasBand
  <2> QED
    BY <1>1, <2>1, BandIsBuf
<1>7. Reader(hl) = l /\ Reader(lh) = l /\ Reader(hh) = l /\ Reader(ll) = 1
  BY DEF Reader
<1>8. (dir # "BIDIR" \/ r % 2 = 0) => LowSource(c, l, sub) = LowRead(c, l, r)
  <2> SUFFICES ASSUME dir # "BIDIR" \/ r % 2 = 0, l = 1 PROVE LowSource(c, l, sub) = Read(ll, r)
    BY DEF LowSource, LowRead
  <2>1. Takes(dec, ll, r) /\ NL(dec, ll[1]) # 0
    BY <1>2 DEF Takes, ReaderDir, Reader
  <2>2. sub = RowIn(dec, ll, r) - RowIn(dec, ll, v0)
    <3>1. \A q : RowIn(dec, ll, q) = Halved(dir, q)
      BY DEF RowIn, ReaderDir, Reader
    <3>2. CASE dir # "BIDIR"
      BY <3>1, <3>2 DEF Halved
    <3>3. CASE dir = "BIDIR"
      <4>1. r % 2 = 0 /\ (r + 1) \div 2 = r \div 2
        BY <3>3, Halving
      <4> QED
        BY <3>1, <3>3, <4>1 DEF Halved
    <3> QED
      BY <3>2, <3>3
  <2> HIDE DEF sub
  <2>3. /\ Buffer(c, 0, "LL", sub) = Read(ll, r)
        /\ sub \in 0 .. geo[ll].y1 - geo[ll].y0 - 1
        /\ geo[ll].y0 \in Nat /\ geo[ll].y1 \in Nat
    <3>1. ll[1] = c /\ ll[2] = 0 /\ ll[3] = "LL"
      OBVIOUS
    <3> HIDE DEF ll
    <3> QED
      BY <1>6, <1>7, <2>1, <2>2, <3>1, BufferIs
  <2>4. PseRowIdx(sub, geo[ll].y1 - geo[ll].y0) = sub
    <3>1. geo[ll].y1 - geo[ll].y0 \in Nat
      BY <2>3
    <3> QED
      BY <2>3, <3>1, PseRowIdxInside
  <2> QED
    BY <2>3, <2>4 DEF LowSource
<1>9. ASSUME dir = "HORZ" \/ (dir = "BIDIR" /\ r % 2 = 0)
      PROVE  Buffer(c, l, "HL", sub) = Read(hl, r)
  <2>1. IsBuf(dec, hl) /\ Takes(dec, hl, r) /\ NL(dec, hl[1]) # 0
    BY <1>2, <1>5, <1>9 DEF HasBand, Takes, ReaderDir, Reader
  <2>2. sub = RowIn(dec, hl, r) - RowIn(dec, hl, v0)
    <3>1. \A q : RowIn(dec, hl, q) = Halved(dir, q)
      BY DEF RowIn, BandRow, Halved
    <3>2. CASE dir # "BIDIR"
      BY <3>1, <3>2 DEF Halved
    <3>3. CASE dir = "BIDIR"
      <4>1. r % 2 = 0 /\ (r + 1) \div 2 = r \div 2
        BY <1>9, <3>3, Halving
      <4> QED
        BY <3>1, <3>3, <4>1 DEF Halved
    <3> QED
      BY <3>2, <3>3
  <2>3. hl[1] = c /\ hl[2] = l /\ hl[3] = "HL"
    OBVIOUS
  <2> HIDE DEF sub, hl
  <2> QED
    BY <1>7, <2>1, <2>2, <2>3, BufferIs
<1>10. ASSUME dir = "BIDIR", r % 2 # 0, NEW b \in {"LH", "HH"}
       PROVE  Buffer(c, l, b, sub) = Read(<<c, l, b>>, r)
  <2> DEFINE k == <<c, l, b>>
  <2>1. IsBuf(dec, k) /\ Takes(dec, k, r) /\ NL(dec, k[1]) # 0 /\ Reader(k) = l
    BY <1>2, <1>5, <1>10 DEF HasBand, Takes, ReaderDir, Reader
  <2>2. sub = RowIn(dec, k, r) - RowIn(dec, k, v0)
    <3>1. \A q : RowIn(dec, k, q) = q \div 2
      BY <1>10 DEF RowIn, BandRow
    <3> QED
      BY <1>10, <3>1
  <2>3. k[1] = c /\ k[2] = l /\ k[3] = b
    OBVIOUS
  <2> HIDE DEF sub, k
  <2>4. Buffer(c, l, b, sub) = Read(k, r)
    BY <2>1, <2>2, <2>3, BufferIs
  <2> QED
    BY <2>4 DEF k
<1> HIDE DEF sub
<1> QED
  BY <1>2, <1>4, <1>8, <1>9, <1>10

-----------------------------------------------------------------------------
(* What is true of a component. *)

\* The row level l of component c reads next; it has read all.
ReadAt(c, l) == Wanted(idwt[c][l])
AllIn(c, l)  == ReadAt(c, l) = V1(dec, c, l)

\* The frame of level l, if there is one, and the row it has from its child.
At(c, l)     == NL(dec, c) + 1 - l
HasLow(c, l) == At(c, l) \in 1 .. Len(calls[c]) /\ calls[c][At(c, l)].low # NoRow

\* Rows below row Asked were asked of level l by the level above it, and it has
\* given them or has read all it can.
Asked(c, l) == Halved(dec.comps[c].dirs[l + 1], ReadAt(c, l + 1))
               + IF HasLow(c, l + 1) THEN 1 ELSE 0
Supplies(c, l) == AllIn(c, l) \/ Asked(c, l) <= idwt[c][l].nextOut

\* Rows of buffer k below ReadTo were read. A buffer that was read to the end
\* has its last strip in the ring.
ReadTo(k) == IF NL(dec, k[1]) = 0 THEN nextRow[k[1]] ELSE RowIn(dec, k, ReadAt(k[1], Reader(k)))
Exhausted(k) == ReadTo(k) = geo[k].y1 => ~ sync[k] /\ Holds(k, strip[k], geo[k].y1 - 1)
Drawn(c) == \A k \in Bufs : k[1] = c /\ IsBuf(dec, k) /\ geo[k].y0 < geo[k].y1 => Exhausted(k)

\* The frames are consecutive levels from the finest down.
FramesOK(c) ==
  /\ \E S : calls[c] \in Seq([lvl : Nat, low : S])
  /\ Len(calls[c]) <= NL(dec, c)
  /\ \A i \in 1 .. Len(calls[c]) : calls[c][i].lvl = NL(dec, c) + 1 - i
  /\ \E S : pulled[c] \in Seq(S)
  /\ counts[c] \in Nat /\ Len(pulled[c]) <= counts[c]
  /\ calls[c] # <<>> => Len(pulled[c]) < counts[c]

\* The rows handed out so far are those the driver has asked for.
Out(c) == IF NL(dec, c) = 0 THEN nextRow[c] ELSE idwt[c][NL(dec, c)].nextOut
AllRead(c) == IF NL(dec, c) = 0 THEN nextRow[c] = V1(dec, c, 0) ELSE AllIn(c, NL(dec, c))
Step(c) == IF dec.mct /\ c <= 3 THEN 1 ELSE dec.comps[c].yr
Due(c) == IF phase = "pull" THEN (stripY \div Step(c)) + Len(pulled[c])
          ELSE (row + Step(c) - 1) \div Step(c)
Paced(c) == AllRead(c) \/ Due(c) <= Out(c) - dec.comps[c].v0

Chained(c) == \A l \in 1 .. NL(dec, c) - 1 : Supplies(c, l)
Levels(c) == \A l \in 1 .. NL(dec, c) : LevelOK(c, l)
RowOK(c) == nextRow[c] \in Nat /\ V0(dec, c, 0) <= nextRow[c] /\ nextRow[c] <= V1(dec, c, 0)

PullOK(c) == Levels(c) /\ RowOK(c) /\ FramesOK(c) /\ Chained(c) /\ Drawn(c) /\ Paced(c)

Domains ==
  /\ DOMAIN idwt = Comps /\ \A c \in Comps : DOMAIN idwt[c] = 1 .. NL(dec, c)
  /\ DOMAIN nextRow = Comps /\ DOMAIN calls = Comps /\ DOMAIN pulled = Comps

-----------------------------------------------------------------------------

\* What is known of a level's cursors.
LEMMA LevelIs ==
  ASSUME ShapeOK, NEW c \in Comps, NEW l \in 1 .. NL(dec, c), LevelOK(c, l)
  PROVE  LET s == idwt[c][l] IN
         /\ V0(dec, c, l) \in Nat /\ V1(dec, c, l) \in Nat /\ V0(dec, c, l) <= V1(dec, c, l)
         /\ s.v0 = V0(dec, c, l) /\ s.v1 = V1(dec, c, l)
         /\ s.nextIn \in Nat /\ s.nextOut \in Nat /\ ReadAt(c, l) \in Nat
         /\ V0(dec, c, l) <= s.nextOut /\ s.nextOut <= ReadAt(c, l)
         /\ ReadAt(c, l) <= V1(dec, c, l)
         /\ (PassThrough(s) /\ ReadAt(c, l) = s.nextOut) \/ (~ PassThrough(s) /\ ReadAt(c, l) = s.nextIn)
         /\ RingOK(s) /\ NL(dec, c) \in Nat
         /\ dec.comps[c].dirs[l] \in {"BIDIR", "HORZ", "NO"}
<1> DEFINE s == idwt[c][l]
<1>1. dec \in Shapes /\ c \in 1 .. Len(dec.comps)
  BY DEF ShapeOK, Comps
<1>2. NL(dec, c) \in Nat
  BY <1>1, LevelRows
<1>3. l \in 0 .. NL(dec, c)
  BY <1>2
<1>4. /\ V0(dec, c, l) \in Nat /\ V1(dec, c, l) \in Nat /\ V0(dec, c, l) <= V1(dec, c, l)
      /\ dec.comps[c].dirs[l] \in {"BIDIR", "HORZ", "NO"}
  BY <1>1, <1>3, LevelRows
<1>5. RingOK(s) /\ s.v0 = V0(dec, c, l) /\ s.v1 = V1(dec, c, l)
  BY DEF LevelOK
<1> PICK V : s \in Rings(V)
  BY <1>5 DEF RingOK, RingType
<1>6. s.nextIn \in Nat /\ s.nextOut \in Nat /\ s.origin \in Nat
  BY DEF Rings
<1>7. /\ s.v0 <= s.nextOut /\ s.nextOut <= s.v1 /\ s.nextIn <= s.v1
      /\ PassThrough(s) \/ s.nextOut <= s.nextIn
  BY <1>4, <1>5, <1>6 DEF RingOK
<1>8. ReadAt(c, l) = IF PassThrough(s) THEN s.nextOut ELSE s.nextIn
  BY DEF ReadAt, Wanted
<1> HIDE DEF s
<1> QED
  BY <1>2, <1>4, <1>5, <1>6, <1>7, <1>8 DEF s

-----------------------------------------------------------------------------
(* Frames. *)

\* Front and last of a sequence.
LEMMA FrontIs ==
  ASSUME NEW S, NEW s \in Seq(S), s # <<>>
  PROVE  /\ Front(s) \in Seq(S) /\ Len(Front(s)) = Len(s) - 1 /\ Last(s) = s[Len(s)]
         /\ \A i \in 1 .. Len(s) - 1 : Front(s)[i] = s[i]
         /\ Len(s) \in Nat \ {0} /\ Last(s) \in S
<1>1. Len(s) \in Nat \ {0} /\ Last(s) = s[Len(s)] /\ Last(s) \in S
  BY DEF Last
<1>2. Front(s) = SubSeq(s, 1, Len(s) - 1)
  BY DEF Front
<1> DEFINE n == Len(s) - 1
<1>a. n \in Nat /\ \A i \in 1 .. n : s[i] \in S
  BY <1>1
<1> HIDE DEF n
<1>3. SubSeq(s, 1, n) \in Seq(S) /\ Len(SubSeq(s, 1, n)) = n
  <2>1. Len(SubSeq(s, 1, n)) = IF 1 <= n THEN n - 1 + 1 ELSE 0
    BY <1>a, SubSeqProperties
  <2> QED
    BY <1>a, <2>1, SubSeqProperties
<1>4. \A i \in 1 .. n : SubSeq(s, 1, n)[i] = s[i]
  <2>1. \A i \in 1 .. n - 1 + 1 : SubSeq(s, 1, n)[i] = s[1 + i - 1]
    BY <1>a, SubSeqProperties
  <2>2. \A i \in 1 .. n : i \in 1 .. n - 1 + 1 /\ 1 + i - 1 = i
    BY <1>a
  <2> QED
    BY <2>1, <2>2
<1> QED
  BY <1>1, <1>2, <1>3, <1>4 DEF n

\* What is known of a component's frames.
LEMMA FramesAre ==
  ASSUME ShapeOK, NEW c \in Comps, FramesOK(c)
  PROVE  /\ \E S : Frames(c) \in Seq([lvl : Nat, low : S])
         /\ Frames(c) # <<>> /\ Len(Frames(c)) \in Nat
         /\ \A i \in 1 .. Len(Frames(c)) : Frames(c)[i].lvl = NL(dec, c) + 1 - i
         /\ Last(Frames(c)) = Frames(c)[Len(Frames(c))]
         /\ Last(Frames(c)).lvl = NL(dec, c) + 1 - Len(Frames(c))
         /\ NL(dec, c) = 0 => Len(Frames(c)) = 1 /\ Last(Frames(c)).lvl = 0
         /\ NL(dec, c) # 0 => Last(Frames(c)).lvl \in 1 .. NL(dec, c)
         /\ NL(dec, c) \in Nat
<1>1. NL(dec, c) \in Nat
  BY LevelRows DEF ShapeOK, Comps
<1>2. PICK S : calls[c] \in Seq([lvl : Nat, low : S])
  BY DEF FramesOK
<1>3. /\ Len(calls[c]) \in Nat /\ Len(calls[c]) <= NL(dec, c)
      /\ \A i \in 1 .. Len(calls[c]) : calls[c][i].lvl = NL(dec, c) + 1 - i
  BY <1>2 DEF FramesOK
<1>4. CASE calls[c] = <<>>
  <2>1. Frames(c) = <<[lvl |-> NL(dec, c), low |-> NoRow]>>
    BY <1>4 DEF Frames, Frame
  <2> DEFINE f == [lvl |-> NL(dec, c), low |-> NoRow]
  <2>a. f \in [lvl : Nat, low : {NoRow}] /\ f.lvl = NL(dec, c)
    BY <1>1
  <2> HIDE DEF f
  <2>b. <<f>> \in Seq([lvl : Nat, low : {NoRow}]) /\ Len(<<f>>) = 1 /\ <<f>> # <<>> /\ <<f>>[1] = f
    BY <2>a
  <2>2. Frames(c) \in Seq([lvl : Nat, low : {NoRow}]) /\ Len(Frames(c)) = 1 /\ Frames(c) # <<>>
        /\ Frames(c)[1].lvl = NL(dec, c)
    BY <2>1, <2>a, <2>b DEF f
  <2>3. Last(Frames(c)) = Frames(c)[1]
    BY <2>2 DEF Last
  <2>4. \A i \in 1 .. Len(Frames(c)) : i = 1 /\ NL(dec, c) + 1 - i = NL(dec, c)
    BY <1>1, <2>2
  <2>5. Last(Frames(c)).lvl = NL(dec, c) /\ NL(dec, c) + 1 - Len(Frames(c)) = NL(dec, c)
    BY <1>1, <2>2, <2>3
  <2>6. NL(dec, c) # 0 => NL(dec, c) \in 1 .. NL(dec, c)
    BY <1>1
  <2>7. \E T : Frames(c) \in Seq([lvl : Nat, low : T])
    BY <2>2
  <2>8. \A i \in 1 .. Len(Frames(c)) : Frames(c)[i].lvl = NL(dec, c) + 1 - i
    BY <2>2, <2>4
  <2>9. NL(dec, c) # 0 => Last(Frames(c)).lvl \in 1 .. NL(dec, c)
    BY <2>5, <2>6
  <2>10. Last(Frames(c)) = Frames(c)[Len(Frames(c))]
    BY <2>2, <2>3
  <2>11. Last(Frames(c)).lvl = NL(dec, c) + 1 - Len(Frames(c))
    BY <2>5
  <2>12. Len(Frames(c)) \in Nat /\ Len(Frames(c)) = 1 /\ Frames(c) # <<>>
    BY <2>2
  <2>13. NL(dec, c) = 0 => Last(Frames(c)).lvl = 0
    BY <2>5
  <2> QED
    BY <1>1, <2>7, <2>8, <2>9, <2>10, <2>11, <2>12, <2>13, Zenon
<1>5. CASE calls[c] # <<>>
  <2>1. Frames(c) = calls[c]
    BY <1>5 DEF Frames
  <2>2. Len(calls[c]) # 0
    BY <1>2, <1>5
  <2>3. Last(Frames(c)) = Frames(c)[Len(Frames(c))]
    BY <2>1 DEF Last
  <2>4. Len(calls[c]) \in 1 .. Len(calls[c]) /\ NL(dec, c) # 0
    BY <1>1, <1>3, <2>2
  <2>5. Last(Frames(c)).lvl = NL(dec, c) + 1 - Len(calls[c])
    BY <1>3, <2>1, <2>3, <2>4
  <2>6. NL(dec, c) + 1 - Len(calls[c]) \in 1 .. NL(dec, c)
    BY <1>1, <1>3, <2>4
  <2> QED
    BY <1>1, <1>2, <1>3, <1>5, <2>1, <2>3, <2>4, <2>5, <2>6
<1> QED
  BY <1>4, <1>5

\* What a return does to the frames: the level on top is gone, and at most the
\* level above it has a row it had not.
Passes(c, l) ==
  /\ \A m \in 1 .. NL(dec, c) : HasLow(c, m)' => HasLow(c, m) \/ m = l + 1
  /\ ~ HasLow(c, l)'

\* Nothing of another component moves.
OnlyIn(c, f) == DOMAIN f' = Comps /\ \A d \in Comps : d # c => f'[d] = f[d]

\* The frame of the finest level is alone.
LEMMA OneFrame ==
  ASSUME ShapeOK, NEW c \in Comps, FramesOK(c)
  PROVE  /\ Len(Frames(c)) = 1 <=> Last(Frames(c)).lvl = NL(dec, c)
         /\ Len(Frames(c)) # 1 => Frames(c) = calls[c] /\ Len(Frames(c)) > 1
         /\ Len(Frames(c)) <= NL(dec, c) + 1
<1>1. /\ Len(Frames(c)) \in Nat /\ NL(dec, c) \in Nat
      /\ Last(Frames(c)).lvl = NL(dec, c) + 1 - Len(Frames(c))
  BY FramesAre, Zenon
<1>7. Frames(c) # <<>> /\ \E S : Frames(c) \in Seq([lvl : Nat, low : S])
  BY FramesAre, Zenon
<1>2. Len(Frames(c)) > 0
  <2> PICK S : Frames(c) \in Seq([lvl : Nat, low : S])
    BY <1>7
  <2> DEFINE X == [lvl : Nat, low : S]
             F == Frames(c)
  <2>1. F \in Seq(X) /\ F # <<>>
    BY <1>7
  <2> HIDE DEF X, F
  <2>2. Len(F) > 0
    BY <2>1
  <2> QED
    BY <2>2 DEF F
<1>3. calls[c] = <<>> => Len(Frames(c)) = 1
  <2> DEFINE f == Frame(NL(dec, c))
  <2>1. calls[c] = <<>> => Frames(c) = <<f>>
    BY DEF Frames
  <2> HIDE DEF f
  <2>2. Len(<<f>>) = 1
    OBVIOUS
  <2> QED
    BY <2>1, <2>2
<1>4. calls[c] # <<>> => Frames(c) = calls[c]
  BY DEF Frames
<1>5. Len(calls[c]) <= NL(dec, c)
  BY DEF FramesOK
<1> DEFINE m == Len(Frames(c))
           n == NL(dec, c)
           k == Len(calls[c])
<1>6. k <= n /\ (m = 1 \/ m = k)
  BY <1>3, <1>4, <1>5, Zenon
<1>8. m # 1 => Frames(c) = calls[c]
  BY <1>3, <1>4, Zenon
<1>9. m \in Nat /\ n \in Nat /\ m > 0 /\ Last(Frames(c)).lvl = n + 1 - m
  BY <1>1, <1>2, Zenon
<1> HIDE DEF m, n, k
<1>10. m <= n + 1 /\ (m # 1 => m > 1)
  BY <1>6, <1>9
<1>11. m = 1 <=> Last(Frames(c)).lvl = n
  BY <1>9
<1> QED
  BY <1>8, <1>10, <1>11, Zenon DEF m, n

\* What returning a row does to the frames and to the strip.
LEMMA ReturnDoes ==
  ASSUME ShapeOK, Domains, NEW c \in Comps, FramesOK(c), Len(pulled[c]) < counts[c],
         dec' = dec, counts' = counts, NEW val, Return(c, val),
         NEW l, l = Last(Frames(c)).lvl
  PROVE  /\ FramesOK(c)' /\ Passes(c, l) /\ OnlyIn(c, calls) /\ OnlyIn(c, pulled)
         /\ IF l = NL(dec, c) THEN Len(pulled'[c]) = Len(pulled[c]) + 1
            ELSE pulled'[c] = pulled[c]
<1> DEFINE F == Frames(c)
           n == NL(dec, c)
<1>1. PICK S : F \in Seq([lvl : Nat, low : S])
  BY FramesAre, Zenon
<1>2. /\ n \in Nat /\ Len(F) \in Nat /\ F # <<>> /\ l = n + 1 - Len(F)
      /\ \A i \in 1 .. Len(F) : F[i].lvl = n + 1 - i
  BY FramesAre, Zenon
<1> DEFINE X == [lvl : Nat, low : S]
<1>3. /\ Len(F) = 1 <=> l = n
      /\ Len(F) # 1 => F = calls[c] /\ Len(F) > 1
      /\ Len(F) <= n + 1
  BY OneFrame
<1>4. PICK T : pulled[c] \in Seq(T)
  BY DEF FramesOK
<1>5. /\ DOMAIN calls = Comps /\ DOMAIN pulled = Comps /\ counts[c] \in Nat
  BY DEF Domains, FramesOK
<1> DEFINE callers == Front(F)
<1>6. /\ callers \in Seq([lvl : Nat, low : S]) /\ Len(callers) = Len(F) - 1
      /\ \A i \in 1 .. Len(F) - 1 : callers[i] = F[i]
  BY <1>1, <1>2, FrontIs
<1>7. Return(c, val) <=>
        IF callers = <<>>
          THEN /\ calls'  = [calls EXCEPT ![c] = <<>>]
               /\ pulled' = [pulled EXCEPT ![c] = Append(@, val)]
        ELSE /\ calls' = [calls EXCEPT ![c] = [callers EXCEPT ![Len(callers)].low = val]]
             /\ UNCHANGED pulled
  BY DEF Return
<1>8. callers = <<>> <=> Len(F) = 1
  <2>1. callers \in Seq(X) /\ Len(callers) = Len(F) - 1 /\ Len(F) \in Nat
    BY <1>2, <1>6
  <2> HIDE DEF callers, X, F
  <2>2. callers = <<>> <=> Len(callers) = 0
    BY <2>1
  <2> QED
    BY <2>1, <2>2
<1> HIDE DEF F, n, callers
<1>a. NL(dec', c) = n /\ NL(dec, c) = n
  BY DEF n
<1>9. CASE Len(F) = 1
  <2>1. /\ calls'  = [calls EXCEPT ![c] = <<>>]
        /\ pulled' = [pulled EXCEPT ![c] = Append(pulled[c], val)]
    BY <1>7, <1>8, <1>9
  <2>2. calls'[c] = <<>> /\ pulled'[c] = Append(pulled[c], val)
    BY <1>5, <2>1
  <2>3. /\ Append(pulled[c], val) \in Seq(T \cup {val})
        /\ Len(Append(pulled[c], val)) = Len(pulled[c]) + 1 /\ Len(pulled[c]) \in Nat
    BY <1>4
  <2>4. OnlyIn(c, calls) /\ OnlyIn(c, pulled)
    BY <1>5, <2>1 DEF OnlyIn
  <2>5. calls'[c] \in Seq([lvl : Nat, low : S]) /\ Len(calls'[c]) = 0
    BY <2>2
  <2>6. \A i \in 1 .. Len(calls'[c]) : calls'[c][i].lvl = NL(dec', c) + 1 - i
    BY <2>5
  <2>7. Len(calls'[c]) <= NL(dec', c) /\ Len(pulled'[c]) <= counts'[c] /\ counts'[c] \in Nat
    BY <1>2, <1>5, <1>a, <2>2, <2>3, <2>5
  <2>8. FramesOK(c)'
    BY <2>2, <2>3, <2>5, <2>6, <2>7, Zenon DEF FramesOK
  <2>9. \A m : ~ HasLow(c, m)'
    BY <2>5 DEF HasLow
  <2> QED
    BY <1>3, <1>9, <1>a, <2>2, <2>3, <2>4, <2>8, <2>9 DEF Passes
<1>10. CASE Len(F) # 1
  <2> DEFINE e == Len(callers)
             new == [callers EXCEPT ![e].low = val]
  <2>1. calls' = [calls EXCEPT ![c] = new] /\ pulled' = pulled
    BY <1>7, <1>8, <1>10
  <2>2. calls'[c] = new
    BY <1>5, <2>1
  <2>3. OnlyIn(c, calls) /\ OnlyIn(c, pulled)
    BY <1>5, <2>1 DEF OnlyIn
  <2>4. e \in 1 .. Len(callers) /\ callers[e] \in [lvl : Nat, low : S] /\ Len(callers) \in Nat
    <3>1. Len(callers) \in Nat \ {0}
      BY <1>2, <1>3, <1>6, <1>10
    <3>2. callers \in Seq(X) /\ e = Len(callers)
      BY <1>6
    <3> HIDE DEF X, e
    <3>3. e \in 1 .. Len(callers) /\ callers[e] \in X
      BY <3>1, <3>2
    <3> QED
      BY <3>1, <3>3 DEF X
  <2>5. /\ new \in Seq([lvl : Nat, low : S \cup {val}]) /\ Len(new) = Len(callers)
        /\ \A i \in 1 .. Len(callers) : new[i].lvl = callers[i].lvl
        /\ \A i \in 1 .. Len(callers) : i # e => new[i].low = callers[i].low
    <3>1. [callers[e] EXCEPT !.low = val] \in [lvl : Nat, low : S \cup {val}]
          /\ [callers[e] EXCEPT !.low = val].lvl = callers[e].lvl
      BY <2>4
    <3> DEFINE r == [callers[e] EXCEPT !.low = val]
    <3>2. new = [callers EXCEPT ![e] = r]
      OBVIOUS
    <3>3. callers \in Seq([lvl : Nat, low : S \cup {val}])
      <4> DEFINE Y == [lvl : Nat, low : S \cup {val}]
      <4>1. callers \in Seq(X) /\ \A x \in X : x \in Y
        BY <1>6
      <4> HIDE DEF X, Y
      <4>2. callers \in Seq(Y)
        BY <4>1
      <4> QED
        BY <4>2 DEF Y
    <3>4. r \in [lvl : Nat, low : S \cup {val}] /\ r.lvl = callers[e].lvl
      BY <3>1
    <3> HIDE DEF r, new
    <3> QED
      BY <2>4, <3>2, <3>3, <3>4
  <2> HIDE DEF new, e
  <2>6. \A i \in 1 .. Len(calls'[c]) : calls'[c][i].lvl = NL(dec', c) + 1 - i
    <3> SUFFICES ASSUME NEW i \in 1 .. Len(calls'[c])
                 PROVE  calls'[c][i].lvl = NL(dec', c) + 1 - i
      OBVIOUS
    <3>1. i \in 1 .. Len(callers) /\ i \in 1 .. Len(F) - 1 /\ i \in 1 .. Len(F)
      BY <1>2, <1>6, <2>2, <2>5
    <3>2. calls'[c][i].lvl = callers[i].lvl /\ callers[i] = F[i]
      BY <1>6, <2>2, <2>5, <3>1
    <3> QED
      BY <1>2, <1>a, <3>1, <3>2
  <2>7. Len(calls'[c]) <= NL(dec', c)
    <3>1. Len(calls'[c]) = Len(F) - 1
      BY <1>6, <2>2, <2>5
    <3> QED
      BY <1>2, <1>3, <1>a, <3>1
  <2>8. /\ pulled'[c] \in Seq(T) /\ Len(pulled'[c]) < counts'[c] /\ counts'[c] \in Nat
        /\ Len(pulled'[c]) <= counts'[c]
    BY <1>4, <1>5, <2>1
  <2>9. \E R : calls'[c] \in Seq([lvl : Nat, low : R])
    BY <2>2, <2>5
  <2>10. FramesOK(c)'
    BY <2>6, <2>7, <2>8, <2>9, Zenon DEF FramesOK
  <2>11. ASSUME NEW m \in 1 .. n, HasLow(c, m)' PROVE HasLow(c, m) \/ m = l + 1
    <3> DEFINE i == n + 1 - m
    <3>1. At(c, m) = i /\ At(c, m)' = i
      BY <1>a DEF At
    <3>2. i \in 1 .. Len(calls'[c]) /\ calls'[c][i].low # NoRow
      BY <2>11, <3>1 DEF HasLow
    <3>3. i \in 1 .. Len(F) - 1
      BY <1>6, <2>2, <2>5, <3>2
    <3>4. CASE i = e
      BY <1>2, <1>6, <3>4 DEF e
    <3>5. CASE i # e
      <4>1. calls'[c][i].low = F[i].low
        BY <1>6, <2>2, <2>5, <3>3, <3>5
      <4>2. i \in 1 .. Len(calls[c]) /\ calls[c][i].low # NoRow
        BY <1>2, <1>3, <1>10, <3>2, <3>3, <4>1
      <4> QED
        BY <3>1, <4>2 DEF HasLow
    <3> QED
      BY <3>4, <3>5
  <2>12. ~ HasLow(c, l)'
    <3>1. At(c, l)' = n + 1 - l
      BY <1>a DEF At
    <3>2. ~ (n + 1 - l \in 1 .. Len(calls'[c]))
      BY <1>2, <1>6, <2>2, <2>5
    <3> QED
      BY <3>1, <3>2 DEF HasLow
  <2>13. Passes(c, l)
    BY <1>a, <2>11, <2>12 DEF Passes
  <2>14. l # n
    BY <1>3, <1>10
  <2> QED
    BY <1>a, <2>1, <2>3, <2>10, <2>13, <2>14 DEF F
<1> QED
  BY <1>9, <1>10

\* The zeroed tail fills a strip.
LEMMA JunkTail ==
  ASSUME NEW S, NEW s \in Seq(S), NEW n \in Nat, Len(s) <= n
  PROVE  /\ s \o [i \in 1 .. n - Len(s) |-> Junk] \in Seq(S \cup {Junk})
         /\ Len(s \o [i \in 1 .. n - Len(s) |-> Junk]) = n
<1> DEFINE k == n - Len(s)
           t == [i \in 1 .. k |-> Junk]
           T == S \cup {Junk}
<1>1. k \in Nat /\ Junk \in T /\ Len(s) + k = n
  OBVIOUS
<1>2. s \in Seq(T)
  OBVIOUS
<1> HIDE DEF k, T
<1>3. t \in Seq(T) /\ Len(t) = k
  BY <1>1
<1> HIDE DEF t
<1>4. s \o t \in Seq(T) /\ Len(s \o t) = Len(s) + k
  BY <1>2, <1>3
<1> QED
  BY <1>1, <1>4 DEF t, k, T

\* What returning null does to the frames and to the strip.
LEMMA ReturnNullDoes ==
  ASSUME ShapeOK, Domains, NEW c \in Comps, FramesOK(c), Len(pulled[c]) < counts[c],
         dec' = dec, counts' = counts, ReturnNull(c),
         NEW l, l = Last(Frames(c)).lvl
  PROVE  /\ FramesOK(c)' /\ Passes(c, l) /\ OnlyIn(c, calls) /\ OnlyIn(c, pulled)
         /\ IF l = NL(dec, c) THEN Len(pulled'[c]) = counts[c]
            ELSE pulled'[c] = pulled[c]
<1>1. /\ Len(Frames(c)) = 1 <=> l = NL(dec, c)
      /\ Len(Frames(c)) # 1 => Len(Frames(c)) > 1
  BY OneFrame, Zenon
<1>2. CASE Len(Frames(c)) # 1
  <2>1. Len(Frames(c)) > 1 /\ l # NL(dec, c)
    BY <1>1, <1>2, Zenon
  <2>2. Return(c, Junk)
    BY <2>1, Zenon DEF ReturnNull
  <2> QED
    BY <2>1, <2>2, ReturnDoes, Zenon
<1>3. CASE Len(Frames(c)) = 1
  <2>1. ~ (Len(Frames(c)) > 1)
    BY <1>3
  <2>2. /\ pulled' = [pulled EXCEPT ![c] = @ \o [i \in 1 .. counts[c] - Len(@) |-> Junk]]
        /\ calls'  = [calls EXCEPT ![c] = <<>>]
    BY <2>1 DEF ReturnNull
  <2> DEFINE new == pulled[c] \o [i \in 1 .. counts[c] - Len(pulled[c]) |-> Junk]
  <2>3. DOMAIN calls = Comps /\ DOMAIN pulled = Comps
    BY DEF Domains
  <2>4. PICK T : pulled[c] \in Seq(T)
    BY DEF FramesOK
  <2>5. counts[c] \in Nat
    BY DEF FramesOK
  <2>6. new \in Seq(T \cup {Junk}) /\ Len(new) = counts[c]
    <3>1. Len(pulled[c]) <= counts[c]
      BY DEF FramesOK
    <3> QED
      BY <2>4, <2>5, <3>1, JunkTail
  <2>7. pulled' = [pulled EXCEPT ![c] = new]
    BY <2>2
  <2> HIDE DEF new
  <2>8. pulled'[c] = new /\ calls'[c] = <<>> /\ OnlyIn(c, calls) /\ OnlyIn(c, pulled)
    BY <2>2, <2>3, <2>7 DEF OnlyIn
  <2>9. /\ Len(calls'[c]) = 0 /\ \A m : ~ (m \in 1 .. Len(calls'[c]))
        /\ calls'[c] \in Seq([lvl : Nat, low : {}])
    BY <2>8
  <2>10. NL(dec', c) \in Nat
    BY LevelRows DEF ShapeOK, Comps
  <2>11. 0 <= NL(dec', c) /\ counts[c] <= counts[c]
    BY <2>5, <2>10
  <2>12. FramesOK(c)'
    BY <2>5, <2>6, <2>8, <2>9, <2>11, Zenon DEF FramesOK
  <2>13. Passes(c, l)
    BY <2>9, Zenon DEF Passes, HasLow
  <2>14. l = NL(dec, c)
    BY <1>1, <1>3
  <2> QED
    BY <2>6, <2>8, <2>12, <2>13, <2>14, Zenon
<1> QED
  BY <1>2, <1>3

\* What a sequence of frames is once a fresh frame of level m is on top of it.
FrameAdded(q, m, new, S) ==
  /\ new \in Seq([lvl : Nat, low : S \cup {NoRow}])
  /\ Len(new) = Len(q) + 1 /\ Len(q) \in Nat
  /\ \A i \in 1 .. Len(q) : new[i] = q[i]
  /\ new[Len(q) + 1].lvl = m
  /\ new[Len(q) + 1].low = NoRow

\* A level calls the one below, or has used what that one returned.
LEMMA FramesGrow ==
  ASSUME NEW S, NEW q \in Seq([lvl : Nat, low : S]), NEW m \in Nat
  PROVE  FrameAdded(q, m, Append(q, Frame(m)), S)
<1> DEFINE X == [lvl : Nat, low : S]
           Y == [lvl : Nat, low : S \cup {NoRow}]
           f == Frame(m)
<1>1. f \in Y /\ f.lvl = m /\ f.low = NoRow /\ \A x \in X : x \in Y
  BY DEF Frame
<1>2. q \in Seq(X)
  OBVIOUS
<1> HIDE DEF X, Y, f
<1>3. q \in Seq(Y)
  BY <1>1, <1>2
<1>4. /\ Append(q, f) \in Seq(Y) /\ Len(Append(q, f)) = Len(q) + 1 /\ Len(q) \in Nat
      /\ \A i \in 1 .. Len(q) : Append(q, f)[i] = q[i]
      /\ Append(q, f)[Len(q) + 1] = f
  BY <1>1, <1>3
<1> QED
  BY <1>1, <1>4 DEF FrameAdded, Y, f

\* Calling the child level adds a frame.
LEMMA ChildDoes ==
  ASSUME ShapeOK, Domains, NEW c \in Comps, FramesOK(c), Len(pulled[c]) < counts[c],
         dec' = dec, counts' = counts, pulled' = pulled, NEW l, l = Last(Frames(c)).lvl,
         l > 1, Last(Frames(c)).low = NoRow, NL(dec, c) # 0,
         calls' = [calls EXCEPT ![c] = Append(Frames(c), Frame(l - 1))]
  PROVE  /\ FramesOK(c)' /\ OnlyIn(c, calls) /\ ~ HasLow(c, l)'
         /\ \A m \in 1 .. NL(dec, c) : HasLow(c, m)' => HasLow(c, m)
<1> DEFINE F == Frames(c)
           n == NL(dec, c)
           new == Append(F, Frame(l - 1))
<1>1. PICK S : F \in Seq([lvl : Nat, low : S])
  BY FramesAre, Zenon
<1>2. /\ n \in Nat /\ Len(F) \in Nat /\ l = n + 1 - Len(F) /\ Last(F) = F[Len(F)]
      /\ \A i \in 1 .. Len(F) : F[i].lvl = n + 1 - i
  BY FramesAre, Zenon
<1>3. /\ l \in 1 .. n
      /\ calls[c] # <<>> => F = calls[c]
  <2>1. l \in 1 .. n
    BY FramesAre, Zenon
  <2> QED
    BY <2>1 DEF Frames
<1>4. calls[c] = <<>> => Len(F) = 1
  <2> DEFINE f == Frame(NL(dec, c))
  <2>1. calls[c] = <<>> => F = <<f>>
    BY DEF Frames
  <2> HIDE DEF f, F
  <2> QED
    BY <2>1
<1>5. /\ DOMAIN calls = Comps /\ \E T : pulled[c] \in Seq(T)
      /\ Len(pulled[c]) <= counts[c] /\ counts[c] \in Nat
  BY DEF Domains, FramesOK
<1>6. calls' = [calls EXCEPT ![c] = new] /\ calls'[c] = new
  BY <1>5
<1>7. OnlyIn(c, calls)
  BY <1>5, <1>6 DEF OnlyIn
<1>8. l - 1 \in Nat /\ l - 1 = n + 1 - (Len(F) + 1) /\ Len(F) + 1 <= n
  BY <1>2, <1>3
<1>b. F[Len(F)].low = NoRow
  BY <1>2
<1> HIDE DEF F
<1>9. /\ new \in Seq([lvl : Nat, low : S \cup {NoRow}]) /\ Len(new) = Len(F) + 1
      /\ \A i \in 1 .. Len(F) : new[i] = F[i]
      /\ new[Len(F) + 1].lvl = l - 1 /\ new[Len(F) + 1].low = NoRow
  <2>1. FrameAdded(F, l - 1, new, S)
    BY <1>1, <1>8, FramesGrow, Zenon
  <2> QED
    BY <2>1, Zenon DEF FrameAdded
<1> HIDE DEF new, n
<1>10. ASSUME NEW i \in 1 .. Len(new) PROVE new[i].lvl = n + 1 - i
  <2>1. i \in 1 .. Len(F) \/ i = Len(F) + 1
    BY <1>2, <1>9
  <2> QED
    BY <1>2, <1>8, <1>9, <2>1
<1>11. FramesOK(c)'
  <2>1. \A i \in 1 .. Len(calls'[c]) : calls'[c][i].lvl = NL(dec', c) + 1 - i
    BY <1>6, <1>10, Zenon DEF n
  <2>2. Len(calls'[c]) <= NL(dec', c)
    BY <1>6, <1>8, <1>9 DEF n
  <2>3. \E R : calls'[c] \in Seq([lvl : Nat, low : R])
    BY <1>6, <1>9, Zenon
  <2> QED
    BY <1>5, <2>1, <2>2, <2>3, Zenon DEF FramesOK
<1>12. ASSUME NEW m \in 1 .. n, HasLow(c, m)'
       PROVE  HasLow(c, m) /\ m # l
  <2> DEFINE i == n + 1 - m
  <2>1. At(c, m) = i /\ At(c, m)' = i
    BY DEF At, n
  <2>2. i \in 1 .. Len(new) /\ new[i].low # NoRow
    BY <1>6, <1>12, <2>1 DEF HasLow
  <2>3. i \in 1 .. Len(F) /\ new[i] = F[i]
    <3>1. i \in 1 .. Len(F) + 1 /\ i # Len(F) + 1
      BY <1>9, <2>2
    <3> DEFINE k == Len(F)
    <3>2. k \in Nat /\ i \in 1 .. k + 1 /\ i # k + 1
      BY <1>2, <3>1
    <3> HIDE DEF k
    <3>3. i \in 1 .. k
      BY <3>2
    <3> QED
      BY <1>9, <3>3 DEF k
  <2>4. i # Len(F)
    BY <1>b, <2>2, <2>3
  <2>5. calls[c] # <<>>
    <3> SUFFICES ASSUME calls[c] = <<>> PROVE FALSE
      OBVIOUS
    <3>1. Len(F) = 1
      BY <1>4
    <3> QED
      BY <2>3, <2>4, <3>1
  <2>6. i \in 1 .. Len(calls[c]) /\ calls[c][i].low # NoRow
    BY <1>3, <2>2, <2>3, <2>5 DEF F
  <2>7. m # l
    BY <1>2, <2>4
  <2> QED
    BY <2>1, <2>6, <2>7 DEF HasLow
<1>13. ~ HasLow(c, l)'
  BY <1>3, <1>12 DEF n
<1> QED
  BY <1>7, <1>11, <1>12, <1>13 DEF n

\* Using the child's row clears it from its frame.
LEMMA UsedDoes ==
  ASSUME ShapeOK, Domains, NEW c \in Comps, FramesOK(c), Len(pulled[c]) < counts[c],
         dec' = dec, counts' = counts, pulled' = pulled, NEW l, l = Last(Frames(c)).lvl,
         NL(dec, c) # 0,
         calls' = [calls EXCEPT ![c] = Append(Front(Frames(c)), Frame(l))]
  PROVE  /\ FramesOK(c)' /\ OnlyIn(c, calls) /\ ~ HasLow(c, l)'
         /\ \A m \in 1 .. NL(dec, c) : HasLow(c, m)' => HasLow(c, m)
<1> DEFINE F == Frames(c)
           n == NL(dec, c)
           q == Front(F)
           new == Append(q, Frame(l))
<1>1. PICK S : F \in Seq([lvl : Nat, low : S])
  BY FramesAre, Zenon
<1>2. /\ n \in Nat /\ Len(F) \in Nat /\ l = n + 1 - Len(F) /\ F # <<>>
      /\ \A i \in 1 .. Len(F) : F[i].lvl = n + 1 - i
  BY FramesAre, Zenon
<1>3. /\ l \in 1 .. n
      /\ calls[c] # <<>> => F = calls[c]
  <2>1. l \in 1 .. n
    BY FramesAre, Zenon
  <2> QED
    BY <2>1 DEF Frames
<1>4. calls[c] = <<>> => Len(F) = 1
  <2> DEFINE f == Frame(NL(dec, c))
  <2>1. calls[c] = <<>> => F = <<f>>
    BY DEF Frames
  <2> HIDE DEF f, F
  <2> QED
    BY <2>1
<1>5. /\ DOMAIN calls = Comps /\ \E T : pulled[c] \in Seq(T)
      /\ Len(pulled[c]) <= counts[c] /\ counts[c] \in Nat
  BY DEF Domains, FramesOK
<1>6. calls' = [calls EXCEPT ![c] = new] /\ calls'[c] = new
  BY <1>5
<1>7. OnlyIn(c, calls)
  BY <1>5, <1>6 DEF OnlyIn
<1> HIDE DEF F
<1>8. /\ q \in Seq([lvl : Nat, low : S]) /\ Len(q) = Len(F) - 1
      /\ \A i \in 1 .. Len(F) - 1 : q[i] = F[i]
  BY <1>1, <1>2, FrontIs
<1> HIDE DEF q
<1>9. l \in Nat /\ Len(F) <= n
  BY <1>2, <1>3
<1>10. /\ new \in Seq([lvl : Nat, low : S \cup {NoRow}]) /\ Len(new) = Len(q) + 1
       /\ \A i \in 1 .. Len(q) : new[i] = q[i]
       /\ new[Len(q) + 1].lvl = l /\ new[Len(q) + 1].low = NoRow
  <2>1. FrameAdded(q, l, new, S)
    BY <1>8, <1>9, FramesGrow, Zenon
  <2> QED
    BY <2>1, Zenon DEF FrameAdded
<1> HIDE DEF new, n
<1>11. Len(new) = Len(F)
  BY <1>2, <1>8, <1>10
<1>12. ASSUME NEW i \in 1 .. Len(F) PROVE new[i].lvl = n + 1 - i
  <2>1. i \in 1 .. Len(F) - 1 \/ i = Len(F)
    BY <1>2
  <2>2. CASE i = Len(F)
    BY <1>2, <1>8, <1>10, <2>2
  <2>3. CASE i \in 1 .. Len(F) - 1
    <3>1. new[i] = F[i]
      BY <1>8, <1>10, <2>3
    <3> QED
      BY <1>2, <3>1
  <2> QED
    BY <2>1, <2>2, <2>3
<1>13. FramesOK(c)'
  <2>1. \A i \in 1 .. Len(calls'[c]) : calls'[c][i].lvl = NL(dec', c) + 1 - i
    BY <1>6, <1>11, <1>12, Zenon DEF n
  <2>2. Len(calls'[c]) <= NL(dec', c)
    BY <1>6, <1>9, <1>11 DEF n
  <2>3. \E R : calls'[c] \in Seq([lvl : Nat, low : R])
    BY <1>6, <1>10, Zenon
  <2> QED
    BY <1>5, <2>1, <2>2, <2>3, Zenon DEF FramesOK
<1>14. ASSUME NEW m \in 1 .. n, HasLow(c, m)'
       PROVE  HasLow(c, m) /\ m # l
  <2> DEFINE i == n + 1 - m
  <2>1. At(c, m) = i /\ At(c, m)' = i
    BY DEF At, n
  <2>2. i \in 1 .. Len(new) /\ new[i].low # NoRow
    BY <1>6, <1>14, <2>1 DEF HasLow
  <2>3. i # Len(F)
    BY <1>2, <1>8, <1>10, <2>2, SMTT(30)
  <2>4. i \in 1 .. Len(F) - 1
    BY <1>2, <1>11, <2>2, <2>3
  <2>5. new[i] = F[i]
    BY <1>8, <1>10, <2>4
  <2>6. calls[c] # <<>>
    <3> SUFFICES ASSUME calls[c] = <<>> PROVE FALSE
      OBVIOUS
    <3>1. Len(F) = 1
      BY <1>4
    <3> QED
      BY <2>4, <3>1
  <2>7. i \in 1 .. Len(calls[c]) /\ calls[c][i].low # NoRow
    <3>1. Len(calls[c]) = Len(F) /\ calls[c][i] = F[i]
      BY <1>3, <2>6
    <3> QED
      BY <1>2, <2>2, <2>4, <2>5, <3>1
  <2>8. m # l
    BY <1>2, <2>3
  <2> QED
    BY <2>1, <2>7, <2>8 DEF HasLow
<1>15. ~ HasLow(c, l)'
  BY <1>3, <1>14 DEF n
<1> QED
  BY <1>7, <1>13, <1>14, <1>15 DEF n

-----------------------------------------------------------------------------
(* A step of a pull, as its component's levels and buffers see it. *)

TakesLow(c, l, r) == dec.comps[c].dirs[l] # "BIDIR" \/ r % 2 = 0

\* What does not change while rows are pulled.
Fixed == dec' = dec /\ geo' = geo /\ phase' = phase /\ stripY' = stripY /\ row' = row
         /\ counts' = counts

\* Level l gives a rows and reads b rows; nothing else of the component moves
\* but that the level above gets its row, or that nothing more will come.
Moves(c, l, a, b) ==
  /\ \A m \in 1 .. NL(dec, c) : LevelOK(c, m)'
  /\ \A m \in 1 .. NL(dec, c) : m # l => idwt'[c][m] = idwt[c][m]
  /\ idwt'[c][l].nextOut = idwt[c][l].nextOut + a /\ ReadAt(c, l)' = ReadAt(c, l) + b
  /\ nextRow'[c] = nextRow[c]
  /\ FramesOK(c)' /\ ~ HasLow(c, l)'
  /\ \A m \in 1 .. NL(dec, c) :
       HasLow(c, m)' => HasLow(c, m) \/ (m = l + 1 /\ (a = 1 \/ AllIn(c, l)))
  /\ Len(pulled'[c]) = Len(pulled[c])
     \/ (l = NL(dec, c) /\ (AllIn(c, l) \/ (a = 1 /\ Len(pulled'[c]) = Len(pulled[c]) + 1)))
  /\ b = 1 => /\ ReadAt(c, l) < V1(dec, c, l)
              /\ l > 1 /\ TakesLow(c, l, ReadAt(c, l)) => HasLow(c, l)
              /\ \A k \in Bufs : k[1] = c /\ IsBuf(dec, k) /\ Reader(k) = l /\ Takes(dec, k, ReadAt(c, l))
                   => ~ sync[k] /\ Holds(k, strip[k], RowIn(dec, k, ReadAt(c, l)))

\* The low-pass row advances by one exactly at the rows that take it.
LEMMA HalvedSteps ==
  \A dir : \A r \in Nat :
    Halved(dir, r + 1) = Halved(dir, r) + (IF dir # "BIDIR" \/ r % 2 = 0 THEN 1 ELSE 0)
    /\ Halved(dir, r) \in Nat
BY DEF Halved

\* More of a level has been given, and no more asked for than that.
LEMMA SuppliesStay ==
  ASSUME ShapeOK, NEW c \in Comps, NEW l \in 1 .. NL(dec, c), NEW a \in {0, 1}, NEW b \in {0, 1},
         Fixed, Levels(c), Chained(c), Moves(c, l, a, b)
  PROVE  Chained(c)'
<1> DEFINE n == NL(dec, c)
<1>1. n \in Nat /\ NL(dec', c) = n
  BY LevelRows DEF ShapeOK, Comps, Fixed
<1> SUFFICES ASSUME NEW m \in 1 .. n - 1 PROVE Supplies(c, m)'
  BY <1>1 DEF Chained
<1>2. m \in 1 .. n /\ m + 1 \in 1 .. n
  BY <1>1
<1>3. /\ idwt[c][m].nextOut \in Nat /\ ReadAt(c, m) \in Nat /\ ReadAt(c, m + 1) \in Nat
      /\ V1(dec, c, m) \in Nat
  BY <1>2, LevelIs, Zenon DEF Levels
<1>4. m # l => idwt'[c][m].nextOut = idwt[c][m].nextOut /\ ReadAt(c, m)' = ReadAt(c, m)
  BY <1>2 DEF Moves, ReadAt
<1>5. m = l => idwt'[c][m].nextOut = idwt[c][m].nextOut + a /\ ReadAt(c, m)' = ReadAt(c, m) + b
               /\ (b = 1 => ReadAt(c, m) < V1(dec, c, m))
  BY DEF Moves
<1>6. AllIn(c, m) => AllIn(c, m)'
  <2>1. V1(dec, c, m)' = V1(dec, c, m)
    BY DEF Fixed
  <2>2. m = l /\ b = 1 => ~ AllIn(c, m)
    BY <1>3, <1>5 DEF AllIn
  <2>3. b = 0 => ReadAt(c, m) + b = ReadAt(c, m)
    BY <1>3
  <2> QED
    BY <1>4, <1>5, <2>1, <2>2, <2>3 DEF AllIn
<1> DEFINE dir == dec.comps[c].dirs[m + 1]
           low == IF HasLow(c, m + 1) THEN 1 ELSE 0
           lowN == IF HasLow(c, m + 1)' THEN 1 ELSE 0
           h == Halved(dir, ReadAt(c, m + 1))
           hN == Halved(dir, ReadAt(c, m + 1)')
<1>7. Asked(c, m) = h + low /\ Asked(c, m)' = hN + lowN
  BY DEF Asked, Fixed
<1>8. h \in Nat /\ low \in {0, 1} /\ lowN \in {0, 1}
  BY <1>3, HalvedSteps
<1>9. m + 1 # l => hN = h
  <2>1. m + 1 # l => ReadAt(c, m + 1)' = ReadAt(c, m + 1)
    BY <1>2 DEF Moves, ReadAt
  <2> QED
    BY <2>1
<1>10. m + 1 = l => lowN = 0 /\ hN <= h + low
  <2> SUFFICES ASSUME m + 1 = l PROVE lowN = 0 /\ hN <= h + low
    OBVIOUS
  <2>1. ~ HasLow(c, l)' /\ ReadAt(c, l)' = ReadAt(c, l) + b
    BY DEF Moves
  <2>2. ~ HasLow(c, m + 1)'
    BY <2>1
  <2>3. CASE b = 0
    <3>1. ReadAt(c, m + 1)' = ReadAt(c, m + 1)
      BY <1>3, <2>1, <2>3
    <3> QED
      BY <1>8, <2>2, <3>1
  <2>4. CASE b = 1
    <3>1. ReadAt(c, m + 1)' = ReadAt(c, m + 1) + 1
      BY <2>1, <2>4
    <3>2. hN = h + (IF dir # "BIDIR" \/ ReadAt(c, m + 1) % 2 = 0 THEN 1 ELSE 0)
      BY <1>3, <3>1, HalvedSteps
    <3>3. dir # "BIDIR" \/ ReadAt(c, m + 1) % 2 = 0 => HasLow(c, m + 1)
      <4>1. l > 1
        BY <1>2
      <4> QED
        BY <2>4, <4>1 DEF Moves, TakesLow
    <3> HIDE DEF dir
    <3> QED
      BY <1>8, <2>2, <3>2, <3>3
  <2> QED
    BY <2>3, <2>4
<1>14. hN \in Nat
  <2>1. ReadAt(c, m + 1)' \in Nat
    <3>1. CASE m + 1 = l
      <4>1. ReadAt(c, l)' = ReadAt(c, l) + b
        BY DEF Moves
      <4>2. ReadAt(c, m + 1)' = ReadAt(c, m + 1) + b
        BY <3>1, <4>1
      <4> QED
        BY <1>3, <4>2
    <3>2. CASE m + 1 # l
      BY <1>2, <1>3, <3>2 DEF Moves, ReadAt
    <3> QED
      BY <3>1, <3>2
  <2> QED
    BY <2>1, HalvedSteps
<1>11. m + 1 # l => lowN <= low \/ (m = l /\ (a = 1 \/ AllIn(c, l)))
  <2>1. HasLow(c, m + 1)' => HasLow(c, m + 1) \/ (m + 1 = l + 1 /\ (a = 1 \/ AllIn(c, l)))
    BY <1>2 DEF Moves
  <2>2. m + 1 = l + 1 => m = l
    BY <1>2
  <2> QED
    BY <1>8, <2>1, <2>2
<1>12. AllIn(c, m) \/ h + low <= idwt[c][m].nextOut
  BY <1>7 DEF Chained, Supplies
<1>13. AllIn(c, m)' \/ hN + lowN <= idwt'[c][m].nextOut
  <2> DEFINE o == idwt[c][m].nextOut
             oN == idwt'[c][m].nextOut
  <2>1. CASE AllIn(c, m)
    BY <1>6, <2>1
  <2>2. CASE h + low <= o
    <3>0. o \in Nat /\ oN \in Nat /\ o <= oN
      BY <1>3, <1>4, <1>5
    <3>1. m = l /\ a = 1 => oN = o + 1
      BY <1>5
    <3> HIDE DEF h, hN, low, lowN, o, oN
    <3>2. ASSUME m + 1 = l PROVE hN + lowN <= oN
      BY <1>8, <1>10, <1>14, <2>2, <3>0, <3>2
    <3>3. ASSUME m + 1 # l /\ lowN <= low PROVE hN + lowN <= oN
      BY <1>8, <1>9, <1>14, <2>2, <3>0, <3>3
    <3>4. ASSUME m + 1 # l /\ m = l /\ a = 1 PROVE hN + lowN <= oN
      BY <1>8, <1>9, <1>14, <2>2, <3>0, <3>1, <3>4
    <3>5. CASE m = l /\ AllIn(c, l)
      BY <1>6, <3>5
    <3> QED
      BY <1>11, <3>2, <3>3, <3>4, <3>5 DEF oN
  <2> QED
    BY <1>12, <2>1, <2>2
<1> QED
  BY <1>7, <1>13 DEF Supplies

\* A level that has read all has read all.
LEMMA AllInStays ==
  ASSUME ShapeOK, NEW c \in Comps, NEW l \in 1 .. NL(dec, c), NEW a \in {0, 1}, NEW b \in {0, 1},
         Fixed, Levels(c), Moves(c, l, a, b), NEW m \in 1 .. NL(dec, c), AllIn(c, m)
  PROVE  AllIn(c, m)'
<1>1. ReadAt(c, m) \in Nat /\ V1(dec, c, m) \in Nat
  BY LevelIs, Zenon DEF Levels
<1>2. V1(dec, c, m)' = V1(dec, c, m)
  BY DEF Fixed
<1>3. CASE m # l
  BY <1>2, <1>3 DEF Moves, ReadAt, AllIn
<1>4. CASE m = l
  <2>1. b # 1
    BY <1>1, <1>4 DEF Moves, AllIn
  <2>2. ReadAt(c, l)' = ReadAt(c, l) + b
    BY DEF Moves
  <2>3. ReadAt(c, m)' = ReadAt(c, m)
    BY <1>1, <1>4, <2>1, <2>2
  <2> QED
    BY <1>2, <2>3 DEF AllIn
<1> QED
  BY <1>3, <1>4

\* The buffers read to the end stay in the ring while rows move.
LEMMA DrawnStays ==
  ASSUME ShapeOK, NEW c \in Comps, NEW l \in 1 .. NL(dec, c), NEW a \in {0, 1}, NEW b \in {0, 1},
         Fixed, sync' = sync, strip' = strip, Levels(c), Drawn(c), Moves(c, l, a, b)
  PROVE  Drawn(c)'
<1>0. \A k \in Bufs : /\ IsBuf(dec, k)' <=> IsBuf(dec, k)
                     /\ Holds(k, strip[k], geo[k].y1 - 1)' <=> Holds(k, strip[k], geo[k].y1 - 1)
  BY DEF Fixed, IsBuf, Holds, StripEnd
<1>1. SUFFICES ASSUME NEW k \in Bufs, k[1] = c, IsBuf(dec, k), geo[k].y0 < geo[k].y1,
                      ReadTo(k)' = geo[k].y1
               PROVE  ~ sync[k] /\ Holds(k, strip[k], geo[k].y1 - 1)
  BY <1>0 DEF Drawn, Exhausted, Fixed
<1> DEFINE r == ReadAt(c, Reader(k))
           rN == ReadAt(c, Reader(k))'
<1>2. dec \in Shapes /\ NL(dec, c) # 0
  BY LevelRows DEF ShapeOK, Comps
<1>3. Reader(k) \in 1 .. NL(dec, c)
  BY <1>1, <1>2, BufIsTriple
<1>4. r \in Nat
  BY <1>3, LevelIs, Zenon DEF Levels
<1>5. ReadTo(k) = RowIn(dec, k, r) /\ ReadTo(k)' = RowIn(dec, k, rN)
  <2>1. Reader(k)' = Reader(k)
    BY DEF Reader
  <2>2. RowIn(dec, k, r)' = RowIn(dec, k, rN)
    BY <2>1 DEF Fixed, RowIn, ReaderDir, BandRow
  <2> QED
    BY <1>1, <1>2, <2>2 DEF ReadTo, Fixed
<1>6. CASE rN = r
  BY <1>1, <1>5, <1>6 DEF Drawn, Exhausted
<1>7. CASE rN # r
  <2>1. Reader(k) = l
    BY <1>3, <1>7 DEF Moves, ReadAt
  <2>2. ReadAt(c, l)' = ReadAt(c, l) + b
    BY DEF Moves
  <2>3. b = 1 /\ rN = r + 1
    BY <1>4, <1>7, <2>1, <2>2
  <2>4. RowIn(dec, k, rN) = IF Takes(dec, k, r) THEN RowIn(dec, k, r) + 1 ELSE RowIn(dec, k, r)
    BY <1>1, <1>2, <1>4, <2>3, RowInSteps
  <2>5. CASE Takes(dec, k, r)
    <3>1. ~ sync[k] /\ Holds(k, strip[k], RowIn(dec, k, r))
      BY <1>1, <2>1, <2>3, <2>5 DEF Moves
    <3>2. RowIn(dec, k, r) \in Nat
      BY <1>1, <1>2, <1>4, RowInSteps
    <3>3. RowIn(dec, k, r) = geo[k].y1 - 1
      BY <1>1, <1>5, <2>4, <2>5, <3>2
    <3> QED
      BY <3>1, <3>3
  <2>6. CASE ~ Takes(dec, k, r)
    BY <1>1, <1>5, <2>4, <2>6 DEF Drawn, Exhausted
  <2> QED
    BY <2>5, <2>6
<1> QED
  BY <1>6, <1>7

\* The vertical step of a component and quotients by it.
LEMMA StepIs ==
  ASSUME ShapeOK, NEW c \in Comps
  PROVE  /\ Step(c) \in Nat \ {0} /\ dec.comps[c].v0 \in Nat /\ dec.comps[c].v1 \in Nat
         /\ \A y \in Nat : y \div Step(c) \in Nat /\ (y + Step(c) - 1) \div Step(c) \in Nat
<1>1. dec.comps[c] \in CompShape
  BY LevelRows DEF ShapeOK, Comps
<1>2. dec.comps[c].yr \in Nat \ {0} /\ dec.comps[c].v0 \in Nat /\ dec.comps[c].v1 \in Nat
  BY <1>1 DEF CompShape
<1>3. Step(c) \in Nat \ {0}
  BY <1>2 DEF Step
<1>4. \A s \in Nat \ {0} : \A y \in Nat : y \div s \in Nat /\ (y + s - 1) \div s \in Nat
  <2> SUFFICES ASSUME NEW s \in Nat \ {0}, NEW y \in Nat
               PROVE  y \div s \in Nat /\ (y + s - 1) \div s \in Nat
    OBVIOUS
  <2>1. y + s - 1 \in Nat
    OBVIOUS
  <2>2. \A x \in Nat : x \div s \in Nat
    OBVIOUS
  <2> QED
    BY <2>1, <2>2
<1> QED
  BY <1>2, <1>3, <1>4, Zenon

\* A component stays ahead of the driver while rows move.
LEMMA PacedStays ==
  ASSUME ShapeOK, NEW c \in Comps, NEW l \in 1 .. NL(dec, c), NEW a \in {0, 1}, NEW b \in {0, 1},
         Fixed, stripY \in Nat, row \in Nat, Levels(c), FramesOK(c), Paced(c), Moves(c, l, a, b)
  PROVE  Paced(c)'
<1>0. PICK n : n = NL(dec, c)
  OBVIOUS
<1> DEFINE o == idwt[c][n].nextOut
           oN == idwt'[c][n].nextOut
           v == dec.comps[c].v0
           p == Len(pulled[c])
           pN == Len(pulled'[c])
<1>1. n \in Nat /\ n # 0 /\ NL(dec', c) = n
  BY <1>0, LevelRows DEF ShapeOK, Comps, Fixed
<1>2. n \in 1 .. NL(dec, c)
  BY <1>0, <1>1
<1>3. o \in Nat
  BY <1>2, LevelIs, Zenon DEF Levels
<1>4. oN = IF n = l THEN o + a ELSE o
  BY <1>0, <1>2 DEF Moves
<1>5. p \in Nat
  BY DEF FramesOK
<1>6. /\ AllRead(c) <=> AllIn(c, n)
      /\ AllRead(c)' <=> AllIn(c, n)'
  BY <1>0, <1>1 DEF AllRead
<1>7. Out(c) = o /\ Out(c)' = oN
  BY <1>0, <1>1 DEF Out
<1> DEFINE x == stripY \div Step(c)
           y == (row + Step(c) - 1) \div Step(c)
<1>8. x \in Nat /\ y \in Nat /\ v \in Nat
  BY StepIs
<1>9. /\ Due(c) = IF phase = "pull" THEN x + p ELSE y
      /\ Due(c)' = IF phase = "pull" THEN x + pN ELSE y
  <2>1. Step(c)' = Step(c)
    BY DEF Fixed, Step
  <2> QED
    BY <2>1 DEF Due, Fixed
<1>10. AllIn(c, n) => AllIn(c, n)'
  BY <1>2, AllInStays, Zenon
<1>11. pN = p \/ (l = n /\ (AllIn(c, n) \/ (a = 1 /\ pN = p + 1)))
  BY <1>0 DEF Moves
<1>12. AllIn(c, n) \/ Due(c) <= o - v
  BY <1>6, <1>7 DEF Paced
<1>a. Paced(c)' <=> AllIn(c, n)' \/ Due(c)' <= oN - v
  <2>1. Paced(c)' <=> AllRead(c)' \/ Due(c)' <= Out(c)' - dec'.comps[c].v0
    BY DEF Paced
  <2>2. dec' = dec /\ Out(c)' = oN
    BY <1>7 DEF Fixed
  <2>3. Paced(c)' <=> AllRead(c)' \/ Due(c)' <= oN - dec.comps[c].v0
    BY <2>1, <2>2
  <2> QED
    BY <1>6, <2>3, Zenon
<1>13. CASE AllIn(c, n)
  BY <1>10, <1>13, <1>a
<1>14. CASE ~ AllIn(c, n)
  <2>1. Due(c) <= o - v
    BY <1>12, <1>14
  <2> HIDE DEF x, y, v, p, pN, o, oN
  <2>2. pN = p => Due(c)' <= oN - v
    BY <1>3, <1>4, <1>5, <1>8, <1>9, <2>1
  <2>3. l = n /\ a = 1 /\ pN = p + 1 => Due(c)' <= oN - v
    BY <1>3, <1>4, <1>5, <1>8, <1>9, <2>1
  <2> QED
    BY <1>11, <1>14, <1>a, <2>2, <2>3
<1> QED
  BY <1>13, <1>14

\* A step of the pull of component c keeps what is true of it.
LEMMA MovesKeeps ==
  ASSUME ShapeOK, NEW c \in Comps, NEW l \in 1 .. NL(dec, c), NEW a \in {0, 1}, NEW b \in {0, 1},
         Fixed, sync' = sync, strip' = strip, stripY \in Nat, row \in Nat, PullOK(c),
         Moves(c, l, a, b)
  PROVE  PullOK(c)'
<1>1. Levels(c) /\ Chained(c) /\ Drawn(c) /\ Paced(c) /\ FramesOK(c) /\ RowOK(c)
  BY DEF PullOK
<1>2. Levels(c)'
  BY DEF Moves, Levels, Fixed
<1>3. RowOK(c)'
  BY <1>1 DEF Moves, RowOK, Fixed
<1>4. FramesOK(c)'
  BY DEF Moves
<1>5. Chained(c)'
  BY <1>1, SuppliesStay, Zenon
<1>6. Drawn(c)'
  BY <1>1, DrawnStays, Zenon
<1>7. Paced(c)'
  BY <1>1, PacedStays, Zenon
<1> QED
  BY <1>2, <1>3, <1>4, <1>5, <1>6, <1>7 DEF PullOK

\* The step is one of component c's pull.
Alone(c) ==
  /\ OnlyIn(c, idwt) /\ OnlyIn(c, calls) /\ OnlyIn(c, pulled)
  /\ DOMAIN idwt'[c] = 1 .. NL(dec, c)

\* An update of one level is one of that level.
LEMMA SetLevel ==
  ASSUME Domains, NEW c \in Comps, NEW l \in 1 .. NL(dec, c), NEW t,
         idwt' = [idwt EXCEPT ![c][l] = t]
  PROVE  /\ idwt'[c][l] = t /\ OnlyIn(c, idwt) /\ DOMAIN idwt'[c] = 1 .. NL(dec, c)
         /\ \A m \in 1 .. NL(dec, c) : m # l => idwt'[c][m] = idwt[c][m]
<1> DEFINE u == [idwt[c] EXCEPT ![l] = t]
<1>1. DOMAIN idwt = Comps /\ DOMAIN idwt[c] = 1 .. NL(dec, c)
  BY DEF Domains
<1>2. idwt' = [idwt EXCEPT ![c] = u]
  OBVIOUS
<1>3. /\ u[l] = t /\ DOMAIN u = 1 .. NL(dec, c)
      /\ \A m \in 1 .. NL(dec, c) : m # l => u[m] = idwt[c][m]
  BY <1>1
<1> HIDE DEF u
<1>4. idwt'[c] = u /\ OnlyIn(c, idwt)
  BY <1>1, <1>2 DEF OnlyIn
<1> QED
  BY <1>3, <1>4

\* The levels after one of them changed its ring.
LEMMA LevelsAfter ==
  ASSUME NEW c \in Comps, NEW l \in 1 .. NL(dec, c), Levels(c), dec' = dec,
         \A m \in 1 .. NL(dec, c) : m # l => idwt'[c][m] = idwt[c][m],
         RingOK(idwt'[c][l]), SameLevel(idwt[c][l], idwt'[c][l])
  PROVE  /\ \A m \in 1 .. NL(dec, c) : LevelOK(c, m)'
         /\ ReadAt(c, l)' = IF PassThrough(idwt[c][l]) THEN idwt'[c][l].nextOut
                            ELSE idwt'[c][l].nextIn
<1>1. ASSUME NEW m \in 1 .. NL(dec, c) PROVE LevelOK(c, m)'
  <2>1. LevelOK(c, m)
    BY DEF Levels
  <2>2. CASE m # l
    BY <2>1, <2>2 DEF LevelOK
  <2>3. CASE m = l
    BY <2>1, <2>3 DEF LevelOK, SameLevel
  <2> QED
    BY <2>2, <2>3
<1>2. PassThrough(idwt'[c][l]) <=> PassThrough(idwt[c][l])
  BY DEF PassThrough, SameLevel
<1> QED
  BY <1>1, <1>2 DEF ReadAt, Wanted

\* Both relations are reflexive.
LEMMA SameIsSame ==
  \A s : SameLevel(s, s) /\ SameButCells(s, s)
BY DEF SameLevel, SameButCells, SameCursors

\* A level that returns gives at most a row and reads none.
LEMMA ReturnMoves ==
  ASSUME ShapeOK, Domains, NEW c \in Comps, NL(dec, c) # 0, PullOK(c), PullReturn(c),
         NEW l, l = Last(Frames(c)).lvl
  PROVE  \E a \in {0, 1} : Moves(c, l, a, 0) /\ Alone(c)
<1> DEFINE s == idwt[c][l]
           n == NL(dec, c)
<1>1. Levels(c) /\ FramesOK(c) /\ l \in 1 .. n /\ n \in Nat
  <2>1. FramesOK(c)
    BY DEF PullOK
  <2> QED
    BY <2>1, FramesAre, Zenon DEF PullOK
<1>2. /\ Len(pulled[c]) < counts[c] /\ dec' = dec /\ counts' = counts /\ nextRow' = nextRow
      /\ Fixed
  BY DEF PullReturn, driverVars, bufVars, Fixed
<1>3. ~ Level0(c) /\ Top(c) = s
  BY <1>1 DEF Level0, Top
<1>4. LevelOK(c, l)
  BY <1>1 DEF Levels
<1>5. /\ s.v0 = V0(dec, c, l) /\ s.v1 = V1(dec, c, l) /\ s.v1 \in Nat
      /\ s.nextIn \in Nat /\ s.nextOut \in Nat /\ ReadAt(c, l) \in Nat
      /\ s.nextOut <= ReadAt(c, l) /\ ReadAt(c, l) <= s.v1
      /\ ReadAt(c, l) = IF PassThrough(s) THEN s.nextOut ELSE s.nextIn
      /\ RingOK(s)
  <2>1. ReadAt(c, l) = IF PassThrough(s) THEN s.nextOut ELSE s.nextIn
    BY DEF ReadAt, Wanted
  <2> QED
    BY <1>1, <1>4, <2>1, LevelIs
<1> HIDE DEF s
<1>6. IF s.nextOut >= s.v1
        THEN ReturnNull(c) /\ UNCHANGED idwt
      ELSE LET t == IF Ready(s) THEN s ELSE IdwtCascade(s)
           IN  IF Ready(t)
                 THEN /\ idwt' = [idwt EXCEPT ![c][l] = [t EXCEPT !.nextOut = @ + 1]]
                      /\ Return(c, NextRow(t))
               ELSE idwt' = [idwt EXCEPT ![c][l] = t] /\ ReturnNull(c)
  BY <1>3 DEF PullReturn
\* What the frames do.
<1> DEFINE Frames0(a) ==
       /\ FramesOK(c)' /\ Passes(c, l) /\ OnlyIn(c, calls) /\ OnlyIn(c, pulled)
       /\ \/ Len(pulled'[c]) = Len(pulled[c])
          \/ (l = n /\ (AllIn(c, l) \/ (a = 1 /\ Len(pulled'[c]) = Len(pulled[c]) + 1)))
<1>7. ASSUME ReturnNull(c), AllIn(c, l) PROVE Frames0(0)
  <2>1. /\ FramesOK(c)' /\ Passes(c, l) /\ OnlyIn(c, calls) /\ OnlyIn(c, pulled)
        /\ IF l = NL(dec, c) THEN Len(pulled'[c]) = counts[c] ELSE pulled'[c] = pulled[c]
    BY <1>1, <1>2, <1>7, ReturnNullDoes, Zenon
  <2>2. Len(pulled'[c]) = Len(pulled[c]) \/ (l = NL(dec, c) /\ AllIn(c, l))
    BY <1>7, <2>1
  <2> QED
    BY <2>1, <2>2, Zenon
<1>8. ASSUME NEW val, Return(c, val) PROVE Frames0(1)
  <2>1. /\ FramesOK(c)' /\ Passes(c, l) /\ OnlyIn(c, calls) /\ OnlyIn(c, pulled)
        /\ IF l = NL(dec, c) THEN Len(pulled'[c]) = Len(pulled[c]) + 1 ELSE pulled'[c] = pulled[c]
    BY <1>1, <1>2, <1>8, ReturnDoes, Zenon
  <2> QED
    BY <2>1
<1> HIDE DEF n
\* What the ring does.
<1> DEFINE Ring0(a) ==
       /\ OnlyIn(c, idwt) /\ DOMAIN idwt'[c] = 1 .. NL(dec, c)
       /\ \A m \in 1 .. NL(dec, c) : m # l => idwt'[c][m] = idwt[c][m]
       /\ RingOK(idwt'[c][l]) /\ SameLevel(idwt[c][l], idwt'[c][l])
       /\ idwt'[c][l].nextIn = s.nextIn /\ idwt'[c][l].nextOut = s.nextOut + a
       /\ a = 1 => ~ PassThrough(s)
<1>9. ASSUME NEW a \in {0, 1}, Ring0(a), Frames0(a), a = 1 \/ AllIn(c, l)
      PROVE  Moves(c, l, a, 0) /\ Alone(c)
  <2>1. /\ \A m \in 1 .. NL(dec, c) : LevelOK(c, m)'
        /\ ReadAt(c, l)' = IF PassThrough(s) THEN idwt'[c][l].nextOut ELSE idwt'[c][l].nextIn
    BY <1>1, <1>2, <1>9, LevelsAfter DEF n, s
  <2>2. ReadAt(c, l)' = ReadAt(c, l) + 0
    BY <1>5, <1>9, <2>1
  <2>3. idwt'[c][l].nextOut = idwt[c][l].nextOut + a
    BY <1>9 DEF s
  <2>4. nextRow'[c] = nextRow[c]
    BY <1>2
  <2>5. \A m \in 1 .. NL(dec, c) :
       HasLow(c, m)' => HasLow(c, m) \/ (m = l + 1 /\ (a = 1 \/ AllIn(c, l)))
    BY <1>9 DEF Passes
  <2>6. ~ HasLow(c, l)' /\ FramesOK(c)'
    BY <1>9 DEF Passes
  <2>7. Len(pulled'[c]) = Len(pulled[c])
        \/ (l = NL(dec, c) /\ (AllIn(c, l) \/ (a = 1 /\ Len(pulled'[c]) = Len(pulled[c]) + 1)))
    BY <1>9 DEF n
  <2>8. 0 # 1
    OBVIOUS
  <2>11. \A m \in 1 .. NL(dec, c) : m # l => idwt'[c][m] = idwt[c][m]
    BY <1>9
  <2>9. Moves(c, l, a, 0)
    BY ONLY <2>11, <2>1, <2>2, <2>3, <2>4, <2>5, <2>6, <2>7, <2>8, Zenon DEF Moves
  <2>10. Alone(c)
    BY <1>9, Zenon DEF Alone
  <2> QED
    BY <2>9, <2>10
<1>10. CASE s.nextOut >= s.v1
  <2>1. ReturnNull(c) /\ idwt' = idwt
    BY <1>6, <1>10
  <2>2. AllIn(c, l)
    BY <1>5, <1>10 DEF AllIn
  <2>3. Frames0(0)
    BY <1>7, <2>1, <2>2
  <2>4. Ring0(0)
    <3>1. DOMAIN idwt = Comps /\ DOMAIN idwt[c] = 1 .. NL(dec, c)
      BY DEF Domains
    <3>2. idwt[c][l].nextOut + 0 = idwt[c][l].nextOut
      BY <1>5 DEF s
    <3>3. OnlyIn(c, idwt)
      BY <2>1, <3>1 DEF OnlyIn
    <3>4. SameLevel(idwt[c][l], idwt[c][l])
      BY SameIsSame
    <3> QED
      BY <1>5, <2>1, <3>1, <3>2, <3>3, <3>4 DEF s
  <2> QED
    BY <1>9, <2>2, <2>3, <2>4
<1>11. CASE s.nextOut < s.v1
  <2> DEFINE t == IF Ready(s) THEN s ELSE IdwtCascade(s)
  <2>1. RingOK(t) /\ SameButCells(s, t)
    BY <1>5, CascadeOK, SameIsSame
  <2>2. ~ PassThrough(s) /\ (Ready(s) \/ s.nextIn >= s.v1)
    <3>1. ~ Hungry(c)
      BY DEF PullReturn
    <3>2. Hungry(c) <=> /\ Len(pulled[c]) < counts[c]
                        /\ s.nextOut < s.v1
                        /\ PassThrough(s) \/ (~Ready(s) /\ s.nextIn < s.v1)
      BY <1>3 DEF Hungry
    <3>3. ~ (s.nextIn < s.v1) => s.nextIn >= s.v1
      BY <1>5
    <3> QED
      BY <1>2, <1>11, <3>1, <3>2, <3>3
  <2>3. IF Ready(t)
          THEN /\ idwt' = [idwt EXCEPT ![c][l] = [t EXCEPT !.nextOut = @ + 1]]
               /\ Return(c, NextRow(t))
        ELSE idwt' = [idwt EXCEPT ![c][l] = t] /\ ReturnNull(c)
    <3>1. ~ (s.nextOut >= s.v1)
      BY <1>5, <1>11
    <3> QED
      BY <1>6, <3>1
  <2>4. t.nextOut = s.nextOut /\ t.nextIn = s.nextIn /\ SameLevel(s, t)
    BY <2>1 DEF SameButCells, SameCursors
  <2>5. Ready(s) => t = s
    OBVIOUS
  <2> HIDE DEF t
  <2>6. CASE Ready(t)
    <3> DEFINE u == [t EXCEPT !.nextOut = t.nextOut + 1]
    <3>1. idwt' = [idwt EXCEPT ![c][l] = u] /\ Return(c, NextRow(t))
      BY <2>3, <2>6
    <3>2. t.nextOut < t.v1 /\ t.nextOut < t.nextIn
      BY <2>1, <2>6, ReadyEntered
    <3>3. /\ RingOK(u) /\ SameLevel(t, u) /\ u.nextIn = t.nextIn /\ u.nextOut = t.nextOut + 1
      BY <2>1, <3>2, AdvanceOK
    <3> HIDE DEF u
    <3>4. SameLevel(s, u)
      BY <2>4, <3>3 DEF SameLevel
    <3>5. /\ idwt'[c][l] = u /\ OnlyIn(c, idwt) /\ DOMAIN idwt'[c] = 1 .. NL(dec, c)
          /\ \A m \in 1 .. NL(dec, c) : m # l => idwt'[c][m] = idwt[c][m]
      BY <1>1, <3>1, SetLevel DEF n
    <3>6. Ring0(1)
      BY <2>2, <2>4, <3>3, <3>4, <3>5 DEF s
    <3>7. Frames0(1)
      BY <1>8, <3>1
    <3> QED
      BY <1>9, <3>6, <3>7
  <2>7. CASE ~ Ready(t)
    <3>1. idwt' = [idwt EXCEPT ![c][l] = t] /\ ReturnNull(c)
      BY <2>3, <2>7
    <3>2. s.nextIn >= s.v1
      BY <2>2, <2>5, <2>7
    <3>3. AllIn(c, l)
      BY <1>5, <2>2, <3>2 DEF AllIn
    <3>5. /\ idwt'[c][l] = t /\ OnlyIn(c, idwt) /\ DOMAIN idwt'[c] = 1 .. NL(dec, c)
          /\ \A m \in 1 .. NL(dec, c) : m # l => idwt'[c][m] = idwt[c][m]
      BY <1>1, <3>1, SetLevel DEF n
    <3>6. Ring0(0)
      <4>1. s.nextOut + 0 = s.nextOut
        BY <1>5
      <4> QED
        BY <2>1, <2>4, <3>5, <4>1 DEF s
    <3>7. Frames0(0)
      BY <1>7, <3>1, <3>3
    <3> QED
      BY <1>9, <3>3, <3>6, <3>7
  <2> QED
    BY <2>6, <2>7
<1> QED
  BY <1>5, <1>10, <1>11

\* Level l of component c is on top, wants row r, and has it in reach.
OnTop(c, l, r) ==
  /\ l \in 1 .. NL(dec, c) /\ r \in Nat /\ V0(dec, c, l) <= r /\ r < V1(dec, c, l)
  /\ ReadAt(c, l) = r /\ Ingredients(c) = Sources(c, l, r)
  /\ LevelOK(c, l) /\ Top(c) = idwt[c][l] /\ ~ Level0(c)

\* A level that wants a row wants one of its own.
LEMMA HungryIs ==
  ASSUME ShapeOK, NEW c \in Comps, NL(dec, c) # 0, PullOK(c), Hungry(c),
         NEW l, l = Last(Frames(c)).lvl
  PROVE  \E r : OnTop(c, l, r)
<1> DEFINE s == idwt[c][l]
<1>1. Levels(c) /\ FramesOK(c) /\ l \in 1 .. NL(dec, c) /\ NL(dec, c) \in Nat
  <2>1. FramesOK(c)
    BY DEF PullOK
  <2> QED
    BY <2>1, FramesAre, Zenon DEF PullOK
<1>2. ~ Level0(c) /\ Top(c) = s
  BY <1>1 DEF Level0, Top
<1>3. LevelOK(c, l)
  BY <1>1 DEF Levels
<1>4. ReadAt(c, l) = IF PassThrough(s) THEN s.nextOut ELSE s.nextIn
  BY DEF ReadAt, Wanted
<1>5. /\ s.v1 = V1(dec, c, l) /\ s.v1 \in Nat /\ V0(dec, c, l) \in Nat
      /\ s.nextIn \in Nat /\ s.nextOut \in Nat /\ ReadAt(c, l) \in Nat
      /\ V0(dec, c, l) <= s.nextOut /\ s.nextOut <= ReadAt(c, l)
  BY <1>1, <1>3, LevelIs
<1> HIDE DEF s
<1>6. s.nextOut < s.v1 /\ (PassThrough(s) \/ s.nextIn < s.v1)
  BY <1>2 DEF Hungry
<1>7. ReadAt(c, l) < V1(dec, c, l) /\ V0(dec, c, l) <= ReadAt(c, l)
  BY <1>4, <1>5, <1>6
<1>8. Ingredients(c) = Sources(c, l, ReadAt(c, l))
  <2>1. Ingredients(c) = Sources(c, Last(Frames(c)).lvl, Wanted(Top(c)))
    BY <1>2 DEF Ingredients
  <2> QED
    BY <1>2, <2>1 DEF ReadAt, s
<1> QED
  BY <1>1, <1>2, <1>3, <1>5, <1>7, <1>8 DEF OnTop, s

\* A row of a buffer is not the child's row.
LEMMA NotChild ==
  ASSUME ShapeOK, NEW k, IsBuf(dec, k), NEW r
  PROVE  Read(k, r) # Child /\ Read(k, r).buf = k /\ Read(k, r).row = RowIn(dec, k, r)
<1>1. k = <<k[1], k[2], k[3]>>
  BY BufIsTriple DEF ShapeOK
<1>2. k # <<>>
  <2>1. \A x, y, z : <<x, y, z>> # <<>>
    OBVIOUS
  <2> QED
    BY <1>1, <2>1
<1>3. Read(k, r).buf = k /\ Read(k, r).row = RowIn(dec, k, r)
  BY DEF Read
<1>4. Child.buf = <<>>
  BY DEF Child
<1> QED
  BY <1>2, <1>3, <1>4

\* The ingredients: the child's row or reads of buffers.
LEMMA IngredientsAre ==
  ASSUME ShapeOK, NEW c \in Comps, NEW l, NEW r, OnTop(c, l, r)
  PROVE  /\ DOMAIN Ingredients(c) \subseteq 1 .. 2 /\ 1 \in DOMAIN Ingredients(c)
         /\ \A i \in DOMAIN Ingredients(c) :
              \/ Ingredients(c)[i] = Child /\ l > 1 /\ i = 1
              \/ \E k \in Bufs : /\ k[1] = c /\ IsBuf(dec, k) /\ Reader(k) = l /\ Takes(dec, k, r)
                                 /\ Ingredients(c)[i] = Read(k, r)
         /\ \A k \in Bufs : k[1] = c /\ IsBuf(dec, k) /\ Reader(k) = l /\ Takes(dec, k, r)
              => \E i \in DOMAIN Ingredients(c) : Ingredients(c)[i] = Read(k, r)
         /\ l > 1 /\ TakesLow(c, l, r) => Ingredients(c)[1] = Child
<1> DEFINE dir == dec.comps[c].dirs[l]
           low == LowRead(c, l, r)
           Q(b) == Read(<<c, l, b>>, r)
<1>1. /\ l \in 1 .. NL(dec, c) /\ NL(dec, c) \in Nat /\ dir \in {"BIDIR", "HORZ", "NO"}
      /\ dec \in Shapes /\ c \in 1 .. Len(dec.comps) /\ r \in Nat
  BY LevelRows DEF ShapeOK, Comps, OnTop
<1>2. Ingredients(c) =
        IF dir = "NO" THEN <<low>>
        ELSE IF dir = "HORZ" \/ r % 2 = 0 THEN <<low, Q("HL")>>
        ELSE <<Q("LH"), Q("HH")>>
  <2>1. /\ l \in 1 .. NL(dec, c) /\ LevelOK(c, l) /\ r \in Nat
        /\ V0(dec, c, l) <= r /\ r < V1(dec, c, l) /\ Ingredients(c) = Sources(c, l, r)
    BY DEF OnTop
  <2> QED
    BY <2>1, SourcesAre
<1> DEFINE Is(k) == k \in Bufs /\ k[1] = c /\ IsBuf(dec, k) /\ Reader(k) = l /\ Takes(dec, k, r)
<1>3. ASSUME NEW b \in {"HL", "LH", "HH"}, HasBand(dec, c, l, b),
             dir # "BIDIR" \/ (r % 2 = 0 <=> b = "HL")
      PROVE  Is(<<c, l, b>>)
  <2>1. IsBuf(dec, <<c, l, b>>)
    <3>1. l \in 0 .. NL(dec, c) /\ b \in {"LL", "HL", "LH", "HH"}
      BY <1>1
    <3> QED
      BY <1>1, <1>3, <3>1, BandIsBuf, Zenon
  <2> DEFINE k == <<c, l, b>>
  <2>2. k[1] = c /\ k[2] = l /\ k[3] = b
    OBVIOUS
  <2> HIDE DEF k
  <2>3. k \in Bufs /\ Reader(k) = l
    BY <1>1, <2>1, <2>2 DEF IsBuf, Reader, k
  <2>4. Takes(dec, k, r)
    <3>1. ReaderDir(dec, k) = dir
      BY <2>2, <2>3 DEF ReaderDir
    <3> HIDE DEF dir
    <3>2. b \in {"LL", "HL"} <=> b = "HL"
      BY <1>3
    <3> QED
      BY <1>3, <2>2, <3>1, <3>2 DEF Takes
  <2> QED
    BY <2>1, <2>2, <2>3, <2>4 DEF k
<1>4. dir # "NO" /\ (dir = "HORZ" \/ r % 2 = 0) => Is(<<c, l, "HL">>)
  BY <1>1, <1>3 DEF HasBand
<1>5. ~ (dir = "NO" \/ dir = "HORZ" \/ r % 2 = 0) => Is(<<c, l, "LH">>) /\ Is(<<c, l, "HH">>)
  BY <1>1, <1>3 DEF HasBand
<1>6. dir # "BIDIR" \/ r % 2 = 0 => IF l > 1 THEN low = Child
                                    ELSE low = Read(<<c, 0, "LL">>, r) /\ Is(<<c, 0, "LL">>)
  <2>1. IsBuf(dec, <<c, 0, "LL">>)
    <3>1. 0 \in 0 .. NL(dec, c) /\ "LL" \in {"LL", "HL", "LH", "HH"} /\ HasBand(dec, c, 0, "LL")
      BY <1>1 DEF HasBand
    <3> QED
      BY <1>1, <3>1, BandIsBuf, Zenon
  <2> DEFINE k == <<c, 0, "LL">>
  <2>4. k[1] = c /\ k[2] = 0 /\ k[3] = "LL"
    OBVIOUS
  <2>5. IsBuf(dec, k) /\ k \in Bufs
    BY <2>1 DEF IsBuf
  <2> HIDE DEF k
  <2>6. Reader(k) = 1 /\ ReaderDir(dec, k) = dec.comps[c].dirs[1]
    BY <2>4 DEF Reader, ReaderDir
  <2>7. l = 1 /\ (dir # "BIDIR" \/ r % 2 = 0) => Takes(dec, k, r)
    BY <2>4, <2>6 DEF Takes
  <2>2. l = 1 /\ (dir # "BIDIR" \/ r % 2 = 0) => Is(<<c, 0, "LL">>)
    <3>1. l = 1 => Reader(k) = l
      BY <2>6
    <3>2. l = 1 /\ (dir # "BIDIR" \/ r % 2 = 0) => Is(k)
      BY <2>4, <2>5, <2>7, <3>1
    <3> QED
      BY <3>2 DEF k
  <2>3. l > 1 \/ l = 1
    BY <1>1
  <2> QED
    BY <2>2, <2>3 DEF LowRead
<1>7. ASSUME NEW k \in Bufs, Is(k)
      PROVE  /\ dir # "BIDIR" \/ (r % 2 = 0 <=> k[3] \in {"LL", "HL"})
             /\ \/ k = <<c, 0, "LL">> /\ l = 1
                \/ k = <<c, l, "HL">> /\ dir # "NO"
                \/ k \in {<<c, l, "LH">>, <<c, l, "HH">>} /\ dir = "BIDIR"
  <2>1. /\ k = <<k[1], k[2], k[3]>> /\ k[3] \in {"LL", "HL", "LH", "HH"}
        /\ (k[2] = 0 <=> k[3] = "LL") /\ k[1] = c
    BY <1>1, <1>7, BufIsTriple
  <2>2. dir # "BIDIR" \/ (r % 2 = 0 <=> k[3] \in {"LL", "HL"})
    BY <1>7 DEF Takes, ReaderDir
  <2>3. HasBand(dec, c, k[2], k[3])
    BY <1>7, <2>1 DEF IsBuf
  <2>4. CASE k[2] = 0
    BY <1>7, <2>1, <2>2, <2>4 DEF Reader
  <2>5. CASE k[2] # 0
    <3>1. k[2] = l /\ k[3] # "LL"
      BY <1>7, <2>1, <2>5 DEF Reader
    <3>2. k[3] = "HL" => dir # "NO"
      BY <2>3, <2>5, <3>1 DEF HasBand
    <3>3. k[3] \in {"LH", "HH"} => dir = "BIDIR"
      BY <2>3, <2>5, <3>1 DEF HasBand
    <3> QED
      BY <2>1, <2>2, <3>1, <3>2, <3>3
  <2> QED
    BY <2>4, <2>5
<1>8. TakesLow(c, l, r) <=> dir # "BIDIR" \/ r % 2 = 0
  BY DEF TakesLow
<1> DEFINE P == Ingredients(c)
<1> HIDE DEF P, dir, Is, low, Q
<1>9. CASE dir = "NO"
  <2>1. P = <<low>>
    BY <1>2, <1>9 DEF P
  <2>2. DOMAIN P = 1 .. 1 /\ P[1] = low
    BY <2>1
  <2>3. IF l > 1 THEN low = Child ELSE low = Read(<<c, 0, "LL">>, r) /\ Is(<<c, 0, "LL">>)
    BY <1>6, <1>9
  <2>4. ASSUME NEW k \in Bufs, Is(k) PROVE P[1] = Read(k, r)
    <3>1. k = <<c, 0, "LL">> /\ l = 1
      BY <1>7, <1>9, <2>4
    <3> QED
      BY <2>2, <2>3, <3>1
  <2>5. \A i \in DOMAIN P : \/ P[i] = Child /\ l > 1 /\ i = 1
                            \/ \E k \in Bufs : Is(k) /\ P[i] = Read(k, r)
    BY <2>2, <2>3 DEF Is
  <2>6. \A k \in Bufs : Is(k) => \E i \in DOMAIN P : P[i] = Read(k, r)
    BY <2>2, <2>4
  <2>7. DOMAIN P \subseteq 1 .. 2 /\ 1 \in DOMAIN P /\ (l > 1 => P[1] = Child)
    BY <2>2, <2>3
  <2> QED
    BY <2>5, <2>6, <2>7, Zenon DEF P, Is
<1>10. CASE dir # "NO" /\ (dir = "HORZ" \/ r % 2 = 0)
  <2>1. P = <<low, Q("HL")>>
    BY <1>2, <1>10 DEF P
  <2>2. DOMAIN P = 1 .. 2 /\ P[1] = low /\ P[2] = Q("HL")
    BY <2>1
  <2>3. IF l > 1 THEN low = Child ELSE low = Read(<<c, 0, "LL">>, r) /\ Is(<<c, 0, "LL">>)
    BY <1>6, <1>10
  <2>4. Is(<<c, l, "HL">>) /\ Q("HL") = Read(<<c, l, "HL">>, r)
    BY <1>4, <1>10 DEF Q
  <2>5. ASSUME NEW k \in Bufs, Is(k) PROVE P[1] = Read(k, r) \/ P[2] = Read(k, r)
    <3>1. (k = <<c, 0, "LL">> /\ l = 1) \/ k = <<c, l, "HL">>
      <4>1. k \in {<<c, l, "LH">>, <<c, l, "HH">>} => ~ (k[3] \in {"LL", "HL"})
        OBVIOUS
      <4>2. CASE dir = "BIDIR"
        <5>1. r % 2 = 0
          BY <1>10, <4>2
        <5>2. k[3] \in {"LL", "HL"}
          BY <1>7, <2>5, <4>2, <5>1
        <5> QED
          BY <1>7, <2>5, <4>1, <5>2
      <4> QED
        BY <1>7, <2>5, <4>2
    <3> QED
      BY <2>2, <2>3, <2>4, <3>1
  <2>6. \A i \in DOMAIN P : \/ P[i] = Child /\ l > 1 /\ i = 1
                            \/ \E k \in Bufs : Is(k) /\ P[i] = Read(k, r)
    <3>1. \/ P[1] = Child /\ l > 1 /\ 1 = 1
          \/ \E k \in Bufs : Is(k) /\ P[1] = Read(k, r)
      BY <2>2, <2>3 DEF Is
    <3>2. \E k \in Bufs : Is(k) /\ P[2] = Read(k, r)
      BY <2>2, <2>4 DEF Is
    <3>3. \A i \in DOMAIN P : i = 1 \/ i = 2
      BY <2>2
    <3> QED
      BY <3>1, <3>2, <3>3, Zenon
  <2>7. \A k \in Bufs : Is(k) => \E i \in DOMAIN P : P[i] = Read(k, r)
    <3>1. 1 \in DOMAIN P /\ 2 \in DOMAIN P
      BY <2>2
    <3> QED
      BY <2>5, <3>1, Zenon
  <2>8. DOMAIN P \subseteq 1 .. 2 /\ 1 \in DOMAIN P /\ (l > 1 => P[1] = Child)
    BY <2>2, <2>3
  <2> QED
    BY <2>6, <2>7, <2>8, Zenon DEF P, Is
<1>11. CASE ~ (dir = "NO" \/ dir = "HORZ" \/ r % 2 = 0)
  <2>1. P = <<Q("LH"), Q("HH")>>
    BY <1>2, <1>11 DEF P
  <2>2. DOMAIN P = 1 .. 2 /\ P[1] = Q("LH") /\ P[2] = Q("HH")
    BY <2>1
  <2>3. /\ Is(<<c, l, "LH">>) /\ Q("LH") = Read(<<c, l, "LH">>, r)
        /\ Is(<<c, l, "HH">>) /\ Q("HH") = Read(<<c, l, "HH">>, r)
    BY <1>5, <1>11 DEF Q
  <2>4. dir = "BIDIR" /\ r % 2 # 0
    BY <1>1, <1>11
  <2>5. ASSUME NEW k \in Bufs, Is(k) PROVE P[1] = Read(k, r) \/ P[2] = Read(k, r)
    <3>1. ~ (k[3] \in {"LL", "HL"})
      BY <1>7, <2>4, <2>5
    <3>2. k \in {<<c, l, "LH">>, <<c, l, "HH">>}
      <4>1. k \in {<<c, 0, "LL">>, <<c, l, "HL">>} => k[3] \in {"LL", "HL"}
        OBVIOUS
      <4> QED
        BY <1>7, <2>5, <3>1, <4>1
    <3> QED
      BY <2>2, <2>3, <3>2
  <2>6. \A i \in DOMAIN P : \E k \in Bufs : Is(k) /\ P[i] = Read(k, r)
    <3>1. <<c, l, "LH">> \in Bufs /\ <<c, l, "HH">> \in Bufs
      BY <2>3 DEF Is
    <3>2. \A i \in DOMAIN P : i = 1 \/ i = 2
      BY <2>2
    <3> QED
      BY <2>2, <2>3, <3>1, <3>2, Zenon
  <2>7. \A k \in Bufs : Is(k) => \E i \in DOMAIN P : P[i] = Read(k, r)
    <3>1. 1 \in DOMAIN P /\ 2 \in DOMAIN P
      BY <2>2
    <3> QED
      BY <2>5, <3>1, Zenon
  <2>8. DOMAIN P \subseteq 1 .. 2 /\ 1 \in DOMAIN P /\ ~ TakesLow(c, l, r)
    BY <1>8, <2>2, <2>4
  <2> QED
    BY <2>6, <2>7, <2>8, Zenon DEF P, Is
<1> QED
  BY <1>9, <1>10, <1>11

\* Calling the child moves no row.
LEMMA ChildMoves ==
  ASSUME ShapeOK, Domains, NEW c \in Comps, NL(dec, c) # 0, PullOK(c), PullChild(c),
         NEW l, l = Last(Frames(c)).lvl
  PROVE  Moves(c, l, 0, 0) /\ Alone(c)
<1>1. /\ Levels(c) /\ FramesOK(c) /\ Hungry(c) /\ NeedsChild(c)
      /\ l \in 1 .. NL(dec, c) /\ NL(dec, c) \in Nat
  <2>1. FramesOK(c)
    BY DEF PullOK
  <2> QED
    BY <2>1, FramesAre, Zenon DEF PullOK, PullChild
<1>2. PICK r : OnTop(c, l, r)
  BY <1>1, HungryIs
<1>3. Last(Frames(c)).low = NoRow /\ Ingredients(c)[1] = Child
  BY <1>1 DEF NeedsChild
<1>4. l > 1
  <2>1. 1 \in DOMAIN Ingredients(c)
    BY <1>2, IngredientsAre
  <2>2. \/ Ingredients(c)[1] = Child /\ l > 1 /\ 1 = 1
        \/ \E k \in Bufs : /\ k[1] = c /\ IsBuf(dec, k) /\ Reader(k) = l /\ Takes(dec, k, r)
                           /\ Ingredients(c)[1] = Read(k, r)
    <3>1. \A i \in DOMAIN Ingredients(c) :
             \/ Ingredients(c)[i] = Child /\ l > 1 /\ i = 1
             \/ \E k \in Bufs : /\ k[1] = c /\ IsBuf(dec, k) /\ Reader(k) = l /\ Takes(dec, k, r)
                                /\ Ingredients(c)[i] = Read(k, r)
      BY <1>2, IngredientsAre
    <3> QED
      BY <2>1, <3>1, Zenon
  <2>3. \A k \in Bufs : IsBuf(dec, k) => Read(k, r) # Child
    BY NotChild
  <2> SUFFICES ASSUME ~ (l > 1) PROVE FALSE
    OBVIOUS
  <2>4. PICK k \in Bufs : IsBuf(dec, k) /\ Ingredients(c)[1] = Read(k, r)
    BY <2>2
  <2>5. Read(k, r) # Child
    BY <2>3, <2>4
  <2> QED
    BY <1>3, <2>4, <2>5
<1>5. /\ dec' = dec /\ counts' = counts /\ pulled' = pulled /\ idwt' = idwt /\ nextRow' = nextRow
      /\ calls' = [calls EXCEPT ![c] = Append(Frames(c), Frame(l - 1))]
      /\ Len(pulled[c]) < counts[c]
  BY <1>1 DEF PullChild, driverVars, Hungry
<1>6. /\ FramesOK(c)' /\ OnlyIn(c, calls) /\ ~ HasLow(c, l)'
      /\ \A m \in 1 .. NL(dec, c) : HasLow(c, m)' => HasLow(c, m)
  BY <1>1, <1>3, <1>4, <1>5, ChildDoes
<1>7. /\ DOMAIN idwt = Comps /\ DOMAIN idwt[c] = 1 .. NL(dec, c) /\ DOMAIN pulled = Comps
  BY DEF Domains
<1>8. Alone(c)
  BY <1>5, <1>6, <1>7 DEF Alone, OnlyIn
<1>9. /\ RingOK(idwt[c][l]) /\ idwt[c][l].nextOut \in Nat /\ ReadAt(c, l) \in Nat
  <2>1. LevelOK(c, l)
    BY <1>1 DEF Levels
  <2> QED
    BY <1>1, <2>1, LevelIs
<1>10. /\ \A m \in 1 .. NL(dec, c) : LevelOK(c, m)'
       /\ ReadAt(c, l)' = ReadAt(c, l) + 0
  <2>1. ASSUME NEW m \in 1 .. NL(dec, c) PROVE LevelOK(c, m)'
    <3>1. LevelOK(c, m)
      BY <1>1 DEF Levels
    <3> QED
      BY <1>5, <3>1 DEF LevelOK
  <2>2. ReadAt(c, l)' = ReadAt(c, l)
    BY <1>5 DEF ReadAt
  <2> QED
    BY <1>9, <2>1, <2>2
<1>11. /\ idwt'[c][l].nextOut = idwt[c][l].nextOut + 0
       /\ \A m \in 1 .. NL(dec, c) : m # l => idwt'[c][m] = idwt[c][m]
       /\ Len(pulled'[c]) = Len(pulled[c]) /\ nextRow'[c] = nextRow[c] /\ 0 # 1
  BY <1>5, <1>9
<1>12. Moves(c, l, 0, 0)
  BY ONLY <1>6, <1>10, <1>11, Zenon DEF Moves
<1> QED
  BY <1>8, <1>12

\* What row_ptr need not be called for is in the ring.
LEMMA AllSettled ==
  ASSUME ShapeOK, NEW c \in Comps, NEW l, NEW r, OnTop(c, l, r), Unsettled(c) = {},
         NEW k \in Bufs, k[1] = c, IsBuf(dec, k), Reader(k) = l, Takes(dec, k, r)
  PROVE  ~ sync[k] /\ Holds(k, strip[k], RowIn(dec, k, r))
<1>1. PICK i \in DOMAIN Ingredients(c) : Ingredients(c)[i] = Read(k, r)
  BY IngredientsAre
<1>2. Read(k, r) # Child /\ Read(k, r).buf = k /\ Read(k, r).row = RowIn(dec, k, r)
  BY NotChild
<1>3. i \notin Unsettled(c)
  OBVIOUS
<1>4. ~ (/\ Ingredients(c)[i] # Child
         /\ \/ sync[Ingredients(c)[i].buf]
            \/ ~ Holds(Ingredients(c)[i].buf, strip[Ingredients(c)[i].buf], Ingredients(c)[i].row))
  BY <1>1, <1>3 DEF Unsettled
<1> QED
  BY <1>1, <1>2, <1>4

\* What is left to wait for is a row of a buffer that was not read to the end.
LEMMA PendingIs ==
  ASSUME ShapeOK, NEW c \in Comps, NEW l, NEW r, OnTop(c, l, r), Unsettled(c) # {}, ~ NeedsChild(c),
         NL(dec, c) # 0
  PROVE  \E k \in Bufs : /\ k[1] = c /\ IsBuf(dec, k) /\ Pending(c) = Read(k, r)
                         /\ Pending(c).buf = k /\ Pending(c).row = RowIn(dec, k, r)
                         /\ Reader(k) = l /\ RowIn(dec, k, r) \in geo[k].y0 .. geo[k].y1 - 1
                         /\ geo[k].y0 \in Nat /\ geo[k].y1 \in Nat
<1>1. DOMAIN Ingredients(c) \subseteq 1 .. 2
  BY IngredientsAre
<1>2. Unsettled(c) \in SUBSET Nat /\ Unsettled(c) \subseteq DOMAIN Ingredients(c)
  BY <1>1 DEF Unsettled
<1> DEFINE i == Min(Unsettled(c))
<1>3. i \in Unsettled(c)
  <2>1. \E x \in Unsettled(c) : \A y \in Unsettled(c) : x <= y
    BY <1>2, NatLeast
  <2> QED
    BY <2>1 DEF Min
<1> HIDE DEF i
<1>4. i \in DOMAIN Ingredients(c) /\ Ingredients(c)[i] # Child /\ Pending(c) = Ingredients(c)[i]
  BY <1>3 DEF Unsettled, Pending, i
<1>5. PICK k \in Bufs : /\ k[1] = c /\ IsBuf(dec, k) /\ Reader(k) = l /\ Takes(dec, k, r)
                        /\ Ingredients(c)[i] = Read(k, r)
  BY <1>4, IngredientsAre
<1>6. Read(k, r).buf = k /\ Read(k, r).row = RowIn(dec, k, r)
  BY <1>5, NotChild
<1>7. r \in Nat /\ V0(dec, c, l) <= r /\ r < V1(dec, c, l)
  BY DEF OnTop
<1>8. /\ geo[k].y0 <= RowIn(dec, k, r) /\ RowIn(dec, k, r) < geo[k].y1
      /\ geo[k].y0 \in Nat /\ geo[k].y1 \in Nat
  BY <1>5, <1>7, BufferIs
<1>9. RowIn(dec, k, r) \in Nat
  BY <1>5, <1>7, RowInSteps DEF ShapeOK
<1>10. RowIn(dec, k, r) \in geo[k].y0 .. geo[k].y1 - 1
  BY <1>8, <1>9
<1> QED
  BY <1>4, <1>5, <1>6, <1>8, <1>10

\* A level that fetches reads one row, and gives one if it passes it through.
LEMMA FetchMoves ==
  ASSUME ShapeOK, Domains, NEW c \in Comps, NL(dec, c) # 0, PullOK(c), PullFetch(c),
         NEW l, l = Last(Frames(c)).lvl
  PROVE  \E a \in {0, 1} : Moves(c, l, a, 1) /\ Alone(c) /\ nextRow' = nextRow
<1> DEFINE s == idwt[c][l]
<1>1. /\ Levels(c) /\ FramesOK(c) /\ Hungry(c) /\ ~ NeedsChild(c) /\ Unsettled(c) = {}
      /\ l \in 1 .. NL(dec, c) /\ NL(dec, c) \in Nat
  <2>1. FramesOK(c)
    BY DEF PullOK
  <2> QED
    BY <2>1, FramesAre, Zenon DEF PullOK, PullFetch
<1>2. PICK r : OnTop(c, l, r)
  BY <1>1, HungryIs
<1>3. /\ ~ Level0(c) /\ Top(c) = s /\ LevelOK(c, l) /\ ReadAt(c, l) = r /\ r < V1(dec, c, l)
      /\ r \in Nat
  BY <1>2 DEF OnTop
<1>4. /\ dec' = dec /\ counts' = counts /\ Len(pulled[c]) < counts[c]
  BY <1>1 DEF PullFetch, driverVars, Hungry
<1>5. /\ s.v1 = V1(dec, c, l) /\ s.nextIn \in Nat /\ s.nextOut \in Nat /\ RingOK(s)
      /\ ReadAt(c, l) = IF PassThrough(s) THEN s.nextOut ELSE s.nextIn
  <2>1. ReadAt(c, l) = IF PassThrough(s) THEN s.nextOut ELSE s.nextIn
    BY DEF ReadAt, Wanted
  <2> QED
    BY <1>1, <1>3, <2>1, LevelIs
\* What was read is in the ring, and the child's row was there.
<1>6. /\ l > 1 /\ TakesLow(c, l, r) => HasLow(c, l)
      /\ \A k \in Bufs : k[1] = c /\ IsBuf(dec, k) /\ Reader(k) = l /\ Takes(dec, k, r)
           => ~ sync[k] /\ Holds(k, strip[k], RowIn(dec, k, r))
  <2>1. ASSUME l > 1, TakesLow(c, l, r) PROVE HasLow(c, l)
    <3>1. Ingredients(c)[1] = Child
      BY <1>2, <2>1, IngredientsAre
    <3>2. Last(Frames(c)).low # NoRow
      BY <1>1, <3>1 DEF NeedsChild
    <3>3. calls[c] # <<>>
      <4> SUFFICES ASSUME calls[c] = <<>> PROVE FALSE
        OBVIOUS
      <4> DEFINE f == Frame(NL(dec, c))
      <4>1. Frames(c) = <<f>>
        BY DEF Frames
      <4>2. f.low = NoRow
        BY DEF Frame
      <4> HIDE DEF f
      <4>3. Last(<<f>>) = f
        BY DEF Last
      <4> QED
        BY <3>2, <4>1, <4>2, <4>3
    <3>4. Frames(c) = calls[c]
      BY <3>3 DEF Frames
    <3>5. /\ Last(Frames(c)) = calls[c][Len(calls[c])]
          /\ l = NL(dec, c) + 1 - Len(calls[c]) /\ Len(calls[c]) \in Nat
      BY <1>1, <3>4, FramesAre
    <3>6. At(c, l) = Len(calls[c]) /\ At(c, l) \in 1 .. Len(calls[c])
      BY <1>1, <3>5 DEF At
    <3> QED
      BY <3>2, <3>5, <3>6 DEF HasLow
  <2>2. \A k \in Bufs : k[1] = c /\ IsBuf(dec, k) /\ Reader(k) = l /\ Takes(dec, k, r)
           => ~ sync[k] /\ Holds(k, strip[k], RowIn(dec, k, r))
    BY <1>1, <1>2, AllSettled
  <2> QED
    BY <2>1, <2>2
<1> HIDE DEF s
<1>7. PICK val : /\ nextRow' = nextRow
                 /\ IF PassThrough(s)
                       THEN /\ idwt' = [idwt EXCEPT ![c][l].nextOut = @ + 1]
                            /\ Return(c, Passed(s, val))
                     ELSE /\ idwt' = [idwt EXCEPT ![c][l] = Fetched(s, val)]
                          /\ calls' = [calls EXCEPT ![c] = Append(Front(Frames(c)), Frame(l))]
                          /\ UNCHANGED pulled
  <2> DEFINE from  == Ingredients(c)
             top   == Last(Frames(c))
             low   == IF top.low # Junk /\ top.low[3] = MaxLevel(dec.comps[c].xf)
                      THEN <<top.low[1], top.low[2]>> ELSE Junk
             parts == [i \in DOMAIN from |->
                         IF from[i] = Child THEN low ELSE BandSamples(from[i].buf, from[i].row)]
             val   == Interleaved(c, top.lvl, Wanted(Top(c)), parts)
  <2>1. /\ UNCHANGED nextRow
        /\ IF PassThrough(Top(c))
             THEN /\ idwt' = [idwt EXCEPT ![c][top.lvl].nextOut = @ + 1]
                  /\ Return(c, Passed(Top(c), val))
           ELSE /\ idwt' = [idwt EXCEPT ![c][top.lvl] = Fetched(Top(c), val)]
                /\ calls' = [calls EXCEPT ![c] = Append(Front(Frames(c)), Frame(top.lvl))]
                /\ UNCHANGED pulled
    BY <1>3, Zenon DEF PullFetch
  <2> HIDE DEF val
  <2> QED
    BY <1>3, <2>1
<1> DEFINE Ring0 ==
       /\ OnlyIn(c, idwt) /\ DOMAIN idwt'[c] = 1 .. NL(dec, c)
       /\ \A m \in 1 .. NL(dec, c) : m # l => idwt'[c][m] = idwt[c][m]
       /\ RingOK(idwt'[c][l]) /\ SameLevel(idwt[c][l], idwt'[c][l])
<1>8. ASSUME Ring0, NEW a \in {0, 1}, idwt'[c][l].nextOut = s.nextOut + a,
             PassThrough(s) => a = 1, ~ PassThrough(s) => idwt'[c][l].nextIn = s.nextIn + 1,
             FramesOK(c)', ~ HasLow(c, l)', OnlyIn(c, calls), OnlyIn(c, pulled),
             \A m \in 1 .. NL(dec, c) :
               HasLow(c, m)' => HasLow(c, m) \/ (m = l + 1 /\ a = 1),
             \/ Len(pulled'[c]) = Len(pulled[c])
             \/ l = NL(dec, c) /\ a = 1 /\ Len(pulled'[c]) = Len(pulled[c]) + 1
      PROVE  Moves(c, l, a, 1) /\ Alone(c)
  <2>1. /\ \A m \in 1 .. NL(dec, c) : LevelOK(c, m)'
        /\ ReadAt(c, l)' = IF PassThrough(s) THEN idwt'[c][l].nextOut ELSE idwt'[c][l].nextIn
    BY <1>1, <1>4, <1>8, LevelsAfter DEF s
  <2>2. ReadAt(c, l)' = ReadAt(c, l) + 1
    BY <1>5, <1>8, <2>1
  <2>3. idwt'[c][l].nextOut = idwt[c][l].nextOut + a
    BY <1>8 DEF s
  <2>4. nextRow'[c] = nextRow[c] /\ FramesOK(c)' /\ ~ HasLow(c, l)'
    BY <1>7, <1>8
  <2>5. \A m \in 1 .. NL(dec, c) :
       HasLow(c, m)' => HasLow(c, m) \/ (m = l + 1 /\ (a = 1 \/ AllIn(c, l)))
    BY <1>8
  <2>6. Len(pulled'[c]) = Len(pulled[c])
        \/ (l = NL(dec, c) /\ (AllIn(c, l) \/ (a = 1 /\ Len(pulled'[c]) = Len(pulled[c]) + 1)))
    BY <1>8
  <2>7. /\ ReadAt(c, l) < V1(dec, c, l)
        /\ l > 1 /\ TakesLow(c, l, ReadAt(c, l)) => HasLow(c, l)
        /\ \A k \in Bufs : k[1] = c /\ IsBuf(dec, k) /\ Reader(k) = l /\ Takes(dec, k, ReadAt(c, l))
             => ~ sync[k] /\ Holds(k, strip[k], RowIn(dec, k, ReadAt(c, l)))
    BY <1>3, <1>6
  <2>8. \A m \in 1 .. NL(dec, c) : m # l => idwt'[c][m] = idwt[c][m]
    BY <1>8
  <2>9. Moves(c, l, a, 1)
    BY ONLY <2>1, <2>2, <2>3, <2>4, <2>5, <2>6, <2>7, <2>8, Zenon DEF Moves
  <2>10. Alone(c)
    BY <1>8, Zenon DEF Alone
  <2> QED
    BY <2>9, <2>10
<1>9. CASE PassThrough(s)
  <2> DEFINE u == [s EXCEPT !.nextOut = s.nextOut + 1]
  <2>1. idwt' = [idwt EXCEPT ![c][l] = u] /\ Return(c, Passed(s, val))
    BY <1>7, <1>9 DEF s
  <2>2. RingOK(u) /\ SameLevel(s, u) /\ u.nextOut = s.nextOut + 1
    <3>1. s.nextOut < s.v1
      BY <1>3, <1>5, <1>9
    <3> QED
      BY <1>5, <1>9, <3>1, AdvanceOK
  <2> HIDE DEF u
  <2>3. /\ idwt'[c][l] = u /\ OnlyIn(c, idwt) /\ DOMAIN idwt'[c] = 1 .. NL(dec, c)
        /\ \A m \in 1 .. NL(dec, c) : m # l => idwt'[c][m] = idwt[c][m]
    BY <1>1, <2>1, SetLevel
  <2>4. Ring0
    BY <2>2, <2>3 DEF s
  <2>5. /\ FramesOK(c)' /\ Passes(c, l) /\ OnlyIn(c, calls) /\ OnlyIn(c, pulled)
        /\ IF l = NL(dec, c) THEN Len(pulled'[c]) = Len(pulled[c]) + 1 ELSE pulled'[c] = pulled[c]
    BY <1>1, <1>4, <2>1, ReturnDoes
  <2>6. /\ ~ HasLow(c, l)'
        /\ \A m \in 1 .. NL(dec, c) :
             HasLow(c, m)' => HasLow(c, m) \/ (m = l + 1 /\ 1 = 1)
    BY <2>5 DEF Passes
  <2>7. \/ Len(pulled'[c]) = Len(pulled[c])
        \/ l = NL(dec, c) /\ 1 = 1 /\ Len(pulled'[c]) = Len(pulled[c]) + 1
    BY <2>5
  <2>8. idwt'[c][l].nextOut = s.nextOut + 1
    BY <2>2, <2>3
  <2>9. Moves(c, l, 1, 1) /\ Alone(c)
    BY <1>8, <1>9, <2>4, <2>5, <2>6, <2>7, <2>8
  <2> QED
    BY <1>7, <2>9
<1>10. CASE ~ PassThrough(s)
  <2> DEFINE u == Fetched(s, val)
  <2>1. /\ idwt' = [idwt EXCEPT ![c][l] = u] /\ pulled' = pulled
        /\ calls' = [calls EXCEPT ![c] = Append(Front(Frames(c)), Frame(l))]
    BY <1>7, <1>10
  <2>2. RingOK(u) /\ SameLevel(s, u) /\ u.nextIn = s.nextIn + 1 /\ u.nextOut = s.nextOut
    <3>1. s.nextIn < s.v1
      BY <1>3, <1>5, <1>10
    <3> QED
      BY <1>5, <1>10, <3>1, FetchedOK
  <2> HIDE DEF u
  <2>3. /\ idwt'[c][l] = u /\ OnlyIn(c, idwt) /\ DOMAIN idwt'[c] = 1 .. NL(dec, c)
        /\ \A m \in 1 .. NL(dec, c) : m # l => idwt'[c][m] = idwt[c][m]
    BY <1>1, <2>1, SetLevel
  <2>4. Ring0
    BY <2>2, <2>3 DEF s
  <2>5. /\ FramesOK(c)' /\ OnlyIn(c, calls) /\ ~ HasLow(c, l)'
        /\ \A m \in 1 .. NL(dec, c) : HasLow(c, m)' => HasLow(c, m)
    BY <1>1, <1>4, <2>1, UsedDoes
  <2>6. OnlyIn(c, pulled) /\ Len(pulled'[c]) = Len(pulled[c])
    BY <2>1 DEF OnlyIn, Domains
  <2>7. idwt'[c][l].nextOut = s.nextOut + 0 /\ idwt'[c][l].nextIn = s.nextIn + 1
    BY <1>5, <2>2, <2>3
  <2>8. Moves(c, l, 0, 1) /\ Alone(c)
    BY <1>8, <1>10, <2>4, <2>5, <2>6, <2>7
  <2> QED
    BY <1>7, <2>8
<1> QED
  BY <1>9, <1>10

-----------------------------------------------------------------------------
(* A component without levels reads its only buffer. *)

\* A component without levels has one buffer, and reads it row by row.
LEMMA FlatIs ==
  ASSUME ShapeOK, NEW c \in Comps, NL(dec, c) = 0, PullOK(c), NEW k, k = <<c, 0, "LL">>
  PROVE  /\ IsBuf(dec, k) /\ k \in Bufs /\ k[1] = c /\ Level0(c) /\ ~ NeedsChild(c)
         /\ geo[k].y0 = V0(dec, c, 0) /\ geo[k].y1 = V1(dec, c, 0)
         /\ V0(dec, c, 0) \in Nat /\ V1(dec, c, 0) \in Nat
         /\ Ingredients(c) = <<[buf |-> k, row |-> nextRow[c]]>>
         /\ \A j \in Bufs : j[1] = c /\ IsBuf(dec, j) => j = k
         /\ Hungry(c) <=> Len(pulled[c]) < counts[c] /\ nextRow[c] < geo[k].y1
         /\ FramesOK(c) /\ Last(Frames(c)).lvl = 0
         /\ nextRow[c] \in Nat /\ V0(dec, c, 0) <= nextRow[c] /\ nextRow[c] <= V1(dec, c, 0)
<1>1. dec \in Shapes /\ c \in 1 .. Len(dec.comps)
  BY DEF ShapeOK, Comps
<1>2. k[1] = c /\ k[2] = 0 /\ k[3] = "LL"
  OBVIOUS
<1>3. IsBuf(dec, k) /\ k \in Bufs
  <2>1. 0 \in 0 .. NL(dec, c) /\ "LL" \in {"LL", "HL", "LH", "HH"} /\ HasBand(dec, c, 0, "LL")
    BY DEF HasBand
  <2>2. IsBuf(dec, k)
    BY <1>1, <2>1, BandIsBuf, Zenon
  <2> QED
    BY <2>2 DEF IsBuf
<1>4. geo[k].y0 = V0(dec, c, 0) /\ geo[k].y1 = V1(dec, c, 0)
  <2>1. geo[k] = GeoOf(dec)[k]
    BY DEF ShapeOK
  <2> QED
    BY <1>1, <1>2, <1>3, <2>1, BufRows
<1>5. V0(dec, c, 0) \in Nat /\ V1(dec, c, 0) \in Nat
  BY <1>1, LevelRows
<1>6. FramesOK(c) /\ RowOK(c)
  BY DEF PullOK
<1>7. Last(Frames(c)).lvl = 0 /\ Level0(c)
  <2>1. Last(Frames(c)).lvl = 0
    BY <1>6, FramesAre, Zenon
  <2> QED
    BY <2>1 DEF Level0
<1>8. nextRow[c] \in Nat /\ V0(dec, c, 0) <= nextRow[c] /\ nextRow[c] <= V1(dec, c, 0)
  BY <1>6 DEF RowOK
<1> DEFINE p == Buffer(c, 0, "LL", nextRow[c] - geo[k].y0)
<1>9. p = [buf |-> k, row |-> nextRow[c]]
  <2>1. p = [buf |-> k, row |-> geo[k].y0 + (nextRow[c] - geo[k].y0)]
    BY DEF Buffer
  <2>2. geo[k].y0 + (nextRow[c] - geo[k].y0) = nextRow[c]
    BY <1>4, <1>5, <1>8
  <2> QED
    BY <2>1, <2>2
<1>10. Ingredients(c) = <<p>>
  BY <1>7 DEF Ingredients
<1> HIDE DEF p
<1>11. ~ NeedsChild(c)
  <2>1. <<p>>[1] = p
    OBVIOUS
  <2>2. p.buf = k /\ Child.buf = <<>>
    BY <1>9 DEF Child
  <2>3. \A x, y, z : <<x, y, z>> # <<>>
    OBVIOUS
  <2>4. p # Child
    BY <2>2, <2>3
  <2> QED
    BY <1>10, <2>1, <2>4 DEF NeedsChild
<1>12. ASSUME NEW j \in Bufs, j[1] = c, IsBuf(dec, j) PROVE j = k
  BY <1>1, <1>12, BufIsTriple
<1>13. Hungry(c) <=> Len(pulled[c]) < counts[c] /\ nextRow[c] < geo[k].y1
  BY <1>7 DEF Hungry
<1> QED
  BY <1>2, <1>3, <1>4, <1>5, <1>6, <1>7, <1>8, <1>9, <1>10, <1>11, <1>12, <1>13, Zenon

\* What all steps of a flat component have in common.
LEMMA FlatKeeps ==
  ASSUME ShapeOK, NEW c \in Comps, NL(dec, c) = 0, PullOK(c), Fixed, sync' = sync, strip' = strip,
         stripY \in Nat, row \in Nat,
         FramesOK(c)', NEW a \in {0, 1}, nextRow'[c] = nextRow[c] + a, NEW k, k = <<c, 0, "LL">>,
         a = 1 => /\ nextRow[c] < geo[k].y1 /\ ~ sync[k] /\ Holds(k, strip[k], nextRow[c])
                  /\ Len(pulled'[c]) = Len(pulled[c]) + 1,
         a = 0 => nextRow[c] >= geo[k].y1
  PROVE  PullOK(c)'
<1>1. /\ IsBuf(dec, k) /\ k \in Bufs /\ k[1] = c
      /\ geo[k].y0 = V0(dec, c, 0) /\ geo[k].y1 = V1(dec, c, 0)
      /\ V0(dec, c, 0) \in Nat /\ V1(dec, c, 0) \in Nat
      /\ \A j \in Bufs : j[1] = c /\ IsBuf(dec, j) => j = k
      /\ FramesOK(c)
      /\ nextRow[c] \in Nat /\ V0(dec, c, 0) <= nextRow[c] /\ nextRow[c] <= V1(dec, c, 0)
  BY FlatIs
<1>2. dec' = dec /\ geo' = geo /\ NL(dec', c) = 0
  BY DEF Fixed
<1>3. Levels(c)' /\ Chained(c)'
  <2>1. 1 .. 0 = {} /\ 1 .. 0 - 1 = {}
    OBVIOUS
  <2> QED
    BY <1>2, <2>1 DEF Levels, Chained
<1>4. nextRow'[c] = nextRow[c] + a /\ nextRow'[c] <= V1(dec, c, 0) /\ nextRow'[c] \in Nat
      /\ V0(dec, c, 0) <= nextRow'[c]
  BY <1>1
<1>5. RowOK(c)'
  BY <1>2, <1>4 DEF RowOK
<1>6. Drawn(c)'
  <2> SUFFICES ASSUME NEW j \in Bufs, j[1] = c, IsBuf(dec, j), geo[j].y0 < geo[j].y1
               PROVE  Exhausted(j)'
    BY <1>2 DEF Drawn, IsBuf
  <2>1. j = k
    BY <1>1
  <2>2. ReadTo(k)' = nextRow'[c] /\ ReadTo(k) = nextRow[c]
    BY <1>1, <1>2 DEF ReadTo
  <2>3. Exhausted(k)
    BY <1>1, <2>1 DEF PullOK, Drawn
  <2>4. SUFFICES ASSUME nextRow'[c] = geo[k].y1
                 PROVE  ~ sync[k] /\ Holds(k, strip[k], geo[k].y1 - 1)
    BY <1>2, <2>1, <2>2 DEF Exhausted, Holds, StripEnd
  <2>5. CASE a = 0
    <3>1. nextRow[c] = geo[k].y1
      BY <1>1, <2>4, <2>5
    <3> QED
      BY <2>2, <2>3, <3>1 DEF Exhausted
  <2>6. CASE a = 1
    <3>1. nextRow[c] = geo[k].y1 - 1
      BY <1>1, <2>4, <2>6
    <3> QED
      BY <2>6, <3>1
  <2> QED
    BY <2>5, <2>6
<1>7. Paced(c)'
  <2> DEFINE v == dec.comps[c].v0
             x == stripY \div Step(c)
             y == (row + Step(c) - 1) \div Step(c)
             p == Len(pulled[c])
             pN == Len(pulled'[c])
  <2>1. Paced(c)' <=> nextRow'[c] = V1(dec, c, 0) \/ Due(c)' <= nextRow'[c] - v
    BY <1>2 DEF Paced, AllRead, Out
  <2>2. Paced(c) <=> nextRow[c] = V1(dec, c, 0) \/ Due(c) <= nextRow[c] - v
    BY DEF Paced, AllRead, Out
  <2>3. CASE a = 0
    <3>1. nextRow'[c] = V1(dec, c, 0)
      BY <1>1, <2>3
    <3> QED
      BY <2>1, <3>1
  <2>4. CASE a = 1
    <3>1. x \in Nat /\ y \in Nat /\ v \in Nat
      BY StepIs
    <3>2. /\ Due(c) = IF phase = "pull" THEN x + p ELSE y
          /\ Due(c)' = IF phase = "pull" THEN x + pN ELSE y
      <4>1. Step(c)' = Step(c)
        BY DEF Fixed, Step
      <4> QED
        BY <4>1 DEF Due, Fixed
    <3>3. p \in Nat /\ pN = p + 1
      BY <1>1, <2>4 DEF FramesOK
    <3>4. Due(c) <= nextRow[c] - v
      BY <1>1, <2>2, <2>4 DEF PullOK
    <3> HIDE DEF x, y, v, p, pN
    <3>5. Due(c)' <= nextRow'[c] - v
      BY <1>1, <1>4, <2>4, <3>1, <3>2, <3>3, <3>4
    <3> QED
      BY <2>1, <3>5
  <2> QED
    BY <2>3, <2>4
<1> QED
  BY <1>3, <1>5, <1>6, <1>7 DEF PullOK

\* A component without levels, with no row left, returns null.
LEMMA FlatReturn ==
  ASSUME ShapeOK, Domains, NEW c \in Comps, NL(dec, c) = 0, PullOK(c), PullReturn(c),
         stripY \in Nat, row \in Nat
  PROVE  /\ PullOK(c)' /\ idwt' = idwt /\ nextRow' = nextRow
         /\ OnlyIn(c, calls) /\ OnlyIn(c, pulled)
<1>0. PICK k : k = <<c, 0, "LL">>
  OBVIOUS
<1>1. /\ Level0(c) /\ FramesOK(c) /\ Last(Frames(c)).lvl = 0
      /\ Hungry(c) <=> Len(pulled[c]) < counts[c] /\ nextRow[c] < geo[k].y1
      /\ geo[k].y1 = V1(dec, c, 0) /\ V1(dec, c, 0) \in Nat /\ nextRow[c] \in Nat
  BY <1>0, FlatIs
<1>2. /\ Len(pulled[c]) < counts[c] /\ ~ Hungry(c) /\ ReturnNull(c) /\ idwt' = idwt /\ nextRow' = nextRow
      /\ Fixed /\ sync' = sync /\ strip' = strip
  BY <1>1 DEF PullReturn, Fixed, driverVars, bufVars
<1>3. nextRow[c] >= geo[k].y1
  BY <1>1, <1>2
<1>4. FramesOK(c)' /\ OnlyIn(c, calls) /\ OnlyIn(c, pulled)
  <2>1. PICK l : l = Last(Frames(c)).lvl
    OBVIOUS
  <2>2. dec' = dec /\ counts' = counts
    BY <1>2 DEF Fixed
  <2> QED
    BY <1>1, <1>2, <2>1, <2>2, ReturnNullDoes, Zenon
<1>5. nextRow'[c] = nextRow[c] + 0 /\ 0 # 1 /\ 0 \in {0, 1}
  BY <1>1, <1>2
<1>6. PullOK(c)'
  BY <1>0, <1>2, <1>3, <1>4, <1>5, FlatKeeps
<1> QED
  BY <1>2, <1>4, <1>6

\* A component without levels hands out the rows of LL0.
LEMMA FlatFetch ==
  ASSUME ShapeOK, Domains, NEW c \in Comps, NL(dec, c) = 0, PullOK(c), PullFetch(c),
         stripY \in Nat, row \in Nat
  PROVE  /\ PullOK(c)' /\ idwt' = idwt /\ OnlyIn(c, nextRow)
         /\ OnlyIn(c, calls) /\ OnlyIn(c, pulled)
<1>0. PICK k : k = <<c, 0, "LL">>
  OBVIOUS
<1>1. /\ Level0(c) /\ FramesOK(c) /\ Last(Frames(c)).lvl = 0
      /\ Hungry(c) <=> Len(pulled[c]) < counts[c] /\ nextRow[c] < geo[k].y1
      /\ Ingredients(c) = <<[buf |-> k, row |-> nextRow[c]]>>
      /\ IsBuf(dec, k) /\ nextRow[c] \in Nat
  BY <1>0, FlatIs
<1>2. /\ Hungry(c) /\ Unsettled(c) = {} /\ idwt' = idwt
      /\ nextRow' = [nextRow EXCEPT ![c] = @ + 1]
      /\ Fixed /\ sync' = sync /\ strip' = strip
  BY <1>1 DEF PullFetch, Fixed, driverVars, bufVars
<1>3. PICK val : Return(c, val)
  <2> DEFINE from  == Ingredients(c)
             top   == Last(Frames(c))
             low   == IF top.low # Junk /\ top.low[3] = MaxLevel(dec.comps[c].xf)
                      THEN <<top.low[1], top.low[2]>> ELSE Junk
             parts == [i \in DOMAIN from |->
                         IF from[i] = Child THEN low ELSE BandSamples(from[i].buf, from[i].row)]
             val   == IF parts[1] = Junk THEN Junk
                      ELSE Row(parts[1][1], parts[1][2], MaxLevel(dec.comps[c].xf))
  <2>1. Return(c, val)
    BY <1>1, Zenon DEF PullFetch
  <2> HIDE DEF val
  <2> QED
    BY <2>1
<1>4. /\ FramesOK(c)' /\ OnlyIn(c, calls) /\ OnlyIn(c, pulled)
      /\ Len(pulled'[c]) = Len(pulled[c]) + 1
  <2>1. PICK l : l = Last(Frames(c)).lvl
    OBVIOUS
  <2>2. dec' = dec /\ counts' = counts /\ Len(pulled[c]) < counts[c]
    BY <1>1, <1>2 DEF Fixed
  <2>3. l = NL(dec, c)
    BY <1>1, <2>1
  <2> QED
    BY <1>1, <1>3, <2>1, <2>2, <2>3, ReturnDoes, Zenon
<1>5. nextRow'[c] = nextRow[c] + 1 /\ OnlyIn(c, nextRow)
  BY <1>2 DEF Domains, OnlyIn
<1>6. ~ sync[k] /\ Holds(k, strip[k], nextRow[c])
  <2> DEFINE p == [buf |-> k, row |-> nextRow[c]]
  <2>1. p.buf = k /\ p.row = nextRow[c]
    OBVIOUS
  <2>2. p # Child
    <3>1. Child.buf = <<>>
      BY DEF Child
    <3>2. \A x, y, z : <<x, y, z>> # <<>>
      OBVIOUS
    <3> QED
      BY <1>0, <2>1, <3>1, <3>2
  <2>3. Ingredients(c) = <<p>>
    BY <1>1
  <2> HIDE DEF p
  <2>4. 1 \in DOMAIN Ingredients(c) /\ Ingredients(c)[1] = p
    BY <2>3
  <2>5. 1 \notin Unsettled(c)
    BY <1>2
  <2>6. ~ (/\ Ingredients(c)[1] # Child
           /\ \/ sync[Ingredients(c)[1].buf]
              \/ ~ Holds(Ingredients(c)[1].buf, strip[Ingredients(c)[1].buf], Ingredients(c)[1].row))
    BY <2>4, <2>5 DEF Unsettled
  <2> QED
    BY <2>1, <2>2, <2>4, <2>6
<1>7. nextRow[c] < geo[k].y1 /\ 1 # 0 /\ 1 \in {0, 1}
  BY <1>1, <1>2
<1>8. PullOK(c)'
  BY <1>0, <1>2, <1>4, <1>5, <1>6, <1>7, FlatKeeps
<1> QED
  BY <1>2, <1>4, <1>5, <1>8

-----------------------------------------------------------------------------
(* Steps that are none of a component's, and what a pull's step does to all. *)

\* A component whose levels, calls and buffers did not move is as it was.
LEMMA Resting ==
  ASSUME NEW d, PullOK(d), dec' = dec, geo' = geo,
         idwt'[d] = idwt[d], calls'[d] = calls[d], nextRow'[d] = nextRow[d],
         \A k \in Bufs : k[1] = d /\ IsBuf(dec, k) =>
            (sync'[k] = sync[k] /\ strip'[k] = strip[k]) \/ ReadTo(k) # geo[k].y1,
         FramesOK(d)', Paced(d)'
  PROVE  PullOK(d)'
<1>1. Levels(d) /\ RowOK(d) /\ Chained(d) /\ Drawn(d)
  BY DEF PullOK
<1>3. Levels(d)'
  BY <1>1 DEF Levels, LevelOK
<1>4. RowOK(d)'
  BY <1>1 DEF RowOK
<1>6. Chained(d)'
  <2> SUFFICES ASSUME NEW m \in 1 .. NL(dec, d) - 1 PROVE Supplies(d, m)'
    BY DEF Chained
  <2>1. Supplies(d, m)
    BY <1>1 DEF Chained
  <2>2. AllIn(d, m)' <=> AllIn(d, m)
    BY DEF AllIn, ReadAt
  <2>3. HasLow(d, m + 1)' <=> HasLow(d, m + 1)
    BY DEF HasLow, At
  <2>4. Asked(d, m)' = Asked(d, m)
    BY <2>3 DEF Asked, ReadAt
  <2> QED
    BY <2>1, <2>2, <2>4 DEF Supplies
<1>7. Drawn(d)'
  <2> SUFFICES ASSUME NEW k \in Bufs, k[1] = d, IsBuf(dec, k), geo[k].y0 < geo[k].y1
               PROVE  Exhausted(k)'
    BY DEF Drawn, IsBuf
  <2>1. Exhausted(k)
    BY <1>1 DEF Drawn
  <2>2. ReadTo(k)' = ReadTo(k)
    BY DEF ReadTo, RowIn, ReaderDir, ReadAt, Reader, BandRow
  <2>3. CASE ReadTo(k) # geo[k].y1
    BY <2>2, <2>3 DEF Exhausted
  <2>4. CASE ReadTo(k) = geo[k].y1
    <3>1. sync'[k] = sync[k] /\ strip'[k] = strip[k]
      BY <2>4
    <3> QED
      BY <2>1, <2>4, <3>1 DEF Exhausted, Holds, StripEnd
  <2> QED
    BY <2>3, <2>4
<1> QED
  BY <1>3, <1>4, <1>6, <1>7 DEF PullOK

\* Nor did it move if only buffers it is still reading did.
LEMMA Unmoved ==
  ASSUME NEW d, PullOK(d), Fixed,
         idwt'[d] = idwt[d], calls'[d] = calls[d], pulled'[d] = pulled[d], nextRow'[d] = nextRow[d],
         \A k \in Bufs : k[1] = d /\ IsBuf(dec, k) =>
            (sync'[k] = sync[k] /\ strip'[k] = strip[k]) \/ ReadTo(k) # geo[k].y1
  PROVE  PullOK(d)'
<1>1. FramesOK(d) /\ Paced(d)
  BY DEF PullOK
<1>2. /\ dec' = dec /\ geo' = geo /\ phase' = phase /\ stripY' = stripY /\ row' = row
      /\ counts' = counts
  BY DEF Fixed
<1>3. FramesOK(d)'
  BY <1>1, <1>2, Zenon DEF FramesOK
<1>4. Paced(d)'
  <2>1. AllRead(d)' <=> AllRead(d)
    BY <1>2 DEF AllRead, AllIn, ReadAt
  <2>2. Step(d)' = Step(d)
    BY <1>2 DEF Step
  <2>3. Due(d)' = Due(d) /\ Out(d)' = Out(d)
    BY <1>2, <2>2 DEF Due, Out
  <2> QED
    BY <1>1, <1>2, <2>1, <2>3 DEF Paced
<1> QED
  BY <1>2, <1>3, <1>4, Resting, Zenon

\* A step of one component keeps the domains.
LEMMA DomainsStay ==
  ASSUME Domains, NEW c \in Comps, dec' = dec, Alone(c), nextRow' = nextRow
  PROVE  Domains'
<1>1. Comps' = Comps /\ \A d : NL(dec', d) = NL(dec, d)
  BY DEF Comps
<1>2. ASSUME NEW d \in Comps PROVE DOMAIN idwt'[d] = 1 .. NL(dec, d)
  BY DEF Alone, OnlyIn, Domains
<1> QED
  BY <1>1, <1>2 DEF Alone, OnlyIn, Domains

\* The buffer the pull waits for or decodes, and the row it wants there.
LEMMA BandIs ==
  ASSUME ShapeOK, NEW c \in Comps, PullOK(c), Hungry(c), ~ NeedsChild(c), Unsettled(c) # {}
  PROVE  \E k \in Bufs : /\ Pending(c).buf = k /\ k[1] = c /\ IsBuf(dec, k)
                         /\ Pending(c).row \in geo[k].y0 .. geo[k].y1 - 1
                         /\ geo[k].y0 \in Nat /\ geo[k].y1 \in Nat
                         /\ ReadTo(k) = Pending(c).row
<1>1. CASE NL(dec, c) = 0
  <2>0. PICK k : k = <<c, 0, "LL">>
    OBVIOUS
  <2>1. /\ IsBuf(dec, k) /\ k \in Bufs /\ k[1] = c
        /\ geo[k].y0 = V0(dec, c, 0) /\ geo[k].y1 = V1(dec, c, 0)
        /\ V0(dec, c, 0) \in Nat /\ V1(dec, c, 0) \in Nat
        /\ Ingredients(c) = <<[buf |-> k, row |-> nextRow[c]]>>
        /\ Hungry(c) <=> Len(pulled[c]) < counts[c] /\ nextRow[c] < geo[k].y1
        /\ nextRow[c] \in Nat /\ V0(dec, c, 0) <= nextRow[c]
    BY <1>1, <2>0, FlatIs
  <2> DEFINE p == [buf |-> k, row |-> nextRow[c]]
  <2>2. p.buf = k /\ p.row = nextRow[c]
    OBVIOUS
  <2>3. Ingredients(c) = <<p>>
    BY <2>1
  <2> HIDE DEF p
  <2>4. DOMAIN Ingredients(c) = {1} /\ Ingredients(c)[1] = p
    BY <2>3
  <2>5. Unsettled(c) = {1}
    <3>1. Unsettled(c) \subseteq DOMAIN Ingredients(c)
      BY DEF Unsettled
    <3> QED
      BY <2>4, <3>1
  <2>6. Min({1}) = 1
    BY DEF Min
  <2>7. Pending(c) = p
    BY <2>4, <2>5, <2>6 DEF Pending
  <2>8. ReadTo(k) = nextRow[c]
    BY <1>1, <2>1 DEF ReadTo
  <2>9. nextRow[c] \in geo[k].y0 .. geo[k].y1 - 1
    BY <2>1
  <2> QED
    BY <2>1, <2>2, <2>7, <2>8, <2>9
<1>2. CASE NL(dec, c) # 0
  <2>1. PICK l : l = Last(Frames(c)).lvl
    OBVIOUS
  <2>2. PICK r : OnTop(c, l, r)
    BY <1>2, <2>1, HungryIs
  <2>3. PICK k \in Bufs : /\ k[1] = c /\ IsBuf(dec, k) /\ Pending(c) = Read(k, r)
                         /\ Pending(c).buf = k /\ Pending(c).row = RowIn(dec, k, r)
                         /\ Reader(k) = l /\ RowIn(dec, k, r) \in geo[k].y0 .. geo[k].y1 - 1
                         /\ geo[k].y0 \in Nat /\ geo[k].y1 \in Nat
    BY <1>2, <2>2, PendingIs
  <2>4. ReadTo(k) = RowIn(dec, k, r)
    BY <1>2, <2>2, <2>3 DEF ReadTo, OnTop
  <2> QED
    BY <2>3, <2>4
<1> QED
  BY <1>1, <1>2

\* row_ptr on one buffer leaves the others alone.
LEMMA BandTouches ==
  ASSUME BufTypes, NEW k \in Bufs, NEW y, RowHit(k, y) \/ RowMiss(k, y) \/ StripDone(k)
  PROVE  /\ geo' = geo
         /\ \A j \in Bufs : j # k => sync'[j] = sync[j] /\ strip'[j] = strip[j]
<1>1. sync \in [Bufs -> BOOLEAN] /\ DOMAIN strip = Bufs
  BY DEF BufTypes
<1>2. CASE RowHit(k, y)
  BY <1>1, <1>2 DEF RowHit
<1>3. CASE RowMiss(k, y)
  BY <1>1, <1>3 DEF RowMiss
<1>4. CASE StripDone(k)
  BY <1>1, <1>4 DEF StripDone
<1> QED
  BY <1>2, <1>3, <1>4

\* A step of a pull keeps what is true of every component, and does with the
\* buffers only what a client may.
LEMMA PullKeeps ==
  ASSUME ShapeOK, Domains, BufTypes, NEW c \in Comps, \A d \in Comps : PullOK(d), Pull(c),
         stripY \in Nat, row \in Nat
  PROVE  /\ ShapeOK' /\ Domains' /\ \A d \in Comps : PullOK(d)'
         /\ OnlyIn(c, pulled) /\ counts' = counts /\ [BufNext]_bufVars
<1> DEFINE n == NL(dec, c)
<1>1. PullOK(c) /\ dec' = dec /\ counts' = counts
  BY DEF Pull, PullReturn, PullChild, PullBand, PullFetch, driverVars
<1>2. SUFFICES /\ geo' = geo /\ Domains' /\ \A d \in Comps : PullOK(d)'
               /\ OnlyIn(c, pulled) /\ [BufNext]_bufVars
  BY <1>1 DEF ShapeOK
<1>3. ASSUME Fixed, bufVars' = bufVars, Alone(c), nextRow' = nextRow, PullOK(c)'
      PROVE  /\ geo' = geo /\ Domains' /\ \A d \in Comps : PullOK(d)'
             /\ OnlyIn(c, pulled) /\ [BufNext]_bufVars
  <2>1. geo' = geo /\ sync' = sync /\ strip' = strip
    BY <1>3 DEF bufVars
  <2>2. ASSUME NEW d \in Comps, d # c PROVE PullOK(d)'
    <3>1. idwt'[d] = idwt[d] /\ calls'[d] = calls[d] /\ pulled'[d] = pulled[d] /\ nextRow'[d] = nextRow[d]
      BY <1>3, <2>2 DEF Alone, OnlyIn
    <3> QED
      BY <1>3, <2>1, <3>1, Unmoved
  <2>3. Domains'
    BY <1>1, <1>3, DomainsStay, Zenon
  <2> QED
    BY <1>3, <2>1, <2>2, <2>3 DEF Alone
<1>4. ASSUME NEW l \in 1 .. NL(dec, c), NEW a \in {0, 1}, NEW b \in {0, 1}, Moves(c, l, a, b),
             Fixed, bufVars' = bufVars, Alone(c), nextRow' = nextRow
      PROVE  /\ geo' = geo /\ Domains' /\ \A d \in Comps : PullOK(d)'
             /\ OnlyIn(c, pulled) /\ [BufNext]_bufVars
  <2>1. sync' = sync /\ strip' = strip
    BY <1>4 DEF bufVars
  <2>2. PullOK(c)'
    BY <1>1, <1>4, <2>1, MovesKeeps, Zenon
  <2> QED
    BY <1>3, <1>4, <2>2, Zenon
<1>5. PICK l : l = Last(Frames(c)).lvl
  OBVIOUS
<1>6. n # 0 => l \in 1 .. NL(dec, c)
  <2>1. FramesOK(c)
    BY <1>1 DEF PullOK
  <2> QED
    BY <1>5, <2>1, FramesAre, Zenon
<1>7. CASE PullReturn(c)
  <2>1. Fixed /\ bufVars' = bufVars /\ nextRow' = nextRow
    BY <1>7 DEF PullReturn, driverVars, bufVars, Fixed
  <2>2. CASE n # 0
    <3>1. PICK a \in {0, 1} : Moves(c, l, a, 0) /\ Alone(c)
      BY <1>1, <1>5, <1>7, <2>2, ReturnMoves, Zenon
    <3>2. 0 \in {0, 1}
      OBVIOUS
    <3> QED
      BY <1>4, <1>6, <2>1, <2>2, <3>1, <3>2, Zenon
  <2>3. CASE n = 0
    <3>1. /\ PullOK(c)' /\ idwt' = idwt /\ OnlyIn(c, calls) /\ OnlyIn(c, pulled)
      BY <1>1, <1>7, <2>3, FlatReturn, Zenon
    <3>2. Alone(c)
      BY <3>1 DEF Alone, OnlyIn, Domains
    <3> QED
      BY <1>3, <2>1, <3>1, <3>2, Zenon
  <2> QED
    BY <2>2, <2>3
<1>8. CASE PullChild(c)
  <2>1. Fixed /\ bufVars' = bufVars /\ nextRow' = nextRow
    BY <1>8 DEF PullChild, driverVars, bufVars, Fixed
  <2>2. CASE n # 0
    <3>1. Moves(c, l, 0, 0) /\ Alone(c)
      BY <1>1, <1>5, <1>8, <2>2, ChildMoves, Zenon
    <3>2. 0 \in {0, 1}
      OBVIOUS
    <3> QED
      BY <1>4, <1>6, <2>1, <2>2, <3>1, <3>2, Zenon
  <2>3. CASE n = 0
    <3>0. PICK k : k = <<c, 0, "LL">>
      OBVIOUS
    <3>1. ~ NeedsChild(c)
      BY <1>1, <2>3, <3>0, FlatIs, Zenon
    <3> QED
      BY <1>8, <3>1 DEF PullChild
  <2> QED
    BY <2>2, <2>3
<1>9. CASE PullFetch(c)
  <2>1. Fixed /\ bufVars' = bufVars
    BY <1>9 DEF PullFetch, driverVars, bufVars, Fixed
  <2>2. CASE n # 0
    <3>1. PICK a \in {0, 1} : Moves(c, l, a, 1) /\ Alone(c) /\ nextRow' = nextRow
      BY <1>1, <1>5, <1>9, <2>2, FetchMoves, Zenon
    <3>2. 1 \in {0, 1}
      OBVIOUS
    <3> QED
      BY <1>4, <1>6, <2>1, <2>2, <3>1, <3>2, Zenon
  <2>3. CASE n = 0
    <3>1. /\ PullOK(c)' /\ idwt' = idwt /\ OnlyIn(c, nextRow)
          /\ OnlyIn(c, calls) /\ OnlyIn(c, pulled)
      BY <1>1, <1>9, <2>3, FlatFetch, Zenon
    <3>2. geo' = geo /\ sync' = sync /\ strip' = strip
      BY <2>1 DEF bufVars
    <3>3. ASSUME NEW d \in Comps, d # c PROVE PullOK(d)'
      <4>1. idwt'[d] = idwt[d] /\ calls'[d] = calls[d] /\ pulled'[d] = pulled[d] /\ nextRow'[d] = nextRow[d]
        BY <3>1, <3>3 DEF OnlyIn
      <4> QED
        BY <2>1, <3>2, <4>1, Unmoved
    <3>4. Domains'
      BY <1>1, <3>1 DEF Domains, OnlyIn, Comps
    <3> QED
      BY <2>1, <3>1, <3>2, <3>3, <3>4
  <2> QED
    BY <2>2, <2>3
<1>10. CASE PullBand(c)
  <2>1. /\ Fixed \/ geo' # geo
        /\ idwt' = idwt /\ calls' = calls /\ pulled' = pulled /\ nextRow' = nextRow
        /\ Hungry(c) /\ ~ NeedsChild(c) /\ Unsettled(c) # {}
    BY <1>10 DEF PullBand, driverVars, pullVars, Fixed
  <2>2. PICK k \in Bufs : /\ Pending(c).buf = k /\ k[1] = c /\ IsBuf(dec, k)
                          /\ Pending(c).row \in geo[k].y0 .. geo[k].y1 - 1
                          /\ geo[k].y0 \in Nat /\ geo[k].y1 \in Nat
                          /\ ReadTo(k) = Pending(c).row
    BY <1>1, <2>1, BandIs
  <2>3. PICK y : y = Pending(c).row
    OBVIOUS
  <2>4. RowHit(k, y) \/ RowMiss(k, y) \/ StripDone(k)
    BY <1>10, <2>2, <2>3 DEF PullBand
  <2>5. /\ geo' = geo
        /\ \A j \in Bufs : j # k => sync'[j] = sync[j] /\ strip'[j] = strip[j]
    BY <2>4, BandTouches
  <2>6. ReadTo(k) # geo[k].y1
    BY <2>2
  <2>7. ASSUME NEW d \in Comps PROVE PullOK(d)'
    BY <2>1, <2>5, <2>6, Unmoved
  <2>8. BufNext
    BY <2>2, <2>3, <2>4 DEF BufNext
  <2>9. Domains' /\ OnlyIn(c, pulled)
    BY <1>1, <2>1 DEF Domains, OnlyIn, Comps
  <2> QED
    BY <2>5, <2>7, <2>8, <2>9
<1> QED
  BY <1>7, <1>8, <1>9, <1>10 DEF Pull

-----------------------------------------------------------------------------
(* The tasks: where the strips of the components are. *)

StackOK == \E S : stack \in [Threads -> Seq(S)]
OnStack(t, i, c) == i \in 1 .. Len(stack[t]) /\ stack[t][i] = Strip(c)
Held(c) == \E t \in Threads : \E i \in Nat : OnStack(t, i, c)

\* Components whose rows of this strip are not all pulled.
Open == {c \in Comps : c \in waiting \/ Held(c)}

Once ==
  \A c \in Comps : \A t, u \in Threads : \A i, j \in Nat :
    OnStack(t, i, c) /\ OnStack(u, j, c) => t = u /\ i = j

TaskOK ==
  /\ StackOK /\ waiting \subseteq Comps /\ \A c \in waiting : ~ Held(c)
  /\ Once
  /\ pullCnt = IF Parallel THEN Cardinality(Open) ELSE 0
  /\ ~ Parallel => \A t \in Threads : \A i \in Nat : \A c \in Comps : OnStack(t, i, c) => t = Main
  /\ phase = "strip" => Open = {}
  /\ \A c \in Comps : c \notin Open => Len(pulled[c]) = counts[c]

\* Tasks of different kinds or components differ.
LEMMA TaskNames ==
  /\ \A c, b : Strip(c) # Block(b)
  /\ \A c, d : Strip(c) = Strip(d) => c = d
  /\ \A c : Strip(c) # <<"nothing">>
<1>1. \A c, b : <<"strip", c>> # <<"block", b>>
  <2> SUFFICES ASSUME NEW c, NEW b, <<"strip", c>> = <<"block", b>> PROVE FALSE
    OBVIOUS
  <2>1. <<"strip", c>>[1] = "strip" /\ <<"block", b>>[1] = "block"
    OBVIOUS
  <2> QED
    BY <2>1
<1>2. \A c, d : <<"strip", c>> = <<"strip", d>> => c = d
  <2> SUFFICES ASSUME NEW c, NEW d, <<"strip", c>> = <<"strip", d>> PROVE c = d
    OBVIOUS
  <2>1. <<"strip", c>>[2] = c /\ <<"strip", d>>[2] = d
    OBVIOUS
  <2> QED
    BY <2>1
<1>3. \A c : <<"strip", c>> # <<"nothing">>
  <2> SUFFICES ASSUME NEW c, <<"strip", c>> = <<"nothing">> PROVE FALSE
    OBVIOUS
  <2>1. Len(<<"strip", c>>) = 2 /\ Len(<<"nothing">>) = 1
    OBVIOUS
  <2> QED
    BY <2>1
<1> QED
  BY <1>1, <1>2, <1>3 DEF Strip, Block

\* What taking up a task adds to a stack.
LEMMA PushDoes ==
  ASSUME StackOK, NEW t \in Threads, NEW x, stack' = [stack EXCEPT ![t] = Append(@, x)]
  PROVE  /\ StackOK' /\ Len(stack[t]) + 1 \in Nat
         /\ \A u \in Threads : \A i \in Nat : \A c :
              OnStack(u, i, c)' <=> OnStack(u, i, c) \/ (u = t /\ i = Len(stack[t]) + 1 /\ x = Strip(c))
<1> PICK S : stack \in [Threads -> Seq(S)]
  BY DEF StackOK
<1> DEFINE q == stack[t]
           new == Append(q, x)
           T == S \cup {x}
<1>1. q \in Seq(S) /\ Len(q) \in Nat
  OBVIOUS
<1>2. q \in Seq(T) /\ x \in T
  BY <1>1
<1>3. stack \in [Threads -> Seq(T)]
  OBVIOUS
<1>4. stack' = [stack EXCEPT ![t] = new]
  OBVIOUS
<1> HIDE DEF q, T
<1>5. /\ new \in Seq(T) /\ Len(new) = Len(q) + 1
      /\ \A i \in 1 .. Len(q) : new[i] = q[i]
      /\ new[Len(q) + 1] = x
  BY <1>2
<1> HIDE DEF new
<1>6. stack' \in [Threads -> Seq(T)] /\ stack'[t] = new
      /\ \A u \in Threads : u # t => stack'[u] = stack[u]
  BY <1>3, <1>4, <1>5
<1>7. ASSUME NEW u \in Threads, NEW i \in Nat, NEW c
      PROVE  OnStack(u, i, c)' <=> OnStack(u, i, c) \/ (u = t /\ i = Len(q) + 1 /\ x = Strip(c))
  <2>1. Strip(c)' = Strip(c)
    BY DEF Strip
  <2>2. CASE u # t
    BY <1>6, <2>1, <2>2 DEF OnStack
  <2>3. CASE u = t
    <3>1. OnStack(u, i, c)' <=> i \in 1 .. Len(q) + 1 /\ new[i] = Strip(c)
      BY <1>5, <1>6, <2>1, <2>3 DEF OnStack
    <3>2. OnStack(u, i, c) <=> i \in 1 .. Len(q) /\ q[i] = Strip(c)
      BY <2>3 DEF OnStack, q
    <3>3. i \in 1 .. Len(q) + 1 <=> i \in 1 .. Len(q) \/ i = Len(q) + 1
      BY <1>1
    <3>4. ~ (Len(q) + 1 \in 1 .. Len(q))
      BY <1>1
    <3> QED
      BY <1>5, <2>3, <3>1, <3>2, <3>3, <3>4
  <2> QED
    BY <2>2, <2>3
<1> QED
  BY <1>1, <1>6, <1>7 DEF StackOK, q

\* What ending a task removes from a stack.
LEMMA PopDoes ==
  ASSUME StackOK, NEW t \in Threads, stack[t] # <<>>, stack' = [stack EXCEPT ![t] = Front(@)]
  PROVE  /\ StackOK' /\ Len(stack[t]) \in Nat
         /\ \A u \in Threads : \A i \in Nat : \A c :
              OnStack(u, i, c)' <=> OnStack(u, i, c) /\ ~ (u = t /\ i = Len(stack[t]))
<1> PICK S : stack \in [Threads -> Seq(S)]
  BY DEF StackOK
<1> DEFINE q == stack[t]
           new == Front(q)
<1>1. q \in Seq(S) /\ Len(q) \in Nat
  OBVIOUS
<1>2. stack' = [stack EXCEPT ![t] = new]
  OBVIOUS
<1> HIDE DEF q
<1>3. /\ new \in Seq(S) /\ Len(new) = Len(q) - 1
      /\ \A i \in 1 .. Len(q) - 1 : new[i] = q[i]
  BY <1>1, FrontIs DEF q
<1> HIDE DEF new
<1>4. stack' \in [Threads -> Seq(S)] /\ stack'[t] = new
      /\ \A u \in Threads : u # t => stack'[u] = stack[u]
  BY <1>2, <1>3
<1>5. ASSUME NEW u \in Threads, NEW i \in Nat, NEW c
      PROVE  OnStack(u, i, c)' <=> OnStack(u, i, c) /\ ~ (u = t /\ i = Len(q))
  <2>1. Strip(c)' = Strip(c)
    BY DEF Strip
  <2>2. CASE u # t
    BY <1>4, <2>1, <2>2 DEF OnStack
  <2>3. CASE u = t
    <3>1. OnStack(u, i, c)' <=> i \in 1 .. Len(q) - 1 /\ new[i] = Strip(c)
      BY <1>3, <1>4, <2>1, <2>3 DEF OnStack
    <3>2. OnStack(u, i, c) <=> i \in 1 .. Len(q) /\ q[i] = Strip(c)
      BY <2>3 DEF OnStack, q
    <3>3. i \in 1 .. Len(q) - 1 <=> i \in 1 .. Len(q) /\ i # Len(q)
      BY <1>1
    <3> QED
      BY <1>3, <2>3, <3>1, <3>2, <3>3
  <2> QED
    BY <2>2, <2>3
<1> QED
  BY <1>1, <1>4, <1>5 DEF StackOK, q

\* The running task is the one on top.
LEMMA RunningIs ==
  ASSUME StackOK, NEW t \in Threads
  PROVE  /\ \A c : Running(t) = Strip(c) => stack[t] # <<>> /\ OnStack(t, Len(stack[t]), c)
         /\ \A b : Running(t) = Block(b) => stack[t] # <<>>
                                            /\ \A c : ~ OnStack(t, Len(stack[t]), c)
<1> PICK S : stack \in [Threads -> Seq(S)]
  BY DEF StackOK
<1> DEFINE q == stack[t]
<1>1. q \in Seq(S)
  OBVIOUS
<1>2. Running(t) = IF q = <<>> THEN <<"nothing">> ELSE Last(q)
  BY DEF Running
<1> HIDE DEF q
<1>3. q # <<>> => Last(q) = q[Len(q)] /\ Len(q) \in 1 .. Len(q)
  BY <1>1 DEF Last
<1>4. \A b : Block(b) # <<"nothing">>
  <2> SUFFICES ASSUME NEW b, <<"block", b>> = <<"nothing">> PROVE FALSE
    BY DEF Block
  <2>1. Len(<<"block", b>>) = 2 /\ Len(<<"nothing">>) = 1
    OBVIOUS
  <2> QED
    BY <2>1
<1> QED
  BY <1>2, <1>3, <1>4, TaskNames, Zenon DEF OnStack, q

\* Sets of components are finite.
LEMMA OpenFinite ==
  ASSUME ShapeOK
  PROVE  /\ IsFiniteSet(Comps) /\ Cardinality(Comps) = Len(dec.comps) /\ Len(dec.comps) \in Nat
         /\ \A S \in SUBSET Comps : /\ IsFiniteSet(S) /\ Cardinality(S) \in Nat
                                    /\ Cardinality(S) <= Len(dec.comps)
<1>1. Len(dec.comps) \in Nat
  <2>1. dec.comps \in Seq(CompShape)
    BY ShapesAssumption DEF ShapeOK, WellFormed
  <2> QED
    BY <2>1
<1>2. IsFiniteSet(Comps) /\ Cardinality(Comps) = Len(dec.comps)
  <2>1. \A n \in Nat : IsFiniteSet(1 .. n) /\ Cardinality(1 .. n) = n
    BY FS_Interval
  <2> QED
    BY <1>1, <2>1 DEF Comps
<1>3. ASSUME NEW S \in SUBSET Comps
      PROVE  IsFiniteSet(S) /\ Cardinality(S) \in Nat /\ Cardinality(S) <= Len(dec.comps)
  BY <1>2, FS_Subset, FS_CardinalityType
<1> QED
  BY <1>1, <1>2, <1>3

-----------------------------------------------------------------------------

\* The tasks after a step that neither takes up a strip nor ends one.
LEMMA TasksRest ==
  ASSUME TaskOK, dec' = dec, pooled' = pooled, phase' = phase \/ Open = {}, counts' = counts,
         waiting' = waiting, pullCnt' = pullCnt, StackOK',
         \A t \in Threads : \A i \in Nat : \A c : OnStack(t, i, c)' <=> OnStack(t, i, c),
         \A c \in Comps : c \notin Open => pulled'[c] = pulled[c]
  PROVE  TaskOK'
<1>1. Comps' = Comps /\ (Parallel' <=> Parallel)
  BY DEF Comps, Parallel
<1>2. \A t \in Threads : \A i \in Nat : \A c : OnStack(t, i, c)' <=> OnStack(t, i, c)
  OBVIOUS
<1>3. Open' = Open /\ \A c : Held(c)' <=> Held(c)
  BY <1>1, <1>2 DEF Open, Held
<1>4. StackOK' /\ Once'
  BY <1>1, <1>2 DEF StackOK, Once, TaskOK
<1> QED
  BY <1>1, <1>2, <1>3, <1>4 DEF TaskOK

\* The tasks after a step that moves a block or takes up a strip.
LEMMA TasksMove ==
  ASSUME TaskOK, dec' = dec, pooled' = pooled, phase' = phase, counts' = counts,
         pulled' = pulled, pullCnt' = pullCnt, StackOK',
         NEW C \in SUBSET waiting, waiting' = waiting \ C,
         NEW t \in Threads, NEW n \in Nat, ~ Parallel => t = Main \/ C = {},
         \A c \in C : \A d \in C : c = d,
         \A u \in Threads : \A i \in Nat : \A c \in Comps :
           OnStack(u, i, c)' <=> OnStack(u, i, c) \/ (u = t /\ i = n /\ c \in C)
  PROVE  TaskOK'
<1>1. Comps' = Comps /\ (Parallel' <=> Parallel)
  BY DEF Comps, Parallel
<1>2. \A c \in Comps : Held(c)' <=> Held(c) \/ c \in C
  BY DEF Held
<1>3. waiting \subseteq Comps /\ \A c \in waiting : ~ Held(c)
  BY DEF TaskOK
<1>4. Open' = Open
  BY <1>1, <1>2, <1>3 DEF Open
<1>5. waiting' \subseteq Comps' /\ \A c \in waiting' : ~ Held(c)'
  BY <1>1, <1>2, <1>3
<1>6. Once'
  <2> SUFFICES ASSUME NEW c \in Comps, NEW v \in Threads, NEW u \in Threads, NEW i \in Nat, NEW j \in Nat,
                      OnStack(v, i, c)', OnStack(u, j, c)'
               PROVE  v = u /\ i = j
    BY <1>1 DEF Once
  <2>1. CASE c \in C
    <3>1. ~ Held(c)
      BY <1>3, <2>1
    <3>2. ~ OnStack(v, i, c) /\ ~ OnStack(u, j, c)
      BY <3>1 DEF Held
    <3> QED
      BY <3>2
  <2>2. CASE c \notin C
    <3>1. OnStack(v, i, c) /\ OnStack(u, j, c)
      BY <2>2
    <3> QED
      BY <3>1 DEF TaskOK, Once
  <2> QED
    BY <2>1, <2>2
<1>7. ~ Parallel' => \A u \in Threads : \A i \in Nat : \A c \in Comps' : OnStack(u, i, c)' => u = Main
  BY <1>1 DEF TaskOK
<1> QED
  BY <1>1, <1>4, <1>5, <1>6, <1>7 DEF TaskOK

\* Taking up a block keeps the tasks in order.
LEMMA TakeBlockTasks ==
  ASSUME ShapeOK, TaskOK, NEW t \in Threads, TakeBlock(t)
  PROVE  TaskOK'
<1>1. /\ dec' = dec /\ pooled' = pooled /\ phase' = phase /\ counts' = counts
      /\ pulled' = pulled /\ pullCnt' = pullCnt /\ waiting' = waiting
  BY DEF TakeBlock, driverVars, pullVars, bufVars
<1>2. PICK b : stack' = [stack EXCEPT ![t] = Append(@, Block(b))]
  BY DEF TakeBlock
<1>3. /\ StackOK' /\ Len(stack[t]) + 1 \in Nat
      /\ \A u \in Threads : \A i \in Nat : \A c : OnStack(u, i, c)' <=> OnStack(u, i, c)
  <2>1. StackOK
    BY DEF TaskOK
  <2>2. \A c : Block(b) # Strip(c)
    BY TaskNames
  <2> QED
    BY <1>2, <2>1, <2>2, PushDoes
<1>4. \A c \in Comps : pulled'[c] = pulled[c]
  BY <1>1
<1> QED
  BY <1>1, <1>3, <1>4, TasksRest

\* Taking up a strip moves it from waiting to held.
LEMMA TakeStripTasks ==
  ASSUME ShapeOK, TaskOK, NEW t \in Threads, TakeStrip(t)
  PROVE  TaskOK'
<1>1. /\ dec' = dec /\ pooled' = pooled /\ phase' = phase /\ counts' = counts
      /\ pulled' = pulled /\ pullCnt' = pullCnt
  BY DEF TakeStrip, driverVars, pullVars, bufVars
<1>2. PICK c \in waiting : /\ waiting' = waiting \ {c}
                           /\ stack' = [stack EXCEPT ![t] = Append(@, Strip(c))]
  BY DEF TakeStrip
<1> DEFINE C == {c}
           n == Len(stack[t]) + 1
<1>3. /\ StackOK' /\ n \in Nat
      /\ \A u \in Threads : \A i \in Nat : \A d :
           OnStack(u, i, d)' <=> OnStack(u, i, d) \/ (u = t /\ i = n /\ Strip(c) = Strip(d))
  <2>1. StackOK
    BY DEF TaskOK
  <2> QED
    BY <1>2, <2>1, PushDoes
<1> HIDE DEF n
<1>4. \A u \in Threads : \A i \in Nat : \A d \in Comps :
        OnStack(u, i, d)' <=> OnStack(u, i, d) \/ (u = t /\ i = n /\ d \in C)
  BY <1>3, TaskNames
<1>5. C \in SUBSET waiting /\ waiting' = waiting \ C /\ \A x \in C : \A y \in C : x = y
  BY <1>2
<1>6. ~ Parallel => t = Main
  BY DEF TakeStrip
<1> HIDE DEF C
<1> QED
  BY <1>1, <1>3, <1>4, <1>5, <1>6, TasksMove

\* Ending a block keeps the tasks in order.
LEMMA EndBlockTasks ==
  ASSUME ShapeOK, TaskOK, NEW t \in Threads, EndBlock(t)
  PROVE  TaskOK'
<1>1. /\ dec' = dec /\ pooled' = pooled /\ phase' = phase /\ counts' = counts
      /\ pulled' = pulled /\ pullCnt' = pullCnt /\ waiting' = waiting
      /\ stack' = [stack EXCEPT ![t] = Front(@)]
  BY DEF EndBlock, driverVars, pullVars, FinishBlock
<1>2. PICK b : Running(t) = Block(b)
  BY DEF EndBlock
<1>3. /\ StackOK' /\ Len(stack[t]) \in Nat
      /\ \A u \in Threads : \A i \in Nat : \A c : OnStack(u, i, c)' <=> OnStack(u, i, c)
  <2>1. StackOK
    BY DEF TaskOK
  <2>2. stack[t] # <<>> /\ \A c : ~ OnStack(t, Len(stack[t]), c)
    BY <1>2, <2>1, RunningIs
  <2> QED
    BY <1>1, <2>1, <2>2, PopDoes
<1>4. \A c \in Comps : pulled'[c] = pulled[c]
  BY <1>1
<1> QED
  BY <1>1, <1>3, <1>4, TasksRest

\* Ending a strip counts it off: it was held, and nowhere else.
LEMMA EndStripTasks ==
  ASSUME ShapeOK, TaskOK, NEW t \in Threads, EndStrip(t)
  PROVE  TaskOK'
<1>1. /\ dec' = dec /\ pooled' = pooled /\ phase' = phase /\ counts' = counts
      /\ pulled' = pulled /\ waiting' = waiting
      /\ stack' = [stack EXCEPT ![t] = Front(@)]
      /\ pullCnt' = IF Parallel THEN pullCnt - 1 ELSE pullCnt
  BY DEF EndStrip, driverVars, pullVars, bufVars
<1>2. PICK c \in Comps : Running(t) = Strip(c) /\ Len(pulled[c]) = counts[c]
  BY DEF EndStrip
<1>3. StackOK
  BY DEF TaskOK
<1>4. stack[t] # <<>> /\ OnStack(t, Len(stack[t]), c)
  BY <1>2, <1>3, RunningIs
<1>5. /\ StackOK' /\ Len(stack[t]) \in Nat
      /\ \A u \in Threads : \A i \in Nat : \A d :
           OnStack(u, i, d)' <=> OnStack(u, i, d) /\ ~ (u = t /\ i = Len(stack[t]))
  BY <1>1, <1>3, <1>4, PopDoes
<1>6. Comps' = Comps /\ (Parallel' <=> Parallel)
  BY <1>1 DEF Comps, Parallel
<1>7. ASSUME NEW d \in Comps PROVE Held(d)' <=> Held(d) /\ d # c
  <2>1. CASE d = c
    <3>1. \A u \in Threads : \A i \in Nat : OnStack(u, i, c) => u = t /\ i = Len(stack[t])
      BY <1>4, <1>5 DEF TaskOK, Once
    <3> QED
      BY <1>5, <2>1, <3>1 DEF Held
  <2>2. CASE d # c
    <3>1. ~ OnStack(t, Len(stack[t]), d)
      BY <1>4, <2>2, TaskNames DEF OnStack
    <3>2. \A u \in Threads : \A i \in Nat : OnStack(u, i, d)' <=> OnStack(u, i, d)
      BY <1>5, <3>1
    <3> QED
      BY <2>2, <3>2 DEF Held
  <2> QED
    BY <2>1, <2>2
<1>8. Held(c) /\ c \notin waiting
  BY <1>4, <1>5 DEF Held, TaskOK
<1>9. Open' = Open \ {c} /\ c \in Open
  BY <1>1, <1>6, <1>7, <1>8 DEF Open
<1>10. pullCnt' = IF Parallel THEN Cardinality(Open \ {c}) ELSE 0
  <2>1. Open \in SUBSET Comps
    BY DEF Open
  <2>2. IsFiniteSet(Open) /\ Cardinality(Open) \in Nat
    BY <2>1, OpenFinite
  <2>3. Cardinality(Open \ {c}) = Cardinality(Open) - 1
    BY <1>9, <2>2, FS_RemoveElement
  <2>4. pullCnt = IF Parallel THEN Cardinality(Open) ELSE 0
    BY DEF TaskOK
  <2> QED
    BY <1>1, <2>3, <2>4
<1>11. Once'
  BY <1>5, <1>6 DEF Once, TaskOK
<1>12. waiting' \subseteq Comps' /\ \A d \in waiting' : ~ Held(d)'
  BY <1>1, <1>6, <1>7 DEF TaskOK
<1>13. ~ Parallel' => \A u \in Threads : \A i \in Nat : \A d \in Comps' : OnStack(u, i, d)' => u = Main
  BY <1>5, <1>6 DEF TaskOK
<1>14. phase' = "strip" => Open' = {}
  BY <1>1, <1>9 DEF TaskOK
<1>15. \A d \in Comps' : d \notin Open' => Len(pulled'[d]) = counts'[d]
  BY <1>1, <1>2, <1>6, <1>9 DEF TaskOK
<1> QED
  BY <1>5, <1>6, <1>9, <1>10, <1>11, <1>12, <1>13, <1>14, <1>15 DEF TaskOK

-----------------------------------------------------------------------------

\* A pull is a step of a strip some thread holds.
LEMMA PullTasks ==
  ASSUME TaskOK, NEW t \in Threads, NEW c \in Comps, Running(t) = Strip(c), Pull(c),
         OnlyIn(c, pulled), counts' = counts
  PROVE  TaskOK'
<1>1. /\ dec' = dec /\ phase' = phase /\ stack' = stack /\ waiting' = waiting
      /\ pullCnt' = pullCnt
  BY DEF Pull, PullReturn, PullChild, PullBand, PullFetch, driverVars, taskVars
<1>2. pooled' = pooled
  <2>1. CASE PullReturn(c) \/ PullChild(c) \/ PullFetch(c)
    BY <2>1 DEF PullReturn, PullChild, PullFetch, bufVars
  <2>2. CASE PullBand(c)
    BY <2>2 DEF PullBand, RowHit, RowMiss, StripDone
  <2> QED
    BY <2>1, <2>2 DEF Pull
<1>3. StackOK
  BY DEF TaskOK
<1>4. stack[t] # <<>> /\ OnStack(t, Len(stack[t]), c)
  BY <1>3, RunningIs
<1>5. Len(stack[t]) \in Nat
  BY <1>3 DEF StackOK
<1>6. c \in Open
  BY <1>4, <1>5 DEF Open, Held
<1>7. \A d \in Comps : d \notin Open => pulled'[d] = pulled[d]
  BY <1>6 DEF OnlyIn
<1>8. StackOK'
  BY <1>1, <1>3 DEF StackOK
<1>9. \A u \in Threads : \A i \in Nat : \A d : OnStack(u, i, d)' <=> OnStack(u, i, d)
  BY <1>1 DEF OnStack, Strip
<1> QED
  BY <1>1, <1>2, <1>7, <1>8, <1>9, TasksRest

-----------------------------------------------------------------------------
(* The heights of the strips. *)

\* The lesser of two numbers.
LEMMA MinOfTwo ==
  ASSUME NEW a \in Int, NEW b \in Int
  PROVE  Min({a, b}) = IF a <= b THEN a ELSE b
<1> DEFINE m == IF a <= b THEN a ELSE b
<1>1. m \in {a, b} /\ \A y \in {a, b} : m <= y
  OBVIOUS
<1>2. \A x \in {a, b} : (\A y \in {a, b} : x <= y) => x = m
  OBVIOUS
<1> HIDE DEF m
<1> QED
  BY <1>1, <1>2 DEF Min

\* The greater of two numbers.
LEMMA MaxOfTwo ==
  ASSUME NEW a \in Int, NEW b \in Int
  PROVE  Max({a, b}) \in {a, b} /\ Max({a, b}) >= a /\ Max({a, b}) >= b
<1> DEFINE m == IF a >= b THEN a ELSE b
<1>1. m \in {a, b} /\ \A y \in {a, b} : m >= y
  OBVIOUS
<1>2. \A x \in {a, b} : (\A y \in {a, b} : x >= y) => x = m
  OBVIOUS
<1> HIDE DEF m
<1> QED
  BY <1>1, <1>2 DEF Max

\* A non-empty family of numbers has a greatest one.
LEMMA MaxOfFamily ==
  ASSUME NEW n \in Nat \ {0}, NEW f, \A i \in 1 .. n : f[i] \in Nat
  PROVE  Max({f[i] : i \in 1 .. n}) \in {f[i] : i \in 1 .. n}
<1> DEFINE Top1(m, j) == j \in 1 .. m /\ \A i \in 1 .. m : f[i] <= f[j]
           S == {m \in 0 .. n : m = 0 \/ \E j : Top1(m, j)}
<1>1. 0 \in S
  OBVIOUS
<1>2. ASSUME NEW m \in 0 .. n - 1, m \in S PROVE m + 1 \in S
  <2>1. m + 1 \in 1 .. n /\ f[m + 1] \in Nat
    OBVIOUS
  <2>2. CASE m = 0
    <3>1. Top1(m + 1, 1)
      BY <2>1, <2>2
    <3> QED
      BY <2>1, <3>1
  <2>3. CASE m # 0
    <3>1. PICK j : Top1(m, j)
      BY <1>2, <2>3
    <3>2. j \in 1 .. n /\ f[j] \in Nat
      BY <3>1
    <3>3. Top1(m + 1, IF f[j] <= f[m + 1] THEN m + 1 ELSE j)
      <4>1. CASE f[j] <= f[m + 1]
        <5>1. ASSUME NEW i \in 1 .. m + 1 PROVE f[i] <= f[m + 1]
          <6>1. i = m + 1 \/ i \in 1 .. m
            OBVIOUS
          <6>2. i \in 1 .. m => f[i] <= f[j] /\ f[i] \in Nat
            BY <3>1
          <6> QED
            BY <2>1, <3>2, <4>1, <6>1, <6>2
        <5> QED
          BY <2>1, <4>1, <5>1
      <4>2. CASE ~ (f[j] <= f[m + 1])
        <5>1. f[m + 1] <= f[j]
          BY <2>1, <3>2, <4>2
        <5>2. \A i \in 1 .. m + 1 : i = m + 1 \/ i \in 1 .. m
          OBVIOUS
        <5> QED
          BY <3>1, <4>2, <5>1, <5>2
      <4> QED
        BY <4>1, <4>2
    <3>4. \E j1 : Top1(m + 1, j1)
      <4> HIDE DEF Top1
      <4> QED
        BY <3>3
    <3> QED
      BY <2>1, <3>4
  <2> QED
    BY <2>2, <2>3
<1>3. 0 .. n \subseteq S
  <2> HIDE DEF S
  <2> QED
    BY <1>1, <1>2, Climb
<1>4. PICK j : Top1(n, j)
  BY <1>3
<1> DEFINE T == {f[i] : i \in 1 .. n}
<1>5. f[j] \in T /\ \A y \in T : f[j] >= y
  BY <1>4
<1> HIDE DEF T
<1>6. \E x \in T : \A y \in T : x >= y
  BY <1>5
<1> QED
  BY <1>6 DEF Max, T

\* Rounding up to a multiple gives no zero.
LEMMA RoundedUp ==
  \A a \in Nat \ {0} : \A m \in Nat \ {0} : ((a + m - 1) \div m) * m \in Nat \ {0}
<1> SUFFICES ASSUME NEW a \in Nat \ {0}, NEW m \in Nat \ {0}
             PROVE  ((a + m - 1) \div m) * m \in Nat \ {0}
  OBVIOUS
<1> DEFINE q == (a + m - 1) \div m
<1>1. q \in Nat \ {0}
  <2>1. a + m - 1 \in Nat /\ a + m - 1 >= m
    OBVIOUS
  <2>2. \A x \in Nat : x >= m => x \div m \in Nat \ {0}
    OBVIOUS
  <2> QED
    BY <2>1, <2>2
<1> HIDE DEF q
<1>2. \A x, y \in Nat \ {0} : x * y \in Nat \ {0}
  OBVIOUS
<1> QED
  BY <1>1, <1>2 DEF q

\* Halves of strips: dividing keeps the order, and rounding up is above.
LEMMA Ceilings ==
  \A s \in Nat \ {0} : \A a, b \in Nat :
    /\ a \div s \in Nat /\ (a + s - 1) \div s \in Nat
    /\ a \div s <= (a + s - 1) \div s
    /\ (s - 1) \div s = 0 /\ (s = 1 => a \div s = a /\ (a + s - 1) \div s = a)
<1> SUFFICES ASSUME NEW s \in Nat \ {0}, NEW a \in Nat
             PROVE  /\ a \div s \in Nat /\ (a + s - 1) \div s \in Nat
                    /\ a \div s <= (a + s - 1) \div s
                    /\ (s - 1) \div s = 0 /\ (s = 1 => a \div s = a /\ (a + s - 1) \div s = a)
  OBVIOUS
<1>1. a \div s \in Nat
  OBVIOUS
<1>2. (a + s - 1) \div s \in Nat
  <2>1. a + s - 1 \in Nat
    OBVIOUS
  <2>2. \A x \in Nat : x \div s \in Nat
    OBVIOUS
  <2> QED
    BY <2>1, <2>2
<1>3. (s - 1) \div s = 0
  OBVIOUS
<1>4. a \div s <= (a + s - 1) \div s
  <2>1. \A x, y \in Nat : x <= y => x \div s <= y \div s
    OBVIOUS
  <2>2. a + s - 1 \in Nat /\ a <= a + s - 1
    OBVIOUS
  <2> QED
    BY <2>1, <2>2
<1>5. s = 1 => a \div s = a /\ (a + s - 1) \div s = a
  OBVIOUS
<1> QED
  BY <1>1, <1>2, <1>3, <1>4, <1>5

\* The tile's height, the strips' and the rows of the components.
LEMMA HeightIs ==
  ASSUME ShapeOK
  PROVE  /\ Len(dec.comps) \in Nat \ {0} /\ 1 \in Comps /\ H \in Nat /\ StripRows \in Nat \ {0}
         /\ \A c \in Comps :
              /\ Rows(dec, c) \in Nat /\ dec.comps[c].v1 = dec.comps[c].v0 + Rows(dec, c)
              /\ Rows(dec, c) <= (H + Step(c) - 1) \div Step(c)
<1>1. WellFormed(dec)
  BY ShapesAssumption DEF ShapeOK
<1>2. dec.comps \in Seq(CompShape) /\ dec.comps # <<>> /\ dec.cbh \in Nat \ {0}
  BY <1>1 DEF WellFormed
<1>3. Len(dec.comps) \in Nat \ {0} /\ 1 \in Comps
  BY <1>2 DEF Comps
<1>4. ASSUME NEW c \in Comps
      PROVE  /\ dec.comps[c].yr \in Nat \ {0} /\ Rows(dec, c) \in Nat
             /\ dec.comps[c].v1 = dec.comps[c].v0 + Rows(dec, c)
             /\ Rows(dec, c) <= (H + Step(c) - 1) \div Step(c)
  <2>1. dec.comps[c] \in CompShape
    BY <1>2 DEF Comps
  <2>2. dec.comps[c].yr \in Nat \ {0} /\ dec.comps[c].v0 \in Nat /\ dec.comps[c].v1 \in Nat
    BY <2>1 DEF CompShape
  <2>3. /\ dec.comps[c].v0 <= dec.comps[c].v1
        /\ IF dec.mct /\ c <= 3 THEN Rows(dec, c) = H
           ELSE Rows(dec, c) <= (H + dec.comps[c].yr - 1) \div dec.comps[c].yr
    BY <1>1 DEF WellFormed, Comps, H
  <2>4. Rows(dec, c) \in Nat /\ dec.comps[c].v1 = dec.comps[c].v0 + Rows(dec, c)
    BY <2>2, <2>3 DEF Rows
  <2>5. Rows(dec, c) <= (H + Step(c) - 1) \div Step(c)
    <3>1. CASE dec.mct /\ c <= 3
      <4>1. Rows(dec, c) = H /\ H \in Nat /\ Step(c) = 1
        BY <2>3, <2>4, <3>1 DEF Step
      <4> QED
        BY <4>1, Ceilings
    <3>2. CASE ~ (dec.mct /\ c <= 3)
      BY <2>3, <3>2 DEF Step
    <3> QED
      BY <3>1, <3>2
  <2> QED
    BY <2>2, <2>4, <2>5
<1>5. H \in Nat
  BY <1>3, <1>4 DEF H
<1>6. StripRows \in Nat \ {0}
  <2> DEFINE n == Len(dec.comps)
             f == [c \in 1 .. n |-> dec.comps[c].yr]
             m == Max({f[i] : i \in 1 .. n})
             h == Max({dec.cbh, MinStripRows})
  <2>1. \A i \in 1 .. n : f[i] \in Nat \ {0}
    BY <1>4 DEF Comps
  <2>2. m \in {f[i] : i \in 1 .. n}
    <3>1. n \in Nat \ {0} /\ \A i \in 1 .. n : f[i] \in Nat
      BY <1>3, <2>1
    <3> HIDE DEF f, n
    <3> QED
      BY <3>1, MaxOfFamily DEF m
  <2>3. m \in Nat \ {0}
    <3> HIDE DEF f, m, n
    <3> QED
      BY <2>1, <2>2
  <2>4. {f[i] : i \in 1 .. n} = {dec.comps[c].yr : c \in Comps}
    BY DEF Comps
  <2>5. h \in Nat \ {0}
    <3>1. dec.cbh \in Int /\ MinStripRows \in Int /\ MinStripRows \in Nat
      BY <1>2, DecodeAssumption
    <3>2. h \in {dec.cbh, MinStripRows} /\ h >= dec.cbh
      BY <3>1, MaxOfTwo, Zenon
    <3>3. \A a \in Nat \ {0} : \A b \in Nat : \A x \in {a, b} : x >= a => x \in Nat \ {0}
      OBVIOUS
    <3> HIDE DEF h
    <3> QED
      BY <1>2, <3>1, <3>2, <3>3, Zenon
  <2>6. StripRows = ((h + m - 1) \div m) * m
    BY <2>4 DEF StripRows
  <2> HIDE DEF h, m
  <2> QED
    BY <2>3, <2>5, <2>6, RoundedUp
<1> QED
  BY <1>3, <1>4, <1>5, <1>6

-----------------------------------------------------------------------------
(* The driver. *)

DriverOK ==
  /\ phase \in {"strip", "pull"} /\ picture \in 1 .. Pictures /\ stripY \in Nat /\ row \in 0 .. H
  /\ phase = "strip" => row = IF stripY < H THEN stripY ELSE H
  /\ phase = "pull" => /\ stripY < H /\ stripY <= row /\ row < StripTop
                       /\ \A c \in Comps : counts[c] = Count(c)

\* A strip is not empty and ends inside the tile.
LEMMA StripTopIs ==
  ASSUME ShapeOK, stripY \in Nat, stripY < H
  PROVE  /\ StripTop \in Nat /\ stripY < StripTop /\ StripTop <= H
         /\ StripTop = IF stripY + StripRows <= H THEN stripY + StripRows ELSE H
<1> DEFINE a == stripY + StripRows
<1>1. H \in Nat /\ StripRows \in Nat \ {0}
  BY HeightIs
<1>2. a \in Int /\ H \in Int
  BY <1>1
<1>3. StripTop = IF a <= H THEN a ELSE H
  BY <1>2, MinOfTwo DEF StripTop
<1> QED
  BY <1>1, <1>3

\* A strip's count takes a component to the strip's end or to its own.
LEMMA CountIs ==
  ASSUME ShapeOK, stripY \in Nat, stripY < H, NEW c \in Comps
  PROVE  /\ Count(c) \in Nat
         /\ \/ (StripTop + Step(c) - 1) \div Step(c) <= (stripY \div Step(c)) + Count(c)
            \/ Rows(dec, c) <= (stripY \div Step(c)) + Count(c)
<1> DEFINE s == Step(c)
           c0 == stripY \div s
           up == (StripTop + s - 1) \div s
           n == Rows(dec, c)
           c1 == Min({up, n})
<1>1. StripTop \in Nat /\ stripY < StripTop
  BY StripTopIs
<1>2. s \in Nat \ {0}
  BY StepIs
<1>3. n \in Nat
  BY HeightIs
<1>4. c0 \in Nat /\ up \in Nat
  BY <1>1, <1>2, Ceilings
<1>5. c1 = IF up <= n THEN up ELSE n
  <2>1. up \in Int /\ n \in Int
    BY <1>3, <1>4
  <2> HIDE DEF up, n
  <2> QED
    BY <2>1, MinOfTwo DEF c1
<1>6. CASE dec.mct /\ c <= 3
  <2>1. s = 1
    BY <1>6 DEF Step
  <2>2. c0 = stripY /\ up = StripTop
    BY <1>1, <2>1, Ceilings
  <2>3. Count(c) = StripTop - stripY
    BY <1>6 DEF Count
  <2> HIDE DEF c0, up, s
  <2>4. Count(c) \in Nat /\ up <= c0 + Count(c)
    BY <1>1, <2>2, <2>3
  <2> QED
    BY <2>4 DEF c0, up, s
<1>7. CASE ~ (dec.mct /\ c <= 3)
  <2>1. s = dec.comps[c].yr
    BY <1>7 DEF Step
  <2>2. Count(c) = IF c1 > c0 THEN c1 - c0 ELSE 0
    BY <1>7, <2>1 DEF Count
  <2> HIDE DEF c0, up, s, n, c1
  <2>3. Count(c) \in Nat /\ (up <= c0 + Count(c) \/ n <= c0 + Count(c))
    BY <1>3, <1>4, <1>5, <2>2
  <2> QED
    BY <2>3 DEF c0, up, s, n
<1> QED
  BY <1>6, <1>7

-----------------------------------------------------------------------------
(* A component that has given all its rows has read all of its buffers. *)

\* The rows given are counted by a number.
LEMMA OutIs ==
  ASSUME ShapeOK, NEW c \in Comps, PullOK(c)
  PROVE  Out(c) \in Nat /\ Out(c) - dec.comps[c].v0 \in Int
<1>1. Out(c) \in Nat
  <2>1. CASE NL(dec, c) = 0
    BY <2>1 DEF Out, PullOK, RowOK
  <2>2. CASE NL(dec, c) # 0
    <3>1. NL(dec, c) \in 1 .. NL(dec, c)
      BY <2>2, LevelRows DEF ShapeOK, Comps
    <3>2. LevelOK(c, NL(dec, c))
      BY <3>1 DEF PullOK, Levels
    <3> QED
      BY <2>2, <3>1, <3>2, LevelIs DEF Out
  <2> QED
    BY <2>1, <2>2
<1> QED
  BY <1>1, StepIs

\* A component that has given all its rows has read all it can.
LEMMA GivenAll ==
  ASSUME ShapeOK, NEW c \in Comps, PullOK(c), Rows(dec, c) <= Out(c) - dec.comps[c].v0
  PROVE  AllRead(c)
<1>1. /\ NL(dec, c) \in Nat
      /\ V1(dec, c, NL(dec, c)) = dec.comps[c].v1
  BY LevelRows DEF ShapeOK, Comps
<1>2. Rows(dec, c) \in Nat /\ dec.comps[c].v1 = dec.comps[c].v0 + Rows(dec, c)
      /\ dec.comps[c].v0 \in Nat /\ dec.comps[c].v1 \in Nat
  BY HeightIs, StepIs
<1>3. CASE NL(dec, c) = 0
  <2>1. Out(c) = nextRow[c] /\ nextRow[c] \in Nat /\ nextRow[c] <= V1(dec, c, 0)
    BY <1>3 DEF Out, PullOK, RowOK
  <2>2. V1(dec, c, 0) = dec.comps[c].v1
    BY <1>1, <1>3
  <2>3. nextRow[c] = V1(dec, c, 0)
    BY <1>2, <2>1, <2>2
  <2> QED
    BY <1>3, <2>3 DEF AllRead
<1>4. CASE NL(dec, c) # 0
  <2> DEFINE l == NL(dec, c)
  <2>1. l \in 1 .. NL(dec, c)
    BY <1>1, <1>4
  <2>2. LevelOK(c, l)
    BY <2>1 DEF PullOK, Levels
  <2>3. /\ idwt[c][l].nextOut \in Nat /\ ReadAt(c, l) \in Nat
        /\ idwt[c][l].nextOut <= ReadAt(c, l) /\ ReadAt(c, l) <= V1(dec, c, l)
    BY <2>1, <2>2, LevelIs
  <2>4. Out(c) = idwt[c][l].nextOut
    BY <1>4 DEF Out
  <2>5. ReadAt(c, l) = V1(dec, c, l)
    BY <1>1, <1>2, <2>3, <2>4
  <2> QED
    BY <1>4, <2>5 DEF AllRead, AllIn
<1> QED
  BY <1>3, <1>4

\* When the finest level has read all, so has every level below it.
LEMMA AllLevelsIn ==
  ASSUME ShapeOK, NEW c \in Comps, NL(dec, c) # 0, Levels(c), Chained(c), AllIn(c, NL(dec, c))
  PROVE  \A l \in 1 .. NL(dec, c) : AllIn(c, l)
<1> DEFINE n == NL(dec, c)
           S == {m \in 0 .. n - 1 : AllIn(c, n - m)}
<1>1. n \in Nat \ {0}
  BY LevelRows DEF ShapeOK, Comps
<1>2. 0 \in S
  BY <1>1
<1>3. ASSUME NEW m \in 0 .. n - 1 - 1, m \in S PROVE m + 1 \in S
  <2> DEFINE l == n - (m + 1)
  <2>1. l \in 1 .. n - 1 /\ l \in 1 .. n /\ l + 1 \in 1 .. n /\ l + 1 = n - m /\ m + 1 \in 0 .. n - 1
        /\ (l + 1) - 1 = l
    BY <1>1
  <2>2. AllIn(c, l + 1)
    BY <1>3, <2>1
  <2>3. Supplies(c, l)
    BY <2>1 DEF Chained
  <2>4. LevelOK(c, l)
    BY <2>1 DEF Levels
  <2>5. /\ V1(dec, c, l) \in Nat /\ idwt[c][l].nextOut \in Nat /\ ReadAt(c, l) \in Nat
        /\ idwt[c][l].nextOut <= ReadAt(c, l) /\ ReadAt(c, l) <= V1(dec, c, l)
    BY <2>1, <2>4, LevelIs
  <2>6. V1(dec, c, l) = Halved(dec.comps[c].dirs[l + 1], V1(dec, c, l + 1))
    <3>1. \A k \in 1 .. NL(dec, c) :
            V1(dec, c, k - 1) = Halved(dec.comps[c].dirs[k], V1(dec, c, k))
      BY LevelRows DEF ShapeOK, Comps
    <3> QED
      BY <2>1, <3>1
  <2>7. Asked(c, l) = V1(dec, c, l) \/ Asked(c, l) = V1(dec, c, l) + 1
    <3> DEFINE x == IF HasLow(c, l + 1) THEN 1 ELSE 0
               v == V1(dec, c, l)
    <3>1. Asked(c, l) = v + x
      BY <2>2, <2>6 DEF Asked, AllIn
    <3>2. v \in Nat
      BY <2>5
    <3> HIDE DEF v
    <3> QED
      BY <3>1, <3>2 DEF v
  <2>8. AllIn(c, l)
    <3>1. CASE AllIn(c, l)
      BY <3>1
    <3>2. CASE Asked(c, l) <= idwt[c][l].nextOut
      BY <2>5, <2>7, <3>2 DEF AllIn
    <3> QED
      BY <2>3, <3>1, <3>2 DEF Supplies
  <2> QED
    BY <2>1, <2>8
<1>4. 0 .. n - 1 \subseteq S
  <2>1. n - 1 \in Nat
    BY <1>1
  <2> HIDE DEF S, n
  <2> QED
    BY <1>2, <1>3, <2>1, Climb
<1> SUFFICES ASSUME NEW l \in 1 .. n PROVE AllIn(c, l)
  OBVIOUS
<1>5. n - l \in 0 .. n - 1 /\ n - (n - l) = l
  BY <1>1
<1>6. AllIn(c, n - (n - l))
  BY <1>4, <1>5
<1> QED
  BY <1>5, <1>6

\* So every buffer that has rows was read to its end.
LEMMA ReadMeansConsumed ==
  ASSUME ShapeOK, NEW k \in Bufs, geo[k].y0 < geo[k].y1, strip[k] \in Nat \cup {None},
         \A c \in Comps : PullOK(c) /\ AllRead(c)
  PROVE  IsBuf(dec, k) /\ Consumed(k)
<1>1. IsBuf(dec, k)
  <2>1. CASE k[1] <= Len(dec.comps) /\ HasBand(dec, k[1], k[2], k[3])
    BY <2>1 DEF IsBuf
  <2>2. CASE ~ (k[1] <= Len(dec.comps) /\ HasBand(dec, k[1], k[2], k[3]))
    <3>1. geo[k] = [y0 |-> 0, y1 |-> 0, h |-> dec.cbh]
      BY <2>2 DEF ShapeOK, GeoOf
    <3> QED
      BY <3>1
  <2> QED
    BY <2>1, <2>2
<1> DEFINE c == k[1]
<1>2. /\ c \in Comps /\ NL(dec, c) \in Nat
      /\ NL(dec, c) # 0 => Reader(k) \in 1 .. NL(dec, c)
  BY <1>1, BufIsTriple DEF ShapeOK, Comps
<1>3. /\ geo[k].y0 \in Nat /\ geo[k].y1 \in Nat
      /\ NL(dec, c) = 0 => geo[k].y1 = V1(dec, c, 0)
      /\ NL(dec, c) # 0 => geo[k].y1 = RowIn(dec, k, V1(dec, c, Reader(k)))
  BY <1>1, BufRows DEF ShapeOK
<1>4. PullOK(c) /\ AllRead(c)
  BY <1>2
<1>5. ReadTo(k) = geo[k].y1
  <2>1. CASE NL(dec, c) = 0
    BY <1>3, <1>4, <2>1 DEF ReadTo, AllRead
  <2>2. CASE NL(dec, c) # 0
    <3>1. AllIn(c, NL(dec, c)) /\ Levels(c) /\ Chained(c)
      BY <1>4, <2>2 DEF AllRead, PullOK
    <3>2. AllIn(c, Reader(k))
      BY <1>2, <2>2, <3>1, AllLevelsIn
    <3> QED
      BY <1>3, <2>2, <3>2 DEF ReadTo, AllIn
  <2> QED
    BY <2>1, <2>2
<1>6. ~ sync[k] /\ Holds(k, strip[k], geo[k].y1 - 1)
  BY <1>1, <1>4, <1>5 DEF PullOK, Drawn, Exhausted
<1>7. StripEnd(k, strip[k]) = geo[k].y1
  <2>1. strip[k] # None /\ geo[k].y1 - 1 < StripEnd(k, strip[k])
    BY <1>6 DEF Holds
  <2>2. /\ StripEnd(k, strip[k]) = IF strip[k] + geo[k].h < geo[k].y1 THEN strip[k] + geo[k].h ELSE geo[k].y1
        /\ geo[k].h \in Nat
    BY <1>1, BufRows DEF StripEnd, ShapeOK
  <2> QED
    BY <1>3, <2>1, <2>2
<1> QED
  BY <1>1, <1>6, <1>7 DEF Consumed, Holds

-----------------------------------------------------------------------------
(* The state a picture begins with. *)

Fresh(c) ==
  /\ \A l \in 1 .. NL(dec, c) :
       LevelOK(c, l) /\ idwt[c][l].nextIn = V0(dec, c, l) /\ idwt[c][l].nextOut = V0(dec, c, l)
  /\ nextRow[c] = V0(dec, c, 0) /\ calls[c] = <<>> /\ FramesOK(c)
  /\ phase = "strip" /\ row = 0

FreshIsOK == ShapeOK => \A c \in Comps : Fresh(c) => PullOK(c)

\* What a picture begins with is in order.
LEMMA FreshOK == FreshIsOK
<1> SUFFICES ASSUME ShapeOK, NEW c \in Comps, Fresh(c) PROVE PullOK(c)
  BY DEF FreshIsOK
<1>1. /\ NL(dec, c) \in Nat
      /\ V0(dec, c, NL(dec, c)) = dec.comps[c].v0
      /\ \A l \in 0 .. NL(dec, c) :
           V0(dec, c, l) \in Nat /\ V1(dec, c, l) \in Nat /\ V0(dec, c, l) <= V1(dec, c, l)
      /\ \A l \in 1 .. NL(dec, c) : V0(dec, c, l - 1) = Halved(dec.comps[c].dirs[l], V0(dec, c, l))
  BY LevelRows DEF ShapeOK, Comps
<1>2. ASSUME NEW l \in 1 .. NL(dec, c)
      PROVE  ReadAt(c, l) = V0(dec, c, l) /\ idwt[c][l].nextOut = V0(dec, c, l)
  BY DEF Fresh, ReadAt, Wanted
<1>3. Levels(c) /\ FramesOK(c)
  BY DEF Fresh, Levels
<1>4. RowOK(c)
  <2>1. 0 \in 0 .. NL(dec, c)
    BY <1>1
  <2> QED
    BY <1>1, <2>1 DEF RowOK, Fresh
<1>5. Chained(c)
  <2> SUFFICES ASSUME NEW l \in 1 .. NL(dec, c) - 1 PROVE Supplies(c, l)
    BY DEF Chained
  <2>1. l \in 1 .. NL(dec, c) /\ l + 1 \in 1 .. NL(dec, c) /\ (l + 1) - 1 = l /\ l \in 0 .. NL(dec, c)
    BY <1>1
  <2>2. ~ HasLow(c, l + 1)
    BY DEF HasLow, Fresh
  <2>3. Asked(c, l) = V0(dec, c, l) + 0
    <3>1. ReadAt(c, l + 1) = V0(dec, c, l + 1)
      BY <1>2, <2>1
    <3>2. Halved(dec.comps[c].dirs[l + 1], V0(dec, c, l + 1)) = V0(dec, c, l)
      BY <1>1, <2>1
    <3> QED
      BY <2>2, <3>1, <3>2 DEF Asked
  <2>4. Asked(c, l) <= idwt[c][l].nextOut
    <3>1. V0(dec, c, l) \in Nat /\ idwt[c][l].nextOut = V0(dec, c, l)
      BY <1>1, <1>2, <2>1
    <3> QED
      BY <2>3, <3>1
  <2> QED
    BY <2>4 DEF Supplies
<1>6. Drawn(c)
  <2> SUFFICES ASSUME NEW k \in Bufs, k[1] = c, IsBuf(dec, k), geo[k].y0 < geo[k].y1
               PROVE  Exhausted(k)
    BY DEF Drawn
  <2>1. /\ geo[k].y0 \in Nat /\ geo[k].y1 \in Nat
        /\ NL(dec, c) = 0 => geo[k].y0 = V0(dec, c, 0)
        /\ NL(dec, c) # 0 => geo[k].y0 = RowIn(dec, k, V0(dec, c, Reader(k)))
    BY BufRows DEF ShapeOK
  <2>2. NL(dec, c) # 0 => Reader(k) \in 1 .. NL(dec, c)
    BY BufIsTriple DEF ShapeOK
  <2>3. ReadTo(k) = geo[k].y0
    <3>1. CASE NL(dec, c) = 0
      BY <2>1, <3>1 DEF ReadTo, Fresh
    <3>2. CASE NL(dec, c) # 0
      <4>1. ReadAt(c, Reader(k)) = V0(dec, c, Reader(k))
        BY <1>2, <2>2, <3>2
      <4> QED
        BY <2>1, <3>2, <4>1 DEF ReadTo
    <3> QED
      BY <3>1, <3>2
  <2> QED
    BY <2>1, <2>3 DEF Exhausted
<1>7. Paced(c)
  <2>1. Out(c) = dec.comps[c].v0
    <3>1. CASE NL(dec, c) = 0
      BY <1>1, <3>1 DEF Out, Fresh
    <3>2. CASE NL(dec, c) # 0
      <4>1. NL(dec, c) \in 1 .. NL(dec, c)
        BY <1>1, <3>2
      <4> QED
        BY <1>1, <1>2, <3>2, <4>1 DEF Out
    <3> QED
      BY <3>1, <3>2
  <2>2. Due(c) = (0 + Step(c) - 1) \div Step(c)
    BY DEF Due, Fresh
  <2>3. \A s \in Nat \ {0} : (0 + s - 1) \div s = 0
    <3> SUFFICES ASSUME NEW s \in Nat \ {0} PROVE (0 + s - 1) \div s = 0
      OBVIOUS
    <3>1. 0 + s - 1 = s - 1
      OBVIOUS
    <3> QED
      BY <3>1, Ceilings
  <2>4. Due(c) = 0 /\ dec.comps[c].v0 \in Nat
    BY <2>2, <2>3, StepIs
  <2>5. Due(c) <= Out(c) - dec.comps[c].v0
    BY <2>1, <2>4
  <2> QED
    BY <2>5 DEF Paced
<1> QED
  BY <1>3, <1>4, <1>5, <1>6, <1>7 DEF PullOK

\* Also in the next state.
LEMMA FreshOKNext == FreshIsOK'
BY FreshOK, PTL

-----------------------------------------------------------------------------

\* Every pull of a strip that is over has come to its end.
LEMMA StripOver ==
  ASSUME TaskOK, Open = {}, NEW c \in Comps, PullOK(c)
  PROVE  Len(pulled[c]) = counts[c] /\ calls[c] = <<>>
<1>1. Len(pulled[c]) = counts[c]
  BY DEF TaskOK
<1>2. counts[c] \in Nat /\ (calls[c] # <<>> => Len(pulled[c]) < counts[c])
  BY DEF PullOK, FramesOK
<1> QED
  BY <1>1, <1>2

\* Past the barrier no component is still pulled.
LEMMA PulledMeansOver ==
  ASSUME ShapeOK, TaskOK, AllPulled
  PROVE  Open = {}
<1>1. Open \in SUBSET Comps
  BY DEF Open
<1>2. IsFiniteSet(Open) /\ Cardinality(Open) \in Nat
  BY <1>1, OpenFinite
<1>3. CASE Parallel
  <2>1. pullCnt = Cardinality(Open) /\ pullCnt <= 0
    BY <1>3 DEF TaskOK, AllPulled
  <2>2. Cardinality(Open) = 0
    BY <1>2, <2>1
  <2> QED
    BY <1>2, <2>2, FS_EmptySet
<1>4. CASE ~ Parallel
  <2> SUFFICES ASSUME NEW c \in Open PROVE FALSE
    OBVIOUS
  <2>1. c \in Comps /\ Held(c)
    BY <1>4 DEF Open, AllPulled
  <2>2. PICK t \in Threads, i \in Nat : OnStack(t, i, c)
    BY <2>1 DEF Held
  <2>3. t = Main
    BY <1>4, <2>1, <2>2 DEF TaskOK
  <2>4. i \in 1 .. Len(<<>>)
    BY <2>2, <2>3 DEF OnStack, AllPulled
  <2> QED
    BY <2>4
<1> QED
  BY <1>3, <1>4

\* After BeginStrip every component is to be pulled, and none is held.
LEMMA BeginStripTasks ==
  ASSUME ShapeOK, TaskOK, BeginStrip
  PROVE  TaskOK'
<1>1. /\ dec' = dec /\ pooled' = pooled /\ phase' = "pull" /\ stack' = stack /\ waiting' = Comps
      /\ pullCnt' = (IF Parallel THEN Len(dec.comps) ELSE 0) /\ phase = "strip"
  BY DEF BeginStrip, bufVars
<1>2. Open = {} /\ StackOK /\ Once
  BY <1>1 DEF TaskOK
<1>3. Comps' = Comps /\ (Parallel' <=> Parallel)
  BY <1>1 DEF Comps, Parallel
<1>4. \A t \in Threads : \A i \in Nat : \A c \in Comps : ~ OnStack(t, i, c)
  BY <1>2 DEF Open, Held
<1>5. \A t \in Threads : \A i \in Nat : \A c \in Comps : ~ OnStack(t, i, c)'
  BY <1>1, <1>4 DEF OnStack, Strip
<1>6. \A c \in Comps : ~ Held(c)'
  BY <1>5 DEF Held
<1>7. Open' = Comps
  BY <1>1, <1>3 DEF Open
<1>8. StackOK'
  BY <1>1, <1>2 DEF StackOK
<1>9. Once'
  BY <1>3, <1>5 DEF Once
<1>10. Cardinality(Comps) = Len(dec.comps)
  BY OpenFinite
<1>11. pullCnt' = IF Parallel' THEN Cardinality(Open') ELSE 0
  BY <1>1, <1>3, <1>7, <1>10
<1>12. waiting' \subseteq Comps' /\ \A c \in waiting' : ~ Held(c)'
  BY <1>1, <1>3, <1>6
<1>13. ~ Parallel' => \A t \in Threads : \A i \in Nat : \A c \in Comps' : OnStack(t, i, c)' => t = Main
  BY <1>3, <1>5
<1>14. (phase' = "strip" => Open' = {}) /\ \A c \in Comps' : c \notin Open' => Len(pulled'[c]) = counts'[c]
  BY <1>1, <1>3, <1>7
<1> QED
  BY <1>8, <1>9, <1>11, <1>12, <1>13, <1>14 DEF TaskOK

\* The tasks after a step of the driver that touches none.
LEMMA DriverTasks ==
  ASSUME TaskOK, Open = {}, dec' = dec, pooled' = pooled, stack' = stack, waiting' = waiting,
         pullCnt' = pullCnt, counts' = counts, pulled' = pulled
  PROVE  TaskOK'
<1>1. StackOK'
  BY DEF TaskOK, StackOK
<1>2. \A t \in Threads : \A i \in Nat : \A c : OnStack(t, i, c)' <=> OnStack(t, i, c)
  BY DEF OnStack, Strip
<1>3. \A c \in Comps : c \notin Open => pulled'[c] = pulled[c]
  OBVIOUS
<1> QED
  BY <1>1, <1>2, <1>3, TasksRest

-----------------------------------------------------------------------------
(* The inductive invariant, and what each step of the driver does to it. *)

DecInv ==
  /\ BufInv /\ ShapeOK /\ Domains /\ \A c \in Comps : PullOK(c)
  /\ TaskOK /\ DriverOK

\* What every step keeps besides the buffers' invariant, and what it does with
\* the buffers.
Kept ==
  /\ ShapeOK' /\ Domains' /\ \A c \in Comps' : PullOK(c)'
  /\ TaskOK' /\ DriverOK' /\ [BufNext]_bufVars

\* The top of the strip loop keeps the invariant.
LEMMA BeginStripKeeps ==
  ASSUME DecInv, BeginStrip
  PROVE  Kept
<1>1. /\ dec' = dec /\ bufVars' = bufVars /\ geo' = geo /\ phase' = "pull" /\ stripY' = stripY
      /\ row' = row /\ picture' = picture /\ idwt' = idwt /\ nextRow' = nextRow /\ calls' = calls
      /\ counts' = [c \in Comps |-> Count(c)] /\ pulled' = NoneOf(dec, <<>>)
      /\ phase = "strip" /\ stripY < H /\ sync' = sync /\ strip' = strip
  BY DEF BeginStrip, bufVars
<1>2. /\ ShapeOK /\ Domains /\ TaskOK /\ DriverOK
      /\ \A c \in Comps : PullOK(c)
  BY DEF DecInv
<1>3. Comps' = Comps /\ H' = H
  BY <1>1 DEF Comps, H, Rows
<1>4. ShapeOK'
  BY <1>1, <1>2 DEF ShapeOK
<1>5. Domains'
  BY <1>1, <1>2, <1>3 DEF Domains, NoneOf, Comps, NL
<1>6. TaskOK'
  BY <1>2, BeginStripTasks
<1>7. Open = {} /\ stripY \in Nat /\ row = stripY
  BY <1>1, <1>2 DEF TaskOK, DriverOK
<1>8. DriverOK'
  <2>1. StripTop' = StripTop /\ \A c \in Comps : Count(c)' = Count(c)
    BY <1>1, <1>3 DEF StripTop, StripRows, Count, Comps, Rows, H
  <2>2. StripTop \in Nat /\ stripY < StripTop
    BY <1>1, <1>2, <1>7, StripTopIs
  <2>3. \A c \in Comps : counts'[c] = Count(c)
    BY <1>1
  <2>4. picture \in 1 .. Pictures /\ row \in 0 .. H
    BY <1>2 DEF DriverOK
  <2>5. stripY' \in Nat /\ stripY' < H' /\ stripY' <= row' /\ row' < StripTop'
    BY <1>1, <1>3, <1>7, <2>1, <2>2
  <2>6. picture' \in 1 .. Pictures /\ row' \in 0 .. H' /\ \A c \in Comps' : counts'[c] = Count(c)'
    BY <1>1, <1>3, <2>1, <2>3, <2>4
  <2> QED
    BY <1>1, <2>5, <2>6 DEF DriverOK
<1>9. ASSUME NEW c \in Comps PROVE PullOK(c)'
  <2>1. PullOK(c) /\ calls[c] = <<>>
    BY <1>2, <1>7, StripOver
  <2>2. counts'[c] = Count(c) /\ Count(c) \in Nat /\ pulled'[c] = <<>>
    <3>1. Count(c) \in Nat
      BY <1>1, <1>2, <1>7, CountIs
    <3> QED
      BY <1>1, <3>1 DEF NoneOf, Comps
  <2>3. FramesOK(c)'
    <3>1. \E S : calls'[c] \in Seq([lvl : Nat, low : S])
      BY <1>1, <2>1 DEF PullOK, FramesOK
    <3>2. \E S : pulled'[c] \in Seq(S)
      <4>1. <<>> \in Seq({})
        OBVIOUS
      <4> QED
        BY <2>2, <4>1
    <3>3. Len(calls'[c]) <= NL(dec', c)
          /\ \A i \in 1 .. Len(calls'[c]) : calls'[c][i].lvl = NL(dec', c) + 1 - i
      BY <1>1, <2>1 DEF PullOK, FramesOK
    <3>4. counts'[c] \in Nat /\ Len(pulled'[c]) <= counts'[c]
      BY <2>2
    <3>5. calls'[c] = <<>>
      BY <1>1, <2>1
    <3> QED
      BY <3>1, <3>2, <3>3, <3>4, <3>5, Zenon DEF FramesOK
  <2>4. Paced(c)'
    <3> DEFINE s == Step(c)
               x == stripY \div s
               o == Out(c) - dec.comps[c].v0
    <3>1. AllRead(c)' <=> AllRead(c)
      BY <1>1 DEF AllRead, AllIn, ReadAt
    <3>2. (Out(c) - dec.comps[c].v0)' = o
      BY <1>1 DEF Out
    <3>3. s \in Nat \ {0} /\ Step(c)' = s
      BY <1>1, <1>2, StepIs DEF Step
    <3>4. Due(c)' = x + 0
      BY <1>1, <2>2, <3>3 DEF Due
    <3>5. Due(c) = (stripY + s - 1) \div s
      BY <1>1, <1>7 DEF Due
    <3>6. x \in Nat /\ Due(c) \in Nat /\ x <= Due(c)
      BY <1>7, <3>3, <3>5, Ceilings
    <3>7. o \in Int
      BY <1>2, <2>1, OutIs
    <3>8. AllRead(c) \/ Due(c) <= o
      BY <2>1 DEF PullOK, Paced
    <3>9. AllRead(c) \/ Due(c)' <= o
      <4> HIDE DEF x, o
      <4>1. \A p, q \in Nat : \A z \in Int : p <= q /\ q <= z => p + 0 <= z
        OBVIOUS
      <4> QED
        BY <3>4, <3>6, <3>7, <3>8, <4>1, Zenon
    <3> QED
      BY <3>1, <3>2, <3>9 DEF Paced
  <2> QED
    BY <1>1, <2>1, <2>3, <2>4, Resting
<1> QED
  BY <1>1, <1>3, <1>4, <1>5, <1>6, <1>8, <1>9 DEF Kept

\* So does handing out a row: at the end of a strip every component has what is due.
LEMMA DeliverKeeps ==
  ASSUME DecInv, Deliver
  PROVE  Kept
<1>1. /\ dec' = dec /\ bufVars' = bufVars /\ geo' = geo /\ pooled' = pooled
      /\ picture' = picture /\ idwt' = idwt /\ nextRow' = nextRow /\ calls' = calls
      /\ counts' = counts /\ pulled' = pulled /\ stack' = stack /\ waiting' = waiting
      /\ pullCnt' = pullCnt /\ sync' = sync /\ strip' = strip
      /\ phase = "pull" /\ AllPulled /\ row' = row + 1
  BY DEF Deliver, bufVars, taskVars, pullVars
<1>2. \/ row' = StripTop /\ phase' = "strip" /\ stripY' = stripY + StripRows
      \/ row' # StripTop /\ phase' = phase /\ stripY' = stripY
  BY DEF Deliver
<1>3. /\ ShapeOK /\ Domains /\ TaskOK /\ DriverOK
      /\ \A c \in Comps : PullOK(c)
  BY DEF DecInv
<1>4. Comps' = Comps /\ H' = H
  BY <1>1 DEF Comps, H, Rows
<1>5. Open = {}
  BY <1>1, <1>3, PulledMeansOver
<1>6. TaskOK'
  BY <1>1, <1>3, <1>5, DriverTasks
<1>7. ShapeOK' /\ Domains'
  BY <1>1, <1>3, <1>4 DEF ShapeOK, Domains, NL
<1>8. /\ picture \in 1 .. Pictures /\ stripY \in Nat /\ row \in 0 .. H /\ stripY < H
      /\ stripY <= row /\ row < StripTop /\ \A c \in Comps : counts[c] = Count(c)
  BY <1>1, <1>3 DEF DriverOK
<1>9. H \in Nat /\ StripRows \in Nat \ {0}
      /\ StripTop \in Nat /\ stripY < StripTop /\ StripTop <= H
      /\ StripTop = IF stripY + StripRows <= H THEN stripY + StripRows ELSE H
  BY <1>3, <1>8, StripTopIs, HeightIs
<1>10. DriverOK'
  <2>1. CASE row' = StripTop
    <3>1. /\ phase' = "strip" /\ stripY' \in Nat /\ row' \in 0 .. H'
          /\ row' = IF stripY' < H' THEN stripY' ELSE H'
      BY <1>2, <1>4, <1>8, <1>9, <2>1
    <3> QED
      BY <1>1, <1>8, <3>1 DEF DriverOK
  <2>2. CASE row' # StripTop
    <3>1. phase' = "pull" /\ stripY' = stripY
      BY <1>1, <1>2, <2>2
    <3>2. StripTop' = StripTop /\ \A c \in Comps : Count(c)' = Count(c)
      BY <1>1, <1>4, <3>1 DEF StripTop, StripRows, Count, Comps, Rows, H
    <3>3. /\ stripY' \in Nat /\ stripY' < H' /\ stripY' <= row' /\ row' < StripTop' /\ row' \in 0 .. H'
      BY <1>1, <1>4, <1>8, <1>9, <2>2, <3>1, <3>2
    <3>4. \A c \in Comps' : counts'[c] = Count(c)'
      BY <1>1, <1>4, <1>8, <3>2
    <3> QED
      BY <1>1, <1>8, <3>1, <3>3, <3>4 DEF DriverOK
  <2> QED
    BY <2>1, <2>2
<1>11. ASSUME NEW c \in Comps PROVE PullOK(c)'
  <2>1. PullOK(c)
    BY <1>3
  <2>2. FramesOK(c)'
    BY <1>1, <2>1, Zenon DEF PullOK, FramesOK
  <2>3. (AllRead(c)' <=> AllRead(c)) /\ (Out(c) - dec.comps[c].v0)' = Out(c) - dec.comps[c].v0
        /\ Step(c)' = Step(c)
    BY <1>1 DEF AllRead, AllIn, ReadAt, Out, Step
  <2>4. AllRead(c) \/ Due(c) <= Out(c) - dec.comps[c].v0
    BY <2>1 DEF PullOK, Paced
  <2>5. Paced(c)'
    <3>1. CASE row' # StripTop
      <4>1. Due(c)' = Due(c)
        BY <1>1, <1>2, <2>3, <3>1 DEF Due
      <4> QED
        BY <2>3, <2>4, <4>1 DEF Paced
    <3>2. CASE row' = StripTop
      <4> DEFINE s == Step(c)
                 x == stripY \div s
                 n == Count(c)
                 up == (StripTop + s - 1) \div s
                 o == Out(c) - dec.comps[c].v0
                 r == Rows(dec, c)
      <4>1. Len(pulled[c]) = n
        BY <1>3, <1>5, <1>8, <2>1, StripOver
      <4>2. Due(c) = x + n
        BY <1>1, <4>1 DEF Due
      <4>3. Due(c)' = up
        BY <1>2, <2>3, <3>2 DEF Due
      <4>4. n \in Nat /\ (up <= x + n \/ r <= x + n)
        BY <1>3, <1>8, CountIs
      <4>5. s \in Nat \ {0}
        BY <1>3, StepIs
      <4>6. x \in Nat /\ up \in Nat /\ r \in Nat
        BY <1>3, <1>8, <1>9, <4>5, Ceilings, HeightIs
      <4>7. o \in Int
        BY <1>3, <2>1, OutIs
      <4>8. AllRead(c) \/ up <= o \/ r <= o
        <5>1. AllRead(c) \/ x + n <= o
          BY <2>4, <4>2
        <5>2. x + n <= o => up <= o \/ r <= o
          <6> HIDE DEF x, n, up, o, r
          <6> QED
            BY <4>4, <4>6, <4>7
        <5> QED
          BY <5>1, <5>2
      <4>9. r <= o => AllRead(c)
        BY <1>3, <2>1, GivenAll
      <4>10. AllRead(c)' \/ up <= o
        BY <2>3, <4>8, <4>9
      <4> QED
        BY <2>3, <4>3, <4>10 DEF Paced
    <3> QED
      BY <3>1, <3>2
  <2> QED
    BY <1>1, <2>1, <2>2, <2>5, Resting
<1> QED
  BY <1>1, <1>4, <1>6, <1>7, <1>10, <1>11 DEF Kept

-----------------------------------------------------------------------------

\* So does the next picture: every buffer that is rewound was read to its end.
LEMMA NextPictureKeeps ==
  ASSUME DecInv, NextPicture
  PROVE  Kept
<1> DEFINE ks == {k \in Bufs : geo[k].y0 < geo[k].y1}
<1>1. /\ dec' = dec /\ phase' = phase /\ stripY' = 0 /\ row' = 0 /\ picture' = picture + 1
      /\ calls' = calls /\ counts' = counts /\ pulled' = pulled /\ stack' = stack
      /\ waiting' = waiting /\ pullCnt' = pullCnt /\ Rewind(ks)
      /\ idwt' = [c \in Comps |-> [l \in DOMAIN idwt[c] |-> IdwtRewind(idwt[c][l])]]
      /\ nextRow' = [c \in Comps |-> V0(dec, c, 0)]
      /\ phase = "strip" /\ stripY >= H /\ picture < Pictures
  BY DEF NextPicture, taskVars
<1>2. /\ ShapeOK /\ Domains /\ TaskOK /\ DriverOK /\ BufTypes
      /\ \A c \in Comps : PullOK(c)
  BY DEF DecInv, BufInv
<1>3. Comps' = Comps /\ H' = H
  BY <1>1 DEF Comps, H, Rows
<1>4. geo' = geo /\ pooled' = pooled
  BY <1>1 DEF Rewind
<1>5. ShapeOK'
  BY <1>1, <1>2, <1>4 DEF ShapeOK
<1>6. Open = {}
  BY <1>1, <1>2 DEF TaskOK
<1>7. TaskOK'
  BY <1>1, <1>2, <1>4, <1>6, DriverTasks
<1>8. H \in Nat /\ stripY \in Nat /\ row = H /\ picture \in 1 .. Pictures /\ Pictures \in Nat
  <2>1. H \in Nat
    BY <1>2, HeightIs
  <2>2. stripY \in Nat /\ (row = IF stripY < H THEN stripY ELSE H) /\ picture \in 1 .. Pictures
    BY <1>1, <1>2 DEF DriverOK
  <2>3. ~ (stripY < H)
    BY <1>1, <2>1, <2>2
  <2> QED
    BY <2>1, <2>2, <2>3, DecodeAssumption
<1>9. DriverOK'
  <2>1. picture' \in 1 .. Pictures /\ stripY' \in Nat /\ row' \in 0 .. H'
        /\ row' = IF stripY' < H' THEN stripY' ELSE H'
    BY <1>1, <1>3, <1>8
  <2> QED
    BY <1>1, <2>1 DEF DriverOK
<1>10. ASSUME NEW c \in Comps PROVE AllRead(c)
  <2> DEFINE o == Out(c) - dec.comps[c].v0
             r == Rows(dec, c)
  <2>1. PullOK(c)
    BY <1>2
  <2>2. Due(c) = (H + Step(c) - 1) \div Step(c)
    BY <1>1, <1>8 DEF Due
  <2>3. r <= Due(c) /\ r \in Nat
    BY <1>2, <2>2, HeightIs
  <2>4. Due(c) \in Nat
    BY <1>2, <1>8, <2>2, StepIs
  <2>5. o \in Int
    BY <1>2, <2>1, OutIs
  <2>6. AllRead(c) \/ Due(c) <= o
    BY <2>1 DEF PullOK, Paced
  <2>7. Due(c) <= o => r <= o
    <3> HIDE DEF o, r
    <3> QED
      BY <2>3, <2>4, <2>5
  <2>8. r <= o => AllRead(c)
    BY <1>2, <2>1, GivenAll
  <2> QED
    BY <2>6, <2>7, <2>8
<1>11. [BufNext]_bufVars
  <2>1. ASSUME NEW k \in ks PROVE Consumed(k)
    <3>1. strip[k] \in Nat \cup {None}
      BY <1>2 DEF BufTypes
    <3>2. \A c \in Comps : PullOK(c) /\ AllRead(c)
      BY <1>2, <1>10
    <3> QED
      BY <1>2, <3>1, <3>2, ReadMeansConsumed
  <2>2. ks \in SUBSET {k \in Bufs : Consumed(k)}
    BY <2>1
  <2> HIDE DEF ks
  <2> QED
    BY <1>1, <2>2 DEF BufNext
<1>12. Domains'
  <2>1. \A c \in Comps : DOMAIN idwt'[c] = 1 .. NL(dec, c)
    BY <1>1, <1>2 DEF Domains
  <2> QED
    BY <1>1, <1>2, <1>3, <2>1 DEF Domains, NL
<1>13. ASSUME NEW c \in Comps PROVE Fresh(c)'
  <2>1. PullOK(c) /\ calls[c] = <<>>
    BY <1>2, <1>6, StripOver
  <2>2. FramesOK(c)'
    BY <1>1, <2>1, Zenon DEF PullOK, FramesOK
  <2>3. ASSUME NEW l \in 1 .. NL(dec, c)
        PROVE  LevelOK(c, l)' /\ idwt'[c][l].nextIn = V0(dec, c, l) /\ idwt'[c][l].nextOut = V0(dec, c, l)
    <3>1. LevelOK(c, l)
      BY <2>1 DEF PullOK, Levels
    <3>2. idwt'[c][l] = IdwtRewind(idwt[c][l])
      BY <1>1, <1>2 DEF Domains
    <3>3. /\ RingOK(idwt'[c][l]) /\ SameLevel(idwt[c][l], idwt'[c][l])
          /\ idwt'[c][l].nextIn = idwt[c][l].v0 /\ idwt'[c][l].nextOut = idwt[c][l].v0
      BY <3>1, <3>2, RewindOK DEF LevelOK
    <3> QED
      BY <1>1, <3>1, <3>3 DEF LevelOK, SameLevel
  <2>4. nextRow'[c] = V0(dec, c, 0) /\ calls'[c] = <<>> /\ phase' = "strip" /\ row' = 0
    BY <1>1, <2>1
  <2> QED
    BY <1>1, <2>2, <2>3, <2>4 DEF Fresh
<1>14. ASSUME NEW c \in Comps PROVE PullOK(c)'
  BY <1>3, <1>5, <1>13, FreshOKNext DEF FreshIsOK
<1> QED
  BY <1>3, <1>5, <1>7, <1>9, <1>11, <1>12, <1>14 DEF Kept

-----------------------------------------------------------------------------

\* The decoder starts with the invariant.
LEMMA DecodeStarts == Init => DecInv
<1> SUFFICES ASSUME Init PROVE DecInv
  OBVIOUS
<1>1. BufInv
  BY InitKeeps DEF Init
<1>2. ShapeOK
  BY DEF Init, ShapeOK
<1>3. /\ phase = "strip" /\ stripY = 0 /\ row = 0 /\ picture = 1
      /\ counts = NoneOf(dec, 0) /\ pulled = NoneOf(dec, <<>>)
      /\ pullCnt = 0 /\ waiting = {} /\ idwt = FreshIdwt(dec)
      /\ nextRow = [c \in 1 .. Len(dec.comps) |-> V0(dec, c, 0)]
      /\ calls = NoneOf(dec, <<>>) /\ stack = [t \in Threads |-> <<>>]
  BY DEF Init
<1>4. Domains
  <2>1. \A c \in Comps : DOMAIN idwt[c] = 1 .. NL(dec, c)
    BY <1>3 DEF FreshIdwt, Comps
  <2> QED
    BY <1>3, <2>1 DEF Domains, NoneOf, Comps, FreshIdwt
<1>5. DriverOK
  <2>1. H \in Nat
    BY <1>2, HeightIs
  <2>2. 1 \in 1 .. Pictures
    BY DecodeAssumption
  <2>3. row \in 0 .. H /\ (row = IF stripY < H THEN stripY ELSE H)
    BY <1>3, <2>1
  <2> QED
    BY <1>3, <2>2, <2>3 DEF DriverOK
<1>6. TaskOK
  <2>1. StackOK
    <3>1. <<>> \in Seq({})
      OBVIOUS
    <3> QED
      BY <1>3, <3>1 DEF StackOK
  <2>2. \A t \in Threads : \A i \in Nat : \A c : ~ OnStack(t, i, c)
    <3> SUFFICES ASSUME NEW t \in Threads, NEW i \in Nat, NEW c, OnStack(t, i, c) PROVE FALSE
      OBVIOUS
    <3>1. i \in 1 .. Len(<<>>)
      BY <1>3 DEF OnStack
    <3> QED
      BY <3>1
  <2>3. Open = {}
    BY <1>3, <2>2 DEF Open, Held
  <2>4. pullCnt = IF Parallel THEN Cardinality(Open) ELSE 0
    BY <1>3, <2>3, FS_EmptySet
  <2>5. \A c \in Comps : Len(pulled[c]) = counts[c]
    BY <1>3 DEF NoneOf, Comps
  <2> QED
    BY <1>3, <2>1, <2>2, <2>3, <2>4, <2>5 DEF TaskOK, Once
<1>7. ASSUME NEW c \in Comps PROVE Fresh(c)
  <2>1. /\ NL(dec, c) \in Nat /\ dec.comps[c] \in CompShape
        /\ \A l \in 0 .. NL(dec, c) :
             V0(dec, c, l) \in Nat /\ V1(dec, c, l) \in Nat /\ V0(dec, c, l) <= V1(dec, c, l)
        /\ \A l \in 1 .. NL(dec, c) : dec.comps[c].dirs[l] \in {"BIDIR", "HORZ", "NO"}
    BY <1>2, LevelRows DEF ShapeOK, Comps
  <2>2. ASSUME NEW l \in 1 .. NL(dec, c)
        PROVE  LevelOK(c, l) /\ idwt[c][l].nextIn = V0(dec, c, l) /\ idwt[c][l].nextOut = V0(dec, c, l)
    <3>1. idwt[c][l] = IdwtInit(V0(dec, c, l), V1(dec, c, l), dec.comps[c].xf, dec.comps[c].dirs[l])
      BY <1>3 DEF FreshIdwt, Comps
    <3>2. l \in 0 .. NL(dec, c) /\ dec.comps[c].xf \in Nat
      BY <2>1 DEF CompShape
    <3>3. /\ V0(dec, c, l) \in Nat /\ V1(dec, c, l) \in Nat /\ V0(dec, c, l) <= V1(dec, c, l)
          /\ dec.comps[c].dirs[l] \in {"BIDIR", "HORZ", "NO"}
      BY <2>1, <3>2
    <3>4. LET s == IdwtInit(V0(dec, c, l), V1(dec, c, l), dec.comps[c].xf, dec.comps[c].dirs[l]) IN
          /\ RingOK(s) /\ s.v0 = V0(dec, c, l) /\ s.v1 = V1(dec, c, l)
          /\ s.dir = dec.comps[c].dirs[l] /\ s.nextIn = V0(dec, c, l) /\ s.nextOut = V0(dec, c, l)
      <4> DEFINE a == V0(dec, c, l)
                 b == V1(dec, c, l)
                 x == dec.comps[c].xf
                 d == dec.comps[c].dirs[l]
      <4>1. a \in Nat /\ b \in Nat /\ a <= b /\ x \in Nat /\ d \in {"BIDIR", "HORZ", "NO"}
        BY <3>2, <3>3
      <4> HIDE DEF a, b, x, d
      <4>2. LET s == IdwtInit(a, b, x, d) IN
            /\ RingOK(s) /\ s.v0 = a /\ s.v1 = b /\ s.dir = d /\ s.nextIn = a /\ s.nextOut = a
        BY <4>1, InitRingOK
      <4> QED
        BY <4>2 DEF a, b, x, d
    <3> QED
      BY <3>1, <3>4 DEF LevelOK
  <2>3. calls[c] = <<>> /\ pulled[c] = <<>> /\ counts[c] = 0 /\ nextRow[c] = V0(dec, c, 0)
    BY <1>3 DEF NoneOf, Comps
  <2>4. FramesOK(c)
    <3>1. \E S : calls[c] \in Seq([lvl : Nat, low : S])
      <4>1. <<>> \in Seq([lvl : Nat, low : {}])
        OBVIOUS
      <4> QED
        BY <2>3, <4>1
    <3>2. \E S : pulled[c] \in Seq(S)
      <4>1. <<>> \in Seq({})
        OBVIOUS
      <4> QED
        BY <2>3, <4>1
    <3>3. Len(calls[c]) <= NL(dec, c) /\ \A i \in 1 .. Len(calls[c]) : calls[c][i].lvl = NL(dec, c) + 1 - i
      BY <2>1, <2>3
    <3>4. counts[c] \in Nat /\ Len(pulled[c]) <= counts[c]
      BY <2>3
    <3> QED
      BY <2>3, <3>1, <3>2, <3>3, <3>4, Zenon DEF FramesOK
  <2> QED
    BY <1>3, <2>2, <2>3, <2>4 DEF Fresh
<1>8. \A c \in Comps : PullOK(c)
  BY <1>2, <1>7, FreshOK DEF FreshIsOK
<1> QED
  BY <1>1, <1>2, <1>4, <1>5, <1>6, <1>8 DEF DecInv

-----------------------------------------------------------------------------
(* The steps of the threads. *)

\* The driver as long as it takes no step.
LEMMA DriverRests ==
  ASSUME DriverOK, driverVars' = driverVars
  PROVE  DriverOK'
<1>1. /\ dec' = dec /\ phase' = phase /\ stripY' = stripY /\ row' = row /\ picture' = picture
      /\ counts' = counts
  BY DEF driverVars
<1>2. Comps' = Comps /\ H' = H
  BY <1>1 DEF Comps, H, Rows
<1>3. StripTop' = StripTop /\ \A c \in Comps : Count(c)' = Count(c)
  BY <1>1, <1>2 DEF StripTop, StripRows, Count, Comps, Rows, H
<1> QED
  BY <1>1, <1>2, <1>3 DEF DriverOK

\* Steps of tasks that leave pulls and buffers' readers alone.
LEMMA TasksOnly ==
  ASSUME DecInv, driverVars' = driverVars, pullVars' = pullVars, TaskOK',
         geo' = geo, sync' = sync, strip' = strip, [BufNext]_bufVars
  PROVE  Kept
<1>1. /\ dec' = dec /\ phase' = phase /\ stripY' = stripY /\ row' = row /\ counts' = counts
      /\ idwt' = idwt /\ calls' = calls /\ pulled' = pulled /\ nextRow' = nextRow
  BY DEF driverVars, pullVars
<1>2. /\ ShapeOK /\ Domains /\ DriverOK
      /\ \A c \in Comps : PullOK(c)
  BY DEF DecInv
<1>3. Comps' = Comps
  BY <1>1 DEF Comps
<1>4. ShapeOK' /\ Domains'
  BY <1>1, <1>2, <1>3 DEF ShapeOK, Domains, NL
<1>5. ASSUME NEW c \in Comps PROVE PullOK(c)'
  BY <1>1, <1>2, Unmoved DEF Fixed
<1>6. DriverOK'
  BY <1>2, DriverRests
<1> QED
  BY <1>3, <1>4, <1>5, <1>6 DEF Kept

\* A step of a pull keeps the invariant.
LEMMA PullStepKeeps ==
  ASSUME DecInv, NEW t \in Threads, PullStep(t)
  PROVE  Kept
<1>1. PICK c \in Comps : Running(t) = Strip(c) /\ Pull(c)
  BY DEF PullStep
<1>2. /\ ShapeOK /\ Domains /\ TaskOK /\ DriverOK /\ BufTypes
      /\ \A d \in Comps : PullOK(d)
  BY DEF DecInv, BufInv
<1>3. stripY \in Nat /\ row \in Nat
  BY <1>2, HeightIs DEF DriverOK
<1>4. /\ ShapeOK' /\ Domains' /\ \A d \in Comps : PullOK(d)'
      /\ OnlyIn(c, pulled) /\ counts' = counts /\ [BufNext]_bufVars
  BY <1>1, <1>2, <1>3, PullKeeps
<1>5. TaskOK'
  BY <1>1, <1>2, <1>4, PullTasks
<1>6. driverVars' = driverVars
  BY <1>1 DEF Pull, PullReturn, PullChild, PullBand, PullFetch
<1>7. DriverOK'
  BY <1>2, <1>6, DriverRests
<1>8. Comps' = Comps
  BY <1>6 DEF driverVars, Comps
<1> QED
  BY <1>4, <1>5, <1>7, <1>8 DEF Kept

\* Every step keeps it, and does with the buffers what a client may.
LEMMA StepKept == DecInv /\ [Next]_vars => Kept
<1> SUFFICES ASSUME DecInv, [Next]_vars PROVE Kept
  OBVIOUS
<1>1. ShapeOK /\ TaskOK
  BY DEF DecInv
<1>2. CASE UNCHANGED vars
  <2>1. driverVars' = driverVars /\ pullVars' = pullVars /\ bufVars' = bufVars /\ taskVars' = taskVars
    BY <1>2 DEF vars
  <2>2. TaskOK'
    <3>1. /\ dec' = dec /\ pooled' = pooled /\ phase' = phase /\ counts' = counts
          /\ waiting' = waiting /\ pullCnt' = pullCnt /\ stack' = stack /\ pulled' = pulled
      BY <2>1 DEF driverVars, pullVars, bufVars, taskVars
    <3>2. StackOK' /\ \A t \in Threads : \A i \in Nat : \A c : OnStack(t, i, c)' <=> OnStack(t, i, c)
      BY <1>1, <3>1 DEF StackOK, TaskOK, OnStack, Strip
    <3>3. \A c \in Comps : c \notin Open => pulled'[c] = pulled[c]
      BY <3>1
    <3> QED
      BY <1>1, <3>1, <3>2, <3>3, TasksRest
  <2> QED
    BY <2>1, <2>2, TasksOnly DEF bufVars
<1>3. ASSUME NEW t \in Threads, TakeBlock(t) PROVE Kept
  <2>1. driverVars' = driverVars /\ pullVars' = pullVars /\ bufVars' = bufVars
    BY <1>3 DEF TakeBlock
  <2> QED
    BY <1>1, <1>3, <2>1, TakeBlockTasks, TasksOnly DEF bufVars
<1>4. ASSUME NEW t \in Threads, TakeStrip(t) PROVE Kept
  <2>1. driverVars' = driverVars /\ pullVars' = pullVars /\ bufVars' = bufVars
    BY <1>4 DEF TakeStrip
  <2> QED
    BY <1>1, <1>4, <2>1, TakeStripTasks, TasksOnly DEF bufVars
<1>5. ASSUME NEW t \in Threads, EndStrip(t) PROVE Kept
  <2>1. driverVars' = driverVars /\ pullVars' = pullVars /\ bufVars' = bufVars
    BY <1>5 DEF EndStrip
  <2> QED
    BY <1>1, <1>5, <2>1, EndStripTasks, TasksOnly DEF bufVars
<1>6. ASSUME NEW t \in Threads, EndBlock(t) PROVE Kept
  <2>1. driverVars' = driverVars /\ pullVars' = pullVars
    BY <1>6 DEF EndBlock
  <2>2. PICK b \in tasks : FinishBlock(b)
    BY <1>6 DEF EndBlock
  <2>3. geo' = geo /\ sync' = sync /\ strip' = strip /\ BufNext
    BY <2>2 DEF FinishBlock, BufNext
  <2> QED
    BY <1>1, <1>6, <2>1, <2>3, EndBlockTasks, TasksOnly
<1>7. ASSUME NEW t \in Threads, PullStep(t) PROVE Kept
  BY <1>7, PullStepKeeps
<1>8. CASE MainStep
  BY <1>8, BeginStripKeeps, DeliverKeeps, NextPictureKeeps DEF MainStep
<1> QED
  BY <1>2, <1>3, <1>4, <1>5, <1>6, <1>7, <1>8 DEF Next, ThreadStep

\* Every step keeps the inductive invariant.
LEMMA DecodeStep == DecInv /\ [Next]_vars => DecInv'
<1>1. DecInv /\ Kept => BufInv'
  BY BuffersStep DEF DecInv, Kept
<1> QED
  BY <1>1, StepKept DEF DecInv, Kept

\* The inductive invariant holds.
LEMMA DecodeInvariant == Spec => []DecInv
  BY DecodeStarts, DecodeStep, PTL DEF Spec

-----------------------------------------------------------------------------

\* A component's calls are consecutive levels, its rows never more than were
\* asked for, the counters within their bounds: whatever the threads do.
THEOREM DecodeTypeCorrect == Spec => []TypeOK
<1>1. DecInv => TypeOK
  <2> SUFFICES ASSUME DecInv PROVE TypeOK
    OBVIOUS
  <2>1. /\ ShapeOK /\ Domains /\ TaskOK /\ DriverOK
        /\ \A c \in Comps : PullOK(c)
    BY DEF DecInv
  <2>2. phase \in {"strip", "pull"} /\ row \in 0 .. H /\ picture \in 1 .. Pictures
    BY <2>1 DEF DriverOK
  <2>3. waiting \subseteq Comps
    BY <2>1 DEF TaskOK
  <2>4. pullCnt \in 0 .. Len(dec.comps)
    <3>1. Open \in SUBSET Comps
      BY DEF Open
    <3>2. /\ Cardinality(Open) \in Nat /\ Cardinality(Open) <= Len(dec.comps)
          /\ Len(dec.comps) \in Nat
      BY <2>1, <3>1, OpenFinite
    <3>3. pullCnt = IF Parallel THEN Cardinality(Open) ELSE 0
      BY <2>1 DEF TaskOK
    <3> QED
      BY <3>2, <3>3
  <2>5. ASSUME NEW c \in Comps
        PROVE  /\ Len(pulled[c]) <= counts[c]
               /\ \A i \in DOMAIN calls[c] : calls[c][i].lvl = NL(dec, c) + 1 - i
    <3>1. FramesOK(c)
      BY <2>1 DEF PullOK
    <3>2. DOMAIN calls[c] = 1 .. Len(calls[c])
      BY <3>1 DEF FramesOK
    <3> QED
      BY <3>1, <3>2 DEF FramesOK
  <2> QED
    BY <2>2, <2>3, <2>4, <2>5 DEF TypeOK
<1> QED
  BY DecodeInvariant, <1>1, PTL

\* The decoder reads its row buffers as their contract says: rows inside the
\* band, and no buffer is rewound for the next picture before it was read to the
\* end, which is what the unguarded reset_line_decode_cursors rests on.
THEOREM DecoderKeepsContract == Spec => BufSpec
<1>1. Init => BufInit
  BY DEF Init
<1>2. DecInv /\ [Next]_vars => [BufNext]_bufVars
  BY StepKept DEF Kept
<1> QED
  BY DecodeInvariant, <1>1, <1>2, PTL DEF Spec, BufSpec

\* So every row the decoder is handed is settled, of its own strip and picture.
THEOREM DecodedRowsSettled == Spec => []ReadsSettled
  BY DecoderKeepsContract, RowsSettled, PTL

----------------------------------------------------------------------------
(* The ring of a level of the synthesis: between two rows of the source it *)
(* is at rest, whatever the filter.                                        *)

\* The ring of a level between two rows of the source, in the picture the tag names.
Streamed(s, tag) ==
  InRing(s, tag) /\ s.first = 0 /\ s.depth = 8 /\ Leaving(s) /\ AtRest(s)

\* Two rings of one level.
Kin(s, t) == /\ DOMAIN t = DOMAIN s
             /\ \A f \in DOMAIN s : f \notin {"cells", "origin", "nextIn", "nextOut"} => t[f] = s[f]

\* One pass of the phases is enough: afterwards no row of the ring can be lifted.
LEMMA IdwtCascadeRests ==
  ASSUME NEW s, NEW tag, InRing(s, tag), s.first = 0
  PROVE  LET t == IdwtCascade(s) IN
         /\ InRing(t, tag) /\ Alike(s, t) /\ AtRest(t)
         /\ \A p \in Int : Level(t, p) >= Level(s, p)
<1> DEFINE M == MaxLevel(s.xf)
           a == Phase(s, 0, 0, 0)
           b == Phase(a, 1, 0, 1)
           c == Phase(b, 0, 1, 1)
           d == Phase(c, 1, 1, 2)
           t == IdwtCascade(s)
           Holding(x) == /\ InRing(x, tag) /\ Alike(s, x) /\ x.first = 0 /\ MaxLevel(x.xf) = M
                         /\ \A p \in Int : Level(x, p) \in Int /\ Level(x, p) >= Level(s, p)
<1>1. M = (IF s.xf = 0 THEN 2 ELSE 1)
  BY DEF MaxLevel
<1>2. ASSUME NEW x, InRing(x, tag), NEW p \in Int PROVE Level(x, p) \in Int
  BY <1>2, LevelOfRow DEF InRing
<1>3. Holding(s)
  <2>1. Alike(s, s)
    BY DEF Alike, InRing, Shaped
  <2>2. \A p \in Int : Level(s, p) \in Int /\ Level(s, p) >= Level(s, p)
    BY <1>2
  <2> QED
    BY <2>1, <2>2
<1>4. ASSUME NEW x, Holding(x), NEW side \in {0, 1}, NEW cur \in 0 .. M - 1,
             NEW need, need = (IF side = 0 THEN cur ELSE cur + 1)
      PROVE  LET y == Phase(x, side, cur, need) IN
             /\ Holding(y) /\ StepDone(y, side, cur)
             /\ \A z \in {0, 1} : \A k \in Nat :
                  2 * k + z < 2 * cur + side /\ StepDone(x, z, k) => StepDone(y, z, k)
  <2> DEFINE y == Phase(x, side, cur, need)
  <2>1. InRing(x, tag) /\ Alike(s, x) /\ x.first = 0 /\ MaxLevel(x.xf) = M
        /\ \A p \in Int : Level(x, p) \in Int /\ Level(x, p) >= Level(s, p)
    BY <1>4
  <2>2. need = NeedOf(x, side, cur)
    BY <1>4, <2>1 DEF NeedOf
  <2>3. cur \in 0 .. MaxLevel(x.xf) - 1
    BY <2>1
  <2> HIDE DEF y, M
  <2>4. InRing(y, tag) /\ Alike(x, y)
    BY <2>1, <2>2, <2>3, PhaseKeeps DEF y
  <2>5. /\ StepDone(y, side, cur)
        /\ \A z \in {0, 1} : \A k \in Nat :
             RankOf(x, z, k) < RankOf(x, side, cur) /\ StepDone(x, z, k) => StepDone(y, z, k)
        /\ \A p \in Int : Level(y, p) >= Level(x, p)
    BY <2>1, <2>2, <2>3, PhaseRests DEF y
  <2>6. Alike(s, y)
    BY <2>1, <2>4 DEF Alike
  <2>7. y.first = 0 /\ MaxLevel(y.xf) = M
    BY <2>1, <2>4, AlikeAre
  <2>8. ASSUME NEW p \in Int PROVE Level(y, p) \in Int /\ Level(y, p) >= Level(s, p)
    <3>1. Level(y, p) \in Int /\ Level(x, p) \in Int /\ Level(s, p) \in Int
      BY <1>2, <2>1, <2>4
    <3>2. Level(y, p) >= Level(x, p) /\ Level(x, p) >= Level(s, p)
      BY <2>1, <2>5
    <3> QED
      BY <3>1, <3>2
  <2>9. ASSUME NEW z \in {0, 1}, NEW k \in Nat, 2 * k + z < 2 * cur + side, StepDone(x, z, k)
        PROVE  StepDone(y, z, k)
    <3>1. RankOf(x, z, k) = 2 * k + z /\ RankOf(x, side, cur) = 2 * cur + side
      BY <2>1, <2>9 DEF RankOf
    <3> QED
      BY <2>5, <2>9, <3>1
  <2> QED
    BY <2>4, <2>5, <2>6, <2>7, <2>8, <2>9 DEF y
<1> HIDE DEF Holding, M
<1>5. Holding(a) /\ StepDone(a, 0, 0)
  <2>1. 0 \in 0 .. M - 1
    BY <1>1
  <2> QED
    BY <1>3, <1>4, <2>1
<1> HIDE DEF a
<1>6. Holding(b) /\ StepDone(b, 1, 0) /\ StepDone(b, 0, 0)
  <2>1. 0 \in 0 .. M - 1 /\ 1 = 0 + 1
    BY <1>1
  <2> QED
    BY <1>4, <1>5, <2>1
<1> HIDE DEF b
<1>7. CASE s.xf # 0
  <2>1. t = b
    BY <1>7 DEF IdwtCascade, a, b
  <2>2. AtRest(b)
    <3>1. MaxLevel(b.xf) = 1 /\ Shaped(b)
      BY <1>1, <1>6, <1>7 DEF Holding, InRing
    <3>2. \A side \in {0, 1} : \A cur \in 0 .. MaxLevel(b.xf) - 1 : StepDone(b, side, cur)
      BY <1>6, <3>1
    <3> QED
      BY <3>1, <3>2, AllDoneRests
  <2> HIDE DEF t
  <2> QED
    BY <1>6, <2>1, <2>2 DEF Holding, t
<1>8. CASE s.xf = 0
  <2>0. M = 2 /\ 1 \in 0 .. M - 1
    BY <1>1, <1>8
  <2>1. Holding(c) /\ StepDone(c, 0, 1) /\ StepDone(c, 1, 0) /\ StepDone(c, 0, 0)
    BY <1>4, <1>6, <2>0
  <2> HIDE DEF c
  <2>2. /\ Holding(d) /\ StepDone(d, 1, 1) /\ StepDone(d, 0, 1) /\ StepDone(d, 1, 0)
        /\ StepDone(d, 0, 0)
    <3>1. 2 = 1 + 1
      OBVIOUS
    <3> QED
      BY <1>4, <2>0, <2>1, <3>1
  <2>3. t = d
    BY <1>8 DEF IdwtCascade, a, b, c
  <2> HIDE DEF d, t
  <2>4. AtRest(d)
    <3>1. MaxLevel(d.xf) = 2 /\ Shaped(d)
      BY <2>0, <2>2 DEF Holding, InRing
    <3>2. \A side \in {0, 1} : \A cur \in 0 .. MaxLevel(d.xf) - 1 : StepDone(d, side, cur)
      BY <2>2, <3>1
    <3> QED
      BY <3>1, <3>2, AllDoneRests
  <2> QED
    BY <2>2, <2>3, <2>4 DEF Holding, t
<1> QED
  BY <1>7, <1>8

\* A level the lifting has nothing to hold back takes the next row.
LEMMA FetchedStreams ==
  ASSUME NEW s, NEW tag, Streamed(s, tag), ~ Ready(s), s.nextIn < s.v1, s.nextOut < s.v1
  PROVE  LET t == Fetched(s, Row(tag, s.nextIn, 0)) IN
         /\ Streamed(t, tag) /\ Kin(s, t) /\ t.nextIn = s.nextIn + 1 /\ t.nextOut = s.nextOut
<1> DEFINE r == s.nextIn
           val == Row(tag, r, 0)
           room == MakeRoom(s)
           in == Enter(room, val)
           t == Fetched(s, val)
           M == MaxLevel(s.xf)
<1>1. /\ InRing(s, tag) /\ s.first = 0 /\ s.depth = 8 /\ Leaving(s) /\ AtRest(s)
  BY DEF Streamed
<1>2. /\ s.v0 <= s.origin /\ s.origin <= s.nextOut /\ s.nextOut <= r
      /\ s.origin = s.v0 \/ s.origin < s.nextOut
      /\ \A x \in s.origin .. s.nextOut - 1 : Level(s, x) = M
  BY <1>1 DEF Leaving
<1>3. r <= s.nextOut + 4
  BY <1>1, NotHeldBack
<1>4. /\ Shaped(s) /\ IsRing(s) /\ r <= s.v1 /\ r <= s.origin + 8
  BY <1>1 DEF InRing, Shaped
<1>5. s.v0 \in Nat /\ s.v1 \in Nat /\ s.origin \in Nat /\ r \in Nat /\ s.nextOut \in Nat
  BY <1>4, RangesAre
<1>6. /\ InRing(room, tag) /\ Kin(s, room)
      /\ room.nextIn = r /\ room.nextOut = s.nextOut /\ r < room.origin + 8
      /\ s.v0 <= room.origin /\ room.origin <= s.nextOut
      /\ room.origin = s.v0 \/ room.origin < s.nextOut
      /\ \A x \in room.origin .. s.nextOut - 1 : Level(room, x) = M
  <2> DEFINE o == r - 7
  <2>1. room = IF o > s.origin THEN EvictTo(s, o) ELSE s
    <3>1. r - s.depth + 1 = o /\ ~ (o > s.nextOut)
      BY <1>1, <1>3, <1>5
    <3> HIDE DEF o
    <3> QED
      BY <3>1 DEF MakeRoom
  <2>2. CASE o > s.origin
    <3>1. o \in s.origin .. s.nextIn
      BY <1>5, <2>2
    <3> HIDE DEF o, room
    <3>2. /\ InRing(room, tag) /\ DOMAIN room = DOMAIN s /\ room.origin = o
          /\ \A f \in DOMAIN s : f \notin {"cells", "origin"} => room[f] = s[f]
          /\ \A p \in KeptRows(room) : Level(room, p) = Level(s, p)
      BY <1>1, <2>1, <2>2, <3>1, EvictKeeps
    <3>3. room.nextIn = r /\ room.nextOut = s.nextOut /\ room.v0 = s.v0 /\ room.v1 = s.v1
      BY <1>4, <3>2 DEF IsRing, RingFields
    <3>4. o < s.nextOut /\ s.v0 <= o /\ r < o + 8
      BY <1>2, <1>3, <1>5, <2>2 DEF o
    <3>5. ASSUME NEW x \in o .. s.nextOut - 1 PROVE Level(room, x) = M
      <4>1. Level(s, x) = M
        BY <1>2, <1>5, <2>2, <3>5 DEF o
      <4>2. x \in KeptRows(room)
        <5>1. s.v0 <= x /\ x < s.v1 /\ ~ (x < o) /\ x \in Int
          BY <1>2, <1>4, <1>5, <3>4, <3>5 DEF o
        <5>2. room.topN \in 1 .. 4 /\ room.botN \in 1 .. 4
          BY <3>2, RangesAre DEF InRing
        <5> QED
          BY <1>5, <3>2, <3>3, <5>1, <5>2 DEF KeptRows, SlottedRows, GivenUp
      <4> QED
        BY <3>2, <4>1, <4>2
    <3>6. Kin(s, room)
      BY <3>2, <3>3, <1>4 DEF Kin, IsRing, RingFields
    <3>7. r < room.origin + 8 /\ s.v0 <= room.origin /\ room.origin <= s.nextOut /\ room.origin < s.nextOut
      BY <1>5, <3>1, <3>2, <3>4
    <3>8. \A x \in room.origin .. s.nextOut - 1 : Level(room, x) = M
      BY <3>2, <3>5
    <3> QED
      BY <3>2, <3>3, <3>6, <3>7, <3>8
  <2>3. CASE ~ (o > s.origin)
    <3>1. room = s /\ r < s.origin + 8
      BY <1>5, <2>1, <2>3
    <3>2. Kin(s, s)
      BY DEF Kin
    <3> HIDE DEF room, M
    <3> QED
      BY <1>1, <1>2, <3>1, <3>2
  <2> QED
    BY <2>2, <2>3
<1> HIDE DEF room
<1>7. /\ room.v0 = s.v0 /\ room.v1 = s.v1 /\ room.first = 0 /\ room.depth = 8
      /\ room.xf = s.xf
  BY <1>1, <1>4, <1>6 DEF Kin, IsRing, RingFields
<1>8. /\ InRing(in, tag) /\ DOMAIN in = DOMAIN room /\ in.nextIn = r + 1
      /\ \A f \in DOMAIN room : f \notin {"cells", "nextIn"} => in[f] = room[f]
      /\ \A p \in Int : Level(in, p) >= Level(room, p)
  <2>1. room.nextIn < room.v1 /\ room.nextIn < room.origin + room.depth
    BY <1>6, <1>7
  <2> HIDE DEF in
  <2> QED
    BY <1>6, <2>1, EnterKeeps DEF in
<1>9. t = IdwtCascade(in)
  BY <1>6 DEF Fetched, Enter, room
<1> HIDE DEF in, t
<1>10. /\ in.first = 0 /\ in.origin = room.origin /\ in.nextOut = s.nextOut /\ in.xf = s.xf
       /\ in.v0 = s.v0 /\ in.v1 = s.v1 /\ in.depth = 8
  <2>1. RingFields \subseteq DOMAIN room
    BY <1>6 DEF InRing, Shaped, IsRing
  <2> QED
    BY <1>6, <1>7, <1>8, <2>1 DEF RingFields
<1>11. /\ InRing(t, tag) /\ Alike(in, t) /\ AtRest(t)
       /\ \A p \in Int : Level(t, p) >= Level(in, p)
  BY <1>8, <1>9, <1>10, IdwtCascadeRests
<1>12. /\ t.first = 0 /\ t.origin = room.origin /\ t.nextOut = s.nextOut /\ t.nextIn = r + 1
       /\ t.v0 = s.v0 /\ t.v1 = s.v1 /\ t.depth = 8 /\ t.xf = s.xf
  BY <1>8, <1>10, <1>11, AlikeAre
<1>13. Kin(s, t)
  <2>1. DOMAIN t = DOMAIN in /\ \A f \in DOMAIN in : f # "cells" => t[f] = in[f]
    BY <1>11 DEF Alike
  <2> QED
    BY <1>6, <1>8, <2>1 DEF Kin
<1>14. Leaving(t)
  <2>1. ASSUME NEW x \in room.origin .. s.nextOut - 1 PROVE Level(t, x) = M
    <3>1. room.origin \in Nat
      BY <1>6, RangesAre DEF InRing
    <3>2. x \in Int
      BY <1>5, <3>1
    <3>3. Level(room, x) = M /\ Level(in, x) >= Level(room, x) /\ Level(t, x) >= Level(in, x)
      BY <1>6, <1>8, <1>11, <3>2
    <3>4. Level(in, x) \in Int /\ Level(t, x) \in Int
      BY <1>8, <1>11, <3>2, LevelOfRow DEF InRing
    <3>5. M \in {1, 2}
      BY DEF MaxLevel
    <3>6. Level(t, x) >= M /\ Level(t, x) >= 0
      BY <3>3, <3>4, <3>5
    <3>7. x \in KeptRows(t)
      BY <1>11, <3>2, <3>6, LevelHeld DEF InRing
    <3>8. Level(t, x) <= M
      <4>1. Level(t, x) \in -1 .. M
        BY <1>11, <1>12, <3>7 DEF InRing, Arrived
      <4> HIDE DEF M
      <4> QED
        BY <3>5, <4>1
    <3> HIDE DEF M
    <3> QED
      BY <3>4, <3>5, <3>6, <3>8
  <2>2. s.nextOut <= r + 1
    BY <1>2, <1>5
  <2> HIDE DEF r
  <2>3. t.origin = room.origin /\ t.v0 = s.v0 /\ t.nextIn = r + 1 /\ t.nextOut = s.nextOut
        /\ MaxLevel(t.xf) = M
    BY <1>12
  <2>4. /\ t.v0 <= t.origin /\ t.origin <= t.nextOut /\ t.nextOut <= t.nextIn
        /\ t.origin = t.v0 \/ t.origin < t.nextOut
    BY <1>6, <2>2, <2>3
  <2>5. \A x \in t.origin .. t.nextOut - 1 : Level(t, x) = MaxLevel(t.xf)
    BY <2>1, <2>3
  <2> QED
    BY <2>4, <2>5 DEF Leaving
<1> QED
  BY <1>11, <1>12, <1>13, <1>14 DEF Streamed, val, t, r

\* A row that is ready is the picture's next row, with all its steps.
LEMMA ReturnStreams ==
  ASSUME NEW s, NEW tag, Streamed(s, tag), Ready(s)
  PROVE  LET t == [s EXCEPT !.nextOut = @ + 1] IN
         /\ NextRow(s) = Row(tag, s.nextOut, MaxLevel(s.xf))
         /\ Streamed(t, tag) /\ Kin(s, t) /\ t.nextIn = s.nextIn /\ t.nextOut = s.nextOut + 1
<1> DEFINE t == [s EXCEPT !.nextOut = @ + 1]
<1>1. Steady(s, tag) /\ s.first = 0 /\ s.depth = 8
  BY DEF Streamed, Steady
<1>2. IsRing(s)
  BY DEF Streamed, InRing, Shaped
<1>3. Kin(s, t) /\ t.first = s.first /\ t.depth = s.depth
  BY <1>2 DEF IsRing, RingFields, Kin
<1>4. /\ NextRow(s) = Row(tag, s.nextOut, MaxLevel(s.xf))
      /\ Steady(t, tag) /\ t.nextIn = s.nextIn /\ t.nextOut = s.nextOut + 1
  BY <1>1, LeaveKeeps
<1> HIDE DEF t
<1>5. Streamed(t, tag)
  BY <1>1, <1>3, <1>4 DEF Streamed, Steady
<1> QED
  BY <1>3, <1>4, <1>5 DEF t

\* A ring nothing has entered.
LEMMA NewRingStreams ==
  ASSUME NEW s, NEW tag, Shaped(s), s.first = 0, s.depth = 8,
         s.origin = s.v0, s.nextIn = s.v0, s.nextOut = s.v0,
         \A k \in 0 .. 15 : s.cells[k].lvl = -1
  PROVE  Streamed(s, tag)
<1>1. \A k \in 0 .. s.depth + 7 : s.cells[k].lvl = -1
  OBVIOUS
<1>2. Steady(s, tag)
  BY <1>1, NewRingSteady
<1> QED
  BY <1>2 DEF Streamed, Steady

\* A level of two rows or more, before its first row.
LEMMA InitStreams ==
  ASSUME NEW v0 \in Nat, NEW v1 \in Nat, v1 >= v0 + 2, NEW xf \in Nat, NEW dir, NEW tag
  PROVE  Streamed(IdwtInit(v0, v1, xf, dir), tag)
<1> DEFINE s == IdwtInit(v0, v1, xf, dir)
           C == EmptyRing(8)
           tn == kPseTop[(v0 % 2) + 1][TableCol(xf)]
           bn == kPseBot[(v1 % 2) + 1][TableCol(xf)]
           O == IF xf = 0 THEN 3 ELSE 1
<1>1. s = [dir |-> dir, v0 |-> v0, v1 |-> v1, xf |-> xf, first |-> 0, depth |-> 8,
           topN |-> tn, botN |-> bn, origin |-> v0, nextIn |-> v0, nextOut |-> v0, cells |-> C]
  BY DEF IdwtInit, IDWT_STATE_RING_DEPTH
<1>2. v0 % 2 \in {0, 1} /\ v1 % 2 \in {0, 1}
  OBVIOUS
<1>3. /\ tn = O + (IF v0 % 2 = 0 THEN 0 ELSE 1)
      /\ bn = O + (IF v1 % 2 = 0 THEN 1 ELSE 0)
  <2>1. CASE xf = 0
    BY <1>2, <2>1 DEF kPseTop, kPseBot, TableCol
  <2>2. CASE xf # 0
    BY <1>2, <2>2 DEF kPseTop, kPseBot, TableCol
  <2> QED
    BY <2>1, <2>2
<1>4. C = [k \in 0 .. 15 |-> C[k]] /\ \A k \in 0 .. 15 : C[k].lvl = -1 /\ IsCell(C[k])
  <2>1. C = [k \in 0 .. 15 |-> Empty]
    BY DEF EmptyRing
  <2>2. Empty.lvl = -1 /\ IsCell(Empty)
    BY DEF Empty, IsCell
  <2> HIDE DEF C
  <2> QED
    BY <2>1, <2>2
<1> HIDE DEF C, tn, bn, s
<1>5. IsRing(s)
  BY <1>1 DEF IsRing, RingFields
<1>6. /\ s.v0 = v0 /\ s.v1 = v1 /\ s.xf = xf /\ s.first = 0 /\ s.depth = 8
      /\ s.topN = tn /\ s.botN = bn /\ s.origin = v0 /\ s.nextIn = v0 /\ s.nextOut = v0
      /\ s.cells = C
  BY <1>1
<1>7. Ranges(s)
  BY <1>3, <1>6 DEF Ranges, Outer
<1>8. Cursors(s)
  BY <1>6 DEF Cursors
<1>9. Cells(s)
  <2>1. 8 + 7 = 15
    OBVIOUS
  <2> QED
    BY <1>4, <1>6, <2>1 DEF Cells
<1>10. Shaped(s)
  BY <1>5, <1>7, <1>8, <1>9 DEF Shaped
<1> QED
  BY <1>4, <1>6, <1>10, NewRingStreams DEF s

\* Rewinding forgets a picture altogether.
LEMMA RewindStreams ==
  ASSUME NEW s, NEW old, Streamed(s, old), NEW tag
  PROVE  LET t == IdwtRewind(s) IN
         /\ Streamed(t, tag) /\ Kin(s, t)
         /\ t.nextIn = s.v0 /\ t.nextOut = s.v0
<1> DEFINE t == IdwtRewind(s)
           K == 0 .. 15
           New(k) == [s.cells[k] EXCEPT !.lvl = -1]
           C == [k \in K |-> New(k)]
<1>1. Shaped(s) /\ s.first = 0 /\ s.depth = 8
  BY DEF Streamed, InRing
<1>2. IsRing(s) /\ Ranges(s) /\ Cells(s)
  BY <1>1 DEF Shaped
<1>3. DOMAIN s.cells = K
  BY <1>1, <1>2 DEF Cells
<1>4. s.v0 \in Nat
  BY <1>1, RangesAre
<1>5. t = [s EXCEPT !.origin = s.v0, !.nextIn = s.v0, !.nextOut = s.v0, !.cells = C]
  BY <1>2, <1>3 DEF IdwtRewind, IsRing, RingFields
<1> HIDE DEF C, t
<1>6. /\ IsRing(t) /\ Kin(s, t) /\ t.origin = s.v0 /\ t.nextIn = s.v0 /\ t.nextOut = s.v0
      /\ t.cells = C
  BY <1>2, <1>5 DEF IsRing, RingFields, Kin
<1>7. /\ t.v0 = s.v0 /\ t.v1 = s.v1 /\ t.xf = s.xf /\ t.first = 0 /\ t.depth = 8
      /\ t.topN = s.topN /\ t.botN = s.botN
  BY <1>1, <1>2, <1>6 DEF Kin, IsRing, RingFields
<1>8. ASSUME NEW k \in K PROVE IsCell(New(k)) /\ New(k).lvl = -1
  <2>1. IsCell(s.cells[k])
    BY <1>1, <1>2 DEF Cells
  <2> DEFINE x == s.cells[k]
  <2> HIDE DEF x
  <2>2. x = [lvl |-> x.lvl, val |-> x.val]
    BY <2>1 DEF IsCell, x
  <2>3. [x EXCEPT !.lvl = -1] = [lvl |-> -1, val |-> x.val]
    BY <2>2
  <2>4. IsCell([x EXCEPT !.lvl = -1]) /\ [x EXCEPT !.lvl = -1].lvl = -1
    BY <2>3 DEF IsCell
  <2> QED
    BY <2>4 DEF x
<1> HIDE DEF New
<1>9. \A k \in K : C[k] = New(k)
  BY DEF C
<1>10. Cells(t) /\ \A k \in 0 .. 15 : t.cells[k].lvl = -1
  <2>1. C = [k \in K |-> C[k]]
    BY DEF C
  <2>2. 0 .. t.depth + 7 = K
    BY <1>7
  <2> QED
    BY <1>6, <1>8, <1>9, <2>1, <2>2 DEF Cells
<1>11. Ranges(t)
  <2>1. s.first = 0 /\ s.depth = 8
    BY <1>1
  <2> QED
    BY <1>2, <1>7, <2>1, Zenon DEF Ranges, Outer
<1>12. Shaped(t)
  BY <1>4, <1>6, <1>10, <1>11 DEF Shaped, Cursors
<1>13. Streamed(t, tag)
  BY <1>6, <1>7, <1>10, <1>12, NewRingStreams
<1> QED
  BY <1>6, <1>13 DEF t

----------------------------------------------------------------------------
(* The decoder delivers what is promised of it: each picture's rows, once  *)
(* and in order, and of each component the right one. First what a return  *)
(* and a call tell the levels of a component.                              *)

\* The level on top of component c's pull, and what its child has returned.
Lv(c)    == Last(Frames(c)).lvl
Given(c) == Last(Frames(c)).low

\* The last element of an extended sequence.
LEMMA LastOfAppend ==
  ASSUME NEW S, NEW q \in Seq(S), NEW x
  PROVE  Last(Append(q, x)) = x /\ Append(q, x) # <<>>
<1>1. Append(q, x) \in Seq(S \cup {x}) /\ Len(Append(q, x)) = Len(q) + 1 /\ Len(q) \in Nat
      /\ Append(q, x)[Len(q) + 1] = x
  OBVIOUS
<1>2. Append(q, x) # <<>>
  <2> SUFFICES ASSUME Append(q, x) = <<>> PROVE FALSE
    OBVIOUS
  <2>1. Len(Append(q, x)) = 0
    OBVIOUS
  <2> QED
    BY <1>1, <2>1
<1> QED
  BY <1>1, <1>2 DEF Last

\* The frames once the calls have changed.
LEMMA FramesNext ==
  ASSUME NEW c
  PROVE  /\ calls'[c] # <<>> => Frames(c)' = calls'[c]
         /\ calls'[c] = <<>> /\ dec' = dec => /\ Lv(c)' = NL(dec, c) /\ Given(c)' = NoRow
         /\ calls'[c] = calls[c] /\ dec' = dec => Lv(c)' = Lv(c) /\ Given(c)' = Given(c)
<1>1. Frames(c)' = IF calls'[c] = <<>> THEN <<Frame(NL(dec', c))>> ELSE calls'[c]
  BY DEF Frames
<1>2. Frames(c) = IF calls[c] = <<>> THEN <<Frame(NL(dec, c))>> ELSE calls[c]
  BY DEF Frames
<1>3. Lv(c)' = Last(Frames(c)').lvl /\ Given(c)' = Last(Frames(c)').low
  BY DEF Lv, Given
<1>4. \A n : Last(<<Frame(n)>>) = Frame(n)
  BY DEF Last
<1>5. \A n : Frame(n).lvl = n /\ Frame(n).low = NoRow
  BY DEF Frame
<1>6. ASSUME calls'[c] = <<>>, dec' = dec PROVE Lv(c)' = NL(dec, c) /\ Given(c)' = NoRow
  <2>1. Frames(c)' = <<Frame(NL(dec, c))>>
    BY <1>1, <1>6
  <2>2. Last(Frames(c)') = Frame(NL(dec, c))
    BY <1>4, <2>1
  <2> QED
    BY <1>3, <1>5, <2>2
<1>7. ASSUME calls'[c] = calls[c], dec' = dec PROVE Lv(c)' = Lv(c) /\ Given(c)' = Given(c)
  <2>1. Frames(c)' = Frames(c)
    BY <1>1, <1>2, <1>7
  <2> QED
    BY <1>3, <2>1 DEF Lv, Given
<1> QED
  BY <1>1, <1>6, <1>7

\* A level returns a row: the level above has it, or the strip.
LEMMA ReturnTells ==
  ASSUME ShapeOK, Domains, NEW c \in Comps, FramesOK(c), dec' = dec, NEW val, Return(c, val)
  PROVE  IF Lv(c) = NL(dec, c)
         THEN Lv(c)' = NL(dec, c) /\ Given(c)' = NoRow /\ pulled'[c] = Append(pulled[c], val)
         ELSE Lv(c)' = Lv(c) + 1 /\ Given(c)' = val /\ pulled'[c] = pulled[c]
<1> DEFINE F == Frames(c)
           n == NL(dec, c)
           callers == Front(F)
           e == Len(callers)
           new == [callers EXCEPT ![e].low = val]
<1>1. PICK S : F \in Seq([lvl : Nat, low : S])
  BY FramesAre, Zenon
<1>2. /\ n \in Nat /\ Len(F) \in Nat /\ F # <<>> /\ Lv(c) = n + 1 - Len(F)
      /\ \A i \in 1 .. Len(F) : F[i].lvl = n + 1 - i
  BY FramesAre, Zenon DEF Lv
<1>3. /\ Len(F) = 1 <=> Lv(c) = n
      /\ Len(F) # 1 => F = calls[c] /\ Len(F) > 1
  BY OneFrame DEF Lv
<1>4. DOMAIN calls = Comps /\ DOMAIN pulled = Comps
  BY DEF Domains
<1>5. /\ callers \in Seq([lvl : Nat, low : S]) /\ Len(callers) = Len(F) - 1
      /\ \A i \in 1 .. Len(F) - 1 : callers[i] = F[i]
  BY <1>1, <1>2, FrontIs
<1>6. Return(c, val) <=>
        IF callers = <<>>
          THEN /\ calls'  = [calls EXCEPT ![c] = <<>>]
               /\ pulled' = [pulled EXCEPT ![c] = Append(@, val)]
        ELSE /\ calls' = [calls EXCEPT ![c] = new]
             /\ UNCHANGED pulled
  BY DEF Return
<1> HIDE DEF F, n, callers
<1>7. callers = <<>> <=> Len(F) = 1
  <2>1. callers = <<>> <=> Len(callers) = 0
    BY <1>5
  <2> QED
    BY <1>2, <1>5, <2>1
<1>8. CASE Len(F) = 1
  <2>1. /\ calls'  = [calls EXCEPT ![c] = <<>>]
        /\ pulled' = [pulled EXCEPT ![c] = Append(pulled[c], val)]
    BY <1>6, <1>7, <1>8
  <2>2. calls'[c] = <<>> /\ pulled'[c] = Append(pulled[c], val)
    BY <1>4, <2>1
  <2> QED
    BY <1>3, <1>8, <2>2, FramesNext DEF n
<1>9. CASE Len(F) # 1
  <2>1. calls' = [calls EXCEPT ![c] = new] /\ pulled' = pulled
    BY <1>6, <1>7, <1>9
  <2>2. calls'[c] = new
    BY <1>4, <2>1
  <2>3. e \in Nat \ {0} /\ e = Len(F) - 1 /\ e \in 1 .. Len(F) - 1 /\ e \in 1 .. Len(F)
    BY <1>2, <1>3, <1>5, <1>9
  <2>4. /\ DOMAIN callers = 1 .. e /\ callers[e] \in [lvl : Nat, low : S]
        /\ DOMAIN new = 1 .. e
    <3> DEFINE Y == [lvl : Nat, low : S]
    <3>1. callers \in Seq(Y) /\ e = Len(callers)
      BY <1>5
    <3> HIDE DEF Y, new, e
    <3>2. DOMAIN callers = 1 .. e /\ callers[e] \in Y
      BY <2>3, <3>1
    <3>3. DOMAIN new = DOMAIN callers
      BY DEF new
    <3> QED
      BY <3>2, <3>3 DEF Y
  <2>5. new[e] = [callers[e] EXCEPT !.low = val]
    <3> DEFINE f == [callers[e] EXCEPT !.low = val]
    <3>1. new = [callers EXCEPT ![e] = f]
      OBVIOUS
    <3> HIDE DEF new, e, f
    <3>2. new[e] = f
      BY <2>3, <2>4, <3>1
    <3> QED
      BY <3>2 DEF f
  <2>6. callers[e].lvl = n + 1 - e
    BY <1>2, <1>5, <2>3
  <2>7. new[e].lvl = n + 1 - e /\ new[e].low = val
    BY <2>4, <2>5, <2>6
  <2>8. Len(new) = e /\ new # <<>>
    <3>1. Len(new) = e
      BY <2>3, <2>4
    <3> QED
      BY <2>3, <3>1
  <2>9. Last(new) = new[e]
    BY <2>8 DEF Last
  <2>10. Frames(c)' = new
    BY <2>2, <2>8, FramesNext
  <2>11. Lv(c)' = n + 1 - e /\ Given(c)' = val
    BY <2>7, <2>9, <2>10 DEF Lv, Given
  <2>12. n + 1 - e = Lv(c) + 1
    BY <1>2, <2>3
  <2> QED
    BY <1>3, <1>9, <2>1, <2>11, <2>12 DEF n
<1> QED
  BY <1>8, <1>9

\* The level on top calls the one below it.
LEMMA ChildTells ==
  ASSUME ShapeOK, Domains, NEW c \in Comps, FramesOK(c), dec' = dec,
         calls' = [calls EXCEPT ![c] = Append(Frames(c), Frame(Lv(c) - 1))]
  PROVE  Lv(c)' = Lv(c) - 1 /\ Given(c)' = NoRow
<1> DEFINE f == Frame(Lv(c) - 1)
           new == Append(Frames(c), f)
<1>1. PICK S : Frames(c) \in Seq([lvl : Nat, low : S])
  BY FramesAre, Zenon
<1>2. DOMAIN calls = Comps
  BY DEF Domains
<1>3. f.lvl = Lv(c) - 1 /\ f.low = NoRow
  BY DEF Frame
<1> HIDE DEF f
<1>4. Last(new) = f /\ new # <<>>
  BY <1>1, LastOfAppend
<1>5. calls' = [calls EXCEPT ![c] = new]
  BY DEF f
<1> HIDE DEF new
<1>6. calls'[c] = new
  BY <1>2, <1>5
<1>7. Frames(c)' = new
  BY <1>4, <1>6, FramesNext
<1> QED
  BY <1>3, <1>4, <1>7 DEF Lv, Given

\* The level on top has used what its child returned.
LEMMA UsedTells ==
  ASSUME ShapeOK, Domains, NEW c \in Comps, FramesOK(c), dec' = dec,
         calls' = [calls EXCEPT ![c] = Append(Front(Frames(c)), Frame(Lv(c)))]
  PROVE  Lv(c)' = Lv(c) /\ Given(c)' = NoRow
<1> DEFINE f == Frame(Lv(c))
           q == Front(Frames(c))
           new == Append(q, f)
<1>1. PICK S : Frames(c) \in Seq([lvl : Nat, low : S])
  BY FramesAre, Zenon
<1>2. DOMAIN calls = Comps /\ Frames(c) # <<>>
  BY FramesAre, Zenon DEF Domains
<1>3. f.lvl = Lv(c) /\ f.low = NoRow
  BY DEF Frame
<1>8. q \in Seq([lvl : Nat, low : S])
  BY <1>1, <1>2, FrontIs
<1> HIDE DEF f, q
<1>4. Last(new) = f /\ new # <<>>
  BY <1>8, LastOfAppend
<1>5. calls' = [calls EXCEPT ![c] = new]
  BY DEF f, q
<1> HIDE DEF new
<1>6. calls'[c] = new
  BY <1>2, <1>5
<1>7. Frames(c)' = new
  BY <1>4, <1>6, FramesNext
<1> QED
  BY <1>3, <1>4, <1>7 DEF Lv, Given

----------------------------------------------------------------------------
(* What is true of a component's rows.                                     *)

\* The lifting steps of a component's rows, the lesser of two numbers.
Steps(c)    == MaxLevel(dec.comps[c].xf)
Least(a, b) == IF a <= b THEN a ELSE b

\* Level l cannot go on without the row it asked of its child.
Waiting(c, l) ==
  /\ l > 1 /\ TakesLow(c, l, ReadAt(c, l))
  /\ idwt[c][l].nextOut < idwt[c][l].v1
  /\ \/ PassThrough(idwt[c][l])
     \/ ~ Ready(idwt[c][l]) /\ idwt[c][l].nextIn < idwt[c][l].v1

\* The levels above the one on top wait for it; what the level on top has from
\* its child is the row it asked for.
Poised(c) ==
  /\ \A l \in Lv(c) + 1 .. NL(dec, c) : Waiting(c, l)
  /\ Given(c) # NoRow =>
       /\ Waiting(c, Lv(c))
       /\ Given(c) = Row(picture, Halved(dec.comps[c].dirs[Lv(c)], ReadAt(c, Lv(c))), Steps(c))

\* A level has given exactly the rows the level above it asked for.
Exact(c) == \A l \in 1 .. NL(dec, c) - 1 :
  idwt[c][l].nextOut = Halved(dec.comps[c].dirs[l + 1], ReadAt(c, l + 1))
                       + (IF Lv(c) = l + 1 /\ Given(c) # NoRow THEN 1 ELSE 0)

\* The rings lift the rows of this picture.
Lifts(c) == \A l \in 1 .. NL(dec, c) :
  /\ idwt[c][l].xf = dec.comps[c].xf
  /\ idwt[c][l].dir = "BIDIR" /\ idwt[c][l].v1 >= idwt[c][l].v0 + 2 => Streamed(idwt[c][l], picture)

\* Exactly the rows up to the strip's were handed out before it, and of the
\* strip those that are in its buffer.
OnTime(c) ==
  Out(c) - dec.comps[c].v0 =
    IF phase = "pull" THEN Least(stripY \div Step(c), Rows(dec, c)) + Len(pulled[c])
    ELSE Least((row + Step(c) - 1) \div Step(c), Rows(dec, c))

\* The strip's buffer holds the rows it should.
Handed(c) == phase = "pull" =>
  \A i \in 1 .. Len(pulled[c]) :
    pulled[c][i] = Row(picture, dec.comps[c].v0 + (stripY \div Step(c)) + i - 1, Steps(c))

InPicture == \A k \in Bufs : geo[k].y0 < geo[k].y1 => pic[k] = picture

\* The row of a buffer that row r takes: half of it where the level halves.
LEMMA RowTaken ==
  ASSUME ShapeOK, NEW k, IsBuf(dec, k), NEW r \in Nat, Takes(dec, k, r),
         NL(dec, k[1]) # 0
  PROVE  RowIn(dec, k, r) = IF ReaderDir(dec, k) = "BIDIR" THEN r \div 2 ELSE r
<1>1. /\ k[3] \in {"LL", "HL", "LH", "HH"} /\ (k[2] = 0 <=> k[3] = "LL")
  BY BufIsTriple DEF ShapeOK
<1>2. k[2] # 0 => ReaderDir(dec, k) = dec.comps[k[1]].dirs[k[2]]
  BY DEF ReaderDir, Reader
<1>3. r % 2 = 0 => (r + 1) \div 2 = r \div 2
  OBVIOUS
<1>4. CASE k[2] = 0
  BY <1>1, <1>3, <1>4 DEF RowIn, Halved, Takes
<1>5. CASE k[2] # 0
  BY <1>1, <1>2, <1>3, <1>5 DEF RowIn, BandRow, Takes
<1> QED
  BY <1>4, <1>5

\* What a reader finds in a settled buffer is the row, of this picture.
LEMMA BandHolds ==
  ASSUME BufInv, InPicture, Cols # {}, NEW k \in Bufs, geo[k].y0 < geo[k].y1, NEW x \in Int,
         ~ sync[k], Holds(k, strip[k], x)
  PROVE  BandSamples(k, x) = <<picture, x>>
<1> DEFINE cell == {mem[k][ring[k]][c] : c \in Cols}
           at == CHOOSE v \in cell : TRUE
           the == <<picture, strip[k]>>
<1>1. strip[k] # None /\ strip[k] \in Nat
  BY DEF Holds, BufInv, BufTypes
<1>2. \A c \in Cols : mem[k][ring[k]][c] = the
  BY <1>1 DEF BufInv, BufOK, Here, InPicture
<1>3. cell = {the}
  BY <1>2
<1>4. at = the
  BY <1>3
<1>5. the # Junk /\ the[1] = picture /\ the[2] = strip[k]
  BY DEF Junk
<1>6. BandSamples(k, x) = IF cell = {at} /\ at # Junk THEN <<at[1], at[2] + x - strip[k]>> ELSE Junk
  BY DEF BandSamples
<1> HIDE DEF cell, at, the
<1>7. BandSamples(k, x) = <<picture, strip[k] + x - strip[k]>>
  BY <1>3, <1>4, <1>5, <1>6
<1> QED
  BY <1>1, <1>7

\* The parts of a row are the parts of that row.
LEMMA PartsTell ==
  ASSUME ShapeOK, BufInv, InPicture, Cols # {}, NEW c \in Comps, NEW l, NEW r, OnTop(c, l, r),
         l = Lv(c), ~ NeedsChild(c), Unsettled(c) = {}, Poised(c), NEW low,
         low = IF Given(c) # Junk /\ Given(c)[3] = Steps(c)
               THEN <<Given(c)[1], Given(c)[2]>> ELSE Junk,
         NEW parts, parts = [i \in DOMAIN Ingredients(c) |->
                               IF Ingredients(c)[i] = Child THEN low
                               ELSE BandSamples(Ingredients(c)[i].buf, Ingredients(c)[i].row)]
  PROVE  Interleaved(c, l, r, parts) = Row(picture, r, 0)
<1> DEFINE I == Ingredients(c)
           dir == dec.comps[c].dirs[l]
           y == IF dir = "BIDIR" THEN r \div 2 ELSE r
           it == <<picture, y>>
<1>1. /\ 1 \in DOMAIN I
      /\ \A i \in DOMAIN I :
           \/ I[i] = Child /\ l > 1 /\ i = 1
           \/ \E k \in Bufs : /\ k[1] = c /\ IsBuf(dec, k) /\ Reader(k) = l /\ Takes(dec, k, r)
                              /\ I[i] = Read(k, r)
      /\ l > 1 /\ TakesLow(c, l, r) => I[1] = Child
  BY IngredientsAre
<1>2. /\ l \in 1 .. NL(dec, c) /\ r \in Nat /\ ReadAt(c, l) = r /\ V0(dec, c, l) <= r
      /\ r < V1(dec, c, l) /\ NL(dec, c) \in Nat
  BY LevelRows DEF OnTop, ShapeOK, Comps
<1>3. ASSUME NEW i \in DOMAIN I, I[i] = Child PROVE parts[i] = it
  <2>1. i = 1
    <3> SUFFICES ASSUME i # 1 PROVE FALSE
      OBVIOUS
    <3>1. PICK k \in Bufs : IsBuf(dec, k) /\ I[i] = Read(k, r)
      BY <1>1
    <3> QED
      BY <1>3, <3>1, NotChild
  <2>2. Given(c) # NoRow
    BY <1>3, <2>1 DEF NeedsChild, Given
  <2>3. /\ TakesLow(c, l, r)
        /\ Given(c) = Row(picture, Halved(dir, r), Steps(c))
    BY <1>2, <2>2 DEF Poised, Waiting
  <2>4. Halved(dir, r) = y
    <3>1. r % 2 = 0 => (r + 1) \div 2 = r \div 2
      BY <1>2
    <3> QED
      BY <2>3, <3>1 DEF Halved, TakesLow
  <2>5. Given(c) # Junk /\ Given(c)[1] = picture /\ Given(c)[2] = y /\ Given(c)[3] = Steps(c)
    <3> HIDE DEF y
    <3> QED
      BY <2>3, <2>4 DEF Row, Junk
  <2>6. low = it
    <3> HIDE DEF y
    <3> QED
      BY <2>5
  <2> QED
    BY <1>3, <2>6
<1>4. ASSUME NEW i \in DOMAIN I, I[i] # Child PROVE parts[i] = it
  <2>1. PICK k \in Bufs : /\ k[1] = c /\ IsBuf(dec, k) /\ Reader(k) = l /\ Takes(dec, k, r)
                          /\ I[i] = Read(k, r)
    BY <1>1, <1>4
  <2>2. I[i].buf = k /\ I[i].row = RowIn(dec, k, r)
    BY <2>1, NotChild
  <2>3. ~ sync[k] /\ Holds(k, strip[k], RowIn(dec, k, r))
    BY <2>1, AllSettled
  <2>4. RowIn(dec, k, r) = y
    <3>1. ReaderDir(dec, k) = dir
      BY <2>1 DEF ReaderDir
    <3>2. NL(dec, k[1]) # 0
      BY <1>2, <2>1
    <3> QED
      BY <1>2, <2>1, <3>1, <3>2, RowTaken
  <2>5. geo[k].y0 < geo[k].y1
    <3>1. geo[k].y0 <= RowIn(dec, k, r) /\ RowIn(dec, k, r) < geo[k].y1
          /\ geo[k].y0 \in Nat /\ geo[k].y1 \in Nat
      <4> DEFINE sub == RowIn(dec, k, r) - RowIn(dec, k, V0(dec, k[1], Reader(k)))
      <4>1. sub = RowIn(dec, k, r) - RowIn(dec, k, V0(dec, k[1], Reader(k)))
        OBVIOUS
      <4>2. NL(dec, k[1]) # 0 /\ V0(dec, k[1], Reader(k)) <= r /\ r < V1(dec, k[1], Reader(k))
        BY <1>2, <2>1
      <4> HIDE DEF sub
      <4> QED
        BY <1>2, <2>1, <4>1, <4>2, BufferIs, Zenon
    <3>2. RowIn(dec, k, r) \in Nat
      BY <1>2, <2>4
    <3> QED
      BY <3>1, <3>2
  <2>6. y \in Int
    BY <1>2
  <2>7. BandSamples(k, y) = it
    <3> HIDE DEF y
    <3> QED
      BY <2>3, <2>4, <2>5, <2>6, BandHolds
  <2>8. parts[i] = BandSamples(I[i].buf, I[i].row)
    BY <1>4
  <2> QED
    BY <2>2, <2>4, <2>7, <2>8
<1>5. DOMAIN parts = DOMAIN I /\ \A i \in DOMAIN I : parts[i] = it
  BY <1>3, <1>4
<1>6. it # Junk /\ it[1] = picture
  BY DEF Junk
<1>7. parts[1] # Junk /\ parts[1][1] = picture
  BY <1>1, <1>5, <1>6
<1>8. Interleaved(c, l, r, parts) =
        IF parts[1] # Junk /\ \A i \in DOMAIN parts : parts[i] = <<parts[1][1], y>>
        THEN Row(parts[1][1], r, 0) ELSE Junk
  BY DEF Interleaved
<1> HIDE DEF y, I
<1> QED
  BY <1>5, <1>7, <1>8

----------------------------------------------------------------------------
(* Counting the rows of a strip.                                           *)

\* The quotient is the only one with a remainder below the divisor.
LEMMA DivUnique ==
  ASSUME NEW a \in Int, NEW k \in Int, NEW N \in Nat \ {0}, NEW d \in 0 .. N - 1,
         a = N * k + d
  PROVE  a \div N = k
<1> DEFINE q == a \div N
           e == a % N
<1>1. q \in Int /\ a = N * q + e
  BY DivMod
<1>2. e = d
  BY ModUnique
<1> HIDE DEF q, e
<1>3. N * q = N * k
  BY <1>1, <1>2
<1>4. CASE q < k
  <2>1. q + 1 <= k
    BY <1>1, <1>4
  <2>2. N * (q + 1) <= N * k
    BY <1>1, <2>1
  <2>3. N * (q + 1) = (N * q) + N
    BY <1>1
  <2> QED
    BY <1>1, <1>3, <2>2, <2>3
<1>5. CASE k < q
  <2>1. k + 1 <= q
    BY <1>1, <1>5
  <2>2. N * (k + 1) <= N * q
    BY <1>1, <2>1
  <2>3. N * (k + 1) = (N * k) + N
    BY <1>1
  <2> QED
    BY <1>1, <1>3, <2>2, <2>3
<1> QED
  BY <1>1, <1>4, <1>5 DEF q

\* Rows and the rows of a component that has one in s of them.
LEMMA Subsampled ==
  ASSUME NEW s \in Nat \ {0}, NEW a \in Nat, NEW b \in Nat
  PROVE  /\ a \div s \in Nat /\ (b + s - 1) \div s \in Nat
         /\ a < b => a \div s < (b + s - 1) \div s
         /\ a % s = 0 => (a + s - 1) \div s = a \div s
         /\ a % s = 0 /\ a <= b => (b - a) \div s = (b \div s) - (a \div s) /\ a \div s <= b \div s
         /\ b > 0 /\ b % s # 0 => (b - 1) \div s = b \div s
         /\ b > 0 /\ b % s = 0 => (b - 1) \div s = (b \div s) - 1 /\ b \div s > 0
<1> DEFINE q == a \div s
           e == a % s
           p == b \div s
           d == b % s
<1>1. /\ q \in Int /\ e \in 0 .. s - 1 /\ a = (s * q) + e
      /\ p \in Int /\ d \in 0 .. s - 1 /\ b = (s * p) + d
  BY DivMod
<1>2. q \in Nat /\ p \in Nat
  <2>1. a \div s \in Nat
    BY Ceilings
  <2>2. b \div s \in Nat
    BY Ceilings
  <2> QED
    BY <2>1, <2>2
<1>3. (b + s - 1) \div s \in Nat
  BY Ceilings
<1> HIDE DEF q, e, p, d
<1>4. s * (p + 1) = (s * p) + s /\ s * (p - 1) = (s * p) - s /\ s * (p - q) = (s * p) - (s * q)
  BY <1>2
<1>5. ASSUME a < b PROVE q < (b + s - 1) \div s
  <2>1. p < q => (s * (p + 1)) <= s * q
    BY <1>2
  <2>2. q <= p
    BY <1>1, <1>2, <1>4, <1>5, <2>1
  <2>3. CASE d = 0
    <3>1. (b + s - 1) \div s = p
      <4>1. b + s - 1 = (s * p) + (s - 1) /\ s - 1 \in 0 .. s - 1 /\ b + s - 1 \in Int
        BY <1>1, <1>2, <2>3
      <4>2. PICK u : u = s - 1
        OBVIOUS
      <4>3. PICK x : x = b + s - 1
        OBVIOUS
      <4>4. u \in 0 .. s - 1 /\ x \in Int /\ x = (s * p) + u /\ p \in Int
        BY <1>2, <4>1, <4>2, <4>3
      <4>5. x \div s = p
        BY <4>4, DivUnique
      <4> QED
        BY <4>3, <4>5
    <3>2. q # p
      BY <1>1, <1>2, <1>5, <2>3
    <3> QED
      BY <1>2, <2>2, <3>1, <3>2
  <2>4. CASE d # 0
    <3>1. (b + s - 1) \div s = p + 1
      <4>2. PICK u : u = d - 1
        OBVIOUS
      <4>3. PICK x : x = b + s - 1
        OBVIOUS
      <4>1. PICK k : k = p + 1
        OBVIOUS
      <4>4. u \in 0 .. s - 1 /\ x \in Int /\ x = (s * k) + u /\ k \in Int
        BY <1>1, <1>2, <1>4, <2>4, <4>1, <4>2, <4>3
      <4>5. x \div s = k
        BY <4>4, DivUnique
      <4> QED
        BY <4>1, <4>3, <4>5
    <3> QED
      BY <1>2, <2>2, <3>1
  <2> QED
    BY <2>3, <2>4
<1>6. ASSUME e = 0 PROVE (a + s - 1) \div s = q
  <2>1. PICK u : u = s - 1
    OBVIOUS
  <2>2. PICK x : x = a + s - 1
    OBVIOUS
  <2>3. u \in 0 .. s - 1 /\ x \in Int /\ x = (s * q) + u /\ q \in Int
    BY <1>1, <1>2, <1>6, <2>1, <2>2
  <2>4. x \div s = q
    BY <2>3, DivUnique
  <2> QED
    BY <2>2, <2>4
<1>7. ASSUME e = 0, a <= b PROVE (b - a) \div s = p - q /\ q <= p
  <2>1. PICK k : k = p - q
    OBVIOUS
  <2>2. PICK x : x = b - a
    OBVIOUS
  <2>3. d \in 0 .. s - 1 /\ x \in Int /\ x = (s * k) + d /\ k \in Int
    BY <1>1, <1>2, <1>4, <1>7, <2>1, <2>2
  <2>4. x \div s = k
    BY <2>3, DivUnique
  <2>5. p < q => (s * (p + 1)) <= s * q
    BY <1>2
  <2>6. q <= p
    BY <1>1, <1>2, <1>4, <1>7, <2>5
  <2> QED
    BY <2>1, <2>2, <2>4, <2>6
<1>8. ASSUME b > 0, d # 0 PROVE (b - 1) \div s = p
  <2>1. PICK u : u = d - 1
    OBVIOUS
  <2>2. PICK x : x = b - 1
    OBVIOUS
  <2>3. u \in 0 .. s - 1 /\ x \in Int /\ x = (s * p) + u /\ p \in Int
    BY <1>1, <1>2, <1>8, <2>1, <2>2
  <2>4. x \div s = p
    BY <2>3, DivUnique
  <2> QED
    BY <2>2, <2>4
<1>9. ASSUME b > 0, d = 0 PROVE (b - 1) \div s = p - 1 /\ p > 0
  <2>1. PICK u : u = s - 1
    OBVIOUS
  <2>2. PICK x : x = b - 1
    OBVIOUS
  <2>5. PICK k : k = p - 1
    OBVIOUS
  <2>3. u \in 0 .. s - 1 /\ x \in Int /\ x = (s * k) + u /\ k \in Int
    BY <1>1, <1>2, <1>4, <1>9, <2>1, <2>2, <2>5
  <2>4. x \div s = k
    BY <2>3, DivUnique
  <2>6. p > 0
    <3>1. p = 0 => s * p = 0
      BY <1>2
    <3> QED
      BY <1>1, <1>2, <1>9, <3>1
  <2> QED
    BY <2>2, <2>4, <2>5, <2>6
<1> QED
  BY <1>2, <1>3, <1>5, <1>6, <1>7, <1>8, <1>9 DEF q, e, p, d

\* The strips' counts add up to the rows of the component.
LEMMA CountExact ==
  ASSUME ShapeOK, stripY \in Nat, stripY < H, NEW c \in Comps
  PROVE  Least(stripY \div Step(c), Rows(dec, c)) + Count(c)
           = Least((StripTop + Step(c) - 1) \div Step(c), Rows(dec, c))
<1> DEFINE s == Step(c)
           c0 == stripY \div s
           up == (StripTop + s - 1) \div s
           n == Rows(dec, c)
           c1 == Min({up, n})
<1>1. StripTop \in Nat /\ stripY < StripTop /\ StripTop <= H
  BY StripTopIs
<1>2. s \in Nat \ {0}
  BY StepIs
<1>3. n \in Nat
  BY HeightIs
<1>4. c0 \in Nat /\ up \in Nat /\ c0 < up
  BY <1>1, <1>2, Subsampled
<1>5. c1 = IF up <= n THEN up ELSE n
  <2>1. up \in Int /\ n \in Int
    BY <1>3, <1>4
  <2> HIDE DEF up, n
  <2> QED
    BY <2>1, MinOfTwo DEF c1
<1>6. CASE dec.mct /\ c <= 3
  <2>1. s = 1
    BY <1>6 DEF Step
  <2>2. c0 = stripY /\ up = StripTop
    BY <1>1, <2>1, Ceilings
  <2>3. Count(c) = StripTop - stripY
    BY <1>6 DEF Count
  <2>4. n = H
    <3>1. WellFormed(dec)
      BY ShapesAssumption DEF ShapeOK
    <3> QED
      BY <1>6, <3>1 DEF WellFormed, H, Comps
  <2> HIDE DEF c0, up, s, n
  <2>5. Least(c0, n) + Count(c) = Least(up, n)
    BY <1>1, <1>3, <2>2, <2>3, <2>4 DEF Least
  <2> QED
    BY <2>5 DEF c0, up, s, n
<1>7. CASE ~ (dec.mct /\ c <= 3)
  <2>1. s = dec.comps[c].yr
    BY <1>7 DEF Step
  <2>2. Count(c) = IF c1 > c0 THEN c1 - c0 ELSE 0
    BY <1>7, <2>1 DEF Count
  <2> HIDE DEF c0, up, s, n, c1
  <2>3. Least(c0, n) + Count(c) = Least(up, n)
    BY <1>3, <1>4, <1>5, <2>2 DEF Least
  <2> QED
    BY <2>3 DEF c0, up, s, n
<1> QED
  BY <1>6, <1>7

----------------------------------------------------------------------------
(* The row that is due.                                                    *)

\* What is known while component c is pulled.
Pulling(c) ==
  /\ phase = "pull" /\ stripY \in Nat /\ row \in Nat /\ stripY < H /\ counts[c] = Count(c)

\* The next row of a strip is one of the component's, and the next it hands out.
LEMMA NextDue ==
  ASSUME ShapeOK, NEW c \in Comps, PullOK(c), Pulling(c), OnTime(c), Len(pulled[c]) < counts[c]
  PROVE  /\ Out(c) = dec.comps[c].v0 + (stripY \div Step(c)) + Len(pulled[c])
         /\ Out(c) < dec.comps[c].v1
         /\ Least(stripY \div Step(c), Rows(dec, c)) = stripY \div Step(c)
         /\ Len(pulled[c]) \in Nat /\ stripY \div Step(c) \in Nat /\ dec.comps[c].v0 \in Nat
<1> DEFINE s == Step(c)
           c0 == stripY \div s
           up == (StripTop + s - 1) \div s
           n == Rows(dec, c)
           k == Len(pulled[c])
           m == Count(c)
           v == dec.comps[c].v0
           w == dec.comps[c].v1
           o == Out(c)
<1>1. stripY \in Nat /\ stripY < H /\ phase = "pull" /\ counts[c] = m
  BY DEF Pulling
<1>2. s \in Nat \ {0} /\ v \in Nat /\ c0 \in Nat
  BY <1>1, StepIs
<1>3. n \in Nat /\ w = v + n
  BY HeightIs
<1>4. StripTop \in Nat /\ stripY < StripTop
  BY <1>1, StripTopIs
<1>5. up \in Nat
  BY <1>2, <1>4, Ceilings
<1>6. m \in Nat
  BY <1>1, CountIs
<1>7. Least(c0, n) + m = Least(up, n)
  BY <1>1, CountExact
<1>8. k \in Nat /\ k < m
  BY <1>1 DEF PullOK, FramesOK
<1>9. o - v = Least(c0, n) + k
  BY <1>1 DEF OnTime
<1>10. o \in Nat
  BY OutIs
<1> HIDE DEF s, c0, up, n, k, m, v, w, o
<1>11. Least(c0, n) = c0
  BY <1>2, <1>3, <1>5, <1>6, <1>7, <1>8 DEF Least
<1>12. c0 + k < n
  BY <1>2, <1>3, <1>5, <1>6, <1>7, <1>8, <1>11 DEF Least
<1>13. o = v + c0 + k /\ o < w
  BY <1>2, <1>3, <1>8, <1>9, <1>10, <1>11, <1>12
<1> QED
  BY <1>2, <1>8, <1>11, <1>13 DEF s, c0, n, k, v, w, o

\* The row that is due is handed out.
LEMMA GivenTells ==
  ASSUME ShapeOK, NEW c \in Comps, PullOK(c), Pulling(c), OnTime(c), Handed(c),
         Len(pulled[c]) < counts[c], Fixed, picture' = picture,
         pulled'[c] = Append(pulled[c], Row(picture, Out(c), Steps(c))), Out(c)' = Out(c) + 1
  PROVE  OnTime(c)' /\ Handed(c)'
<1> DEFINE c0 == stripY \div Step(c)
           k == Len(pulled[c])
           v == dec.comps[c].v0
           o == Out(c)
           x == Row(picture, o, Steps(c))
<1>1. o = v + c0 + k /\ Least(c0, Rows(dec, c)) = c0 /\ k \in Nat /\ c0 \in Nat /\ v \in Nat
  BY NextDue
<1>2. PICK S : pulled[c] \in Seq(S)
  BY DEF PullOK, FramesOK
<1>3. /\ Len(pulled'[c]) = k + 1 /\ pulled'[c][k + 1] = x
      /\ \A i \in 1 .. k : pulled'[c][i] = pulled[c][i]
  <2>1. pulled'[c] = Append(pulled[c], x)
    OBVIOUS
  <2> HIDE DEF x
  <2> QED
    BY <1>2, <2>1
<1>4. phase' = "pull" /\ phase = "pull"
  BY DEF Fixed, Pulling
<1>5. /\ (stripY \div Step(c))' = c0 /\ Rows(dec, c)' = Rows(dec, c) /\ Steps(c)' = Steps(c)
      /\ dec.comps[c].v0' = v /\ Step(c)' = Step(c)
  BY DEF Fixed, Step, Steps, Rows
<1>6. OnTime(c)'
  <2>1. OnTime(c)' <=> Out(c)' - v = Least(c0, Rows(dec, c)) + Len(pulled'[c])
    BY <1>4, <1>5 DEF OnTime, Fixed
  <2>2. Out(c)' = o + 1
    OBVIOUS
  <2> HIDE DEF o, c0, v, k
  <2> QED
    BY <1>1, <1>3, <2>1, <2>2
<1>7. ASSUME NEW i \in 1 .. k + 1 PROVE pulled'[c][i] = Row(picture, v + c0 + i - 1, Steps(c))
  <2>1. CASE i = k + 1
    <3>1. v + c0 + i - 1 = o
      <4> HIDE DEF o, c0, v, k
      <4> QED
        BY <1>1, <2>1
    <3> QED
      BY <1>3, <2>1, <3>1
  <2>2. CASE i # k + 1
    <3>1. i \in 1 .. k
      BY <1>1, <2>2
    <3> QED
      BY <1>3, <1>4, <3>1 DEF Handed
  <2> QED
    BY <2>1, <2>2
<1>8. Handed(c)'
  BY <1>3, <1>4, <1>5, <1>7 DEF Handed, Fixed
<1> QED
  BY <1>6, <1>8

\* Nothing is handed out.
LEMMA StillTells ==
  ASSUME NEW c \in Comps, OnTime(c), Handed(c), Fixed, picture' = picture,
         pulled'[c] = pulled[c], Out(c)' = Out(c)
  PROVE  OnTime(c)' /\ Handed(c)'
<1>1. OnTime(c)'
  BY DEF OnTime, Fixed, Step, Rows
<1>2. Handed(c)'
  BY DEF Handed, Fixed, Step, Steps
<1> QED
  BY <1>1, <1>2

\* A level that waits for its child's row wants a row of its own.
LEMMA WaitsInside ==
  ASSUME ShapeOK, NEW c \in Comps, Levels(c), NEW l \in 1 .. NL(dec, c), Waiting(c, l)
  PROVE  ReadAt(c, l) \in Nat /\ ReadAt(c, l) < V1(dec, c, l) /\ l > 1
<1> DEFINE s == idwt[c][l]
<1>1. LevelOK(c, l)
  BY DEF Levels
<1>2. s.v1 = V1(dec, c, l) /\ ReadAt(c, l) \in Nat
  BY <1>1, LevelIs
<1>3. ReadAt(c, l) = IF PassThrough(s) THEN s.nextOut ELSE s.nextIn
  BY DEF ReadAt, Wanted
<1>4. s.nextOut < s.v1 /\ (PassThrough(s) \/ s.nextIn < s.v1) /\ l > 1
  BY DEF Waiting
<1> HIDE DEF s
<1> QED
  BY <1>2, <1>3, <1>4

\* The level on top owes a row.
LEMMA TopOwes ==
  ASSUME ShapeOK, NEW c \in Comps, NL(dec, c) # 0, PullOK(c), Pulling(c), Poised(c), Exact(c),
         OnTime(c), Len(pulled[c]) < counts[c], NEW l, l = Lv(c)
  PROVE  l \in 1 .. NL(dec, c) /\ idwt[c][l].nextOut < idwt[c][l].v1
<1> DEFINE n == NL(dec, c)
<1>1. Levels(c) /\ FramesOK(c)
  BY DEF PullOK
<1>2. l \in 1 .. n /\ n \in Nat
  BY <1>1, FramesAre, Zenon DEF Lv
<1>3. LevelOK(c, l)
  BY <1>1, <1>2 DEF Levels
<1>4. /\ idwt[c][l].v1 = V1(dec, c, l) /\ idwt[c][l].nextOut \in Nat /\ V1(dec, c, l) \in Nat
  BY <1>2, <1>3, LevelIs
<1>5. /\ V1(dec, c, n) = dec.comps[c].v1
      /\ \A m \in 1 .. n : V1(dec, c, m) \in Nat /\
           V1(dec, c, m - 1) = Halved(dec.comps[c].dirs[m], V1(dec, c, m))
  BY LevelRows DEF ShapeOK, Comps
<1>6. CASE l = n
  <2>1. Out(c) < dec.comps[c].v1
    BY NextDue
  <2>2. Out(c) = idwt[c][l].nextOut
    BY <1>6 DEF Out
  <2> QED
    BY <1>2, <1>4, <1>5, <1>6, <2>1, <2>2
<1>7. CASE l # n
  <2>1. PICK u : u = l + 1
    OBVIOUS
  <2>2. u \in 1 .. n /\ u \in Lv(c) + 1 .. n /\ u - 1 = l /\ l \in 1 .. n - 1 /\ u # l
    BY <1>2, <1>7, <2>1
  <2>3. Waiting(c, u)
    BY <2>2 DEF Poised
  <2> DEFINE R == ReadAt(c, u)
             dir == dec.comps[c].dirs[u]
  <2>4. R \in Nat /\ R < V1(dec, c, u)
    BY <1>1, <2>2, <2>3, WaitsInside
  <2>5. idwt[c][l].nextOut = Halved(dir, R)
    <3>1. idwt[c][l].nextOut = Halved(dir, R) + (IF Lv(c) = u /\ Given(c) # NoRow THEN 1 ELSE 0)
      BY <2>1, <2>2 DEF Exact
    <3>2. Lv(c) # u
      BY <2>2
    <3>3. Halved(dir, R) \in Nat
      BY <2>4, HalvedSteps
    <3> HIDE DEF R, dir
    <3> QED
      BY <3>1, <3>2, <3>3
  <2>6. Halved(dir, R + 1) = Halved(dir, R) + 1 /\ Halved(dir, R) \in Nat
    <3>1. Halved(dir, R + 1) = Halved(dir, R) + (IF dir # "BIDIR" \/ R % 2 = 0 THEN 1 ELSE 0)
          /\ Halved(dir, R) \in Nat
      BY <2>4, HalvedSteps
    <3>2. dir # "BIDIR" \/ R % 2 = 0
      BY <2>3 DEF Waiting, TakesLow
    <3> HIDE DEF R, dir
    <3> QED
      BY <3>1, <3>2
  <2>7. Halved(dir, R + 1) <= V1(dec, c, l)
    <3>1. V1(dec, c, l) = Halved(dir, V1(dec, c, u)) /\ V1(dec, c, u) \in Nat
      BY <1>5, <2>2
    <3>2. R + 1 \in Nat /\ R + 1 <= V1(dec, c, u)
      BY <2>4, <3>1
    <3> HIDE DEF R, dir
    <3>3. Halved(dir, R + 1) <= Halved(dir, V1(dec, c, u))
      BY <3>1, <3>2, HalvedKeeps
    <3> QED
      BY <3>1, <3>3
  <2> HIDE DEF R, dir
  <2> QED
    BY <1>2, <1>4, <2>5, <2>6, <2>7
<1> QED
  BY <1>6, <1>7

----------------------------------------------------------------------------
(* What a step of the level on top tells the others.                       *)

\* What the level on top does with its frame: it returns a row, to the strip or
\* to the level above; it goes on; or it calls its child.
ToStrip(c, l, a)      == a = 1 /\ l = NL(dec, c) /\ Lv(c)' = l /\ Given(c)' = NoRow
ToLevel(c, l, a)      == /\ a = 1 /\ l # NL(dec, c) /\ Lv(c)' = l + 1
                         /\ Given(c)' = Row(picture, idwt[c][l].nextOut, Steps(c))
GoesOn(c, l, a)       == a = 0 /\ Lv(c)' = l /\ Given(c)' = NoRow
CallsChild(c, l, a, b) ==
  /\ a = 0 /\ b = 0 /\ Waiting(c, l) /\ idwt'[c][l] = idwt[c][l]
  /\ Lv(c)' = l - 1 /\ Given(c)' = NoRow

\* A level keeps waiting while it is not touched.
LEMMA WaitingStays ==
  ASSUME NEW c, NEW m, dec' = dec, idwt'[c][m] = idwt[c][m], Waiting(c, m)
  PROVE  Waiting(c, m)' /\ ReadAt(c, m)' = ReadAt(c, m)
BY DEF Waiting, TakesLow, ReadAt

\* A step of the level on top leaves the others poised, and every level even
\* with the one above it.
LEMMA LevelsTell ==
  ASSUME ShapeOK, NEW c \in Comps, NL(dec, c) # 0, PullOK(c), NEW l, l = Lv(c),
         NEW a \in {0, 1}, NEW b \in {0, 1}, Fixed, picture' = picture, Moves(c, l, a, b),
         Poised(c), Exact(c),
         b = 1 /\ l > 1 => (Given(c) # NoRow <=> TakesLow(c, l, ReadAt(c, l))),
         b = 0 \/ l = 1 => Given(c) = NoRow,
         ToStrip(c, l, a) \/ ToLevel(c, l, a) \/ GoesOn(c, l, a) \/ CallsChild(c, l, a, b)
  PROVE  Poised(c)' /\ Exact(c)'
<1> DEFINE n == NL(dec, c)
           dir(m) == dec.comps[c].dirs[m]
<1>1. Levels(c) /\ FramesOK(c)
  BY DEF PullOK
<1>2. l \in 1 .. n /\ n \in Nat
  BY <1>1, FramesAre, Zenon DEF Lv
<1>3. /\ NL(dec, c)' = n /\ Steps(c)' = Steps(c) /\ dec' = dec
      /\ \A m : dir(m)' = dir(m)
  BY DEF Fixed, Steps
<1>4. /\ \A m \in 1 .. n : m # l => idwt'[c][m] = idwt[c][m]
      /\ idwt'[c][l].nextOut = idwt[c][l].nextOut + a /\ ReadAt(c, l)' = ReadAt(c, l) + b
  BY DEF Moves
<1>5. \A m \in 1 .. n : m # l => ReadAt(c, m)' = ReadAt(c, m) /\ (Waiting(c, m) => Waiting(c, m)')
  BY <1>3, <1>4, WaitingStays DEF ReadAt
<1>6. \A m \in 1 .. n : idwt[c][m].nextOut \in Nat /\ ReadAt(c, m) \in Nat
  BY <1>1, LevelIs, Zenon DEF Levels
<1>7. \A m \in l + 1 .. n : Waiting(c, m) /\ Waiting(c, m)'
  <2> SUFFICES ASSUME NEW m \in l + 1 .. n PROVE Waiting(c, m) /\ Waiting(c, m)'
    OBVIOUS
  <2>1. m \in 1 .. n /\ m # l
    BY <1>2
  <2> QED
    BY <1>5, <2>1 DEF Poised
\* What a level has given to the one above, before: exactly what was asked.
<1> DEFINE asked(m) == Halved(dir(m + 1), ReadAt(c, m + 1))
           askedN(m) == Halved(dir(m + 1), ReadAt(c, m + 1)')
           low(m) == IF l = m + 1 /\ Given(c) # NoRow THEN 1 ELSE 0
           lowN(m) == IF Lv(c)' = m + 1 /\ Given(c)' # NoRow THEN 1 ELSE 0
           o(m) == idwt[c][m].nextOut
           oN(m) == idwt'[c][m].nextOut
<1>8. \A m \in 1 .. n - 1 : o(m) = asked(m) + low(m) /\ asked(m) \in Nat /\ o(m) \in Nat
  <2> SUFFICES ASSUME NEW m \in 1 .. n - 1 PROVE o(m) = asked(m) + low(m) /\ asked(m) \in Nat /\ o(m) \in Nat
    OBVIOUS
  <2>1. m \in 1 .. n /\ m + 1 \in 1 .. n
    BY <1>2
  <2>2. asked(m) \in Nat
    BY <1>6, <2>1, HalvedSteps
  <2> QED
    BY <1>6, <2>1, <2>2 DEF Exact
\* Above the level on top nothing is asked for, unless it calls.
<1>9. ASSUME NEW m \in 1 .. n - 1, m # l, m + 1 # l
      PROVE  oN(m) = askedN(m) + lowN(m)
  <2>1. m \in 1 .. n /\ m + 1 \in 1 .. n
    BY <1>2
  <2>2. oN(m) = o(m) /\ askedN(m) = asked(m)
    BY <1>4, <1>5, <1>9, <2>1
  <2>3. low(m) = 0
    BY <1>9
  <2>4. lowN(m) = 0
    <3>1. CASE ToLevel(c, l, a)
      BY <1>2, <1>9, <3>1 DEF ToLevel
    <3>2. CASE ToStrip(c, l, a) \/ GoesOn(c, l, a) \/ CallsChild(c, l, a, b)
      BY <3>2 DEF ToStrip, GoesOn, CallsChild
    <3> QED
      BY <3>1, <3>2
  <2> HIDE DEF asked, askedN, low, lowN, o, oN
  <2> QED
    BY <1>8, <2>2, <2>3, <2>4
\* Below it: the row its child gave is used when the level reads.
<1>10. ASSUME NEW m \in 1 .. n - 1, m + 1 = l
       PROVE  oN(m) = askedN(m) + lowN(m)
  <2>1. m \in 1 .. n /\ m # l /\ l > 1 /\ m + 1 \in 1 .. n
    BY <1>2, <1>10
  <2>2. oN(m) = o(m)
    BY <1>4, <2>1
  <2>3. lowN(m) = 0
    <3>1. CASE ToLevel(c, l, a)
      BY <1>2, <1>10, <3>1 DEF ToLevel
    <3>2. CASE ToStrip(c, l, a) \/ GoesOn(c, l, a) \/ CallsChild(c, l, a, b)
      BY <3>2 DEF ToStrip, GoesOn, CallsChild
    <3> QED
      BY <3>1, <3>2
  <2>4. ReadAt(c, m + 1)' = ReadAt(c, m + 1) + b
    BY <1>4, <1>10
  <2>5. CASE b = 0
    <3>1. low(m) = 0
      BY <2>5
    <3>2. askedN(m) = asked(m)
      <4>1. ReadAt(c, m + 1)' = ReadAt(c, m + 1)
        BY <1>6, <2>1, <2>4, <2>5
      <4> QED
        BY <4>1
    <3> HIDE DEF asked, askedN, low, lowN, o, oN
    <3> QED
      BY <1>8, <2>2, <2>3, <3>1, <3>2
  <2>6. CASE b = 1
    <3>1. Given(c) # NoRow <=> dir(m + 1) # "BIDIR" \/ ReadAt(c, m + 1) % 2 = 0
      BY <1>10, <2>1, <2>6 DEF TakesLow
    <3>2. askedN(m) = asked(m) + (IF dir(m + 1) # "BIDIR" \/ ReadAt(c, m + 1) % 2 = 0 THEN 1 ELSE 0)
      <4>1. ReadAt(c, m + 1)' = ReadAt(c, m + 1) + 1
        BY <2>4, <2>6
      <4>2. PICK R : R = ReadAt(c, m + 1)
        OBVIOUS
      <4>3. PICK e : e = dir(m + 1)
        OBVIOUS
      <4>4. Halved(e, R + 1) = Halved(e, R) + (IF e # "BIDIR" \/ R % 2 = 0 THEN 1 ELSE 0)
        BY <1>6, <2>1, <4>2, HalvedSteps
      <4> QED
        BY <4>1, <4>2, <4>3, <4>4
    <3>3. askedN(m) = asked(m) + low(m)
      BY <1>10, <3>1, <3>2
    <3> HIDE DEF asked, askedN, low, lowN, o, oN
    <3> QED
      BY <1>8, <2>2, <2>3, <3>3
  <2> QED
    BY <2>5, <2>6
\* The level on top itself.
<1>11. ASSUME NEW m \in 1 .. n - 1, m = l
       PROVE  oN(m) = askedN(m) + lowN(m)
  <2>1. m \in 1 .. n /\ m + 1 # l /\ m + 1 \in 1 .. n
    BY <1>2, <1>11
  <2>2. oN(m) = o(m) + a
    BY <1>4, <1>11
  <2>3. askedN(m) = asked(m)
    BY <1>5, <2>1
  <2>4. low(m) = 0
    BY <2>1
  <2>5. lowN(m) = a
    <3>1. CASE ToLevel(c, l, a)
      <4>1. Lv(c)' = m + 1 /\ a = 1
        BY <1>11, <3>1 DEF ToLevel
      <4>2. Given(c)' # NoRow
        <5>1. Given(c)' = Row(picture, idwt[c][l].nextOut, Steps(c))
          BY <3>1 DEF ToLevel
        <5>2. \A x, y, z : Row(x, y, z) # NoRow
          BY DEF Row, NoRow
        <5> QED
          BY <5>1, <5>2
      <4> QED
        BY <4>1, <4>2
    <3>2. CASE ToStrip(c, l, a)
      BY <1>2, <1>11, <3>2 DEF ToStrip
    <3>3. CASE GoesOn(c, l, a) \/ CallsChild(c, l, a, b)
      BY <3>3 DEF GoesOn, CallsChild
    <3> QED
      BY <3>1, <3>2, <3>3
  <2> HIDE DEF asked, askedN, low, lowN, o, oN
  <2> QED
    BY <1>8, <2>2, <2>3, <2>4, <2>5
<1>12. Exact(c)'
  <2>1. \A m \in 1 .. n - 1 : oN(m) = askedN(m) + lowN(m)
    <3> SUFFICES ASSUME NEW m \in 1 .. n - 1 PROVE oN(m) = askedN(m) + lowN(m)
      OBVIOUS
    <3> HIDE DEF oN, askedN, lowN
    <3> QED
      BY <1>9, <1>10, <1>11
  <2> QED
    BY <1>3, <2>1 DEF Exact
<1>13. Poised(c)'
  <2>1. \A m \in Lv(c)' + 1 .. n : Waiting(c, m)'
    <3>1. CASE CallsChild(c, l, a, b)
      <4> SUFFICES ASSUME NEW m \in l .. n PROVE Waiting(c, m)'
        BY <1>2, <3>1 DEF CallsChild
      <4>1. CASE m = l
        BY <1>3, <3>1, <4>1, WaitingStays DEF CallsChild
      <4>2. CASE m # l
        <5>1. m \in l + 1 .. n
          BY <1>2, <4>2
        <5> QED
          BY <1>7, <5>1
      <4> QED
        BY <4>1, <4>2
    <3>2. CASE ~ CallsChild(c, l, a, b)
      <4>1. Lv(c)' = l \/ Lv(c)' = l + 1
        BY <3>2 DEF ToStrip, ToLevel, GoesOn
      <4>2. \A m \in Lv(c)' + 1 .. n : m \in l + 1 .. n
        BY <1>2, <4>1
      <4> QED
        BY <1>7, <4>2
    <3> QED
      BY <3>1, <3>2
  <2>2. ASSUME Given(c)' # NoRow
        PROVE  /\ Waiting(c, Lv(c))'
               /\ Given(c)' = Row(picture, Halved(dir(Lv(c)'), ReadAt(c, Lv(c))'), Steps(c))
    <3>1. l # n /\ Lv(c)' = l + 1 /\ Given(c)' = Row(picture, idwt[c][l].nextOut, Steps(c))
      BY <2>2 DEF ToStrip, ToLevel, GoesOn, CallsChild
    <3>2. PICK u : u = l + 1
      OBVIOUS
    <3>3. u \in l + 1 .. n /\ u \in 1 .. n /\ u # l /\ l \in 1 .. n - 1 /\ l # l + 1
      BY <1>2, <3>1, <3>2
    <3>4. Waiting(c, u)' /\ ReadAt(c, u)' = ReadAt(c, u)
      BY <1>5, <1>7, <3>3
    <3>5. low(l) = 0
      BY <3>3
    <3>6. o(l) = asked(l)
      <4>1. o(l) = asked(l) + low(l) /\ asked(l) \in Nat
        BY <1>8, <3>3
      <4> HIDE DEF o, asked, low
      <4> QED
        BY <3>5, <4>1
    <3>7. Given(c)' = Row(picture, Halved(dir(u), ReadAt(c, u)), Steps(c))
      BY <3>1, <3>2, <3>6
    <3>8. Waiting(c, Lv(c))' <=> Waiting(c, u)'
      BY <3>1, <3>2 DEF Waiting, ReadAt
    <3>9. ReadAt(c, Lv(c))' = ReadAt(c, u)'
      BY <3>1, <3>2 DEF ReadAt
    <3> QED
      BY <3>1, <3>2, <3>4, <3>7, <3>8, <3>9
  <2> QED
    BY <1>3, <2>1, <2>2 DEF Poised
<1> QED
  BY <1>12, <1>13

----------------------------------------------------------------------------
(* The steps of a pull: a row is returned.                                 *)

\* What is true of component c's rows.
Tells(c) == Poised(c) /\ Exact(c) /\ Lifts(c) /\ OnTime(c) /\ Handed(c)

\* The other levels' rings are as they were.
LEMMA LiftsStay ==
  ASSUME NEW c, NEW l, dec' = dec, picture' = picture, Lifts(c),
         \A m \in 1 .. NL(dec, c) : m # l => idwt'[c][m] = idwt[c][m],
         SameLevel(idwt[c][l], idwt'[c][l]),
         idwt[c][l].dir = "BIDIR" /\ idwt[c][l].v1 >= idwt[c][l].v0 + 2
           => Streamed(idwt'[c][l], picture)
  PROVE  Lifts(c)'
<1> SUFFICES ASSUME NEW m \in 1 .. NL(dec, c)
             PROVE  /\ idwt'[c][m].xf = dec.comps[c].xf
                    /\ idwt'[c][m].dir = "BIDIR" /\ idwt'[c][m].v1 >= idwt'[c][m].v0 + 2
                         => Streamed(idwt'[c][m], picture)
  BY DEF Lifts
<1>1. CASE m # l
  BY <1>1 DEF Lifts
<1>2. CASE m = l
  <2>1. idwt[c][l].xf = dec.comps[c].xf
    BY <1>2 DEF Lifts
  <2> QED
    BY <1>2, <2>1 DEF SameLevel
<1> QED
  BY <1>1, <1>2

\* A level that lifts has more than one row.
LEMMA LiftsHere ==
  ASSUME ShapeOK, NEW c \in Comps, Lifts(c), NEW l \in 1 .. NL(dec, c), LevelOK(c, l),
         ~ PassThrough(idwt[c][l]), idwt[c][l].nextOut < idwt[c][l].v1
  PROVE  Streamed(idwt[c][l], picture)
<1> DEFINE s == idwt[c][l]
<1>1. /\ s.v0 = V0(dec, c, l) /\ s.v1 = V1(dec, c, l) /\ s.v0 \in Nat /\ s.v1 \in Nat
      /\ s.nextOut \in Nat /\ s.v0 <= s.nextOut
  BY LevelIs
<1>2. s.dir = "BIDIR" /\ s.v1 # s.v0 + 1
  BY DEF PassThrough
<1>3. s.dir = "BIDIR" /\ s.v1 >= s.v0 + 2 => Streamed(s, picture)
  BY DEF Lifts
<1>4. s.nextOut < s.v1
  OBVIOUS
<1> HIDE DEF s
<1>5. s.v1 >= s.v0 + 2
  BY <1>1, <1>2, <1>4
<1>6. Streamed(s, picture)
  BY <1>2, <1>3, <1>5
<1> QED
  BY <1>6 DEF s

\* The row a level has ready is the next one, lifted to the end.
LEMMA ReturnTold ==
  ASSUME ShapeOK, Domains, NEW c \in Comps, NL(dec, c) # 0, PullOK(c), Pulling(c), Tells(c),
         PullReturn(c)
  PROVE  Tells(c)'
<1> DEFINE n == NL(dec, c)
           l == Lv(c)
           s == idwt[c][l]
           t == [s EXCEPT !.nextOut = @ + 1]
           val == Row(picture, s.nextOut, Steps(c))
<1>1. Levels(c) /\ FramesOK(c) /\ Poised(c) /\ Exact(c) /\ Lifts(c) /\ OnTime(c) /\ Handed(c)
  BY DEF PullOK, Tells
<1>2. /\ Len(pulled[c]) < counts[c] /\ ~ Hungry(c) /\ Fixed /\ picture' = picture
      /\ dec' = dec /\ counts' = counts
  BY DEF PullReturn, driverVars, bufVars, Fixed
<1>3. l \in 1 .. n /\ s.nextOut < s.v1
  BY <1>1, <1>2, TopOwes
<1>4. n \in Nat /\ ~ Level0(c) /\ Top(c) = s
  BY <1>3, LevelRows DEF Level0, Top, Lv, ShapeOK, Comps
<1>5. LevelOK(c, l) /\ RingOK(s)
  BY <1>1, <1>3 DEF Levels, LevelOK
<1>6. ~ PassThrough(s) /\ (Ready(s) \/ ~ (s.nextIn < s.v1))
  BY <1>2, <1>3, <1>4 DEF Hungry
<1>7. Streamed(s, picture)
  BY <1>1, <1>3, <1>5, <1>6, LiftsHere
<1>8. Ready(s)
  <2> SUFFICES ASSUME ~ Ready(s) PROVE FALSE
    OBVIOUS
  <2>1. InRing(s, picture) /\ AtRest(s) /\ Leaving(s)
    BY <1>7 DEF Streamed
  <2>2. s.nextOut < s.v1
    BY <1>3
  <2> HIDE DEF s
  <2>3. s.nextIn < s.v1
    BY <2>1, <2>2, NotHeldBack
  <2> QED
    BY <1>6, <2>3
<1>9. s.xf = dec.comps[c].xf
  BY <1>1, <1>3 DEF Lifts
<1>10. /\ NextRow(s) = Row(picture, s.nextOut, MaxLevel(s.xf))
       /\ Streamed(t, picture) /\ t.nextIn = s.nextIn /\ t.nextOut = s.nextOut + 1
  <2> HIDE DEF s
  <2> QED
    BY <1>7, <1>8, ReturnStreams
<1>11. NextRow(s) = val
  BY <1>9, <1>10 DEF Steps
<1>12. idwt' = [idwt EXCEPT ![c][l] = t] /\ Return(c, val)
  <2>1. IF Level0(c) \/ Top(c).nextOut >= Top(c).v1
          THEN ReturnNull(c) /\ UNCHANGED idwt
        ELSE LET k == Last(Frames(c)).lvl
                 u == IF Ready(Top(c)) THEN Top(c) ELSE IdwtCascade(Top(c))
             IN  IF Ready(u)
                   THEN /\ idwt' = [idwt EXCEPT ![c][k] = [u EXCEPT !.nextOut = @ + 1]]
                        /\ Return(c, NextRow(u))
                 ELSE idwt' = [idwt EXCEPT ![c][k] = u] /\ ReturnNull(c)
    BY DEF PullReturn
  <2>2. ~ (s.nextOut >= s.v1)
    <3>1. s.nextOut \in Nat /\ s.v1 \in Nat
      BY <1>3, <1>5, LevelIs
    <3> HIDE DEF s
    <3> QED
      BY <1>3, <3>1
  <2>3. IF Ready(s) THEN idwt' = [idwt EXCEPT ![c][l] = [s EXCEPT !.nextOut = @ + 1]] /\ Return(c, NextRow(s))
        ELSE TRUE
    <3>1. Last(Frames(c)).lvl = l
      BY DEF Lv
    <3> HIDE DEF l, s
    <3> QED
      BY <1>4, <1>8, <2>1, <2>2, <3>1
  <2> QED
    BY <1>8, <1>11, <2>3
<1> HIDE DEF t, val
<1>13. idwt'[c][l] = t /\ \A m \in 1 .. n : m # l => idwt'[c][m] = idwt[c][m]
  BY <1>3, <1>12, SetLevel
<1>14. SameLevel(s, t)
  <2>1. s.nextOut < s.nextIn
    BY <1>5, <1>8, ReadyEntered
  <2>2. t = [s EXCEPT !.nextOut = s.nextOut + 1]
    BY DEF t
  <2> HIDE DEF s
  <2> QED
    BY <1>3, <1>5, <2>1, <2>2, AdvanceOK DEF s
<1>15. Lifts(c)'
  <2>1. SameLevel(idwt[c][l], idwt'[c][l]) /\ Streamed(idwt'[c][l], picture)
    BY <1>10, <1>13, <1>14
  <2> HIDE DEF l, s
  <2> QED
    BY <1>1, <1>2, <1>13, <2>1, LiftsStay
<1>16. Given(c) = NoRow
  <2>1. ~ Waiting(c, l)
    BY <1>6, <1>8 DEF Waiting
  <2> QED
    BY <1>1, <2>1 DEF Poised
<1>17. PICK a \in {0, 1} : Moves(c, l, a, 0)
  <2>1. l = Last(Frames(c)).lvl
    BY DEF Lv
  <2> HIDE DEF l
  <2> QED
    BY <2>1, ReturnMoves, Zenon
<1>18. a = 1
  <2>1. idwt'[c][l].nextOut = idwt[c][l].nextOut + a
    BY <1>17 DEF Moves
  <2>2. idwt'[c][l].nextOut = idwt[c][l].nextOut + 1 /\ idwt[c][l].nextOut \in Nat
    BY <1>3, <1>5, <1>10, <1>13, LevelIs
  <2> HIDE DEF l, s
  <2> QED
    BY <2>1, <2>2
<1>19. IF l = n THEN Lv(c)' = n /\ Given(c)' = NoRow /\ pulled'[c] = Append(pulled[c], val)
       ELSE Lv(c)' = l + 1 /\ Given(c)' = val /\ pulled'[c] = pulled[c]
  BY <1>1, <1>2, <1>12, ReturnTells
<1>20. ToStrip(c, l, a) \/ ToLevel(c, l, a)
  BY <1>18, <1>19 DEF ToStrip, ToLevel, val
<1>21. Poised(c)' /\ Exact(c)'
  <2>1. 0 \in {0, 1} /\ l = Lv(c) /\ (0 = 1 <=> FALSE)
    OBVIOUS
  <2> HIDE DEF l, s
  <2> QED
    BY <1>1, <1>2, <1>16, <1>17, <1>20, <2>1, LevelsTell
<1>22. OnTime(c)' /\ Handed(c)'
  <2>1. Out(c) = idwt[c][n].nextOut /\ Out(c)' = idwt'[c][n].nextOut
    BY <1>2 DEF Out
  <2>2. CASE l = n
    <3>1. Out(c)' = Out(c) + 1 /\ val = Row(picture, Out(c), Steps(c))
      BY <1>10, <1>13, <2>1, <2>2 DEF val
    <3>2. pulled'[c] = Append(pulled[c], Row(picture, Out(c), Steps(c)))
      BY <1>19, <2>2, <3>1
    <3> QED
      BY <1>1, <1>2, <3>1, <3>2, GivenTells
  <2>3. CASE l # n
    <3>1. n \in 1 .. n
      BY <1>3, <1>4
    <3>2. Out(c)' = Out(c) /\ pulled'[c] = pulled[c]
      BY <1>13, <1>19, <2>1, <2>3, <3>1
    <3> QED
      BY <1>1, <1>2, <3>2, StillTells
  <2> QED
    BY <2>2, <2>3
<1> QED
  BY <1>15, <1>21, <1>22 DEF Tells

----------------------------------------------------------------------------
(* A row is asked for, and fetched.                                        *)

\* A row whose first ingredient is the child's is one that takes the low-pass
\* row of the level below.
LEMMA ChildTaken ==
  ASSUME ShapeOK, NEW c \in Comps, NEW l, NEW r, OnTop(c, l, r), Ingredients(c)[1] = Child
  PROVE  l > 1 /\ TakesLow(c, l, r)
<1> DEFINE dir == dec.comps[c].dirs[l]
           Q(b) == Read(<<c, l, b>>, r)
<1>1. \A k, q : Read(k, q) = Child => k = <<>>
  <2> SUFFICES ASSUME NEW k, NEW q, Read(k, q) = Child PROVE k = <<>>
    OBVIOUS
  <2>1. Read(k, q).buf = k /\ Child.buf = <<>>
    BY DEF Read, Child
  <2> QED
    BY <2>1
<1>2. \A x, y, z : <<x, y, z>> # <<>>
  OBVIOUS
<1>3. Ingredients(c) =
        IF dir = "NO" THEN <<LowRead(c, l, r)>>
        ELSE IF dir = "HORZ" \/ r % 2 = 0 THEN <<LowRead(c, l, r), Q("HL")>>
        ELSE <<Q("LH"), Q("HH")>>
  <2>1. /\ l \in 1 .. NL(dec, c) /\ LevelOK(c, l) /\ r \in Nat
        /\ V0(dec, c, l) <= r /\ r < V1(dec, c, l) /\ Ingredients(c) = Sources(c, l, r)
    BY DEF OnTop
  <2> QED
    BY <2>1, SourcesAre
<1>4. l \in 1 .. NL(dec, c) /\ NL(dec, c) \in Nat /\ dir \in {"BIDIR", "HORZ", "NO"}
  BY LevelRows DEF ShapeOK, Comps, OnTop
<1>5. TakesLow(c, l, r)
  <2> SUFFICES ASSUME dir = "BIDIR", r % 2 # 0 PROVE FALSE
    BY DEF TakesLow
  <2>1. Ingredients(c)[1] = Q("LH")
    BY <1>3
  <2> QED
    BY <1>1, <1>2, <2>1
<1>6. l > 1
  <2> SUFFICES ASSUME ~ (l > 1) PROVE FALSE
    OBVIOUS
  <2>1. LowRead(c, l, r) # Child
    BY <1>1, <1>2 DEF LowRead
  <2>2. Ingredients(c)[1] = LowRead(c, l, r)
    <3>1. dir # "NO" => dir = "HORZ" \/ r % 2 = 0
      BY <1>4, <1>5 DEF TakesLow
    <3> HIDE DEF dir
    <3> QED
      BY <1>3, <3>1
  <2> QED
    BY <2>1, <2>2
<1> QED
  BY <1>5, <1>6

\* A level that asks its child for a row waits for it.
LEMMA ChildTold ==
  ASSUME ShapeOK, Domains, NEW c \in Comps, NL(dec, c) # 0, PullOK(c), Tells(c), PullChild(c)
  PROVE  Tells(c)'
<1> DEFINE n == NL(dec, c)
           l == Lv(c)
           s == idwt[c][l]
<1>1. FramesOK(c) /\ Poised(c) /\ Exact(c) /\ Lifts(c) /\ OnTime(c) /\ Handed(c)
  BY DEF PullOK, Tells
<1>2. /\ Hungry(c) /\ NeedsChild(c) /\ Fixed /\ picture' = picture /\ dec' = dec
      /\ idwt' = idwt /\ pulled' = pulled /\ nextRow' = nextRow
      /\ calls' = [calls EXCEPT ![c] = Append(Frames(c), Frame(Lv(c) - 1))]
  BY DEF PullChild, driverVars, bufVars, Fixed, Lv
<1>3. PICK r : OnTop(c, l, r)
  <2>1. l = Last(Frames(c)).lvl
    BY DEF Lv
  <2> HIDE DEF l
  <2> QED
    BY <1>2, <2>1, HungryIs
<1>4. l > 1 /\ TakesLow(c, l, r)
  BY <1>2, <1>3, ChildTaken DEF NeedsChild
<1>5. ReadAt(c, l) = r /\ Top(c) = s /\ ~ Level0(c) /\ l \in 1 .. n
  BY <1>3 DEF OnTop
<1>6. Waiting(c, l)
  BY <1>2, <1>4, <1>5 DEF Waiting, Hungry
<1>7. Given(c) = NoRow
  BY <1>2 DEF NeedsChild, Given
<1>8. Lv(c)' = l - 1 /\ Given(c)' = NoRow
  BY <1>1, <1>2, ChildTells
<1>9. Moves(c, l, 0, 0)
  <2>1. l = Last(Frames(c)).lvl
    BY DEF Lv
  <2> HIDE DEF l
  <2> QED
    BY <2>1, ChildMoves, Zenon
<1>10. CallsChild(c, l, 0, 0)
  BY <1>2, <1>6, <1>8 DEF CallsChild
<1>11. Poised(c)' /\ Exact(c)'
  <2>1. 0 \in {0, 1} /\ l = Lv(c) /\ 0 # 1
    OBVIOUS
  <2> HIDE DEF l
  <2> QED
    BY <1>1, <1>2, <1>7, <1>9, <1>10, <2>1, LevelsTell
<1>12. Lifts(c)'
  BY <1>1, <1>2 DEF Lifts
<1>13. Out(c)' = Out(c) /\ pulled'[c] = pulled[c]
  BY <1>2 DEF Out
<1>14. OnTime(c)' /\ Handed(c)'
  BY <1>1, <1>2, <1>13, StillTells
<1> QED
  BY <1>11, <1>12, <1>14 DEF Tells

\* The row a level fetches is the one it wants, of this picture.
LEMMA FetchTold ==
  ASSUME ShapeOK, Domains, BufInv, InPicture, Cols # {}, NEW c \in Comps, NL(dec, c) # 0,
         PullOK(c), Pulling(c), Tells(c), PullFetch(c)
  PROVE  Tells(c)'
<1> DEFINE n == NL(dec, c)
           l == Lv(c)
           s == idwt[c][l]
           low == IF Given(c) # Junk /\ Given(c)[3] = Steps(c)
                  THEN <<Given(c)[1], Given(c)[2]>> ELSE Junk
           parts == [i \in DOMAIN Ingredients(c) |->
                       IF Ingredients(c)[i] = Child THEN low
                       ELSE BandSamples(Ingredients(c)[i].buf, Ingredients(c)[i].row)]
<1>1. /\ Levels(c) /\ FramesOK(c) /\ Poised(c) /\ Exact(c) /\ Lifts(c) /\ OnTime(c)
      /\ Handed(c)
  BY DEF PullOK, Tells
<1>2. /\ Hungry(c) /\ ~ NeedsChild(c) /\ Unsettled(c) = {} /\ Fixed /\ picture' = picture
      /\ dec' = dec /\ Len(pulled[c]) < counts[c]
  BY DEF PullFetch, driverVars, bufVars, Fixed, Hungry
<1>3. PICK r : OnTop(c, l, r)
  <2>1. l = Last(Frames(c)).lvl
    BY DEF Lv
  <2> HIDE DEF l
  <2> QED
    BY <1>2, <2>1, HungryIs
<1>4. /\ ReadAt(c, l) = r /\ Top(c) = s /\ ~ Level0(c) /\ l \in 1 .. n /\ LevelOK(c, l)
      /\ Wanted(s) = r
  BY <1>3 DEF OnTop, ReadAt
<1>5. PICK val : val = Row(picture, r, 0)
  OBVIOUS
<1>6. Interleaved(c, l, r, parts) = val
  <2>1. low = IF Given(c) # Junk /\ Given(c)[3] = Steps(c)
              THEN <<Given(c)[1], Given(c)[2]>> ELSE Junk
    OBVIOUS
  <2>2. parts = [i \in DOMAIN Ingredients(c) |->
                   IF Ingredients(c)[i] = Child THEN low
                   ELSE BandSamples(Ingredients(c)[i].buf, Ingredients(c)[i].row)]
    OBVIOUS
  <2>3. l = Lv(c)
    OBVIOUS
  <2> HIDE DEF low, parts, l
  <2> QED
    BY <1>1, <1>2, <1>3, <1>5, <2>1, <2>2, <2>3, PartsTell
<1>7. /\ RingOK(s) /\ s.nextOut \in Nat /\ s.nextIn \in Nat /\ s.v1 \in Nat
  BY <1>4, LevelIs DEF LevelOK
<1>8. s.nextOut < s.v1 /\ (PassThrough(s) \/ (~ Ready(s) /\ s.nextIn < s.v1))
  BY <1>2, <1>4 DEF Hungry
<1>9. s.xf = dec.comps[c].xf
  BY <1>1, <1>4 DEF Lifts
<1>10. IF PassThrough(s)
         THEN /\ idwt' = [idwt EXCEPT ![c][l].nextOut = @ + 1]
              /\ Return(c, Passed(s, val))
       ELSE /\ idwt' = [idwt EXCEPT ![c][l] = Fetched(s, val)]
            /\ calls' = [calls EXCEPT ![c] = Append(Front(Frames(c)), Frame(l))]
            /\ UNCHANGED pulled
  <2>1. LET from  == Ingredients(c)
            top   == Last(Frames(c))
            lw    == IF top.low # Junk /\ top.low[3] = MaxLevel(dec.comps[c].xf)
                     THEN <<top.low[1], top.low[2]>> ELSE Junk
            ps    == [i \in DOMAIN from |->
                        IF from[i] = Child THEN lw ELSE BandSamples(from[i].buf, from[i].row)]
        IN  LET v == Interleaved(c, top.lvl, Wanted(Top(c)), ps) IN
            IF PassThrough(Top(c))
              THEN /\ idwt' = [idwt EXCEPT ![c][top.lvl].nextOut = @ + 1]
                   /\ Return(c, Passed(Top(c), v))
            ELSE /\ idwt' = [idwt EXCEPT ![c][top.lvl] = Fetched(Top(c), v)]
                 /\ calls' = [calls EXCEPT ![c] = Append(Front(Frames(c)), Frame(top.lvl))]
                 /\ UNCHANGED pulled
    BY <1>4 DEF PullFetch
  <2>2. LET v == Interleaved(c, l, Wanted(Top(c)), parts) IN
            IF PassThrough(Top(c))
              THEN /\ idwt' = [idwt EXCEPT ![c][l].nextOut = @ + 1]
                   /\ Return(c, Passed(Top(c), v))
            ELSE /\ idwt' = [idwt EXCEPT ![c][l] = Fetched(Top(c), v)]
                 /\ calls' = [calls EXCEPT ![c] = Append(Front(Frames(c)), Frame(l))]
                 /\ UNCHANGED pulled
    BY <2>1, Zenon DEF Lv, Given, Steps
  <2> HIDE DEF parts, l, s
  <2> QED
    BY <1>4, <1>6, <2>2
\* The child's row was there exactly if this row takes one.
<1>11. l > 1 => (Given(c) # NoRow <=> TakesLow(c, l, r))
  <2>1. l > 1 /\ TakesLow(c, l, r) => Ingredients(c)[1] = Child
    BY <1>3, IngredientsAre
  <2>2. l > 1 /\ TakesLow(c, l, r) => Given(c) # NoRow
    BY <1>2, <2>1 DEF NeedsChild, Given
  <2>3. Given(c) # NoRow => TakesLow(c, l, r)
    BY <1>1, <1>4 DEF Poised, Waiting
  <2> QED
    BY <2>2, <2>3
<1>12. l = 1 => Given(c) = NoRow
  <2> SUFFICES ASSUME Given(c) # NoRow PROVE l > 1
    BY <1>4
  <2> QED
    BY <1>1 DEF Poised, Waiting
<1>13. PICK a \in {0, 1} : Moves(c, l, a, 1)
  <2>1. l = Last(Frames(c)).lvl
    BY DEF Lv
  <2> HIDE DEF l
  <2> QED
    BY <2>1, FetchMoves, Zenon
<1>14. idwt'[c][l].nextOut = s.nextOut + a
  BY <1>13 DEF Moves
<1>15. ASSUME ToStrip(c, l, a) \/ ToLevel(c, l, a) \/ GoesOn(c, l, a)
       PROVE  Poised(c)' /\ Exact(c)'
  <2>1. 1 \in {0, 1} /\ l = Lv(c) /\ 1 # 0
    OBVIOUS
  <2> HIDE DEF l, s
  <2> QED
    BY <1>1, <1>2, <1>4, <1>11, <1>12, <1>13, <1>15, <2>1, LevelsTell
<1>16. Out(c) = idwt[c][n].nextOut /\ Out(c)' = idwt'[c][n].nextOut
  BY <1>2 DEF Out
<1>17. n \in 1 .. n
  BY LevelRows DEF ShapeOK, Comps
<1>18. CASE PassThrough(s)
  <2> DEFINE t == [s EXCEPT !.nextOut = s.nextOut + 1]
             out == Row(picture, s.nextOut, Steps(c))
  <2>1. r = s.nextOut
    BY <1>4, <1>18 DEF Wanted
  <2>2. Passed(s, val) = out
    <3>1. val # Junk /\ val[1] = picture /\ val[2] = r
      BY <1>5 DEF Row, Junk
    <3> QED
      BY <1>9, <2>1, <3>1 DEF Passed, Steps
  <2>3. idwt' = [idwt EXCEPT ![c][l] = t] /\ Return(c, out)
    <3>1. idwt' = [idwt EXCEPT ![c][l].nextOut = @ + 1] /\ Return(c, Passed(s, val))
      BY <1>10, <1>18
    <3> QED
      BY <2>2, <3>1
  <2> HIDE DEF t, out
  <2>4. idwt'[c][l] = t /\ \A m \in 1 .. n : m # l => idwt'[c][m] = idwt[c][m]
    BY <1>4, <2>3, SetLevel
  <2>5. SameLevel(s, t) /\ t.nextOut = s.nextOut + 1
    <3>1. t = [s EXCEPT !.nextOut = s.nextOut + 1]
      BY DEF t
    <3> HIDE DEF s
    <3> QED
      BY <1>7, <1>8, <1>18, <3>1, AdvanceOK
  <2>6. a = 1
    <3> HIDE DEF s
    <3> QED
      BY <1>7, <1>14, <2>4, <2>5
  <2>7. IF l = n THEN Lv(c)' = n /\ Given(c)' = NoRow /\ pulled'[c] = Append(pulled[c], out)
        ELSE Lv(c)' = l + 1 /\ Given(c)' = out /\ pulled'[c] = pulled[c]
    BY <1>1, <1>2, <2>3, ReturnTells
  <2>8. ToStrip(c, l, a) \/ ToLevel(c, l, a)
    BY <2>6, <2>7 DEF ToStrip, ToLevel, out
  <2>9. Lifts(c)'
    <3>1. ~ (s.dir = "BIDIR" /\ s.v1 >= s.v0 + 2)
      <4>1. s.v0 \in Nat
        BY <1>4, LevelIs
      <4>2. s.dir # "BIDIR" \/ s.v1 = s.v0 + 1
        BY <1>18 DEF PassThrough
      <4> HIDE DEF s
      <4> QED
        BY <1>7, <4>1, <4>2
    <3>2. SameLevel(idwt[c][l], idwt'[c][l])
      BY <2>4, <2>5
    <3>3. ~ (idwt[c][l].dir = "BIDIR" /\ idwt[c][l].v1 >= idwt[c][l].v0 + 2)
      BY <3>1
    <3> HIDE DEF l, s
    <3> QED
      BY <1>1, <1>2, <2>4, <3>2, <3>3, LiftsStay
  <2>10. OnTime(c)' /\ Handed(c)'
    <3>1. CASE l = n
      <4>1. Out(c)' = Out(c) + 1 /\ out = Row(picture, Out(c), Steps(c))
        BY <1>16, <2>4, <2>5, <3>1 DEF out
      <4>2. pulled'[c] = Append(pulled[c], Row(picture, Out(c), Steps(c)))
        BY <2>7, <3>1, <4>1
      <4> QED
        BY <1>1, <1>2, <4>1, <4>2, GivenTells
    <3>2. CASE l # n
      <4>1. Out(c)' = Out(c) /\ pulled'[c] = pulled[c]
        BY <1>16, <1>17, <2>4, <2>7, <3>2
      <4> QED
        BY <1>1, <1>2, <4>1, StillTells
    <3> QED
      BY <3>1, <3>2
  <2> QED
    BY <1>15, <2>8, <2>9, <2>10 DEF Tells
<1>19. CASE ~ PassThrough(s)
  <2> DEFINE t == Fetched(s, val)
  <2>1. /\ idwt' = [idwt EXCEPT ![c][l] = t] /\ pulled' = pulled
        /\ calls' = [calls EXCEPT ![c] = Append(Front(Frames(c)), Frame(Lv(c)))]
    BY <1>10, <1>19
  <2>2. Streamed(s, picture)
    BY <1>1, <1>4, <1>8, <1>19, LiftsHere
  <2>3. r = s.nextIn /\ ~ Ready(s) /\ s.nextIn < s.v1
    BY <1>4, <1>8, <1>19 DEF Wanted
  <2>4. Streamed(t, picture)
    <3>1. t = Fetched(s, Row(picture, s.nextIn, 0))
      BY <1>5, <2>3
    <3>2. s.nextOut < s.v1
      BY <1>8
    <3> HIDE DEF s, t
    <3> QED
      BY <2>2, <2>3, <3>1, <3>2, FetchedStreams
  <2>5. SameLevel(s, t) /\ t.nextOut = s.nextOut
    <3> HIDE DEF s
    <3> QED
      BY <1>7, <1>19, <2>3, FetchedOK
  <2> HIDE DEF t
  <2>6. idwt'[c][l] = t /\ \A m \in 1 .. n : m # l => idwt'[c][m] = idwt[c][m]
    BY <1>4, <2>1, SetLevel
  <2>7. a = 0
    <3> HIDE DEF s
    <3> QED
      BY <1>7, <1>14, <2>5, <2>6
  <2>8. Lv(c)' = l /\ Given(c)' = NoRow
    BY <1>1, <1>2, <2>1, UsedTells
  <2>9. GoesOn(c, l, a)
    BY <2>7, <2>8 DEF GoesOn
  <2>10. Lifts(c)'
    <3>1. SameLevel(idwt[c][l], idwt'[c][l]) /\ Streamed(idwt'[c][l], picture)
      BY <2>4, <2>5, <2>6
    <3> HIDE DEF l, s
    <3> QED
      BY <1>1, <1>2, <2>6, <3>1, LiftsStay
  <2>11. OnTime(c)' /\ Handed(c)'
    <3>1. Out(c)' = Out(c) /\ pulled'[c] = pulled[c]
      BY <1>16, <1>17, <2>1, <2>5, <2>6
    <3> QED
      BY <1>1, <1>2, <3>1, StillTells
  <2> QED
    BY <1>15, <2>9, <2>10, <2>11 DEF Tells
<1> QED
  BY <1>18, <1>19

----------------------------------------------------------------------------
(* A component without levels, and one that does not move.                 *)

\* What there is to say of a component without levels.
FlatTelling == ShapeOK => \A c \in Comps : NL(dec, c) = 0 /\ FramesOK(c) =>
  Lv(c) = 0 /\ Given(c) = NoRow /\ Poised(c) /\ Exact(c) /\ Lifts(c)

\* A component without levels has nothing to be said of them.
LEMMA FlatTells == FlatTelling
<1> SUFFICES ASSUME ShapeOK, NEW c \in Comps, NL(dec, c) = 0, FramesOK(c)
             PROVE  Lv(c) = 0 /\ Given(c) = NoRow /\ Poised(c) /\ Exact(c) /\ Lifts(c)
  BY DEF FlatTelling
<1>1. calls[c] = <<>>
  <2>1. PICK S : calls[c] \in Seq([lvl : Nat, low : S])
    BY DEF FramesOK
  <2>2. Len(calls[c]) <= 0
    BY DEF FramesOK
  <2> DEFINE X == [lvl : Nat, low : S]
  <2>3. calls[c] \in Seq(X)
    BY <2>1
  <2> HIDE DEF X
  <2> QED
    BY <2>2, <2>3
<1>2. Frames(c) = <<Frame(0)>>
  BY <1>1 DEF Frames
<1>3. Last(<<Frame(0)>>) = Frame(0) /\ Frame(0).lvl = 0 /\ Frame(0).low = NoRow
  BY DEF Last, Frame
<1>4. Lv(c) = 0 /\ Given(c) = NoRow
  BY <1>2, <1>3 DEF Lv, Given
<1>5. Poised(c)
  BY <1>4 DEF Poised
<1>6. Exact(c) /\ Lifts(c)
  BY DEF Exact, Lifts
<1> QED
  BY <1>4, <1>5, <1>6

\* Nor has it after a step.
LEMMA FlatTellsNext == FlatTelling'
BY FlatTells, PTL

\* A component without levels hands out the rows of LL0, which need no lifting.
LEMMA FlatTold ==
  ASSUME ShapeOK, Domains, BufInv, InPicture, Cols # {}, NEW c \in Comps, NL(dec, c) = 0,
         PullOK(c), Pulling(c), Tells(c), PullReturn(c) \/ PullChild(c) \/ PullFetch(c)
  PROVE  Tells(c)'
<1> DEFINE k == <<c, 0, "LL">>
           p == [buf |-> k, row |-> nextRow[c]]
           val == Row(picture, nextRow[c], Steps(c))
<1>1. /\ IsBuf(dec, k) /\ k \in Bufs /\ Level0(c) /\ ~ NeedsChild(c)
      /\ geo[k].y0 = V0(dec, c, 0) /\ geo[k].y1 = V1(dec, c, 0)
      /\ V0(dec, c, 0) \in Nat /\ V1(dec, c, 0) \in Nat
      /\ Ingredients(c) = <<p>>
      /\ Hungry(c) <=> Len(pulled[c]) < counts[c] /\ nextRow[c] < geo[k].y1
      /\ FramesOK(c) /\ Last(Frames(c)).lvl = 0
      /\ nextRow[c] \in Nat /\ V0(dec, c, 0) <= nextRow[c] /\ nextRow[c] <= V1(dec, c, 0)
  <2>1. k = <<c, 0, "LL">>
    OBVIOUS
  <2> HIDE DEF k
  <2> QED
    BY <2>1, FlatIs
<1>2. OnTime(c) /\ Handed(c)
  BY DEF Tells
<1>3. V1(dec, c, 0) = dec.comps[c].v1
  BY LevelRows DEF ShapeOK, Comps
<1>4. Len(pulled[c]) < counts[c]
  BY DEF PullReturn, PullChild, PullFetch, Hungry
<1>5. nextRow[c] < V1(dec, c, 0)
  <2>1. Out(c) = nextRow[c]
    BY DEF Out
  <2> QED
    BY <1>2, <1>3, <1>4, <2>1, NextDue
<1>6. PullFetch(c)
  BY <1>1, <1>4, <1>5 DEF PullReturn, PullChild
<1>7. /\ Hungry(c) /\ Unsettled(c) = {}
      /\ nextRow' = [nextRow EXCEPT ![c] = @ + 1]
      /\ Fixed /\ picture' = picture /\ dec' = dec
  BY <1>1, <1>6 DEF PullFetch, Fixed, driverVars, bufVars
<1>8. p.buf = k /\ p.row = nextRow[c] /\ p # Child
  <2>1. p.buf = k /\ p.row = nextRow[c]
    OBVIOUS
  <2>2. Child.buf = <<>>
    BY DEF Child
  <2>3. \A x, y, z : <<x, y, z>> # <<>>
    OBVIOUS
  <2> QED
    BY <2>1, <2>2, <2>3
<1> HIDE DEF p, k
<1>9. ~ sync[k] /\ Holds(k, strip[k], nextRow[c])
  <2>4. 1 \in DOMAIN Ingredients(c) /\ Ingredients(c)[1] = p
    BY <1>1
  <2>5. 1 \notin Unsettled(c)
    BY <1>7
  <2>6. ~ (/\ Ingredients(c)[1] # Child
           /\ \/ sync[Ingredients(c)[1].buf]
              \/ ~ Holds(Ingredients(c)[1].buf, strip[Ingredients(c)[1].buf], Ingredients(c)[1].row))
    BY <2>4, <2>5 DEF Unsettled
  <2> QED
    BY <1>8, <2>4, <2>6
<1>10. BandSamples(k, nextRow[c]) = <<picture, nextRow[c]>>
  <2>1. nextRow[c] \in Int /\ geo[k].y0 < geo[k].y1
    BY <1>1, <1>5
  <2> QED
    BY <1>1, <1>9, <2>1, BandHolds
<1>11. Return(c, val)
  <2> DEFINE from  == Ingredients(c)
             top   == Last(Frames(c))
             low   == IF top.low # Junk /\ top.low[3] = MaxLevel(dec.comps[c].xf)
                      THEN <<top.low[1], top.low[2]>> ELSE Junk
             parts == [i \in DOMAIN from |->
                         IF from[i] = Child THEN low ELSE BandSamples(from[i].buf, from[i].row)]
             u     == IF parts[1] = Junk THEN Junk
                      ELSE Row(parts[1][1], parts[1][2], MaxLevel(dec.comps[c].xf))
  <2>1. Return(c, u)
    BY <1>1, <1>6, Zenon DEF PullFetch
  <2> HIDE DEF low
  <2>2. 1 \in DOMAIN Ingredients(c) /\ Ingredients(c)[1] = p
    BY <1>1
  <2>3. parts[1] = BandSamples(k, nextRow[c])
    BY <1>8, <2>2
  <2> HIDE DEF parts
  <2>4. parts[1] # Junk /\ parts[1][1] = picture /\ parts[1][2] = nextRow[c]
    BY <1>10, <2>3 DEF Junk
  <2>5. u = val
    BY <2>4 DEF Steps
  <2> HIDE DEF u
  <2> QED
    BY <2>1, <2>5
<1> HIDE DEF val
<1>12. pulled'[c] = Append(pulled[c], val)
  <2>1. Lv(c) = NL(dec, c)
    BY <1>1 DEF Lv
  <2> QED
    BY <1>1, <1>7, <1>11, <2>1, ReturnTells
<1>13. Out(c) = nextRow[c] /\ Out(c)' = Out(c) + 1
  <2>1. nextRow'[c] = nextRow[c] + 1
    BY <1>7 DEF Domains
  <2> QED
    BY <1>7, <2>1 DEF Out
<1>14. OnTime(c)' /\ Handed(c)'
  <2>1. pulled'[c] = Append(pulled[c], Row(picture, Out(c), Steps(c)))
    BY <1>12, <1>13 DEF val
  <2> QED
    BY <1>2, <1>4, <1>7, <1>13, <2>1, GivenTells
<1>15. Poised(c)' /\ Exact(c)' /\ Lifts(c)'
  <2>1. FramesOK(c)'
    <3>1. stripY \in Nat /\ row \in Nat
      BY DEF Pulling
    <3> QED
      BY <1>6, <3>1, FlatFetch DEF PullOK
  <2>2. ShapeOK' /\ c \in Comps' /\ NL(dec, c)' = 0
    BY <1>7 DEF ShapeOK, Comps, Fixed
  <2> QED
    BY <2>1, <2>2, FlatTellsNext DEF FlatTelling
<1> QED
  BY <1>14, <1>15 DEF Tells

\* A component that did not move is as it was.
LEMMA RestTells ==
  ASSUME NEW c, Tells(c), dec' = dec, picture' = picture, phase' = phase, stripY' = stripY,
         row' = row, idwt'[c] = idwt[c], calls'[c] = calls[c], pulled'[c] = pulled[c],
         nextRow'[c] = nextRow[c]
  PROVE  Tells(c)'
<1>1. Lv(c)' = Lv(c) /\ Given(c)' = Given(c)
  BY FramesNext
<1>2. Poised(c)'
  BY <1>1 DEF Tells, Poised, Waiting, TakesLow, ReadAt, Steps
<1>3. Exact(c)'
  BY <1>1 DEF Tells, Exact, ReadAt
<1>4. Lifts(c)'
  BY DEF Tells, Lifts
<1>5. OnTime(c)' /\ Handed(c)'
  BY DEF Tells, OnTime, Handed, Out, Step, Steps, Rows
<1> QED
  BY <1>2, <1>3, <1>4, <1>5 DEF Tells

\* A step of a pull keeps what is true of the component's rows.
LEMMA PullTold ==
  ASSUME ShapeOK, Domains, BufInv, InPicture, Cols # {}, NEW c \in Comps, PullOK(c),
         Pulling(c), Tells(c), Pull(c)
  PROVE  Tells(c)'
<1>1. CASE PullBand(c)
  <2>1. /\ dec' = dec /\ picture' = picture /\ phase' = phase /\ stripY' = stripY
        /\ row' = row /\ idwt' = idwt /\ calls' = calls /\ pulled' = pulled /\ nextRow' = nextRow
    BY <1>1 DEF PullBand, driverVars, pullVars
  <2> QED
    BY <2>1, RestTells
<1>2. CASE NL(dec, c) = 0 /\ ~ PullBand(c)
  BY <1>2, FlatTold DEF Pull
<1>3. CASE NL(dec, c) # 0 /\ ~ PullBand(c)
  <2>1. CASE PullReturn(c)
    BY <1>3, <2>1, ReturnTold
  <2>2. CASE PullChild(c)
    BY <1>3, <2>2, ChildTold
  <2>3. CASE PullFetch(c)
    BY <1>3, <2>3, FetchTold
  <2> QED
    BY <1>3, <2>1, <2>2, <2>3 DEF Pull
<1> QED
  BY <1>1, <1>2, <1>3

----------------------------------------------------------------------------
(* The rows the caller is shown. *)

\* Every strip but the last one has whole rows of every component.
Aligned == H > StripRows => \A c \in Comps : StripRows % Step(c) = 0
Even    == stripY < H => \A c \in Comps : stripY % Step(c) = 0

\* What the caller is to be shown of component c at row y.
DueRow(c, y) ==
  IF Rows(dec, c) = 0 THEN Junk
  ELSE Row(picture, dec.comps[c].v0 + Least(y \div Step(c), Rows(dec, c) - 1), Steps(c))

ShownRight ==
  /\ row > 0 => \A c \in Comps : shown[c] = DueRow(c, row - 1)
  /\ \A c \in Comps : Rows(dec, c) = 0 => shown[c] = Junk

Told == /\ Aligned /\ Even /\ InPicture /\ ShownRight
        /\ \A c \in Comps : Tells(c)

\* A component without rows is never shown one, any other in every row.
LEMMA NewRow ==
  ASSUME ShapeOK, NEW c \in Comps, NEW y \in Nat, y < H
  PROVE  (\/ dec.mct /\ c <= 3
          \/ y % dec.comps[c].yr = 0 /\ y \div dec.comps[c].yr < Rows(dec, c))
         <=> y % Step(c) = 0 /\ y \div Step(c) < Rows(dec, c)
<1>1. CASE dec.mct /\ c <= 3
  <2>1. Step(c) = 1
    BY <1>1 DEF Step
  <2>2. Rows(dec, c) = H
    <3>1. WellFormed(dec)
      BY ShapesAssumption DEF ShapeOK
    <3> QED
      BY <1>1, <3>1 DEF WellFormed, H, Comps
  <2>3. y % 1 = 0 /\ y \div 1 = y
    OBVIOUS
  <2> QED
    BY <1>1, <2>1, <2>2, <2>3
<1>2. CASE ~ (dec.mct /\ c <= 3)
  BY <1>2 DEF Step
<1> QED
  BY <1>1, <1>2

\* A row that is repeated is the row due.
LEMMA RepeatedRow ==
  ASSUME ShapeOK, NEW c \in Comps, NEW y \in Nat, y < H, Rows(dec, c) # 0,
         ~ (y % Step(c) = 0 /\ y \div Step(c) < Rows(dec, c))
  PROVE  y > 0 /\ DueRow(c, y) = DueRow(c, y - 1)
<1> DEFINE s == Step(c)
           n == Rows(dec, c)
           q == y \div s
           e == y % s
           p == (y - 1) \div s
<1>1. s \in Nat \ {0} /\ n \in Nat
  BY StepIs, HeightIs
<1>2. y > 0
  <2> SUFFICES ASSUME y = 0 PROVE FALSE
    OBVIOUS
  <2>1. q = 0 /\ e = 0
    <3>1. \A z \in Nat \ {0} : 0 \div z = 0 /\ 0 % z = 0
      <4> SUFFICES ASSUME NEW z \in Nat \ {0} PROVE 0 \div z = 0 /\ 0 % z = 0
        OBVIOUS
      <4>1. 0 = (z * 0) + 0 /\ 0 \in 0 .. z - 1
        OBVIOUS
      <4>2. 0 \div z = 0
        BY <4>1, DivUnique
      <4>3. 0 % z = 0
        BY <4>1, ModUnique
      <4> QED
        BY <4>2, <4>3
    <3> HIDE DEF s
    <3> QED
      BY <1>1, <3>1
  <2> HIDE DEF s, n, q, e
  <2> QED
    BY <1>1, <2>1 DEF s, n, q, e
<1>3. q \in Nat
  BY <1>1, Ceilings
<1>4. /\ e # 0 => p = q
      /\ e = 0 => p = q - 1 /\ q > 0
  BY <1>1, <1>2, Subsampled
<1>5. ~ (e = 0 /\ q < n) /\ n # 0
  OBVIOUS
<1> HIDE DEF s, n, q, e, p
<1>6. Least(q, n - 1) = Least(p, n - 1)
  BY <1>1, <1>3, <1>4, <1>5 DEF Least
<1>7. DueRow(c, y) = Row(picture, dec.comps[c].v0 + Least(q, n - 1), Steps(c))
  BY <1>5 DEF DueRow, q, n, s
<1>8. DueRow(c, y - 1) = Row(picture, dec.comps[c].v0 + Least(p, n - 1), Steps(c))
  BY <1>5 DEF DueRow, p, n, s
<1> QED
  BY <1>2, <1>6, <1>7, <1>8

\* When a strip is over every component has handed out its share of it.
LEMMA StripPulled ==
  ASSUME DecInv, phase = "pull", AllPulled, NEW c \in Comps
  PROVE  Len(pulled[c]) = counts[c] /\ counts[c] = Count(c) /\ calls[c] = <<>>
<1>1. ShapeOK /\ TaskOK /\ DriverOK /\ PullOK(c)
  BY DEF DecInv
<1>2. Open = {}
  BY <1>1, PulledMeansOver
<1>3. counts[c] = Count(c)
  BY <1>1 DEF DriverOK
<1> QED
  BY <1>1, <1>2, <1>3, StripOver

\* Row y of the strip is in the strip's buffer.
LEMMA BufferedRow ==
  ASSUME DecInv, Told, phase = "pull", AllPulled, NEW c \in Comps,
         row % Step(c) = 0, row \div Step(c) < Rows(dec, c)
  PROVE  pulled[c][((row - stripY) \div Step(c)) + 1] = DueRow(c, row)
<1> DEFINE s == Step(c)
           n == Rows(dec, c)
           q == row \div s
           p == stripY \div s
           o == (row - stripY) \div s
           up == (StripTop + s - 1) \div s
           m == Count(c)
           v == dec.comps[c].v0
<1>1. ShapeOK /\ DriverOK /\ Tells(c) /\ Even
  BY DEF DecInv, Told
<1>2. stripY \in Nat /\ row \in Nat /\ stripY < H /\ stripY <= row /\ row < StripTop
  <2>1. H \in Nat
    BY <1>1, HeightIs
  <2> QED
    BY <1>1, <2>1 DEF DriverOK
<1>3. s \in Nat \ {0} /\ v \in Nat /\ n \in Nat
  BY <1>1, StepIs, HeightIs
<1>4. StripTop \in Nat
  BY <1>1, <1>2, StripTopIs
<1>5. stripY % s = 0
  BY <1>1, <1>2 DEF Even
<1>6. q \in Nat /\ up \in Nat /\ q < up
  BY <1>2, <1>3, <1>4, Subsampled
<1>7. o = q - p /\ p <= q /\ p \in Nat
  BY <1>2, <1>3, <1>5, Subsampled
<1>8. Least(p, n) + m = Least(up, n)
  BY <1>1, <1>2, CountExact
<1>9. Len(pulled[c]) = m
  BY StripPulled
<1>10. m \in Nat
  BY <1>1, <1>2, CountIs
<1>11. q < n
  OBVIOUS
<1>12. \A i \in 1 .. Len(pulled[c]) : pulled[c][i] = Row(picture, v + p + i - 1, Steps(c))
  BY <1>1 DEF Tells, Handed
<1>13. DueRow(c, row) = Row(picture, v + Least(q, n - 1), Steps(c))
  <2>1. n # 0
    <3> HIDE DEF n, q
    <3> QED
      BY <1>6, <1>11
  <2> QED
    BY <2>1 DEF DueRow
<1> HIDE DEF s, n, q, p, o, up, m, v
<1>14. Least(q, n - 1) = q /\ o + 1 \in 1 .. m /\ v + p + (o + 1) - 1 = v + q
  BY <1>3, <1>6, <1>7, <1>8, <1>10, <1>11 DEF Least
<1>15. PICK i : i = o + 1
  OBVIOUS
<1>16. pulled[c][i] = Row(picture, v + p + i - 1, Steps(c))
  BY <1>9, <1>12, <1>14, <1>15
<1>17. pulled[c][i] = Row(picture, v + q, Steps(c))
  BY <1>14, <1>15, <1>16
<1> QED
  BY <1>13, <1>14, <1>15, <1>17 DEF o, s

\* The driver shows the row that is due.
LEMMA DeliverShows ==
  ASSUME DecInv, Told, Deliver
  PROVE  /\ row \in Nat /\ row < H /\ DOMAIN shown' = Comps
         /\ \A c \in Comps : shown'[c] = DueRow(c, row)
<1> DEFINE New(c)    == \/ dec.mct /\ c <= 3
                        \/ row % dec.comps[c].yr = 0 /\ row \div dec.comps[c].yr < Rows(dec, c)
           Offset(c) == IF dec.mct /\ c <= 3 THEN row - stripY
                        ELSE (row - stripY) \div dec.comps[c].yr
           Shown(c)  == IF New(c) THEN pulled[c][Offset(c) + 1] ELSE shown[c]
<1>1. ShapeOK /\ DriverOK /\ ShownRight /\ phase = "pull" /\ AllPulled
  BY DEF DecInv, Told, Deliver
<1>2. stripY \in Nat /\ row \in Nat /\ row < H
  <2>1. stripY \in Nat /\ stripY < H /\ row < StripTop
    BY <1>1 DEF DriverOK
  <2>2. H \in Nat /\ StripTop \in Nat /\ StripTop <= H
    BY <1>1, <2>1, StripTopIs, HeightIs
  <2>3. row \in 0 .. H
    BY <1>1 DEF DriverOK
  <2> QED
    BY <2>1, <2>2, <2>3
<1>3. shown' = [c \in Comps |-> Shown(c)]
  BY Zenon DEF Deliver
<1>4. ASSUME NEW c \in Comps PROVE Shown(c) = DueRow(c, row)
  <2>1. New(c) <=> row % Step(c) = 0 /\ row \div Step(c) < Rows(dec, c)
    BY <1>1, <1>2, NewRow
  <2>2. CASE New(c)
    <3>1. pulled[c][((row - stripY) \div Step(c)) + 1] = DueRow(c, row)
      BY <1>1, <2>1, <2>2, BufferedRow
    <3>2. Offset(c) = (row - stripY) \div Step(c)
      <4>1. CASE dec.mct /\ c <= 3
        <5>1. Step(c) = 1
          BY <4>1 DEF Step
        <5>2. \A x \in Int : x \div 1 = x
          OBVIOUS
        <5>3. row - stripY \in Int
          BY <1>2
        <5> QED
          BY <4>1, <5>1, <5>2, <5>3
      <4>2. CASE ~ (dec.mct /\ c <= 3)
        BY <4>2 DEF Step
      <4> QED
        BY <4>1, <4>2
    <3> QED
      BY <2>2, <3>1, <3>2
  <2>3. CASE ~ New(c)
    <3>1. Shown(c) = shown[c]
      BY <2>3
    <3> HIDE DEF Shown
    <3>2. CASE Rows(dec, c) = 0
      BY <1>1, <3>1, <3>2 DEF ShownRight, DueRow
    <3>3. CASE Rows(dec, c) # 0
      <4>1. row > 0 /\ DueRow(c, row) = DueRow(c, row - 1)
        BY <1>1, <1>2, <2>1, <2>3, <3>3, RepeatedRow
      <4> QED
        BY <1>1, <3>1, <4>1 DEF ShownRight
    <3> QED
      BY <3>2, <3>3
  <2> QED
    BY <2>2, <2>3
<1> HIDE DEF Shown
<1> QED
  BY <1>2, <1>3, <1>4

----------------------------------------------------------------------------
(* The rows through the driver's steps. *)

\* Multiples add up to a multiple.
LEMMA Multiples ==
  ASSUME NEW s \in Nat \ {0}, NEW a \in Nat, NEW b \in Nat, a % s = 0, b % s = 0
  PROVE  (a + b) % s = 0 /\ 0 % s = 0
<1> DEFINE p == a \div s
           q == b \div s
<1>1. p \in Int /\ a = (s * p) + 0 /\ q \in Int /\ b = (s * q) + 0
  BY DivMod
<1> HIDE DEF p, q
<1>2. s * (p + q) = (s * p) + (s * q)
  BY <1>1
<1>3. PICK x : x = a + b
  OBVIOUS
<1>4. PICK k : k = p + q
  OBVIOUS
<1>5. x \in Int /\ k \in Int /\ x = (s * k) + 0 /\ 0 \in 0 .. s - 1
  BY <1>1, <1>2, <1>3, <1>4
<1>6. x % s = 0
  BY <1>5, ModUnique
<1>7. 0 = (s * 0) + 0 /\ 0 \in Int
  OBVIOUS
<1>8. 0 % s = 0
  BY <1>5, <1>7, ModUnique
<1> QED
  BY <1>3, <1>6, <1>8

\* What there is to say of a component whose picture begins.
FreshlyTold == ShapeOK => \A c \in Comps :
  /\ Fresh(c) /\ Lifts(c)
  => Tells(c)

\* A component whose picture begins has nothing to tell yet.
LEMMA FreshTells == FreshlyTold
<1> SUFFICES ASSUME ShapeOK, NEW c \in Comps, Fresh(c), Lifts(c) PROVE Tells(c)
  BY DEF FreshlyTold
<1>1. /\ NL(dec, c) \in Nat
      /\ V0(dec, c, NL(dec, c)) = dec.comps[c].v0
      /\ \A l \in 0 .. NL(dec, c) : V0(dec, c, l) \in Nat
      /\ \A l \in 1 .. NL(dec, c) : V0(dec, c, l - 1) = Halved(dec.comps[c].dirs[l], V0(dec, c, l))
  BY LevelRows DEF ShapeOK, Comps
<1>2. ASSUME NEW l \in 1 .. NL(dec, c)
      PROVE  ReadAt(c, l) = V0(dec, c, l) /\ idwt[c][l].nextOut = V0(dec, c, l)
  BY DEF Fresh, ReadAt, Wanted
<1>3. Lv(c) = NL(dec, c) /\ Given(c) = NoRow
  <2>1. Frames(c) = <<Frame(NL(dec, c))>>
    BY DEF Fresh, Frames
  <2>2. Last(<<Frame(NL(dec, c))>>) = Frame(NL(dec, c))
    BY DEF Last
  <2> QED
    BY <2>1, <2>2 DEF Lv, Given, Frame
<1>4. Poised(c)
  BY <1>1, <1>3 DEF Poised
<1>5. Exact(c)
  <2> SUFFICES ASSUME NEW l \in 1 .. NL(dec, c) - 1
               PROVE  idwt[c][l].nextOut = Halved(dec.comps[c].dirs[l + 1], ReadAt(c, l + 1)) + 0
    BY <1>3 DEF Exact
  <2>1. l \in 1 .. NL(dec, c) /\ l + 1 \in 1 .. NL(dec, c) /\ (l + 1) - 1 = l /\ l \in 0 .. NL(dec, c)
    BY <1>1
  <2>2. Halved(dec.comps[c].dirs[l + 1], V0(dec, c, l + 1)) = V0(dec, c, l)
    BY <1>1, <2>1
  <2>3. V0(dec, c, l) \in Nat /\ ReadAt(c, l + 1) = V0(dec, c, l + 1)
        /\ idwt[c][l].nextOut = V0(dec, c, l)
    BY <1>1, <1>2, <2>1
  <2> QED
    BY <2>2, <2>3
<1>6. OnTime(c)
  <2>1. Out(c) = dec.comps[c].v0
    <3>1. CASE NL(dec, c) = 0
      BY <1>1, <3>1 DEF Out, Fresh
    <3>2. CASE NL(dec, c) # 0
      <4>1. NL(dec, c) \in 1 .. NL(dec, c)
        BY <1>1, <3>2
      <4> QED
        BY <1>1, <1>2, <3>2, <4>1 DEF Out
    <3> QED
      BY <3>1, <3>2
  <2>2. (0 + Step(c) - 1) \div Step(c) = 0
    <3> DEFINE s == Step(c)
    <3>1. s \in Nat \ {0}
      BY StepIs
    <3> HIDE DEF s
    <3>2. 0 + s - 1 = s - 1
      BY <3>1
    <3>3. (s - 1) \div s = 0
      BY <3>1, Ceilings
    <3>4. (0 + s - 1) \div s = 0
      BY <3>2, <3>3
    <3> QED
      BY <3>4 DEF s
  <2>3. dec.comps[c].v0 \in Nat /\ Rows(dec, c) \in Nat
    BY StepIs, HeightIs
  <2>4. Least(0, Rows(dec, c)) = 0
    BY <2>3 DEF Least
  <2>5. phase # "pull" /\ row = 0
    BY DEF Fresh
  <2> QED
    BY <2>1, <2>2, <2>3, <2>4, <2>5 DEF OnTime
<1>7. Handed(c)
  BY DEF Handed, Fresh
<1> QED
  BY <1>4, <1>5, <1>6, <1>7 DEF Tells

\* Nor has it in the next state.
LEMMA FreshTellsNext == FreshlyTold'
BY FreshTells, PTL

\* A step that moves no row of a component and changes nothing that is shown.
LEMMA RestTold ==
  ASSUME Told, driverVars' = driverVars, geo' = geo, pic' = pic,
         \A c \in Comps : Tells(c)'
  PROVE  Told'
<1>1. /\ dec' = dec /\ stripY' = stripY /\ row' = row /\ picture' = picture /\ shown' = shown
  BY DEF driverVars
<1>2. Comps' = Comps /\ H' = H
  BY <1>1 DEF Comps, H, Rows
<1>3. StripRows' = StripRows
  BY <1>1, <1>2 DEF StripRows, Comps
<1>4. Aligned' /\ Even'
  BY <1>1, <1>2, <1>3 DEF Told, Aligned, Even, Step
<1>5. InPicture'
  BY <1>1 DEF Told, InPicture
<1>6. ShownRight'
  BY <1>1, <1>2 DEF Told, ShownRight, DueRow, Rows, Step, Steps
<1> QED
  BY <1>2, <1>4, <1>5, <1>6 DEF Told

\* The strip loop begins a strip: its first row is one of every component.
LEMMA BeginStripTold ==
  ASSUME DecInv, Told, BeginStrip
  PROVE  Told'
<1>1. /\ dec' = dec /\ geo' = geo /\ pic' = pic /\ phase' = "pull" /\ stripY' = stripY
      /\ row' = row /\ picture' = picture /\ idwt' = idwt /\ nextRow' = nextRow /\ calls' = calls
      /\ pulled' = NoneOf(dec, <<>>) /\ shown' = shown
      /\ phase = "strip" /\ stripY < H
  BY DEF BeginStrip, bufVars
<1>2. ShapeOK /\ TaskOK /\ DriverOK /\ Even
  BY DEF DecInv, Told
<1>3. Comps' = Comps /\ H' = H
  BY <1>1 DEF Comps, H, Rows
<1>4. StripRows' = StripRows
  BY <1>1, <1>3 DEF StripRows, Comps
<1>5. Aligned' /\ Even'
  BY <1>1, <1>3, <1>4 DEF Told, Aligned, Even, Step
<1>6. InPicture'
  BY <1>1 DEF Told, InPicture
<1>7. ShownRight'
  BY <1>1, <1>3 DEF Told, ShownRight, DueRow, Rows, Step, Steps
<1>8. row = stripY /\ stripY \in Nat
  BY <1>1, <1>2 DEF DriverOK
<1>9. ASSUME NEW c \in Comps PROVE Tells(c)'
  <2>1. Poised(c) /\ Exact(c) /\ Lifts(c) /\ OnTime(c)
    BY DEF Told, Tells
  <2>2. Lv(c)' = Lv(c) /\ Given(c)' = Given(c)
    BY <1>1, FramesNext
  <2>3. Poised(c)'
    BY <1>1, <2>1, <2>2 DEF Poised, Waiting, TakesLow, ReadAt, Steps
  <2>4. Exact(c)'
    BY <1>1, <2>1, <2>2 DEF Exact, ReadAt
  <2>5. Lifts(c)'
    BY <1>1, <2>1 DEF Lifts
  <2>6. pulled'[c] = <<>> /\ Len(<<>>) = 0
    BY <1>1 DEF NoneOf, Comps
  <2>7. OnTime(c)'
    <3> DEFINE s == Step(c)
               n == Rows(dec, c)
               o == Out(c) - dec.comps[c].v0
               q == stripY \div s
    <3>1. s \in Nat \ {0} /\ n \in Nat
      BY <1>2, StepIs, HeightIs
    <3>2. stripY % s = 0
      BY <1>1, <1>2 DEF Even
    <3>3. (stripY + s - 1) \div s = q /\ q \in Nat
      BY <1>8, <3>1, <3>2, Subsampled
    <3>4. o = Least(q, n)
      BY <1>1, <1>8, <2>1, <3>3 DEF OnTime
    <3>5. OnTime(c)' <=> o = Least(q, n) + 0
      BY <1>1, <2>6 DEF OnTime, Out, Step, Rows
    <3> HIDE DEF s, n, o, q
    <3>6. Least(q, n) \in Nat
      BY <3>1, <3>3 DEF Least
    <3> QED
      BY <3>4, <3>5, <3>6
  <2>8. Handed(c)'
    BY <2>6 DEF Handed
  <2> QED
    BY <2>3, <2>4, <2>5, <2>7, <2>8 DEF Tells
<1> QED
  BY <1>3, <1>5, <1>6, <1>7, <1>9 DEF Told

\* The driver hands out a row.
LEMMA DeliverTold ==
  ASSUME DecInv, Told, Deliver
  PROVE  Told'
<1>1. /\ dec' = dec /\ geo' = geo /\ pic' = pic /\ picture' = picture /\ idwt' = idwt
      /\ nextRow' = nextRow /\ calls' = calls /\ pulled' = pulled
      /\ phase = "pull" /\ AllPulled /\ row' = row + 1
  BY DEF Deliver, bufVars, pullVars
<1>2. \/ row' = StripTop /\ phase' = "strip" /\ stripY' = stripY + StripRows
      \/ phase' = phase /\ stripY' = stripY
  BY DEF Deliver
<1>3. ShapeOK /\ DriverOK /\ Even /\ Aligned
  BY DEF DecInv, Told
<1>4. /\ row \in Nat /\ row < H /\ DOMAIN shown' = Comps
      /\ \A c \in Comps : shown'[c] = DueRow(c, row)
  BY DeliverShows
<1>5. Comps' = Comps /\ H' = H
  BY <1>1 DEF Comps, H, Rows
<1>6. StripRows' = StripRows
  BY <1>1, <1>5 DEF StripRows, Comps
<1>7. Aligned' /\ InPicture'
  BY <1>1, <1>5, <1>6 DEF Told, Aligned, InPicture, Step
<1>8. /\ stripY \in Nat /\ stripY < H /\ H \in Nat /\ StripRows \in Nat \ {0}
      /\ StripTop \in Nat
  <2>1. stripY \in Nat /\ stripY < H
    BY <1>1, <1>3 DEF DriverOK
  <2> QED
    BY <1>3, <2>1, StripTopIs, HeightIs
<1>9. Even'
  <2> SUFFICES ASSUME stripY' < H, NEW c \in Comps PROVE stripY' % Step(c) = 0
    BY <1>1, <1>5 DEF Even, Step
  <2>1. Step(c) \in Nat \ {0}
    BY <1>3, StepIs
  <2>2. stripY % Step(c) = 0
    BY <1>3, <1>8 DEF Even
  <2>3. CASE stripY' = stripY
    BY <2>2, <2>3
  <2>4. CASE stripY' = stripY + StripRows
    <3>1. StripRows % Step(c) = 0
      BY <1>3, <1>8, <2>4 DEF Aligned
    <3>2. (stripY + StripRows) % Step(c) = 0
      BY <1>8, <2>1, <2>2, <3>1, Multiples
    <3> QED
      BY <2>4, <3>2
  <2> QED
    BY <1>2, <2>3, <2>4
<1>10. ShownRight'
  <2>1. row' - 1 = row
    BY <1>1, <1>4
  <2>2. \A c \in Comps : shown'[c] = DueRow(c, row' - 1)
    BY <1>4, <2>1
  <2>3. \A c \in Comps : Rows(dec, c) = 0 => shown'[c] = Junk
    BY <1>4 DEF DueRow
  <2> QED
    BY <1>1, <1>5, <2>2, <2>3 DEF ShownRight, DueRow, Rows, Step, Steps
<1>11. ASSUME NEW c \in Comps PROVE Tells(c)'
  <2>1. Poised(c) /\ Exact(c) /\ Lifts(c) /\ OnTime(c) /\ Handed(c)
    BY DEF Told, Tells
  <2>2. Lv(c)' = Lv(c) /\ Given(c)' = Given(c)
    BY <1>1, FramesNext
  <2>3. Poised(c)'
    BY <1>1, <2>1, <2>2 DEF Poised, Waiting, TakesLow, ReadAt, Steps
  <2>4. Exact(c)'
    BY <1>1, <2>1, <2>2 DEF Exact, ReadAt
  <2>5. Lifts(c)'
    BY <1>1, <2>1 DEF Lifts
  <2>6. Out(c)' = Out(c) /\ Step(c)' = Step(c) /\ Rows(dec, c)' = Rows(dec, c) /\ Steps(c)' = Steps(c)
    BY <1>1 DEF Out, Step, Rows, Steps
  <2>7. CASE phase' = phase /\ stripY' = stripY
    <3>1. OnTime(c)'
      BY <1>1, <2>1, <2>6, <2>7 DEF OnTime
    <3>2. Handed(c)'
      BY <1>1, <2>1, <2>6, <2>7 DEF Handed
    <3> QED
      BY <2>3, <2>4, <2>5, <3>1, <3>2 DEF Tells
  <2>8. CASE row' = StripTop /\ phase' = "strip"
    <3>1. Handed(c)'
      BY <2>8 DEF Handed
    <3>2. Least(stripY \div Step(c), Rows(dec, c)) + Count(c)
          = Least((StripTop + Step(c) - 1) \div Step(c), Rows(dec, c))
      BY <1>3, <1>8, CountExact
    <3>3. Len(pulled[c]) = Count(c)
      BY <1>1, StripPulled
    <3>4. OnTime(c)'
      BY <1>1, <2>1, <2>6, <2>8, <3>2, <3>3 DEF OnTime
    <3> QED
      BY <2>3, <2>4, <2>5, <3>1, <3>4 DEF Tells
  <2> QED
    BY <1>2, <2>7, <2>8
<1> QED
  BY <1>5, <1>7, <1>9, <1>10, <1>11 DEF Told

\* The next picture begins with rewound transforms and buffers.
LEMMA NextPictureTold ==
  ASSUME DecInv, Told, NextPicture
  PROVE  Told'
<1> DEFINE ks == {k \in Bufs : geo[k].y0 < geo[k].y1}
<1>1. /\ dec' = dec /\ phase' = phase /\ stripY' = 0 /\ row' = 0 /\ picture' = picture + 1
      /\ calls' = calls /\ counts' = counts /\ pulled' = pulled /\ shown' = shown /\ Rewind(ks)
      /\ idwt' = [c \in Comps |-> [l \in DOMAIN idwt[c] |-> IdwtRewind(idwt[c][l])]]
      /\ nextRow' = [c \in Comps |-> V0(dec, c, 0)]
      /\ phase = "strip" /\ stripY >= H
  BY DEF NextPicture
<1>2. /\ ShapeOK /\ Domains /\ TaskOK /\ DriverOK
      /\ \A c \in Comps : PullOK(c)
  BY DEF DecInv
<1>3. Comps' = Comps /\ H' = H
  BY <1>1 DEF Comps, H, Rows
<1>4. StripRows' = StripRows
  BY <1>1, <1>3 DEF StripRows, Comps
<1>5. geo' = geo /\ pic' = [k \in Bufs |-> IF k \in ks THEN pic[k] + 1 ELSE pic[k]]
  BY <1>1 DEF Rewind
<1>6. Aligned'
  BY <1>1, <1>3, <1>4 DEF Told, Aligned, Step
<1>7. InPicture'
  <2> SUFFICES ASSUME NEW k \in Bufs, geo[k].y0 < geo[k].y1 PROVE pic'[k] = picture'
    BY <1>5 DEF InPicture
  <2>1. pic[k] = picture
    BY DEF Told, InPicture
  <2> QED
    BY <1>1, <1>5, <2>1
<1>8. Even'
  <2>1. \A s \in Nat \ {0} : 0 % s = 0
    <3> SUFFICES ASSUME NEW s \in Nat \ {0} PROVE 0 % s = 0
      OBVIOUS
    <3>1. 0 = (s * 0) + 0 /\ 0 \in 0 .. s - 1
      OBVIOUS
    <3> QED
      BY <3>1, ModUnique
  <2>2. \A c \in Comps : Step(c) \in Nat \ {0}
    BY <1>2, StepIs
  <2> QED
    BY <1>1, <1>3, <2>1, <2>2 DEF Even, Step
<1>9. ShownRight'
  BY <1>1, <1>3 DEF Told, ShownRight, Rows
<1>10. Open = {}
  BY <1>1, <1>2 DEF TaskOK
<1>11. ShapeOK'
  BY <1>1, <1>2, <1>5 DEF ShapeOK
<1>12. ASSUME NEW c \in Comps PROVE Fresh(c)' /\ Lifts(c)'
  <2>1. PullOK(c) /\ calls[c] = <<>> /\ Lifts(c)
    BY <1>2, <1>10, StripOver DEF Told, Tells
  <2>2. FramesOK(c)'
    BY <1>1, <2>1, Zenon DEF PullOK, FramesOK
  <2>3. ASSUME NEW l \in 1 .. NL(dec, c)
        PROVE  /\ LevelOK(c, l)' /\ idwt'[c][l].nextIn = V0(dec, c, l) /\ idwt'[c][l].nextOut = V0(dec, c, l)
               /\ idwt'[c][l].xf = dec.comps[c].xf
               /\ idwt'[c][l].dir = "BIDIR" /\ idwt'[c][l].v1 >= idwt'[c][l].v0 + 2
                  => Streamed(idwt'[c][l], picture')
    <3> DEFINE s == idwt[c][l]
               t == idwt'[c][l]
    <3>1. LevelOK(c, l)
      BY <2>1 DEF PullOK, Levels
    <3>2. t = IdwtRewind(s)
      BY <1>1, <1>2 DEF Domains
    <3>3. /\ RingOK(t) /\ SameLevel(s, t) /\ t.nextIn = s.v0 /\ t.nextOut = s.v0
      BY <3>1, <3>2, RewindOK DEF LevelOK
    <3>4. s.xf = dec.comps[c].xf /\ (s.dir = "BIDIR" /\ s.v1 >= s.v0 + 2 => Streamed(s, picture))
      BY <2>1 DEF Lifts
    <3>5. Streamed(s, picture) => Streamed(t, picture')
      BY <3>2, RewindStreams
    <3> HIDE DEF t
    <3> QED
      BY <1>1, <3>1, <3>3, <3>4, <3>5 DEF LevelOK, SameLevel, t
  <2>4. nextRow'[c] = V0(dec, c, 0) /\ calls'[c] = <<>> /\ phase' = "strip" /\ row' = 0
    BY <1>1, <2>1
  <2>5. Fresh(c)'
    BY <1>1, <2>2, <2>3, <2>4 DEF Fresh
  <2>6. Lifts(c)'
    BY <1>1, <2>3 DEF Lifts
  <2> QED
    BY <2>5, <2>6
<1>13. ASSUME NEW c \in Comps PROVE Tells(c)'
  BY <1>3, <1>11, <1>12, FreshTellsNext DEF FreshlyTold
<1> QED
  BY <1>3, <1>6, <1>7, <1>8, <1>9, <1>13 DEF Told

----------------------------------------------------------------------------
(* Every step.                                                             *)

\* A step of a component's pull moves no other component, and leaves the
\* picture of every buffer.
LEMMA PullTouches ==
  ASSUME ShapeOK, Domains, NEW c \in Comps, PullOK(c), Pull(c), stripY \in Nat, row \in Nat
  PROVE  /\ driverVars' = driverVars /\ geo' = geo /\ pic' = pic
         /\ \A d \in Comps : d # c => /\ idwt'[d] = idwt[d] /\ calls'[d] = calls[d]
                                      /\ pulled'[d] = pulled[d] /\ nextRow'[d] = nextRow[d]
<1> DEFINE Others == \A d \in Comps : d # c => /\ idwt'[d] = idwt[d] /\ calls'[d] = calls[d]
                                               /\ pulled'[d] = pulled[d] /\ nextRow'[d] = nextRow[d]
<1>1. ASSUME Alone(c), nextRow' = nextRow PROVE Others
  BY <1>1 DEF Alone, OnlyIn
<1>2. PICK l : l = Last(Frames(c)).lvl
  OBVIOUS
<1>3. CASE PullReturn(c)
  <2>1. driverVars' = driverVars /\ bufVars' = bufVars /\ nextRow' = nextRow
    BY <1>3 DEF PullReturn
  <2>2. CASE NL(dec, c) # 0
    <3>1. Alone(c)
      BY <1>2, <1>3, <2>2, ReturnMoves, Zenon
    <3> QED
      BY <1>1, <2>1, <3>1 DEF bufVars
  <2>3. CASE NL(dec, c) = 0
    <3>1. idwt' = idwt /\ OnlyIn(c, calls) /\ OnlyIn(c, pulled)
      BY <1>3, <2>3, FlatReturn, Zenon
    <3> QED
      BY <2>1, <3>1 DEF bufVars, OnlyIn
  <2> QED
    BY <2>2, <2>3
<1>4. CASE PullChild(c)
  <2>1. /\ driverVars' = driverVars /\ bufVars' = bufVars /\ nextRow' = nextRow /\ pulled' = pulled
        /\ idwt' = idwt /\ calls' = [calls EXCEPT ![c] = Append(Frames(c), Frame(Last(Frames(c)).lvl - 1))]
    BY <1>4 DEF PullChild
  <2>2. \A d \in Comps : d # c => calls'[d] = calls[d]
    BY <2>1 DEF Domains
  <2> QED
    BY <2>1, <2>2 DEF bufVars
<1>5. CASE PullFetch(c)
  <2>1. driverVars' = driverVars /\ bufVars' = bufVars
    BY <1>5 DEF PullFetch
  <2>2. CASE NL(dec, c) # 0
    <3>1. Alone(c) /\ nextRow' = nextRow
      BY <1>2, <1>5, <2>2, FetchMoves, Zenon
    <3> QED
      BY <1>1, <2>1, <3>1 DEF bufVars
  <2>3. CASE NL(dec, c) = 0
    <3>1. idwt' = idwt /\ OnlyIn(c, nextRow) /\ OnlyIn(c, calls) /\ OnlyIn(c, pulled)
      BY <1>5, <2>3, FlatFetch, Zenon
    <3> QED
      BY <2>1, <3>1 DEF bufVars, OnlyIn
  <2> QED
    BY <2>2, <2>3
<1>6. CASE PullBand(c)
  <2>1. /\ driverVars' = driverVars /\ pullVars' = pullVars
        /\ LET i == Pending(c) IN
           RowHit(i.buf, i.row) \/ RowMiss(i.buf, i.row) \/ StripDone(i.buf)
    BY <1>6 DEF PullBand
  <2>2. geo' = geo /\ pic' = pic
    BY <2>1 DEF RowHit, RowMiss, StripDone
  <2> QED
    BY <2>1, <2>2 DEF pullVars
<1> QED
  BY <1>3, <1>4, <1>5, <1>6 DEF Pull

\* A thread that runs the strip of a component does so between two barriers.
LEMMA RunningPulls ==
  ASSUME DecInv, NEW t \in Threads, NEW c \in Comps, Running(t) = Strip(c)
  PROVE  Pulling(c)
<1>1. ShapeOK /\ TaskOK /\ DriverOK
  BY DEF DecInv
<1>2. PICK S : stack \in [Threads -> Seq(S)]
  BY <1>1 DEF TaskOK, StackOK
<1>3. OnStack(t, Len(stack[t]), c) /\ Len(stack[t]) \in Nat
  BY <1>1, <1>2, RunningIs DEF TaskOK
<1>4. c \in Open
  BY <1>3 DEF Open, Held
<1>5. phase = "pull"
  BY <1>1, <1>4 DEF TaskOK, DriverOK
<1>6. H \in Nat
  BY <1>1, HeightIs
<1> QED
  BY <1>1, <1>5, <1>6 DEF DriverOK, Pulling

\* A step of a pull.
LEMMA PullStepTold ==
  ASSUME DecInv, Told, Cols # {}, NEW t \in Threads, PullStep(t)
  PROVE  Told'
<1>1. PICK c \in Comps : Running(t) = Strip(c) /\ Pull(c)
  BY DEF PullStep
<1>2. ShapeOK /\ Domains /\ BufInv /\ InPicture /\ PullOK(c) /\ \A d \in Comps : Tells(d)
  BY DEF DecInv, Told
<1>3. Pulling(c)
  BY <1>1, RunningPulls
<1>4. /\ driverVars' = driverVars /\ geo' = geo /\ pic' = pic
      /\ \A d \in Comps : d # c => /\ idwt'[d] = idwt[d] /\ calls'[d] = calls[d]
                                   /\ pulled'[d] = pulled[d] /\ nextRow'[d] = nextRow[d]
  BY <1>1, <1>2, <1>3, PullTouches DEF Pulling
<1>5. /\ dec' = dec /\ picture' = picture /\ phase' = phase /\ stripY' = stripY /\ row' = row
  BY <1>4 DEF driverVars
<1>6. Tells(c)'
  BY <1>1, <1>2, <1>3, PullTold
<1>7. ASSUME NEW d \in Comps PROVE Tells(d)'
  <2>1. CASE d = c
    BY <1>6, <2>1
  <2>2. CASE d # c
    BY <1>2, <1>4, <1>5, <2>2, RestTells
  <2> QED
    BY <2>1, <2>2
<1> QED
  BY <1>4, <1>7, RestTold

\* A step that moves no rows at all.
LEMMA TasksTold ==
  ASSUME Told, driverVars' = driverVars, pullVars' = pullVars, geo' = geo, pic' = pic
  PROVE  Told'
<1>1. /\ dec' = dec /\ picture' = picture /\ phase' = phase /\ stripY' = stripY /\ row' = row
      /\ idwt' = idwt /\ calls' = calls /\ pulled' = pulled /\ nextRow' = nextRow
  BY DEF driverVars, pullVars
<1>2. ASSUME NEW c \in Comps PROVE Tells(c)'
  BY <1>1, RestTells DEF Told
<1> QED
  BY <1>2, RestTold

\* Every step keeps what is told.
LEMMA ToldStep ==
  ASSUME Cols # {}, DecInv, Told, [Next]_vars
  PROVE  Told'
<1>1. CASE UNCHANGED vars
  BY <1>1, TasksTold DEF vars, bufVars
<1>2. ASSUME NEW t \in Threads, TakeBlock(t) \/ TakeStrip(t) \/ EndStrip(t) PROVE Told'
  <2>1. driverVars' = driverVars /\ pullVars' = pullVars /\ bufVars' = bufVars
    BY <1>2 DEF TakeBlock, TakeStrip, EndStrip
  <2> QED
    BY <2>1, TasksTold DEF bufVars
<1>3. ASSUME NEW t \in Threads, EndBlock(t) PROVE Told'
  <2>1. driverVars' = driverVars /\ pullVars' = pullVars
    BY <1>3 DEF EndBlock
  <2>2. geo' = geo /\ pic' = pic
    BY <1>3 DEF EndBlock, FinishBlock
  <2> QED
    BY <2>1, <2>2, TasksTold
<1>4. ASSUME NEW t \in Threads, PullStep(t) PROVE Told'
  BY <1>4, PullStepTold
<1>5. CASE MainStep
  BY <1>5, BeginStripTold, DeliverTold, NextPictureTold DEF MainStep
<1> QED
  BY <1>1, <1>2, <1>3, <1>4, <1>5 DEF Next, ThreadStep

\* The decoder begins so.
LEMMA ToldStarts ==
  ASSUME Init, DecInv, Aligned
  PROVE  Told
<1>1. /\ phase = "strip" /\ stripY = 0 /\ row = 0 /\ picture = 1
      /\ idwt = FreshIdwt(dec) /\ calls = NoneOf(dec, <<>>) /\ shown = NoneOf(dec, Junk)
      /\ nextRow = [c \in 1 .. Len(dec.comps) |-> V0(dec, c, 0)] /\ BufInit
  BY DEF Init
<1>2. ShapeOK /\ Domains /\ \A c \in Comps : PullOK(c)
  BY DEF DecInv
<1>3. InPicture
  BY <1>1 DEF BufInit, InPicture
<1>4. Even
  <2>1. \A s \in Nat \ {0} : 0 % s = 0
    <3> SUFFICES ASSUME NEW s \in Nat \ {0} PROVE 0 % s = 0
      OBVIOUS
    <3>1. 0 = (s * 0) + 0 /\ 0 \in 0 .. s - 1
      OBVIOUS
    <3> QED
      BY <3>1, ModUnique
  <2>2. \A c \in Comps : Step(c) \in Nat \ {0}
    BY <1>2, StepIs
  <2> QED
    BY <1>1, <2>1, <2>2 DEF Even
<1>5. ShownRight
  BY <1>1 DEF ShownRight, NoneOf, Comps
<1>6. ASSUME NEW c \in Comps PROVE Fresh(c) /\ Lifts(c)
  <2>1. /\ NL(dec, c) \in Nat /\ dec.comps[c] \in CompShape
        /\ \A l \in 0 .. NL(dec, c) :
             V0(dec, c, l) \in Nat /\ V1(dec, c, l) \in Nat
        /\ \A l \in 1 .. NL(dec, c) : dec.comps[c].dirs[l] \in {"BIDIR", "HORZ", "NO"}
    BY <1>2, LevelRows DEF ShapeOK, Comps
  <2>2. PullOK(c)
    BY <1>2
  <2>3. ASSUME NEW l \in 1 .. NL(dec, c)
        PROVE  /\ LevelOK(c, l) /\ idwt[c][l].nextIn = V0(dec, c, l) /\ idwt[c][l].nextOut = V0(dec, c, l)
               /\ idwt[c][l].xf = dec.comps[c].xf
               /\ idwt[c][l].v1 >= idwt[c][l].v0 + 2 => Streamed(idwt[c][l], picture)
    <3> DEFINE a == V0(dec, c, l)
               b == V1(dec, c, l)
               x == dec.comps[c].xf
               d == dec.comps[c].dirs[l]
    <3>1. idwt[c][l] = IdwtInit(a, b, x, d)
      BY <1>1 DEF FreshIdwt, Comps
    <3>2. LevelOK(c, l) /\ l \in 0 .. NL(dec, c) /\ dec.comps[c].xf \in Nat
      BY <2>1, <2>2 DEF PullOK, Levels, CompShape
    <3>3. a \in Nat /\ b \in Nat /\ x \in Nat
      BY <2>1, <3>2
    <3> HIDE DEF a, b, x, d
    <3>4. LET s == IdwtInit(a, b, x, d) IN
          s.nextIn = a /\ s.nextOut = a /\ s.xf = x /\ s.v0 = a /\ s.v1 = b
      BY DEF IdwtInit
    <3>5. b >= a + 2 => Streamed(IdwtInit(a, b, x, d), picture)
      BY <3>3, InitStreams
    <3> QED
      BY <3>1, <3>2, <3>4, <3>5 DEF a, x
  <2>4. calls[c] = <<>> /\ nextRow[c] = V0(dec, c, 0) /\ FramesOK(c)
    BY <1>1, <2>2 DEF NoneOf, Comps, PullOK
  <2>5. Fresh(c)
    BY <1>1, <2>3, <2>4 DEF Fresh
  <2>6. Lifts(c)
    BY <2>3 DEF Lifts
  <2> QED
    BY <2>5, <2>6
<1>7. \A c \in Comps : Tells(c)
  BY <1>2, <1>6, FreshTells DEF FreshlyTold
<1> QED
  BY <1>3, <1>4, <1>5, <1>7 DEF Told

\* What a component is to be shown is what the caller is promised.
LEMMA PromisedRow ==
  ASSUME ShapeOK, NEW y \in Nat, y < H, NEW f, f = [c \in Comps |-> DueRow(c, y)]
  PROVE  f = Right(dec, picture, y)
<1> DEFINE n(c) == IF dec.mct /\ c <= 3 THEN y
                   ELSE Min({y \div dec.comps[c].yr, Rows(dec, c) - 1})
           r(c) == IF Rows(dec, c) = 0 THEN Junk
                   ELSE Row(picture, dec.comps[c].v0 + n(c), MaxLevel(dec.comps[c].xf))
<1>1. Right(dec, picture, y) = [c \in Comps |-> r(c)]
  BY DEF Right, Comps
<1>2. ASSUME NEW c \in Comps, Rows(dec, c) # 0
      PROVE  n(c) = Least(y \div Step(c), Rows(dec, c) - 1)
  <2>0. Rows(dec, c) \in Nat /\ H \in Nat
    BY HeightIs
  <2>1. CASE dec.mct /\ c <= 3
    <3>1. Step(c) = 1
      BY <2>1 DEF Step
    <3>2. Rows(dec, c) = H
      <4>1. WellFormed(dec)
        BY ShapesAssumption DEF ShapeOK
      <4> QED
        BY <2>1, <4>1 DEF WellFormed, H, Comps
    <3>3. y \div 1 = y
      OBVIOUS
    <3>4. y <= H - 1
      BY <2>0
    <3>5. n(c) = y
      BY <2>1
    <3> QED
      BY <3>1, <3>2, <3>3, <3>4, <3>5 DEF Least
  <2>2. CASE ~ (dec.mct /\ c <= 3)
    <3>1. n(c) = Min({y \div Step(c), Rows(dec, c) - 1})
      BY <2>2 DEF Step
    <3>2. y \div Step(c) \in Int /\ Rows(dec, c) - 1 \in Int
      BY <2>0, StepIs
    <3> HIDE DEF n
    <3> QED
      BY <3>1, <3>2, MinOfTwo DEF Least
  <2> QED
    BY <2>1, <2>2
<1>3. ASSUME NEW c \in Comps PROVE r(c) = DueRow(c, y)
  <2>1. CASE Rows(dec, c) = 0
    BY <2>1 DEF DueRow
  <2>2. CASE Rows(dec, c) # 0
    <3>1. n(c) = Least(y \div Step(c), Rows(dec, c) - 1)
      BY <1>2, <2>2
    <3> HIDE DEF n
    <3> QED
      BY <2>2, <3>1 DEF DueRow, Steps
  <2> QED
    BY <2>1, <2>2
<1> HIDE DEF r
<1> QED
  BY <1>1, <1>3

\* Every step of the decoder is one of the promise, or none.
LEMMA StepsToSource ==
  ASSUME Cols # {}, DecInv, Told, [Next]_vars
  PROVE  [Source!Next]_(Source!vars)
<1>1. ShapeOK /\ DriverOK
  BY DEF DecInv
<1>2. CASE driverVars' = driverVars
  BY <1>2 DEF driverVars, Source!vars
<1>3. CASE BeginStrip
  BY <1>3 DEF BeginStrip, Source!vars
<1>4. CASE Deliver
  <2>1. /\ row \in Nat /\ row < H /\ DOMAIN shown' = Comps
        /\ \A c \in Comps : shown'[c] = DueRow(c, row)
    BY <1>4, DeliverShows
  <2>2. dec' = dec /\ picture' = picture /\ row' = row + 1
    BY <1>4 DEF Deliver
  <2>3. shown' = [c \in Comps |-> shown'[c]]
    <3>1. shown' = [c \in Comps |->
                      IF (dec.mct /\ c <= 3) \/ (row % dec.comps[c].yr = 0 /\ row \div dec.comps[c].yr < Rows(dec, c))
                      THEN pulled[c][(IF dec.mct /\ c <= 3 THEN row - stripY
                                      ELSE (row - stripY) \div dec.comps[c].yr) + 1]
                      ELSE shown[c]]
      BY <1>4, Zenon DEF Deliver
    <3> QED
      BY <3>1
  <2>4. shown' = [c \in Comps |-> DueRow(c, row)]
    BY <2>1, <2>3
  <2>5. shown' = Right(dec, picture, row)
    BY <1>1, <2>1, <2>4, PromisedRow
  <2>6. row < Height(dec)
    BY <2>1 DEF Height, H
  <2>7. Source!Deliver
    BY <2>2, <2>5, <2>6 DEF Source!Deliver
  <2> QED
    BY <2>7 DEF Source!Next
<1>5. CASE NextPicture
  <2>1. /\ dec' = dec /\ picture' = picture + 1 /\ row' = 0 /\ shown' = shown
        /\ phase = "strip" /\ stripY >= H /\ picture < Pictures
    BY <1>5 DEF NextPicture
  <2>2. row = Height(dec)
    <3>1. H \in Nat /\ stripY \in Nat
      BY <1>1, HeightIs DEF DriverOK
    <3>2. row = IF stripY < H THEN stripY ELSE H
      BY <1>1, <2>1 DEF DriverOK
    <3> QED
      BY <2>1, <3>1, <3>2 DEF Height, H
  <2>3. Source!NextPicture
    BY <2>1, <2>2 DEF Source!NextPicture
  <2> QED
    BY <2>3 DEF Source!Next
<1>6. CASE UNCHANGED vars
  BY <1>2, <1>6 DEF vars
<1>7. ASSUME NEW t \in Threads,
             TakeBlock(t) \/ TakeStrip(t) \/ EndBlock(t) \/ EndStrip(t) \/ PullStep(t)
      PROVE  driverVars' = driverVars
  <2>1. CASE PullStep(t)
    BY <2>1 DEF PullStep, Pull, PullReturn, PullChild, PullBand, PullFetch
  <2> QED
    BY <1>7, <2>1 DEF TakeBlock, TakeStrip, EndBlock, EndStrip
<1> QED
  BY <1>2, <1>3, <1>4, <1>5, <1>6, <1>7 DEF Next, ThreadStep, MainStep

\* The caller is handed the right rows, whatever the tile's shape, the filter,
\* the workers and the pictures: every step of the decoder delivers the next
\* row of the picture, with each component's row made wholly of that picture's
\* samples, or begins the next picture after the last row of this one, or is no
\* step of the driver's (decode_line_based_stream, idwt_2d_state_pull_row_ref). It
\* needs a code-block column (a tile without columns decodes nothing) and, when
\* there is more than one strip, strips of whole rows of every component, which
\* is what rounding the strip's height up is for.
THEOREM DecoderDeliversSource ==
  ASSUME Cols # {}
  PROVE  Spec /\ Aligned => Source!Init /\ [][Source!Next]_(Source!vars)
<1>1. Init => Source!Init
  BY DEF Init, Source!Init
<1>2. Init /\ DecInv /\ Aligned => Told
  BY ToldStarts
<1>3. DecInv /\ Told /\ [Next]_vars => Told'
  BY ToldStep
<1>4. DecInv /\ Told /\ [Next]_vars => [Source!Next]_(Source!vars)
  BY StepsToSource
<1> QED
  BY DecodeInvariant, <1>1, <1>2, <1>3, <1>4, PTL DEF Spec

==============================================================================
