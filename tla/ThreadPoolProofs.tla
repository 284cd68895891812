-------------------------- MODULE ThreadPoolProofs --------------------------
(***************************************************************************)
(* Proofs about the thread pool, for any number of workers, callers and    *)
(* tasks, any ring capacity and any batch size.                            *)
(*                                                                         *)
(* The ring is indexed by counters that grow without bound and are reduced *)
(* modulo its size; what that does to slots comes first, then the          *)
(* effect of a push and of a pop on the window of occupied slots, then the *)
(* inductive invariant.  That no task is in two places follows, and with   *)
(* it that the pool implements the abstract queue.                         *)
(***************************************************************************)
EXTENDS ThreadPool, FiniteSetTheorems, SequenceTheorems, TLAPS

----------------------------------------------------------------------------
(* Division with remainder.                                                *)

\* Division with remainder.
LEMMA DivMod ==
  ASSUME NEW a \in Int, NEW N \in Nat \ {0}
  PROVE  a \div N \in Int /\ a % N \in 0 .. N - 1 /\ a = N * (a \div N) + (a % N)
OBVIOUS

\* The only multiple of N below N is 0.
LEMMA SmallMultiple ==
  ASSUME NEW q \in Int, NEW N \in Nat \ {0}, NEW d \in 0 .. N - 1, d = N * q
  PROVE  d = 0
<1>1. CASE q <= -1
  <2>1. N * q <= -N BY <1>1
  <2>2. QED BY <2>1
<1>2. CASE q >= 1
  <2>1. N * q >= N BY <1>2
  <2>2. QED BY <2>1
<1>3. CASE q = 0 BY <1>3
<1>4. QED BY <1>1, <1>2, <1>3

\* The remainder is determined by the congruence class.
LEMMA ModUnique ==
  ASSUME NEW a \in Int, NEW k \in Int, NEW N \in Nat \ {0}, NEW d \in 0 .. N - 1,
         a = N * k + d
  PROVE  a % N = d
<1> DEFINE e == a % N
           m == a \div N
<1>1. e \in 0 .. N - 1 /\ m \in Int /\ N * m + e = N * k + d
  BY DivMod
<1> HIDE DEF e, m
<1>2. CASE e >= d
  <2>1. e - d \in 0 .. N - 1 /\ e - d = N * (k - m) BY <1>1, <1>2
  <2>2. e - d = 0 BY <2>1, <1>1, SmallMultiple
  <2>3. QED BY <2>2, <1>1 DEF e
<1>3. CASE e < d
  <2>1. d - e \in 0 .. N - 1 /\ d - e = N * (m - k) BY <1>1, <1>3
  <2>2. d - e = 0 BY <2>1, <1>1, SmallMultiple
  <2>3. QED BY <2>2, <1>1 DEF e
<1>4. QED BY <1>1, <1>2, <1>3

\* Numbers that are congruent and less than N apart are equal.
LEMMA ModEqual ==
  ASSUME NEW a \in Int, NEW b \in Int, NEW N \in Nat \ {0},
         a - b < N, b - a < N, a % N = b % N
  PROVE  a = b
<1> DEFINE i == a \div N
           j == b \div N
           r == b % N
<1>1. i \in Int /\ j \in Int /\ r \in Int /\ a = N * i + r /\ b = N * j + r
  BY DivMod
<1> HIDE DEF i, j, r
<1>2. a - b = N * (i - j) /\ b - a = N * (j - i)
  BY <1>1
<1>3. CASE a >= b
  <2>1. a - b \in 0 .. N - 1 BY <1>3
  <2>2. a - b = 0 BY <1>1, <1>2, <2>1, SmallMultiple
  <2>3. QED BY <2>2
<1>4. CASE a < b
  <2>1. b - a \in 0 .. N - 1 BY <1>4
  <2>2. b - a = 0 BY <1>1, <1>2, <2>1, SmallMultiple
  <2>3. QED BY <2>2
<1>5. QED BY <1>3, <1>4

----------------------------------------------------------------------------

-----------------------------------------------------------------------------
(* Slots of the ring. *)

\* An index at distance d in front of k, 0 <= d < RingCap, lands d slots past
\* k's slot.
LEMMA OffsetAhead ==
  ASSUME NEW k \in Nat, NEW d \in 0 .. RingCap - 1
  PROVE  Slot(k + d) \in Slots /\ Offset(Slot(k + d), k) = d
<1> USE PoolAssumption
<1> DEFINE q == (k + d) \div RingCap
           r == (k + d) % RingCap
<1>1. q \in Int /\ r \in 0 .. RingCap - 1 /\ k + d = RingCap * q + r
  BY DivMod
<1> HIDE DEF q, r
<1>2. r - k = RingCap * (-q) + d BY <1>1
<1>3. (r - k) % RingCap = d BY <1>1, <1>2, ModUnique
<1>4. QED BY <1>1, <1>3 DEF Slot, Offset, Slots, r

\* An index at distance b behind k, 0 < b <= RingCap, lands RingCap - b slots
\* past k's slot.
LEMMA OffsetBehind ==
  ASSUME NEW k \in Nat, NEW b \in 1 .. RingCap, k - b \in Nat
  PROVE  Slot(k - b) \in Slots /\ Offset(Slot(k - b), k) = RingCap - b
<1> USE PoolAssumption
<1> DEFINE q == (k - b) \div RingCap
           r == (k - b) % RingCap
<1>1. q \in Int /\ r \in 0 .. RingCap - 1 /\ k - b = RingCap * q + r
  BY DivMod
<1> HIDE DEF q, r
<1> DEFINE p == -q - 1
           d == RingCap - b
<1>2. p \in Int /\ d \in 0 .. RingCap - 1 /\ r - k \in Int BY <1>1
<1>3. r - k = RingCap * p + d BY <1>1
<1> HIDE DEF p, d
<1>4. (r - k) % RingCap = d BY <1>2, <1>3, ModUnique
<1>5. QED BY <1>1, <1>4 DEF Slot, Offset, Slots, r, d

\* Every slot has an offset below the size of the ring.
LEMMA OffsetType ==
  ASSUME NEW i \in Int, NEW k \in Int
  PROVE  Offset(i, k) \in 0 .. RingCap - 1
BY PoolAssumption, DivMod DEF Offset

\* A push that stored at least one task wakes at least one worker.
LEMMA BatchWakeupsPositive ==
  ASSUME NEW n \in Nat \ {0}
  PROVE  BatchWakeups(n) \in Nat \ {0}
<1> USE PoolAssumption
<1>1. Cardinality(Workers) \in Nat \ {0}
  BY FS_CardinalityType, FS_EmptySet
<1> DEFINE a == n + Batch - 1
           c == a \div Batch
           r == a % Batch
<1>2. a \in Int /\ a >= Batch OBVIOUS
<1> HIDE DEF a
<1>5. c \in Int /\ r \in 0 .. Batch - 1 /\ a = Batch * c + r
  BY <1>2, DivMod
<1> HIDE DEF c, r
<1>3. c >= 1
  <2>1. SUFFICES ASSUME c <= 0 PROVE FALSE BY <1>5
  <2>2. Batch * c <= 0 BY <2>1, <1>5
  <2>3. QED BY <2>2, <1>2, <1>5
<1>4. QED BY <1>1, <1>5, <1>3 DEF BatchWakeups, CeilDiv, c, a

-----------------------------------------------------------------------------
(* The window of occupied slots under a pop and under a push. *)

\* Two indices of one window never share a slot, so a pop of the n oldest
\* leaves the others where they are.
LEMMA PopKeeps ==
  ASSUME TypeOK, WindowFull, NEW n \in 0 .. ring_size, PopRing(n)
  PROVE  /\ ring' \in [Slots -> Task \cup {NoTask}]
         /\ ring_head' \in Nat /\ ring_head' <= ring_tail'
         /\ ring_tail' = ring_tail /\ ring_tail' - ring_head' <= RingCap
         /\ \A i \in ring_head + n .. ring_tail - 1 :
              ring'[Slot(i)] = ring[Slot(i)]
<1> USE PoolAssumption
<1>1. n \in Nat /\ ring_head + n <= ring_tail BY DEF TypeOK, ring_size
<1>2. ASSUME NEW i \in ring_head + n .. ring_tail - 1
      PROVE  ring'[Slot(i)] = ring[Slot(i)]
  <2> DEFINE d == i - ring_head
  <2>1. d \in 0 .. RingCap - 1 /\ d >= n /\ i = ring_head + d
    BY <1>1 DEF TypeOK
  <2>2. Slot(i) \in Slots /\ Offset(Slot(i), ring_head) = d
    BY <2>1, OffsetAhead DEF TypeOK
  <2>3. QED BY <2>1, <2>2, <1>1 DEF PopRing
<1>3. ring' \in [Slots -> Task \cup {NoTask}] BY DEF PopRing, TypeOK
<1>4. ring_head' = ring_head + n /\ ring_tail' = ring_tail BY DEF PopRing
<1>5. ring_head \in Nat /\ ring_tail \in Nat /\ ring_tail - ring_head <= RingCap
  BY DEF TypeOK
<1>6. QED BY <1>1, <1>2, <1>3, <1>4, <1>5

\* The arithmetic of a push: how much fits.
LEMMA FittingType ==
  ASSUME TypeOK, NEW s \in Seq(Task)
  PROVE  Fitting(s) \in 0 .. Len(s) /\ ring_tail + Fitting(s) - ring_head <= RingCap
<1>1. Len(s) \in Nat BY LenProperties
<1>2. QED BY <1>1, PoolAssumption DEF Fitting, TypeOK, ring_size

\* A push never overwrites an occupied slot, and stores its tasks in order
\* behind the window.
LEMMA PushKeeps ==
  ASSUME TypeOK, WindowFull, NEW t \in Threads, NEW s \in Seq(Task), NEW wake \in Nat,
         Submit(t, s, wake)
  PROVE  /\ ring' \in [Slots -> Task \cup {NoTask}]
         /\ ring_tail' = ring_tail + Fitting(s) /\ ring_head' = ring_head
         /\ \A i \in Window : ring'[Slot(i)] = ring[Slot(i)]
         /\ \A j \in 1 .. Fitting(s) : ring'[Slot(ring_tail + j - 1)] = s[j]
<1> USE PoolAssumption
<1> DEFINE n == Fitting(s)
<1>1. n \in 0 .. Len(s) /\ Len(s) \in Nat /\ ring_tail + n - ring_head <= RingCap
  BY FittingType, LenProperties
<1>2. /\ ring' = [i \in Slots |-> IF Offset(i, ring_tail) < n
                                  THEN s[Offset(i, ring_tail) + 1] ELSE ring[i]]
      /\ ring_tail' = ring_tail + n /\ ring_head' = ring_head
  BY DEF Submit
<1> HIDE DEF n
<1>3. ASSUME NEW i \in Slots
      PROVE  ring'[i] \in Task \cup {NoTask}
  <2>0. i \in Int /\ ring_tail \in Int BY DEF Slots, TypeOK
  <2>1. Offset(i, ring_tail) \in 0 .. RingCap - 1 BY <2>0, OffsetType
  <2>2. CASE Offset(i, ring_tail) < n
    <3>1. Offset(i, ring_tail) + 1 \in 1 .. Len(s) BY <1>1, <2>1, <2>2
    <3>2. s[Offset(i, ring_tail) + 1] \in Task BY <3>1, ElementOfSeq
    <3>3. QED BY <3>2, <2>2, <1>2
  <2>3. CASE ~ (Offset(i, ring_tail) < n)
    BY <2>3, <1>2 DEF TypeOK
  <2>4. QED BY <2>2, <2>3
<1>4. ASSUME NEW i \in Window
      PROVE  ring'[Slot(i)] = ring[Slot(i)]
  <2> DEFINE b == ring_tail - i
  <2>1. /\ b \in 1 .. RingCap /\ i = ring_tail - b /\ ring_tail - b \in Nat
        /\ RingCap - b >= n
    BY <1>1 DEF TypeOK, Window
  <2>2. Slot(i) \in Slots /\ Offset(Slot(i), ring_tail) = RingCap - b
    BY <2>1, OffsetBehind DEF TypeOK
  <2>3. QED BY <2>1, <2>2, <1>1, <1>2
<1>5. ASSUME NEW j \in 1 .. n
      PROVE  ring'[Slot(ring_tail + j - 1)] = s[j]
  <2> DEFINE d == j - 1
  <2>1. d \in 0 .. RingCap - 1 /\ d < n /\ d + 1 = j /\ ring_tail + j - 1 = ring_tail + d
    BY <1>1 DEF TypeOK
  <2>2. Slot(ring_tail + d) \in Slots /\ Offset(Slot(ring_tail + d), ring_tail) = d
    BY <2>1, OffsetAhead DEF TypeOK
  <2>3. QED BY <2>1, <2>2, <1>2
<1>6. ring' \in [Slots -> Task \cup {NoTask}] BY <1>2, <1>3
<1>7. QED BY <1>2, <1>4, <1>5, <1>6 DEF n

-----------------------------------------------------------------------------
(* Types, and the window full of tasks. *)

\* What a caller does: it submits a non-empty sequence of tasks and owes at
\* least one wakeup for it, or it helps.
LEMMA CallCases ==
  ASSUME TypeOK, NEW t \in Threads, Call(t)
  PROVE  \/ TryRunOne(t)
         \/ \E s \in Seq(Task), wake \in Nat \ {0} : Len(s) > 0 /\ Submit(t, s, wake)
<1> USE PoolAssumption
<1>1. CASE \E x \in fresh : PushTask(t, x)
  <2>1. PICK x \in fresh : Submit(t, <<x>>, 1) BY <1>1 DEF PushTask
  <2>2. <<x>> \in Seq(Task) /\ Len(<<x>>) > 0 /\ 1 \in Nat \ {0} BY DEF TypeOK
  <2>3. QED BY <2>1, <2>2, Zenon
<1>2. CASE \E s \in FreshBatches : PushBatch(t, s)
  <2>1. IsFiniteSet(fresh) BY FS_Subset DEF TypeOK
  <2>2. Cardinality(fresh) \in Nat BY <2>1, FS_CardinalityType
  <2>3. PICK n \in 1 .. Cardinality(fresh) : \E s \in [1 .. n -> fresh] : PushBatch(t, s)
    BY <1>2 DEF FreshBatches
  <2>4. PICK s \in [1 .. n -> fresh] : PushBatch(t, s) BY <2>3
  <2>5. n \in Nat \ {0} BY <2>2
  <2>6. s \in Seq(Task) /\ Len(s) = n BY <2>5 DEF TypeOK
  <2>7. BatchWakeups(Len(s)) \in Nat \ {0} BY <2>5, <2>6, BatchWakeupsPositive
  <2>8. QED BY <2>4, <2>5, <2>6, <2>7 DEF PushBatch
<1>3. QED BY <1>1, <1>2 DEF Call

\* Every step keeps the types and fills the window.
LEMMA TypeStep ==
  ASSUME TypeOK, WindowFull, [Next]_vars
  PROVE  TypeOK' /\ WindowFull'
<1> USE PoolAssumption
<1>1. ASSUME NEW t \in Threads, NEW s \in Seq(Task), NEW wake \in Nat, Submit(t, s, wake)
      PROVE  TypeOK' /\ WindowFull'
  <2>1. /\ ring' \in [Slots -> Task \cup {NoTask}]
        /\ ring_tail' = ring_tail + Fitting(s) /\ ring_head' = ring_head
        /\ \A i \in Window : ring'[Slot(i)] = ring[Slot(i)]
        /\ \A j \in 1 .. Fitting(s) : ring'[Slot(ring_tail + j - 1)] = s[j]
    BY <1>1, PushKeeps
  <2>2. Fitting(s) \in 0 .. Len(s) /\ ring_tail + Fitting(s) - ring_head <= RingCap
    BY FittingType
  <2>3. Len(s) \in Nat /\ \A j \in 1 .. Len(s) : s[j] \in Task
    BY LenProperties, ElementOfSeq
  <2>4. ring_head' \in Nat /\ ring_tail' \in Nat /\ ring_head' <= ring_tail'
        /\ ring_tail' - ring_head' <= RingCap
    BY <2>1, <2>2, <2>3 DEF TypeOK
  <2>5. wakeups' \in [Threads -> Nat] BY <1>1 DEF Submit, TypeOK
  <2>6. fresh' \subseteq Task /\ refused' \subseteq Task
    BY <1>1, <2>2, <2>3 DEF Submit, TypeOK
  <2>7. TypeOK' BY <1>1, <2>1, <2>4, <2>5, <2>6 DEF Submit, TypeOK, Slots, Threads
  <2>8. ASSUME NEW i \in ring_head' .. ring_tail' - 1
        PROVE  ring'[Slot(i)] \in Task
    <3>1. CASE i < ring_tail
      BY <3>1, <2>1 DEF Window, WindowFull, TypeOK
    <3>2. CASE i >= ring_tail
      <4> DEFINE j == i - ring_tail + 1
      <4>1. j \in 1 .. Fitting(s) /\ i = ring_tail + j - 1 /\ j \in 1 .. Len(s)
        BY <3>2, <2>1, <2>2, <2>3 DEF TypeOK
      <4>2. QED BY <4>1, <2>1, <2>3
    <3>3. QED BY <3>1, <3>2, <2>1 DEF TypeOK
  <2>9. WindowFull' BY <2>8 DEF WindowFull, Window, Slot
  <2>10. QED BY <2>7, <2>9
<1>2. ASSUME NEW t \in Threads, TryRunOne(t)
      PROVE  TypeOK' /\ WindowFull'
  <2>1. ring_head < ring_tail /\ 1 \in 0 .. ring_size /\ PopRing(1)
    BY <1>2 DEF TryRunOne, ring_empty, ring_size, TypeOK
  <2>2. /\ ring' \in [Slots -> Task \cup {NoTask}]
        /\ ring_head' \in Nat /\ ring_head' <= ring_tail' /\ ring_tail' = ring_tail
        /\ ring_tail' - ring_head' <= RingCap
        /\ \A i \in ring_head + 1 .. ring_tail - 1 : ring'[Slot(i)] = ring[Slot(i)]
    BY <2>1, PopKeeps
  <2>3. ring[Slot(ring_head)] \in Task BY <2>1 DEF WindowFull, Window, TypeOK
  <2>4. stack' \in [Threads -> Seq(Task)] BY <1>2, <2>3 DEF TryRunOne, TypeOK
  <2>5. TypeOK' BY <1>2, <2>2, <2>4 DEF TryRunOne, TypeOK, Slots, Threads
  <2>6. \A i \in ring_head + 1 .. ring_tail - 1 : ring'[Slot(i)] \in Task
    BY <2>2 DEF WindowFull, Window, TypeOK
  <2>7. ring_head' = ring_head + 1 BY <2>1 DEF PopRing
  <2>8. QED BY <2>2, <2>5, <2>6, <2>7 DEF WindowFull, Window, Slot
<1>3. ASSUME NEW w \in Workers, Drain(w)
      PROVE  TypeOK' /\ WindowFull'
  <2> DEFINE n == Drainable
  <2>1. n \in 0 .. ring_size /\ ring_size \in Nat /\ PopRing(n)
    BY <1>3 DEF Drain, Drainable, ring_size, TypeOK
  <2>2. /\ ring' \in [Slots -> Task \cup {NoTask}]
        /\ ring_head' \in Nat /\ ring_head' <= ring_tail' /\ ring_tail' = ring_tail
        /\ ring_tail' - ring_head' <= RingCap
        /\ \A i \in ring_head + n .. ring_tail - 1 : ring'[Slot(i)] = ring[Slot(i)]
    BY <2>1, PopKeeps
  <2> HIDE DEF n
  <2>3. \A i \in 1 .. n : ring[Slot(ring_head + i - 1)] \in Task
    <3>1. \A i \in 1 .. n : ring_head + i - 1 \in Window
      BY <2>1 DEF ring_size, Window, TypeOK
    <3>2. QED BY <3>1 DEF WindowFull
  <2>4. [i \in 1 .. n |-> ring[Slot(ring_head + i - 1)]] \in Seq(Task)
    BY <2>1, <2>3
  <2>5. batch' \in [Workers -> Seq(Task)] BY <1>3, <2>4 DEF Drain, TypeOK, n
  <2>6. TypeOK' BY <1>3, <2>2, <2>5 DEF Drain, TypeOK, Slots, Threads
  <2>7. \A i \in ring_head + n .. ring_tail - 1 : ring'[Slot(i)] \in Task
    BY <2>1, <2>2 DEF WindowFull, Window, TypeOK
  <2>8. ring_head' = ring_head + n BY <2>1 DEF PopRing
  <2>9. QED BY <2>2, <2>6, <2>7, <2>8 DEF WindowFull, Window, Slot
<1>4. ASSUME NEW w \in Workers, Start(w)
      PROVE  TypeOK' /\ WindowFull'
  <2>1. batch[w] \in Seq(Task) /\ batch[w] # <<>> BY <1>4 DEF Start, TypeOK
  <2>2. Head(batch[w]) \in Task /\ Tail(batch[w]) \in Seq(Task)
    BY <2>1, HeadTailProperties
  <2>3. TypeOK' BY <1>4, <2>2, SMTT(30) DEF Start, TypeOK, Slots, Threads
  <2>4. QED BY <1>4, <2>3 DEF Start, WindowFull, Window, Slot
<1>5. ASSUME NEW t \in Threads, Finish(t)
      PROVE  TypeOK' /\ WindowFull'
  <2>1. stack[t] \in Seq(Task) /\ stack[t] # <<>> BY <1>5 DEF Finish, TypeOK
  <2>2. Len(stack[t]) \in Nat \ {0} BY <2>1, EmptySeq
  <2>3. stack[t][Len(stack[t])] \in Task BY <2>1, <2>2, ElementOfSeq
  <2>4. SubSeq(stack[t], 1, Len(stack[t]) - 1) \in Seq(Task) BY <2>1, <2>2
  <2>5. TypeOK' BY <1>5, <2>3, <2>4 DEF Finish, TypeOK, Slots, Threads
  <2>6. QED BY <1>5, <2>5 DEF Finish, WindowFull, Window, Slot
<1>6. ASSUME NEW t \in Threads, NotifyOne(t)
      PROVE  TypeOK' /\ WindowFull'
  <2>1. TypeOK' BY <1>6 DEF NotifyOne, TypeOK, Slots, Threads
  <2>2. QED BY <1>6, <2>1 DEF NotifyOne, WindowFull, Window, Slot
<1>7. ASSUME NEW w \in Workers, Sleep(w) \/ Exit(w) \/ SpuriousWakeup(w)
      PROVE  TypeOK' /\ WindowFull'
  <2>1. TypeOK' BY <1>7 DEF Sleep, Exit, SpuriousWakeup, TypeOK, Slots, Threads
  <2>2. QED BY <1>7, <2>1 DEF Sleep, Exit, SpuriousWakeup, WindowFull, Window, Slot
<1>8. CASE Destroy
  <2>1. TypeOK' BY <1>8 DEF Destroy, SetStop, NotifyAll, Join, TypeOK, Slots, Threads
  <2>2. QED
    BY <1>8, <2>1 DEF Destroy, SetStop, NotifyAll, Join, WindowFull, Window, Slot
<1>9. CASE UNCHANGED vars
  BY <1>9 DEF vars, TypeOK, Slots, Threads, WindowFull, Window, Slot
<1>10. ASSUME NEW t \in Threads, Call(t)
       PROVE  TypeOK' /\ WindowFull'
  BY <1>1, <1>2, <1>10, CallCases
<1>11. QED
  BY <1>3, <1>4, <1>5, <1>6, <1>7, <1>8, <1>9, <1>10 DEF Next, WorkerStep

\* A pool starts well typed, with an empty ring.
LEMMA TypeInit == Init => TypeOK /\ WindowFull
<1> SUFFICES ASSUME Init PROVE TypeOK /\ WindowFull OBVIOUS
<1> USE PoolAssumption DEF Init
<1>1. <<>> \in Seq(Task) OBVIOUS
<1>2. /\ ring \in [Slots -> Task \cup {NoTask}] /\ batch \in [Workers -> Seq(Task)]
      /\ stack \in [Threads -> Seq(Task)] /\ wakeups \in [Threads -> Nat]
  BY <1>1
<1>3. /\ ring_head \in Nat /\ ring_tail \in Nat /\ ring_head <= ring_tail
      /\ ring_tail - ring_head <= RingCap
  BY SMT
<1>4. /\ stop \in BOOLEAN /\ dtor \in {"none", "stopping", "joining", "joined"}
      /\ sleeping \subseteq Workers /\ exited \subseteq Workers
      /\ fresh \subseteq Task /\ refused \subseteq Task /\ done \subseteq Task
  OBVIOUS
<1> HIDE DEF Init
<1>5. TypeOK BY <1>2, <1>3, <1>4 DEF TypeOK
<1>6. WindowFull BY DEF Init, WindowFull, Window
<1>7. QED BY <1>5, <1>6

\* The counters stay within RING_CAP of each other and everything keeps its
\* type, so that push and drain never meet an empty or a foreign slot.
THEOREM TypeCorrect == Spec => [](TypeOK /\ WindowFull)
<1>1. TypeOK /\ WindowFull /\ [Next]_vars => (TypeOK /\ WindowFull)'
  BY TypeStep
<1>2. QED BY TypeInit, <1>1, PTL DEF Spec

-----------------------------------------------------------------------------
(* Workers that have returned, and wakeups. *)

\* A worker returns only after stop with an empty ring, and no push gets in after
\* stop, so the ring stays empty behind it.
LEMMA ExitStep ==
  ASSUME TypeOK, ExitedIsFinal, [Next]_vars
  PROVE  ExitedIsFinal'
<1> USE PoolAssumption DEF ExitedIsFinal
<1>1. ASSUME NEW t \in Threads, NEW s \in Seq(Task), NEW wake \in Nat, Submit(t, s, wake)
      PROVE  ExitedIsFinal'
  <2>1. stop => Fitting(s) = 0 BY DEF Fitting
  <2>2. ring_tail' = ring_tail + Fitting(s) /\ ring_head' = ring_head
    BY <1>1 DEF Submit
  <2>3. stop /\ ring_empty => ring_empty' BY <2>1, <2>2 DEF ring_empty, TypeOK
  <2>4. QED BY <1>1, <2>3 DEF Submit
<1>2. ASSUME NEW t \in Threads, TryRunOne(t)
      PROVE  ExitedIsFinal'
  <2>1. exited = {} BY <1>2 DEF TryRunOne
  <2>2. QED BY <1>2, <2>1 DEF TryRunOne, CanCall
<1>3. ASSUME NEW w \in Workers, Drain(w)
      PROVE  ExitedIsFinal'
  <2>1. exited = {} BY <1>3 DEF Drain
  <2>2. QED BY <1>3, <2>1 DEF Drain
<1>4. ASSUME NEW w \in Workers, Start(w)
      PROVE  ExitedIsFinal'
  <2>1. w \notin exited BY <1>4 DEF Start
  <2>2. QED BY <1>4, <2>1 DEF Start, ring_empty, TypeOK
<1>5. ASSUME NEW t \in Threads, Finish(t)
      PROVE  ExitedIsFinal'
  <2>1. t \notin exited BY <1>5 DEF Finish
  <2>2. \A w \in exited : stack'[w] = stack[w]
    BY <1>5, <2>1 DEF Finish, TypeOK, Threads
  <2>3. QED BY <1>5, <2>2 DEF Finish, ring_empty
<1>6. ASSUME NEW t \in Threads, NotifyOne(t)
      PROVE  ExitedIsFinal'
  BY <1>6 DEF NotifyOne, ring_empty
<1>7. ASSUME NEW w \in Workers, Sleep(w) \/ SpuriousWakeup(w)
      PROVE  ExitedIsFinal'
  BY <1>7 DEF Sleep, SpuriousWakeup, AtFetch, ring_empty
<1>8. ASSUME NEW w \in Workers, Exit(w)
      PROVE  ExitedIsFinal'
  BY <1>8 DEF Exit, AtFetch, ring_empty, TypeOK
<1>9. CASE Destroy
  BY <1>9 DEF Destroy, SetStop, NotifyAll, Join, ring_empty, TypeOK
<1>10. CASE UNCHANGED vars
  BY <1>10 DEF vars, ring_empty
<1>11. ASSUME NEW t \in Threads, Call(t)
       PROVE  ExitedIsFinal'
  BY <1>1, <1>2, <1>11, CallCases
<1>12. QED
  BY <1>3, <1>4, <1>5, <1>6, <1>7, <1>8, <1>9, <1>10, <1>11 DEF Next, WorkerStep

\* The wakeup argument: a push that threw voids the claim, one that did not
\* owes a notify; a notify leaves somebody awake unless all workers have
\* returned, which they do only once the ring is empty for good; and a worker
\* sleeps only on an empty ring.
LEMMA WakeupStep ==
  ASSUME TypeOK, ExitedIsFinal, NoStrandedWork, [Next]_vars
  PROVE  NoStrandedWork'
<1> USE PoolAssumption DEF NoStrandedWork
<1>1. ASSUME NEW t \in Threads, NEW s \in Seq(Task), NEW wake \in Nat \ {0},
             Len(s) > 0, Submit(t, s, wake)
      PROVE  NoStrandedWork'
  <2>1. Fitting(s) \in 0 .. Len(s) /\ Len(s) \in Nat
    BY FittingType, LenProperties
  <2>2. CASE Fitting(s) = Len(s)
    <3>1. wakeups'[t] > 0 BY <1>1, <2>2 DEF Submit, TypeOK
    <3>2. QED BY <3>1
  <2>3. CASE Fitting(s) # Len(s)
    <3>1. Len(s) \in Fitting(s) + 1 .. Len(s) BY <2>1, <2>3
    <3>2. refused' # {} BY <1>1, <3>1 DEF Submit
    <3>3. QED BY <3>2
  <2>4. QED BY <2>2, <2>3
<1>2. ASSUME NEW t \in Threads, TryRunOne(t)
      PROVE  NoStrandedWork'
  BY <1>2 DEF TryRunOne
<1>3. ASSUME NEW w \in Workers, Drain(w) \/ Start(w) \/ Sleep(w) \/ Exit(w) \/ SpuriousWakeup(w)
      PROVE  NoStrandedWork'
  BY <1>3 DEF Drain, Start, Sleep, Exit, SpuriousWakeup, AtFetch, ring_empty, TypeOK
<1>4. ASSUME NEW t \in Threads, Finish(t)
      PROVE  NoStrandedWork'
  BY <1>4 DEF Finish, ring_empty
<1>5. ASSUME NEW t \in Threads, NotifyOne(t)
      PROVE  NoStrandedWork'
  <2>1. CASE sleeping = {}
    <3>1. SUFFICES ASSUME ~ ring_empty' PROVE \E w \in Workers : w \notin sleeping' \cup exited'
      OBVIOUS
    <3>2. exited = {} BY <1>5, <3>1 DEF NotifyOne, ring_empty, ExitedIsFinal
    <3>3. QED BY <1>5, <2>1, <3>2 DEF NotifyOne
  <2>2. CASE sleeping # {}
    <3>1. PICK w \in sleeping : sleeping' = sleeping \ {w} BY <1>5, <2>2 DEF NotifyOne
    <3>2. w \in Workers /\ w \notin exited' BY <1>5 DEF NotifyOne, ExitedIsFinal, TypeOK
    <3>3. QED BY <3>1, <3>2
  <2>3. QED BY <2>1, <2>2
<1>6. CASE Destroy
  <2>1. CASE SetStop BY <2>1 DEF SetStop
  <2>2. CASE NotifyAll
    <3>1. SUFFICES ASSUME ~ ring_empty' PROVE \E w \in Workers : w \notin sleeping' \cup exited'
      OBVIOUS
    <3>2. exited = {} BY <2>2, <3>1 DEF NotifyAll, ring_empty, ExitedIsFinal
    <3>3. QED BY <2>2, <3>2 DEF NotifyAll
  <2>3. CASE Join BY <2>3 DEF Join, ring_empty
  <2>4. QED BY <1>6, <2>1, <2>2, <2>3 DEF Destroy
<1>7. CASE UNCHANGED vars
  BY <1>7 DEF vars, ring_empty
<1>8. ASSUME NEW t \in Threads, Call(t)
      PROVE  NoStrandedWork'
  BY <1>1, <1>2, <1>8, CallCases
<1>9. QED
  BY <1>3, <1>4, <1>5, <1>6, <1>7, <1>8 DEF Next, WorkerStep

\* No lost wakeup, for any number of workers and any BATCH: work in the ring
\* always has an awake worker or a notify call coming, until a push throws.
THEOREM NoLostWakeup == Spec => []NoStrandedWork
<1> DEFINE J == TypeOK /\ WindowFull /\ ExitedIsFinal /\ NoStrandedWork
<1>1. Init => J
  BY TypeInit, PoolAssumption DEF Init, ExitedIsFinal, NoStrandedWork, ring_empty
<1>2. J /\ [Next]_vars => J'
  BY TypeStep, ExitStep, WakeupStep
<1>3. QED BY <1>1, <1>2, PTL DEF Spec

-----------------------------------------------------------------------------
(* No task is lost. *)

\* The elements of a sequence, by index.
LEMMA SeqElements ==
  ASSUME NEW S, NEW s \in Seq(S)
  PROVE  SetOf(s) = {s[i] : i \in 1 .. Len(s)}
BY LenProperties DEF SetOf

\* No step takes a task out of every place it can be in.
LEMMA PlacedStep ==
  ASSUME TypeOK, WindowFull, NothingLost, [Next]_vars
  PROVE  NothingLost'
<1> SUFFICES ASSUME NEW x \in Task PROVE Placed(x)'
  BY DEF NothingLost
<1> USE PoolAssumption
<1>0. Placed(x) BY DEF NothingLost
<1>1. ASSUME NEW t \in Threads, NEW s \in Seq(Task), NEW wake \in Nat, Submit(t, s, wake)
      PROVE  Placed(x)'
  <2>1. /\ ring_tail' = ring_tail + Fitting(s) /\ ring_head' = ring_head
        /\ \A i \in Window : ring'[Slot(i)] = ring[Slot(i)]
        /\ \A j \in 1 .. Fitting(s) : ring'[Slot(ring_tail + j - 1)] = s[j]
    BY <1>1, PushKeeps
  <2>2. Fitting(s) \in 0 .. Len(s) /\ Len(s) \in Nat BY FittingType, LenProperties
  <2>3. CASE x \in fresh
    <3>1. CASE x \in SetOf(s)
      <4>1. PICK j \in 1 .. Len(s) : x = s[j] BY <3>1, SeqElements
      <4>2. CASE j <= Fitting(s)
        <5> DEFINE i == ring_tail + j - 1
        <5>1. i \in ring_head' .. ring_tail' - 1 /\ ring'[Slot(i)] = x
          BY <4>1, <4>2, <2>1, <2>2 DEF TypeOK
        <5>2. QED BY <5>1 DEF Placed, Window, Slot
      <4>3. CASE j > Fitting(s)
        <5>1. j \in Fitting(s) + 1 .. Len(s) BY <4>3, <2>2
        <5>2. x \in refused' BY <1>1, <4>1, <5>1 DEF Submit
        <5>3. QED BY <5>2 DEF Placed
      <4>4. QED BY <4>2, <4>3, <2>2
    <3>2. CASE x \notin SetOf(s) BY <1>1, <2>3, <3>2 DEF Submit, Placed
    <3>3. QED BY <3>1, <3>2
  <2>4. CASE x \in refused \cup done BY <1>1, <2>4 DEF Submit, Placed
  <2>5. CASE \E i \in Window : ring[Slot(i)] = x
    <3>1. PICK i \in Window : ring'[Slot(i)] = x BY <2>5, <2>1
    <3>2. i \in ring_head' .. ring_tail' - 1 BY <2>1, <2>2 DEF Window, TypeOK
    <3>3. QED BY <3>1, <3>2 DEF Placed, Window, Slot
  <2>6. CASE \/ \E w \in Workers : x \in SetOf(batch[w])
             \/ \E u \in Threads : x \in SetOf(stack[u])
    BY <1>1, <2>6 DEF Submit, Placed, SetOf, Threads
  <2>7. QED BY <1>0, <2>3, <2>4, <2>5, <2>6 DEF Placed
<1>2. ASSUME NEW t \in Threads, TryRunOne(t)
      PROVE  Placed(x)'
  <2>1. ring_head < ring_tail /\ 1 \in 0 .. ring_size /\ PopRing(1)
    BY <1>2 DEF TryRunOne, ring_empty, ring_size, TypeOK
  <2>2. \A i \in ring_head + 1 .. ring_tail - 1 : ring'[Slot(i)] = ring[Slot(i)]
    BY <2>1, PopKeeps
  <2>3. ring_head' = ring_head + 1 /\ ring_tail' = ring_tail BY <2>1 DEF PopRing
  <2> DEFINE y == ring[Slot(ring_head)]
  <2>4. y \in Task BY <2>1 DEF WindowFull, Window, TypeOK
  <2>5. stack[t] \in Seq(Task) /\ stack'[t] = Append(stack[t], y)
        /\ \A u \in Threads : u # t => stack'[u] = stack[u]
    BY <1>2 DEF TryRunOne, TypeOK
  <2> HIDE DEF y
  <2>6. SetOf(stack'[t]) = SetOf(stack[t]) \cup {y}
    <3>1. /\ Append(stack[t], y) \in Seq(Task)
          /\ Len(Append(stack[t], y)) = Len(stack[t]) + 1
          /\ \A i \in 1 .. Len(stack[t]) : Append(stack[t], y)[i] = stack[t][i]
          /\ Append(stack[t], y)[Len(stack[t]) + 1] = y
          /\ Len(stack[t]) \in Nat
      BY <2>4, <2>5, AppendProperties, LenProperties
    <3>2. SetOf(Append(stack[t], y)) = {Append(stack[t], y)[i] : i \in 1 .. Len(stack[t]) + 1}
      BY <3>1, SeqElements
    <3>3. SetOf(stack[t]) = {stack[t][i] : i \in 1 .. Len(stack[t])}
      BY <2>5, SeqElements
    <3>4. QED BY <3>1, <3>2, <3>3, <2>5
  <2>7. CASE \E i \in Window : ring[Slot(i)] = x
    <3>1. PICK i \in Window : ring[Slot(i)] = x BY <2>7
    <3>2. CASE i = ring_head
      BY <3>1, <3>2, <2>6 DEF Placed, y
    <3>3. CASE i # ring_head
      <4>1. i \in ring_head' .. ring_tail' - 1 /\ ring'[Slot(i)] = x
        BY <3>1, <3>3, <2>2, <2>3 DEF Window, TypeOK
      <4>2. QED BY <4>1 DEF Placed, Window, Slot
    <3>4. QED BY <3>2, <3>3
  <2>8. CASE \E u \in Threads : x \in SetOf(stack[u])
    BY <2>8, <2>5, <2>6 DEF Placed
  <2>9. CASE x \in fresh \cup refused \cup done \/ \E w \in Workers : x \in SetOf(batch[w])
    BY <1>2, <2>9 DEF TryRunOne, Placed
  <2>10. QED BY <1>0, <2>7, <2>8, <2>9 DEF Placed
<1>3. ASSUME NEW w \in Workers, Drain(w)
      PROVE  Placed(x)'
  <2> DEFINE n == Drainable
  <2>1. n \in 0 .. ring_size /\ ring_size \in Nat /\ PopRing(n)
    BY <1>3 DEF Drain, Drainable, ring_size, TypeOK
  <2>2. \A i \in ring_head + n .. ring_tail - 1 : ring'[Slot(i)] = ring[Slot(i)]
    BY <2>1, PopKeeps
  <2>3. ring_head' = ring_head + n /\ ring_tail' = ring_tail BY <2>1 DEF PopRing
  <2>4. batch'[w] = [i \in 1 .. n |-> ring[Slot(ring_head + i - 1)]]
        /\ batch[w] = <<>> /\ (\A v \in Workers : v # w => batch'[v] = batch[v])
    BY <1>3 DEF Drain, AtFetch, TypeOK
  <2> HIDE DEF n
  <2>5. CASE \E i \in Window : ring[Slot(i)] = x
    <3>1. PICK i \in Window : ring[Slot(i)] = x BY <2>5
    <3>2. CASE i < ring_head + n
      <4> DEFINE j == i - ring_head + 1
      <4>1. j \in 1 .. n /\ ring_head + j - 1 = i
        BY <3>2, <2>1 DEF Window, TypeOK
      <4>2. DOMAIN batch'[w] = 1 .. n /\ batch'[w][j] = x BY <4>1, <2>4, <3>1
      <4>3. x \in SetOf(batch'[w]) BY <4>1, <4>2 DEF SetOf
      <4>4. QED BY <4>3 DEF Placed, SetOf
    <3>3. CASE i >= ring_head + n
      <4>1. i \in ring_head' .. ring_tail' - 1 /\ ring'[Slot(i)] = x
        BY <3>1, <3>3, <2>1, <2>2, <2>3 DEF Window, TypeOK
      <4>2. QED BY <4>1 DEF Placed, Window, Slot
    <3>4. QED BY <3>2, <3>3, <2>1 DEF Window, TypeOK
  <2>6. CASE \E v \in Workers : x \in SetOf(batch[v])
    <3>1. PICK v \in Workers : x \in SetOf(batch[v]) BY <2>6
    <3>2. v # w BY <3>1, <2>4 DEF SetOf
    <3>3. QED BY <3>1, <3>2, <2>4 DEF Placed
  <2>7. CASE x \in fresh \cup refused \cup done \/ \E u \in Threads : x \in SetOf(stack[u])
    BY <1>3, <2>7 DEF Drain, Placed
  <2>8. QED BY <1>0, <2>5, <2>6, <2>7 DEF Placed
<1>4. ASSUME NEW w \in Workers, Start(w)
      PROVE  Placed(x)'
  <2>1. batch[w] \in Seq(Task) /\ batch[w] # <<>> BY <1>4 DEF Start, TypeOK
  <2>2. /\ stack'[w] = <<Head(batch[w])>> /\ stack[w] = <<>> /\ batch'[w] = Tail(batch[w])
        /\ \A u \in Threads : u # w => stack'[u] = stack[u]
        /\ \A v \in Workers : v # w => batch'[v] = batch[v]
    BY <1>4 DEF Start, TypeOK, Threads
  <2>3. SetOf(batch[w]) \subseteq SetOf(<<Head(batch[w])>>) \cup SetOf(Tail(batch[w]))
    <3>1. Len(batch[w]) \in Nat \ {0} BY <2>1, EmptySeq
    <3>2. /\ Tail(batch[w]) \in Seq(Task) /\ Len(Tail(batch[w])) = Len(batch[w]) - 1
          /\ \A i \in 1 .. Len(Tail(batch[w])) : Tail(batch[w])[i] = batch[w][i + 1]
          /\ Head(batch[w]) \in Task
      BY <2>1, HeadTailProperties
    <3>3. Head(batch[w]) = batch[w][1] BY <2>1
    <3>4. ASSUME NEW i \in 1 .. Len(batch[w])
          PROVE  batch[w][i] \in SetOf(<<Head(batch[w])>>) \cup SetOf(Tail(batch[w]))
      <4>1. CASE i = 1 BY <3>3, <4>1 DEF SetOf
      <4>2. CASE i # 1
        <5>1. i - 1 \in 1 .. Len(Tail(batch[w])) /\ (i - 1) + 1 = i BY <3>1, <3>2, <4>2
        <5>2. Tail(batch[w])[i - 1] = batch[w][i] BY <5>1, <3>2
        <5>3. QED BY <5>1, <5>2, <3>2, SeqElements, ZenonT(60)
      <4>3. QED BY <4>1, <4>2
    <3>5. QED BY <3>4, <2>1, SeqElements
  <2>4. CASE \E v \in Workers : x \in SetOf(batch[v])
    <3>1. PICK v \in Workers : x \in SetOf(batch[v]) BY <2>4
    <3>2. CASE v = w
      <4>1. x \in SetOf(stack'[w]) \/ x \in SetOf(batch'[w]) BY <3>1, <3>2, <2>2, <2>3
      <4>2. QED BY <4>1 DEF Placed, SetOf, Threads
    <3>3. CASE v # w BY <3>1, <3>3, <2>2 DEF Placed, SetOf
    <3>4. QED BY <3>2, <3>3
  <2>5. CASE \E u \in Threads : x \in SetOf(stack[u])
    <3>1. PICK u \in Threads : x \in SetOf(stack[u]) BY <2>5
    <3>2. u # w BY <3>1, <2>2 DEF SetOf
    <3>3. QED BY <3>1, <3>2, <2>2 DEF Placed, SetOf
  <2>6. CASE x \in fresh \cup refused \cup done \/ \E i \in Window : ring[Slot(i)] = x
    BY <1>4, <2>6 DEF Start, Placed, Window, Slot
  <2>7. QED BY <1>0, <2>4, <2>5, <2>6 DEF Placed
<1>5. ASSUME NEW t \in Threads, Finish(t)
      PROVE  Placed(x)'
  <2> DEFINE s == stack[t]
             m == Len(stack[t])
  <2>1. s \in Seq(Task) /\ m \in Nat \ {0} /\ s # <<>>
    <3>1. s \in Seq(Task) /\ s # <<>> BY <1>5 DEF Finish, TypeOK
    <3>2. QED BY <3>1, EmptySeq
  <2>2. /\ stack'[t] = SubSeq(s, 1, m - 1) /\ done' = done \cup {s[m]}
        /\ \A u \in Threads : u # t => stack'[u] = stack[u]
    BY <1>5 DEF Finish, TypeOK
  <2> HIDE DEF s, m
  <2>3. SetOf(s) \subseteq {s[m]} \cup SetOf(stack'[t])
    <3>1. SubSeq(s, 1, m - 1) \in Seq(Task) /\ Len(SubSeq(s, 1, m - 1)) = m - 1
          /\ \A i \in 1 .. m - 1 : SubSeq(s, 1, m - 1)[i] = s[i]
      BY <2>1 DEF m, s
    <3>2. SetOf(SubSeq(s, 1, m - 1)) = {SubSeq(s, 1, m - 1)[i] : i \in 1 .. m - 1}
      BY <3>1, SeqElements
    <3>3. SetOf(s) = {s[i] : i \in 1 .. m} BY <2>1, SeqElements DEF m, s
    <3>4. ASSUME NEW i \in 1 .. m
          PROVE  s[i] \in {s[m]} \cup SetOf(stack'[t])
      <4>1. CASE i = m BY <4>1
      <4>2. CASE i # m
        <5>1. i \in 1 .. m - 1 BY <4>2, <2>1
        <5>2. QED BY <5>1, <3>1, <3>2, <2>2
      <4>3. QED BY <4>1, <4>2
    <3>5. QED BY <3>3, <3>4
  <2>4. CASE \E u \in Threads : x \in SetOf(stack[u])
    <3>1. PICK u \in Threads : x \in SetOf(stack[u]) BY <2>4
    <3>2. CASE u = t BY <3>1, <3>2, <2>2, <2>3 DEF Placed, SetOf, s
    <3>3. CASE u # t BY <3>1, <3>3, <2>2 DEF Placed, SetOf
    <3>4. QED BY <3>2, <3>3
  <2>5. CASE \/ x \in fresh \cup refused \cup done
             \/ \E i \in Window : ring[Slot(i)] = x
             \/ \E w \in Workers : x \in SetOf(batch[w])
    BY <1>5, <2>5 DEF Finish, Placed, Window, Slot, SetOf
  <2>6. QED BY <1>0, <2>4, <2>5 DEF Placed
<1>6. ASSUME \/ \E t \in Threads : NotifyOne(t)
             \/ \E w \in Workers : Sleep(w) \/ Exit(w) \/ SpuriousWakeup(w)
             \/ Destroy \/ UNCHANGED vars
      PROVE  Placed(x)'
  <2>1. UNCHANGED <<ring, ring_head, ring_tail, batch, stack, fresh, refused, done>>
    BY <1>6 DEF NotifyOne, Sleep, Exit, SpuriousWakeup, Destroy, SetStop, NotifyAll, Join, vars
  <2>2. QED BY <2>1, <1>0 DEF Placed, Window, Slot, SetOf, Threads
<1>7. ASSUME NEW t \in Threads, Call(t)
      PROVE  Placed(x)'
  BY <1>1, <1>2, <1>7, CallCases
<1>8. QED
  BY <1>3, <1>4, <1>5, <1>6, <1>7 DEF Next, WorkerStep

\* At the start every task is still to be pushed.
LEMMA PlacedInit == Init => NothingLost
BY DEF Init, NothingLost, Placed

\* Whatever was pushed is accounted for: waiting in the ring, in a worker's
\* chunk, inside some thread, done, or refused by a push that threw.
THEOREM TasksAreNeverLost == Spec => []NothingLost
<1> DEFINE J == TypeOK /\ WindowFull /\ NothingLost
<1>1. Init => J BY TypeInit, PlacedInit
<1>2. J /\ [Next]_vars => J' BY TypeStep, PlacedStep
<1>3. QED BY <1>1, <1>2, PTL DEF Spec

\* "Waits for all tasks to complete": when the destructor has joined the
\* workers, they have returned with empty hands and the ring is empty, so a
\* task that is not done was never accepted or is inside a caller's own
\* try_run_one.
THEOREM DestructorDrains == Spec => []JoinedMeansDrained
<1> DEFINE J == TypeOK /\ WindowFull /\ ExitedIsFinal /\ NothingLost
<1>1. Init => J
  BY TypeInit, PlacedInit, PoolAssumption DEF Init, ExitedIsFinal
<1>2. J /\ [Next]_vars => J' BY TypeStep, ExitStep, PlacedStep
<1>3. J => JoinedMeansDrained
  <2>1. SUFFICES ASSUME J, dtor = "joined", NEW x \in Task,
                        x \notin fresh \cup refused \cup done
                 PROVE  \E t \in Externals : x \in SetOf(stack[t])
    BY DEF JoinedMeansDrained
  <2>2. exited = Workers /\ Workers # {} /\ ring_empty
    BY <2>1, PoolAssumption DEF ExitedIsFinal
  <2>3. Window = {} BY <2>1, <2>2 DEF Window, ring_empty, TypeOK
  <2>4. \A w \in Workers : SetOf(batch[w]) = {} /\ SetOf(stack[w]) = {}
    BY <2>1, <2>2 DEF ExitedIsFinal, SetOf
  <2>5. QED BY <2>1, <2>3, <2>4 DEF NothingLost, Placed, Threads
<1>4. QED BY <1>1, <1>2, <1>3, PTL DEF Spec

-----------------------------------------------------------------------------
(* No task is in two places. *)

\* What a family f of sequences over D holds, and that it holds nothing twice.
InAny(f, D) == UNION {SetOf(f[d]) : d \in D}
Once(f, D) ==
  \A d, e \in D : \A i \in DOMAIN f[d], j \in DOMAIN f[e] :
    f[d][i] = f[e][j] => d = e /\ i = j

\* g is f, but for one task y, in no sequence of f, at the end of d's.
Longer(f, g, D, d, y) ==
  /\ f \in [D -> Seq(Task)] /\ d \in D /\ y \in Task /\ y \notin InAny(f, D)
  /\ g = [f EXCEPT ![d] = Append(@, y)]

\* g is f, but for the element k of d's sequence, which s leaves out.
Shorter(f, g, D, d, k, s, shift) ==
  /\ DOMAIN f = D /\ d \in D /\ k \in DOMAIN f[d] /\ g = [f EXCEPT ![d] = s]
  /\ shift \in Int /\ DOMAIN f[d] \subseteq Int /\ DOMAIN s \subseteq Int
  /\ \A i \in DOMAIN s : i + shift \in DOMAIN f[d] /\ i + shift # k /\ s[i] = f[d][i + shift]
  /\ \A i \in DOMAIN f[d] : i # k => i - shift \in DOMAIN s

\* g is f, but for d's sequence, which was empty and is s, of different tasks that
\* were in no sequence of f.
Filled(f, g, D, d, s) ==
  /\ DOMAIN f = D /\ d \in D /\ f[d] = <<>> /\ SetOf(s) \cap InAny(f, D) = {}
  /\ \A i, j \in DOMAIN s : s[i] = s[j] => i = j
  /\ g = [f EXCEPT ![d] = s]

\* A sequence of the family gets a task that was in none.
LEMMA AppendKeepsOnce ==
  ASSUME NEW D, NEW f, NEW g, NEW d, NEW y, Longer(f, g, D, d, y), Once(f, D)
  PROVE  Once(g, D) /\ InAny(g, D) = InAny(f, D) \cup {y}
<1>0. /\ f \in [D -> Seq(Task)] /\ d \in D /\ y \in Task /\ y \notin InAny(f, D)
      /\ g = [f EXCEPT ![d] = Append(@, y)]
  BY DEF Longer
<1>1. /\ f[d] \in Seq(Task) /\ g[d] = Append(f[d], y)
      /\ \A e \in D : e # d => g[e] = f[e]
  BY <1>0
<1>2. /\ Len(f[d]) \in Nat /\ DOMAIN f[d] = 1 .. Len(f[d])
      /\ DOMAIN g[d] = 1 .. Len(f[d]) + 1
      /\ \A i \in 1 .. Len(f[d]) : g[d][i] = f[d][i]
      /\ g[d][Len(f[d]) + 1] = y
  BY <1>1, AppendProperties, LenProperties
<1>3. ASSUME NEW e \in D, NEW i \in DOMAIN g[e]
      PROVE  \/ i \in DOMAIN f[e] /\ g[e][i] = f[e][i] /\ f[e][i] \in InAny(f, D)
             \/ e = d /\ i = Len(f[d]) + 1 /\ g[e][i] = y
  <2>1. CASE e = d /\ i = Len(f[d]) + 1
    BY <2>1, <1>2
  <2>2. CASE ~ (e = d /\ i = Len(f[d]) + 1)
    <3>1. i \in DOMAIN f[e] /\ g[e][i] = f[e][i]
      BY <2>2, <1>1, <1>2, <1>3, SMTT(30)
    <3> QED
      BY <3>1 DEF InAny, SetOf
  <2> QED
    BY <2>1, <2>2
<1>4. Once(g, D)
  <2> SUFFICES ASSUME NEW a \in D, NEW b \in D, NEW i \in DOMAIN g[a], NEW j \in DOMAIN g[b],
                      g[a][i] = g[b][j]
               PROVE  a = b /\ i = j
    BY DEF Once
  <2> QED
    BY <1>0, <1>3 DEF Once
<1>5. InAny(g, D) \subseteq InAny(f, D) \cup {y}
  BY <1>3 DEF InAny, SetOf
<1>6. ASSUME NEW e \in D, NEW i \in DOMAIN f[e]
      PROVE  i \in DOMAIN g[e] /\ g[e][i] = f[e][i]
  BY <1>0, <1>1, <1>2, <1>6
<1>7. y \in InAny(g, D)
  BY <1>0, <1>2 DEF InAny, SetOf
<1>8. InAny(f, D) \subseteq InAny(g, D)
  BY <1>6 DEF InAny, SetOf
<1> QED
  BY <1>4, <1>5, <1>7, <1>8

\* A sequence is replaced by a part of itself that leaves out one element.
LEMMA RemoveKeepsOnce ==
  ASSUME NEW D, NEW f, NEW g, NEW d, NEW k, NEW s, NEW shift,
         Shorter(f, g, D, d, k, s, shift), Once(f, D)
  PROVE  /\ Once(g, D) /\ f[d][k] \in InAny(f, D)
         /\ InAny(g, D) = InAny(f, D) \ {f[d][k]}
<1>0. /\ DOMAIN f = D /\ d \in D /\ k \in DOMAIN f[d] /\ g = [f EXCEPT ![d] = s]
      /\ shift \in Int /\ DOMAIN f[d] \subseteq Int /\ DOMAIN s \subseteq Int
      /\ \A i \in DOMAIN s : /\ i + shift \in DOMAIN f[d] /\ i + shift # k
                              /\ s[i] = f[d][i + shift]
      /\ \A i \in DOMAIN f[d] : i # k => i - shift \in DOMAIN s
  BY DEF Shorter
<1>1. g[d] = s /\ \A e \in D : e # d => g[e] = f[e]
  BY <1>0
<1>2. ASSUME NEW e \in D, NEW i \in DOMAIN g[e]
      PROVE  \E j \in DOMAIN f[e] : /\ g[e][i] = f[e][j] /\ ~ (e = d /\ j = k)
                                    /\ j = IF e = d THEN i + shift ELSE i
  BY <1>0, <1>1, <1>2
<1>3. Once(g, D)
  <2> SUFFICES ASSUME NEW a \in D, NEW b \in D, NEW i \in DOMAIN g[a], NEW j \in DOMAIN g[b],
                      g[a][i] = g[b][j]
               PROVE  a = b /\ i = j
    BY DEF Once
  <2>1. PICK m \in DOMAIN f[a] : g[a][i] = f[a][m] /\ m = IF a = d THEN i + shift ELSE i
    BY <1>2
  <2>2. PICK n \in DOMAIN f[b] : g[b][j] = f[b][n] /\ n = IF b = d THEN j + shift ELSE j
    BY <1>2
  <2>0. f[a][m] = f[b][n]
    BY <2>1, <2>2
  <2>3. a = b /\ m = n
    BY <2>0, Zenon DEF Once
  <2>4. CASE a = d
    <3>1. b = d /\ g[a] = s /\ g[b] = s
      BY <1>1, <2>3, <2>4
    <3>2. i \in DOMAIN s /\ j \in DOMAIN s
      BY <3>1
    <3>3. i \in Int /\ j \in Int /\ shift \in Int
      BY <1>0, <3>2
    <3>4. i + shift = j + shift
      BY <2>1, <2>2, <2>3, <2>4, <3>1
    <3>5. i = j
      BY <3>3, <3>4, SMT
    <3> QED
      BY <2>3, <3>5
  <2>5. CASE a # d
    BY <2>1, <2>2, <2>3, <2>5
  <2> QED
    BY <2>4, <2>5
<1>4. f[d][k] \in InAny(f, D)
  BY <1>0 DEF InAny, SetOf
<1>5. ASSUME NEW x \in InAny(g, D)
      PROVE  x \in InAny(f, D) /\ x # f[d][k]
  <2>1. PICK e \in D : \E i \in DOMAIN g[e] : x = g[e][i]
    BY <1>5 DEF InAny, SetOf
  <2>2. PICK j \in DOMAIN f[e] : x = f[e][j] /\ ~ (e = d /\ j = k)
    BY <1>2, <2>1
  <2> QED
    BY <1>0, <2>2 DEF InAny, SetOf, Once
<1>6. ASSUME NEW x \in InAny(f, D), x # f[d][k]
      PROVE  x \in InAny(g, D)
  <2>1. PICK e \in D : \E i \in DOMAIN f[e] : x = f[e][i]
    BY <1>6 DEF InAny, SetOf
  <2>2. PICK i \in DOMAIN f[e] : x = f[e][i]
    BY <2>1
  <2>3. CASE e = d
    <3>1. i \in Int /\ shift \in Int /\ i - shift \in DOMAIN s /\ i \in DOMAIN f[d]
      BY <1>0, <1>6, <2>2, <2>3
    <3>2. (i - shift) + shift = i
      BY <3>1
    <3>3. s[i - shift] = x
      BY <1>0, <2>2, <2>3, <3>1, <3>2
    <3> QED
      BY <1>0, <1>1, <3>1, <3>3 DEF InAny, SetOf
  <2>4. CASE e # d
    BY <1>1, <2>2, <2>4 DEF InAny, SetOf
  <2> QED
    BY <2>3, <2>4
<1> QED
  BY <1>3, <1>4, <1>5, <1>6

\* An empty sequence becomes one of different tasks that were in none.
LEMMA FillKeepsOnce ==
  ASSUME NEW D, NEW f, NEW g, NEW d, NEW s, Filled(f, g, D, d, s), Once(f, D)
  PROVE  Once(g, D) /\ InAny(g, D) = InAny(f, D) \cup SetOf(s)
<1>0. /\ DOMAIN f = D /\ d \in D /\ f[d] = <<>> /\ SetOf(s) \cap InAny(f, D) = {}
      /\ \A i, j \in DOMAIN s : s[i] = s[j] => i = j
      /\ g = [f EXCEPT ![d] = s]
  BY DEF Filled
<1>1. g[d] = s /\ \A e \in D : e # d => g[e] = f[e]
  BY <1>0
<1>2. ASSUME NEW e \in D, NEW i \in DOMAIN g[e]
      PROVE  IF e = d THEN i \in DOMAIN s /\ g[e][i] = s[i] /\ s[i] \in SetOf(s)
             ELSE i \in DOMAIN f[e] /\ g[e][i] = f[e][i] /\ f[e][i] \in InAny(f, D)
  BY <1>1, <1>2 DEF InAny, SetOf
<1>3. Once(g, D)
  <2> SUFFICES ASSUME NEW a \in D, NEW b \in D, NEW i \in DOMAIN g[a], NEW j \in DOMAIN g[b],
                      g[a][i] = g[b][j]
               PROVE  a = b /\ i = j
    BY DEF Once
  <2> QED
    BY <1>0, <1>2 DEF Once
<1>4. InAny(g, D) \subseteq InAny(f, D) \cup SetOf(s)
  BY <1>2 DEF InAny, SetOf
<1>5. ASSUME NEW e \in D, e # d
      PROVE  SetOf(f[e]) = SetOf(g[e])
  BY <1>1, <1>5
<1>6. SetOf(f[d]) = {} /\ SetOf(g[d]) = SetOf(s)
  BY <1>0, <1>1 DEF SetOf
<1>7. InAny(f, D) \cup SetOf(s) \subseteq InAny(g, D)
  <2>1. SetOf(s) \subseteq InAny(g, D)
    BY <1>0, <1>6 DEF InAny
  <2>2. ASSUME NEW e \in D
        PROVE  SetOf(f[e]) \subseteq InAny(g, D)
    BY <1>5, <1>6 DEF InAny
  <2> QED
    BY <2>1, <2>2 DEF InAny
<1> QED
  BY <1>3, <1>4, <1>7

\* The tasks in the ring, in workers' chunks, and inside threads.
InRing    == {ring[i] : i \in Slots} \ {NoTask}
InBatches == InAny(batch, Workers)
InStacks  == InAny(stack, Threads)

\* The tasks that threads have taken and not finished.
Active    == InBatches \cup InStacks

\* The six kinds of place share no task.
Apart ==
  /\ fresh \cap refused = {} /\ fresh \cap done = {} /\ refused \cap done = {}
  /\ (fresh \cup refused \cup done) \cap (InRing \cup InBatches \cup InStacks) = {}
  /\ InRing \cap InBatches = {} /\ InRing \cap InStacks = {} /\ InBatches \cap InStacks = {}

\* No task is in two slots.
RingOnce == \A i, j \in Slots : ring[i] = ring[j] /\ ring[i] # NoTask => i = j

NothingTwice == Apart /\ RingOnce /\ Once(batch, Workers) /\ Once(stack, Threads)

\* A slot is determined by how far it lies past an index.
LEMMA OffsetInjective ==
  ASSUME NEW k \in Int, NEW i \in Slots, NEW j \in Slots, Offset(i, k) = Offset(j, k)
  PROVE  i = j
<1> USE PoolAssumption
<1> DEFINE a == i - k
           b == j - k
<1>1. a \in Int /\ b \in Int /\ a - b < RingCap /\ b - a < RingCap /\ a % RingCap = b % RingCap
  BY DEF Offset, Slots
<1>2. a = b
  <2> HIDE DEF a, b
  <2> QED
    BY <1>1, ModEqual
<1> QED
  BY <1>2 DEF Slots

\* A pop empties the slots of the n oldest tasks, which are n different ones.
LEMMA PopMoves ==
  ASSUME TypeOK, WindowFull, RingOnce, NEW n \in 0 .. ring_size, PopRing(n)
  PROVE  LET out == [j \in 1 .. n |-> ring[Slot(ring_head + j - 1)]] IN
         /\ out \in Seq(Task) /\ SetOf(out) \subseteq InRing
         /\ \A i, j \in DOMAIN out : out[i] = out[j] => i = j
         /\ RingOnce' /\ InRing' \subseteq InRing \ SetOf(out)
<1> USE PoolAssumption
<1> DEFINE out == [j \in 1 .. n |-> ring[Slot(ring_head + j - 1)]]
<1>1. /\ n \in Nat /\ n <= RingCap /\ ring_head + n <= ring_tail /\ ring_head \in Nat
      /\ ring_tail \in Nat
  BY DEF TypeOK, ring_size
<1>2. ASSUME NEW j \in 1 .. n
      PROVE  /\ Slot(ring_head + j - 1) \in Slots
             /\ Offset(Slot(ring_head + j - 1), ring_head) = j - 1
             /\ ring[Slot(ring_head + j - 1)] \in Task
  <2> DEFINE d == j - 1
  <2>1. d \in 0 .. RingCap - 1 /\ ring_head + j - 1 = ring_head + d
    BY <1>1
  <2>2. ring_head + d \in Window
    BY <1>1, <2>1 DEF Window
  <2>3. Slot(ring_head + d) \in Slots /\ Offset(Slot(ring_head + d), ring_head) = d
    BY <1>1, <2>1, OffsetAhead
  <2> QED
    BY <2>1, <2>2, <2>3 DEF WindowFull
<1>3. out \in Seq(Task) /\ DOMAIN out = 1 .. n
  <2>1. DOMAIN out = 1 .. n
    OBVIOUS
  <2>2. out \in [1 .. n -> Task]
    BY <1>2
  <2> HIDE DEF out
  <2> QED
    BY <1>1, <2>1, <2>2
<1>4. SetOf(out) \subseteq InRing
  BY <1>2, <1>3 DEF SetOf, InRing
<1>5. ASSUME NEW i \in 1 .. n, NEW j \in 1 .. n, out[i] = out[j]
      PROVE  i = j
  <2>1. Slot(ring_head + i - 1) = Slot(ring_head + j - 1)
    BY <1>2, <1>5 DEF RingOnce
  <2>2. i - 1 = j - 1
    BY <1>2, <2>1
  <2> QED
    BY <2>2
<1>6. ring' = [i \in Slots |-> IF Offset(i, ring_head) < n THEN NoTask ELSE ring[i]]
  BY DEF PopRing
<1>7. RingOnce'
  BY <1>6 DEF RingOnce
<1>8. ASSUME NEW i \in Slots, ring'[i] # NoTask
      PROVE  ring'[i] \in InRing \ SetOf(out)
  <2>1. ring'[i] = ring[i] /\ ~ (Offset(i, ring_head) < n)
    BY <1>6, <1>8
  <2>2. ASSUME NEW j \in 1 .. n
        PROVE  ring[i] # out[j]
    <3>1. i # Slot(ring_head + j - 1)
      BY <1>2, <2>1
    <3> QED
      BY <1>2, <1>8, <2>1, <3>1 DEF RingOnce
  <2> QED
    BY <1>3, <1>8, <2>1, <2>2 DEF InRing, SetOf
<1>9. InRing' \subseteq InRing \ SetOf(out)
  BY <1>8 DEF InRing, Slots
<1> QED
  BY <1>3, <1>4, <1>5, <1>7, <1>9

\* What a caller submits are different fresh tasks.
LEMMA SubmitsDistinct ==
  ASSUME TypeOK, NEW t \in Threads, Call(t)
  PROVE  \/ TryRunOne(t)
         \/ \E s \in Seq(fresh), wake \in Nat :
              /\ \A i, j \in 1 .. Len(s) : s[i] = s[j] => i = j
              /\ Submit(t, s, wake)
<1> USE PoolAssumption
<1>1. CASE \E x \in fresh : PushTask(t, x)
  <2>1. PICK x \in fresh : Submit(t, <<x>>, 1)
    BY <1>1 DEF PushTask
  <2>2. <<x>> \in Seq(fresh) /\ Len(<<x>>) = 1 /\ 1 \in Nat
    OBVIOUS
  <2>3. \A i, j \in 1 .. Len(<<x>>) : <<x>>[i] = <<x>>[j] => i = j
    BY <2>2
  <2> QED
    BY <2>1, <2>2, <2>3, Zenon
<1>2. CASE \E s \in FreshBatches : PushBatch(t, s)
  <2>1. IsFiniteSet(fresh)
    BY FS_Subset DEF TypeOK
  <2>2. Cardinality(fresh) \in Nat
    BY <2>1, FS_CardinalityType
  <2>3. PICK n \in 1 .. Cardinality(fresh) :
          \E s \in [1 .. n -> fresh] :
            (\A i, j \in 1 .. n : i # j => s[i] # s[j]) /\ PushBatch(t, s)
    BY <1>2 DEF FreshBatches
  <2>4. PICK s \in [1 .. n -> fresh] :
          (\A i, j \in 1 .. n : i # j => s[i] # s[j]) /\ PushBatch(t, s)
    BY <2>3
  <2>5. n \in Nat \ {0}
    BY <2>2
  <2>6. s \in Seq(fresh) /\ s \in Seq(Task) /\ Len(s) = n
    BY <2>5 DEF TypeOK
  <2>7. BatchWakeups(Len(s)) \in Nat
    BY <2>5, <2>6, BatchWakeupsPositive
  <2> QED
    BY <2>4, <2>6, <2>7 DEF PushBatch
<1> QED
  BY <1>1, <1>2 DEF Call

\* A push moves different fresh tasks into slots of the ring, or refuses them.
LEMMA SubmitKeepsOnce ==
  ASSUME TypeOK, WindowFull, NothingTwice, NEW t \in Threads, NEW s \in Seq(fresh),
         NEW wake \in Nat, \A i, j \in 1 .. Len(s) : s[i] = s[j] => i = j,
         Submit(t, s, wake)
  PROVE  NothingTwice' /\ Active' = Active
<1> USE PoolAssumption
<1> DEFINE n == Fitting(s)
           A == {s[i] : i \in 1 .. n}
           B == {s[i] : i \in n + 1 .. Len(s)}
<1>1. s \in Seq(Task) /\ Len(s) \in Nat /\ fresh \subseteq Task
  BY DEF TypeOK
<1>2. n \in 0 .. Len(s)
  BY <1>1, FittingType
<1>3. /\ ring' = [i \in Slots |-> IF Offset(i, ring_tail) < n
                                  THEN s[Offset(i, ring_tail) + 1] ELSE ring[i]]
      /\ refused' = refused \cup B /\ fresh' = fresh \ SetOf(s)
      /\ UNCHANGED <<batch, stack, done>>
  BY DEF Submit
<1> HIDE DEF n
<1>4. A \subseteq fresh /\ B \subseteq fresh /\ A \cap B = {} /\ SetOf(s) = A \cup B
  <2>1. SetOf(s) = {s[i] : i \in 1 .. Len(s)}
    BY SeqElements
  <2>2. \A i \in 1 .. Len(s) : s[i] \in fresh
    BY ElementOfSeq
  <2>3. A \subseteq fresh /\ B \subseteq fresh
    BY <1>1, <1>2, <2>2
  <2>4. A \cap B = {}
    BY <1>1, <1>2
  <2>5. \A i \in 1 .. Len(s) : i \in 1 .. n \/ i \in n + 1 .. Len(s)
    BY <1>1, <1>2
  <2>6. SetOf(s) = A \cup B
    BY <1>1, <1>2, <2>1, <2>5
  <2> QED
    BY <2>3, <2>4, <2>6
<1>5. ASSUME NEW i \in Slots, ring'[i] # NoTask
      PROVE  IF Offset(i, ring_tail) < n
             THEN /\ Offset(i, ring_tail) + 1 \in 1 .. n
                  /\ ring'[i] = s[Offset(i, ring_tail) + 1] /\ ring'[i] \in A
             ELSE ring'[i] = ring[i] /\ ring'[i] \in InRing
  <2>0. i \in Int /\ ring_tail \in Int
    BY DEF Slots, TypeOK
  <2>1. Offset(i, ring_tail) \in 0 .. RingCap - 1
    BY <2>0, OffsetType
  <2> QED
    BY <1>2, <1>3, <1>5, <2>1 DEF InRing
<1>6. A \cap InRing = {}
  BY <1>4 DEF NothingTwice, Apart
<1>7. RingOnce'
  <2> SUFFICES ASSUME NEW i \in Slots, NEW j \in Slots, ring'[i] = ring'[j], ring'[i] # NoTask
               PROVE  i = j
    BY DEF RingOnce, Slots
  <2>1. CASE Offset(i, ring_tail) < n /\ Offset(j, ring_tail) < n
    <3> DEFINE a == Offset(i, ring_tail)
               b == Offset(j, ring_tail)
    <3>1. a + 1 = b + 1
      BY <1>1, <1>2, <1>5, <2>1
    <3>0. i \in Int /\ j \in Int /\ ring_tail \in Int
      BY DEF Slots, TypeOK
    <3>3. a \in 0 .. RingCap - 1 /\ b \in 0 .. RingCap - 1
      BY <3>0, OffsetType
    <3> HIDE DEF a, b
    <3>2. a = b
      BY <3>1, <3>3
    <3> USE DEF a, b
    <3> QED
      BY <3>0, <3>2, OffsetInjective
  <2>2. CASE ~ (Offset(i, ring_tail) < n) /\ ~ (Offset(j, ring_tail) < n)
    BY <1>5, <2>2 DEF NothingTwice, RingOnce
  <2>3. CASE (Offset(i, ring_tail) < n) # (Offset(j, ring_tail) < n)
    BY <1>5, <1>6, <2>3
  <2> QED
    BY <2>1, <2>2, <2>3
<1>8. InRing' \subseteq InRing \cup A
  BY <1>5 DEF InRing, Slots
<1>9. InBatches' = InBatches /\ InStacks' = InStacks
  BY <1>3 DEF InBatches, InStacks, InAny, SetOf, Threads
<1> HIDE DEF A, B
<1>10. Apart'
  BY <1>3, <1>4, <1>8, <1>9 DEF Apart, NothingTwice
<1>11. Once(batch, Workers)' /\ Once(stack, Threads)'
  BY <1>3 DEF NothingTwice, Once, Threads
<1> QED
  BY <1>7, <1>9, <1>10, <1>11 DEF NothingTwice, Active

\* A helper moves the oldest task from the ring into itself.
LEMMA TryRunKeepsOnce ==
  ASSUME TypeOK, WindowFull, NothingTwice, NEW t \in Threads, TryRunOne(t)
  PROVE  NothingTwice' /\ Active' = Active \cup {ring[Slot(ring_head)]}
<1> USE PoolAssumption
<1> DEFINE out == [j \in 1 .. 1 |-> ring[Slot(ring_head + j - 1)]]
           x == out[1]
<1>1. 1 \in 0 .. ring_size /\ ring_head \in Nat
  BY DEF TryRunOne, TypeOK, ring_size, ring_empty
<1>2. /\ out \in Seq(Task) /\ SetOf(out) \subseteq InRing
      /\ RingOnce' /\ InRing' \subseteq InRing \ SetOf(out)
  BY <1>1, PopMoves DEF TryRunOne, NothingTwice
<1>3. x = ring[Slot(ring_head)] /\ SetOf(out) = {x} /\ x \in Task
  <2>1. ring_head + 1 - 1 = ring_head
    BY <1>1
  <2>2. DOMAIN out = {1}
    OBVIOUS
  <2> QED
    BY <1>2, <2>1, <2>2 DEF SetOf
<1>4. /\ stack' = [stack EXCEPT ![t] = Append(@, x)] /\ stack \in [Threads -> Seq(Task)]
      /\ UNCHANGED <<batch, fresh, refused, done>>
  BY <1>3 DEF TryRunOne, TypeOK
<1> HIDE DEF out, x
<1>5. x \in InRing /\ x \notin InStacks
  BY <1>2, <1>3 DEF NothingTwice, Apart
<1>6. Once(stack, Threads)' /\ InStacks' = InStacks \cup {x}
  <2>0. x \in Task /\ x \notin InAny(stack, Threads) /\ Once(stack, Threads)
    BY <1>3, <1>5 DEF InStacks, NothingTwice
  <2>1. Once(stack', Threads) /\ InAny(stack', Threads) = InAny(stack, Threads) \cup {x}
    <3>1. Longer(stack, stack', Threads, t, x)
      BY <1>4, <2>0 DEF Longer
    <3> QED
      BY <2>0, <3>1, AppendKeepsOnce
  <2> QED
    BY <2>1 DEF Once, InStacks, InAny, SetOf, Threads
<1>7. Once(batch, Workers)' /\ InBatches' = InBatches
  BY <1>4 DEF NothingTwice, Once, InBatches, InAny, SetOf
<1>8. InRing' \subseteq InRing \ {x}
  BY <1>2, <1>3
<1>9. Apart'
  BY <1>4, <1>5, <1>6, <1>7, <1>8 DEF NothingTwice, Apart
<1> QED
  BY <1>2, <1>3, <1>6, <1>7, <1>9 DEF NothingTwice, Active

\* A worker moves the oldest tasks from the ring into its empty chunk.
LEMMA DrainKeepsOnce ==
  ASSUME TypeOK, WindowFull, NothingTwice, NEW w \in Workers, Drain(w)
  PROVE  /\ NothingTwice'
         /\ Active' = Active \cup {ring[Slot(ring_head + j - 1)] : j \in 1 .. Drainable}
<1> USE PoolAssumption
<1> DEFINE out == [j \in 1 .. Drainable |-> ring[Slot(ring_head + j - 1)]]
<1>1. Drainable \in 0 .. ring_size
  BY DEF Drainable, TypeOK, ring_size
<1>2. /\ SetOf(out) \subseteq InRing /\ \A i, j \in DOMAIN out : out[i] = out[j] => i = j
      /\ RingOnce' /\ InRing' \subseteq InRing \ SetOf(out)
  BY <1>1, PopMoves DEF Drain, NothingTwice
<1>3. /\ batch' = [batch EXCEPT ![w] = out] /\ DOMAIN batch = Workers /\ batch[w] = <<>>
      /\ UNCHANGED <<stack, fresh, refused, done>>
  BY DEF Drain, AtFetch, TypeOK
<1> HIDE DEF out
<1>4. SetOf(out) \cap InBatches = {}
  BY <1>2 DEF NothingTwice, Apart
<1>5. Once(batch, Workers)' /\ InBatches' = InBatches \cup SetOf(out)
  <2>1. Filled(batch, batch', Workers, w, out) /\ Once(batch, Workers)
    BY <1>2, <1>3, <1>4 DEF Filled, InBatches, NothingTwice
  <2>2. /\ Once(batch', Workers)
        /\ InAny(batch', Workers) = InAny(batch, Workers) \cup SetOf(out)
    BY <2>1, FillKeepsOnce
  <2> QED
    BY <2>2 DEF Once, InBatches, InAny, SetOf
<1>6. Once(stack, Threads)' /\ InStacks' = InStacks
  BY <1>3 DEF NothingTwice, Once, InStacks, InAny, SetOf, Threads
<1>7. Apart'
  BY <1>2, <1>3, <1>5, <1>6 DEF NothingTwice, Apart
<1>8. SetOf(out) = {ring[Slot(ring_head + j - 1)] : j \in 1 .. Drainable}
  BY DEF SetOf, out
<1> QED
  BY <1>2, <1>5, <1>6, <1>7, <1>8 DEF NothingTwice, Active, InBatches, InStacks

\* A worker moves the first task of its chunk into itself.
LEMMA StartKeepsOnce ==
  ASSUME TypeOK, NothingTwice, NEW w \in Workers, Start(w)
  PROVE  NothingTwice' /\ Active' = Active
<1> DEFINE s == batch[w]
           x == Head(batch[w])
<1>1. s \in Seq(Task) /\ s # <<>> /\ w \in Threads
  BY DEF Start, TypeOK, Threads
<1>2. /\ Len(s) \in Nat \ {0} /\ DOMAIN s = 1 .. Len(s)
      /\ x = s[1] /\ x \in Task
      /\ Tail(s) \in Seq(Task) /\ DOMAIN Tail(s) = 1 .. Len(s) - 1
      /\ \A i \in 1 .. Len(s) - 1 : Tail(s)[i] = s[i + 1]
  <2>1. Len(s) \in Nat \ {0} /\ DOMAIN s = 1 .. Len(s)
    BY <1>1, EmptySeq, LenProperties
  <2>2. /\ x \in Task /\ Tail(s) \in Seq(Task) /\ Len(Tail(s)) = Len(s) - 1
        /\ \A i \in 1 .. Len(Tail(s)) : Tail(s)[i] = s[i + 1]
    BY <1>1, HeadTailProperties
  <2>3. x = s[1]
    BY <1>1
  <2> QED
    BY <2>1, <2>2, <2>3, LenProperties
<1>3. /\ batch' = [batch EXCEPT ![w] = Tail(s)] /\ DOMAIN batch = Workers
      /\ stack[w] = <<>> /\ stack \in [Threads -> Seq(Task)]
      /\ stack' = [stack EXCEPT ![w] = <<x>>]
      /\ UNCHANGED <<ring, fresh, refused, done>>
  BY DEF Start, TypeOK
<1>4. stack' = [stack EXCEPT ![w] = Append(@, x)]
  BY <1>2, <1>3
<1> HIDE DEF s, x
<1>5. /\ Once(batch, Workers)' /\ x \in InBatches /\ InBatches' = InBatches \ {x}
  <2>1. \A i \in 1 .. Len(s) - 1 : i + 1 \in 1 .. Len(s) /\ i + 1 # 1
    BY <1>2
  <2>2. /\ DOMAIN batch[w] = 1 .. Len(s) /\ 1 \in DOMAIN batch[w] /\ batch[w][1] = x
        /\ \A i \in DOMAIN Tail(s) : /\ i + 1 \in DOMAIN batch[w] /\ i + 1 # 1
                                     /\ Tail(s)[i] = batch[w][i + 1]
    BY <1>2, <2>1 DEF s
  <2>5. \A i \in DOMAIN batch[w] : i # 1 => i - 1 \in DOMAIN Tail(s)
    BY <1>2 DEF s
  <2>3. /\ 1 \in Int /\ DOMAIN batch[w] \subseteq Int /\ DOMAIN Tail(s) \subseteq Int
        /\ Once(batch, Workers)
    BY <1>2, <2>2 DEF NothingTwice
  <2>4. /\ Once(batch', Workers) /\ batch[w][1] \in InAny(batch, Workers)
        /\ InAny(batch', Workers) = InAny(batch, Workers) \ {batch[w][1]}
    <3>1. Shorter(batch, batch', Workers, w, 1, Tail(s), 1)
      BY <1>3, <2>2, <2>3, <2>5 DEF Shorter
    <3> QED
      BY <2>3, <3>1, RemoveKeepsOnce
  <2> QED
    BY <2>2, <2>4 DEF Once, InBatches, InAny, SetOf
<1>6. Once(stack, Threads)' /\ InStacks' = InStacks \cup {x}
  <2>1. x \notin InAny(stack, Threads) /\ Once(stack, Threads)
    BY <1>5 DEF NothingTwice, Apart, InStacks
  <2>2. Once(stack', Threads) /\ InAny(stack', Threads) = InAny(stack, Threads) \cup {x}
    <3>1. Longer(stack, stack', Threads, w, x)
      BY <1>1, <1>2, <1>3, <1>4, <2>1 DEF Longer
    <3> QED
      BY <2>1, <3>1, AppendKeepsOnce
  <2> QED
    BY <2>2 DEF Once, InStacks, InAny, SetOf, Threads
<1>7. RingOnce' /\ InRing' = InRing
  BY <1>3 DEF NothingTwice, RingOnce, InRing, Slots
<1>8. Apart'
  BY <1>3, <1>5, <1>6, <1>7 DEF NothingTwice, Apart
<1>9. Active' = Active
  BY <1>5, <1>6 DEF Active
<1> QED
  BY <1>5, <1>6, <1>7, <1>8, <1>9 DEF NothingTwice

\* A thread leaves its innermost task, which is done.
LEMMA FinishKeepsOnce ==
  ASSUME TypeOK, NothingTwice, NEW t \in Threads, Finish(t)
  PROVE  NothingTwice' /\ 
         LET x == stack[t][Len(stack[t])] IN
         x \in Active /\ Active' = Active \ {x} /\ done' = done \cup {x}
<1> DEFINE s == stack[t]
           m == Len(s)
           x == s[m]
           r == SubSeq(s, 1, m - 1)
<1>1. s \in Seq(Task) /\ s # <<>>
  BY DEF Finish, TypeOK
<1>2. m \in Nat \ {0} /\ DOMAIN s = 1 .. m
  BY <1>1, EmptySeq, LenProperties
<1>3. /\ r \in Seq(Task) /\ DOMAIN r = 1 .. m - 1
      /\ \A i \in 1 .. m - 1 : r[i] = s[i]
  BY <1>1, <1>2
<1>4. /\ stack' = [stack EXCEPT ![t] = r] /\ DOMAIN stack = Threads
      /\ done' = done \cup {x} /\ UNCHANGED <<ring, batch, fresh, refused>>
  BY DEF Finish, TypeOK
<1> HIDE DEF r, m, x, s
<1>5. Once(stack, Threads)' /\ x \in InStacks /\ InStacks' = InStacks \ {x}
  <2>1. /\ m \in DOMAIN stack[t] /\ stack[t][m] = x
        /\ DOMAIN stack[t] \subseteq Int /\ DOMAIN r \subseteq Int
    BY <1>2, <1>3 DEF s, x
  <2>2. \A i \in DOMAIN r : /\ i + 0 \in DOMAIN stack[t] /\ i + 0 # m
                            /\ r[i] = stack[t][i + 0]
    BY <1>2, <1>3 DEF s
  <2>5. \A i \in DOMAIN stack[t] : i # m => i - 0 \in DOMAIN r
    BY <1>2, <1>3 DEF s
  <2>3. Once(stack, Threads) /\ 0 \in Int
    BY DEF NothingTwice
  <2>4. /\ Once(stack', Threads) /\ stack[t][m] \in InAny(stack, Threads)
        /\ InAny(stack', Threads) = InAny(stack, Threads) \ {stack[t][m]}
    <3>1. Shorter(stack, stack', Threads, t, m, r, 0)
      BY <1>4, <2>1, <2>2, <2>3, <2>5 DEF Shorter
    <3> QED
      BY <2>3, <3>1, RemoveKeepsOnce
  <2> QED
    BY <2>1, <2>4 DEF Once, InStacks, InAny, SetOf, Threads
<1>6. Once(batch, Workers)' /\ InBatches' = InBatches
  BY <1>4 DEF NothingTwice, Once, InBatches, InAny, SetOf
<1>7. RingOnce' /\ InRing' = InRing
  BY <1>4 DEF NothingTwice, RingOnce, InRing, Slots
<1>8. Apart'
  BY <1>4, <1>5, <1>6, <1>7 DEF NothingTwice, Apart
<1>9. x \in Active /\ Active' = Active \ {x}
  BY <1>5, <1>6 DEF Active, NothingTwice, Apart
<1> QED
  BY <1>4, <1>5, <1>6, <1>7, <1>8, <1>9 DEF NothingTwice, m, x, s

\* No step puts a task in a second place.
LEMMA OnceStep ==
  ASSUME TypeOK, WindowFull, NothingTwice, [Next]_vars
  PROVE  NothingTwice'
<1>1. ASSUME NEW t \in Threads, Call(t)
      PROVE  NothingTwice'
  BY <1>1, SubmitsDistinct, SubmitKeepsOnce, TryRunKeepsOnce
<1>2. ASSUME \/ \E t \in Threads : NotifyOne(t)
             \/ \E w \in Workers : Sleep(w) \/ Exit(w) \/ SpuriousWakeup(w)
             \/ Destroy \/ UNCHANGED vars
      PROVE  NothingTwice'
  <2>1. UNCHANGED <<ring, batch, stack, fresh, refused, done>>
    BY <1>2 DEF NotifyOne, Sleep, Exit, SpuriousWakeup, Destroy, SetStop, NotifyAll, Join, vars
  <2>2. RingOnce' /\ InRing' = InRing
    BY <2>1 DEF NothingTwice, RingOnce, InRing, Slots
  <2>3. Once(batch, Workers)' /\ InBatches' = InBatches
    BY <2>1 DEF NothingTwice, Once, InBatches, InAny, SetOf
  <2>4. Once(stack, Threads)' /\ InStacks' = InStacks
    BY <2>1 DEF NothingTwice, Once, InStacks, InAny, SetOf, Threads
  <2>5. Apart'
    BY <2>1, <2>2, <2>3, <2>4 DEF NothingTwice, Apart
  <2> QED
    BY <2>2, <2>3, <2>4, <2>5 DEF NothingTwice
<1> QED
  BY <1>1, <1>2, DrainKeepsOnce, StartKeepsOnce, FinishKeepsOnce DEF Next, WorkerStep

\* At the start every task is fresh and nothing else holds any.
LEMMA OnceInit == Init => NothingTwice
<1> SUFFICES ASSUME Init PROVE NothingTwice
  OBVIOUS
<1>1. InRing = {} /\ RingOnce
  BY DEF Init, InRing, RingOnce
<1>2. InBatches = {} /\ Once(batch, Workers)
  BY DEF Init, InBatches, InAny, SetOf, Once
<1>3. InStacks = {} /\ Once(stack, Threads)
  BY DEF Init, InStacks, InAny, SetOf, Once
<1> QED
  BY <1>1, <1>2, <1>3 DEF Init, NothingTwice, Apart

\* A task that is somewhere, and nowhere twice, has one site.
LEMMA OneSite ==
  ASSUME TypeOK, NothingLost, NothingTwice
  PROVE  TaskInOnePlace
<1> SUFFICES ASSUME NEW x \in Task
             PROVE  Sites(x) # {} /\ \A a, b \in Sites(x) : a = b
  BY DEF TaskInOnePlace
<1> USE PoolAssumption
<1>1. x # NoTask
  OBVIOUS
<1>2. ASSUME NEW a \in Sites(x)
      PROVE  \/ x \in InRing /\ \E i \in Slots : ring[i] = x /\ a = <<"ring", i>>
             \/ x \in InBatches /\ \E w \in Workers : \E i \in DOMAIN batch[w] :
                                      batch[w][i] = x /\ a = <<"batch", w, i>>
             \/ x \in InStacks /\ \E t \in Threads : \E i \in DOMAIN stack[t] :
                                      stack[t][i] = x /\ a = <<"stack", t, i>>
             \/ x \in fresh /\ a = <<"fresh">>
             \/ x \in refused /\ a = <<"refused">>
             \/ x \in done /\ a = <<"done">>
  <2>1. \/ \E i \in Slots : ring[i] = x /\ a = <<"ring", i>>
        \/ \E w \in Workers : \E i \in DOMAIN batch[w] :
             batch[w][i] = x /\ a = <<"batch", w, i>>
        \/ \E t \in Threads : \E i \in DOMAIN stack[t] :
             stack[t][i] = x /\ a = <<"stack", t, i>>
        \/ x \in fresh /\ a = <<"fresh">>
        \/ x \in refused /\ a = <<"refused">>
        \/ x \in done /\ a = <<"done">>
    BY <1>2 DEF Sites
  <2>2. \A i \in Slots : ring[i] = x => x \in InRing
    BY <1>1 DEF InRing
  <2>3. \A w \in Workers : \A i \in DOMAIN batch[w] : batch[w][i] = x => x \in InBatches
    BY DEF InBatches, InAny, SetOf
  <2>4. \A t \in Threads : \A i \in DOMAIN stack[t] : stack[t][i] = x => x \in InStacks
    BY DEF InStacks, InAny, SetOf
  <2> QED
    BY <2>1, <2>2, <2>3, <2>4
<1>3. ASSUME NEW a \in Sites(x), NEW b \in Sites(x)
      PROVE  a = b
  <2>1. CASE x \in InRing
    BY <1>1, <1>2, <2>1 DEF NothingTwice, Apart, RingOnce
  <2>2. CASE x \in InBatches
    BY <1>2, <2>2 DEF NothingTwice, Apart, Once
  <2>3. CASE x \in InStacks
    BY <1>2, <2>3 DEF NothingTwice, Apart, Once
  <2>4. CASE x \notin InRing \cup InBatches \cup InStacks
    BY <1>2, <2>4 DEF NothingTwice, Apart
  <2> QED
    BY <2>1, <2>2, <2>3, <2>4
<1>4. Sites(x) # {}
  <2>1. CASE x \in fresh
    <3>1. <<"fresh">> \in Sites(x)
      BY <2>1 DEF Sites
    <3> QED
      BY <3>1
  <2>2. CASE x \in refused
    <3>1. <<"refused">> \in Sites(x)
      BY <2>2 DEF Sites
    <3> QED
      BY <3>1
  <2>3. CASE x \in done
    <3>1. <<"done">> \in Sites(x)
      BY <2>3 DEF Sites
    <3> QED
      BY <3>1
  <2>4. CASE \E i \in Window : ring[Slot(i)] = x
    <3>1. PICK i \in Window : ring[Slot(i)] = x
      BY <2>4
    <3>2. i \in Int
      BY DEF Window, TypeOK
    <3>3. Slot(i) \in Slots
      BY <3>2, DivMod DEF Slot, Slots
    <3>4. <<"ring", Slot(i)>> \in Sites(x)
      BY <3>1, <3>3 DEF Sites
    <3> QED
      BY <3>4
  <2>5. CASE \E w \in Workers : x \in SetOf(batch[w])
    <3>1. PICK w \in Workers : \E i \in DOMAIN batch[w] : batch[w][i] = x
      BY <2>5 DEF SetOf
    <3>2. PICK i \in DOMAIN batch[w] : batch[w][i] = x
      BY <3>1
    <3>3. <<"batch", w, i>> \in Sites(x)
      BY <3>2 DEF Sites
    <3> QED
      BY <3>3
  <2>6. CASE \E t \in Threads : x \in SetOf(stack[t])
    <3>1. PICK t \in Threads : \E i \in DOMAIN stack[t] : stack[t][i] = x
      BY <2>6 DEF SetOf
    <3>2. PICK i \in DOMAIN stack[t] : stack[t][i] = x
      BY <3>1
    <3>3. <<"stack", t, i>> \in Sites(x)
      BY <3>2 DEF Sites
    <3> QED
      BY <3>3
  <2> QED
    BY <2>1, <2>2, <2>3, <2>4, <2>5, <2>6 DEF NothingLost, Placed
<1> QED
  BY <1>3, <1>4

\* Whatever wraps over in the ring, however callers help and whichever push
\* threw, a task is in exactly one place: a push writes only into empty slots,
\* a pop empties the slots it reads, and a task leaves its chunk as it starts.
THEOREM TasksAreInOnePlace == Spec => []TaskInOnePlace
<1> DEFINE J == TypeOK /\ WindowFull /\ NothingLost /\ NothingTwice
<1>1. Init => J
  BY TypeInit, PlacedInit, OnceInit
<1>2. J /\ [Next]_vars => J'
  BY TypeStep, PlacedStep, OnceStep
<1>3. J => TaskInOnePlace
  BY OneSite
<1> QED
  BY <1>1, <1>2, <1>3, PTL DEF Spec

-----------------------------------------------------------------------------
(* The pool is a first-in first-out queue. *)

\* The tasks between two indices of a ring.
Walk(r, h, z) == [i \in 1 .. z - h |-> r[Slot(h + i - 1)]]

\* A ring r full of tasks from h to z keeps those from g = h + n on, as u.
Popped(r, u, h, g, z, n) ==
  /\ h \in Nat /\ z \in Nat /\ n \in 0 .. z - h /\ g = h + n
  /\ \A i \in h .. z - 1 : r[Slot(i)] \in Task
  /\ \A i \in g .. z - 1 : u[Slot(i)] = r[Slot(i)]

\* The first n tasks of s.
Prefix(s, n) == SubSeq(s, 1, n)

\* A ring full of tasks from h to z keeps them all, as u, and has the first n tasks
\* of s behind them, up to y.
Pushed(r, u, h, z, y, s, n) ==
  /\ s \in Seq(Task) /\ n \in 0 .. Len(s)
  /\ h \in Nat /\ z \in Nat /\ h <= z /\ y = z + n
  /\ \A i \in h .. z - 1 : r[Slot(i)] \in Task /\ u[Slot(i)] = r[Slot(i)]
  /\ \A j \in 1 .. n : u[Slot(z + j - 1)] = s[j]

\* The walk over a full window is a sequence of tasks, one for each index.
LEMMA WalkType ==
  ASSUME NEW r, NEW h \in Nat, NEW z \in Nat, h <= z,
         \A i \in h .. z - 1 : r[Slot(i)] \in Task
  PROVE  /\ Walk(r, h, z) \in Seq(Task) /\ Len(Walk(r, h, z)) = z - h
         /\ \A i \in 1 .. z - h : Walk(r, h, z)[i] = r[Slot(h + i - 1)]
<1> DEFINE q == Walk(r, h, z)
           n == z - h
<1>1. n \in Nat
  OBVIOUS
<1>2. ASSUME NEW i \in 1 .. n
      PROVE  r[Slot(h + i - 1)] \in Task
  <2>1. h + i - 1 \in h .. z - 1
    OBVIOUS
  <2> QED
    BY <2>1
<1>3. q \in [1 .. n -> Task] /\ \A i \in 1 .. n : q[i] = r[Slot(h + i - 1)]
  BY <1>2 DEF Walk
<1> HIDE DEF q
<1>4. q \in Seq(Task) /\ Len(q) = n
  BY <1>1, <1>3
<1> QED
  BY <1>3, <1>4 DEF q

\* After a pop the walk has lost its first n tasks.
LEMMA WalkPop ==
  ASSUME NEW r, NEW u, NEW h, NEW g, NEW z, NEW n, Popped(r, u, h, g, z, n)
  PROVE  Walk(u, g, z) = SubSeq(Walk(r, h, z), n + 1, z - h)
<1>0. /\ h \in Nat /\ z \in Nat /\ n \in 0 .. z - h /\ g = h + n
      /\ \A i \in h .. z - 1 : r[Slot(i)] \in Task
      /\ \A i \in h + n .. z - 1 : u[Slot(i)] = r[Slot(i)]
  BY DEF Popped
<1> DEFINE p == Walk(r, h, z)
           q == Walk(u, g, z)
           k == z - h
<1>1. h <= z /\ h + n \in Nat /\ h + n <= z /\ z - (h + n) = k - n /\ k \in Nat /\ n \in 0 .. k
  BY <1>0
<1>2. p \in Seq(Task) /\ Len(p) = k /\ \A i \in 1 .. k : p[i] = r[Slot(h + i - 1)]
  BY <1>0, <1>1, WalkType
<1>3. \A i \in h + n .. z - 1 : u[Slot(i)] \in Task
  <2>1. ASSUME NEW i \in h + n .. z - 1
        PROVE  i \in h .. z - 1
    BY <1>0, <1>1
  <2> QED
    BY <1>0, <2>1
<1>4. /\ q \in Seq(Task) /\ Len(q) = k - n
      /\ \A i \in 1 .. k - n : q[i] = u[Slot(h + n + i - 1)]
  <2>1. /\ q \in Seq(Task) /\ Len(q) = z - g
        /\ \A i \in 1 .. z - g : q[i] = u[Slot(g + i - 1)]
    BY <1>0, <1>1, <1>3, WalkType
  <2> QED
    BY <1>0, <1>1, <2>1
<1> HIDE DEF p, q
<1>5. ASSUME NEW i \in 1 .. k - n
      PROVE  q[i] = p[n + i]
  <2>1. h + n + i - 1 \in h + n .. z - 1 /\ n + i \in 1 .. k /\ h + (n + i) - 1 = h + n + i - 1
    BY <1>0, <1>1
  <2> QED
    BY <1>0, <1>2, <1>4, <2>1
<1>6. /\ SubSeq(p, n + 1, k) \in Seq(Task) /\ Len(SubSeq(p, n + 1, k)) = k - n
      /\ \A i \in 1 .. k - n : SubSeq(p, n + 1, k)[i] = p[n + i]
  <2> HIDE DEF k
  <2> DEFINE a == n + 1
  <2>1. a \in 1 .. Len(p) + 1 /\ k \in a - 1 .. Len(p) /\ k - a + 1 = k - n
    BY <1>1, <1>2
  <2>2. /\ SubSeq(p, a, k) \in Seq(Task) /\ Len(SubSeq(p, a, k)) = k - a + 1
        /\ \A i \in 1 .. k - a + 1 : SubSeq(p, a, k)[i] = p[a + i - 1]
    <3> HIDE DEF a
    <3> QED
      BY <1>2, <2>1, SubSeqProperties
  <2>3. \A i \in 1 .. k - n : a + i - 1 = n + i
    BY <1>1
  <2> QED
    BY <2>1, <2>2, <2>3
<1> HIDE DEF k
<1>7. q = SubSeq(p, n + 1, k)
  BY <1>1, <1>4, <1>5, <1>6, SeqEqual
<1> QED
  BY <1>0, <1>7 DEF p, q, k

\* After a push the walk has the first n tasks of s at its end.
LEMMA WalkPush ==
  ASSUME NEW r, NEW u, NEW h, NEW z, NEW y, NEW s, NEW n,
         Pushed(r, u, h, z, y, s, n)
  PROVE  Walk(u, h, y) = Walk(r, h, z) \o Prefix(s, n)
<1>0. /\ s \in Seq(Task) /\ h \in Nat /\ z \in Nat /\ h <= z /\ n \in 0 .. Len(s) /\ y = z + n
      /\ \A i \in h .. z - 1 : r[Slot(i)] \in Task /\ u[Slot(i)] = r[Slot(i)]
      /\ \A j \in 1 .. n : u[Slot(z + j - 1)] = s[j]
  BY DEF Pushed
<1> DEFINE p == Walk(r, h, z)
           q == Walk(u, h, y)
           t == SubSeq(s, 1, n)
           k == z - h
<1>1. /\ Len(s) \in Nat /\ n \in Nat /\ k \in Nat
      /\ z + n \in Nat /\ h <= z + n /\ (z + n) - h = k + n
  BY <1>0, LenProperties
<1>2. p \in Seq(Task) /\ Len(p) = k /\ \A i \in 1 .. k : p[i] = r[Slot(h + i - 1)]
  BY <1>0, WalkType
<1>3. t \in Seq(Task) /\ Len(t) = n /\ \A i \in 1 .. n : t[i] = s[i]
  BY <1>0, <1>1
<1> HIDE DEF t
<1>4. ASSUME NEW i \in h .. z + n - 1
      PROVE  u[Slot(i)] \in Task
  <2>1. CASE i < z
    <3>1. i \in h .. z - 1
      BY <1>0, <2>1
    <3> QED
      BY <1>0, <3>1
  <2>2. CASE i >= z
    <3> DEFINE j == i - z + 1
    <3>1. j \in 1 .. n /\ z + j - 1 = i /\ j \in 1 .. Len(s)
      BY <1>0, <1>1, <2>2
    <3>2. s[j] \in Task
      BY <1>0, <3>1, ElementOfSeq
    <3> QED
      BY <1>0, <3>1, <3>2
  <2>3. i < z \/ i >= z
    BY <1>0
  <2> QED
    BY <2>1, <2>2, <2>3
<1>5. q \in Seq(Task) /\ Len(q) = k + n /\ \A i \in 1 .. k + n : q[i] = u[Slot(h + i - 1)]
  <2>1. /\ q \in Seq(Task) /\ Len(q) = y - h
        /\ \A i \in 1 .. y - h : q[i] = u[Slot(h + i - 1)]
    BY <1>0, <1>1, <1>4, WalkType
  <2> QED
    BY <1>0, <1>1, <2>1
<1> HIDE DEF p, q
<1>6. /\ p \o t \in Seq(Task) /\ Len(p \o t) = k + n
      /\ \A i \in 1 .. k + n : (p \o t)[i] = IF i <= k THEN p[i] ELSE t[i - k]
  <2> HIDE DEF k
  <2> QED
    BY <1>1, <1>2, <1>3, ConcatProperties
<1>7. ASSUME NEW i \in 1 .. k + n
      PROVE  q[i] = (p \o t)[i]
  <2>1. CASE i <= k
    <3>1. h + i - 1 \in h .. z - 1 /\ i \in 1 .. k
      BY <1>0, <1>1, <2>1
    <3> QED
      BY <1>0, <1>2, <1>5, <1>6, <2>1, <3>1
  <2>2. CASE i > k
    <3> DEFINE j == i - k
    <3>1. j \in 1 .. n /\ z + j - 1 = h + i - 1
      BY <1>0, <1>1, <2>2
    <3>2. q[i] = s[j]
      BY <1>0, <1>5, <3>1
    <3>3. (p \o t)[i] = t[j]
      BY <1>0, <1>1, <1>6, <2>2
    <3> QED
      BY <1>3, <3>1, <3>2, <3>3
  <2>3. i <= k \/ i > k
    BY <1>1
  <2> QED
    BY <2>1, <2>2, <2>3
<1>8. q = p \o t
  <2> HIDE DEF k
  <2> QED
    BY <1>5, <1>6, <1>7, SeqEqual
<1> QED
  BY <1>0, <1>8 DEF p, q, t, Prefix

\* The refinement mapping in the words of these proofs.
LEMMA Mapping ==
  /\ Queued = Walk(ring, ring_head, ring_tail)
  /\ Queued' = Walk(ring', ring_head', ring_tail')
  /\ Active = (UNION {SetOf(batch[w]) : w \in Workers}) \cup (UNION {SetOf(stack[t]) : t \in Threads})
  /\ Active' = (UNION {SetOf(batch'[w]) : w \in Workers}) \cup (UNION {SetOf(stack'[t]) : t \in Threads})
<1>1. Queued = Walk(ring, ring_head, ring_tail)
  BY DEF Queued, Walk, ring_size
<1>2. Queued' = Walk(ring', ring_head', ring_tail')
  BY DEF Queued, Walk, ring_size, Slot
<1>3. Active = (UNION {SetOf(batch[w]) : w \in Workers}) \cup (UNION {SetOf(stack[t]) : t \in Threads})
  BY DEF Active, InBatches, InStacks, InAny
<1>4. Active' = (UNION {SetOf(batch'[w]) : w \in Workers}) \cup (UNION {SetOf(stack'[t]) : t \in Threads})
  BY DEF Active, InBatches, InStacks, InAny, SetOf, Threads
<1> QED
  BY <1>1, <1>2, <1>3, <1>4

\* What a pop does to the queue.
LEMMA PopTakes ==
  ASSUME TypeOK, WindowFull, NEW n \in 0 .. ring_size, PopRing(n)
  PROVE  /\ Queued \in Seq(Task) /\ Len(Queued) = ring_size
         /\ \A i \in 1 .. ring_size : Queued[i] = ring[Slot(ring_head + i - 1)]
         /\ Queued' = SubSeq(Queued, n + 1, Len(Queued))
<1> USE PoolAssumption
<1>1. /\ ring_head \in Nat /\ ring_tail \in Nat /\ ring_head <= ring_tail
      /\ n \in 0 .. ring_tail - ring_head
  BY DEF TypeOK, ring_size
<1>2. \A i \in ring_head .. ring_tail - 1 : ring[Slot(i)] \in Task
  BY DEF WindowFull, Window
<1>3. /\ ring_head' = ring_head + n /\ ring_tail' = ring_tail
      /\ \A i \in ring_head + n .. ring_tail - 1 : ring'[Slot(i)] = ring[Slot(i)]
  BY PopKeeps DEF PopRing
<1>4. /\ Queued \in Seq(Task) /\ Len(Queued) = ring_size
      /\ \A i \in 1 .. ring_size : Queued[i] = ring[Slot(ring_head + i - 1)]
  <2>1. /\ Walk(ring, ring_head, ring_tail) \in Seq(Task)
        /\ Len(Walk(ring, ring_head, ring_tail)) = ring_tail - ring_head
        /\ \A i \in 1 .. ring_tail - ring_head :
             Walk(ring, ring_head, ring_tail)[i] = ring[Slot(ring_head + i - 1)]
    BY <1>1, <1>2, WalkType, SMTT(30)
  <2> QED
    BY <2>1, Mapping DEF ring_size
<1>5. Walk(ring', ring_head', ring_tail)
        = SubSeq(Walk(ring, ring_head, ring_tail), n + 1, ring_tail - ring_head)
  <2>1. Popped(ring, ring', ring_head, ring_head', ring_tail, n)
    BY <1>1, <1>2, <1>3 DEF Popped
  <2> QED
    BY <2>1, WalkPop
<1>6. Queued' = SubSeq(Queued, n + 1, ring_tail - ring_head)
  BY <1>3, <1>5, Mapping
<1> QED
  BY <1>4, <1>6 DEF ring_size

\* What a push does to the queue.
LEMMA SubmitPushes ==
  ASSUME TypeOK, WindowFull, NEW t \in Threads, NEW s \in Seq(Task), NEW wake \in Nat,
         Submit(t, s, wake)
  PROVE  Queued' = Queued \o SubSeq(s, 1, Fitting(s))
<1> USE PoolAssumption
<1> DEFINE n == Fitting(s)
<1>1. n \in 0 .. Len(s) /\ ring_head \in Nat /\ ring_tail \in Nat /\ ring_head <= ring_tail
  BY FittingType DEF TypeOK
<1>2. \A i \in ring_head .. ring_tail - 1 : ring[Slot(i)] \in Task
  BY DEF WindowFull, Window
<1>3. /\ ring_tail' = ring_tail + n /\ ring_head' = ring_head
      /\ \A i \in ring_head .. ring_tail - 1 : ring'[Slot(i)] = ring[Slot(i)]
      /\ \A j \in 1 .. n : ring'[Slot(ring_tail + j - 1)] = s[j]
  BY PushKeeps DEF Window
<1> HIDE DEF n
<1>4. Walk(ring', ring_head, ring_tail')
        = Walk(ring, ring_head, ring_tail) \o Prefix(s, n)
  <2>1. Pushed(ring, ring', ring_head, ring_tail, ring_tail', s, n)
    BY <1>1, <1>2, <1>3 DEF Pushed
  <2> QED
    BY <2>1, WalkPush
<1> QED
  BY <1>3, <1>4, Mapping DEF n, Prefix

\* What a caller does: it submits some of the fresh tasks in some order, or it helps.
LEMMA CallSubmits ==
  ASSUME TypeOK, NEW t \in Threads, Call(t)
  PROVE  \/ TryRunOne(t)
         \/ \E k \in 1 .. Cardinality(fresh) : \E s \in Abstract!DistinctFresh(k), wake \in Nat :
              Submit(t, s, wake)
<1> USE PoolAssumption
<1>1. IsFiniteSet(fresh) /\ Cardinality(fresh) \in Nat
  BY FS_Subset, FS_CardinalityType DEF TypeOK
<1>2. CASE \E x \in fresh : PushTask(t, x)
  <2>1. PICK x \in fresh : Submit(t, <<x>>, 1)
    BY <1>2 DEF PushTask
  <2>2. 1 \in 1 .. Cardinality(fresh)
    <3>1. Cardinality(fresh) # 0
      BY <1>1, FS_EmptySet
    <3> QED
      BY <1>1, <3>1
  <2>3. <<x>> \in [1 .. 1 -> fresh] /\ \A i, j \in 1 .. 1 : i = j
    OBVIOUS
  <2>4. <<x>> \in Abstract!DistinctFresh(1) /\ 1 \in Nat
    BY <2>3 DEF Abstract!DistinctFresh
  <2> QED
    BY <2>1, <2>2, <2>4
<1>3. CASE \E s \in FreshBatches : PushBatch(t, s)
  <2>1. PICK k \in 1 .. Cardinality(fresh) :
          \E s \in Abstract!DistinctFresh(k) : PushBatch(t, s)
    BY <1>3 DEF FreshBatches, Abstract!DistinctFresh
  <2>2. PICK s \in Abstract!DistinctFresh(k) : Submit(t, s, BatchWakeups(Len(s)))
    BY <2>1 DEF PushBatch
  <2>3. s \in [1 .. k -> fresh] /\ k \in Nat \ {0}
    BY <1>1, <2>2 DEF Abstract!DistinctFresh
  <2>4. Len(s) \in Nat \ {0}
    BY <2>3
  <2>5. BatchWakeups(Len(s)) \in Nat
    BY <2>4, BatchWakeupsPositive
  <2> QED
    BY <2>2, <2>5
<1> QED
  BY <1>2, <1>3 DEF Call

\* Every step of the pool is one of the queue, or changes nothing in it.
LEMMA QueueStep ==
  ASSUME TypeOK, WindowFull, NothingTwice, [Next]_vars
  PROVE  [Abstract!Next]_(Abstract!vars)
<1> USE PoolAssumption
<1> DEFINE idle == UNCHANGED <<Queued, Active, fresh, refused, done>>
<1>0. idle => UNCHANGED Abstract!vars
  BY Mapping DEF Abstract!vars
<1>1. ASSUME NEW n \in Nat \ {0}, n <= Batch, n <= ring_size, PopRing(n),
             Active' = Active \cup {ring[Slot(ring_head + j - 1)] : j \in 1 .. n},
             UNCHANGED <<fresh, refused, done>>
      PROVE  Abstract!Next
  <2>1. n \in 0 .. ring_size
    BY <1>1 DEF TypeOK, ring_size
  <2>2. /\ Queued \in Seq(Task) /\ Len(Queued) = ring_size
        /\ \A i \in 1 .. ring_size : Queued[i] = ring[Slot(ring_head + i - 1)]
        /\ Queued' = SubSeq(Queued, n + 1, Len(Queued))
    BY <1>1, <2>1, PopTakes
  <2>3. \A i \in 1 .. n : Queued[i] = ring[Slot(ring_head + i - 1)]
    BY <1>1, <2>1, <2>2, SMTT(30) DEF TypeOK, ring_size
  <2>4. Active' = Active \cup {Queued[i] : i \in 1 .. n}
    BY <1>1, <2>3
  <2>5. Abstract!Take(n)
    BY <1>1, <2>2, <2>4, Mapping DEF Abstract!Take
  <2>6. n \in 1 .. Len(Queued)
    BY <1>1, <2>1, <2>2 DEF TypeOK, ring_size
  <2> QED
    BY <1>1, <2>5, <2>6 DEF Abstract!Next
<1>2. ASSUME NEW t \in Threads, NEW k \in 1 .. Cardinality(fresh),
             NEW s \in Abstract!DistinctFresh(k), NEW wake \in Nat, Submit(t, s, wake)
      PROVE  Abstract!Next
  <2>1. IsFiniteSet(fresh) /\ Cardinality(fresh) \in Nat
    BY FS_Subset, FS_CardinalityType DEF TypeOK
  <2>2. /\ k \in Nat /\ s \in [1 .. k -> fresh]
        /\ \A i, j \in 1 .. k : i # j => s[i] # s[j]
    BY <2>1 DEF Abstract!DistinctFresh
  <2>3. s \in Seq(fresh) /\ s \in Seq(Task) /\ Len(s) = k
    BY <2>2 DEF TypeOK
  <2>4. Queued' = Queued \o SubSeq(s, 1, Fitting(s)) /\ Fitting(s) \in 0 .. k
    BY <1>2, <2>3, SubmitPushes, FittingType
  <2>5. Active' = Active
    BY <1>2, <2>2, <2>3, SubmitKeepsOnce
  <2>6. /\ fresh' = fresh \ {s[i] : i \in DOMAIN s} /\ done' = done
        /\ refused' = refused \cup {s[i] : i \in Fitting(s) + 1 .. Len(s)}
    BY <1>2 DEF Submit, SetOf
  <2>7. Abstract!Push(s, Fitting(s))
    BY <2>4, <2>5, <2>6, Mapping DEF Abstract!Push
  <2>8. \E i \in 0 .. k : Abstract!Push(s, i)
    BY <2>4, <2>7
  <2>9. \E j \in 1 .. Cardinality(fresh) : \E v \in Abstract!DistinctFresh(j), i \in 0 .. j :
          Abstract!Push(v, i)
    BY <2>8, Zenon
  <2>10. Abstract!Cardinality(fresh) = Cardinality(fresh)
    BY DEF Abstract!Cardinality, Cardinality
  <2> QED
    BY <2>9, <2>10, Zenon DEF Abstract!Next
<1>3. ASSUME NEW t \in Threads, TryRunOne(t)
      PROVE  Abstract!Next
  <2>1. /\ PopRing(1) /\ 1 <= ring_size /\ 1 <= Batch /\ 1 \in Nat \ {0}
        /\ UNCHANGED <<fresh, refused, done>>
    BY <1>3 DEF TryRunOne, TypeOK, ring_size, ring_empty
  <2>2. Active' = Active \cup {ring[Slot(ring_head)]}
    BY <1>3, TryRunKeepsOnce
  <2>3. {ring[Slot(ring_head + j - 1)] : j \in 1 .. 1} = {ring[Slot(ring_head)]}
    <3>1. \A j \in 1 .. 1 : ring_head + j - 1 = ring_head
      BY DEF TypeOK
    <3>2. 1 \in 1 .. 1
      OBVIOUS
    <3> QED
      BY <3>1, <3>2
  <2> QED
    BY <1>1, <2>1, <2>2, <2>3
<1>4. ASSUME NEW w \in Workers, Drain(w)
      PROVE  Abstract!Next
  <2>1. /\ PopRing(Drainable) /\ Drainable <= ring_size /\ Drainable <= Batch
        /\ Drainable \in Nat \ {0} /\ UNCHANGED <<fresh, refused, done>>
    BY <1>4 DEF Drain, Drainable, TypeOK, ring_size, ring_empty
  <2>2. Active' = Active \cup {ring[Slot(ring_head + j - 1)] : j \in 1 .. Drainable}
    BY <1>4, DrainKeepsOnce
  <2> QED
    BY <1>1, <2>1, <2>2
<1>5. ASSUME NEW t \in Threads, Finish(t)
      PROVE  Abstract!Next
  <2> DEFINE x == stack[t][Len(stack[t])]
  <2>1. x \in Active /\ Active' = Active \ {x} /\ done' = done \cup {x}
    BY <1>5, FinishKeepsOnce
  <2>2. UNCHANGED <<ring, ring_head, ring_tail, fresh, refused>>
    BY <1>5 DEF Finish
  <2>3. Queued' = Queued
    BY <2>2, Mapping
  <2> HIDE DEF x
  <2>4. Abstract!Complete(x)
    BY <2>1, <2>2, <2>3, Mapping DEF Abstract!Complete
  <2>5. x \in (UNION {SetOf(batch[w]) : w \in Workers}) \cup (UNION {SetOf(stack[u]) : u \in Threads})
    BY <2>1, Mapping
  <2> QED
    BY <2>4, <2>5 DEF Abstract!Next
<1>6. ASSUME NEW w \in Workers, Start(w)
      PROVE  idle
  <2>1. UNCHANGED <<ring, ring_head, ring_tail, fresh, refused, done>>
    BY <1>6 DEF Start
  <2>2. Queued' = Queued
    BY <2>1, Mapping
  <2>3. Active' = Active
    BY <1>6, StartKeepsOnce
  <2> QED
    BY <2>1, <2>2, <2>3
<1>7. ASSUME \/ \E t \in Threads : NotifyOne(t)
             \/ \E w \in Workers : Sleep(w) \/ Exit(w) \/ SpuriousWakeup(w)
             \/ Destroy \/ UNCHANGED vars
      PROVE  idle
  <2>1. UNCHANGED <<ring, ring_head, ring_tail, batch, stack, fresh, refused, done>>
    BY <1>7 DEF NotifyOne, Sleep, Exit, SpuriousWakeup, Destroy, SetStop, NotifyAll, Join, vars
  <2>2. Queued' = Queued /\ Active' = Active
    BY <2>1, Mapping
  <2> QED
    BY <2>1, <2>2
<1>8. ASSUME NEW t \in Threads, Call(t)
      PROVE  Abstract!Next
  BY <1>2, <1>3, <1>8, CallSubmits
<1> HIDE DEF idle
<1>9. Abstract!Next \/ idle
  BY <1>4, <1>5, <1>6, <1>7, <1>8 DEF Next, WorkerStep
<1> QED
  BY <1>0, <1>9

\* At the start the queue is empty.
LEMMA QueueInit == Init => Abstract!Init
<1> SUFFICES ASSUME Init PROVE Abstract!Init
  OBVIOUS
<1>1. Queued = <<>>
  BY DEF Init, Queued, ring_size
<1>2. Active = {}
  BY DEF Init, Active, InBatches, InStacks, InAny, SetOf
<1> QED
  BY <1>1, <1>2, Mapping DEF Init, Abstract!Init

\* To its callers the pool is a first-in first-out queue: tasks are taken in the
\* order of the pushes, at most BATCH at a time, and each one taken is run once.
THEOREM PoolIsQueue == Spec => ImplementsTaskQueue
<1> DEFINE J == TypeOK /\ WindowFull /\ NothingTwice
<1>1. Init => J
  BY TypeInit, OnceInit
<1>2. J /\ [Next]_vars => J'
  BY TypeStep, OnceStep
<1>3. J /\ [Next]_vars => [Abstract!Next]_(Abstract!vars)
  BY QueueStep
<1> QED
  BY <1>1, <1>2, <1>3, QueueInit, PTL DEF Spec, ImplementsTaskQueue, Abstract!Spec

=============================================================================
