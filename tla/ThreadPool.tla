----------------------------- MODULE ThreadPool -----------------------------
(***************************************************************************)
(* The worker pool of OpenHTJ2K (source/core/common/ThreadPool.hpp): a     *)
(* fixed ring of tasks under one mutex, workers that drain the ring in     *)
(* chunks of Batch into private memory and run the chunk in order, and     *)
(* callers that push one task, push a batch, or help with try_run_one.     *)
(*                                                                         *)
(* Every critical section of tasks_mutex is one action.  What happens      *)
(* outside the mutex is an action of its own: each notify_one after the    *)
(* unlock, the start and the end of each task.  A try_run_one that finds   *)
(* the mutex held or the ring empty returns FALSE and changes nothing, so  *)
(* it is a stuttering step and has no action.                              *)
(***************************************************************************)
EXTENDS Integers, Sequences, FiniteSets

CONSTANTS
  Workers,    \* the threads of the pool (thread_count_ of them)
  Externals,  \* the other threads that call into the pool
  Owner,      \* the external thread that destroys it (ThreadPool::release)
  Task,       \* the tasks that may ever be submitted
  NoTask,     \* an empty InlineTask (invoke_ = nullptr)
  RingCap,    \* RING_CAP
  Batch       \* BATCH, the tasks drained per lock hold

ASSUME PoolAssumption ==
  /\ IsFiniteSet(Workers) /\ Workers # {}
  /\ IsFiniteSet(Task)
  /\ Workers \cap Externals = {}
  /\ Owner \in Externals
  /\ NoTask \notin Task
  /\ RingCap \in Nat \ {0}
  /\ Batch \in Nat \ {0}

VARIABLES
  ring,       \* ring_: slot -> task or NoTask
  ring_head,  \* consumer index, counted without wrapping (size_t in the code)
  ring_tail,  \* producer index
  stop,       \* the flag the destructor sets under the mutex
  sleeping,   \* workers blocked in condition.wait
  exited,     \* workers whose worker() has returned
  batch,      \* worker -> tasks of its private chunk that it has not started
  stack,      \* thread -> tasks it is inside, outermost first
  wakeups,    \* thread -> notify_one calls it still has to make
  dtor,       \* progress of ~ThreadPool
  fresh,      \* tasks nobody has submitted yet
  refused,    \* tasks whose push threw
  done        \* tasks that have run to their end

vars == <<ring, ring_head, ring_tail, stop, sleeping, exited, batch, stack,
          wakeups, dtor, fresh, refused, done>>

Threads == Workers \cup Externals
Slots   == 0 .. RingCap - 1

TypeOK ==
  /\ ring \in [Slots -> Task \cup {NoTask}]
  /\ ring_head \in Nat
  /\ ring_tail \in Nat
  /\ ring_head <= ring_tail
  /\ ring_tail - ring_head <= RingCap
  /\ stop \in BOOLEAN
  /\ sleeping \subseteq Workers
  /\ exited \subseteq Workers
  /\ batch \in [Workers -> Seq(Task)]
  /\ stack \in [Threads -> Seq(Task)]
  /\ wakeups \in [Threads -> Nat]
  /\ dtor \in {"none", "stopping", "joining", "joined"}
  /\ fresh \subseteq Task
  /\ refused \subseteq Task
  /\ done \subseteq Task

-----------------------------------------------------------------------------
(* The ring. *)

ring_size  == ring_tail - ring_head
ring_empty == ring_head = ring_tail
Slot(i)    == i % RingCap

\* How far slot i lies past index k, walking the ring forwards.
Offset(i, k) == (i - k) % RingCap

\* The tasks in the ring, oldest first.
Queued == [i \in 1 .. ring_size |-> ring[Slot(ring_head + i - 1)]]

\* Popping n tasks moves them out: the slots they leave are empty.
PopRing(n) ==
  /\ ring' = [i \in Slots |->
                IF Offset(i, ring_head) < n THEN NoTask ELSE ring[i]]
  /\ ring_head' = ring_head + n
  /\ UNCHANGED ring_tail

SetOf(s) == {s[i] : i \in DOMAIN s}

Init ==
  /\ ring = [i \in Slots |-> NoTask]
  /\ ring_head = 0
  /\ ring_tail = 0
  /\ stop = FALSE
  /\ sleeping = {}
  /\ exited = {}
  /\ batch = [w \in Workers |-> <<>>]
  /\ stack = [t \in Threads |-> <<>>]
  /\ wakeups = [t \in Threads |-> 0]
  /\ dtor = "none"
  /\ fresh = Task
  /\ refused = {}
  /\ done = {}

-----------------------------------------------------------------------------
(* Callers. *)

\* A thread can call into the pool: the pool exists, the thread is not inside
\* another call, and a worker only calls from within a task.
CanCall(t) ==
  /\ wakeups[t] = 0
  /\ dtor # "joined"
  /\ IF t = Owner THEN dtor = "none" ELSE TRUE
  /\ t \in Workers => stack[t] # <<>>

CeilDiv(n, d) == (n + d - 1) \div d
\* Mutant: the chunk count rounds down, so the last partial chunk wakes nobody.
BatchWakeupsFloor(n) ==
  IF n \div Batch <= Cardinality(Workers) THEN n \div Batch ELSE Cardinality(Workers)

BatchWakeups(n) ==
  LET chunks == CeilDiv(n, Batch) IN
  IF chunks <= Cardinality(Workers) THEN chunks ELSE Cardinality(Workers)

\* Mutants: the ring-full check lets one task too many in; it is missing.
FittingOneMore(s) ==
  LET room == RingCap - ring_size + 1 IN
  IF stop THEN 0 ELSE IF Len(s) <= room THEN Len(s) ELSE room
FittingUnchecked(s) == IF stop THEN 0 ELSE Len(s)

\* The part of s that fits: the code stores one task at a time and throws at
\* the first one that finds the ring full.
Fitting(s) ==
  LET room == RingCap - ring_size IN
  IF stop THEN 0 ELSE IF Len(s) <= room THEN Len(s) ELSE room

\* The critical section of push_task and push_batch, and the decision to
\* throw: a push that throws leaves what it had already stored in the ring
\* and makes no notify call.
Submit(t, s, wake) ==
  /\ CanCall(t)
  /\ LET n == Fitting(s) IN
     /\ ring' = [i \in Slots |->
                   IF Offset(i, ring_tail) < n
                   THEN s[Offset(i, ring_tail) + 1] ELSE ring[i]]
     /\ ring_tail' = ring_tail + n
     /\ wakeups' = [wakeups EXCEPT ![t] = IF n = Len(s) THEN wake ELSE 0]
     /\ refused' = refused \cup {s[i] : i \in n + 1 .. Len(s)}
  /\ fresh' = fresh \ SetOf(s)
  /\ UNCHANGED <<ring_head, stop, sleeping, exited, batch, stack, dtor, done>>

\* Mutant: push_task does not notify.
PushTaskSilently(t, x) == Submit(t, <<x>>, 0)

PushTask(t, x)  == Submit(t, <<x>>, 1)
PushBatch(t, s) == Submit(t, s, BatchWakeups(Len(s)))

\* One notify_one: some sleeping worker wakes, or nobody is there to wake.
NotifyOne(t) ==
  /\ wakeups[t] > 0
  /\ wakeups' = [wakeups EXCEPT ![t] = @ - 1]
  /\ IF sleeping = {} THEN UNCHANGED sleeping
     ELSE \E w \in sleeping : sleeping' = sleeping \ {w}
  /\ UNCHANGED <<ring, ring_head, ring_tail, stop, exited, batch, stack, dtor,
                 fresh, refused, done>>

\* Mutant: the helper takes the newest task and not the oldest.
TryRunNewest(t) ==
  /\ CanCall(t)
  /\ ~ ring_empty
  /\ stack' = [stack EXCEPT ![t] = Append(@, ring[Slot(ring_tail - 1)])]
  /\ ring' = [ring EXCEPT ![Slot(ring_tail - 1)] = NoTask]
  /\ ring_tail' = ring_tail - 1
  /\ UNCHANGED <<ring_head, stop, sleeping, exited, batch, wakeups, dtor, fresh,
                 refused, done>>

\* try_run_one, when it gets the mutex and finds a task.
TryRunOne(t) ==
  /\ CanCall(t)
  /\ ~ ring_empty
  /\ stack' = [stack EXCEPT ![t] = Append(@, ring[Slot(ring_head)])]
  /\ PopRing(1)
  /\ UNCHANGED <<stop, sleeping, exited, batch, wakeups, dtor, fresh, refused,
                 done>>

-----------------------------------------------------------------------------
(* Workers. *)

\* The top of the loop of worker(): no chunk, no task, awake.
AtFetch(w) ==
  /\ w \notin sleeping \cup exited
  /\ batch[w] = <<>>
  /\ stack[w] = <<>>

Drainable == IF ring_size <= Batch THEN ring_size ELSE Batch

Drain(w) ==
  /\ AtFetch(w)
  /\ ~ ring_empty
  /\ batch' = [batch EXCEPT ![w] =
                 [i \in 1 .. Drainable |-> ring[Slot(ring_head + i - 1)]]]
  /\ PopRing(Drainable)
  /\ UNCHANGED <<stop, sleeping, exited, stack, wakeups, dtor, fresh, refused,
                 done>>

Sleep(w) ==
  /\ AtFetch(w)
  /\ ring_empty
  /\ ~ stop
  /\ sleeping' = sleeping \cup {w}
  /\ UNCHANGED <<ring, ring_head, ring_tail, stop, exited, batch, stack,
                 wakeups, dtor, fresh, refused, done>>

\* Mutant: the worker returns on stop without looking at the ring.
ExitAtOnce(w) ==
  /\ AtFetch(w)
  /\ stop
  /\ exited' = exited \cup {w}
  /\ UNCHANGED <<ring, ring_head, ring_tail, stop, sleeping, batch, stack,
                 wakeups, dtor, fresh, refused, done>>

Exit(w) ==
  /\ AtFetch(w)
  /\ ring_empty
  /\ stop
  /\ exited' = exited \cup {w}
  /\ UNCHANGED <<ring, ring_head, ring_tail, stop, sleeping, batch, stack,
                 wakeups, dtor, fresh, refused, done>>

\* condition.wait may return without a notification.
SpuriousWakeup(w) ==
  /\ w \in sleeping
  /\ sleeping' = sleeping \ {w}
  /\ UNCHANGED <<ring, ring_head, ring_tail, stop, exited, batch, stack,
                 wakeups, dtor, fresh, refused, done>>

\* batch[i](): the worker enters the next task of its chunk.
Start(w) ==
  /\ stack[w] = <<>>
  /\ batch[w] # <<>>
  /\ stack' = [stack EXCEPT ![w] = <<Head(batch[w])>>]
  /\ batch' = [batch EXCEPT ![w] = Tail(@)]
  /\ UNCHANGED <<ring, ring_head, ring_tail, stop, sleeping, exited, wakeups,
                 dtor, fresh, refused, done>>

\* The innermost task of thread t returns.
Finish(t) ==
  /\ stack[t] # <<>>
  /\ wakeups[t] = 0
  /\ done' = done \cup {stack[t][Len(stack[t])]}
  /\ stack' = [stack EXCEPT ![t] = SubSeq(@, 1, Len(@) - 1)]
  /\ UNCHANGED <<ring, ring_head, ring_tail, stop, sleeping, exited, batch,
                 wakeups, dtor, fresh, refused>>

-----------------------------------------------------------------------------
(* The destructor, called by Owner from outside any task. *)

SetStop ==
  /\ dtor = "none"
  /\ wakeups[Owner] = 0
  /\ stack[Owner] = <<>>
  /\ stop' = TRUE
  /\ dtor' = "stopping"
  /\ UNCHANGED <<ring, ring_head, ring_tail, sleeping, exited, batch, stack,
                 wakeups, fresh, refused, done>>

\* Mutant: the destructor notifies one worker and not all.
NotifyJustOne ==
  /\ dtor = "stopping"
  /\ IF sleeping = {} THEN UNCHANGED sleeping
     ELSE \E w \in sleeping : sleeping' = sleeping \ {w}
  /\ dtor' = "joining"
  /\ UNCHANGED <<ring, ring_head, ring_tail, stop, exited, batch, stack,
                 wakeups, fresh, refused, done>>

NotifyAll ==
  /\ dtor = "stopping"
  /\ sleeping' = {}
  /\ dtor' = "joining"
  /\ UNCHANGED <<ring, ring_head, ring_tail, stop, exited, batch, stack,
                 wakeups, fresh, refused, done>>

Join ==
  /\ dtor = "joining"
  /\ exited = Workers
  /\ dtor' = "joined"
  /\ UNCHANGED <<ring, ring_head, ring_tail, stop, sleeping, exited, batch,
                 stack, wakeups, fresh, refused, done>>

-----------------------------------------------------------------------------
\* The batches a caller may build: distinct tasks nobody has submitted.
FreshBatches ==
  UNION {{s \in [1 .. n -> fresh] : \A i, j \in 1 .. n : i # j => s[i] # s[j]}
         : n \in 1 .. Cardinality(fresh)}

Call(t) ==
  \/ \E x \in fresh : PushTask(t, x)
  \/ \E s \in FreshBatches : PushBatch(t, s)
  \/ TryRunOne(t)

WorkerStep(w) == Drain(w) \/ Sleep(w) \/ Exit(w) \/ Start(w)

Destroy == SetStop \/ NotifyAll \/ Join

Next ==
  \/ \E t \in Threads : Call(t) \/ NotifyOne(t) \/ Finish(t)
  \/ \E w \in Workers : WorkerStep(w) \/ SpuriousWakeup(w)
  \/ Destroy

\* Workers run, tasks return, notify calls are made, and a destructor that has
\* begun goes on.  Nobody is obliged to submit, to help or to destroy.
Fairness ==
  /\ \A w \in Workers : WF_vars(WorkerStep(w))
  /\ \A t \in Threads : WF_vars(NotifyOne(t)) /\ WF_vars(Finish(t))
  /\ WF_vars(NotifyAll \/ Join)

Spec     == Init /\ [][Next]_vars
FairSpec == Spec /\ Fairness

-----------------------------------------------------------------------------
(* What the pool promises. *)

\* Everywhere a task can be.
Sites(x) ==
  UNION { {<<"ring", i>> : i \in {j \in Slots : ring[j] = x}},
          UNION {{<<"batch", w, i>> : i \in {j \in DOMAIN batch[w] : batch[w][j] = x}}
                 : w \in Workers},
          UNION {{<<"stack", t, i>> : i \in {j \in DOMAIN stack[t] : stack[t][j] = x}}
                 : t \in Threads},
          {<<"fresh">>   : y \in {x} \cap fresh},
          {<<"refused">> : y \in {x} \cap refused},
          {<<"done">>    : y \in {x} \cap done} }

\* No task is lost, run twice or overwritten in the ring, whatever workers and
\* helpers pop, whatever the ring has wrapped over and whichever push threw:
\* each is in exactly one place (push_task, push_batch, try_run_one, worker).
TaskInOnePlace ==
  \A x \in Task : Sites(x) # {} /\ \A a, b \in Sites(x) : a = b

\* No lost wakeup: while no push has thrown, tasks in the ring always have an
\* awake worker or a notify call on its way, although push_batch notifies only
\* ceil(n / BATCH) times, after the unlock, and workers drain in chunks.
NoStrandedWork ==
  refused = {} /\ ~ ring_empty =>
    \/ \E w \in Workers : w \notin sleeping \cup exited
    \/ \E t \in Threads : wakeups[t] > 0
    \/ dtor = "stopping"

\* "Destruct the thread pool. Waits for all tasks to complete": once the
\* destructor has joined, no accepted task is left unrun, except one an
\* external thread is still inside through try_run_one.
JoinedMeansDrained ==
  dtor = "joined" =>
    \A x \in Task :
      \/ x \in fresh \cup refused \cup done
      \/ \E t \in Externals : x \in SetOf(stack[t])

\* The inductive invariant behind the safety properties.  Window: the slots
\* between the two counters hold tasks, so that a drain never picks up an empty
\* InlineTask.
Window     == ring_head .. ring_tail - 1
WindowFull == \A i \in Window : ring[Slot(i)] \in Task

\* A worker that returned left nothing behind, and found the ring empty for good.
ExitedIsFinal ==
  /\ stop <=> dtor # "none"
  /\ sleeping \cap exited = {}
  /\ exited # {} => stop /\ ring_empty
  /\ \A w \in exited : batch[w] = <<>> /\ stack[w] = <<>>
  /\ dtor = "joined" => exited = Workers

Placed(x) ==
  \/ x \in fresh \cup refused \cup done
  \/ \E i \in Window : ring[Slot(i)] = x
  \/ \E w \in Workers : x \in SetOf(batch[w])
  \/ \E t \in Threads : x \in SetOf(stack[t])

NothingLost == \A x \in Task : Placed(x)

PoolInv == TypeOK /\ WindowFull /\ ExitedIsFinal /\ NothingLost /\ NoStrandedWork

\* Every task that a push accepted is run in the end: the wakeups a push makes
\* suffice whatever the workers were doing.  A push_batch that throws at a full
\* ring has notified nobody, so from then on nothing is promised.
AcceptedTasksRun == \A x \in Task : x \in SetOf(Queued) ~> x \in done \/ refused # {}

\* A destructor that has begun returns: no worker sleeps through stop.
ShutdownCompletes == dtor = "stopping" ~> dtor = "joined"

\* The pool is a FIFO queue of tasks: it refines the abstract queue.
Abstract == INSTANCE TaskQueue WITH
  queued <- Queued,
  active <- (UNION {SetOf(batch[w]) : w \in Workers})
            \cup (UNION {SetOf(stack[t]) : t \in Threads})
ImplementsTaskQueue == Abstract!Spec

=============================================================================
