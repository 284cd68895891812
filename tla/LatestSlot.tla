----------------------------- MODULE LatestSlot -----------------------------
(***************************************************************************)
(* LatestSlot<T> (apps/rtp_recv/frame_pipeline.hpp): a one-place handoff   *)
(* between two threads in which the latest item wins.  The slot and the    *)
(* eviction count are guarded by a mutex and a condition variable; the     *)
(* stop flag that pop_wait looks at is not.                                *)
(*                                                                         *)
(* A critical section without a wait is one action.  pop_wait is split     *)
(* where it matters: it evaluates its predicate with the mutex held, and   *)
(* then gives the mutex up and blocks in one step.  notify and notify_one  *)
(* take no mutex.                                                          *)
(***************************************************************************)
EXTENDS Integers

CONSTANT None  \* the empty std::optional

VARIABLES
  slot,       \* slot_
  evictions,  \* evictions_
  waiter      \* the thread in pop_wait: "awake", "committed" (its predicate was
              \* false and it still holds the mutex) or "blocked"

TypeOK(T) ==
  /\ slot \in T \cup {None}
  /\ evictions \in Nat
  /\ waiter \in {"awake", "committed", "blocked"}

Init == slot = None /\ evictions = 0 /\ waiter = "awake"

\* Mutant: nobody takes the mutex.
Unguarded == TRUE

MutexFree == waiter # "committed"

\* Mutant: an item that is overwritten is not counted.
PushUncounted(x) ==
  /\ MutexFree
  /\ slot' = x
  /\ UNCHANGED <<evictions, waiter>>

\* push, up to the end of its critical section.
Push(x) ==
  /\ MutexFree
  /\ slot' = x
  /\ evictions' = evictions + (IF slot # None THEN 1 ELSE 0)
  /\ UNCHANGED waiter

\* notify_one in push, notify_all in notify, and a wakeup out of the blue: with
\* one waiting thread they do the same.
Notify ==
  /\ waiter' = IF waiter = "blocked" THEN "awake" ELSE waiter
  /\ UNCHANGED <<slot, evictions>>

\* Mutant: pop_wait copies the item and leaves it in the slot.
PopWaitCopies ==
  /\ waiter = "awake"
  /\ slot # None
  /\ UNCHANGED <<slot, evictions, waiter>>

\* pop_wait takes the item that is there.
PopWaitTakes ==
  /\ waiter = "awake"
  /\ slot # None
  /\ slot' = None
  /\ UNCHANGED <<evictions, waiter>>

\* pop_wait returns nullopt.
PopWaitStops(stop) ==
  /\ waiter = "awake"
  /\ slot = None /\ stop
  /\ UNCHANGED <<slot, evictions, waiter>>

\* The predicate of pop_wait is false.
PopWaitCommits(stop) ==
  /\ waiter = "awake"
  /\ slot = None /\ ~ stop
  /\ waiter' = "committed"
  /\ UNCHANGED <<slot, evictions>>

PopWaitBlocks ==
  /\ waiter = "committed"
  /\ waiter' = "blocked"
  /\ UNCHANGED <<slot, evictions>>

\* try_pop: takes the item, or finds none and changes nothing.
TryPop ==
  /\ MutexFree
  /\ slot' = None
  /\ UNCHANGED <<evictions, waiter>>

=============================================================================
