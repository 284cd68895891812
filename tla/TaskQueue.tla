----------------------------- MODULE TaskQueue ------------------------------
(***************************************************************************)
(* What callers of the thread pool may rely on: a first-in first-out queue *)
(* of tasks.  A push is accepted, or refused from some task of the batch   *)
(* onwards; tasks are taken from the front, a few at a time; a task taken  *)
(* is run once.                                                            *)
(***************************************************************************)
EXTENDS Integers, Sequences, FiniteSets

CONSTANTS Task, Batch

VARIABLES
  fresh,    \* never submitted
  queued,   \* accepted and waiting, oldest first
  active,   \* taken by some thread, not finished
  refused,  \* submitted in vain: the push threw
  done

vars == <<fresh, queued, active, refused, done>>

Init ==
  /\ fresh = Task
  /\ queued = <<>>
  /\ active = {}
  /\ refused = {}
  /\ done = {}

\* A push of s, of which the first n are accepted.
Push(s, n) ==
  /\ fresh' = fresh \ {s[i] : i \in DOMAIN s}
  /\ queued' = queued \o SubSeq(s, 1, n)
  /\ refused' = refused \cup {s[i] : i \in n + 1 .. Len(s)}
  /\ UNCHANGED <<active, done>>

\* Some thread takes the n oldest tasks.
Take(n) ==
  /\ n <= Len(queued)
  /\ queued' = SubSeq(queued, n + 1, Len(queued))
  /\ active' = active \cup {queued[i] : i \in 1 .. n}
  /\ UNCHANGED <<fresh, refused, done>>

Complete(x) ==
  /\ x \in active
  /\ active' = active \ {x}
  /\ done' = done \cup {x}
  /\ UNCHANGED <<fresh, queued, refused>>

DistinctFresh(n) ==
  {s \in [1 .. n -> fresh] : \A i, j \in 1 .. n : i # j => s[i] # s[j]}

Next ==
  \/ \E k \in 1 .. Len(queued) : k <= Batch /\ Take(k)
  \/ \E x \in active : Complete(x)
  \/ \E k \in 1 .. Cardinality(fresh) : \E s \in DistinctFresh(k), n \in 0 .. k : Push(s, n)

Spec == Init /\ [][Next]_vars

=============================================================================
