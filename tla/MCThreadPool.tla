---------------------------- MODULE MCThreadPool ----------------------------
(***************************************************************************)
(* The pool for TLC: a ring of two slots and three tasks, so that pushes   *)
(* overflow it and its indices wrap.  No symmetry, as liveness is checked. *)
(***************************************************************************)
EXTENDS ThreadPool

=============================================================================
