--------------------------- MODULE MCRefinerQueue ---------------------------
(***************************************************************************)
(* Two instances of the refiner queue.  MCRefinerQueue.cfg: a              *)
(* duplicate-crash review, the corpus refinement its replay leads to, and  *)
(* a seed the watcher records in the registry of that refinement.          *)
(* MCRefinerQueueRevive.cfg and MCRefinerQueueStuck.cfg: a harness review  *)
(* queued from evidence, which may be revived, and one the watcher records *)
(* in the same registry.                                                   *)
(***************************************************************************)
EXTENDS RefinerQueue

MCReg == [review |-> "duplicate_crash_reviews", corpus |-> "corpus_refinements",
          seed |-> "corpus_refinements",
          evidence |-> "harness_review_queue", harness |-> "harness_review_queue"]
MCFollowUp == [review |-> "corpus"]
NoFollowUp == [r \in {} |-> r]

=============================================================================
