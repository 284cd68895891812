---------------------------- MODULE MCWatchRuns ----------------------------
(***************************************************************************)
(* Instances of WatchRuns.  "shallow" is a read overflow in the main       *)
(* header (severity low), "signal" a read overflow in a deep stage, "write" *)
(* a write in a deep stage.                                                *)
(***************************************************************************)
EXTENDS WatchRuns

MCKind == [f \in Fingerprints |-> "asan"]
MCSeverity == [f \in Fingerprints |-> CASE f = "shallow" -> "low" [] f = "write" -> "critical"
                                        [] OTHER -> "high"]
MCShallow == Fingerprints \cap {"shallow"}
MCDeep == Fingerprints \ MCShallow
MCWrites == Fingerprints \cap {"write"}
MCSignals == Fingerprints \cap {"signal"}
=============================================================================
