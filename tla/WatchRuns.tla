----------------------------- MODULE WatchRuns -----------------------------
(***************************************************************************)
(* A watch of Hermes (main of scripts/hermes_watch.py): build, smoke test, *)
(* fuzz, classify the outcome, decide a policy action, update the          *)
(* registries, run the most urgent pending trigger, append the history.    *)
(*                                                                         *)
(* The trigger's command is scripts/run-fuzz-mode.sh, which is a watch     *)
(* again: run_quiet waits for it inside execute_regression_trigger, and it *)
(* may start a third one.  The runs in progress form a stack, and they     *)
(* share the registry files.  Each action up to the next save is a step; a *)
(* kill falls between two of them.                                         *)
(*                                                                         *)
(* Logs, reports, notifications, times and coverage numbers are left out;  *)
(* what the fuzzer does is chosen freely.                                  *)
(***************************************************************************)
EXTENDS Integers, Sequences, FiniteSetsExt

CONSTANTS
  Fingerprints, \* crash families
  Kind,         \* fingerprint -> "asan" (any crash), "leak" or "timeout"
  Severity,     \* fingerprint -> severity of the profile's buckets, else "high"
  Shallow,      \* fingerprints of stage parse-main-header
  Deep,         \* fingerprints of a stage of class medium or deep
  Writes,       \* those that match the trigger deep_write_crash
  Signals,      \* those that match the trigger deep_signal_emergence
  Seeds,        \* inputs a smoke test may name when it fails
  Timed,        \* actions of the history triggers on times and coverage that may match
  MinFamilies,  \* min_crash_families of the trigger shallow_crash_dominance
  SkipSmoke,    \* SKIP_SMOKE in the operator's shell: "unset", "0" or "1"
  MaxWatches,   \* bound: watches the operator starts
  MaxKills      \* bound: kills

NoFp == "no-fingerprint"
NoSeed == "no-seed"
Modes == {"plain", "triage", "coverage", "regression"}

ASSUME WatchAssumption ==
  /\ Kind \in [Fingerprints -> {"asan", "leak", "timeout"}]
  /\ Severity \in [Fingerprints -> {"low", "medium", "high", "critical"}]
  /\ Shallow \subseteq Fingerprints /\ Deep \subseteq Fingerprints /\ Writes \subseteq Fingerprints
  /\ Signals \subseteq Fingerprints
  /\ NoFp \notin Fingerprints /\ NoSeed \notin Seeds
  /\ Timed \subseteq {"propose_harness_revision", "split_slow_lane", "minimize_and_reseed"}
  /\ SkipSmoke \in {"unset", "0", "1"}
  /\ MaxWatches \in Nat /\ MaxKills \in Nat

VARIABLES
  stack,       \* the runs in progress, each one started by the one before it
  triggers,    \* regression_triggers.json: key -> status
  crash_index, \* fingerprint -> occurrence_count, 0 when it is not in the index
  known_bad,   \* fingerprint -> occurrence_count in known_bad.json
  policy_log,  \* policy_actions.json: <<fingerprint, action code>> of the crashes
  candidates,  \* regression_candidates.json: seeds
  run_history, \* run_history.json: how many entries of each kind
  watches, kills,
  orphans,     \* families killed before the first policy entry (history)
  lost,        \* fingerprint -> indexed runs that left no entry (history)
  owned        \* triggers an operator's own watch recorded (history)

vars == <<stack, triggers, crash_index, known_bad, policy_log, candidates,
          run_history, watches, kills, orphans, lost, owned>>

-----------------------------------------------------------------------------
(* Triggers. *)

\* The action codes of should_trigger_regression.
Reasons == {"fix-build-before-fuzzing", "high_priority_alert",
            "continue_and_prioritize_triage", "promote-seed-to-regression-and-triage"}

regression_trigger_priority ==
  [r \in Reasons |-> CASE r = "fix-build-before-fuzzing" -> 100
                       [] r = "high_priority_alert" -> 95
                       [] r = "continue_and_prioritize_triage" -> 90
                       [] r = "promote-seed-to-regression-and-triage" -> 80]

\* The mode that the follow-up command runs.
followup_mode ==
  [r \in Reasons |-> IF r \in {"continue_and_prioritize_triage", "high_priority_alert"}
                     THEN "triage" ELSE "regression"]

\* regression_trigger_dedup_key
Keys == [reason : Reasons, seed : {NoSeed}]
        \cup [reason : {"promote-seed-to-regression-and-triage"}, seed : Seeds]

Statuses == {"absent", "recorded", "completed", "failed", "skipped"}

NoTriggers == [k \in Keys |-> "absent"]

Pending == {k \in Keys : triggers[k] = "recorded"}

\* The first pending entry of the sorted registry.  Entries of equal priority are
\* sorted by the path of the run that saw them first: any may come first.
most_urgent == {k \in Pending : \A j \in Pending :
                  regression_trigger_priority[k.reason] >= regression_trigger_priority[j.reason]}

-----------------------------------------------------------------------------
(* Policy. *)

priority_rank == [low |-> 1, medium |-> 2, high |-> 3, critical |-> 4]

DuplicateCodes == {"record-duplicate-crash", "review_duplicate_crash_replay"}

classify_artifact_event(outcome, fp) ==
  IF outcome \in {"build-failed", "smoke-failed", "timeout", "no-progress"} THEN outcome
  ELSE IF fp # NoFp THEN IF Kind[fp] = "asan" THEN "crash" ELSE Kind[fp]
  ELSE IF outcome = "fuzzer-exit-nonzero" THEN "fuzzer-exit" ELSE outcome

Action(code, priority) == [code |-> code, priority |-> priority]
NoOverride == Action("", "low")

base_action(category, fp, dup) ==
  CASE category = "build-failed" -> Action("fix-build-before-fuzzing", "high")
    [] category = "smoke-failed" -> Action("promote-seed-to-regression-and-triage", "high")
    [] category = "leak" -> Action("triage-leak-and-consider-coverage-policy", "medium")
    [] category = "timeout" -> Action("inspect-slow-path-or-timeout-policy", "medium")
    [] category = "no-progress" -> Action("improve-corpus-or-harness", "medium")
    [] category = "crash" /\ ~ dup -> Action("triage-new-crash", "high")
    [] category = "crash" /\ dup /\ fp \in Deep ->
         Action("review_duplicate_crash_replay", "high")
    [] category = "crash" /\ dup /\ fp \notin Deep ->
         Action("record-duplicate-crash", "medium")
    [] category = "fuzzer-exit" -> Action("inspect-nonzero-exit", "medium")
    [] OTHER -> Action("continue-observing", "low")

evaluate_profile_policy(category, fp, dup) ==
  IF fp \in Writes THEN Action("high_priority_alert", Severity[fp])
  ELSE IF fp \in Signals /\ ~ dup /\ category = "crash"
       THEN Action("continue_and_prioritize_triage", Severity[fp])
  ELSE NoOverride

-----------------------------------------------------------------------------
(* History.  An entry is known by its fingerprint and by whether its outcome   *)
(* was "crash".  No run of the model gets to max_entries, which is 200.        *)

EntryKinds == [crash : BOOLEAN, fp : Fingerprints \cup {NoFp}]

append_run_history(hist, r) ==
  [hist EXCEPT ![[crash |-> r.outcome = "crash", fp |-> r.fp]] = @ + 1]

Total(hist, kinds) == MapThenSumSet(LAMBDA e : hist[e], kinds)

\* The override of the first trigger that matches.  Those on times and coverage
\* come between shallow_crash_dominance and stability_drop and need four entries.
evaluate_history_triggers(hist) ==
  LET crashes == {e \in EntryKinds : e.crash}
      families == Cardinality({e \in crashes : hist[e] > 0})
      total == Total(hist, crashes)
      shallow == Total(hist, {e \in crashes : e.fp \in Shallow})
      timed == {Action(code, IF code = "split_slow_lane" THEN "high" ELSE "medium") : code \in Timed}
      stability_drop == total >= 4 /\ 10 * (total - families) >= 4 * total /\ 4 * shallow >= 3 * total
  IN IF total > 0 /\ families >= MinFamilies /\ 10 * shallow >= 7 * total
     THEN {Action("shift_weight_to_deeper_harness", "high")}
     ELSE (IF Total(hist, EntryKinds) >= 4 THEN timed ELSE {})
          \cup {IF stability_drop THEN Action("halt_and_review_harness", "high") ELSE NoOverride}

Overridden(action, override) ==
  IF override.code # "" /\ priority_rank[override.priority] >= priority_rank[action.priority]
  THEN override ELSE action

Failures == {"build-failed", "smoke-failed"}

\* The action codes that may be decided for run r: the profile overrides the base
\* action, the history overrides both.  A failure is decided on the history of
\* earlier runs, anything else with this run added.
decide_policy_action(r) ==
  LET category == classify_artifact_event(r.outcome, r.fp)
      action == Overridden(base_action(category, r.fp, r.dup),
                           evaluate_profile_policy(category, r.fp, r.dup))
      hist == IF r.outcome \in Failures THEN r.hist ELSE append_run_history(r.hist, r)
  IN {Overridden(action, h).code : h \in evaluate_history_triggers(hist)}

-----------------------------------------------------------------------------
(* The runs in progress. *)

NoKey == [reason |-> "none", seed |-> NoSeed]

\* run-fuzz-mode.sh runs the smoke test in mode regression, unless SKIP_SMOKE is set.
Smoked(mode) == SkipSmoke = "0" \/ (SkipSmoke = "unset" /\ mode = "regression")

NewRun(mode, smoke) ==
  [mode |-> mode, smoke |-> smoke, pc |-> "begin", hist |-> run_history, outcome |-> "",
   fp |-> NoFp, dup |-> FALSE, action |-> "", seed |-> NoSeed,
   key |-> NoKey,       \* the trigger it follows up
   data |-> NoTriggers, \* the registry it loaded before
   exit |-> FALSE]      \* whether the follow-up exited with 0

Running(pc) == stack # <<>> /\ stack[Len(stack)].pc = pc
Top == stack[Len(stack)]

NextIs(r) == stack' = [stack EXCEPT ![Len(stack)] = r]

Init ==
  /\ stack = <<>> /\ triggers = NoTriggers
  /\ crash_index = [f \in Fingerprints |-> 0] /\ known_bad = [f \in Fingerprints |-> 0]
  /\ policy_log = {} /\ candidates = {} /\ run_history = [e \in EntryKinds |-> 0]
  /\ watches = 0 /\ kills = 0
  /\ orphans = {} /\ lost = [f \in Fingerprints |-> 0] /\ owned = {}

\* The operator starts hermes_watch.py ("plain", with or without --skip-smoke), or the
\* script.
StartWatch ==
  /\ stack = <<>> /\ watches < MaxWatches
  /\ \E mode \in Modes, smoke \in BOOLEAN :
       /\ mode # "plain" => smoke = Smoked(mode)
       /\ stack' = <<NewRun(mode, smoke)>>
  /\ watches' = watches + 1
  /\ UNCHANGED <<triggers, crash_index, known_bad, policy_log, candidates, run_history,
                 kills, orphans, lost, owned>>

BuildFails ==
  /\ Running("begin") /\ NextIs([Top EXCEPT !.outcome = "build-failed", !.pc = "policy"])
  /\ UNCHANGED <<triggers, crash_index, known_bad, policy_log, candidates, run_history,
                 watches, kills, orphans, lost, owned>>

\* The log of the smoke test names the input it failed on, or none.
SmokeFails ==
  /\ Running("begin") /\ Top.smoke
  /\ \E seed \in Seeds \cup {NoSeed} :
       NextIs([Top EXCEPT !.outcome = "smoke-failed", !.seed = seed, !.pc = "policy"])
  /\ UNCHANGED <<triggers, crash_index, known_bad, policy_log, candidates, run_history,
                 watches, kills, orphans, lost, owned>>

\* The fuzzer has ended by itself, by a crash, or stopped for lack of progress.  A
\* signature is built only from the lines of a crash or a timeout.
Fuzz ==
  /\ Running("begin")
  /\ \/ \E outcome \in {"ok", "no-progress", "fuzzer-exit-nonzero"} :
           NextIs([Top EXCEPT !.outcome = outcome, !.pc = "policy"])
     \/ \E fp \in Fingerprints, outcome \in {"crash", "timeout"} :
           /\ outcome = "timeout" => Kind[fp] = "timeout"
           /\ NextIs([Top EXCEPT !.outcome = outcome, !.fp = fp, !.pc = "index"])
  /\ UNCHANGED <<triggers, crash_index, known_bad, policy_log, candidates, run_history,
                 watches, kills, orphans, lost, owned>>

\* Mutant: the duplicate is looked for after the insertion.
update_crash_index_first ==
  /\ Running("index")
  /\ crash_index' = [crash_index EXCEPT ![Top.fp] = @ + 1]
  /\ NextIs([Top EXCEPT !.dup = crash_index'[Top.fp] > 0, !.pc = "policy"])
  /\ UNCHANGED <<triggers, known_bad, policy_log, candidates, run_history,
                 watches, kills, orphans, lost, owned>>

update_crash_index ==
  /\ Running("index")
  /\ crash_index' = [crash_index EXCEPT ![Top.fp] = @ + 1]
  /\ NextIs([Top EXCEPT !.dup = crash_index[Top.fp] > 0, !.pc = "policy"])
  /\ UNCHANGED <<triggers, known_bad, policy_log, candidates, run_history,
                 watches, kills, orphans, lost, owned>>

-----------------------------------------------------------------------------
(* apply_policy_action, up to each of its saves. *)

SaveOf(code) ==
  IF code \in DuplicateCodes THEN "known_bad"
  ELSE IF code = "promote-seed-to-regression-and-triage" THEN "candidate"
  ELSE IF code \in Reasons THEN "trigger" ELSE "finish"

LogPolicy ==
  /\ Running("policy")
  /\ \E code \in decide_policy_action(Top) :
       /\ NextIs([Top EXCEPT !.action = code, !.pc = SaveOf(code)])
       /\ policy_log' = policy_log \cup (IF Top.fp = NoFp THEN {} ELSE {<<Top.fp, code>>})
  /\ UNCHANGED <<triggers, crash_index, known_bad, candidates, run_history,
                 watches, kills, orphans, lost, owned>>

FileKnownBad ==
  /\ Running("known_bad")
  /\ known_bad' = [known_bad EXCEPT ![Top.fp] = Max({@, crash_index[Top.fp]})]
  /\ NextIs([Top EXCEPT !.pc = "finish"])
  /\ UNCHANGED <<triggers, crash_index, policy_log, candidates, run_history,
                 watches, kills, orphans, lost, owned>>

FileCandidate ==
  /\ Running("candidate")
  /\ candidates' = candidates \cup {Top.seed}
  /\ NextIs([Top EXCEPT !.pc = "trigger"])
  /\ UNCHANGED <<triggers, crash_index, known_bad, policy_log, run_history,
                 watches, kills, orphans, lost, owned>>

regression_trigger_dedup_key(r) ==
  [reason |-> r.action,
   seed |-> IF r.action = "promote-seed-to-regression-and-triage" THEN r.seed ELSE NoSeed]

record_regression_trigger ==
  /\ Running("trigger")
  /\ LET k == regression_trigger_dedup_key(Top) IN
       /\ triggers' = [triggers EXCEPT ![k] = "recorded"]
       /\ owned' = IF Len(stack) = 1 THEN owned \cup {k} ELSE owned
  /\ NextIs([Top EXCEPT !.pc = "next"])
  /\ UNCHANGED <<crash_index, known_bad, policy_log, candidates, run_history,
                 watches, kills, orphans, lost>>

\* Mutant: the entry is taken out of the queue before its command runs.
StartFollowUpMarked(k) ==
  /\ triggers' = [triggers EXCEPT ![k] = "completed"]
  /\ stack' = [stack EXCEPT ![Len(stack)] =
                 [Top EXCEPT !.key = k, !.data = triggers, !.pc = "followup"]]
              \o <<NewRun(followup_mode[k.reason], Smoked(followup_mode[k.reason]))>>

\* run_quiet: this run waits for its follow-up, with the registry in hand.  The entry
\* stays "recorded" in the file.
StartFollowUp(k) ==
  /\ stack' = [stack EXCEPT ![Len(stack)] =
                 [Top EXCEPT !.key = k, !.data = triggers, !.pc = "followup"]]
              \o <<NewRun(followup_mode[k.reason], Smoked(followup_mode[k.reason]))>>
  /\ UNCHANGED triggers

\* Mutant: an entry of this run's own mode is tried again instead of skipped.
SkipForGood(k) ==
  /\ NextIs([Top EXCEPT !.pc = "next"])
  /\ UNCHANGED triggers

Skip(k) ==
  /\ triggers' = [triggers EXCEPT ![k] = "skipped"]
  /\ NextIs([Top EXCEPT !.pc = "finish"])

execute_next_regression_trigger ==
  /\ Running("next")
  /\ \E k \in most_urgent :
       IF followup_mode[k.reason] = Top.mode THEN Skip(k) ELSE StartFollowUp(k)
  /\ UNCHANGED <<crash_index, known_bad, policy_log, candidates, run_history,
                 watches, kills, orphans, lost, owned>>

\* Mutant: the registry is saved with the entry of the follow-up only.
SavedAlone(r) ==
  [NoTriggers EXCEPT ![r.key] = IF r.exit THEN "completed" ELSE "failed"]

\* Mutant: the status is the outcome of the run that waited.
SavedOutcome(r) == [r.data EXCEPT ![r.key] = IF r.exit THEN "completed" ELSE r.outcome]

\* The registry as it was loaded before the follow-up, with the outcome.
SavedAfter(r) == [r.data EXCEPT ![r.key] = IF r.exit THEN "completed" ELSE "failed"]

SaveFollowUp ==
  /\ Running("return")
  /\ triggers' = SavedAfter(Top)
  /\ NextIs([Top EXCEPT !.pc = "finish"])
  /\ UNCHANGED <<crash_index, known_bad, policy_log, candidates, run_history,
                 watches, kills, orphans, lost, owned>>

-----------------------------------------------------------------------------
(* The end of a run. *)

\* What remains when the last run has ended, with exit status 0 or not.
Popped(exit) ==
  LET parent == Len(stack) - 1
  IN IF parent = 0 THEN <<>>
     ELSE [i \in 1..parent |-> IF i = parent THEN [stack[i] EXCEPT !.pc = "return", !.exit = exit]
                               ELSE stack[i]]

\* Mutant: the entry is appended to the history that the run loaded when it began.
FinishOnLoaded ==
  /\ Running("finish")
  /\ run_history' = append_run_history(Top.hist, Top)
  /\ stack' = Popped(Top.outcome \in {"ok", "no-progress"})
  /\ UNCHANGED <<triggers, crash_index, known_bad, policy_log, candidates,
                 watches, kills, orphans, lost, owned>>

Finish ==
  /\ Running("finish")
  /\ run_history' = append_run_history(run_history, Top)
  /\ stack' = Popped(Top.outcome \in {"ok", "no-progress"})
  /\ UNCHANGED <<triggers, crash_index, known_bad, policy_log, candidates,
                 watches, kills, orphans, lost, owned>>

RunStep ==
  \/ BuildFails \/ SmokeFails \/ Fuzz \/ update_crash_index
  \/ LogPolicy \/ FileKnownBad \/ FileCandidate \/ record_regression_trigger
  \/ execute_next_regression_trigger \/ SaveFollowUp \/ Finish

Indexed(r) == r.fp # NoFp /\ r.pc # "index"
Unlogged(r) == r.fp # NoFp /\ r.pc = "policy" /\ ~ r.dup

\* The process group dies (all runs), or the last run alone, which its parent sees as a
\* nonzero exit.
Kill ==
  /\ stack # <<>> /\ kills < MaxKills
  /\ \E first \in {1, Len(stack)} :
       LET killed == {stack[i] : i \in first..Len(stack)}
       IN /\ stack' = IF first = 1 THEN <<>> ELSE Popped(FALSE)
          /\ orphans' = orphans \cup {r.fp : r \in {q \in killed : Unlogged(q)}}
          /\ lost' = [f \in Fingerprints |-> lost[f]
                        + Cardinality({i \in first..Len(stack) : Indexed(stack[i]) /\ stack[i].fp = f})]
  /\ kills' = kills + 1
  /\ UNCHANGED <<triggers, crash_index, known_bad, policy_log, candidates, run_history,
                 watches, owned>>

Next == StartWatch \/ RunStep \/ Kill

\* A run that has begun goes on: builds, smoke tests and the fuzzer end (the fuzzer by
\* -max_total_time).  Nobody has to start a watch or to kill one.
Spec == Init /\ [][Next]_vars /\ WF_vars(RunStep)

-----------------------------------------------------------------------------
(* Properties. *)

Outcomes == {"", "build-failed", "smoke-failed", "ok", "no-progress", "fuzzer-exit-nonzero",
             "crash", "timeout"}
Steps == {"begin", "index", "policy", "known_bad", "candidate", "trigger", "next",
          "followup", "return", "finish"}
Registries == [Keys -> Statuses]
Codes ==
  {"", "fix-build-before-fuzzing", "promote-seed-to-regression-and-triage",
   "triage-leak-and-consider-coverage-policy", "inspect-slow-path-or-timeout-policy",
   "improve-corpus-or-harness", "triage-new-crash", "review_duplicate_crash_replay",
   "record-duplicate-crash", "inspect-nonzero-exit", "continue-observing",
   "high_priority_alert", "continue_and_prioritize_triage", "shift_weight_to_deeper_harness",
   "propose_harness_revision", "split_slow_lane", "minimize_and_reseed",
   "halt_and_review_harness"}
Runs ==
  [mode : Modes, smoke : BOOLEAN, pc : Steps, hist : [EntryKinds -> Nat],
   outcome : Outcomes, fp : Fingerprints \cup {NoFp}, dup : BOOLEAN, action : Codes,
   seed : Seeds \cup {NoSeed}, key : Keys \cup {NoKey}, data : Registries, exit : BOOLEAN]

\* Types of all variables.
TypeOK ==
  /\ stack \in Seq(Runs)
  /\ triggers \in Registries
  /\ crash_index \in [Fingerprints -> Nat] /\ known_bad \in [Fingerprints -> Nat]
  /\ policy_log \subseteq Fingerprints \X Codes
  /\ candidates \subseteq Seeds \cup {NoSeed}
  /\ run_history \in [EntryKinds -> Nat]
  /\ watches \in 0..MaxWatches /\ kills \in 0..MaxKills
  /\ orphans \subseteq Fingerprints /\ lost \in [Fingerprints -> Nat] /\ owned \subseteq Keys

\* A follow-up is a whole watch that may trigger a follow-up of its own.  As the entry being
\* followed up is still "recorded", and an entry of the run's own mode is skipped, each
\* follow-up must be more urgent than the one before and in the other mode: an operator's
\* watch never grows into more than four nested ones.
NestingBounded == Len(stack) <= 4

\* How many runs of family f the history holds.
Entries(f) ==
  run_history[[crash |-> TRUE, fp |-> f]] + run_history[[crash |-> FALSE, fp |-> f]]

\* Nested runs append to the crash index and to the history while outer ones wait: each
\* occurrence that was counted has its history entry, or its run is still at work, or it
\* was killed.
CrashesAccounted ==
  \A f \in Fingerprints :
    crash_index[f] = lost[f]
      + Cardinality({i \in DOMAIN stack : Indexed(stack[i]) /\ stack[i].fp = f})
      + Entries(f)

\* A family is filed as known bad only when some run decided about it as a new one, save
\* when that run was killed between the crash index and the policy log.
NoFamilySkipsTriage ==
  \A f \in Fingerprints \ orphans :
    known_bad[f] > 0 => \E entry \in policy_log : entry[1] = f /\ entry[2] \notin DuplicateCodes

\* Each run saves the trigger registry as it was before its follow-up ran.  What follow-ups
\* record is lost, but no trigger of an operator's own watch ever is.
TopLevelTriggersKept == \A k \in owned : triggers[k] # "absent"

\* A watch ends, with all the follow-ups it grows into.
WatchEnds == stack # <<>> ~> stack = <<>>

\* "build-failed / smoke-failed" records a regression trigger
\* (fuzz-records/policies/fuzz-policy-v1.md:84): a run that failed has its entry in the
\* registry when it is done.
FailuresAreTriggered ==
  \A i \in DOMAIN stack : stack[i].pc = "finish" =>
    /\ stack[i].outcome = "build-failed" =>
         triggers[[reason |-> "fix-build-before-fuzzing", seed |-> NoSeed]] # "absent"
    /\ stack[i].outcome = "smoke-failed" =>
         triggers[[reason |-> "promote-seed-to-regression-and-triage", seed |-> stack[i].seed]] # "absent"
=============================================================================
