-------------------------- MODULE WatchRunsProofs --------------------------
(***************************************************************************)
(* Proofs about the watch and its follow-ups, for any crashes, seeds,      *)
(* history triggers and kills: the types of the registries; that a watch   *)
(* never grows into more than four nested runs; and, though every run      *)
(* saves registries that other runs have changed meanwhile, that no        *)
(* trigger of an operator's own watch is lost, no crash family is filed as *)
(* known bad undecided and every counted crash is accounted for.           *)
(***************************************************************************)
EXTENDS WatchRuns, FiniteSetTheorems, SequenceTheorems, TLAPS

-----------------------------------------------------------------------------
(* Types. *)

\* A frame with which a run begins.
LEMMA NewRunType ==
  ASSUME run_history \in [EntryKinds -> Nat], NEW mode \in Modes, NEW smoke \in BOOLEAN
  PROVE  /\ NewRun(mode, smoke) \in Runs
         /\ NewRun(mode, smoke).mode = mode /\ NewRun(mode, smoke).pc = "begin"
<1>1. NoTriggers \in Registries
  BY DEF NoTriggers, Registries, Statuses
<1>2. /\ "begin" \in Steps /\ "" \in Outcomes /\ "" \in Codes
      /\ NoFp \in Fingerprints \cup {NoFp} /\ NoSeed \in Seeds \cup {NoSeed}
      /\ NoKey \in Keys \cup {NoKey} /\ FALSE \in BOOLEAN
  BY DEF Steps, Outcomes, Codes
<1>3. NewRun(mode, smoke) \in Runs
  BY <1>1, <1>2, Zenon DEF NewRun, Runs
<1> QED
  BY <1>3 DEF NewRun

Priorities == {"low", "medium", "high", "critical"}
Actions == [code : Codes, priority : Priorities]

\* The codes that policy decides.
LEMMA DecisionsAreCodes ==
  ASSUME NEW r \in Runs, NEW code \in decide_policy_action(r)
  PROVE  code \in Codes
<1>1. NoOverride \in Actions
  BY DEF NoOverride, Action, Actions, Codes, Priorities
<1>2. \A category, fp, dup : base_action(category, fp, dup) \in Actions
  BY DEF base_action, Action, Actions, Codes, Priorities
<1>3. \A category, fp, dup : fp \in Fingerprints \cup {NoFp} =>
        evaluate_profile_policy(category, fp, dup) \in Actions
  <2> SUFFICES ASSUME NEW category, NEW fp, NEW dup
               PROVE  evaluate_profile_policy(category, fp, dup) \in Actions
    OBVIOUS
  <2>1. fp \in Writes \/ fp \in Signals => Severity[fp] \in Priorities
    BY WatchAssumption DEF Priorities
  <2>2. CASE fp \in Writes
    <3>1. Action("high_priority_alert", Severity[fp]) \in Actions
      BY <2>1, <2>2 DEF Action, Actions, Codes
    <3> QED
      BY <2>2, <3>1, Zenon DEF evaluate_profile_policy
  <2>3. CASE fp \notin Writes /\ fp \in Signals
    <3>1. Action("continue_and_prioritize_triage", Severity[fp]) \in Actions
      BY <2>1, <2>3 DEF Action, Actions, Codes
    <3> QED
      BY <1>1, <2>3, <3>1, Zenon DEF evaluate_profile_policy
  <2>4. CASE fp \notin Writes /\ fp \notin Signals
    BY <1>1, <2>4 DEF evaluate_profile_policy
  <2> QED
    BY <2>2, <2>3, <2>4
<1>4. \A hist : evaluate_history_triggers(hist) \subseteq Actions
  <2>1. \A c \in Timed : Action(c, IF c = "split_slow_lane" THEN "high" ELSE "medium") \in Actions
    <3>1. \A c \in Timed : c \in Codes
      BY WatchAssumption DEF Codes
    <3>2. \A c, p : c \in Codes /\ p \in Priorities => Action(c, p) \in Actions
      BY DEF Action, Actions
    <3>3. \A c : (IF c = "split_slow_lane" THEN "high" ELSE "medium") \in Priorities
      BY DEF Priorities
    <3> QED
      BY <3>1, <3>2, <3>3, Zenon
  <2>2. /\ Action("shift_weight_to_deeper_harness", "high") \in Actions
        /\ Action("halt_and_review_harness", "high") \in Actions
    BY DEF Action, Actions, Codes, Priorities
  <2> QED
    BY <1>1, <2>1, <2>2, Zenon DEF evaluate_history_triggers
<1>5. \A a \in Actions, o \in Actions : Overridden(a, o) \in Actions
  BY Zenon DEF Overridden
<1>6. \A a \in Actions : a.code \in Codes
  BY DEF Actions
<1>7. r.fp \in Fingerprints \cup {NoFp}
  BY DEF Runs
<1> QED
  BY <1>2, <1>3, <1>4, <1>5, <1>6, <1>7, Zenon DEF decide_policy_action

\* One more entry in a history.
LEMMA HistoryType ==
  ASSUME NEW hist \in [EntryKinds -> Nat], NEW r \in Runs
  PROVE  append_run_history(hist, r) \in [EntryKinds -> Nat]
<1>1. r.fp \in Fingerprints \cup {NoFp} /\ (r.outcome = "crash") \in BOOLEAN
  BY DEF Runs
<1>2. [crash |-> r.outcome = "crash", fp |-> r.fp] \in EntryKinds
  BY <1>1, Zenon DEF EntryKinds
<1> QED
  BY <1>2 DEF append_run_history

\* The stack once its last run has changed to r.
LEMMA NextIsType ==
  ASSUME stack \in Seq(Runs), stack # <<>>, NEW r \in Runs, NextIs(r)
  PROVE  /\ stack' \in Seq(Runs) /\ Len(stack') = Len(stack)
         /\ stack'[Len(stack)] = r
         /\ \A i \in 1..Len(stack) : i # Len(stack) => stack'[i] = stack[i]
  BY DEF NextIs

\* The stack once its last run has ended.
LEMMA PoppedType ==
  ASSUME stack \in Seq(Runs), stack # <<>>, NEW exit \in BOOLEAN
  PROVE  /\ Popped(exit) \in Seq(Runs) /\ Len(Popped(exit)) = Len(stack) - 1
         /\ \A i \in 1..(Len(stack) - 1) :
              Popped(exit)[i] = IF i = Len(stack) - 1
                                THEN [stack[i] EXCEPT !.pc = "return", !.exit = exit]
                                ELSE stack[i]
<1> DEFINE n == Len(stack) - 1
<1>1. n \in Nat
  OBVIOUS
<1>2. CASE n = 0
  <2>1. Popped(exit) = <<>>
    BY <1>2 DEF Popped
  <2>2. \A m : m = 0 => \A i \in 1..m : FALSE
    OBVIOUS
  <2>3. <<>> \in Seq(Runs) /\ Len(<<>>) = 0
    OBVIOUS
  <2> QED
    BY <1>2, <2>1, <2>2, <2>3, Zenon
<1>3. CASE n # 0
  <2> DEFINE R(i) == [stack[i] EXCEPT !.pc = "return", !.exit = exit]
             s == [i \in 1..n |-> IF i = n THEN R(i) ELSE stack[i]]
  <2>1. Popped(exit) = s
    BY <1>3, Zenon DEF Popped
  <2>2. \A i \in 1..n : stack[i] \in Runs
    OBVIOUS
  <2>a. \A r \in Runs : [r EXCEPT !.pc = "return", !.exit = exit] \in Runs
    BY DEF Runs, Steps
  <2>3. \A i \in 1..n : R(i) \in Runs
    BY <2>2, <2>a, Zenon
  <2>4. \A i \in 1..n : Popped(exit)[i] = IF i = n THEN R(i) ELSE stack[i]
    BY <2>1, Zenon
  <2> HIDE DEF R
  <2>5. s \in Seq(Runs) /\ Len(s) = n
    BY <1>1, <2>2, <2>3
  <2> QED
    BY <2>1, <2>4, <2>5, Zenon DEF R
<1> QED
  BY <1>2, <1>3, Zenon

\* The last run is a run.
LEMMA TopType ==
  ASSUME stack \in Seq(Runs), stack # <<>>
  PROVE  Top \in Runs /\ Len(stack) \in Nat \ {0}
  BY DEF Top

\* The greater of two numbers.
LEMMA MaxType ==
  ASSUME NEW m \in Nat, NEW n \in Nat
  PROVE  Max({m, n}) \in Nat
<1>1. \E x \in {m, n} : \A y \in {m, n} : x >= y
  OBVIOUS
<1> QED
  BY <1>1 DEF Max

LEMMA InitTypes ==
  Init => TypeOK
<1> SUFFICES ASSUME Init PROVE TypeOK
  OBVIOUS
<1>1. stack \in Seq(Runs)
  BY DEF Init
<1>2. triggers \in Registries
  BY DEF Init, NoTriggers, Registries, Statuses
<1>3. /\ crash_index \in [Fingerprints -> Nat] /\ known_bad \in [Fingerprints -> Nat]
      /\ run_history \in [EntryKinds -> Nat] /\ lost \in [Fingerprints -> Nat]
  BY DEF Init
<1>4. /\ policy_log \subseteq Fingerprints \X Codes /\ candidates \subseteq Seeds \cup {NoSeed}
      /\ orphans \subseteq Fingerprints /\ owned \subseteq Keys
  BY DEF Init
<1>5. watches \in 0..MaxWatches /\ kills \in 0..MaxKills
  BY WatchAssumption DEF Init
<1> QED
  BY <1>1, <1>2, <1>3, <1>4, <1>5 DEF TypeOK

\* The key under which a run records its trigger.
LEMMA DedupKeyType ==
  ASSUME NEW r \in Runs, r.action \in Reasons
  PROVE  regression_trigger_dedup_key(r) \in Keys
<1>1. r.seed \in Seeds \cup {NoSeed}
  BY DEF Runs
<1>2. CASE r.action = "promote-seed-to-regression-and-triage"
  BY <1>1, <1>2 DEF regression_trigger_dedup_key, Keys, Reasons
<1>3. CASE r.action # "promote-seed-to-regression-and-triage"
  BY <1>3 DEF regression_trigger_dedup_key, Keys, Reasons
<1> QED
  BY <1>2, <1>3

\* A run records a trigger only for an action code that has one.
ActionsFit == \A i \in DOMAIN stack : stack[i].pc \in {"candidate", "trigger"} => stack[i].action \in Reasons

\* The registries other than the stack and what a step of a run may change.
Files ==
  /\ triggers \in Registries
  /\ crash_index \in [Fingerprints -> Nat] /\ known_bad \in [Fingerprints -> Nat]
  /\ policy_log \subseteq Fingerprints \X Codes
  /\ candidates \subseteq Seeds \cup {NoSeed}
  /\ run_history \in [EntryKinds -> Nat]
  /\ watches \in 0..MaxWatches /\ kills \in 0..MaxKills
  /\ orphans \subseteq Fingerprints /\ lost \in [Fingerprints -> Nat] /\ owned \subseteq Keys

\* A step that changes the last run only keeps the types of the stack.
LEMMA NextIsKeeps ==
  ASSUME stack \in Seq(Runs), ActionsFit, stack # <<>>, NEW r \in Runs, NextIs(r),
         r.pc \in {"candidate", "trigger"} => r.action \in Reasons
  PROVE  stack' \in Seq(Runs) /\ ActionsFit'
<1>1. /\ stack' \in Seq(Runs) /\ Len(stack') = Len(stack) /\ stack'[Len(stack)] = r
      /\ \A i \in 1..Len(stack) : i # Len(stack) => stack'[i] = stack[i]
  BY NextIsType
<1>2. DOMAIN stack = 1..Len(stack) /\ DOMAIN stack' = 1..Len(stack)
  BY <1>1
<1> QED
  BY <1>1, <1>2 DEF ActionsFit

\* So does the end of the last run.
LEMMA PoppedKeeps ==
  ASSUME stack \in Seq(Runs), ActionsFit, stack # <<>>, NEW exit \in BOOLEAN, stack' = Popped(exit)
  PROVE  stack' \in Seq(Runs) /\ ActionsFit'
<1>1. /\ stack' \in Seq(Runs) /\ Len(stack') = Len(stack) - 1
      /\ \A i \in 1..(Len(stack) - 1) :
           stack'[i] = IF i = Len(stack) - 1
                       THEN [stack[i] EXCEPT !.pc = "return", !.exit = exit] ELSE stack[i]
  BY PoppedType
<1>2. \A s \in Seq(Runs) : DOMAIN s = 1..Len(s)
  OBVIOUS
<1>3. \A i \in 1..(Len(stack) - 1) : stack'[i].pc = "return" \/ stack'[i] = stack[i]
  <2> SUFFICES ASSUME NEW i \in 1..(Len(stack) - 1) PROVE stack'[i].pc = "return" \/ stack'[i] = stack[i]
    OBVIOUS
  <2>1. stack[i] \in Runs
    OBVIOUS
  <2>2. [stack[i] EXCEPT !.pc = "return", !.exit = exit].pc = "return"
    BY <2>1 DEF Runs
  <2> QED
    BY <1>1, <2>2
<1>4. ASSUME NEW i \in DOMAIN stack', stack'[i].pc \in {"candidate", "trigger"}
      PROVE  stack'[i].action \in Reasons
  <2>1. i \in 1..(Len(stack) - 1) /\ i \in 1..Len(stack)
    <3>1. DOMAIN stack' = 1..(Len(stack) - 1)
      BY <1>1, <1>2, Zenon
    <3>2. Len(stack) \in Nat
      OBVIOUS
    <3> QED
      BY <1>4, <3>1, <3>2
  <2>2. stack'[i] = stack[i]
    BY <1>3, <1>4, <2>1
  <2>3. i \in DOMAIN stack
    BY <1>2, <2>1
  <2> QED
    BY <1>4, <2>2, <2>3 DEF ActionsFit
<1> QED
  BY <1>1, <1>4 DEF ActionsFit

\* The mode a follow-up runs in.
LEMMA FollowUpMode ==
  ASSUME NEW k \in Keys
  PROVE  /\ k.reason \in Reasons /\ followup_mode[k.reason] \in {"triage", "regression"}
         /\ followup_mode[k.reason] \in Modes
<1>1. k.reason \in Reasons
  BY DEF Keys, Reasons
<1> QED
  BY <1>1 DEF followup_mode, Modes

\* The stack once the last run has started a follow-up.
LEMMA StartFollowUpType ==
  ASSUME stack \in Seq(Runs), stack # <<>>, triggers \in Registries,
         run_history \in [EntryKinds -> Nat], NEW k \in Keys, StartFollowUp(k)
  PROVE  /\ stack' \in Seq(Runs) /\ Len(stack') = Len(stack) + 1
         /\ stack'[Len(stack)] = [Top EXCEPT !.key = k, !.data = triggers, !.pc = "followup"]
         /\ stack'[Len(stack) + 1].mode = followup_mode[k.reason]
         /\ stack'[Len(stack) + 1].pc = "begin"
         /\ \A i \in 1..(Len(stack) - 1) : stack'[i] = stack[i]
<1> DEFINE r == [Top EXCEPT !.key = k, !.data = triggers, !.pc = "followup"]
           mode == followup_mode[k.reason]
           child == NewRun(mode, Smoked(mode))
<1>1. Top \in Runs /\ Len(stack) \in Nat \ {0}
  BY TopType
<1>2. r \in Runs
  BY <1>1 DEF Runs, Steps
<1>3. mode \in Modes /\ Smoked(mode) \in BOOLEAN
  BY FollowUpMode DEF Smoked
<1>4. child \in Runs /\ child.mode = mode /\ child.pc = "begin"
  BY <1>3, NewRunType
<1>5. stack' = [stack EXCEPT ![Len(stack)] = r] \o <<child>>
  BY DEF StartFollowUp
<1> HIDE DEF r, child
<1> DEFINE s == [stack EXCEPT ![Len(stack)] = r]
<1>6. /\ s \in Seq(Runs) /\ Len(s) = Len(stack) /\ s[Len(stack)] = r
      /\ \A i \in 1..(Len(stack) - 1) : s[i] = stack[i]
  BY <1>1, <1>2
<1>7. stack' = s \o <<child>>
  BY <1>5
<1> HIDE DEF s
<1>8. /\ stack' \in Seq(Runs) /\ Len(stack') = Len(stack) + 1
      /\ \A i \in 1..Len(stack) : stack'[i] = s[i]
      /\ stack'[Len(stack) + 1] = child
  <2>1. Len(<<child>>) = 1 /\ <<child>> \in Seq(Runs) /\ <<child>>[1] = child
    BY <1>4
  <2>2. stack' \in Seq(Runs)
    BY <1>6, <1>7, <2>1
  <2>3. Len(stack') = Len(stack) + 1
    BY <1>6, <1>7, <2>1
  <2>4. \A i \in 1..Len(stack) : stack'[i] = s[i]
    BY <1>1, <1>6, <1>7, <2>1
  <2>5. stack'[Len(stack) + 1] = child
    BY <1>1, <1>6, <1>7, <2>1
  <2> QED
    BY <2>2, <2>3, <2>4, <2>5
<1> QED
  BY <1>1, <1>4, <1>6, <1>8, SMTT(30) DEF r

LEMMA StartFollowUpKeeps ==
  ASSUME stack \in Seq(Runs), ActionsFit, stack # <<>>, triggers \in Registries,
         run_history \in [EntryKinds -> Nat], NEW k \in Keys, StartFollowUp(k)
  PROVE  stack' \in Seq(Runs) /\ ActionsFit'
<1>1. /\ stack' \in Seq(Runs) /\ Len(stack') = Len(stack) + 1
      /\ stack'[Len(stack)] = [Top EXCEPT !.key = k, !.data = triggers, !.pc = "followup"]
      /\ stack'[Len(stack) + 1].pc = "begin"
      /\ \A i \in 1..(Len(stack) - 1) : stack'[i] = stack[i]
  BY StartFollowUpType
<1>2. stack'[Len(stack)].pc = "followup"
  BY <1>1, TopType DEF Runs
<1>3. DOMAIN stack = 1..Len(stack) /\ DOMAIN stack' = 1..(Len(stack) + 1) /\ Len(stack) \in Nat
  BY <1>1
<1>4. ASSUME NEW i \in 1..(Len(stack) + 1), stack'[i].pc \in {"candidate", "trigger"}
      PROVE  stack'[i].action \in Reasons
  <2>1. i \in 1..(Len(stack) - 1)
    <3>1. i # Len(stack) /\ i # Len(stack) + 1
      BY <1>1, <1>2, <1>4
    <3>2. \A m \in Nat : \A j \in 1..(m + 1) : j = m \/ j = m + 1 \/ j \in 1..(m - 1)
      OBVIOUS
    <3> QED
      BY <1>3, <3>1, <3>2
  <2>2. stack'[i] = stack[i] /\ i \in DOMAIN stack
    BY <1>1, <1>3, <2>1
  <2> QED
    BY <1>4, <2>2 DEF ActionsFit
<1> QED
  BY <1>1, <1>3, <1>4 DEF ActionsFit

\* What each step of a run does to the files and to its own frame.
LEMMA RunStepTypes ==
  ASSUME TypeOK, ActionsFit, RunStep
  PROVE  TypeOK' /\ ActionsFit'
<1>1. stack \in Seq(Runs) /\ Files
  BY DEF TypeOK, Files
<1>2. SUFFICES stack' \in Seq(Runs) /\ ActionsFit' /\ Files'
  BY DEF TypeOK, Files
<1>3. stack # <<>>
  BY DEF RunStep, BuildFails, SmokeFails, Fuzz, update_crash_index, LogPolicy, FileKnownBad,
         FileCandidate, record_regression_trigger, execute_next_regression_trigger, SaveFollowUp,
         Finish, Running
<1>4. Top \in Runs /\ Len(stack) \in Nat \ {0} /\ Len(stack) \in DOMAIN stack
  BY <1>1, <1>3, TopType
<1> DEFINE Changed(r) == r \in Runs /\ NextIs(r)
                         /\ (r.pc \in {"candidate", "trigger"} => r.action \in Reasons)
<1>5. ASSUME NEW r, Changed(r) PROVE stack' \in Seq(Runs) /\ ActionsFit'
  BY <1>1, <1>3, <1>5, NextIsKeeps
<1>6. CASE BuildFails
  <2>1. [Top EXCEPT !.outcome = "build-failed", !.pc = "policy"] \in Runs
    BY <1>4 DEF Runs, Outcomes, Steps
  <2>2. [Top EXCEPT !.outcome = "build-failed", !.pc = "policy"].pc = "policy"
    BY <1>4 DEF Runs
  <2>3. NextIs([Top EXCEPT !.outcome = "build-failed", !.pc = "policy"])
    BY <1>6 DEF BuildFails
  <2>4. Files'
    BY <1>1, <1>6 DEF BuildFails, Files
  <2> QED
    BY <1>5, <2>1, <2>2, <2>3, <2>4
<1>7. CASE SmokeFails
  <2>1. PICK seed \in Seeds \cup {NoSeed} :
          NextIs([Top EXCEPT !.outcome = "smoke-failed", !.seed = seed, !.pc = "policy"])
    BY <1>7 DEF SmokeFails
  <2> DEFINE r == [Top EXCEPT !.outcome = "smoke-failed", !.seed = seed, !.pc = "policy"]
  <2>2. r \in Runs /\ r.pc = "policy"
    BY <1>4 DEF Runs, Outcomes, Steps
  <2>3. Files'
    BY <1>1, <1>7 DEF SmokeFails, Files
  <2> QED
    BY <1>5, <2>1, <2>2, <2>3
<1>8. CASE Fuzz
  <2>1. Files'
    BY <1>1, <1>8 DEF Fuzz, Files
  <2>2. CASE \E outcome \in {"ok", "no-progress", "fuzzer-exit-nonzero"} :
               NextIs([Top EXCEPT !.outcome = outcome, !.pc = "policy"])
    <3>1. PICK outcome \in {"ok", "no-progress", "fuzzer-exit-nonzero"} :
            NextIs([Top EXCEPT !.outcome = outcome, !.pc = "policy"])
      BY <2>2
    <3>2. outcome \in Outcomes
      BY DEF Outcomes
    <3> DEFINE r == [Top EXCEPT !.outcome = outcome, !.pc = "policy"]
    <3>3. r \in Runs /\ r.pc = "policy"
      BY <1>4, <3>2 DEF Runs, Steps
    <3> QED
      BY <1>5, <2>1, <3>1, <3>3
  <2>3. CASE \E fp \in Fingerprints, outcome \in {"crash", "timeout"} :
               NextIs([Top EXCEPT !.outcome = outcome, !.fp = fp, !.pc = "index"])
    <3>1. PICK fp \in Fingerprints, outcome \in {"crash", "timeout"} :
            NextIs([Top EXCEPT !.outcome = outcome, !.fp = fp, !.pc = "index"])
      BY <2>3
    <3>2. outcome \in Outcomes
      BY DEF Outcomes
    <3> DEFINE r == [Top EXCEPT !.outcome = outcome, !.fp = fp, !.pc = "index"]
    <3>3. r \in Runs /\ r.pc = "index"
      BY <1>4, <3>2 DEF Runs, Steps
    <3> QED
      BY <1>5, <2>1, <3>1, <3>3
  <2> QED
    BY <1>8, <2>2, <2>3 DEF Fuzz
<1>9. CASE update_crash_index
  <2> DEFINE r == [Top EXCEPT !.dup = crash_index[Top.fp] > 0, !.pc = "policy"]
  <2>1. (crash_index[Top.fp] > 0) \in BOOLEAN
    BY SMT
  <2>2. \A b \in BOOLEAN : [Top EXCEPT !.dup = b, !.pc = "policy"] \in Runs
                           /\ [Top EXCEPT !.dup = b, !.pc = "policy"].pc = "policy"
    BY <1>4 DEF Runs, Steps
  <2>3. r \in Runs /\ r.pc = "policy"
    BY <2>1, <2>2, Zenon
  <2>4. NextIs(r)
    BY <1>9, Zenon DEF update_crash_index
  <2>5. crash_index' \in [Fingerprints -> Nat]
    <3>1. \A f \in Fingerprints : crash_index[f] + 1 \in Nat
      BY <1>1 DEF Files
    <3>2. crash_index' = [crash_index EXCEPT ![Top.fp] = crash_index[Top.fp] + 1]
      BY <1>9 DEF update_crash_index
    <3> QED
      BY <1>1, <3>1, <3>2 DEF Files
  <2>6. Files'
    BY <1>1, <1>9, <2>5 DEF update_crash_index, Files
  <2> HIDE DEF r
  <2> QED
    BY <1>5, <2>3, <2>4, <2>6
<1>10. CASE LogPolicy
  <2>1. PICK code \in decide_policy_action(Top) :
          /\ NextIs([Top EXCEPT !.action = code, !.pc = SaveOf(code)])
          /\ policy_log' = policy_log \cup (IF Top.fp = NoFp THEN {} ELSE {<<Top.fp, code>>})
    BY <1>10 DEF LogPolicy
  <2>2. code \in Codes
    BY <1>4, DecisionsAreCodes
  <2>3. SaveOf(code) \in Steps /\ (SaveOf(code) \in {"candidate", "trigger"} => code \in Reasons)
    BY DEF SaveOf, Steps, Reasons
  <2> DEFINE r == [Top EXCEPT !.action = code, !.pc = SaveOf(code)]
  <2>4. r \in Runs /\ r.pc = SaveOf(code) /\ r.action = code
    BY <1>4, <2>2, <2>3 DEF Runs
  <2>5. policy_log' \subseteq Fingerprints \X Codes
    <3>1. Top.fp \in Fingerprints \cup {NoFp}
      BY <1>4 DEF Runs
    <3> QED
      BY <1>1, <2>1, <2>2, <3>1 DEF Files
  <2>6. Files'
    BY <1>1, <1>10, <2>5 DEF LogPolicy, Files
  <2> HIDE DEF r
  <2> QED
    BY <1>5, <2>1, <2>3, <2>4, <2>6 DEF r
<1>11. CASE FileKnownBad
  <2>1. [Top EXCEPT !.pc = "finish"] \in Runs /\ [Top EXCEPT !.pc = "finish"].pc = "finish"
    BY <1>4 DEF Runs, Steps
  <2>2. NextIs([Top EXCEPT !.pc = "finish"])
    BY <1>11 DEF FileKnownBad
  <2>3. known_bad' \in [Fingerprints -> Nat]
    <3>1. \A f \in Fingerprints : Max({known_bad[f], crash_index[f]}) \in Nat
      BY <1>1, MaxType DEF Files
    <3>2. known_bad' = [known_bad EXCEPT ![Top.fp] = Max({known_bad[Top.fp], crash_index[Top.fp]})]
      BY <1>11 DEF FileKnownBad
    <3> QED
      BY <1>1, <3>1, <3>2 DEF Files
  <2>4. Files'
    BY <1>1, <1>11, <2>3 DEF FileKnownBad, Files
  <2> QED
    BY <1>5, <2>1, <2>2, <2>4
<1>12. CASE FileCandidate
  <2>1. Top.action \in Reasons
    BY <1>4, <1>12 DEF FileCandidate, Running, Top, ActionsFit
  <2> DEFINE r == [Top EXCEPT !.pc = "trigger"]
  <2>2. r \in Runs /\ r.pc = "trigger" /\ r.action = Top.action
    BY <1>4 DEF Runs, Steps
  <2>3. NextIs(r)
    BY <1>12 DEF FileCandidate
  <2>4. Top.seed \in Seeds \cup {NoSeed}
    BY <1>4 DEF Runs
  <2>5. Files'
    BY <1>1, <1>12, <2>4 DEF FileCandidate, Files
  <2> QED
    BY <1>5, <2>1, <2>2, <2>3, <2>5
<1>13. CASE record_regression_trigger
  <2>1. Top.action \in Reasons
    BY <1>4, <1>13 DEF record_regression_trigger, Running, Top, ActionsFit
  <2>2. regression_trigger_dedup_key(Top) \in Keys
    BY <1>4, <2>1, DedupKeyType
  <2>3. [Top EXCEPT !.pc = "next"] \in Runs /\ [Top EXCEPT !.pc = "next"].pc = "next"
    BY <1>4 DEF Runs, Steps
  <2>4. NextIs([Top EXCEPT !.pc = "next"])
    BY <1>13 DEF record_regression_trigger
  <2>5. triggers' = [triggers EXCEPT ![regression_trigger_dedup_key(Top)] = "recorded"]
        /\ owned' \in {owned, owned \cup {regression_trigger_dedup_key(Top)}}
    BY <1>13 DEF record_regression_trigger
  <2>6. triggers' \in Registries /\ owned' \subseteq Keys
    BY <1>1, <2>2, <2>5 DEF Files, Registries, Statuses
  <2>7. Files'
    BY <1>1, <1>13, <2>6 DEF record_regression_trigger, Files
  <2> QED
    BY <1>5, <2>3, <2>4, <2>7
<1>14. CASE SaveFollowUp
  <2>1. [Top EXCEPT !.pc = "finish"] \in Runs /\ [Top EXCEPT !.pc = "finish"].pc = "finish"
    BY <1>4 DEF Runs, Steps
  <2>2. NextIs([Top EXCEPT !.pc = "finish"])
    BY <1>14 DEF SaveFollowUp
  <2>3. Top.data \in Registries
    BY <1>4 DEF Runs
  <2>4. triggers' \in Registries
    BY <1>14, <2>3 DEF SaveFollowUp, SavedAfter, Registries, Statuses
  <2>5. Files'
    BY <1>1, <1>14, <2>4 DEF SaveFollowUp, Files
  <2> QED
    BY <1>5, <2>1, <2>2, <2>5
<1>15. CASE Finish
  <2>1. run_history' \in [EntryKinds -> Nat]
    BY <1>1, <1>4, <1>15, HistoryType DEF Finish, Files
  <2>2. Files'
    BY <1>1, <1>15, <2>1 DEF Finish, Files
  <2>3. stack' \in Seq(Runs) /\ ActionsFit'
    <3> DEFINE exit == Top.outcome \in {"ok", "no-progress"}
    <3>1. exit \in BOOLEAN /\ stack' = Popped(exit)
      BY <1>15 DEF Finish
    <3> HIDE DEF exit
    <3> QED
      BY <1>1, <1>3, <3>1, PoppedKeeps
  <2> QED
    BY <2>2, <2>3
<1>16. CASE execute_next_regression_trigger
  <2>1. PICK k \in most_urgent :
          IF followup_mode[k.reason] = Top.mode THEN Skip(k) ELSE StartFollowUp(k)
    BY <1>16 DEF execute_next_regression_trigger
  <2>2. k \in Keys
    BY DEF most_urgent, Pending
  <2>3. CASE Skip(k)
    <3>1. [Top EXCEPT !.pc = "finish"] \in Runs /\ [Top EXCEPT !.pc = "finish"].pc = "finish"
      BY <1>4 DEF Runs, Steps
    <3>2. NextIs([Top EXCEPT !.pc = "finish"])
      BY <2>3 DEF Skip
    <3>3. triggers' \in Registries
      BY <1>1, <2>3 DEF Skip, Files, Registries, Statuses
    <3>4. Files'
      BY <1>1, <1>16, <3>3 DEF execute_next_regression_trigger, Files
    <3> QED
      BY <1>5, <3>1, <3>2, <3>4
  <2>4. CASE StartFollowUp(k)
    <3>1. Files'
      BY <1>1, <1>16, <2>4 DEF execute_next_regression_trigger, StartFollowUp, Files
    <3>2. stack' \in Seq(Runs) /\ ActionsFit'
      BY <1>1, <1>3, <2>2, <2>4, StartFollowUpKeeps DEF Files
    <3> QED
      BY <3>1, <3>2
  <2> QED
    BY <2>1, <2>3, <2>4
<1> QED
  BY <1>6, <1>7, <1>8, <1>9, <1>10, <1>11, <1>12, <1>13, <1>14, <1>15, <1>16 DEF RunStep

\* A kill.
LEMMA KillTypes ==
  ASSUME TypeOK, ActionsFit, Kill
  PROVE  TypeOK' /\ ActionsFit'
<1>1. stack \in Seq(Runs) /\ Files /\ stack # <<>>
  BY DEF TypeOK, Files, Kill
<1>2. PICK first \in {1, Len(stack)} :
        /\ stack' = IF first = 1 THEN <<>> ELSE Popped(FALSE)
        /\ orphans' = orphans \cup {r.fp : r \in {q \in {stack[i] : i \in first..Len(stack)} : Unlogged(q)}}
        /\ lost' = [f \in Fingerprints |-> lost[f]
                      + Cardinality({i \in first..Len(stack) : Indexed(stack[i]) /\ stack[i].fp = f})]
  BY DEF Kill
<1>3. Len(stack) \in Nat \ {0} /\ first \in Nat /\ first..Len(stack) \subseteq 1..Len(stack)
  BY <1>1
<1>4. stack' \in Seq(Runs) /\ ActionsFit'
  <2>1. CASE first = 1
    BY <1>2, <2>1 DEF ActionsFit
  <2>2. CASE first # 1
    BY <1>1, <1>2, <2>2, PoppedKeeps
  <2> QED
    BY <2>1, <2>2
<1>5. orphans' \subseteq Fingerprints
  <2>1. \A i \in first..Len(stack) : stack[i] \in Runs
    BY <1>1, <1>3
  <2>2. \A r \in Runs : Unlogged(r) => r.fp \in Fingerprints
    BY DEF Unlogged, Runs
  <2> QED
    BY <1>1, <1>2, <2>1, <2>2 DEF Files
<1>6. lost' \in [Fingerprints -> Nat]
  <2>1. \A f : Cardinality({i \in first..Len(stack) : Indexed(stack[i]) /\ stack[i].fp = f}) \in Nat
    <3>1. IsFiniteSet(first..Len(stack))
      BY <1>3, FS_Interval
    <3> TAKE f
    <3> DEFINE S == {i \in first..Len(stack) : Indexed(stack[i]) /\ stack[i].fp = f}
    <3>2. S \subseteq first..Len(stack)
      OBVIOUS
    <3> HIDE DEF S
    <3>3. Cardinality(S) \in Nat
      BY <3>1, <3>2, FS_Subset, FS_CardinalityType
    <3> QED
      BY <3>3 DEF S
  <2>2. \A f \in Fingerprints : lost[f] \in Nat
    BY <1>1 DEF Files
  <2> DEFINE C(f) == Cardinality({i \in first..Len(stack) : Indexed(stack[i]) /\ stack[i].fp = f})
  <2>3. lost' = [f \in Fingerprints |-> lost[f] + C(f)]
    BY <1>2, Zenon
  <2>4. \A f : C(f) \in Nat
    BY <2>1, Zenon
  <2> HIDE DEF C
  <2> QED
    BY <2>2, <2>3, <2>4
<1>7. kills' \in 0..MaxKills /\ watches' \in 0..MaxWatches
  BY <1>1, WatchAssumption DEF Kill, Files
<1>8. Files'
  BY <1>1, <1>5, <1>6, <1>7 DEF Kill, Files
<1> QED
  BY <1>4, <1>8 DEF TypeOK, Files

\* An operator's watch begins.
LEMMA StartWatchTypes ==
  ASSUME TypeOK, StartWatch
  PROVE  TypeOK' /\ ActionsFit'
<1>1. PICK mode \in Modes, smoke \in BOOLEAN : stack' = <<NewRun(mode, smoke)>>
  BY DEF StartWatch
<1> DEFINE r == NewRun(mode, smoke)
<1>2. r \in Runs /\ r.pc = "begin"
  BY NewRunType DEF TypeOK
<1>3. stack' = <<r>>
  BY <1>1
<1> HIDE DEF r
<1>4. stack' \in Seq(Runs) /\ ActionsFit'
  BY <1>2, <1>3 DEF ActionsFit
<1>5. watches' \in 0..MaxWatches
  BY WatchAssumption DEF TypeOK, StartWatch
<1>6. Files'
  BY <1>5 DEF TypeOK, Files, StartWatch
<1> QED
  BY <1>4, <1>6 DEF TypeOK, Files

TypeInv == TypeOK /\ ActionsFit

LEMMA TypeInvKept ==
  ASSUME TypeInv, [Next]_vars
  PROVE  TypeInv'
<1>1. CASE StartWatch
  BY <1>1, StartWatchTypes DEF TypeInv
<1>2. CASE RunStep
  BY <1>2, RunStepTypes DEF TypeInv
<1>3. CASE Kill
  BY <1>3, KillTypes DEF TypeInv
<1>4. CASE UNCHANGED vars
  BY <1>4 DEF vars, TypeInv, TypeOK, ActionsFit
<1> QED
  BY <1>1, <1>2, <1>3, <1>4 DEF Next

\* What the registries and the runs in progress hold keeps its type, for any crash
\* families, seeds and history triggers, however runs nest and are killed.
THEOREM WatchTypeCorrect == Spec => []TypeOK
<1>1. Init => TypeInv
  BY InitTypes DEF TypeInv, ActionsFit, Init
<1>2. TypeInv /\ [Next]_vars => TypeInv'
  BY TypeInvKept
<1>3. TypeInv => TypeOK
  BY DEF TypeInv
<1> QED
  BY <1>1, <1>2, <1>3, PTL DEF Spec

-----------------------------------------------------------------------------
(* Nesting. *)

\* A run that waits for its follow-up is not the last one, and the last does not wait.
Waiting == 1..(Len(stack) - 1)

WaitersFollowUp ==
  /\ \A i \in DOMAIN stack : stack[i].pc = "followup" <=> i \in Waiting
  /\ \A i \in DOMAIN stack : stack[i].pc \in {"followup", "return"} => stack[i].key \in Keys

\* A follow-up runs in the mode of its trigger, which is not the mode of its parent.
ModesAlternate ==
  \A i \in Waiting : /\ stack[i + 1].mode = followup_mode[stack[i].key.reason]
                     /\ stack[i].mode # followup_mode[stack[i].key.reason]

\* The trigger followed up by a run is more urgent than the one followed up by its parent.
UrgencyGrows ==
  \A i \in Waiting : i + 1 \in Waiting =>
    regression_trigger_priority[stack[i].key.reason]
      < regression_trigger_priority[stack[i + 1].key.reason]

\* As long as the last run may still start a follow-up, the triggers being followed up
\* are "recorded" in the file.
WaitersStayPending ==
  stack # <<>> /\ Top.pc \notin {"return", "finish"} =>
    \A i \in Waiting : triggers[stack[i].key] = "recorded"

Nest == WaitersFollowUp /\ ModesAlternate /\ UrgencyGrows /\ WaitersStayPending

\* The modes alternate and the urgency grows from each waiting run to the next, and the
\* four reasons, by urgency, run in modes regression, triage, triage, regression.
LEMMA NestBounds ==
  ASSUME stack \in Seq(Runs), Nest
  PROVE  Len(stack) <= 4
<1> SUFFICES ASSUME Len(stack) >= 5 PROVE FALSE
  BY DEF Runs
<1>1. Len(stack) \in Nat /\ 1 \in Waiting /\ 2 \in Waiting /\ 3 \in Waiting /\ 4 \in Waiting
  BY DEF Waiting
<1>2. DOMAIN stack = 1..Len(stack)
  OBVIOUS
<1>3. \A i \in 1..4 : i \in DOMAIN stack
  BY <1>1, <1>2
<1> DEFINE R(i) == stack[i].key.reason
<1>4. \A i \in 1..4 : stack[i].key \in Keys /\ R(i) \in Reasons
  <2> TAKE i \in 1..4
  <2>1. i \in Waiting /\ i \in DOMAIN stack
    BY <1>1, <1>3 DEF Waiting
  <2>2. stack[i].key \in Keys
    BY <2>1 DEF Nest, WaitersFollowUp
  <2> QED
    BY <2>2, FollowUpMode
<1>5. /\ followup_mode[R(1)] # followup_mode[R(2)]
      /\ followup_mode[R(2)] # followup_mode[R(3)]
      /\ followup_mode[R(3)] # followup_mode[R(4)]
  BY <1>1 DEF Nest, ModesAlternate
<1>6. /\ regression_trigger_priority[R(1)] < regression_trigger_priority[R(2)]
      /\ regression_trigger_priority[R(2)] < regression_trigger_priority[R(3)]
      /\ regression_trigger_priority[R(3)] < regression_trigger_priority[R(4)]
  <2>1. /\ 1 + 1 \in Waiting /\ 2 + 1 \in Waiting /\ 3 + 1 \in Waiting
        /\ 1 + 1 = 2 /\ 2 + 1 = 3 /\ 3 + 1 = 4
    BY <1>1
  <2> QED
    BY <1>1, <2>1 DEF Nest, UrgencyGrows
<1> HIDE DEF R
<1>7. R(1) \in Reasons /\ R(2) \in Reasons /\ R(3) \in Reasons /\ R(4) \in Reasons
  BY <1>4
<1> QED
  BY <1>5, <1>6, <1>7 DEF Reasons, regression_trigger_priority, followup_mode

\* Two reasons of equal priority are the same.
LEMMA PriorityOrders ==
  ASSUME NEW r \in Reasons, NEW s \in Reasons
  PROVE  /\ regression_trigger_priority[r] \in Nat
         /\ regression_trigger_priority[r] = regression_trigger_priority[s] => r = s
  BY DEF Reasons, regression_trigger_priority

LEMMA Intervals ==
  ASSUME NEW n \in Nat \ {0}
  PROVE  /\ \A i \in 1..(n - 1) : i \in 1..n /\ i # n /\ i + 1 \in 1..n
         /\ n \notin 1..(n - 1) /\ (n # 1 => n - 1 \in 1..(n - 1))
         /\ \A i \in 1..n : i = n \/ i \in 1..(n - 1)
         /\ \A i \in 1..(n - 2) : i \in 1..(n - 1) /\ i + 1 \in 1..(n - 1) /\ i # n - 1
         /\ \A i \in 1..(n - 1) : i # n - 1 => i \in 1..(n - 2)
  OBVIOUS

\* A step that changes the last run only, and leaves it unable to start a follow-up or the
\* pending triggers pending.
LastChange ==
  /\ NextIs(stack'[Len(stack)])
  /\ stack'[Len(stack)].mode = Top.mode
  /\ stack'[Len(stack)].pc \notin {"followup", "return"}
  /\ \/ stack'[Len(stack)].pc = "finish"
     \/ /\ Top.pc \notin {"return", "finish"}
        /\ \A k \in Keys : triggers[k] = "recorded" => triggers'[k] = "recorded"

LEMMA LastChangeKeeps ==
  ASSUME stack \in Seq(Runs), stack' \in Seq(Runs), stack # <<>>, Nest, LastChange
  PROVE  Nest'
<1>1. /\ Len(stack') = Len(stack) /\ Len(stack) \in Nat \ {0}
      /\ \A i \in 1..Len(stack) : i # Len(stack) => stack'[i] = stack[i]
      /\ DOMAIN stack = 1..Len(stack) /\ DOMAIN stack' = 1..Len(stack)
  BY DEF LastChange, NextIs
<1>2. Waiting' = Waiting /\ Waiting = 1..(Len(stack) - 1)
  BY <1>1 DEF Waiting
<1>3. \A i \in Waiting : /\ i \in DOMAIN stack /\ i + 1 \in DOMAIN stack /\ stack'[i] = stack[i]
                         /\ stack'[i + 1].mode = stack[i + 1].mode
  <2> TAKE i \in Waiting
  <2>1. i \in 1..Len(stack) /\ i # Len(stack) /\ i + 1 \in 1..Len(stack)
    BY <1>1, <1>2, Intervals, Zenon
  <2>2. CASE i + 1 = Len(stack)
    BY <1>1, <2>1, <2>2 DEF LastChange, Top
  <2>3. CASE i + 1 # Len(stack)
    BY <1>1, <2>1, <2>3
  <2> QED
    BY <1>1, <2>1, <2>2, <2>3
<1>4. Len(stack) \notin Waiting /\ \A i \in 1..Len(stack) : i = Len(stack) \/ i \in Waiting
  BY <1>1, <1>2, Intervals, Zenon
<1>5. WaitersFollowUp'
  <2> SUFFICES ASSUME NEW i \in 1..Len(stack)
               PROVE  /\ stack'[i].pc = "followup" <=> i \in Waiting
                      /\ stack'[i].pc \in {"followup", "return"} => stack'[i].key \in Keys
    BY <1>1, <1>2 DEF WaitersFollowUp
  <2>1. CASE i = Len(stack)
    BY <1>4, <2>1 DEF LastChange
  <2>2. CASE i \in Waiting
    BY <1>1, <1>3, <2>2 DEF Nest, WaitersFollowUp
  <2> QED
    BY <1>4, <2>1, <2>2
<1>6. ModesAlternate'
  BY <1>2, <1>3 DEF Nest, ModesAlternate
<1>7. UrgencyGrows'
  BY <1>2, <1>3 DEF Nest, UrgencyGrows
<1>8. WaitersStayPending'
  <2> SUFFICES ASSUME stack'[Len(stack)].pc \notin {"return", "finish"}, NEW i \in Waiting
               PROVE  triggers'[stack'[i].key] = "recorded"
    BY <1>1, <1>2 DEF WaitersStayPending, Top
  <2>1. Top.pc \notin {"return", "finish"}
        /\ \A k \in Keys : triggers[k] = "recorded" => triggers'[k] = "recorded"
    BY DEF LastChange
  <2>2. stack[i].key \in Keys
    BY <1>3 DEF Nest, WaitersFollowUp
  <2>3. triggers[stack[i].key] = "recorded"
    BY <2>1 DEF Nest, WaitersStayPending
  <2> QED
    BY <1>3, <2>1, <2>2, <2>3
<1> QED
  BY <1>5, <1>6, <1>7, <1>8 DEF Nest

\* The end of the last run leaves its parent about to save, which starts nothing more.
LEMMA PoppedKeepsNest ==
  ASSUME stack \in Seq(Runs), stack # <<>>, Nest, NEW exit \in BOOLEAN, stack' = Popped(exit)
  PROVE  Nest'
<1>1. /\ stack' \in Seq(Runs) /\ Len(stack') = Len(stack) - 1 /\ Len(stack) \in Nat \ {0}
      /\ \A i \in 1..(Len(stack) - 1) :
           stack'[i] = IF i = Len(stack) - 1
                       THEN [stack[i] EXCEPT !.pc = "return", !.exit = exit] ELSE stack[i]
  BY PoppedType, TopType
<1>2. \A s \in Seq(Runs) : DOMAIN s = 1..Len(s)
  OBVIOUS
<1>3. DOMAIN stack = 1..Len(stack) /\ DOMAIN stack' = 1..(Len(stack) - 1)
  BY <1>1, <1>2, Zenon
<1>4. Waiting = 1..(Len(stack) - 1) /\ Waiting' = 1..(Len(stack) - 2)
  <2>1. Len(stack') - 1 = Len(stack) - 2
    <3>1. \A m \in Nat : \A l : l = m - 1 => l - 1 = m - 2
      OBVIOUS
    <3> QED
      BY <1>1, <3>1, Zenon
  <2> QED
    BY <2>1, Zenon DEF Waiting
<1>5. \A i \in Waiting :
        /\ stack'[i].mode = stack[i].mode /\ stack'[i].key = stack[i].key /\ stack[i].key \in Keys
        /\ i = Len(stack) - 1 => stack'[i].pc = "return"
        /\ i # Len(stack) - 1 => stack'[i] = stack[i] /\ stack[i].pc = "followup"
  <2> TAKE i \in Waiting
  <2>1. i \in 1..(Len(stack) - 1) /\ i \in 1..Len(stack)
    BY <1>1, <1>4, Intervals, Zenon
  <2>2. stack[i] \in Runs
    BY <2>1
  <2>3. stack[i].pc = "followup" /\ stack[i].key \in Keys
    BY <1>3, <2>1 DEF Nest, WaitersFollowUp
  <2>4. CASE i = Len(stack) - 1
    <3>1. stack'[i] = [stack[i] EXCEPT !.pc = "return", !.exit = exit]
      BY <1>1, <2>1, <2>4
    <3> QED
      BY <2>2, <2>3, <2>4, <3>1 DEF Runs
  <2>5. CASE i # Len(stack) - 1
    BY <1>1, <2>1, <2>3, <2>5
  <2> QED
    BY <2>4, <2>5
<1>6. \A i \in Waiting' : i \in Waiting /\ i + 1 \in Waiting /\ i # Len(stack) - 1
  BY <1>1, <1>4, Intervals, Zenon
<1>7. WaitersFollowUp'
  <2> SUFFICES ASSUME NEW i \in Waiting
               PROVE  /\ stack'[i].pc = "followup" <=> i \in Waiting'
                      /\ stack'[i].pc \in {"followup", "return"} => stack'[i].key \in Keys
    BY <1>3, <1>4 DEF WaitersFollowUp
  <2>1. i # Len(stack) - 1 <=> i \in Waiting'
    BY <1>1, <1>4, Intervals, Zenon
  <2> QED
    BY <1>5, <2>1
<1>8. ModesAlternate'
  BY <1>5, <1>6 DEF Nest, ModesAlternate
<1>9. UrgencyGrows'
  BY <1>5, <1>6 DEF Nest, UrgencyGrows
<1>10. WaitersStayPending'
  <2> SUFFICES ASSUME stack' # <<>> PROVE stack'[Len(stack')].pc = "return"
    BY DEF WaitersStayPending, Top
  <2>1. Len(stack) - 1 \in Waiting
    <3>1. Len(stack') # 0
      BY <1>1, EmptySeq, Zenon
    <3>2. Len(stack) # 1
      <4>1. 1 - 1 = 0
        OBVIOUS
      <4> QED
        BY <1>1, <3>1, <4>1, Zenon
    <3> QED
      BY <1>1, <1>4, <3>2, Intervals, Zenon
  <2> QED
    BY <1>1, <1>5, <2>1
<1> QED
  BY <1>7, <1>8, <1>9, <1>10 DEF Nest

\* A follow-up is more urgent than the one its run follows up: both are pending, the run
\* takes the most urgent, and one of equal urgency has the run's own mode.
LEMMA StartFollowUpKeepsNest ==
  ASSUME TypeOK, stack # <<>>, Nest, Running("next"), NEW k \in most_urgent,
         followup_mode[k.reason] # Top.mode, StartFollowUp(k)
  PROVE  Nest'
<1> DEFINE n == Len(stack)
<1>1. stack \in Seq(Runs) /\ triggers \in Registries /\ run_history \in [EntryKinds -> Nat]
  BY DEF TypeOK
<1>2. Top \in Runs /\ n \in Nat \ {0}
  BY <1>1, TopType
<1>3. /\ k \in Keys /\ triggers[k] = "recorded"
      /\ \A j \in Keys : triggers[j] = "recorded" =>
           regression_trigger_priority[k.reason] >= regression_trigger_priority[j.reason]
  BY DEF most_urgent, Pending
<1>4. /\ stack' \in Seq(Runs) /\ Len(stack') = n + 1
      /\ stack'[n] = [Top EXCEPT !.key = k, !.data = triggers, !.pc = "followup"]
      /\ stack'[n + 1].mode = followup_mode[k.reason] /\ stack'[n + 1].pc = "begin"
      /\ \A i \in 1..(n - 1) : stack'[i] = stack[i]
  BY <1>1, <1>3, StartFollowUpType
<1>5. stack'[n].key = k /\ stack'[n].pc = "followup" /\ stack'[n].mode = Top.mode
  BY <1>2, <1>4 DEF Runs
<1>6. \A s \in Seq(Runs) : DOMAIN s = 1..Len(s)
  OBVIOUS
<1>7. DOMAIN stack = 1..n /\ DOMAIN stack' = 1..(n + 1)
  BY <1>1, <1>4, <1>6, Zenon
<1>8. Waiting = 1..(n - 1) /\ Waiting' = 1..n
  <2>1. \A m \in Nat : \A l : l = m + 1 => l - 1 = m
    OBVIOUS
  <2> QED
    BY <1>2, <1>4, <2>1, Zenon DEF Waiting
<1>9. Top.pc = "next" /\ Top = stack[n]
  BY DEF Running, Top
<1> HIDE DEF n
<1>10. \A i \in 1..(n - 1) : i \in 1..n /\ i # n /\ i + 1 \in 1..n /\ (i + 1 = n \/ i + 1 \in 1..(n - 1))
  BY <1>2, Intervals, Zenon
<1>11. \A i \in 1..n : i = n \/ i \in 1..(n - 1)
  BY <1>2, Intervals, Zenon
<1>12. \A i \in 1..(n - 1) : stack[i].pc = "followup" /\ stack[i].key \in Keys
                            /\ triggers[stack[i].key] = "recorded"
  <2> TAKE i \in 1..(n - 1)
  <2>1. i \in Waiting /\ i \in DOMAIN stack
    BY <1>7, <1>8, <1>10
  <2>2. stack[i].pc = "followup" /\ stack[i].key \in Keys
    BY <2>1 DEF Nest, WaitersFollowUp
  <2>3. triggers[stack[i].key] = "recorded"
    BY <1>9, <2>1 DEF Nest, WaitersStayPending
  <2> QED
    BY <2>2, <2>3
<1>13. WaitersFollowUp'
  <2> SUFFICES ASSUME NEW i \in 1..(n + 1)
               PROVE  /\ stack'[i].pc = "followup" <=> i \in 1..n
                      /\ stack'[i].pc \in {"followup", "return"} => stack'[i].key \in Keys
    BY <1>7, <1>8 DEF WaitersFollowUp
  <2>1. CASE i = n + 1
    <3>1. n + 1 \notin 1..n
      BY <1>2
    <3> QED
      BY <1>4, <2>1, <3>1
  <2>2. CASE i = n
    <3>1. n \in 1..n
      BY <1>2
    <3> QED
      BY <1>3, <1>5, <2>2, <3>1
  <2>3. CASE i \in 1..(n - 1)
    BY <1>4, <1>10, <1>12, <2>3
  <2>4. i = n + 1 \/ i = n \/ i \in 1..(n - 1)
    BY <1>2
  <2> QED
    BY <2>1, <2>2, <2>3, <2>4
<1>14. \A i \in 1..(n - 1) : stack'[i + 1].mode = stack[i + 1].mode
  BY <1>4, <1>5, <1>9, <1>10
<1>15. ModesAlternate'
  <2> SUFFICES ASSUME NEW i \in 1..n
               PROVE  /\ stack'[i + 1].mode = followup_mode[stack'[i].key.reason]
                      /\ stack'[i].mode # followup_mode[stack'[i].key.reason]
    BY <1>8 DEF ModesAlternate
  <2>1. CASE i = n
    BY <1>4, <1>5, <2>1
  <2>2. CASE i \in 1..(n - 1)
    BY <1>4, <1>8, <1>14, <2>2 DEF Nest, ModesAlternate
  <2> QED
    BY <1>11, <2>1, <2>2
<1>16. UrgencyGrows'
  <2> SUFFICES ASSUME NEW i \in 1..n, i + 1 \in 1..n
               PROVE  regression_trigger_priority[stack'[i].key.reason]
                        < regression_trigger_priority[stack'[i + 1].key.reason]
    BY <1>8 DEF UrgencyGrows
  <2>1. i \in 1..(n - 1)
    BY <1>2
  <2>2. stack'[i].key = stack[i].key /\ stack[i].key \in Keys
    BY <1>4, <1>12, <2>1
  <2>3. CASE i + 1 = n
    <3> DEFINE r == stack[i].key.reason
    <3>1. r \in Reasons /\ k.reason \in Reasons
      BY <1>3, <2>2, FollowUpMode
    <3>2. regression_trigger_priority[k.reason] >= regression_trigger_priority[r]
      BY <1>3, <1>12, <2>1, <2>2
    <3>3. Top.mode = followup_mode[r]
      BY <1>8, <1>9, <2>1, <2>3 DEF Nest, ModesAlternate
    <3>4. k.reason # r
      BY <3>3
    <3> HIDE DEF r
    <3>5. regression_trigger_priority[r] < regression_trigger_priority[k.reason]
      BY <3>1, <3>2, <3>4, PriorityOrders
    <3> QED
      BY <1>5, <2>2, <2>3, <3>5 DEF r
  <2>4. CASE i + 1 \in 1..(n - 1)
    <3>1. stack'[i + 1] = stack[i + 1]
      BY <1>4, <2>4
    <3> QED
      BY <1>8, <2>1, <2>2, <2>4, <3>1 DEF Nest, UrgencyGrows
  <2> QED
    BY <1>10, <2>1, <2>3, <2>4
<1>17. WaitersStayPending'
  <2>1. triggers' = triggers
    BY DEF StartFollowUp
  <2>2. \A i \in 1..n : triggers[stack'[i].key] = "recorded"
    <3> TAKE i \in 1..n
    <3>1. CASE i = n
      BY <1>3, <1>5, <3>1
    <3>2. CASE i \in 1..(n - 1)
      BY <1>4, <1>12, <3>2
    <3> QED
      BY <1>11, <3>1, <3>2
  <2> QED
    BY <1>8, <2>1, <2>2 DEF WaitersStayPending
<1> QED
  BY <1>13, <1>15, <1>16, <1>17 DEF Nest

\* When a step puts r in the place of the last run, as LastChange says.
LEMMA Replaced ==
  ASSUME stack \in Seq(Runs), stack # <<>>, Nest, NEW r \in Runs, NextIs(r), r.mode = Top.mode,
         r.pc \notin {"followup", "return"},
         \/ r.pc = "finish"
         \/ /\ Top.pc \notin {"return", "finish"}
            /\ \A k \in Keys : triggers[k] = "recorded" => triggers'[k] = "recorded"
  PROVE  Nest'
<1>1. stack' \in Seq(Runs) /\ stack'[Len(stack)] = r
  BY NextIsType
<1>2. LastChange
  BY <1>1, Zenon DEF LastChange
<1> QED
  BY <1>1, <1>2, LastChangeKeeps

\* Every step of a run keeps the nesting: it changes its own frame and leaves the pending
\* triggers alone, or starts a follow-up, or ends.
LEMMA RunStepKeepsNest ==
  ASSUME TypeOK, Nest, RunStep
  PROVE  Nest'
<1>1. stack \in Seq(Runs) /\ triggers \in Registries
  BY DEF TypeOK
<1>2. stack # <<>>
  BY DEF RunStep, BuildFails, SmokeFails, Fuzz, update_crash_index, LogPolicy, FileKnownBad,
         FileCandidate, record_regression_trigger, execute_next_regression_trigger, SaveFollowUp,
         Finish, Running
<1>3. Top \in Runs /\ Len(stack) \in Nat \ {0}
  BY <1>1, <1>2, TopType
<1> DEFINE Steady == \/ UNCHANGED triggers
                    \/ \E k \in Keys : triggers' = [triggers EXCEPT ![k] = "recorded"]
           Early == Top.pc \notin {"return", "finish"}
           Fits(r) == /\ r \in Runs /\ NextIs(r) /\ r.mode = Top.mode
                      /\ r.pc \notin {"followup", "return"}
<1>4. Steady => \A k \in Keys : triggers[k] = "recorded" => triggers'[k] = "recorded"
  BY <1>1 DEF Registries
<1>5. ASSUME NEW r, Fits(r), r.pc = "finish" \/ (Early /\ Steady)
      PROVE  Nest'
  <2> HIDE DEF Steady
  <2> QED
    BY <1>1, <1>2, <1>4, <1>5, Replaced
<1> HIDE DEF Steady
<1>6. CASE BuildFails
  <2> DEFINE r == [Top EXCEPT !.outcome = "build-failed", !.pc = "policy"]
  <2>1. r \in Runs /\ r.mode = Top.mode /\ r.pc = "policy"
    BY <1>3 DEF Runs, Outcomes, Steps
  <2>2. NextIs(r) /\ Early /\ Steady
    BY <1>6 DEF BuildFails, Running, Top, Steady
  <2> HIDE DEF r
  <2> QED
    BY <1>5, <2>1, <2>2
<1>7. CASE SmokeFails
  <2>1. PICK seed \in Seeds \cup {NoSeed} :
          NextIs([Top EXCEPT !.outcome = "smoke-failed", !.seed = seed, !.pc = "policy"])
    BY <1>7 DEF SmokeFails
  <2> DEFINE r == [Top EXCEPT !.outcome = "smoke-failed", !.seed = seed, !.pc = "policy"]
  <2>2. r \in Runs /\ r.mode = Top.mode /\ r.pc = "policy"
    BY <1>3 DEF Runs, Outcomes, Steps
  <2>3. Early /\ Steady
    BY <1>7 DEF SmokeFails, Running, Top, Steady
  <2> QED
    BY <1>5, <2>1, <2>2, <2>3
<1>8. CASE Fuzz
  <2>1. Early /\ Steady
    BY <1>8 DEF Fuzz, Running, Top, Steady
  <2>2. CASE \E outcome \in {"ok", "no-progress", "fuzzer-exit-nonzero"} :
               NextIs([Top EXCEPT !.outcome = outcome, !.pc = "policy"])
    <3>1. PICK outcome \in {"ok", "no-progress", "fuzzer-exit-nonzero"} :
            NextIs([Top EXCEPT !.outcome = outcome, !.pc = "policy"])
      BY <2>2
    <3>2. outcome \in Outcomes
      BY DEF Outcomes
    <3> DEFINE r == [Top EXCEPT !.outcome = outcome, !.pc = "policy"]
    <3>3. r \in Runs /\ r.mode = Top.mode /\ r.pc = "policy"
      BY <1>3, <3>2 DEF Runs, Steps
    <3> QED
      BY <1>5, <2>1, <3>1, <3>3
  <2>3. CASE \E fp \in Fingerprints, outcome \in {"crash", "timeout"} :
               NextIs([Top EXCEPT !.outcome = outcome, !.fp = fp, !.pc = "index"])
    <3>1. PICK fp \in Fingerprints, outcome \in {"crash", "timeout"} :
            NextIs([Top EXCEPT !.outcome = outcome, !.fp = fp, !.pc = "index"])
      BY <2>3
    <3>2. outcome \in Outcomes
      BY DEF Outcomes
    <3> DEFINE r == [Top EXCEPT !.outcome = outcome, !.fp = fp, !.pc = "index"]
    <3>3. r \in Runs /\ r.mode = Top.mode /\ r.pc = "index"
      BY <1>3, <3>2 DEF Runs, Steps
    <3> QED
      BY <1>5, <2>1, <3>1, <3>3
  <2> QED
    BY <1>8, <2>2, <2>3 DEF Fuzz
<1>9. CASE update_crash_index
  <2> DEFINE r == [Top EXCEPT !.dup = crash_index[Top.fp] > 0, !.pc = "policy"]
  <2>1. (crash_index[Top.fp] > 0) \in BOOLEAN
    BY SMT
  <2>2. \A b \in BOOLEAN : LET q == [Top EXCEPT !.dup = b, !.pc = "policy"]
                           IN q \in Runs /\ q.mode = Top.mode /\ q.pc = "policy"
    BY <1>3 DEF Runs, Steps
  <2>3. r \in Runs /\ r.mode = Top.mode /\ r.pc = "policy"
    BY <2>1, <2>2, Zenon
  <2>4. NextIs(r)
    BY <1>9, Zenon DEF update_crash_index
  <2>5. Early /\ Steady
    BY <1>9 DEF update_crash_index, Running, Top, Steady
  <2> HIDE DEF r
  <2> QED
    BY <1>5, <2>3, <2>4, <2>5
<1>10. CASE LogPolicy
  <2>1. PICK code \in decide_policy_action(Top) :
          NextIs([Top EXCEPT !.action = code, !.pc = SaveOf(code)])
    BY <1>10 DEF LogPolicy
  <2>2. code \in Codes
    BY <1>3, DecisionsAreCodes
  <2>3. SaveOf(code) \in Steps /\ SaveOf(code) \notin {"followup", "return"}
    BY DEF SaveOf, Steps
  <2> DEFINE r == [Top EXCEPT !.action = code, !.pc = SaveOf(code)]
  <2>4. r \in Runs /\ r.mode = Top.mode /\ r.pc = SaveOf(code)
    BY <1>3, <2>2, <2>3 DEF Runs
  <2>5. Early /\ Steady
    BY <1>10 DEF LogPolicy, Running, Top, Steady
  <2> QED
    BY <1>5, <2>1, <2>3, <2>4, <2>5
<1>11. CASE FileKnownBad
  <2>1. NextIs([Top EXCEPT !.pc = "finish"])
    BY <1>11 DEF FileKnownBad
  <2>2. /\ [Top EXCEPT !.pc = "finish"] \in Runs /\ [Top EXCEPT !.pc = "finish"].mode = Top.mode
        /\ [Top EXCEPT !.pc = "finish"].pc = "finish"
    BY <1>3 DEF Runs, Steps
  <2> QED
    BY <1>5, <2>1, <2>2
<1>12. CASE FileCandidate
  <2> DEFINE r == [Top EXCEPT !.pc = "trigger"]
  <2>1. r \in Runs /\ r.mode = Top.mode /\ r.pc = "trigger"
    BY <1>3 DEF Runs, Steps
  <2>2. NextIs(r) /\ Early /\ Steady
    BY <1>12 DEF FileCandidate, Running, Top, Steady
  <2> QED
    BY <1>5, <2>1, <2>2
<1>13. CASE record_regression_trigger
  <2> DEFINE r == [Top EXCEPT !.pc = "next"]
  <2>1. r \in Runs /\ r.mode = Top.mode /\ r.pc = "next"
    BY <1>3 DEF Runs, Steps
  <2>2. NextIs(r) /\ Early
    BY <1>13 DEF record_regression_trigger, Running, Top
  <2>3. PICK k : triggers' = [triggers EXCEPT ![k] = "recorded"]
    BY <1>13 DEF record_regression_trigger
  <2>4. k \in Keys => Steady
    BY <2>3 DEF Steady
  <2>5. k \notin Keys => Steady
    BY <1>1, <2>3 DEF Steady, Registries
  <2> QED
    BY <1>5, <2>1, <2>2, <2>4, <2>5
<1>14. CASE SaveFollowUp
  <2>1. NextIs([Top EXCEPT !.pc = "finish"])
    BY <1>14 DEF SaveFollowUp
  <2>2. /\ [Top EXCEPT !.pc = "finish"] \in Runs /\ [Top EXCEPT !.pc = "finish"].mode = Top.mode
        /\ [Top EXCEPT !.pc = "finish"].pc = "finish"
    BY <1>3 DEF Runs, Steps
  <2> QED
    BY <1>5, <2>1, <2>2
<1>15. CASE Finish
  <2> DEFINE exit == Top.outcome \in {"ok", "no-progress"}
  <2>1. exit \in BOOLEAN /\ stack' = Popped(exit)
    BY <1>15 DEF Finish
  <2> HIDE DEF exit
  <2> QED
    BY <1>1, <1>2, <2>1, PoppedKeepsNest
<1>16. CASE execute_next_regression_trigger
  <2>1. PICK k \in most_urgent :
          IF followup_mode[k.reason] = Top.mode THEN Skip(k) ELSE StartFollowUp(k)
    BY <1>16 DEF execute_next_regression_trigger
  <2>2. CASE followup_mode[k.reason] = Top.mode
    <3>1. NextIs([Top EXCEPT !.pc = "finish"])
      BY <2>1, <2>2 DEF Skip
    <3>2. /\ [Top EXCEPT !.pc = "finish"] \in Runs /\ [Top EXCEPT !.pc = "finish"].mode = Top.mode
          /\ [Top EXCEPT !.pc = "finish"].pc = "finish"
      BY <1>3 DEF Runs, Steps
    <3> QED
      BY <1>5, <3>1, <3>2
  <2>3. CASE followup_mode[k.reason] # Top.mode
    <3>1. Running("next")
      BY <1>16 DEF execute_next_regression_trigger
    <3> QED
      BY <1>2, <2>1, <2>3, <3>1, StartFollowUpKeepsNest
  <2> QED
    BY <2>2, <2>3
<1> QED
  BY <1>6, <1>7, <1>8, <1>9, <1>10, <1>11, <1>12, <1>13, <1>14, <1>15, <1>16 DEF RunStep

\* So does a kill, of all runs or of the last one.
LEMMA KillKeepsNest ==
  ASSUME TypeOK, Nest, Kill
  PROVE  Nest'
<1>1. stack \in Seq(Runs) /\ stack # <<>>
  BY DEF TypeOK, Kill
<1>2. stack' = <<>> \/ stack' = Popped(FALSE)
  BY DEF Kill
<1>3. CASE stack' = <<>>
  <2>1. DOMAIN stack' = {} /\ Waiting' = {}
    BY <1>3 DEF Waiting
  <2> QED
    BY <1>3, <2>1 DEF Nest, WaitersFollowUp, ModesAlternate, UrgencyGrows, WaitersStayPending
<1> QED
  BY <1>1, <1>2, <1>3, PoppedKeepsNest

\* So does the start of an operator's watch.
LEMMA StartWatchKeepsNest ==
  ASSUME TypeOK, StartWatch
  PROVE  Nest'
<1>1. PICK mode \in Modes, smoke \in BOOLEAN : stack' = <<NewRun(mode, smoke)>>
  BY DEF StartWatch
<1> DEFINE r == NewRun(mode, smoke)
<1>2. r.pc = "begin"
  BY NewRunType DEF TypeOK
<1>3. stack' = <<r>>
  BY <1>1
<1> HIDE DEF r
<1>4. DOMAIN stack' = {1} /\ Waiting' = {} /\ stack'[1] = r
  BY <1>3 DEF Waiting
<1> QED
  BY <1>2, <1>4 DEF Nest, WaitersFollowUp, ModesAlternate, UrgencyGrows, WaitersStayPending

\* Types and nesting, which the theorems rest on.
THEOREM NestInvariant == Spec => [](TypeInv /\ Nest)
<1>1. Init => TypeInv
  BY InitTypes DEF TypeInv, ActionsFit, Init
<1>2. Init => Nest
  <2> SUFFICES ASSUME stack = <<>> PROVE Nest
    BY DEF Init
  <2>1. DOMAIN stack = {} /\ Waiting = {}
    BY DEF Waiting
  <2> QED
    BY <2>1 DEF Nest, WaitersFollowUp, ModesAlternate, UrgencyGrows, WaitersStayPending
<1>3. TypeInv /\ [Next]_vars => TypeInv'
  BY TypeInvKept
<1>4. ASSUME TypeInv, Nest, [Next]_vars
      PROVE  Nest'
  <2>1. TypeOK
    BY <1>4 DEF TypeInv
  <2>2. CASE StartWatch
    BY <2>1, <2>2, StartWatchKeepsNest
  <2>3. CASE RunStep
    BY <1>4, <2>1, <2>3, RunStepKeepsNest
  <2>4. CASE Kill
    BY <1>4, <2>1, <2>4, KillKeepsNest
  <2>5. CASE UNCHANGED vars
    BY <1>4, <2>5 DEF vars, Nest, WaitersFollowUp, ModesAlternate, UrgencyGrows,
                      WaitersStayPending, Waiting, Top
  <2> QED
    BY <1>4, <2>2, <2>3, <2>4, <2>5 DEF Next
<1> QED
  BY <1>1, <1>2, <1>3, <1>4, PTL DEF Spec

\* Though a follow-up is a whole watch with follow-ups of its own, no more than four runs
\* ever nest, for any crash families, seeds and history triggers, and whatever is killed.
THEOREM NestingIsBounded == Spec => []NestingBounded
<1>1. TypeInv /\ Nest => NestingBounded
  BY NestBounds DEF TypeInv, TypeOK, NestingBounded
<1> QED
  BY <1>1, NestInvariant, PTL

-----------------------------------------------------------------------------
(* The last run. *)

\* Where the types and the nesting put the last run.
LEMMA LastRun ==
  ASSUME stack \in Seq(Runs), stack # <<>>, Nest
  PROVE  /\ Len(stack) \in DOMAIN stack /\ Top = stack[Len(stack)] /\ Top \in Runs
         /\ \A i \in DOMAIN stack : i # Len(stack) => stack[i].pc = "followup"
         /\ DOMAIN stack = 1..Len(stack) /\ Len(stack) \in Nat \ {0}
<1>1. Len(stack) \in Nat \ {0} /\ DOMAIN stack = 1..Len(stack) /\ Top \in Runs
  BY TopType
<1>2. \A i \in DOMAIN stack : i # Len(stack) => stack[i].pc = "followup"
  BY <1>1, Intervals DEF Nest, WaitersFollowUp, Waiting
<1> QED
  BY <1>1, <1>2 DEF Top

\* A step of the last run leaves the others alone.
LEMMA OnlyLastChanges ==
  ASSUME stack \in Seq(Runs), stack # <<>>, NEW r, NextIs(r)
  PROVE  /\ DOMAIN stack' = DOMAIN stack /\ stack'[Len(stack)] = r
         /\ \A i \in DOMAIN stack : i # Len(stack) => stack'[i] = stack[i]
<1>1. Len(stack) \in DOMAIN stack
  OBVIOUS
<1> QED
  BY <1>1 DEF NextIs

\* When the last run ends, its parent returns from waiting.
LEMMA ParentReturns ==
  ASSUME stack \in Seq(Runs), stack # <<>>, Nest, NEW exit \in BOOLEAN, stack' = Popped(exit)
  PROVE  /\ DOMAIN stack' = 1..(Len(stack) - 1)
         /\ \A i \in DOMAIN stack' :
              /\ i \in DOMAIN stack /\ i # Len(stack)
              /\ stack'[i].fp = stack[i].fp /\ stack'[i].data = stack[i].data
              /\ stack'[i].pc \in {"followup", "return"}
<1>1. /\ stack' \in Seq(Runs) /\ Len(stack') = Len(stack) - 1
      /\ \A i \in 1..(Len(stack) - 1) :
           stack'[i] = IF i = Len(stack) - 1
                       THEN [stack[i] EXCEPT !.pc = "return", !.exit = exit] ELSE stack[i]
  BY PoppedType
<1>2. Len(stack) \in Nat \ {0} /\ DOMAIN stack = 1..Len(stack)
  BY LastRun
<1>3. DOMAIN stack' = 1..(Len(stack) - 1)
  <2>1. \A s \in Seq(Runs) : DOMAIN s = 1..Len(s)
    OBVIOUS
  <2> QED
    BY <1>1, <2>1, Zenon
<1>4. ASSUME NEW i \in 1..(Len(stack) - 1)
      PROVE  /\ i \in DOMAIN stack /\ i # Len(stack)
             /\ stack'[i].fp = stack[i].fp /\ stack'[i].data = stack[i].data
             /\ stack'[i].pc \in {"followup", "return"}
  <2>1. i \in DOMAIN stack /\ i # Len(stack)
    BY <1>2, Intervals
  <2>2. stack[i].pc = "followup"
    BY <2>1, LastRun
  <2>3. stack[i] \in Runs
    BY <2>1
  <2> QED
    BY <1>1, <2>1, <2>2, <2>3, ZenonT(60) DEF Runs
<1> QED
  BY <1>3, <1>4

-----------------------------------------------------------------------------
(* Triggers of an operator's own watch. *)

\* Neither the file nor what a waiting run will save has lost one.
OwnKept ==
  /\ \A k \in owned : triggers[k] # "absent"
  /\ \A i \in DOMAIN stack : stack[i].pc \in {"followup", "return"} =>
       \A k \in owned : stack[i].data[k] # "absent"

\* A step of the last run that neither waits nor touches the registry.
LEMMA QuietKeepsOwn ==
  ASSUME stack \in Seq(Runs), stack # <<>>, OwnKept, NEW r, NextIs(r),
         r.pc \notin {"followup", "return"}, owned' = owned,
         \A k \in owned : triggers[k] # "absent" => triggers'[k] # "absent"
  PROVE  OwnKept'
<1>1. /\ DOMAIN stack' = DOMAIN stack /\ stack'[Len(stack)] = r
      /\ \A i \in DOMAIN stack : i # Len(stack) => stack'[i] = stack[i]
  BY OnlyLastChanges
<1> QED
  BY <1>1 DEF OwnKept

LEMMA PopKeepsOwn ==
  ASSUME stack \in Seq(Runs), stack # <<>>, Nest, OwnKept, NEW exit \in BOOLEAN,
         stack' = Popped(exit), UNCHANGED <<owned, triggers>>
  PROVE  OwnKept'
<1>1. \A i \in DOMAIN stack' : i \in DOMAIN stack /\ i # Len(stack) /\ stack'[i].data = stack[i].data
  BY ParentReturns
<1>2. \A i \in DOMAIN stack : i # Len(stack) => stack[i].pc = "followup"
  BY LastRun
<1> QED
  BY <1>1, <1>2 DEF OwnKept

LEMMA RunStepKeepsOwn ==
  ASSUME TypeInv, Nest, OwnKept, RunStep
  PROVE  OwnKept'
<1>1. stack \in Seq(Runs) /\ triggers \in Registries /\ run_history \in [EntryKinds -> Nat]
      /\ owned \subseteq Keys
  BY DEF TypeInv, TypeOK
<1>2. stack # <<>>
  BY DEF RunStep, Running, BuildFails, SmokeFails, Fuzz, update_crash_index, LogPolicy,
         FileKnownBad, FileCandidate, record_regression_trigger,
         execute_next_regression_trigger, SaveFollowUp, Finish
<1>3. /\ Len(stack) \in DOMAIN stack /\ Top = stack[Len(stack)] /\ Top \in Runs
      /\ \A i \in DOMAIN stack : i # Len(stack) => stack[i].pc = "followup"
      /\ DOMAIN stack = 1..Len(stack) /\ Len(stack) \in Nat \ {0}
  BY <1>1, <1>2, LastRun
<1>4. CASE BuildFails
  <2>1. [Top EXCEPT !.outcome = "build-failed", !.pc = "policy"].pc = "policy"
    BY <1>3 DEF Runs
  <2> QED
    BY <1>1, <1>2, <1>4, <2>1, QuietKeepsOwn DEF BuildFails
<1>5. CASE SmokeFails
  <2>1. PICK seed \in Seeds \cup {NoSeed} :
          NextIs([Top EXCEPT !.outcome = "smoke-failed", !.seed = seed, !.pc = "policy"])
    BY <1>5 DEF SmokeFails
  <2>2. [Top EXCEPT !.outcome = "smoke-failed", !.seed = seed, !.pc = "policy"].pc = "policy"
    BY <1>3 DEF Runs
  <2> QED
    BY <1>1, <1>2, <1>5, <2>1, <2>2, QuietKeepsOwn DEF SmokeFails
<1>6. CASE Fuzz
  <2>1. CASE \E outcome \in {"ok", "no-progress", "fuzzer-exit-nonzero"} :
               NextIs([Top EXCEPT !.outcome = outcome, !.pc = "policy"])
    <3>1. PICK outcome : NextIs([Top EXCEPT !.outcome = outcome, !.pc = "policy"])
      BY <2>1
    <3>2. [Top EXCEPT !.outcome = outcome, !.pc = "policy"].pc = "policy"
      BY <1>3 DEF Runs
    <3> QED
      BY <1>1, <1>2, <1>6, <3>1, <3>2, QuietKeepsOwn DEF Fuzz
  <2>2. CASE \E fp \in Fingerprints, outcome \in {"crash", "timeout"} :
               NextIs([Top EXCEPT !.outcome = outcome, !.fp = fp, !.pc = "index"])
    <3>1. PICK fp, outcome : NextIs([Top EXCEPT !.outcome = outcome, !.fp = fp, !.pc = "index"])
      BY <2>2
    <3>2. [Top EXCEPT !.outcome = outcome, !.fp = fp, !.pc = "index"].pc = "index"
      BY <1>3 DEF Runs
    <3> QED
      BY <1>1, <1>2, <1>6, <3>1, <3>2, QuietKeepsOwn DEF Fuzz
  <2> QED
    BY <1>6, <2>1, <2>2 DEF Fuzz
<1>7. CASE update_crash_index
  <2> DEFINE r == [Top EXCEPT !.dup = crash_index[Top.fp] > 0, !.pc = "policy"]
  <2>1. r.pc = "policy"
    BY <1>3 DEF Runs
  <2>2. NextIs(r) /\ UNCHANGED <<triggers, owned>>
    BY <1>7 DEF update_crash_index
  <2> HIDE DEF r
  <2> QED
    BY <1>1, <1>2, <2>1, <2>2, QuietKeepsOwn
<1>8. CASE LogPolicy
  <2>1. PICK code \in decide_policy_action(Top) :
          NextIs([Top EXCEPT !.action = code, !.pc = SaveOf(code)])
    BY <1>8 DEF LogPolicy
  <2>2. [Top EXCEPT !.action = code, !.pc = SaveOf(code)].pc = SaveOf(code)
    BY <1>3 DEF Runs
  <2>3. SaveOf(code) \notin {"followup", "return"}
    BY DEF SaveOf
  <2> QED
    BY <1>1, <1>2, <1>8, <2>1, <2>2, <2>3, QuietKeepsOwn DEF LogPolicy
<1>9. CASE FileKnownBad
  <2>1. [Top EXCEPT !.pc = "finish"].pc = "finish"
    BY <1>3 DEF Runs
  <2> QED
    BY <1>1, <1>2, <1>9, <2>1, QuietKeepsOwn DEF FileKnownBad
<1>10. CASE FileCandidate
  <2>1. [Top EXCEPT !.pc = "trigger"].pc = "trigger"
    BY <1>3 DEF Runs
  <2> QED
    BY <1>1, <1>2, <1>10, <2>1, QuietKeepsOwn DEF FileCandidate
<1>11. CASE record_regression_trigger
  <2> DEFINE k == regression_trigger_dedup_key(Top)
  <2>1. Top.action \in Reasons
    BY <1>3, <1>11 DEF TypeInv, ActionsFit, record_regression_trigger, Running
  <2>2. k \in Keys
    BY <1>3, <2>1, DedupKeyType
  <2>3. [Top EXCEPT !.pc = "next"].pc = "next"
    BY <1>3 DEF Runs
  <2>4. /\ triggers' = [triggers EXCEPT ![k] = "recorded"]
        /\ owned' = IF Len(stack) = 1 THEN owned \cup {k} ELSE owned
        /\ NextIs([Top EXCEPT !.pc = "next"])
    BY <1>11 DEF record_regression_trigger
  <2> HIDE DEF k
  <2>5. triggers'[k] # "absent" /\ \A j \in Keys : triggers[j] # "absent" => triggers'[j] # "absent"
    BY <1>1, <2>2, <2>4 DEF Registries
  <2>6. CASE Len(stack) = 1
    <3>1. DOMAIN stack' = {1} /\ stack'[1].pc = "next"
      <4> DEFINE r == [Top EXCEPT !.pc = "next"]
      <4>1. NextIs(r) /\ r.pc = "next"
        BY <2>3, <2>4
      <4> HIDE DEF r
      <4>2. DOMAIN stack' = DOMAIN stack /\ stack'[Len(stack)] = r
        BY <1>1, <1>2, <4>1, OnlyLastChanges
      <4>3. DOMAIN stack = 1..1
        BY <1>3, <2>6, Zenon
      <4>4. 1..1 = {1}
        OBVIOUS
      <4> QED
        BY <2>6, <4>1, <4>2, <4>3, <4>4, Zenon
    <3>2. \A j \in owned' : triggers'[j] # "absent"
      BY <1>1, <2>4, <2>5, <2>6 DEF OwnKept
    <3> QED
      BY <3>1, <3>2 DEF OwnKept
  <2>7. CASE Len(stack) # 1
    BY <1>1, <1>2, <2>3, <2>4, <2>5, <2>7, QuietKeepsOwn
  <2> QED
    BY <2>6, <2>7
<1>12. CASE execute_next_regression_trigger
  <2>1. PICK k \in most_urgent :
          IF followup_mode[k.reason] = Top.mode THEN Skip(k) ELSE StartFollowUp(k)
    BY <1>12 DEF execute_next_regression_trigger
  <2>2. k \in Keys /\ owned' = owned
    BY <1>12 DEF execute_next_regression_trigger, most_urgent, Pending
  <2>3. CASE Skip(k)
    <3>1. [Top EXCEPT !.pc = "finish"].pc = "finish"
      BY <1>3 DEF Runs
    <3>2. \A j \in owned : triggers[j] # "absent" => triggers'[j] # "absent"
      BY <1>1, <2>2, <2>3 DEF Skip, Registries
    <3> QED
      BY <1>1, <1>2, <2>2, <2>3, <3>1, <3>2, QuietKeepsOwn DEF Skip
  <2>4. CASE StartFollowUp(k)
    <3>1. /\ stack' \in Seq(Runs) /\ Len(stack') = Len(stack) + 1
          /\ stack'[Len(stack)] = [Top EXCEPT !.key = k, !.data = triggers, !.pc = "followup"]
          /\ stack'[Len(stack) + 1].pc = "begin"
          /\ \A i \in 1..(Len(stack) - 1) : stack'[i] = stack[i]
      BY <1>1, <1>2, <2>2, <2>4, StartFollowUpType
    <3>2. stack'[Len(stack)].data = triggers
      BY <1>3, <3>1 DEF Runs
    <3>3. \A i \in DOMAIN stack' : i = Len(stack) + 1 \/ i = Len(stack)
                                   \/ (i \in 1..(Len(stack) - 1) /\ i \in DOMAIN stack)
      BY <1>3, <3>1
    <3>4. triggers' = triggers
      BY <2>4 DEF StartFollowUp
    <3>5. ASSUME NEW i \in DOMAIN stack', stack'[i].pc \in {"followup", "return"}, NEW j \in owned
          PROVE  stack'[i].data[j] # "absent"
      <4>1. CASE i = Len(stack)
        BY <3>2, <4>1 DEF OwnKept
      <4>2. CASE i \in 1..(Len(stack) - 1) /\ i \in DOMAIN stack
        BY <3>1, <3>5, <4>2 DEF OwnKept
      <4> QED
        BY <3>1, <3>3, <3>5, <4>1, <4>2
    <3> QED
      BY <2>2, <3>4, <3>5 DEF OwnKept
  <2> QED
    BY <2>1, <2>3, <2>4
<1>13. CASE SaveFollowUp
  <2>1. [Top EXCEPT !.pc = "finish"].pc = "finish"
    BY <1>3 DEF Runs
  <2>2. \A k \in owned : Top.data[k] # "absent"
    BY <1>3, <1>13 DEF SaveFollowUp, Running, OwnKept
  <2>3. Top.data \in Registries
    BY <1>3 DEF Runs
  <2>4. \A k \in owned : triggers'[k] # "absent"
    BY <1>1, <1>13, <2>2, <2>3 DEF SaveFollowUp, SavedAfter, Registries
  <2> QED
    BY <1>1, <1>2, <1>13, <2>1, <2>4, QuietKeepsOwn DEF SaveFollowUp
<1>14. CASE Finish
  <2>1. (Top.outcome \in {"ok", "no-progress"}) \in BOOLEAN
    OBVIOUS
  <2> QED
    BY <1>1, <1>2, <1>14, <2>1, PopKeepsOwn DEF Finish
<1> QED
  BY <1>4, <1>5, <1>6, <1>7, <1>8, <1>9, <1>10, <1>11, <1>12, <1>13, <1>14 DEF RunStep

LEMMA OwnStep ==
  ASSUME TypeInv, Nest, OwnKept, [Next]_vars
  PROVE  OwnKept'
<1>1. CASE StartWatch
  <2>1. PICK mode \in Modes, smoke \in BOOLEAN : stack' = <<NewRun(mode, smoke)>>
    BY <1>1 DEF StartWatch
  <2>2. NewRun(mode, smoke).pc = "begin"
    BY NewRunType DEF TypeInv, TypeOK
  <2> DEFINE r == NewRun(mode, smoke)
  <2>3. DOMAIN <<r>> = {1} /\ <<r>>[1] = r
    OBVIOUS
  <2>4. UNCHANGED <<triggers, owned>>
    BY <1>1 DEF StartWatch
  <2> HIDE DEF r
  <2>5. stack' = <<r>> /\ r.pc = "begin"
    BY <2>1, <2>2 DEF r
  <2> QED
    BY <2>3, <2>4, <2>5 DEF OwnKept
<1>2. CASE RunStep
  BY <1>2, RunStepKeepsOwn
<1>3. CASE Kill
  <2>1. stack \in Seq(Runs) /\ stack # <<>> /\ UNCHANGED <<owned, triggers>>
    BY <1>3 DEF TypeInv, TypeOK, Kill
  <2>2. stack' = <<>> \/ stack' = Popped(FALSE)
    BY <1>3 DEF Kill
  <2>3. CASE stack' = <<>>
    BY <2>1, <2>3 DEF OwnKept
  <2>4. CASE stack' = Popped(FALSE)
    BY <2>1, <2>4, PopKeepsOwn
  <2> QED
    BY <2>2, <2>3, <2>4
<1>4. CASE UNCHANGED vars
  BY <1>4 DEF vars, OwnKept
<1> QED
  BY <1>1, <1>2, <1>3, <1>4 DEF Next

-----------------------------------------------------------------------------
(* Families that are filed as known bad. *)

Decided(f) == \E entry \in policy_log : entry[1] = f /\ entry[2] \notin DuplicateCodes

\* A run that found the family new is about to decide on it.
Open(f) == \E i \in DOMAIN stack :
             stack[i].fp = f /\ stack[i].pc = "policy" /\ ~ stack[i].dup

\* A family in the crash index was decided on as a new one, or is about to be; a run
\* that reads the count of its family finds it.
Triaged ==
  /\ \A f \in Fingerprints \ orphans : crash_index[f] > 0 => Decided(f) \/ Open(f)
  /\ \A f \in Fingerprints \ orphans : known_bad[f] > 0 => Decided(f)
  /\ \A i \in DOMAIN stack :
       stack[i].pc # "index" /\ stack[i].fp \in Fingerprints => crash_index[stack[i].fp] > 0

\* A run that found its family new never decides on it as a duplicate.
LEMMA NewIsNotDuplicate ==
  ASSUME NEW r \in Runs, ~ r.dup, NEW code \in decide_policy_action(r)
  PROVE  code \notin DuplicateCodes
<1> DEFINE Other == {a \in [code : Codes \cup {""}, priority : Priorities] :
                       a.code \notin DuplicateCodes}
<1>1. NoOverride.code \notin DuplicateCodes
  BY DEF NoOverride, Action, DuplicateCodes
<1>2. \A category, fp : base_action(category, fp, FALSE).code \notin DuplicateCodes
  BY DEF base_action, Action, DuplicateCodes
<1>3. \A category, fp, dup : evaluate_profile_policy(category, fp, dup).code \notin DuplicateCodes
  BY <1>1 DEF evaluate_profile_policy, Action, DuplicateCodes
<1>4. \A hist : \A a \in evaluate_history_triggers(hist) : a.code \notin DuplicateCodes
  <2>1. \A c \in Timed :
          Action(c, IF c = "split_slow_lane" THEN "high" ELSE "medium").code \notin DuplicateCodes
    BY WatchAssumption DEF Action, DuplicateCodes
  <2>2. /\ Action("shift_weight_to_deeper_harness", "high").code \notin DuplicateCodes
        /\ Action("halt_and_review_harness", "high").code \notin DuplicateCodes
    BY DEF Action, DuplicateCodes
  <2> QED
    BY <1>1, <2>1, <2>2, Zenon DEF evaluate_history_triggers
<1>5. \A a, o : a.code \notin DuplicateCodes /\ o.code \notin DuplicateCodes
                => Overridden(a, o).code \notin DuplicateCodes
  BY Zenon DEF Overridden
<1>6. r.dup = FALSE
  BY DEF Runs
<1> QED
  BY <1>2, <1>3, <1>4, <1>5, <1>6, Zenon DEF decide_policy_action

\* A step of the last run that was not about to decide, changes neither its family nor
\* the registries concerned.
LEMMA QuietKeepsTriaged ==
  ASSUME stack \in Seq(Runs), stack # <<>>, Triaged, Top.pc \notin {"index", "policy"},
         NEW r, NextIs(r), r.fp = Top.fp,
         UNCHANGED <<crash_index, known_bad, policy_log, orphans>>
  PROVE  Triaged'
<1>1. /\ DOMAIN stack' = DOMAIN stack /\ stack'[Len(stack)] = r
      /\ \A i \in DOMAIN stack : i # Len(stack) => stack'[i] = stack[i]
  BY OnlyLastChanges
<1>2. Len(stack) \in DOMAIN stack /\ Top = stack[Len(stack)]
  BY DEF Top
<1>3. \A f : Open(f) => Open(f)'
  BY <1>1, <1>2 DEF Open
<1>4. \A f : Decided(f)' <=> Decided(f)
  BY DEF Decided
<1>5. ASSUME NEW i \in DOMAIN stack', stack'[i].pc # "index", stack'[i].fp \in Fingerprints
      PROVE  crash_index'[stack'[i].fp] > 0
  <2>1. CASE i = Len(stack)
    BY <1>1, <1>2, <1>5, <2>1 DEF Triaged
  <2>2. CASE i # Len(stack)
    BY <1>1, <1>5, <2>2 DEF Triaged
  <2> QED
    BY <2>1, <2>2
<1> QED
  BY <1>3, <1>4, <1>5 DEF Triaged

\* The last run ends; if it was about to decide, its family is an orphan.
LEMMA PopKeepsTriaged ==
  ASSUME stack \in Seq(Runs), stack # <<>>, Nest, Triaged, NEW exit \in BOOLEAN,
         stack' = Popped(exit), UNCHANGED <<crash_index, known_bad, policy_log>>,
         orphans \subseteq orphans', Unlogged(Top) => Top.fp \in orphans'
  PROVE  Triaged'
<1>1. /\ DOMAIN stack' = 1..(Len(stack) - 1)
      /\ \A i \in DOMAIN stack' : i \in DOMAIN stack /\ i # Len(stack)
                                  /\ stack'[i].fp = stack[i].fp
  BY ParentReturns
<1>2. /\ Top = stack[Len(stack)]
      /\ \A i \in DOMAIN stack : i # Len(stack) => stack[i].pc = "followup"
  BY LastRun
<1>3. \A f \in Fingerprints : Open(f) => f \in orphans'
  <2> SUFFICES ASSUME NEW f \in Fingerprints, NEW i \in DOMAIN stack,
                      stack[i].fp = f, stack[i].pc = "policy", ~ stack[i].dup
               PROVE  f \in orphans'
    BY DEF Open
  <2>1. stack[i] = Top
    BY <1>2
  <2>2. Top.fp # NoFp
    BY <2>1, WatchAssumption
  <2> QED
    BY <2>1, <2>2 DEF Unlogged
<1>4. \A f : Decided(f)' <=> Decided(f)
  BY DEF Decided
<1>5. \A i \in DOMAIN stack' : stack'[i].fp \in Fingerprints => crash_index'[stack'[i].fp] > 0
  BY <1>1, <1>2 DEF Triaged
<1> QED
  BY <1>3, <1>4, <1>5 DEF Triaged

LEMMA RunStepKeepsTriaged ==
  ASSUME TypeInv, Nest, Triaged, RunStep
  PROVE  Triaged'
<1>1. /\ stack \in Seq(Runs) /\ triggers \in Registries /\ run_history \in [EntryKinds -> Nat]
      /\ crash_index \in [Fingerprints -> Nat] /\ known_bad \in [Fingerprints -> Nat]
  BY DEF TypeInv, TypeOK
<1>2. stack # <<>>
  BY DEF RunStep, Running, BuildFails, SmokeFails, Fuzz, update_crash_index, LogPolicy,
         FileKnownBad, FileCandidate, record_regression_trigger,
         execute_next_regression_trigger, SaveFollowUp, Finish
<1>3. /\ Len(stack) \in DOMAIN stack /\ Top = stack[Len(stack)] /\ Top \in Runs
      /\ \A i \in DOMAIN stack : i # Len(stack) => stack[i].pc = "followup"
      /\ DOMAIN stack = 1..Len(stack) /\ Len(stack) \in Nat \ {0}
  BY <1>1, <1>2, LastRun
<1>4. CASE BuildFails
  <2>1. [Top EXCEPT !.outcome = "build-failed", !.pc = "policy"].fp = Top.fp
    BY <1>3 DEF Runs
  <2>2. Top.pc = "begin"
    BY <1>4 DEF BuildFails, Running, Top
  <2> QED
    BY <1>1, <1>2, <1>4, <2>1, <2>2, QuietKeepsTriaged DEF BuildFails
<1>5. CASE SmokeFails
  <2>1. PICK seed \in Seeds \cup {NoSeed} :
          NextIs([Top EXCEPT !.outcome = "smoke-failed", !.seed = seed, !.pc = "policy"])
    BY <1>5 DEF SmokeFails
  <2>2. [Top EXCEPT !.outcome = "smoke-failed", !.seed = seed, !.pc = "policy"].fp = Top.fp
    BY <1>3 DEF Runs
  <2>3. Top.pc = "begin"
    BY <1>5 DEF SmokeFails, Running, Top
  <2> QED
    BY <1>1, <1>2, <1>5, <2>1, <2>2, <2>3, QuietKeepsTriaged DEF SmokeFails
<1>6. CASE Fuzz
  <2>1. Top.pc = "begin"
    BY <1>6 DEF Fuzz, Running, Top
  <2>2. CASE \E outcome \in {"ok", "no-progress", "fuzzer-exit-nonzero"} :
               NextIs([Top EXCEPT !.outcome = outcome, !.pc = "policy"])
    <3>1. PICK outcome : NextIs([Top EXCEPT !.outcome = outcome, !.pc = "policy"])
      BY <2>2
    <3>2. [Top EXCEPT !.outcome = outcome, !.pc = "policy"].fp = Top.fp
      BY <1>3 DEF Runs
    <3> QED
      BY <1>1, <1>2, <1>6, <2>1, <3>1, <3>2, QuietKeepsTriaged DEF Fuzz
  <2>3. CASE \E fp \in Fingerprints, outcome \in {"crash", "timeout"} :
               NextIs([Top EXCEPT !.outcome = outcome, !.fp = fp, !.pc = "index"])
    <3>1. PICK fp, outcome : NextIs([Top EXCEPT !.outcome = outcome, !.fp = fp, !.pc = "index"])
      BY <2>3
    <3> DEFINE r == [Top EXCEPT !.outcome = outcome, !.fp = fp, !.pc = "index"]
    <3>2. NextIs(r) /\ r.pc = "index"
      BY <1>3, <3>1 DEF Runs
    <3> HIDE DEF r
    <3>3. /\ DOMAIN stack' = DOMAIN stack /\ stack'[Len(stack)] = r
          /\ \A i \in DOMAIN stack : i # Len(stack) => stack'[i] = stack[i]
      BY <1>1, <1>2, <3>2, OnlyLastChanges
    <3>4. UNCHANGED <<crash_index, known_bad, policy_log, orphans>>
      BY <1>6 DEF Fuzz
    <3>5. \A f : Open(f) => Open(f)'
      BY <1>3, <2>1, <3>3 DEF Open
    <3>6. \A f : Decided(f)' <=> Decided(f)
      BY <3>4 DEF Decided
    <3> QED
      BY <1>3, <3>2, <3>3, <3>4, <3>5, <3>6 DEF Triaged
  <2> QED
    BY <1>6, <2>2, <2>3 DEF Fuzz
<1>7. CASE update_crash_index
  <2> DEFINE r == [Top EXCEPT !.dup = crash_index[Top.fp] > 0, !.pc = "policy"]
  <2>1. /\ NextIs(r) /\ r.fp = Top.fp /\ r.pc = "policy" /\ (r.dup <=> crash_index[Top.fp] > 0)
        /\ Top.pc = "index"
        /\ crash_index' = [crash_index EXCEPT ![Top.fp] = @ + 1]
        /\ UNCHANGED <<known_bad, policy_log, orphans>>
    <3>1. r.fp = Top.fp /\ r.pc = "policy" /\ r.dup = (crash_index[Top.fp] > 0)
      BY <1>3 DEF Runs
    <3>2. NextIs(r) /\ Top.pc = "index"
          /\ crash_index' = [crash_index EXCEPT ![Top.fp] = @ + 1]
          /\ UNCHANGED <<known_bad, policy_log, orphans>>
      BY <1>7 DEF update_crash_index, Running, Top
    <3> QED
      BY <3>1, <3>2
  <2> HIDE DEF r
  <2>2. /\ DOMAIN stack' = DOMAIN stack /\ stack'[Len(stack)] = r
        /\ \A i \in DOMAIN stack : i # Len(stack) => stack'[i] = stack[i]
    BY <1>1, <1>2, <2>1, OnlyLastChanges
  <2>3. \A f : Decided(f)' <=> Decided(f)
    BY <2>1 DEF Decided
  <2>4. \A f : ~ Open(f)
    BY <1>3, <2>1 DEF Open
  <2>5. ASSUME NEW f \in Fingerprints \ orphans, crash_index'[f] > 0
        PROVE  Decided(f)' \/ Open(f)'
    <3>1. CASE crash_index[f] > 0
      BY <2>3, <2>4, <2>5, <3>1 DEF Triaged
    <3>2. CASE ~ (crash_index[f] > 0)
      <4>1. f = Top.fp
        BY <1>1, <2>1, <2>5, <3>2
      <4> QED
        BY <1>3, <2>1, <2>2, <3>2, <4>1 DEF Open
    <3> QED
      BY <3>1, <3>2
  <2>6. \A f \in Fingerprints : crash_index[f] > 0 \/ f = Top.fp => crash_index'[f] > 0
    BY <1>1, <2>1
  <2>7. ASSUME NEW i \in DOMAIN stack', stack'[i].pc # "index", stack'[i].fp \in Fingerprints
        PROVE  crash_index'[stack'[i].fp] > 0
    <3>1. CASE i = Len(stack)
      BY <2>1, <2>2, <2>6, <2>7, <3>1
    <3>2. CASE i # Len(stack)
      BY <2>2, <2>6, <2>7, <3>2 DEF Triaged
    <3> QED
      BY <3>1, <3>2
  <2> QED
    BY <2>1, <2>3, <2>5, <2>7 DEF Triaged
<1>8. CASE LogPolicy
  <2>1. PICK code \in decide_policy_action(Top) :
          /\ NextIs([Top EXCEPT !.action = code, !.pc = SaveOf(code)])
          /\ policy_log' = policy_log \cup (IF Top.fp = NoFp THEN {} ELSE {<<Top.fp, code>>})
    BY <1>8 DEF LogPolicy
  <2> DEFINE r == [Top EXCEPT !.action = code, !.pc = SaveOf(code)]
  <2>2. /\ NextIs(r) /\ r.fp = Top.fp /\ Top.pc = "policy"
        /\ UNCHANGED <<crash_index, known_bad, orphans>>
    <3>1. r.fp = Top.fp
      BY <1>3 DEF Runs
    <3> QED
      BY <1>8, <2>1, <3>1 DEF LogPolicy, Running, Top
  <2> HIDE DEF r
  <2>3. /\ DOMAIN stack' = DOMAIN stack /\ stack'[Len(stack)] = r
        /\ \A i \in DOMAIN stack : i # Len(stack) => stack'[i] = stack[i]
    BY <1>1, <1>2, <2>2, OnlyLastChanges
  <2>4. \A f : Decided(f) => Decided(f)'
    BY <2>1 DEF Decided
  <2>5. ASSUME NEW f \in Fingerprints, Open(f)
        PROVE  Decided(f)'
    <3>1. Top.fp = f /\ ~ Top.dup
      BY <1>3, <2>5 DEF Open
    <3>2. code \notin DuplicateCodes
      BY <1>3, <3>1, NewIsNotDuplicate
    <3>3. <<f, code>> \in policy_log'
      BY <2>1, <3>1, WatchAssumption
    <3> QED
      BY <3>2, <3>3 DEF Decided
  <2>6. ASSUME NEW i \in DOMAIN stack', stack'[i].pc # "index", stack'[i].fp \in Fingerprints
        PROVE  crash_index'[stack'[i].fp] > 0
    <3>1. CASE i = Len(stack)
      BY <1>3, <2>2, <2>3, <2>6, <3>1 DEF Triaged
    <3>2. CASE i # Len(stack)
      BY <2>2, <2>3, <2>6, <3>2 DEF Triaged
    <3> QED
      BY <3>1, <3>2
  <2> QED
    BY <2>2, <2>4, <2>5, <2>6 DEF Triaged
<1>9. CASE FileKnownBad
  <2> DEFINE r == [Top EXCEPT !.pc = "finish"]
  <2>1. /\ NextIs(r) /\ r.fp = Top.fp /\ Top.pc = "known_bad"
        /\ known_bad' = [known_bad EXCEPT ![Top.fp] = Max({@, crash_index[Top.fp]})]
        /\ UNCHANGED <<crash_index, policy_log, orphans>>
    <3>1. r.fp = Top.fp
      BY <1>3 DEF Runs
    <3> QED
      BY <1>9, <3>1 DEF FileKnownBad, Running, Top
  <2> HIDE DEF r
  <2>2. /\ DOMAIN stack' = DOMAIN stack /\ stack'[Len(stack)] = r
        /\ \A i \in DOMAIN stack : i # Len(stack) => stack'[i] = stack[i]
    BY <1>1, <1>2, <2>1, OnlyLastChanges
  <2>3. \A f : ~ Open(f)
    BY <1>3, <2>1 DEF Open
  <2>4. \A f : Decided(f)' <=> Decided(f)
    BY <2>1 DEF Decided
  <2>5. \A f \in Fingerprints \ orphans : known_bad'[f] > 0 => Decided(f)
    <3> TAKE f \in Fingerprints \ orphans
    <3>1. CASE f = Top.fp
      <4>1. crash_index[f] > 0
        BY <1>3, <2>1, <3>1 DEF Triaged
      <4> QED
        BY <2>3, <4>1 DEF Triaged
    <3>2. CASE f # Top.fp
      <4>1. known_bad'[f] = known_bad[f]
        BY <1>1, <2>1, <3>2
      <4> QED
        BY <4>1 DEF Triaged
    <3> QED
      BY <3>1, <3>2
  <2>6. ASSUME NEW i \in DOMAIN stack', stack'[i].pc # "index", stack'[i].fp \in Fingerprints
        PROVE  crash_index'[stack'[i].fp] > 0
    <3>1. CASE i = Len(stack)
      BY <1>3, <2>1, <2>2, <2>6, <3>1 DEF Triaged
    <3>2. CASE i # Len(stack)
      BY <2>1, <2>2, <2>6, <3>2 DEF Triaged
    <3> QED
      BY <3>1, <3>2
  <2> QED
    BY <2>1, <2>3, <2>4, <2>5, <2>6 DEF Triaged
<1>10. CASE FileCandidate
  <2>1. [Top EXCEPT !.pc = "trigger"].fp = Top.fp
    BY <1>3 DEF Runs
  <2>2. Top.pc = "candidate"
    BY <1>10 DEF FileCandidate, Running, Top
  <2> QED
    BY <1>1, <1>2, <1>10, <2>1, <2>2, QuietKeepsTriaged DEF FileCandidate
<1>11. CASE record_regression_trigger
  <2>1. [Top EXCEPT !.pc = "next"].fp = Top.fp
    BY <1>3 DEF Runs
  <2>2. Top.pc = "trigger"
    BY <1>11 DEF record_regression_trigger, Running, Top
  <2> QED
    BY <1>1, <1>2, <1>11, <2>1, <2>2, QuietKeepsTriaged DEF record_regression_trigger
<1>12. CASE execute_next_regression_trigger
  <2>1. PICK k \in most_urgent :
          IF followup_mode[k.reason] = Top.mode THEN Skip(k) ELSE StartFollowUp(k)
    BY <1>12 DEF execute_next_regression_trigger
  <2>2. /\ k \in Keys /\ Top.pc = "next"
        /\ UNCHANGED <<crash_index, known_bad, policy_log, orphans>>
    BY <1>12 DEF execute_next_regression_trigger, most_urgent, Pending, Running, Top
  <2>3. CASE Skip(k)
    <3>1. [Top EXCEPT !.pc = "finish"].fp = Top.fp
      BY <1>3 DEF Runs
    <3> QED
      BY <1>1, <1>2, <2>2, <2>3, <3>1, QuietKeepsTriaged DEF Skip
  <2>4. CASE StartFollowUp(k)
    <3> DEFINE n == Len(stack)
               mode == followup_mode[k.reason]
               child == NewRun(mode, Smoked(mode))
    <3>1. /\ stack' \in Seq(Runs) /\ Len(stack') = n + 1
          /\ stack'[n] = [Top EXCEPT !.key = k, !.data = triggers, !.pc = "followup"]
          /\ \A i \in 1..(n - 1) : stack'[i] = stack[i]
      BY <1>1, <1>2, <2>2, <2>4, StartFollowUpType
    <3>2. stack'[n].fp = Top.fp
      BY <1>3, <3>1 DEF Runs
    <3>3. stack'[n + 1].fp = NoFp
      <4> DEFINE s == [stack EXCEPT ![n] = [Top EXCEPT !.key = k, !.data = triggers,
                                                       !.pc = "followup"]]
      <4>1. child.fp = NoFp
        BY DEF NewRun
      <4>2. stack' = s \o <<child>>
        BY <2>4 DEF StartFollowUp
      <4>3. Len(s) = n /\ s \in Seq(Runs \cup {s[n]})
        BY <1>1, <1>3
      <4> HIDE DEF s, child
      <4> QED
        BY <1>3, <4>1, <4>2, <4>3
    <3>4. \A i \in DOMAIN stack' : i = n + 1 \/ i = n \/ (i \in 1..(n - 1) /\ i \in DOMAIN stack)
      BY <1>3, <3>1
    <3>5. \A f : ~ Open(f)
      BY <1>3, <2>2 DEF Open
    <3>6. \A f : Decided(f)' <=> Decided(f)
      BY <2>2 DEF Decided
    <3>7. ASSUME NEW i \in DOMAIN stack', stack'[i].pc # "index", stack'[i].fp \in Fingerprints
          PROVE  crash_index'[stack'[i].fp] > 0
      <4>1. CASE i = n
        BY <1>3, <2>2, <3>2, <3>7, <4>1 DEF Triaged
      <4>2. CASE i \in 1..(n - 1) /\ i \in DOMAIN stack
        BY <2>2, <3>1, <3>7, <4>2 DEF Triaged
      <4> QED
        BY <3>3, <3>4, <3>7, <4>1, <4>2, WatchAssumption
    <3> QED
      BY <2>2, <3>5, <3>6, <3>7 DEF Triaged
  <2> QED
    BY <2>1, <2>3, <2>4
<1>13. CASE SaveFollowUp
  <2>1. [Top EXCEPT !.pc = "finish"].fp = Top.fp
    BY <1>3 DEF Runs
  <2>2. Top.pc = "return"
    BY <1>13 DEF SaveFollowUp, Running, Top
  <2> QED
    BY <1>1, <1>2, <1>13, <2>1, <2>2, QuietKeepsTriaged DEF SaveFollowUp
<1>14. CASE Finish
  <2>1. (Top.outcome \in {"ok", "no-progress"}) \in BOOLEAN
    OBVIOUS
  <2>2. ~ Unlogged(Top)
    BY <1>14 DEF Finish, Running, Top, Unlogged
  <2> QED
    BY <1>1, <1>2, <1>14, <2>1, <2>2, PopKeepsTriaged DEF Finish
<1> QED
  BY <1>4, <1>5, <1>6, <1>7, <1>8, <1>9, <1>10, <1>11, <1>12, <1>13, <1>14 DEF RunStep

LEMMA TriagedStep ==
  ASSUME TypeInv, Nest, Triaged, [Next]_vars
  PROVE  Triaged'
<1>1. CASE StartWatch
  <2>1. PICK mode \in Modes, smoke \in BOOLEAN : stack' = <<NewRun(mode, smoke)>>
    BY <1>1 DEF StartWatch
  <2> DEFINE r == NewRun(mode, smoke)
  <2>2. r.fp = NoFp
    BY DEF NewRun
  <2> HIDE DEF r
  <2>3. DOMAIN stack' = {1} /\ stack'[1].fp = NoFp
    <3>1. stack' = <<r>>
      BY <2>1 DEF r
    <3> QED
      BY <2>2, <3>1
  <2>4. stack = <<>> /\ UNCHANGED <<crash_index, known_bad, policy_log, orphans>>
    BY <1>1 DEF StartWatch
  <2>5. \A f : ~ Open(f) /\ (Decided(f)' <=> Decided(f))
    BY <2>4 DEF Open, Decided
  <2> QED
    BY <2>3, <2>4, <2>5, WatchAssumption DEF Triaged
<1>2. CASE RunStep
  BY <1>2, RunStepKeepsTriaged
<1>3. CASE Kill
  <2>1. PICK first \in {1, Len(stack)} :
          /\ stack' = IF first = 1 THEN <<>> ELSE Popped(FALSE)
          /\ orphans' = orphans \cup {r.fp : r \in {q \in {stack[i] : i \in first..Len(stack)} :
                                                      Unlogged(q)}}
    BY <1>3 DEF Kill
  <2>2. /\ stack \in Seq(Runs) /\ stack # <<>>
        /\ UNCHANGED <<crash_index, known_bad, policy_log>>
    BY <1>3 DEF TypeInv, TypeOK, Kill
  <2>3. /\ Len(stack) \in Nat \ {0} /\ DOMAIN stack = 1..Len(stack)
        /\ Top = stack[Len(stack)]
    BY <2>2, LastRun
  <2>4. \A i \in first..Len(stack) : Unlogged(stack[i]) => stack[i].fp \in orphans'
    BY <2>1
  <2>5. CASE first = 1
    <3>1. \A f \in Fingerprints : Open(f) => f \in orphans'
      BY <2>3, <2>4, <2>5, WatchAssumption DEF Open, Unlogged
    <3>2. stack' = <<>> /\ orphans \subseteq orphans'
      BY <2>1, <2>5
    <3>3. \A f : Decided(f)' <=> Decided(f)
      BY <2>2 DEF Decided
    <3>4. DOMAIN stack' = {}
      BY <3>2
    <3>5. \A f \in Fingerprints \ orphans' : crash_index'[f] > 0 => Decided(f)'
      BY <2>2, <3>1, <3>2, <3>3 DEF Triaged
    <3>6. \A f \in Fingerprints \ orphans' : known_bad'[f] > 0 => Decided(f)'
      BY <2>2, <3>2, <3>3 DEF Triaged
    <3> QED
      BY <3>4, <3>5, <3>6 DEF Triaged
  <2>6. CASE first # 1
    <3>1. Len(stack) \in first..Len(stack)
      <4>1. \A n \in Nat \ {0} : n \in 1..n /\ n \in n..n
        OBVIOUS
      <4> QED
        BY <2>3, <4>1, Zenon
    <3>2. stack' = Popped(FALSE) /\ orphans \subseteq orphans'
      BY <2>1, <2>6
    <3> QED
      BY <2>2, <2>3, <2>4, <3>1, <3>2, PopKeepsTriaged
  <2> QED
    BY <2>5, <2>6
<1>4. CASE UNCHANGED vars
  BY <1>4 DEF vars, Triaged, Open, Decided
<1> QED
  BY <1>1, <1>2, <1>3, <1>4 DEF Next

-----------------------------------------------------------------------------
\* No trigger that an operator's own watch recorded is ever lost, though each run
\* saves the registry as it was before its follow-up ran.
THEOREM OwnTriggersAreKept == Spec => []TopLevelTriggersKept
<1>1. Init => OwnKept
  BY DEF Init, OwnKept
<1>2. TypeInv /\ Nest /\ OwnKept /\ [Next]_vars => OwnKept'
  BY OwnStep
<1>3. OwnKept => TopLevelTriggersKept
  BY DEF OwnKept, TopLevelTriggersKept
<1> QED
  BY <1>1, <1>2, <1>3, NestInvariant, PTL DEF Spec

\* No family is filed as known bad unless some run decided about it as a new one, or
\* was killed before it did, for any crashes and follow-ups.
THEOREM FamiliesAreTriaged == Spec => []NoFamilySkipsTriage
<1>1. Init => Triaged
  BY DEF Init, Triaged
<1>2. TypeInv /\ Nest /\ Triaged /\ [Next]_vars => Triaged'
  BY TriagedStep
<1>3. Triaged => NoFamilySkipsTriage
  BY DEF Triaged, Decided, NoFamilySkipsTriage
<1> QED
  BY <1>1, <1>2, <1>3, NestInvariant, PTL DEF Spec

-----------------------------------------------------------------------------
(* Crashes that were counted. *)

\* The runs of family f that are past the crash index.
Counts(r, f) == Indexed(r) /\ r.fp = f
Working(f) == {i \in DOMAIN stack : Counts(stack[i], f)}

\* A run has no family before the fuzzer has found one, and one when it is about to count it.
Accounted ==
  /\ \A f \in Fingerprints : crash_index[f] = lost[f] + Cardinality(Working(f)) + Entries(f)
  /\ \A i \in DOMAIN stack : /\ stack[i].pc = "begin" => stack[i].fp = NoFp
                             /\ stack[i].pc = "index" => stack[i].fp \in Fingerprints

LEMMA WorkingIsFinite ==
  ASSUME stack \in Seq(Runs)
  PROVE  \A f : IsFiniteSet(Working(f)) /\ Cardinality(Working(f)) \in Nat
<1>1. DOMAIN stack = 1 .. Len(stack) /\ Len(stack) \in Nat
  OBVIOUS
<1>2. IsFiniteSet(DOMAIN stack)
  BY <1>1, FS_Interval
<1>3. \A f : Working(f) \subseteq DOMAIN stack
  BY DEF Working
<1> QED
  BY <1>2, <1>3, FS_Subset, FS_CardinalityType

LEMMA EntriesType ==
  ASSUME run_history \in [EntryKinds -> Nat], NEW f \in Fingerprints
  PROVE  Entries(f) \in Nat
<1>1. [crash |-> TRUE, fp |-> f] \in EntryKinds /\ [crash |-> FALSE, fp |-> f] \in EntryKinds
  BY DEF EntryKinds
<1> QED
  BY <1>1 DEF Entries

\* A step of the last run that takes it neither to nor from the crash index.
LEMMA SameCounts ==
  ASSUME stack \in Seq(Runs), stack # <<>>, Accounted, NEW r, NextIs(r),
         \A f \in Fingerprints : Counts(r, f) <=> Counts(Top, f),
         r.pc = "begin" => r.fp = NoFp, r.pc = "index" => r.fp \in Fingerprints,
         UNCHANGED <<crash_index, run_history, lost>>
  PROVE  Accounted'
<1>1. /\ DOMAIN stack' = DOMAIN stack /\ stack'[Len(stack)] = r
      /\ \A i \in DOMAIN stack : i # Len(stack) => stack'[i] = stack[i]
  BY OnlyLastChanges
<1>2. Len(stack) \in DOMAIN stack /\ Top = stack[Len(stack)]
  BY DEF Top
<1>3. \A f \in Fingerprints : Working(f)' = Working(f)
  BY <1>1, <1>2 DEF Working
<1>4. \A f : Entries(f)' = Entries(f)
  BY DEF Entries
<1>5. \A i \in DOMAIN stack' : /\ stack'[i].pc = "begin" => stack'[i].fp = NoFp
                               /\ stack'[i].pc = "index" => stack'[i].fp \in Fingerprints
  BY <1>1, <1>2 DEF Accounted
<1> QED
  BY <1>3, <1>4, <1>5 DEF Accounted

LEMMA QuietKeepsCounts ==
  ASSUME stack \in Seq(Runs), stack # <<>>, Accounted, NEW r, NextIs(r), r.fp = Top.fp,
         Top.pc # "index", r.pc \notin {"begin", "index"},
         UNCHANGED <<crash_index, run_history, lost>>
  PROVE  Accounted'
<1>1. \A f \in Fingerprints : Counts(r, f) <=> Counts(Top, f)
  BY DEF Counts, Indexed
<1> QED
  BY <1>1, SameCounts

\* The last run leaves the stack: its family has one run less at work.
LEMMA PopCounts ==
  ASSUME stack \in Seq(Runs), stack # <<>>, Nest, Accounted, NEW exit \in BOOLEAN,
         stack' = Popped(exit)
  PROVE  /\ \A f \in Fingerprints :
              Cardinality(Working(f)')
                = IF Counts(Top, f) THEN Cardinality(Working(f)) - 1 ELSE Cardinality(Working(f))
         /\ \A i \in DOMAIN stack' : stack'[i].pc \notin {"begin", "index"}
<1>1. /\ DOMAIN stack' = 1..(Len(stack) - 1)
      /\ \A i \in DOMAIN stack' :
           /\ i \in DOMAIN stack /\ i # Len(stack)
           /\ stack'[i].fp = stack[i].fp
           /\ stack'[i].pc \in {"followup", "return"}
  BY ParentReturns
<1>2. /\ Len(stack) \in DOMAIN stack /\ Top = stack[Len(stack)]
      /\ \A i \in DOMAIN stack : i # Len(stack) => stack[i].pc = "followup"
      /\ DOMAIN stack = 1..Len(stack) /\ Len(stack) \in Nat \ {0}
  BY LastRun
<1>3. \A i \in DOMAIN stack : i # Len(stack) => i \in DOMAIN stack'
  BY <1>1, <1>2, Intervals
<1>4. \A i \in DOMAIN stack', f \in Fingerprints : Counts(stack'[i], f) <=> Counts(stack[i], f)
  BY <1>1, <1>2 DEF Counts, Indexed
<1>5. \A f \in Fingerprints : Working(f)' = Working(f) \ {Len(stack)}
  BY <1>1, <1>3, <1>4 DEF Working
<1>6. \A f \in Fingerprints : Len(stack) \in Working(f) <=> Counts(Top, f)
  BY <1>2 DEF Working
<1>7. ASSUME NEW f \in Fingerprints
      PROVE  Cardinality(Working(f)')
               = IF Counts(Top, f) THEN Cardinality(Working(f)) - 1 ELSE Cardinality(Working(f))
  <2>1. IsFiniteSet(Working(f))
    BY WorkingIsFinite
  <2> QED
    BY <1>5, <1>6, <2>1, FS_RemoveElement
<1> QED
  BY <1>1, <1>7

\* The entry a run appends is one of its family.
LEMMA AppendedEntry ==
  ASSUME run_history \in [EntryKinds -> Nat], NEW r \in Runs,
         run_history' = append_run_history(run_history, r), NEW f \in Fingerprints
  PROVE  Entries(f)' = IF r.fp = f THEN Entries(f) + 1 ELSE Entries(f)
<1> DEFINE e(b) == [crash |-> b, fp |-> f]
           k == [crash |-> r.outcome = "crash", fp |-> r.fp]
<1>1. e(TRUE) \in EntryKinds /\ e(FALSE) \in EntryKinds /\ e(TRUE) # e(FALSE)
  BY DEF EntryKinds
<1>2. k \in EntryKinds /\ (r.fp # f => k # e(TRUE) /\ k # e(FALSE))
      /\ (r.fp = f => k = e(TRUE) \/ k = e(FALSE))
  <2>1. r.fp \in Fingerprints \cup {NoFp} /\ (r.outcome = "crash") \in BOOLEAN
    BY DEF Runs
  <2>2. \A b \in BOOLEAN : \A g : g \in Fingerprints \cup {NoFp} => [crash |-> b, fp |-> g] \in EntryKinds
    BY DEF EntryKinds
  <2>3. \A b \in BOOLEAN : \A g : g # f => [crash |-> b, fp |-> g] # e(TRUE) /\ [crash |-> b, fp |-> g] # e(FALSE)
    OBVIOUS
  <2>4. \A b \in BOOLEAN : b = TRUE \/ b = FALSE
    OBVIOUS
  <2> HIDE DEF e
  <2>5. \A b \in BOOLEAN : [crash |-> b, fp |-> f] = e(TRUE) \/ [crash |-> b, fp |-> f] = e(FALSE)
    BY <2>4 DEF e
  <2>6. k \in EntryKinds
    BY <2>1, <2>2, Zenon
  <2>7. r.fp # f => k # e(TRUE) /\ k # e(FALSE)
    BY <2>1, <2>3, Zenon
  <2>8. r.fp = f => k = e(TRUE) \/ k = e(FALSE)
    BY <2>1, <2>5, Zenon
  <2> QED
    BY <2>6, <2>7, <2>8
<1>3. run_history' = [run_history EXCEPT ![k] = @ + 1]
  BY DEF append_run_history
<1>4. Entries(f) = run_history[e(TRUE)] + run_history[e(FALSE)]
      /\ Entries(f)' = run_history'[e(TRUE)] + run_history'[e(FALSE)]
  BY DEF Entries
<1> HIDE DEF e, k
<1>5. /\ run_history'[k] = run_history[k] + 1
      /\ \A d \in EntryKinds : d # k => run_history'[d] = run_history[d]
      /\ \A d \in EntryKinds : run_history[d] \in Nat
  BY <1>2, <1>3
<1> DEFINE T == run_history[e(TRUE)]
           F == run_history[e(FALSE)]
           T1 == run_history'[e(TRUE)]
           F1 == run_history'[e(FALSE)]
<1>6. T \in Nat /\ F \in Nat
  BY <1>1, <1>5
<1>7. CASE r.fp # f
  <2>1. T1 = T /\ F1 = F
    BY <1>1, <1>2, <1>5, <1>7
  <2> QED
    BY <1>4, <1>7, <2>1
<1>8. CASE r.fp = f
  <2>1. (T1 = T + 1 /\ F1 = F) \/ (T1 = T /\ F1 = F + 1)
    <3>1. CASE k = e(TRUE)
      BY <1>1, <1>5, <3>1
    <3>2. CASE k = e(FALSE)
      BY <1>1, <1>5, <3>2
    <3> QED
      BY <1>2, <1>8, <3>1, <3>2
  <2> HIDE DEF T, F, T1, F1
  <2>2. T1 + F1 = T + F + 1
    BY <1>6, <2>1
  <2>3. Entries(f) = T + F /\ Entries(f)' = T1 + F1
    BY <1>4 DEF T, F, T1, F1
  <2> QED
    BY <1>8, <2>2, <2>3
<1> QED
  BY <1>7, <1>8

\* update_crash_index: the run is past the index from now on.
LEMMA CountedOnce ==
  ASSUME TypeInv, Accounted, update_crash_index
  PROVE  Accounted'
<1>1. /\ stack \in Seq(Runs) /\ stack # <<>> /\ crash_index \in [Fingerprints -> Nat]
      /\ lost \in [Fingerprints -> Nat] /\ run_history \in [EntryKinds -> Nat]
  BY DEF TypeInv, TypeOK, update_crash_index, Running
<1> DEFINE n == Len(stack)
           r == [Top EXCEPT !.dup = crash_index[Top.fp] > 0, !.pc = "policy"]
<1>2. n \in DOMAIN stack /\ Top = stack[n] /\ Top \in Runs /\ Top.pc = "index"
  BY <1>1, TopType DEF Top, update_crash_index, Running
<1>3. NextIs(r) /\ crash_index' = [crash_index EXCEPT ![Top.fp] = @ + 1]
      /\ UNCHANGED <<run_history, lost>>
  BY Zenon DEF update_crash_index
<1>4. r.fp = Top.fp /\ r.pc = "policy"
  BY <1>2 DEF Runs
<1>5. Top.fp \in Fingerprints
  BY <1>2 DEF Accounted
<1> HIDE DEF r
<1>6. /\ DOMAIN stack' = DOMAIN stack /\ stack'[n] = r
      /\ \A i \in DOMAIN stack : i # n => stack'[i] = stack[i]
  BY <1>1, <1>3, OnlyLastChanges
<1>7. Top.fp # NoFp
  BY <1>5, WatchAssumption
<1>8. \A f \in Fingerprints : ~ Counts(Top, f) /\ (Counts(r, f) <=> f = Top.fp)
  BY <1>2, <1>4, <1>7 DEF Counts, Indexed
<1>9. \A f \in Fingerprints : n \notin Working(f)
        /\ Working(f)' = IF f = Top.fp THEN Working(f) \cup {n} ELSE Working(f)
  BY <1>2, <1>6, <1>8 DEF Working
<1> HIDE DEF n
<1>10. \A f \in Fingerprints :
         Cardinality(Working(f)') = Cardinality(Working(f)) + (IF f = Top.fp THEN 1 ELSE 0)
  <2> SUFFICES ASSUME NEW f \in Fingerprints
               PROVE  Cardinality(Working(f)') = Cardinality(Working(f)) + (IF f = Top.fp THEN 1 ELSE 0)
    OBVIOUS
  <2>1. IsFiniteSet(Working(f)) /\ Cardinality(Working(f)) \in Nat
    BY <1>1, WorkingIsFinite
  <2>2. CASE f = Top.fp
    BY <1>9, <2>1, <2>2, FS_AddElement
  <2>3. CASE f # Top.fp
    BY <1>9, <2>1, <2>3
  <2> QED
    BY <2>2, <2>3
<1>11. \A f : Entries(f)' = Entries(f)
  BY <1>3 DEF Entries
<1>12. ASSUME NEW f \in Fingerprints
       PROVE  crash_index'[f] = lost'[f] + Cardinality(Working(f)') + Entries(f)'
  <2>1. Cardinality(Working(f)) \in Nat /\ Entries(f) \in Nat /\ lost[f] \in Nat /\ crash_index[f] \in Nat
    BY <1>1, WorkingIsFinite, EntriesType
  <2>2. crash_index'[f] = crash_index[f] + (IF f = Top.fp THEN 1 ELSE 0) /\ lost'[f] = lost[f]
    BY <1>1, <1>3
  <2>3. crash_index[f] = lost[f] + Cardinality(Working(f)) + Entries(f)
    BY DEF Accounted
  <2> QED
    BY <1>10, <1>11, <2>1, <2>2, <2>3
<1>13. \A i \in DOMAIN stack' : /\ stack'[i].pc = "begin" => stack'[i].fp = NoFp
                                /\ stack'[i].pc = "index" => stack'[i].fp \in Fingerprints
  BY <1>4, <1>6 DEF Accounted
<1>14. \A f \in Fingerprints : crash_index'[f] = lost'[f] + Cardinality(Working(f)') + Entries(f)'
  BY <1>12
<1> QED
  BY <1>13, <1>14 DEF Accounted

\* The end of a run appends its entry.
LEMMA FinishCounts ==
  ASSUME TypeInv, Nest, Accounted, Finish
  PROVE  Accounted'
<1>1. /\ stack \in Seq(Runs) /\ stack # <<>> /\ crash_index \in [Fingerprints -> Nat]
      /\ lost \in [Fingerprints -> Nat] /\ run_history \in [EntryKinds -> Nat]
  BY DEF TypeInv, TypeOK, Finish, Running
<1>2. Top \in Runs /\ Top.pc = "finish"
  BY <1>1, TopType DEF Top, Finish, Running
<1> DEFINE exit == Top.outcome \in {"ok", "no-progress"}
<1>3. exit \in BOOLEAN /\ stack' = Popped(exit)
      /\ run_history' = append_run_history(run_history, Top) /\ UNCHANGED <<crash_index, lost>>
  BY DEF Finish
<1> HIDE DEF exit
<1>4. /\ \A f \in Fingerprints :
           Cardinality(Working(f)')
             = IF Counts(Top, f) THEN Cardinality(Working(f)) - 1 ELSE Cardinality(Working(f))
      /\ \A i \in DOMAIN stack' : stack'[i].pc \notin {"begin", "index"}
  BY <1>1, <1>3, PopCounts
<1>5. \A f \in Fingerprints : Counts(Top, f) <=> Top.fp = f
  BY <1>2, WatchAssumption DEF Counts, Indexed
<1>6. \A f \in Fingerprints : Entries(f)' = IF Top.fp = f THEN Entries(f) + 1 ELSE Entries(f)
  BY <1>1, <1>2, <1>3, AppendedEntry
<1>7. ASSUME NEW f \in Fingerprints
      PROVE  crash_index'[f] = lost'[f] + Cardinality(Working(f)') + Entries(f)'
  <2>1. Cardinality(Working(f)) \in Nat /\ Entries(f) \in Nat /\ lost[f] \in Nat /\ crash_index[f] \in Nat
    BY <1>1, WorkingIsFinite, EntriesType
  <2>2. crash_index[f] = lost[f] + Cardinality(Working(f)) + Entries(f)
    BY DEF Accounted
  <2> QED
    BY <1>3, <1>4, <1>5, <1>6, <2>1, <2>2
<1>8. \A f \in Fingerprints : crash_index'[f] = lost'[f] + Cardinality(Working(f)') + Entries(f)'
  BY <1>7
<1> QED
  BY <1>4, <1>8 DEF Accounted

\* A kill, of all runs or of the last, counts those it cuts short as lost.
LEMMA KillCounts ==
  ASSUME TypeInv, Nest, Accounted, Kill
  PROVE  Accounted'
<1> DEFINE C(first, f) == Cardinality({i \in first..Len(stack) : Indexed(stack[i]) /\ stack[i].fp = f})
<1>1. /\ stack \in Seq(Runs) /\ stack # <<>> /\ crash_index \in [Fingerprints -> Nat]
      /\ lost \in [Fingerprints -> Nat] /\ run_history \in [EntryKinds -> Nat]
  BY DEF TypeInv, TypeOK, Kill
<1>2. /\ Len(stack) \in DOMAIN stack /\ Top = stack[Len(stack)]
      /\ DOMAIN stack = 1..Len(stack) /\ Len(stack) \in Nat \ {0}
  BY <1>1, LastRun
<1>3. PICK first \in {1, Len(stack)} :
        /\ stack' = IF first = 1 THEN <<>> ELSE Popped(FALSE)
        /\ lost' = [f \in Fingerprints |-> lost[f] + C(first, f)]
  BY Zenon DEF Kill
<1>4. UNCHANGED <<crash_index, run_history>>
  BY DEF Kill
<1>5. \A f : Entries(f)' = Entries(f)
  BY <1>4 DEF Entries
<1>6. \A f \in Fingerprints : Cardinality(Working(f)) \in Nat
  BY <1>1, WorkingIsFinite
<1>7. \A f \in Fingerprints :
        Cardinality(Working(f)') = Cardinality(Working(f)) - C(first, f) /\ C(first, f) \in Nat
  <2>1. CASE first = 1
    <3>1. stack' = <<>>
      BY <1>3, <2>1
    <3>2. \A f : Working(f)' = {}
      BY <3>1 DEF Working
    <3>3. \A f : C(1, f) = Cardinality(Working(f))
      BY <1>2 DEF Working, Counts
    <3> HIDE DEF C
    <3> QED
      BY <1>6, <2>1, <3>2, <3>3, FS_EmptySet
  <2>2. CASE first # 1
    <3>1. first = Len(stack) /\ stack' = Popped(FALSE)
      BY <1>3, <2>2
    <3>2. \A f \in Fingerprints :
            Cardinality(Working(f)')
              = IF Counts(Top, f) THEN Cardinality(Working(f)) - 1 ELSE Cardinality(Working(f))
      BY <1>1, <3>1, PopCounts
    <3>3. \A f \in Fingerprints : C(first, f) = IF Counts(Top, f) THEN 1 ELSE 0
      <4> SUFFICES ASSUME NEW f \in Fingerprints
                   PROVE  C(first, f) = IF Counts(Top, f) THEN 1 ELSE 0
        OBVIOUS
      <4> DEFINE S == {i \in first..Len(stack) : Indexed(stack[i]) /\ stack[i].fp = f}
      <4>1. first..Len(stack) = {Len(stack)}
        BY <1>2, <3>1
      <4>2. S = IF Counts(Top, f) THEN {Len(stack)} ELSE {}
        BY <1>2, <4>1 DEF Counts
      <4> HIDE DEF S
      <4>3. Cardinality(S) = IF Counts(Top, f) THEN 1 ELSE 0
        BY <4>2, FS_Singleton, FS_EmptySet
      <4> QED
        BY <4>3 DEF S
    <3> HIDE DEF C
    <3> QED
      BY <1>6, <3>2, <3>3
  <2> QED
    BY <2>1, <2>2
<1>8. \A i \in DOMAIN stack' : stack'[i].pc \notin {"begin", "index"}
  <2>1. CASE first = 1
    BY <1>3, <2>1
  <2>2. CASE first # 1
    BY <1>1, <1>3, <2>2, PopCounts
  <2> QED
    BY <2>1, <2>2
<1> HIDE DEF C
<1>9. ASSUME NEW f \in Fingerprints
      PROVE  crash_index'[f] = lost'[f] + Cardinality(Working(f)') + Entries(f)'
  <2>1. Entries(f) \in Nat /\ lost[f] \in Nat /\ crash_index[f] \in Nat
    BY <1>1, EntriesType
  <2>2. crash_index[f] = lost[f] + Cardinality(Working(f)) + Entries(f)
    BY DEF Accounted
  <2>3. lost'[f] = lost[f] + C(first, f)
    BY <1>3
  <2> QED
    BY <1>4, <1>5, <1>6, <1>7, <2>1, <2>2, <2>3
<1>10. \A f \in Fingerprints : crash_index'[f] = lost'[f] + Cardinality(Working(f)') + Entries(f)'
  BY <1>9
<1> QED
  BY <1>8, <1>10 DEF Accounted

\* A follow-up begins without a family, and its parent waits with its own.
LEMMA FollowUpCounts ==
  ASSUME TypeInv, Nest, Accounted, Running("next"), NEW k \in Keys, StartFollowUp(k),
         UNCHANGED <<crash_index, run_history, lost>>
  PROVE  Accounted'
<1>1. /\ stack \in Seq(Runs) /\ stack # <<>> /\ triggers \in Registries
      /\ run_history \in [EntryKinds -> Nat]
  BY DEF TypeInv, TypeOK, Running
<1> DEFINE n == Len(stack)
           mode == followup_mode[k.reason]
           child == NewRun(mode, Smoked(mode))
           parent == [Top EXCEPT !.key = k, !.data = triggers, !.pc = "followup"]
<1>2. /\ n \in DOMAIN stack /\ Top = stack[n] /\ Top \in Runs /\ Top.pc = "next"
      /\ DOMAIN stack = 1..n /\ n \in Nat \ {0}
  BY <1>1, LastRun DEF Running
<1>3. child.pc = "begin" /\ child.fp = NoFp
  BY DEF NewRun
<1>4. parent.pc = "followup" /\ parent.fp = Top.fp
  BY <1>2 DEF Runs
<1>5. stack' = [stack EXCEPT ![n] = parent] \o <<child>>
  BY DEF StartFollowUp
<1>6. stack' \in Seq(Runs) /\ Len(stack') = n + 1
  BY <1>1, StartFollowUpType
<1> HIDE DEF child, parent
<1>7. DOMAIN stack' = 1..(n + 1)
  <2>1. \A s \in Seq(Runs) : DOMAIN s = 1..Len(s)
    OBVIOUS
  <2> QED
    BY <1>6, <2>1, Zenon
<1>8. /\ stack'[n + 1] = child /\ stack'[n] = parent
      /\ \A i \in DOMAIN stack : i # n => stack'[i] = stack[i]
  <2> DEFINE s == [stack EXCEPT ![n] = parent]
  <2>1. /\ Len(s) = n /\ DOMAIN s = 1..n /\ s[n] = parent
        /\ \A i \in DOMAIN stack : i # n => s[i] = stack[i]
    BY <1>1, <1>2
  <2>2. stack' = s \o <<child>>
    BY <1>5
  <2>a. s \in Seq(Runs \cup {parent})
    BY <1>1
  <2> HIDE DEF s, n
  <2>3. \A i \in 1..n : (s \o <<child>>)[i] = s[i]
    BY <1>2, <2>1, <2>a
  <2>4. (s \o <<child>>)[n + 1] = child
    BY <1>2, <2>1, <2>a
  <2> QED
    BY <1>2, <2>1, <2>2, <2>3, <2>4
<1> HIDE DEF n
<1>9. \A i \in DOMAIN stack' : i = n + 1 \/ i \in DOMAIN stack
  BY <1>2, <1>7
<1>10. DOMAIN stack \subseteq DOMAIN stack' /\ n + 1 \notin DOMAIN stack
  BY <1>2, <1>7
<1>11. \A f \in Fingerprints : ~ Counts(child, f) /\ (Counts(parent, f) <=> Counts(Top, f))
  BY <1>2, <1>3, <1>4, WatchAssumption DEF Counts, Indexed
<1>12. \A i \in DOMAIN stack, f \in Fingerprints : Counts(stack'[i], f) <=> Counts(stack[i], f)
  BY <1>2, <1>8, <1>11
<1>13. \A f \in Fingerprints : Working(f)' = Working(f)
  BY <1>8, <1>9, <1>10, <1>11, <1>12 DEF Working
<1>14. \A f : Entries(f)' = Entries(f)
  BY DEF Entries
<1>15. \A i \in DOMAIN stack' : /\ stack'[i].pc = "begin" => stack'[i].fp = NoFp
                                /\ stack'[i].pc = "index" => stack'[i].fp \in Fingerprints
  <2> SUFFICES ASSUME NEW i \in DOMAIN stack'
               PROVE  /\ stack'[i].pc = "begin" => stack'[i].fp = NoFp
                      /\ stack'[i].pc = "index" => stack'[i].fp \in Fingerprints
    OBVIOUS
  <2>1. CASE i = n + 1
    BY <1>3, <1>8, <2>1
  <2>2. CASE i = n
    BY <1>4, <1>8, <2>2
  <2>3. CASE i \in DOMAIN stack /\ i # n
    BY <1>8, <2>3 DEF Accounted
  <2> QED
    BY <1>9, <2>1, <2>2, <2>3
<1> QED
  BY <1>13, <1>14, <1>15 DEF Accounted

LEMMA RunStepCounts ==
  ASSUME TypeInv, Nest, Accounted, RunStep
  PROVE  Accounted'
<1>1. stack \in Seq(Runs)
  BY DEF TypeInv, TypeOK
<1>2. stack # <<>>
  BY DEF RunStep, Running, BuildFails, SmokeFails, Fuzz, update_crash_index, LogPolicy,
         FileKnownBad, FileCandidate, record_regression_trigger,
         execute_next_regression_trigger, SaveFollowUp, Finish
<1>3. Len(stack) \in DOMAIN stack /\ Top = stack[Len(stack)] /\ Top \in Runs
  BY <1>1, <1>2, LastRun
<1> DEFINE Quiet(r) == /\ NextIs(r) /\ r.fp = Top.fp /\ r.pc \notin {"begin", "index"}
                       /\ Top.pc # "index" /\ UNCHANGED <<crash_index, run_history, lost>>
<1>q. ASSUME NEW r, Quiet(r) PROVE Accounted'
  BY <1>1, <1>2, <1>q, QuietKeepsCounts
<1>4. CASE BuildFails
  <2>1. Quiet([Top EXCEPT !.outcome = "build-failed", !.pc = "policy"])
    BY <1>3, <1>4 DEF BuildFails, Runs, Running
  <2> QED
    BY <1>q, <2>1
<1>5. CASE SmokeFails
  <2>1. PICK seed \in Seeds \cup {NoSeed} :
          NextIs([Top EXCEPT !.outcome = "smoke-failed", !.seed = seed, !.pc = "policy"])
    BY <1>5 DEF SmokeFails
  <2>2. Quiet([Top EXCEPT !.outcome = "smoke-failed", !.seed = seed, !.pc = "policy"])
    BY <1>3, <1>5, <2>1 DEF SmokeFails, Runs, Running
  <2> QED
    BY <1>q, <2>2
<1>6. CASE Fuzz
  <2>1. Top.pc = "begin" /\ Top.fp = NoFp /\ UNCHANGED <<crash_index, run_history, lost>>
    BY <1>3, <1>6 DEF Fuzz, Running, Accounted
  <2>2. CASE \E outcome \in {"ok", "no-progress", "fuzzer-exit-nonzero"} :
               NextIs([Top EXCEPT !.outcome = outcome, !.pc = "policy"])
    <3>1. PICK outcome : NextIs([Top EXCEPT !.outcome = outcome, !.pc = "policy"])
      BY <2>2
    <3>2. Quiet([Top EXCEPT !.outcome = outcome, !.pc = "policy"])
      BY <1>3, <2>1, <3>1 DEF Runs
    <3> QED
      BY <1>q, <3>2
  <2>3. CASE \E fp \in Fingerprints, outcome \in {"crash", "timeout"} :
               NextIs([Top EXCEPT !.outcome = outcome, !.fp = fp, !.pc = "index"])
    <3>1. PICK fp \in Fingerprints, outcome \in {"crash", "timeout"} :
            NextIs([Top EXCEPT !.outcome = outcome, !.fp = fp, !.pc = "index"])
      BY <2>3
    <3> DEFINE r == [Top EXCEPT !.outcome = outcome, !.fp = fp, !.pc = "index"]
    <3>2. NextIs(r) /\ r.pc = "index" /\ r.fp = fp
      BY <1>3, <3>1 DEF Runs
    <3> HIDE DEF r
    <3>3. \A f \in Fingerprints : ~ Counts(r, f) /\ ~ Counts(Top, f)
      BY <2>1, <3>2, WatchAssumption DEF Counts, Indexed
    <3> QED
      BY <1>1, <1>2, <2>1, <3>2, <3>3, SameCounts
  <2> QED
    BY <1>6, <2>2, <2>3 DEF Fuzz
<1>7. CASE LogPolicy
  <2>1. PICK code : NextIs([Top EXCEPT !.action = code, !.pc = SaveOf(code)])
    BY <1>7 DEF LogPolicy
  <2>2. SaveOf(code) \notin {"begin", "index"}
    BY DEF SaveOf
  <2>3. Quiet([Top EXCEPT !.action = code, !.pc = SaveOf(code)])
    <3>1. /\ [Top EXCEPT !.action = code, !.pc = SaveOf(code)].fp = Top.fp
          /\ [Top EXCEPT !.action = code, !.pc = SaveOf(code)].pc = SaveOf(code)
      BY <1>3 DEF Runs
    <3>2. Top.pc # "index" /\ UNCHANGED <<crash_index, run_history, lost>>
      BY <1>3, <1>7 DEF LogPolicy, Running
    <3> QED
      BY <2>1, <2>2, <3>1, <3>2
  <2> QED
    BY <1>q, <2>3
<1>8. CASE FileKnownBad
  <2>1. Quiet([Top EXCEPT !.pc = "finish"])
    BY <1>3, <1>8 DEF FileKnownBad, Runs, Running
  <2> QED
    BY <1>q, <2>1
<1>9. CASE FileCandidate
  <2>1. Quiet([Top EXCEPT !.pc = "trigger"])
    BY <1>3, <1>9 DEF FileCandidate, Runs, Running
  <2> QED
    BY <1>q, <2>1
<1>10. CASE record_regression_trigger
  <2>1. Quiet([Top EXCEPT !.pc = "next"])
    BY <1>3, <1>10 DEF record_regression_trigger, Runs, Running
  <2> QED
    BY <1>q, <2>1
<1>11. CASE SaveFollowUp
  <2>1. Quiet([Top EXCEPT !.pc = "finish"])
    BY <1>3, <1>11 DEF SaveFollowUp, Runs, Running
  <2> QED
    BY <1>q, <2>1
<1>12. CASE execute_next_regression_trigger
  <2>1. Running("next") /\ UNCHANGED <<crash_index, run_history, lost>>
    BY <1>12 DEF execute_next_regression_trigger
  <2>2. PICK k \in most_urgent : Skip(k) \/ StartFollowUp(k)
    BY <1>12 DEF execute_next_regression_trigger
  <2>3. k \in Keys
    BY DEF most_urgent, Pending
  <2>4. CASE Skip(k)
    <3>1. Quiet([Top EXCEPT !.pc = "finish"])
      BY <1>3, <2>1, <2>4 DEF Skip, Runs, Running
    <3> QED
      BY <1>q, <3>1
  <2>5. CASE StartFollowUp(k)
    BY <2>1, <2>3, <2>5, FollowUpCounts
  <2> QED
    BY <2>2, <2>4, <2>5
<1> QED
  BY <1>4, <1>5, <1>6, <1>7, <1>8, <1>9, <1>10, <1>11, <1>12, CountedOnce, FinishCounts DEF RunStep

LEMMA AccountedStep ==
  ASSUME TypeInv, Nest, Accounted, [Next]_vars
  PROVE  Accounted'
<1>1. CASE StartWatch
  <2>1. PICK mode \in Modes, smoke \in BOOLEAN : stack' = <<NewRun(mode, smoke)>>
    BY <1>1 DEF StartWatch
  <2> DEFINE r == NewRun(mode, smoke)
  <2>2. r.fp = NoFp /\ r.pc = "begin"
    BY DEF NewRun
  <2>3. stack' = <<r>>
    BY <2>1
  <2> HIDE DEF r
  <2>4. DOMAIN stack' = {1} /\ stack'[1] = r
    BY <2>3
  <2>5. stack = <<>> /\ UNCHANGED <<crash_index, run_history, lost>>
    BY <1>1 DEF StartWatch
  <2>6. \A f \in Fingerprints : Working(f) = {} /\ Working(f)' = {}
    BY <2>2, <2>4, <2>5, WatchAssumption DEF Working, Counts
  <2>7. \A f : Entries(f)' = Entries(f)
    BY <2>5 DEF Entries
  <2> QED
    BY <2>2, <2>4, <2>5, <2>6, <2>7 DEF Accounted
<1>2. CASE RunStep
  BY <1>2, RunStepCounts
<1>3. CASE Kill
  BY <1>3, KillCounts
<1>4. CASE UNCHANGED vars
  <2>1. UNCHANGED <<stack, crash_index, run_history, lost>>
    BY <1>4 DEF vars
  <2>2. \A f : Entries(f)' = Entries(f) /\ Working(f)' = Working(f)
    BY <2>1 DEF Entries, Working
  <2> QED
    BY <2>1, <2>2 DEF Accounted
<1> QED
  BY <1>1, <1>2, <1>3, <1>4 DEF Next

\* Each occurrence in the crash index has its entry in the history, or a run still at work
\* on it, or was killed: nested runs, which append to both files while the outer ones wait,
\* lose none and count none twice.
THEOREM CrashesAreAccounted == Spec => []CrashesAccounted
<1>1. Init => Accounted
  <2> SUFFICES ASSUME Init PROVE Accounted
    OBVIOUS
  <2>1. /\ stack = <<>> /\ \A f \in Fingerprints : crash_index[f] = 0 /\ lost[f] = 0
        /\ run_history = [e \in EntryKinds |-> 0]
    BY DEF Init
  <2>2. \A f \in Fingerprints : Cardinality(Working(f)) = 0
    BY <2>1, FS_EmptySet DEF Working
  <2>3. \A f \in Fingerprints : Entries(f) = 0
    <3> SUFFICES ASSUME NEW f \in Fingerprints PROVE Entries(f) = 0
      OBVIOUS
    <3>1. [crash |-> TRUE, fp |-> f] \in EntryKinds /\ [crash |-> FALSE, fp |-> f] \in EntryKinds
      BY DEF EntryKinds
    <3> QED
      BY <2>1, <3>1 DEF Entries
  <2> QED
    BY <2>1, <2>2, <2>3 DEF Accounted
<1>2. TypeInv /\ Nest /\ Accounted /\ [Next]_vars => Accounted'
  BY AccountedStep
<1>3. Accounted => CrashesAccounted
  BY DEF Accounted, CrashesAccounted, Working, Counts
<1> QED
  BY <1>1, <1>2, <1>3, NestInvariant, PTL DEF Spec
=============================================================================
