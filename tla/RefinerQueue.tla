---------------------------- MODULE RefinerQueue ----------------------------
(***************************************************************************)
(* The refiner queue of Hermes watch (scripts/hermes_watch.py): follow-up  *)
(* work recorded in JSON registries and moved, one command at a time, from *)
(* recorded to prepared, dispatched, bridged, launched, verified and, when *)
(* verification fails, retried or escalated.                               *)
(*                                                                         *)
(* Two processes write the registries without a lock: the watcher records  *)
(* entries while it fuzzes, the operator runs the commands.  Each of them  *)
(* loads whole registries, changes one entry and saves the whole registry, *)
(* a load and a save being two steps: what the other process saved in      *)
(* between is undone.  The finder of a command reads all registries, in    *)
(* one step here, and writes all of them back, in another, before the      *)
(* command goes on with the entry it found.  A save replaces the file at   *)
(* once, so a crash falls between two saves.                               *)
(*                                                                         *)
(* Which of several matching entries a command takes depends on weights    *)
(* computed from the history of runs: any may be taken.  Queue weights,    *)
(* paths, timestamps and the registry of harness candidates are left out.  *)
(***************************************************************************)
EXTENDS Integers, Sequences

CONSTANTS
  Key,          \* the keys of entries
  Reg,          \* key -> registry file it belongs to
  FollowUp,     \* key -> key of the corpus refinement its replay leads to
  Review,       \* keys of review_duplicate_crash_replay entries
  Evidence,     \* keys queued from the latest evidence packet
  Unpoliced,    \* registries find_verification_policy_candidate omits
  Commands,     \* bound: the commands the operator runs, besides queueing evidence
  MaxCrashes,   \* bound: crashes of the operator
  MaxRevivals,  \* bound: revivals of failed entries
  MaxRecords    \* bound: entries the watcher records, or records again

\* The commands that take an entry select_refiner_registry_entry found for them.
Finders == {"execute", "dispatch", "bridge", "launch", "verify"}

ASSUME QueueAssumption ==
  /\ Review \subseteq Key /\ Evidence \subseteq Key
  /\ FollowUp \in [Review -> Key]
  \* The replay follow-up goes to corpus_refinements.json, the review lives in
  \* duplicate_crash_reviews.json.
  /\ \A r \in Review : Reg[FollowUp[r]] # Reg[r]
  /\ Commands \subseteq Finders \cup {"policy"}
  /\ MaxCrashes \in Nat /\ MaxRevivals \in Nat /\ MaxRecords \in Nat

VARIABLES
  queue,     \* key -> its entry on disk, or Absent
  op,        \* the operator: its command, how far it is, its entry, what it loaded
  rec,       \* the watcher: the entry it records and what it loaded
  crashes, revivals, records,   \* counted for the bounds
  starts     \* key -> times its bridge script was started, see LaunchedOnce (history)

vars == <<queue, op, rec, crashes, revivals, records, starts>>
bounded == <<crashes, revivals, records>>

Absent == [status |-> "absent", orchestration |-> "", dispatch |-> "", bridge |-> "",
           launch |-> "", verification |-> "", policy |-> "", retry_count |-> 0,
           lifecycle |-> ""]

\* An entry as record_refiner_entry finds it: "" stands for a missing field, and a
\* missing status counts as "recorded".
NewEntry == [Absent EXCEPT !.status = "recorded"]

Idle == [command |-> "none"]

-----------------------------------------------------------------------------
(* derive_refiner_lifecycle: the first status that is set, in this order. *)

\* Mutant: bridge_status is looked at before launch_status.
derive_bridge_first(e) ==
  IF e.policy = "escalate" THEN "escalated"
  ELSE IF e.policy = "retry" THEN "retry_requested"
  ELSE IF e.verification = "verified" THEN "verified"
  ELSE IF e.verification = "unverified" THEN "verification_failed"
  ELSE IF e.bridge = "armed" THEN "bridge_armed"
  ELSE IF e.bridge = "failed" THEN "bridge_failed"
  ELSE IF e.bridge = "succeeded" THEN "launch_succeeded"
  ELSE IF e.launch = "succeeded" THEN "launch_succeeded"
  ELSE IF e.launch = "failed" THEN "launch_failed"
  ELSE IF e.dispatch = "ready" THEN "dispatch_ready"
  ELSE IF e.orchestration = "prepared" THEN "orchestration_prepared"
  ELSE IF e.status = "recorded" THEN "queued"
  ELSE IF e.status = "completed" THEN "planned"
  ELSE "unknown"

derive_refiner_lifecycle(e) ==
  IF e.policy = "escalate" THEN "escalated"
  ELSE IF e.policy = "retry" THEN "retry_requested"
  ELSE IF e.verification = "verified" THEN "verified"
  ELSE IF e.verification = "unverified" THEN "verification_failed"
  ELSE IF e.launch = "succeeded" THEN "launch_succeeded"
  ELSE IF e.launch = "failed" THEN "launch_failed"
  ELSE IF e.bridge = "armed" THEN "bridge_armed"
  ELSE IF e.bridge = "failed" THEN "bridge_failed"
  ELSE IF e.bridge = "succeeded" THEN "launch_succeeded"
  ELSE IF e.dispatch = "ready" THEN "dispatch_ready"
  ELSE IF e.orchestration = "prepared" THEN "orchestration_prepared"
  ELSE IF e.status = "recorded" THEN "queued"
  ELSE IF e.status = "completed" THEN "planned"
  ELSE "unknown"

sync_refiner_lifecycle(e) == [e EXCEPT !.lifecycle = derive_refiner_lifecycle(e)]

-----------------------------------------------------------------------------
(* The finders: which entries a command may take. *)

\* Mutants: a bridge is armed whatever became of its launch; a result is verifiable
\* once it has been bridged.
ArmedAgain(e)  == e.bridge = "armed"
BridgedIsVerifiable(e) == e.bridge # "" /\ e.verification = ""

Pending(e)    == e.status = "recorded"
Prepared(e)   == e.orchestration = "prepared" /\ e.dispatch = ""
Ready(e)      == e.dispatch = "ready" /\ e.bridge # "armed"
Armed(e)      == e.bridge = "armed" /\ e.launch = ""
Verifiable(e) == e.bridge = "succeeded" /\ e.verification = ""
PolicyCandidate(k, e) ==
  /\ e.verification = "unverified" /\ e.policy = ""
  /\ Reg[k] \notin Unpoliced

Takes(c, e) ==
  \/ c = "execute"  /\ Pending(e)
  \/ c = "dispatch" /\ Prepared(e)
  \/ c = "bridge"   /\ Ready(e)
  \/ c = "launch"   /\ Armed(e)
  \/ c = "verify"   /\ Verifiable(e)

Registries == {Reg[k] : k \in Key}
KeysOf(R) == {k \in Key : Reg[k] \in R}

\* load_registry of the registries in R.
Load(R) == [k \in KeysOf(R) |-> queue[k]]

\* save_registry of the registries in R, as they are in data: whatever another process
\* has saved there since they were loaded is undone.  Where that drops the launch
\* status of an entry, its starts are counted anew.
Save(R, data) ==
  /\ queue' = [k \in Key |-> IF Reg[k] \in R THEN data[k] ELSE queue[k]]
  /\ starts' = [k \in Key |-> IF queue[k].launch # "" /\ queue'[k].launch = ""
                              THEN 0 ELSE starts[k]]

Command(c, s, k, R) == [command |-> c, step |-> s, key |-> k, loaded |-> Load(R)]
In(c, s) == op.command = c /\ op.step = s
Entry == op.loaded[op.key]

\* The operator saves its registry with e as its entry.
SaveEntry(e) == Save({Reg[op.key]}, [op.loaded EXCEPT ![op.key] = e])

Init ==
  /\ queue = [k \in Key |-> Absent]
  /\ op = Idle
  /\ rec = Idle
  /\ crashes = 0 /\ revivals = 0 /\ records = 0
  /\ starts = [k \in Key |-> 0]

-----------------------------------------------------------------------------
(* The watcher. *)

FollowUps == {FollowUp[r] : r \in Review}

\* record_refiner_entry, called by apply_policy_action, loads the registry.  An entry
\* of that key may be there: a review is recorded again with each crash of its family.
RecordBegin(k) ==
  /\ rec = Idle
  /\ records < MaxRecords
  /\ k \notin Evidence \cup FollowUps
  /\ records' = records + 1
  /\ rec' = [command |-> "record", key |-> k, loaded |-> Load({Reg[k]})]
  /\ UNCHANGED <<queue, op, crashes, revivals, starts>>

\* It appends the entry, unless there is one; the merge into a review touches no
\* status.  In any case it saves the registry.
RecordEnd ==
  /\ rec # Idle
  /\ Save({Reg[rec.key]},
          [rec.loaded EXCEPT ![rec.key] = IF @ = Absent THEN NewEntry ELSE @])
  /\ rec' = Idle
  /\ UNCHANGED <<op, bounded>>

\* The watcher dies, or is killed, before it saves.
WatcherCrash ==
  /\ rec # Idle
  /\ rec' = Idle
  /\ UNCHANGED <<queue, op, bounded, starts>>

-----------------------------------------------------------------------------
(* The operator: finding an entry. *)

\* select_refiner_registry_entry loads every registry and takes a matching entry.
Find(c, k) ==
  /\ op = Idle
  /\ c \in Commands
  /\ Takes(c, queue[k])
  /\ op' = Command(c, "select", k, Registries)
  /\ UNCHANGED <<queue, rec, bounded, starts>>

\* It saves the registries, with the ranks of the entries, before it returns the entry
\* and its registry, as loaded.
SelectEnd ==
  /\ op # Idle /\ op.step = "select"
  /\ Save(Registries, op.loaded)
  /\ op' = [op EXCEPT !.step = "run",
                      !.loaded = [k \in KeysOf({Reg[op.key]}) |-> @[k]]]
  /\ UNCHANGED <<rec, bounded>>

\* Nothing matches: select_refiner_registry_entry saves all registries the same,
\* find_verification_policy_candidate each one that has no candidate.
FindNothing(R) ==
  /\ op = Idle
  /\ \/ R = Registries /\ \E c \in Commands \cap Finders : \A k \in Key : ~ Takes(c, queue[k])
     \/ \E r \in Registries \ Unpoliced :
          "policy" \in Commands /\ R = {r} /\ \A k \in Key : Reg[k] = r => ~ PolicyCandidate(k, queue[k])
  /\ op' = [command |-> "nothing", step |-> "found", registries |-> R, loaded |-> Load(R)]
  /\ UNCHANGED <<queue, rec, bounded, starts>>

NothingEnd ==
  /\ In("nothing", "found")
  /\ Save(op.registries, op.loaded)
  /\ op' = Idle
  /\ UNCHANGED <<rec, bounded>>

-----------------------------------------------------------------------------
(* The operator: queue_latest_evidence_review_followup. *)

\* record_refiner_entry, called by the operator.
EvidenceBegin(k) ==
  /\ op = Idle
  /\ k \in Evidence
  /\ queue[k] = Absent \/ revivals < MaxRevivals
  /\ op' = Command("evidence", "record", k, {Reg[k]})
  /\ UNCHANGED <<queue, rec, bounded, starts>>

EvidenceSave ==
  /\ In("evidence", "record")
  /\ SaveEntry(IF Entry = Absent THEN NewEntry ELSE Entry)
  /\ op' = IF Entry = Absent THEN Idle ELSE [op EXCEPT !.step = "recorded", !.loaded = Load({})]
  /\ UNCHANGED <<rec, bounded>>

\* An entry that was there is revived when its bridge has failed, in the registry
\* loaded again.
EvidenceReload ==
  /\ In("evidence", "recorded")
  /\ op' = IF queue[op.key].bridge = "failed"
           THEN Command("evidence", "revive", op.key, {Reg[op.key]}) ELSE Idle
  /\ UNCHANGED <<queue, rec, bounded, starts>>

\* Mutant: launch_status is missing from the fields that revival drops.
RevivedLaunched(e) ==
  sync_refiner_lifecycle([e EXCEPT !.status = "recorded", !.orchestration = "",
                                   !.dispatch = "", !.bridge = ""])

\* The fields that revival drops.
Revived(e) ==
  sync_refiner_lifecycle([e EXCEPT !.status = "recorded", !.orchestration = "",
                                   !.dispatch = "", !.bridge = "", !.launch = ""])

Revive ==
  /\ In("evidence", "revive")
  /\ SaveEntry(Revived(Entry))
  /\ revivals' = revivals + 1
  /\ op' = Idle
  /\ UNCHANGED <<rec, crashes, records>>

-----------------------------------------------------------------------------
(* The operator: execute_next_refiner_action and the rest of                   *)
(* prepare_next_refiner_orchestration.                                         *)

\* A duplicate crash replayed to the same signature queues a corpus refinement:
\* record_duplicate_replay_followup loads the registry of that one,
FollowUpBegin ==
  /\ In("execute", "run")
  /\ op.key \in Review
  /\ op' = [op EXCEPT !.step = "follow_up",
                      !.loaded = [k \in KeysOf({Reg[op.key], Reg[FollowUp[op.key]]}) |->
                                    IF Reg[k] = Reg[op.key] THEN @[k] ELSE queue[k]]]
  /\ UNCHANGED <<queue, rec, bounded, starts>>

\* and merges into the entry that is there, setting its status back to recorded.
Merged(e) == IF e = Absent THEN NewEntry ELSE [e EXCEPT !.status = "recorded"]

FollowUpEnd ==
  /\ In("execute", "follow_up")
  /\ Save({Reg[FollowUp[op.key]]}, [op.loaded EXCEPT ![FollowUp[op.key]] = Merged(@)])
  /\ op' = [op EXCEPT !.step = "followed_up"]
  /\ UNCHANGED <<rec, bounded>>

ExecuteEnd ==
  /\ In("execute", "run") \/ In("execute", "followed_up")
  /\ SaveEntry(sync_refiner_lifecycle([Entry EXCEPT !.status = "completed"]))
  /\ op' = [op EXCEPT !.command = "prepare", !.step = "executed", !.loaded = Load({})]
  /\ UNCHANGED <<rec, bounded>>

\* The registry is loaded again; the entry may be gone.
PrepareBegin ==
  /\ In("prepare", "executed")
  /\ op' = IF queue[op.key] = Absent THEN Idle
           ELSE Command("prepare", "run", op.key, {Reg[op.key]})
  /\ UNCHANGED <<queue, rec, bounded, starts>>

PrepareEnd ==
  /\ In("prepare", "run")
  /\ SaveEntry(sync_refiner_lifecycle([Entry EXCEPT !.orchestration = "prepared"]))
  /\ op' = Idle
  /\ UNCHANGED <<rec, bounded>>

-----------------------------------------------------------------------------
(* The operator: the other commands, on the entry they found. *)

\* Mutant: the status is one the next finder does not look for.
DispatchSent ==
  /\ In("dispatch", "run")
  /\ SaveEntry(sync_refiner_lifecycle([Entry EXCEPT !.dispatch = "dispatched"]))
  /\ op' = Idle
  /\ UNCHANGED <<rec, bounded>>

\* dispatch_next_refiner_orchestration
Dispatch ==
  /\ In("dispatch", "run")
  /\ SaveEntry(sync_refiner_lifecycle([Entry EXCEPT !.dispatch = "ready"]))
  /\ op' = Idle
  /\ UNCHANGED <<rec, bounded>>

\* bridge_next_refiner_dispatch
Bridge ==
  /\ In("bridge", "run")
  /\ SaveEntry(sync_refiner_lifecycle([Entry EXCEPT !.bridge = "armed"]))
  /\ op' = Idle
  /\ UNCHANGED <<rec, bounded>>

Launched(e, outcome) ==
  sync_refiner_lifecycle([e EXCEPT !.bridge = outcome, !.launch = outcome])

\* launch_next_refiner_bridge, when the bridge script is missing.
LaunchMissing ==
  /\ In("launch", "run")
  /\ SaveEntry(Launched(Entry, "failed"))
  /\ op' = Idle
  /\ UNCHANGED <<rec, bounded>>

\* launch_next_refiner_bridge starts the script, and saves its outcome; a script
\* that runs into the timeout has failed.
LaunchBegin ==
  /\ In("launch", "run")
  /\ starts' = [starts EXCEPT ![op.key] = @ + 1]
  /\ op' = [op EXCEPT !.step = "started"]
  /\ UNCHANGED <<queue, rec, bounded>>

LaunchEnd ==
  /\ In("launch", "started")
  /\ \E outcome \in {"succeeded", "failed"} : SaveEntry(Launched(Entry, outcome))
  /\ op' = Idle
  /\ UNCHANGED <<rec, bounded>>

\* verify_next_refiner_result probes the session or cron list, and saves.
Verify ==
  /\ In("verify", "run")
  /\ \E v \in {"verified", "unverified"} :
       SaveEntry(sync_refiner_lifecycle([Entry EXCEPT !.verification = v]))
  /\ op' = Idle
  /\ UNCHANGED <<rec, bounded>>

\* decide_verification_policy: the retry budget first; otherwise the status of the
\* candidate and the kind of evidence missing decide, which may go either way.
decide_verification_policy(e) ==
  IF e.retry_count >= 2 THEN {"escalate"} ELSE {"escalate", "retry"}

Policed(e, d) ==
  [sync_refiner_lifecycle([e EXCEPT !.policy = d]) EXCEPT
     !.retry_count = IF d = "retry" THEN @ + 1 ELSE @]

\* apply_verification_failure_policy, whose finder returns at the first candidate and
\* saves nothing of its registry.
PolicyBegin(k) ==
  /\ op = Idle
  /\ "policy" \in Commands
  /\ PolicyCandidate(k, queue[k])
  /\ op' = Command("policy", "run", k, {Reg[k]})
  /\ UNCHANGED <<queue, rec, bounded, starts>>

PolicyEnd ==
  /\ In("policy", "run")
  /\ \E d \in decide_verification_policy(Entry) : SaveEntry(Policed(Entry, d))
  /\ op' = Idle
  /\ UNCHANGED <<rec, bounded>>

\* The operator dies, or is killed, before it saves.
Crash ==
  /\ op # Idle
  /\ crashes < MaxCrashes
  /\ crashes' = crashes + 1
  /\ starts' = IF In("launch", "started") THEN [starts EXCEPT ![op.key] = 0] ELSE starts
  /\ op' = Idle
  /\ UNCHANGED <<queue, rec, revivals, records>>

-----------------------------------------------------------------------------
Watcher == (\E k \in Key : RecordBegin(k)) \/ RecordEnd \/ WatcherCrash

\* A command of the operator begins.
Begin ==
  \/ \E c \in Finders, k \in Key : Find(c, k)
  \/ \E R \in {Registries} \cup {{r} : r \in Registries} : FindNothing(R)
  \/ \E k \in Key : EvidenceBegin(k) \/ PolicyBegin(k)

\* A command of the operator goes on.
Continue ==
  \/ SelectEnd \/ NothingEnd
  \/ EvidenceSave \/ EvidenceReload \/ Revive
  \/ FollowUpBegin \/ FollowUpEnd \/ ExecuteEnd \/ PrepareBegin \/ PrepareEnd
  \/ Dispatch \/ Bridge \/ LaunchMissing \/ LaunchBegin \/ LaunchEnd \/ Verify \/ PolicyEnd

Next == Watcher \/ Begin \/ Continue \/ Crash

Spec == Init /\ [][Next]_vars

\* The operator finishes what it began, and goes on running each command: one that
\* is possible again and again is run in the end.  The watcher owes nothing.
Fairness ==
  /\ WF_vars(Continue)
  /\ \A c \in {"dispatch", "bridge", "launch"} : SF_vars(\E k \in Key : Find(c, k))
FairSpec == Spec /\ Fairness

-----------------------------------------------------------------------------
(* Properties. *)

EntryType ==
  [status : {"absent", "recorded", "completed"}, orchestration : {"", "prepared"},
   dispatch : {"", "ready"}, bridge : {"", "armed", "succeeded", "failed"},
   launch : {"", "succeeded", "failed"}, verification : {"", "verified", "unverified"},
   policy : {"", "retry", "escalate"}, retry_count : Nat,
   lifecycle : {"", "queued", "planned", "orchestration_prepared", "dispatch_ready",
                "bridge_armed", "bridge_failed", "launch_succeeded", "launch_failed",
                "verified", "verification_failed", "retry_requested", "escalated",
                "unknown"}]

CommandType(S) ==
  [command : Finders \cup {"prepare", "evidence", "policy"},
   step : {"select", "run", "record", "recorded", "revive", "follow_up", "followed_up",
           "executed", "started"},
   key : Key, loaded : [S -> EntryType]]
NothingType(S) ==
  [command : {"nothing"}, step : {"found"}, registries : SUBSET Registries,
   loaded : [S -> EntryType]]
RecordType(S) == [command : {"record"}, key : Key, loaded : [S -> EntryType]]

TypeOK ==
  /\ queue \in [Key -> EntryType]
  /\ op = Idle \/ \E S \in SUBSET Key : op \in CommandType(S) \cup NothingType(S)
  /\ rec = Idle \/ \E S \in SUBSET Key : rec \in RecordType(S)
  /\ crashes \in Nat /\ revivals \in Nat /\ records \in Nat
  /\ starts \in [Key -> Nat]

\* The seven status fields of an entry tell one story: each stage was reached
\* through the one before it, and a verdict is about a launch that succeeded.
Coherent(e) ==
  /\ e.status = "absent" => e = Absent
  /\ e.dispatch # "" => e.orchestration # ""
  /\ e.bridge # "" => e.dispatch # ""
  /\ e.launch # "" => e.bridge \in {e.launch, "armed"}
  /\ e.bridge \in {"succeeded", "failed"} => e.launch = e.bridge
  /\ e.verification # "" => e.launch = "succeeded"
  /\ e.policy # "" => e.verification = "unverified"

\* Whatever one process saves over what the other saved meanwhile, wherever they
\* crash, and whichever entry is revived or recorded again, the entries on disk
\* stay coherent (the status fields written by seven commands).
StagesCoherent == \A k \in Key : Coherent(queue[k])

\* A bridge script, which starts an agent or a cron job, is started once.  It is started
\* again only after a crash that kept its outcome from being saved, or after the launch
\* status has left the disk: by a revival or, see LifecycleNeverRegresses, by a stale
\* save (starts is then counted anew).  That a launched entry may be bridged and armed
\* once more does not start it again.
LaunchedOnce == \A k \in Key : starts[k] <= 1

Stages == <<{"", "queued"}, {"planned"}, {"orchestration_prepared"}, {"dispatch_ready"},
            {"bridge_armed"},
            {"bridge_failed", "launch_succeeded", "launch_failed"},
            {"verified", "verification_failed"}, {"retry_requested", "escalated"}>>
StageOf(e) == CHOOSE i \in DOMAIN Stages : e.lifecycle \in Stages[i]

\* A step of a process that has loaded another version of the entry than the one on
\* disk: the other process saved the registry since.
StaleStep(k) ==
  \/ op # Idle /\ op' # op /\ k \in DOMAIN op.loaded /\ op.loaded[k] # queue[k]
  \/ rec # Idle /\ rec' # rec /\ k \in DOMAIN rec.loaded /\ rec.loaded[k] # queue[k]

Revival(k) == In("evidence", "revive") /\ op.key = k /\ revivals' # revivals

\* The canonical lifecycle of an entry goes back, or an entry that has been planned
\* disappears, by a revival or by a save that is stale for this very entry, and by
\* nothing else: not when a launched entry is armed again, not when a follow-up is
\* merged into it, and not by the saves of commands that worked on other entries.
LifecycleNeverRegresses ==
  [][\A k \in Key : Revival(k) \/ StaleStep(k) \/ StageOf(queue'[k]) >= StageOf(queue[k])]_vars

\* Once no save is stale any more, prepared work is launched in the end, or was taken
\* back to before it was prepared: although the operator may crash, other entries
\* compete for each command, the watcher goes on recording and failed entries are
\* revived.
PreparedIsLaunched ==
  <>[][\A k \in Key : ~ StaleStep(k)]_vars =>
    \A k \in Key : queue[k].orchestration = "prepared"
                     ~> queue[k].launch # "" \/ queue[k].orchestration = ""

-----------------------------------------------------------------------------
(* The inductive invariant behind TypeOK, StagesCoherent, LaunchedOnce and     *)
(* LifecycleNeverRegresses.                                                    *)

\* How far the fields of an entry say it has come, which its lifecycle may lag behind
\* only at the start: a merge sets a planned entry back to recorded and leaves the
\* lifecycle.
Reached(e) ==
  IF e.policy # "" THEN 8
  ELSE IF e.verification # "" THEN 7
  ELSE IF e.launch # "" THEN 6
  ELSE IF e.bridge # "" THEN 5
  ELSE IF e.dispatch # "" THEN 4
  ELSE IF e.orchestration # "" THEN 3
  ELSE IF e.status = "completed" THEN 2 ELSE 1

Lags(e) == StageOf(e) \in 1 .. 8 /\ (StageOf(e) <= Reached(e) \/ StageOf(e) <= 2)
Sound(e) == Coherent(e) /\ Lags(e)

\* The registries a command has yet to save.
Held ==
  IF op.command = "nothing" THEN op.registries
  ELSE IF op.step = "select" THEN Registries
  ELSE IF op.step \in {"recorded", "executed"} THEN {}
  ELSE IF op.step = "follow_up" THEN {Reg[op.key], Reg[FollowUp[op.key]]}
  ELSE {Reg[op.key]}

\* The entry a command works on, as it was loaded, is what its finder looked for.
CommandFits ==
  /\ op.command \in Finders => Takes(op.command, Entry)
  /\ In("prepare", "run") => Entry # Absent
  /\ In("evidence", "revive") => Entry.bridge = "failed"
  /\ op.command = "policy" => Entry.verification = "unverified"
  /\ In("execute", "follow_up") \/ In("execute", "followed_up") => op.key \in Review
  /\ op.step = "follow_up" => op.command = "execute"
  /\ op.step = "select" => op.command \in Finders

\* What a process holds may be stale, but it is sound.
OperatorInv ==
  op # Idle => /\ KeysOf(Held) \subseteq DOMAIN op.loaded
               /\ \A k \in DOMAIN op.loaded : Sound(op.loaded[k])
               /\ CommandFits
WatcherInv ==
  rec # Idle => /\ KeysOf({Reg[rec.key]}) \subseteq DOMAIN rec.loaded
                /\ \A k \in DOMAIN rec.loaded : Sound(rec.loaded[k])

\* An entry that may still be launched, or that a launch has found, was not started.
LaunchesLeft ==
  /\ \A k \in Key : queue[k].launch = "" /\ ~ (In("launch", "started") /\ op.key = k)
                      => starts[k] = 0
  /\ In("launch", "select") \/ In("launch", "run") => starts[op.key] = 0

QueueInv ==
  /\ TypeOK
  /\ \A k \in Key : Sound(queue[k])
  /\ OperatorInv /\ WatcherInv /\ LaunchesLeft /\ LaunchedOnce

-----------------------------------------------------------------------------
\* The finders do not contradict the lifecycle: an entry whose launch succeeded is
\* one verify_next_refiner_result can take.
FindersFollowLifecycle ==
  \A k \in Key : queue[k].lifecycle = "launch_succeeded" => Verifiable(queue[k])

=============================================================================
