------------------------- MODULE RefinerQueueProofs -------------------------
(***************************************************************************)
(* Proofs about the refiner queue: its types, the coherence of the status  *)
(* fields of every entry, that a bridge script is launched once, and that  *)
(* lifecycles go back by stale saves and revivals only, for any set of     *)
(* entries and registries and any number of crashes.                       *)
(***************************************************************************)
EXTENDS RefinerQueue, TLAPS

-----------------------------------------------------------------------------
(* What the operators on entries keep. *)

\* derive_refiner_lifecycle always yields one of the lifecycle names, and syncing an
\* entry changes nothing else.
LEMMA SyncKeeps ==
  ASSUME NEW e \in EntryType
  PROVE  /\ sync_refiner_lifecycle(e) \in EntryType
         /\ e.status # "absent" /\ Coherent(e) => Coherent(sync_refiner_lifecycle(e))
         /\ sync_refiner_lifecycle(e).status = e.status
         /\ sync_refiner_lifecycle(e).launch = e.launch
<1> DEFINE s == sync_refiner_lifecycle(e)
<1>1. derive_refiner_lifecycle(e) \in
        {"", "queued", "planned", "orchestration_prepared", "dispatch_ready",
         "bridge_armed", "bridge_failed", "launch_succeeded", "launch_failed",
         "verified", "verification_failed", "retry_requested", "escalated", "unknown"}
  BY DEF derive_refiner_lifecycle
<1>2. s = [e EXCEPT !.lifecycle = derive_refiner_lifecycle(e)]
  BY DEF sync_refiner_lifecycle
<1>3. s \in EntryType
  BY <1>1, <1>2 DEF EntryType
<1>4. /\ s.status = e.status /\ s.orchestration = e.orchestration
      /\ s.dispatch = e.dispatch /\ s.bridge = e.bridge /\ s.launch = e.launch
      /\ s.verification = e.verification /\ s.policy = e.policy
  BY <1>2 DEF EntryType
<1>5. ASSUME e.status # "absent", Coherent(e)
      PROVE  Coherent(s)
  BY <1>4, <1>5 DEF Coherent
<1> QED
  BY <1>3, <1>4, <1>5

\* The absent entry and a new one.
LEMMA AbsentAndNew ==
  /\ Absent \in EntryType /\ Coherent(Absent) /\ Absent.launch = ""
  /\ NewEntry \in EntryType /\ Coherent(NewEntry) /\ NewEntry.launch = ""
  /\ NewEntry.status = "recorded"
  BY DEF Absent, NewEntry, EntryType, Coherent

\* An entry that got past the first stage is there.
LEMMA StartedIsPresent ==
  ASSUME NEW e \in EntryType, Coherent(e),
         e.orchestration # "" \/ e.dispatch # "" \/ e.bridge # "" \/ e.verification # ""
  PROVE  e.status # "absent"
<1>1. /\ Absent.orchestration = "" /\ Absent.dispatch = "" /\ Absent.bridge = ""
      /\ Absent.verification = ""
  BY DEF Absent
<1> QED
  BY <1>1 DEF Coherent

\* execute_next_refiner_action
LEMMA CompletedKeeps ==
  ASSUME NEW e \in EntryType, Coherent(e), Pending(e)
  PROVE  LET f == sync_refiner_lifecycle([e EXCEPT !.status = "completed"]) IN
         f \in EntryType /\ Coherent(f) /\ f.launch = e.launch /\ f.status = "completed"
<1> DEFINE g == [e EXCEPT !.status = "completed"]
<1>1. g \in EntryType /\ g.status = "completed" /\ g.launch = e.launch
  BY DEF EntryType
<1>2. Coherent(g)
  BY DEF EntryType, Coherent, Pending
<1> QED
  BY <1>1, <1>2, SyncKeeps

\* The merge of a replay's follow-up into an entry that is there.
LEMMA MergedKeeps ==
  ASSUME NEW e \in EntryType, Coherent(e), e # Absent
  PROVE  LET g == [e EXCEPT !.status = "recorded"] IN
         g \in EntryType /\ Coherent(g) /\ g.launch = e.launch /\ g.status = "recorded"
  BY ZenonT(60) DEF EntryType, Coherent

\* prepare_next_refiner_orchestration
LEMMA PreparedKeeps ==
  ASSUME NEW e \in EntryType, Coherent(e), e.status # "absent"
  PROVE  LET f == sync_refiner_lifecycle([e EXCEPT !.orchestration = "prepared"]) IN
         f \in EntryType /\ Coherent(f) /\ f.launch = e.launch
<1> DEFINE g == [e EXCEPT !.orchestration = "prepared"]
<1>1. g \in EntryType /\ g.status = e.status /\ g.launch = e.launch
  BY DEF EntryType
<1>2. Coherent(g)
  BY DEF EntryType, Coherent
<1> QED
  BY <1>1, <1>2, SyncKeeps

\* dispatch_next_refiner_orchestration
LEMMA DispatchedKeeps ==
  ASSUME NEW e \in EntryType, Coherent(e), Prepared(e)
  PROVE  LET f == sync_refiner_lifecycle([e EXCEPT !.dispatch = "ready"]) IN
         f \in EntryType /\ Coherent(f) /\ f.launch = e.launch
<1> DEFINE g == [e EXCEPT !.dispatch = "ready"]
<1>1. g \in EntryType /\ g.status = e.status /\ g.launch = e.launch
  BY DEF EntryType
<1>2. e.status # "absent"
  BY StartedIsPresent DEF Prepared
<1>3. Coherent(g)
  BY <1>2 DEF EntryType, Coherent, Prepared
<1> QED
  BY <1>1, <1>2, <1>3, SyncKeeps

\* bridge_next_refiner_dispatch, of an entry already launched as well.
LEMMA BridgedKeeps ==
  ASSUME NEW e \in EntryType, Coherent(e), Ready(e)
  PROVE  LET f == sync_refiner_lifecycle([e EXCEPT !.bridge = "armed"]) IN
         f \in EntryType /\ Coherent(f) /\ f.launch = e.launch
<1> DEFINE g == [e EXCEPT !.bridge = "armed"]
<1>1. g \in EntryType /\ g.status = e.status /\ g.launch = e.launch
  BY DEF EntryType
<1>2. e.status # "absent"
  BY StartedIsPresent DEF Ready
<1>3. Coherent(g)
  BY <1>2 DEF EntryType, Coherent, Ready
<1> QED
  BY <1>1, <1>2, <1>3, SyncKeeps

\* launch_next_refiner_bridge
LEMMA LaunchedKeeps ==
  ASSUME NEW e \in EntryType, Coherent(e), Armed(e), NEW x \in {"succeeded", "failed"}
  PROVE  Launched(e, x) \in EntryType /\ Coherent(Launched(e, x)) /\ Launched(e, x).launch = x
<1> DEFINE g == [e EXCEPT !.bridge = x, !.launch = x]
<1>1. g \in EntryType /\ g.status = e.status /\ g.launch = x
  BY DEF EntryType
<1>2. e.status # "absent"
  BY StartedIsPresent DEF Armed
<1>3. Coherent(g)
  BY <1>2 DEF EntryType, Coherent, Armed
<1> QED
  BY <1>1, <1>2, <1>3, SyncKeeps DEF Launched

\* verify_next_refiner_result
LEMMA VerifiedKeeps ==
  ASSUME NEW e \in EntryType, Coherent(e), Verifiable(e), NEW v \in {"verified", "unverified"}
  PROVE  LET f == sync_refiner_lifecycle([e EXCEPT !.verification = v]) IN
         f \in EntryType /\ Coherent(f) /\ f.launch = e.launch
<1> DEFINE g == [e EXCEPT !.verification = v]
<1>1. g \in EntryType /\ g.status = e.status /\ g.launch = e.launch
  BY DEF EntryType
<1>2. e.status # "absent"
  BY StartedIsPresent DEF Verifiable
<1>3. Coherent(g)
  BY <1>2 DEF EntryType, Coherent, Verifiable
<1> QED
  BY <1>1, <1>2, <1>3, SyncKeeps

\* apply_verification_failure_policy
LEMMA PolicedKeeps ==
  ASSUME NEW e \in EntryType, Coherent(e), e.verification = "unverified",
         NEW d \in {"escalate", "retry"}
  PROVE  Policed(e, d) \in EntryType /\ Coherent(Policed(e, d)) /\ Policed(e, d).launch = e.launch
<1> DEFINE p == [e EXCEPT !.policy = d]
           f == sync_refiner_lifecycle(p)
           g == Policed(e, d)
<1>1. p \in EntryType /\ p.status = e.status /\ p.launch = e.launch
  BY DEF EntryType
<1>2. e.status # "absent"
  BY StartedIsPresent
<1>3. Coherent(p)
  BY <1>2 DEF EntryType, Coherent
<1>4. f \in EntryType /\ Coherent(f) /\ f.launch = e.launch /\ f.status # "absent"
  BY <1>1, <1>2, <1>3, SyncKeeps
<1> HIDE DEF f
<1>5. f.retry_count \in Nat
  BY <1>4 DEF EntryType
<1> DEFINE n == IF d = "retry" THEN f.retry_count + 1 ELSE f.retry_count
<1>6. n \in Nat /\ g = [f EXCEPT !.retry_count = n]
  BY <1>5 DEF Policed, f
<1> HIDE DEF g, n
<1>7. /\ g \in EntryType /\ g.status = f.status /\ g.orchestration = f.orchestration
      /\ g.dispatch = f.dispatch /\ g.bridge = f.bridge /\ g.launch = f.launch
      /\ g.verification = f.verification /\ g.policy = f.policy
  BY <1>4, <1>6 DEF EntryType
<1>8. Coherent(g)
  BY <1>4, <1>7 DEF Coherent
<1> QED
  BY <1>4, <1>7, <1>8 DEF g, f

\* queue_latest_evidence_review_followup, when it revives an entry: the launch is
\* forgotten, and a failed one was never verified.
LEMMA RevivedKeeps ==
  ASSUME NEW e \in EntryType, Coherent(e), e.bridge = "failed"
  PROVE  Revived(e) \in EntryType /\ Coherent(Revived(e)) /\ Revived(e).launch = ""
<1> DEFINE g == [e EXCEPT !.status = "recorded", !.orchestration = "", !.dispatch = "",
                          !.bridge = "", !.launch = ""]
<1>1. g \in EntryType /\ g.status = "recorded" /\ g.launch = ""
  BY ZenonT(60) DEF EntryType
<1>2. Coherent(g)
  BY DEF EntryType, Coherent
<1> QED
  BY <1>1, <1>2, SyncKeeps DEF Revived

-----------------------------------------------------------------------------
(* The lifecycle never runs ahead of what the fields of an entry say.          *)

\* A sequence of eight has the positions 1 to 8.
LEMMA EightPlaces ==
  \A a, b, c, d, e, f, g, h : DOMAIN <<a, b, c, d, e, f, g, h>> = 1 .. 8
  OBVIOUS

\* The eight stages, one by one.
LEMMA StagesAre ==
  /\ DOMAIN Stages = 1 .. 8
  /\ Stages[1] = {"", "queued"} /\ Stages[2] = {"planned"}
  /\ Stages[3] = {"orchestration_prepared"} /\ Stages[4] = {"dispatch_ready"}
  /\ Stages[5] = {"bridge_armed"}
  /\ Stages[6] = {"bridge_failed", "launch_succeeded", "launch_failed"}
  /\ Stages[7] = {"verified", "verification_failed"}
  /\ Stages[8] = {"retry_requested", "escalated"}
<1>1. DOMAIN Stages = 1 .. 8
  BY EightPlaces DEF Stages
<1> QED
  BY <1>1 DEF Stages

\* The stage a lifecycle is in.
Place(l) ==
  IF l \in {"", "queued"} THEN 1 ELSE IF l = "planned" THEN 2
  ELSE IF l = "orchestration_prepared" THEN 3 ELSE IF l = "dispatch_ready" THEN 4
  ELSE IF l = "bridge_armed" THEN 5
  ELSE IF l \in {"bridge_failed", "launch_succeeded", "launch_failed"} THEN 6
  ELSE IF l \in {"verified", "verification_failed"} THEN 7 ELSE 8

\* The sets of Stages are disjoint: the stage of an entry is the one its lifecycle is in.
LEMMA StageIs ==
  ASSUME NEW e, NEW i \in 1 .. 8, e.lifecycle \in Stages[i]
  PROVE  StageOf(e) = i
<1>1. ASSUME NEW j \in 1 .. 8, NEW l, l \in Stages[j] PROVE j = Place(l)
  <2>1. j = 1 \/ j = 2 \/ j = 3 \/ j = 4 \/ j = 5 \/ j = 6 \/ j = 7 \/ j = 8
    OBVIOUS
  <2> QED
    BY <1>1, <2>1, StagesAre DEF Place
<1>2. StageOf(e) \in 1 .. 8 /\ e.lifecycle \in Stages[StageOf(e)]
  <2>1. \E j \in DOMAIN Stages : e.lifecycle \in Stages[j]
    BY StagesAre
  <2>2. StageOf(e) \in DOMAIN Stages /\ e.lifecycle \in Stages[StageOf(e)]
    BY <2>1 DEF StageOf
  <2> QED
    BY <2>2, StagesAre
<1> QED
  BY <1>1, <1>2

\* Syncing an entry that is there brings its lifecycle to where its fields are.
LEMMA SyncReaches ==
  ASSUME NEW e \in EntryType, Coherent(e), e.status # "absent"
  PROVE  StageOf(sync_refiner_lifecycle(e)) = Reached(e)
<1> DEFINE s == sync_refiner_lifecycle(e)
           d == derive_refiner_lifecycle(e)
<1>1. s.lifecycle = d
  BY DEF sync_refiner_lifecycle, EntryType
<1> DEFINE pol == e.policy ver == e.verification lau == e.launch bri == e.bridge
           dis == e.dispatch orc == e.orchestration sta == e.status
<1>a. /\ sta \in {"recorded", "completed"} /\ orc \in {"", "prepared"} /\ dis \in {"", "ready"}
      /\ bri \in {"", "armed", "succeeded", "failed"} /\ lau \in {"", "succeeded", "failed"}
      /\ ver \in {"", "verified", "unverified"} /\ pol \in {"", "retry", "escalate"}
  BY DEF EntryType
<1>b. /\ dis # "" => orc # ""
      /\ bri # "" => dis # ""
      /\ lau # "" => bri # ""
      /\ bri \in {"succeeded", "failed"} => lau = bri
      /\ ver # "" => lau # ""
      /\ pol # "" => ver # ""
  BY DEF Coherent
<1> DEFINE n == Reached(e)
<1>c. n = IF pol # "" THEN 8 ELSE IF ver # "" THEN 7 ELSE IF lau # "" THEN 6
          ELSE IF bri # "" THEN 5 ELSE IF dis # "" THEN 4 ELSE IF orc # "" THEN 3
          ELSE IF sta = "completed" THEN 2 ELSE 1
  BY DEF Reached
<1> HIDE DEF n, pol, ver, lau, bri, dis, orc, sta
<1>3. d = IF pol = "escalate" THEN "escalated" ELSE IF pol = "retry" THEN "retry_requested"
          ELSE IF ver = "verified" THEN "verified" ELSE IF ver = "unverified" THEN "verification_failed"
          ELSE IF lau = "succeeded" THEN "launch_succeeded" ELSE IF lau = "failed" THEN "launch_failed"
          ELSE IF bri = "armed" THEN "bridge_armed" ELSE IF bri = "failed" THEN "bridge_failed"
          ELSE IF bri = "succeeded" THEN "launch_succeeded" ELSE IF dis = "ready" THEN "dispatch_ready"
          ELSE IF orc = "prepared" THEN "orchestration_prepared" ELSE IF sta = "recorded" THEN "queued"
          ELSE IF sta = "completed" THEN "planned" ELSE "unknown"
  BY DEF derive_refiner_lifecycle, pol, ver, lau, bri, dis, orc, sta
<1> HIDE DEF d, s
<1>4. n \in 1 .. 8 /\ d \in Stages[n]
  <2>1. CASE pol # ""
    <3>1. n = 8
      BY <1>c, <2>1
    <3>2. d \in {"retry_requested", "escalated"}
      BY <1>a, <1>b, <1>3, <2>1
    <3>3. d \in Stages[8]
      BY <3>2, StagesAre, Zenon
    <3> QED
      BY <3>1, <3>3
  <2>2. CASE pol = "" /\ ver # ""
    <3>1. n = 7
      BY <1>c, <2>2
    <3>2. d \in {"verified", "verification_failed"}
      BY <1>a, <1>b, <1>3, <2>2
    <3>3. d \in Stages[7]
      BY <3>2, StagesAre, Zenon
    <3> QED
      BY <3>1, <3>3
  <2>3. CASE pol = "" /\ ver = "" /\ lau # ""
    <3>1. n = 6
      BY <1>c, <2>3
    <3>2. d \in {"launch_succeeded", "launch_failed"}
      BY <1>a, <1>b, <1>3, <2>3
    <3>3. d \in Stages[6]
      BY <3>2, StagesAre, Zenon
    <3> QED
      BY <3>1, <3>3
  <2>4. CASE pol = "" /\ ver = "" /\ lau = "" /\ bri # ""
    <3>1. n = 5
      BY <1>c, <2>4
    <3>2. d = "bridge_armed"
      BY <1>a, <1>b, <1>3, <2>4
    <3>3. d \in Stages[5]
      BY <3>2, StagesAre, Zenon
    <3> QED
      BY <3>1, <3>3
  <2>5. CASE pol = "" /\ ver = "" /\ lau = "" /\ bri = "" /\ dis # ""
    <3>1. n = 4
      BY <1>c, <2>5
    <3>2. d = "dispatch_ready"
      BY <1>a, <1>b, <1>3, <2>5
    <3>3. d \in Stages[4]
      BY <3>2, StagesAre, Zenon
    <3> QED
      BY <3>1, <3>3
  <2>6. CASE pol = "" /\ ver = "" /\ lau = "" /\ bri = "" /\ dis = "" /\ orc # ""
    <3>1. n = 3
      BY <1>c, <2>6
    <3>2. d = "orchestration_prepared"
      BY <1>a, <1>b, <1>3, <2>6
    <3>3. d \in Stages[3]
      BY <3>2, StagesAre, Zenon
    <3> QED
      BY <3>1, <3>3
  <2>7. CASE pol = "" /\ ver = "" /\ lau = "" /\ bri = "" /\ dis = "" /\ orc = "" /\ sta = "completed"
    <3>1. n = 2
      BY <1>c, <2>7
    <3>2. d = "planned"
      BY <1>a, <1>b, <1>3, <2>7
    <3>3. d \in Stages[2]
      BY <3>2, StagesAre, Zenon
    <3> QED
      BY <3>1, <3>3
  <2>8. CASE pol = "" /\ ver = "" /\ lau = "" /\ bri = "" /\ dis = "" /\ orc = "" /\ sta # "completed"
    <3>1. n = 1
      BY <1>c, <2>8
    <3>2. d = "queued"
      BY <1>a, <1>b, <1>3, <2>8
    <3>3. d \in Stages[1]
      BY <3>2, StagesAre, Zenon
    <3> QED
      BY <3>1, <3>3
  <2> QED
    BY <2>1, <2>2, <2>3, <2>4, <2>5, <2>6, <2>7, <2>8
<1>7. s.lifecycle \in Stages[n]
  BY <1>1, <1>4
<1> QED
  BY <1>4, <1>7, StageIs DEF s, n

\* Past the start: anything but a bare recorded entry.
Started(f) ==
  \/ f.policy # "" \/ f.verification # "" \/ f.launch # "" \/ f.bridge # ""
  \/ f.dispatch # "" \/ f.orchestration # "" \/ f.status = "completed"

\* A field once written stays written.
KeepsFields(e, f) ==
  /\ e.policy # "" => f.policy # ""
  /\ e.verification # "" => f.verification # ""
  /\ e.launch # "" => f.launch # ""
  /\ e.bridge # "" => f.bridge # ""
  /\ e.dispatch # "" => f.dispatch # ""
  /\ e.orchestration # "" => f.orchestration # ""
  /\ e.status = "completed" => f.status = "completed"

LEMMA ReachedRange ==
  ASSUME NEW f
  PROVE  Reached(f) \in 1 .. 8 /\ (Started(f) => Reached(f) >= 2)
<1>1. Reached(f) \in 1 .. 8
  BY DEF Reached
<1>2. Started(f) => Reached(f) \in {2, 3, 4, 5, 6, 7, 8}
  BY DEF Reached, Started
<1> QED
  BY <1>1, <1>2

\* Then what an entry has reached only grows.
LEMMA ReachedGrows ==
  ASSUME NEW e, NEW f, KeepsFields(e, f)
  PROVE  Reached(e) <= Reached(f)
<1>1. Reached(e) \in 1 .. 8 /\ Reached(f) \in 1 .. 8
  BY ReachedRange
<1>2. CASE f.policy # ""
  <2>1. Reached(f) = 8
    BY <1>2 DEF Reached
  <2> QED
    BY <1>1, <2>1
<1>3. CASE /\ f.policy = ""
         /\ f.verification # ""
  <2>1. Reached(f) = 7
    BY <1>3 DEF Reached
  <2>2. e.policy = ""
    BY <1>3 DEF KeepsFields
  <2>3. Reached(e) = 7 \/ Reached(e) = 6 \/ Reached(e) = 5 \/ Reached(e) = 4 \/ Reached(e) = 3 \/ Reached(e) = 2 \/ Reached(e) = 1
    BY <2>2, Zenon DEF Reached
  <2> QED
    BY <1>1, <2>1, <2>3
<1>4. CASE /\ f.policy = "" /\ f.verification = ""
         /\ f.launch # ""
  <2>1. Reached(f) = 6
    BY <1>4 DEF Reached
  <2>2. e.policy = "" /\ e.verification = ""
    BY <1>4 DEF KeepsFields
  <2>3. Reached(e) = 6 \/ Reached(e) = 5 \/ Reached(e) = 4 \/ Reached(e) = 3 \/ Reached(e) = 2 \/ Reached(e) = 1
    BY <2>2, Zenon DEF Reached
  <2> QED
    BY <1>1, <2>1, <2>3
<1>5. CASE /\ f.policy = "" /\ f.verification = "" /\ f.launch = ""
         /\ f.bridge # ""
  <2>1. Reached(f) = 5
    BY <1>5 DEF Reached
  <2>2. e.policy = "" /\ e.verification = "" /\ e.launch = ""
    BY <1>5 DEF KeepsFields
  <2>3. Reached(e) = 5 \/ Reached(e) = 4 \/ Reached(e) = 3 \/ Reached(e) = 2 \/ Reached(e) = 1
    BY <2>2, Zenon DEF Reached
  <2> QED
    BY <1>1, <2>1, <2>3
<1>6. CASE /\ f.policy = "" /\ f.verification = "" /\ f.launch = "" /\ f.bridge = ""
         /\ f.dispatch # ""
  <2>1. Reached(f) = 4
    BY <1>6 DEF Reached
  <2>2. e.policy = "" /\ e.verification = "" /\ e.launch = "" /\ e.bridge = ""
    BY <1>6 DEF KeepsFields
  <2>3. Reached(e) = 4 \/ Reached(e) = 3 \/ Reached(e) = 2 \/ Reached(e) = 1
    BY <2>2, Zenon DEF Reached
  <2> QED
    BY <1>1, <2>1, <2>3
<1>7. CASE /\ f.policy = "" /\ f.verification = "" /\ f.launch = "" /\ f.bridge = "" /\ f.dispatch = ""
         /\ f.orchestration # ""
  <2>1. Reached(f) = 3
    BY <1>7 DEF Reached
  <2>2. e.policy = "" /\ e.verification = "" /\ e.launch = "" /\ e.bridge = "" /\ e.dispatch = ""
    BY <1>7 DEF KeepsFields
  <2>3. Reached(e) = 3 \/ Reached(e) = 2 \/ Reached(e) = 1
    BY <2>2, Zenon DEF Reached
  <2> QED
    BY <1>1, <2>1, <2>3
<1>8. CASE f.policy = "" /\ f.verification = "" /\ f.launch = "" /\ f.bridge = "" /\ f.dispatch = "" /\ f.orchestration = ""
  <2>1. Reached(f) = (IF f.status = "completed" THEN 2 ELSE 1)
    BY <1>8 DEF Reached
  <2>2. e.policy = "" /\ e.verification = "" /\ e.launch = "" /\ e.bridge = "" /\ e.dispatch = "" /\ e.orchestration = ""
    BY <1>8 DEF KeepsFields
  <2>3. Reached(e) = (IF e.status = "completed" THEN 2 ELSE 1)
    BY <2>2 DEF Reached
  <2>4. e.status = "completed" => f.status = "completed"
    BY DEF KeepsFields
  <2>5. Reached(e) = Reached(f) \/ (Reached(e) = 1 /\ Reached(f) = 2)
    BY <2>1, <2>3, <2>4
  <2> QED
    BY <1>1, <2>5
<1> QED
  BY <1>2, <1>3, <1>4, <1>5, <1>6, <1>7, <1>8

\* Syncing changes the lifecycle only.
LEMMA SyncLeaves ==
  ASSUME NEW f \in EntryType
  PROVE  LET s == sync_refiner_lifecycle(f) IN
         /\ s.status = f.status /\ s.orchestration = f.orchestration
         /\ s.dispatch = f.dispatch /\ s.bridge = f.bridge /\ s.launch = f.launch
         /\ s.verification = f.verification /\ s.policy = f.policy
<1> DEFINE s == sync_refiner_lifecycle(f)
<1>1. s = [f EXCEPT !.lifecycle = derive_refiner_lifecycle(f)]
  BY DEF sync_refiner_lifecycle
<1> HIDE DEF s
<1>2. /\ s.status = f.status /\ s.orchestration = f.orchestration
      /\ s.dispatch = f.dispatch /\ s.bridge = f.bridge /\ s.launch = f.launch
      /\ s.verification = f.verification /\ s.policy = f.policy
  BY <1>1 DEF EntryType
<1> QED
  BY <1>2 DEF s

Advances(e, f) == StageOf(f) >= StageOf(e) /\ Lags(f)

\* Syncing an entry that got as far as an earlier one did, past its start, takes the
\* lifecycle of the earlier one forward.
LEMMA SyncAdvances ==
  ASSUME NEW e \in EntryType, NEW f \in EntryType, Lags(e),
         f.status # "absent", Coherent(sync_refiner_lifecycle(f)),
         Reached(f) >= Reached(e), Reached(f) >= 2, Reached(f) \in 1 .. 8, Reached(e) \in 1 .. 8
  PROVE  Advances(e, sync_refiner_lifecycle(f))
<1> DEFINE s == sync_refiner_lifecycle(f)
<1>1. /\ s.status = f.status /\ s.orchestration = f.orchestration
      /\ s.dispatch = f.dispatch /\ s.bridge = f.bridge /\ s.launch = f.launch
      /\ s.verification = f.verification /\ s.policy = f.policy
  BY SyncLeaves
<1>2. Coherent(f)
  BY <1>1 DEF Coherent
<1>3. StageOf(s) = Reached(f)
  BY <1>2, SyncReaches
<1>4. Reached(s) = Reached(f)
  BY <1>1 DEF Reached
<1> HIDE DEF s
<1>5. Lags(s)
  BY <1>3, <1>4 DEF Lags
<1>6. StageOf(s) >= StageOf(e)
  <2>1. StageOf(e) \in 1 .. 8 /\ (StageOf(e) <= Reached(e) \/ StageOf(e) <= 2)
    BY DEF Lags
  <2> HIDE DEF StageOf, Reached
  <2> QED
    BY <2>1, <1>3
<1> QED
  BY <1>5, <1>6 DEF s, Advances

\* An entry that is not there, and a new one, are at the first stage.
LEMMA FirstStage ==
  /\ StageOf(Absent) = 1 /\ StageOf(NewEntry) = 1
  /\ Lags(Absent) /\ Lags(NewEntry)
  /\ Absent # NewEntry
<1>1. Absent.lifecycle = "" /\ NewEntry.lifecycle = ""
      /\ Absent.status = "absent" /\ NewEntry.status = "recorded"
  BY DEF Absent, NewEntry
<1>2. Absent.lifecycle \in Stages[1] /\ NewEntry.lifecycle \in Stages[1]
  BY <1>1, StagesAre
<1>3. StageOf(Absent) = 1 /\ StageOf(NewEntry) = 1
  BY <1>2, StageIs
<1>4. Absent # NewEntry
  BY <1>1
<1> HIDE DEF StageOf
<1>5. Lags(Absent) /\ Lags(NewEntry)
  BY <1>3 DEF Lags
<1> QED
  BY <1>3, <1>4, <1>5

\* execute_next_refiner_action
LEMMA CompletedAdvances ==
  ASSUME NEW e \in EntryType, Coherent(e), Pending(e), Lags(e)
  PROVE  Advances(e, sync_refiner_lifecycle([e EXCEPT !.status = "completed"]))
<1> DEFINE f == [e EXCEPT !.status = "completed"]
<1>1. f \in EntryType /\ f.status = "completed" /\ f.policy = e.policy
      /\ f.verification = e.verification /\ f.launch = e.launch /\ f.bridge = e.bridge
      /\ f.dispatch = e.dispatch /\ f.orchestration = e.orchestration
  BY DEF EntryType
<1>2. Coherent(sync_refiner_lifecycle(f))
  BY CompletedKeeps
<1> HIDE DEF f
<1>3. Reached(e) <= Reached(f) /\ Reached(f) \in 1 .. 8 /\ Reached(e) \in 1 .. 8
  BY <1>1, ReachedGrows, ReachedRange DEF KeepsFields
<1>4. Reached(f) >= 2
  BY <1>1, ReachedRange DEF Started
<1> QED
  BY <1>1, <1>2, <1>3, <1>4, SyncAdvances DEF f

\* The merge of a replay's follow-up leaves the lifecycle.
LEMMA MergedAdvances ==
  ASSUME NEW e \in EntryType, Lags(e)
  PROVE  Advances(e, [e EXCEPT !.status = "recorded"])
<1> DEFINE f == [e EXCEPT !.status = "recorded"]
<1>1. f.policy = e.policy
      /\ f.verification = e.verification /\ f.launch = e.launch /\ f.bridge = e.bridge
      /\ f.dispatch = e.dispatch /\ f.orchestration = e.orchestration
      /\ f.lifecycle = e.lifecycle
  BY DEF EntryType
<1> HIDE DEF f
<1>2. StageOf(f) = StageOf(e)
  BY <1>1 DEF StageOf
<1>3. Reached(f) = Reached(e) \/ Reached(e) = 2 \/ Reached(e) = 1
  <2>1. CASE /\ e.policy = "" /\ e.verification = "" /\ e.launch = "" /\ e.bridge = ""
             /\ e.dispatch = "" /\ e.orchestration = ""
    BY <2>1 DEF Reached
  <2>2. CASE ~ (/\ e.policy = "" /\ e.verification = "" /\ e.launch = "" /\ e.bridge = ""
                /\ e.dispatch = "" /\ e.orchestration = "")
    BY <1>1, <2>2 DEF Reached
  <2> QED
    BY <2>1, <2>2
<1>4. StageOf(e) \in 1 .. 8 /\ (StageOf(e) <= Reached(e) \/ StageOf(e) <= 2)
  BY DEF Lags
<1>5. Reached(e) \in 1 .. 8
  BY DEF Reached
<1> HIDE DEF StageOf, Reached
<1>6. StageOf(f) >= StageOf(e)
  BY <1>2, <1>4
<1>7. StageOf(f) <= Reached(f) \/ StageOf(f) <= 2
  BY <1>2, <1>3, <1>4, <1>5
<1> QED
  BY <1>2, <1>4, <1>6, <1>7 DEF Advances, Lags, f

\* prepare_next_refiner_orchestration
LEMMA PreparedAdvances ==
  ASSUME NEW e \in EntryType, Coherent(e), e.status # "absent", Lags(e)
  PROVE  Advances(e, sync_refiner_lifecycle([e EXCEPT !.orchestration = "prepared"]))
<1> DEFINE f == [e EXCEPT !.orchestration = "prepared"]
<1>1. f \in EntryType /\ f.status = e.status /\ f.policy = e.policy
      /\ f.verification = e.verification /\ f.launch = e.launch /\ f.bridge = e.bridge
      /\ f.dispatch = e.dispatch /\ f.orchestration = "prepared"
  BY DEF EntryType
<1>2. Coherent(sync_refiner_lifecycle(f))
  BY PreparedKeeps
<1> HIDE DEF f
<1>3. Reached(e) <= Reached(f) /\ Reached(f) \in 1 .. 8 /\ Reached(e) \in 1 .. 8
  BY <1>1, ReachedGrows, ReachedRange DEF KeepsFields
<1>4. Reached(f) >= 2
  BY <1>1, ReachedRange DEF Started
<1> QED
  BY <1>1, <1>2, <1>3, <1>4, SyncAdvances DEF f

\* dispatch_next_refiner_orchestration
LEMMA DispatchedAdvances ==
  ASSUME NEW e \in EntryType, Coherent(e), Prepared(e), Lags(e)
  PROVE  Advances(e, sync_refiner_lifecycle([e EXCEPT !.dispatch = "ready"]))
<1> DEFINE f == [e EXCEPT !.dispatch = "ready"]
<1>1. f \in EntryType /\ f.status = e.status /\ f.policy = e.policy
      /\ f.verification = e.verification /\ f.launch = e.launch /\ f.bridge = e.bridge
      /\ f.dispatch = "ready" /\ f.orchestration = e.orchestration
  BY DEF EntryType
<1>2. Coherent(sync_refiner_lifecycle(f)) /\ e.status # "absent"
  BY DispatchedKeeps, StartedIsPresent DEF Prepared
<1> HIDE DEF f
<1>3. Reached(e) <= Reached(f) /\ Reached(f) \in 1 .. 8 /\ Reached(e) \in 1 .. 8
  BY <1>1, ReachedGrows, ReachedRange DEF KeepsFields
<1>4. Reached(f) >= 2
  BY <1>1, ReachedRange DEF Started
<1> QED
  BY <1>1, <1>2, <1>3, <1>4, SyncAdvances DEF f

\* bridge_next_refiner_dispatch
LEMMA BridgedAdvances ==
  ASSUME NEW e \in EntryType, Coherent(e), Ready(e), Lags(e)
  PROVE  Advances(e, sync_refiner_lifecycle([e EXCEPT !.bridge = "armed"]))
<1> DEFINE f == [e EXCEPT !.bridge = "armed"]
<1>1. f \in EntryType /\ f.status = e.status /\ f.policy = e.policy
      /\ f.verification = e.verification /\ f.launch = e.launch /\ f.bridge = "armed"
      /\ f.dispatch = e.dispatch /\ f.orchestration = e.orchestration
  BY DEF EntryType
<1>2. Coherent(sync_refiner_lifecycle(f)) /\ e.status # "absent"
  BY BridgedKeeps, StartedIsPresent DEF Ready
<1> HIDE DEF f
<1>3. Reached(e) <= Reached(f) /\ Reached(f) \in 1 .. 8 /\ Reached(e) \in 1 .. 8
  BY <1>1, ReachedGrows, ReachedRange DEF KeepsFields
<1>4. Reached(f) >= 2
  BY <1>1, ReachedRange DEF Started
<1> QED
  BY <1>1, <1>2, <1>3, <1>4, SyncAdvances DEF f

\* launch_next_refiner_bridge
LEMMA LaunchedAdvances ==
  ASSUME NEW e \in EntryType, Coherent(e), Armed(e), Lags(e), NEW x \in {"succeeded", "failed"}
  PROVE  Advances(e, Launched(e, x))
<1> DEFINE f == [e EXCEPT !.bridge = x, !.launch = x]
<1>1. f \in EntryType /\ f.status = e.status /\ f.policy = e.policy
      /\ f.verification = e.verification /\ f.launch = x /\ f.bridge = x
      /\ f.dispatch = e.dispatch /\ f.orchestration = e.orchestration
  BY ZenonT(60) DEF EntryType
<1>2. Coherent(sync_refiner_lifecycle(f)) /\ e.status # "absent"
  BY LaunchedKeeps, StartedIsPresent DEF Armed, Launched
<1> HIDE DEF f
<1>3. Reached(e) <= Reached(f) /\ Reached(f) \in 1 .. 8 /\ Reached(e) \in 1 .. 8
  BY <1>1, ReachedGrows, ReachedRange DEF KeepsFields
<1>4. Reached(f) >= 2
  BY <1>1, ReachedRange DEF Started
<1> QED
  BY <1>1, <1>2, <1>3, <1>4, SyncAdvances DEF f, Launched

\* verify_next_refiner_result
LEMMA VerifiedAdvances ==
  ASSUME NEW e \in EntryType, Coherent(e), Verifiable(e), Lags(e),
         NEW v \in {"verified", "unverified"}
  PROVE  Advances(e, sync_refiner_lifecycle([e EXCEPT !.verification = v]))
<1> DEFINE f == [e EXCEPT !.verification = v]
<1>1. f \in EntryType /\ f.status = e.status /\ f.policy = e.policy
      /\ f.verification = v /\ f.launch = e.launch /\ f.bridge = e.bridge
      /\ f.dispatch = e.dispatch /\ f.orchestration = e.orchestration
  BY DEF EntryType
<1>2. Coherent(sync_refiner_lifecycle(f)) /\ e.status # "absent"
  BY VerifiedKeeps, StartedIsPresent DEF Verifiable
<1> HIDE DEF f
<1>3. Reached(e) <= Reached(f) /\ Reached(f) \in 1 .. 8 /\ Reached(e) \in 1 .. 8
  BY <1>1, ReachedGrows, ReachedRange DEF KeepsFields
<1>4. Reached(f) >= 2
  BY <1>1, ReachedRange DEF Started
<1> QED
  BY <1>1, <1>2, <1>3, <1>4, SyncAdvances DEF f

\* apply_verification_failure_policy, which counts the retry after it has synced.
LEMMA PolicedAdvances ==
  ASSUME NEW e \in EntryType, Coherent(e), e.verification = "unverified", Lags(e),
         NEW d \in {"escalate", "retry"}
  PROVE  Advances(e, Policed(e, d))
<1> DEFINE f == [e EXCEPT !.policy = d]
           s == sync_refiner_lifecycle(f)
           g == Policed(e, d)
<1>1. f \in EntryType /\ f.status = e.status /\ f.policy = d
      /\ f.verification = e.verification /\ f.launch = e.launch /\ f.bridge = e.bridge
      /\ f.dispatch = e.dispatch /\ f.orchestration = e.orchestration
  BY DEF EntryType
<1>2. e.status # "absent" /\ Coherent(f)
  <2>1. e.status # "absent"
    BY StartedIsPresent
  <2> QED
    BY <2>1, <1>1 DEF Coherent
<1>3. Coherent(s) /\ s \in EntryType
  BY <1>1, <1>2, SyncKeeps
<1> HIDE DEF f
<1>4. Reached(e) <= Reached(f) /\ Reached(f) \in 1 .. 8 /\ Reached(e) \in 1 .. 8
  BY <1>1, ReachedGrows, ReachedRange DEF KeepsFields
<1>5. Reached(f) >= 2
  BY <1>1, ReachedRange DEF Started
<1>6. Advances(e, s)
  BY <1>1, <1>2, <1>3, <1>4, <1>5, SyncAdvances
<1> HIDE DEF s
<1>7. g = [s EXCEPT !.retry_count = IF d = "retry" THEN @ + 1 ELSE @]
  BY DEF Policed, s, f
<1>8. /\ g.lifecycle = s.lifecycle /\ g.status = s.status /\ g.orchestration = s.orchestration
      /\ g.dispatch = s.dispatch /\ g.bridge = s.bridge /\ g.launch = s.launch
      /\ g.verification = s.verification /\ g.policy = s.policy
  BY <1>3, <1>7 DEF EntryType
<1> HIDE DEF g
<1>9. StageOf(g) = StageOf(s) /\ Reached(g) = Reached(s)
  BY <1>8 DEF StageOf, Reached
<1> QED
  BY <1>6, <1>9 DEF Advances, Lags, g

\* A revived entry starts from the beginning.
LEMMA RevivedLags ==
  ASSUME NEW e \in EntryType, Coherent(e), e.bridge = "failed"
  PROVE  Lags(Revived(e))
<1> DEFINE f == [e EXCEPT !.status = "recorded", !.orchestration = "", !.dispatch = "",
                          !.bridge = "", !.launch = ""]
           s == sync_refiner_lifecycle(f)
<1>1. f \in EntryType /\ f.status = "recorded"
  BY ZenonT(60) DEF EntryType
<1>2. Coherent(f)
  BY DEF EntryType, Coherent
<1>3. StageOf(s) = Reached(f)
  BY <1>1, <1>2, SyncReaches
<1>4. Reached(s) = Reached(f)
  BY <1>1, SyncLeaves, ZenonT(60) DEF Reached
<1>5. Reached(f) \in 1 .. 8
  BY DEF Reached
<1> HIDE DEF f
<1> QED
  BY <1>3, <1>4, <1>5 DEF Lags, Revived, f

-----------------------------------------------------------------------------
(* What a command makes of a sound entry is sound, and no earlier stage.       *)

Update(e, f) == f \in EntryType /\ Sound(f) /\ StageOf(f) >= StageOf(e)

LEMMA UpdateMade ==
  ASSUME NEW e, NEW f \in EntryType, Coherent(f), Advances(e, f)
  PROVE  Update(e, f)
  BY DEF Update, Sound, Advances

\* Saving an entry as it is, recording it, and merging a follow-up into it.
LEMMA RecordedUpdates ==
  ASSUME NEW e \in EntryType, Sound(e)
  PROVE  /\ Update(e, e)
         /\ Update(e, IF e = Absent THEN NewEntry ELSE e)
         /\ Update(e, Merged(e))
<1>1. Coherent(e) /\ Lags(e)
  BY DEF Sound
<1>2. StageOf(e) \in 1 .. 8
  BY <1>1 DEF Lags
<1>3. Update(e, e)
  <2> HIDE DEF StageOf
  <2>1. StageOf(e) >= StageOf(e)
    BY <1>2
  <2> QED
    BY <2>1 DEF Update
<1>4. Update(Absent, NewEntry)
  <2>1. StageOf(NewEntry) >= StageOf(Absent)
    <3>1. StageOf(NewEntry) = 1 /\ StageOf(Absent) = 1
      BY FirstStage
    <3> HIDE DEF StageOf
    <3> QED
      BY <3>1
  <2> QED
    BY <2>1, AbsentAndNew, FirstStage, Zenon DEF Update, Sound
<1>5. CASE e = Absent
  BY <1>3, <1>4, <1>5 DEF Merged
<1>6. CASE e # Absent
  <2>1. Update(e, [e EXCEPT !.status = "recorded"])
    BY <1>1, <1>6, MergedKeeps, MergedAdvances, UpdateMade
  <2> QED
    BY <1>3, <1>6, <2>1 DEF Merged
<1> QED
  BY <1>5, <1>6

\* The commands, on an entry their finder looks for.
LEMMA CommandUpdates ==
  ASSUME NEW e \in EntryType, Sound(e)
  PROVE  /\ Pending(e) => Update(e, sync_refiner_lifecycle([e EXCEPT !.status = "completed"]))
         /\ e # Absent =>
              Update(e, sync_refiner_lifecycle([e EXCEPT !.orchestration = "prepared"]))
         /\ Prepared(e) => Update(e, sync_refiner_lifecycle([e EXCEPT !.dispatch = "ready"]))
         /\ Ready(e) => Update(e, sync_refiner_lifecycle([e EXCEPT !.bridge = "armed"]))
         /\ Armed(e) => \A x \in {"succeeded", "failed"} : Update(e, Launched(e, x))
         /\ Verifiable(e) =>
              \A v \in {"verified", "unverified"} :
                Update(e, sync_refiner_lifecycle([e EXCEPT !.verification = v]))
         /\ e.verification = "unverified" =>
              \A d \in {"escalate", "retry"} : Update(e, Policed(e, d))
<1>1. Coherent(e) /\ Lags(e)
  BY DEF Sound
<1>2. e # Absent => e.status # "absent"
  BY <1>1 DEF Coherent
<1>3. Pending(e) => Update(e, sync_refiner_lifecycle([e EXCEPT !.status = "completed"]))
  BY <1>1, CompletedKeeps, CompletedAdvances, UpdateMade
<1>4. e # Absent => Update(e, sync_refiner_lifecycle([e EXCEPT !.orchestration = "prepared"]))
  BY <1>1, <1>2, PreparedKeeps, PreparedAdvances, UpdateMade
<1>5. Prepared(e) => Update(e, sync_refiner_lifecycle([e EXCEPT !.dispatch = "ready"]))
  BY <1>1, DispatchedKeeps, DispatchedAdvances, UpdateMade
<1>6. Ready(e) => Update(e, sync_refiner_lifecycle([e EXCEPT !.bridge = "armed"]))
  BY <1>1, BridgedKeeps, BridgedAdvances, UpdateMade
<1>7. Armed(e) => \A x \in {"succeeded", "failed"} : Update(e, Launched(e, x))
  BY <1>1, LaunchedKeeps, LaunchedAdvances, UpdateMade
<1>8. Verifiable(e) =>
        \A v \in {"verified", "unverified"} :
          Update(e, sync_refiner_lifecycle([e EXCEPT !.verification = v]))
  BY <1>1, VerifiedKeeps, VerifiedAdvances, UpdateMade
<1>9. e.verification = "unverified" =>
        \A d \in {"escalate", "retry"} : Update(e, Policed(e, d))
  BY <1>1, PolicedKeeps, PolicedAdvances, UpdateMade
<1> QED
  BY <1>3, <1>4, <1>5, <1>6, <1>7, <1>8, <1>9

\* Revival starts an entry from the beginning.
LEMMA RevivalSound ==
  ASSUME NEW e \in EntryType, Sound(e), e.bridge = "failed"
  PROVE  Revived(e) \in EntryType /\ Sound(Revived(e))
  BY RevivedKeeps, RevivedLags DEF Sound

-----------------------------------------------------------------------------
(* Saves.                                                                      *)

\* The parts of the invariant.
Disk == queue \in [Key -> EntryType] /\ \A k \in Key : Sound(queue[k])
Operator ==
  /\ op = Idle \/ \E S \in SUBSET Key : op \in CommandType(S) \cup NothingType(S)
  /\ OperatorInv
Recorder == (rec = Idle \/ \E S \in SUBSET Key : rec \in RecordType(S)) /\ WatcherInv
Launches == starts \in [Key -> Nat] /\ LaunchesLeft /\ LaunchedOnce
Counters == crashes \in Nat /\ revivals \in Nat /\ records \in Nat

LEMMA PartsOfQueueInv ==
  QueueInv <=> Disk /\ Operator /\ Recorder /\ Launches /\ Counters
  BY Zenon DEF QueueInv, TypeOK, Disk, Operator, Recorder, Launches, Counters

\* What an operator inside a command holds.
LEMMA OperatorHolds ==
  ASSUME Operator, op # Idle
  PROVE  /\ DOMAIN op.loaded \in SUBSET Key
         /\ op.loaded \in [DOMAIN op.loaded -> EntryType]
         /\ \A k \in DOMAIN op.loaded : Sound(op.loaded[k])
         /\ KeysOf(Held) \subseteq DOMAIN op.loaded
         /\ CommandFits
         /\ op.command # "nothing" => op.key \in Key /\ op \in CommandType(DOMAIN op.loaded)
         /\ op.command = "nothing" => op.step = "found"
<1>1. PICK S \in SUBSET Key : op \in CommandType(S) \cup NothingType(S)
  BY DEF Operator
<1>2. op.loaded \in [S -> EntryType] /\ DOMAIN op.loaded = S
  BY <1>1 DEF CommandType, NothingType
<1>3. op.command # "nothing" => op.key \in Key /\ op \in CommandType(S)
  BY <1>1 DEF CommandType, NothingType
<1>4. op.command = "nothing" => op.step = "found"
  BY <1>1 DEF CommandType, NothingType, Finders
<1> QED
  BY <1>2, <1>3, <1>4 DEF Operator, OperatorInv

\* The entry of a command, unless its registry is still to be loaded again.
LEMMA EntryHeld ==
  ASSUME Operator, op # Idle, op.command # "nothing",
         op.step \notin {"recorded", "executed"}
  PROVE  /\ op.key \in Key /\ KeysOf({Reg[op.key]}) \subseteq DOMAIN op.loaded
         /\ op.key \in DOMAIN op.loaded
         /\ Entry \in EntryType /\ Sound(Entry)
<1>1. op.key \in Key
  BY OperatorHolds
<1>2. KeysOf({Reg[op.key]}) \subseteq KeysOf(Held)
  BY <1>1 DEF Held, KeysOf, Registries
<1>3. op.key \in KeysOf({Reg[op.key]})
  BY <1>1 DEF KeysOf
<1>4. op.key \in DOMAIN op.loaded
  BY <1>2, <1>3, OperatorHolds
<1> QED
  BY <1>1, <1>2, <1>4, OperatorHolds DEF Entry

\* A save of sound entries.
LEMMA SaveKeeps ==
  ASSUME Disk, Launches, NEW R, NEW S \in SUBSET Key, NEW data \in [S -> EntryType],
         \A k \in S : Sound(data[k]), KeysOf(R) \subseteq S, Save(R, data)
  PROVE  /\ Disk'
         /\ starts' \in [Key -> Nat] /\ LaunchedOnce'
         /\ \A k \in Key : queue'[k] = IF Reg[k] \in R THEN data[k] ELSE queue[k]
         /\ \A k \in Key : \/ starts'[k] = 0
                           \/ starts'[k] = starts[k] /\ (queue[k].launch = "" \/ queue'[k].launch # "")
<1>1. \A k \in Key : queue'[k] = IF Reg[k] \in R THEN data[k] ELSE queue[k]
  BY DEF Save
<1>2. \A k \in Key : queue'[k] \in EntryType /\ Sound(queue'[k])
  BY <1>1 DEF Disk, KeysOf
<1>3. queue' = [k \in Key |-> queue'[k]]
  BY DEF Save
<1>4. Disk'
  BY <1>2, <1>3 DEF Disk
<1>5. \A k \in Key : starts'[k] = IF queue[k].launch # "" /\ queue'[k].launch = ""
                                  THEN 0 ELSE starts[k]
  BY DEF Save
<1>6. starts' = [k \in Key |-> starts'[k]]
  BY DEF Save
<1>7. \A k \in Key : starts'[k] = 0 \/ starts'[k] = starts[k]
  BY <1>5
<1>8. \A k \in Key : starts[k] \in Nat /\ starts[k] <= 1
  BY DEF Launches, LaunchedOnce
<1>9. \A k \in Key : starts'[k] \in Nat /\ starts'[k] <= 1
  BY <1>7, <1>8
<1> QED
  BY <1>1, <1>4, <1>5, <1>6, <1>9 DEF LaunchedOnce

\* A save of one entry, over what its registry was when it was loaded.
LEMMA SaveOneKeeps ==
  ASSUME Disk, Launches, NEW S \in SUBSET Key, NEW f \in [S -> EntryType],
         \A k \in S : Sound(f[k]), NEW j \in Key, KeysOf({Reg[j]}) \subseteq S,
         NEW e \in EntryType, Sound(e), Save({Reg[j]}, [f EXCEPT ![j] = e])
  PROVE  /\ Disk'
         /\ starts' \in [Key -> Nat] /\ LaunchedOnce'
         /\ queue'[j] = e
         /\ \A k \in Key : k # j => queue'[k] = queue[k] \/ (k \in S /\ queue'[k] = f[k])
         /\ \A k \in Key : \/ starts'[k] = 0
                           \/ starts'[k] = starts[k] /\ (queue[k].launch = "" \/ queue'[k].launch # "")
<1> DEFINE data == [f EXCEPT ![j] = e]
<1>1. j \in S
  BY DEF KeysOf
<1>2. data \in [S -> EntryType] /\ data[j] = e /\ \A k \in S : k # j => data[k] = f[k]
  BY <1>1
<1>3. \A k \in S : Sound(data[k])
  BY <1>2
<1> HIDE DEF data
<1>4. /\ Disk'
      /\ starts' \in [Key -> Nat] /\ LaunchedOnce'
      /\ \A k \in Key : queue'[k] = IF Reg[k] \in {Reg[j]} THEN data[k] ELSE queue[k]
      /\ \A k \in Key : \/ starts'[k] = 0
                        \/ starts'[k] = starts[k] /\ (queue[k].launch = "" \/ queue'[k].launch # "")
  <2>1. Save({Reg[j]}, data)
    BY DEF data
  <2> QED
    BY <1>2, <1>3, <2>1, SaveKeeps
<1>5. \A k \in Key : Reg[k] \in {Reg[j]} => k \in S
  BY DEF KeysOf
<1> QED
  BY <1>1, <1>2, <1>4, <1>5

-----------------------------------------------------------------------------
(* The steps: each keeps the invariant and takes no lifecycle back but by a    *)
(* revival or a stale save.                                                    *)

Forward ==
  \A k \in Key : Revival(k) \/ StaleStep(k) \/ StageOf(queue'[k]) >= StageOf(queue[k])

LEMMA StageIsNumber ==
  ASSUME Disk, NEW k \in Key
  PROVE  queue[k] \in EntryType /\ Sound(queue[k]) /\ StageOf(queue[k]) >= StageOf(queue[k])
<1>1. queue[k] \in EntryType /\ Sound(queue[k])
  BY DEF Disk
<1> QED
  BY <1>1, RecordedUpdates DEF Update

\* A step that leaves the disk alone.
LEMMA QuietStep ==
  ASSUME QueueInv, UNCHANGED <<queue, rec, starts>>, Operator', Counters',
         ~ In("launch", "started"),
         In("launch", "select")' \/ In("launch", "run")' => starts[op'.key] = 0
  PROVE  QueueInv' /\ Forward
<1>1. Disk /\ Recorder /\ Launches
  BY PartsOfQueueInv
<1>2. Disk' /\ Recorder'
  BY <1>1 DEF Disk, Recorder, WatcherInv
<1>3. Launches'
  BY <1>1 DEF Launches, LaunchesLeft, LaunchedOnce, In
<1>4. Forward
  BY <1>1, StageIsNumber DEF Forward
<1> QED
  BY <1>2, <1>3, <1>4, PartsOfQueueInv, PTL

\* The operator is idle again.
LEMMA IdleOperator ==
  ASSUME op' = Idle
  PROVE  Operator' /\ op'.command = "none"
  BY DEF Operator, OperatorInv, Idle

\* The operator has loaded the registries R.
LEMMA CommandLoads ==
  ASSUME Disk, NEW c, NEW s, NEW k \in Key, NEW R, op' = Command(c, s, k, R), queue' = queue,
         c \in Finders \cup {"prepare", "evidence", "policy"},
         s \in {"select", "run", "record", "recorded", "revive", "follow_up", "followed_up",
                "executed", "started"}
  PROVE  /\ op' \in CommandType(KeysOf(R)) /\ KeysOf(R) \in SUBSET Key
         /\ op'.command = c /\ op'.step = s /\ op'.key = k
         /\ DOMAIN op'.loaded = KeysOf(R)
         /\ \A x \in KeysOf(R) : op'.loaded[x] = queue[x] /\ Sound(op'.loaded[x])
<1> DEFINE f == Load(R)
<1>1. KeysOf(R) \in SUBSET Key
  BY DEF KeysOf
<1>2. f \in [KeysOf(R) -> EntryType] /\ DOMAIN f = KeysOf(R)
      /\ \A x \in KeysOf(R) : f[x] = queue[x] /\ Sound(f[x])
  BY <1>1 DEF Load, Disk
<1>3. op' = [command |-> c, step |-> s, key |-> k, loaded |-> f]
  BY DEF Command
<1> HIDE DEF f
<1> QED
  BY <1>1, <1>2, <1>3 DEF CommandType

\* The operator saves one entry over what it had loaded.
LEMMA OperatorSaves ==
  ASSUME QueueInv, op # Idle, op' # op, UNCHANGED rec, Operator', Counters',
         NEW j \in Key, KeysOf({Reg[j]}) \subseteq DOMAIN op.loaded,
         NEW e \in EntryType, Sound(e), Save({Reg[j]}, [op.loaded EXCEPT ![j] = e]),
         op'.command # "launch",
         In("launch", "started") => j = op.key /\ e.launch # ""
  PROVE  /\ QueueInv'
         /\ \A k \in Key : k # j => StaleStep(k) \/ StageOf(queue'[k]) >= StageOf(queue[k])
         /\ StageOf(e) >= StageOf(op.loaded[j]) =>
              StaleStep(j) \/ StageOf(queue'[j]) >= StageOf(queue[j])
<1>1. Disk /\ Operator /\ Recorder /\ Launches
  BY PartsOfQueueInv
<1> DEFINE S == DOMAIN op.loaded
<1>2. S \in SUBSET Key /\ op.loaded \in [S -> EntryType] /\ \A k \in S : Sound(op.loaded[k])
  BY <1>1, OperatorHolds
<1>3. /\ Disk'
      /\ starts' \in [Key -> Nat] /\ LaunchedOnce'
      /\ queue'[j] = e
      /\ \A k \in Key : k # j => queue'[k] = queue[k] \/ (k \in S /\ queue'[k] = op.loaded[k])
      /\ \A k \in Key : \/ starts'[k] = 0
                        \/ starts'[k] = starts[k] /\ (queue[k].launch = "" \/ queue'[k].launch # "")
  BY <1>1, <1>2, SaveOneKeeps
<1>4. Recorder'
  BY <1>1 DEF Recorder, WatcherInv
<1>5. LaunchesLeft'
  <2>1. ~ In("launch", "select")' /\ ~ In("launch", "run")' /\ ~ In("launch", "started")'
    BY DEF In
  <2>2. ASSUME NEW k \in Key, queue'[k].launch = "" PROVE starts'[k] = 0
    <3>1. ~ (In("launch", "started") /\ op.key = k)
      BY <1>3, <2>2
    <3> QED
      BY <1>1, <1>3, <2>2, <3>1 DEF Launches, LaunchesLeft
  <2> QED
    BY <2>1, <2>2 DEF LaunchesLeft
<1>6. QueueInv'
  <2>1. Launches'
    BY <1>3, <1>5 DEF Launches
  <2> QED
    BY <1>3, <1>4, <2>1, PartsOfQueueInv, PTL
<1>7. ASSUME NEW k \in Key, k # j
      PROVE  StaleStep(k) \/ StageOf(queue'[k]) >= StageOf(queue[k])
  <2>1. CASE queue'[k] = queue[k]
    BY <1>1, <2>1, StageIsNumber
  <2>2. CASE k \in S /\ queue'[k] = op.loaded[k] /\ queue'[k] # queue[k]
    BY <2>2 DEF StaleStep
  <2> QED
    BY <1>3, <1>7, <2>1, <2>2
<1>8. ASSUME StageOf(e) >= StageOf(op.loaded[j])
      PROVE  StaleStep(j) \/ StageOf(queue'[j]) >= StageOf(queue[j])
  <2>1. j \in S
    BY DEF KeysOf
  <2> QED
    BY <1>3, <1>8, <2>1 DEF StaleStep
<1> QED
  BY <1>6, <1>7, <1>8

\* A command saves its entry and ends.
LEMMA CommandEnds ==
  ASSUME QueueInv, op # Idle, op' = Idle, UNCHANGED <<rec, bounded>>,
         op.command # "nothing", op.step \notin {"recorded", "executed"},
         NEW e, Update(Entry, e), SaveEntry(e),
         In("launch", "started") => e.launch # ""
  PROVE  QueueInv' /\ Forward
<1>1. Operator /\ Counters
  BY PartsOfQueueInv
<1>2. op.key \in Key /\ KeysOf({Reg[op.key]}) \subseteq DOMAIN op.loaded
  BY <1>1, EntryHeld
<1>3. Operator' /\ op'.command # "launch" /\ op' # op
  BY IdleOperator
<1>4. Counters'
  BY <1>1 DEF Counters, bounded
<1>5. e \in EntryType /\ Sound(e) /\ StageOf(e) >= StageOf(op.loaded[op.key])
  BY DEF Update, Entry
<1>6. Save({Reg[op.key]}, [op.loaded EXCEPT ![op.key] = e])
  BY DEF SaveEntry
<1> QED
  BY <1>2, <1>3, <1>4, <1>5, <1>6, OperatorSaves DEF Forward

\* The watcher loads a registry, or dies.
LEMMA RecordBeginStep ==
  ASSUME QueueInv, NEW k \in Key, RecordBegin(k)
  PROVE  QueueInv' /\ Forward
<1>1. Disk /\ Operator /\ Launches /\ Counters
  BY PartsOfQueueInv
<1>2. /\ rec' = [command |-> "record", key |-> k, loaded |-> Load({Reg[k]})]
      /\ records' = records + 1 /\ UNCHANGED <<queue, op, crashes, revivals, starts>>
  BY DEF RecordBegin
<1> DEFINE S == KeysOf({Reg[k]})
           f == Load({Reg[k]})
<1>3. S \in SUBSET Key /\ f \in [S -> EntryType] /\ DOMAIN f = S /\ \A x \in S : Sound(f[x])
  BY <1>1 DEF Load, Disk, KeysOf
<1>4. Recorder'
  <2>1. rec'.key = k /\ rec'.loaded = f /\ rec' \in RecordType(S)
    <3> HIDE DEF f
    <3>1. rec' = [command |-> "record", key |-> k, loaded |-> f]
      BY <1>2 DEF f
    <3> HIDE DEF S
    <3> QED
      BY <1>3, <3>1 DEF RecordType
  <2> HIDE DEF f
  <2>2. KeysOf({Reg[k]}) \subseteq DOMAIN f
    BY <1>3
  <2> QED
    BY <1>3, <2>1, <2>2 DEF Recorder, WatcherInv
<1>5. Disk' /\ Launches' /\ Counters'
  <2>1. Disk' /\ Launches'
    BY <1>1, <1>2 DEF Disk, Launches, LaunchesLeft, LaunchedOnce, In
  <2>2. Counters'
    BY <1>1, <1>2 DEF Counters
  <2> QED
    BY <2>1, <2>2
<1>6. Operator'
  BY <1>1, <1>2 DEF Operator, OperatorInv, Held, CommandFits, In, Entry
<1>7. Forward
  BY <1>1, <1>2, StageIsNumber DEF Forward
<1> QED
  BY <1>4, <1>5, <1>6, <1>7, PartsOfQueueInv, PTL

LEMMA WatcherCrashStep ==
  ASSUME QueueInv, WatcherCrash
  PROVE  QueueInv' /\ Forward
<1>1. Disk /\ Operator /\ Launches /\ Counters
  BY PartsOfQueueInv
<1>2. rec' = Idle /\ UNCHANGED <<queue, op, crashes, revivals, records, starts>>
  BY DEF WatcherCrash, bounded
<1>3. Disk' /\ Launches' /\ Counters' /\ Recorder'
  BY <1>1, <1>2 DEF Disk, Launches, LaunchesLeft, LaunchedOnce, In, Counters, Recorder,
                    WatcherInv
<1>4. Operator'
  BY <1>1, <1>2 DEF Operator, OperatorInv, Held, CommandFits, In, Entry
<1>5. Forward
  BY <1>1, <1>2, StageIsNumber DEF Forward
<1> QED
  BY <1>3, <1>4, <1>5, PartsOfQueueInv, PTL

\* The watcher saves the registry it had loaded.
LEMMA RecordEndStep ==
  ASSUME QueueInv, RecordEnd
  PROVE  QueueInv' /\ Forward
<1>1. Disk /\ Operator /\ Recorder /\ Launches /\ Counters
  BY PartsOfQueueInv
<1> DEFINE S == DOMAIN rec.loaded
           j == rec.key
           e == IF rec.loaded[j] = Absent THEN NewEntry ELSE rec.loaded[j]
<1>2. rec # Idle /\ rec' = Idle /\ UNCHANGED <<op, crashes, revivals, records>>
      /\ Save({Reg[j]}, [rec.loaded EXCEPT ![j] = e])
  BY DEF RecordEnd, bounded
<1>3. /\ S \in SUBSET Key /\ rec.loaded \in [S -> EntryType] /\ j \in Key
      /\ \A k \in S : Sound(rec.loaded[k])
      /\ KeysOf({Reg[j]}) \subseteq S
  <2>1. PICK T \in SUBSET Key : rec \in RecordType(T)
    BY <1>1, <1>2 DEF Recorder
  <2>2. rec.loaded \in [T -> EntryType] /\ DOMAIN rec.loaded = T /\ rec.key \in Key
    BY <2>1 DEF RecordType
  <2> QED
    BY <1>1, <1>2, <2>2 DEF Recorder, WatcherInv
<1>4. j \in S
  BY <1>3 DEF KeysOf
<1>5. Update(rec.loaded[j], e)
  BY <1>3, <1>4, RecordedUpdates
<1> HIDE DEF e
<1>6. e \in EntryType /\ Sound(e) /\ StageOf(e) >= StageOf(rec.loaded[j])
  BY <1>5 DEF Update
<1>7. /\ Disk'
      /\ starts' \in [Key -> Nat] /\ LaunchedOnce'
      /\ queue'[j] = e
      /\ \A k \in Key : k # j => queue'[k] = queue[k] \/ (k \in S /\ queue'[k] = rec.loaded[k])
      /\ \A k \in Key : \/ starts'[k] = 0
                        \/ starts'[k] = starts[k] /\ (queue[k].launch = "" \/ queue'[k].launch # "")
  BY <1>1, <1>2, <1>3, <1>6, SaveOneKeeps
<1>8. Launches'
  <2>1. ASSUME NEW k \in Key, queue'[k].launch = "", ~ (In("launch", "started") /\ op.key = k)
        PROVE  starts'[k] = 0
    BY <1>1, <1>7, <2>1 DEF Launches, LaunchesLeft
  <2>2. In("launch", "select") \/ In("launch", "run") => starts'[op.key] = 0
    <3> SUFFICES ASSUME In("launch", "select") \/ In("launch", "run")
                 PROVE  starts'[op.key] = 0
      OBVIOUS
    <3>1. op # Idle /\ op.command # "nothing"
      BY DEF In, Idle
    <3>2. op.key \in Key /\ starts[op.key] = 0
      BY <1>1, <3>1, OperatorHolds DEF Launches, LaunchesLeft
    <3> QED
      BY <1>7, <3>2
  <2> QED
    BY <1>2, <1>7, <2>1, <2>2 DEF Launches, LaunchesLeft, In
<1>9. Operator' /\ Recorder' /\ Counters'
  BY <1>1, <1>2 DEF Operator, OperatorInv, Held, CommandFits, In, Entry, Recorder, WatcherInv,
                    Counters
<1>10. Forward
  <2> SUFFICES ASSUME NEW k \in Key
               PROVE  StaleStep(k) \/ StageOf(queue'[k]) >= StageOf(queue[k])
    BY DEF Forward
  <2>1. rec' # rec
    BY <1>2
  <2>2. CASE queue'[k] = queue[k]
    BY <1>1, <2>2, StageIsNumber
  <2>3. CASE k # j /\ k \in S /\ queue'[k] = rec.loaded[k] /\ queue'[k] # queue[k]
    BY <1>2, <2>1, <2>3 DEF StaleStep
  <2>4. CASE k = j
    BY <1>2, <1>4, <1>6, <1>7, <2>1, <2>4 DEF StaleStep
  <2> QED
    BY <1>7, <2>2, <2>3, <2>4
<1> QED
  BY <1>7, <1>8, <1>9, <1>10, PartsOfQueueInv, PTL

\* The finders.
LEMMA FindStep ==
  ASSUME QueueInv, NEW c \in Finders, NEW k \in Key, Find(c, k)
  PROVE  QueueInv' /\ Forward
<1>1. Disk /\ Launches /\ Counters
  BY PartsOfQueueInv
<1>2. /\ op = Idle /\ Takes(c, queue[k]) /\ op' = Command(c, "select", k, Registries)
      /\ UNCHANGED <<queue, rec, crashes, revivals, records, starts>>
  BY DEF Find, bounded
<1>3. /\ op' \in CommandType(KeysOf(Registries)) /\ KeysOf(Registries) \in SUBSET Key
      /\ op'.command = c /\ op'.step = "select" /\ op'.key = k
      /\ DOMAIN op'.loaded = KeysOf(Registries)
      /\ \A x \in KeysOf(Registries) : op'.loaded[x] = queue[x] /\ Sound(op'.loaded[x])
  BY <1>1, <1>2, CommandLoads
<1>4. k \in KeysOf(Registries)
  BY DEF KeysOf, Registries
<1>5. c # "nothing" /\ c # "prepare" /\ c # "evidence" /\ c # "policy"
  BY DEF Finders
<1>6. Operator'
  <2>1. Held' = Registries
    BY <1>3, <1>5 DEF Held
  <2>2. CommandFits'
    BY <1>2, <1>3, <1>4, <1>5 DEF CommandFits, In, Entry
  <2>3. OperatorInv'
    BY <1>3, <2>1, <2>2 DEF OperatorInv
  <2> QED
    BY <1>3, <2>3 DEF Operator
<1>7. Counters' /\ ~ In("launch", "started")
  BY <1>1, <1>2 DEF Counters, In, Idle
<1>8. In("launch", "select")' \/ In("launch", "run")' => starts[op'.key] = 0
  <2> SUFFICES ASSUME c = "launch" PROVE starts[k] = 0
    BY <1>3 DEF In
  <2>1. queue[k].launch = ""
    BY <1>2 DEF Takes, Armed
  <2> QED
    BY <1>1, <1>7, <2>1 DEF Launches, LaunchesLeft
<1> QED
  BY <1>2, <1>6, <1>7, <1>8, QuietStep

LEMMA FindNothingStep ==
  ASSUME QueueInv, NEW R \in {Registries} \cup {{r} : r \in Registries}, FindNothing(R)
  PROVE  QueueInv' /\ Forward
<1>1. Disk /\ Launches /\ Counters
  BY PartsOfQueueInv
<1> DEFINE f == Load(R)
           S == KeysOf(R)
<1>2. /\ op = Idle
      /\ op' = [command |-> "nothing", step |-> "found", registries |-> R, loaded |-> f]
      /\ UNCHANGED <<queue, rec, crashes, revivals, records, starts>>
  BY DEF FindNothing, bounded
<1>3. S \in SUBSET Key /\ f \in [S -> EntryType] /\ DOMAIN f = S /\ \A x \in S : Sound(f[x])
  BY <1>1 DEF Load, Disk, KeysOf
<1>4. R \in SUBSET Registries
  OBVIOUS
<1> HIDE DEF f
<1>5. op'.command = "nothing" /\ op'.step = "found" /\ op'.registries = R /\ op'.loaded = f
  BY <1>2
<1>6. op' \in NothingType(S)
  <2> HIDE DEF S
  <2> QED
    BY <1>2, <1>3, <1>4 DEF NothingType
<1>7. Operator'
  <2>1. Held' = R
    BY <1>5 DEF Held
  <2>2. CommandFits'
    BY <1>5 DEF CommandFits, In, Finders
  <2>3. OperatorInv'
    BY <1>3, <1>5, <2>1, <2>2 DEF OperatorInv
  <2> QED
    BY <1>3, <1>6, <2>3 DEF Operator
<1>8. Counters' /\ ~ In("launch", "started") /\ ~ In("launch", "select")' /\ ~ In("launch", "run")'
  BY <1>1, <1>2, <1>5 DEF Counters, In, Idle
<1> QED
  BY <1>2, <1>7, <1>8, QuietStep

\* The finders' save: what they had loaded, of the registries R.
LEMMA SaveLoaded ==
  ASSUME QueueInv, op # Idle, op' # op, UNCHANGED <<rec, crashes, revivals, records>>, Operator',
         NEW R, KeysOf(R) \subseteq DOMAIN op.loaded, Save(R, op.loaded),
         ~ In("launch", "started"), ~ In("launch", "started")',
         In("launch", "select")' \/ In("launch", "run")' =>
           op'.key = op.key /\ In("launch", "select")
  PROVE  QueueInv' /\ Forward
<1>1. Disk /\ Operator /\ Recorder /\ Launches /\ Counters
  BY PartsOfQueueInv
<1> DEFINE S == DOMAIN op.loaded
<1>2. S \in SUBSET Key /\ op.loaded \in [S -> EntryType] /\ \A k \in S : Sound(op.loaded[k])
  BY <1>1, OperatorHolds
<1>3. /\ Disk'
      /\ starts' \in [Key -> Nat] /\ LaunchedOnce'
      /\ \A k \in Key : queue'[k] = IF Reg[k] \in R THEN op.loaded[k] ELSE queue[k]
      /\ \A k \in Key : \/ starts'[k] = 0
                        \/ starts'[k] = starts[k] /\ (queue[k].launch = "" \/ queue'[k].launch # "")
  BY <1>1, <1>2, SaveKeeps
<1>4. Launches'
  <2>1. ASSUME NEW k \in Key, queue'[k].launch = "" PROVE starts'[k] = 0
    BY <1>1, <1>3, <2>1 DEF Launches, LaunchesLeft
  <2>2. ASSUME In("launch", "select")' \/ In("launch", "run")' PROVE starts'[op'.key] = 0
    <3>1. op'.key = op.key /\ In("launch", "select")
      BY <2>2
    <3>2. op.key \in Key
      BY <1>1, <3>1, OperatorHolds DEF In
    <3>3. starts[op.key] = 0
      BY <1>1, <3>1 DEF Launches, LaunchesLeft
    <3> QED
      BY <1>3, <3>1, <3>2, <3>3
  <2> QED
    BY <1>3, <2>1, <2>2 DEF Launches, LaunchesLeft
<1>5. Recorder' /\ Counters'
  BY <1>1 DEF Recorder, WatcherInv, Counters
<1>6. Forward
  <2> SUFFICES ASSUME NEW k \in Key
               PROVE  StaleStep(k) \/ StageOf(queue'[k]) >= StageOf(queue[k])
    BY DEF Forward
  <2>1. CASE queue'[k] = queue[k]
    BY <1>1, <2>1, StageIsNumber
  <2>2. CASE queue'[k] # queue[k]
    <3>1. Reg[k] \in R /\ queue'[k] = op.loaded[k]
      BY <1>3, <2>2
    <3>2. k \in S
      BY <3>1 DEF KeysOf
    <3> QED
      BY <2>2, <3>1, <3>2 DEF StaleStep
  <2> QED
    BY <2>1, <2>2
<1> QED
  BY <1>3, <1>4, <1>5, <1>6, PartsOfQueueInv, PTL

LEMMA SelectEndStep ==
  ASSUME QueueInv, SelectEnd
  PROVE  QueueInv' /\ Forward
<1>1. Disk /\ Operator
  BY PartsOfQueueInv
<1> DEFINE T == KeysOf({Reg[op.key]})
           f == [k \in T |-> op.loaded[k]]
<1>2. /\ op # Idle /\ op.step = "select" /\ Save(Registries, op.loaded)
      /\ op' = [op EXCEPT !.step = "run", !.loaded = f]
      /\ UNCHANGED <<rec, crashes, revivals, records>>
  BY DEF SelectEnd, bounded
<1>3. op.command # "nothing"
  BY <1>1, <1>2, OperatorHolds
<1>4. op.key \in Key /\ op \in CommandType(DOMAIN op.loaded) /\ CommandFits
  BY <1>1, <1>2, <1>3, OperatorHolds
<1>5. KeysOf(Registries) \subseteq DOMAIN op.loaded
  BY <1>1, <1>2, <1>3, OperatorHolds DEF Held
<1>6. T \in SUBSET Key /\ T \subseteq DOMAIN op.loaded /\ op.key \in T
  BY <1>4, <1>5 DEF KeysOf, Registries
<1>7. f \in [T -> EntryType] /\ DOMAIN f = T /\ f[op.key] = op.loaded[op.key]
      /\ \A k \in T : Sound(f[k])
  BY <1>1, <1>2, <1>6, OperatorHolds
<1> HIDE DEF f, T
<1>8. op'.command = op.command /\ op'.step = "run" /\ op'.key = op.key /\ op'.loaded = f
      /\ op' \in CommandType(T)
  BY <1>2, <1>4, <1>7 DEF CommandType
<1>9. op.command \in Finders /\ Takes(op.command, Entry)
  BY <1>2, <1>4 DEF CommandFits
<1>10. Operator'
  <2>1. Held' = {Reg[op.key]}
    BY <1>3, <1>8 DEF Held
  <2>2. Entry' = Entry
    BY <1>7, <1>8 DEF Entry
  <2>3. op.command # "prepare" /\ op.command # "evidence" /\ op.command # "policy"
    BY <1>9 DEF Finders
  <2>4. CommandFits'
    BY <1>8, <1>9, <2>2, <2>3 DEF CommandFits, In
  <2>5. OperatorInv'
    BY <1>7, <1>8, <2>1, <2>4 DEF OperatorInv, T
  <2> QED
    BY <1>6, <1>8, <2>5 DEF Operator
<1>11. op' # op /\ ~ In("launch", "started") /\ ~ In("launch", "started")'
  BY <1>2, <1>8 DEF In
<1>12. In("launch", "select")' \/ In("launch", "run")' =>
         op'.key = op.key /\ In("launch", "select")
  BY <1>2, <1>8 DEF In
<1> QED
  BY <1>2, <1>5, <1>10, <1>11, <1>12, SaveLoaded

LEMMA NothingEndStep ==
  ASSUME QueueInv, NothingEnd
  PROVE  QueueInv' /\ Forward
<1>1. Operator
  BY PartsOfQueueInv
<1>2. /\ op.command = "nothing" /\ op.step = "found" /\ Save(op.registries, op.loaded)
      /\ op' = Idle /\ UNCHANGED <<rec, crashes, revivals, records>>
  BY DEF NothingEnd, In, bounded
<1>3. op # Idle
  BY <1>2 DEF Idle
<1>4. KeysOf(op.registries) \subseteq DOMAIN op.loaded
  BY <1>1, <1>2, <1>3, OperatorHolds DEF Held
<1>5. Operator' /\ op'.command = "none"
  BY <1>2, IdleOperator
<1>6. ~ In("launch", "started") /\ ~ In("launch", "started")'
      /\ ~ In("launch", "select")' /\ ~ In("launch", "run")'
  BY <1>2, <1>5 DEF In
<1> QED
  BY <1>2, <1>3, <1>4, <1>5, <1>6, SaveLoaded

\* queue_latest_evidence_review_followup
LEMMA EvidenceBeginStep ==
  ASSUME QueueInv, NEW k \in Key, EvidenceBegin(k) \/ PolicyBegin(k)
  PROVE  QueueInv' /\ Forward
<1>1. Disk /\ Counters
  BY PartsOfQueueInv
<1>2. PICK c \in {"evidence", "policy"}, s \in {"record", "run"} :
        /\ op' = Command(c, s, k, {Reg[k]})
        /\ c = "evidence" => s = "record"
        /\ c = "policy" => s = "run" /\ queue[k].verification = "unverified"
  BY DEF EvidenceBegin, PolicyBegin, PolicyCandidate
<1>3. op = Idle /\ UNCHANGED <<queue, rec, crashes, revivals, records, starts>>
  BY DEF EvidenceBegin, PolicyBegin, bounded
<1>4. /\ op' \in CommandType(KeysOf({Reg[k]})) /\ KeysOf({Reg[k]}) \in SUBSET Key
      /\ op'.command = c /\ op'.step = s /\ op'.key = k
      /\ DOMAIN op'.loaded = KeysOf({Reg[k]})
      /\ \A x \in KeysOf({Reg[k]}) : op'.loaded[x] = queue[x] /\ Sound(op'.loaded[x])
  BY <1>1, <1>2, <1>3, CommandLoads
<1>5. k \in KeysOf({Reg[k]})
  BY DEF KeysOf
<1>6. Operator'
  <2>1. Held' = {Reg[k]}
    BY <1>4 DEF Held
  <2>2. CommandFits'
    BY <1>2, <1>4, <1>5 DEF CommandFits, In, Entry, Finders
  <2>3. OperatorInv'
    BY <1>4, <2>1, <2>2 DEF OperatorInv
  <2> QED
    BY <1>4, <2>3 DEF Operator
<1>7. Counters' /\ ~ In("launch", "started") /\ ~ In("launch", "select")' /\ ~ In("launch", "run")'
  BY <1>1, <1>3, <1>4 DEF Counters, In, Idle
<1> QED
  BY <1>3, <1>6, <1>7, QuietStep

LEMMA EvidenceSaveStep ==
  ASSUME QueueInv, EvidenceSave
  PROVE  QueueInv' /\ Forward
<1>1. Disk /\ Operator /\ Counters
  BY PartsOfQueueInv
<1> DEFINE e == IF Entry = Absent THEN NewEntry ELSE Entry
<1>2. /\ op.command = "evidence" /\ op.step = "record" /\ SaveEntry(e)
      /\ UNCHANGED <<rec, crashes, revivals, records>>
      /\ op' = Idle \/ op' = [op EXCEPT !.step = "recorded", !.loaded = Load({})]
  BY DEF EvidenceSave, In, bounded
<1>3. op # Idle /\ ~ In("launch", "started")
  BY <1>2 DEF Idle, In
<1>4. /\ op.key \in Key /\ KeysOf({Reg[op.key]}) \subseteq DOMAIN op.loaded
      /\ Entry \in EntryType /\ Sound(Entry)
  BY <1>1, <1>2, <1>3, EntryHeld
<1>5. e \in EntryType /\ Sound(e) /\ StageOf(e) >= StageOf(op.loaded[op.key])
  BY <1>4, RecordedUpdates DEF Update, Entry
<1>6. Save({Reg[op.key]}, [op.loaded EXCEPT ![op.key] = e])
  BY <1>2 DEF SaveEntry
<1> HIDE DEF e
<1>7. Operator' /\ op'.command # "launch" /\ op' # op
  <2>1. CASE op' = Idle
    BY <1>3, <2>1, IdleOperator
  <2>2. CASE op' = [op EXCEPT !.step = "recorded", !.loaded = Load({})]
    <3>1. op \in CommandType(DOMAIN op.loaded)
      BY <1>1, <1>2, <1>3, OperatorHolds
    <3>2. Load({}) \in [{} -> EntryType] /\ DOMAIN Load({}) = {}
      BY DEF Load, KeysOf
    <3>3. op'.command = "evidence" /\ op'.step = "recorded" /\ op'.loaded = Load({})
          /\ op' \in CommandType({})
      BY <1>2, <2>2, <3>1, <3>2 DEF CommandType
    <3>4. KeysOf(Held') = {}
      BY <3>3 DEF Held, KeysOf
    <3>5. CommandFits'
      BY <3>3 DEF CommandFits, In, Finders
    <3>6. OperatorInv'
      BY <3>2, <3>3, <3>4, <3>5 DEF OperatorInv
    <3> QED
      BY <1>2, <3>3, <3>6 DEF Operator
  <2> QED
    BY <1>2, <2>1, <2>2
<1>8. Counters'
  BY <1>1, <1>2 DEF Counters
<1> QED
  BY <1>2, <1>3, <1>4, <1>5, <1>6, <1>7, <1>8, OperatorSaves DEF Forward

LEMMA EvidenceReloadStep ==
  ASSUME QueueInv, EvidenceReload
  PROVE  QueueInv' /\ Forward
<1>1. Disk /\ Operator /\ Counters
  BY PartsOfQueueInv
<1>2. /\ op.command = "evidence" /\ op.step = "recorded"
      /\ UNCHANGED <<queue, rec, crashes, revivals, records, starts>>
  BY DEF EvidenceReload, In, bounded
<1>3. op # Idle /\ ~ In("launch", "started")
  BY <1>2 DEF Idle, In
<1>4. Counters'
  BY <1>1, <1>2 DEF Counters
<1>5. CASE op' = Idle
  BY <1>2, <1>3, <1>4, <1>5, IdleOperator, QuietStep DEF In
<1>6. CASE /\ queue[op.key].bridge = "failed"
           /\ op' = Command("evidence", "revive", op.key, {Reg[op.key]})
  <2> DEFINE k == op.key
  <2>1. k \in Key
    BY <1>1, <1>2, <1>3, OperatorHolds
  <2> HIDE DEF k
  <2>2. /\ op' \in CommandType(KeysOf({Reg[k]})) /\ KeysOf({Reg[k]}) \in SUBSET Key
        /\ op'.command = "evidence" /\ op'.step = "revive" /\ op'.key = k
        /\ DOMAIN op'.loaded = KeysOf({Reg[k]})
        /\ \A x \in KeysOf({Reg[k]}) : op'.loaded[x] = queue[x] /\ Sound(op'.loaded[x])
    <3>1. op' = Command("evidence", "revive", k, {Reg[k]})
      BY <1>6 DEF k
    <3> QED
      BY <1>1, <1>2, <2>1, <3>1, CommandLoads
  <2>3. k \in KeysOf({Reg[k]}) /\ queue[k].bridge = "failed"
    BY <1>6, <2>1 DEF KeysOf, k
  <2>4. Operator'
    <3>1. Held' = {Reg[k]}
      BY <2>2 DEF Held
    <3>2. CommandFits'
      BY <2>2, <2>3 DEF CommandFits, In, Entry, Finders
    <3>3. OperatorInv'
      BY <2>2, <3>1, <3>2 DEF OperatorInv
    <3> QED
      BY <2>2, <3>3 DEF Operator
  <2> QED
    BY <1>2, <1>3, <1>4, <2>2, <2>4, QuietStep DEF In
<1> QED
  BY <1>5, <1>6 DEF EvidenceReload

\* A revival sets its own entry back, and no other.
LEMMA ReviveStep ==
  ASSUME QueueInv, Revive
  PROVE  QueueInv' /\ Forward
<1>1. Operator /\ Counters
  BY PartsOfQueueInv
<1>2. /\ op.command = "evidence" /\ op.step = "revive" /\ SaveEntry(Revived(Entry))
      /\ revivals' = revivals + 1 /\ op' = Idle /\ UNCHANGED <<rec, crashes, records>>
  BY DEF Revive, In
<1>3. op # Idle /\ ~ In("launch", "started") /\ In("evidence", "revive")
  BY <1>2 DEF Idle, In
<1>4. /\ op.key \in Key /\ KeysOf({Reg[op.key]}) \subseteq DOMAIN op.loaded
      /\ Entry \in EntryType /\ Sound(Entry)
  BY <1>1, <1>2, <1>3, EntryHeld
<1>5. Entry.bridge = "failed"
  BY <1>1, <1>3, OperatorHolds DEF CommandFits
<1>6. Revived(Entry) \in EntryType /\ Sound(Revived(Entry))
  BY <1>4, <1>5, RevivalSound
<1>7. Save({Reg[op.key]}, [op.loaded EXCEPT ![op.key] = Revived(Entry)])
  BY <1>2 DEF SaveEntry
<1>8. Operator' /\ op'.command # "launch" /\ op' # op
  BY <1>2, <1>3, IdleOperator
<1>9. revivals \in Nat /\ Counters'
  BY <1>1, <1>2 DEF Counters
<1>10. /\ QueueInv'
       /\ \A k \in Key : k # op.key => StaleStep(k) \/ StageOf(queue'[k]) >= StageOf(queue[k])
  BY <1>2, <1>3, <1>4, <1>6, <1>7, <1>8, <1>9, OperatorSaves
<1>11. Revival(op.key)
  <2>1. revivals' # revivals
    BY <1>2, <1>9
  <2> QED
    BY <1>3, <2>1 DEF Revival
<1> QED
  BY <1>10, <1>11 DEF Forward

\* execute_next_refiner_action, when it queues a follow-up.
LEMMA FollowUpBeginStep ==
  ASSUME QueueInv, FollowUpBegin
  PROVE  QueueInv' /\ Forward
<1>1. Disk /\ Operator /\ Counters
  BY PartsOfQueueInv
<1> DEFINE k == op.key
           j == FollowUp[k]
           T == KeysOf({Reg[k], Reg[j]})
           f == [x \in T |-> IF Reg[x] = Reg[k] THEN op.loaded[x] ELSE queue[x]]
<1>2. /\ op.command = "execute" /\ op.step = "run" /\ k \in Review
      /\ op' = [op EXCEPT !.step = "follow_up", !.loaded = f]
      /\ UNCHANGED <<queue, rec, crashes, revivals, records, starts>>
  BY DEF FollowUpBegin, In, bounded
<1>3. op # Idle /\ ~ In("launch", "started")
  BY <1>2 DEF Idle, In
<1>4. k \in Key /\ KeysOf({Reg[k]}) \subseteq DOMAIN op.loaded
  BY <1>1, <1>2, <1>3, EntryHeld
<1>5. op \in CommandType(DOMAIN op.loaded) /\ CommandFits
      /\ \A x \in DOMAIN op.loaded : op.loaded[x] \in EntryType /\ Sound(op.loaded[x])
  BY <1>1, <1>2, <1>3, OperatorHolds
<1>6. T \in SUBSET Key /\ k \in T
  BY <1>4 DEF KeysOf
<1>7. \A x \in T : f[x] \in EntryType /\ Sound(f[x])
  <2> SUFFICES ASSUME NEW x \in T PROVE f[x] \in EntryType /\ Sound(f[x])
    BY Zenon
  <2>1. CASE Reg[x] = Reg[k]
    <3>1. x \in DOMAIN op.loaded
      BY <1>4, <1>6, <2>1 DEF KeysOf
    <3> QED
      BY <1>5, <2>1, <3>1
  <2>2. CASE Reg[x] # Reg[k]
    BY <1>1, <1>6, <2>2 DEF Disk
  <2> QED
    BY <2>1, <2>2
<1>8. f \in [T -> EntryType] /\ DOMAIN f = T /\ f[k] = op.loaded[k]
  BY <1>6, <1>7
<1>a. Reg[j] = Reg[FollowUp[k]]
  OBVIOUS
<1> HIDE DEF f, T
<1>9. op'.command = "execute" /\ op'.step = "follow_up" /\ op'.key = k /\ op'.loaded = f
      /\ op' \in CommandType(T)
  BY <1>2, <1>5, <1>8 DEF CommandType
<1>10. Operator'
  <2>1. Held' = {Reg[k], Reg[j]}
    BY <1>9 DEF Held
  <2>2. CommandFits'
    <3>1. Entry' = Entry
      BY <1>8, <1>9 DEF Entry
    <3>2. Takes("execute", Entry)
      BY <1>2, <1>5 DEF CommandFits, Finders
    <3> QED
      BY <1>2, <1>9, <3>1, <3>2 DEF CommandFits, In, Finders
  <2>3. OperatorInv'
    BY <1>7, <1>8, <1>9, <2>1, <2>2 DEF OperatorInv, T
  <2> QED
    BY <1>6, <1>9, <2>3 DEF Operator
<1>11. Counters' /\ ~ In("launch", "select")' /\ ~ In("launch", "run")'
  BY <1>1, <1>2, <1>9 DEF Counters, In
<1> QED
  BY <1>2, <1>3, <1>10, <1>11, QuietStep

LEMMA FollowUpEndStep ==
  ASSUME QueueInv, FollowUpEnd
  PROVE  QueueInv' /\ Forward
<1>1. Disk /\ Operator /\ Counters
  BY PartsOfQueueInv
<1> DEFINE k == op.key
           j == FollowUp[k]
           S == DOMAIN op.loaded
           e == Merged(op.loaded[j])
<1>2. /\ op.command = "execute" /\ op.step = "follow_up"
      /\ Save({Reg[j]}, [op.loaded EXCEPT ![j] = e])
      /\ op' = [op EXCEPT !.step = "followed_up"]
      /\ UNCHANGED <<rec, crashes, revivals, records>>
  BY DEF FollowUpEnd, In, bounded
<1>3. op # Idle /\ ~ In("launch", "started") /\ In("execute", "follow_up")
  BY <1>2 DEF Idle, In
<1>4. /\ op \in CommandType(S) /\ CommandFits /\ k \in Key
      /\ S \in SUBSET Key
      /\ \A x \in S : op.loaded[x] \in EntryType /\ Sound(op.loaded[x])
      /\ KeysOf({Reg[k], Reg[j]}) \subseteq S
  BY <1>1, <1>2, <1>3, OperatorHolds DEF Held
<1>5. k \in Review /\ j \in Key
  BY <1>3, <1>4, QueueAssumption DEF CommandFits
<1>6. KeysOf({Reg[j]}) \subseteq S /\ KeysOf({Reg[k]}) \subseteq S /\ j \in S /\ k \in S
  BY <1>4, <1>5 DEF KeysOf
<1>7. e \in EntryType /\ Sound(e) /\ StageOf(e) >= StageOf(op.loaded[j])
  BY <1>4, <1>6, RecordedUpdates DEF Update
<1> HIDE DEF e, j, S
<1>8. op'.command = "execute" /\ op'.step = "followed_up" /\ op'.key = k
      /\ op'.loaded = op.loaded /\ op' \in CommandType(S)
  BY <1>2, <1>4 DEF CommandType
<1>9. Operator'
  <2>1. Held' = {Reg[k]}
    BY <1>8 DEF Held
  <2>2. CommandFits'
    <3>1. Entry' = Entry
      BY <1>8 DEF Entry
    <3>2. Takes("execute", Entry)
      BY <1>2, <1>4 DEF CommandFits, Finders
    <3> QED
      BY <1>5, <1>8, <3>1, <3>2 DEF CommandFits, In, Finders
  <2>3. OperatorInv'
    BY <1>4, <1>6, <1>8, <2>1, <2>2 DEF OperatorInv, S
  <2> QED
    BY <1>4, <1>8, <2>3 DEF Operator
<1>10. op' # op /\ op'.command # "launch" /\ Counters'
  BY <1>1, <1>2, <1>8 DEF Counters
<1>11. KeysOf({Reg[j]}) \subseteq DOMAIN op.loaded
  BY <1>6 DEF S
<1> QED
  BY <1>2, <1>3, <1>5, <1>7, <1>9, <1>10, <1>11, OperatorSaves DEF Forward

\* execute_next_refiner_action ends; its caller goes on to prepare the entry.
LEMMA ExecuteEndStep ==
  ASSUME QueueInv, ExecuteEnd
  PROVE  QueueInv' /\ Forward
<1>1. Operator /\ Counters
  BY PartsOfQueueInv
<1> DEFINE e == sync_refiner_lifecycle([Entry EXCEPT !.status = "completed"])
<1>2. /\ op.command = "execute" /\ op.step \in {"run", "followed_up"} /\ SaveEntry(e)
      /\ op' = [op EXCEPT !.command = "prepare", !.step = "executed", !.loaded = Load({})]
      /\ UNCHANGED <<rec, crashes, revivals, records>>
  BY DEF ExecuteEnd, In, bounded
<1>3. op # Idle /\ ~ In("launch", "started")
  BY <1>2 DEF Idle, In
<1>4. /\ op.key \in Key /\ KeysOf({Reg[op.key]}) \subseteq DOMAIN op.loaded
      /\ Entry \in EntryType /\ Sound(Entry)
  BY <1>1, <1>2, <1>3, EntryHeld
<1>5. op \in CommandType(DOMAIN op.loaded) /\ CommandFits
  BY <1>1, <1>2, <1>3, OperatorHolds
<1>6. Pending(Entry)
  BY <1>2, <1>5 DEF CommandFits, Finders, Takes
<1>7. Update(Entry, e)
  BY <1>4, <1>6, CommandUpdates
<1> HIDE DEF e
<1>8. e \in EntryType /\ Sound(e) /\ StageOf(e) >= StageOf(op.loaded[op.key])
  BY <1>7 DEF Update, Entry
<1>9. Save({Reg[op.key]}, [op.loaded EXCEPT ![op.key] = e])
  BY <1>2 DEF SaveEntry
<1>10. Load({}) \in [{} -> EntryType] /\ DOMAIN Load({}) = {}
  BY DEF Load, KeysOf
<1>11. op'.command = "prepare" /\ op'.step = "executed" /\ op'.loaded = Load({})
       /\ op' \in CommandType({})
  BY <1>2, <1>5, <1>10 DEF CommandType
<1>12. Operator'
  <2>1. KeysOf(Held') = {}
    BY <1>11 DEF Held, KeysOf
  <2>2. CommandFits'
    BY <1>11 DEF CommandFits, In, Finders
  <2>3. OperatorInv'
    BY <1>10, <1>11, <2>1, <2>2 DEF OperatorInv
  <2> QED
    BY <1>11, <2>3 DEF Operator
<1>13. op' # op /\ op'.command # "launch" /\ Counters'
  BY <1>1, <1>2, <1>11 DEF Counters
<1> QED
  BY <1>2, <1>3, <1>4, <1>8, <1>9, <1>12, <1>13, OperatorSaves DEF Forward

LEMMA PrepareBeginStep ==
  ASSUME QueueInv, PrepareBegin
  PROVE  QueueInv' /\ Forward
<1>1. Disk /\ Operator /\ Counters
  BY PartsOfQueueInv
<1>2. /\ op.command = "prepare" /\ op.step = "executed"
      /\ UNCHANGED <<queue, rec, crashes, revivals, records, starts>>
  BY DEF PrepareBegin, In, bounded
<1>3. op # Idle /\ ~ In("launch", "started")
  BY <1>2 DEF Idle, In
<1>4. Counters'
  BY <1>1, <1>2 DEF Counters
<1>5. CASE op' = Idle
  BY <1>2, <1>3, <1>4, <1>5, IdleOperator, QuietStep DEF In
<1>6. CASE queue[op.key] # Absent /\ op' = Command("prepare", "run", op.key, {Reg[op.key]})
  <2> DEFINE k == op.key
  <2>1. k \in Key
    BY <1>1, <1>2, <1>3, OperatorHolds
  <2> HIDE DEF k
  <2>2. /\ op' \in CommandType(KeysOf({Reg[k]})) /\ KeysOf({Reg[k]}) \in SUBSET Key
        /\ op'.command = "prepare" /\ op'.step = "run" /\ op'.key = k
        /\ DOMAIN op'.loaded = KeysOf({Reg[k]})
        /\ \A x \in KeysOf({Reg[k]}) : op'.loaded[x] = queue[x] /\ Sound(op'.loaded[x])
    <3>1. op' = Command("prepare", "run", k, {Reg[k]})
      BY <1>6 DEF k
    <3> QED
      BY <1>1, <1>2, <2>1, <3>1, CommandLoads
  <2>3. k \in KeysOf({Reg[k]}) /\ queue[k] # Absent
    BY <1>6, <2>1 DEF KeysOf, k
  <2>4. Operator'
    <3>1. Held' = {Reg[k]}
      BY <2>2 DEF Held
    <3>2. CommandFits'
      BY <2>2, <2>3 DEF CommandFits, In, Entry, Finders
    <3>3. OperatorInv'
      BY <2>2, <3>1, <3>2 DEF OperatorInv
    <3> QED
      BY <2>2, <3>3 DEF Operator
  <2> QED
    BY <1>2, <1>3, <1>4, <2>2, <2>4, QuietStep DEF In
<1> QED
  BY <1>5, <1>6 DEF PrepareBegin

\* The commands that end with the save of their entry.
LEMMA CommandStep ==
  ASSUME QueueInv,
         PrepareEnd \/ Dispatch \/ Bridge \/ LaunchMissing \/ LaunchEnd \/ Verify \/ PolicyEnd
  PROVE  QueueInv' /\ Forward
<1>1. Operator
  BY PartsOfQueueInv
<1>2. /\ op' = Idle /\ UNCHANGED <<rec, bounded>>
      /\ op.command \in {"prepare", "dispatch", "bridge", "launch", "verify", "policy"}
      /\ op.step \in {"run", "started"}
  BY DEF PrepareEnd, Dispatch, Bridge, LaunchMissing, LaunchEnd, Verify, PolicyEnd, In
<1>3. op # Idle
  BY <1>2 DEF Idle
<1>4. Entry \in EntryType /\ Sound(Entry) /\ CommandFits
  BY <1>1, <1>2, <1>3, EntryHeld, OperatorHolds
<1>5. ASSUME NEW e, Update(Entry, e), SaveEntry(e), In("launch", "started") => e.launch # ""
      PROVE  QueueInv' /\ Forward
  BY <1>2, <1>3, <1>5, CommandEnds
<1>6. CASE PrepareEnd
  <2>1. Entry # Absent
    BY <1>4, <1>6 DEF PrepareEnd, CommandFits
  <2>2. ~ In("launch", "started")
    BY <1>6 DEF PrepareEnd, In
  <2> QED
    BY <1>4, <1>5, <1>6, <2>1, <2>2, CommandUpdates DEF PrepareEnd
<1>7. CASE Dispatch
  <2>1. Prepared(Entry)
    BY <1>4, <1>7 DEF Dispatch, CommandFits, In, Finders, Takes
  <2>2. ~ In("launch", "started")
    BY <1>7 DEF Dispatch, In
  <2> QED
    BY <1>4, <1>5, <1>7, <2>1, <2>2, CommandUpdates DEF Dispatch
<1>8. CASE Bridge
  <2>1. Ready(Entry)
    BY <1>4, <1>8 DEF Bridge, CommandFits, In, Finders, Takes
  <2>2. ~ In("launch", "started")
    BY <1>8 DEF Bridge, In
  <2> QED
    BY <1>4, <1>5, <1>8, <2>1, <2>2, CommandUpdates DEF Bridge
<1>9. CASE LaunchMissing \/ LaunchEnd
  <2>1. Armed(Entry)
    BY <1>4, <1>9 DEF LaunchMissing, LaunchEnd, CommandFits, In, Finders, Takes
  <2>2. PICK x \in {"succeeded", "failed"} : SaveEntry(Launched(Entry, x))
    BY <1>9 DEF LaunchMissing, LaunchEnd
  <2>3. Launched(Entry, x).launch # ""
    BY <1>4, <2>1, LaunchedKeeps DEF Sound
  <2> QED
    BY <1>4, <1>5, <2>1, <2>2, <2>3, CommandUpdates
<1>10. CASE Verify
  <2>1. Verifiable(Entry)
    BY <1>4, <1>10 DEF Verify, CommandFits, In, Finders, Takes
  <2>2. ~ In("launch", "started")
    BY <1>10 DEF Verify, In
  <2>3. PICK v \in {"verified", "unverified"} :
          SaveEntry(sync_refiner_lifecycle([Entry EXCEPT !.verification = v]))
    BY <1>10 DEF Verify
  <2> QED
    BY <1>4, <1>5, <2>1, <2>2, <2>3, CommandUpdates
<1>11. CASE PolicyEnd
  <2>1. Entry.verification = "unverified"
    BY <1>4, <1>11 DEF PolicyEnd, CommandFits, In
  <2>2. ~ In("launch", "started")
    BY <1>11 DEF PolicyEnd, In
  <2>3. PICK d \in {"escalate", "retry"} : SaveEntry(Policed(Entry, d))
    BY <1>11 DEF PolicyEnd, decide_verification_policy
  <2> QED
    BY <1>4, <1>5, <2>1, <2>2, <2>3, CommandUpdates
<1> QED
  BY <1>6, <1>7, <1>8, <1>9, <1>10, <1>11

\* launch_next_refiner_bridge starts a script that was not started.
LEMMA LaunchBeginStep ==
  ASSUME QueueInv, LaunchBegin
  PROVE  QueueInv' /\ Forward
<1>1. Disk /\ Operator /\ Recorder /\ Launches /\ Counters
  BY PartsOfQueueInv
<1>2. /\ op.command = "launch" /\ op.step = "run" /\ op' = [op EXCEPT !.step = "started"]
      /\ starts' = [starts EXCEPT ![op.key] = @ + 1]
      /\ UNCHANGED <<queue, rec, crashes, revivals, records>>
  BY DEF LaunchBegin, In, bounded
<1>3. op # Idle
  BY <1>2 DEF Idle
<1>4. /\ op.key \in Key /\ op \in CommandType(DOMAIN op.loaded) /\ CommandFits
      /\ DOMAIN op.loaded \in SUBSET Key /\ KeysOf({Reg[op.key]}) \subseteq DOMAIN op.loaded
      /\ \A k \in DOMAIN op.loaded : Sound(op.loaded[k])
  BY <1>1, <1>2, <1>3, OperatorHolds, EntryHeld
<1>5. op'.command = "launch" /\ op'.step = "started" /\ op'.key = op.key
      /\ op'.loaded = op.loaded /\ op' \in CommandType(DOMAIN op.loaded)
  BY <1>2, <1>4 DEF CommandType
<1>6. Operator'
  <2>1. Held' = {Reg[op.key]}
    BY <1>5 DEF Held
  <2>2. CommandFits'
    <3>1. Entry' = Entry
      BY <1>5 DEF Entry
    <3>2. Takes("launch", Entry)
      BY <1>2, <1>4 DEF CommandFits, Finders
    <3> QED
      BY <1>5, <3>1, <3>2 DEF CommandFits, In, Finders
  <2>3. OperatorInv'
    BY <1>4, <1>5, <2>1, <2>2 DEF OperatorInv
  <2> QED
    BY <1>4, <1>5, <2>3 DEF Operator
<1>7. Launches'
  <2>1. starts \in [Key -> Nat] /\ starts[op.key] = 0
    BY <1>1, <1>2 DEF Launches, LaunchesLeft, In
  <2>2. starts' \in [Key -> Nat] /\ starts'[op.key] = 1
        /\ \A k \in Key : k # op.key => starts'[k] = starts[k]
    BY <1>2, <1>4, <2>1
  <2>3. \A k \in Key : starts'[k] <= 1
    BY <1>1, <2>2 DEF Launches, LaunchedOnce
  <2>4. ~ In("launch", "started")
    BY <1>2 DEF In
  <2>5. \A k \in Key : queue[k].launch = "" /\ k # op.key => starts'[k] = 0
    BY <1>1, <2>2, <2>4 DEF Launches, LaunchesLeft
  <2>6. LaunchesLeft'
    BY <1>2, <1>5, <2>5 DEF LaunchesLeft, In
  <2> QED
    BY <2>2, <2>3, <2>6 DEF Launches, LaunchedOnce
<1>8. Disk' /\ Recorder' /\ Counters'
  BY <1>1, <1>2 DEF Disk, Recorder, WatcherInv, Counters
<1>9. Forward
  BY <1>1, <1>2, StageIsNumber DEF Forward
<1> QED
  BY <1>6, <1>7, <1>8, <1>9, PartsOfQueueInv, PTL

LEMMA CrashStep ==
  ASSUME QueueInv, Crash
  PROVE  QueueInv' /\ Forward
<1>1. Disk /\ Operator /\ Recorder /\ Launches /\ Counters
  BY PartsOfQueueInv
<1>2. /\ op # Idle /\ op' = Idle /\ crashes' = crashes + 1
      /\ starts' = IF In("launch", "started") THEN [starts EXCEPT ![op.key] = 0] ELSE starts
      /\ UNCHANGED <<queue, rec, revivals, records>>
  BY DEF Crash
<1>3. Operator' /\ op'.command = "none"
  BY <1>2, IdleOperator
<1>4. starts \in [Key -> Nat]
  BY <1>1 DEF Launches
<1>5. /\ starts' \in [Key -> Nat]
      /\ \A k \in Key : starts'[k] = starts[k] \/ starts'[k] = 0
      /\ In("launch", "started") => op.key \in Key /\ starts'[op.key] = 0
  <2>1. CASE In("launch", "started")
    <3>1. op.key \in Key
      BY <1>1, <1>2, <2>1, OperatorHolds DEF In
    <3> QED
      BY <1>2, <1>4, <2>1, <3>1
  <2>2. CASE ~ In("launch", "started")
    BY <1>2, <1>4, <2>2
  <2> QED
    BY <2>1, <2>2
<1>6. Launches'
  <2>1. ASSUME NEW k \in Key, queue[k].launch = "" PROVE starts'[k] = 0
    BY <1>1, <1>5, <2>1 DEF Launches, LaunchesLeft
  <2>2. \A k \in Key : starts'[k] <= 1
    BY <1>1, <1>5 DEF Launches, LaunchedOnce
  <2>3. LaunchesLeft'
    BY <1>2, <1>3, <2>1 DEF LaunchesLeft, In
  <2> QED
    BY <1>5, <2>2, <2>3 DEF Launches, LaunchedOnce
<1>7. Disk' /\ Recorder'
  BY <1>1, <1>2 DEF Disk, Recorder, WatcherInv
<1>8. Counters'
  BY <1>1, <1>2 DEF Counters
<1>9. Forward
  BY <1>1, <1>2, StageIsNumber DEF Forward
<1> QED
  BY <1>3, <1>6, <1>7, <1>8, <1>9, PartsOfQueueInv, PTL

-----------------------------------------------------------------------------
(* The theorems. *)

\* The registries start empty.
LEMMA QueueInit == Init => QueueInv
<1> SUFFICES ASSUME Init PROVE QueueInv
  OBVIOUS
<1>1. op = Idle /\ rec = Idle /\ crashes = 0 /\ revivals = 0 /\ records = 0
      /\ queue = [k \in Key |-> Absent] /\ starts = [k \in Key |-> 0]
  BY DEF Init
<1>2. Disk
  BY <1>1, AbsentAndNew, FirstStage DEF Disk, Sound
<1>3. Operator /\ Recorder
  BY <1>1 DEF Operator, OperatorInv, Recorder, WatcherInv
<1>4. Launches
  <2>1. \A k \in Key : starts[k] = 0 /\ starts[k] <= 1
    <3>1. \A k \in Key : starts[k] = 0
      BY <1>1
    <3>2. 0 <= 1
      OBVIOUS
    <3> QED
      BY <3>1, <3>2, Zenon
  <2>2. op.command # "launch"
    BY <1>1 DEF Idle
  <2> QED
    BY <1>1, <2>1, <2>2 DEF Launches, LaunchesLeft, LaunchedOnce, In
<1>5. Counters
  BY <1>1 DEF Counters
<1> QED
  BY <1>2, <1>3, <1>4, <1>5, PartsOfQueueInv

\* Every step of the watcher and of the operator.
LEMMA QueueForward ==
  ASSUME QueueInv, Next
  PROVE  QueueInv' /\ Forward
<1>1. CASE Watcher
  BY <1>1, RecordBeginStep, RecordEndStep, WatcherCrashStep DEF Watcher
<1>2. CASE Begin
  BY <1>2, FindStep, FindNothingStep, EvidenceBeginStep DEF Begin
<1>3. CASE Continue
  BY <1>3, SelectEndStep, NothingEndStep, EvidenceSaveStep, EvidenceReloadStep, ReviveStep,
     FollowUpBeginStep, FollowUpEndStep, ExecuteEndStep, PrepareBeginStep, CommandStep,
     LaunchBeginStep
  DEF Continue
<1>4. CASE Crash
  BY <1>4, CrashStep
<1> QED
  BY <1>1, <1>2, <1>3, <1>4 DEF Next

LEMMA QueueStep == QueueInv /\ [Next]_vars => QueueInv'
<1> SUFFICES ASSUME QueueInv, [Next]_vars PROVE QueueInv'
  OBVIOUS
<1>1. CASE Next
  BY <1>1, QueueForward
<1>2. CASE UNCHANGED vars
  <2>1. UNCHANGED <<queue, op, rec, crashes, revivals, records, starts>>
    BY <1>2 DEF vars
  <2> QED
    <3>1. Disk /\ Operator /\ Recorder /\ Launches /\ Counters
      BY PartsOfQueueInv
    <3>2. Disk' /\ Launches'
      BY <2>1, <3>1 DEF Disk, Launches, LaunchesLeft, LaunchedOnce, In
    <3>3. Operator'
      BY <2>1, <3>1 DEF Operator, OperatorInv, Held, CommandFits, In, Entry
    <3>4. Recorder' /\ Counters'
      BY <2>1, <3>1 DEF Recorder, WatcherInv, Counters
    <3> QED
      BY <3>2, <3>3, <3>4, PartsOfQueueInv, PTL
<1> QED
  BY <1>1, <1>2

\* What the commands store in a registry is an entry, and what a process loaded is one.
THEOREM QueueTypeCorrect == Spec => []TypeOK
<1>1. QueueInv => TypeOK
  BY DEF QueueInv
<1> QED
  BY QueueInit, QueueStep, <1>1, PTL DEF Spec

\* Without a lock between watcher and operator, each saving whole registries the other
\* may have changed since it loaded them, and with a crash between any two saves, the
\* status fields of every entry stay coherent: for any registries, any follow-ups and
\* any number of records, crashes and revivals.
THEOREM EntriesStayCoherent == Spec => []StagesCoherent
<1>1. QueueInv => StagesCoherent
  BY DEF QueueInv, StagesCoherent, Sound
<1> QED
  BY QueueInit, QueueStep, <1>1, PTL DEF Spec

\* launch_next_refiner_bridge starts the script of an entry at most once for as long as
\* its launch status stays on disk: again only when a crash lost the outcome, or when a
\* revival or a stale save took the launch status back.
THEOREM BridgeScriptsRunOnce == Spec => []LaunchedOnce
<1>1. QueueInv => LaunchedOnce
  BY DEF QueueInv
<1> QED
  BY QueueInit, QueueStep, <1>1, PTL DEF Spec

\* The lifecycle of an entry goes back by a revival of this entry, or by a step of a
\* process that had loaded another version of it than the one on disk; whatever else the
\* operator arms, launches, verifies or gives up, and wherever either process crashes,
\* it only goes forward.
THEOREM LifecyclesGoForward == Spec => LifecycleNeverRegresses
<1>1. QueueInv /\ [Next]_vars
        => [\A k \in Key : Revival(k) \/ StaleStep(k) \/ StageOf(queue'[k]) >= StageOf(queue[k])]_vars
  BY QueueForward DEF Forward
<1> QED
  BY QueueInit, QueueStep, <1>1, PTL DEF Spec, LifecycleNeverRegresses
=============================================================================
