--------------------------- MODULE AssistantProofs ---------------------------
(***************************************************************************)
(* Proofs about the two halves of the assistant: Campaign, what it starts  *)
(* of its own accord, and ChatSessions, what it does with incoming         *)
(* messages, for any targets, chats, limits, overlap and numbers of        *)
(* messages, failures, edits and ends of the process.                      *)
(*                                                                         *)
(* A restart reads campaigns.json, which may be older than the memory, and *)
(* a save that was overtaken may make it older still.  What the invariants *)
(* say of the memory they therefore say of every snapshot on its way: the  *)
(* file and the late write.                                                *)
(*                                                                         *)
(* A chat session is used with no lock held since its lookup.  What holds  *)
(* of a chat all the same is said of its live sessions, those that are     *)
(* listed, locked or about to be locked: while no chat had two of them,    *)
(* the one it has, or else the file, remembers every turn.                 *)
(***************************************************************************)
EXTENDS Campaign, ChatSessions, FiniteSetTheorems, SequenceTheorems, TLAPS

Snapshots ==
    [campaign : Statuses \cup {"deleted"}, target : [Targets -> TargetRecord], limit : Nat]

-------------------------------------------------------------------------------
(* Type correctness *)

\* A save of a typed memory keeps the file and the late write typed.
LEMMA SaveTyped ==
    ASSUME TypeOK, Save,
           campaign' \in Statuses \cup {"deleted"}, target' \in [Targets -> TargetRecord],
           limit' \in Nat
    PROVE  (file' = NoSnapshot \/ file' \in Snapshots) /\ (late' = NoSnapshot \/ late' \in Snapshots)
  BY DEF Save, TypeOK, Snapshots, Snapshot, diskVars

\* A record with another status is a record.
LEMMA StatusTyped ==
    ASSUME NEW r \in TargetRecord, NEW s \in Ended \cup {"pending", "active"}
    PROVE  [r EXCEPT !.status = s] \in TargetRecord
  BY DEF TargetRecord, Ended

\* So is one with other stamps, or one follow-up more.
LEMMA StampsTyped ==
    ASSUME NEW r \in TargetRecord
    PROVE  /\ [r EXCEPT !.outbound = "due"] \in TargetRecord
           /\ [r EXCEPT !.replied = TRUE] \in TargetRecord
           /\ Stamp(r) \in TargetRecord
           /\ Counted(r) \in TargetRecord
<1>1. [r EXCEPT !.outbound = "due"] \in TargetRecord
  BY DEF TargetRecord, Ended
<1>2. [r EXCEPT !.replied = TRUE] \in TargetRecord
  BY DEF TargetRecord, Ended
<1>3. Stamp(r) \in TargetRecord
  BY DEF TargetRecord, Ended, Stamp
<1>4. Counted(r) \in TargetRecord
  <2>1. r.sent + 1 \in Nat
    BY DEF TargetRecord
  <2> QED
    BY <2>1 DEF TargetRecord, Ended, Counted
<1> QED
  BY <1>1, <1>2, <1>3, <1>4

\* A target's outcome, whoever sets it.
LEMMA ResolveTyped ==
    ASSUME TypeOK, NEW t \in Targets, NEW outcome \in Ended, Resolve(t, outcome),
           UNCHANGED limits
    PROVE  /\ campaign' \in Statuses \cup {"deleted"}
           /\ target' \in [Targets -> TargetRecord]
           /\ (file' = NoSnapshot \/ file' \in Snapshots) /\ (late' = NoSnapshot \/ late' \in Snapshots)
<1>1. CASE target[t].status = "active"
  <2>1. target' \in [Targets -> TargetRecord]
    <3>1. target \in [Targets -> TargetRecord]
      BY DEF TypeOK
    <3>2. [target[t] EXCEPT !.status = outcome] \in TargetRecord
      BY <3>1, StatusTyped
    <3>3. target' = [target EXCEPT ![t].status = outcome]
      BY <1>1 DEF Resolve
    <3> QED
      BY <3>1, <3>2, <3>3
  <2>2. campaign' \in Statuses \cup {"deleted"}
    BY <1>1 DEF Resolve, CheckCompletion, TypeOK, Statuses
  <2> QED
    BY <1>1, <2>1, <2>2, SaveTyped DEF Resolve, limits, TypeOK
<1>2. CASE target[t].status # "active"
  BY <1>2 DEF Resolve, TypeOK, memoryVars, diskVars, Snapshots
<1> QED
  BY <1>1, <1>2

\* The operator changes the status, the limit and whether a target is due.
LEMMA EditTyped ==
    ASSUME TypeOK, Patch \/ Delete
    PROVE  /\ campaign' \in Statuses \cup {"deleted"}
           /\ target' \in [Targets -> TargetRecord]
           /\ limit' \in Nat /\ top' \in Nat
<1>1. CASE Delete
  BY <1>1 DEF Delete, limits, TypeOK
<1>2. CASE Patch
  <2>1. PICK due \in SUBSET {t \in Targets : target[t].outbound = "due"} :
          target' = [t \in Targets |->
              IF t \in due THEN [target[t] EXCEPT !.outbound = "fresh"] ELSE target[t]]
    BY <1>2 DEF Patch
  <2>2. ASSUME NEW t \in Targets
        PROVE  [target[t] EXCEPT !.outbound = "fresh"] \in TargetRecord
    <3>1. target[t] \in TargetRecord
      BY DEF TypeOK
    <3> QED
      BY <3>1 DEF TargetRecord, Ended
  <2>3. target' \in [Targets -> TargetRecord]
    BY <2>1, <2>2 DEF TypeOK
  <2>4. campaign' \in Statuses /\ limit' \in Nat /\ top' \in Nat
    BY <1>2, BoundsAssumption DEF Patch, TypeOK
  <2> QED
    BY <2>3, <2>4
<1> QED
  BY <1>1, <1>2

LEMMA TypeStep == TypeOK /\ [Next]_vars => TypeOK'
<1> SUFFICES ASSUME TypeOK, [Next]_vars PROVE TypeOK'
  OBVIOUS
<1> USE BoundsAssumption DEF TypeOK, Statuses, limits
<1>1. ASSUME Launch PROVE TypeOK'
  BY <1>1 DEF Launch
<1>2. ASSUME LaunchEnd PROVE TypeOK'
  BY <1>2, SaveTyped DEF LaunchEnd, Idle, Snapshots
<1>3. ASSUME PassBegin PROVE TypeOK'
  BY <1>3 DEF PassBegin
<1>4. ASSUME LateWrite PROVE TypeOK'
  BY <1>4 DEF LateWrite
<1>5. ASSUME Edit PROVE TypeOK'
  <2>1. used' \in [raises: 0 .. MaxRaises, edits: 0 .. MaxEdits, crashes: 0 .. MaxCrashes]
    BY <1>5 DEF Edit
  <2>2. /\ campaign' \in Statuses \cup {"deleted"}
        /\ target' \in [Targets -> TargetRecord]
        /\ limit' \in Nat /\ top' \in Nat
    BY <1>5, EditTyped DEF Edit
  <2>3. (file' = NoSnapshot \/ file' \in Snapshots) /\ (late' = NoSnapshot \/ late' \in Snapshots)
    BY <1>5, <2>2, SaveTyped DEF Edit, Forget
  <2> QED
    BY <1>5, <2>1, <2>2, <2>3 DEF Edit, Snapshots
<1>6. ASSUME Crash PROVE TypeOK'
  <2>1. used' \in [raises: 0 .. MaxRaises, edits: 0 .. MaxEdits, crashes: 0 .. MaxCrashes]
    <3>1. used.crashes + 1 \in 0 .. MaxCrashes
      BY <1>6 DEF Crash, CrashLeft
    <3>2. used' = [used EXCEPT !.crashes = @ + 1]
      BY <1>6 DEF Crash
    <3> QED
      BY <3>1, <3>2
  <2>2. jobs' \in [Targets -> [Phases -> Nat]]
    BY <1>6 DEF Crash, NoJobs
  <2> QED
    BY <1>6, <2>1, <2>2 DEF Crash, Idle, NoPass
<1>7. ASSUME NEW t \in Targets, Opens(t) \/ OpenRaise(t) PROVE TypeOK'
  <2>1. CASE LaunchVisit(t)
    <3>1. target' \in [Targets -> TargetRecord]
      <4>1. [target[t] EXCEPT !.status = "active"] \in TargetRecord
        BY StatusTyped
      <4> QED
        BY <2>1, <4>1 DEF LaunchVisit
    <3>2. launch' \in [busy: BOOLEAN, todo: SUBSET Targets]
      BY <2>1 DEF LaunchVisit
    <3>3. opening' \in [Targets -> {"none", "queued", "running", "posted", "raised"}]
      BY <2>1 DEF LaunchVisit
    <3> QED
      BY <2>1, <3>1, <3>2, <3>3 DEF LaunchVisit
  <2>2. CASE OpenRun(t)
    BY <2>2 DEF OpenRun
  <2>3. CASE OpenPost(t)
    BY <2>3 DEF OpenPost
  <2>4. CASE OpenStamp(t)
    BY <2>4, StampsTyped, ZenonT(60) DEF OpenStamp
  <2>5. CASE OpenFail(t)
    BY <2>5, StatusTyped, ZenonT(60) DEF OpenFail
  <2>6. CASE OpenRaise(t)
    BY <2>6, SMTT(40) DEF OpenRaise, Unsaved, Forget, diskVars
  <2> QED
    BY <1>7, <2>1, <2>2, <2>3, <2>4, <2>5, <2>6 DEF Opens
<1>8. ASSUME NEW t \in Targets, Passes(t) \/ Elapse(t) PROVE TypeOK'
  <2>1. CASE PassVisit(t)
    BY <2>1 DEF PassVisit
  <2>2. CASE PassUndelivered(t)
    BY <2>2, ResolveTyped DEF PassUndelivered, Ended, Snapshots
  <2>3. CASE PassEscalate(t)
    BY <2>3, ResolveTyped DEF PassEscalate, Ended, Snapshots
  <2>4. CASE PassSubmit(t)
    <3>1. jobs' \in [Targets -> [Phases -> Nat]]
      BY <2>4 DEF PassSubmit, Phases
    <3> QED
      BY <2>4, <3>1 DEF PassSubmit
  <2>5. CASE Elapse(t)
    BY <2>5, StampsTyped, ZenonT(60) DEF Elapse
  <2> QED
    BY <1>8, <2>1, <2>2, <2>3, <2>4, <2>5 DEF Passes
<1>9. ASSUME NEW t \in Targets, Chases(t) \/ ChaseRaise(t) PROVE TypeOK'
  <2>1. CASE ChaseCheck(t)
    <3>1. jobs' \in [Targets -> [Phases -> Nat]]
      BY <2>1 DEF ChaseCheck, Phases
    <3> QED
      BY <2>1, <3>1 DEF ChaseCheck
  <2>2. CASE ChaseRun(t)
    <3>1. jobs' \in [Targets -> [Phases -> Nat]]
      BY <2>2, SMTT(30) DEF ChaseRun, Phases
    <3>2. session' \in [Targets -> {"free", "opening", "chasing", "matched", "replying"}]
      BY <2>2 DEF ChaseRun
    <3> QED
      BY <2>2, <3>1, <3>2 DEF ChaseRun
  <2>3. CASE ChasePost(t)
    <3>1. jobs' \in [Targets -> [Phases -> Nat]]
      BY <2>3 DEF ChasePost, Phases
    <3> QED
      BY <2>3, <3>1 DEF ChasePost
  <2>4. CASE ChaseStamp(t)
    <3>1. jobs' \in [Targets -> [Phases -> Nat]]
      BY <2>4 DEF ChaseStamp, Phases
    <3>2. target' \in [Targets -> TargetRecord]
      BY <2>4, StampsTyped DEF ChaseStamp
    <3> QED
      BY <2>4, <3>1, <3>2, SaveTyped DEF ChaseStamp, Snapshots
  <2>5. CASE ChaseRaise(t)
    <3>1. jobs' \in [Targets -> [Phases -> Nat]]
      BY <2>5 DEF ChaseRaise, Phases
    <3>2. used' \in [raises: 0 .. MaxRaises, edits: 0 .. MaxEdits, crashes: 0 .. MaxCrashes]
      <4>1. used.raises + 1 \in 0 .. MaxRaises
        BY <2>5 DEF ChaseRaise
      <4>2. used' = [used EXCEPT !.raises = @ + 1]
        BY <2>5 DEF ChaseRaise
      <4> QED
        BY <4>1, <4>2
    <3> QED
      BY <2>5, <3>1, <3>2 DEF ChaseRaise, Unsaved, Forget, diskVars
  <2> QED
    BY <1>9, <2>1, <2>2, <2>3, <2>4, <2>5 DEF Chases
<1>10. ASSUME NEW t \in Targets, ReplyMatch(t) \/ ReplyStamp(t) \/ ReplyEnds(t)
       PROVE TypeOK'
  <2>1. CASE ReplyMatch(t)
    BY <2>1 DEF ReplyMatch
  <2>2. CASE ReplyStamp(t)
    <3>1. target' \in [Targets -> TargetRecord]
      <4>1. [target[t] EXCEPT !.replied = TRUE] \in TargetRecord
        BY StampsTyped
      <4> QED
        BY <2>2, <4>1 DEF ReplyStamp
    <3> QED
      BY <2>2, <3>1, SaveTyped DEF ReplyStamp, Snapshots, diskVars
  <2>3. CASE ReplyOpen(t)
    BY <2>3, SaveTyped DEF ReplyOpen, Snapshots, memoryVars, diskVars
  <2>4. ASSUME NEW o \in {"completed", "failed"}, ReplyOutcome(t, o) PROVE TypeOK'
    <3>1. CASE campaign = "deleted"
      BY <2>4, <3>1 DEF ReplyOutcome, memoryVars, diskVars
    <3>2. CASE campaign # "deleted"
      BY <2>4, <3>2, ResolveTyped DEF ReplyOutcome, Ended, Snapshots
    <3> QED
      BY <3>1, <3>2
  <2> QED
    BY <1>10, <2>1, <2>2, <2>3, <2>4 DEF ReplyEnds
<1>11. ASSUME UNCHANGED vars PROVE TypeOK'
  BY <1>11 DEF vars
<1> QED
  BY <1>1, <1>2, <1>3, <1>4, <1>5, <1>6, <1>7, <1>8, <1>9, <1>10, <1>11 DEF Next

\* Every variable stays in its range; in particular no count of follow-ups on
\* the executor runs below zero, and every snapshot that may be read at a
\* restart is a campaign.
THEOREM CampaignTypes == Spec => []TypeOK
<1>1. Init => TypeOK
  BY BoundsAssumption DEF Init, TypeOK, Statuses, TargetRecord, Idle, NoPass, NoJobs, Snapshot
<1> QED
  BY <1>1, TypeStep, PTL DEF Spec

-------------------------------------------------------------------------------
(* What becomes of the status of a target *)

\* It gets an outcome under the lock, and the completion is checked then.
IsResolved(u) ==
    target[u].status = "active" /\ target'[u].status \in Ended /\ CheckCompletion
IsLaunched(u) ==
    LaunchVisit(u) /\ target[u].status = "pending" /\ target'[u].status = "active"

\* An edit changes neither the status of a target nor its count.
LEMMA EditKeeps ==
    ASSUME TypeOK, Patch \/ Delete, NEW u \in Targets
    PROVE  target'[u].status = target[u].status /\ target'[u].sent = target[u].sent
<1>1. CASE Delete
  BY <1>1 DEF Delete
<1>2. CASE Patch
  <2>1. PICK due \in SUBSET {t \in Targets : target[t].outbound = "due"} :
          target' = [t \in Targets |->
              IF t \in due THEN [target[t] EXCEPT !.outbound = "fresh"] ELSE target[t]]
    BY <1>2 DEF Patch
  <2>2. target'[u] \in {target[u], [target[u] EXCEPT !.outbound = "fresh"]}
    BY <2>1
  <2> QED
    BY <2>2 DEF TypeOK, TargetRecord
<1> QED
  BY <1>1, <1>2

LEMMA StatusStep ==
    ASSUME TypeOK, [Next]_vars, NEW u \in Targets
    PROVE  \/ target'[u].status = target[u].status
           \/ IsResolved(u) \/ IsLaunched(u) \/ OpenFail(u) \/ Crash
<1> USE DEF TypeOK
<1> DEFINE Stands == target'[u].status = target[u].status
<1>1. ASSUME NEW t \in Targets, NEW o \in Ended, Resolve(t, o)
      PROVE  Stands \/ IsResolved(u)
  <2>1. CASE target[t].status = "active"
    <3>1. target' = [target EXCEPT ![t] = [@ EXCEPT !.status = o]] /\ CheckCompletion
      BY <1>1, <2>1 DEF Resolve
    <3>2. target'[t].status = o /\ (t # u => target'[u] = target[u])
      BY <3>1 DEF TargetRecord
    <3> QED
      BY <2>1, <3>1, <3>2 DEF IsResolved
  <2>2. CASE target[t].status # "active"
    BY <1>1, <2>2 DEF Resolve, memoryVars
  <2> QED
    BY <2>1, <2>2
<1>2. ASSUME Launch \/ LaunchEnd \/ PassBegin \/ LateWrite PROVE Stands
  BY <1>2 DEF Launch, LaunchEnd, PassBegin, LateWrite
<1>8. ASSUME Edit PROVE Stands
  BY <1>8, EditKeeps DEF Edit
<1>3. ASSUME NEW t \in Targets, Opens(t) \/ OpenRaise(t)
      PROVE  Stands \/ IsLaunched(u) \/ OpenFail(u)
  <2>1. CASE LaunchVisit(t)
    <3>1. CASE target' = target
      BY <3>1
    <3>2. CASE /\ target[t].status = "pending"
               /\ target' = [target EXCEPT ![t] = [@ EXCEPT !.status = "active"]]
      <4>1. target'[t].status = "active" /\ (t # u => target'[u] = target[u])
        BY <3>2 DEF TargetRecord
      <4> QED
        BY <2>1, <3>2, <4>1 DEF IsLaunched
    <3> QED
      BY <2>1, <3>1, <3>2 DEF LaunchVisit
  <2>2. CASE OpenRun(t) \/ OpenPost(t) \/ OpenRaise(t)
    BY <2>2 DEF OpenRun, OpenPost, OpenRaise
  <2>3. CASE OpenStamp(t)
    BY <2>3 DEF OpenStamp, Stamp, TargetRecord
  <2>4. CASE OpenFail(t)
    BY <2>4 DEF OpenFail
  <2> QED
    BY <1>3, <2>1, <2>2, <2>3, <2>4 DEF Opens
<1>4. ASSUME NEW t \in Targets, Passes(t) \/ Elapse(t) PROVE Stands \/ IsResolved(u)
  <2>1. CASE PassVisit(t) \/ PassSubmit(t)
    BY <2>1 DEF PassVisit, PassSubmit
  <2>2. CASE PassUndelivered(t)
    BY <1>1, <2>2 DEF PassUndelivered, Ended
  <2>3. CASE PassEscalate(t)
    BY <1>1, <2>3 DEF PassEscalate, Ended
  <2>4. CASE Elapse(t)
    BY <2>4 DEF Elapse, TargetRecord
  <2> QED
    BY <1>4, <2>1, <2>2, <2>3, <2>4 DEF Passes
<1>5. ASSUME NEW t \in Targets, Chases(t) \/ ChaseRaise(t) PROVE Stands
  <2>1. CASE ChaseCheck(t) \/ ChaseRun(t) \/ ChasePost(t) \/ ChaseRaise(t)
    BY <2>1 DEF ChaseCheck, ChaseRun, ChasePost, ChaseRaise
  <2>2. CASE ChaseStamp(t)
    BY <2>2 DEF ChaseStamp, Counted, TargetRecord
  <2> QED
    BY <1>5, <2>1, <2>2 DEF Chases
<1>6. ASSUME NEW t \in Targets, ReplyMatch(t) \/ ReplyStamp(t) \/ ReplyEnds(t)
      PROVE  Stands \/ IsResolved(u)
  <2>1. CASE ReplyMatch(t) \/ ReplyOpen(t)
    BY <2>1 DEF ReplyMatch, ReplyOpen, memoryVars
  <2>2. CASE ReplyStamp(t)
    <3>1. CASE Matches(t)
      <4>1. target' = [target EXCEPT ![t] = [@ EXCEPT !.replied = TRUE]]
        BY <2>2, <3>1 DEF ReplyStamp
      <4> QED
        BY <4>1 DEF TargetRecord
    <3>2. CASE ~Matches(t)
      BY <2>2, <3>2 DEF ReplyStamp
    <3> QED
      BY <3>1, <3>2
  <2>3. ASSUME NEW o \in {"completed", "failed"}, ReplyOutcome(t, o)
        PROVE  Stands \/ IsResolved(u)
    <3>1. CASE campaign = "deleted"
      BY <2>3, <3>1 DEF ReplyOutcome, memoryVars
    <3>2. CASE campaign # "deleted"
      BY <1>1, <2>3, <3>2 DEF ReplyOutcome, Ended
    <3> QED
      BY <3>1, <3>2
  <2> QED
    BY <1>6, <2>1, <2>2, <2>3 DEF ReplyEnds
<1>7. ASSUME UNCHANGED vars PROVE Stands
  BY <1>7 DEF vars
<1> QED
  BY <1>2, <1>3, <1>4, <1>5, <1>6, <1>7, <1>8 DEF Next

\* Whatever the threads of the campaign do at the same time, the outcome that a
\* target got first is the one it keeps; only launch()'s except arm and a
\* restart from an older file put a target back.
THEOREM OutcomesStand == Spec => OutcomeIsFinal
<1>1. TypeOK /\ [Next]_vars =>
        [\A t \in Targets :
            target[t].status \in Ended =>
                target'[t].status = target[t].status \/ OpenFail(t) \/ Crash]_vars
  BY StatusStep DEF IsResolved, IsLaunched, Ended
<1> QED
  BY <1>1, CampaignTypes, PTL DEF Spec, OutcomeIsFinal

-------------------------------------------------------------------------------
(* The limit of follow-ups *)

\* A restart reads counts and a limit that were written, or are about to be;
\* both stay within what the highest limit so far allows.
Past == top + MaxOverlap - 1
CountsBounded(tg) == \A t \in Targets : tg[t].sent <= Past
Within(f) == f # NoSnapshot => CountsBounded(f.target) /\ f.limit <= top

BoundInv == FollowUpsBounded /\ limit <= top /\ Within(file) /\ Within(late)

LEMMA InFlightTyped == ASSUME TypeOK, NEW t \in Targets PROVE InFlight(t) \in Nat
  BY DEF TypeOK, InFlight, Phases

\* Bounded follow-ups in memory are bounded counts.
LEMMA MemoryBounded == TypeOK /\ FollowUpsBounded => CountsBounded(target)
  BY InFlightTyped, BoundsAssumption
  DEF FollowUpsBounded, CountsBounded, Past, TypeOK, TargetRecord

\* A step saves, or leaves the file and the late write alone, but for the late
\* write itself, the end of the process and what comes after the last of them.
LEMMA WhoWrites == [Next]_vars => Save \/ UNCHANGED diskVars \/ LateWrite \/ Crash \/ Forget
<1> USE DEF diskVars, Resolve, Unsaved
<1>1. ASSUME NEW t \in Targets, Opens(t) \/ OpenRaise(t) PROVE UNCHANGED diskVars \/ Forget
  BY <1>1 DEF Opens, LaunchVisit, OpenRun, OpenPost, OpenStamp, OpenFail, OpenRaise
<1>2. ASSUME NEW t \in Targets, Passes(t) \/ Elapse(t) PROVE Save \/ UNCHANGED diskVars
  BY <1>2 DEF Passes, PassVisit, PassUndelivered, PassEscalate, PassSubmit, Elapse
<1>3. ASSUME NEW t \in Targets, Chases(t) \/ ChaseRaise(t)
      PROVE Save \/ UNCHANGED diskVars \/ Forget
  BY <1>3 DEF Chases, ChaseCheck, ChaseRun, ChasePost, ChaseStamp, ChaseRaise
<1>4. ASSUME NEW t \in Targets, ReplyMatch(t) \/ ReplyStamp(t) \/ ReplyEnds(t)
      PROVE Save \/ UNCHANGED diskVars
  BY <1>4 DEF ReplyMatch, ReplyStamp, ReplyEnds, ReplyOpen, ReplyOutcome
<1> QED
  BY <1>1, <1>2, <1>3, <1>4 DEF Next, Launch, LaunchEnd, PassBegin, Edit, vars

\* No step but a submission adds to what a target was sent or will be.
Adds(u) == target'[u].sent + InFlight(u)' > target[u].sent + InFlight(u)

LEMMA ResolveAddsNothing ==
    ASSUME TypeOK, NEW t \in Targets, NEW o \in Ended, Resolve(t, o), UNCHANGED jobs,
           NEW u \in Targets
    PROVE  ~Adds(u)
<1>1. InFlight(u)' = InFlight(u)
  BY DEF InFlight
<1>2. target'[u].sent = target[u].sent
  <2>1. CASE target[t].status = "active"
    <3>1. target' = [target EXCEPT ![t] = [@ EXCEPT !.status = o]]
      BY <2>1 DEF Resolve
    <3> QED
      BY <3>1 DEF TypeOK, TargetRecord
  <2>2. CASE target[t].status # "active"
    BY <2>2 DEF Resolve, memoryVars
  <2> QED
    BY <2>1, <2>2
<1> QED
  BY <1>1, <1>2, InFlightTyped DEF Adds, TypeOK, TargetRecord

LEMMA NothingAdded ==
    ASSUME TypeOK, [Next]_vars, NEW u \in Targets, ~PassSubmit(u), ~Crash
    PROVE  ~Adds(u)
<1> USE DEF TypeOK
<1> DEFINE Sum == target[u].sent + InFlight(u)
<1>0. target[u].sent \in Nat /\ InFlight(u) \in Nat /\ jobs[u] \in [Phases -> Nat]
  BY InFlightTyped DEF TargetRecord
<1>1. ASSUME UNCHANGED jobs, target'[u].sent = target[u].sent PROVE ~Adds(u)
  BY <1>0, <1>1 DEF Adds, InFlight
<1>2. ASSUME Launch \/ LaunchEnd \/ PassBegin \/ LateWrite PROVE ~Adds(u)
  BY <1>1, <1>2 DEF Launch, LaunchEnd, PassBegin, LateWrite
<1>8. ASSUME Edit PROVE ~Adds(u)
  BY <1>1, <1>8, EditKeeps DEF Edit
<1>3. ASSUME NEW t \in Targets, Opens(t) \/ OpenRaise(t) PROVE ~Adds(u)
  <2>1. CASE LaunchVisit(t)
    <3>1. target'[u].sent = target[u].sent
      <4>1. CASE target' = target
        BY <4>1
      <4>2. CASE target' = [target EXCEPT ![t] = [@ EXCEPT !.status = "active"]]
        BY <4>2 DEF TargetRecord
      <4> QED
        BY <2>1, <4>1, <4>2 DEF LaunchVisit
    <3> QED
      BY <1>1, <2>1, <3>1 DEF LaunchVisit
  <2>2. CASE OpenRun(t) \/ OpenPost(t) \/ OpenRaise(t)
    BY <1>1, <2>2 DEF OpenRun, OpenPost, OpenRaise
  <2>3. CASE OpenStamp(t)
    BY <1>1, <2>3 DEF OpenStamp, Stamp, TargetRecord
  <2>4. CASE OpenFail(t)
    BY <1>1, <2>4 DEF OpenFail, TargetRecord
  <2> QED
    BY <1>3, <2>1, <2>2, <2>3, <2>4 DEF Opens
<1>4. ASSUME NEW t \in Targets, Passes(t) \/ Elapse(t) PROVE ~Adds(u)
  <2>1. CASE PassVisit(t)
    BY <1>1, <2>1 DEF PassVisit
  <2>2. CASE PassUndelivered(t)
    BY <2>2, ResolveAddsNothing DEF PassUndelivered, Ended
  <2>3. CASE PassEscalate(t)
    BY <2>3, ResolveAddsNothing DEF PassEscalate, Ended
  <2>4. CASE PassSubmit(t)
    <3>1. t # u
      BY <2>4
    <3>2. jobs'[u] = jobs[u] /\ target' = target
      BY <2>4, <3>1 DEF PassSubmit
    <3> QED
      BY <1>0, <3>2 DEF Adds, InFlight
  <2>5. CASE Elapse(t)
    BY <1>1, <2>5 DEF Elapse, TargetRecord
  <2> QED
    BY <1>4, <2>1, <2>2, <2>3, <2>4, <2>5 DEF Passes
<1>5. ASSUME NEW t \in Targets, Chases(t) \/ ChaseRaise(t) PROVE ~Adds(u)
  <2>1. CASE ChaseCheck(t)
    BY <1>0, <2>1 DEF ChaseCheck, Adds, InFlight, Phases
  <2>2. CASE ChaseRun(t)
    BY <1>0, <2>2 DEF ChaseRun, Adds, InFlight, Phases
  <2>3. CASE ChasePost(t)
    BY <1>0, <2>3 DEF ChasePost, Adds, InFlight, Phases
  <2>4. CASE ChaseStamp(t)
    BY <1>0, <2>4 DEF ChaseStamp, Counted, Adds, InFlight, Phases, TargetRecord
  <2>5. CASE ChaseRaise(t)
    BY <1>0, <2>5 DEF ChaseRaise, Adds, InFlight, Phases
  <2> QED
    BY <1>5, <2>1, <2>2, <2>3, <2>4, <2>5 DEF Chases
<1>6. ASSUME NEW t \in Targets, ReplyMatch(t) \/ ReplyStamp(t) \/ ReplyEnds(t)
      PROVE ~Adds(u)
  <2>1. CASE ReplyMatch(t) \/ ReplyOpen(t)
    BY <1>1, <2>1 DEF ReplyMatch, ReplyOpen, memoryVars
  <2>2. CASE ReplyStamp(t)
    <3>1. CASE Matches(t)
      <4>1. target' = [target EXCEPT ![t] = [@ EXCEPT !.replied = TRUE]]
        BY <2>2, <3>1 DEF ReplyStamp
      <4>2. target'[u].sent = target[u].sent
        BY <4>1 DEF TargetRecord
      <4> QED
        BY <1>1, <2>2, <4>2 DEF ReplyStamp
    <3>2. CASE ~Matches(t)
      BY <1>1, <2>2, <3>2 DEF ReplyStamp
    <3> QED
      BY <3>1, <3>2
  <2>3. ASSUME NEW o \in {"completed", "failed"}, ReplyOutcome(t, o) PROVE ~Adds(u)
    <3>1. CASE campaign = "deleted"
      BY <1>1, <2>3, <3>1 DEF ReplyOutcome, memoryVars
    <3>2. CASE campaign # "deleted"
      BY <2>3, <3>2, ResolveAddsNothing DEF ReplyOutcome, Ended
    <3> QED
      BY <3>1, <3>2
  <2> QED
    BY <1>6, <2>1, <2>2, <2>3 DEF ReplyEnds
<1>7. ASSUME UNCHANGED vars PROVE ~Adds(u)
  BY <1>1, <1>7 DEF vars
<1> QED
  BY <1>2, <1>3, <1>4, <1>5, <1>6, <1>7, <1>8 DEF Next

\* The limit never passes the highest there has been, which never falls.
LEMMA LimitStep == TypeOK /\ [Next]_vars => UNCHANGED limits \/ Edit \/ Crash
<1> SUFFICES ASSUME TypeOK, [Next]_vars PROVE UNCHANGED limits \/ Edit \/ Crash
  OBVIOUS
<1>1. ASSUME NEW t \in Targets, Opens(t) \/ OpenRaise(t) PROVE UNCHANGED limits
  BY <1>1 DEF Opens, LaunchVisit, OpenRun, OpenPost, OpenStamp, OpenFail, OpenRaise
<1>2. ASSUME NEW t \in Targets, Passes(t) \/ Elapse(t) PROVE UNCHANGED limits
  BY <1>2 DEF Passes, PassVisit, PassUndelivered, PassEscalate, PassSubmit, Elapse
<1>3. ASSUME NEW t \in Targets, Chases(t) \/ ChaseRaise(t) PROVE UNCHANGED limits
  BY <1>3 DEF Chases, ChaseCheck, ChaseRun, ChasePost, ChaseStamp, ChaseRaise
<1>4. ASSUME NEW t \in Targets, ReplyMatch(t) \/ ReplyStamp(t) \/ ReplyEnds(t)
      PROVE UNCHANGED limits
  BY <1>4 DEF ReplyMatch, ReplyStamp, ReplyEnds, ReplyOpen, ReplyOutcome
<1> QED
  BY <1>1, <1>2, <1>3, <1>4 DEF Next, Launch, LaunchEnd, PassBegin, LateWrite, vars, limits

\* A higher limit bounds more.
LEMMA TopRises ==
    ASSUME TypeOK, TypeOK', [Next]_vars, limit <= top
    PROVE  top <= top' /\ (~Crash => limit' <= top')
<1>0. limit \in Nat /\ top \in Nat
  BY DEF TypeOK
<1>1. CASE UNCHANGED limits
  BY <1>0, <1>1 DEF limits
<1>2. CASE Crash
  BY <1>0, <1>2 DEF Crash
<1>3. CASE Edit
  <2>1. Patch \/ Delete
    BY <1>3 DEF Edit
  <2>2. limit' \in Nat
    BY DEF TypeOK
  <2>3. CASE Patch
    BY <1>0, <2>2, <2>3 DEF Patch
  <2>4. CASE Delete
    BY <1>0, <2>4 DEF Delete, limits
  <2> QED
    BY <2>1, <2>3, <2>4
<1> QED
  BY <1>1, <1>2, <1>3, LimitStep

\* What the file and the late write hold was there before or is the memory.
LEMMA Written ==
    ASSUME [Next]_vars
    PROVE  /\ file' \in {NoSnapshot, file, late, Snapshot'}
           /\ late' \in {NoSnapshot, late, Snapshot'}
<1>1. ASSUME Crash
      PROVE  file' \in {NoSnapshot, file} /\ late' = NoSnapshot
  BY <1>1 DEF Crash
<1> QED
  BY <1>1, WhoWrites DEF Save, LateWrite, Forget, diskVars

\* Numbers stay in order when the same is added.
LEMMA Shifted ==
    \A a, b \in Nat, m \in Int : a <= b => a + m - 1 <= b + m - 1
  OBVIOUS

LEMMA BoundStep == TypeOK /\ TypeOK' /\ BoundInv /\ [Next]_vars => BoundInv'
<1> SUFFICES ASSUME TypeOK, TypeOK', BoundInv, [Next]_vars PROVE BoundInv'
  OBVIOUS
<1> USE DEF BoundInv
<1>0. top \in Nat /\ top' \in Nat /\ top <= top' /\ Past <= Past' /\ Past \in Int /\ Past' \in Int
  <2>1. top \in Nat /\ top' \in Nat
    BY DEF TypeOK
  <2>2. top <= top'
    BY TopRises
  <2>3. MaxOverlap \in Int
    BY BoundsAssumption
  <2>4. Past = top + MaxOverlap - 1 /\ Past' = top' + MaxOverlap - 1
    BY DEF Past
  <2>5. Past \in Int /\ Past' \in Int
    BY <2>1, <2>3, <2>4
  <2>6. top + MaxOverlap - 1 <= top' + MaxOverlap - 1
    BY <2>1, <2>2, <2>3, Shifted
  <2> QED
    BY <2>1, <2>2, <2>4, <2>5, <2>6
<1>1. FollowUpsBounded'
  <2> SUFFICES ASSUME NEW u \in Targets
               PROVE  target'[u].sent + InFlight(u)' <= Past'
    BY DEF FollowUpsBounded, Past
  <2>1. /\ target[u].sent \in Nat /\ InFlight(u) \in Nat
        /\ target'[u].sent \in Nat /\ InFlight(u)' \in Nat
        /\ target[u].sent + InFlight(u) <= Past
    BY InFlightTyped DEF TypeOK, TargetRecord, FollowUpsBounded, InFlight, Phases, Past
  <2>2. CASE PassSubmit(u)
    <3>1. target'[u].sent < limit /\ limit <= top
      BY <2>2 DEF PassSubmit
    <3>2. InFlight(u)' = InFlight(u) + 1 /\ InFlight(u) < MaxOverlap
      BY <2>2 DEF PassSubmit, InFlight, TypeOK, Phases
    <3>3. limit \in Nat
      BY DEF TypeOK
    <3>4. target'[u].sent + InFlight(u)' <= Past
      BY <1>0, <2>1, <3>1, <3>2, <3>3, BoundsAssumption DEF Past
    <3> QED
      BY <1>0, <2>1, <3>4
  <2>3. CASE Crash
    <3>1. InFlight(u)' = 0
      BY <2>3 DEF Crash, InFlight, NoJobs, Phases
    <3>2. target'[u].sent <= Past
      BY <2>3 DEF Crash, Within, CountsBounded
    <3> QED
      BY <1>0, <2>1, <3>1, <3>2
  <2>4. CASE ~PassSubmit(u) /\ ~Crash
    BY <1>0, <2>1, <2>4, NothingAdded DEF Adds
  <2> QED
    BY <2>2, <2>3, <2>4
<1>2. CountsBounded(target)'
  <2>1. ASSUME NEW t \in Targets PROVE InFlight(t)' \in Nat
    BY DEF TypeOK, InFlight, Phases
  <2> QED
    BY <1>1, <2>1, BoundsAssumption DEF TypeOK, TargetRecord, FollowUpsBounded, CountsBounded, Past
<1>3. limit' <= top'
  <2>1. CASE Crash
    BY <2>1 DEF Crash, Within
  <2> QED
    BY <2>1, TopRises
<1>4. Within(file)' /\ Within(late)'
  <2>1. ASSUME NEW f \in Snapshots \cup {NoSnapshot}, Within(f)
        PROVE  f # NoSnapshot => (\A t \in Targets : f.target[t].sent <= Past') /\ f.limit <= top'
    BY <1>0, <2>1 DEF Within, CountsBounded, Snapshots, TargetRecord
  <2>2. file \in Snapshots \cup {NoSnapshot} /\ late \in Snapshots \cup {NoSnapshot}
    BY DEF TypeOK, Snapshots
  <2>3. Snapshot'.target = target' /\ Snapshot'.limit = limit'
    BY DEF Snapshot
  <2>4. \A t \in Targets : target'[t].sent <= Past'
    BY <1>2 DEF CountsBounded
  <2>5. file' # NoSnapshot =>
          (\A t \in Targets : file'.target[t].sent <= Past') /\ file'.limit <= top'
    BY <1>3, <2>1, <2>2, <2>3, <2>4, Written
  <2>6. late' # NoSnapshot =>
          (\A t \in Targets : late'.target[t].sent <= Past') /\ late'.limit <= top'
    BY <1>3, <2>1, <2>2, <2>3, <2>4, Written
  <2> QED
    BY <2>5, <2>6 DEF Within, CountsBounded, Past
<1> QED
  BY <1>1, <1>3, <1>4

\* However the follow-ups of a target overlap, whatever the operator sets the
\* limit to and whatever a restart finds in the file, those sent and those under
\* way stay below the highest limit there has been and the overlap together.
THEOREM FollowUpsStayBounded == Spec => []FollowUpsBounded
<1>1. Init => BoundInv
  <2> SUFFICES ASSUME Init PROVE BoundInv
    OBVIOUS
  <2>1. \A t \in Targets : target[t].sent = 0 /\ InFlight(t) = 0
    BY DEF Init, InFlight, NoJobs, Phases
  <2>2. 0 <= Past /\ limit = MaxFollowUps /\ top = MaxFollowUps
    BY BoundsAssumption DEF Init, Past
  <2> QED
    BY <2>1, <2>2, BoundsAssumption
    DEF Init, BoundInv, FollowUpsBounded, Within, CountsBounded, Past, Snapshot,
        NoSnapshot
<1>2. BoundInv => FollowUpsBounded
  BY DEF BoundInv
<1> QED
  BY <1>1, <1>2, BoundStep, CampaignTypes, PTL DEF Spec

-------------------------------------------------------------------------------
(* The opening message *)

\* A target that may still be opened was opened only in earlier processes: one
\* that is pending in memory or, should this process end, in the file.
OpenInv ==
    \A t \in Targets :
        /\ opened[t] <= used.crashes + 1
        /\ opening[t] # "none" => target[t].status # "pending"
        /\ opening[t] \in {"queued", "running", "raised"} => opened[t] <= used.crashes
        /\ target[t].status = "pending" => opened[t] <= used.crashes

Opening(t) == LaunchVisit(t) \/ OpenRun(t) \/ OpenPost(t) \/ OpenStamp(t) \/ OpenFail(t) \/ OpenRaise(t)

\* Only the steps of a target's own opening concern it.
LEMMA OpeningStep ==
    ASSUME TypeOK, [Next]_vars, NEW u \in Targets
    PROVE  \/ opening'[u] = opening[u] /\ opened'[u] = opened[u] /\ used'.crashes = used.crashes
           \/ Opening(u) \/ Crash
<1> USE DEF TypeOK
<1> DEFINE Kept == opening'[u] = opening[u] /\ opened'[u] = opened[u] /\ used'.crashes = used.crashes
<1>1. ASSUME NEW t \in Targets, Opens(t) \/ OpenRaise(t) PROVE Kept \/ Opening(u)
  <2>1. CASE t = u
    BY <1>1, <2>1 DEF Opens, Opening
  <2>2. CASE t # u
    BY <1>1, <2>2 DEF Opens, LaunchVisit, OpenRun, OpenPost, OpenStamp, OpenFail, OpenRaise
  <2> QED
    BY <2>1, <2>2
<1>2. ASSUME NEW t \in Targets, Passes(t) \/ Elapse(t) PROVE Kept
  BY <1>2 DEF Passes, PassVisit, PassUndelivered, PassEscalate, PassSubmit, Elapse
<1>3. ASSUME NEW t \in Targets, Chases(t) \/ ChaseRaise(t) PROVE Kept
  BY <1>3 DEF Chases, ChaseCheck, ChaseRun, ChasePost, ChaseStamp, ChaseRaise
<1>4. ASSUME NEW t \in Targets, ReplyMatch(t) \/ ReplyStamp(t) \/ ReplyEnds(t) PROVE Kept
  BY <1>4 DEF ReplyMatch, ReplyStamp, ReplyEnds, ReplyOpen, ReplyOutcome
<1> QED
  BY <1>1, <1>2, <1>3, <1>4 DEF Next, Launch, LaunchEnd, PassBegin, Edit, LateWrite, vars

LEMMA OpenStep == TypeOK /\ OpenInv /\ [Next]_vars => OpenInv'
<1> SUFFICES ASSUME TypeOK, OpenInv, [Next]_vars, NEW u \in Targets
             PROVE  /\ opened'[u] <= used'.crashes + 1
                    /\ opening'[u] # "none" => target'[u].status # "pending"
                    /\ opening'[u] \in {"queued", "running", "raised"}
                         => opened'[u] <= used'.crashes
                    /\ target'[u].status = "pending" => opened'[u] <= used'.crashes
  BY DEF OpenInv
<1>0. opened[u] \in Nat /\ used.crashes \in Nat /\ target[u] \in TargetRecord
  BY DEF TypeOK
<1>1. CASE Crash
  BY <1>0, <1>1 DEF Crash, OpenInv, TypeOK
<1>2. CASE OpenFail(u)
  BY <1>0, <1>2 DEF OpenFail, OpenInv, TypeOK, TargetRecord
<1>3. CASE LaunchVisit(u)
  <2>1. \/ UNCHANGED <<target, opening>>
        \/ /\ target[u].status = "pending"
           /\ target'[u].status = "active" /\ opening'[u] = "queued"
    BY <1>3 DEF LaunchVisit, TypeOK, TargetRecord
  <2> QED
    BY <1>0, <1>3, <2>1 DEF LaunchVisit, OpenInv
<1>4. CASE OpenRun(u) \/ OpenRaise(u)
  BY <1>0, <1>4 DEF OpenRun, OpenRaise, OpenInv, TypeOK
<1>5. CASE OpenPost(u)
  BY <1>0, <1>5 DEF OpenPost, OpenInv, TypeOK
<1>6. CASE OpenStamp(u)
  BY <1>0, <1>6 DEF OpenStamp, Stamp, OpenInv, TypeOK, TargetRecord
<1>7. CASE /\ opening'[u] = opening[u] /\ opened'[u] = opened[u]
           /\ used'.crashes = used.crashes
           /\ ~OpenFail(u) /\ ~Crash
  <2>1. target'[u].status = "pending" => target[u].status = "pending"
    BY <1>7, StatusStep DEF IsResolved, IsLaunched, Ended
  <2> QED
    BY <1>7, <2>1 DEF OpenInv
<1> QED
  BY <1>1, <1>2, <1>3, <1>4, <1>5, <1>6, <1>7, OpeningStep DEF Opening

\* A contact is written to anew only by a process that came after the one that
\* wrote to it, whatever the operator launches again.
THEOREM OpeningsAreNotRepeated == Spec => []OpenedOnce
<1>1. Init => OpenInv
  BY DEF Init, OpenInv
<1>2. TypeOK /\ OpenInv => OpenedOnce
  BY DEF OpenInv, OpenedOnce, TypeOK
<1> QED
  BY <1>1, <1>2, OpenStep, CampaignTypes, PTL DEF Spec

-------------------------------------------------------------------------------
(* An active campaign has work *)

\* A campaign the operator does not edit is launched once: before that nobody
\* touches its targets.  The same holds of what a restart would load.
Untouched(c, tg) ==
    /\ c \in {"draft", "active", "completed"}
    /\ c = "active" => \E t \in Targets : tg[t].status \notin Ended
    /\ c = "draft" => \A t \in Targets : tg[t].status = "pending"

WorkInv ==
    used.edits = 0 =>
        /\ Untouched(campaign, target)
        /\ file # NoSnapshot => Untouched(file.campaign, file.target)
        /\ late # NoSnapshot => Untouched(late.campaign, late.target)
        /\ campaign = "draft" => launch = Idle

LEMMA CampaignStep ==
    ASSUME TypeOK, [Next]_vars
    PROVE  campaign' = campaign \/ Launch \/ Edit \/ Crash \/ CheckCompletion
<1>1. ASSUME NEW t \in Targets, Opens(t) \/ OpenRaise(t) PROVE campaign' = campaign
  BY <1>1 DEF Opens, LaunchVisit, OpenRun, OpenPost, OpenStamp, OpenFail, OpenRaise
<1>2. ASSUME NEW t \in Targets, Passes(t) \/ Elapse(t)
      PROVE  campaign' = campaign \/ CheckCompletion
  BY <1>2 DEF Passes, PassVisit, PassUndelivered, PassEscalate, PassSubmit, Elapse,
              Resolve, memoryVars
<1>3. ASSUME NEW t \in Targets, Chases(t) \/ ChaseRaise(t) PROVE campaign' = campaign
  BY <1>3 DEF Chases, ChaseCheck, ChaseRun, ChasePost, ChaseStamp, ChaseRaise
<1>4. ASSUME NEW t \in Targets, ReplyMatch(t) \/ ReplyStamp(t) \/ ReplyEnds(t)
      PROVE  campaign' = campaign \/ CheckCompletion
  BY <1>4 DEF ReplyMatch, ReplyStamp, ReplyEnds, ReplyOpen, ReplyOutcome, Resolve, memoryVars
<1> QED
  BY <1>1, <1>2, <1>3, <1>4 DEF Next, LaunchEnd, PassBegin, LateWrite, vars

\* An edit cannot be undone, and a launch can.
LEMMA EditsAndLaunches ==
    ASSUME TypeOK, [Next]_vars
    PROVE  /\ used'.edits = used.edits \/ (Edit /\ used'.edits = used.edits + 1)
           /\ launch = Idle => launch' = Idle \/ Launch
<1> USE DEF TypeOK
<1>1. ASSUME NEW t \in Targets, Opens(t) \/ OpenRaise(t)
      PROVE  used'.edits = used.edits /\ (launch = Idle => launch' = Idle)
  BY <1>1 DEF Opens, LaunchVisit, OpenRun, OpenPost, OpenStamp, OpenFail, OpenRaise, Idle
<1>2. ASSUME NEW t \in Targets, Passes(t) \/ Elapse(t) PROVE UNCHANGED <<used, launch>>
  BY <1>2 DEF Passes, PassVisit, PassUndelivered, PassEscalate, PassSubmit, Elapse
<1>3. ASSUME NEW t \in Targets, Chases(t) \/ ChaseRaise(t)
      PROVE  used'.edits = used.edits /\ UNCHANGED launch
  BY <1>3 DEF Chases, ChaseCheck, ChaseRun, ChasePost, ChaseStamp, ChaseRaise
<1>4. ASSUME NEW t \in Targets, ReplyMatch(t) \/ ReplyStamp(t) \/ ReplyEnds(t)
      PROVE  UNCHANGED <<used, launch>>
  BY <1>4 DEF ReplyMatch, ReplyStamp, ReplyEnds, ReplyOpen, ReplyOutcome
<1>5. ASSUME Crash PROVE used'.edits = used.edits /\ launch' = Idle
  BY <1>5 DEF Crash
<1>6. ASSUME Edit PROVE used'.edits = used.edits + 1 /\ UNCHANGED launch
  BY <1>6 DEF Edit
<1> QED
  BY <1>1, <1>2, <1>3, <1>4, <1>5, <1>6
  DEF Next, Launch, LaunchEnd, PassBegin, LateWrite, vars

LEMMA WorkStep ==
    ASSUME Targets # {}, TypeOK, WorkInv, [Next]_vars
    PROVE  WorkInv'
<1> SUFFICES ASSUME used'.edits = 0
             PROVE  /\ Untouched(campaign', target')
                    /\ file' # NoSnapshot => Untouched(file'.campaign, file'.target)
                    /\ late' # NoSnapshot => Untouched(late'.campaign, late'.target)
                    /\ campaign' = "draft" => launch' = Idle
  BY DEF WorkInv, Untouched
<1>1. used.edits = 0 /\ ~Edit
  BY EditsAndLaunches DEF TypeOK, Edit
<1>2. /\ Untouched(campaign, target)
      /\ file # NoSnapshot => Untouched(file.campaign, file.target)
      /\ late # NoSnapshot => Untouched(late.campaign, late.target)
      /\ campaign = "draft" => launch = Idle
  BY <1>1 DEF WorkInv
<1>3. Untouched(campaign', target') /\ (campaign' = "draft" => launch' = Idle)
  <2>1. CASE Crash
    BY <1>2, <2>1 DEF Crash, Untouched
  <2>2. CASE Launch
    <3>1. \A t \in Targets : target'[t].status = "pending"
      BY <1>2, <2>2 DEF Launch, Untouched
    <3> QED
      BY <2>2, <3>1 DEF Launch, Untouched, Ended
  <2>3. CASE ~Crash /\ ~Launch
    <3>1. campaign' = campaign \/ CheckCompletion
      BY <1>1, <2>3, CampaignStep
    <3>2. campaign' \in {campaign, "completed"}
      BY <3>1 DEF CheckCompletion
    <3>3. ASSUME campaign' = "draft"
          PROVE  launch' = Idle /\ \A t \in Targets : target'[t].status = "pending"
      <4>1. campaign = "draft" /\ \A t \in Targets : target[t].status = "pending"
        BY <1>2, <3>2, <3>3 DEF Untouched
      <4>2. launch' = Idle
        BY <1>2, <2>3, <4>1, EditsAndLaunches
      <4>3. ASSUME NEW t \in Targets PROVE target'[t].status = "pending"
        <5>1. ~IsLaunched(t) /\ ~IsResolved(t)
          BY <1>2, <4>1 DEF IsLaunched, IsResolved, LaunchVisit, Idle
        <5>2. OpenFail(t) => target'[t].status = "pending"
          BY DEF OpenFail, TypeOK, TargetRecord
        <5> QED
          BY <2>3, <4>1, <5>1, <5>2, StatusStep
      <4> QED
        BY <4>2, <4>3
    <3>4. ASSUME campaign' = "active" PROVE \E t \in Targets : target'[t].status \notin Ended
      <4>1. PICK t \in Targets : target[t].status \notin Ended
        BY <1>2, <3>2, <3>4 DEF Untouched
      <4>2. CASE IsResolved(t)
        BY <1>2, <3>2, <3>4, <4>2 DEF IsResolved, CheckCompletion
      <4>3. CASE ~IsResolved(t)
        <5>1. OpenFail(t) => target'[t].status = "pending"
          BY DEF OpenFail, TypeOK, TargetRecord
        <5> QED
          BY <2>3, <4>1, <4>3, <5>1, StatusStep DEF IsLaunched, Ended
      <4> QED
        BY <4>2, <4>3
    <3> QED
      BY <1>2, <3>2, <3>3, <3>4 DEF Untouched
  <2> QED
    BY <2>1, <2>2, <2>3
<1>4. /\ file' # NoSnapshot => Untouched(file'.campaign, file'.target)
      /\ late' # NoSnapshot => Untouched(late'.campaign, late'.target)
  <2>1. CASE UNCHANGED diskVars
    BY <1>2, <2>1 DEF diskVars
  <2>2. CASE LateWrite
    BY <1>2, <2>2 DEF LateWrite
  <2>3. CASE Crash
    BY <1>2, <2>3 DEF Crash
  <2>4. CASE Save
    BY <1>2, <1>3, <2>4 DEF Save, Snapshot, diskVars
  <2>5. CASE Forget
    BY <2>5 DEF Forget
  <2> QED
    BY <2>1, <2>2, <2>3, <2>4, <2>5, WhoWrites
<1> QED
  BY <1>3, <1>4

\* As long as the operator leaves it alone, a campaign that is active has a
\* target without an outcome: the thread that resolves the last one completes
\* it, and no restart finds it otherwise.
THEOREM CampaignsComplete ==
    ASSUME Targets # {}
    PROVE  Spec => []ActiveHasWork
<1>1. Init => WorkInv
  BY DEF Init, WorkInv, Untouched, Snapshot, NoSnapshot, Idle
<1>2. WorkInv => ActiveHasWork
  BY DEF WorkInv, Untouched, ActiveHasWork
<1>3. TypeOK /\ WorkInv /\ [Next]_vars => WorkInv'
  BY WorkStep
<1> QED
  BY <1>1, <1>2, <1>3, CampaignTypes, PTL DEF Spec

-------------------------------------------------------------------------------
(* Chat sessions: the inductive invariant *)

Busy == {"saving", "waiting", "turn"}

\* A timer that _timers holds is armed.
Known == \A c \in Chats : timers[c].known => timers[c].armed > 0

\* Every message that was polled is one more chat in the buffer at most, and
\* every batch came from one.
Room == IsFiniteSet(buffer) /\ Len(batches) + Cardinality(buffer) <= arrived

\* The registry never grows beyond the hard cap.
Capped == Cardinality(registry) <= HardCap

\* Sessions are named by jobs, and a job works on a session of its own chat.
Sessioned ==
    /\ registry \subseteq Jobs
    /\ \A j \in Jobs : batches[j].at \in Busy =>
          batches[j].session \in Jobs /\ Chat(batches[j].session) = Chat(j)

\* Who holds session.lock: the job of the turn, a job that saves what it
\* evicted, or the eviction thread.
Holding ==
    /\ \A j \in Jobs : batches[j].at = "turn" => lock[batches[j].session] = j
    /\ \A o \in Ids : lock[o] # Free =>
          /\ o \in Jobs
          /\ lock[o] # Evictor =>
                /\ lock[o] \in Jobs
                /\ \/ batches[lock[o]].at = "saving"
                   \/ batches[lock[o]].at = "turn" /\ batches[lock[o]].session = o

\* A session of the registry is the only one of its chat there, and a turn whose
\* session was found in it keeps it there.
Turning ==
    /\ \A j \in Jobs : batches[j].at = "turn" /\ ~batches[j].stray =>
          batches[j].session \in registry
    /\ \A o, p \in registry : Chat(o) = Chat(p) => o = p

\* The sessions of a chat that somebody can still use; those that are listed or
\* locked; and the turns that were recorded.
Live(c) == {o \in Jobs : Chat(o) = c /\ (o \in registry \/ InUse(o))}
Held(c) == {o \in Jobs : Chat(o) = c /\ (o \in registry \/ lock[o] # Free)}
Kept(c) == {j \in Jobs : Chat(j) = c /\ batches[j].at = "kept"}

\* A chat that has one session at a time: it remembers every turn, and when
\* nobody holds it any more, or a turn outside the registry does, so does the file.
Whole(c) ==
    IF stage = "down" THEN Kept(c) \subseteq stored[c]
    ELSE /\ \A o, p \in Live(c) : o = p
         /\ \A o \in Live(c) : Kept(c) \subseteq turns[o]
         /\ Held(c) = {} => Kept(c) \subseteq stored[c]
         /\ \A j \in Jobs : Chat(j) = c /\ batches[j].at = "turn" /\ batches[j].session \notin registry
               => Kept(c) \subseteq stored[c]
Keeping ==
    /\ stage = "down" => \A j \in Jobs : batches[j].at \in Over
    /\ \A c \in Chats \ torn : Whole(c)

SessionParts == Sessioned /\ Holding /\ Turning /\ Keeping
SessionsInv == SessionsTypeOK /\ Known /\ Room /\ Capped /\ SessionParts

-------------------------------------------------------------------------------
(* What the steps do to the batches *)

\* Jobs are the numbers of the batches, and numbers of messages.
LEMMA JobFacts ==
    ASSUME SessionsTypeOK
    PROVE  /\ Jobs = 1 .. Len(batches) /\ Len(batches) \in Nat /\ Jobs \subseteq Ids
           /\ \A j \in Jobs : batches[j] \in Job
<1>1. Len(batches) \in Nat /\ Jobs = 1 .. Len(batches)
  BY DEF SessionsTypeOK, Jobs
<1>2. Jobs \subseteq Ids
  BY <1>1, SessionsAssumption DEF SessionsTypeOK, Ids
<1>3. ASSUME NEW j \in Jobs PROVE batches[j] \in Job
  BY <1>1 DEF SessionsTypeOK
<1> QED
  BY <1>1, <1>2, <1>3

\* Job j is now at s, working on session o; nothing else of any batch changed.
Becomes(j, s, o, b) ==
    /\ batches' \in Seq(Job) /\ Len(batches') = Len(batches) /\ Jobs' = Jobs
    /\ \A i \in Jobs : Chat(i)' = Chat(i)
    /\ \A i \in Jobs \ {j} : batches'[i] = batches[i]
    /\ batches'[j].at = s /\ batches'[j].session = o /\ batches'[j].stray = b

LEMMA Changed ==
    ASSUME SessionsTypeOK, NEW j \in Jobs, NEW r \in Job, r.chat = Chat(j),
           batches' = [batches EXCEPT ![j] = r]
    PROVE  Becomes(j, r.at, r.session, r.stray)
<1>1. j \in 1 .. Len(batches) /\ batches \in Seq(Job)
  BY JobFacts DEF SessionsTypeOK
<1>2. batches' \in Seq(Job) /\ Len(batches') = Len(batches)
  BY <1>1, ExceptSeq
<1>3. Jobs' = Jobs /\ \A i \in Jobs \ {j} : batches'[i] = batches[i]
  BY DEF Jobs
<1>4. batches'[j] = r
  BY DEF Jobs
<1>5. \A i \in Jobs : Chat(i)' = Chat(i)
  BY <1>3, <1>4 DEF Chat
<1> QED
  BY <1>2, <1>3, <1>4, <1>5 DEF Becomes

\* The forms the actions use.
LEMMA ChangedAt ==
    ASSUME SessionsTypeOK, NEW j \in Jobs,
           NEW s \in {"queued", "saving", "waiting", "turn"} \cup Over,
           batches' = [batches EXCEPT ![j].at = s]
    PROVE  Becomes(j, s, batches[j].session, batches[j].stray)
<1> DEFINE r == [batches[j] EXCEPT !.at = s]
<1>1. batches[j] \in Job
  BY JobFacts
<1>2. r \in Job /\ r.chat = batches[j].chat /\ r.at = s /\ r.session = batches[j].session
      /\ r.stray = batches[j].stray
  BY <1>1 DEF Job
<1>3. batches' = [batches EXCEPT ![j] = r]
  OBVIOUS
<1>5. r.chat = Chat(j)
  BY <1>2 DEF Chat
<1> HIDE DEF r
<1>4. Becomes(j, r.at, r.session, r.stray)
  BY <1>2, <1>3, <1>5, Changed
<1> QED
  BY <1>2, <1>4

LEMMA ChangedSession ==
    ASSUME SessionsTypeOK, NEW j \in Jobs,
           NEW s \in {"queued", "saving", "waiting", "turn"} \cup Over, NEW o \in Ids \cup {0},
           batches' = [batches EXCEPT ![j].at = s, ![j].session = o]
             \/ batches' = [batches EXCEPT ![j].session = o, ![j].at = s]
    PROVE  Becomes(j, s, o, batches[j].stray)
<1> DEFINE r == [batches[j] EXCEPT !.at = s, !.session = o]
<1>1. batches[j] \in Job
  BY JobFacts
<1>2. r \in Job /\ r.chat = batches[j].chat /\ r.at = s /\ r.session = o
      /\ r.stray = batches[j].stray
  BY <1>1 DEF Job
<1>3. batches' = [batches EXCEPT ![j] = r]
  <2>1. batches \in [Jobs -> Job]
    BY JobFacts DEF SessionsTypeOK, Jobs
  <2>2. [batches[j] EXCEPT !.session = o, !.at = s] = r
    BY <1>1 DEF Job
  <2> QED
    BY <2>1, <2>2, <1>1 DEF Job
<1>5. r.chat = Chat(j)
  BY <1>2 DEF Chat
<1> HIDE DEF r
<1>4. Becomes(j, r.at, r.session, r.stray)
  BY <1>2, <1>3, <1>5, Changed
<1> QED
  BY <1>2, <1>4

LEMMA ChangedStray ==
    ASSUME SessionsTypeOK, NEW j \in Jobs,
           NEW s \in {"queued", "saving", "waiting", "turn"} \cup Over, NEW b \in BOOLEAN,
           batches' = [batches EXCEPT ![j].at = s, ![j].stray = b]
    PROVE  Becomes(j, s, batches[j].session, b)
<1> DEFINE r == [batches[j] EXCEPT !.at = s, !.stray = b]
<1>1. batches[j] \in Job
  BY JobFacts
<1>2. r \in Job /\ r.chat = batches[j].chat /\ r.at = s /\ r.session = batches[j].session
      /\ r.stray = b
  BY <1>1 DEF Job
<1>3. batches' = [batches EXCEPT ![j] = r]
  <2>1. batches \in [Jobs -> Job]
    BY JobFacts DEF SessionsTypeOK, Jobs
  <2> QED
    BY <2>1, <1>1 DEF Job
<1>5. r.chat = Chat(j)
  BY <1>2 DEF Chat
<1> HIDE DEF r
<1>4. Becomes(j, r.at, r.session, r.stray)
  BY <1>2, <1>3, <1>5, Changed
<1> QED
  BY <1>2, <1>4

\* The batches get longer by queued ones.
Grows ==
    /\ batches' \in Seq(Job) /\ Jobs \subseteq Jobs'
    /\ \A i \in Jobs : batches'[i] = batches[i]
    /\ \A i \in Jobs' \ Jobs : batches'[i].at = "queued"

LEMMA Appended ==
    ASSUME SessionsTypeOK, NEW more \in Seq(Job), \A i \in DOMAIN more : more[i].at = "queued",
           batches' = batches \o more
    PROVE  Grows /\ Len(batches') = Len(batches) + Len(more)
<1>1. batches \in Seq(Job)
  BY DEF SessionsTypeOK
<1>2. /\ batches' \in Seq(Job) /\ Len(batches') = Len(batches) + Len(more)
      /\ \A i \in 1 .. Len(batches) + Len(more) :
            batches'[i] = IF i <= Len(batches) THEN batches[i] ELSE more[i - Len(batches)]
  BY <1>1, ConcatProperties
<1>3. Jobs = 1 .. Len(batches) /\ Jobs' = 1 .. Len(batches') /\ Len(batches) \in Nat
      /\ Len(more) \in Nat /\ DOMAIN more = 1 .. Len(more)
  BY <1>1, <1>2 DEF Jobs
<1>4. \A i \in Jobs : batches'[i] = batches[i]
  BY <1>2, <1>3
<1>5. \A i \in Jobs' \ Jobs : batches'[i].at = "queued"
  <2> SUFFICES ASSUME NEW i \in Jobs' \ Jobs PROVE batches'[i].at = "queued"
    OBVIOUS
  <2>1. i \in 1 .. Len(batches) + Len(more) /\ ~(i <= Len(batches)) /\ i - Len(batches) \in DOMAIN more
    BY <1>2, <1>3
  <2> QED
    BY <1>2, <2>1
<1> QED
  BY <1>2, <1>3, <1>4, <1>5 DEF Grows

LEMMA BatchTyped == \A c \in Chats : Batch(c) \in Job /\ Batch(c).at = "queued"
  BY DEF Batch, Job

-------------------------------------------------------------------------------
(* Sessions, locks and memories, step by step *)

\* Messages, timers and new batches disturb no session.
LEMMA GrowsStep ==
    ASSUME SessionsTypeOK, SessionParts, Grows, Jobs' \subseteq Ids, stage # "down", stage' # "down",
           UNCHANGED <<registry, turns, lock, stored, torn>>
    PROVE  SessionParts'
<1>1. \A i \in Jobs : Chat(i)' = Chat(i)
  BY DEF Grows, Chat
<1>2. \A i \in Jobs' : batches'[i].at # "queued" => i \in Jobs /\ batches'[i] = batches[i]
  BY DEF Grows
<1>3. Sessioned'
  <2>1. registry' \subseteq Jobs'
    BY DEF SessionParts, Sessioned, Grows
  <2>2. ASSUME NEW j \in Jobs', batches'[j].at \in Busy
        PROVE  batches'[j].session \in Jobs' /\ Chat(batches[j].session)' = Chat(j)'
    BY <2>2, <1>1, <1>2 DEF SessionParts, Sessioned, Grows, Busy, Chat
  <2> QED
    BY <2>1, <2>2 DEF Sessioned
<1>4. Holding'
  <2>1. ASSUME NEW j \in Jobs', batches'[j].at = "turn" PROVE lock'[batches'[j].session] = j
    BY <2>1, <1>2 DEF SessionParts, Holding
  <2>2. ASSUME NEW o \in Ids, lock'[o] # Free
        PROVE  /\ o \in Jobs'
               /\ lock'[o] # Evictor =>
                     /\ lock'[o] \in Jobs'
                     /\ \/ batches'[lock'[o]].at = "saving"
                        \/ batches'[lock'[o]].at = "turn" /\ batches'[lock'[o]].session = o
    BY <2>2 DEF SessionParts, Holding, Grows
  <2> QED
    BY <2>1, <2>2 DEF Holding
<1>5. Turning'
  <2>1. ASSUME NEW j \in Jobs', batches'[j].at = "turn", ~batches'[j].stray
        PROVE  batches'[j].session \in registry'
    BY <2>1, <1>2 DEF SessionParts, Turning
  <2>2. \A o, p \in registry' : Chat(o)' = Chat(p)' => o = p
    BY <1>1 DEF SessionParts, Turning, Sessioned
  <2> QED
    BY <2>1, <2>2 DEF Turning
<1>6. ASSUME NEW c PROVE Live(c)' = Live(c) /\ Held(c)' = Held(c) /\ Kept(c)' = Kept(c)
  <2>1. \A o \in Ids : InUse(o)' <=> InUse(o)
    BY <1>2 DEF InUse, Grows
  <2>2. \A o \in Jobs' : o \in registry' \/ InUse(o)' => o \in Jobs
    <3> SUFFICES ASSUME NEW o \in Jobs', o \in registry' \/ InUse(o)' PROVE o \in Jobs
      OBVIOUS
    <3>1. CASE o \in registry'
      BY <3>1 DEF SessionParts, Sessioned
    <3>2. CASE lock'[o] # Free
      BY <3>2 DEF SessionParts, Holding
    <3>3. CASE \E j \in Jobs' : batches'[j].session = o /\ batches'[j].at \in {"saving", "waiting"}
      BY <3>3, <1>2 DEF SessionParts, Sessioned, Busy
    <3> QED
      BY <3>1, <3>2, <3>3 DEF InUse
  <2>3. Jobs \subseteq Jobs' /\ Jobs \subseteq Ids
    BY JobFacts DEF Grows
  <2>4. Live(c)' = Live(c)
    BY <1>1, <2>1, <2>2, <2>3 DEF Live
  <2>5. Held(c)' = Held(c)
    BY <1>1, <2>1, <2>2, <2>3 DEF Held, InUse
  <2>6. Kept(c)' = Kept(c)
    BY <1>1, <1>2, <2>3 DEF Kept, Grows
  <2> QED
    BY <2>4, <2>5, <2>6
<1>7. Keeping'
  <2>1. ASSUME NEW c \in Chats \ torn' PROVE Whole(c)'
    <3>1. Whole(c)
      BY DEF SessionParts, Keeping
    <3>2. Live(c)' = Live(c) /\ Held(c)' = Held(c) /\ Kept(c)' = Kept(c)
      BY <1>6
    <3>3. \A j \in Jobs' : Chat(j)' = c /\ batches'[j].at = "turn" /\ batches'[j].session \notin registry'
             => Kept(c)' \subseteq stored'[c]
      BY <1>1, <1>2, <3>1, <3>2 DEF Whole
    <3> QED
      BY <3>1, <3>2, <3>3 DEF Whole
  <2> QED
    BY <2>1 DEF Keeping
<1> QED
  BY <1>3, <1>4, <1>5, <1>7 DEF SessionParts

\* Only the end of a turn adds to what is to be kept.
LEMMA KeptSame ==
    ASSUME NEW j \in Jobs, NEW s, NEW o, NEW b, Becomes(j, s, o, b),
           s # "kept", batches[j].at # "kept", NEW c
    PROVE  Kept(c)' = Kept(c)
  BY DEF Becomes, Kept

\* A session that is in use is the only live one of its chat.
LEMMA OneLive ==
    ASSUME SessionsTypeOK, SessionParts, stage # "down",
           NEW c \in Chats \ torn, NEW o \in Jobs, Chat(o) = c, o \in registry \/ InUse(o)
    PROVE  /\ o \in Live(c) /\ Kept(c) \subseteq turns[o]
           /\ \A p \in Jobs : Chat(p) = c /\ (p \in registry \/ InUse(p)) => p = o
  BY DEF SessionParts, Keeping, Whole, Live

\* get_or_create() finds the session.
LEMMA FindStep ==
    ASSUME SessionsTypeOK, SessionParts, stage # "down", UNCHANGED stage, UNCHANGED stored,
           NEW j \in Ids, At(j, "queued"), Find(j)
    PROVE  SessionParts'
<1>1. PICK o \in Sessions(Chat(j)) : batches' = [batches EXCEPT ![j].at = "waiting", ![j].session = o]
  BY DEF Find
<1>2. j \in Jobs /\ batches[j].at = "queued"
  BY DEF At
<1>3. o \in Jobs /\ o \in registry /\ Chat(o) = Chat(j) /\ o \in Ids
  BY JobFacts DEF Sessions, Chat
<1>4. Becomes(j, "waiting", o, batches[j].stray)
  BY <1>1, <1>2, <1>3, ChangedSession
<1>5. UNCHANGED <<registry, turns, lock, torn>>
  BY DEF Find
<1>6. Sessioned'
  BY <1>2, <1>3, <1>4, <1>5 DEF SessionParts, Sessioned, Becomes, Busy
<1>7. Holding'
  BY <1>2, <1>4, <1>5 DEF SessionParts, Holding, Becomes
<1>8. Turning'
  BY <1>2, <1>4, <1>5 DEF SessionParts, Turning, Sessioned, Becomes
<1>9. ASSUME NEW c PROVE Live(c)' = Live(c) /\ Held(c)' = Held(c) /\ Kept(c)' = Kept(c)
  <2>1. \A p \in Jobs : p # o => (InUse(p)' <=> InUse(p))
    BY <1>2, <1>4, <1>5 DEF InUse, Becomes
  <2>2. Live(c)' = Live(c)
    BY <2>1, <1>3, <1>4, <1>5 DEF Live, Becomes
  <2>3. Held(c)' = Held(c)
    BY <1>4, <1>5 DEF Held, Becomes
  <2>4. Kept(c)' = Kept(c)
    BY <1>2, <1>4, KeptSame
  <2> QED
    BY <2>2, <2>3, <2>4
<1>10. Keeping'
  <2>1. ASSUME NEW c \in Chats \ torn' PROVE Whole(c)'
    <3>1. Whole(c)
      BY <1>5 DEF SessionParts, Keeping
    <3>2. Live(c)' = Live(c) /\ Held(c)' = Held(c) /\ Kept(c)' = Kept(c)
      BY <1>9
    <3>3. \A i \in Jobs' : Chat(i)' = c /\ batches'[i].at = "turn" /\ batches'[i].session \notin registry'
             => Kept(c)' \subseteq stored'[c]
      BY <1>2, <1>4, <1>5, <3>1, <3>2 DEF Whole, Becomes
    <3> QED
      BY <1>5, <3>1, <3>2, <3>3 DEF Whole
  <2> QED
    BY <2>1 DEF Keeping
<1> QED
  BY <1>6, <1>7, <1>8, <1>10 DEF SessionParts

\* Sessions that leave the registry with their locks held: the eviction
\* thread's.
LEMMA LeaveStep ==
    ASSUME SessionsTypeOK, SessionParts, stage # "down", UNCHANGED <<stage, batches, turns, stored, torn>>,
           NEW gone \in SUBSET registry, \A o \in gone : lock[o] = Free,
           registry' = registry \ gone,
           lock' = [o \in Ids |-> IF o \in gone THEN Evictor ELSE lock[o]]
    PROVE  SessionParts'
<1>1. Jobs' = Jobs /\ (\A i \in Jobs : Chat(i)' = Chat(i)) /\ Jobs \subseteq Ids /\ registry \subseteq Jobs
  BY JobFacts DEF Jobs, Chat, SessionParts, Sessioned
<1>2. Evictor # Free /\ Evictor \notin Ids /\ Free \notin Ids
  BY DEF Evictor, Free, Ids
<1>3. \A o \in Ids : lock'[o] = IF o \in gone THEN Evictor ELSE lock[o]
  OBVIOUS
<1>4. Sessioned'
  BY <1>1 DEF SessionParts, Sessioned
<1>5. ASSUME NEW j \in Jobs, batches[j].at = "turn" PROVE batches[j].session \in Ids /\ batches[j].session \notin gone
  BY <1>1, <1>2, <1>5 DEF SessionParts, Sessioned, Holding, Busy
<1>6. Holding'
  <2>1. \A j \in Jobs' : batches'[j].at = "turn" => lock'[batches'[j].session] = j
    BY <1>1, <1>3, <1>5 DEF SessionParts, Holding
  <2>2. ASSUME NEW o \in Ids, lock'[o] # Free
        PROVE  /\ o \in Jobs'
               /\ lock'[o] # Evictor =>
                     /\ lock'[o] \in Jobs'
                     /\ \/ batches'[lock'[o]].at = "saving"
                        \/ batches'[lock'[o]].at = "turn" /\ batches'[lock'[o]].session = o
    BY <2>2, <1>1, <1>3 DEF SessionParts, Holding
  <2> QED
    BY <2>1, <2>2 DEF Holding
<1>7. Turning'
  BY <1>1, <1>5 DEF SessionParts, Turning
<1>8. ASSUME NEW c PROVE Live(c)' = Live(c) /\ Held(c)' = Held(c) /\ Kept(c)' = Kept(c)
  <2>1. \A p \in Jobs : (p \in registry' \/ lock'[p] # Free) <=> (p \in registry \/ lock[p] # Free)
    BY <1>1, <1>2, <1>3
  <2>2. \A p \in Jobs : (p \in registry' \/ InUse(p)') <=> (p \in registry \/ InUse(p))
    BY <2>1, <1>1 DEF InUse
  <2> QED
    BY <2>1, <2>2, <1>1 DEF Live, Held, Kept
<1>9. Keeping'
  <2>1. ASSUME NEW c \in Chats \ torn' PROVE Whole(c)'
    <3>1. Whole(c)
      BY DEF SessionParts, Keeping
    <3>2. Live(c)' = Live(c) /\ Held(c)' = Held(c) /\ Kept(c)' = Kept(c)
      BY <1>8
    <3>3. \A i \in Jobs' : Chat(i)' = c /\ batches'[i].at = "turn" /\ batches'[i].session \notin registry'
             => Kept(c)' \subseteq stored'[c]
      BY <1>1, <1>5, <3>1, <3>2 DEF Whole
    <3> QED
      BY <3>1, <3>2, <3>3 DEF Whole
  <2> QED
    BY <2>1 DEF Keeping
<1> QED
  BY <1>4, <1>6, <1>7, <1>9 DEF SessionParts

LEMMA EvictStep ==
    ASSUME SessionsTypeOK, SessionParts, Evict
    PROVE  SessionParts'
<1>1. PICK K \in LeastActive :
         LET gone == {o \in K : lock[o] = Free}
         IN  /\ registry' = registry \ gone
             /\ lock' = [o \in Ids |-> IF o \in gone THEN Evictor ELSE lock[o]]
  BY DEF Evict
<1> DEFINE gone == {o \in K : lock[o] = Free}
<1>2. gone \in SUBSET registry /\ (\A o \in gone : lock[o] = Free) /\ registry' = registry \ gone
      /\ lock' = [o \in Ids |-> IF o \in gone THEN Evictor ELSE lock[o]]
  BY <1>1 DEF LeastActive
<1>3. stage # "down" /\ UNCHANGED <<stage, batches, turns, stored, torn>>
  BY DEF Evict
<1> HIDE DEF gone
<1> QED
  BY <1>2, <1>3, LeaveStep

\* An evicted session is saved and its lock released: a job that saved the last
\* of them goes on to wait for its own session.
LEMMA ReleaseStep ==
    ASSUME SessionsTypeOK, SessionParts, stage # "down", UNCHANGED <<stage, registry, turns>>,
           NEW o \in Ids, lock[o] # Free, \A j \in Jobs : batches[j].at = "turn" => batches[j].session # o,
           Store(o, turns[o]), lock' = [lock EXCEPT ![o] = Free],
           Jobs' = Jobs, \A i \in Jobs : Chat(i)' = Chat(i),
           \A i \in Jobs : /\ batches'[i].session = batches[i].session
                           /\ batches'[i].stray = batches[i].stray
                           /\ \/ batches'[i].at = batches[i].at
                              \/ batches[i].at = "saving" /\ batches'[i].at = "waiting",
           \A p \in Ids \ {o} : lock[p] \in Jobs /\ batches[lock[p]].at = "saving"
              => batches'[lock[p]].at = "saving"
    PROVE  SessionParts'
<1>1. Jobs \subseteq Ids /\ registry \subseteq Jobs /\ lock \in [Ids -> Ids \cup {Free, Evictor}]
  BY JobFacts DEF SessionParts, Sessioned, SessionsTypeOK
<1>2. lock'[o] = Free /\ \A p \in Ids \ {o} : lock'[p] = lock[p]
  BY <1>1
<1>3. Sessioned'
  BY <1>1 DEF SessionParts, Sessioned, Busy
<1>4. Holding'
  <2>1. ASSUME NEW j \in Jobs', batches'[j].at = "turn" PROVE lock'[batches'[j].session] = j
    <3>1. batches[j].at = "turn" /\ batches[j].session \in Jobs /\ batches[j].session # o
      BY <2>1 DEF SessionParts, Sessioned, Busy
    <3> QED
      BY <3>1, <1>1, <1>2 DEF SessionParts, Holding
  <2>2. ASSUME NEW p \in Ids, lock'[p] # Free
        PROVE  /\ p \in Jobs'
               /\ lock'[p] # Evictor =>
                     /\ lock'[p] \in Jobs'
                     /\ \/ batches'[lock'[p]].at = "saving"
                        \/ batches'[lock'[p]].at = "turn" /\ batches'[lock'[p]].session = p
    <3>1. p # o /\ lock'[p] = lock[p]
      BY <2>2, <1>2
    <3> QED
      BY <2>2, <3>1 DEF SessionParts, Holding
  <2> QED
    BY <2>1, <2>2 DEF Holding
<1>5. Turning'
  BY <1>1 DEF SessionParts, Turning
<1>6. o \in Jobs /\ InUse(o)
  BY DEF SessionParts, Holding, InUse
<1>7. ASSUME NEW c
      PROVE  /\ Live(c)' \subseteq Live(c) /\ Kept(c)' = Kept(c)
             /\ Chat(o) # c \/ o \in registry => Held(c)' = Held(c)
  <2>1. \A p \in Jobs : InUse(p)' => InUse(p)
    BY <1>1, <1>2 DEF InUse
  <2>2. Live(c)' \subseteq Live(c)
    BY <2>1 DEF Live
  <2>3. Kept(c)' = Kept(c)
    BY DEF Kept
  <2>4. Chat(o) # c \/ o \in registry => Held(c)' = Held(c)
    BY <1>1, <1>2 DEF Held
  <2> QED
    BY <2>2, <2>3, <2>4
<1>8. ASSUME NEW c \in Chats \ torn' PROVE Whole(c)'
  <2>1. c \notin torn
    BY DEF Store
  <2>2. Whole(c)
    BY <2>1 DEF SessionParts, Keeping
  <2>3. \A i \in Jobs' : Chat(i)' = c /\ batches'[i].at = "turn" /\ batches'[i].session \notin registry'
          => Kept(c) \subseteq stored[c]
    BY <2>2 DEF Whole
  <2>4. (\A p, q \in Live(c)' : p = q) /\ (\A p \in Live(c)' : Kept(c)' \subseteq turns'[p])
    BY <1>7, <2>2 DEF Whole
  <2>5. CASE Chat(o) = c /\ stored' = [stored EXCEPT ![Chat(o)] = turns[o]]
    <3>1. Kept(c)' \subseteq stored'[c]
      BY <2>1, <2>5, <1>6, <1>7, OneLive DEF SessionsTypeOK
    <3> QED
      BY <2>4, <3>1 DEF Whole
  <2>6. CASE Chat(o) = c /\ UNCHANGED stored /\ o \in registry
    <3>1. Held(c)' = Held(c) /\ Kept(c)' = Kept(c)
      BY <2>6, <1>7
    <3> QED
      BY <2>2, <2>3, <2>4, <2>6, <3>1 DEF Whole
  <2>7. CASE Chat(o) # c
    <3>1. Held(c)' = Held(c) /\ Kept(c)' = Kept(c) /\ stored'[c] = stored[c]
      BY <2>7, <1>7 DEF Store, SessionsTypeOK
    <3> QED
      BY <2>2, <2>3, <2>4, <3>1 DEF Whole
  <2> QED
    BY <2>5, <2>6, <2>7 DEF Store
<1>9. Keeping'
  BY <1>8 DEF Keeping
<1> QED
  BY <1>3, <1>4, <1>5, <1>9 DEF SessionParts

LEMMA EvictSavesStep ==
    ASSUME SessionsTypeOK, SessionParts, NEW o \in Ids, EvictSaves(o)
    PROVE  SessionParts'
<1>1. lock[o] = Evictor /\ stage # "down" /\ UNCHANGED <<stage, registry, turns, batches>>
  BY DEF EvictSaves, sessions
<1>2. Evictor # Free /\ Evictor \notin Ids
  BY DEF Evictor, Free, Ids
<1>3. \A j \in Jobs : batches[j].at = "turn" => batches[j].session # o
  BY <1>1, <1>2, JobFacts DEF SessionParts, Holding
<1>4. Jobs' = Jobs /\ \A i \in Jobs : Chat(i)' = Chat(i)
  BY <1>1 DEF Jobs, Chat
<1>5. Store(o, turns[o]) /\ lock' = [lock EXCEPT ![o] = Free]
  BY DEF EvictSaves
<1> QED
  BY <1>1, <1>2, <1>3, <1>4, <1>5, ReleaseStep

LEMMA SaveEvictedStep ==
    ASSUME SessionsTypeOK, SessionParts, stage # "down", NEW j \in Ids, NEW o \in Ids, SaveEvicted(j, o)
    PROVE  SessionParts'
<1>1. /\ j \in Jobs /\ batches[j].at = "saving" /\ lock[o] = j
      /\ UNCHANGED <<stage, registry, turns>> /\ j # Free
  BY DEF SaveEvicted, At, sessions, Ids, Free
<1>2. \A i \in Jobs : batches[i].at = "turn" => batches[i].session # o
  BY <1>1 DEF SessionParts, Holding
<1>3. Store(o, turns[o]) /\ lock' = [lock EXCEPT ![o] = Free]
  BY DEF SaveEvicted
<1>4. CASE \E p \in Ids \ {o} : lock[p] = j
  <2>1. UNCHANGED batches
    BY <1>4 DEF SaveEvicted
  <2>2. Jobs' = Jobs /\ \A i \in Jobs : Chat(i)' = Chat(i)
    BY <2>1 DEF Jobs, Chat
  <2> QED
    BY <1>1, <1>2, <1>3, <2>1, <2>2, ReleaseStep
<1>5. CASE ~\E p \in Ids \ {o} : lock[p] = j
  <2>1. Becomes(j, "waiting", batches[j].session, batches[j].stray)
    BY <1>1, <1>5, ChangedAt DEF SaveEvicted
  <2>2. Jobs' = Jobs /\ \A i \in Jobs : Chat(i)' = Chat(i)
    BY <2>1 DEF Becomes
  <2>3. \A i \in Jobs : /\ batches'[i].session = batches[i].session
                        /\ batches'[i].stray = batches[i].stray
                        /\ \/ batches'[i].at = batches[i].at
                           \/ batches[i].at = "saving" /\ batches'[i].at = "waiting"
    BY <1>1, <2>1 DEF Becomes
  <2>4. \A p \in Ids \ {o} : lock[p] \in Jobs /\ batches[lock[p]].at = "saving"
           => batches'[lock[p]].at = "saving"
    BY <1>5, <2>1 DEF Becomes
  <2> QED
    BY <1>1, <1>2, <1>3, <2>2, <2>3, <2>4, ReleaseStep
<1> QED
  BY <1>4, <1>5

\* handle() takes session.lock, maybe of a session that was evicted since its
\* lookup: then its chat's file is up to date, for nobody else is live.
LEMMA TakeLockStep ==
    ASSUME SessionsTypeOK, SessionParts, stage # "down", NEW j \in Ids, TakeLock(j)
    PROVE  SessionParts'
<1> DEFINE o == batches[j].session
           b == o \notin registry
<1>1. /\ j \in Jobs /\ batches[j].at = "waiting" /\ lock[o] = Free
      /\ UNCHANGED <<stage, registry, turns, stored, torn>> /\ lock' = [lock EXCEPT ![o] = j]
  BY DEF TakeLock, At
<1>2. Jobs \subseteq Ids /\ registry \subseteq Jobs /\ o \in Jobs /\ Chat(o) = Chat(j) /\ j # Free /\ j # Evictor
  BY <1>1, JobFacts DEF SessionParts, Sessioned, Busy, Ids, Free, Evictor
<1>3. Becomes(j, "turn", o, b)
  BY <1>1, ChangedStray DEF TakeLock
<1>4. lock'[o] = j /\ \A p \in Ids \ {o} : lock'[p] = lock[p]
  BY <1>1, <1>2 DEF SessionsTypeOK
<1>5. InUse(o)
  BY <1>1 DEF InUse
<1> HIDE DEF o
<1>6. Sessioned'
  BY <1>1, <1>2, <1>3 DEF SessionParts, Sessioned, Becomes, Busy
<1>7. Holding'
  <2>1. ASSUME NEW i \in Jobs', batches'[i].at = "turn" PROVE lock'[batches'[i].session] = i
    <3>1. CASE i = j
      BY <3>1, <1>3, <1>4 DEF Becomes
    <3>2. CASE i # j
      <4>1. i \in Jobs /\ batches[i].at = "turn" /\ batches'[i] = batches[i] /\ i # Free
        BY <2>1, <3>2, <1>2, <1>3 DEF Becomes, Ids, Free
      <4>2. batches[i].session \in Jobs /\ lock[batches[i].session] = i
        BY <4>1 DEF SessionParts, Sessioned, Holding, Busy
      <4>3. batches[i].session # o
        BY <4>1, <4>2, <1>1 DEF o
      <4> QED
        BY <4>1, <4>2, <4>3, <1>2, <1>4
    <3> QED
      BY <3>1, <3>2
  <2>2. ASSUME NEW p \in Ids, lock'[p] # Free
        PROVE  /\ p \in Jobs'
               /\ lock'[p] # Evictor =>
                     /\ lock'[p] \in Jobs'
                     /\ \/ batches'[lock'[p]].at = "saving"
                        \/ batches'[lock'[p]].at = "turn" /\ batches'[lock'[p]].session = p
    <3>1. CASE p = o
      BY <3>1, <1>1, <1>2, <1>3, <1>4 DEF Becomes
    <3>2. CASE p # o
      <4>1. lock'[p] = lock[p]
        BY <3>2, <1>4
      <4> QED
        BY <4>1, <2>2, <1>1, <1>3 DEF SessionParts, Holding, Becomes
    <3> QED
      BY <3>1, <3>2
  <2> QED
    BY <2>1, <2>2 DEF Holding
<1>8. Turning'
  <2>1. ASSUME NEW i \in Jobs', batches'[i].at = "turn", ~batches'[i].stray
        PROVE  batches'[i].session \in registry'
    <3>1. CASE i = j
      BY <2>1, <3>1, <1>1, <1>3 DEF Becomes
    <3>2. CASE i # j
      BY <2>1, <3>2, <1>1, <1>3 DEF SessionParts, Turning, Becomes
    <3> QED
      BY <3>1, <3>2
  <2>2. \A p, q \in registry' : Chat(p)' = Chat(q)' => p = q
    BY <1>1, <1>2, <1>3 DEF SessionParts, Turning, Becomes
  <2> QED
    BY <2>1, <2>2 DEF Turning
<1>9. ASSUME NEW c
      PROVE  /\ Live(c)' \subseteq Live(c) /\ Kept(c)' = Kept(c)
             /\ Held(c) \subseteq Held(c)' /\ (Chat(j) # c => Held(c)' = Held(c))
  <2>1. \A p \in Jobs : InUse(p)' => InUse(p)
    <3> SUFFICES ASSUME NEW p \in Jobs, InUse(p)', p # o PROVE InUse(p)
      BY <1>5
    <3>1. lock'[p] = lock[p]
      BY <1>2, <1>4
    <3>2. \A i \in Jobs' : batches'[i].session = p /\ batches'[i].at \in {"saving", "waiting"}
             => i \in Jobs /\ batches'[i] = batches[i]
      BY <1>3 DEF Becomes
    <3> QED
      BY <3>1, <3>2 DEF InUse
  <2>2. Live(c)' \subseteq Live(c)
    BY <2>1, <1>1, <1>3 DEF Live, Becomes
  <2>3. Kept(c)' = Kept(c)
    BY <1>1, <1>3, KeptSame
  <2>4. Held(c) \subseteq Held(c)'
    BY <1>1, <1>2, <1>3, <1>4 DEF Held, Becomes
  <2>5. Chat(j) # c => Held(c)' = Held(c)
    BY <1>1, <1>2, <1>3, <1>4 DEF Held, Becomes
  <2> QED
    BY <2>2, <2>3, <2>4, <2>5
<1>10. ASSUME NEW c \in Chats \ torn' PROVE Whole(c)'
  <2>1. Whole(c) /\ c \in Chats \ torn
    BY <1>1 DEF SessionParts, Keeping
  <2>2. (\A p, q \in Live(c)' : p = q) /\ (\A p \in Live(c)' : Kept(c)' \subseteq turns'[p])
    BY <1>1, <1>9, <2>1 DEF Whole
  <2>3. Held(c)' = {} => Kept(c)' \subseteq stored'[c]
    BY <1>1, <1>9, <2>1 DEF Whole
  <2>4. ASSUME NEW i \in Jobs', Chat(i)' = c, batches'[i].at = "turn", batches'[i].session \notin registry'
        PROVE  Kept(c)' \subseteq stored'[c]
    <3>1. CASE i = j
      <4>1. Chat(o) = c /\ o \notin registry
        BY <2>4, <3>1, <1>1, <1>2, <1>3 DEF Becomes
      <4>2. \A p \in Jobs : Chat(p) = c /\ (p \in registry \/ InUse(p)) => p = o
        BY <4>1, <2>1, <1>1, <1>2, <1>5, OneLive
      <4>3. Held(c) = {}
        BY <4>1, <4>2, <1>1 DEF Held, InUse, o
      <4> QED
        BY <4>3, <2>1, <1>1, <1>9 DEF Whole
    <3>2. CASE i # j
      BY <2>1, <2>4, <3>2, <1>1, <1>3, <1>9 DEF Whole, Becomes
    <3> QED
      BY <3>1, <3>2
  <2> QED
    BY <2>2, <2>3, <2>4, <1>1 DEF Whole
<1>11. Keeping'
  BY <1>1, <1>10 DEF Keeping
<1> QED
  BY <1>6, <1>7, <1>8, <1>11 DEF SessionParts

\* Job j has left session o and its lock.
Unlocked(j, o) ==
    /\ o \in Jobs /\ Chat(o) = Chat(j) /\ lock[o] = j /\ InUse(o)
    /\ Sessioned' /\ Holding' /\ Turning'
    /\ \A c : Live(c)' \subseteq Live(c)
    /\ \A c : c # Chat(j) \/ o \in registry => Held(c)' = Held(c)
    /\ \A i \in Jobs' : batches'[i].at = "turn" =>
          i # j /\ batches'[i] = batches[i] /\ batches[i].session # o

\* The turn ends, with or without a reply.
LEMMA UnlockFacts ==
    ASSUME SessionsTypeOK, SessionParts, stage # "down", NEW j \in Jobs, NEW o, NEW s \in {"silent", "kept"},
           batches[j].at = "turn", o = batches[j].session, Becomes(j, s, o, batches[j].stray),
           lock' = [lock EXCEPT ![o] = Free], UNCHANGED registry
    PROVE  Unlocked(j, o)
<1>1. Jobs \subseteq Ids /\ registry \subseteq Jobs /\ j # Free /\ j # Evictor
  BY JobFacts DEF SessionParts, Sessioned, Ids, Free, Evictor
<1>2. o \in Jobs /\ Chat(o) = Chat(j) /\ lock[o] = j /\ InUse(o)
  BY <1>1 DEF SessionParts, Sessioned, Holding, Busy, InUse
<1>3. lock'[o] = Free /\ \A p \in Ids \ {o} : lock'[p] = lock[p]
  BY <1>1, <1>2 DEF SessionsTypeOK
<1>4. ASSUME NEW i \in Jobs', batches'[i].at = "turn"
      PROVE  i \in Jobs /\ i # j /\ batches'[i] = batches[i] /\ batches[i].session # o
  <2>1. i \in Jobs /\ i # j /\ batches'[i] = batches[i]
    BY <1>4 DEF Becomes
  <2> QED
    BY <1>2, <1>4, <2>1 DEF SessionParts, Holding
<1>5. Sessioned'
  BY <1>1 DEF SessionParts, Sessioned, Becomes, Busy
<1>6. Holding'
  <2>1. ASSUME NEW i \in Jobs', batches'[i].at = "turn" PROVE lock'[batches'[i].session] = i
    <3>1. batches'[i] = batches[i] /\ batches[i].session \in Ids \ {o} /\ lock[batches[i].session] = i
      BY <2>1, <1>1, <1>4 DEF SessionParts, Sessioned, Holding, Busy
    <3> QED
      BY <3>1, <1>3
  <2>2. ASSUME NEW p \in Ids, lock'[p] # Free
        PROVE  /\ p \in Jobs'
               /\ lock'[p] # Evictor =>
                     /\ lock'[p] \in Jobs'
                     /\ \/ batches'[lock'[p]].at = "saving"
                        \/ batches'[lock'[p]].at = "turn" /\ batches'[lock'[p]].session = p
    <3>1. p # o /\ lock'[p] = lock[p]
      BY <2>2, <1>3
    <3>2. lock[p] # j
      BY <2>2, <3>1, <1>1 DEF SessionParts, Holding
    <3> QED
      BY <2>2, <3>1, <3>2 DEF SessionParts, Holding, Becomes
  <2> QED
    BY <2>1, <2>2 DEF Holding
<1>7. Turning'
  <2>1. \A i \in Jobs' : batches'[i].at = "turn" /\ ~batches'[i].stray => batches'[i].session \in registry'
    BY <1>4 DEF SessionParts, Turning
  <2>2. \A p, q \in registry' : Chat(p)' = Chat(q)' => p = q
    BY <1>1 DEF SessionParts, Turning, Becomes
  <2> QED
    BY <2>1, <2>2 DEF Turning
<1>8. ASSUME NEW c PROVE Live(c)' \subseteq Live(c)
  <2>1. \A p \in Jobs : InUse(p)' => InUse(p)
    <3> SUFFICES ASSUME NEW p \in Jobs, InUse(p)', p # o PROVE InUse(p)
      BY <1>2
    <3>1. lock'[p] = lock[p]
      BY <1>1, <1>3
    <3>2. \A i \in Jobs' : batches'[i].at \in {"saving", "waiting"} => i \in Jobs /\ batches'[i] = batches[i]
      BY DEF Becomes
    <3> QED
      BY <3>1, <3>2 DEF InUse
  <2> QED
    BY <2>1 DEF Live, Becomes
<1>9. ASSUME NEW c, c # Chat(j) \/ o \in registry PROVE Held(c)' = Held(c)
  BY <1>1, <1>2, <1>3, <1>9 DEF Held, Becomes
<1> QED
  BY <1>2, <1>4, <1>5, <1>6, <1>7, <1>8, <1>9 DEF Unlocked

LEMMA SilentStep ==
    ASSUME SessionsTypeOK, SessionParts, stage # "down", NEW j \in Ids, Silent(j)
    PROVE  SessionParts'
<1> DEFINE o == batches[j].session
<1>1. /\ j \in Jobs /\ batches[j].at = "turn" /\ lock' = [lock EXCEPT ![o] = Free]
      /\ UNCHANGED <<stage, registry, turns, stored, torn>>
  BY DEF Silent, At, sessions
<1>2. Becomes(j, "silent", o, batches[j].stray)
  BY <1>1, ChangedAt DEF Silent, Over
<1> HIDE DEF o
<1>3. o = batches[j].session
  BY DEF o
<1>4. /\ o \in Jobs /\ Chat(o) = Chat(j) /\ lock[o] = j /\ InUse(o)
      /\ Sessioned' /\ Holding' /\ Turning'
      /\ \A c : Live(c)' \subseteq Live(c)
      /\ \A c : c # Chat(j) \/ o \in registry => Held(c)' = Held(c)
      /\ \A i \in Jobs' : batches'[i].at = "turn" =>
            i # j /\ batches'[i] = batches[i] /\ batches[i].session # o
  <2>1. Unlocked(j, o)
    BY <1>1, <1>2, <1>3, UnlockFacts
  <2> QED
    BY <2>1 DEF Unlocked
<1>5. ASSUME NEW c \in Chats \ torn' PROVE Whole(c)'
  <2>1. Whole(c) /\ Kept(c)' = Kept(c)
    BY <1>1, <1>2, KeptSame DEF SessionParts, Keeping
  <2>2. (\A p, q \in Live(c)' : p = q) /\ (\A p \in Live(c)' : Kept(c)' \subseteq turns'[p])
    BY <1>1, <1>4, <2>1 DEF Whole
  <2>3. Held(c)' = {} => Kept(c)' \subseteq stored'[c]
    BY <1>1, <1>3, <1>4, <2>1 DEF Whole
  <2>4. \A i \in Jobs' : Chat(i)' = c /\ batches'[i].at = "turn" /\ batches'[i].session \notin registry'
          => Kept(c)' \subseteq stored'[c]
    BY <1>1, <1>2, <1>4, <2>1 DEF Whole, Becomes
  <2> QED
    BY <2>2, <2>3, <2>4, <1>1 DEF Whole
<1>6. Keeping'
  BY <1>1, <1>5 DEF Keeping
<1> QED
  BY <1>4, <1>6 DEF SessionParts

\* update() and save(): the session remembers the turn, and so does the file,
\* unless the save raises and the session is listed still, or the chat is torn.
LEMMA RecordStep ==
    ASSUME SessionsTypeOK, SessionParts, stage # "down", NEW j \in Ids, Record(j)
    PROVE  SessionParts'
<1> DEFINE o == batches[j].session
<1>1. /\ j \in Jobs /\ batches[j].at = "turn" /\ lock' = [lock EXCEPT ![o] = Free]
      /\ UNCHANGED <<stage, registry>> /\ turns' = [turns EXCEPT ![o] = @ \cup {j}]
      /\ Store(o, turns[o] \cup {j})
  BY DEF Record, At, sessions
<1>2. Becomes(j, "kept", o, batches[j].stray)
  BY <1>1, ChangedAt DEF Record, Over
<1> HIDE DEF o
<1>3. o = batches[j].session /\ Jobs \subseteq Ids
  BY JobFacts DEF o
<1>4. /\ o \in Jobs /\ Chat(o) = Chat(j) /\ lock[o] = j /\ InUse(o)
      /\ Sessioned' /\ Holding' /\ Turning'
      /\ \A c : Live(c)' \subseteq Live(c)
      /\ \A c : c # Chat(j) \/ o \in registry => Held(c)' = Held(c)
      /\ \A i \in Jobs' : batches'[i].at = "turn" =>
            i # j /\ batches'[i] = batches[i] /\ batches[i].session # o
  <2>1. Unlocked(j, o)
    BY <1>1, <1>2, <1>3, UnlockFacts
  <2> QED
    BY <2>1 DEF Unlocked
<1>5. turns'[o] = turns[o] \cup {j} /\ \A p \in Ids \ {o} : turns'[p] = turns[p]
  BY <1>1, <1>3, <1>4 DEF SessionsTypeOK
<1>6. ASSUME NEW c \in Chats \ torn' PROVE Whole(c)'
  <2>1. Whole(c) /\ c \in Chats \ torn
    BY <1>1 DEF SessionParts, Keeping, Store
  <2>2. CASE c = Chat(j)
    <3>1. /\ Kept(c)' \subseteq Kept(c) \cup {j}
          /\ Kept(c) \subseteq turns[o]
          /\ \A p \in Jobs : Chat(p) = c /\ (p \in registry \/ InUse(p)) => p = o
      <4>1. Kept(c)' \subseteq Kept(c) \cup {j}
        BY <1>2 DEF Kept, Becomes
      <4> QED
        BY <4>1, <2>1, <2>2, <1>4, OneLive
    <3>2. Kept(c)' \subseteq turns'[o]
      BY <3>1, <1>5
    <3>3. (\A p, q \in Live(c)' : p = q) /\ (\A p \in Live(c)' : Kept(c)' \subseteq turns'[p])
      <4>1. \A p \in Live(c)' : p = o
        BY <3>1, <1>4 DEF Live
      <4> QED
        BY <4>1, <3>2
    <3>4. Held(c)' = {} => Kept(c)' \subseteq stored'[c]
      <4>1. CASE stored' = [stored EXCEPT ![Chat(o)] = turns[o] \cup {j}]
        BY <4>1, <2>2, <3>2, <1>4, <1>5 DEF SessionsTypeOK
      <4>2. CASE o \in registry
        <5>1. o \in Held(c)
          BY <4>2, <2>2, <1>4 DEF Held
        <5> QED
          BY <5>1, <4>2, <1>4
      <4> QED
        BY <4>1, <4>2, <2>2, <1>1, <1>4 DEF Store
    <3>5. ASSUME NEW i \in Jobs', Chat(i)' = c, batches'[i].at = "turn", batches'[i].session \notin registry'
          PROVE  FALSE
      <4>1. /\ i \in Jobs /\ Chat(i) = c /\ batches[i].at = "turn" /\ batches[i].session # o
            /\ i # Free
        BY <3>5, <1>2, <1>3, <1>4 DEF Becomes, Ids, Free
      <4>2. /\ batches[i].session \in Jobs /\ Chat(batches[i].session) = c
            /\ lock[batches[i].session] = i
        BY <4>1 DEF SessionParts, Sessioned, Holding, Busy
      <4> QED
        BY <4>1, <4>2, <3>1 DEF InUse
    <3> QED
      BY <3>3, <3>4, <3>5, <1>1 DEF Whole
  <2>3. CASE c # Chat(j)
    <3>1. Kept(c)' = Kept(c) /\ Held(c)' = Held(c) /\ stored'[c] = stored[c]
      <4>1. Kept(c)' = Kept(c)
        BY <2>3, <1>1, <1>2 DEF Kept, Becomes
      <4>2. stored'[c] = stored[c]
        BY <2>3, <1>1, <1>4 DEF Store, SessionsTypeOK
      <4> QED
        BY <4>1, <4>2, <2>3, <1>4
    <3>2. \A p \in Live(c)' : p \in Live(c) /\ turns'[p] = turns[p]
      <4>1. \A p \in Live(c) : p \in Ids \ {o}
        BY <2>3, <1>3, <1>4 DEF Live
      <4> QED
        BY <4>1, <1>4, <1>5
    <3>3. \A i \in Jobs' : Chat(i)' = c /\ batches'[i].at = "turn" /\ batches'[i].session \notin registry'
            => Kept(c)' \subseteq stored'[c]
      BY <1>1, <1>2, <1>4, <2>1, <3>1 DEF Whole, Becomes
    <3> QED
      BY <2>1, <3>1, <3>2, <3>3, <1>1 DEF Whole
  <2> QED
    BY <2>2, <2>3
<1>7. Keeping'
  BY <1>1, <1>6 DEF Keeping
<1> QED
  BY <1>4, <1>7 DEF SessionParts

\* Sets of jobs are finite, and so is the registry.
LEMMA RegistryFinite ==
    ASSUME SessionsTypeOK
    PROVE  /\ IsFiniteSet(registry) /\ Cardinality(registry) \in Nat
           /\ \A T \in SUBSET registry :
                 /\ IsFiniteSet(T) /\ Cardinality(T) \in Nat /\ Cardinality(T) <= Cardinality(registry)
                 /\ Cardinality(T) = Cardinality(registry) => T = registry
<1>1. IsFiniteSet(Ids)
  BY SessionsAssumption, FS_Interval DEF Ids
<1>2. IsFiniteSet(registry)
  BY <1>1, FS_Subset DEF SessionsTypeOK
<1>3. ASSUME NEW T \in SUBSET registry
      PROVE  /\ IsFiniteSet(T) /\ Cardinality(T) \in Nat /\ Cardinality(T) <= Cardinality(registry)
             /\ Cardinality(T) = Cardinality(registry) => T = registry
  BY <1>2, <1>3, FS_Subset, FS_CardinalityType
<1> QED
  BY <1>2, <1>3, FS_CardinalityType

LEMMA CapFacts == HardCap \in Nat /\ HardCap >= MaxSessions
  BY SessionsAssumption DEF HardCap

\* What get_or_create() does when it finds no session: gone are evicted, and
\* the job is refused, with nobody gone, or gets a session of its own.
Refuses(j) ==
    /\ Becomes(j, "dropped", 0, batches[j].stray) /\ UNCHANGED <<registry, turns, lock, torn>>

Makes(j, gone) ==
    /\ gone \subseteq registry /\ \A o \in gone : lock[o] = Free
    /\ Becomes(j, IF gone = {} THEN "waiting" ELSE "saving", j, batches[j].stray)
    /\ lock' = [o \in Ids |-> IF o \in gone THEN j ELSE lock[o]]
    /\ registry' = (registry \ gone) \cup {j}
    /\ Cardinality(registry \ gone) < HardCap
    /\ turns' = [turns EXCEPT ![j] = stored[Chat(j)]]
    /\ torn' = IF \E o \in Jobs : Chat(o) = Chat(j) /\ InUse(o) THEN torn \cup {Chat(j)} ELSE torn

LEMMA CreateFacts ==
    ASSUME SessionsTypeOK, Capped, NEW j \in Jobs, Create(j)
    PROVE  Sessions(Chat(j)) = {} /\ (Refuses(j) \/ \E gone : Makes(j, gone))
<1> DEFINE full == Cardinality(registry) >= MaxSessions
<1>1. PICK K \in LeastActive :
        LET gone == Leaving(K)
            left == registry \ gone
            c == Chat(j)
            refused == Cardinality(registry) >= MaxSessions /\ Cardinality(left) >= HardCap
        IN  /\ Sessions(c) = {}
            /\ lock' = [o \in Ids |-> IF o \in gone THEN j ELSE lock[o]]
            /\ registry' = IF refused THEN left ELSE left \cup {j}
            /\ older' = IF refused THEN Among(left) ELSE Last(left, j)
            /\ turns' = IF refused THEN turns ELSE [turns EXCEPT ![j] = stored[c]]
            /\ batches' = [batches EXCEPT ![j].session = IF refused THEN 0 ELSE j,
                                          ![j].at = IF refused THEN "dropped"
                                                    ELSE IF gone = {} THEN "waiting" ELSE "saving"]
            /\ torn' = IF ~refused /\ \E o \in Jobs : Chat(o) = c /\ InUse(o)
                       THEN torn \cup {c} ELSE torn
  BY DEF Create
<1> DEFINE gone == Leaving(K)
           refused == full /\ Cardinality(registry \ gone) >= HardCap
<1>2. gone \in SUBSET registry /\ (\A o \in gone : lock[o] = Free) /\ (~full => gone = {})
  <2>1. K \subseteq registry
    BY DEF LeastActive
  <2>2. full = ~(Cardinality(registry) < MaxSessions)
    BY SessionsAssumption, RegistryFinite
  <2> QED
    BY <2>1, <2>2 DEF Leaving
<1>3. /\ lock' = [o \in Ids |-> IF o \in gone THEN j ELSE lock[o]]
      /\ registry' = IF refused THEN registry \ gone ELSE (registry \ gone) \cup {j}
      /\ turns' = IF refused THEN turns ELSE [turns EXCEPT ![j] = stored[Chat(j)]]
      /\ batches' = [batches EXCEPT ![j].session = IF refused THEN 0 ELSE j,
                                    ![j].at = IF refused THEN "dropped"
                                              ELSE IF gone = {} THEN "waiting" ELSE "saving"]
      /\ torn' = IF ~refused /\ \E o \in Jobs : Chat(o) = Chat(j) /\ InUse(o)
                 THEN torn \cup {Chat(j)} ELSE torn
      /\ Sessions(Chat(j)) = {}
  BY <1>1
<1> HIDE DEF gone
<1>4. j \in Ids
  BY JobFacts
<1>5. CASE refused
  <2>1. gone = {}
    <3>1. Cardinality(registry \ gone) >= Cardinality(registry)
      BY <1>2, <1>5, CapFacts, RegistryFinite DEF Capped
    <3>2. registry \ gone = registry
      <4>1. registry \ gone \in SUBSET registry
        OBVIOUS
      <4>2. Cardinality(registry \ gone) = Cardinality(registry)
        BY <3>1, <4>1, RegistryFinite
      <4> QED
        BY <4>1, <4>2, RegistryFinite
    <3> QED
      BY <3>2, <1>2
  <2>2. registry' = registry /\ turns' = turns /\ torn' = torn
    BY <1>3, <1>5, <2>1
  <2>3. lock' = lock
    BY <1>3, <2>1 DEF SessionsTypeOK
  <2>4. batches' = [batches EXCEPT ![j].session = 0, ![j].at = "dropped"]
    BY <1>3, <1>5
  <2>5. Becomes(j, "dropped", 0, batches[j].stray)
    BY <2>4, ChangedSession DEF Over
  <2> QED
    BY <2>2, <2>3, <2>5, <1>3 DEF Refuses
<1>6. CASE ~refused
  <2> DEFINE s == IF gone = {} THEN "waiting" ELSE "saving"
  <2>1. batches' = [batches EXCEPT ![j].session = j, ![j].at = s]
    BY <1>3, <1>6
  <2>2. s \in {"queued", "saving", "waiting", "turn"} \cup Over
    OBVIOUS
  <2> HIDE DEF s
  <2>3. Becomes(j, s, j, batches[j].stray)
    BY <1>4, <2>1, <2>2, ChangedSession
  <2>4. Cardinality(registry \ gone) < HardCap
    <3>1. CASE full
      BY <3>1, <1>6, CapFacts, RegistryFinite
    <3>2. CASE ~full
      <4>1. registry \ gone = registry
        BY <3>2, <1>2
      <4> QED
        BY <3>2, <4>1, CapFacts, RegistryFinite, SessionsAssumption
    <3> QED
      BY <3>1, <3>2
  <2> HIDE DEF refused
  <2>5. Makes(j, gone)
    BY <1>2, <1>3, <1>6, <2>3, <2>4 DEF Makes, s
  <2> QED
    BY <2>5, <1>3
<1> QED
  BY <1>5, <1>6

\* The hard cap: it is reached only from below.
LEMMA CappedStep == SessionsTypeOK /\ Capped /\ [SessionsNext]_sessionVars => Capped'
<1> SUFFICES ASSUME SessionsTypeOK, Capped, [SessionsNext]_sessionVars PROVE Capped'
  OBVIOUS
<1>1. ASSUME NEW T \in SUBSET registry, registry' = T PROVE Capped'
  BY <1>1, RegistryFinite, CapFacts DEF Capped, HardCap
<1>2. ASSUME NEW j \in Ids, Start(j) PROVE Capped'
  <2>1. CASE Find(j)
    BY <2>1, <1>1 DEF Find
  <2>2. CASE Create(j)
    <3>1. j \in Jobs
      BY <1>2 DEF Start, At
    <3>2. CASE Refuses(j)
      BY <3>2, <1>1 DEF Refuses
    <3>3. ASSUME NEW gone, Makes(j, gone) PROVE Capped'
      <4>1. IsFiniteSet(registry \ gone) /\ Cardinality(registry \ gone) \in Nat
        BY <3>3, RegistryFinite
      <4>2. Cardinality((registry \ gone) \cup {j}) <= Cardinality(registry \ gone) + 1
        <5>1. Cardinality((registry \ gone) \cup {j}) =
                 IF j \in registry \ gone THEN Cardinality(registry \ gone)
                                        ELSE Cardinality(registry \ gone) + 1
          BY <4>1, FS_AddElement, ZenonT(40)
        <5> QED
          BY <4>1, <5>1
      <4>3. Cardinality((registry \ gone) \cup {j}) \in Nat
        BY <4>1, FS_AddElement, FS_CardinalityType
      <4>4. Cardinality((registry \ gone) \cup {j}) <= HardCap
        BY <3>3, <4>1, <4>2, <4>3, CapFacts DEF Makes
      <4>5. HardCap' = HardCap /\ registry' = (registry \ gone) \cup {j}
        BY <3>3 DEF HardCap, Makes
      <4> QED
        BY <4>4, <4>5 DEF Capped
    <3> QED
      BY <2>2, <3>1, <3>2, <3>3, CreateFacts
  <2> QED
    BY <1>2, <2>1, <2>2 DEF Start
<1>3. ASSUME Evict PROVE Capped'
  <2>1. registry' \in SUBSET registry
    BY <1>3 DEF Evict
  <2> QED
    BY <2>1, <1>1
<1>4. ASSUME UNCHANGED registry PROVE Capped'
  BY <1>4, <1>1
<1>5. ASSUME NEW c \in Chats, Add(c) \/ Inbox(c) PROVE UNCHANGED registry
  BY <1>5 DEF Add, Inbox, Fire, Flush, sessions
<1>6. ASSUME NEW j \in Ids, Saves(j) \/ TakeLock(j) \/ Ends(j) \/ EvictSaves(j) PROVE UNCHANGED registry
  BY <1>6 DEF Saves, SaveEvicted, TakeLock, Ends, Silent, Record, EvictSaves, sessions
<1>7. ASSUME Shutdown \/ Drain \/ End PROVE UNCHANGED registry
  BY <1>7 DEF Shutdown, Drain, End, sessions
<1>8. ASSUME UNCHANGED sessionVars PROVE UNCHANGED registry
  BY <1>8 DEF sessionVars
<1> QED
  BY <1>2, <1>3, <1>4, <1>5, <1>6, <1>7, <1>8 DEF SessionsNext

\* A refused job touches no session; a made one reads the file, which has every
\* turn that was kept unless the chat had a session in use.
LEMMA RefusedStep ==
    ASSUME SessionsTypeOK, SessionParts, stage # "down", UNCHANGED stage, UNCHANGED stored,
           NEW j \in Jobs, batches[j].at = "queued", Refuses(j)
    PROVE  SessionParts'
<1>1. Becomes(j, "dropped", 0, batches[j].stray) /\ UNCHANGED <<registry, turns, lock, torn>>
  BY DEF Refuses
<1>2. Sessioned'
  BY <1>1 DEF SessionParts, Sessioned, Becomes, Busy
<1>3. Holding'
  BY <1>1 DEF SessionParts, Holding, Becomes
<1>4. Turning'
  BY <1>1 DEF SessionParts, Turning, Sessioned, Becomes
<1>5. ASSUME NEW c PROVE Live(c)' = Live(c) /\ Held(c)' = Held(c) /\ Kept(c)' = Kept(c)
  <2>1. \A p \in Jobs : InUse(p)' <=> InUse(p)
    BY <1>1 DEF InUse, Becomes
  <2>2. Live(c)' = Live(c)
    BY <2>1, <1>1 DEF Live, Becomes
  <2>3. Held(c)' = Held(c)
    BY <1>1 DEF Held, Becomes
  <2>4. Kept(c)' = Kept(c)
    BY <1>1, KeptSame
  <2> QED
    BY <2>2, <2>3, <2>4
<1>6. Keeping'
  <2>1. ASSUME NEW c \in Chats \ torn' PROVE Whole(c)'
    <3>1. Whole(c)
      BY <1>1 DEF SessionParts, Keeping
    <3>2. Live(c)' = Live(c) /\ Held(c)' = Held(c) /\ Kept(c)' = Kept(c)
      BY <1>5
    <3>3. \A i \in Jobs' : Chat(i)' = c /\ batches'[i].at = "turn" /\ batches'[i].session \notin registry'
             => Kept(c)' \subseteq stored'[c]
      BY <1>1, <3>1, <3>2 DEF Whole, Becomes
    <3> QED
      BY <1>1, <3>1, <3>2, <3>3 DEF Whole
  <2> QED
    BY <2>1 DEF Keeping
<1> QED
  BY <1>2, <1>3, <1>4, <1>6 DEF SessionParts

LEMMA MadeStep ==
    ASSUME SessionsTypeOK, SessionParts, stage # "down", UNCHANGED stage, UNCHANGED stored,
           NEW j \in Jobs, batches[j].at = "queued", Sessions(Chat(j)) = {},
           NEW gone, Makes(j, gone)
    PROVE  SessionParts'
<1> DEFINE s == IF gone = {} THEN "waiting" ELSE "saving"
<1>1. s \in {"waiting", "saving"} /\ (gone # {} => s = "saving") /\ Becomes(j, s, j, batches[j].stray)
  BY DEF Makes
<1> HIDE DEF s
<1>2. /\ gone \subseteq registry /\ (\A o \in gone : lock[o] = Free)
      /\ (\A o \in Ids : lock'[o] = IF o \in gone THEN j ELSE lock[o])
      /\ registry' = (registry \ gone) \cup {j}
  BY DEF Makes
<1>3. Jobs \subseteq Ids /\ registry \subseteq Jobs /\ j \in Ids /\ j # Free /\ Free \notin Ids
  BY JobFacts DEF SessionParts, Sessioned, Ids, Free
<1>4. \A o \in registry : Chat(o) # Chat(j)
  BY <1>3 DEF Sessions, Chat
<1>5. ASSUME NEW i \in Jobs, batches[i].at = "turn"
      PROVE  batches[i].session \in Jobs /\ batches[i].session \notin gone
             /\ lock[batches[i].session] = i /\ i # Free /\ Chat(batches[i].session) = Chat(i)
  <2>1. /\ batches[i].session \in Jobs /\ lock[batches[i].session] = i /\ i # Free
        /\ Chat(batches[i].session) = Chat(i)
    BY <1>3, <1>5 DEF SessionParts, Sessioned, Holding, Busy
  <2> QED
    BY <2>1, <1>2
<1>6. \A i \in Jobs' : batches'[i].at = "turn" => i \in Jobs /\ i # j /\ batches'[i] = batches[i]
  BY <1>1 DEF Becomes
<1>7. Sessioned'
  <2>1. registry' \subseteq Jobs'
    BY <1>1, <1>2, <1>3 DEF Becomes
  <2>2. ASSUME NEW i \in Jobs', batches'[i].at \in Busy
        PROVE  batches'[i].session \in Jobs' /\ Chat(batches[i].session)' = Chat(i)'
    <3>1. CASE i = j
      BY <3>1, <1>1 DEF Becomes
    <3>2. CASE i # j
      BY <3>2, <2>2, <1>1 DEF Becomes, SessionParts, Sessioned
    <3> QED
      BY <3>1, <3>2
  <2> QED
    BY <2>1, <2>2 DEF Sessioned
<1>8. Holding'
  <2>1. ASSUME NEW i \in Jobs', batches'[i].at = "turn" PROVE lock'[batches'[i].session] = i
    <3>1. i \in Jobs /\ batches'[i] = batches[i] /\ batches[i].at = "turn"
      BY <2>1, <1>6
    <3> QED
      BY <3>1, <1>2, <1>3, <1>5
  <2>2. ASSUME NEW o \in Ids, lock'[o] # Free
        PROVE  /\ o \in Jobs'
               /\ lock'[o] # Evictor =>
                     /\ lock'[o] \in Jobs'
                     /\ \/ batches'[lock'[o]].at = "saving"
                        \/ batches'[lock'[o]].at = "turn" /\ batches'[lock'[o]].session = o
    <3>1. CASE o \in gone
      <4>1. lock'[o] = j /\ batches'[j].at = "saving" /\ o \in Jobs /\ Jobs' = Jobs
        BY <3>1, <1>1, <1>2, <1>3 DEF Becomes
      <4> QED
        BY <4>1
    <3>2. CASE o \notin gone
      <4>1. lock'[o] = lock[o] /\ lock[o] # Free /\ Jobs' = Jobs
        BY <3>2, <2>2, <1>1, <1>2 DEF Becomes
      <4>2. /\ o \in Jobs
            /\ lock[o] # Evictor =>
                  /\ lock[o] \in Jobs /\ lock[o] # j
                  /\ \/ batches[lock[o]].at = "saving"
                     \/ batches[lock[o]].at = "turn" /\ batches[lock[o]].session = o
        BY <4>1 DEF SessionParts, Holding
      <4> QED
        BY <4>1, <4>2, <1>1 DEF Becomes
    <3> QED
      BY <3>1, <3>2
  <2> QED
    BY <2>1, <2>2 DEF Holding
<1>9. Turning'
  <2>1. ASSUME NEW i \in Jobs', batches'[i].at = "turn", ~batches'[i].stray
        PROVE  batches'[i].session \in registry'
    <3>1. i \in Jobs /\ batches'[i] = batches[i] /\ batches[i].at = "turn"
      BY <2>1, <1>6
    <3>2. batches[i].session \in registry
      BY <2>1, <3>1 DEF SessionParts, Turning
    <3> QED
      BY <3>1, <3>2, <1>2, <1>5
  <2>2. \A p, q \in registry' : Chat(p)' = Chat(q)' => p = q
    BY <1>1, <1>2, <1>3, <1>4 DEF SessionParts, Turning, Becomes
  <2> QED
    BY <2>1, <2>2 DEF Turning
<1>10. \A p \in Jobs : p # j =>
         /\ (p \in registry' \/ lock'[p] # Free) <=> (p \in registry \/ lock[p] # Free)
         /\ (p \in registry' \/ InUse(p)') <=> (p \in registry \/ InUse(p))
  <2> SUFFICES ASSUME NEW p \in Jobs, p # j
               PROVE  /\ (p \in registry' \/ lock'[p] # Free) <=> (p \in registry \/ lock[p] # Free)
                      /\ (p \in registry' \/ InUse(p)') <=> (p \in registry \/ InUse(p))
    OBVIOUS
  <2>1. (p \in registry' \/ lock'[p] # Free) <=> (p \in registry \/ lock[p] # Free)
    BY <1>2, <1>3
  <2>2. (\E i \in Jobs' : batches'[i].session = p /\ batches'[i].at \in {"saving", "waiting"})
        <=> (\E i \in Jobs : batches[i].session = p /\ batches[i].at \in {"saving", "waiting"})
    BY <1>1 DEF Becomes
  <2> QED
    BY <2>1, <2>2 DEF InUse
<1>11. \A c : Kept(c)' = Kept(c)
  <2> SUFFICES ASSUME NEW c PROVE Kept(c)' = Kept(c)
    OBVIOUS
  <2> QED
    BY <1>1, KeptSame
<1>12. ASSUME NEW c \in Chats \ torn' PROVE Whole(c)'
  <2>1. Whole(c) /\ c \in Chats \ torn
    BY DEF SessionParts, Keeping, Makes
  <2>2. CASE c = Chat(j)
    <3>1. \A o \in Jobs : Chat(o) = c => o \notin registry /\ ~InUse(o)
      BY <2>2, <1>4 DEF Makes
    <3>2. Held(c) = {}
      BY <3>1 DEF Held, InUse
    <3>3. Kept(c)' \subseteq turns'[j]
      <4>1. turns'[j] = stored[c]
        BY <2>2, <1>3 DEF Makes, SessionsTypeOK
      <4> QED
        BY <4>1, <3>2, <2>1, <1>11 DEF Whole
    <3>4. Live(c)' \subseteq {j} /\ j \in Held(c)'
      BY <2>2, <3>1, <1>1, <1>2, <1>10 DEF Live, Held, Becomes
    <3>5. \A i \in Jobs' : ~(Chat(i)' = c /\ batches'[i].at = "turn")
      <4> SUFFICES ASSUME NEW i \in Jobs', Chat(i)' = c, batches'[i].at = "turn" PROVE FALSE
        OBVIOUS
      <4>1. i \in Jobs /\ batches[i].at = "turn" /\ Chat(i) = c
        BY <1>1, <1>6 DEF Becomes
      <4>2. InUse(batches[i].session)
        BY <4>1, <1>5 DEF InUse
      <4> QED
        BY <4>1, <4>2, <3>1, <1>5
    <3> QED
      BY <3>3, <3>4, <3>5 DEF Whole
  <2>3. CASE c # Chat(j)
    <3>1. Live(c)' = Live(c)
      BY <2>3, <1>1, <1>10 DEF Live, Becomes
    <3>2. Held(c)' = Held(c)
      BY <2>3, <1>1, <1>10 DEF Held, Becomes
    <3>3. \A p \in Live(c) : turns'[p] = turns[p]
      BY <2>3, <1>3 DEF Live, Makes, SessionsTypeOK
    <3>4. \A i \in Jobs' : Chat(i)' = c /\ batches'[i].at = "turn" /\ batches'[i].session \notin registry'
            => Kept(c)' \subseteq stored'[c]
      <4> SUFFICES ASSUME NEW i \in Jobs', Chat(i)' = c, batches'[i].at = "turn",
                          batches'[i].session \notin registry'
                   PROVE  Kept(c)' \subseteq stored'[c]
        OBVIOUS
      <4>1. i \in Jobs /\ batches[i].at = "turn" /\ Chat(i) = c /\ batches'[i] = batches[i]
        BY <1>1, <1>6 DEF Becomes
      <4>2. batches[i].session \notin registry
        BY <4>1, <1>2, <1>5
      <4> QED
        BY <4>1, <4>2, <2>1, <1>11 DEF Whole
    <3> QED
      BY <2>1, <3>1, <3>2, <3>3, <3>4, <1>11 DEF Whole
  <2> QED
    BY <2>2, <2>3
<1>13. Keeping'
  BY <1>12 DEF Keeping
<1> QED
  BY <1>7, <1>8, <1>9, <1>13 DEF SessionParts

\* The process ends: every job is over, so the only locks left are the eviction
\* thread's, whose chats are torn.
LEMMA EndStep ==
    ASSUME SessionsTypeOK, SessionParts, End
    PROVE  SessionParts'
<1>1. /\ stage # "down" /\ stage' = "down" /\ (\A j \in Jobs : batches[j].at \in Over)
      /\ UNCHANGED <<batches, registry, lock, turns>>
  BY DEF End, sessions
<1>2. PICK failed \in SUBSET registry :
        /\ stored' = [c \in Chats |->
              IF \E o \in Sessions(c) : o \notin failed
              THEN turns[CHOOSE o \in Sessions(c) : TRUE] ELSE stored[c]]
        /\ torn' = torn \cup {Chat(o) : o \in failed \cup {p \in Jobs : lock[p] = Evictor}}
  BY DEF End
<1>3. Jobs' = Jobs /\ (\A i \in Jobs : Chat(i)' = Chat(i)) /\ Jobs \subseteq Ids /\ registry \subseteq Jobs
  BY <1>1, JobFacts DEF Jobs, Chat, SessionParts, Sessioned
<1>4. Sessioned' /\ Holding' /\ Turning'
  BY <1>1, <1>3 DEF SessionParts, Sessioned, Holding, Turning, Jobs, Chat
<1>5. ASSUME NEW c \in Chats \ torn' PROVE Whole(c)'
  <2>1. Whole(c) /\ c \in Chats \ torn
    BY <1>2 DEF SessionParts, Keeping
  <2>2. Kept(c)' = Kept(c)
    BY <1>1, <1>3 DEF Kept
  <2>3. CASE Sessions(c) = {}
    <3>1. Held(c) = {}
      <4> SUFFICES ASSUME NEW o \in Held(c) PROVE FALSE
        OBVIOUS
      <4>1. o \in Jobs /\ Chat(o) = c /\ o \notin registry /\ lock[o] # Free
        BY <2>3 DEF Held, Sessions, Chat
      <4>2. lock[o] = Evictor
        BY <4>1, <1>1, <1>3 DEF SessionParts, Holding, Over
      <4> QED
        BY <4>1, <4>2, <1>2
    <3>2. stored'[c] = stored[c]
      BY <2>3, <1>2
    <3> QED
      BY <3>1, <3>2, <2>1, <2>2, <1>1 DEF Whole
  <2>4. CASE Sessions(c) # {}
    <3> DEFINE o == CHOOSE p \in Sessions(c) : TRUE
    <3>1. o \in Sessions(c)
      BY <2>4
    <3>2. \A p \in Sessions(c) : p \notin failed
      BY <1>2, <1>3 DEF Sessions, Chat
    <3>3. stored'[c] = turns[o]
      BY <3>1, <3>2, <1>2
    <3> HIDE DEF o
    <3>4. o \in Live(c)
      BY <3>1 DEF Sessions, Live, Chat
    <3> QED
      BY <3>3, <3>4, <2>1, <2>2, <1>1 DEF Whole
  <2> QED
    BY <2>3, <2>4
<1>6. Keeping'
  BY <1>1, <1>3, <1>5 DEF Keeping
<1> QED
  BY <1>4, <1>6 DEF SessionParts

-------------------------------------------------------------------------------
(* The buffer and its timers, and type correctness *)

InboxOK ==
    /\ arrived \in 0 .. MaxMessages /\ buffer \subseteq Chats /\ timers \in [Chats -> Timers]
    /\ batches \in Seq(Job) /\ Len(batches) <= arrived
    /\ Known /\ Room

LEMMA AddStep ==
    ASSUME SessionsTypeOK, Known, Room, NEW c \in Chats, Add(c)
    PROVE  InboxOK' /\ Grows
<1>1. /\ arrived < MaxMessages /\ arrived' = arrived + 1 /\ buffer' = buffer \cup {c}
      /\ batches' = batches
      /\ timers' = IF timers[c].known THEN timers
                   ELSE [timers EXCEPT ![c].armed = @ + 1, ![c].known = TRUE]
  BY DEF Add
<1>2. Grows
  BY <1>1 DEF Grows, Jobs, SessionsTypeOK
<1>3. timers' \in [Chats -> Timers] /\ Known'
  <2>1. CASE timers[c].known
    BY <2>1, <1>1 DEF SessionsTypeOK, Known
  <2>2. CASE ~timers[c].known
    <3> DEFINE r == [armed |-> timers[c].armed + 1, known |-> TRUE, firing |-> timers[c].firing]
    <3>1. timers[c] \in Timers /\ timers \in [Chats -> Timers]
      BY DEF SessionsTypeOK
    <3>2. timers' = [timers EXCEPT ![c] = r]
      BY <2>2, <1>1, <3>1 DEF Timers
    <3>3. r \in Timers /\ r.armed > 0
      BY <3>1 DEF Timers
    <3> HIDE DEF r
    <3> QED
      BY <3>1, <3>2, <3>3 DEF Known
  <2> QED
    BY <2>1, <2>2
<1>4. Room'
  <2>1. /\ IsFiniteSet(buffer') /\ Cardinality(buffer) \in Nat /\ Cardinality(buffer') \in Nat
        /\ Cardinality(buffer') = IF c \in buffer THEN Cardinality(buffer) ELSE Cardinality(buffer) + 1
    BY <1>1, FS_AddElement, FS_CardinalityType, ZenonT(40) DEF Room
  <2>2. Cardinality(buffer') <= Cardinality(buffer) + 1 /\ Len(batches) \in Nat /\ arrived \in Nat
    BY <2>1, JobFacts DEF SessionsTypeOK
  <2> QED
    BY <1>1, <2>1, <2>2 DEF Room
<1>5. arrived' \in 0 .. MaxMessages /\ buffer' \subseteq Chats /\ batches' \in Seq(Job)
      /\ Len(batches') <= arrived'
  BY <1>1, JobFacts, SessionsAssumption DEF SessionsTypeOK
<1> QED
  BY <1>2, <1>3, <1>4, <1>5 DEF InboxOK

LEMMA FireStep ==
    ASSUME SessionsTypeOK, Known, Room, NEW c \in Chats, Fire(c)
    PROVE  InboxOK' /\ Grows
<1>1. UNCHANGED <<arrived, buffer, batches>> /\ timers[c].armed > 0
  BY DEF Fire
<1>2. Grows
  BY <1>1 DEF Grows, Jobs, SessionsTypeOK
<1>3. timers' \in [Chats -> Timers] /\ Known'
  <2>1. PICK known \in {FALSE} \cup (IF timers[c].armed > 1 THEN {timers[c].known} ELSE {}) :
           timers' = [timers EXCEPT ![c] = [armed |-> @.armed - 1, known |-> known,
                                            firing |-> @.firing + 1]]
    BY DEF Fire
  <2> DEFINE r == [armed |-> timers[c].armed - 1, known |-> known, firing |-> timers[c].firing + 1]
  <2>2. timers[c] \in Timers /\ timers \in [Chats -> Timers]
    BY DEF SessionsTypeOK
  <2>3. r \in Timers /\ (r.known => r.armed > 0)
    <3>1. known \in BOOLEAN /\ (known => timers[c].armed > 1)
      BY <2>2 DEF Timers
    <3>2. timers[c].armed - 1 \in Nat /\ timers[c].firing + 1 \in Nat
          /\ (known => timers[c].armed - 1 > 0)
      BY <1>1, <2>2, <3>1 DEF Timers
    <3>3. r \in Timers
      BY <3>1, <3>2 DEF Timers
    <3> QED
      BY <3>2, <3>3, Zenon
  <2>4. timers' = [timers EXCEPT ![c] = r]
    BY <2>1
  <2> HIDE DEF r
  <2> QED
    BY <2>2, <2>3, <2>4 DEF Known
<1> QED
  BY <1>1, <1>2, <1>3 DEF InboxOK, SessionsTypeOK, Room

LEMMA FlushStep ==
    ASSUME SessionsTypeOK, Known, Room, NEW c \in Chats, Flush(c)
    PROVE  InboxOK' /\ Grows
<1>1. /\ timers[c].firing > 0 /\ buffer' = buffer \ {c} /\ UNCHANGED arrived
      /\ timers' = [timers EXCEPT ![c].firing = @ - 1, ![c].known = FALSE]
      /\ batches' = IF c \in buffer /\ stage # "draining" THEN Append(batches, Batch(c)) ELSE batches
  BY DEF Flush
<1>2. timers' \in [Chats -> Timers] /\ Known'
  <2> DEFINE r == [timers[c] EXCEPT !.firing = @ - 1, !.known = FALSE]
  <2>1. timers[c] \in Timers /\ timers \in [Chats -> Timers]
    BY DEF SessionsTypeOK
  <2>2. timers' = [timers EXCEPT ![c] = r]
    BY <1>1, <2>1 DEF Timers
  <2>3. r \in Timers
    <3>1. timers[c].firing - 1 \in Nat
      BY <1>1, <2>1 DEF Timers
    <3>2. ASSUME NEW n \in Nat, NEW u \in Timers PROVE [u EXCEPT !.firing = n, !.known = FALSE] \in Timers
      BY DEF Timers
    <3> QED
      BY <2>1, <3>1, <3>2
  <2>4. ~r.known
    BY <2>1 DEF Timers
  <2> HIDE DEF r
  <2> QED
    BY <2>1, <2>2, <2>3, <2>4 DEF Known
<1>3. /\ IsFiniteSet(buffer') /\ Cardinality(buffer) \in Nat /\ Cardinality(buffer') \in Nat
      /\ Cardinality(buffer') = IF c \in buffer THEN Cardinality(buffer) - 1 ELSE Cardinality(buffer)
  BY <1>1, FS_RemoveElement, FS_CardinalityType, ZenonT(40) DEF Room
<1>4. Len(batches) \in Nat /\ arrived \in Nat /\ Len(batches) + Cardinality(buffer) <= arrived
      /\ batches \in Seq(Job)
  BY JobFacts DEF SessionsTypeOK, Room
<1>5. /\ Grows /\ batches' \in Seq(Job)
      /\ Len(batches') = IF c \in buffer /\ stage # "draining" THEN Len(batches) + 1 ELSE Len(batches)
  <2>1. CASE c \in buffer /\ stage # "draining"
    <3> DEFINE more == <<Batch(c)>>
    <3>1. more \in Seq(Job) /\ Len(more) = 1 /\ \A i \in DOMAIN more : more[i].at = "queued"
      BY BatchTyped
    <3>2. batches' = batches \o more
      <4>1. Batch(c) \in Job
        BY BatchTyped
      <4> QED
        BY <1>1, <1>4, <2>1, <4>1
    <3> HIDE DEF more
    <3> QED
      BY <2>1, <3>1, <3>2, Appended DEF Grows
  <2>2. CASE ~(c \in buffer /\ stage # "draining")
    BY <2>2, <1>1, <1>4 DEF Grows, Jobs
  <2> QED
    BY <2>1, <2>2
<1>6. Len(batches') + Cardinality(buffer') <= arrived /\ Len(batches') <= arrived
  BY <1>3, <1>4, <1>5
<1> QED
  BY <1>1, <1>2, <1>3, <1>5, <1>6 DEF InboxOK, SessionsTypeOK, Room

LEMMA ShutdownStep ==
    ASSUME SessionsTypeOK, Known, Room, Shutdown
    PROVE  InboxOK' /\ Grows
<1>1. PICK order \in [1 .. Cardinality(buffer) -> buffer] :
        batches' = batches \o [i \in DOMAIN order |-> Batch(order[i])]
  BY DEF Shutdown
<1>2. /\ buffer' = {} /\ UNCHANGED arrived
      /\ timers' = [c \in Chats |->
            IF c \in buffer /\ timers[c].known
            THEN [timers[c] EXCEPT !.armed = @ - 1, !.known = FALSE] ELSE timers[c]]
  BY DEF Shutdown
<1>3. timers' \in [Chats -> Timers] /\ Known'
  <2>1. ASSUME NEW c \in Chats PROVE timers'[c] \in Timers /\ (timers'[c].known => timers'[c].armed > 0)
    <3>1. timers[c] \in Timers /\ (timers[c].known => timers[c].armed > 0)
      BY DEF SessionsTypeOK, Known
    <3>2. CASE c \in buffer /\ timers[c].known
      <4> DEFINE r == [armed |-> timers[c].armed - 1, known |-> FALSE, firing |-> timers[c].firing]
      <4>1. timers'[c] = r
        BY <1>2, <3>1, <3>2 DEF Timers
      <4>2. r \in Timers /\ ~r.known
        BY <3>1, <3>2 DEF Timers
      <4> QED
        BY <4>1, <4>2
    <3>3. CASE ~(c \in buffer /\ timers[c].known)
      <4>1. timers'[c] = timers[c]
        BY <1>2, <3>3
      <4> QED
        BY <4>1, <3>1
    <3> QED
      BY <3>2, <3>3
  <2>2. timers' = [c \in Chats |-> timers'[c]]
    BY <1>2
  <2> QED
    BY <2>1, <2>2 DEF Known
<1>4. Len(batches) \in Nat /\ arrived \in Nat /\ Len(batches) + Cardinality(buffer) <= arrived
      /\ Cardinality(buffer) \in Nat
  BY JobFacts, FS_CardinalityType DEF SessionsTypeOK, Room
<1>5. Grows /\ Len(batches') = Len(batches) + Cardinality(buffer)
  <2> DEFINE more == [i \in DOMAIN order |-> Batch(order[i])]
  <2>1. \A i \in 1 .. Cardinality(buffer) : Batch(order[i]) \in Job /\ Batch(order[i]).at = "queued"
    BY BatchTyped DEF SessionsTypeOK
  <2>2. more \in [1 .. Cardinality(buffer) -> Job] /\ \A i \in DOMAIN more : more[i].at = "queued"
    BY <2>1
  <2>3. batches' = batches \o more
    BY <1>1
  <2> HIDE DEF more
  <2>4. more \in Seq(Job) /\ Len(more) = Cardinality(buffer)
    BY <2>2, <1>4
  <2> QED
    BY <2>2, <2>3, <2>4, Appended
<1>6. Room' /\ Len(batches') <= arrived'
  <2>1. IsFiniteSet(buffer') /\ Cardinality(buffer') = 0
    BY <1>2, FS_EmptySet
  <2>2. Len(batches') <= arrived' /\ Len(batches') + 0 <= arrived'
    <3>1. arrived' = arrived
      BY <1>2
    <3>2. Len(batches') = Len(batches) + Cardinality(buffer)
      BY <1>5
    <3> QED
      BY <1>4, <3>1, <3>2
  <2> QED
    BY <2>1, <2>2 DEF Room
<1> QED
  BY <1>2, <1>3, <1>5, <1>6 DEF InboxOK, SessionsTypeOK, Grows

\* The rest of the state, which the inbox leaves alone.
SessionsOK ==
    /\ registry \subseteq Ids /\ older \subseteq registry \X registry
    /\ turns \in [Ids -> SUBSET Ids] /\ lock \in [Ids -> Ids \cup {Free, Evictor}]
    /\ stored \in [Chats -> SUBSET Ids]
    /\ faults \in 0 .. MaxFaults /\ torn \subseteq Chats

\* What remains of the order, and a session put at its end.
LEMMA OrderTyped ==
    ASSUME NEW R, NEW o, NEW S, R \subseteq S, o \in S
    PROVE  Among(R) \subseteq R \X R /\ Last(R, o) \subseteq S \X S
  BY DEF Among, Last

LEMMA StoreTyped ==
    ASSUME SessionsTypeOK, NEW o \in Jobs, NEW kept \in SUBSET Ids, Store(o, kept)
    PROVE  stored' \in [Chats -> SUBSET Ids] /\ faults' \in 0 .. MaxFaults /\ torn' \subseteq Chats
<1>1. Chat(o) \in Chats
  BY JobFacts DEF Chat, Job
<1> QED
  BY <1>1, SessionsAssumption DEF Store, SessionsTypeOK

\* An action that changes one job and leaves the inbox alone.
LEMMA JobTyped ==
    ASSUME SessionsTypeOK, Known, Room, NEW j, NEW s, NEW o, NEW b, Becomes(j, s, o, b), UNCHANGED inbox
    PROVE  InboxOK'
  BY DEF SessionsTypeOK, Known, Room, Becomes, InboxOK, inbox

LEMMA SameTyped ==
    ASSUME SessionsTypeOK, Known, Room, UNCHANGED <<batches, inbox>>
    PROVE  InboxOK'
  BY DEF SessionsTypeOK, Known, Room, InboxOK, inbox

LEMMA StartTyped ==
    ASSUME SessionsTypeOK, Known, Room, Capped, SessionParts, NEW j \in Ids, Start(j)
    PROVE  InboxOK' /\ SessionsOK'
<1>1. j \in Jobs /\ UNCHANGED <<inbox, stored, faults>> /\ batches[j].at = "queued"
  BY DEF Start, At
<1>2. CASE Find(j)
  <2>1. PICK o \in Sessions(Chat(j)) :
          /\ older' = Last(registry \ {o}, o)
          /\ batches' = [batches EXCEPT ![j].at = "waiting", ![j].session = o]
    BY <1>2 DEF Find
  <2>2. o \in Ids /\ o \in registry
    BY JobFacts DEF Sessions
  <2>3. Becomes(j, "waiting", o, batches[j].stray)
    BY <1>1, <2>1, <2>2, ChangedSession
  <2>4. older' \subseteq registry \X registry
    BY <2>1, <2>2, OrderTyped
  <2>5. UNCHANGED <<registry, turns, lock, torn>>
    BY <1>2 DEF Find
  <2> QED
    BY <1>1, <2>3, <2>4, <2>5, JobTyped DEF SessionsOK, SessionsTypeOK
<1>3. CASE Create(j)
  <2>1. older' \subseteq registry' \X registry'
    <3>1. PICK K \in LeastActive :
            LET left == registry \ Leaving(K)
                refused == Cardinality(registry) >= MaxSessions /\ Cardinality(left) >= HardCap
            IN  /\ registry' = IF refused THEN left ELSE left \cup {j}
                /\ older' = IF refused THEN Among(left) ELSE Last(left, j)
      BY <1>3 DEF Create
    <3> DEFINE left == registry \ Leaving(K)
               refused == Cardinality(registry) >= MaxSessions /\ Cardinality(left) >= HardCap
    <3>2. /\ registry' = IF refused THEN left ELSE left \cup {j}
          /\ older' = IF refused THEN Among(left) ELSE Last(left, j)
      BY <3>1
    <3> HIDE DEF left, refused
    <3>3. Among(left) \subseteq left \X left /\ Last(left, j) \subseteq (left \cup {j}) \X (left \cup {j})
      BY DEF Among, Last
    <3> QED
      BY <3>2, <3>3
  <2>2. CASE Refuses(j)
    <3>1. InboxOK'
      BY <1>1, <2>2, JobTyped DEF Refuses
    <3> QED
      BY <1>1, <2>1, <2>2, <3>1 DEF Refuses, SessionsOK, SessionsTypeOK
  <2>3. ASSUME NEW gone, Makes(j, gone) PROVE InboxOK' /\ SessionsOK'
    <3>1. InboxOK'
      BY <1>1, <2>3, JobTyped DEF Makes
    <3>2. registry' \subseteq Ids
      BY <2>3 DEF Makes, SessionsTypeOK
    <3>3. Chat(j) \in Chats
      BY <1>1, JobFacts DEF Chat, Job
    <3>4. turns' \in [Ids -> SUBSET Ids]
      <4>1. stored[Chat(j)] \in SUBSET Ids
        BY <3>3 DEF SessionsTypeOK
      <4> QED
        BY <2>3, <4>1 DEF Makes, SessionsTypeOK
    <3>5. lock' \in [Ids -> Ids \cup {Free, Evictor}]
      BY <2>3 DEF Makes, SessionsTypeOK
    <3>6. torn' \subseteq Chats
      BY <2>3, <3>3 DEF Makes, SessionsTypeOK
    <3> QED
      BY <1>1, <2>1, <3>1, <3>2, <3>4, <3>5, <3>6 DEF SessionsOK, SessionsTypeOK
  <2> QED
    BY <1>1, <1>3, <2>2, <2>3, CreateFacts
<1> QED
  BY <1>2, <1>3 DEF Start

LEMMA TurnTyped ==
    ASSUME SessionsTypeOK, Known, Room, SessionParts, NEW j \in Ids,
           TakeLock(j) \/ Ends(j) \/ Saves(j) \/ EvictSaves(j)
    PROVE  InboxOK' /\ SessionsOK'
<1> DEFINE o == batches[j].session
<1>1. CASE TakeLock(j)
  <2>1. j \in Jobs /\ batches[j].at = "waiting" /\ UNCHANGED inbox
    BY <1>1 DEF TakeLock, At
  <2>2. o \in Jobs /\ o \in Ids
    BY <2>1, JobFacts DEF SessionParts, Sessioned, Busy
  <2>3. Becomes(j, "turn", o, o \notin registry)
    BY <1>1, <2>1, ChangedStray DEF TakeLock
  <2> HIDE DEF o
  <2>4. InboxOK'
    BY <2>1, <2>3, JobTyped
  <2>5. lock' \in [Ids -> Ids \cup {Free, Evictor}]
    BY <1>1, <2>2 DEF TakeLock, SessionsTypeOK, o
  <2>6. older' \subseteq registry' \X registry'
    <3>1. CASE o \in registry
      <4>1. Last(registry \ {o}, o) \subseteq registry \X registry
        BY <3>1, OrderTyped
      <4> QED
        BY <3>1, <4>1, <1>1 DEF TakeLock, o
    <3>2. CASE o \notin registry
      BY <3>2, <1>1 DEF TakeLock, SessionsTypeOK, o
    <3> QED
      BY <3>1, <3>2
  <2> QED
    BY <1>1, <2>4, <2>5, <2>6 DEF TakeLock, SessionsOK, SessionsTypeOK
<1>2. CASE Silent(j)
  <2>1. j \in Jobs /\ UNCHANGED inbox
    BY <1>2 DEF Silent, At
  <2>2. Becomes(j, "silent", o, batches[j].stray)
    BY <1>2, <2>1, ChangedAt DEF Silent, Over
  <2>3. InboxOK'
    BY <2>1, <2>2, JobTyped
  <2> QED
    BY <1>2, <2>3 DEF Silent, sessions, SessionsOK, SessionsTypeOK
<1>3. CASE Record(j)
  <2>1. j \in Jobs /\ batches[j].at = "turn" /\ UNCHANGED inbox
    BY <1>3 DEF Record, At
  <2>2. o \in Jobs /\ o \in Ids
    BY <2>1, JobFacts DEF SessionParts, Sessioned, Busy
  <2>3. Becomes(j, "kept", o, batches[j].stray)
    BY <1>3, <2>1, ChangedAt DEF Record, Over
  <2>4. InboxOK'
    BY <2>1, <2>3, JobTyped
  <2>5. Store(o, turns[o] \cup {j}) /\ turns' = [turns EXCEPT ![o] = @ \cup {j}]
        /\ lock' = [lock EXCEPT ![o] = Free] /\ UNCHANGED <<registry, older>>
    BY <1>3 DEF Record, sessions
  <2> HIDE DEF o
  <2>6. turns[o] \cup {j} \in SUBSET Ids
    BY <2>2 DEF SessionsTypeOK
  <2>7. stored' \in [Chats -> SUBSET Ids] /\ faults' \in 0 .. MaxFaults /\ torn' \subseteq Chats
    BY <2>2, <2>5, <2>6, StoreTyped
  <2> QED
    BY <2>4, <2>5, <2>6, <2>7 DEF SessionsOK, SessionsTypeOK
<1>4. ASSUME NEW p \in Ids, SaveEvicted(j, p) PROVE InboxOK' /\ SessionsOK'
  <2>1. /\ j \in Jobs /\ lock[p] = j /\ UNCHANGED <<inbox, registry, older, turns>>
        /\ Store(p, turns[p]) /\ lock' = [lock EXCEPT ![p] = Free]
        /\ batches' = batches \/ batches' = [batches EXCEPT ![j].at = "waiting"]
    BY <1>4 DEF SaveEvicted, At, sessions
  <2>2. p \in Jobs
    BY <2>1 DEF SessionParts, Holding, Ids, Free
  <2>3. InboxOK'
    <3>1. CASE batches' = batches
      BY <3>1, <2>1, SameTyped
    <3>2. CASE batches' = [batches EXCEPT ![j].at = "waiting"]
      <4>1. Becomes(j, "waiting", batches[j].session, batches[j].stray)
        BY <3>2, <2>1, ChangedAt
      <4> QED
        BY <4>1, <2>1, JobTyped
    <3> QED
      BY <3>1, <3>2, <2>1
  <2>4. turns[p] \in SUBSET Ids
    BY DEF SessionsTypeOK
  <2>5. stored' \in [Chats -> SUBSET Ids] /\ faults' \in 0 .. MaxFaults /\ torn' \subseteq Chats
    BY <2>1, <2>2, <2>4, StoreTyped
  <2> QED
    BY <2>1, <2>3, <2>5 DEF SessionsOK, SessionsTypeOK
<1>5. CASE EvictSaves(j)
  <2>1. /\ lock[j] # Free /\ UNCHANGED <<inbox, batches, registry, older, turns>>
        /\ Store(j, turns[j]) /\ lock' = [lock EXCEPT ![j] = Free]
    BY <1>5 DEF EvictSaves, sessions, Evictor, Free
  <2>2. j \in Jobs /\ turns[j] \in SUBSET Ids
    BY <2>1 DEF SessionParts, Holding, SessionsTypeOK
  <2>3. stored' \in [Chats -> SUBSET Ids] /\ faults' \in 0 .. MaxFaults /\ torn' \subseteq Chats
    BY <2>1, <2>2, StoreTyped
  <2>4. InboxOK'
    BY <2>1, SameTyped
  <2> QED
    BY <2>1, <2>3, <2>4 DEF SessionsOK, SessionsTypeOK
<1> QED
  BY <1>1, <1>2, <1>3, <1>4, <1>5 DEF Ends, Saves

LEMMA RegistryTyped ==
    ASSUME SessionsTypeOK, Known, Room, SessionParts, Evict \/ End
    PROVE  InboxOK' /\ SessionsOK'
<1>1. UNCHANGED <<inbox, batches>>
  BY DEF Evict, End
<1>2. InboxOK'
  BY <1>1, SameTyped
<1>3. CASE Evict
  <2>1. PICK K \in LeastActive :
          /\ registry' = registry \ {o \in K : lock[o] = Free}
          /\ older' = Among(registry \ {o \in K : lock[o] = Free})
          /\ lock' = [o \in Ids |-> IF o \in {p \in K : lock[p] = Free} THEN Evictor ELSE lock[o]]
    BY <1>3 DEF Evict
  <2>2. older' \subseteq registry' \X registry' /\ registry' \subseteq Ids
    BY <2>1 DEF Among, SessionsTypeOK
  <2>3. lock' \in [Ids -> Ids \cup {Free, Evictor}]
    BY <2>1 DEF SessionsTypeOK
  <2> QED
    BY <1>2, <1>3, <2>2, <2>3 DEF Evict, SessionsOK, SessionsTypeOK
<1>4. CASE End
  <2>1. PICK failed \in SUBSET registry :
          /\ Cardinality(failed) <= MaxFaults - faults
          /\ faults' = faults + Cardinality(failed)
          /\ stored' = [c \in Chats |->
                IF \E o \in Sessions(c) : o \notin failed
                THEN turns[CHOOSE o \in Sessions(c) : TRUE] ELSE stored[c]]
          /\ torn' = torn \cup {Chat(o) : o \in failed \cup {p \in Jobs : lock[p] = Evictor}}
    BY <1>4 DEF End
  <2>2. faults' \in 0 .. MaxFaults
    <3>1. Cardinality(failed) \in Nat
      BY RegistryFinite
    <3> QED
      BY <2>1, <3>1, SessionsAssumption DEF SessionsTypeOK
  <2>3. torn' \subseteq Chats
    <3>1. \A o \in Jobs : Chat(o) \in Chats
      BY JobFacts DEF Chat, Job
    <3>2. failed \subseteq Jobs
      BY DEF SessionParts, Sessioned
    <3> QED
      BY <2>1, <3>1, <3>2 DEF SessionsTypeOK
  <2>4. stored' \in [Chats -> SUBSET Ids]
    <3>1. ASSUME NEW c \in Chats, Sessions(c) # {} PROVE turns[CHOOSE o \in Sessions(c) : TRUE] \in SUBSET Ids
      <4>1. (CHOOSE o \in Sessions(c) : TRUE) \in Sessions(c)
        BY <3>1
      <4>2. Sessions(c) \subseteq Ids
        BY JobFacts DEF Sessions
      <4> QED
        BY <4>1, <4>2 DEF SessionsTypeOK
    <3> QED
      BY <2>1, <3>1 DEF SessionsTypeOK
  <2> QED
    BY <1>2, <1>4, <2>2, <2>3, <2>4 DEF End, sessions, SessionsOK, SessionsTypeOK
<1> QED
  BY <1>3, <1>4

-------------------------------------------------------------------------------
(* The invariant *)

LEMMA SessionsStart == SessionsInit => SessionsInv
<1> SUFFICES ASSUME SessionsInit PROVE SessionsInv
  OBVIOUS
<1>1. /\ stage = "up" /\ arrived = 0 /\ buffer = {} /\ batches = <<>> /\ registry = {} /\ older = {}
      /\ faults = 0 /\ torn = {} /\ timers = [c \in Chats |-> [armed |-> 0, known |-> FALSE, firing |-> 0]]
      /\ turns = [o \in Ids |-> {}] /\ lock = [o \in Ids |-> Free] /\ stored = [c \in Chats |-> {}]
  BY DEF SessionsInit
<1>2. Jobs = {} /\ Len(batches) = 0
  BY <1>1 DEF Jobs
<1>3. SessionsTypeOK
  <2>1. timers \in [Chats -> Timers]
    BY <1>1 DEF Timers
  <2>2. batches \in Seq(Job)
    BY <1>1
  <2> QED
    BY <1>1, <1>2, <2>1, <2>2, SessionsAssumption DEF SessionsTypeOK
<1>4. Known
  BY <1>1 DEF Known
<1>5. Room /\ Capped
  <2>1. IsFiniteSet({}) /\ Cardinality({}) = 0
    BY FS_EmptySet
  <2> QED
    BY <1>1, <1>2, <2>1, CapFacts, SessionsAssumption DEF Room, Capped
<1>6. Sessioned /\ Holding /\ Turning
  BY <1>1, <1>2 DEF Sessioned, Holding, Turning
<1>7. Keeping
  BY <1>1, <1>2 DEF Keeping, Whole, Live, Held, Kept
<1> QED
  BY <1>3, <1>4, <1>5, <1>6, <1>7 DEF SessionsInv, SessionParts

LEMMA SessionsStep == SessionsInv /\ [SessionsNext]_sessionVars => SessionsInv'
<1> SUFFICES ASSUME SessionsInv, [SessionsNext]_sessionVars PROVE SessionsInv'
  OBVIOUS
<1>1. SessionsTypeOK /\ Known /\ Room /\ Capped /\ SessionParts
  BY DEF SessionsInv
<1>2. Capped'
  BY <1>1, CappedStep
<1>3. ASSUME InboxOK', SessionsOK', stage' \in {"up", "stopping", "draining", "down"}, SessionParts'
      PROVE  SessionsInv'
  BY <1>2, <1>3 DEF InboxOK, SessionsOK, SessionsInv, SessionsTypeOK
<1>4. ASSUME InboxOK', Grows, stage # "down",
             stage' \in {"up", "stopping", "draining"}, UNCHANGED <<registry, older, turns, lock, stored, faults, torn>>
      PROVE  SessionsInv'
  <2>1. Jobs' \subseteq Ids
    <3>1. batches' \in Seq(Job) /\ Len(batches') <= arrived' /\ arrived' \in 0 .. MaxMessages
      BY <1>4 DEF InboxOK
    <3> QED
      BY <3>1, SessionsAssumption DEF Jobs, Ids
  <2>2. SessionParts'
    BY <1>1, <1>4, <2>1, GrowsStep
  <2>3. SessionsOK'
    BY <1>1, <1>4 DEF SessionsOK, SessionsTypeOK
  <2> QED
    BY <1>3, <1>4, <2>2, <2>3
<1>5. ASSUME NEW c \in Chats, Add(c) PROVE SessionsInv'
  BY <1>1, <1>4, <1>5, AddStep DEF Add, sessions, SessionsTypeOK
<1>6. ASSUME NEW c \in Chats, Fire(c) PROVE SessionsInv'
  BY <1>1, <1>4, <1>6, FireStep DEF Fire, sessions, SessionsTypeOK
<1>7. ASSUME NEW c \in Chats, Flush(c) PROVE SessionsInv'
  BY <1>1, <1>4, <1>7, FlushStep DEF Flush, sessions, SessionsTypeOK
<1>8. ASSUME Shutdown PROVE SessionsInv'
  BY <1>1, <1>4, <1>8, ShutdownStep DEF Shutdown, sessions
<1>9. ASSUME Drain PROVE SessionsInv'
  <2>1. InboxOK'
    BY <1>1, <1>9, SameTyped DEF Drain
  <2>2. Grows
    BY <1>1, <1>9 DEF Drain, Grows, Jobs, SessionsTypeOK
  <2> QED
    BY <1>4, <1>9, <2>1, <2>2 DEF Drain, sessions
<1>10. ASSUME NEW j \in Ids, Start(j) \/ Saves(j) \/ TakeLock(j) \/ Ends(j) PROVE stage # "down" /\ UNCHANGED stage
  <2>1. \E i \in Jobs : batches[i].at \in {"queued", "saving", "waiting", "turn"}
    BY <1>10 DEF Start, Saves, SaveEvicted, TakeLock, Ends, Silent, Record, At
  <2>2. stage # "down"
    BY <1>1, <2>1 DEF SessionParts, Keeping, Over
  <2>3. UNCHANGED stage
    BY <1>10 DEF Start, Saves, SaveEvicted, TakeLock, Ends, Silent, Record
  <2> QED
    BY <2>2, <2>3
<1>11. stage \in {"up", "stopping", "draining", "down"}
  BY <1>1 DEF SessionsTypeOK
<1>12. ASSUME NEW j \in Ids, Start(j) PROVE SessionsInv'
  <2>1. InboxOK' /\ SessionsOK'
    BY <1>1, <1>12, StartTyped
  <2>2. SessionParts'
    <3>1. j \in Jobs /\ At(j, "queued") /\ batches[j].at = "queued" /\ UNCHANGED stored
      BY <1>12 DEF Start, At
    <3>2. CASE Find(j)
      BY <1>1, <1>10, <1>12, <3>1, <3>2, FindStep
    <3>3. CASE Create(j)
      <4>1. Sessions(Chat(j)) = {} /\ (Refuses(j) \/ \E gone : Makes(j, gone))
        BY <1>1, <3>1, <3>3, CreateFacts
      <4>2. CASE Refuses(j)
        BY <1>1, <1>10, <1>12, <3>1, <4>2, RefusedStep
      <4>3. CASE \E gone : Makes(j, gone)
        BY <1>1, <1>10, <1>12, <3>1, <4>1, <4>3, MadeStep
      <4> QED
        BY <4>1, <4>2, <4>3
    <3> QED
      BY <1>12, <3>2, <3>3 DEF Start
  <2> QED
    BY <1>3, <1>10, <1>11, <1>12, <2>1, <2>2
<1>13. ASSUME NEW j \in Ids, Saves(j) PROVE SessionsInv'
  <2>1. InboxOK' /\ SessionsOK'
    BY <1>1, <1>13, TurnTyped
  <2>2. stage # "down" /\ UNCHANGED stage
    BY <1>10, <1>13
  <2>3. SessionParts'
    BY <1>1, <1>13, <2>2, SaveEvictedStep DEF Saves
  <2> QED
    BY <1>3, <1>11, <2>1, <2>2, <2>3
<1>14. ASSUME NEW j \in Ids, TakeLock(j) PROVE SessionsInv'
  <2>1. InboxOK' /\ SessionsOK'
    BY <1>1, <1>14, TurnTyped
  <2>2. stage # "down" /\ UNCHANGED stage
    BY <1>10, <1>14
  <2>3. SessionParts'
    BY <1>1, <1>14, <2>2, TakeLockStep
  <2> QED
    BY <1>3, <1>11, <2>1, <2>2, <2>3
<1>15. ASSUME NEW j \in Ids, Ends(j) PROVE SessionsInv'
  <2>1. InboxOK' /\ SessionsOK'
    BY <1>1, <1>15, TurnTyped
  <2>2. stage # "down" /\ UNCHANGED stage
    BY <1>10, <1>15
  <2>3. SessionParts'
    BY <1>1, <1>15, <2>2, SilentStep, RecordStep DEF Ends
  <2> QED
    BY <1>3, <1>11, <2>1, <2>2, <2>3
<1>16. ASSUME NEW o \in Ids, EvictSaves(o) PROVE SessionsInv'
  <2>1. InboxOK' /\ SessionsOK'
    BY <1>1, <1>16, TurnTyped
  <2>2. SessionParts' /\ UNCHANGED stage
    BY <1>1, <1>16, EvictSavesStep DEF EvictSaves
  <2> QED
    BY <1>3, <1>11, <2>1, <2>2
<1>17. ASSUME Evict PROVE SessionsInv'
  <2>1. InboxOK' /\ SessionsOK'
    BY <1>1, <1>17, RegistryTyped
  <2>2. SessionParts' /\ UNCHANGED stage
    BY <1>1, <1>17, EvictStep DEF Evict
  <2> QED
    BY <1>3, <1>11, <2>1, <2>2
<1>18. ASSUME End PROVE SessionsInv'
  <2>1. InboxOK' /\ SessionsOK'
    BY <1>1, <1>18, RegistryTyped
  <2>2. SessionParts' /\ stage' = "down"
    BY <1>1, <1>18, EndStep DEF End
  <2> QED
    BY <1>3, <2>1, <2>2
<1>19. ASSUME UNCHANGED sessionVars PROVE SessionsInv'
  <2> USE <1>19 DEF sessionVars
  <2>1. InboxOK' /\ SessionsOK'
    BY <1>1, SameTyped DEF inbox, SessionsOK, SessionsTypeOK
  <2>2. Jobs' = Jobs /\ \A c : Live(c)' = Live(c) /\ Held(c)' = Held(c) /\ Kept(c)' = Kept(c)
    BY DEF Live, Held, Kept, InUse, Jobs, Chat
  <2>3. Sessioned' /\ Holding' /\ Turning'
    BY <1>1, <2>2 DEF SessionParts, Sessioned, Holding, Turning, Chat
  <2>4. Keeping'
    BY <1>1, <2>2 DEF SessionParts, Keeping, Whole, Chat
  <2> QED
    BY <1>3, <1>11, <2>1, <2>3, <2>4 DEF SessionParts
<1> QED
  BY <1>5, <1>6, <1>7, <1>8, <1>9, <1>12, <1>13, <1>14, <1>15, <1>16, <1>17, <1>18, <1>19
     DEF SessionsNext, Inbox

\* Whatever the polling threads, the workers, the eviction thread and the
\* shutdown do, the state of the inbox and of the sessions is sound.
THEOREM SessionsInvariant == SessionsSpec => []SessionsInv
<1>1. SessionsInit => SessionsInv
  BY SessionsStart
<1>2. SessionsInv /\ [SessionsNext]_sessionVars => SessionsInv'
  BY SessionsStep
<1> QED
  BY <1>1, <1>2, PTL DEF SessionsSpec

\* The types of the buffer, the timers, the batches and the sessions.
THEOREM SessionsTypes == SessionsSpec => []SessionsTypeOK
<1>1. SessionsInv => SessionsTypeOK
  BY DEF SessionsInv
<1> QED
  BY <1>1, SessionsInvariant, PTL

\* The registry is never longer than the hard cap (session.py:110-135), although
\* a busy session is never evicted and a lookup may find all of them busy.
THEOREM RegistryIsCapped == SessionsSpec => [](Cardinality(registry) <= HardCap)
<1>1. SessionsInv => Cardinality(registry) <= HardCap
  BY DEF SessionsInv, Capped
<1> QED
  BY <1>1, SessionsInvariant, PTL

\* Two turns of a chat overlap only if one of them took the lock of a session
\* that was evicted between its lookup and that lock (handler.py:1129).
THEOREM OverlapsAreStray == SessionsSpec => []OverlapOnlyWhenStray
<1>1. SessionsInv => OverlapOnlyWhenStray
  <2> SUFFICES ASSUME SessionsInv, NEW i \in Ids, NEW j \in Ids, i # j, At(i, "turn"), At(j, "turn"),
                      Chat(i) = Chat(j)
               PROVE  /\ batches[i].session # batches[j].session
                      /\ batches[i].stray \/ batches[j].stray
    BY DEF OverlapOnlyWhenStray
  <2>1. i \in Jobs /\ j \in Jobs /\ batches[i].at = "turn" /\ batches[j].at = "turn"
    BY DEF At
  <2>2. lock[batches[i].session] = i /\ lock[batches[j].session] = j
    BY <2>1 DEF SessionsInv, SessionParts, Holding
  <2>3. Chat(batches[i].session) = Chat(batches[j].session)
    BY <2>1 DEF SessionsInv, SessionParts, Sessioned, Busy
  <2>4. ~batches[i].stray /\ ~batches[j].stray => batches[i].session = batches[j].session
    BY <2>1, <2>3 DEF SessionsInv, SessionParts, Turning
  <2> QED
    BY <2>2, <2>4
<1> QED
  BY <1>1, SessionsInvariant, PTL

\* A recorded turn is remembered by whatever the next message finds or reads,
\* and by the file once the process has ended (service.py:297), unless its chat
\* had two sessions at once, or lost a session whose last save raised.
THEOREM TurnsStayKept == SessionsSpec => []TurnsAreKept
<1>1. SessionsInv => TurnsAreKept
  <2> SUFFICES ASSUME SessionsInv, NEW j \in Jobs, batches[j].at = "kept", Chat(j) \notin torn
               PROVE  j \in Remembered(Chat(j))
    BY DEF TurnsAreKept
  <2> DEFINE c == Chat(j)
  <2>1. SessionsTypeOK /\ c \in Chats \ torn
    BY JobFacts DEF SessionsInv, Chat, Job
  <2>2. Whole(c) /\ j \in Kept(c)
    BY <2>1 DEF SessionsInv, SessionParts, Keeping, Kept
  <2> HIDE DEF c
  <2>3. CASE stage = "down"
    BY <2>2, <2>3 DEF Whole, Remembered, c
  <2>4. CASE stage # "down" /\ Held(c) = {}
    BY <2>2, <2>4 DEF Whole, Remembered, Held, c
  <2>5. CASE stage # "down" /\ Held(c) # {}
    <3>1. PICK o \in Held(c) : TRUE
      BY <2>5
    <3>2. o \in Live(c)
      BY <3>1 DEF Held, Live, InUse
    <3>3. j \in turns[o]
      BY <2>2, <2>5, <3>2 DEF Whole
    <3>4. Remembered(c) = UNION {turns[p] : p \in Held(c)}
      BY <2>5 DEF Remembered, Held
    <3> QED
      BY <3>1, <3>3, <3>4 DEF c
  <2> QED
    BY <2>3, <2>4, <2>5
<1> QED
  BY <1>1, SessionsInvariant, PTL
=============================================================================
