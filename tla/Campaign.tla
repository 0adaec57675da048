------------------------------ MODULE Campaign ------------------------------
(***************************************************************************)
(* One outbound campaign of the assistant (assistant/campaign.py): the     *)
(* operator's launch, its opening messages on an executor, the follow-up   *)
(* thread and the follow-ups it submits to the same executor, the replies  *)
(* the handler works on, and campaigns.json.                               *)
(*                                                                         *)
(* Two locks meet here.  CampaignManager._lock covers a few assignments;   *)
(* the chat's session.lock is held for a whole agent turn, so a send waits *)
(* behind a reply and several follow-ups wait behind one send.             *)
(*                                                                         *)
(* A target keeps, of its time stamps, only what the code compares:        *)
(* whether last_outbound_at is set and older than the interval, and        *)
(* whether last_reply_at is newer.  Every target's channel runs, and the   *)
(* operator's launch requests come one at a time.                          *)
(***************************************************************************)
EXTENDS Integers, FiniteSets

CONSTANTS
    Targets,        \* the contacts of the campaign, in chats of their own
    NoTarget,
    MaxFollowUps,   \* max_follow_ups as the campaign was created
    Limits,         \* max_follow_ups that a PATCH may set
    MaxOverlap,     \* bound: follow-ups of one target at once on the executor
    MaxRaises,      \* bound: sends that raise
    MaxEdits,       \* bound: PATCH and DELETE requests
    MaxCrashes,     \* bound: ends of the process
    MaxMishaps      \* bound: all of these three together

ASSUME NoTargetAssumption == NoTarget \notin Targets

ASSUME BoundsAssumption ==
    /\ MaxFollowUps \in Nat
    /\ Limits \subseteq Nat
    /\ MaxOverlap \in Nat \ {0}
    /\ MaxRaises \in Nat
    /\ MaxEdits \in Nat
    /\ MaxCrashes \in Nat
    /\ MaxMishaps \in Nat

VARIABLES
    campaign,   \* Campaign.status, or "deleted" once it is out of _campaigns
    target,     \* the CampaignTarget of each contact
    limit,      \* Campaign.max_follow_ups
    session,    \* what holds session.lock of each chat
    opening,    \* launch()'s send to each target
    launch,     \* the launch request: is one running, targets it has not visited
    jobs,       \* follow-ups on the executor, by how far they have come
    pass,       \* the follow-up thread: targets left, the one it decides on
    file,       \* campaigns.json
    late,       \* a save() that has its snapshot and has not written it
    opened,     \* opening messages each contact was sent
    top,        \* the highest limit there has been
    used        \* how much of each bound is used up

memoryVars == <<campaign, target>>
diskVars == <<file, late>>
limits == <<limit, top>>
vars == <<campaign, target, limit, session, opening, launch, jobs, pass, file, late,
          opened, top, used>>

Ended == {"completed", "failed", "escalated"}
Statuses == {"draft", "active", "paused", "completed", "cancelled"}

TargetRecord ==
    [status: Ended \cup {"pending", "active"}, sent: Nat,
     outbound: {"none", "fresh", "due"}, replied: BOOLEAN]

Phases == {"queued", "cleared", "running", "posted"}
NoSnapshot == [campaign |-> "none"]
Idle == [busy |-> FALSE, todo |-> {}]
NoPass == [todo |-> {}, at |-> NoTarget]
NoJobs == [p \in Phases |-> 0]

\* The follow-ups of t that are on the executor.
InFlight(t) ==
    jobs[t]["queued"] + jobs[t]["cleared"] + jobs[t]["running"] + jobs[t]["posted"]

-----------------------------------------------------------------------------
(* save(): the snapshot is taken under the lock, the write is not: it can  *)
(* be overtaken by the write of a newer snapshot.  At most one lags.  The  *)
(* file is followed only as long as a restart that reads it may come.      *)

Snapshot == [campaign |-> campaign, target |-> target, limit |-> limit]

MishapLeft == used.raises + used.edits + used.crashes < MaxMishaps
CrashLeft == MishapLeft /\ used.crashes < MaxCrashes
Forget == file' = NoSnapshot /\ late' = NoSnapshot
Unsaved == IF CrashLeft' THEN UNCHANGED diskVars ELSE Forget

Save ==
    \/ /\ ~CrashLeft
       /\ UNCHANGED diskVars
    \/ /\ CrashLeft
       /\ file' = Snapshot'
       /\ UNCHANGED late
    \/ /\ CrashLeft
       /\ late = NoSnapshot
       /\ late' = Snapshot'
       /\ UNCHANGED file

LateWrite ==
    /\ late /= NoSnapshot
    /\ file' = late
    /\ late' = NoSnapshot
    /\ UNCHANGED <<campaign, target, session, opening, launch, jobs, pass,
                   opened, limits, used>>

\* _check_completion(), called with the target already changed
CheckCompletion ==
    campaign' = IF campaign = "active" /\ \A t \in Targets : target'[t].status \in Ended
                THEN "completed" ELSE campaign

\* mutants: completion is checked before the outcome is set; the status is not
\* looked at again under the lock
ResolveChecksFirst(t, outcome) ==
    IF target[t].status = "active"
    THEN /\ campaign' = IF campaign = "active" /\ \A u \in Targets : target[u].status \in Ended
                        THEN "completed" ELSE campaign
         /\ target' = [target EXCEPT ![t].status = outcome]
         /\ Save
    ELSE UNCHANGED <<memoryVars, diskVars>>

ResolveUnchecked(t, outcome) ==
    /\ target' = [target EXCEPT ![t].status = outcome]
    /\ CheckCompletion
    /\ Save

\* a target's outcome: the first writer wins
Resolve(t, outcome) ==
    IF target[t].status = "active"
    THEN /\ target' = [target EXCEPT ![t].status = outcome]
         /\ CheckCompletion
         /\ Save
    ELSE UNCHANGED <<memoryVars, diskVars>>

\* last_outbound_at = time.time(): a reply stamped before it no longer counts
Stamp(r) == [r EXCEPT !.outbound = "fresh", !.replied = FALSE]

\* one follow-up more
Counted(r) == [r EXCEPT !.outbound = "fresh", !.replied = FALSE, !.sent = @ + 1]

-----------------------------------------------------------------------------
(* launch(): the campaign is made active under the lock; each target is    *)
(* made active before its send, so that a reply in between is matched; the *)
(* file is written once, after every send.                                 *)

Launch ==
    /\ ~launch.busy
    /\ campaign \in {"draft", "paused"}
    /\ campaign' = "active"
    /\ launch' = [busy |-> TRUE, todo |-> Targets]
    /\ UNCHANGED <<target, session, opening, jobs, pass, file, late, opened, limits, used>>

\* mutant: whoever has no outcome yet is written to
LaunchVisitOpen(t) ==
    /\ t \in launch.todo
    /\ launch' = [launch EXCEPT !.todo = @ \ {t}]
    /\ IF target[t].status \notin Ended /\ opening[t] = "none"
       THEN /\ target' = [target EXCEPT ![t].status = "active"]
            /\ opening' = [opening EXCEPT ![t] = "queued"]
       ELSE UNCHANGED <<target, opening>>
    /\ UNCHANGED <<campaign, session, jobs, pass, file, late, opened, limits, used>>

LaunchVisit(t) ==
    /\ t \in launch.todo
    /\ launch' = [launch EXCEPT !.todo = @ \ {t}]
    /\ IF target[t].status = "pending"
       THEN /\ target' = [target EXCEPT ![t].status = "active"]
            /\ opening' = [opening EXCEPT ![t] = "queued"]
       ELSE UNCHANGED <<target, opening>>
    /\ UNCHANGED <<campaign, session, jobs, pass, file, late, opened, limits, used>>

LaunchEnd ==
    /\ launch.busy
    /\ launch.todo = {}
    /\ \A t \in Targets : opening[t] = "none"
    /\ launch' = Idle
    /\ UNCHANGED <<campaign, target, session, opening, jobs, pass, opened, limits, used>>
    /\ Save

\* _do_send(): handle_outbound() takes session.lock for the agent's turn.
OpenRun(t) ==
    /\ opening[t] = "queued"
    /\ session[t] = "free"
    /\ opening' = [opening EXCEPT ![t] = "running"]
    /\ session' = [session EXCEPT ![t] = "opening"]
    /\ UNCHANGED <<campaign, target, launch, jobs, pass, file, late, opened, limits, used>>

OpenPost(t) ==
    /\ opening[t] = "running"
    /\ opening' = [opening EXCEPT ![t] = "posted"]
    /\ session' = [session EXCEPT ![t] = "free"]
    /\ opened' = [opened EXCEPT ![t] = @ + 1]
    /\ UNCHANGED <<campaign, target, launch, jobs, pass, file, late, limits, used>>

OpenStamp(t) ==
    /\ opening[t] = "posted"
    /\ opening' = [opening EXCEPT ![t] = "none"]
    /\ target' = [target EXCEPT ![t] = Stamp(@)]
    /\ UNCHANGED <<campaign, session, launch, jobs, pass, file, late, opened, limits, used>>

OpenRaise(t) ==
    /\ opening[t] = "running"
    /\ used.raises < MaxRaises /\ MishapLeft
    /\ used' = [used EXCEPT !.raises = @ + 1]
    /\ opening' = [opening EXCEPT ![t] = "raised"]
    /\ session' = [session EXCEPT ![t] = "free"]
    /\ UNCHANGED <<campaign, target, launch, jobs, pass, opened, limits>>
    /\ Unsaved

\* The except arm sets the status back without looking at it.
OpenFail(t) ==
    /\ opening[t] = "raised"
    /\ opening' = [opening EXCEPT ![t] = "none"]
    /\ target' = [target EXCEPT ![t].status = "pending"]
    /\ UNCHANGED <<campaign, session, launch, jobs, pass, file, late, opened, limits, used>>

-----------------------------------------------------------------------------
(* _process_follow_ups(): a pass over the targets of an active campaign.   *)
(* The eligibility is read without the lock; between it and what follows   *)
(* lies a request to the channel for the delivery state.                   *)

\* The campaigns are chosen once: a pause does not end a pass under way.
PassBegin ==
    /\ pass = NoPass
    /\ campaign = "active"
    /\ pass' = [pass EXCEPT !.todo = Targets]
    /\ UNCHANGED <<campaign, target, session, opening, launch, jobs, file, late,
                   opened, limits, used>>

NeedsFollowUp(r) ==
    /\ r.status = "active"
    /\ r.outbound = "due"
    /\ ~r.replied

PassVisit(t) ==
    /\ t \in pass.todo
    /\ pass.at = NoTarget
    /\ pass' = [todo |-> pass.todo \ {t},
                at |-> IF NeedsFollowUp(target[t]) THEN t ELSE NoTarget]
    /\ UNCHANGED <<campaign, target, session, opening, launch, jobs, file, late,
                   opened, limits, used>>

\* _last_outbound_undelivered() confirmed that the last message never arrived.
PassUndelivered(t) ==
    /\ pass.at = t
    /\ pass' = [pass EXCEPT !.at = NoTarget]
    /\ UNCHANGED <<session, opening, launch, jobs, opened, limits, used>>
    /\ Resolve(t, "failed")

PassEscalate(t) ==
    /\ pass.at = t
    /\ target[t].sent >= limit
    /\ pass' = [pass EXCEPT !.at = NoTarget]
    /\ UNCHANGED <<session, opening, launch, jobs, opened, limits, used>>
    /\ Resolve(t, "escalated")

\* mutant: off by one
PassSubmitOneMore(t) ==
    /\ pass.at = t
    /\ target[t].sent <= limit
    /\ InFlight(t) < MaxOverlap
    /\ pass' = [pass EXCEPT !.at = NoTarget]
    /\ jobs' = [jobs EXCEPT ![t]["queued"] = @ + 1]
    /\ UNCHANGED <<campaign, target, session, opening, launch, file, late, opened, limits,
                   used>>

PassSubmit(t) ==
    /\ pass.at = t
    /\ target[t].sent < limit
    /\ InFlight(t) < MaxOverlap
    /\ pass' = [pass EXCEPT !.at = NoTarget]
    /\ jobs' = [jobs EXCEPT ![t]["queued"] = @ + 1]
    /\ UNCHANGED <<campaign, target, session, opening, launch, file, late, opened, limits,
                   used>>

\* follow_up_interval_hours pass since the last message.
Elapse(t) ==
    /\ target[t].outbound = "fresh"
    /\ target' = [target EXCEPT ![t].outbound = "due"]
    /\ UNCHANGED <<campaign, session, opening, launch, jobs, pass, file, late, opened, limits,
                   used>>

-----------------------------------------------------------------------------
(* _do_follow_up() on the executor: the status is looked at once more,     *)
(* then the send waits for session.lock; the count, the time stamp and the *)
(* file follow after the send.                                             *)

ChaseCheck(t) ==
    /\ jobs[t]["queued"] > 0
    /\ jobs' = [jobs EXCEPT ![t]["queued"] = @ - 1,
                            ![t]["cleared"] = IF target[t].status = "active"
                                              THEN @ + 1 ELSE @]
    /\ UNCHANGED <<campaign, target, session, opening, launch, pass, file, late,
                   opened, limits, used>>

ChaseRun(t) ==
    /\ jobs[t]["cleared"] > 0
    /\ session[t] = "free"
    /\ jobs' = [jobs EXCEPT ![t]["cleared"] = @ - 1, ![t]["running"] = @ + 1]
    /\ session' = [session EXCEPT ![t] = "chasing"]
    /\ UNCHANGED <<campaign, target, opening, launch, pass, file, late, opened, limits, used>>

ChasePost(t) ==
    /\ jobs[t]["running"] > 0
    /\ jobs' = [jobs EXCEPT ![t]["running"] = @ - 1, ![t]["posted"] = @ + 1]
    /\ session' = [session EXCEPT ![t] = "free"]
    /\ UNCHANGED <<campaign, target, opening, launch, pass, file, late, opened, limits, used>>

\* An exception is logged; the follow-up counts for nothing.
ChaseRaise(t) ==
    /\ jobs[t]["running"] > 0
    /\ used.raises < MaxRaises /\ MishapLeft
    /\ used' = [used EXCEPT !.raises = @ + 1]
    /\ jobs' = [jobs EXCEPT ![t]["running"] = @ - 1]
    /\ session' = [session EXCEPT ![t] = "free"]
    /\ UNCHANGED <<campaign, target, opening, launch, pass, opened, limits>>
    /\ Unsaved

\* mutant: the follow-up is not counted
ChaseStampOnly(t) ==
    /\ jobs[t]["posted"] > 0
    /\ jobs' = [jobs EXCEPT ![t]["posted"] = @ - 1]
    /\ target' = [target EXCEPT ![t] = Stamp(@)]
    /\ UNCHANGED <<campaign, session, opening, launch, pass, opened, limits, used>>
    /\ Save

ChaseStamp(t) ==
    /\ jobs[t]["posted"] > 0
    /\ jobs' = [jobs EXCEPT ![t]["posted"] = @ - 1]
    /\ target' = [target EXCEPT ![t] = Counted(@)]
    /\ UNCHANGED <<campaign, session, opening, launch, pass, opened, limits, used>>
    /\ Save

-----------------------------------------------------------------------------
(* handle(): a message of the contact, worked on under session.lock.  One  *)
(* that matches no active target changes nothing here.                     *)

Matches(t) == campaign = "active" /\ target[t].status = "active"

\* get_active_campaign_for_chat()
ReplyMatch(t) ==
    /\ session[t] = "free"
    /\ Matches(t)
    /\ session' = [session EXCEPT ![t] = "matched"]
    /\ UNCHANGED <<campaign, target, opening, launch, jobs, pass, file, late, opened, limits,
                   used>>

\* on_reply(), which looks for the target itself
ReplyStamp(t) ==
    /\ session[t] = "matched"
    /\ session' = [session EXCEPT ![t] = "replying"]
    /\ UNCHANGED <<campaign, opening, launch, jobs, pass, opened, limits, used>>
    /\ IF Matches(t)
       THEN /\ target' = [target EXCEPT ![t].replied = TRUE]
            /\ Save
       ELSE UNCHANGED <<target, diskVars>>

\* The agent reports no outcome, or "in_progress", which changes no target
\* but checks the completion and saves.
ReplyOpen(t) ==
    /\ session[t] = "replying"
    /\ session' = [session EXCEPT ![t] = "free"]
    /\ UNCHANGED <<memoryVars, opening, launch, jobs, pass, opened, limits, used>>
    /\ UNCHANGED diskVars \/ Save

\* mark_target_outcome() after the agent's turn; without a campaign it returns.
ReplyOutcome(t, outcome) ==
    /\ session[t] = "replying"
    /\ session' = [session EXCEPT ![t] = "free"]
    /\ UNCHANGED <<opening, launch, jobs, pass, opened, limits, used>>
    /\ IF campaign /= "deleted"
       THEN Resolve(t, outcome)
       ELSE UNCHANGED <<memoryVars, diskVars>>

-----------------------------------------------------------------------------
(* The operator: PATCH may set the status (pause, cancel, reopen), the     *)
(* limit of follow-ups and their interval, each to anything and all at     *)
(* once; DELETE takes the campaign out, while threads may still hold the   *)
(* object.                                                                 *)

\* After a longer interval a target that was due no longer is; a shorter one
\* lets it elapse (Elapse).
Patch ==
    /\ campaign' \in Statuses
    /\ limit' \in Limits \cup {limit}
    /\ top' = (IF limit' > top THEN limit' ELSE top)
    /\ \E due \in SUBSET {t \in Targets : target[t].outbound = "due"} :
        target' = [t \in Targets |->
            IF t \in due THEN [target[t] EXCEPT !.outbound = "fresh"] ELSE target[t]]

Delete == campaign' = "deleted" /\ UNCHANGED <<target, limits>>

Edit ==
    /\ used.edits < MaxEdits /\ MishapLeft
    /\ used' = [used EXCEPT !.edits = @ + 1]
    /\ campaign /= "deleted"
    /\ Patch \/ Delete
    /\ UNCHANGED <<session, opening, launch, jobs, pass, opened>>
    /\ (CrashLeft' /\ Save) \/ (~CrashLeft' /\ Forget)

\* The process ends; another one loads the file and starts the thread.
Crash ==
    /\ CrashLeft
    /\ file /= NoSnapshot
    /\ used' = [used EXCEPT !.crashes = @ + 1]
    /\ campaign' = file.campaign
    /\ target' = file.target
    /\ limit' = file.limit
    /\ session' = [t \in Targets |-> "free"]
    /\ opening' = [t \in Targets |-> "none"]
    /\ launch' = Idle
    /\ jobs' = [t \in Targets |-> NoJobs]
    /\ pass' = NoPass
    /\ file' = (IF CrashLeft' THEN file ELSE NoSnapshot)
    /\ late' = NoSnapshot
    /\ UNCHANGED <<opened, top>>

-----------------------------------------------------------------------------
\* create() has stored the campaign and written the file.
Init ==
    /\ campaign = "draft"
    /\ target = [t \in Targets |->
           [status |-> "pending", sent |-> 0, outbound |-> "none", replied |-> FALSE]]
    /\ limit = MaxFollowUps
    /\ session = [t \in Targets |-> "free"]
    /\ opening = [t \in Targets |-> "none"]
    /\ launch = Idle
    /\ jobs = [t \in Targets |-> NoJobs]
    /\ pass = NoPass
    /\ file = Snapshot
    /\ late = NoSnapshot
    /\ opened = [t \in Targets |-> 0]
    /\ top = MaxFollowUps
    /\ used = [raises |-> 0, edits |-> 0, crashes |-> 0]

Opens(t) == LaunchVisit(t) \/ OpenRun(t) \/ OpenPost(t) \/ OpenStamp(t) \/ OpenFail(t)
Passes(t) == PassVisit(t) \/ PassUndelivered(t) \/ PassEscalate(t) \/ PassSubmit(t)
Chases(t) == ChaseCheck(t) \/ ChaseRun(t) \/ ChasePost(t) \/ ChaseStamp(t)
ReplyEnds(t) == ReplyOpen(t) \/ \E o \in {"completed", "failed"} : ReplyOutcome(t, o)

Next ==
    \/ Launch \/ LaunchEnd \/ PassBegin \/ LateWrite \/ Edit \/ Crash
    \/ \E t \in Targets :
        \/ Opens(t) \/ OpenRaise(t)
        \/ Passes(t) \/ Elapse(t)
        \/ Chases(t) \/ ChaseRaise(t)
        \/ ReplyMatch(t) \/ ReplyStamp(t) \/ ReplyEnds(t)

Spec == Init /\ [][Next]_vars

\* Threads run, time passes and the agent's turns end.  Nothing is assumed of
\* the operator, of the contacts, of failures and of the end of the process.
FairSpec ==
    /\ Spec
    /\ WF_vars(PassBegin)
    /\ \A t \in Targets :
        /\ WF_vars(Opens(t))
        /\ WF_vars(Passes(t))
        /\ WF_vars(Chases(t))
        /\ WF_vars(Elapse(t))
        /\ WF_vars(ReplyStamp(t))
        /\ WF_vars(ReplyEnds(t))

-----------------------------------------------------------------------------
(* Properties                                                              *)

TypeOK ==
    /\ campaign \in Statuses \cup {"deleted"}
    /\ target \in [Targets -> TargetRecord]
    /\ limit \in Nat
    /\ session \in [Targets -> {"free", "opening", "chasing", "matched", "replying"}]
    /\ opening \in [Targets -> {"none", "queued", "running", "posted", "raised"}]
    /\ launch \in [busy: BOOLEAN, todo: SUBSET Targets]
    /\ jobs \in [Targets -> [Phases -> Nat]]
    /\ pass \in [todo: SUBSET Targets, at: Targets \cup {NoTarget}]
    /\ \/ file = NoSnapshot
       \/ file \in [campaign: Statuses \cup {"deleted"},
                    target: [Targets -> TargetRecord], limit: Nat]
    /\ \/ late = NoSnapshot
       \/ late \in [campaign: Statuses \cup {"deleted"},
                    target: [Targets -> TargetRecord], limit: Nat]
    /\ opened \in [Targets -> Nat]
    /\ top \in Nat
    /\ used \in [raises: 0 .. MaxRaises, edits: 0 .. MaxEdits, crashes: 0 .. MaxCrashes]

\* session.lock admits one agent's turn per chat: a follow-up that waits for
\* the model holds back the opening, the other follow-ups and the replies.
OneTurnPerChat ==
    \A t \in Targets :
        /\ jobs[t]["running"] = IF session[t] = "chasing" THEN 1 ELSE 0
        /\ opening[t] = "running" <=> session[t] = "opening"

\* _process_follow_ups() compares follow_ups_sent with the limit when it
\* submits, and the count grows only after the send: follow-ups that overlap
\* push the count past max_follow_ups, each by one and no further.  A PATCH may
\* set the limit below what was sent already, and a restart may set it back: the
\* bound is the highest max_follow_ups the campaign ever had.
FollowUpsBounded ==
    \A t \in Targets : target[t].sent + InFlight(t) <= top + MaxOverlap - 1

\* launch() writes the file only after the last send.  A contact is sent the
\* opening message a second time only when the process ended in between, however
\* often the operator pauses, edits and launches again.
OpenedOnce == \A t \in Targets : opened[t] <= 1 + used.crashes

\* A campaign the operator has left alone since launch() does not stay active
\* when every target is resolved: replies, the limit of follow-ups and failed
\* deliveries resolve targets from three threads, and the last one completes it.
ActiveHasWork ==
    campaign = "active" /\ used.edits = 0 =>
        \E t \in Targets : target[t].status \notin Ended

\* The first outcome of a target stands: an escalation does not replace what the
\* agent reported, nor the report the escalation.  Only launch()'s except arm
\* and a restart from an older file put a target back.
OutcomeIsFinal ==
    [][\A t \in Targets :
        target[t].status \in Ended =>
            target'[t].status = target[t].status \/ OpenFail(t) \/ Crash]_vars

\* Whoever was written to and does not answer is not waited for for ever: as
\* long as the campaign is active the target is followed up until it answers,
\* is escalated or turns out to be undeliverable.
Awaited(t) ==
    /\ campaign = "active"
    /\ target[t].status = "active"
    /\ target[t].outbound /= "none"
    /\ ~target[t].replied
AwaitedIsResolved ==
    \A t \in Targets : Awaited(t) ~> ~Awaited(t)
=============================================================================
