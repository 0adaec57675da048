------------------------------- MODULE Deferral -------------------------------
(***************************************************************************)
(* DeferralManager of cogtrix_core/assistant/deferral.py with the code     *)
(* that calls it: handle_batch() and handle() of handler.py, and the       *)
(* reprocess callback of service.py.                                       *)
(*                                                                         *)
(* The agent may put a chat off: its messages go into a record, messages   *)
(* that arrive meanwhile are added to the record, and when its time has    *)
(* come a dispatch thread hands them all to a re-processing pass.          *)
(*                                                                         *)
(* One chat: records of different chats share the dispatch thread and the  *)
(* file and nothing else.  Each step is one critical section of `_lock`,   *)
(* one agent turn under the lock of the chat session, or half of a save.   *)
(*                                                                         *)
(* Abstracted: texts, and the order and repetition of messages in a        *)
(* record; times, of which only "fire_at is not after the moment the       *)
(* thread woke" is kept; the two-hour limit of a stale record (any pending *)
(* record may be); failing writes.                                         *)
(***************************************************************************)
EXTENDS Naturals, FiniteSets

CONSTANTS
    Batches,        \* what MessageBuffer made of the chat's messages: sets
    Passes,         \* bound: the re-processing passes that can be under way
    Dispatcher,     \* the dispatch thread
    MaxDepth,       \* max_depth
    MaxFailures,    \* bound: agent turns, and submissions, that fail
    MaxCrashes      \* bound: deaths of the process

Messages == UNION Batches
Workers  == Batches \cup Passes     \* threads of the executor
Savers   == Workers \cup {Dispatcher}

ASSUME DeferralAssumption ==
    /\ {} \notin Batches
    /\ Batches \cap Passes = {} /\ Dispatcher \notin Workers
    /\ MaxDepth \in Nat /\ MaxFailures \in Nat /\ MaxCrashes \in Nat

Records == [status : {"none", "pending", "firing", "cancelled"},
            msgs : SUBSET Messages,     \* pending_messages
            depth : Nat]                \* deferral_depth

NoRecord == [status |-> "none", msgs |-> {}, depth |-> 0]

Steps == {"idle", "absorb", "wait", "agent", "leave", "ok", "failed", "done"}

VARIABLES
    record,     \* _records of the chat
    due,        \* fire_at was not moved since the dispatch thread woke
    disp,       \* the dispatch thread
    same,       \* the record it collected is still the chat's
    held,       \* if not, what that one holds
    step,       \* where each worker stands
    pass,       \* what each re-processing pass was given
    tried,      \* the messages of a batch add_message() was called for
    absorbed,   \* those it answered True for
    file,       \* what the JSON file holds
    saving,     \* save() of each thread: "no", "asked" or "writing"
    image,      \* the snapshot of a writing thread
    failures, crashes,
    cut,        \* history: handle_batch() has cancelled a live record
    owed        \* history: the messages put off, and not answered since

vars == <<record, due, disp, same, held, step, pass, tried, absorbed, file,
          saving, image, failures, crashes, cut, owed>>

dispatch == <<disp, due, same, held>>
turns    == <<pass, tried, absorbed>>
bounds   == <<failures, crashes>>
history  == <<cut, owed>>

Live == record.status \in {"pending", "firing"}
UnderWay(p) == step[p] # "idle"

TypeOK ==
    /\ record \in Records /\ held \in Records /\ file \in Records
    /\ due \in BOOLEAN /\ same \in BOOLEAN
    /\ disp \in {"idle", "check", "expire", "fire", "submit"}
    /\ step \in [Workers -> Steps]
    /\ pass \in [Passes -> [msgs : SUBSET Messages, depth : Nat]]
    /\ tried \in [Batches -> SUBSET Messages]
    /\ absorbed \in [Batches -> SUBSET Messages]
    /\ \A b \in Batches : absorbed[b] \subseteq tried[b] /\ tried[b] \subseteq b
    /\ saving \in [Savers -> {"no", "asked", "writing"}]
    /\ image \in [Savers -> Records]
    /\ failures \in 0 .. MaxFailures /\ crashes \in 0 .. MaxCrashes
    /\ cut \in BOOLEAN
    /\ owed \in SUBSET Messages
    \* who has a record has messages: a pass never finds it empty
    /\ Live => record.msgs # {}
    /\ \A p \in Passes : UnderWay(p) => pass[p].msgs # {}

Init ==
    /\ record = NoRecord /\ held = NoRecord /\ file = NoRecord
    /\ due = FALSE /\ same = FALSE /\ disp = "idle"
    /\ step = [w \in Workers |-> "idle"]
    /\ pass = [p \in Passes |-> [msgs |-> {}, depth |-> 0]]
    /\ tried = [b \in Batches |-> {}] /\ absorbed = [b \in Batches |-> {}]
    /\ saving = [s \in Savers |-> "no"]
    /\ image = [s \in Savers |-> NoRecord]
    /\ failures = 0 /\ crashes = 0
    /\ cut = FALSE /\ owed = {}

Ask(s) == saving' = [saving EXCEPT ![s] = "asked"]
Quiet(s) == saving[s] = "no"
Go(w, to) == step' = [step EXCEPT ![w] = to]

\* The chat gets another record, or none. The dispatch thread keeps the one it
\* has collected; the time of the other is later than when the thread woke.
Replace(new) ==
    /\ record' = new
    /\ due' = FALSE
    /\ same' = FALSE
    /\ held' = IF same THEN record ELSE held

\* The thread is done with its record.
ToSleep ==
    /\ disp' = "idle" /\ due' = FALSE
    /\ same' = FALSE /\ held' = NoRecord

-------------------------------------------------------------------------------
(* save(): a snapshot under _lock, and outside of it the write *)

SaveBegin(s) ==
    /\ saving[s] = "asked"
    /\ saving' = [saving EXCEPT ![s] = "writing"]
    /\ image' = [image EXCEPT ![s] = record]
    /\ UNCHANGED <<record, dispatch, step, turns, file, bounds, history>>

SaveEnd(s) ==
    /\ saving[s] = "writing"
    /\ saving' = [saving EXCEPT ![s] = "no"]
    /\ image' = [image EXCEPT ![s] = NoRecord]
    /\ file' = image[s]
    /\ UNCHANGED <<record, dispatch, step, turns, bounds, history>>

-------------------------------------------------------------------------------
(* handle_batch() of a batch that has arrived *)

Arrive(b) ==
    /\ step[b] = "idle"
    /\ Go(b, "absorb")
    /\ UNCHANGED <<record, dispatch, turns, file, saving, image, bounds, history>>

\* add_message(), for each message of the batch whatever the others gave.
AddMessage(b, m) ==
    /\ step[b] = "absorb" /\ Quiet(b)
    /\ m \in b \ tried[b]
    /\ tried' = [tried EXCEPT ![b] = @ \cup {m}]
    /\ IF Live
       THEN /\ record' = [record EXCEPT !.msgs = @ \cup {m}]
            /\ absorbed' = [absorbed EXCEPT ![b] = @ \cup {m}]
            /\ owed' = owed \cup {m}
            /\ Ask(b)
       ELSE UNCHANGED <<record, absorbed, owed, saving>>
    /\ UNCHANGED <<dispatch, step, pass, file, image, bounds, cut>>

\* All were taken: the batch waits for the record. None: it goes to the agent.
Absorbed(b) ==
    /\ step[b] = "absorb" /\ Quiet(b) /\ tried[b] = b
    /\ absorbed[b] \in {{}, b}
    /\ Go(b, IF absorbed[b] = b THEN "done" ELSE "wait")
    /\ UNCHANGED <<record, dispatch, turns, file, saving, image, bounds, history>>

\* Some were: cancel(), and all go to the agent.
PartlyAbsorbed(b) ==
    /\ step[b] = "absorb" /\ Quiet(b) /\ tried[b] = b
    /\ absorbed[b] \notin {{}, b}
    /\ IF Live THEN /\ record' = [record EXCEPT !.status = "cancelled"]
                    /\ cut' = TRUE
                    /\ Ask(b)
               ELSE UNCHANGED <<record, cut, saving>>
    /\ owed' = owed \ b
    /\ Go(b, "wait")
    /\ UNCHANGED <<dispatch, turns, file, image, bounds>>

-------------------------------------------------------------------------------
(* handle(), under the lock of the chat session *)

Content(w) == IF w \in Batches THEN w ELSE pass[w].msgs
Depth(w)   == IF w \in Batches THEN 0 ELSE pass[w].depth
InSession  == {w \in Workers : step[w] \in {"agent", "leave"}}

\* A pass has its done callback before it.
Ended(w) == IF w \in Batches THEN "done" ELSE "ok"

Enter(w) ==
    /\ step[w] = "wait" /\ Quiet(w)
    /\ InSession = {}
    /\ Go(w, "agent")
    /\ UNCHANGED <<record, dispatch, turns, file, saving, image, bounds, history>>

\* A reply, a suppressed one, or a message the guardrails reject.
Reply(w) ==
    /\ step[w] = "agent"
    /\ Go(w, Ended(w))
    /\ owed' = owed \ Content(w)
    /\ UNCHANGED <<record, dispatch, turns, file, saving, image, bounds, cut>>

\* defer() into a record of which statuses `joins` it may become part.
DeferInto(w, joins) ==
    /\ step[w] = "agent"
    /\ IF record.status \in joins
       THEN /\ record' = [record EXCEPT !.msgs = @ \cup Content(w),
                                        !.depth = Depth(w)]
            /\ due' = FALSE
            /\ UNCHANGED <<same, held>>
       ELSE Replace([status |-> "pending", msgs |-> Content(w), depth |-> Depth(w)])
    /\ owed' = owed \cup Content(w)
    /\ Go(w, "leave") /\ Ask(w)
    /\ UNCHANGED <<disp, turns, file, image, bounds, cut>>

\* Mutant: a firing record is replaced.
DeferAnew(w) == Depth(w) < MaxDepth /\ DeferInto(w, {"pending"})

\* The agent has called defer_processing, which it is given below max_depth.
Defer(w) == Depth(w) < MaxDepth /\ DeferInto(w, {"pending", "firing"})

\* The record is saved, and the session unlocked.
Leave(w) ==
    /\ step[w] = "leave" /\ Quiet(w)
    /\ Go(w, Ended(w))
    /\ UNCHANGED <<record, dispatch, turns, file, saving, image, bounds, history>>

\* The turn raises. Nobody looks at the future of a batch.
Raise(w) ==
    /\ step[w] = "agent"
    /\ failures < MaxFailures
    /\ failures' = failures + 1
    /\ Go(w, IF w \in Batches THEN "done" ELSE "failed")
    /\ UNCHANGED <<record, dispatch, turns, file, saving, image, crashes, history>>

-------------------------------------------------------------------------------
(* The done callback of a pass: one critical section, the write included *)

Forget(p) ==
    /\ Go(p, "idle")
    /\ pass' = [pass EXCEPT ![p] = [msgs |-> {}, depth |-> 0]]

OnSuccess(p) ==
    /\ step[p] = "ok"
    /\ IF record.status = "firing" THEN Replace(NoRecord)
                                   ELSE UNCHANGED <<record, due, same, held>>
    /\ file' = record'
    /\ Forget(p)
    /\ UNCHANGED <<disp, tried, absorbed, saving, image, bounds, history>>

\* Mutant: the record stays firing, which the dispatch thread passes over.
OnFailureKeepsFiring(p) ==
    /\ step[p] = "failed"
    /\ file' = record
    /\ Forget(p)
    /\ UNCHANGED <<record, dispatch, tried, absorbed, saving, image, bounds, history>>

\* Due again after the backoff.
OnFailure(p) ==
    /\ step[p] = "failed"
    /\ record' = IF record.status = "firing" THEN [record EXCEPT !.status = "pending"]
                                             ELSE record
    /\ due' = (due /\ record.status # "firing")
    /\ file' = record'
    /\ Forget(p)
    /\ UNCHANGED <<disp, same, held, tried, absorbed, saving, image, bounds, history>>

-------------------------------------------------------------------------------
(* The dispatch thread *)

\* It wakes, and the time of the pending record has come.
Collect ==
    /\ disp = "idle" /\ Quiet(Dispatcher)
    /\ record.status = "pending"
    /\ disp' = "check" /\ due' = TRUE /\ same' = TRUE
    /\ UNCHANGED <<record, held, step, turns, file, saving, image, bounds, history>>

\* It wakes, and the record was made too long ago though its time is to come.
ExpireEarly ==
    /\ disp = "idle" /\ Quiet(Dispatcher)
    /\ record.status = "pending"
    /\ record' = [record EXCEPT !.status = "cancelled"]
    /\ owed' = owed \ record.msgs
    /\ Ask(Dispatcher)
    /\ UNCHANGED <<dispatch, step, turns, file, image, bounds, cut>>

\* The second look: still pending, and not put off; it may be overdue.
Check ==
    /\ disp = "check"
    /\ IF record.status = "pending" /\ due
       THEN disp' \in {"fire", "expire"} /\ UNCHANGED <<due, same, held>>
       ELSE ToSleep
    /\ UNCHANGED <<record, step, turns, file, saving, image, bounds, history>>

Expire ==
    /\ disp = "expire"
    /\ IF record.status = "pending"
       THEN /\ record' = [record EXCEPT !.status = "cancelled"]
            /\ owed' = owed \ record.msgs
       ELSE UNCHANGED <<record, owed>>
    /\ ToSleep /\ Ask(Dispatcher)
    /\ UNCHANGED <<step, turns, file, image, bounds, cut>>

\* The third look: the status alone.
Fire ==
    /\ disp = "fire"
    /\ IF record.status = "pending"
       THEN /\ record' = [record EXCEPT !.status = "firing"]
            /\ disp' = "submit" /\ Ask(Dispatcher)
            /\ UNCHANGED <<due, same, held>>
       ELSE ToSleep /\ UNCHANGED <<record, saving>>
    /\ UNCHANGED <<step, turns, file, image, bounds, history>>

\* What the thread collected, read without the lock.
Collected == IF same THEN record ELSE held

\* The firing record is saved; its messages are given to a pass. (Of one that
\* fails within 50 ms the thread does what the done callback does, once more.)
Submit(p) ==
    /\ disp = "submit" /\ Quiet(Dispatcher)
    /\ step[p] = "idle"
    /\ Go(p, "wait")
    /\ pass' = [pass EXCEPT ![p] = [msgs |-> Collected.msgs, depth |-> Collected.depth + 1]]
    /\ ToSleep
    /\ UNCHANGED <<record, tried, absorbed, file, saving, image, bounds, history>>

\* The channel is not configured (any more), or the executor refuses: the
\* record is pending again, after a backoff.
SubmitFails ==
    /\ disp = "submit" /\ Quiet(Dispatcher)
    /\ failures < MaxFailures
    /\ failures' = failures + 1
    /\ record' = IF record.status = "firing" THEN [record EXCEPT !.status = "pending"]
                                             ELSE record
    /\ ToSleep /\ Ask(Dispatcher)
    /\ UNCHANGED <<step, turns, file, image, crashes, history>>

-------------------------------------------------------------------------------
\* The process dies and the next one loads the file. Batches it had in hand, or
\* buffers of records not in the file, are lost.
Crash ==
    /\ crashes < MaxCrashes
    /\ crashes' = crashes + 1
    /\ record' = IF file.status = "firing" THEN [file EXCEPT !.status = "pending"]
                                           ELSE file
    /\ ToSleep
    /\ step' = [w \in Workers |-> IF w \in Batches /\ step[w] # "idle"
                                  THEN "done" ELSE "idle"]
    /\ pass' = [p \in Passes |-> [msgs |-> {}, depth |-> 0]]
    /\ saving' = [s \in Savers |-> "no"]
    /\ image' = [s \in Savers |-> NoRecord]
    /\ cut' = FALSE /\ owed' = {}
    /\ UNCHANGED <<tried, absorbed, file, failures>>

-------------------------------------------------------------------------------
DispatchStep ==
    \/ Collect \/ Check \/ Expire \/ Fire
    \/ \E p \in Passes : Submit(p)
    \/ SubmitFails

BatchStep(b) ==
    \/ \E m \in b : AddMessage(b, m)
    \/ Absorbed(b) \/ PartlyAbsorbed(b)

Turn(w) == Enter(w) \/ Reply(w) \/ Defer(w) \/ Leave(w) \/ Raise(w)

Callback(p) == OnSuccess(p) \/ OnFailure(p)

SaveStep(s) == SaveBegin(s) \/ SaveEnd(s)

Next ==
    \/ \E b \in Batches : Arrive(b) \/ BatchStep(b)
    \/ \E w \in Workers : Turn(w)
    \/ \E p \in Passes : Callback(p)
    \/ DispatchStep
    \/ ExpireEarly
    \/ \E s \in Savers : SaveStep(s)
    \/ Crash

Spec == Init /\ [][Next]_vars

\* Threads run, agent turns and writes end, and the time of a record comes.
\* Nothing makes a message arrive, a record expire or the process die.
Fairness ==
    /\ WF_vars(DispatchStep)
    /\ \A b \in Batches : WF_vars(BatchStep(b))
    /\ \A w \in Workers : WF_vars(Turn(w))
    /\ \A p \in Passes : WF_vars(Callback(p))
    /\ \A s \in Savers : WF_vars(SaveStep(s))

FairSpec == Spec /\ Fairness

-------------------------------------------------------------------------------
(* Properties *)

\* max_depth "prevents infinite deferral loops": no record is put off at that
\* depth, and no pass runs beyond it, whichever turns defer into a record and
\* whatever a restart finds in the file.
DepthBounded ==
    /\ Live => record.depth < MaxDepth
    /\ \A p \in Passes : UnderWay(p) => pass[p].depth <= MaxDepth

\* While a pass is under way its messages stay in the record, so that a failure
\* is retried with all of them, and the chat has no second pass. (Until
\* handle_batch() cancels the record under it.)
RetryKeepsMessages ==
    ~cut => \A p \in Passes :
        UnderWay(p) => /\ record.status = "firing"
                       /\ pass[p].msgs \subseteq record.msgs
                       /\ \A q \in Passes : UnderWay(q) => q = p

\* A firing record is in somebody's hands, even after cancellations and
\* restarts: otherwise it would take in the messages of the chat for good.
FiringIsWorkedOn ==
    record.status = "firing" => disp = "submit" \/ \E p \in Passes : UnderWay(p)

\* A chat does not stay put off: as long as it is, its messages go to the record
\* and none is answered.
ChatIsReleased == Live ~> ~Live

\* "Messages arriving during a deferral are coalesced with the original batch
\* and re-processed together when the timer fires" (CONFIGURATION.md): a message
\* that was put off, and has neither been answered nor expired, is in the
\* record or in a pass.
OwedIsKept ==
    owed \subseteq (IF Live THEN record.msgs ELSE {})
                   \cup UNION {pass[p].msgs : p \in {q \in Passes : UnderWay(q)}}
===============================================================================
