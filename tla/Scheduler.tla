------------------------------ MODULE Scheduler ------------------------------
(***************************************************************************)
(* MessageScheduler of cogtrix_core/assistant/scheduler.py: replies queued *)
(* for later delivery, a dispatch thread that sends the due ones with      *)
(* retries, and a JSON file that is rewritten as a whole after each change.*)
(*                                                                         *)
(* The tools of the agent (schedule, edit, cancel) run on other threads.   *)
(* Each step below is one critical section of `_lock`, the call of the     *)
(* channel, or one half of save(): the snapshot and the write.             *)
(*                                                                         *)
(* Abstracted: texts and chats; times, of which only "send_at has passed"  *)
(* is kept; the two-hour and 24-hour thresholds (any overdue message may   *)
(* be stale at a restart, any terminal one old enough to drop); a failing  *)
(* write of the file.                                                      *)
(***************************************************************************)
EXTENDS Naturals, FiniteSets

CONSTANTS
    Messages,       \* the ids of scheduled messages
    MaxAttempts,    \* max_attempts
    MaxCrashes,     \* bound: deaths of the process
    MaxPostponed    \* bound: edits, and deferrals by quiet hours

ASSUME SchedulerAssumption ==
    /\ MaxAttempts \in Nat \ {0}
    /\ MaxCrashes \in Nat
    /\ MaxPostponed \in Nat
    /\ "dispatch" \notin Messages

Terminal == {"sent", "cancelled", "failed", "expired"}
\* "gone": dropped by the cleanup, or lost in a crash before it was saved.
Statuses == {"absent", "pending", "sending", "gone"} \cup Terminal

Records == [status : Statuses, attempts : 0 .. MaxAttempts]
Queue   == [Messages -> Records]

Dispatcher == "dispatch"
Savers == Messages \cup {Dispatcher}   \* a call about a message, or the thread

VARIABLES
    rec,        \* _queue
    due,        \* send_at <= now, of a pending message
    file,       \* what the JSON file holds
    saving,     \* save() of each saver: "no", "asked" or "writing"
    image,      \* the snapshot a writing saver took
    disp,       \* the dispatch thread
    batch,      \* the due messages it has collected and not yet handled
    current,    \* those it is sending: one or none
    crashes,    \* how often the process died
    postponed,  \* how often a message was postponed
    cancelling, \* history: messages whose cancel_message() has not returned
    acked,      \* history: those for which it returned True
    sends       \* history: calls of channel.send() for each message

vars == <<rec, due, file, saving, image, disp, batch, current, crashes,
          postponed, cancelling, acked, sends>>

Nothing == [m \in Messages |-> [status |-> "absent", attempts |-> 0]]

TypeOK ==
    /\ rec \in Queue /\ file \in Queue
    /\ due \in [Messages -> BOOLEAN]
    /\ saving \in [Savers -> {"no", "asked", "writing"}]
    /\ image \in [Savers -> Queue]
    \* "closing": the save after the batch, or after the cleanup
    /\ disp \in {"idle", "batch", "sending", "saving", "closing"}
    /\ batch \in SUBSET Messages /\ current \in SUBSET Messages
    /\ crashes \in 0 .. MaxCrashes
    /\ postponed \in 0 .. MaxPostponed
    /\ cancelling \in SUBSET Messages /\ acked \in SUBSET Messages
    /\ sends \in [Messages -> Nat]

Init ==
    /\ rec = Nothing
    /\ due = [m \in Messages |-> FALSE]
    /\ file = Nothing
    /\ saving = [s \in Savers |-> "no"]
    /\ image = [s \in Savers |-> Nothing]
    /\ disp = "idle" /\ batch = {} /\ current = {}
    /\ crashes = 0 /\ postponed = 0
    /\ cancelling = {} /\ acked = {}
    /\ sends = [m \in Messages |-> 0]

history    == <<cancelling, acked, sends>>
bounds     == <<crashes, postponed>>
dispatcher == <<disp, batch, current>>

Status(m) == rec[m].status
\* Only a pending message has a time that matters.
SetStatus(ms, s) ==
    /\ rec' = [m \in Messages |-> IF m \in ms THEN [rec[m] EXCEPT !.status = s]
                                              ELSE rec[m]]
    /\ due' = [m \in Messages |-> m \notin ms /\ due[m]]

\* save() is called once the critical section is left.
Ask(s) == saving' = [saving EXCEPT ![s] = "asked"]
Free(m) == saving[m] = "no"            \* bound: one call about m at a time

-------------------------------------------------------------------------------
(* save() *)

\* Mutant: the snapshot is taken before the lock of the file is.
SaveBeginUnlocked(s) ==
    /\ saving[s] = "asked"
    /\ saving' = [saving EXCEPT ![s] = "writing"]
    /\ image' = [image EXCEPT ![s] = rec]
    /\ UNCHANGED <<rec, due, file, dispatcher, bounds, history>>

\* _save_lock is taken, then the queue is copied under _lock.
SaveBegin(s) ==
    /\ saving[s] = "asked"
    /\ \A q \in Savers : saving[q] # "writing"
    /\ saving' = [saving EXCEPT ![s] = "writing"]
    /\ image' = [image EXCEPT ![s] = rec]
    /\ UNCHANGED <<rec, due, file, dispatcher, bounds, history>>

\* The file is replaced. A call returns to its caller, the dispatch thread to
\* its batch or to its sleep.
SaveEnd(s) ==
    /\ saving[s] = "writing"
    /\ file' = image[s]
    /\ saving' = [saving EXCEPT ![s] = "no"]
    /\ image' = [image EXCEPT ![s] = Nothing]
    /\ disp' = IF s # Dispatcher THEN disp
               ELSE IF disp = "saving" THEN "batch" ELSE "idle"
    /\ acked' = acked \cup (cancelling \cap {s})
    /\ cancelling' = cancelling \ {s}
    /\ UNCHANGED <<rec, due, batch, current, bounds, sends>>

-------------------------------------------------------------------------------
(* Calls of the agent's tools *)

\* schedule(): a new message, due at once or later.
Schedule(m) ==
    /\ Status(m) = "absent" /\ Free(m)
    /\ rec' = [rec EXCEPT ![m].status = "pending"]
    /\ \E now \in BOOLEAN : due' = [due EXCEPT ![m] = now]
    /\ Ask(m)
    /\ UNCHANGED <<file, image, dispatcher, bounds, history>>

\* edit_message() with a new time, in the future.
Edit(m) ==
    /\ Status(m) = "pending" /\ Free(m)
    /\ postponed < MaxPostponed
    /\ postponed' = postponed + 1
    /\ due' = [due EXCEPT ![m] = FALSE]
    /\ Ask(m)
    /\ UNCHANGED <<rec, file, image, dispatcher, crashes, history>>

CancelMessage(m) ==
    /\ Status(m) = "pending" /\ Free(m)
    /\ SetStatus({m}, "cancelled")
    /\ cancelling' = cancelling \cup {m}
    /\ Ask(m)
    /\ UNCHANGED <<file, image, dispatcher, bounds, acked, sends>>

\* cancel_pending() for the chat of m, whose messages are `chat`: also those in
\* flight.
CancelPending(m) ==
    /\ Free(m)
    /\ \E chat \in SUBSET Messages :
          LET live == {c \in chat : Status(c) \in {"pending", "sending"}}
          IN  /\ m \in live
              /\ SetStatus(live, "cancelled")
    /\ Ask(m)
    /\ UNCHANGED <<file, image, dispatcher, bounds, history>>

\* The time of a message comes.
Tick(m) ==
    /\ Status(m) = "pending" /\ ~due[m]
    /\ due' = [due EXCEPT ![m] = TRUE]
    /\ UNCHANGED <<rec, file, saving, image, dispatcher, bounds, history>>

-------------------------------------------------------------------------------
(* The dispatch thread *)

Collect ==
    /\ disp = "idle"
    /\ batch' = {m \in Messages : Status(m) = "pending" /\ due[m]}
    /\ disp' = IF batch' = {} THEN "idle" ELSE "batch"
    /\ UNCHANGED <<rec, due, file, saving, image, current, bounds, history>>

\* Quiet hours: a message that is still pending is postponed to their end.
Defer(m) ==
    /\ disp = "batch" /\ m \in batch
    /\ batch' = batch \ {m}
    /\ IF Status(m) = "pending"
       THEN /\ postponed < MaxPostponed
            /\ postponed' = postponed + 1
            /\ due' = [due EXCEPT ![m] = FALSE]
       ELSE UNCHANGED <<postponed, due>>
    /\ disp' = "saving" /\ Ask(Dispatcher)
    /\ UNCHANGED <<rec, file, image, current, crashes, history>>

\* No longer pending, or removed: not sent.
Skip(m) ==
    /\ disp = "batch" /\ m \in batch
    /\ Status(m) # "pending"
    /\ batch' = batch \ {m}
    /\ UNCHANGED <<rec, due, file, saving, image, disp, current, bounds, history>>

\* Mutant: the status is not checked again before the message is sent.
SendUnchecked(m) ==
    /\ disp = "batch" /\ m \in batch
    /\ SetStatus({m}, "sending")
    /\ batch' = batch \ {m}
    /\ disp' = "sending" /\ current' = {m}
    /\ sends' = [sends EXCEPT ![m] = @ + 1]
    /\ UNCHANGED <<file, saving, image, bounds, cancelling, acked>>

\* "sending" is set and channel.send() is called.
Send(m) ==
    /\ disp = "batch" /\ m \in batch
    /\ Status(m) = "pending"
    /\ SetStatus({m}, "sending")
    /\ batch' = batch \ {m}
    /\ disp' = "sending" /\ current' = {m}
    /\ sends' = [sends EXCEPT ![m] = @ + 1]
    /\ UNCHANGED <<file, saving, image, bounds, cancelling, acked>>

\* "sending" is set, and the channel turns out not to exist: nothing is sent,
\* and the save after the batch writes the failure. (The two critical sections
\* are one step: between them only a cancel_pending() could tell.)
NoChannel(m) ==
    /\ disp = "batch" /\ m \in batch
    /\ Status(m) = "pending"
    /\ SetStatus({m}, "failed")
    /\ batch' = batch \ {m}
    /\ UNCHANGED <<file, saving, image, disp, current, bounds, history>>

\* What the bookkeeping makes of a message after one more attempt.
Outcome(tried, ok) ==
    IF ok THEN "sent" ELSE IF tried >= MaxAttempts THEN "failed" ELSE "pending"

\* Mutant: the counter of attempts is only advanced by a success.
SettleFreeRetry(m, ok) ==
    /\ disp = "sending" /\ m \in current
    /\ Status(m) # "cancelled"
    /\ rec' = [rec EXCEPT ![m].status = Outcome(rec[m].attempts + 1, ok),
                          ![m].attempts = IF ok THEN @ + 1 ELSE @]
    /\ disp' = "saving" /\ current' = {} /\ Ask(Dispatcher)
    /\ UNCHANGED <<due, file, image, batch, bounds, history>>

\* Mutant: a retry is left "sending", which the dispatch never looks at.
SettleLeavesSending(m, ok) ==
    /\ disp = "sending" /\ m \in current
    /\ Status(m) # "cancelled"
    /\ LET tried == rec[m].attempts + 1
           out   == Outcome(tried, ok)
       IN  rec' = [rec EXCEPT ![m] =
                      [status |-> IF out = "pending" THEN "sending" ELSE out,
                       attempts |-> tried]]
    /\ disp' = "saving" /\ current' = {} /\ Ask(Dispatcher)
    /\ UNCHANGED <<due, file, image, batch, bounds, history>>

\* channel.send() returns. A retry is due after a backoff.
Settle(m, ok) ==
    /\ disp = "sending" /\ m \in current
    /\ Status(m) # "cancelled"
    /\ LET tried == rec[m].attempts + 1
       IN  rec' = [rec EXCEPT ![m] = [status |-> Outcome(tried, ok),
                                      attempts |-> tried]]
    /\ disp' = "saving" /\ current' = {} /\ Ask(Dispatcher)
    /\ UNCHANGED <<due, file, image, batch, bounds, history>>

\* It was cancelled meanwhile: nothing is counted and nothing is saved here.
SettleCancelled(m) ==
    /\ disp = "sending" /\ m \in current
    /\ Status(m) = "cancelled"
    /\ disp' = "batch" /\ current' = {}
    /\ UNCHANGED <<rec, due, file, saving, image, batch, bounds, history>>

BatchDone ==
    /\ disp = "batch" /\ batch = {}
    /\ disp' = "closing" /\ Ask(Dispatcher)
    /\ UNCHANGED <<rec, due, file, image, batch, current, bounds, history>>

\* _cleanup_old(), at the end of a pass.
Cleanup ==
    /\ disp = "idle"
    /\ \E old \in SUBSET {m \in Messages : Status(m) \in Terminal} :
          old # {} /\ SetStatus(old, "gone")
    /\ disp' = "closing" /\ Ask(Dispatcher)
    /\ UNCHANGED <<file, image, batch, current, bounds, history>>

-------------------------------------------------------------------------------
(* The process dies, and the next one loads the file *)

\* _load(): what was being sent is pending again; what is not in the file, lost.
Loaded(m) ==
    CASE file[m].status = "sending" -> [file[m] EXCEPT !.status = "pending"]
      [] file[m].status = "absent" /\ Status(m) # "absent" ->
            [file[m] EXCEPT !.status = "gone"]
      [] OTHER -> file[m]

\* The time that passed makes any pending message due; those long overdue expire,
\* and only then the file is written.
Crash ==
    /\ crashes < MaxCrashes
    /\ crashes' = crashes + 1
    /\ \E late, stale \in SUBSET {m \in Messages : Loaded(m).status = "pending"} :
          /\ stale \cap late = {}
          /\ rec' = [m \in Messages |->
                        IF m \in stale THEN [Loaded(m) EXCEPT !.status = "expired"]
                        ELSE Loaded(m)]
          /\ due' = [m \in Messages |-> m \in late]
          /\ file' = IF stale = {} THEN file ELSE rec'
    /\ saving' = [s \in Savers |-> "no"]
    /\ image' = [s \in Savers |-> Nothing]
    /\ disp' = "idle" /\ batch' = {} /\ current' = {}
    /\ cancelling' = {}
    /\ UNCHANGED <<postponed, acked, sends>>

-------------------------------------------------------------------------------
DispatchStep ==
    \/ Collect \/ BatchDone
    \/ \E m \in Messages :
          \/ Defer(m) \/ Skip(m) \/ Send(m) \/ NoChannel(m)
          \/ SettleCancelled(m)
          \/ \E ok \in BOOLEAN : Settle(m, ok)

SaveStep(s) == SaveBegin(s) \/ SaveEnd(s)

Next ==
    \/ \E m \in Messages :
          \/ Schedule(m) \/ Edit(m) \/ CancelMessage(m) \/ CancelPending(m)
          \/ Tick(m)
    \/ DispatchStep
    \/ \E s \in Savers : SaveStep(s)
    \/ Cleanup
    \/ Crash

Spec == Init /\ [][Next]_vars

\* The dispatch thread runs on, a save that was begun or asked for is carried
\* out, and time passes. Nothing makes an agent call a tool, the cleanup find
\* anything, or the process die.
Fairness ==
    /\ WF_vars(DispatchStep)
    /\ \A s \in Savers : WF_vars(SaveStep(s))
    /\ \A m \in Messages : WF_vars(Tick(m))

FairSpec == Spec /\ Fairness

-------------------------------------------------------------------------------
(* Properties *)

\* Once cancel_message() has answered True (the tool says the message will not
\* be delivered), channel.send() is never called for the message again: not by
\* a batch collected earlier, not after a restart from the file.
CancelHolds == [][\A m \in acked : sends'[m] = sends[m]]_vars

\* channel.send() is called at most max_attempts times for a message, plus once
\* for each death of the process: what was counted survives a restart, because
\* the outcome of a send is saved before the next one (ARCH-301).
AttemptsBounded == \A m \in Messages : sends[m] <= MaxAttempts + crashes

\* When nobody saves and the dispatch thread sleeps, the file holds the queue:
\* no later write carried an older snapshot and no change went unsaved. A
\* message found in flight at a restart counts as pending.
Recovered(q) ==
    [m \in Messages |->
        CASE q[m].status = "sending" -> [q[m] EXCEPT !.status = "pending"]
          [] q[m].status = "gone"    -> Nothing[m]
          [] OTHER                   -> q[m]]

SavedWhenQuiet ==
    (disp = "idle" /\ \A s \in Savers : saving[s] = "no")
        => Recovered(file) = Recovered(rec)

\* Every message that is waiting is sent, given up or cancelled in the end,
\* whatever fails, is postponed or is restarted on the way.
MessagesSettle ==
    \A m \in Messages :
        (Status(m) = "pending") ~> (Status(m) \in Terminal \cup {"gone"})
===============================================================================
