--------------------------- MODULE SchedulerProofs ---------------------------
(***************************************************************************)
(* Proofs about Scheduler, for any messages, any max_attempts, any number  *)
(* of crashes and of postponements.                                        *)
(*                                                                         *)
(* AttemptsBounded is not inductive: how often a message may still be sent *)
(* depends on the attempts recorded in memory and, should the process die, *)
(* on those in the file.  SendInv bounds the sends of a message by each of *)
(* the records that may still come to count: one in memory, one in the     *)
(* file, one in each snapshot on its way there.  A record may be one       *)
(* attempt behind, for the message in flight or being saved; a message     *)
(* that can be sent now has records that are not.                          *)
(*                                                                         *)
(* CancelInv and SaveInv, below, are the invariants for the cancellations  *)
(* (where a record of a cancelled message may still lie) and for the saves *)
(* (that a change in memory has a save to come, or is in the file).        *)
(***************************************************************************)
EXTENDS Scheduler, TLAPS

\* The statuses from which a message may yet be sent, after a restart at least.
Live == {"absent", "pending", "sending"}
Waiting(m) == Status(m) \in {"absent", "pending"}

\* The record r of message m, if it comes to count, is at most k sends behind.
Behind(r, m, k) ==
    r.status \in Live =>
        /\ r.attempts < MaxAttempts
        /\ sends[m] <= r.attempts + crashes + k

\* In memory a message is behind only while it is in flight, and that is one.
InFlight ==
    \A m \in Messages :
        /\ Status(m) = "sending" => disp = "sending" /\ current = {m}
        /\ disp = "sending" /\ m \in current => Status(m) \in {"sending", "cancelled"}
        /\ Behind(rec[m], m, IF Status(m) = "sending" THEN 1 ELSE 0)

OneWriter ==
    /\ \A s, q \in Savers : saving[s] = "writing" /\ saving[q] = "writing" => s = q
    /\ saving[Dispatcher] # "no" => disp \in {"saving", "closing"}

\* What the file holds, or will hold when s has written it.
Copies(m) == {file[m]} \cup {image[s][m] : s \in {q \in Savers : saving[q] = "writing"}}

Saved ==
    \A m \in Messages :
        /\ \A r \in Copies(m) : Behind(r, m, 1)
        /\ Waiting(m) /\ disp # "saving" => \A r \in Copies(m) : Behind(r, m, 0)
        /\ Waiting(m) /\ saving[Dispatcher] = "writing" => Behind(image[Dispatcher][m], m, 0)

SendInv == AttemptsBounded /\ InFlight /\ OneWriter /\ Saved

-------------------------------------------------------------------------------
\* What a record of the queue is made of.
LEMMA RecordTypes ==
    ASSUME NEW q \in Queue, NEW m \in Messages
    PROVE  /\ q[m] \in Records
           /\ q[m].status \in Statuses
           /\ q[m].attempts \in 0 .. MaxAttempts
           /\ q[m].attempts \in Nat
  BY SchedulerAssumption DEF Queue, Records

\* Records with another status, or another number of attempts, are records.
LEMMA StatusTyped ==
    ASSUME TypeOK, NEW s \in Statuses, NEW ms \in SUBSET Messages, SetStatus(ms, s)
    PROVE  rec' \in Queue /\ due' \in [Messages -> BOOLEAN]
  BY DEF TypeOK, SetStatus, Queue, Records

\* Type correctness is kept by each step; that the attempts stay within
\* max_attempts takes SendInv.
LEMMA TypeStep == TypeOK /\ SendInv /\ [Next]_vars => TypeOK'
<1> SUFFICES ASSUME TypeOK, SendInv, [Next]_vars PROVE TypeOK'
  OBVIOUS
<1> USE SchedulerAssumption
<1>1. Nothing \in Queue
  BY DEF Nothing, Queue, Records, Statuses
<1>2. ASSUME NEW s \in Savers, SaveBegin(s) PROVE TypeOK'
  BY <1>2 DEF SaveBegin, TypeOK, dispatcher, bounds, history
<1>3. ASSUME NEW s \in Savers, SaveEnd(s) PROVE TypeOK'
  BY <1>1, <1>3 DEF SaveEnd, TypeOK, bounds
<1>4. ASSUME NEW m \in Messages, Schedule(m) PROVE TypeOK'
  <2>1. [rec[m] EXCEPT !.status = "pending"] \in Records
    BY DEF TypeOK, Queue, Records, Statuses
  <2>2. rec' \in Queue
    BY <1>4, <2>1 DEF Schedule, TypeOK, Queue
  <2> QED
    BY <1>4, <2>2 DEF Schedule, Ask, Savers, TypeOK, dispatcher, bounds, history
<1>5. ASSUME NEW m \in Messages, Edit(m) PROVE TypeOK'
  BY <1>5 DEF Edit, Ask, Savers, TypeOK, dispatcher, history
<1>6. ASSUME NEW m \in Messages, CancelMessage(m) PROVE TypeOK'
  BY <1>6, StatusTyped DEF CancelMessage, Ask, Savers, TypeOK, dispatcher, bounds,
     Statuses, Terminal
<1>7. ASSUME NEW m \in Messages, CancelPending(m) PROVE TypeOK'
  <2>1. PICK chat \in SUBSET Messages :
           SetStatus({c \in chat : Status(c) \in {"pending", "sending"}}, "cancelled")
    BY <1>7 DEF CancelPending
  <2>2. rec' \in Queue /\ due' \in [Messages -> BOOLEAN]
    BY <2>1, StatusTyped DEF Statuses, Terminal
  <2> QED
    BY <1>7, <2>2 DEF CancelPending, Ask, Savers, TypeOK, dispatcher, bounds, history
<1>8. ASSUME NEW m \in Messages, Tick(m) PROVE TypeOK'
  BY <1>8 DEF Tick, TypeOK, dispatcher, bounds, history
<1>9. ASSUME Collect PROVE TypeOK'
  BY <1>9 DEF Collect, TypeOK, bounds, history
<1>10. ASSUME BatchDone PROVE TypeOK'
  BY <1>10 DEF BatchDone, Ask, Savers, TypeOK, bounds, history
<1>11. ASSUME NEW m \in Messages, Defer(m) PROVE TypeOK'
  <2>1. due' \in [Messages -> BOOLEAN] /\ postponed' \in 0 .. MaxPostponed
    <3>1. CASE Status(m) = "pending"
      <4>1. /\ postponed < MaxPostponed /\ postponed' = postponed + 1
            /\ due' = [due EXCEPT ![m] = FALSE]
        BY <1>11, <3>1 DEF Defer
      <4> QED
        BY <4>1 DEF TypeOK
    <3>2. CASE Status(m) # "pending"
      BY <1>11, <3>2 DEF Defer, TypeOK
    <3> QED
      BY <3>1, <3>2
  <2>2. batch' \in SUBSET Messages /\ disp' = "saving"
    BY <1>11 DEF Defer, TypeOK
  <2>3. saving' \in [Savers -> {"no", "asked", "writing"}]
    BY <1>11 DEF Defer, Ask, Savers, TypeOK
  <2> QED
    BY <1>11, <2>1, <2>2, <2>3 DEF Defer, TypeOK, history
<1>12. ASSUME NEW m \in Messages, Skip(m) PROVE TypeOK'
  BY <1>12 DEF Skip, TypeOK, bounds, history
<1>13. ASSUME NEW m \in Messages, Send(m) PROVE TypeOK'
  <2>1. rec' \in Queue /\ due' \in [Messages -> BOOLEAN]
    BY <1>13, StatusTyped DEF Send, Statuses
  <2>2. sends' \in [Messages -> Nat]
    BY <1>13 DEF Send, TypeOK
  <2> QED
    BY <1>13, <2>1, <2>2 DEF Send, TypeOK, bounds
<1>14. ASSUME NEW m \in Messages, NoChannel(m) PROVE TypeOK'
  BY <1>14, StatusTyped DEF NoChannel, TypeOK, bounds, history, Statuses, Terminal
<1>15. ASSUME NEW m \in Messages, SettleCancelled(m) PROVE TypeOK'
  BY <1>15 DEF SettleCancelled, TypeOK, bounds, history
<1>16. ASSUME NEW m \in Messages, NEW ok \in BOOLEAN, Settle(m, ok) PROVE TypeOK'
  <2>1. rec[m].attempts < MaxAttempts
    BY <1>16 DEF Settle, SendInv, InFlight, Behind, Live, Status
  <2>2. rec[m].attempts + 1 \in 0 .. MaxAttempts
    BY <2>1, RecordTypes DEF TypeOK
  <2>3. rec' \in Queue
    BY <1>16, <2>2 DEF Settle, Outcome, TypeOK, Queue, Records, Statuses, Terminal
  <2> QED
    BY <1>16, <2>3 DEF Settle, Ask, Savers, TypeOK, bounds, history
<1>17. ASSUME Cleanup PROVE TypeOK'
  <2>1. rec' \in Queue /\ due' \in [Messages -> BOOLEAN]
    BY <1>17, StatusTyped DEF Cleanup, Statuses
  <2> QED
    BY <1>17, <2>1 DEF Cleanup, Ask, Savers, TypeOK, bounds, history
<1>18. ASSUME Crash PROVE TypeOK'
  <2>1. \A m \in Messages : Loaded(m) \in Records
    BY DEF Loaded, TypeOK, Queue, Records, Statuses
  <2>2. rec' \in Queue
    BY <1>18, <2>1 DEF Crash, Queue, Records, Statuses, Terminal
  <2> QED
    BY <1>1, <1>18, <2>2 DEF Crash, TypeOK
<1>19. CASE UNCHANGED vars
  BY <1>19 DEF vars, TypeOK
<1> QED
  BY <1>2, <1>3, <1>4, <1>5, <1>6, <1>7, <1>8, <1>9, <1>10, <1>11, <1>12, <1>13,
     <1>14, <1>15, <1>16, <1>17, <1>18, <1>19 DEF Next, DispatchStep, SaveStep

-------------------------------------------------------------------------------
\* What may reach the file changes only when a save begins or ends.
LEMMA CopiesSame ==
    ASSUME UNCHANGED <<file, image>>,
           \A s \in Savers : saving'[s] = "writing" <=> saving[s] = "writing",
           NEW m \in Messages
    PROVE  Copies(m)' = Copies(m)
  BY DEF Copies

\* A record in memory that a step leaves alone, inserts, or takes out of play.
Harmless(m) ==
    \/ rec'[m] = rec[m]
    \/ Status(m) = "absent" /\ rec'[m] = [rec[m] EXCEPT !.status = "pending"]
    \/ rec'[m].status \in Terminal \cup {"gone"}

\* The calls of the tools, and the clock: they insert or cancel, and ask for a save.
LEMMA ToolStep ==
    ASSUME TypeOK, SendInv,
           UNCHANGED <<file, image, disp, current, sends, crashes>>,
           saving' = saving \/ \E c \in Messages : saving' = [saving EXCEPT ![c] = "asked"] /\ Free(c),
           \A m \in Messages : Harmless(m),
           \A m \in Messages : Status(m) = "sending"
              => rec'[m] = rec[m] \/ rec'[m].status = "cancelled",
           \A m \in Messages : Status(m) = "cancelled" => rec'[m] = rec[m]
    PROVE  SendInv'
<1> USE SchedulerAssumption
<1>1. /\ \A s \in Savers : saving'[s] = "writing" <=> saving[s] = "writing"
      /\ saving'[Dispatcher] = saving[Dispatcher]
  BY DEF TypeOK, Savers, Dispatcher, Free
<1>2. \A m \in Messages : Copies(m)' = Copies(m)
  BY <1>1, CopiesSame
<1>3. \A m \in Messages : Waiting(m)' => Waiting(m)
  BY DEF Harmless, Waiting, Status, Terminal
<1>4. AttemptsBounded'
  BY DEF SendInv, AttemptsBounded
<1>5. InFlight'
  <2> SUFFICES ASSUME NEW m \in Messages
               PROVE  /\ Status(m)' = "sending" => disp = "sending" /\ current = {m}
                      /\ disp = "sending" /\ m \in current
                            => Status(m)' \in {"sending", "cancelled"}
                      /\ Behind(rec[m], m, IF Status(m) = "sending" THEN 1 ELSE 0)'
    BY DEF InFlight
  <2>1. Harmless(m)
    OBVIOUS
  <2>2. CASE rec'[m] = rec[m]
    BY <2>2 DEF SendInv, InFlight, Behind, Status
  <2>3. CASE Status(m) = "absent" /\ rec'[m] = [rec[m] EXCEPT !.status = "pending"]
    BY <2>3, RecordTypes DEF SendInv, InFlight, Behind, Status, Live, TypeOK, Records
  <2>4. CASE rec'[m].status \in Terminal \cup {"gone"}
    BY <2>4 DEF SendInv, InFlight, Behind, Status, Live, Terminal
  <2> QED
    BY <2>1, <2>2, <2>3, <2>4 DEF Harmless
<1>6. OneWriter'
  BY <1>1 DEF SendInv, OneWriter
<1>7. Saved'
  BY <1>1, <1>2, <1>3 DEF SendInv, Saved, Behind
<1> QED
  BY <1>4, <1>5, <1>6, <1>7 DEF SendInv

\* The dispatch thread between its sends: nothing is in flight.
LEMMA PauseStep ==
    ASSUME TypeOK, SendInv,
           disp \in {"idle", "batch", "sending"}, disp' # "sending",
           UNCHANGED <<file, image, sends, crashes>>,
           \/ saving' = saving
           \/ saving' = [saving EXCEPT ![Dispatcher] = "asked"] /\ disp' \in {"saving", "closing"},
           \A m \in Messages : Status(m) # "sending",
           \A m \in Messages : rec'[m] = rec[m] \/ rec'[m].status \in {"failed", "gone"}
    PROVE  SendInv'
<1> USE SchedulerAssumption
<1>1. saving[Dispatcher] = "no"
  BY DEF SendInv, OneWriter, TypeOK, Savers
<1>2. /\ \A s \in Savers : saving'[s] = "writing" <=> saving[s] = "writing"
      /\ saving'[Dispatcher] # "writing"
      /\ saving'[Dispatcher] # "no" => disp' \in {"saving", "closing"}
  BY <1>1 DEF TypeOK, Savers
<1>3. \A m \in Messages : Copies(m)' = Copies(m)
  BY <1>2, CopiesSame
<1>4. \A m \in Messages : Waiting(m)' => Waiting(m)
  BY DEF Waiting, Status
<1>5. AttemptsBounded'
  BY DEF SendInv, AttemptsBounded
<1>6. InFlight'
  BY DEF SendInv, InFlight, Behind, Status, Live
<1>7. OneWriter'
  BY <1>2 DEF SendInv, OneWriter
<1>8. Saved'
  BY <1>2, <1>3, <1>4 DEF SendInv, Saved, Behind
<1> QED
  BY <1>5, <1>6, <1>7, <1>8 DEF SendInv

-------------------------------------------------------------------------------
\* SendInv is kept by each step: the file is written, a send begins or ends, or
\* the process dies; the rest are steps of the two lemmas.
LEMMA SendStep == TypeOK /\ SendInv /\ [Next]_vars => SendInv'
<1> SUFFICES ASSUME TypeOK, SendInv, [Next]_vars PROVE SendInv'
  OBVIOUS
<1> USE SchedulerAssumption
<1>1. ASSUME NEW s \in Savers, SaveBegin(s) PROVE SendInv'
  <2>1. /\ saving[s] = "asked" /\ \A q \in Savers : saving[q] # "writing"
        /\ saving' = [saving EXCEPT ![s] = "writing"]
        /\ image' = [image EXCEPT ![s] = rec]
        /\ UNCHANGED <<rec, file, disp, batch, current, crashes, sends>>
    BY <1>1 DEF SaveBegin, dispatcher, bounds, history
  <2>2. \A q \in Savers : saving'[q] = "writing" <=> q = s
    BY <2>1 DEF TypeOK
  <2>3. AttemptsBounded' /\ InFlight'
    BY <2>1 DEF SendInv, AttemptsBounded, InFlight, Behind, Status
  <2>4. OneWriter'
    BY <2>1, <2>2 DEF SendInv, OneWriter, TypeOK
  <2>5. ASSUME NEW m \in Messages PROVE Copies(m)' = {file[m], rec[m]}
    BY <2>1, <2>2, <2>5 DEF Copies, TypeOK
  <2>6. Saved'
    <3>1. saving'[Dispatcher] = "writing" => image'[Dispatcher] = rec
      BY <2>1, <2>2 DEF TypeOK, Savers
    <3> SUFFICES ASSUME NEW m \in Messages
                 PROVE  /\ Behind(file[m], m, 1) /\ Behind(rec[m], m, 1)
                        /\ Waiting(m) => Behind(rec[m], m, 0)
                        /\ Waiting(m) /\ disp # "saving" => Behind(file[m], m, 0)
      BY <2>1, <2>5, <3>1 DEF Saved, Behind, Waiting, Status
    <3>2. file[m] \in Copies(m)
      BY DEF Copies
    <3>3. /\ Behind(rec[m], m, 1)
          /\ Waiting(m) => Behind(rec[m], m, 0)
      BY RecordTypes DEF SendInv, InFlight, Behind, Waiting, TypeOK
    <3> QED
      BY <3>2, <3>3 DEF SendInv, Saved
  <2> QED
    BY <2>3, <2>4, <2>6 DEF SendInv
<1>2. ASSUME NEW s \in Savers, SaveEnd(s) PROVE SendInv'
  <2>1. /\ saving[s] = "writing"
        /\ file' = image[s]
        /\ saving' = [saving EXCEPT ![s] = "no"]
        /\ image' = [image EXCEPT ![s] = Nothing]
        /\ disp' = IF s # Dispatcher THEN disp
                   ELSE IF disp = "saving" THEN "batch" ELSE "idle"
        /\ UNCHANGED <<rec, current, crashes, sends>>
    BY <1>2 DEF SaveEnd, bounds
  <2>2. \A q \in Savers : saving'[q] # "writing"
    BY <2>1 DEF SendInv, OneWriter, TypeOK
  <2>3. saving'[Dispatcher] # "no" => s # Dispatcher /\ saving[Dispatcher] # "no"
    BY <2>1 DEF TypeOK, Savers
  <2>4. disp' = disp \/ (s = Dispatcher /\ disp # "sending" /\ disp' \in {"batch", "idle"})
    BY <2>1 DEF SendInv, OneWriter
  <2>5. AttemptsBounded'
    BY <2>1 DEF SendInv, AttemptsBounded
  <2>6. InFlight'
    BY <2>1, <2>4 DEF SendInv, InFlight, Behind, Status
  <2>7. OneWriter'
    BY <2>1, <2>2, <2>3 DEF SendInv, OneWriter
  <2>8. ASSUME NEW m \in Messages PROVE Copies(m)' = {image[s][m]}
    BY <2>1, <2>2 DEF Copies
  <2>9. Saved'
    <3> SUFFICES ASSUME NEW m \in Messages
                 PROVE  /\ Behind(image[s][m], m, 1)
                        /\ Waiting(m) /\ disp' # "saving" => Behind(image[s][m], m, 0)
      BY <2>1, <2>2, <2>8 DEF Saved, Behind, Waiting, Status, Savers
    <3>1. image[s][m] \in Copies(m)
      BY <2>1 DEF Copies
    <3>2. CASE s = Dispatcher
      BY <2>1, <3>1, <3>2 DEF SendInv, Saved
    <3>3. CASE s # Dispatcher
      BY <2>1, <3>1, <3>3 DEF SendInv, Saved
    <3> QED
      BY <3>2, <3>3
  <2> QED
    BY <2>5, <2>6, <2>7, <2>9 DEF SendInv
<1>3. ASSUME NEW m \in Messages, Schedule(m) PROVE SendInv'
  <2>1. \A n \in Messages : Harmless(n)
    BY <1>3 DEF Schedule, Harmless, TypeOK, Queue, Records
  <2>2. \A n \in Messages : Status(n) # "absent" => rec'[n] = rec[n]
    BY <1>3 DEF Schedule, TypeOK, Queue
  <2> QED
    BY <1>3, <2>1, <2>2, ToolStep DEF Schedule, Ask, dispatcher, bounds, history
<1>4. ASSUME NEW m \in Messages, Edit(m) PROVE SendInv'
  BY <1>4, ToolStep DEF Edit, Ask, Harmless, dispatcher, history
<1>5. ASSUME NEW m \in Messages, CancelMessage(m) PROVE SendInv'
  <2>1. \A n \in Messages : \/ rec'[n] = rec[n]
                            \/ Status(n) = "pending" /\ rec'[n].status = "cancelled"
    BY <1>5 DEF CancelMessage, SetStatus, TypeOK, Queue, Records
  <2> QED
    BY <1>5, <2>1, ToolStep DEF CancelMessage, Ask, Harmless, Terminal, dispatcher, bounds
<1>6. ASSUME NEW m \in Messages, CancelPending(m) PROVE SendInv'
  <2>1. PICK chat \in SUBSET Messages :
           SetStatus({c \in chat : Status(c) \in {"pending", "sending"}}, "cancelled")
    BY <1>6 DEF CancelPending
  <2>2. \A n \in Messages : \/ rec'[n] = rec[n]
                            \/ /\ Status(n) \in {"pending", "sending"}
                               /\ rec'[n].status = "cancelled"
    BY <2>1 DEF SetStatus, TypeOK, Queue, Records
  <2> QED
    BY <1>6, <2>2, ToolStep DEF CancelPending, Ask, Harmless, Terminal, dispatcher,
       bounds, history
<1>7. ASSUME NEW m \in Messages, Tick(m) PROVE SendInv'
  BY <1>7, ToolStep DEF Tick, Harmless, dispatcher, bounds, history
<1>8. disp # "sending" => \A m \in Messages : Status(m) # "sending"
  BY DEF SendInv, InFlight
<1>9. ASSUME Collect PROVE SendInv'
  BY <1>8, <1>9, PauseStep DEF Collect, bounds, history
<1>10. ASSUME BatchDone PROVE SendInv'
  BY <1>8, <1>10, PauseStep DEF BatchDone, Ask, bounds, history
<1>11. ASSUME NEW m \in Messages, Defer(m) PROVE SendInv'
  BY <1>8, <1>11, PauseStep DEF Defer, Ask, history
<1>12. ASSUME NEW m \in Messages, Skip(m) PROVE SendInv'
  BY <1>8, <1>12, PauseStep DEF Skip, bounds, history
<1>13. ASSUME NEW m \in Messages, NoChannel(m) PROVE SendInv'
  <2>1. \A n \in Messages : rec'[n] = rec[n] \/ rec'[n].status = "failed"
    BY <1>13 DEF NoChannel, SetStatus, TypeOK, Queue, Records
  <2> QED
    BY <1>8, <1>13, <2>1, PauseStep DEF NoChannel, bounds, history
<1>14. ASSUME NEW m \in Messages, SettleCancelled(m) PROVE SendInv'
  <2>1. \A n \in Messages : Status(n) # "sending"
    BY <1>14 DEF SettleCancelled, SendInv, InFlight
  <2> QED
    BY <1>14, <2>1, PauseStep DEF SettleCancelled, bounds, history
<1>15. ASSUME Cleanup PROVE SendInv'
  <2>1. \A n \in Messages : rec'[n] = rec[n] \/ rec'[n].status = "gone"
    BY <1>15 DEF Cleanup, SetStatus, TypeOK, Queue, Records
  <2> QED
    BY <1>8, <1>15, <2>1, PauseStep DEF Cleanup, Ask, bounds, history
<1>16. ASSUME NEW m \in Messages, Send(m) PROVE SendInv'
  <2>1. /\ disp = "batch" /\ Status(m) = "pending"
        /\ disp' = "sending" /\ current' = {m}
        /\ sends' = [sends EXCEPT ![m] = @ + 1]
        /\ UNCHANGED <<file, saving, image, crashes>>
    BY <1>16 DEF Send, bounds
  <2>2. /\ rec'[m].status = "sending" /\ rec'[m].attempts = rec[m].attempts
        /\ \A n \in Messages \ {m} : rec'[n] = rec[n]
    BY <1>16 DEF Send, SetStatus, TypeOK, Queue, Records
  <2>3. /\ rec[m].attempts < MaxAttempts
        /\ sends[m] <= rec[m].attempts + crashes
    BY <2>1, RecordTypes DEF SendInv, InFlight, Behind, Status, Live, TypeOK
  <2>4. /\ sends'[m] = sends[m] + 1
        /\ \A n \in Messages \ {m} : sends'[n] = sends[n]
    BY <2>1 DEF TypeOK
  <2>5. AttemptsBounded'
    BY <2>1, <2>3, <2>4, RecordTypes DEF SendInv, AttemptsBounded, TypeOK
  <2>6. InFlight'
    <3> SUFFICES ASSUME NEW n \in Messages
                 PROVE  /\ Status(n)' = "sending" => n = m
                        /\ n = m => Status(n)' = "sending"
                        /\ Behind(rec[n], n, IF Status(n) = "sending" THEN 1 ELSE 0)'
      BY <2>1 DEF InFlight
    <3>1. CASE n = m
      BY <2>1, <2>2, <2>3, <2>4, <3>1, RecordTypes DEF Behind, Status, TypeOK
    <3>2. CASE n # m
      BY <1>8, <2>1, <2>2, <2>4, <3>2 DEF SendInv, InFlight, Behind, Status
    <3> QED
      BY <3>1, <3>2
  <2>7. OneWriter'
    BY <2>1 DEF SendInv, OneWriter
  <2>8. ASSUME NEW n \in Messages PROVE Copies(n)' = Copies(n)
    BY <2>1, CopiesSame
  <2>9. Saved'
    <3> SUFFICES ASSUME NEW n \in Messages
                 PROVE  /\ \A r \in Copies(n) : Behind(r, n, 1)'
                        /\ Waiting(n)' => \A r \in Copies(n) : Behind(r, n, 0)'
      BY <2>1, <2>8 DEF Saved, SendInv, OneWriter
    <3>1. CASE n = m
      <4>1. Waiting(m) /\ ~Waiting(m)'
        BY <2>1, <2>2 DEF Waiting, Status
      <4>2. \A r \in Copies(m) : Behind(r, m, 0)
        BY <2>1, <4>1 DEF SendInv, Saved
      <4>3. \A r \in Copies(m) : r \in Records
        BY DEF Copies, TypeOK, Queue
      <4> QED
        BY <2>1, <2>4, <3>1, <4>1, <4>2, <4>3 DEF Behind, Records, TypeOK
    <3>2. CASE n # m
      BY <2>1, <2>2, <2>4, <3>2 DEF SendInv, Saved, Behind, Waiting, Status
    <3> QED
      BY <3>1, <3>2
  <2> QED
    BY <2>5, <2>6, <2>7, <2>9 DEF SendInv
<1>17. ASSUME NEW m \in Messages, NEW ok \in BOOLEAN, Settle(m, ok) PROVE SendInv'
  <2>1. /\ disp = "sending" /\ m \in current /\ Status(m) # "cancelled"
        /\ disp' = "saving" /\ saving' = [saving EXCEPT ![Dispatcher] = "asked"]
        /\ UNCHANGED <<file, image, crashes, sends>>
        /\ rec' = [rec EXCEPT ![m] = [status |-> Outcome(rec[m].attempts + 1, ok),
                                      attempts |-> rec[m].attempts + 1]]
    BY <1>17 DEF Settle, Ask, bounds, history
  <2>2. Status(m) = "sending"
    BY <2>1 DEF SendInv, InFlight
  <2>3. \A n \in Messages \ {m} : rec'[n] = rec[n] /\ Status(n) # "sending"
    BY <2>1, <2>2 DEF SendInv, InFlight, TypeOK, Queue
  <2>4. /\ rec'[m].attempts = rec[m].attempts + 1
        /\ rec'[m].status \in {"sent", "failed", "pending"}
        /\ rec'[m].status = "pending" => rec[m].attempts + 1 < MaxAttempts
    BY <2>1, RecordTypes DEF Outcome, TypeOK, Queue
  <2>5. sends[m] <= rec[m].attempts + crashes + 1
    BY <2>2 DEF SendInv, InFlight, Behind, Status, Live
  <2>6. saving[Dispatcher] = "no"
    BY <2>1 DEF SendInv, OneWriter, TypeOK, Savers
  <2>7. /\ \A s \in Savers : saving'[s] = "writing" <=> saving[s] = "writing"
        /\ saving'[Dispatcher] # "writing"
    BY <2>1, <2>6 DEF TypeOK, Savers
  <2>8. AttemptsBounded'
    BY <2>1 DEF SendInv, AttemptsBounded
  <2>9. InFlight'
    <3> SUFFICES ASSUME NEW n \in Messages
                 PROVE  Status(n)' # "sending" /\ Behind(rec[n], n, 0)'
      BY <2>1 DEF InFlight
    <3>1. CASE n = m
      BY <2>1, <2>4, <2>5, <3>1, RecordTypes DEF Behind, Status, Live, TypeOK
    <3>2. CASE n # m
      BY <2>1, <2>3, <3>2 DEF SendInv, InFlight, Behind, Status
    <3> QED
      BY <3>1, <3>2
  <2>10. OneWriter'
    BY <2>1, <2>7 DEF SendInv, OneWriter
  <2>11. \A n \in Messages : Copies(n)' = Copies(n)
    BY <2>1, <2>7, CopiesSame
  <2>12. Saved'
    BY <2>1, <2>7, <2>11 DEF SendInv, Saved, Behind
  <2> QED
    BY <2>8, <2>9, <2>10, <2>12 DEF SendInv
<1>18. ASSUME Crash PROVE SendInv'
  <2>1. /\ crashes' = crashes + 1 /\ UNCHANGED sends
        /\ saving' = [s \in Savers |-> "no"]
        /\ disp' = "idle" /\ current' = {}
    BY <1>18 DEF Crash
  <2>2. PICK stale \in SUBSET Messages :
           /\ rec' = [m \in Messages |->
                         IF m \in stale THEN [Loaded(m) EXCEPT !.status = "expired"]
                         ELSE Loaded(m)]
           /\ file' = IF stale = {} THEN file ELSE rec'
    BY <1>18 DEF Crash
  <2>3. ASSUME NEW m \in Messages
        PROVE  Status(m)' # "sending" /\ Behind(rec[m], m, 0)' /\ Behind(file[m], m, 0)'
    <3>1. file[m] \in Copies(m)
      BY DEF Copies
    <3>2. Behind(file[m], m, 1)
      BY <3>1 DEF SendInv, Saved
    <3>3. \A r \in Records : Behind(r, m, 1) => Behind(r, m, 0)'
      BY <2>1 DEF Behind, Records, TypeOK
    <3>4. /\ Loaded(m) \in Records /\ Loaded(m).status # "sending"
          /\ Loaded(m).attempts = file[m].attempts
          /\ Loaded(m).status \in Live => file[m].status \in Live
      BY RecordTypes DEF Loaded, TypeOK, Queue, Records, Statuses, Live
    <3>5. Behind(Loaded(m), m, 1)
      BY <3>2, <3>4 DEF Behind
    <3>6. Status(m)' # "sending" /\ Behind(rec[m], m, 0)'
      BY <2>2, <3>3, <3>4, <3>5 DEF Behind, Status, Live, Records
    <3>7. Behind(file[m], m, 0)'
      BY <2>2, <3>2, <3>3, <3>6, RecordTypes DEF TypeOK, Behind
    <3> QED
      BY <3>6, <3>7
  <2>4. AttemptsBounded'
    BY <2>1 DEF SendInv, AttemptsBounded, TypeOK
  <2>5. InFlight'
    BY <2>1, <2>3 DEF InFlight
  <2>6. OneWriter'
    BY <2>1 DEF OneWriter, Savers
  <2>7. ASSUME NEW m \in Messages PROVE Copies(m)' = {file'[m]}
    BY <2>1 DEF Copies
  <2>8. ASSUME NEW m \in Messages PROVE Behind(file[m], m, 1)'
    <3>1. file'[m] \in Records
      BY TypeStep DEF TypeOK, Queue
    <3> QED
      BY <2>1, <2>3, <3>1 DEF Behind, Records, TypeOK
  <2>9. Saved'
    BY <2>1, <2>3, <2>7, <2>8 DEF Saved, Savers, Behind
  <2> QED
    BY <2>4, <2>5, <2>6, <2>9 DEF SendInv
<1>19. CASE UNCHANGED vars
  BY <1>19, ToolStep DEF vars, Harmless
<1> QED
  BY <1>1, <1>2, <1>3, <1>4, <1>5, <1>6, <1>7, <1>9, <1>10, <1>11, <1>12, <1>13,
     <1>14, <1>15, <1>16, <1>17, <1>18, <1>19 DEF Next, DispatchStep, SaveStep

-------------------------------------------------------------------------------
\* The inductive invariant: every record that may come to count bounds the
\* sends of its message.
THEOREM SchedulerInvariant == Spec => [](TypeOK /\ SendInv)
<1>1. Init => TypeOK
  BY SchedulerAssumption DEF Init, TypeOK, Nothing, Queue, Records, Statuses
<1>2. Init => SendInv
  BY SchedulerAssumption DEF Init, SendInv, AttemptsBounded, InFlight, OneWriter, Saved,
     Copies, Behind, Waiting, Status, Nothing, Savers
<1>3. TypeOK /\ SendInv /\ [Next]_vars => (TypeOK /\ SendInv)'
  BY TypeStep, SendStep
<1> QED
  BY <1>1, <1>2, <1>3, PTL DEF Spec

\* Type correctness: in particular no counter of attempts passes max_attempts.
THEOREM SchedulerTypes == Spec => []TypeOK
BY SchedulerInvariant, PTL

\* A message is sent at most max_attempts times, plus once for each death of the
\* process, whatever the tools and other saves do meanwhile.
THEOREM SendsAreBounded == Spec => []AttemptsBounded
<1>1. SendInv => AttemptsBounded
  BY DEF SendInv
<1> QED
  BY <1>1, SchedulerInvariant, PTL
-------------------------------------------------------------------------------
(* CancelHolds: a message is not sent again when every record of it that may   *)
(* come to count is a dead one.  cancel_message() answers only after its own   *)
(* save, so the record it made is the one any later snapshot carries.          *)

Dead == {"cancelled", "gone"}

CancelInv ==
    /\ \A m \in cancelling :
          /\ saving[m] # "no" /\ Status(m) \in Dead
          /\ saving[m] = "writing" => image[m][m].status \in Dead
    /\ \A m \in acked : Status(m) \in Dead /\ \A r \in Copies(m) : r.status \in Dead

\* The steps between the begin and the end of a save: no dead message revives,
\* and a cancel_message() that begins asks for its save.
LEMMA CancelKept ==
    ASSUME TypeOK, CancelInv, UNCHANGED <<file, image, acked>>,
           \A s \in Savers : saving'[s] = "writing" <=> saving[s] = "writing",
           \A m \in Messages : saving[m] # "no" => saving'[m] # "no",
           \A m \in Messages : Status(m) \in Dead => Status(m)' \in Dead,
           \A m \in cancelling' :
               m \in cancelling \/ (saving'[m] = "asked" /\ Status(m)' \in Dead),
           cancelling' \subseteq Messages
    PROVE  CancelInv'
<1>1. \A m \in Messages : Copies(m)' = Copies(m)
  BY CopiesSame
<1>2. acked \subseteq Messages /\ cancelling \subseteq Messages
  BY DEF TypeOK
<1>3. \A m \in acked' : Status(m)' \in Dead /\ \A r \in Copies(m)' : r.status \in Dead
  BY <1>1, <1>2 DEF CancelInv
<1>4. ASSUME NEW m \in cancelling'
      PROVE  /\ saving'[m] # "no" /\ Status(m)' \in Dead
             /\ saving'[m] = "writing" => image'[m][m].status \in Dead
  <2>1. m \in Savers
    BY DEF Savers
  <2> QED
    BY <1>2, <1>4, <2>1 DEF CancelInv
<1> QED
  BY <1>3, <1>4 DEF CancelInv

\* CancelInv is kept by each step.
LEMMA CancelStep == TypeOK /\ SendInv /\ CancelInv /\ [Next]_vars => CancelInv'
<1> SUFFICES ASSUME TypeOK, SendInv, CancelInv, [Next]_vars PROVE CancelInv'
  OBVIOUS
<1> USE DEF Savers
<1>0. /\ cancelling \subseteq Messages /\ acked \subseteq Messages
      /\ saving[Dispatcher] # "no" => disp \in {"saving", "closing"}
      /\ saving[Dispatcher] \in {"no", "asked", "writing"}
  BY DEF TypeOK, SendInv, OneWriter
<1>1. ASSUME NEW s \in Savers, SaveBegin(s) PROVE CancelInv'
  <2>1. /\ saving' = [saving EXCEPT ![s] = "writing"] /\ image' = [image EXCEPT ![s] = rec]
        /\ \A q \in Savers : saving[q] # "writing"
        /\ UNCHANGED <<rec, file, cancelling, acked>>
    BY <1>1 DEF SaveBegin, history
  <2>2. \A q \in Savers : saving'[q] = "writing" <=> q = s
    BY <2>1 DEF TypeOK
  <2>3. ASSUME NEW m \in Messages PROVE Copies(m)' = {file[m], rec[m]}
    BY <2>1, <2>2 DEF Copies, TypeOK
  <2>4. \A m \in acked : file[m].status \in Dead /\ rec[m].status \in Dead
    BY DEF CancelInv, Copies, Status
  <2>5. \A m \in acked' : Status(m)' \in Dead /\ \A r \in Copies(m)' : r.status \in Dead
    BY <1>0, <2>1, <2>3, <2>4 DEF Status
  <2>6. ASSUME NEW m \in cancelling'
        PROVE  /\ saving'[m] # "no" /\ Status(m)' \in Dead
               /\ saving'[m] = "writing" => image'[m][m].status \in Dead
    BY <1>0, <2>1, <2>2, <2>6 DEF CancelInv, Status, TypeOK
  <2> QED
    BY <2>5, <2>6 DEF CancelInv
<1>2. ASSUME NEW s \in Savers, SaveEnd(s) PROVE CancelInv'
  <2>1. /\ saving[s] = "writing" /\ file' = image[s]
        /\ saving' = [saving EXCEPT ![s] = "no"] /\ image' = [image EXCEPT ![s] = Nothing]
        /\ acked' = acked \cup (cancelling \cap {s}) /\ cancelling' = cancelling \ {s}
        /\ UNCHANGED rec
    BY <1>2 DEF SaveEnd
  <2>2. \A q \in Savers : saving'[q] # "writing"
    BY <2>1 DEF SendInv, OneWriter, TypeOK
  <2>3. ASSUME NEW m \in Messages PROVE Copies(m)' = {image[s][m]}
    BY <2>1, <2>2 DEF Copies
  <2>4. \A m \in acked : image[s][m].status \in Dead
    BY <2>1 DEF CancelInv, Copies
  <2>5. s \in cancelling => Status(s) \in Dead /\ image[s][s].status \in Dead
    BY <2>1 DEF CancelInv
  <2>6. \A m \in acked' : Status(m)' \in Dead /\ \A r \in Copies(m)' : r.status \in Dead
    BY <1>0, <2>1, <2>3, <2>4, <2>5 DEF CancelInv, Status
  <2>7. ASSUME NEW m \in cancelling'
        PROVE  /\ saving'[m] # "no" /\ Status(m)' \in Dead
               /\ saving'[m] = "writing" => image'[m][m].status \in Dead
    BY <1>0, <2>1, <2>2, <2>7 DEF CancelInv, Status, TypeOK
  <2> QED
    BY <2>6, <2>7 DEF CancelInv
<1>3. ASSUME Crash PROVE CancelInv'
  <2>1. /\ saving' = [s \in Savers |-> "no"] /\ cancelling' = {} /\ UNCHANGED acked
    BY <1>3 DEF Crash
  <2>2. PICK stale \in SUBSET {m \in Messages : Loaded(m).status = "pending"} :
           /\ rec' = [m \in Messages |->
                         IF m \in stale THEN [Loaded(m) EXCEPT !.status = "expired"]
                         ELSE Loaded(m)]
           /\ file' = IF stale = {} THEN file ELSE rec'
    BY <1>3 DEF Crash
  <2>3. ASSUME NEW m \in acked PROVE rec'[m].status \in Dead /\ file'[m].status \in Dead
    <3>1. file[m].status \in Dead
      BY <2>3 DEF CancelInv, Copies
    <3>2. Loaded(m) = file[m]
      BY <3>1 DEF Loaded, Dead
    <3> QED
      BY <1>0, <2>2, <2>3, <3>1, <3>2 DEF Dead
  <2>4. ASSUME NEW m \in Messages PROVE Copies(m)' = {file'[m]}
    BY <2>1 DEF Copies
  <2> QED
    BY <1>0, <2>1, <2>3, <2>4 DEF CancelInv, Status
<1>4. ASSUME NEW m \in Messages, Schedule(m) PROVE CancelInv'
  <2>1. \A n \in Messages : Status(n) \in Dead => Status(n)' \in Dead
    BY <1>4 DEF Schedule, Dead, Status, TypeOK, Queue, Records
  <2> QED
    BY <1>0, <1>4, <2>1, CancelKept DEF Schedule, Ask, Free, TypeOK, history
<1>5. ASSUME NEW m \in Messages, Edit(m) PROVE CancelInv'
  BY <1>0, <1>5, CancelKept DEF Edit, Ask, Free, Status, TypeOK, history
<1>6. ASSUME NEW m \in Messages, CancelMessage(m) PROVE CancelInv'
  <2>1. /\ \A n \in Messages : Status(n) \in Dead => Status(n)' \in Dead
        /\ Status(m)' \in Dead
    BY <1>6 DEF CancelMessage, SetStatus, Dead, Status, TypeOK, Queue, Records
  <2> QED
    BY <1>0, <1>6, <2>1, CancelKept DEF CancelMessage, Ask, Free, TypeOK
<1>7. ASSUME NEW m \in Messages, CancelPending(m) PROVE CancelInv'
  <2>1. PICK chat \in SUBSET Messages :
           SetStatus({c \in chat : Status(c) \in {"pending", "sending"}}, "cancelled")
    BY <1>7 DEF CancelPending
  <2>2. \A n \in Messages : Status(n) \in Dead => Status(n)' \in Dead
    BY <2>1 DEF SetStatus, Dead, Status, TypeOK, Queue, Records
  <2> QED
    BY <1>0, <1>7, <2>2, CancelKept DEF CancelPending, Ask, Free, TypeOK, history
<1>8. ASSUME NEW m \in Messages, Tick(m) PROVE CancelInv'
  BY <1>0, <1>8, CancelKept DEF Tick, Status, history
<1>9. ASSUME Collect PROVE CancelInv'
  BY <1>0, <1>9, CancelKept DEF Collect, Status, history
<1>10. ASSUME BatchDone PROVE CancelInv'
  BY <1>0, <1>10, CancelKept, SchedulerAssumption DEF BatchDone, Ask, Status, TypeOK, history
<1>11. ASSUME NEW m \in Messages, Defer(m) PROVE CancelInv'
  BY <1>0, <1>11, CancelKept, SchedulerAssumption DEF Defer, Ask, Status, TypeOK, history
<1>12. ASSUME NEW m \in Messages, Skip(m) \/ SettleCancelled(m) PROVE CancelInv'
  BY <1>0, <1>12, CancelKept DEF Skip, SettleCancelled, Status, history
<1>13. ASSUME NEW m \in Messages, Send(m) \/ NoChannel(m) PROVE CancelInv'
  <2>1. \A n \in Messages : Status(n) \in Dead => Status(n)' \in Dead
    BY <1>13 DEF Send, NoChannel, SetStatus, Dead, Status, TypeOK, Queue, Records
  <2> QED
    BY <1>0, <1>13, <2>1, CancelKept DEF Send, NoChannel, history
<1>14. ASSUME NEW m \in Messages, NEW ok \in BOOLEAN, Settle(m, ok) PROVE CancelInv'
  <2>1. Status(m) = "sending"
    BY <1>14 DEF Settle, SendInv, InFlight
  <2>2. \A n \in Messages : Status(n) \in Dead => Status(n)' \in Dead
    BY <1>14, <2>1 DEF Settle, Dead, Status, TypeOK, Queue, Records
  <2> QED
    BY <1>0, <1>14, <2>2, CancelKept, SchedulerAssumption DEF Settle, Ask, TypeOK, history
<1>15. ASSUME Cleanup PROVE CancelInv'
  <2>1. \A n \in Messages : Status(n) \in Dead => Status(n)' \in Dead
    BY <1>15 DEF Cleanup, SetStatus, Dead, Status, TypeOK, Queue, Records
  <2> QED
    BY <1>0, <1>15, <2>1, CancelKept, SchedulerAssumption DEF Cleanup, Ask, TypeOK, history
<1>16. CASE UNCHANGED vars
  BY <1>0, <1>16, CancelKept DEF vars, Status
<1> QED
  BY <1>1, <1>2, <1>3, <1>4, <1>5, <1>6, <1>7, <1>8, <1>9, <1>10, <1>11, <1>12, <1>13,
     <1>14, <1>15, <1>16 DEF Next, DispatchStep, SaveStep

\* Only a pending message is handed to channel.send().
LEMMA SendsArePending ==
    ASSUME TypeOK, [Next]_vars, NEW m \in Messages, sends'[m] # sends[m]
    PROVE  Status(m) = "pending"
<1>1. ASSUME NEW n \in Messages, Send(n) PROVE Status(m) = "pending"
  BY <1>1 DEF Send, TypeOK
<1>2. CASE UNCHANGED sends
  BY <1>2
<1> QED
  BY <1>1, <1>2 DEF Next, DispatchStep, SaveStep, SaveBegin, SaveEnd, Schedule, Edit,
     CancelMessage, CancelPending, Tick, Collect, BatchDone, Defer, Skip, NoChannel,
     SettleCancelled, Settle, Cleanup, Crash, history, vars

\* Once cancel_message() has answered True the message is never sent again, not
\* by a batch collected before, nor after a restart.
THEOREM CancelledIsNotSent == Spec => CancelHolds
<1>1. Init => CancelInv
  BY DEF Init, CancelInv
<1>2. TypeOK /\ SendInv /\ CancelInv /\ [Next]_vars => CancelInv'
  BY CancelStep
<1>3. TypeOK /\ CancelInv /\ [Next]_vars => [\A m \in acked : sends'[m] = sends[m]]_vars
  BY SendsArePending DEF CancelInv, Dead, TypeOK
<1> QED
  BY <1>1, <1>2, <1>3, SchedulerInvariant, PTL DEF Spec, CancelHolds

-------------------------------------------------------------------------------
(* SavedWhenQuiet: what a step changed in memory is in the snapshot being      *)
(* written, or in the file, unless a save is still to come.  A batch ends with *)
(* a save, so while one is under way a change may go unsaved (Unsaved).        *)

Unsaved == disp \in {"batch", "sending"} \/ \E s \in Savers : saving[s] = "asked"

UpToDate ==
    /\ \A s \in Savers : saving[s] = "writing" => Recovered(image[s]) = Recovered(rec)
    /\ (\A s \in Savers : saving[s] = "no") => Recovered(file) = Recovered(rec)

\* A restart takes a message that is not in the file for a lost one.
Blank(q) == \A m \in Messages : q[m].status = "absent" => q[m].attempts = 0

Blanks ==
    /\ Blank(rec) /\ Blank(file)
    /\ \A s \in Savers : saving[s] = "writing" => Blank(image[s])

SaveInv == Blanks /\ (Unsaved \/ UpToDate)

\* Nothing but schedule() concerns a message that is absent.
LEMMA BlankKept ==
    ASSUME TypeOK, Blanks, [Next]_vars, ~ Crash
    PROVE  Blank(rec')
<1> SUFFICES ASSUME NEW n \in Messages, rec'[n].status = "absent" PROVE rec'[n].attempts = 0
  BY DEF Blank
<1>0. rec[n].status = "absent" => rec[n].attempts = 0
  BY DEF Blanks, Blank
<1> USE DEF TypeOK, Queue, Records
<1>1. ASSUME NEW ms \in SUBSET Messages, NEW s \in {"sending", "cancelled", "failed", "gone"},
             SetStatus(ms, s)
      PROVE  rec'[n].attempts = 0
  BY <1>0, <1>1 DEF SetStatus
<1>2. ASSUME NEW m \in Messages, Schedule(m) PROVE rec'[n].attempts = 0
  BY <1>0, <1>2 DEF Schedule
<1>3. ASSUME NEW m \in Messages, NEW ok \in BOOLEAN, Settle(m, ok) PROVE rec'[n].attempts = 0
  BY <1>0, <1>3 DEF Settle, Outcome
<1>4. ASSUME NEW m \in Messages, CancelMessage(m) \/ Send(m) \/ NoChannel(m)
      PROVE  rec'[n].attempts = 0
  BY <1>1, <1>4 DEF CancelMessage, Send, NoChannel
<1>5. ASSUME NEW m \in Messages, CancelPending(m) PROVE rec'[n].attempts = 0
  BY <1>1, <1>5 DEF CancelPending
<1>6. ASSUME Cleanup PROVE rec'[n].attempts = 0
  BY <1>1, <1>6 DEF Cleanup
<1>7. CASE UNCHANGED rec
  BY <1>0, <1>7
<1> QED
  BY <1>2, <1>3, <1>4, <1>5, <1>6, <1>7 DEF Next, DispatchStep, SaveStep, SaveBegin,
     SaveEnd, Edit, Tick, Collect, BatchDone, Defer, Skip, SettleCancelled, vars

\* The steps that neither begin nor end a save: the thread is in its batch, a
\* save is asked for, or the queue stays what it was.
LEMMA SavesToCome ==
    ASSUME TypeOK, SaveInv, Blank(rec'), UNCHANGED <<file, image>>,
           \A s \in Savers : saving'[s] = "writing" => saving[s] = "writing",
           \/ disp' \in {"batch", "sending"}
           \/ \E s \in Savers : saving'[s] = "asked"
           \/ UNCHANGED <<rec, saving>> /\ (disp' = disp \/ disp = "idle")
    PROVE  SaveInv'
<1>1. Blanks'
  BY DEF SaveInv, Blanks, Blank
<1>2. CASE disp' \in {"batch", "sending"} \/ \E s \in Savers : saving'[s] = "asked"
  BY <1>1, <1>2 DEF SaveInv, Unsaved
<1>3. CASE UNCHANGED <<rec, saving>> /\ (disp' = disp \/ disp = "idle")
  BY <1>1, <1>3 DEF SaveInv, Unsaved, UpToDate, Recovered
<1> QED
  BY <1>2, <1>3

LEMMA SaveInvStep == TypeOK /\ SendInv /\ SaveInv /\ [Next]_vars => SaveInv'
<1> SUFFICES ASSUME TypeOK, SendInv, SaveInv, [Next]_vars PROVE SaveInv'
  OBVIOUS
<1> USE DEF Savers
<1>1. ASSUME NEW s \in Savers, SaveBegin(s) PROVE SaveInv'
  <2>1. /\ saving' = [saving EXCEPT ![s] = "writing"] /\ image' = [image EXCEPT ![s] = rec]
        /\ \A q \in Savers : saving[q] # "writing"
        /\ UNCHANGED <<rec, file>>
    BY <1>1 DEF SaveBegin
  <2>2. /\ \A q \in Savers : saving'[q] = "writing" <=> q = s
        /\ image'[s] = rec
    BY <2>1 DEF TypeOK
  <2>3. Blanks'
    BY <2>1, <2>2 DEF SaveInv, Blanks, Blank
  <2>4. UpToDate'
    BY <2>1, <2>2 DEF UpToDate, Recovered
  <2> QED
    BY <2>3, <2>4 DEF SaveInv
<1>2. ASSUME NEW s \in Savers, SaveEnd(s) PROVE SaveInv'
  <2>1. /\ saving[s] = "writing" /\ file' = image[s]
        /\ saving' = [saving EXCEPT ![s] = "no"]
        /\ disp' = IF s # Dispatcher THEN disp
                   ELSE IF disp = "saving" THEN "batch" ELSE "idle"
        /\ UNCHANGED rec
    BY <1>2 DEF SaveEnd
  <2>2. \A q \in Savers : saving'[q] # "writing"
    BY <2>1 DEF SendInv, OneWriter, TypeOK
  <2>3. Blanks'
    BY <2>1, <2>2 DEF SaveInv, Blanks, Blank
  <2>4. CASE \E q \in Savers : saving[q] = "asked"
    <3>1. Unsaved'
      BY <2>1, <2>4 DEF Unsaved, TypeOK
    <3> QED
      BY <2>3, <3>1 DEF SaveInv
  <2>5. CASE disp \in {"batch", "sending"}
    <3>1. s # Dispatcher
      BY <2>1, <2>5 DEF SendInv, OneWriter
    <3> QED
      BY <2>1, <2>3, <2>5, <3>1 DEF SaveInv, Unsaved
  <2>6. CASE UpToDate
    BY <2>1, <2>2, <2>3, <2>6 DEF SaveInv, UpToDate, Recovered
  <2> QED
    BY <2>4, <2>5, <2>6 DEF SaveInv, Unsaved
<1>3. ASSUME Crash PROVE SaveInv'
  <2>1. saving' = [s \in Savers |-> "no"]
    BY <1>3 DEF Crash
  <2>2. PICK stale \in SUBSET {m \in Messages : Loaded(m).status = "pending"} :
           /\ rec' = [m \in Messages |->
                         IF m \in stale THEN [Loaded(m) EXCEPT !.status = "expired"]
                         ELSE Loaded(m)]
           /\ file' = IF stale = {} THEN file ELSE rec'
    BY <1>3 DEF Crash
  <2>3. Blank(file)
    BY DEF SaveInv, Blanks
  <2>4. ASSUME NEW m \in Messages
        PROVE  /\ Loaded(m) \in Records
               /\ Loaded(m).status = "absent" => Loaded(m).attempts = 0
    <3>1. file[m] \in Records /\ (file[m].status = "absent" => file[m].attempts = 0)
      BY <2>3 DEF Blank, TypeOK, Queue
    <3>2. Loaded(m) \in {file[m], [file[m] EXCEPT !.status = "pending"],
                         [file[m] EXCEPT !.status = "gone"]}
      BY DEF Loaded
    <3> QED
      BY <3>1, <3>2 DEF Records, Statuses
  <2>5. Blank(rec')
    BY <2>2, <2>4 DEF Blank, Records
  <2>6. Blanks'
    BY <2>1, <2>2, <2>3, <2>5 DEF Blanks, Blank
  <2>7. Recovered(file') = Recovered(rec')
    <3>1. CASE stale # {}
      BY <2>2, <3>1
    <3>2. CASE stale = {}
      <4>1. file' = file /\ \A m \in Messages : rec'[m] = Loaded(m)
        BY <2>2, <3>2
      <4>2. ASSUME NEW m \in Messages PROVE Recovered(file')[m] = Recovered(rec')[m]
        <5>1. /\ file[m] \in Records
              /\ file[m].status = "absent" => file[m] = [status |-> "absent", attempts |-> 0]
          BY <2>3 DEF Blank, TypeOK, Queue, Records
        <5>2. CASE file[m].status = "sending"
          BY <4>1, <5>1, <5>2 DEF Recovered, Loaded, Records
        <5>3. CASE file[m].status = "absent"
          BY <4>1, <5>1, <5>3 DEF Recovered, Loaded, Nothing
        <5>4. CASE file[m].status \notin {"sending", "absent"}
          BY <4>1, <5>4 DEF Recovered, Loaded
        <5> QED
          BY <5>2, <5>3, <5>4
      <4> QED
        BY <4>2 DEF Recovered
    <3> QED
      BY <3>1, <3>2
  <2>8. UpToDate'
    BY <2>1, <2>7 DEF UpToDate, Recovered
  <2> QED
    BY <2>6, <2>8 DEF SaveInv
<1>4. CASE ~ Crash /\ ~ \E s \in Savers : SaveBegin(s) \/ SaveEnd(s)
  <2>1. Blank(rec')
    BY <1>4, BlankKept DEF SaveInv
  <2>2. ASSUME NEW s \in Savers, Ask(s)
        PROVE  /\ \E q \in Savers : saving'[q] = "asked"
               /\ \A q \in Savers : saving'[q] = "writing" => saving[q] = "writing"
    BY <2>2 DEF Ask, TypeOK
  <2>3. ASSUME NEW m \in Messages,
               Schedule(m) \/ Edit(m) \/ CancelMessage(m) \/ CancelPending(m) \/ Defer(m)
        PROVE  SaveInv'
    BY <2>1, <2>2, <2>3, SavesToCome DEF Schedule, Edit, CancelMessage, CancelPending, Defer
  <2>4. ASSUME BatchDone \/ Cleanup PROVE SaveInv'
    BY <2>1, <2>2, <2>4, SavesToCome DEF BatchDone, Cleanup
  <2>5. ASSUME NEW m \in Messages, NEW ok \in BOOLEAN, Settle(m, ok) PROVE SaveInv'
    BY <2>1, <2>2, <2>5, SavesToCome DEF Settle
  <2>6. ASSUME NEW m \in Messages,
               Skip(m) \/ Send(m) \/ NoChannel(m) \/ SettleCancelled(m)
        PROVE  SaveInv'
    BY <2>1, <2>6, SavesToCome DEF Skip, Send, NoChannel, SettleCancelled
  <2>7. ASSUME NEW m \in Messages, Tick(m) PROVE SaveInv'
    BY <2>1, <2>7, SavesToCome DEF Tick, dispatcher
  <2>8. ASSUME Collect \/ UNCHANGED vars PROVE SaveInv'
    BY <2>1, <2>8, SavesToCome DEF Collect, vars
  <2> QED
    BY <1>4, <2>3, <2>4, <2>5, <2>6, <2>7, <2>8 DEF Next, DispatchStep, SaveStep
<1> QED
  BY <1>1, <1>2, <1>3, <1>4

\* When nobody saves and the dispatch thread sleeps, the file holds the queue.
THEOREM QuietMeansSaved == Spec => []SavedWhenQuiet
<1>1. Init => SaveInv
  BY DEF Init, SaveInv, Blanks, Blank, Nothing, UpToDate
<1>2. TypeOK /\ SendInv /\ SaveInv /\ [Next]_vars => SaveInv'
  BY SaveInvStep
<1>3. SaveInv => SavedWhenQuiet
  BY DEF SaveInv, Unsaved, UpToDate, SavedWhenQuiet
<1> QED
  BY <1>1, <1>2, <1>3, SchedulerInvariant, PTL DEF Spec
===============================================================================
