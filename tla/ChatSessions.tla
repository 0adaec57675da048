---------------------------- MODULE ChatSessions ----------------------------
(***************************************************************************)
(* The assistant's inbox and its chat sessions: the polling threads and    *)
(* the per-chat buffer with its timers (assistant/poller.py), the executor *)
(* and the shutdown (service.py), the registry of sessions with its cap    *)
(* and evictions (session.py) and the turns of handle() (handler.py).      *)
(*                                                                         *)
(* Three locks meet: the buffer's, the registry's, held for a few          *)
(* assignments each, and session.lock, held for a whole turn and for the   *)
(* save of an evicted session.  A session is looked up under the second    *)
(* and used under the third, with nothing held in between.                 *)
(*                                                                         *)
(* A turn is named by its job.  A session's memory is the set of turns it  *)
(* records, and so is the file of a chat.  Messages are not told apart:    *)
(* whatever waits for a chat becomes one batch.  The absorption of a batch *)
(* by a deferral is in module Deferral, outbound turns are in Campaign.    *)
(***************************************************************************)
EXTENDS Integers, Sequences, FiniteSets

CONSTANTS
    Chats,
    Workers,        \* max_concurrent of the executor
    MaxSessions,    \* max_sessions
    MaxMessages,    \* bound: messages the channels deliver
    MaxFaults       \* bound: saves that raise

ASSUME SessionsAssumption ==
    /\ Workers \in Nat \ {0}
    /\ MaxSessions \in Nat \ {0}
    /\ MaxMessages \in Nat
    /\ MaxFaults \in Nat

\* int(max_sessions * _MAX_SESSION_OVERFLOW_MULTIPLIER)
HardCap == (3 * MaxSessions) \div 2

VARIABLES
    stage,      \* of the process: up, stopping, draining (the executor), down
    arrived,    \* number of messages polled so far
    buffer,     \* _buffers: the chats that have messages waiting
    timers,     \* the debounce timers of each chat
    batches,    \* what was submitted to the executor, in order
    registry,   \* _sessions
    older,      \* last_activity: <<o, p>> if o was active before p
    turns,      \* the memory of each session; one is named by its creator's job
    lock,       \* session.lock of each session
    stored,     \* the file of each chat
    faults,
    torn        \* chats that had two sessions at once, or lost a save

sessionVars == <<stage, arrived, buffer, timers, batches, registry, older, turns, lock,
                 stored, faults, torn>>
inbox    == <<arrived, buffer, timers>>
sessions == <<registry, older>>

Ids == 1 .. MaxMessages
Free == 0
Evictor == -1   \* the thread of _eviction_loop()

\* known: _timers holds an armed timer, which the next message cancels.
\* firing: timers that have expired and wait for the buffer's lock.
Timers == [armed : Nat, known : BOOLEAN, firing : Nat]

Over == {"kept", "silent", "dropped"}
Job == [chat : Chats, session : Ids \cup {0}, stray : BOOLEAN,
        at : {"queued", "saving", "waiting", "turn"} \cup Over]

Jobs == DOMAIN batches
At(j, s) == j \in Jobs /\ batches[j].at = s
Chat(o) == batches[o].chat
Sessions(c) == {o \in Jobs : batches[o].chat = c /\ o \in registry}

\* Somebody holds session o or is about to take its lock.
InUse(o) ==
    \/ lock[o] # Free
    \/ \E j \in Jobs : batches[j].session = o /\ batches[j].at \in {"saving", "waiting"}

-----------------------------------------------------------------------------
(* MessageBuffer *)

\* add(), called for each message a poll returns.  The polling threads see the
\* stop event only after the poll they are in.
\* Mutant: a cancelled timer is not set anew.
AddCancels(c) ==
    /\ stage # "down" /\ arrived < MaxMessages
    /\ arrived' = arrived + 1
    /\ buffer' = buffer \cup {c}
    /\ timers' = IF timers[c].known
                 THEN [timers EXCEPT ![c].armed = @ - 1, ![c].known = FALSE]
                 ELSE [timers EXCEPT ![c].armed = @ + 1, ![c].known = TRUE]
    /\ UNCHANGED <<stage, batches, sessions, turns, lock, stored, faults, torn>>

Add(c) ==
    /\ stage # "down" /\ arrived < MaxMessages
    /\ arrived' = arrived + 1
    /\ buffer' = buffer \cup {c}
    /\ timers' = IF timers[c].known THEN timers
                 ELSE [timers EXCEPT ![c].armed = @ + 1, ![c].known = TRUE]
    /\ UNCHANGED <<stage, batches, sessions, turns, lock, stored, faults, torn>>

\* A timer expires: the one in _timers, which no cancel() stops any more, or
\* one that an earlier flush took out of _timers.
Fire(c) ==
    /\ stage # "down" /\ timers[c].armed > 0
    /\ \E known \in {FALSE} \cup (IF timers[c].armed > 1 THEN {timers[c].known} ELSE {}) :
         timers' = [timers EXCEPT ![c] = [armed |-> @.armed - 1, known |-> known,
                                          firing |-> @.firing + 1]]
    /\ UNCHANGED <<stage, arrived, buffer, batches, sessions, turns, lock, stored, faults,
                   torn>>

Batch(c) == [chat |-> c, session |-> 0, stray |-> FALSE, at |-> "queued"]

\* _flush(): takes the buffer and whatever timer is in _timers by now, then
\* submits.  After executor.shutdown() the submission raises and the batch is
\* gone.
Flush(c) ==
    /\ stage # "down" /\ timers[c].firing > 0
    /\ timers' = [timers EXCEPT ![c].firing = @ - 1, ![c].known = FALSE]
    /\ buffer' = buffer \ {c}
    /\ batches' = IF c \in buffer /\ stage # "draining"
                  THEN Append(batches, Batch(c)) ELSE batches
    /\ UNCHANGED <<stage, arrived, sessions, turns, lock, stored, faults, torn>>

-----------------------------------------------------------------------------
(* ChatSessionManager *)

\* Memory that is stored, or whose save raises: that is logged.  What only a
\* session outside the registry remembers is then lost.
Store(o, kept) ==
    \/ /\ stored' = [stored EXCEPT ![Chat(o)] = kept]
       /\ UNCHANGED <<faults, torn>>
    \/ /\ faults < MaxFaults
       /\ faults' = faults + 1
       /\ torn' = IF o \in registry THEN torn ELSE torn \cup {Chat(o)}
       /\ UNCHANGED stored

\* The order that is left among R, and with o the most recently active.
Among(R) == older \cap (R \X R)
Last(R, o) == Among(R) \cup (R \X {o})

\* get_or_create() finds the session.
Find(j) ==
    \E o \in Sessions(Chat(j)) :
        /\ older' = Last(registry \ {o}, o)
        /\ batches' = [batches EXCEPT ![j].at = "waiting", ![j].session = o]
        /\ UNCHANGED <<registry, turns, lock, torn>>

\* Sets of sessions that have been idle for longer than the others.
LeastActive == {K \in SUBSET registry : \A x \in older : x[2] \in K => x[1] \in K}

\* Who leaves when the registry is full: the idle ones, K, that are not busy, or
\* else the first one, if it is not busy.
Leaving(K) ==
    LET idle == {o \in K : lock[o] = Free}
        first == {o \in registry : lock[o] = Free /\ \A x \in older : x[2] # o}
    IN  IF Cardinality(registry) < MaxSessions THEN {}
        ELSE IF idle # {} THEN idle ELSE first

\* get_or_create() makes a session from the file, or refuses, and then nobody
\* has left: the registry is never longer than the hard cap.  The job holds the
\* locks of the evicted sessions until it has saved them.
Create(j) ==
    \E K \in LeastActive :
        LET gone == Leaving(K)
            left == registry \ gone
            c == Chat(j)
            refused == Cardinality(registry) >= MaxSessions /\ Cardinality(left) >= HardCap
        IN  /\ Sessions(c) = {}
            /\ lock' = [o \in Ids |-> IF o \in gone THEN j ELSE lock[o]]
            /\ registry' = IF refused THEN left ELSE left \cup {j}
            /\ older' = IF refused THEN Among(left) ELSE Last(left, j)
            /\ turns' = IF refused THEN turns ELSE [turns EXCEPT ![j] = stored[c]]
            /\ batches' = [batches EXCEPT
                   ![j].session = IF refused THEN 0 ELSE j,
                   ![j].at = IF refused THEN "dropped"
                             ELSE IF gone = {} THEN "waiting" ELSE "saving"]
            /\ torn' = IF ~refused /\ \E o \in Jobs : Chat(o) = c /\ InUse(o)
                       THEN torn \cup {c} ELSE torn

\* A worker takes the oldest job; handle() begins with get_or_create().
Start(j) ==
    /\ At(j, "queued")
    /\ \A i \in 1 .. j - 1 : ~At(i, "queued")
    /\ Cardinality({i \in Jobs : batches[i].at \in {"saving", "waiting", "turn"}}) < Workers
    /\ Find(j) \/ Create(j)
    /\ UNCHANGED <<stage, inbox, stored, faults>>

\* Mutant: the locks are released and nothing is saved.
SaveEvictedSkips(j, o) ==
    /\ At(j, "saving") /\ lock[o] = j
    /\ lock' = [lock EXCEPT ![o] = Free]
    /\ batches' = IF \E p \in Ids \ {o} : lock[p] = j THEN batches
                  ELSE [batches EXCEPT ![j].at = "waiting"]
    /\ UNCHANGED <<stage, inbox, sessions, turns, stored, faults, torn>>

\* The finally arm of get_or_create(), outside the registry's lock.
SaveEvicted(j, o) ==
    /\ At(j, "saving") /\ lock[o] = j
    /\ Store(o, turns[o])
    /\ lock' = [lock EXCEPT ![o] = Free]
    /\ batches' = IF \E p \in Ids \ {o} : lock[p] = j THEN batches
                  ELSE [batches EXCEPT ![j].at = "waiting"]
    /\ UNCHANGED <<stage, inbox, sessions, turns>>

\* Mutant: busy sessions are evicted too.
EvictBusy ==
    /\ stage \in {"up", "stopping"}
    /\ \E gone \in LeastActive \ {{}} :
         /\ registry' = registry \ gone /\ older' = Among(registry \ gone)
         /\ lock' = [o \in Ids |-> IF o \in gone THEN Evictor ELSE lock[o]]
    /\ UNCHANGED <<stage, inbox, batches, turns, stored, faults, torn>>

\* evict_idle(), by the eviction thread.
Evict ==
    /\ stage \in {"up", "stopping"} /\ \A o \in Ids : lock[o] # Evictor
    /\ \E K \in LeastActive :
         LET gone == {o \in K : lock[o] = Free}
         IN  /\ gone # {}
             /\ registry' = registry \ gone /\ older' = Among(registry \ gone)
             /\ lock' = [o \in Ids |-> IF o \in gone THEN Evictor ELSE lock[o]]
    /\ UNCHANGED <<stage, inbox, batches, turns, stored, faults, torn>>

EvictSaves(o) ==
    /\ stage # "down" /\ lock[o] = Evictor
    /\ Store(o, turns[o])
    /\ lock' = [lock EXCEPT ![o] = Free]
    /\ UNCHANGED <<stage, inbox, batches, sessions, turns>>

-----------------------------------------------------------------------------
(* handle(): the turn, under session.lock.  The pre-recorded message is      *)
(* never read back.                                                          *)

\* The registry is not asked again: the session may have been evicted.
TakeLock(j) ==
    /\ At(j, "waiting") /\ lock[batches[j].session] = Free
    /\ lock' = [lock EXCEPT ![batches[j].session] = j]
    /\ batches' = [batches EXCEPT ![j].at = "turn",
                                  ![j].stray = batches[j].session \notin registry]
    \* last_activity = time.monotonic()
    /\ older' = IF batches[j].session \notin registry THEN older
                ELSE Last(registry \ {batches[j].session}, batches[j].session)
    /\ UNCHANGED <<stage, inbox, registry, turns, stored, faults, torn>>

\* Refused by the guardrails, suppressed, deferred, not deliverable, or raised.
Silent(j) ==
    /\ At(j, "turn")
    /\ batches' = [batches EXCEPT ![j].at = "silent"]
    /\ lock' = [lock EXCEPT ![batches[j].session] = Free]
    /\ UNCHANGED <<stage, inbox, sessions, turns, stored, faults, torn>>

\* The reply is sent; update() and save().
Record(j) ==
    LET o == batches[j].session
    IN  /\ At(j, "turn")
        /\ turns' = [turns EXCEPT ![o] = @ \cup {j}]
        /\ Store(o, turns[o] \cup {j})
        /\ batches' = [batches EXCEPT ![j].at = "kept"]
        /\ lock' = [lock EXCEPT ![o] = Free]
        /\ UNCHANGED <<stage, inbox, sessions>>

-----------------------------------------------------------------------------
(* _handle_shutdown() *)

\* poller.stop(): the stop event and flush_all(), before the threads are joined.
Shutdown ==
    /\ stage = "up"
    /\ stage' = "stopping"
    /\ \E order \in [1 .. Cardinality(buffer) -> buffer] :
         /\ buffer = {order[i] : i \in DOMAIN order}
         /\ batches' = batches \o [i \in DOMAIN order |-> Batch(order[i])]
    /\ buffer' = {}
    /\ timers' = [c \in Chats |->
           IF c \in buffer /\ timers[c].known
           THEN [timers[c] EXCEPT !.armed = @ - 1, !.known = FALSE] ELSE timers[c]]
    /\ UNCHANGED <<arrived, sessions, turns, lock, stored, faults, torn>>

\* executor.shutdown(): from now on a submission raises.
Drain ==
    /\ stage = "stopping"
    /\ stage' = "draining"
    /\ UNCHANGED <<inbox, batches, sessions, turns, lock, stored, faults, torn>>

\* It returns when the last job has ended; save_all(), and the process ends, in
\* the middle of the eviction thread's save if there is one.
End ==
    /\ stage = "draining" /\ \A j \in Jobs : batches[j].at \in Over
    /\ stage' = "down"
    /\ \E failed \in SUBSET registry :
         /\ Cardinality(failed) <= MaxFaults - faults
         /\ faults' = faults + Cardinality(failed)
         /\ stored' = [c \in Chats |->
                IF \E o \in Sessions(c) : o \notin failed
                THEN turns[CHOOSE o \in Sessions(c) : TRUE] ELSE stored[c]]
         /\ torn' = torn \cup {Chat(o) : o \in failed \cup {p \in Jobs : lock[p] = Evictor}}
    /\ UNCHANGED <<inbox, batches, sessions, turns, lock>>

-----------------------------------------------------------------------------
SessionsInit ==
    /\ stage = "up" /\ arrived = 0
    /\ buffer = {}
    /\ timers = [c \in Chats |-> [armed |-> 0, known |-> FALSE, firing |-> 0]]
    /\ batches = <<>> /\ registry = {} /\ older = {}
    /\ turns = [o \in Ids |-> {}] /\ lock = [o \in Ids |-> Free]
    /\ stored = [c \in Chats |-> {}]
    /\ faults = 0 /\ torn = {}

Inbox(c) == Fire(c) \/ Flush(c)
Saves(j) == \E o \in Ids : SaveEvicted(j, o)
Ends(j) == Silent(j) \/ Record(j)

SessionsNext ==
    \/ \E c \in Chats : Add(c) \/ Inbox(c)
    \/ \E j \in Ids : Start(j) \/ Saves(j) \/ TakeLock(j) \/ Ends(j) \/ EvictSaves(j)
    \/ Evict \/ Shutdown \/ Drain \/ End

SessionsSpec == SessionsInit /\ [][SessionsNext]_sessionVars

\* Timers expire, threads run and turns end; nothing is assumed of the contacts,
\* of evictions and of the signal.
FairSessions ==
    /\ SessionsSpec /\ WF_sessionVars(Drain) /\ WF_sessionVars(End)
    /\ \A c \in Chats : WF_sessionVars(Inbox(c))
    /\ \A j \in Ids :
         /\ WF_sessionVars(Start(j)) /\ WF_sessionVars(Saves(j)) /\ WF_sessionVars(TakeLock(j))
         /\ WF_sessionVars(Ends(j)) /\ WF_sessionVars(EvictSaves(j))

-----------------------------------------------------------------------------
(* Properties *)

SessionsTypeOK ==
    /\ stage \in {"up", "stopping", "draining", "down"} /\ arrived \in 0 .. MaxMessages
    /\ buffer \subseteq Chats /\ timers \in [Chats -> Timers]
    /\ batches \in Seq(Job) /\ Len(batches) <= arrived
    /\ registry \subseteq Ids /\ older \subseteq registry \X registry
    /\ turns \in [Ids -> SUBSET Ids] /\ lock \in [Ids -> Ids \cup {Free, Evictor}]
    /\ stored \in [Chats -> SUBSET Ids]
    /\ faults \in 0 .. MaxFaults /\ torn \subseteq Chats

\* "Per-session threading.Lock serializes messages within the same chat"
\* (docs/ARCHITECTURE.md:1165), unless a session was evicted between its lookup
\* and its lock (handler.py:1129): no other interleaving of the lookups, the
\* cap's evictions and the eviction thread lets two turns of a chat overlap.
OverlapOnlyWhenStray ==
    \A i, j \in Ids : i # j /\ At(i, "turn") /\ At(j, "turn") /\ Chat(i) = Chat(j) =>
        /\ batches[i].session # batches[j].session
        /\ batches[i].stray \/ batches[j].stray

\* A turn that was recorded is never forgotten, by whichever path its session
\* leaves the registry and however often a save raises: the session that the
\* next message finds, or would create, remembers it, and so does the file when
\* the process has been shut down ("guaranteeing memory durability",
\* service.py:297).  Excepted are chats that had two sessions at once, and
\* sessions whose last save raised.
Remembered(c) ==
    LET held == {o \in Jobs : Chat(o) = c /\ (o \in registry \/ lock[o] # Free)}
    IN  IF stage = "down" \/ held = {} THEN stored[c] ELSE UNION {turns[o] : o \in held}
TurnsAreKept ==
    \A j \in Jobs :
        batches[j].at = "kept" /\ Chat(j) \notin torn => j \in Remembered(Chat(j))

\* Whatever was polled is handed to a worker and worked on, or the process shuts
\* down, which it does once asked to: no timer that is cancelled too late, or
\* taken out of _timers by an earlier flush, leaves a message behind, and no
\* job waits for ever for a lock that its own eviction holds.
Quiet ==
    \/ stage = "down"
    \/ stage = "up" /\ buffer = {} /\ \A j \in Jobs : batches[j].at \in Over
InboxSettles == []<>Quiet
=============================================================================
