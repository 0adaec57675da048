------------------------------- MODULE ApiTurns -------------------------------
(***************************************************************************)
(* One web session of cogtrix_core/api: the registry that warms and evicts *)
(* its live ApiSession object (session_bridge.py), the turns that REST and *)
(* WebSocket requests run on it (routes/messages.py, turn_runner.py) and   *)
(* the calls that cancel a turn or clear the history.                      *)
(*                                                                         *)
(* Everything here is a coroutine of one event loop, so a step is what runs*)
(* between two awaits; run_agent and the memory update run on threads that *)
(* a cancelled coroutine leaves behind.  A request keeps the object it was *)
(* given, whatever the registry does with it afterwards.                   *)
(*                                                                         *)
(* Abstracted: what a frame says and of which turn (one that does not end  *)
(* a turn only takes room in the queue), the answer of a request, what     *)
(* memory holds, quotas and access checks, deletion of the session.        *)
(***************************************************************************)
EXTENDS Naturals, SequencesExt

CONSTANTS
    Turns,        \* requests to run a turn, REST and WebSocket
    MaxWarms,     \* bound: ApiSession objects ever built for the session
    QueueLimit    \* maxsize of ws_queue

ASSUME ApiTurnsAssumption ==
    /\ MaxWarms \in Nat \ {0}
    /\ QueueLimit \in Nat \ {0}
    /\ "ws" \notin Turns /\ "clear" \notin Turns /\ "none" \notin Turns

Objects == 1 .. MaxWarms
NoObject == 0
None == "none"                   \* no turn
WS == "ws"                       \* the WebSocket handler of the session
Callers == Turns \cup {WS}       \* who calls get_or_warm()

\* Stages of a turn during which it is the one the session is busy with.
Owning == {"accepted", "agent", "memory", "emit", "closing"}
Over   == {"refused", "ended"}
Stages == {"new", "warming", "waiting", "held", "persist", "open"} \cup Owning \cup Over

Frames == {"token", "done", "error"}

VARIABLES
    built,        \* how many ApiSession objects were built
    cached,       \* the object in ApiSessionRegistry._sessions
    doomed,       \* an eviction has judged the session idle, and not popped it
    stage,        \* where each caller stands
    on,           \* the object each caller holds
    via,          \* "rest", "sync" (?sync=true) or "ws"
    turnTask,     \* turn_task of each object: the turn it names
    turnLock,     \* turn_lock of each object: a turn, "clear" or none
    cancelEvent,  \* cancel_event of each object
    queue,        \* ws_queue of each object
    agents,       \* turns whose run_agent() thread is running
    writers,      \* turns whose memory update thread is running
    cancelled     \* history: turns whose task was cancelled

registry == <<built, cached, doomed>>
callers  == <<stage, on, via>>
locks    == <<turnTask, turnLock, cancelEvent>>
threads  == <<agents, writers>>

vars == <<registry, callers, locks, queue, threads, cancelled>>

TypeOK ==
    /\ built \in 0 .. MaxWarms
    /\ cached \in Objects \cup {NoObject}
    /\ doomed \in BOOLEAN
    /\ stage \in [Callers -> Stages]
    /\ on \in [Callers -> Objects \cup {NoObject}]
    /\ via \in [Turns -> {"rest", "sync", "ws"}]
    /\ turnTask \in [Objects -> Turns \cup {None}]
    /\ turnLock \in [Objects -> Turns \cup {"clear", None}]
    /\ cancelEvent \in [Objects -> BOOLEAN]
    /\ queue \in [Objects -> Seq(Frames)]
    /\ \A o \in Objects : Len(queue[o]) <= QueueLimit
    /\ agents \in SUBSET Turns /\ writers \in SUBSET Turns
    /\ cancelled \in SUBSET Turns

Init ==
    /\ built = 0
    /\ cached = NoObject
    /\ doomed = FALSE
    /\ stage = [c \in Callers |-> "new"]
    /\ on = [c \in Callers |-> NoObject]
    /\ via \in [Turns -> {"rest", "sync", "ws"}]
    /\ turnTask = [o \in Objects |-> None]
    /\ turnLock = [o \in Objects |-> None]
    /\ cancelEvent = [o \in Objects |-> FALSE]
    /\ queue = [o \in Objects |-> <<>>]
    /\ agents = {} /\ writers = {} /\ cancelled = {}

-------------------------------------------------------------------------------
(* ApiSessionRegistry *)

Go(c, s) == stage' = [stage EXCEPT ![c] = s]

\* get_or_warm() hands object o to its caller, a request or the WebSocket.
Obtain(c, o) ==
    /\ on' = [on EXCEPT ![c] = o]
    /\ Go(c, IF c = WS THEN "open" ELSE "held")

Resolving(c) == stage[c] = "new" /\ (c \in Turns => via[c] # "ws")

Warming == \E c \in Callers : stage[c] = "warming"

WarmHit(c) ==
    /\ Resolving(c)
    /\ cached # NoObject
    /\ Obtain(c, cached)
    /\ UNCHANGED <<registry, via, locks, queue, threads, cancelled>>

\* The first caller builds an object, the others wait for its event.
ColdStart(c) ==
    /\ Resolving(c)
    /\ cached = NoObject
    /\ \/ ~Warming /\ built < MaxWarms /\ built' = built + 1 /\ Go(c, "warming")
       \/ Warming /\ Go(c, "waiting") /\ UNCHANGED built
    /\ UNCHANGED <<cached, doomed, on, via, locks, queue, threads, cancelled>>

\* warm_session() is done, or failed and its caller answers 404.
Warmed(c) ==
    /\ stage[c] = "warming"
    /\ \/ cached' = built /\ Obtain(c, built)
       \/ Go(c, IF c = WS THEN "new" ELSE "refused") /\ UNCHANGED <<cached, on>>
    /\ UNCHANGED <<built, doomed, via, locks, queue, threads, cancelled>>

\* A waiter takes what is cached by now, which may be nothing.
Woken(c) ==
    /\ stage[c] = "waiting"
    /\ ~Warming
    /\ \/ cached # NoObject /\ Obtain(c, cached)
       \/ cached = NoObject /\ Go(c, IF c = WS THEN "new" ELSE "refused") /\ UNCHANGED on
    /\ UNCHANGED <<registry, via, locks, queue, threads, cancelled>>

\* evict_idle() and reconcile_tools(): choose the sessions that run no turn ...
EvictCheck ==
    /\ cached # NoObject
    /\ ~doomed
    /\ turnTask[cached] = None
    /\ doomed' = TRUE
    /\ UNCHANGED <<built, cached, callers, locks, queue, threads, cancelled>>

\* ... then pop them, while the sessions chosen before are being saved.
EvictPop ==
    /\ doomed
    /\ doomed' = FALSE
    /\ cached' = NoObject
    /\ UNCHANGED <<built, callers, locks, queue, threads, cancelled>>

-------------------------------------------------------------------------------
(* Requests: send_message() and the "user_message" of the WebSocket *)

Obj(t) == on[t]

\* The handler of the WebSocket serves one message at a time.
WsBusy ==
    \E t \in Turns :
        \/ via[t] = "ws" /\ stage[t] \in {"held", "persist"}
        \/ t \in cancelled /\ stage[t] = "closing"

WsMessage(t) ==
    /\ stage[WS] = "open" /\ ~WsBusy
    /\ stage[t] = "new" /\ via[t] = "ws"
    /\ on' = [on EXCEPT ![t] = on[WS]]
    /\ Go(t, "held")
    /\ UNCHANGED <<registry, via, locks, queue, threads, cancelled>>

TakeLock(o, h) == turnLock[o] = None /\ turnLock' = [turnLock EXCEPT ![o] = h]
DropLock(o)    == turnLock' = [turnLock EXCEPT ![o] = None]

\* Mutant: the lock is taken and turn_task is not looked at.
CheckLockOnly(t) ==
    /\ stage[t] = "held"
    /\ TakeLock(Obj(t), t)
    /\ Go(t, "persist")
    /\ UNCHANGED <<registry, on, via, turnTask, cancelEvent, queue, threads, cancelled>>

\* Under turn_lock: 409 if a turn is in progress, else the message is persisted.
Check(t) ==
    /\ stage[t] = "held"
    /\ \/ /\ turnTask[Obj(t)] = None
          /\ TakeLock(Obj(t), t)
          /\ Go(t, "persist")
       \/ /\ turnTask[Obj(t)] # None
          /\ turnLock[Obj(t)] = None
          /\ Go(t, "refused")
          /\ UNCHANGED turnLock
    /\ UNCHANGED <<registry, on, via, turnTask, cancelEvent, queue, threads, cancelled>>

\* The message is stored and turn_task set, to the task that will run the turn
\* or to the sentinel of a ?sync=true request; or storing it (REST), or the
\* quota check (WebSocket), fails.
Accept(t) ==
    /\ stage[t] = "persist"
    /\ \/ Go(t, "accepted") /\ turnTask' = [turnTask EXCEPT ![Obj(t)] = t]
       \/ Go(t, "refused") /\ UNCHANGED turnTask
    /\ DropLock(Obj(t))
    /\ UNCHANGED <<registry, on, via, cancelEvent, queue, threads, cancelled>>

-------------------------------------------------------------------------------
(* The turn: run_message_turn() *)

\* Mutant: the turn runs without turn_lock.
BeginUnlocked(t) ==
    /\ stage[t] = "accepted"
    /\ Go(t, "agent")
    /\ agents' = agents \cup {t}
    /\ UNCHANGED <<registry, on, via, locks, queue, writers, cancelled>>

Begin(t) ==
    /\ stage[t] = "accepted"
    /\ TakeLock(Obj(t), t)
    /\ Go(t, "agent")
    /\ agents' = agents \cup {t}
    /\ UNCHANGED <<registry, on, via, turnTask, cancelEvent, queue, writers, cancelled>>

HasRoom(o) == Len(queue[o]) < QueueLimit

\* put_nowait(): a full queue drops the frame.
Put(q, frame) == IF Len(q) < QueueLimit THEN Append(q, frame) ELSE q

\* The agent's thread streams, whether or not its turn still waits for it.
Stream(t) ==
    /\ t \in agents
    /\ HasRoom(Obj(t))
    /\ queue' = [queue EXCEPT ![Obj(t)] = Put(@, "token")]
    /\ UNCHANGED <<registry, callers, locks, threads, cancelled>>

\* run_agent() returns and the memory update is handed to a thread; ...
AgentReturns(t) ==
    /\ stage[t] = "agent"
    /\ agents' = agents \ {t}
    /\ writers' = writers \cup {t}
    /\ Go(t, "memory")
    /\ UNCHANGED <<registry, on, via, locks, queue, cancelled>>

\* ... or raises, or a pipeline phase of a turn sees cancel_event: the frames
\* that tell so are offered to the queue and the turn unwinds.
AgentFails(t) ==
    /\ stage[t] = "agent"
    /\ agents' = agents \ {t}
    /\ Go(t, "closing")
    /\ DropLock(Obj(t))
    /\ \/ queue' = [queue EXCEPT ![Obj(t)] = Put(Put(@, "error"), "done")]
       \/ /\ cancelEvent[Obj(t)]
          /\ queue' = [queue EXCEPT ![Obj(t)] = Put(@, "error")]
    /\ UNCHANGED <<registry, on, via, turnTask, cancelEvent, writers, cancelled>>

\* The guardrails block the input before the agent runs (here: at once).
Blocked(t) ==
    /\ stage[t] = "accepted"
    /\ TakeLock(Obj(t), t)
    /\ Go(t, "emit")
    /\ UNCHANGED <<registry, on, via, turnTask, cancelEvent, queue, threads, cancelled>>

MemoryWritten(t) ==
    /\ stage[t] = "memory"
    /\ writers' = writers \ {t}
    /\ Go(t, "emit")
    /\ UNCHANGED <<registry, on, via, locks, queue, agents, cancelled>>

\* await ws_queue.put(done) waits for room, with turn_lock held.
EmitDone(t) ==
    /\ stage[t] = "emit"
    /\ HasRoom(Obj(t))
    /\ queue' = [queue EXCEPT ![Obj(t)] = Put(@, "done")]
    /\ DropLock(Obj(t))
    /\ Go(t, "closing")
    /\ UNCHANGED <<registry, on, via, turnTask, cancelEvent, threads, cancelled>>

\* The loop of send_message() reads up to the first "done", or all there is.
Drained(o) ==
    LET done == SelectInSeq(queue[o], LAMBDA frame : frame = "done")
    IN  IF done = 0 THEN <<>> ELSE SubSeq(queue[o], done + 1, Len(queue[o]))

\* Mutant: the cancellation outlives the turn.
CloseKeepsCancel(t) ==
    LET o == Obj(t) IN
    /\ stage[t] = "closing"
    /\ Go(t, "ended")
    /\ turnTask' = [turnTask EXCEPT ![o] = None]
    /\ queue' = IF via[t] = "sync" THEN [queue EXCEPT ![o] = Drained(o)] ELSE queue
    /\ UNCHANGED <<registry, on, via, turnLock, cancelEvent, threads, cancelled>>

\* The database session of the turn is closed and the reference to the turn
\* dropped.  A ?sync=true request goes on to read the queue, and whoever
\* awaited the cancelled task to clear the event, before anything else runs.
Close(t) ==
    LET o == Obj(t) IN
    /\ stage[t] = "closing"
    /\ Go(t, "ended")
    /\ turnTask' = [turnTask EXCEPT ![o] = None]
    /\ cancelEvent' = [cancelEvent EXCEPT ![o] = FALSE]
    /\ queue' = IF via[t] = "sync" THEN [queue EXCEPT ![o] = Drained(o)] ELSE queue
    /\ UNCHANGED <<registry, on, via, turnLock, threads, cancelled>>

\* The thread of a turn that was cancelled meanwhile comes to its end.
ThreadEnds(t) ==
    /\ t \in cancelled
    /\ t \in agents \cup writers
    /\ agents' = agents \ {t}
    /\ writers' = writers \ {t}
    /\ UNCHANGED <<registry, callers, locks, queue, cancelled>>

-------------------------------------------------------------------------------
(* The WebSocket and the history *)

\* Mutant: the unwinding turn does not release turn_lock.
CancelKeepsLock(t) ==
    /\ stage[WS] = "open" /\ ~WsBusy
    /\ turnTask[on[WS]] = t
    /\ cancelEvent' = [cancelEvent EXCEPT ![on[WS]] = TRUE]
    /\ via[t] # "sync"
    /\ cancelled' = cancelled \cup {t}
    /\ Go(t, "closing")
    /\ UNCHANGED <<registry, on, via, turnTask, turnLock, queue, threads>>

\* _cancel_active_turn().  A task is cancelled at the await it stands at: its
\* thread goes on without it, and only a turn that waits for run_agent() says so
\* in a frame.  The sentinel of a ?sync=true request is left to that request.
Cancel(t) ==
    LET o == on[WS] IN
    /\ stage[WS] = "open" /\ ~WsBusy
    /\ turnTask[o] = t
    /\ cancelEvent' = [cancelEvent EXCEPT ![o] = TRUE]
    /\ \/ /\ via[t] = "sync"
          /\ UNCHANGED <<cancelled, stage, turnLock, queue>>
       \/ /\ via[t] # "sync"
          /\ cancelled' = cancelled \cup {t}
          /\ Go(t, "closing")
          /\ IF turnLock[o] = t THEN DropLock(o) ELSE UNCHANGED turnLock
          /\ queue' = IF stage[t] = "agent"
                       THEN [queue EXCEPT ![o] = Put(@, "error")] ELSE queue
    /\ UNCHANGED <<registry, on, via, turnTask, threads>>

\* _drain() takes a frame for the client.
Drain ==
    /\ stage[WS] = "open"
    /\ queue[on[WS]] # <<>>
    /\ queue' = [queue EXCEPT ![on[WS]] = Tail(@)]
    /\ UNCHANGED <<registry, callers, locks, threads, cancelled>>

WsClose ==
    /\ stage[WS] = "open" /\ ~WsBusy
    /\ Go(WS, "new")
    /\ on' = [on EXCEPT ![WS] = NoObject]
    /\ UNCHANGED <<registry, via, locks, queue, threads, cancelled>>

\* clear_history() (which answers 409 while the lock is held) and
\* clear_memory() (which waits for it) work under turn_lock.
ClearBegin ==
    /\ cached # NoObject
    /\ TakeLock(cached, "clear")
    /\ UNCHANGED <<registry, callers, turnTask, cancelEvent, queue, threads, cancelled>>

ClearEnd(o) ==
    /\ turnLock[o] = "clear"
    /\ DropLock(o)
    /\ UNCHANGED <<registry, callers, turnTask, cancelEvent, queue, threads, cancelled>>

-------------------------------------------------------------------------------
Registry == \/ \E c \in Callers : WarmHit(c) \/ ColdStart(c) \/ Warmed(c) \/ Woken(c)
            \/ EvictCheck \/ EvictPop

Turn(t) ==
    \/ WsMessage(t) \/ Check(t) \/ Accept(t) \/ Begin(t) \/ Blocked(t) \/ Stream(t)
    \/ AgentReturns(t) \/ AgentFails(t) \/ MemoryWritten(t) \/ EmitDone(t)
    \/ Close(t) \/ ThreadEnds(t) \/ Cancel(t)

Next ==
    \/ Registry
    \/ \E t \in Turns : Turn(t)
    \/ Drain \/ WsClose \/ ClearBegin
    \/ \E o \in Objects : ClearEnd(o)

Spec == Init /\ [][Next]_vars

\* The event loop runs every coroutine that can run, threads and database calls
\* return, and asyncio.Lock serves its waiters in turn (SF).  Nothing obliges a
\* client to send, cancel, connect or read.
TakesLock(t) == Check(t) \/ Begin(t)
Proceeds(t) ==
    Accept(t) \/ AgentReturns(t) \/ MemoryWritten(t) \/ EmitDone(t) \/ Close(t)

Fairness ==
    /\ \A c \in Callers : WF_vars(Warmed(c)) /\ WF_vars(Woken(c))
    /\ \A t \in Turns :
        /\ SF_vars(TakesLock(t))
        /\ WF_vars(Proceeds(t))
        /\ WF_vars(ThreadEnds(t))
    /\ \A o \in Objects : WF_vars(ClearEnd(o))

FairSpec == Spec /\ Fairness

-------------------------------------------------------------------------------
(* Properties *)

\* turn_task names the turn that is in progress on the object and nothing else:
\* the 409 of a second request, the skipping of an eviction and the cancelling
\* of a turn all rely on it, while the requests' check and set are two awaits
\* apart and a finished turn resets it.
TurnTaskExact ==
    \A o \in Objects, t \in Turns :
        turnTask[o] = t <=> on[t] = o /\ stage[t] \in Owning

\* A cancellation never leaks into a later turn (send_message() and
\* _cancel_active_turn() both clear the event): it is only ever set for the
\* turn in progress.
CancelStaysInTurn ==
    \A o \in Objects : cancelEvent[o] => turnTask[o] # None

\* Whoever works on an object's memory is alone: a turn that was not cancelled
\* and runs its agent or writes memory does so while no other such turn and no
\* clearing of the history is under way on the object.
WorkIsExclusive ==
    \A t \in (agents \cup writers) \ cancelled : turnLock[Obj(t)] = t

\* A request that waits for the session or for its lock is answered, and a turn
\* once begun comes to its end, provided the queues are read: the done frame
\* waits for room with the lock held, so this is as much as the code promises.
QueuesAreRead == []<>(\A o \in Objects : HasRoom(o))

RequestsEnd ==
    QueuesAreRead =>
        \A t \in Turns : stage[t] \in {"warming", "waiting", "held"} ~> stage[t] \in Over
===============================================================================
