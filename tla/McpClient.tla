------------------------------ MODULE McpClient ------------------------------
(***************************************************************************)
(* The connections to MCP servers (mcp_client.py, class MCPManager).  One  *)
(* event loop runs every coroutine, so that they interleave at awaits      *)
(* only: the heartbeat, the reconnect a tool call asks for after a         *)
(* connection error, restart(), disconnect(), and the connect_all() of     *)
(* start-up and of a server added later.  All of them change _connections; *)
(* only the first two take the server's lock.                              *)
(*                                                                         *)
(* A connection is one MCPConnection object; its transport (a socket or a  *)
(* subprocess) outlives the object's registration unless close() is        *)
(* reached.  close_all() is the end of the process and not modelled, and   *)
(* restart() is for one server at a time.                                  *)
(***************************************************************************)
EXTENDS Integers, FiniteSets

CONSTANTS
    Servers,
    Callers,         \* threads that call tools
    None,
    MaxConns,        \* bound: connection objects in existence at once
    MaxConnects,     \* bound: connect_all() calls, start-up included
    MaxBreaks,       \* bound: transports the other side drops
    MaxExpiries,     \* bound: reconnects the caller gives up after 60 s
    MaxRestarts,     \* bound: restart() calls
    MaxDisconnects   \* bound: disconnect() calls

Bounds == {"connects", "breaks", "expiries", "restarts", "overruns", "disconnects",
           "deadlines"}
Heart == "heartbeat"
Restart == "restart"
Disconnect == "disconnect"

ASSUME NamesAssumption ==
    /\ None \notin Servers \cup 1 .. MaxConns
    /\ Callers \cap {Heart, Restart, Disconnect} = {}

ASSUME BoundsAssumption ==
    {MaxConns, MaxConnects, MaxBreaks, MaxExpiries, MaxRestarts, MaxDisconnects}
        \subseteq Nat

VARIABLES
    configured,   \* servers in _configs
    registered,   \* _connections
    transport,    \* of every connection object
    lock,         \* who holds the server's entry of _reconnect_locks
    op,           \* what each coroutine or calling thread is doing
    todo,         \* the heartbeat's copy of _connections, what is left of it
    batch,        \* the tasks of a connect_all()
    ready,        \* tools_ready
    used          \* how much of each bound is used up

vars == <<configured, registered, transport, lock, op, todo, batch, ready, used>>

Conns == 1 .. MaxConns
Reconnectors == Callers \cup {Heart}

\* A lock that nobody holds is told from one that is held.
ASSUME NobodyAssumption == None \notin Reconnectors

Ops == Reconnectors \cup {Restart, Disconnect}
Idle == [pc |-> "idle", server |-> None, conn |-> None]
Out == [pc |-> "out", tries |-> 0, slow |-> FALSE, conn |-> None]

At(pc, s, c) == [pc |-> pc, server |-> s, conn |-> c]
Use(bound) == used' = [used EXCEPT ![bound] = @ + 1]

\* Somebody can still reach the object.
Held(c) ==
    \/ \E s \in Servers : registered[s] = c \/ batch[s].conn = c \/ <<s, c>> \in todo
    \/ \E p \in Ops : op[p].conn = c

Live == {"opening", "open", "broken"}
Fresh == {c \in Conns : transport[c] \notin Live /\ ~Held(c)}

\* A new MCPConnection, and the state it is in while connect() runs.
New == CHOOSE c \in Fresh : TRUE
Opens(c) == transport' = [transport EXCEPT ![c] = "opening"]
Becomes(c, state) == transport' = [transport EXCEPT ![c] = state]

-----------------------------------------------------------------------------
(* connect_all(): every server has a task of its own, with three attempts; *)
(* the calling thread waits for all of them, five seconds longer than the  *)
(* longest attempt may take.                                               *)

Connecting == \E s \in Servers : batch[s].pc /= "out"

\* Start-up has every configured server, POST /mcp/servers a new one.
ConnectAll(S) ==
    /\ ~Connecting
    /\ used["connects"] < MaxConnects
    /\ S \cap configured = {}
    /\ used["connects"] > 0 => Cardinality(S) = 1
    /\ Use("connects")
    /\ ready' = FALSE
    /\ configured' = configured \cup S
    /\ batch' = [s \in Servers |-> IF s \in S THEN [Out EXCEPT !.pc = "waiting"] ELSE Out]
    /\ UNCHANGED <<registered, transport, lock, op, todo>>

Try(s) ==
    /\ batch[s].pc = "waiting"
    /\ Fresh /= {}
    /\ batch' = [batch EXCEPT ![s].pc = "connecting", ![s].conn = New]
    /\ Opens(New)
    /\ UNCHANGED <<configured, registered, lock, op, todo, ready, used>>

TryConnects(s) ==
    /\ batch[s].pc = "connecting"
    /\ batch' = [batch EXCEPT ![s].pc = "connected"]
    /\ Becomes(batch[s].conn, "open")
    /\ UNCHANGED <<configured, registered, lock, op, todo, ready, used>>

\* A failed attempt is closed in its own task.  Errors that a retry will not
\* mend end the task; an attempt that timed out has used up the time of all.
TryFails(s, again, slow) ==
    /\ batch[s].pc = "connecting"
    /\ batch' = [batch EXCEPT ![s] =
           [pc |-> IF again /\ @.tries < 2 THEN "waiting" ELSE "failed",
            tries |-> @.tries + 1,
            slow |-> @.slow \/ slow,
            conn |-> None]]
    /\ Becomes(batch[s].conn, "closed")
    /\ UNCHANGED <<configured, registered, lock, op, todo, ready, used>>

BatchEnds ==
    /\ Connecting
    /\ \A s \in Servers : batch[s].pc \in {"out", "connected", "failed"}
    /\ registered' = [s \in Servers |->
           IF batch[s].pc = "connected" THEN batch[s].conn ELSE registered[s]]
    /\ batch' = [s \in Servers |-> Out]
    /\ ready' = TRUE
    /\ UNCHANGED <<configured, transport, lock, op, todo, used>>

\* _run() gives up: the tasks are cancelled and nobody keeps their connections.
BatchDeadline ==
    /\ \E s \in Servers : batch[s].slow /\ batch[s].pc \in {"waiting", "connecting"}
    /\ Use("deadlines")
    /\ batch' = [s \in Servers |-> Out]
    /\ ready' = TRUE
    /\ UNCHANGED <<configured, registered, transport, lock, op, todo>>

-----------------------------------------------------------------------------
(* _reconnect_server_async(), for the heartbeat and for a tool call: the   *)
(* configuration is looked up first, the lock awaited next.                *)

\* mutant: no finally
LeavesCleared(p) ==
    /\ op' = [op EXCEPT ![p] = Idle]
    /\ UNCHANGED ready

\* Where a reconnect leaves: the heartbeat goes on with its list, the caller
\* sets tools_ready in a finally.
Leaves(p) ==
    /\ op' = [op EXCEPT ![p] = Idle]
    /\ ready' = (ready \/ p \in Callers)

Reconnect(p, s) ==
    IF s \in configured
    THEN /\ op' = [op EXCEPT ![p] = At("locking", s, None)]
         /\ ready' = (ready /\ p \notin Callers)
    ELSE Leaves(p)

\* The rest of the reconnect once the old connection is out of the way.
OpensNew(p, s) ==
    /\ Fresh /= {}
    /\ op' = [op EXCEPT ![p] = At("connecting", s, New)]

\* mutants: the old connection stays registered while it is closed; the lock is
\* not awaited
TakeLockKeeps(p) ==
    LET s == op[p].server
        old == registered[s]
    IN  /\ p \in Reconnectors
        /\ op[p].pc = "locking"
        /\ lock[s] = None
        /\ lock' = [lock EXCEPT ![s] = p]
        /\ UNCHANGED registered
        /\ IF old /= None
           THEN /\ op' = [op EXCEPT ![p] = At("closing", s, old)]
                /\ UNCHANGED transport
           ELSE OpensNew(p, s) /\ Opens(New)
        /\ UNCHANGED <<configured, todo, batch, ready, used>>

TakeLockAnyway(p) ==
    LET s == op[p].server
        old == registered[s]
    IN  /\ p \in Reconnectors
        /\ op[p].pc = "locking"
        /\ lock' = [lock EXCEPT ![s] = p]
        /\ registered' = [registered EXCEPT ![s] = None]
        /\ IF old /= None
           THEN /\ op' = [op EXCEPT ![p] = At("closing", s, old)]
                /\ UNCHANGED transport
           ELSE OpensNew(p, s) /\ Opens(New)
        /\ UNCHANGED <<configured, todo, batch, ready, used>>

TakeLock(p) ==
    LET s == op[p].server
        old == registered[s]
    IN  /\ p \in Reconnectors
        /\ op[p].pc = "locking"
        /\ lock[s] = None
        /\ lock' = [lock EXCEPT ![s] = p]
        /\ registered' = [registered EXCEPT ![s] = None]
        /\ IF old /= None
           THEN /\ op' = [op EXCEPT ![p] = At("closing", s, old)]
                /\ UNCHANGED transport
           ELSE OpensNew(p, s) /\ Opens(New)
        /\ UNCHANGED <<configured, todo, batch, ready, used>>

OldClosed(p) ==
    /\ p \in Reconnectors
    /\ op[p].pc = "closing"
    /\ OpensNew(p, op[p].server)
    /\ transport' = [transport EXCEPT ![op[p].conn] = "closed", ![New] = "opening"]
    /\ UNCHANGED <<configured, registered, lock, todo, batch, ready, used>>

Reconnected(p) ==
    LET s == op[p].server
    IN  /\ p \in Reconnectors
        /\ op[p].pc = "connecting"
        /\ Becomes(op[p].conn, "open")
        /\ registered' = [registered EXCEPT ![s] = op[p].conn]
        /\ lock' = [lock EXCEPT ![s] = None]
        /\ Leaves(p)
        /\ UNCHANGED <<configured, todo, batch, used>>

\* The partial connection is closed; the server is left without one.
ReconnectFails(p) ==
    /\ p \in Reconnectors
    /\ op[p].pc = "connecting"
    /\ Becomes(op[p].conn, "closed")
    /\ lock' = [lock EXCEPT ![op[p].server] = None]
    /\ Leaves(p)
    /\ UNCHANGED <<configured, registered, todo, batch, used>>

\* _run() cancels the coroutine wherever it is: CancelledError passes every
\* "except Exception", and what it was closing or opening stays as it is.
Expires(p) ==
    /\ p \in Callers
    /\ op[p].pc \in {"locking", "closing", "connecting"}
    /\ used["expiries"] < MaxExpiries
    /\ Use("expiries")
    /\ lock' = [s \in Servers |-> IF lock[s] = p THEN None ELSE lock[s]]
    /\ Leaves(p)
    /\ UNCHANGED <<configured, registered, transport, todo, batch>>

-----------------------------------------------------------------------------
(* call_tool() on the thread of a turn.  The retry after a reconnect calls *)
(* the tool once more and changes nothing here.                            *)

Call(p, s) ==
    /\ op[p] = Idle
    /\ registered[s] /= None
    /\ op' = [op EXCEPT ![p] = At("calling", s, registered[s])]
    /\ UNCHANGED <<configured, registered, transport, lock, todo, batch, ready, used>>

\* A result, an error of the tool, a time-out, "not established".
CallEnds(p) ==
    /\ p \in Callers
    /\ op[p].pc = "calling"
    /\ op' = [op EXCEPT ![p] = Idle]
    /\ UNCHANGED <<configured, registered, transport, lock, todo, batch, ready, used>>

CallBreaks(p) ==
    /\ p \in Callers
    /\ op[p].pc = "calling"
    /\ transport[op[p].conn] \in {"broken", "closed"}
    /\ Reconnect(p, op[p].server)
    /\ UNCHANGED <<configured, registered, transport, lock, todo, batch, used>>

-----------------------------------------------------------------------------
(* _heartbeat_coro(): it pings the connections it found at the start of    *)
(* the pass, whatever has become of them since.                            *)

Beat ==
    /\ op[Heart] = Idle
    /\ todo = {}
    /\ todo' = {<<s, registered[s]>> : s \in {r \in Servers : registered[r] /= None}}
    /\ todo' /= {}
    /\ UNCHANGED <<configured, registered, transport, lock, op, batch, ready, used>>

\* The loop goes on running, and _ensure_loop() starts no second heartbeat.
HeartStops ==
    /\ op[Heart] = Idle
    /\ todo = {}
    /\ used["connects"] > 0
    /\ configured = {}
    /\ \A s \in Servers : registered[s] = None
    /\ op' = [op EXCEPT ![Heart] = At("stopped", None, None)]
    /\ UNCHANGED <<configured, registered, transport, lock, todo, batch, ready, used>>

Ping(s, c) ==
    /\ op[Heart] = Idle
    /\ <<s, c>> \in todo
    /\ todo' = todo \ {<<s, c>>}
    /\ op' = [op EXCEPT ![Heart] = At("pinging", s, c)]
    /\ UNCHANGED <<configured, registered, transport, lock, batch, ready, used>>

PingAnswered ==
    /\ op[Heart].pc = "pinging"
    /\ transport[op[Heart].conn] = "open"
    /\ op' = [op EXCEPT ![Heart] = Idle]
    /\ UNCHANGED <<configured, registered, transport, lock, todo, batch, ready, used>>

\* mutant: the failure is only logged
PingFailsLogged ==
    /\ op[Heart].pc = "pinging"
    /\ transport[op[Heart].conn] \in {"broken", "closed"}
    /\ op' = [op EXCEPT ![Heart] = Idle]
    /\ UNCHANGED <<configured, registered, transport, lock, todo, batch, ready, used>>

PingFails ==
    /\ op[Heart].pc = "pinging"
    /\ transport[op[Heart].conn] \in {"broken", "closed"}
    /\ Reconnect(Heart, op[Heart].server)
    /\ UNCHANGED <<configured, registered, transport, lock, todo, batch, used>>

-----------------------------------------------------------------------------
(* restart() of a server and disconnect(), which the operator asks for:    *)
(* neither takes the lock.                                                 *)

RestartBegins(s) ==
    /\ op[Restart] = Idle
    /\ used["restarts"] < MaxRestarts
    /\ s \in configured
    /\ Use("restarts")
    /\ ready' = FALSE
    /\ registered' = [registered EXCEPT ![s] = None]
    /\ IF registered[s] /= None
       THEN /\ op' = [op EXCEPT ![Restart] = At("closing", s, registered[s])]
            /\ UNCHANGED transport
       ELSE OpensNew(Restart, s) /\ Opens(New)
    /\ UNCHANGED <<configured, lock, todo, batch>>

\* close() ended or was given up after 10 s.  A server that was disconnected
\* meanwhile is a KeyError, which leaves tools_ready as it is.
RestartClosed(closes) ==
    LET s == op[Restart].server
        after == [transport EXCEPT ![op[Restart].conn] = IF closes THEN "closed" ELSE @]
    IN  /\ op[Restart].pc = "closing"
        /\ IF s \in configured
           THEN /\ OpensNew(Restart, s)
                /\ transport' = [after EXCEPT ![New] = "opening"]
           ELSE /\ op' = [op EXCEPT ![Restart] = Idle]
                /\ transport' = after
        /\ UNCHANGED <<configured, registered, lock, todo, batch, ready, used>>

RestartConnected ==
    /\ op[Restart].pc = "connecting"
    /\ Becomes(op[Restart].conn, "open")
    /\ registered' = [registered EXCEPT ![op[Restart].server] = op[Restart].conn]
    /\ op' = [op EXCEPT ![Restart] = Idle]
    /\ ready' = TRUE
    /\ UNCHANGED <<configured, lock, todo, batch, used>>

\* The partial connection is dropped unclosed.
RestartFails ==
    /\ op[Restart].pc = "connecting"
    /\ op' = [op EXCEPT ![Restart] = Idle]
    /\ ready' = TRUE
    /\ UNCHANGED <<configured, registered, transport, lock, todo, batch, used>>

\* The deadline of the whole restart.  It is as long as the limits of close()
\* and connect() together, so it bites when both are reached, or what they
\* cancelled is long in unwinding.  CancelledError passes "except Exception", and
\* the tools_ready.set() at the end is not reached.
RestartOverruns ==
    /\ op[Restart].pc \in {"closing", "connecting"}
    /\ Use("overruns")
    /\ op' = [op EXCEPT ![Restart] = Idle]
    /\ UNCHANGED <<configured, registered, transport, lock, todo, batch, ready>>

DisconnectBegins(s) ==
    /\ op[Disconnect] = Idle
    /\ used["disconnects"] < MaxDisconnects
    /\ s \in configured
    /\ Use("disconnects")
    /\ configured' = configured \ {s}
    /\ registered' = [registered EXCEPT ![s] = None]
    /\ op' = [op EXCEPT ![Disconnect] =
           IF registered[s] = None THEN Idle ELSE At("closing", s, registered[s])]
    /\ UNCHANGED <<transport, lock, todo, batch, ready>>

DisconnectClosed(closes) ==
    /\ op[Disconnect].pc = "closing"
    /\ op' = [op EXCEPT ![Disconnect] = Idle]
    /\ transport' = [transport EXCEPT ![op[Disconnect].conn] =
           IF closes THEN "closed" ELSE @]
    /\ UNCHANGED <<configured, registered, lock, todo, batch, ready, used>>

\* The server or the network drops an open connection.
Break(c) ==
    /\ transport[c] = "open"
    /\ used["breaks"] < MaxBreaks
    /\ Use("breaks")
    /\ Becomes(c, "broken")
    /\ UNCHANGED <<configured, registered, lock, op, todo, batch, ready>>

-----------------------------------------------------------------------------
Init ==
    /\ configured = {}
    /\ registered = [s \in Servers |-> None]
    /\ transport = [c \in Conns |-> "closed"]
    /\ lock = [s \in Servers |-> None]
    /\ op = [p \in Ops |-> Idle]
    /\ todo = {}
    /\ batch = [s \in Servers |-> Out]
    /\ ready = TRUE
    /\ used = [b \in Bounds |-> 0]

Attempt(s) ==
    Try(s) \/ TryConnects(s) \/ \E again, slow \in BOOLEAN : TryFails(s, again, slow)

Reconnecting(p) == TakeLock(p) \/ OldClosed(p) \/ Reconnected(p) \/ ReconnectFails(p)
Calling(p) == CallEnds(p) \/ CallBreaks(p)
Beating ==
    Beat \/ PingAnswered \/ PingFails \/ \E s \in Servers, c \in Conns : Ping(s, c)
Restarting ==
    RestartConnected \/ RestartFails \/ \E closes \in BOOLEAN : RestartClosed(closes)
Disconnecting == \E closes \in BOOLEAN : DisconnectClosed(closes)

Next ==
    \/ \E S \in SUBSET Servers \ {{}} : ConnectAll(S)
    \/ \E s \in Servers : Attempt(s) \/ RestartBegins(s) \/ DisconnectBegins(s)
    \/ BatchEnds \/ BatchDeadline
    \/ \E p \in Callers : Calling(p) \/ Expires(p) \/ \E s \in Servers : Call(p, s)
    \/ \E p \in Reconnectors : Reconnecting(p)
    \/ Beating \/ HeartStops
    \/ Restarting \/ RestartOverruns \/ Disconnecting
    \/ \E c \in Conns : Break(c)

Spec == Init /\ [][Next]_vars

\* The event loop runs; attempts to connect and to close come to an end
\* (connect() by its time limits, close() and the ping because the library
\* notices a dead peer); asyncio.Lock serves its waiters in turn (SF).
FairSpec ==
    /\ Spec
    /\ WF_vars(BatchEnds)
    /\ \A s \in Servers : WF_vars(Attempt(s))
    /\ \A p \in Callers : WF_vars(Calling(p))
    /\ \A p \in Reconnectors : SF_vars(Reconnecting(p))
    /\ WF_vars(Beating)
    /\ WF_vars(Restarting)
    /\ WF_vars(Disconnecting)

-----------------------------------------------------------------------------
(* Properties                                                              *)

TypeOK ==
    /\ configured \subseteq Servers
    /\ registered \in [Servers -> Conns \cup {None}]
    /\ transport \in [Conns -> Live \cup {"closed"}]
    /\ lock \in [Servers -> Reconnectors \cup {None}]
    /\ op \in [Ops ->
           [pc: {"idle", "calling", "pinging", "stopped", "locking", "closing",
                 "connecting"},
            server: Servers \cup {None}, conn: Conns \cup {None}]]
    /\ todo \subseteq Servers \X Conns
    /\ batch \in [Servers ->
           [pc: {"out", "waiting", "connecting", "connected", "failed"},
            tries: 0 .. 3, slow: BOOLEAN, conn: Conns \cup {None}]]
    /\ ready \in BOOLEAN
    /\ used \in [Bounds -> Nat]

\* Whoever looks a server up in _connections is handed a connection that this
\* side is not closing and has not closed, whichever of the five paths replaces
\* or removes it at the time.
ServedIsOpen ==
    \A s \in Servers : registered[s] /= None =>
        /\ transport[registered[s]] \in {"open", "broken"}
        /\ \A p \in Ops : op[p].conn = registered[s] => op[p].pc \in {"calling", "pinging"}

\* #427: the heartbeat and the calls that reconnect the same server at the same
\* time leave no transport behind that nobody can close.  The paths without the
\* lock, and a reconnect that is cancelled, may.
Leaked == {c \in Conns : transport[c] \in Live /\ ~Held(c)}
LockedPathsLeakNothing ==
    (\A b \in {"expiries", "restarts", "disconnects", "deadlines"} : used[b] = 0)
        => Leaked = {}

\* tools_ready, without which no model is called, does not stay cleared, however
\* connect_all(), reconnects and restarts overlap, unless a restart() was left
\* by an exception: a server was removed under it, or it ran into its overall
\* deadline.  After either the event stays cleared until the next operation
\* that sets it.
ToolsBecomeReady ==
    ~ready ~> (ready \/ used["disconnects"] > 0 \/ used["overruns"] > 0)

\* A connection the other side dropped does not stay in _connections as long as
\* the server is configured and the heartbeat runs, although each pass works on
\* a copy.
Dead(s) == registered[s] /= None /\ transport[registered[s]] = "broken"
BrokenIsDropped ==
    \A s \in Servers :
        Dead(s) ~> (~Dead(s) \/ s \notin configured \/ op[Heart].pc = "stopped")
=============================================================================
