---------------------------- MODULE McpClientProofs ----------------------------
(***************************************************************************)
(* Proofs about McpClient, for any servers, any callers and any number of  *)
(* connections, failures, restarts and disconnections.                     *)
(*                                                                         *)
(* ServedIsOpen is not inductive.  What makes it so is ownership: a        *)
(* connection that is being opened or closed belongs to one coroutine, or  *)
(* to one task of a connect_all(), and is not registered meanwhile; the    *)
(* threads that call tools and the heartbeat's ping only borrow one.       *)
(*                                                                         *)
(* LockInv, below, is what makes LockedPathsLeakNothing inductive: while   *)
(* only the paths that take the reconnect lock run, every live transport   *)
(* is registered or in the hands of one of them.                           *)
(***************************************************************************)
EXTENDS McpClient, TLAPS

Working == {"closing", "connecting"}
Good == {"open", "broken"}

\* What a coroutine opens or closes is its own.
Owned ==
    /\ \A p \in Ops : op[p].pc \in Working =>
          /\ op[p].conn \in Conns
          /\ \A s \in Servers : registered[s] # op[p].conn /\ batch[s].conn # op[p].conn
          /\ \A q \in Ops : op[q].pc \in Working /\ op[q].conn = op[p].conn => q = p
    /\ \A p \in Ops : op[p].pc = "connecting" => transport[op[p].conn] = "opening"
    /\ \A p \in Ops : op[p].conn # None => op[p].pc \in Working \cup {"calling", "pinging"}

\* So is what a task of connect_all() opens.
BatchedAt(s) ==
    /\ batch[s].conn # None =>
          /\ batch[s].pc \in {"connecting", "connected"}
          /\ \A r \in Servers : registered[r] # batch[s].conn
          /\ \A r \in Servers : batch[r].conn = batch[s].conn => r = s
    /\ batch[s].pc = "connecting" =>
          batch[s].conn \in Conns /\ transport[batch[s].conn] = "opening"
    /\ batch[s].pc = "connected" =>
          batch[s].conn \in Conns /\ transport[batch[s].conn] \in Good
    /\ batch[s].pc \in {"waiting", "connecting"} => batch[s].tries <= 2

Batched == \A s \in Servers : BatchedAt(s)

Served ==
    \A s \in Servers : registered[s] # None =>
        /\ transport[registered[s]] \in Good
        /\ \A r \in Servers : registered[r] = registered[s] => r = s

Aimed == \A p \in Ops : op[p].pc \notin {"idle", "stopped"} => op[p].server \in Servers

ConnInv == TypeOK /\ Aimed /\ Owned /\ Batched /\ Served

-------------------------------------------------------------------------------
\* A new connection is nobody's and has no transport.
LEMMA NewIsFresh ==
    ASSUME TypeOK, Fresh # {}
    PROVE  /\ New \in Conns /\ New # None
           /\ transport[New] \notin Live
           /\ \A s \in Servers : registered[s] # New /\ batch[s].conn # New
           /\ \A p \in Ops : op[p].conn # New
<1>1. New \in Fresh
  BY DEF New
<1>2. New # None
  BY <1>1, NamesAssumption DEF Fresh, Conns
<1> QED
  BY <1>1, <1>2 DEF Fresh, Held

OpRecord ==
    [pc: {"idle", "calling", "pinging", "stopped", "locking", "closing", "connecting"},
     server: Servers \cup {None}, conn: Conns \cup {None}]
BatchRecord ==
    [pc: {"out", "waiting", "connecting", "connected", "failed"},
     tries: 0 .. 3, slow: BOOLEAN, conn: Conns \cup {None}]

LEMMA UseTyped ==
    ASSUME TypeOK, NEW b \in Bounds, Use(b) PROVE used' \in [Bounds -> Nat]
  BY DEF TypeOK, Use

LEMMA AtTyped ==
    ASSUME NEW pc \in {"calling", "pinging", "stopped", "locking", "closing", "connecting"},
           NEW s \in Servers \cup {None}, NEW c \in Conns \cup {None}
    PROVE  At(pc, s, c) \in OpRecord /\ Idle \in OpRecord
  BY DEF At, Idle, OpRecord

LEMMA WaitingTyped == [Out EXCEPT !.pc = "waiting"] \in BatchRecord /\ Out \in BatchRecord
<1>1. 0 \in 0 .. 3
  OBVIOUS
<1>2. Out \in BatchRecord
  BY <1>1, Zenon DEF BatchRecord, Out
<1> QED
  BY <1>2 DEF BatchRecord

LEMMA OpTyped ==
    ASSUME op \in [Ops -> OpRecord], NEW p \in Ops, NEW r \in OpRecord
    PROVE  [op EXCEPT ![p] = r] \in [Ops -> OpRecord]
  OBVIOUS

\* Only Batched bounds the attempts: the fourth is never made.
LEMMA TypeStep == ConnInv /\ [Next]_vars => TypeOK'
<1> SUFFICES ASSUME ConnInv, [Next]_vars PROVE TypeOK'
  OBVIOUS
<1> USE NamesAssumption DEF TypeOK, ConnInv, Ops, Reconnectors, Live
<1>1. ASSUME NEW S \in SUBSET Servers, ConnectAll(S) PROVE TypeOK'
  <2>1. [Out EXCEPT !.pc = "waiting"] \in BatchRecord /\ Out \in BatchRecord
    BY WaitingTyped
  <2>2. batch' \in [Servers -> BatchRecord]
    BY <1>1, <2>1 DEF ConnectAll
  <2> QED
    BY <1>1, <2>2, UseTyped DEF ConnectAll, BatchRecord, Bounds
<1>2. ASSUME NEW s \in Servers, Try(s) PROVE TypeOK'
  BY <1>2, NewIsFresh DEF Try, Leaves, OpensNew, Opens, Becomes, Use, At, Idle, Out
<1>3. ASSUME NEW s \in Servers, TryConnects(s) PROVE TypeOK'
  BY <1>3, ZenonT(60) DEF TryConnects, Leaves, OpensNew, Opens, Becomes, Use, At, Idle, Out
<1>4. ASSUME NEW s \in Servers, NEW again \in BOOLEAN, NEW slow \in BOOLEAN, TryFails(s, again, slow) PROVE TypeOK'
  <2>1. batch[s].tries + 1 \in 0 .. 3
    BY <1>4 DEF TryFails, Batched, BatchedAt
  <2>2. batch' \in [Servers -> BatchRecord]
    BY <1>4, <2>1 DEF TryFails, BatchRecord
  <2>3. transport' \in [Conns -> {"opening", "open", "broken"} \cup {"closed"}]
    BY <1>4 DEF TryFails, Becomes
  <2> QED
    BY <1>4, <2>2, <2>3 DEF TryFails, BatchRecord
<1>5. ASSUME BatchEnds PROVE TypeOK'
  BY <1>5 DEF BatchEnds, Leaves, OpensNew, Opens, Becomes, Use, At, Idle, Out
<1>6. ASSUME BatchDeadline PROVE TypeOK'
  BY <1>6, UseTyped DEF BatchDeadline, Out, Bounds
<1>7. ASSUME NEW p \in Callers, Expires(p) PROVE TypeOK'
  <2>1. lock' \in [Servers -> Reconnectors \cup {None}]
    BY <1>7 DEF Expires
  <2> QED
    BY <1>7, <2>1, UseTyped, AtTyped DEF Expires, Leaves, OpRecord, Bounds
<1>8. ASSUME NEW p \in Callers, NEW s \in Servers, Call(p, s) PROVE TypeOK'
  BY <1>8 DEF Call, Leaves, OpensNew, Opens, Becomes, Use, At, Idle, Out
<1>9. ASSUME NEW p \in Callers, CallEnds(p) PROVE TypeOK'
  BY <1>9 DEF CallEnds, Leaves, OpensNew, Opens, Becomes, Use, At, Idle, Out
<1>10. ASSUME NEW p \in Callers, CallBreaks(p) PROVE TypeOK'
  <2>1. ready' \in BOOLEAN
    BY <1>10 DEF CallBreaks, Reconnect, Leaves
  <2>2. op[p].server \in Servers \cup {None} /\ op \in [Ops -> OpRecord] /\ p \in Ops
    BY DEF OpRecord
  <2>3. At("locking", op[p].server, None) \in OpRecord /\ Idle \in OpRecord
    BY <2>2, AtTyped
  <2>4. op' \in {[op EXCEPT ![p] = At("locking", op[p].server, None)], [op EXCEPT ![p] = Idle]}
    BY <1>10 DEF CallBreaks, Reconnect, Leaves
  <2>5. op' \in [Ops -> OpRecord]
    BY <2>2, <2>3, <2>4, OpTyped
  <2> QED
    BY <1>10, <2>1, <2>5 DEF CallBreaks, OpRecord
<1>11. ASSUME NEW p \in Reconnectors, TakeLock(p) PROVE TypeOK'
  <2> DEFINE s == op[p].server
  <2>1. s \in Servers \cup {None} /\ op \in [Ops -> OpRecord] /\ p \in Ops
    BY DEF OpRecord
  <2>2. lock' \in [Servers -> Reconnectors \cup {None}]
    BY <1>11 DEF TakeLock
  <2>3. registered' \in [Servers -> Conns \cup {None}]
    BY <1>11 DEF TakeLock
  <2>4. op' \in [Ops -> OpRecord] /\ transport' \in [Conns -> {"opening", "open", "broken"} \cup {"closed"}]
    <3>1. CASE registered[s] # None
      <4>0. op[p].pc = "locking"
        BY <1>11 DEF TakeLock
      <4>1. registered[s] \in Conns \cup {None}
        BY <2>1, <4>0 DEF Aimed
      <4>2. At("closing", s, registered[s]) \in OpRecord
        BY <2>1, <4>1, AtTyped
      <4>3. op' = [op EXCEPT ![p] = At("closing", s, registered[s])] /\ transport' = transport
        BY <1>11, <3>1 DEF TakeLock
      <4> QED
        BY <2>1, <4>2, <4>3, OpTyped
    <3>2. CASE registered[s] = None
      <4>1. /\ Fresh # {} /\ op' = [op EXCEPT ![p] = At("connecting", s, New)]
            /\ transport' = [transport EXCEPT ![New] = "opening"]
        BY <1>11, <3>2 DEF TakeLock, OpensNew, Opens
      <4>2. New \in Conns
        BY <4>1, NewIsFresh
      <4>3. At("connecting", s, New) \in OpRecord
        BY <2>1, <4>2, AtTyped
      <4> QED
        BY <2>1, <4>1, <4>2, <4>3, OpTyped
    <3> QED
      BY <3>1, <3>2
  <2> QED
    BY <1>11, <2>2, <2>3, <2>4 DEF TakeLock, OpRecord
<1>12. ASSUME NEW p \in Reconnectors, OldClosed(p) PROVE TypeOK'
  BY <1>12, NewIsFresh DEF OldClosed, Leaves, OpensNew, Opens, Becomes, Use, At, Idle, Out
<1>13. ASSUME NEW p \in Reconnectors, Reconnected(p) PROVE TypeOK'
  BY <1>13 DEF Reconnected, Leaves, OpensNew, Opens, Becomes, Use, At, Idle, Out
<1>14. ASSUME NEW p \in Reconnectors, ReconnectFails(p) PROVE TypeOK'
  BY <1>14 DEF ReconnectFails, Leaves, OpensNew, Opens, Becomes, Use, At, Idle, Out
<1>15. ASSUME Beat PROVE TypeOK'
  BY <1>15 DEF Beat, Leaves, OpensNew, Opens, Becomes, Use, At, Idle, Out
<1>16. ASSUME HeartStops PROVE TypeOK'
  BY <1>16 DEF HeartStops, Leaves, OpensNew, Opens, Becomes, Use, At, Idle, Out
<1>17. ASSUME NEW s \in Servers, NEW c \in Conns, Ping(s, c) PROVE TypeOK'
  BY <1>17 DEF Ping, Leaves, OpensNew, Opens, Becomes, Use, At, Idle, Out
<1>18. ASSUME PingAnswered PROVE TypeOK'
  BY <1>18 DEF PingAnswered, Leaves, OpensNew, Opens, Becomes, Use, At, Idle, Out
<1>19. ASSUME PingFails PROVE TypeOK'
  BY <1>19 DEF PingFails, Reconnect, Leaves, OpensNew, Opens, Becomes, Use, At, Idle, Out
<1>20. ASSUME NEW s \in Servers, RestartBegins(s) PROVE TypeOK'
  <2>1. op \in [Ops -> OpRecord] /\ registered[s] \in Conns \cup {None}
    BY DEF OpRecord
  <2>2. used' \in [Bounds -> Nat]
    BY <1>20, UseTyped DEF RestartBegins, Bounds
  <2>3. registered' \in [Servers -> Conns \cup {None}]
    BY <1>20 DEF RestartBegins
  <2>4. op' \in [Ops -> OpRecord] /\ transport' \in [Conns -> {"opening", "open", "broken"} \cup {"closed"}]
    <3>1. CASE registered[s] # None
      <4>1. At("closing", s, registered[s]) \in OpRecord
        BY <2>1, AtTyped
      <4>2. op' = [op EXCEPT ![Restart] = At("closing", s, registered[s])] /\ transport' = transport
        BY <1>20, <3>1 DEF RestartBegins
      <4> QED
        BY <2>1, <4>1, <4>2, OpTyped
    <3>2. CASE registered[s] = None
      <4>1. /\ Fresh # {} /\ op' = [op EXCEPT ![Restart] = At("connecting", s, New)]
            /\ transport' = [transport EXCEPT ![New] = "opening"]
        BY <1>20, <3>2 DEF RestartBegins, OpensNew, Opens
      <4>2. New \in Conns
        BY <4>1, NewIsFresh
      <4>3. At("connecting", s, New) \in OpRecord
        BY <4>2, AtTyped
      <4> QED
        BY <2>1, <4>1, <4>2, <4>3, OpTyped
    <3> QED
      BY <3>1, <3>2
  <2> QED
    BY <1>20, <2>2, <2>3, <2>4 DEF RestartBegins, OpRecord
<1>21. ASSUME NEW closes \in BOOLEAN, RestartClosed(closes) PROVE TypeOK'
  BY <1>21, NewIsFresh, SMTT(40) DEF RestartClosed, Leaves, OpensNew, Opens, Becomes, Use, At, Idle, Out
<1>22. ASSUME RestartConnected PROVE TypeOK'
  BY <1>22 DEF RestartConnected, Leaves, OpensNew, Opens, Becomes, Use, At, Idle, Out
<1>23. ASSUME RestartFails PROVE TypeOK'
  BY <1>23 DEF RestartFails, Leaves, OpensNew, Opens, Becomes, Use, At, Idle, Out
<1>28. ASSUME RestartOverruns PROVE TypeOK'
  BY <1>28, UseTyped DEF RestartOverruns, Idle, Bounds
<1>24. ASSUME NEW s \in Servers, DisconnectBegins(s) PROVE TypeOK'
  BY <1>24, AtTyped, UseTyped DEF DisconnectBegins, OpRecord, Bounds
<1>25. ASSUME NEW closes \in BOOLEAN, DisconnectClosed(closes) PROVE TypeOK'
  BY <1>25 DEF DisconnectClosed, Leaves, OpensNew, Opens, Becomes, Use, At, Idle, Out
<1>26. ASSUME NEW c \in Conns, Break(c) PROVE TypeOK'
  BY <1>26, UseTyped DEF Break, Becomes, Bounds
<1>27. ASSUME UNCHANGED vars PROVE TypeOK'
  BY <1>27 DEF vars, Leaves, OpensNew, Opens, Becomes, Use, At, Idle, Out
<1> HIDE DEF TypeOK, ConnInv, Ops, Reconnectors, Live
<1> QED
  BY <1>1, <1>2, <1>3, <1>4, <1>5, <1>6, <1>7, <1>8, <1>9, <1>10, <1>11, <1>12, <1>13, <1>14, <1>15, <1>16, <1>17, <1>18, <1>19, <1>20, <1>21, <1>22, <1>23, <1>24, <1>25, <1>26, <1>27, <1>28
  DEF Next, Attempt, Calling, Reconnecting, Beating, Restarting, Disconnecting

-------------------------------------------------------------------------------
\* A step that only drops or registers what the tasks of connect_all() opened.
LEMMA OwnedKept ==
    ASSUME Owned, op' = op,
           \A r \in Servers : batch'[r].conn \in {None, batch[r].conn},
           \A r \in Servers : registered'[r] \in {registered[r], batch[r].conn},
           \A q \in Ops : op[q].pc = "connecting" => transport'[op[q].conn] = "opening"
    PROVE  Owned'
<1>1. \A q \in Ops : op[q].pc \in Working => op[q].conn # None
  BY NamesAssumption DEF Owned, Conns
<1> QED
  BY <1>1 DEF Owned

\* A step in which p takes the connection of s out of _connections.
LEMMA OwnedTaken ==
    ASSUME Owned, Served, NEW p \in Ops, NEW s \in Servers,
           op \in [Ops -> OpRecord], registered \in [Servers -> Conns \cup {None}],
           registered[s] # None,
           \A r \in Servers : batch[r].conn # registered[s] \/ batch[r].conn = None,
           op' = [op EXCEPT ![p] = At("closing", s, registered[s])],
           registered' = [registered EXCEPT ![s] = None],
           transport' = transport, batch' = batch
    PROVE  Owned'
<1>1. op'[p].pc = "closing" /\ op'[p].conn = registered[s] /\ registered[s] \in Conns
  BY DEF At
<1>2. \A q \in Ops : q # p => op'[q] = op[q]
  OBVIOUS
<1>3. \A q \in Ops : q # p /\ op'[q].pc \in Working => op'[q].conn # registered[s] /\ op'[q].conn # None
  BY <1>2, NamesAssumption DEF Owned, Conns
<1>4. \A r \in Servers : registered'[r] # registered[s] /\ registered'[r] \in {None, registered[r]}
  BY DEF Served
<1>5. \A q \in Ops : op'[q].pc \in Working =>
        /\ op'[q].conn \in Conns
        /\ \A r \in Servers : registered'[r] # op'[q].conn /\ batch'[r].conn # op'[q].conn
  BY <1>1, <1>2, <1>3, <1>4 DEF Owned
<1>6. \A q, r \in Ops : op'[q].pc \in Working /\ op'[r].pc \in Working /\ op'[q].conn = op'[r].conn => q = r
  BY <1>1, <1>2, <1>3 DEF Owned
<1>7. \A q \in Ops : op'[q].pc = "connecting" => transport'[op'[q].conn] = "opening"
  BY <1>1, <1>2 DEF Owned
<1>8. \A q \in Ops : op'[q].conn # None => op'[q].pc \in Working \cup {"calling", "pinging"}
  BY <1>1, <1>2 DEF Owned, Working
<1> QED
  BY <1>5, <1>6, <1>7, <1>8 DEF Owned

\* A step in which p begins to open a connection.
LEMMA OwnedOpened ==
    ASSUME Owned, TypeOK, NEW p \in Ops, NEW s \in Servers, Fresh # {},
           op' = [op EXCEPT ![p] = At("connecting", s, New)],
           \A r \in Servers : registered'[r] \in {None, registered[r]},
           transport' = [transport EXCEPT ![New] = "opening"], batch' = batch
    PROVE  Owned'
<1>1. op'[p].pc = "connecting" /\ op'[p].conn = New
  BY DEF At, TypeOK
<1>2. \A q \in Ops : q # p => op'[q] = op[q]
  BY DEF TypeOK
<1>3. /\ New \in Conns /\ New # None
      /\ \A r \in Servers : registered[r] # New /\ batch[r].conn # New
      /\ \A q \in Ops : op[q].conn # New
  BY NewIsFresh
<1>4. transport'[New] = "opening" /\ \A c \in Conns : c # New => transport'[c] = transport[c]
  BY <1>3 DEF TypeOK
<1>5. \A q \in Ops : op'[q].pc \in Working =>
        /\ op'[q].conn \in Conns /\ op'[q].conn # None
        /\ \A r \in Servers : registered'[r] # op'[q].conn /\ batch'[r].conn # op'[q].conn
  BY <1>1, <1>2, <1>3, NamesAssumption DEF Owned, Conns
<1>6. \A q, r \in Ops : op'[q].pc \in Working /\ op'[r].pc \in Working /\ op'[q].conn = op'[r].conn => q = r
  BY <1>1, <1>2, <1>3 DEF Owned
<1>7. \A q \in Ops : op'[q].pc = "connecting" => transport'[op'[q].conn] = "opening"
  BY <1>1, <1>2, <1>3, <1>4 DEF Owned, Working
<1>8. \A q \in Ops : op'[q].conn # None => op'[q].pc \in Working \cup {"calling", "pinging"}
  BY <1>1, <1>2 DEF Owned, Working
<1> QED
  BY <1>5, <1>6, <1>7, <1>8 DEF Owned

\* Every coroutine that works on a server works on one that exists.
LEMMA AimedStep == ConnInv /\ [Next]_vars => Aimed'
<1> SUFFICES ASSUME ConnInv, [Next]_vars PROVE Aimed'
  OBVIOUS
<1> USE NamesAssumption DEF TypeOK, ConnInv, Ops, Reconnectors, Live, Working, Good, Aimed
<1>1. ASSUME NEW S \in SUBSET Servers, ConnectAll(S) PROVE Aimed'
  BY <1>1 DEF ConnectAll, Out
<1>2. ASSUME NEW s \in Servers, Try(s) PROVE Aimed'
  BY <1>2, NewIsFresh DEF Try, Opens
<1>3. ASSUME NEW s \in Servers, TryConnects(s) PROVE Aimed'
  BY <1>3 DEF TryConnects, Becomes
<1>4. ASSUME NEW s \in Servers, NEW again \in BOOLEAN, NEW slow \in BOOLEAN, TryFails(s, again, slow) PROVE Aimed'
  BY <1>4 DEF TryFails, Becomes
<1>5. ASSUME BatchEnds PROVE Aimed'
  BY <1>5 DEF BatchEnds, Out
<1>6. ASSUME BatchDeadline PROVE Aimed'
  BY <1>6 DEF BatchDeadline, Out
<1>7. ASSUME NEW p \in Callers, Expires(p) PROVE Aimed'
  BY <1>7 DEF Expires, Leaves, Idle
<1>8. ASSUME NEW p \in Callers, NEW s \in Servers, Call(p, s) PROVE Aimed'
  BY <1>8 DEF Call, At, Idle
<1>9. ASSUME NEW p \in Callers, CallEnds(p) PROVE Aimed'
  BY <1>9 DEF CallEnds, Idle
<1>10. ASSUME NEW p \in Callers, CallBreaks(p) PROVE Aimed'
  BY <1>10 DEF CallBreaks, Reconnect, Leaves, At, Idle
<1>11. ASSUME NEW p \in Reconnectors, TakeLock(p) PROVE Aimed'
  BY <1>11, NewIsFresh DEF TakeLock, OpensNew, Opens, At
<1>12. ASSUME NEW p \in Reconnectors, OldClosed(p) PROVE Aimed'
  BY <1>12, NewIsFresh DEF OldClosed, OpensNew, At
<1>13. ASSUME NEW p \in Reconnectors, Reconnected(p) PROVE Aimed'
  BY <1>13 DEF Reconnected, Leaves, Becomes, Idle
<1>14. ASSUME NEW p \in Reconnectors, ReconnectFails(p) PROVE Aimed'
  BY <1>14 DEF ReconnectFails, Leaves, Becomes, Idle
<1>15. ASSUME Beat PROVE Aimed'
  BY <1>15 DEF Beat
<1>16. ASSUME HeartStops PROVE Aimed'
  BY <1>16 DEF HeartStops, At
<1>17. ASSUME NEW s \in Servers, NEW c \in Conns, Ping(s, c) PROVE Aimed'
  BY <1>17 DEF Ping, At, Idle
<1>18. ASSUME PingAnswered PROVE Aimed'
  BY <1>18 DEF PingAnswered, Idle
<1>19. ASSUME PingFails PROVE Aimed'
  BY <1>19 DEF PingFails, Reconnect, Leaves, At, Idle
<1>20. ASSUME NEW s \in Servers, RestartBegins(s) PROVE Aimed'
  BY <1>20, NewIsFresh DEF RestartBegins, OpensNew, Opens, At
<1>21. ASSUME NEW closes \in BOOLEAN, RestartClosed(closes) PROVE Aimed'
  BY <1>21, NewIsFresh DEF RestartClosed, OpensNew, At, Idle
<1>22. ASSUME RestartConnected PROVE Aimed'
  BY <1>22 DEF RestartConnected, Becomes, Idle
<1>23. ASSUME RestartFails PROVE Aimed'
  BY <1>23 DEF RestartFails, Idle
<1>28. ASSUME RestartOverruns PROVE Aimed'
  BY <1>28 DEF RestartOverruns, Idle
<1>24. ASSUME NEW s \in Servers, DisconnectBegins(s) PROVE Aimed'
  BY <1>24 DEF DisconnectBegins, At, Idle
<1>25. ASSUME NEW closes \in BOOLEAN, DisconnectClosed(closes) PROVE Aimed'
  BY <1>25 DEF DisconnectClosed, Idle
<1>26. ASSUME NEW c \in Conns, Break(c) PROVE Aimed'
  BY <1>26 DEF Break, Becomes
<1>27. ASSUME UNCHANGED vars PROVE Aimed'
  BY <1>27 DEF vars
<1> HIDE DEF TypeOK, ConnInv, Ops, Reconnectors, Live, Working, Good, Aimed
<1> QED
  BY <1>1, <1>2, <1>3, <1>4, <1>5, <1>6, <1>7, <1>8, <1>9, <1>10, <1>11, <1>12, <1>13,
     <1>14, <1>15, <1>16, <1>17, <1>18, <1>19, <1>20, <1>21, <1>22, <1>23, <1>24, <1>25, <1>26, <1>27, <1>28
  DEF Next, Attempt, Calling, Reconnecting, Beating, Restarting, Disconnecting

\* No step gives away what a coroutine is opening or closing.
LEMMA OwnedStep == ConnInv /\ [Next]_vars => Owned'
<1> SUFFICES ASSUME ConnInv, [Next]_vars PROVE Owned'
  OBVIOUS
<1> USE NamesAssumption DEF TypeOK, ConnInv, Ops, Reconnectors, Live, Working, Good, Owned, Batched, BatchedAt, Served, Aimed
<1>1. ASSUME NEW S \in SUBSET Servers, ConnectAll(S) PROVE Owned'
  <2>1. \A r \in Servers : batch'[r].conn \in {None, batch[r].conn}
    BY <1>1 DEF ConnectAll, Out
  <2>2. op' = op /\ transport' = transport /\ \A r \in Servers : registered'[r] \in {registered[r], batch[r].conn}
    BY <1>1 DEF ConnectAll, Out
  <2>3. \A q \in Ops : op[q].pc = "connecting" => transport'[op[q].conn] = "opening"
    BY <2>2
  <2> HIDE DEF Owned, ConnInv, Ops
  <2> QED
    BY <2>1, <2>2, <2>3, OwnedKept DEF ConnInv
<1>2. ASSUME NEW s \in Servers, Try(s) PROVE Owned'
  BY <1>2, NewIsFresh DEF Try, Opens
<1>3. ASSUME NEW s \in Servers, TryConnects(s) PROVE Owned'
  BY <1>3 DEF TryConnects, Becomes
<1>4. ASSUME NEW s \in Servers, NEW again \in BOOLEAN, NEW slow \in BOOLEAN, TryFails(s, again, slow) PROVE Owned'
  <2>1. \A r \in Servers : batch'[r].conn \in {None, batch[r].conn}
    BY <1>4 DEF TryFails
  <2>2. op' = op /\ registered' = registered
    BY <1>4 DEF TryFails
  <2>3. transport' = [transport EXCEPT ![batch[s].conn] = "closed"] /\ batch[s].conn \in Conns
    BY <1>4 DEF TryFails, Becomes
  <2>4. \A q \in Ops : op[q].pc \in Working => op[q].conn # batch[s].conn
    OBVIOUS
  <2>5. \A q \in Ops : op[q].pc = "connecting" => transport'[op[q].conn] = "opening"
    BY <2>3, <2>4
  <2> HIDE DEF Owned, ConnInv, Ops
  <2> QED
    BY <2>1, <2>2, <2>5, OwnedKept DEF ConnInv
<1>5. ASSUME BatchEnds PROVE Owned'
  <2>1. \A r \in Servers : batch'[r].conn \in {None, batch[r].conn}
    BY <1>5 DEF BatchEnds, Out
  <2>2. op' = op /\ transport' = transport /\ \A r \in Servers : registered'[r] \in {registered[r], batch[r].conn}
    BY <1>5 DEF BatchEnds, Out
  <2>3. \A q \in Ops : op[q].pc = "connecting" => transport'[op[q].conn] = "opening"
    BY <2>2
  <2> HIDE DEF Owned, ConnInv, Ops
  <2> QED
    BY <2>1, <2>2, <2>3, OwnedKept DEF ConnInv
<1>6. ASSUME BatchDeadline PROVE Owned'
  <2>1. \A r \in Servers : batch'[r].conn \in {None, batch[r].conn}
    BY <1>6 DEF BatchDeadline, Out
  <2>2. op' = op /\ transport' = transport /\ \A r \in Servers : registered'[r] \in {registered[r], batch[r].conn}
    BY <1>6 DEF BatchDeadline, Out
  <2>3. \A q \in Ops : op[q].pc = "connecting" => transport'[op[q].conn] = "opening"
    BY <2>2
  <2> HIDE DEF Owned, ConnInv, Ops
  <2> QED
    BY <2>1, <2>2, <2>3, OwnedKept DEF ConnInv
<1>7. ASSUME NEW p \in Callers, Expires(p) PROVE Owned'
  BY <1>7 DEF Expires, Leaves, Idle
<1>8. ASSUME NEW p \in Callers, NEW s \in Servers, Call(p, s) PROVE Owned'
  BY <1>8 DEF Call, At, Idle
<1>9. ASSUME NEW p \in Callers, CallEnds(p) PROVE Owned'
  BY <1>9 DEF CallEnds, Idle
<1>10. ASSUME NEW p \in Callers, CallBreaks(p) PROVE Owned'
  <2>1. op' \in {[op EXCEPT ![p] = At("locking", op[p].server, None)], [op EXCEPT ![p] = Idle]}
    BY <1>10 DEF CallBreaks, Reconnect, Leaves
  <2>2. op'[p].conn = None /\ op'[p].pc \notin Working
    BY <2>1 DEF At, Idle
  <2>3. \A q \in Ops : q # p => op'[q] = op[q]
    BY <2>1
  <2>4. UNCHANGED <<registered, transport, batch>>
    BY <1>10 DEF CallBreaks
  <2> QED
    BY <2>2, <2>3, <2>4
<1>11. ASSUME NEW p \in Reconnectors, TakeLock(p) PROVE Owned'
  <2> DEFINE s0 == op[p].server
  <2>0. s0 \in Servers /\ p \in Ops /\ op \in [Ops -> OpRecord] /\ registered \in [Servers -> Conns \cup {None}]
    BY <1>11 DEF TakeLock, OpRecord
  <2>1. registered' = [registered EXCEPT ![s0] = None] /\ UNCHANGED batch
    BY <1>11 DEF TakeLock
  <2>2. CASE registered[s0] # None
    <3>1. op' = [op EXCEPT ![p] = At("closing", s0, registered[s0])] /\ UNCHANGED transport
      BY <1>11, <2>2 DEF TakeLock
    <3>2. \A r \in Servers : batch[r].conn # registered[s0] \/ batch[r].conn = None
      BY <2>0
    <3> HIDE DEF Owned, Served, ConnInv, Ops, s0
    <3> QED
      BY <2>0, <2>1, <2>2, <3>1, <3>2, OwnedTaken DEF ConnInv
  <2>3. CASE registered[s0] = None
    <3>1. /\ Fresh # {} /\ op' = [op EXCEPT ![p] = At("connecting", s0, New)]
          /\ transport' = [transport EXCEPT ![New] = "opening"]
      BY <1>11, <2>3 DEF TakeLock, OpensNew, Opens
    <3>2. \A r \in Servers : registered'[r] \in {None, registered[r]}
      BY <2>0, <2>1
    <3> HIDE DEF Owned, Served, ConnInv, Ops, s0, TypeOK
    <3> QED
      BY <2>0, <2>1, <3>1, <3>2, OwnedOpened DEF ConnInv
  <2> QED
    BY <2>2, <2>3
<1>12. ASSUME NEW p \in Reconnectors, OldClosed(p) PROVE Owned'
  BY <1>12, NewIsFresh DEF OldClosed, OpensNew, At
<1>13. ASSUME NEW p \in Reconnectors, Reconnected(p) PROVE Owned'
  BY <1>13 DEF Reconnected, Leaves, Becomes, Idle
<1>14. ASSUME NEW p \in Reconnectors, ReconnectFails(p) PROVE Owned'
  BY <1>14 DEF ReconnectFails, Leaves, Becomes, Idle
<1>15. ASSUME Beat PROVE Owned'
  BY <1>15 DEF Beat
<1>16. ASSUME HeartStops PROVE Owned'
  BY <1>16 DEF HeartStops, At
<1>17. ASSUME NEW s \in Servers, NEW c \in Conns, Ping(s, c) PROVE Owned'
  BY <1>17 DEF Ping, At, Idle
<1>18. ASSUME PingAnswered PROVE Owned'
  BY <1>18 DEF PingAnswered, Idle
<1>19. ASSUME PingFails PROVE Owned'
  BY <1>19 DEF PingFails, Reconnect, Leaves, At, Idle
<1>20. ASSUME NEW s \in Servers, RestartBegins(s) PROVE Owned'
  <2> DEFINE s0 == s
  <2>0. s0 \in Servers /\ Restart \in Ops /\ op \in [Ops -> OpRecord] /\ registered \in [Servers -> Conns \cup {None}]
    BY <1>20 DEF RestartBegins, OpRecord
  <2>1. registered' = [registered EXCEPT ![s0] = None] /\ UNCHANGED batch
    BY <1>20 DEF RestartBegins
  <2>2. CASE registered[s0] # None
    <3>1. op' = [op EXCEPT ![Restart] = At("closing", s0, registered[s0])] /\ UNCHANGED transport
      BY <1>20, <2>2 DEF RestartBegins
    <3>2. \A r \in Servers : batch[r].conn # registered[s0] \/ batch[r].conn = None
      BY <2>0
    <3> HIDE DEF Owned, Served, ConnInv, Ops, s0
    <3> QED
      BY <2>0, <2>1, <2>2, <3>1, <3>2, OwnedTaken DEF ConnInv
  <2>3. CASE registered[s0] = None
    <3>1. /\ Fresh # {} /\ op' = [op EXCEPT ![Restart] = At("connecting", s0, New)]
          /\ transport' = [transport EXCEPT ![New] = "opening"]
      BY <1>20, <2>3 DEF RestartBegins, OpensNew, Opens
    <3>2. \A r \in Servers : registered'[r] \in {None, registered[r]}
      BY <2>0, <2>1
    <3> HIDE DEF Owned, Served, ConnInv, Ops, s0, TypeOK
    <3> QED
      BY <2>0, <2>1, <3>1, <3>2, OwnedOpened DEF ConnInv
  <2> QED
    BY <2>2, <2>3
<1>21. ASSUME NEW closes \in BOOLEAN, RestartClosed(closes) PROVE Owned'
  BY <1>21, NewIsFresh DEF RestartClosed, OpensNew, At, Idle
<1>22. ASSUME RestartConnected PROVE Owned'
  BY <1>22 DEF RestartConnected, Becomes, Idle
<1>23. ASSUME RestartFails PROVE Owned'
  BY <1>23 DEF RestartFails, Idle
<1>28. ASSUME RestartOverruns PROVE Owned'
  BY <1>28 DEF RestartOverruns, Idle
<1>24. ASSUME NEW s \in Servers, DisconnectBegins(s) PROVE Owned'
  <2>1. CASE registered[s] # None
    <3>1. op' = [op EXCEPT ![Disconnect] = At("closing", s, registered[s])]
      BY <1>24, <2>1 DEF DisconnectBegins
    <3>2. /\ registered' = [registered EXCEPT ![s] = None]
          /\ UNCHANGED <<transport, batch>>
      BY <1>24 DEF DisconnectBegins
    <3>3. /\ \A r \in Servers : batch[r].conn # registered[s] \/ batch[r].conn = None
          /\ Disconnect \in Ops /\ op \in [Ops -> OpRecord] /\ registered \in [Servers -> Conns \cup {None}]
      BY DEF OpRecord
    <3> HIDE DEF Owned, Served, ConnInv, Ops
    <3> QED
      BY <2>1, <3>1, <3>2, <3>3, OwnedTaken DEF ConnInv
  <2>2. CASE registered[s] = None
    BY <1>24, <2>2 DEF DisconnectBegins, Idle
  <2> QED
    BY <2>1, <2>2
<1>25. ASSUME NEW closes \in BOOLEAN, DisconnectClosed(closes) PROVE Owned'
  BY <1>25 DEF DisconnectClosed, Idle
<1>26. ASSUME NEW c \in Conns, Break(c) PROVE Owned'
  BY <1>26 DEF Break, Becomes
<1>27. ASSUME UNCHANGED vars PROVE Owned'
  BY <1>27 DEF vars
<1> HIDE DEF TypeOK, ConnInv, Ops, Reconnectors, Live, Working, Good, Owned, Batched, BatchedAt, Served, Aimed
<1> QED
  BY <1>1, <1>2, <1>3, <1>4, <1>5, <1>6, <1>7, <1>8, <1>9, <1>10, <1>11, <1>12, <1>13,
     <1>14, <1>15, <1>16, <1>17, <1>18, <1>19, <1>20, <1>21, <1>22, <1>23, <1>24, <1>25, <1>26, <1>27, <1>28
  DEF Next, Attempt, Calling, Reconnecting, Beating, Restarting, Disconnecting

\* Nor what a task of connect_all() has opened.
LEMMA BatchedStep == ConnInv /\ [Next]_vars => Batched'
<1> SUFFICES ASSUME ConnInv, [Next]_vars PROVE Batched'
  OBVIOUS
<1> USE NamesAssumption DEF TypeOK, ConnInv, Ops, Reconnectors, Live, Working, Good, Owned, Batched, BatchedAt, Served, Aimed
<1>1. ASSUME NEW S \in SUBSET Servers, ConnectAll(S) PROVE Batched'
  BY <1>1 DEF ConnectAll, Out
<1>2. ASSUME NEW s \in Servers, Try(s) PROVE Batched'
  BY <1>2, NewIsFresh DEF Try, Opens
<1>3. ASSUME NEW s \in Servers, TryConnects(s) PROVE Batched'
  <2>1. /\ transport' = [transport EXCEPT ![batch[s].conn] = "open"]
        /\ batch[s].conn \in Conns /\ registered' = registered
    BY <1>3 DEF TryConnects, Becomes
  <2>2. \A r \in Servers : r # s => batch'[r] = batch[r] /\ (batch[r].conn # None => batch[r].conn # batch[s].conn)
    BY <1>3, <2>1 DEF TryConnects
  <2>3. \A r \in Servers : r # s /\ batch[r].conn \in Conns => transport'[batch[r].conn] = transport[batch[r].conn]
    <3> HIDE DEF Batched, Served, Owned, Aimed, ConnInv, Ops
    <3>1. \A r \in Servers : r # s /\ batch[r].conn \in Conns => batch[r].conn # batch[s].conn
      BY <2>2, NamesAssumption DEF Conns
    <3>2. \A c \in Conns : c # batch[s].conn => transport'[c] = transport[c]
      BY <2>1
    <3> QED
      BY <3>1, <3>2
  <2>4. transport'[batch[s].conn] = "open"
    BY <2>1
  <2>5. batch'[s].pc = "connected" /\ batch'[s].conn = batch[s].conn
    BY <1>3 DEF TryConnects
  <2>0. Batched
    OBVIOUS
  <2> HIDE DEF TypeOK, Owned, Served, Aimed, ConnInv, Ops
  <2>6. ASSUME NEW r \in Servers
        PROVE  BatchedAt(r)'
    <3>1. CASE r = s
      BY <2>0, <2>1, <2>2, <2>4, <2>5, <3>1 DEF BatchedAt
    <3>2. CASE r # s
      BY <2>0, <2>1, <2>2, <2>3, <2>5, <3>2 DEF BatchedAt
    <3> QED
      BY <3>1, <3>2
  <2> QED
    BY <2>6
<1>4. ASSUME NEW s \in Servers, NEW again \in BOOLEAN, NEW slow \in BOOLEAN, TryFails(s, again, slow) PROVE Batched'
  <2>1. /\ transport' = [transport EXCEPT ![batch[s].conn] = "closed"]
        /\ batch[s].conn \in Conns /\ registered' = registered
    BY <1>4 DEF TryFails, Becomes
  <2>2. \A r \in Servers : r # s => batch'[r] = batch[r] /\ (batch[r].conn # None => batch[r].conn # batch[s].conn)
    BY <1>4, <2>1 DEF TryFails
  <2>3. \A r \in Servers : r # s /\ batch[r].conn \in Conns => transport'[batch[r].conn] = transport[batch[r].conn]
    <3> HIDE DEF Batched, Served, Owned, Aimed, ConnInv, Ops
    <3>1. \A r \in Servers : r # s /\ batch[r].conn \in Conns => batch[r].conn # batch[s].conn
      BY <2>2, NamesAssumption DEF Conns
    <3>2. \A c \in Conns : c # batch[s].conn => transport'[c] = transport[c]
      BY <2>1
    <3> QED
      BY <3>1, <3>2
  <2>4. transport'[batch[s].conn] = "closed"
    BY <2>1
  <2>5. /\ batch'[s].pc \in {"waiting", "failed"} /\ batch'[s].conn = None
        /\ batch'[s].pc = "waiting" => batch'[s].tries <= 2
    BY <1>4 DEF TryFails
  <2>0. Batched
    OBVIOUS
  <2> HIDE DEF TypeOK, Owned, Served, Aimed, ConnInv, Ops
  <2>6. ASSUME NEW r \in Servers
        PROVE  BatchedAt(r)'
    <3>1. CASE r = s
      BY <2>0, <2>1, <2>2, <2>4, <2>5, <3>1 DEF BatchedAt
    <3>2. CASE r # s
      BY <2>0, <2>1, <2>2, <2>3, <2>5, <3>2 DEF BatchedAt
    <3> QED
      BY <3>1, <3>2
  <2> QED
    BY <2>6
<1>5. ASSUME BatchEnds PROVE Batched'
  BY <1>5 DEF BatchEnds, Out
<1>6. ASSUME BatchDeadline PROVE Batched'
  BY <1>6 DEF BatchDeadline, Out
<1>7. ASSUME NEW p \in Callers, Expires(p) PROVE Batched'
  BY <1>7 DEF Expires, Leaves, Idle
<1>8. ASSUME NEW p \in Callers, NEW s \in Servers, Call(p, s) PROVE Batched'
  BY <1>8 DEF Call, At, Idle
<1>9. ASSUME NEW p \in Callers, CallEnds(p) PROVE Batched'
  BY <1>9 DEF CallEnds, Idle
<1>10. ASSUME NEW p \in Callers, CallBreaks(p) PROVE Batched'
  BY <1>10 DEF CallBreaks, Reconnect, Leaves, At, Idle
<1>11. ASSUME NEW p \in Reconnectors, TakeLock(p) PROVE Batched'
  BY <1>11, NewIsFresh DEF TakeLock, OpensNew, Opens, At
<1>12. ASSUME NEW p \in Reconnectors, OldClosed(p) PROVE Batched'
  BY <1>12, NewIsFresh DEF OldClosed, OpensNew, At
<1>13. ASSUME NEW p \in Reconnectors, Reconnected(p) PROVE Batched'
  BY <1>13 DEF Reconnected, Leaves, Becomes, Idle
<1>14. ASSUME NEW p \in Reconnectors, ReconnectFails(p) PROVE Batched'
  BY <1>14 DEF ReconnectFails, Leaves, Becomes, Idle
<1>15. ASSUME Beat PROVE Batched'
  BY <1>15 DEF Beat
<1>16. ASSUME HeartStops PROVE Batched'
  BY <1>16 DEF HeartStops, At
<1>17. ASSUME NEW s \in Servers, NEW c \in Conns, Ping(s, c) PROVE Batched'
  BY <1>17 DEF Ping, At, Idle
<1>18. ASSUME PingAnswered PROVE Batched'
  BY <1>18 DEF PingAnswered, Idle
<1>19. ASSUME PingFails PROVE Batched'
  BY <1>19 DEF PingFails, Reconnect, Leaves, At, Idle
<1>20. ASSUME NEW s \in Servers, RestartBegins(s) PROVE Batched'
  BY <1>20, NewIsFresh DEF RestartBegins, OpensNew, Opens, At
<1>21. ASSUME NEW closes \in BOOLEAN, RestartClosed(closes) PROVE Batched'
  BY <1>21, NewIsFresh DEF RestartClosed, OpensNew, At, Idle
<1>22. ASSUME RestartConnected PROVE Batched'
  BY <1>22 DEF RestartConnected, Becomes, Idle
<1>23. ASSUME RestartFails PROVE Batched'
  BY <1>23 DEF RestartFails, Idle
<1>28. ASSUME RestartOverruns PROVE Batched'
  BY <1>28 DEF RestartOverruns, Idle
<1>24. ASSUME NEW s \in Servers, DisconnectBegins(s) PROVE Batched'
  BY <1>24 DEF DisconnectBegins, At, Idle
<1>25. ASSUME NEW closes \in BOOLEAN, DisconnectClosed(closes) PROVE Batched'
  BY <1>25 DEF DisconnectClosed, Idle
<1>26. ASSUME NEW c \in Conns, Break(c) PROVE Batched'
  BY <1>26 DEF Break, Becomes
<1>27. ASSUME UNCHANGED vars PROVE Batched'
  BY <1>27 DEF vars
<1> HIDE DEF TypeOK, ConnInv, Ops, Reconnectors, Live, Working, Good, Owned, Batched, BatchedAt, Served, Aimed
<1> QED
  BY <1>1, <1>2, <1>3, <1>4, <1>5, <1>6, <1>7, <1>8, <1>9, <1>10, <1>11, <1>12, <1>13,
     <1>14, <1>15, <1>16, <1>17, <1>18, <1>19, <1>20, <1>21, <1>22, <1>23, <1>24, <1>25, <1>26, <1>27, <1>28
  DEF Next, Attempt, Calling, Reconnecting, Beating, Restarting, Disconnecting

\* A registered connection stays open until it is out of _connections.
LEMMA ServedStep == ConnInv /\ [Next]_vars => Served'
<1> SUFFICES ASSUME ConnInv, [Next]_vars PROVE Served'
  OBVIOUS
<1> USE NamesAssumption DEF TypeOK, ConnInv, Ops, Reconnectors, Live, Working, Good, Owned, Batched, BatchedAt, Served, Aimed
<1>1. ASSUME NEW S \in SUBSET Servers, ConnectAll(S) PROVE Served'
  BY <1>1 DEF ConnectAll, Out
<1>2. ASSUME NEW s \in Servers, Try(s) PROVE Served'
  BY <1>2, NewIsFresh DEF Try, Opens
<1>3. ASSUME NEW s \in Servers, TryConnects(s) PROVE Served'
  BY <1>3 DEF TryConnects, Becomes
<1>4. ASSUME NEW s \in Servers, NEW again \in BOOLEAN, NEW slow \in BOOLEAN, TryFails(s, again, slow) PROVE Served'
  BY <1>4 DEF TryFails, Becomes
<1>5. ASSUME BatchEnds PROVE Served'
  BY <1>5 DEF BatchEnds, Out
<1>6. ASSUME BatchDeadline PROVE Served'
  BY <1>6 DEF BatchDeadline, Out
<1>7. ASSUME NEW p \in Callers, Expires(p) PROVE Served'
  BY <1>7 DEF Expires, Leaves, Idle
<1>8. ASSUME NEW p \in Callers, NEW s \in Servers, Call(p, s) PROVE Served'
  BY <1>8 DEF Call, At, Idle
<1>9. ASSUME NEW p \in Callers, CallEnds(p) PROVE Served'
  BY <1>9 DEF CallEnds, Idle
<1>10. ASSUME NEW p \in Callers, CallBreaks(p) PROVE Served'
  BY <1>10 DEF CallBreaks, Reconnect, Leaves, At, Idle
<1>11. ASSUME NEW p \in Reconnectors, TakeLock(p) PROVE Served'
  BY <1>11, NewIsFresh DEF TakeLock, OpensNew, Opens, At
<1>12. ASSUME NEW p \in Reconnectors, OldClosed(p) PROVE Served'
  BY <1>12, NewIsFresh DEF OldClosed, OpensNew, At
<1>13. ASSUME NEW p \in Reconnectors, Reconnected(p) PROVE Served'
  BY <1>13 DEF Reconnected, Leaves, Becomes, Idle
<1>14. ASSUME NEW p \in Reconnectors, ReconnectFails(p) PROVE Served'
  BY <1>14 DEF ReconnectFails, Leaves, Becomes, Idle
<1>15. ASSUME Beat PROVE Served'
  BY <1>15 DEF Beat
<1>16. ASSUME HeartStops PROVE Served'
  BY <1>16 DEF HeartStops, At
<1>17. ASSUME NEW s \in Servers, NEW c \in Conns, Ping(s, c) PROVE Served'
  BY <1>17 DEF Ping, At, Idle
<1>18. ASSUME PingAnswered PROVE Served'
  BY <1>18 DEF PingAnswered, Idle
<1>19. ASSUME PingFails PROVE Served'
  BY <1>19 DEF PingFails, Reconnect, Leaves, At, Idle
<1>20. ASSUME NEW s \in Servers, RestartBegins(s) PROVE Served'
  BY <1>20, NewIsFresh DEF RestartBegins, OpensNew, Opens, At
<1>21. ASSUME NEW closes \in BOOLEAN, RestartClosed(closes) PROVE Served'
  BY <1>21, NewIsFresh DEF RestartClosed, OpensNew, At, Idle
<1>22. ASSUME RestartConnected PROVE Served'
  BY <1>22 DEF RestartConnected, Becomes, Idle
<1>23. ASSUME RestartFails PROVE Served'
  BY <1>23 DEF RestartFails, Idle
<1>28. ASSUME RestartOverruns PROVE Served'
  BY <1>28 DEF RestartOverruns, Idle
<1>24. ASSUME NEW s \in Servers, DisconnectBegins(s) PROVE Served'
  BY <1>24 DEF DisconnectBegins, At, Idle
<1>25. ASSUME NEW closes \in BOOLEAN, DisconnectClosed(closes) PROVE Served'
  BY <1>25 DEF DisconnectClosed, Idle
<1>26. ASSUME NEW c \in Conns, Break(c) PROVE Served'
  BY <1>26 DEF Break, Becomes
<1>27. ASSUME UNCHANGED vars PROVE Served'
  BY <1>27 DEF vars
<1> HIDE DEF TypeOK, ConnInv, Ops, Reconnectors, Live, Working, Good, Owned, Batched, BatchedAt, Served, Aimed
<1> QED
  BY <1>1, <1>2, <1>3, <1>4, <1>5, <1>6, <1>7, <1>8, <1>9, <1>10, <1>11, <1>12, <1>13,
     <1>14, <1>15, <1>16, <1>17, <1>18, <1>19, <1>20, <1>21, <1>22, <1>23, <1>24, <1>25, <1>26, <1>27, <1>28
  DEF Next, Attempt, Calling, Reconnecting, Beating, Restarting, Disconnecting
-------------------------------------------------------------------------------
LEMMA ConnInductive == Spec => []ConnInv
<1>1. Init => ConnInv
  <2> SUFFICES ASSUME Init PROVE ConnInv
    OBVIOUS
  <2> USE NamesAssumption DEF Init
  <2>1. Idle \in OpRecord /\ Out \in BatchRecord
    BY AtTyped, WaitingTyped DEF Conns
  <2>2. TypeOK
    <3>1. op \in [Ops -> OpRecord] /\ batch \in [Servers -> BatchRecord]
      BY <2>1
    <3>2. /\ registered \in [Servers -> Conns \cup {None}]
          /\ transport \in [Conns -> Live \cup {"closed"}]
          /\ lock \in [Servers -> Reconnectors \cup {None}]
          /\ used \in [Bounds -> Nat]
      BY DEF Live
    <3> QED
      BY <3>1, <3>2 DEF TypeOK, OpRecord, BatchRecord
  <2>3. \A p \in Ops : op[p].pc = "idle" /\ op[p].conn = None
    BY DEF Idle
  <2>4. \A s \in Servers : batch[s].pc = "out" /\ batch[s].conn = None /\ registered[s] = None
    BY DEF Out
  <2> QED
    BY <2>2, <2>3, <2>4 DEF ConnInv, Aimed, Owned, Batched, BatchedAt, Served, Working
<1>2. ConnInv /\ [Next]_vars => ConnInv'
  BY TypeStep, AimedStep, OwnedStep, BatchedStep, ServedStep DEF ConnInv
<1> QED
  BY <1>1, <1>2, PTL DEF Spec

\* Type correctness: among others, no task of connect_all() makes a fourth
\* attempt and the state of every coroutine is one its code has.
THEOREM ClientTypes == Spec => []TypeOK
<1>1. ConnInv => TypeOK
  BY DEF ConnInv
<1> QED
  BY <1>1, ConnInductive, PTL

\* Whoever looks a server up in _connections gets a connection that nobody is
\* closing and nobody has closed.
THEOREM ServedConnectionsAreOpen == Spec => []ServedIsOpen
<1>1. ConnInv => ServedIsOpen
  <2> SUFFICES ASSUME ConnInv, NEW s \in Servers, registered[s] # None
              PROVE  /\ transport[registered[s]] \in {"open", "broken"}
                     /\ \A p \in Ops : op[p].conn = registered[s] => op[p].pc \in {"calling", "pinging"}
    BY DEF ServedIsOpen
  <2> QED
    BY DEF ConnInv, Served, Owned, Good, Working
<1> QED
  BY <1>1, ConnInductive, PTL
-------------------------------------------------------------------------------
(* LockedPathsLeakNothing: as long as only the reconnects that take the lock   *)
(* and the connect_all() of new servers are at work, every transport has one   *)
(* owner (Kept), for a reconnect finds _connections empty where it registers   *)
(* (Locked) and so does a connect_all() (Joining).                             *)

LockedOnly == \A b \in {"expiries", "restarts", "disconnects", "deadlines"} : used[b] = 0

Kept(c) ==
    \/ \E s \in Servers : registered[s] = c \/ batch[s].conn = c
    \/ \E p \in Ops : op[p].pc \in Working /\ op[p].conn = c

AllKept == \A c \in Conns : transport[c] \in Live => Kept(c)

Locked ==
    \A p \in Ops : op[p].pc \in Working =>
        /\ p \in Reconnectors /\ lock[op[p].server] = p
        /\ registered[op[p].server] = None

\* Without a disconnect() whoever has to do with a server finds it configured.
Known ==
    /\ \A s \in Servers : registered[s] # None \/ batch[s].pc # "out" => s \in configured
    /\ \A x \in todo : x[1] \in configured
    /\ \A p \in Ops : op[p].server # None => op[p].server \in configured

\* Nobody has to do with a server whose first connect_all() is under way.
Joining ==
    \A s \in Servers : batch[s].pc # "out" =>
        /\ registered[s] = None
        /\ \A x \in todo : x[1] # s
        /\ \A p \in Ops : op[p].server # s

LockInv == LockedOnly => AllKept /\ Locked /\ Known /\ Joining

\* The steps that are left.
LockedNext ==
    \/ \E S \in SUBSET Servers \ {{}} : ConnectAll(S)
    \/ \E s \in Servers : Attempt(s)
    \/ BatchEnds
    \/ \E p \in Callers : Calling(p) \/ \E s \in Servers : Call(p, s)
    \/ \E p \in Reconnectors : Reconnecting(p)
    \/ Beating \/ HeartStops
    \/ \E c \in Conns : Break(c)
    \/ UNCHANGED vars

LEMMA LockedPaths ==
    ASSUME ConnInv, LockInv, [Next]_vars, LockedOnly'
    PROVE  LockedOnly /\ LockedNext
<1>1. \A b \in Bounds : used[b] \in Nat
  BY DEF ConnInv, TypeOK
<1>2. ASSUME NEW b \in Bounds, Use(b)
      PROVE  /\ b \notin {"expiries", "restarts", "disconnects", "deadlines"}
             /\ \A a \in {"expiries", "restarts", "disconnects", "deadlines"} : used[a] = 0
  BY <1>1, <1>2 DEF Use, LockedOnly, Bounds, ConnInv, TypeOK
<1>3. UNCHANGED used \/ \E b \in Bounds : Use(b)
  BY DEF Next, vars, Bounds, ConnectAll, Attempt, Try, TryConnects, TryFails, BatchEnds,
     BatchDeadline, Calling, CallEnds, CallBreaks, Expires, Call, Reconnecting, TakeLock,
     OldClosed, Reconnected, ReconnectFails, Beating, Beat, Ping, PingAnswered, PingFails,
     HeartStops, RestartBegins, Restarting, RestartClosed, RestartConnected, RestartFails,
     RestartOverruns, DisconnectBegins, Disconnecting, DisconnectClosed, Break
<1>4. LockedOnly
  BY <1>2, <1>3 DEF LockedOnly
<1>5. op[Restart].pc \notin Working /\ op[Disconnect].pc \notin Working
  BY <1>4, NamesAssumption DEF LockInv, Locked, Ops, Reconnectors, Heart, Restart, Disconnect
<1>6. ~ Restarting /\ ~ RestartOverruns /\ ~ Disconnecting
  BY <1>5 DEF Restarting, RestartClosed, RestartConnected, RestartFails, RestartOverruns, Disconnecting,
     DisconnectClosed, Working
<1>7. /\ ~ BatchDeadline
      /\ \A p \in Callers : ~ Expires(p)
      /\ \A s \in Servers : ~ RestartBegins(s) /\ ~ DisconnectBegins(s)
  BY <1>2 DEF BatchDeadline, Expires, RestartBegins, DisconnectBegins, Bounds
<1> QED
  BY <1>4, <1>6, <1>7 DEF Next, LockedNext
\* Servers are only added, and nobody picks up one that was not there.
LEMMA KnownStep ==
    ASSUME ConnInv, AllKept, Locked, Known, Joining, LockedNext PROVE Known'
<1> USE NamesAssumption DEF ConnInv, TypeOK, Aimed, Owned, Batched, BatchedAt, Ops, Reconnectors, Working, Known
<1>1. ASSUME NEW S \in SUBSET Servers, ConnectAll(S) PROVE Known'
  BY <1>1 DEF ConnectAll, Out
<1>2. ASSUME NEW s \in Servers, Try(s) PROVE Known'
  BY <1>2, NewIsFresh DEF Try, Opens
<1>3. ASSUME NEW s \in Servers, TryConnects(s) PROVE Known'
  BY <1>3 DEF TryConnects, Becomes
<1>4. ASSUME NEW s \in Servers, NEW again \in BOOLEAN, NEW slow \in BOOLEAN, TryFails(s, again, slow) PROVE Known'
  BY <1>4 DEF TryFails, Becomes
<1>5. ASSUME BatchEnds PROVE Known'
  BY <1>5 DEF BatchEnds, Out
<1>6. ASSUME NEW p \in Callers, NEW s \in Servers, Call(p, s) PROVE Known'
  BY <1>6 DEF Call, At, Idle
<1>7. ASSUME NEW p \in Callers, CallEnds(p) PROVE Known'
  BY <1>7 DEF CallEnds, Idle
<1>8. ASSUME NEW p \in Callers, CallBreaks(p) PROVE Known'
  BY <1>8 DEF CallBreaks, Reconnect, Leaves, At, Idle
<1>9. ASSUME NEW p \in Reconnectors, TakeLock(p) PROVE Known'
  BY <1>9, NewIsFresh DEF TakeLock, OpensNew, Opens, At
<1>10. ASSUME NEW p \in Reconnectors, OldClosed(p) PROVE Known'
  BY <1>10, NewIsFresh DEF OldClosed, OpensNew, At
<1>11. ASSUME NEW p \in Reconnectors, Reconnected(p) PROVE Known'
  BY <1>11 DEF Reconnected, Leaves, Becomes, Idle
<1>12. ASSUME NEW p \in Reconnectors, ReconnectFails(p) PROVE Known'
  BY <1>12 DEF ReconnectFails, Leaves, Becomes, Idle
<1>13. ASSUME Beat PROVE Known'
  BY <1>13 DEF Beat
<1>14. ASSUME NEW s \in Servers, NEW c \in Conns, Ping(s, c) PROVE Known'
  BY <1>14 DEF Ping, At, Idle
<1>15. ASSUME PingAnswered PROVE Known'
  BY <1>15 DEF PingAnswered, Idle
<1>16. ASSUME PingFails PROVE Known'
  BY <1>16 DEF PingFails, Reconnect, Leaves, At, Idle
<1>17. ASSUME HeartStops PROVE Known'
  BY <1>17 DEF HeartStops, At
<1>18. ASSUME NEW c \in Conns, Break(c) PROVE Known'
  BY <1>18 DEF Break, Becomes
<1>19. ASSUME UNCHANGED vars PROVE Known'
  BY <1>19 DEF vars
<1> HIDE DEF ConnInv, TypeOK, Aimed, Owned, Batched, BatchedAt, Ops, Reconnectors, Working, Known
<1> QED
  BY <1>1, <1>2, <1>3, <1>4, <1>5, <1>6, <1>7, <1>8, <1>9, <1>10, <1>11, <1>12, <1>13, <1>14, <1>15, <1>16, <1>17, <1>18, <1>19
  DEF LockedNext, Attempt, Calling, Reconnecting, Beating

\* A server is joined before anybody finds it, in _connections or in a list.
LEMMA JoiningStep ==
    ASSUME ConnInv, AllKept, Locked, Known, Joining, LockedNext PROVE Joining'
<1> USE NamesAssumption DEF ConnInv, TypeOK, Aimed, Owned, Batched, BatchedAt, Ops, Reconnectors, Working, Known, Joining
<1>1. ASSUME NEW S \in SUBSET Servers, ConnectAll(S) PROVE Joining'
  BY <1>1 DEF ConnectAll, Out
<1>2. ASSUME NEW s \in Servers, Try(s) PROVE Joining'
  BY <1>2, NewIsFresh DEF Try, Opens
<1>3. ASSUME NEW s \in Servers, TryConnects(s) PROVE Joining'
  BY <1>3 DEF TryConnects, Becomes
<1>4. ASSUME NEW s \in Servers, NEW again \in BOOLEAN, NEW slow \in BOOLEAN, TryFails(s, again, slow) PROVE Joining'
  BY <1>4 DEF TryFails, Becomes
<1>5. ASSUME BatchEnds PROVE Joining'
  BY <1>5 DEF BatchEnds, Out
<1>6. ASSUME NEW p \in Callers, NEW s \in Servers, Call(p, s) PROVE Joining'
  BY <1>6 DEF Call, At, Idle
<1>7. ASSUME NEW p \in Callers, CallEnds(p) PROVE Joining'
  BY <1>7 DEF CallEnds, Idle
<1>8. ASSUME NEW p \in Callers, CallBreaks(p) PROVE Joining'
  BY <1>8 DEF CallBreaks, Reconnect, Leaves, At, Idle
<1>9. ASSUME NEW p \in Reconnectors, TakeLock(p) PROVE Joining'
  BY <1>9, NewIsFresh DEF TakeLock, OpensNew, Opens, At
<1>10. ASSUME NEW p \in Reconnectors, OldClosed(p) PROVE Joining'
  BY <1>10, NewIsFresh DEF OldClosed, OpensNew, At
<1>11. ASSUME NEW p \in Reconnectors, Reconnected(p) PROVE Joining'
  BY <1>11 DEF Reconnected, Leaves, Becomes, Idle
<1>12. ASSUME NEW p \in Reconnectors, ReconnectFails(p) PROVE Joining'
  BY <1>12 DEF ReconnectFails, Leaves, Becomes, Idle
<1>13. ASSUME Beat PROVE Joining'
  BY <1>13 DEF Beat
<1>14. ASSUME NEW s \in Servers, NEW c \in Conns, Ping(s, c) PROVE Joining'
  BY <1>14 DEF Ping, At, Idle
<1>15. ASSUME PingAnswered PROVE Joining'
  BY <1>15 DEF PingAnswered, Idle
<1>16. ASSUME PingFails PROVE Joining'
  BY <1>16 DEF PingFails, Reconnect, Leaves, At, Idle
<1>17. ASSUME HeartStops PROVE Joining'
  BY <1>17 DEF HeartStops, At
<1>18. ASSUME NEW c \in Conns, Break(c) PROVE Joining'
  BY <1>18 DEF Break, Becomes
<1>19. ASSUME UNCHANGED vars PROVE Joining'
  BY <1>19 DEF vars
<1> HIDE DEF ConnInv, TypeOK, Aimed, Owned, Batched, BatchedAt, Ops, Reconnectors, Working, Known, Joining
<1> QED
  BY <1>1, <1>2, <1>3, <1>4, <1>5, <1>6, <1>7, <1>8, <1>9, <1>10, <1>11, <1>12, <1>13, <1>14, <1>15, <1>16, <1>17, <1>18, <1>19
  DEF LockedNext, Attempt, Calling, Reconnecting, Beating

\* A reconnect that closes or opens holds the lock, and nobody registers meanwhile.
LEMMA LockedStep ==
    ASSUME ConnInv, AllKept, Locked, Known, Joining, LockedNext PROVE Locked'
<1> USE NamesAssumption DEF ConnInv, TypeOK, Aimed, Owned, Batched, BatchedAt, Ops, Reconnectors, Working, Known, Joining, Locked
<1>1. ASSUME NEW S \in SUBSET Servers, ConnectAll(S) PROVE Locked'
  BY <1>1 DEF ConnectAll, Out
<1>2. ASSUME NEW s \in Servers, Try(s) PROVE Locked'
  BY <1>2, NewIsFresh DEF Try, Opens
<1>3. ASSUME NEW s \in Servers, TryConnects(s) PROVE Locked'
  BY <1>3 DEF TryConnects, Becomes
<1>4. ASSUME NEW s \in Servers, NEW again \in BOOLEAN, NEW slow \in BOOLEAN, TryFails(s, again, slow) PROVE Locked'
  BY <1>4 DEF TryFails, Becomes
<1>5. ASSUME BatchEnds PROVE Locked'
  BY <1>5 DEF BatchEnds, Out
<1>6. ASSUME NEW p \in Callers, NEW s \in Servers, Call(p, s) PROVE Locked'
  BY <1>6 DEF Call, At, Idle
<1>7. ASSUME NEW p \in Callers, CallEnds(p) PROVE Locked'
  BY <1>7 DEF CallEnds, Idle
<1>8. ASSUME NEW p \in Callers, CallBreaks(p) PROVE Locked'
  BY <1>8 DEF CallBreaks, Reconnect, Leaves, At, Idle
<1>9. ASSUME NEW p \in Reconnectors, TakeLock(p) PROVE Locked'
  BY <1>9, NewIsFresh, NobodyAssumption DEF TakeLock, OpensNew, Opens, At
<1>10. ASSUME NEW p \in Reconnectors, OldClosed(p) PROVE Locked'
  BY <1>10, NewIsFresh DEF OldClosed, OpensNew, At
<1>11. ASSUME NEW p \in Reconnectors, Reconnected(p) PROVE Locked'
  BY <1>11 DEF Reconnected, Leaves, Becomes, Idle
<1>12. ASSUME NEW p \in Reconnectors, ReconnectFails(p) PROVE Locked'
  BY <1>12 DEF ReconnectFails, Leaves, Becomes, Idle
<1>13. ASSUME Beat PROVE Locked'
  BY <1>13 DEF Beat
<1>14. ASSUME NEW s \in Servers, NEW c \in Conns, Ping(s, c) PROVE Locked'
  BY <1>14 DEF Ping, At, Idle
<1>15. ASSUME PingAnswered PROVE Locked'
  BY <1>15 DEF PingAnswered, Idle
<1>16. ASSUME PingFails PROVE Locked'
  BY <1>16 DEF PingFails, Reconnect, Leaves, At, Idle
<1>17. ASSUME HeartStops PROVE Locked'
  BY <1>17 DEF HeartStops, At
<1>18. ASSUME NEW c \in Conns, Break(c) PROVE Locked'
  BY <1>18 DEF Break, Becomes
<1>19. ASSUME UNCHANGED vars PROVE Locked'
  BY <1>19 DEF vars
<1> HIDE DEF ConnInv, TypeOK, Aimed, Owned, Batched, BatchedAt, Ops, Reconnectors, Working, Known, Joining, Locked
<1> QED
  BY <1>1, <1>2, <1>3, <1>4, <1>5, <1>6, <1>7, <1>8, <1>9, <1>10, <1>11, <1>12, <1>13, <1>14, <1>15, <1>16, <1>17, <1>18, <1>19
  DEF LockedNext, Attempt, Calling, Reconnecting, Beating

\* Every transport that is opened, or passed on, has an owner.
LEMMA KeptStep ==
    ASSUME ConnInv, AllKept, Locked, Known, Joining, LockedNext PROVE AllKept'
<1> USE NamesAssumption DEF ConnInv, TypeOK, Aimed, Owned, Batched, BatchedAt, Ops, Reconnectors, Working, Known, Joining, Locked, AllKept, Kept, Live
<1>1. ASSUME NEW S \in SUBSET Servers, ConnectAll(S) PROVE AllKept'
  <2>1. \A s \in Servers : batch[s].conn = None /\ batch'[s].conn = None
    BY <1>1 DEF ConnectAll, Connecting, Out
  <2>2. UNCHANGED <<registered, transport, op>>
    BY <1>1 DEF ConnectAll
  <2> QED
    BY <2>1, <2>2 DEF Conns
<1>2. ASSUME NEW s \in Servers, Try(s) PROVE AllKept'
  BY <1>2, NewIsFresh DEF Try, Opens
<1>3. ASSUME NEW s \in Servers, TryConnects(s) PROVE AllKept'
  BY <1>3 DEF TryConnects, Becomes
<1>4. ASSUME NEW s \in Servers, NEW again \in BOOLEAN, NEW slow \in BOOLEAN, TryFails(s, again, slow) PROVE AllKept'
  BY <1>4 DEF TryFails, Becomes
<1>5. ASSUME BatchEnds PROVE AllKept'
  <2>1. ASSUME NEW s \in Servers
        PROVE  \/ batch[s].conn = None
               \/ registered'[s] = batch[s].conn /\ batch[s].pc = "connected"
    BY <1>5, <2>1 DEF BatchEnds
  <2>2. ASSUME NEW s \in Servers PROVE registered[s] = None \/ registered'[s] = registered[s]
    BY <1>5, <2>2 DEF BatchEnds
  <2>3. UNCHANGED <<transport, op>>
    BY <1>5 DEF BatchEnds
  <2>4. ASSUME NEW c \in Conns, transport[c] \in Live PROVE Kept(c)'
    <3>1. c # None
      BY DEF Conns
    <3>2. ASSUME NEW s \in Servers, registered[s] = c \/ batch[s].conn = c
          PROVE  registered'[s] = c
      BY <2>1, <2>2, <3>1, <3>2
    <3>3. ASSUME NEW q \in Ops, op[q].pc \in Working, op[q].conn = c
          PROVE  op'[q].pc \in Working /\ op'[q].conn = c
      BY <2>3, <3>3
    <3>4. Kept(c)
      BY <2>4
    <3> HIDE DEF Ops, Working
    <3> QED
      BY <3>2, <3>3, <3>4
  <2> QED
    BY <2>3, <2>4
<1>6. ASSUME NEW p \in Callers, NEW s \in Servers, Call(p, s) PROVE AllKept'
  BY <1>6 DEF Call, At, Idle
<1>7. ASSUME NEW p \in Callers, CallEnds(p) PROVE AllKept'
  BY <1>7 DEF CallEnds, Idle
<1>8. ASSUME NEW p \in Callers, CallBreaks(p) PROVE AllKept'
  <2>1. op[p].pc = "calling" /\ UNCHANGED <<registered, transport, batch>>
    BY <1>8 DEF CallBreaks
  <2>2. \A q \in Ops : q # p => op'[q] = op[q]
    BY <1>8 DEF CallBreaks, Reconnect, Leaves
  <2> QED
    BY <2>1, <2>2
<1>9. ASSUME NEW p \in Reconnectors, TakeLock(p) PROVE AllKept'
  BY <1>9, NewIsFresh DEF TakeLock, OpensNew, Opens, At
<1>10. ASSUME NEW p \in Reconnectors, OldClosed(p) PROVE AllKept'
  BY <1>10, NewIsFresh DEF OldClosed, OpensNew, At
<1>11. ASSUME NEW p \in Reconnectors, Reconnected(p) PROVE AllKept'
  BY <1>11 DEF Reconnected, Leaves, Becomes, Idle
<1>12. ASSUME NEW p \in Reconnectors, ReconnectFails(p) PROVE AllKept'
  BY <1>12 DEF ReconnectFails, Leaves, Becomes, Idle
<1>13. ASSUME Beat PROVE AllKept'
  BY <1>13 DEF Beat
<1>14. ASSUME NEW s \in Servers, NEW c \in Conns, Ping(s, c) PROVE AllKept'
  BY <1>14 DEF Ping, At, Idle
<1>15. ASSUME PingAnswered PROVE AllKept'
  BY <1>15 DEF PingAnswered, Idle
<1>16. ASSUME PingFails PROVE AllKept'
  BY <1>16 DEF PingFails, Reconnect, Leaves, At, Idle
<1>17. ASSUME HeartStops PROVE AllKept'
  BY <1>17 DEF HeartStops, At
<1>18. ASSUME NEW c \in Conns, Break(c) PROVE AllKept'
  BY <1>18 DEF Break, Becomes
<1>19. ASSUME UNCHANGED vars PROVE AllKept'
  BY <1>19 DEF vars
<1> HIDE DEF ConnInv, TypeOK, Aimed, Owned, Batched, BatchedAt, Ops, Reconnectors, Working, Known, Joining, Locked, AllKept, Kept, Live
<1> QED
  BY <1>1, <1>2, <1>3, <1>4, <1>5, <1>6, <1>7, <1>8, <1>9, <1>10, <1>11, <1>12, <1>13, <1>14, <1>15, <1>16, <1>17, <1>18, <1>19
  DEF LockedNext, Attempt, Calling, Reconnecting, Beating

\* #427: while only reconnects under the lock and connect_all() are at work, no
\* transport is left behind, whatever the heartbeat, the calls of tools and the
\* peers do.
THEOREM LockedPathsDoNotLeak == Spec => []LockedPathsLeakNothing
<1>1. Init => LockInv
  <2> SUFFICES ASSUME Init PROVE LockInv
    OBVIOUS
  <2>1. AllKept
    BY DEF Init, AllKept, Live
  <2>2. Locked
    BY DEF Init, Locked, Working, Idle
  <2>3. Known /\ Joining
    BY DEF Init, Known, Joining, Idle, Out
  <2> QED
    BY <2>1, <2>2, <2>3 DEF LockInv
<1>2. ConnInv /\ LockInv /\ [Next]_vars => LockInv'
  BY LockedPaths, KnownStep, JoiningStep, LockedStep, KeptStep DEF LockInv
<1>3. LockInv => LockedPathsLeakNothing
  BY DEF LockInv, LockedOnly, AllKept, Kept, Held, LockedPathsLeakNothing, Leaked
<1> QED
  BY <1>1, <1>2, <1>3, ConnInductive, PTL DEF Spec
===============================================================================
