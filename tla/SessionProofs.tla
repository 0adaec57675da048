----------------------------- MODULE SessionProofs -----------------------------
(***************************************************************************)
(* Proofs about a session: ApiTurns, for any number of requests, of live   *)
(* objects of the session and any length of the queue, and Memory, for any *)
(* window, batch, limits, pool, number of turns and of upsets.  The first  *)
(* part is what the second relies on: one turn at a time works on the      *)
(* memory of an object (WorkersAreExclusive).                              *)
(*                                                                         *)
(* A request checks turn_task and sets it two awaits later; what closes    *)
(* the gap is turn_lock, which it keeps from the one to the other.  So the *)
(* invariant TurnInv says of every stage whether its turn holds the lock,  *)
(* and that turn_task is empty while a message is being persisted.         *)
(*                                                                         *)
(* No property of Memory is inductive either: a summary is stored, and     *)
(* written, by steps that know only what they were given.  MemoryInv says  *)
(* what they carry.  A job carries what it needs to cover the boundary it  *)
(* will set, a snapshot covers its own, and no boundary falls meanwhile    *)
(* (Covered); the file of the history agrees with the messages but during  *)
(* a turn, an undo or a clear (Histories); a cache, stored or to come,     *)
(* went through the replies it claims (Fitting); and the summary in memory *)
(* is in the file, or some job or save will put it there (Saving).         *)
(***************************************************************************)
EXTENDS ApiTurns, Memory, SequenceTheorems, TLAPS

Locked == {"persist", "agent", "memory", "emit"}
Placed == {"held", "persist"} \cup Owning

\* The part of TypeOK the proofs use: all but the queue.
Typed ==
    /\ built \in 0 .. MaxWarms
    /\ cached \in Objects \cup {NoObject}
    /\ stage \in [Callers -> Stages]
    /\ on \in [Callers -> Objects \cup {NoObject}]
    /\ via \in [Turns -> {"rest", "sync", "ws"}]
    /\ turnTask \in [Objects -> Turns \cup {None}]
    /\ turnLock \in [Objects -> Turns \cup {"clear", None}]
    /\ cancelEvent \in [Objects -> BOOLEAN]
    /\ agents \subseteq Turns /\ writers \subseteq Turns /\ cancelled \subseteq Turns

\* Whoever is past get_or_warm() has an object.
OnObject ==
    /\ \A t \in Turns : stage[t] \in Placed => on[t] \in Objects
    /\ stage[WS] = "open" => on[WS] \in Objects
    /\ \A c \in Callers : stage[c] = "warming" => built \in Objects

\* The lock names the turn that is at a stage which needs it.
LockExact ==
    /\ \A o \in Objects, t \in Turns :
          turnLock[o] = t <=> on[t] = o /\ stage[t] \in Locked
    /\ \A t \in Turns : stage[t] = "persist" => turnTask[on[t]] = None

\* A thread that was not left behind belongs to the stage of its turn.
ThreadsExact ==
    /\ \A t \in agents \ cancelled : stage[t] = "agent"
    /\ \A t \in writers \ cancelled : stage[t] = "memory"

TurnInv ==
    Typed /\ OnObject /\ LockExact /\ ThreadsExact /\ TurnTaskExact /\ CancelStaysInTurn

-------------------------------------------------------------------------------
\* Every stage, object and lock is of its type.
LEMMA TypedStep == TurnInv /\ [Next]_vars => Typed'
<1> SUFFICES ASSUME TurnInv, [Next]_vars PROVE Typed'
  OBVIOUS
<1> USE ApiTurnsAssumption DEF TurnInv, Typed, Objects, NoObject, None, WS, Callers, Stages, Owning, Over, OnObject, Placed
<1>1. ASSUME NEW c \in Callers, WarmHit(c) PROVE Typed'
  BY <1>1 DEF WarmHit, Resolving, Obtain, Go, registry, callers, locks, threads
<1>2. ASSUME NEW c \in Callers, ColdStart(c) PROVE Typed'
  <2>1. built' \in 0 .. MaxWarms
    BY <1>2 DEF ColdStart
  <2>2. stage' \in {[stage EXCEPT ![c] = "warming"], [stage EXCEPT ![c] = "waiting"]}
    BY <1>2 DEF ColdStart, Go
  <2>3. stage' \in [Callers -> Stages]
    BY <2>2
  <2>4. UNCHANGED <<cached, on, via, locks, threads, cancelled>>
    BY <1>2 DEF ColdStart
  <2> QED
    BY <2>1, <2>3, <2>4 DEF locks, threads
<1>3. ASSUME NEW c \in Callers, Warmed(c) PROVE Typed'
  BY <1>3, SMTT(40) DEF Warmed, Obtain, Go, registry, callers, locks, threads
<1>4. ASSUME NEW c \in Callers, Woken(c) PROVE Typed'
  BY <1>4 DEF Woken, Obtain, Go, registry, callers, locks, threads
<1>5. ASSUME EvictCheck PROVE Typed'
  BY <1>5 DEF EvictCheck, registry, callers, locks, threads
<1>6. ASSUME EvictPop PROVE Typed'
  BY <1>6 DEF EvictPop, registry, callers, locks, threads
<1>7. ASSUME NEW t \in Turns, WsMessage(t) PROVE Typed'
  BY <1>7 DEF WsMessage, Go, registry, callers, locks, threads
<1>8. ASSUME NEW t \in Turns, Check(t) PROVE Typed'
  <2>1. turnLock' \in {turnLock, [turnLock EXCEPT ![on[t]] = t]}
    BY <1>8 DEF Check, TakeLock, Obj
  <2>2. turnLock' \in [Objects -> Turns \cup {"clear", None}]
    BY <2>1
  <2>3. stage' \in {[stage EXCEPT ![t] = "persist"], [stage EXCEPT ![t] = "refused"]}
    BY <1>8 DEF Check, Go
  <2>4. stage' \in [Callers -> Stages]
    BY <2>3
  <2>5. UNCHANGED <<registry, on, via, turnTask, cancelEvent, threads, cancelled>>
    BY <1>8 DEF Check
  <2> QED
    BY <2>2, <2>4, <2>5 DEF registry, threads
<1>9. ASSUME NEW t \in Turns, Accept(t) PROVE Typed'
  <2>1. turnTask' \in {turnTask, [turnTask EXCEPT ![on[t]] = t]} /\ turnLock' = [turnLock EXCEPT ![on[t]] = None]
    BY <1>9 DEF Accept, DropLock, Obj
  <2>2. turnLock' \in [Objects -> Turns \cup {"clear", None}]
    BY <2>1
  <2>6. turnTask' \in [Objects -> Turns \cup {None}]
    BY <2>1
  <2>3. stage' \in {[stage EXCEPT ![t] = "accepted"], [stage EXCEPT ![t] = "refused"]}
    BY <1>9 DEF Accept, Go
  <2>4. stage' \in [Callers -> Stages]
    BY <2>3
  <2>5. UNCHANGED <<registry, on, via, cancelEvent, threads, cancelled>>
    BY <1>9 DEF Accept
  <2> QED
    BY <2>2, <2>4, <2>5, <2>6 DEF registry, threads
<1>10. ASSUME NEW t \in Turns, Begin(t) PROVE Typed'
  BY <1>10 DEF Begin, TakeLock, Go, Obj, registry, callers, locks, threads
<1>11. ASSUME NEW t \in Turns, Blocked(t) PROVE Typed'
  BY <1>11 DEF Blocked, TakeLock, Go, Obj, registry, callers, locks, threads
<1>12. ASSUME NEW t \in Turns, Stream(t) PROVE Typed'
  BY <1>12 DEF Stream, registry, callers, locks, threads
<1>13. ASSUME NEW t \in Turns, AgentReturns(t) PROVE Typed'
  BY <1>13 DEF AgentReturns, Go, registry, callers, locks, threads
<1>14. ASSUME NEW t \in Turns, AgentFails(t) PROVE Typed'
  BY <1>14 DEF AgentFails, DropLock, Go, Obj, registry, callers, locks, threads
<1>15. ASSUME NEW t \in Turns, MemoryWritten(t) PROVE Typed'
  BY <1>15 DEF MemoryWritten, Go, registry, callers, locks, threads
<1>16. ASSUME NEW t \in Turns, EmitDone(t) PROVE Typed'
  BY <1>16 DEF EmitDone, DropLock, Go, Obj, registry, callers, locks, threads
<1>17. ASSUME NEW t \in Turns, Close(t) PROVE Typed'
  BY <1>17 DEF Close, Go, Obj, registry, callers, locks, threads
<1>18. ASSUME NEW t \in Turns, ThreadEnds(t) PROVE Typed'
  BY <1>18 DEF ThreadEnds, registry, callers, locks, threads
<1>19. ASSUME NEW t \in Turns, Cancel(t) PROVE Typed'
  <2>1. turnLock' \in {turnLock, [turnLock EXCEPT ![on[WS]] = None]} /\ cancelEvent' = [cancelEvent EXCEPT ![on[WS]] = TRUE]
    BY <1>19 DEF Cancel, DropLock
  <2>2. turnLock' \in [Objects -> Turns \cup {"clear", None}] /\ cancelEvent' \in [Objects -> BOOLEAN]
    BY <2>1
  <2>3. stage' \in {stage, [stage EXCEPT ![t] = "closing"]} /\ cancelled' \in {cancelled, cancelled \cup {t}}
    BY <1>19 DEF Cancel, Go
  <2>4. stage' \in [Callers -> Stages] /\ cancelled' \subseteq Turns
    BY <2>3
  <2>5. UNCHANGED <<registry, on, via, turnTask, threads>>
    BY <1>19 DEF Cancel
  <2> QED
    BY <2>2, <2>4, <2>5 DEF registry, threads
<1>20. ASSUME Drain PROVE Typed'
  BY <1>20 DEF Drain, registry, callers, locks, threads
<1>21. ASSUME WsClose PROVE Typed'
  BY <1>21 DEF WsClose, Go, registry, callers, locks, threads
<1>22. ASSUME ClearBegin PROVE Typed'
  BY <1>22 DEF ClearBegin, TakeLock, registry, callers, locks, threads
<1>23. ASSUME NEW o \in Objects, ClearEnd(o) PROVE Typed'
  BY <1>23 DEF ClearEnd, DropLock, registry, callers, locks, threads
<1>24. ASSUME UNCHANGED vars PROVE Typed'
  BY <1>24 DEF vars, registry, callers, locks, threads
<1> HIDE DEF TurnInv, Typed, Objects, NoObject, None, WS, Callers, Stages, Owning, Over, OnObject, Placed
<1> QED
  BY <1>1, <1>2, <1>3, <1>4, <1>5, <1>6, <1>7, <1>8, <1>9, <1>10, <1>11, <1>12,
     <1>13, <1>14, <1>15, <1>16, <1>17, <1>18, <1>19, <1>20, <1>21, <1>22, <1>23, <1>24
  DEF Next, Registry, Turn

\* No request goes on without an object.
LEMMA OnObjectStep == TurnInv /\ [Next]_vars => OnObject'
<1> SUFFICES ASSUME TurnInv, [Next]_vars PROVE OnObject'
  OBVIOUS
<1> USE ApiTurnsAssumption DEF TurnInv, Typed, Objects, NoObject, None, WS, Callers, OnObject, Placed, Owning
<1>1. ASSUME NEW c \in Callers, WarmHit(c) PROVE OnObject'
  BY <1>1 DEF WarmHit, Resolving, Obtain, Go, registry, callers, locks, threads
<1>2. ASSUME NEW c \in Callers, ColdStart(c) PROVE OnObject'
  BY <1>2 DEF ColdStart, Resolving, Go, registry, callers, locks, threads
<1>3. ASSUME NEW c \in Callers, Warmed(c) PROVE OnObject'
  <2>1. CASE Obtain(c, built)
    BY <1>3, <2>1 DEF Warmed, Obtain, Go, locks, threads
  <2>2. CASE Go(c, IF c = WS THEN "new" ELSE "refused") /\ UNCHANGED <<cached, on>>
    BY <1>3, <2>2 DEF Warmed, Go, locks, threads
  <2> QED
    BY <1>3, <2>1, <2>2 DEF Warmed
<1>4. ASSUME NEW c \in Callers, Woken(c) PROVE OnObject'
  BY <1>4 DEF Woken, Obtain, Go, registry, callers, locks, threads
<1>5. ASSUME EvictCheck PROVE OnObject'
  BY <1>5 DEF EvictCheck, registry, callers, locks, threads
<1>6. ASSUME EvictPop PROVE OnObject'
  BY <1>6 DEF EvictPop, registry, callers, locks, threads
<1>7. ASSUME NEW t \in Turns, WsMessage(t) PROVE OnObject'
  BY <1>7 DEF WsMessage, Go, registry, callers, locks, threads
<1>8. ASSUME NEW t \in Turns, Check(t) PROVE OnObject'
  BY <1>8 DEF Check, TakeLock, Go, Obj, registry, callers, locks, threads
<1>9. ASSUME NEW t \in Turns, Accept(t) PROVE OnObject'
  BY <1>9 DEF Accept, DropLock, Go, Obj, registry, callers, locks, threads
<1>10. ASSUME NEW t \in Turns, Begin(t) PROVE OnObject'
  BY <1>10 DEF Begin, TakeLock, Go, Obj, registry, callers, locks, threads
<1>11. ASSUME NEW t \in Turns, Blocked(t) PROVE OnObject'
  BY <1>11 DEF Blocked, TakeLock, Go, Obj, registry, callers, locks, threads
<1>12. ASSUME NEW t \in Turns, Stream(t) PROVE OnObject'
  BY <1>12 DEF Stream, registry, callers, locks, threads
<1>13. ASSUME NEW t \in Turns, AgentReturns(t) PROVE OnObject'
  BY <1>13 DEF AgentReturns, Go, registry, callers, locks, threads
<1>14. ASSUME NEW t \in Turns, AgentFails(t) PROVE OnObject'
  BY <1>14 DEF AgentFails, DropLock, Go, Obj, registry, callers, locks, threads
<1>15. ASSUME NEW t \in Turns, MemoryWritten(t) PROVE OnObject'
  BY <1>15 DEF MemoryWritten, Go, registry, callers, locks, threads
<1>16. ASSUME NEW t \in Turns, EmitDone(t) PROVE OnObject'
  BY <1>16 DEF EmitDone, DropLock, Go, Obj, registry, callers, locks, threads
<1>17. ASSUME NEW t \in Turns, Close(t) PROVE OnObject'
  BY <1>17 DEF Close, Go, Obj, registry, callers, locks, threads
<1>18. ASSUME NEW t \in Turns, ThreadEnds(t) PROVE OnObject'
  BY <1>18 DEF ThreadEnds, registry, callers, locks, threads
<1>19. ASSUME NEW t \in Turns, Cancel(t) PROVE OnObject'
  <2>1. turnTask[on[WS]] = t /\ on[WS] \in Objects
    BY <1>19 DEF Cancel
  <2>2. on[t] \in Objects
    BY <2>1 DEF TurnTaskExact
  <2>3. stage' \in {stage, [stage EXCEPT ![t] = "closing"]} /\ UNCHANGED <<on, built>>
    BY <1>19 DEF Cancel, Go, registry
  <2> QED
    BY <2>2, <2>3
<1>20. ASSUME Drain PROVE OnObject'
  BY <1>20 DEF Drain, registry, callers, locks, threads
<1>21. ASSUME WsClose PROVE OnObject'
  BY <1>21 DEF WsClose, Go, registry, callers, locks, threads
<1>22. ASSUME ClearBegin PROVE OnObject'
  BY <1>22 DEF ClearBegin, TakeLock, registry, callers, locks, threads
<1>23. ASSUME NEW o \in Objects, ClearEnd(o) PROVE OnObject'
  BY <1>23 DEF ClearEnd, DropLock, registry, callers, locks, threads
<1>24. ASSUME UNCHANGED vars PROVE OnObject'
  BY <1>24 DEF vars, registry, callers, locks, threads
<1> HIDE DEF TurnInv, Typed, Objects, NoObject, None, WS, Callers, OnObject, Placed, Owning
<1> QED
  BY <1>1, <1>2, <1>3, <1>4, <1>5, <1>6, <1>7, <1>8, <1>9, <1>10, <1>11, <1>12,
     <1>13, <1>14, <1>15, <1>16, <1>17, <1>18, <1>19, <1>20, <1>21, <1>22, <1>23, <1>24
  DEF Next, Registry, Turn

\* The lock is taken and released with the stages that need it.
LEMMA LockStep == TurnInv /\ [Next]_vars => LockExact'
<1> SUFFICES ASSUME TurnInv, [Next]_vars PROVE LockExact'
  OBVIOUS
<1> USE ApiTurnsAssumption DEF TurnInv, Typed, Objects, NoObject, None, WS, Callers, OnObject, LockExact, TurnTaskExact, Placed, Locked, Owning
<1>1. ASSUME NEW c \in Callers, WarmHit(c) PROVE LockExact'
  BY <1>1 DEF WarmHit, Resolving, Obtain, Go, registry, callers, locks, threads
<1>2. ASSUME NEW c \in Callers, ColdStart(c) PROVE LockExact'
  BY <1>2 DEF ColdStart, Resolving, Go, registry, callers, locks, threads
<1>3. ASSUME NEW c \in Callers, Warmed(c) PROVE LockExact'
  <2>1. stage[c] = "warming" /\ UNCHANGED <<turnLock, turnTask>>
    BY <1>3 DEF Warmed, locks
  <2>2. /\ stage'[c] \in {"open", "new", "held", "refused"}
        /\ \A d \in Callers : d # c => stage'[d] = stage[d] /\ on'[d] = on[d]
    BY <1>3 DEF Warmed, Obtain, Go
  <2>3. ASSUME NEW o \in Objects, NEW t \in Turns
        PROVE  turnLock'[o] = t <=> on'[t] = o /\ stage'[t] \in Locked
    <3>1. CASE t = c
      BY <2>1, <2>2, <3>1
    <3>2. CASE t # c
      BY <2>1, <2>2, <3>2
    <3> QED
      BY <3>1, <3>2
  <2>4. ASSUME NEW t \in Turns, stage'[t] = "persist"
        PROVE  turnTask'[on'[t]] = None
    BY <2>1, <2>2, <2>4
  <2> QED
    BY <2>3, <2>4
<1>4. ASSUME NEW c \in Callers, Woken(c) PROVE LockExact'
  <2>1. stage[c] = "waiting" /\ UNCHANGED <<turnLock, turnTask>>
    BY <1>4 DEF Woken, locks
  <2>2. /\ stage'[c] \in {"open", "new", "held", "refused"}
        /\ \A d \in Callers : d # c => stage'[d] = stage[d] /\ on'[d] = on[d]
    BY <1>4 DEF Woken, Obtain, Go
  <2>3. ASSUME NEW o \in Objects, NEW t \in Turns
        PROVE  turnLock'[o] = t <=> on'[t] = o /\ stage'[t] \in Locked
    <3>1. CASE t = c
      BY <2>1, <2>2, <3>1
    <3>2. CASE t # c
      BY <2>1, <2>2, <3>2
    <3> QED
      BY <3>1, <3>2
  <2>4. ASSUME NEW t \in Turns, stage'[t] = "persist"
        PROVE  turnTask'[on'[t]] = None
    BY <2>1, <2>2, <2>4
  <2> QED
    BY <2>3, <2>4
<1>5. ASSUME EvictCheck PROVE LockExact'
  BY <1>5 DEF EvictCheck, registry, callers, locks, threads
<1>6. ASSUME EvictPop PROVE LockExact'
  BY <1>6 DEF EvictPop, registry, callers, locks, threads
<1>7. ASSUME NEW t \in Turns, WsMessage(t) PROVE LockExact'
  BY <1>7 DEF WsMessage, Go, registry, callers, locks, threads
<1>8. ASSUME NEW t \in Turns, Check(t) PROVE LockExact'
  BY <1>8 DEF Check, TakeLock, Go, Obj, registry, callers, locks, threads
<1>9. ASSUME NEW t \in Turns, Accept(t) PROVE LockExact'
  BY <1>9 DEF Accept, DropLock, Go, Obj, registry, callers, locks, threads
<1>10. ASSUME NEW t \in Turns, Begin(t) PROVE LockExact'
  BY <1>10 DEF Begin, TakeLock, Go, Obj, registry, callers, locks, threads
<1>11. ASSUME NEW t \in Turns, Blocked(t) PROVE LockExact'
  BY <1>11 DEF Blocked, TakeLock, Go, Obj, registry, callers, locks, threads
<1>12. ASSUME NEW t \in Turns, Stream(t) PROVE LockExact'
  BY <1>12 DEF Stream, registry, callers, locks, threads
<1>13. ASSUME NEW t \in Turns, AgentReturns(t) PROVE LockExact'
  BY <1>13 DEF AgentReturns, Go, registry, callers, locks, threads
<1>14. ASSUME NEW t \in Turns, AgentFails(t) PROVE LockExact'
  BY <1>14 DEF AgentFails, DropLock, Go, Obj, registry, callers, locks, threads
<1>15. ASSUME NEW t \in Turns, MemoryWritten(t) PROVE LockExact'
  BY <1>15 DEF MemoryWritten, Go, registry, callers, locks, threads
<1>16. ASSUME NEW t \in Turns, EmitDone(t) PROVE LockExact'
  BY <1>16 DEF EmitDone, DropLock, Go, Obj, registry, callers, locks, threads
<1>17. ASSUME NEW t \in Turns, Close(t) PROVE LockExact'
  BY <1>17 DEF Close, Go, Obj, registry, callers, locks, threads
<1>18. ASSUME NEW t \in Turns, ThreadEnds(t) PROVE LockExact'
  BY <1>18 DEF ThreadEnds, registry, callers, locks, threads
<1>19. ASSUME NEW t \in Turns, Cancel(t) PROVE LockExact'
  BY <1>19 DEF Cancel, DropLock, Go, registry, callers, locks, threads
<1>20. ASSUME Drain PROVE LockExact'
  BY <1>20 DEF Drain, registry, callers, locks, threads
<1>21. ASSUME WsClose PROVE LockExact'
  BY <1>21 DEF WsClose, Go, registry, callers, locks, threads
<1>22. ASSUME ClearBegin PROVE LockExact'
  BY <1>22 DEF ClearBegin, TakeLock, registry, callers, locks, threads
<1>23. ASSUME NEW o \in Objects, ClearEnd(o) PROVE LockExact'
  BY <1>23 DEF ClearEnd, DropLock, registry, callers, locks, threads
<1>24. ASSUME UNCHANGED vars PROVE LockExact'
  BY <1>24 DEF vars, registry, callers, locks, threads
<1> HIDE DEF TurnInv, Typed, Objects, NoObject, None, WS, Callers, OnObject, LockExact, TurnTaskExact, Placed, Locked, Owning
<1> QED
  BY <1>1, <1>2, <1>3, <1>4, <1>5, <1>6, <1>7, <1>8, <1>9, <1>10, <1>11, <1>12,
     <1>13, <1>14, <1>15, <1>16, <1>17, <1>18, <1>19, <1>20, <1>21, <1>22, <1>23, <1>24
  DEF Next, Registry, Turn

\* Only a cancellation leaves a thread behind.
LEMMA ThreadsStep == TurnInv /\ [Next]_vars => ThreadsExact'
<1> SUFFICES ASSUME TurnInv, [Next]_vars PROVE ThreadsExact'
  OBVIOUS
<1> USE ApiTurnsAssumption DEF TurnInv, Typed, Objects, NoObject, None, WS, Callers, ThreadsExact
<1>1. ASSUME NEW c \in Callers, WarmHit(c) PROVE ThreadsExact'
  BY <1>1 DEF WarmHit, Resolving, Obtain, Go, registry, callers, locks, threads
<1>2. ASSUME NEW c \in Callers, ColdStart(c) PROVE ThreadsExact'
  BY <1>2 DEF ColdStart, Resolving, Go, registry, callers, locks, threads
<1>3. ASSUME NEW c \in Callers, Warmed(c) PROVE ThreadsExact'
  BY <1>3 DEF Warmed, Obtain, Go, registry, callers, locks, threads
<1>4. ASSUME NEW c \in Callers, Woken(c) PROVE ThreadsExact'
  BY <1>4 DEF Woken, Obtain, Go, registry, callers, locks, threads
<1>5. ASSUME EvictCheck PROVE ThreadsExact'
  BY <1>5 DEF EvictCheck, registry, callers, locks, threads
<1>6. ASSUME EvictPop PROVE ThreadsExact'
  BY <1>6 DEF EvictPop, registry, callers, locks, threads
<1>7. ASSUME NEW t \in Turns, WsMessage(t) PROVE ThreadsExact'
  BY <1>7 DEF WsMessage, Go, registry, callers, locks, threads
<1>8. ASSUME NEW t \in Turns, Check(t) PROVE ThreadsExact'
  BY <1>8 DEF Check, TakeLock, Go, Obj, registry, callers, locks, threads
<1>9. ASSUME NEW t \in Turns, Accept(t) PROVE ThreadsExact'
  BY <1>9 DEF Accept, DropLock, Go, Obj, registry, callers, locks, threads
<1>10. ASSUME NEW t \in Turns, Begin(t) PROVE ThreadsExact'
  BY <1>10 DEF Begin, TakeLock, Go, Obj, registry, callers, locks, threads
<1>11. ASSUME NEW t \in Turns, Blocked(t) PROVE ThreadsExact'
  BY <1>11 DEF Blocked, TakeLock, Go, Obj, registry, callers, locks, threads
<1>12. ASSUME NEW t \in Turns, Stream(t) PROVE ThreadsExact'
  BY <1>12 DEF Stream, registry, callers, locks, threads
<1>13. ASSUME NEW t \in Turns, AgentReturns(t) PROVE ThreadsExact'
  BY <1>13 DEF AgentReturns, Go, registry, callers, locks, threads
<1>14. ASSUME NEW t \in Turns, AgentFails(t) PROVE ThreadsExact'
  BY <1>14 DEF AgentFails, DropLock, Go, Obj, registry, callers, locks, threads
<1>15. ASSUME NEW t \in Turns, MemoryWritten(t) PROVE ThreadsExact'
  BY <1>15 DEF MemoryWritten, Go, registry, callers, locks, threads
<1>16. ASSUME NEW t \in Turns, EmitDone(t) PROVE ThreadsExact'
  BY <1>16 DEF EmitDone, DropLock, Go, Obj, registry, callers, locks, threads
<1>17. ASSUME NEW t \in Turns, Close(t) PROVE ThreadsExact'
  BY <1>17 DEF Close, Go, Obj, registry, callers, locks, threads
<1>18. ASSUME NEW t \in Turns, ThreadEnds(t) PROVE ThreadsExact'
  BY <1>18 DEF ThreadEnds, registry, callers, locks, threads
<1>19. ASSUME NEW t \in Turns, Cancel(t) PROVE ThreadsExact'
  BY <1>19 DEF Cancel, DropLock, Go, registry, callers, locks, threads
<1>20. ASSUME Drain PROVE ThreadsExact'
  BY <1>20 DEF Drain, registry, callers, locks, threads
<1>21. ASSUME WsClose PROVE ThreadsExact'
  BY <1>21 DEF WsClose, Go, registry, callers, locks, threads
<1>22. ASSUME ClearBegin PROVE ThreadsExact'
  BY <1>22 DEF ClearBegin, TakeLock, registry, callers, locks, threads
<1>23. ASSUME NEW o \in Objects, ClearEnd(o) PROVE ThreadsExact'
  BY <1>23 DEF ClearEnd, DropLock, registry, callers, locks, threads
<1>24. ASSUME UNCHANGED vars PROVE ThreadsExact'
  BY <1>24 DEF vars, registry, callers, locks, threads
<1> HIDE DEF TurnInv, Typed, Objects, NoObject, None, WS, Callers, ThreadsExact
<1> QED
  BY <1>1, <1>2, <1>3, <1>4, <1>5, <1>6, <1>7, <1>8, <1>9, <1>10, <1>11, <1>12,
     <1>13, <1>14, <1>15, <1>16, <1>17, <1>18, <1>19, <1>20, <1>21, <1>22, <1>23, <1>24
  DEF Next, Registry, Turn

\* turn_task is set and reset with the turn it names.
LEMMA TaskStep == TurnInv /\ [Next]_vars => TurnTaskExact'
<1> SUFFICES ASSUME TurnInv, [Next]_vars PROVE TurnTaskExact'
  OBVIOUS
<1> USE ApiTurnsAssumption DEF TurnInv, Typed, Objects, NoObject, None, WS, Callers, OnObject, LockExact, TurnTaskExact, Placed, Locked, Owning
<1>1. ASSUME NEW c \in Callers, WarmHit(c) PROVE TurnTaskExact'
  BY <1>1 DEF WarmHit, Resolving, Obtain, Go, registry, callers, locks, threads
<1>2. ASSUME NEW c \in Callers, ColdStart(c) PROVE TurnTaskExact'
  BY <1>2 DEF ColdStart, Resolving, Go, registry, callers, locks, threads
<1>3. ASSUME NEW c \in Callers, Warmed(c) PROVE TurnTaskExact'
  BY <1>3 DEF Warmed, Obtain, Go, registry, callers, locks, threads
<1>4. ASSUME NEW c \in Callers, Woken(c) PROVE TurnTaskExact'
  BY <1>4 DEF Woken, Obtain, Go, registry, callers, locks, threads
<1>5. ASSUME EvictCheck PROVE TurnTaskExact'
  BY <1>5 DEF EvictCheck, registry, callers, locks, threads
<1>6. ASSUME EvictPop PROVE TurnTaskExact'
  BY <1>6 DEF EvictPop, registry, callers, locks, threads
<1>7. ASSUME NEW t \in Turns, WsMessage(t) PROVE TurnTaskExact'
  BY <1>7 DEF WsMessage, Go, registry, callers, locks, threads
<1>8. ASSUME NEW t \in Turns, Check(t) PROVE TurnTaskExact'
  BY <1>8 DEF Check, TakeLock, Go, Obj, registry, callers, locks, threads
<1>9. ASSUME NEW t \in Turns, Accept(t) PROVE TurnTaskExact'
  BY <1>9 DEF Accept, DropLock, Go, Obj, registry, callers, locks, threads
<1>10. ASSUME NEW t \in Turns, Begin(t) PROVE TurnTaskExact'
  BY <1>10 DEF Begin, TakeLock, Go, Obj, registry, callers, locks, threads
<1>11. ASSUME NEW t \in Turns, Blocked(t) PROVE TurnTaskExact'
  BY <1>11 DEF Blocked, TakeLock, Go, Obj, registry, callers, locks, threads
<1>12. ASSUME NEW t \in Turns, Stream(t) PROVE TurnTaskExact'
  BY <1>12 DEF Stream, registry, callers, locks, threads
<1>13. ASSUME NEW t \in Turns, AgentReturns(t) PROVE TurnTaskExact'
  BY <1>13 DEF AgentReturns, Go, registry, callers, locks, threads
<1>14. ASSUME NEW t \in Turns, AgentFails(t) PROVE TurnTaskExact'
  BY <1>14 DEF AgentFails, DropLock, Go, Obj, registry, callers, locks, threads
<1>15. ASSUME NEW t \in Turns, MemoryWritten(t) PROVE TurnTaskExact'
  BY <1>15 DEF MemoryWritten, Go, registry, callers, locks, threads
<1>16. ASSUME NEW t \in Turns, EmitDone(t) PROVE TurnTaskExact'
  BY <1>16 DEF EmitDone, DropLock, Go, Obj, registry, callers, locks, threads
<1>17. ASSUME NEW t \in Turns, Close(t) PROVE TurnTaskExact'
  BY <1>17 DEF Close, Go, Obj, registry, callers, locks, threads
<1>18. ASSUME NEW t \in Turns, ThreadEnds(t) PROVE TurnTaskExact'
  BY <1>18 DEF ThreadEnds, registry, callers, locks, threads
<1>19. ASSUME NEW t \in Turns, Cancel(t) PROVE TurnTaskExact'
  BY <1>19 DEF Cancel, DropLock, Go, registry, callers, locks, threads
<1>20. ASSUME Drain PROVE TurnTaskExact'
  BY <1>20 DEF Drain, registry, callers, locks, threads
<1>21. ASSUME WsClose PROVE TurnTaskExact'
  BY <1>21 DEF WsClose, Go, registry, callers, locks, threads
<1>22. ASSUME ClearBegin PROVE TurnTaskExact'
  BY <1>22 DEF ClearBegin, TakeLock, registry, callers, locks, threads
<1>23. ASSUME NEW o \in Objects, ClearEnd(o) PROVE TurnTaskExact'
  BY <1>23 DEF ClearEnd, DropLock, registry, callers, locks, threads
<1>24. ASSUME UNCHANGED vars PROVE TurnTaskExact'
  BY <1>24 DEF vars, registry, callers, locks, threads
<1> HIDE DEF TurnInv, Typed, Objects, NoObject, None, WS, Callers, OnObject, LockExact, TurnTaskExact, Placed, Locked, Owning
<1> QED
  BY <1>1, <1>2, <1>3, <1>4, <1>5, <1>6, <1>7, <1>8, <1>9, <1>10, <1>11, <1>12,
     <1>13, <1>14, <1>15, <1>16, <1>17, <1>18, <1>19, <1>20, <1>21, <1>22, <1>23, <1>24
  DEF Next, Registry, Turn

\* The event is set for a turn in progress and cleared with it.
LEMMA CancelStep == TurnInv /\ [Next]_vars => CancelStaysInTurn'
<1> SUFFICES ASSUME TurnInv, [Next]_vars PROVE CancelStaysInTurn'
  OBVIOUS
<1> USE ApiTurnsAssumption DEF TurnInv, Typed, Objects, NoObject, None, WS, Callers, OnObject, TurnTaskExact, CancelStaysInTurn, Placed, Owning
<1>1. ASSUME NEW c \in Callers, WarmHit(c) PROVE CancelStaysInTurn'
  BY <1>1 DEF WarmHit, Resolving, Obtain, Go, registry, callers, locks, threads
<1>2. ASSUME NEW c \in Callers, ColdStart(c) PROVE CancelStaysInTurn'
  BY <1>2 DEF ColdStart, Resolving, Go, registry, callers, locks, threads
<1>3. ASSUME NEW c \in Callers, Warmed(c) PROVE CancelStaysInTurn'
  BY <1>3 DEF Warmed, Obtain, Go, registry, callers, locks, threads
<1>4. ASSUME NEW c \in Callers, Woken(c) PROVE CancelStaysInTurn'
  BY <1>4 DEF Woken, Obtain, Go, registry, callers, locks, threads
<1>5. ASSUME EvictCheck PROVE CancelStaysInTurn'
  BY <1>5 DEF EvictCheck, registry, callers, locks, threads
<1>6. ASSUME EvictPop PROVE CancelStaysInTurn'
  BY <1>6 DEF EvictPop, registry, callers, locks, threads
<1>7. ASSUME NEW t \in Turns, WsMessage(t) PROVE CancelStaysInTurn'
  BY <1>7 DEF WsMessage, Go, registry, callers, locks, threads
<1>8. ASSUME NEW t \in Turns, Check(t) PROVE CancelStaysInTurn'
  BY <1>8 DEF Check, TakeLock, Go, Obj, registry, callers, locks, threads
<1>9. ASSUME NEW t \in Turns, Accept(t) PROVE CancelStaysInTurn'
  BY <1>9 DEF Accept, DropLock, Go, Obj, registry, callers, locks, threads
<1>10. ASSUME NEW t \in Turns, Begin(t) PROVE CancelStaysInTurn'
  BY <1>10 DEF Begin, TakeLock, Go, Obj, registry, callers, locks, threads
<1>11. ASSUME NEW t \in Turns, Blocked(t) PROVE CancelStaysInTurn'
  BY <1>11 DEF Blocked, TakeLock, Go, Obj, registry, callers, locks, threads
<1>12. ASSUME NEW t \in Turns, Stream(t) PROVE CancelStaysInTurn'
  BY <1>12 DEF Stream, registry, callers, locks, threads
<1>13. ASSUME NEW t \in Turns, AgentReturns(t) PROVE CancelStaysInTurn'
  BY <1>13 DEF AgentReturns, Go, registry, callers, locks, threads
<1>14. ASSUME NEW t \in Turns, AgentFails(t) PROVE CancelStaysInTurn'
  BY <1>14 DEF AgentFails, DropLock, Go, Obj, registry, callers, locks, threads
<1>15. ASSUME NEW t \in Turns, MemoryWritten(t) PROVE CancelStaysInTurn'
  BY <1>15 DEF MemoryWritten, Go, registry, callers, locks, threads
<1>16. ASSUME NEW t \in Turns, EmitDone(t) PROVE CancelStaysInTurn'
  BY <1>16 DEF EmitDone, DropLock, Go, Obj, registry, callers, locks, threads
<1>17. ASSUME NEW t \in Turns, Close(t) PROVE CancelStaysInTurn'
  BY <1>17 DEF Close, Go, Obj, registry, callers, locks, threads
<1>18. ASSUME NEW t \in Turns, ThreadEnds(t) PROVE CancelStaysInTurn'
  BY <1>18 DEF ThreadEnds, registry, callers, locks, threads
<1>19. ASSUME NEW t \in Turns, Cancel(t) PROVE CancelStaysInTurn'
  BY <1>19 DEF Cancel, DropLock, Go, registry, callers, locks, threads
<1>20. ASSUME Drain PROVE CancelStaysInTurn'
  BY <1>20 DEF Drain, registry, callers, locks, threads
<1>21. ASSUME WsClose PROVE CancelStaysInTurn'
  BY <1>21 DEF WsClose, Go, registry, callers, locks, threads
<1>22. ASSUME ClearBegin PROVE CancelStaysInTurn'
  BY <1>22 DEF ClearBegin, TakeLock, registry, callers, locks, threads
<1>23. ASSUME NEW o \in Objects, ClearEnd(o) PROVE CancelStaysInTurn'
  BY <1>23 DEF ClearEnd, DropLock, registry, callers, locks, threads
<1>24. ASSUME UNCHANGED vars PROVE CancelStaysInTurn'
  BY <1>24 DEF vars, registry, callers, locks, threads
<1> HIDE DEF TurnInv, Typed, Objects, NoObject, None, WS, Callers, OnObject, TurnTaskExact, CancelStaysInTurn, Placed, Owning
<1> QED
  BY <1>1, <1>2, <1>3, <1>4, <1>5, <1>6, <1>7, <1>8, <1>9, <1>10, <1>11, <1>12,
     <1>13, <1>14, <1>15, <1>16, <1>17, <1>18, <1>19, <1>20, <1>21, <1>22, <1>23, <1>24
  DEF Next, Registry, Turn

-------------------------------------------------------------------------------
LEMMA TurnInductive == Spec => []TurnInv
<1>1. Init => TurnInv
  <2> SUFFICES ASSUME Init PROVE TurnInv
    OBVIOUS
  <2> USE ApiTurnsAssumption DEF Init, Objects, NoObject, None, WS, Callers
  <2>1. Typed
    BY DEF Typed, Stages
  <2>2. OnObject /\ LockExact /\ ThreadsExact /\ TurnTaskExact /\ CancelStaysInTurn
    BY DEF OnObject, LockExact, ThreadsExact, TurnTaskExact, CancelStaysInTurn, Placed, Locked, Owning
  <2> QED
    BY <2>1, <2>2 DEF TurnInv
<1>2. TurnInv /\ [Next]_vars => TurnInv'
  BY TypedStep, OnObjectStep, LockStep, ThreadsStep, TaskStep, CancelStep DEF TurnInv
<1> QED
  BY <1>1, <1>2, PTL DEF Spec

\* turn_task names the turn in progress on its object, and nothing else.
THEOREM TurnTaskIsExact == Spec => []TurnTaskExact
<1>1. TurnInv => TurnTaskExact
  BY DEF TurnInv
<1> QED
  BY <1>1, TurnInductive, PTL

\* cancel_event is set only while a turn is in progress, so that no later turn
\* finds it.
THEOREM CancellationsStayInTurn == Spec => []CancelStaysInTurn
<1>1. TurnInv => CancelStaysInTurn
  BY DEF TurnInv
<1> QED
  BY <1>1, TurnInductive, PTL

\* A turn that runs its agent or writes memory, and was not cancelled, holds
\* the lock of its object.
THEOREM WorkersAreExclusive == Spec => []WorkIsExclusive
<1>1. TurnInv => WorkIsExclusive
  BY DEF TurnInv, Typed, OnObject, LockExact, ThreadsExact, WorkIsExclusive, Obj, Locked, Placed, Owning
<1> QED
  BY <1>1, TurnInductive, PTL

------------------------------------------------------------------------------
(* The memory *)

\* s is how t begins.
Prefix(s, t) == Len(s) <= Len(t) /\ \A i \in 1..Len(s) : s[i] = t[i]

\* The summary r covers its boundary in the messages s.
Cover(r, s) == Part(s, 0, r.upTo) \subseteq r.text

\* The cache t went through the replies of s that it says it sifted.
Fits(t, s) == t.ready =>
    /\ t.bound <= Len(s)
    /\ \A m \in Part(s, t.from, t.bound) : Reply(m) => m \in t.sifted

\* What the properties of the boundary assume, and what those of the file.
Calm        == upsets \subseteq {"overlap", "raised"}
Undisturbed == upsets \cap {"overlap", "raised", "reset", "clear"} = {}

\* Where the thread of the session may go on; a dead process holds nothing.
Flow ==
    /\ at \in {"join", "reset"} => then \in {"domain", "wipe"}
    /\ at = "unlink" => then \in {"idle", "wipe"}
    /\ at \in {"snapshot", "write"} => then \in {"tiers", "flag", "save"}
    /\ at = "down" => /\ mem = Forgotten /\ msgs = <<>> /\ tier = NoTier /\ ~dirty
                      /\ \A j \in Jobs : ~Active(j)
                      /\ \A r \in Rolls : ~Rolling(r)

\* No change of the messages is waiting for save().
Settled ==
    \/ at \in {"idle", "flag", "tiers", "exit", "wipe", "unlink"}
    \/ at \in {"join", "reset"} /\ then = "wipe"
    \/ at \in {"snapshot", "write"} /\ then # "save"

Histories == at # "down" =>
    IF Settled THEN hist = msgs ELSE Prefix(hist, msgs) \/ Prefix(msgs, hist)

\* What a summarizer covers with what it was given, or with what it read.
JobCovers(j) ==
    /\ job[j].pc = "queued" =>
          /\ job[j].upTo <= Len(msgs)
          /\ \E f \in 0..mem.upTo : Part(msgs, f, job[j].upTo) \subseteq job[j].batch
    /\ job[j].pc = "llm" =>
          /\ job[j].upTo <= Len(msgs)
          /\ Part(msgs, 0, job[j].upTo) \subseteq job[j].before \cup job[j].batch
    /\ job[j].pc = "write" => job[j].snap.upTo <= mem.upTo /\ Cover(job[j].snap, msgs)

Covered ==
    /\ mem.upTo <= Len(msgs) /\ Cover(mem, msgs)
    /\ \A j \in Jobs : JobCovers(j)
    /\ at = "submit" => todo.from <= mem.upTo /\ todo.upTo <= Len(msgs)
    /\ at = "write" => held.upTo <= mem.upTo /\ Cover(held, msgs)
    /\ Cover(meta, hist)
    /\ at \in {"wipe", "unlink"} => mem = Forgotten /\ \A j \in Jobs : ~Active(j)

Fitting ==
    /\ Fits(tier, msgs)
    /\ \A r \in Rolls : Fits(roll[r], msgs)
    /\ Fits(tiers, hist)
    /\ at # "down" => Fits(tiers, msgs)

\* The file holds what the memory holds, the clamp of load() apart.
Saved == meta.text = mem.text /\ mem.upTo <= meta.upTo

Saving ==
    /\ \A j \in Jobs : Active(j) => j = future
    /\ dirty => \E j \in Jobs : job[j].pc \in {"save", "write", "flag"}
    /\ \A j \in Jobs :
         /\ job[j].pc = "write" => job[j].snap = mem
         /\ job[j].pc \in {"flag", "last"} => Saved
    /\ at = "write" => held = mem
    /\ at \in {"snapshot", "write", "flag"} => \A j \in Jobs : ~Pending(j)
    /\ at = "flag" => Saved
    /\ (at \in {"tiers", "idle"} /\ \A j \in Jobs : ~Active(j)) => Saved
    /\ at \in {"wipe", "unlink"} => mem = Forgotten /\ \A j \in Jobs : ~Active(j)

MemoryInv ==
    /\ MemoryTypeOK /\ Flow
    /\ Calm => Histories /\ Covered /\ Fitting
    /\ Undisturbed => Saving

------------------------------------------------------------------------------

\* The messages between two positions.
LEMMA PartGrows ==
    ASSUME NEW s \in Seq(Message), NEW a \in Nat, NEW b \in Nat, NEW c \in Nat, NEW d \in Nat,
           c <= a, b <= d
    PROVE  Part(s, a, b) \subseteq Part(s, c, d)
BY SMTT(40) DEF Part, Lesser

LEMMA PartSplits ==
    ASSUME NEW s \in Seq(Message), NEW a \in Nat, NEW b \in Nat
    PROVE  Part(s, 0, b) \subseteq Part(s, 0, a) \cup Part(s, a, b)
BY SMTT(40) DEF Part, Lesser

LEMMA PartType ==
    ASSUME NEW s \in Seq(Message), NEW a \in Nat, NEW b \in Nat
    PROVE  Part(s, a, b) \subseteq Message
<1>1. \A i \in 1..Len(s) : s[i] \in Message
  BY ElementOfSeq, SMTT(40)
<1> QED
  BY <1>1, SMTT(40) DEF Part, Lesser

LEMMA PartOfPrefix ==
    ASSUME NEW s \in Seq(Message), NEW t \in Seq(Message), Prefix(s, t),
           NEW a \in Nat, NEW b \in Nat
    PROVE  /\ Part(s, a, b) \subseteq Part(t, a, b)
           /\ b <= Len(s) => Part(t, a, b) = Part(s, a, b)
BY SMTT(40) DEF Part, Lesser, Prefix

\* What is covered, or cached, stays so while the messages after it come and go.
LEMMA CoverOfPrefix ==
    ASSUME NEW s \in Seq(Message), NEW t \in Seq(Message), Prefix(s, t), NEW r \in Summaries
    PROVE  /\ Cover(r, t) => Cover(r, s)
           /\ r.upTo <= Len(s) /\ Cover(r, s) => Cover(r, t)
<1>1. r.upTo \in Nat
  BY DEF Summaries
<1> QED
  BY <1>1, PartOfPrefix, SMTT(40) DEF Cover

LEMMA FitsPrefix ==
    ASSUME NEW s \in Seq(Message), NEW t \in Seq(Message), Prefix(s, t), NEW k \in Tiers
    PROVE  /\ k.bound <= Len(s) /\ Fits(k, t) => Fits(k, s)
           /\ Fits(k, s) => Fits(k, t)
<1>1. k.bound \in Nat /\ k.from \in Nat
  BY DEF Tiers
<1>2. Len(s) \in Nat /\ Len(t) \in Nat /\ Len(s) <= Len(t)
  BY DEF Prefix
<1>3. k.bound <= Len(s) => Part(t, k.from, k.bound) = Part(s, k.from, k.bound)
  BY <1>1, PartOfPrefix, SMTT(40)
<1> QED
  BY <1>1, <1>2, <1>3, SMTT(40) DEF Fits

\* Every field is of its type.
LEMMA MemoryTypesInit == MemoryAssumption /\ MemoryInit => MemoryTypeOK
<1> SUFFICES ASSUME MemoryAssumption, MemoryInit PROVE MemoryTypeOK
  OBVIOUS
<1>1. msgs \in Seq(Message)
  BY SMTT(40) DEF MemoryAssumption, MemoryInit, Message
<1>2. Forgotten \in Summaries /\ NoTier \in Tiers /\ NoBatch \in [from : Nat, upTo : Nat]
  BY DEF Forgotten, Summaries, NoTier, Tiers, NoBatch
<1>3. NoJob \in JobRecords
  BY <1>2 DEF NoJob, JobRecords, JobSteps
<1>4. turn \in 0..MaxTurns /\ churn \in Nat /\ failures \in Nat /\ events \in 0..MaxEvents
  BY DEF MemoryAssumption, MemoryInit
<1>5. job \in [Jobs -> JobRecords] /\ roll \in [Rolls -> Tiers] /\ future \in Jobs \cup {"none"}
  BY <1>2, <1>3 DEF MemoryInit
<1>6. dirty \in BOOLEAN /\ at \in SessionSteps /\ then \in SessionSteps /\ upsets \subseteq Upsets
  BY DEF MemoryInit, SessionSteps
<1> QED
  BY <1>1, <1>2, <1>4, <1>5, <1>6 DEF MemoryInit, MemoryTypeOK

LEMMA MemoryTypesStep == MemoryTypeOK /\ [MemoryNext]_memoryVars => MemoryTypeOK'
<1> SUFFICES ASSUME MemoryTypeOK, [MemoryNext]_memoryVars PROVE MemoryTypeOK'
  OBVIOUS
<1> USE MemoryAssumption DEF MemoryAssumption
<1>a. Forgotten \in Summaries /\ NoTier \in Tiers /\ NoBatch \in [from : Nat, upTo : Nat]
  BY DEF Forgotten, Summaries, NoTier, Tiers, NoBatch
<1>b. /\ "idle" \in SessionSteps /\ "schedule" \in SessionSteps /\ "submit" \in SessionSteps
      /\ "roll" \in SessionSteps /\ "domain" \in SessionSteps /\ "join" \in SessionSteps
      /\ "reset" \in SessionSteps /\ "unlink" \in SessionSteps /\ "wipe" \in SessionSteps
      /\ "save" \in SessionSteps /\ "snapshot" \in SessionSteps /\ "write" \in SessionSteps
      /\ "flag" \in SessionSteps /\ "tiers" \in SessionSteps /\ "exit" \in SessionSteps
      /\ "down" \in SessionSteps
  BY DEF SessionSteps
<1>c. /\ {"failed"} \subseteq Upsets /\ {"reset"} \subseteq Upsets /\ {"undo"} \subseteq Upsets
      /\ {"clear"} \subseteq Upsets /\ {"sanitized"} \subseteq Upsets /\ {"overlap"} \subseteq Upsets
      /\ {"overtaken"} \subseteq Upsets /\ {"raised"} \subseteq Upsets
  BY DEF Upsets
<1>d. \A a, b \in Nat : Part(msgs, a, b) \subseteq Message
  BY PartType DEF MemoryTypeOK
<1>e. NoJob \in JobRecords
  BY <1>a DEF NoJob, JobRecords, JobSteps
<1>f. ASSUME Forget PROVE /\ mem' \in Summaries /\ churn' \in Nat /\ dirty' \in BOOLEAN
                          /\ upsets' \subseteq Upsets
  BY <1>a, <1>c, <1>f DEF Forget, MemoryTypeOK
<1>1. CASE Update
  <2>1. msgs' \in Seq(Message) /\ turn' \in 0..MaxTurns
    BY <1>1, SMTT(40) DEF Update, MemoryTypeOK, Message
  <2>2. mem' \in Summaries /\ churn' \in Nat /\ dirty' \in BOOLEAN /\ upsets' \subseteq Upsets
    BY <1>1, <1>f DEF Update, MemoryTypeOK
  <2> QED
    BY <1>1, <1>b, <2>1, <2>2 DEF Update, MemoryTypeOK, Goto, jobs, caches, files, thread
<1>2. CASE Schedule
  <2>1. Len(msgs) \in Nat /\ mem.upTo \in Nat
    BY DEF MemoryTypeOK, Summaries
  <2>2. todo' \in [from : Nat, upTo : Nat]
    BY <1>2, <2>1, SMTT(40) DEF Schedule, MemoryTypeOK, Lesser
  <2> QED
    BY <1>2, <1>b, <2>2 DEF Schedule, MemoryTypeOK, Goto, turns, summary, jobs, caches, files, record
<1>3. CASE Submit
  <2>1. todo.from \in Nat /\ todo.upTo \in Nat
    BY DEF MemoryTypeOK
  <2>2. job' \in [Jobs -> JobRecords] /\ future' \in Jobs \cup {"none"}
    <3>1. [NoJob EXCEPT !.pc = "queued", !.upTo = todo.upTo,
                        !.batch = Part(msgs, todo.from, todo.upTo)] \in JobRecords
      BY <1>d, <1>e, <2>1 DEF JobRecords, JobSteps
    <3> QED
      BY <1>3, <3>1 DEF Submit, MemoryTypeOK
  <2>3. events' \in 0..MaxEvents /\ upsets' \subseteq Upsets
    <3>1. CASE InFlight
      <4>1. events' \in 0..MaxEvents
        <5>1. Event
          BY <1>3, <3>1 DEF Submit
        <5> QED
          BY <5>1 DEF Event, MemoryTypeOK
      <4>2. upsets' \subseteq Upsets
        BY <1>3, <1>c, <3>1 DEF Submit, MemoryTypeOK
      <4> QED
        BY <4>1, <4>2
    <3>2. CASE ~ InFlight
      BY <1>3, <3>2 DEF Submit, MemoryTypeOK, record
    <3> QED
      BY <3>1, <3>2
  <2> QED
    BY <1>3, <1>a, <1>b, <2>2, <2>3 DEF Submit, MemoryTypeOK, Goto, turns, summary, caches, files
<1>4. CASE SkipSubmit
  BY <1>4, <1>a, <1>b DEF SkipSubmit, MemoryTypeOK, Goto, turns, summary, jobs, caches, files, record
<1>5. CASE ScheduleRoll
  <2>1. Len(msgs) \in Nat /\ mem.upTo \in Nat
    BY DEF MemoryTypeOK, Summaries
  <2>2. roll' \in [Rolls -> Tiers]
    <3>1. CASE UNCHANGED roll
      BY <3>1 DEF MemoryTypeOK
    <3>2. ASSUME NEW v \in Verbatim, NEW r \in Rolls, v < Len(msgs),
                 roll' = [roll EXCEPT ![r] =
                    [ready |-> TRUE, from |-> Lesser(mem.upTo, Len(msgs) - v),
                     bound |-> Len(msgs) - v,
                     sifted |-> {m \in Part(msgs, Lesser(mem.upTo, Len(msgs) - v), Len(msgs) - v) :
                                  Reply(m)}]]
          PROVE  roll' \in [Rolls -> Tiers]
      <4>1. Len(msgs) - v \in Nat /\ Lesser(mem.upTo, Len(msgs) - v) \in Nat
        BY <2>1, <3>2 DEF Lesser
      <4>2. Part(msgs, Lesser(mem.upTo, Len(msgs) - v), Len(msgs) - v) \subseteq Message
        BY <1>d, <4>1
      <4> QED
        BY <3>2, <4>1, <4>2 DEF MemoryTypeOK, Tiers
    <3> QED
      BY <1>5, <3>1, <3>2 DEF ScheduleRoll
  <2>3. events' \in 0..MaxEvents /\ then' \in SessionSteps
    BY <1>5, <1>b DEF ScheduleRoll, MemoryTypeOK, Event
  <2> QED
    BY <1>5, <1>b, <2>2, <2>3 DEF ScheduleRoll, MemoryTypeOK, Goto, turns, summary, jobs, files
<1>6. CASE Save
  <2>1. upsets' \subseteq Upsets
    BY <1>6, <1>c DEF Save, MemoryTypeOK
  <2> QED
    BY <1>6, <1>b, <2>1 DEF Save, MemoryTypeOK, Goto, turns, summary, jobs, caches
<1>7. CASE Snapshot \/ WriteMeta \/ ClearDirty \/ SaveTiers
  BY <1>7, <1>a, <1>b DEF Snapshot, WriteMeta, ClearDirty, SaveTiers, MemoryTypeOK, Goto, turns,
     summary, jobs, caches, files, thread, record
<1>8. CASE ResetTopic \/ Unlink \/ Clear \/ Join \/ Reset
  <2>1. CASE ResetTopic
    BY <2>1, <1>b, <1>f DEF ResetTopic, MemoryTypeOK, Event, Goto, turns, jobs, caches, files
  <2>2. CASE Unlink \/ Clear \/ Join
    <3>1. CASE Unlink
      BY <3>1, <1>a, <1>b DEF Unlink, MemoryTypeOK, Goto, turns, summary, jobs, caches, record
    <3>2. CASE Clear
      BY <3>2, <1>b DEF Clear, MemoryTypeOK, Event, Goto, turns, summary, jobs, caches, files
    <3>3. CASE Join
      BY <3>3, <1>b DEF Join, MemoryTypeOK, Goto, turns, summary, jobs, caches, files, thread, record
    <3> QED
      BY <2>2, <3>1, <3>2, <3>3
  <2>3. CASE Reset
    <3>1. mem' \in Summaries /\ churn' \in Nat /\ dirty' \in BOOLEAN /\ upsets' \subseteq Upsets
      BY <2>3, <1>a, <1>c, <1>f DEF Reset, MemoryTypeOK
    <3> QED
      BY <2>3, <3>1, <1>b DEF Reset, MemoryTypeOK, Goto, turns, jobs, caches, files
  <2> QED
    BY <1>8, <2>1, <2>2, <2>3
<1>9. CASE Wipe
  <2>1. msgs' \in Seq(Message) /\ upsets' \subseteq Upsets
    BY <1>9, <1>c DEF Wipe, MemoryTypeOK
  <2> QED
    BY <1>9, <2>1, <1>a, <1>b DEF Wipe, MemoryTypeOK, Goto, summary, jobs, thread
<1>10. CASE Undo
  <2>1. msgs' \in Seq(Message)
    BY <1>10, SMTT(40) DEF Undo, MemoryTypeOK
  <2>2. upsets' \subseteq Upsets
    BY <1>10, <1>c DEF Undo, MemoryTypeOK
  <2> QED
    BY <1>10, <2>1, <2>2, <1>b DEF Undo, MemoryTypeOK, Event, Goto, summary, jobs, caches, files, thread
<1>11. ASSUME NEW j \in Jobs,
              StartJob(j) \/ JobSnapshot(j) \/ JobWrite(j) \/ JobClearDirty(j) \/ JobEnds(j)
       PROVE  MemoryTypeOK'
  <2>1. job[j] \in JobRecords /\ [NoJob EXCEPT !.pc = "flag"] \in JobRecords
    BY <1>e DEF MemoryTypeOK, JobRecords, JobSteps
  <2>2. \A k \in JobRecords, r \in Summaries :
           /\ [k EXCEPT !.pc = "llm", !.before = r.text] \in JobRecords
           /\ [k EXCEPT !.pc = "write", !.snap = r] \in JobRecords
           /\ [k EXCEPT !.pc = "last"] \in JobRecords
           /\ k.snap \in Summaries
    BY DEF JobRecords, JobSteps, Summaries
  <2>3. CASE StartJob(j)
    <3>1. job' = [job EXCEPT ![j] = [job[j] EXCEPT !.pc = "llm", !.before = mem.text]]
      BY <2>3 DEF StartJob, MemoryTypeOK
    <3>2. job' \in [Jobs -> JobRecords]
      BY <2>1, <2>2, <3>1 DEF MemoryTypeOK
    <3> QED
      BY <2>3, <3>2 DEF StartJob, MemoryTypeOK, turns, summary, caches, files, thread, record
  <2>4. CASE JobSnapshot(j)
    <3>1. job' = [job EXCEPT ![j] = [job[j] EXCEPT !.pc = "write", !.snap = mem]]
      BY <2>4 DEF JobSnapshot, MemoryTypeOK
    <3>2. job' \in [Jobs -> JobRecords]
      BY <2>1, <2>2, <3>1 DEF MemoryTypeOK
    <3> QED
      BY <2>4, <3>2 DEF JobSnapshot, MemoryTypeOK, turns, summary, caches, files, thread, record
  <2>5. CASE JobWrite(j)
    BY <2>1, <2>2, <2>5 DEF JobWrite, MemoryTypeOK, turns, summary, caches, thread, record
  <2>6. CASE JobClearDirty(j)
    <3>1. job' = [job EXCEPT ![j] = [job[j] EXCEPT !.pc = "last"]]
      BY <2>6 DEF JobClearDirty, MemoryTypeOK
    <3>2. job' \in [Jobs -> JobRecords]
      BY <2>1, <2>2, <3>1 DEF MemoryTypeOK
    <3> QED
      BY <2>6, <3>2 DEF JobClearDirty, MemoryTypeOK, turns, caches, files, thread, record
  <2>7. CASE JobEnds(j)
    BY <1>e, <2>7 DEF JobEnds, MemoryTypeOK, turns, summary, caches, files, thread, record
  <2> QED
    BY <1>11, <2>3, <2>4, <2>5, <2>6, <2>7
<1>12. ASSUME NEW j \in Jobs, Answer(j) PROVE MemoryTypeOK'
  <2>1. job[j] \in JobRecords /\ [NoJob EXCEPT !.pc = "save"] \in JobRecords
    BY <1>e DEF MemoryTypeOK, JobRecords, JobSteps
  <2>2. job' \in [Jobs -> JobRecords]
    BY <1>12, <2>1 DEF Answer, MemoryTypeOK, JobRecords
  <2>3. mem' \in Summaries /\ churn' \in Nat /\ dirty' \in BOOLEAN /\ upsets' \subseteq Upsets
    <3>1. job[j].upTo \in Nat /\ job[j].before \cup job[j].batch \subseteq Message
          /\ job[j].before \subseteq Message
      BY <2>1 DEF JobRecords
    <3>2. /\ [text |-> job[j].before \cup job[j].batch, upTo |-> job[j].upTo] \in Summaries
          /\ [text |-> job[j].before, upTo |-> job[j].upTo] \in Summaries
      BY <3>1 DEF Summaries
    <3>3. CASE UNCHANGED <<summary, upsets>>
      BY <3>3 DEF MemoryTypeOK, summary
    <3>4. ASSUME NEW ok \in BOOLEAN, churn' = 0, dirty' = TRUE,
                 upsets' = upsets \cup IF ok THEN {} ELSE {"failed"},
                 mem' = [text |-> IF ok THEN job[j].before \cup job[j].batch ELSE job[j].before,
                         upTo |-> job[j].upTo]
          PROVE  /\ mem' \in Summaries /\ churn' \in Nat
                 /\ dirty' \in BOOLEAN /\ upsets' \subseteq Upsets
      BY <1>c, <3>2, <3>4 DEF MemoryTypeOK
    <3> QED
      BY <1>12, <3>3, <3>4 DEF Answer
  <2> QED
    BY <1>12, <2>2, <2>3 DEF Answer, MemoryTypeOK, JobRecords, turns, caches, files, thread
<1>13. ASSUME NEW j \in Jobs, JobRaises(j) PROVE MemoryTypeOK'
  <2>1. job' \in [Jobs -> JobRecords]
    BY <1>13, <1>e DEF JobRaises, MemoryTypeOK, JobRecords
  <2> QED
    BY <1>13, <2>1, <1>c DEF JobRaises, MemoryTypeOK, JobRecords, turns, summary, caches, files, thread
<1>14. ASSUME NEW r \in Rolls, FinishRoll(r) \/ DropRoll(r) PROVE MemoryTypeOK'
  <2>1. roll' \in [Rolls -> Tiers] /\ tier' \in Tiers
    BY <1>14, <1>a DEF FinishRoll, DropRoll, MemoryTypeOK
  <2> QED
    BY <1>14, <2>1 DEF FinishRoll, DropRoll, MemoryTypeOK, turns, summary, jobs, files, thread, record
<1>15. CASE Shutdown
  BY <1>15, <1>b DEF Shutdown, MemoryTypeOK, Event, Goto, turns, summary, jobs, caches, thread
<1>16. CASE Crash
  <2>1. job' \in [Jobs -> JobRecords] /\ roll' \in [Rolls -> Tiers]
    BY <1>16, <1>a, <1>e DEF Crash
  <2> QED
    <3>1. events' \in 0..MaxEvents
      BY <1>16 DEF Crash, MemoryTypeOK, Event
    <3>2. msgs' \in Seq(Message)
      BY <1>16 DEF Crash
    <3> QED
      BY <1>16, <2>1, <1>a, <1>b, <3>1, <3>2 DEF Crash, MemoryTypeOK, Goto, files
<1>17. CASE Load
  <2>0. PICK bad \in {0} \cup {i \in 2..Len(hist) : Reply(hist[i])}, old \in BOOLEAN :
          /\ msgs' = IF bad = 0 THEN hist
                     ELSE SubSeq(hist, 1, bad - 2) \o SubSeq(hist, bad + 1, Len(hist))
          /\ mem' = [(IF old THEN Forgotten ELSE meta) EXCEPT !.upTo = Lesser(@, Len(msgs'))]
    BY <1>17 DEF Load
  <2>1. msgs' \in Seq(Message)
    <3>1. CASE bad = 0
      BY <2>0, <3>1 DEF MemoryTypeOK
    <3>2. CASE bad # 0
      <4>1. hist \in Seq(Message) /\ Len(hist) \in Nat /\ bad \in 2..Len(hist)
        BY <3>2 DEF MemoryTypeOK
      <4>2. SubSeq(hist, 1, bad - 2) \in Seq(Message)
        BY <4>1, SMTT(40)
      <4>3. SubSeq(hist, bad + 1, Len(hist)) \in Seq(Message)
        BY <4>1, SMTT(40)
      <4> QED
        <5>1. msgs' = SubSeq(hist, 1, bad - 2) \o SubSeq(hist, bad + 1, Len(hist))
          BY <2>0, <3>2
        <5> QED
          BY <4>2, <4>3, <5>1, ConcatProperties, ZenonT(60)
    <3> QED
      BY <3>1, <3>2
  <2>2. mem' \in Summaries
    <3>1. \A kept \in Summaries, n \in Nat : [kept EXCEPT !.upTo = Lesser(@, n)] \in Summaries
      BY DEF Summaries, Lesser
    <3>2. Len(msgs') \in Nat /\ (IF old THEN Forgotten ELSE meta) \in Summaries
      BY <2>1, <1>a DEF MemoryTypeOK
    <3> QED
      BY <2>0, <3>1, <3>2
  <2>3. meta' \in Summaries /\ upsets' \subseteq Upsets
    BY <1>17, <1>a, <1>c DEF Load, MemoryTypeOK
  <2> QED
    BY <1>17, <2>1, <2>2, <2>3, <1>b DEF Load, MemoryTypeOK, Goto, jobs, thread
<1>18. CASE UNCHANGED memoryVars
  BY <1>18 DEF memoryVars, MemoryTypeOK
<1> QED
  BY <1>1, <1>2, <1>3, <1>4, <1>5, <1>6, <1>7, <1>8, <1>9, <1>10, <1>11, <1>12, <1>13, <1>14,
     <1>15, <1>16, <1>17, <1>18 DEF MemoryNext, Session, Pool

------------------------------------------------------------------------------

\* The thread of the session goes where it may, and a dead process holds nothing.
LEMMA FlowStep == MemoryTypeOK /\ Flow /\ [MemoryNext]_memoryVars => Flow'
<1> SUFFICES ASSUME MemoryTypeOK, Flow, [MemoryNext]_memoryVars PROVE Flow'
  OBVIOUS
<1>1. CASE Update \/ Schedule \/ SkipSubmit \/ Undo
  BY <1>1 DEF Update, Schedule, SkipSubmit, Undo, Flow, Goto
<1>2. CASE Submit
  BY <1>2 DEF Submit, Flow, Goto
<1>3. CASE ScheduleRoll
  BY <1>3 DEF ScheduleRoll, Flow, Goto
<1>4. CASE Save \/ SaveTiers \/ ClearDirty
  BY <1>4 DEF Save, SaveTiers, ClearDirty, Flow, Goto
<1>5. CASE Snapshot
  BY <1>5 DEF Snapshot, Flow, Goto
<1>6. CASE WriteMeta \/ Unlink
  BY <1>6 DEF WriteMeta, Unlink, Flow, Goto
<1>7. CASE ResetTopic \/ Clear \/ Wipe
  BY <1>7 DEF ResetTopic, Clear, Wipe, Flow, Goto
<1>8. CASE Join
  BY <1>8 DEF Join, Flow, Goto, thread
<1>9. CASE Reset
  BY <1>9 DEF Reset, Flow, Goto
<1>10. ASSUME NEW j \in Jobs,
              \/ StartJob(j) \/ Answer(j) \/ JobSnapshot(j) \/ JobWrite(j)
              \/ JobClearDirty(j) \/ JobEnds(j) \/ JobRaises(j)
       PROVE  Flow'
  <2>1. Active(j) /\ at # "down"
    BY <1>10 DEF StartJob, Answer, JobSnapshot, JobWrite, JobClearDirty, JobEnds, JobRaises,
       Active, Flow
  <2>2. UNCHANGED <<at, then>>
    BY <1>10 DEF StartJob, Answer, JobSnapshot, JobWrite, JobClearDirty, JobEnds, JobRaises, thread
  <2> QED
    BY <2>1, <2>2 DEF Flow
<1>11. ASSUME NEW r \in Rolls, FinishRoll(r) \/ DropRoll(r) PROVE Flow'
  <2>1. at # "down" /\ UNCHANGED <<at, then>>
    BY <1>11 DEF FinishRoll, DropRoll, Flow, thread
  <2> QED
    BY <2>1 DEF Flow
<1>12. CASE Shutdown \/ Load
  BY <1>12 DEF Shutdown, Load, Flow, Goto, thread
<1>13. CASE Crash
  BY <1>13 DEF Crash, Flow, Goto, Active, Rolling, NoJob, NoTier
<1>14. CASE UNCHANGED memoryVars
  BY <1>14 DEF memoryVars, Flow, Active, Rolling
<1> QED
  BY <1>1, <1>2, <1>3, <1>4, <1>5, <1>6, <1>7, <1>8, <1>9, <1>10, <1>11, <1>12, <1>13, <1>14
     DEF MemoryNext, Session, Pool

\* What came between a job and its messages is never forgotten.
LEMMA UpsetsStay == [MemoryNext]_memoryVars => upsets \subseteq upsets'
<1> SUFFICES ASSUME [MemoryNext]_memoryVars PROVE upsets \subseteq upsets'
  OBVIOUS
<1>1. Forget => upsets \subseteq upsets'
  BY DEF Forget
<1>2. CASE Update \/ ResetTopic \/ Reset
  BY <1>1, <1>2 DEF Update, ResetTopic, Reset
<1>3. CASE Submit \/ Save \/ Wipe \/ Undo \/ Load
  BY <1>3 DEF Submit, Save, Wipe, Undo, Load, record
<1>4. CASE Schedule \/ SkipSubmit \/ ScheduleRoll \/ Snapshot \/ WriteMeta \/ ClearDirty
           \/ SaveTiers \/ Unlink \/ Clear \/ Join \/ Shutdown \/ Crash
  BY <1>4 DEF Schedule, SkipSubmit, ScheduleRoll, Snapshot, WriteMeta, ClearDirty, SaveTiers,
     Unlink, Clear, Join, Shutdown, Crash, record
<1>5. ASSUME NEW j \in Jobs,
             \/ StartJob(j) \/ Answer(j) \/ JobSnapshot(j) \/ JobWrite(j)
             \/ JobClearDirty(j) \/ JobEnds(j) \/ JobRaises(j)
      PROVE  upsets \subseteq upsets'
  BY <1>5 DEF StartJob, Answer, JobSnapshot, JobWrite, JobClearDirty, JobEnds, JobRaises, record
<1>6. ASSUME NEW r \in Rolls, FinishRoll(r) \/ DropRoll(r) PROVE upsets \subseteq upsets'
  BY <1>6 DEF FinishRoll, DropRoll, record
<1>7. CASE UNCHANGED memoryVars
  BY <1>7 DEF memoryVars
<1> QED
  BY <1>2, <1>3, <1>4, <1>5, <1>6, <1>7 DEF MemoryNext, Session, Pool

------------------------------------------------------------------------------

\* How the messages of the session change: a turn is added or taken back, or
\* they are wiped; the process dies, or starts again with those of the file.
LEMMA MessagesStep ==
    ASSUME MemoryTypeOK, [MemoryNext]_memoryVars
    PROVE  \/ UNCHANGED msgs
           \/ Update /\ Prefix(msgs, msgs') /\ Len(msgs') = Len(msgs) + 2
           \/ (Undo \/ Wipe \/ Crash) /\ Prefix(msgs', msgs)
           \/ Load
<1>1. CASE Update
  BY <1>1, SMTT(40) DEF Update, MemoryTypeOK, Prefix, Message
<1>2. CASE Undo
  BY <1>2, SMTT(40) DEF Undo, MemoryTypeOK, Prefix
<1>3. CASE Wipe \/ Crash
  <2>1. msgs' = <<>>
    BY <1>3 DEF Wipe, Crash
  <2> QED
    BY <1>3, <2>1, SMTT(40) DEF MemoryTypeOK, Prefix
<1>4. CASE Submit \/ Save \/ Schedule \/ SkipSubmit \/ ScheduleRoll \/ Snapshot \/ WriteMeta
           \/ ClearDirty \/ SaveTiers \/ Unlink \/ Clear \/ Join \/ Shutdown \/ ResetTopic \/ Reset
  BY <1>4 DEF Submit, Save, Schedule, SkipSubmit, ScheduleRoll, Snapshot, WriteMeta, ClearDirty,
     SaveTiers, Unlink, Clear, Join, Shutdown, ResetTopic, Reset, turns
<1>5. ASSUME NEW j \in Jobs,
             \/ StartJob(j) \/ Answer(j) \/ JobSnapshot(j) \/ JobWrite(j)
             \/ JobClearDirty(j) \/ JobEnds(j) \/ JobRaises(j)
      PROVE  UNCHANGED msgs
  BY <1>5 DEF StartJob, Answer, JobSnapshot, JobWrite, JobClearDirty, JobEnds, JobRaises, turns
<1>6. ASSUME NEW r \in Rolls, FinishRoll(r) \/ DropRoll(r) PROVE UNCHANGED msgs
  BY <1>6 DEF FinishRoll, DropRoll, turns
<1>7. CASE UNCHANGED memoryVars
  BY <1>7 DEF memoryVars
<1> QED
  BY <1>1, <1>2, <1>3, <1>4, <1>5, <1>6, <1>7 DEF MemoryNext, Session, Pool

\* Where no message was dropped, load() takes the history as it is.
LEMMA LoadsHistory ==
    ASSUME Load, Calm'
    PROVE  msgs' = hist /\ hist' = hist
<1>1. PICK bad \in {0} \cup {i \in 2..Len(hist) : Reply(hist[i])} :
         /\ msgs' = IF bad = 0 THEN hist
                    ELSE SubSeq(hist, 1, bad - 2) \o SubSeq(hist, bad + 1, Len(hist))
         /\ upsets' = upsets \cup IF bad = 0 THEN {} ELSE {"sanitized"}
  BY DEF Load
<1>2. bad = 0
  BY <1>1, "sanitized" \notin upsets' DEF Calm
<1> QED
  BY <1>1, <1>2 DEF Load

\* While a turn is being worked on the file of the history is a turn behind,
\* or, after /undo and /clear, ahead; otherwise they agree.
LEMMA HistoriesStep ==
    ASSUME MemoryTypeOK, Flow, Histories, [MemoryNext]_memoryVars, Calm'
    PROVE  Histories'
<1>1. msgs \in Seq(Message) /\ hist \in Seq(Message) /\ (MemoryTypeOK)'
  BY MemoryTypesStep DEF MemoryTypeOK
<1>2. CASE Update
  <2>1. Prefix(msgs, msgs') /\ hist = msgs /\ hist' = hist
    BY <1>2, MessagesStep DEF Update, Histories, Settled, files, Undo, Wipe, Crash, Load
  <2> QED
    BY <1>2, <2>1 DEF Update, Histories, Settled, Goto
<1>3. CASE Undo
  <2>1. Prefix(msgs', msgs) /\ hist = msgs /\ hist' = hist
    BY <1>3, SMTT(40) DEF Undo, MemoryTypeOK, Prefix, Histories, Settled, files
  <2> QED
    BY <1>3, <2>1 DEF Undo, Histories, Settled, Goto
<1>4. CASE Wipe
  <2>1. Prefix(msgs', hist')
    BY <1>1, <1>4, SMTT(40) DEF Wipe, Prefix
  <2> QED
    BY <1>4, <2>1 DEF Wipe, Histories, Settled, Goto
<1>5. CASE Crash
  BY <1>5 DEF Crash, Histories, Goto
<1>6. CASE Load
  <2>1. msgs' = hist /\ hist' = hist
    BY <1>6, LoadsHistory
  <2> QED
    BY <1>6, <2>1 DEF Load, Histories, Settled, Goto
<1>7. CASE Save \/ Shutdown
  BY <1>7 DEF Save, Shutdown, turns, Histories, Settled, Goto
<1>8. CASE Schedule \/ Submit \/ SkipSubmit \/ ScheduleRoll
  BY <1>8 DEF Schedule, Submit, SkipSubmit, ScheduleRoll, turns, files, Histories, Settled, Goto
<1>9. CASE Snapshot \/ WriteMeta \/ ClearDirty \/ SaveTiers \/ Unlink
  BY <1>9 DEF Snapshot, WriteMeta, ClearDirty, SaveTiers, Unlink, turns, files, thread, Histories,
     Settled, Flow, Goto
<1>10. CASE Clear \/ Join \/ ResetTopic \/ Reset
  BY <1>10 DEF Clear, Join, ResetTopic, Reset, turns, files, thread, Histories, Settled, Flow, Goto
<1>11. ASSUME NEW j \in Jobs,
             \/ StartJob(j) \/ Answer(j) \/ JobSnapshot(j) \/ JobWrite(j)
             \/ JobClearDirty(j) \/ JobEnds(j) \/ JobRaises(j)
      PROVE  Histories'
  BY <1>11 DEF StartJob, Answer, JobSnapshot, JobWrite, JobClearDirty, JobEnds, JobRaises, turns,
     files, thread, Histories, Settled
<1>12. ASSUME NEW r \in Rolls, FinishRoll(r) \/ DropRoll(r) PROVE Histories'
  BY <1>12 DEF FinishRoll, DropRoll, turns, files, thread, Histories, Settled
<1>13. CASE UNCHANGED memoryVars
  BY <1>13 DEF memoryVars, Histories, Settled
<1> QED
  BY <1>2, <1>3, <1>4, <1>5, <1>6, <1>7, <1>8, <1>9, <1>10, <1>11, <1>12, <1>13
     DEF MemoryNext, Session, Pool

------------------------------------------------------------------------------
(* SummaryCoversBoundary and RestartCovers.  The boundary of the session, of a *)
(* snapshot and of the file stay covered because a job carries what it needs   *)
(* to cover the boundary that it will set (JobCovers), and the boundary does   *)
(* not fall while it is at it.                                                 *)

LEMMA NothingCovered == ASSUME NEW s \in Seq(Message) PROVE Cover(Forgotten, s)
BY SMTT(40) DEF Cover, Forgotten, Part, Lesser

LEMMA JobTypes ==
    ASSUME MemoryTypeOK, NEW j \in Jobs
    PROVE  /\ job[j] \in JobRecords /\ job[j].upTo \in Nat /\ job[j].snap \in Summaries
           /\ mem \in Summaries /\ mem.upTo \in Nat
           /\ msgs \in Seq(Message) /\ Len(msgs) \in Nat
<1>1. job[j] \in JobRecords /\ mem \in Summaries /\ msgs \in Seq(Message)
  BY DEF MemoryTypeOK
<1>2. job[j].upTo \in Nat /\ job[j].snap \in Summaries
  BY <1>1 DEF JobRecords
<1>3. mem.upTo \in Nat
  BY <1>1 DEF Summaries
<1> QED
  BY <1>1, <1>2, <1>3

\* A reset waits for no job, but is an upset if there is one.
LEMMA ForgetIsQuiet ==
    ASSUME upsets' = upsets \cup IF \E j \in Jobs : Active(j) THEN {"reset"} ELSE {},
           Calm' \/ Undisturbed'
    PROVE  \A j \in Jobs : ~ Active(j)
<1>1. "reset" \notin upsets'
  BY DEF Calm, Undisturbed
<1> QED
  BY <1>1

LEMMA JobCoversKept ==
    ASSUME MemoryTypeOK, MemoryTypeOK', NEW j \in Jobs, JobCovers(j), job'[j] = job[j],
           mem.upTo <= Len(msgs), mem.upTo <= mem'.upTo, Prefix(msgs, msgs')
    PROVE  JobCovers(j)'
<1> DEFINE k == job[j]
<1>1. k.upTo \in Nat /\ k.snap \in Summaries /\ mem.upTo \in Nat /\ mem'.upTo \in Nat
  BY JobTypes DEF MemoryTypeOK, Summaries
<1>2. /\ msgs \in Seq(Message) /\ msgs' \in Seq(Message) /\ Len(msgs) <= Len(msgs')
      /\ Len(msgs) \in Nat /\ Len(msgs') \in Nat
  <2>1. msgs \in Seq(Message) /\ msgs' \in Seq(Message)
    BY DEF MemoryTypeOK
  <2> QED
    BY <2>1 DEF Prefix
<1>3. ASSUME k.upTo <= Len(msgs), NEW f \in Nat
      PROVE  Part(msgs', f, k.upTo) = Part(msgs, f, k.upTo)
  BY <1>1, <1>2, <1>3, PartOfPrefix, SMTT(60)
<1>4. k.snap.upTo <= Len(msgs) /\ Cover(k.snap, msgs) => Cover(k.snap, msgs')
  BY <1>1, <1>2, CoverOfPrefix
<1> HIDE DEF k
<1>5. k.pc = "queued" =>
          /\ k.upTo <= Len(msgs')
          /\ \E f \in 0..mem'.upTo : Part(msgs', f, k.upTo) \subseteq k.batch
  <2> SUFFICES ASSUME k.pc = "queued"
               PROVE  /\ k.upTo <= Len(msgs')
                      /\ \E f \in 0..mem'.upTo : Part(msgs', f, k.upTo) \subseteq k.batch
    OBVIOUS
  <2>1. k.upTo <= Len(msgs) /\ \E f \in 0..mem.upTo : Part(msgs, f, k.upTo) \subseteq k.batch
    BY DEF JobCovers, k
  <2>2. PICK f \in 0..mem.upTo : Part(msgs, f, k.upTo) \subseteq k.batch
    BY <2>1
  <2>3. f \in 0..mem'.upTo /\ f \in Nat
    BY <1>1
  <2> QED
    BY <1>1, <1>2, <1>3, <2>1, <2>2, <2>3
<1>6. k.pc = "llm" =>
          k.upTo <= Len(msgs') /\ Part(msgs', 0, k.upTo) \subseteq k.before \cup k.batch
  <2>1. k.pc = "llm" =>
          k.upTo <= Len(msgs) /\ Part(msgs, 0, k.upTo) \subseteq k.before \cup k.batch
    BY DEF JobCovers, k
  <2> QED
    BY <1>1, <1>2, <1>3, <2>1
<1>7. k.pc = "write" => k.snap.upTo <= mem'.upTo /\ Cover(k.snap, msgs')
  <2>1. k.pc = "write" => k.snap.upTo <= mem.upTo /\ Cover(k.snap, msgs)
    BY DEF JobCovers, k
  <2>2. k.snap.upTo \in Nat
    BY <1>1 DEF Summaries
  <2> QED
    BY <1>1, <1>2, <1>4, <2>1, <2>2
<1> QED
  BY <1>5, <1>6, <1>7 DEF JobCovers, k

LEMMA SamePrefix == ASSUME NEW s \in Seq(Message) PROVE Prefix(s, s)
BY DEF Prefix

\* What covers the messages in memory covers those on disk, and conversely
\* once the history is saved.
LEMMA CoverOnDisk ==
    ASSUME MemoryTypeOK, Histories, at # "down", NEW r \in Summaries,
           Cover(r, msgs), r.upTo <= Len(msgs)
    PROVE  Cover(r, hist)
<1>1. msgs \in Seq(Message) /\ hist \in Seq(Message)
  BY DEF MemoryTypeOK
<1>2. Prefix(hist, msgs) \/ Prefix(msgs, hist)
  BY <1>1, SamePrefix DEF Histories
<1> QED
  BY <1>1, <1>2, CoverOfPrefix

\* Steps that leave the summary, the messages and the jobs alone.
LEMMA CoveredFrame ==
    ASSUME Covered, UNCHANGED <<mem, msgs, job>>, Cover(meta, hist)',
           at' \notin {"submit", "write", "wipe", "unlink"}
    PROVE  Covered'
BY DEF Covered, JobCovers, Active

LEMMA CoveredStep ==
    ASSUME MemoryTypeOK, MemoryTypeOK', Flow, Histories, Covered, [MemoryNext]_memoryVars, Calm'
    PROVE  Covered'
<1>a. /\ msgs \in Seq(Message) /\ hist \in Seq(Message) /\ Len(msgs) \in Nat /\ Len(hist) \in Nat
      /\ msgs' \in Seq(Message) /\ hist' \in Seq(Message) /\ Len(msgs') \in Nat
      /\ mem \in Summaries /\ meta \in Summaries /\ held \in Summaries
      /\ mem.upTo \in Nat /\ meta.upTo \in Nat /\ held.upTo \in Nat
      /\ mem' \in Summaries /\ mem'.upTo \in Nat
  <2>1. /\ msgs \in Seq(Message) /\ hist \in Seq(Message)
        /\ msgs' \in Seq(Message) /\ hist' \in Seq(Message)
        /\ mem \in Summaries /\ meta \in Summaries /\ held \in Summaries /\ mem' \in Summaries
    BY DEF MemoryTypeOK
  <2>2. \A r \in Summaries : r.upTo \in Nat
    BY DEF Summaries
  <2> QED
    BY <2>1, <2>2
<1>b. mem.upTo <= Len(msgs) /\ Cover(mem, msgs) /\ Cover(meta, hist) /\ \A j \in Jobs : JobCovers(j)
  BY DEF Covered
<1>c. Cover(Forgotten, msgs) /\ Cover(Forgotten, msgs') /\ Cover(Forgotten, hist)
      /\ Forgotten.upTo = 0
  BY <1>a, NothingCovered DEF Forgotten
<1>1. CASE Update
  <2>1. Prefix(msgs, msgs') /\ Len(msgs') = Len(msgs) + 2
    BY <1>1, <1>a, SMTT(40) DEF Update, Prefix
  <2>2. CASE UNCHANGED mem
    <3>1. \A j \in Jobs : JobCovers(j)'
      <4> SUFFICES ASSUME NEW j \in Jobs PROVE JobCovers(j)'
        OBVIOUS
      <4>1. job'[j] = job[j] /\ mem.upTo <= mem'.upTo
        BY <1>1, <1>a, <2>2 DEF Update, jobs
      <4> QED
        BY <4>1, <2>1, <1>b, JobCoversKept
    <3>2. mem'.upTo <= Len(msgs') /\ Cover(mem, msgs)' /\ Cover(meta, hist)'
      <4>1. Cover(mem, msgs')
        BY <1>a, <1>b, <2>1, CoverOfPrefix
      <4> QED
        BY <1>1, <1>a, <1>b, <2>1, <2>2, <4>1 DEF Update, files
    <3> QED
      BY <1>1, <3>1, <3>2 DEF Update, Covered, Goto
  <2>3. CASE Forget
    <3>1. mem' = Forgotten /\ \A j \in Jobs : ~ Active(j)
      BY <2>3, ForgetIsQuiet DEF Forget
    <3>2. \A j \in Jobs : JobCovers(j)'
      BY <1>1, <3>1 DEF Update, jobs, JobCovers, Active
    <3>3. mem'.upTo <= Len(msgs') /\ Cover(mem, msgs)' /\ Cover(meta, hist)'
      BY <1>1, <1>a, <1>b, <1>c, <3>1 DEF Update, files
    <3> QED
      BY <1>1, <3>2, <3>3 DEF Update, Covered, Goto
  <2> QED
    BY <1>1, <2>2, <2>3 DEF Update
<1>2. CASE Schedule
  <2>1. at' = "submit" => todo'.from <= mem'.upTo /\ todo'.upTo <= Len(msgs')
    BY <1>2, <1>a, MemoryAssumption, SMTT(40) DEF Schedule, Goto, turns, summary, Lesser, MemoryAssumption
  <2> QED
    BY <1>2, <2>1 DEF Schedule, Goto, turns, summary, jobs, files, Covered, JobCovers, Active
<1>3. CASE Submit
  <2>1. UNCHANGED <<mem, msgs, meta, hist>> /\ at' = "roll"
    BY <1>3 DEF Submit, turns, summary, files, Goto
  <2>2. ASSUME NEW j \in Jobs PROVE JobCovers(j)'
    <3>1. CASE job'[j] = job[j]
      BY <1>a, <1>b, <2>1, <3>1, SamePrefix, JobCoversKept
    <3>2. CASE job'[j] = [NoJob EXCEPT !.pc = "queued", !.upTo = todo.upTo,
                                       !.batch = Part(msgs, todo.from, todo.upTo)]
      <4>1. /\ job'[j].pc = "queued" /\ job'[j].upTo = todo.upTo
            /\ job'[j].batch = Part(msgs, todo.from, todo.upTo)
        BY <3>2 DEF NoJob
      <4>2. todo.from \in 0..mem.upTo /\ todo.upTo <= Len(msgs)
        BY <1>3, <1>a DEF Submit, Covered, MemoryTypeOK
      <4> QED
        BY <2>1, <4>1, <4>2 DEF JobCovers
    <3> QED
      BY <1>3, <3>1, <3>2 DEF Submit, MemoryTypeOK
  <2> QED
    BY <1>b, <2>1, <2>2 DEF Covered
<1>4. CASE SkipSubmit
  BY <1>4, CoveredFrame, <1>b DEF SkipSubmit, turns, summary, jobs, files, Goto
<1>5. CASE ScheduleRoll
  BY <1>5, CoveredFrame, <1>b DEF ScheduleRoll, turns, summary, jobs, files, Goto
<1>6. CASE Save
  <2>1. Prefix(hist, msgs) \/ Prefix(msgs, hist)
    BY <1>6, <1>a, SamePrefix DEF Save, Histories
  <2>2. hist' = msgs /\ meta' = meta
    BY <1>6 DEF Save
  <2>3. "overtaken" \notin upsets'
    BY DEF Calm
  <2>4. ~ (Len(hist) < meta.upTo /\ Len(hist) < Len(msgs))
    BY <1>6, <2>3 DEF Save
  <2>5. CASE Len(hist) < Len(msgs)
    <3>1. Prefix(hist, msgs) /\ meta.upTo <= Len(hist)
      BY <1>a, <2>1, <2>4, <2>5 DEF Prefix
    <3>2. Cover(meta, hist)'
      BY <1>a, <1>b, <2>2, <3>1, CoverOfPrefix
    <3> QED
      BY <1>6, <3>2, CoveredFrame DEF Save, turns, summary, jobs, Goto
  <2>6. CASE Len(msgs) <= Len(hist)
    <3>1. Prefix(msgs, hist)
      BY <1>a, <2>1, <2>6 DEF Prefix
    <3>2. Cover(meta, hist)'
      BY <1>a, <1>b, <2>2, <3>1, CoverOfPrefix
    <3> QED
      BY <1>6, <3>2, CoveredFrame DEF Save, turns, summary, jobs, Goto
  <2> QED
    BY <1>a, <2>5, <2>6
<1>7. CASE Snapshot
  BY <1>7, <1>a, <1>b DEF Snapshot, turns, summary, jobs, files, Covered, JobCovers, Goto, Active
<1>8. CASE WriteMeta
  <2>1. held.upTo <= mem.upTo /\ Cover(held, msgs) /\ at # "down"
    BY <1>8 DEF WriteMeta, Covered
  <2>2. Cover(held, hist)
    BY <1>a, <1>b, <2>1, CoverOnDisk
  <2>3. Cover(meta, hist)'
    BY <1>8, <2>2 DEF WriteMeta
  <2>4. at' \notin {"submit", "write", "wipe", "unlink"}
    BY <1>8 DEF WriteMeta, Flow, Goto
  <2> QED
    BY <1>8, <2>3, <2>4, CoveredFrame DEF WriteMeta, turns, summary, jobs
<1>9. CASE ClearDirty \/ SaveTiers
  BY <1>9, <1>b, CoveredFrame DEF ClearDirty, SaveTiers, turns, summary, jobs, files, Goto
<1>10. CASE ResetTopic
  <2>1. mem' = Forgotten /\ \A j \in Jobs : ~ Active(j)
    BY <1>10, ForgetIsQuiet DEF ResetTopic, Forget
  <2>2. UNCHANGED <<msgs, job, meta, hist>> /\ at' = "unlink"
    BY <1>10 DEF ResetTopic, turns, jobs, files, Goto
  <2> QED
    BY <1>a, <1>b, <1>c, <2>1, <2>2 DEF Covered, JobCovers, Active
<1>11. CASE Unlink
  <2>1. mem = Forgotten /\ \A j \in Jobs : ~ Active(j)
    BY <1>11 DEF Unlink, Covered
  <2>2. UNCHANGED <<mem, msgs, job, hist>> /\ meta' = Forgotten /\ at' \in {"idle", "wipe"}
    BY <1>11 DEF Unlink, turns, summary, jobs, Goto, Flow
  <2> QED
    BY <1>a, <1>b, <1>c, <2>1, <2>2 DEF Covered, JobCovers, Active
<1>12. CASE Clear \/ Join
  BY <1>12, <1>b, CoveredFrame DEF Clear, Join, turns, summary, jobs, files, Goto
<1>13. CASE Reset
  <2>1. mem' = Forgotten /\ \A j \in Jobs : ~ Active(j)
    BY <1>13, ForgetIsQuiet DEF Reset, Forget
  <2>2. UNCHANGED <<msgs, job, meta, hist>> /\ at' \in {"unlink", "snapshot"}
    BY <1>13 DEF Reset, turns, jobs, files, Goto
  <2> QED
    BY <1>a, <1>b, <1>c, <2>1, <2>2 DEF Covered, JobCovers, Active
<1>14. CASE Wipe
  <2>1. mem = Forgotten /\ \A j \in Jobs : ~ Active(j)
    BY <1>14 DEF Wipe, Covered
  <2>2. UNCHANGED <<mem, job, hist>> /\ meta' = Forgotten /\ at' = "save"
    BY <1>14 DEF Wipe, summary, jobs, Goto
  <2> QED
    BY <1>a, <1>b, <1>c, <2>1, <2>2 DEF Covered, JobCovers, Active
<1>15. CASE Undo
  <2>0. UNCHANGED <<mem, job, hist, meta>> /\ at' = "save"
    BY <1>15 DEF Undo, summary, jobs, files, Goto
  <2>1. Prefix(msgs', msgs)
    BY <1>15, <1>a, SMTT(40) DEF Undo, Prefix
  <2>2. "undo" \notin upsets'
    BY DEF Calm
  <2>3. mem.upTo <= Len(msgs) - 2
    BY <1>15, <1>a, <2>2 DEF Undo
  <2>4. Len(msgs') = Len(msgs) - 2
    <3>1. \A n \in 0..Len(msgs) : Len(SubSeq(msgs, 1, n)) = n
      BY <1>a, SMTT(40)
    <3>2. Len(msgs) - 2 \in 0..Len(msgs)
      BY <1>a, <2>3
    <3> QED
      BY <1>15, <3>1, <3>2 DEF Undo
  <2>5. ASSUME NEW j \in Jobs, Pending(j) PROVE job[j].upTo <= Len(msgs')
    BY <1>15, <1>a, <2>2, <2>4, <2>5, JobTypes DEF Undo
  <2>6. Cover(mem, msgs')
    BY <1>a, <1>b, <2>1, CoverOfPrefix
  <2>7. ASSUME NEW j \in Jobs PROVE JobCovers(j)'
    <3>1. \A f \in Nat : Part(msgs', f, job[j].upTo) \subseteq Part(msgs, f, job[j].upTo)
      BY <1>a, <2>1, JobTypes, PartOfPrefix
    <3>2. Cover(job[j].snap, msgs) => Cover(job[j].snap, msgs')
      BY <1>a, <2>1, JobTypes, CoverOfPrefix
    <3> QED
      BY <1>a, <1>b, <2>0, <2>5, <3>1, <3>2 DEF JobCovers, Pending
  <2> QED
    BY <1>b, <2>0, <2>3, <2>4, <2>6, <2>7 DEF Covered
<1>16. ASSUME NEW j \in Jobs, StartJob(j) PROVE Covered'
  <2>0. UNCHANGED <<mem, msgs, meta, hist, at, todo, held>>
    BY <1>16 DEF StartJob, turns, summary, files, thread
  <2>1. /\ job'[j].pc = "llm" /\ job'[j].before = mem.text
        /\ job'[j].batch = job[j].batch /\ job'[j].upTo = job[j].upTo
    BY <1>16, JobTypes DEF StartJob, MemoryTypeOK, JobRecords
  <2>2. job[j].upTo <= Len(msgs) /\ job[j].upTo \in Nat
    BY <1>16, <1>b, JobTypes DEF StartJob, JobCovers
  <2>3. PICK f \in 0..mem.upTo : Part(msgs, f, job[j].upTo) \subseteq job[j].batch
    BY <1>16, <1>b DEF StartJob, JobCovers
  <2>4. f \in Nat /\ f <= mem.upTo
    BY <1>a
  <2>5. Part(msgs, 0, f) \subseteq mem.text
    <3>1. Part(msgs, 0, f) \subseteq Part(msgs, 0, mem.upTo)
      BY <1>a, <2>4, PartGrows
    <3> QED
      BY <1>b, <3>1 DEF Cover
  <2>6. Part(msgs, 0, job[j].upTo) \subseteq mem.text \cup job[j].batch
    BY <1>a, <2>2, <2>3, <2>4, <2>5, PartSplits
  <2>7. JobCovers(j)'
    BY <2>0, <2>1, <2>2, <2>6 DEF JobCovers
  <2>8. ASSUME NEW i \in Jobs, i # j PROVE JobCovers(i)' /\ (Active(i)' <=> Active(i))
    <3>1. job'[i] = job[i]
      BY <1>16, <2>8 DEF StartJob, MemoryTypeOK
    <3> QED
      BY <1>a, <1>b, <2>0, <3>1, SamePrefix, JobCoversKept DEF Active
  <2>9. Active(j)
    BY <1>16 DEF StartJob, Active
  <2> QED
    BY <1>b, <2>0, <2>7, <2>8, <2>9 DEF Covered
<1>17. ASSUME NEW j \in Jobs, Answer(j) PROVE Covered'
  <2>0. UNCHANGED <<msgs, meta, hist, at, todo, held>> /\ job'[j].pc = "save" /\ Active(j)
    BY <1>17 DEF Answer, turns, files, thread, Active, MemoryTypeOK, NoJob
  <2>1. mem.upTo <= mem'.upTo /\ mem'.upTo <= Len(msgs) /\ Cover(mem', msgs)
    <3>1. CASE UNCHANGED mem
      BY <1>a, <1>b, <3>1
    <3>2. CASE ~ UNCHANGED mem
      <4>1. "failed" \notin upsets'
        BY DEF Calm
      <4>2. /\ mem' = [text |-> job[j].before \cup job[j].batch, upTo |-> job[j].upTo]
            /\ job[j].upTo > mem.upTo
        BY <1>17, <3>2, <4>1 DEF Answer, summary
      <4>3. job[j].upTo <= Len(msgs)
            /\ Part(msgs, 0, job[j].upTo) \subseteq job[j].before \cup job[j].batch
        BY <1>17, <1>b DEF Answer, JobCovers
      <4> QED
        BY <1>a, <4>2, <4>3, JobTypes DEF Cover
    <3> QED
      BY <3>1, <3>2
  <2>2. JobCovers(j)'
    BY <2>0 DEF JobCovers
  <2>3. ASSUME NEW i \in Jobs, i # j PROVE JobCovers(i)'
    <3>1. job'[i] = job[i]
      BY <1>17, <2>3 DEF Answer, MemoryTypeOK
    <3> QED
      BY <1>a, <1>b, <2>0, <2>1, <3>1, SamePrefix, JobCoversKept
  <2>4. todo.from \in Nat
    BY DEF MemoryTypeOK
  <2> QED
    BY <1>a, <1>b, <2>0, <2>1, <2>2, <2>3, <2>4 DEF Covered
<1>18. ASSUME NEW j \in Jobs,
              JobSnapshot(j) \/ JobWrite(j) \/ JobClearDirty(j) \/ JobEnds(j) \/ JobRaises(j)
       PROVE  Covered'
  <2>0. UNCHANGED <<mem, msgs, hist, at, todo, held>> /\ Active(j) /\ at # "down"
    BY <1>18 DEF JobSnapshot, JobWrite, JobClearDirty, JobEnds, JobRaises, turns, summary, files,
       thread, Active, Flow
  <2>1. Cover(meta, hist)'
    <3>1. CASE JobWrite(j)
      <4>1. job[j].snap.upTo <= mem.upTo /\ Cover(job[j].snap, msgs) /\ job[j].snap \in Summaries
            /\ job[j].snap.upTo \in Nat
        BY <3>1, <1>b, JobTypes DEF JobWrite, JobCovers, Summaries
      <4>2. Cover(job[j].snap, hist)
        BY <1>a, <1>b, <2>0, <4>1, CoverOnDisk
      <4> QED
        BY <2>0, <3>1, <4>2 DEF JobWrite
    <3>2. CASE UNCHANGED meta
      BY <1>b, <2>0, <3>2
    <3> QED
      BY <1>18, <3>1, <3>2 DEF JobSnapshot, JobClearDirty, JobEnds, JobRaises, files
  <2>2. JobCovers(j)'
    <3>1. CASE JobSnapshot(j)
      <4>1. job'[j].pc = "write" /\ job'[j].snap = mem
        BY <3>1, JobTypes DEF JobSnapshot, MemoryTypeOK, JobRecords
      <4> QED
        BY <1>a, <1>b, <2>0, <4>1 DEF JobCovers
    <3>2. CASE ~ JobSnapshot(j)
      <4>1. job'[j].pc \in {"none", "flag", "last"}
        <5>1. CASE JobWrite(j) \/ JobEnds(j) \/ JobRaises(j)
          <6>1. job' \in {[job EXCEPT ![j] = NoJob], [job EXCEPT ![j] = [NoJob EXCEPT !.pc = "flag"]]}
            BY <5>1 DEF JobWrite, JobEnds, JobRaises
          <6> QED
            BY <6>1 DEF MemoryTypeOK, NoJob
        <5>2. CASE JobClearDirty(j)
          <6>1. job' = [job EXCEPT ![j] = [job[j] EXCEPT !.pc = "last"]] /\ job[j] \in JobRecords
            BY <5>2 DEF JobClearDirty, MemoryTypeOK
          <6> QED
            BY <6>1 DEF MemoryTypeOK, JobRecords
        <5> QED
          BY <1>18, <3>2, <5>1, <5>2
      <4> QED
        BY <4>1 DEF JobCovers
    <3> QED
      BY <3>1, <3>2
  <2>3. ASSUME NEW i \in Jobs, i # j PROVE JobCovers(i)'
    <3>1. job'[i] = job[i]
      BY <1>18, <2>3 DEF JobSnapshot, JobWrite, JobClearDirty, JobEnds, JobRaises, MemoryTypeOK
    <3> QED
      BY <1>a, <1>b, <2>0, <3>1, SamePrefix, JobCoversKept
  <2> QED
    BY <1>b, <2>0, <2>1, <2>2, <2>3 DEF Covered
<1>19. ASSUME NEW r \in Rolls, FinishRoll(r) \/ DropRoll(r) PROVE Covered'
  BY <1>19 DEF FinishRoll, DropRoll, turns, summary, jobs, files, thread, Covered, JobCovers, Active
<1>20. CASE Shutdown
  <2>1. hist = msgs /\ hist' = msgs /\ meta' \in {meta, mem}
    BY <1>20 DEF Shutdown, Histories, Settled
  <2> QED
    BY <1>20, <1>b, <2>1, CoveredFrame DEF Shutdown, turns, summary, jobs, Goto
<1>21. CASE Crash
  <2>1. mem' = Forgotten /\ (\A j \in Jobs : job'[j].pc = "none") /\ at' = "down"
        /\ UNCHANGED <<meta, hist>>
    BY <1>21 DEF Crash, NoJob, Goto, files
  <2> QED
    BY <1>a, <1>b, <1>c, <2>1 DEF Covered, JobCovers
<1>22. CASE Load
  <2>1. msgs' = hist /\ hist' = hist /\ at' = "idle" /\ UNCHANGED job
    BY <1>22, LoadsHistory DEF Load, Goto, jobs
  <2>2. PICK kept \in {Forgotten, meta} : mem' = [kept EXCEPT !.upTo = Lesser(@, Len(msgs'))]
                                          /\ meta' = kept
    BY <1>22 DEF Load
  <2>3. kept \in Summaries /\ Cover(kept, hist)
    <3>1. Forgotten \in Summaries
      BY DEF Forgotten, Summaries
    <3> QED
      BY <1>a, <1>b, <1>c, <3>1
  <2>4. kept.upTo \in Nat /\ mem'.upTo = Lesser(kept.upTo, Len(hist)) /\ mem'.text = kept.text
    BY <2>1, <2>2, <2>3 DEF Summaries
  <2>5. mem'.upTo <= Len(hist) /\ mem'.upTo <= kept.upTo
    BY <1>a, <2>4 DEF Lesser
  <2>7. Part(hist, 0, mem'.upTo) \subseteq Part(hist, 0, kept.upTo)
    BY <1>a, <2>4, <2>5, PartGrows
  <2>8. Cover(mem', hist)
    BY <2>3, <2>4, <2>7 DEF Cover
  <2>6. \A j \in Jobs : JobCovers(j)'
    BY <1>22, <2>1 DEF Load, Flow, JobCovers, Active
  <2> QED
    BY <2>1, <2>2, <2>3, <2>5, <2>6, <2>8 DEF Covered
<1>23. CASE UNCHANGED memoryVars
  BY <1>23 DEF memoryVars, Covered, JobCovers, Active
<1> QED
  BY <1>1, <1>2, <1>3, <1>4, <1>5, <1>6, <1>7, <1>8, <1>9, <1>10, <1>11, <1>12, <1>13, <1>14,
     <1>15, <1>16, <1>17, <1>18, <1>19, <1>20, <1>21, <1>22, <1>23 DEF MemoryNext, Session, Pool

------------------------------------------------------------------------------
(* NoReplyOverlooked.  A cache fits a history if it went through the replies   *)
(* it says it did: whichever roll-forward made it, and for as long as the      *)
(* history only grows, or loses what the cache has nothing to do with.         *)

LEMMA NothingFits == ASSUME NEW s \in Seq(Message) PROVE Fits(NoTier, s)
BY DEF Fits, NoTier

LEMMA FittingFrame ==
    ASSUME Fitting, UNCHANGED <<msgs, tier, roll, tiers, hist>>, at # "down"
    PROVE  Fitting'
BY DEF Fitting

LEMMA FittingStep ==
    ASSUME MemoryTypeOK, MemoryTypeOK', Flow, Histories, Fitting, [MemoryNext]_memoryVars, Calm'
    PROVE  Fitting'
<1>a. /\ msgs \in Seq(Message) /\ hist \in Seq(Message) /\ Len(msgs) \in Nat
      /\ msgs' \in Seq(Message) /\ hist' \in Seq(Message) /\ Len(msgs') \in Nat
      /\ tier \in Tiers /\ tiers \in Tiers /\ \A r \in Rolls : roll[r] \in Tiers
  <2>1. msgs \in Seq(Message) /\ hist \in Seq(Message)
    BY DEF MemoryTypeOK
  <2>2. msgs' \in Seq(Message) /\ hist' \in Seq(Message)
    BY DEF MemoryTypeOK
  <2>3. tier \in Tiers /\ tiers \in Tiers /\ \A r \in Rolls : roll[r] \in Tiers
    BY DEF MemoryTypeOK
  <2> QED
    BY <2>1, <2>2, <2>3
<1>b. /\ Fits(tier, msgs) /\ Fits(tiers, hist) /\ \A r \in Rolls : Fits(roll[r], msgs)
      /\ at # "down" => Fits(tiers, msgs)
  BY DEF Fitting
<1>c. Fits(NoTier, msgs) /\ Fits(NoTier, msgs') /\ Fits(NoTier, hist)
  BY <1>a, NothingFits
<1>1. CASE Update
  <2>1. Prefix(msgs, msgs')
    BY <1>1, <1>a, SMTT(40) DEF Update, Prefix
  <2>2. UNCHANGED <<tier, roll, tiers, hist>> /\ at # "down"
    BY <1>1 DEF Update, caches, files
  <2>3. Fits(tier, msgs') /\ Fits(tiers, msgs')
    BY <1>a, <1>b, <2>1, <2>2, FitsPrefix
  <2>4. \A r \in Rolls : Fits(roll[r], msgs')
    BY <1>a, <1>b, <2>1, FitsPrefix
  <2> QED
    BY <1>b, <2>2, <2>3, <2>4 DEF Fitting
<1>2. CASE Undo
  <2>1. Prefix(msgs', msgs)
    BY <1>2, <1>a, SMTT(40) DEF Undo, Prefix
  <2>2. UNCHANGED <<tier, roll, tiers, hist>> /\ at # "down"
    BY <1>2 DEF Undo, caches, files
  <2>3. "undo" \notin upsets'
    BY DEF Calm
  <2>4. /\ tier.bound <= Len(msgs) - 2 /\ tiers.bound <= Len(msgs) - 2
        /\ \A r \in Rolls : roll[r].bound <= Len(msgs) - 2
    <3>1. \A k \in Tiers : k.bound \in Nat
      BY DEF Tiers
    <3> QED
      BY <1>2, <1>a, <2>3, <3>1 DEF Undo
  <2>5. Len(msgs') = Len(msgs) - 2
    <3>1. \A n \in 0..Len(msgs) : Len(SubSeq(msgs, 1, n)) = n
      BY <1>a, SMTT(40)
    <3>2. tier.bound \in Nat
      BY <1>a DEF Tiers
    <3>3. Len(msgs) - 2 \in 0..Len(msgs)
      BY <1>a, <2>4, <3>2
    <3> QED
      BY <1>2, <3>1, <3>3 DEF Undo
  <2>6. Fits(tier, msgs') /\ Fits(tiers, msgs')
    BY <1>a, <1>b, <2>1, <2>2, <2>4, <2>5, FitsPrefix
  <2>7. \A r \in Rolls : Fits(roll[r], msgs')
    BY <1>a, <1>b, <2>1, <2>4, <2>5, FitsPrefix
  <2> QED
    BY <1>b, <2>2, <2>6, <2>7 DEF Fitting
<1>3. CASE Wipe
  <2>1. "clear" \notin upsets'
    BY DEF Calm
  <2>2. \A r \in Rolls : ~ Rolling(r)
    BY <1>3, <2>1 DEF Wipe
  <2>3. \A r \in Rolls : Fits(roll[r], msgs')
    BY <2>2 DEF Fits, Rolling
  <2>4. tier' = NoTier /\ tiers' = NoTier /\ UNCHANGED <<roll, hist>>
    BY <1>3 DEF Wipe
  <2> QED
    BY <1>c, <2>3, <2>4 DEF Fitting
<1>4. CASE Crash
  <2>1. /\ tier' = NoTier /\ roll' = [r \in Rolls |-> NoTier] /\ UNCHANGED <<tiers, hist>>
        /\ at' = "down"
    BY <1>4 DEF Crash, files, Goto
  <2> QED
    BY <1>b, <1>c, <2>1 DEF Fitting
<1>5. CASE Load
  <2>1. msgs' = hist /\ hist' = hist /\ tier' = tiers /\ UNCHANGED <<roll, tiers>>
    BY <1>5, LoadsHistory DEF Load
  <2>2. \A r \in Rolls : Fits(roll[r], hist)
    BY <1>5 DEF Load, Flow, Fits, Rolling
  <2> QED
    BY <1>b, <2>1, <2>2 DEF Fitting
<1>6. CASE Save
  BY <1>6, <1>b DEF Save, turns, caches, Fitting, Goto
<1>7. CASE SaveTiers
  <2>1. hist = msgs /\ UNCHANGED <<msgs, hist, tier, roll>> /\ tiers' \in {tier, tiers} /\ at # "down"
    BY <1>7 DEF SaveTiers, Histories, Settled, turns, caches
  <2> QED
    BY <1>b, <2>1 DEF Fitting
<1>8. CASE Shutdown
  <2>1. hist' = msgs /\ UNCHANGED <<msgs, tier, roll>> /\ tiers' \in {tier, tiers} /\ at # "down"
    BY <1>8 DEF Shutdown, turns, caches
  <2> QED
    BY <1>b, <2>1 DEF Fitting
<1>9. CASE ScheduleRoll
  <2>1. UNCHANGED <<msgs, tier, tiers, hist>> /\ at # "down"
    BY <1>9 DEF ScheduleRoll, turns, files
  <2>2. ASSUME NEW v \in Verbatim, NEW r \in Rolls, v < Len(msgs),
               roll' = [roll EXCEPT ![r] =
                  [ready |-> TRUE, from |-> Lesser(mem.upTo, Len(msgs) - v),
                   bound |-> Len(msgs) - v,
                   sifted |-> {m \in Part(msgs, Lesser(mem.upTo, Len(msgs) - v), Len(msgs) - v) :
                                Reply(m)}]]
        PROVE  \A q \in Rolls : Fits(roll'[q], msgs)
    <3>1. Len(msgs) - v <= Len(msgs)
      BY <1>a, <2>2, MemoryAssumption DEF MemoryAssumption
    <3>2. \A q \in Rolls \ {r} : roll'[q] = roll[q]
      BY <2>2 DEF MemoryTypeOK
    <3>3. roll'[r].bound = Len(msgs) - v
          /\ roll'[r].sifted = {m \in Part(msgs, roll'[r].from, roll'[r].bound) : Reply(m)}
      BY <2>2 DEF MemoryTypeOK
    <3>4. Fits(roll'[r], msgs)
      BY <3>1, <3>3 DEF Fits
    <3> QED
      BY <1>b, <3>2, <3>4
  <2>3. \A q \in Rolls : Fits(roll'[q], msgs)
    <3>1. CASE UNCHANGED roll
      BY <1>b, <3>1
    <3> QED
      BY <1>9, <2>2, <3>1 DEF ScheduleRoll
  <2> QED
    BY <1>b, <2>1, <2>3 DEF Fitting
<1>10. CASE Schedule \/ Submit \/ SkipSubmit \/ Snapshot
  BY <1>10, FittingFrame DEF Schedule, Submit, SkipSubmit, Snapshot, turns, caches, files
<1>11. CASE WriteMeta \/ Unlink \/ ClearDirty
  BY <1>11, FittingFrame DEF WriteMeta, Unlink, ClearDirty, turns, caches, files
<1>12. CASE ResetTopic \/ Clear \/ Join \/ Reset
  BY <1>12, FittingFrame DEF ResetTopic, Clear, Join, Reset, turns, caches, files
<1>13. ASSUME NEW j \in Jobs,
              \/ StartJob(j) \/ Answer(j) \/ JobSnapshot(j) \/ JobWrite(j)
              \/ JobClearDirty(j) \/ JobEnds(j) \/ JobRaises(j)
       PROVE  Fitting'
  <2>1. at # "down"
    BY <1>13 DEF StartJob, Answer, JobSnapshot, JobWrite, JobClearDirty, JobEnds, JobRaises, Flow, Active
  <2> QED
    BY <1>13, <2>1, FittingFrame DEF StartJob, Answer, JobSnapshot, JobWrite, JobClearDirty,
       JobEnds, JobRaises, turns, caches, files
<1>14. ASSUME NEW r \in Rolls, FinishRoll(r) \/ DropRoll(r) PROVE Fitting'
  <2>1. /\ tier' \in {tier, roll[r]} /\ roll' = [roll EXCEPT ![r] = NoTier] /\ at # "down"
        /\ UNCHANGED <<msgs, hist, tiers>>
    BY <1>14 DEF FinishRoll, DropRoll, turns, files, Flow
  <2>2. \A q \in Rolls : roll'[q] \in {roll[q], NoTier}
    BY <2>1 DEF MemoryTypeOK
  <2> QED
    BY <1>b, <1>c, <2>1, <2>2 DEF Fitting
<1>15. CASE UNCHANGED memoryVars
  BY <1>15 DEF memoryVars, Fitting
<1> QED
  BY <1>1, <1>2, <1>3, <1>4, <1>5, <1>6, <1>7, <1>8, <1>9, <1>10, <1>11, <1>12, <1>13, <1>14,
     <1>15 DEF MemoryNext, Session, Pool

------------------------------------------------------------------------------
(* CleanMeansSaved.  While no job is passed by there is one at most, and it is *)
(* what sets the flag; it writes what it set before it clears it.              *)

\* With no job in the pool there is little to keep.
LEMMA SavingWithoutJobs ==
    ASSUME \A j \in Jobs : ~ Active(j)', ~ dirty',
           at' = "write" => held' = mem',
           at' \in {"flag", "tiers", "idle"} => Saved',
           at' \in {"wipe", "unlink"} => mem' = Forgotten
    PROVE  Saving'
BY DEF Saving, Active, Pending

LEMMA SavingFrame ==
    ASSUME Saving, UNCHANGED <<mem, meta, job, future, dirty>>,
           at' \notin {"snapshot", "write", "flag", "tiers", "idle", "wipe", "unlink"}
    PROVE  Saving'
BY DEF Saving, Active, Pending, Saved

LEMMA OneJob ==
    ASSUME Saving, NEW j \in Jobs, Active(j)
    PROVE  /\ future = j
           /\ \A i \in Jobs \ {j} : job[i].pc = "none"
           /\ dirty => job[j].pc \in {"save", "write", "flag"}
BY DEF Saving, Active

LEMMA NoJobIsClean == ASSUME Saving, \A j \in Jobs : ~ Active(j) PROVE ~ dirty
BY DEF Saving, Active

\* A step of the one job there is.
LEMMA SavingOfJob ==
    ASSUME MemoryTypeOK, Saving, NEW j \in Jobs, Active(j), Active(j)',
           UNCHANGED <<at, held, future>>, \A i \in Jobs \ {j} : job'[i] = job[i],
           dirty' => job'[j].pc \in {"save", "write", "flag"},
           job'[j].pc = "write" => job'[j].snap = mem',
           job'[j].pc \in {"flag", "last"} => Saved',
           at \in {"snapshot", "write", "flag"} => ~ Pending(j)' /\ UNCHANGED mem,
           at = "flag" => Saved'
    PROVE  Saving'
<1>1. \A i \in Jobs \ {j} : job'[i].pc = "none"
  BY OneJob
<1>2. future' = j
  BY OneJob
<1> QED
  BY <1>1, <1>2 DEF Saving, Active, Pending

LEMMA SavingStep ==
    ASSUME MemoryTypeOK, MemoryTypeOK', Flow, Saving, [MemoryNext]_memoryVars, Undisturbed'
    PROVE  Saving'
<1>1. CASE Update
  <2>1. CASE UNCHANGED <<mem, dirty>>
    BY <1>1, <2>1, SavingFrame DEF Update, jobs, files, Goto
  <2>2. CASE Forget
    <3>1. (\A j \in Jobs : ~ Active(j)) /\ dirty' = dirty
      BY <2>2, ForgetIsQuiet DEF Forget
    <3>2. (\A j \in Jobs : ~ Active(j)') /\ at' = "schedule"
      BY <1>1, <3>1 DEF Update, jobs, Active, Goto
    <3> QED
      BY <3>1, <3>2, NoJobIsClean, SavingWithoutJobs
  <2> QED
    BY <1>1, <2>1, <2>2 DEF Update
<1>2. CASE Schedule \/ SkipSubmit
  BY <1>2, SavingFrame DEF Schedule, SkipSubmit, summary, jobs, files, Goto
<1>3. CASE Submit
  <2>1. ~ InFlight
    <3>1. "overlap" \notin upsets'
      BY DEF Undisturbed
    <3> QED
      BY <1>3, <3>1 DEF Submit
  <2>2. \A j \in Jobs : ~ Active(j)
    BY <2>1, MemoryAssumption DEF Saving, InFlight, MemoryAssumption
  <2>3. UNCHANGED <<mem, meta, dirty>> /\ at' = "roll" /\ ~ dirty
    BY <1>3, <2>2, NoJobIsClean DEF Submit, summary, files, Goto
  <2>4. CASE UNCHANGED <<future, job>>
    BY <2>3, <2>4, SavingFrame
  <2>5. CASE ~ UNCHANGED <<future, job>>
    <3>1. PICK j \in Jobs :
            /\ job' = [job EXCEPT ![j] =
                 [NoJob EXCEPT !.pc = "queued", !.upTo = todo.upTo,
                               !.batch = Part(msgs, todo.from, todo.upTo)]]
            /\ future' = j
      BY <1>3, <2>5 DEF Submit
    <3>2. job'[j].pc = "queued" /\ \A i \in Jobs \ {j} : job'[i].pc = "none"
      BY <2>2, <3>1 DEF MemoryTypeOK, NoJob, Active
    <3> QED
      BY <2>3, <3>1, <3>2 DEF Saving, Active
  <2> QED
    BY <2>4, <2>5
<1>4. CASE ScheduleRoll
  BY <1>4, SavingFrame DEF ScheduleRoll, summary, jobs, files, Goto
<1>5. CASE Save
  <2>0. UNCHANGED <<mem, meta, job, future, dirty>>
    BY <1>5 DEF Save, summary, jobs
  <2>1. CASE at' = "snapshot" /\ ~ InFlight
    <3>1. \A j \in Jobs : ~ Active(j)
      BY <2>1, MemoryAssumption DEF Saving, InFlight, MemoryAssumption
    <3> QED
      BY <2>0, <2>1, <3>1, NoJobIsClean, SavingWithoutJobs DEF Active
  <2>2. CASE at' = "snapshot" /\ InFlight /\ dirty
    <3>1. \A j \in Jobs : ~ Pending(j)
      BY <2>2 DEF Saving, Active, Pending
    <3> QED
      BY <2>0, <2>2, <3>1 DEF Saving, Active, Pending, Saved
  <2>3. CASE at' = "tiers" /\ InFlight
    <3>1. \E j \in Jobs : Active(j)
      BY <2>3 DEF InFlight, MemoryTypeOK
    <3> QED
      BY <2>0, <2>3, <3>1 DEF Saving, Active, Pending, Saved
  <2> QED
    BY <1>5, <2>1, <2>2, <2>3 DEF Save, Goto
<1>6. CASE Snapshot
  BY <1>6 DEF Snapshot, summary, jobs, files, Goto, Saving, Active, Pending, Saved
<1>7. CASE WriteMeta
  <2>1. meta' = mem /\ UNCHANGED <<mem, job, future, dirty>>
    BY <1>7 DEF WriteMeta, Saving, summary, jobs
  <2>2. mem.upTo \in Nat /\ at' \in {"tiers", "flag", "save"}
    BY <1>7 DEF WriteMeta, Flow, Goto, MemoryTypeOK, Summaries
  <2>3. Saved'
    BY <2>1, <2>2 DEF Saved
  <2>4. \A j \in Jobs : ~ Pending(j)
    BY <1>7 DEF WriteMeta, Saving
  <2> QED
    BY <2>1, <2>2, <2>3, <2>4 DEF Saving, Active, Pending
<1>8. CASE ClearDirty
  BY <1>8 DEF ClearDirty, jobs, files, Goto, Saving, Active, Pending, Saved
<1>9. CASE SaveTiers
  BY <1>9 DEF SaveTiers, summary, jobs, Goto, Saving, Active, Pending, Saved
<1>10. CASE ResetTopic \/ Reset
  <2>1. (\A j \in Jobs : ~ Active(j)) /\ dirty' = dirty
    BY <1>10, ForgetIsQuiet DEF ResetTopic, Reset, Forget
  <2>2. (\A j \in Jobs : ~ Active(j)') /\ at' \in {"unlink", "snapshot"} /\ mem' = Forgotten
    BY <1>10, <2>1 DEF ResetTopic, Reset, Forget, jobs, Active, Goto
  <2> QED
    BY <2>1, <2>2, NoJobIsClean, SavingWithoutJobs
<1>11. CASE Unlink \/ Wipe
  <2>1. (\A j \in Jobs : ~ Active(j)) /\ mem = Forgotten
    BY <1>11 DEF Unlink, Wipe, Saving
  <2>2. UNCHANGED <<mem, job, dirty>> /\ meta' = Forgotten /\ at' # "write"
    BY <1>11 DEF Unlink, Wipe, summary, jobs, Goto, Flow
  <2>3. Saved'
    BY <2>1, <2>2 DEF Saved, Forgotten
  <2> QED
    BY <2>1, <2>2, <2>3, NoJobIsClean, SavingWithoutJobs DEF Active
<1>12. CASE Clear \/ Join \/ Undo
  BY <1>12, SavingFrame DEF Clear, Join, Undo, summary, jobs, files, Goto
<1>13. ASSUME NEW j \in Jobs, StartJob(j) PROVE Saving'
  <2>1. /\ Active(j) /\ Pending(j) /\ job'[j].pc = "llm" /\ \A i \in Jobs \ {j} : job'[i] = job[i]
        /\ UNCHANGED <<mem, meta, dirty, future, at, held>>
    BY <1>13, JobTypes DEF StartJob, Active, Pending, MemoryTypeOK, JobRecords, summary, files, thread
  <2>2. ~ dirty /\ at \notin {"snapshot", "write", "flag"}
    BY <2>1, OneJob DEF Pending, Saving
  <2> QED
    BY <2>1, <2>2, SavingOfJob DEF Active
<1>14. ASSUME NEW j \in Jobs, Answer(j) PROVE Saving'
  <2>1. /\ Active(j) /\ Pending(j) /\ job'[j].pc = "save" /\ \A i \in Jobs \ {j} : job'[i] = job[i]
        /\ UNCHANGED <<meta, future, at, held>>
    BY <1>14 DEF Answer, Active, Pending, MemoryTypeOK, NoJob, files, thread
  <2>2. at \notin {"snapshot", "write", "flag"}
    BY <2>1 DEF Saving
  <2> QED
    BY <2>1, <2>2, SavingOfJob DEF Active
<1>15. ASSUME NEW j \in Jobs, JobSnapshot(j) PROVE Saving'
  <2>1. /\ Active(j) /\ job'[j].pc = "write" /\ job'[j].snap = mem
        /\ \A i \in Jobs \ {j} : job'[i] = job[i]
        /\ UNCHANGED <<mem, meta, dirty, future, at, held>>
    BY <1>15, JobTypes DEF JobSnapshot, Active, MemoryTypeOK, JobRecords, summary, files, thread
  <2>2. at = "flag" => Saved'
    BY <2>1 DEF Saving, Saved
  <2> QED
    BY <2>1, <2>2, SavingOfJob DEF Active, Pending
<1>16. ASSUME NEW j \in Jobs, JobWrite(j) PROVE Saving'
  <2>1. /\ Active(j) /\ job'[j].pc = "flag" /\ \A i \in Jobs \ {j} : job'[i] = job[i]
        /\ meta' = mem /\ UNCHANGED <<mem, dirty, future, at, held>>
    BY <1>16 DEF JobWrite, Active, MemoryTypeOK, NoJob, summary, thread, Saving
  <2>2. Saved'
    BY <2>1, JobTypes DEF Saved
  <2> QED
    BY <2>1, <2>2, SavingOfJob DEF Active, Pending
<1>17. ASSUME NEW j \in Jobs, JobClearDirty(j) PROVE Saving'
  <2>1. /\ Active(j) /\ job'[j].pc = "last" /\ \A i \in Jobs \ {j} : job'[i] = job[i]
        /\ ~ dirty' /\ UNCHANGED <<mem, meta, future, at, held>>
    BY <1>17, JobTypes DEF JobClearDirty, Active, MemoryTypeOK, JobRecords, files, thread
  <2>2. Saved'
    BY <1>17, <2>1 DEF JobClearDirty, Saving, Saved
  <2> QED
    BY <2>1, <2>2, SavingOfJob DEF Active, Pending
<1>18. ASSUME NEW j \in Jobs, JobEnds(j) \/ JobRaises(j) PROVE Saving'
  <2>1. Active(j) /\ job[j].pc = "last"
    <3>1. "raised" \notin upsets'
      BY DEF Undisturbed
    <3> QED
      BY <1>18, <3>1 DEF JobEnds, JobRaises, Active
  <2>2. job'[j].pc = "none" /\ (\A i \in Jobs \ {j} : job'[i] = job[i])
        /\ UNCHANGED <<mem, meta, dirty, future, at, held>>
    BY <1>18 DEF JobEnds, JobRaises, MemoryTypeOK, NoJob, summary, files, thread
  <2>3. Saved' /\ ~ dirty'
    BY <2>1, <2>2, OneJob DEF Saving, Saved
  <2>4. \A i \in Jobs : ~ Active(i)'
    BY <2>1, <2>2, OneJob DEF Active
  <2>5. /\ at' = "write" => held' = mem'
        /\ at' \in {"wipe", "unlink"} => mem' = Forgotten
    BY <2>2 DEF Saving
  <2> QED
    BY <2>3, <2>4, <2>5, SavingWithoutJobs
<1>19. ASSUME NEW r \in Rolls, FinishRoll(r) \/ DropRoll(r) PROVE Saving'
  BY <1>19 DEF FinishRoll, DropRoll, summary, jobs, files, thread, Saving, Active, Pending, Saved
<1>20. CASE Shutdown
  <2>1. meta' \in {mem, meta} /\ UNCHANGED <<mem, job, future, dirty>> /\ at' = "exit"
    BY <1>20 DEF Shutdown, summary, jobs, Goto
  <2>2. Saved => Saved'
    <3>1. mem.upTo \in Nat
      BY DEF MemoryTypeOK, Summaries
    <3> QED
      BY <2>1, <3>1 DEF Saved
  <2> QED
    BY <2>1, <2>2 DEF Saving, Active, Pending
<1>21. CASE Crash
  BY <1>21, SavingWithoutJobs DEF Crash, Goto, Active, NoJob
<1>22. CASE Load
  <2>1. (\A j \in Jobs : ~ Active(j)') /\ ~ dirty' /\ at' = "idle"
    BY <1>22 DEF Load, Flow, jobs, Active, Goto
  <2>2. PICK kept \in {Forgotten, meta} : mem' = [kept EXCEPT !.upTo = Lesser(@, Len(msgs'))]
                                          /\ meta' = kept
    BY <1>22 DEF Load
  <2>3. kept \in Summaries
    BY <2>2 DEF MemoryTypeOK, Forgotten, Summaries
  <2>4. mem'.text = kept.text /\ mem'.upTo = Lesser(kept.upTo, Len(msgs')) /\ kept.upTo \in Nat
    BY <2>2, <2>3 DEF Summaries
  <2>5. Len(msgs') \in Nat
    BY <1>22 DEF MemoryTypeOK
  <2>6. Saved'
    BY <2>2, <2>4, <2>5 DEF Saved, Lesser
  <2> QED
    BY <2>1, <2>6, SavingWithoutJobs
<1>23. CASE UNCHANGED memoryVars
  BY <1>23 DEF memoryVars, Saving, Active, Pending, Saved
<1> QED
  BY <1>1, <1>2, <1>3, <1>4, <1>5, <1>6, <1>7, <1>8, <1>9, <1>10, <1>11, <1>12, <1>13, <1>14,
     <1>15, <1>16, <1>17, <1>18, <1>19, <1>20, <1>21, <1>22, <1>23 DEF MemoryNext, Session, Pool

------------------------------------------------------------------------------

\* The inductive invariant of the memory.
THEOREM MemoryInvariant == MemorySpec => []MemoryInv
<1>1. MemoryInit => MemoryInv
  <2> SUFFICES ASSUME MemoryInit PROVE MemoryInv
    OBVIOUS
  <2>1. MemoryTypeOK
    BY MemoryTypesInit, MemoryAssumption
  <2>2. msgs \in Seq(Message) /\ Len(msgs) \in Nat /\ hist = msgs
    BY <2>1 DEF MemoryTypeOK, MemoryInit
  <2>3. Flow /\ Histories
    BY DEF MemoryInit, Flow, Histories, Settled
  <2>4. Covered
    <3>1. mem = Forgotten /\ meta = Forgotten /\ at = "idle" /\ \A j \in Jobs : job[j].pc = "none"
      BY DEF MemoryInit, NoJob
    <3>2. Cover(Forgotten, msgs) /\ Forgotten.upTo = 0
      BY <2>2, NothingCovered DEF Forgotten
    <3> QED
      BY <2>2, <3>1, <3>2 DEF Covered, JobCovers
  <2>5. Fitting
    BY <2>2, NothingFits DEF MemoryInit, Fitting
  <2>6. Saving
    BY DEF MemoryInit, Saving, Saved, Active, Pending, NoJob, Forgotten
  <2> QED
    BY <2>1, <2>3, <2>4, <2>5, <2>6 DEF MemoryInv
<1>2. MemoryInv /\ [MemoryNext]_memoryVars => MemoryInv'
  <2> SUFFICES ASSUME MemoryInv, [MemoryNext]_memoryVars PROVE MemoryInv'
    OBVIOUS
  <2>1. MemoryTypeOK /\ MemoryTypeOK' /\ Flow /\ Flow'
    BY MemoryTypesStep, FlowStep DEF MemoryInv
  <2>2. (Calm' => Calm) /\ (Undisturbed' => Undisturbed)
    BY UpsetsStay DEF Calm, Undisturbed
  <2>3. ASSUME Calm' PROVE Histories' /\ Covered' /\ Fitting'
    BY <2>1, <2>2, <2>3, HistoriesStep, CoveredStep, FittingStep DEF MemoryInv
  <2>4. ASSUME Undisturbed' PROVE Saving'
    BY <2>1, <2>2, <2>4, SavingStep DEF MemoryInv
  <2> QED
    BY <2>1, <2>3, <2>4 DEF MemoryInv
<1> QED
  BY <1>1, <1>2, PTL DEF MemorySpec

\* The type invariant of the memory.
THEOREM MemoryTypes == MemorySpec => []MemoryTypeOK
<1>1. MemoryInv => MemoryTypeOK
  BY DEF MemoryInv
<1> QED
  BY <1>1, MemoryInvariant, PTL

\* The boundary of the session covers its messages, whatever jobs overlap and
\* wherever a crash strikes, for any window, batch and number of messages.
THEOREM BoundaryIsCovered == MemorySpec => []SummaryCoversBoundary
<1>1. MemoryInv => SummaryCoversBoundary
  BY DEF MemoryInv, Covered, Cover, Calm, SummaryCoversBoundary, BoundaryCovered
<1> QED
  BY <1>1, MemoryInvariant, PTL

\* What a restart finds on disk covers its boundary too.
THEOREM RestartIsCovered == MemorySpec => []RestartCovers
<1>1. MemoryInv => RestartCovers
  BY DEF MemoryInv, Covered, Cover, Calm, RestartCovers
<1> QED
  BY <1>1, MemoryInvariant, PTL

\* No reply is overlooked: each is folded into the summary, verbatim, or was
\* sifted by the roll-forward that made the cache, which drops what its tiers
\* have no room for.
THEOREM RepliesAreSifted == MemorySpec => []NoReplyOverlooked
<1>1. MemoryInv => NoReplyOverlooked
  <2> SUFFICES ASSUME MemoryInv, Calm, tier.ready, tier.from <= mem.upTo,
                      NEW m \in Part(msgs, 0, Len(msgs)), Reply(m)
               PROVE  m \in mem.text \cup tier.sifted \cup Part(msgs, tier.bound, Len(msgs))
    BY DEF NoReplyOverlooked, Calm
  <2>1. /\ msgs \in Seq(Message) /\ Len(msgs) \in Nat /\ mem.upTo \in Nat
        /\ tier.from \in Nat /\ tier.bound \in Nat
    BY DEF MemoryInv, MemoryTypeOK, Summaries, Tiers
  <2>2. Cover(mem, msgs) /\ Fits(tier, msgs)
    BY DEF MemoryInv, Covered, Fitting
  <2>3. m \in Part(msgs, 0, mem.upTo) \cup Part(msgs, tier.from, tier.bound)
              \cup Part(msgs, tier.bound, Len(msgs))
    BY <2>1 DEF Part, Lesser
  <2> QED
    BY <2>2, <2>3 DEF Cover, Fits
<1> QED
  BY <1>1, MemoryInvariant, PTL

\* What the background computes between two saves is not lost, as long as no
\* job was passed by as stuck, raised, or was overtaken by a reset or a clear.
THEOREM CleanIsSaved == MemorySpec => []CleanMeansSaved
<1>1. MemoryInv => CleanMeansSaved
  BY DEF MemoryInv, Undisturbed, Saving, Saved, CleanMeansSaved
<1> QED
  BY <1>1, MemoryInvariant, PTL

\* The boundary falls only when the summary is forgotten.
THEOREM BoundaryStands == MemorySpec => BoundaryNeverRewinds
<1>1. MemoryTypeOK /\ Flow /\ [MemoryNext]_memoryVars => (mem'.upTo < mem.upTo => mem' = Forgotten)
  <2> SUFFICES ASSUME MemoryTypeOK, Flow, [MemoryNext]_memoryVars, mem'.upTo < mem.upTo
               PROVE  mem' = Forgotten
    OBVIOUS
  <2>0. mem.upTo \in Nat
    BY DEF MemoryTypeOK, Summaries
  <2>1. mem' # mem
    BY <2>0
  <2>2. CASE Update \/ ResetTopic \/ Reset \/ Crash
    BY <2>1, <2>2 DEF Update, ResetTopic, Reset, Crash, Forget
  <2>3. ASSUME NEW j \in Jobs, Answer(j) PROVE FALSE
    <3>1. job[j].upTo > mem.upTo /\ mem'.upTo = job[j].upTo
      BY <2>1, <2>3 DEF Answer, summary
    <3> QED
      BY <2>0, <3>1, JobTypes
  <2>4. CASE Load
    <3>1. mem.upTo = 0
      BY <2>4 DEF Load, Flow, Forgotten
    <3>2. mem' \in Summaries
      BY MemoryTypesStep DEF MemoryTypeOK
    <3> QED
      BY <3>1, <3>2 DEF Summaries
  <2>5. CASE Submit \/ Save \/ Schedule \/ SkipSubmit \/ ScheduleRoll \/ Snapshot \/ WriteMeta
             \/ ClearDirty \/ SaveTiers \/ Unlink \/ Clear \/ Join \/ Wipe \/ Undo \/ Shutdown
    BY <2>1, <2>5 DEF Submit, Save, Schedule, SkipSubmit, ScheduleRoll, Snapshot, WriteMeta,
       ClearDirty, SaveTiers, Unlink, Clear, Join, Wipe, Undo, Shutdown, summary
  <2>6. ASSUME NEW j \in Jobs,
               StartJob(j) \/ JobSnapshot(j) \/ JobWrite(j) \/ JobClearDirty(j) \/ JobEnds(j)
               \/ JobRaises(j)
        PROVE  FALSE
    BY <2>1, <2>6 DEF StartJob, JobSnapshot, JobWrite, JobClearDirty, JobEnds, JobRaises, summary
  <2>7. ASSUME NEW r \in Rolls, FinishRoll(r) \/ DropRoll(r) PROVE FALSE
    BY <2>1, <2>7 DEF FinishRoll, DropRoll, summary
  <2>8. CASE UNCHANGED memoryVars
    BY <2>1, <2>8 DEF memoryVars
  <2> QED
    BY <2>2, <2>3, <2>4, <2>5, <2>6, <2>7, <2>8 DEF MemoryNext, Session, Pool
<1>2. MemoryInv => MemoryTypeOK /\ Flow
  BY DEF MemoryInv
<1> QED
  BY <1>1, <1>2, MemoryInvariant, PTL DEF MemorySpec, BoundaryNeverRewinds
================================================================================
