--------------------------- MODULE TaskQueueProofs ---------------------------
(***************************************************************************)
(* Proofs about TaskQueue, for any sets of tasks and processes, any number *)
(* of start() calls and any size of the pools.                             *)
(*                                                                         *)
(* AtMostOnce is not inductive.  What makes it so is QueueInv: a thread    *)
(* between its SELECT and its UPDATE holds the lock of its process and the *)
(* row is still PENDING (LockHeld); a thread past the UPDATE works on a    *)
(* row that was claimed (Claimed); and the runner has been invoked exactly *)
(* for the rows that were claimed (Counted).  LockHeld speaks of one lock, *)
(* so it needs SingleProcess.                                              *)
(*                                                                         *)
(* NothingStranded needs in addition that an executor that is published    *)
(* takes work (Running) and that every PENDING row is in somebody's hands  *)
(* until an item for it is in the pool (Handled).                          *)
(***************************************************************************)
EXTENDS TaskQueue, FiniteSetTheorems, TLAPS

SingleProcess == \A p, q \in Procs : p = q

Waiting == {"ABSENT", "PENDING", "CANCELLED"}

LockHeld ==
    /\ \A i \in Items : at[i] = "mark" => lock[ProcOf(i)] = i /\ row[i.task] = "PENDING"
    /\ \A c \in cancelling : lock[c.proc] = c /\ row[c.task] = "PENDING"

Claimed ==
    \A i \in Items : at[i] \in {"run", "log", "fail"}
                     => row[i.task] \in {"RUNNING", "COMPLETED", "FAILED"}

Counted ==
    \A t \in Tasks : runs[t] = IF row[t] \in Waiting THEN 0 ELSE 1

QueueInv == LockHeld /\ Claimed /\ Counted

-------------------------------------------------------------------------------
\* The fields of work items and cancel() calls have the types their sets say,
\* and a holder of the lock is never the value Free.
LEMMA HolderTypes ==
    /\ \A i \in Items : /\ ProcOf(i) \in Procs /\ i.pool \in Executors
                        /\ i.task \in Tasks /\ i.kind \in {"submit", "start"} /\ i # Free
    /\ \A c \in Cancels : /\ c.proc \in Procs /\ c.task \in Tasks
                          /\ c.kind = "cancel" /\ c # Free
    /\ \A i \in Items, c \in Cancels : i # c
  BY DEF Items, Cancels, Free, ProcOf, Executors

\* Type correctness: every variable keeps its type, in every process and
\* whatever the bounds.
THEOREM TypeCorrect == Spec => []TypeOK
<1>1. Init => TypeOK
  BY DEF Init, TypeOK, ItemSteps, Statuses
<1>2. TypeOK /\ [Next]_vars => TypeOK'
  <2> SUFFICES ASSUME TypeOK, [Next]_vars PROVE TypeOK'
    OBVIOUS
  <2> USE DEF TypeOK, ItemSteps, Statuses
  <2>1. ASSUME NEW p \in Procs, NEW t \in Tasks, SubmitInsert(p, t) PROVE TypeOK'
    BY <2>1 DEF SubmitInsert
  <2>2. ASSUME NEW t \in Tasks, SubmitDispatch(t) PROVE TypeOK'
    BY <2>2 DEF SubmitDispatch, Enqueue
  <2>3. ASSUME NEW c \in Cancels, CancelLookup(c) PROVE TypeOK'
    BY <2>3 DEF CancelLookup
  <2>4. ASSUME NEW c \in Cancels, CancelMark(c) PROVE TypeOK'
    BY <2>4 DEF CancelMark
  <2>5. ASSUME NEW p \in Procs, Start(p) PROVE TypeOK'
    BY <2>5 DEF Start, StartFinalising, Unborn
  <2>6. ASSUME NEW p \in Procs, StopNull(p) PROVE TypeOK'
    BY <2>6 DEF StopNull
  <2>7. ASSUME NEW p \in Procs, Crash(p) PROVE TypeOK'
    BY <2>7 DEF Crash
  <2>8. ASSUME NEW e \in Executors, StartList(e) PROVE TypeOK'
    BY <2>8 DEF StartList, Pending
  <2>9. ASSUME NEW e \in Executors, StartDispatch(e) PROVE TypeOK'
    <3>1. at' \in [Items -> ItemSteps] /\ boot' \in [Executors -> {"idle", "list", "dispatch", "done"}]
      BY <2>9 DEF StartDispatch, Enqueue
    <3>2. resubmit' \in [Executors -> SUBSET Tasks]
      BY <2>9 DEF StartDispatch
    <3>3. QED
      BY <2>9, <3>1, <3>2 DEF StartDispatch
  <2>10. ASSUME NEW e \in Executors, StopShutdown(e) PROVE TypeOK'
    BY <2>10 DEF StopShutdown
  <2>11. ASSUME NEW i \in Items, Worker(i) PROVE TypeOK'
    <3>1. CASE Take(i)
      BY <3>1 DEF Take, Step
    <3>2. CASE Lookup(i)
      BY <3>2 DEF Lookup, Step
    <3>3. CASE Mark(i)
      <4>1. row' \in [Tasks -> Statuses \cup {"ABSENT"}] /\ at' \in [Items -> ItemSteps]
        BY <3>3 DEF Mark, Step
      <4>2. lock' \in [Procs -> Items \cup Cancels \cup {Free}] /\ runs' \in [Tasks -> Nat]
        BY <3>3, HolderTypes DEF Mark, Step
      <4>3. QED
        BY <3>3, <4>1, <4>2 DEF Mark
    <3>4. CASE Complete(i) \/ Fail(i)
      BY <3>4 DEF Complete, Fail, Finish, Step
    <3>5. CASE AppendLog(i)
      BY <3>5 DEF AppendLog, Step
    <3>6. QED
      BY <2>11, <3>1, <3>2, <3>3, <3>4, <3>5 DEF Worker
  <2>12. CASE UNCHANGED vars
    BY <2>12 DEF vars
  <2>13. QED
    BY <2>1, <2>2, <2>3, <2>4, <2>5, <2>6, <2>7, <2>8, <2>9, <2>10, <2>11, <2>12 DEF Next
<1>3. QED
  BY <1>1, <1>2, PTL DEF Spec

-------------------------------------------------------------------------------
\* The critical sections that change a row leave the invariant true: whoever
\* stands between SELECT and UPDATE in this process is the holder of the lock.
LEMMA RowChanges ==
    ASSUME TypeOK, QueueInv, SingleProcess
    PROVE  /\ \A p \in Procs, t \in Tasks : SubmitInsert(p, t) => QueueInv'
           /\ \A c \in Cancels : CancelLookup(c) \/ CancelMark(c) => QueueInv'
           /\ \A p \in Procs : Start(p) => QueueInv'
           /\ \A i \in Items : Lookup(i) \/ Mark(i) \/ Complete(i) \/ Fail(i) => QueueInv'
<1> USE HolderTypes DEF TypeOK, ItemSteps, Statuses, QueueInv, LockHeld, Claimed, Counted,
        Waiting, SingleProcess
<1>1. ASSUME NEW p \in Procs, NEW t \in Tasks, SubmitInsert(p, t) PROVE QueueInv'
  BY <1>1 DEF SubmitInsert
<1>2. ASSUME NEW c \in Cancels, CancelLookup(c) PROVE QueueInv'
  BY <1>2 DEF CancelLookup
<1>3. ASSUME NEW c \in Cancels, CancelMark(c) PROVE QueueInv'
  BY <1>3 DEF CancelMark
<1>4. ASSUME NEW p \in Procs, Start(p) PROVE QueueInv'
  BY <1>4 DEF Start, StartFinalising
<1>5. ASSUME NEW i \in Items, Lookup(i) PROVE QueueInv'
  BY <1>5 DEF Lookup, Step
<1>6. ASSUME NEW i \in Items, Mark(i) PROVE QueueInv'
  <2>1. LockHeld'
    BY <1>6 DEF Mark, Step
  <2>2. Claimed'
    BY <1>6 DEF Mark, Step
  <2>3. Counted'
    BY <1>6 DEF Mark, Step
  <2>4. QED
    BY <2>1, <2>2, <2>3
<1>7. ASSUME NEW i \in Items, Complete(i) \/ Fail(i) PROVE QueueInv'
  BY <1>7 DEF Complete, Fail, Finish, Step
<1>8. QED
  BY <1>1, <1>2, <1>3, <1>4, <1>5, <1>6, <1>7

\* The steps that change no row keep it too: none of them claims a row or
\* takes the lock, and a crash gives up what it held.
LEMMA OtherSteps ==
    ASSUME TypeOK, QueueInv, SingleProcess
    PROVE  /\ \A t \in Tasks : SubmitDispatch(t) => QueueInv'
           /\ \A p \in Procs : StopNull(p) \/ Crash(p) => QueueInv'
           /\ \A e \in Executors :
                 StartList(e) \/ StartDispatch(e) \/ StopShutdown(e) => QueueInv'
           /\ \A i \in Items : Take(i) \/ AppendLog(i) => QueueInv'
<1> USE HolderTypes DEF TypeOK, ItemSteps, Statuses, QueueInv, LockHeld, Claimed, Counted,
        Waiting, SingleProcess
<1>1. ASSUME NEW t \in Tasks, SubmitDispatch(t) PROVE QueueInv'
  BY <1>1 DEF SubmitDispatch, Enqueue
<1>2. ASSUME NEW p \in Procs, StopNull(p) PROVE QueueInv'
  BY <1>2 DEF StopNull
<1>3. ASSUME NEW p \in Procs, Crash(p) PROVE QueueInv'
  BY <1>3 DEF Crash
<1>4. ASSUME NEW e \in Executors, StartList(e) \/ StopShutdown(e) PROVE QueueInv'
  BY <1>4 DEF StartList, StopShutdown
<1>5. ASSUME NEW e \in Executors, StartDispatch(e) PROVE QueueInv'
  <2>1. UNCHANGED <<row, lock, cancelling, runs>>
    BY <1>5 DEF StartDispatch
  <2>2. \A i \in Items : at'[i] # at[i] => at'[i] = "queued"
    <3>1. ASSUME NEW j, Enqueue(j) PROVE \A i \in Items : at'[i] # at[i] => at'[i] = "queued"
      BY <3>1 DEF Enqueue
    <3>2. UNCHANGED at \/ \E j : Enqueue(j)
      BY <1>5 DEF StartDispatch
    <3>3. QED
      BY <3>1, <3>2
  <2>3. QED
    BY <2>1, <2>2
<1>6. ASSUME NEW i \in Items, Take(i) \/ AppendLog(i) PROVE QueueInv'
  BY <1>6 DEF Take, AppendLog, Step
<1>7. QED
  BY <1>1, <1>2, <1>3, <1>4, <1>5, <1>6

\* The strengthened invariant of a queue that one process uses.
THEOREM QueueInvariant == SingleProcess => (Spec => []QueueInv)
<1> SUFFICES ASSUME SingleProcess PROVE Spec => []QueueInv
  OBVIOUS
<1>1. Init => QueueInv
  BY DEF Init, QueueInv, LockHeld, Claimed, Counted, Waiting
<1>2. TypeOK /\ QueueInv /\ [Next]_vars => QueueInv'
  <2> SUFFICES ASSUME TypeOK, QueueInv, [Next]_vars PROVE QueueInv'
    OBVIOUS
  <2>1. CASE UNCHANGED vars
    BY <2>1 DEF vars, QueueInv, LockHeld, Claimed, Counted, Waiting
  <2>2. CASE Next
    BY <2>2, RowChanges, OtherSteps DEF Next, Worker
  <2>3. QED
    BY <2>1, <2>2
<1>3. QED
  BY <1>1, <1>2, TypeCorrect, PTL DEF Spec

\* No runner is invoked twice for a task, whatever submit(), cancel(), start(),
\* stop() and crashes do, as long as one process uses the database.
THEOREM RunsAtMostOnce == SingleProcess => (Spec => []AtMostOnce)
<1> SUFFICES ASSUME SingleProcess PROVE Spec => []AtMostOnce
  OBVIOUS
<1>1. QueueInv => AtMostOnce
  BY DEF QueueInv, Counted, AtMostOnce
<1>2. QED
  BY <1>1, QueueInvariant, PTL

-------------------------------------------------------------------------------
\* What a step does to the row and the run count of each task, in any state of
\* the invariant: nothing, or one move along the life of a task.
Moves(t) ==
    \/ row'[t] = row[t] /\ runs'[t] = runs[t]
    \/ row[t] = "ABSENT" /\ row'[t] = "PENDING" /\ runs'[t] = runs[t]
    \/ row[t] = "PENDING" /\ row'[t] = "CANCELLED" /\ runs'[t] = runs[t]
    \/ row[t] = "PENDING" /\ row'[t] = "RUNNING" /\ runs'[t] = runs[t] + 1
    \/ /\ row[t] \in {"RUNNING", "COMPLETED", "FAILED"}
       /\ row'[t] \in {"COMPLETED", "FAILED"} /\ runs'[t] = runs[t]

\* The steps that touch neither a row nor a run count.
LEMMA Bystanders ==
    /\ \A t \in Tasks : SubmitDispatch(t) => UNCHANGED <<row, runs>>
    /\ \A c \in Cancels : CancelLookup(c) => UNCHANGED <<row, runs>>
    /\ \A p \in Procs : StopNull(p) \/ Crash(p) => UNCHANGED <<row, runs>>
    /\ \A e \in Executors :
          StartList(e) \/ StartDispatch(e) \/ StopShutdown(e) => UNCHANGED <<row, runs>>
    /\ \A i \in Items :
          Take(i) \/ Lookup(i) \/ AppendLog(i) => UNCHANGED <<row, runs>>
  BY DEF SubmitDispatch, CancelLookup, StopNull, Crash, StartList, StartDispatch,
         StopShutdown, Take, Lookup, AppendLog

\* No step moves a task backwards or skips its claim.
LEMMA StepMoves ==
    ASSUME TypeOK, QueueInv, [Next]_vars
    PROVE  \A t \in Tasks : Moves(t)
<1> USE HolderTypes DEF TypeOK, QueueInv, LockHeld, Claimed, Moves
<1>1. ASSUME NEW p \in Procs, NEW t \in Tasks, SubmitInsert(p, t) PROVE \A u \in Tasks : Moves(u)
  BY <1>1 DEF SubmitInsert
<1>2. ASSUME NEW c \in Cancels, CancelMark(c) PROVE \A u \in Tasks : Moves(u)
  BY <1>2 DEF CancelMark
<1>3. ASSUME NEW p \in Procs, Start(p) PROVE \A u \in Tasks : Moves(u)
  BY <1>3 DEF Start, StartFinalising
<1>4. ASSUME NEW i \in Items, Mark(i) PROVE \A u \in Tasks : Moves(u)
  BY <1>4 DEF Mark, Step
<1>5. ASSUME NEW i \in Items, Complete(i) \/ Fail(i) PROVE \A u \in Tasks : Moves(u)
  BY <1>5 DEF Complete, Fail, Finish, Step
<1>6. CASE UNCHANGED <<row, runs>>
  BY <1>6
<1>7. QED
  BY <1>1, <1>2, <1>3, <1>4, <1>5, <1>6, Bystanders DEF Next, Worker, vars

\* Once cancel() has answered True the task stays CANCELLED and never runs.
THEOREM CancelledStaysCancelled == SingleProcess => (Spec => CancelIsFinal)
<1> SUFFICES ASSUME SingleProcess PROVE Spec => CancelIsFinal
  OBVIOUS
<1>1. TypeOK /\ QueueInv /\ [Next]_vars =>
        [\A t \in Tasks : row[t] = "CANCELLED" => row'[t] = "CANCELLED" /\ runs'[t] = 0]_vars
  BY StepMoves DEF Moves, QueueInv, Counted, Waiting
<1>2. QED
  BY <1>1, TypeCorrect, QueueInvariant, PTL DEF Spec, CancelIsFinal

-------------------------------------------------------------------------------
\* A step of the queue is a step of the ledger or leaves the ledger alone.
LEMMA LedgerStep ==
    ASSUME TypeOK, QueueInv, [Next]_vars
    PROVE  [Ledger!LedgerNext]_(Ledger!ledgerVars)
<1> DEFINE bar == [t \in Tasks |-> PhaseOf(row[t])]
<1> USE HolderTypes DEF TypeOK, QueueInv, LockHeld, Claimed
<1>1. ASSUME NEW p \in Procs, NEW t \in Tasks, SubmitInsert(p, t) PROVE Ledger!Accept(t)
  BY <1>1, ZenonT(60) DEF SubmitInsert, Ledger!Accept, Ledger!Move, PhaseOf
<1>2. ASSUME NEW c \in Cancels, CancelMark(c) PROVE Ledger!Withdraw(c.task)
  BY <1>2 DEF CancelMark, Ledger!Withdraw, Ledger!Move, PhaseOf
<1>3. ASSUME NEW p \in Procs, Start(p)
      PROVE  UNCHANGED <<bar, runs>> \/ \E S \in SUBSET Tasks : Ledger!Report(S)
  <2> DEFINE S == {t \in Tasks : row[t] = "RUNNING"}
  <2>1. row' = [t \in Tasks |-> IF row[t] = "RUNNING" THEN "FAILED" ELSE row[t]] /\ runs' = runs
    BY <1>3 DEF Start, StartFinalising
  <2>2. CASE S = {}
    BY <2>1, <2>2
  <2>3. CASE S # {}
    <3>1. Ledger!Report(S)
      BY <2>1, <2>3 DEF Ledger!Report, PhaseOf
    <3>2. QED
      BY <3>1
  <2>4. QED
    BY <2>2, <2>3
<1>4. ASSUME NEW i \in Items, Mark(i) PROVE Ledger!Begin(i.task)
  <2>1. row[i.task] = "PENDING" /\ row' = [row EXCEPT ![i.task] = "RUNNING"]
    BY <1>4 DEF Mark, Step
  <2>2. i.task \in Tasks /\ bar[i.task] = "waiting"
    BY <2>1 DEF PhaseOf
  <2>3. bar' = [bar EXCEPT ![i.task] = "started"]
    BY <2>1, <2>2 DEF PhaseOf
  <2>4. Ledger!Move(i.task, "waiting", "started")
    BY <2>2, <2>3 DEF Ledger!Move
  <2>5. QED
    BY <1>4, <2>4 DEF Mark, Ledger!Begin
<1>5. ASSUME NEW i \in Items, Complete(i) \/ Fail(i)
      PROVE  UNCHANGED <<bar, runs>> \/ \E S \in SUBSET Tasks : Ledger!Report(S)
  <2>1. row[i.task] \in {"RUNNING", "COMPLETED", "FAILED"}
    BY <1>5 DEF Complete, Fail, Finish, Step
  <2>2. PICK status \in {"COMPLETED", "FAILED"} : row' = [row EXCEPT ![i.task] = status]
    BY <1>5 DEF Complete, Fail, Finish
  <2>3. runs' = runs
    BY <1>5 DEF Complete, Fail, Finish
  <2>4. CASE row[i.task] = "RUNNING"
    <3>1. Ledger!Report({i.task})
      BY <2>2, <2>3, <2>4 DEF Ledger!Report, PhaseOf
    <3>2. QED
      BY <3>1
  <2>5. CASE row[i.task] # "RUNNING"
    BY <2>1, <2>2, <2>3, <2>5 DEF PhaseOf
  <2>6. QED
    BY <2>4, <2>5
<1>6. ASSUME UNCHANGED <<row, runs>> PROVE UNCHANGED <<bar, runs>>
  BY <1>6
<1>7. \/ \E p \in Procs : (\E t \in Tasks : SubmitInsert(p, t)) \/ Start(p)
      \/ \E c \in Cancels : CancelMark(c)
      \/ \E i \in Items : Mark(i) \/ Complete(i) \/ Fail(i)
      \/ UNCHANGED <<row, runs>>
  BY Bystanders DEF Next, Worker, vars
<1>8. ASSUME NEW c \in Cancels, CancelMark(c) PROVE Ledger!LedgerNext
  BY <1>2, <1>8, HolderTypes DEF Ledger!LedgerNext
<1>9. ASSUME NEW i \in Items, Mark(i) PROVE Ledger!LedgerNext
  BY <1>4, <1>9, HolderTypes DEF Ledger!LedgerNext
<1>10. QED
  BY <1>1, <1>3, <1>5, <1>6, <1>7, <1>8, <1>9 DEF Ledger!LedgerNext, Ledger!ledgerVars

\* The queue of one process implements TaskLedger.
THEOREM QueueImplementsLedger == SingleProcess => (Spec => ImplementsLedger)
<1> SUFFICES ASSUME SingleProcess PROVE Spec => ImplementsLedger
  OBVIOUS
<1>1. Init => Ledger!LedgerInit
  BY DEF Init, Ledger!LedgerInit, PhaseOf
<1>2. TypeOK /\ QueueInv /\ [Next]_vars => [Ledger!LedgerNext]_(Ledger!ledgerVars)
  BY LedgerStep
<1>3. QED
  BY <1>1, <1>2, TypeCorrect, QueueInvariant, PTL DEF Spec, ImplementsLedger, Ledger!LedgerSpec
-------------------------------------------------------------------------------
(* NothingStranded: start() hands over the rows it finds PENDING, submit() its *)
(* own row to the executor it saw.  That the two leave no gap is an invariant  *)
(* of the time in between (Handled).  start() asks list() for PendingLimit     *)
(* rows at most: with more rows than that some are left to a later start().    *)

FewTasks == IsFiniteSet(Tasks) /\ Cardinality(Tasks) <= PendingLimit

\* The executor of a process that is started accepts work.
Running ==
    \A p \in Procs : executor[p] # NoExecutor =>
        /\ executor[p][1] = p /\ pool[executor[p]] = "open"
        /\ boot[executor[p]] \in {"list", "dispatch", "done"}

\* Who is still going to look at the row of t: a work item, the submit() that
\* wrote it, or the start() that has not listed the rows or not dispatched it.
InHand(p, t) ==
    \/ \E i \in Items : i.task = t /\ at[i] \in Unclaimed
    \/ call[t] = "dispatch" /\ snapshot[t] = executor[p]
    \/ boot[executor[p]] = "list"
    \/ boot[executor[p]] = "dispatch" /\ t \in resubmit[executor[p]]

Handled ==
    \A p \in Procs, t \in Tasks :
        executor[p] # NoExecutor /\ row[t] = "PENDING" => InHand(p, t)

\* Within its limit list() returns every PENDING row.
LEMMA ListsAll ==
    ASSUME FewTasks, NEW e \in Executors, StartList(e)
    PROVE  resubmit' = [resubmit EXCEPT ![e] = Pending]
<1>1. PICK S \in SUBSET Pending :
         /\ \/ S = Pending
            \/ Cardinality(S) = PendingLimit
         /\ resubmit' = [resubmit EXCEPT ![e] = S]
  BY DEF StartList
<1>2. Pending \in SUBSET Tasks /\ S \in SUBSET Tasks
  BY DEF Pending
<1>3. IsFiniteSet(Pending) /\ Cardinality(Pending) <= Cardinality(Tasks)
  BY <1>2, FS_Subset DEF FewTasks
<1>4. /\ Cardinality(S) <= Cardinality(Pending)
      /\ Cardinality(Pending) = Cardinality(S) => Pending = S
  BY <1>3, FS_Subset
<1>5. Cardinality(Tasks) \in Nat /\ Cardinality(Pending) \in Nat /\ Cardinality(S) \in Nat
  BY <1>2, <1>3, FS_CardinalityType, FS_Subset DEF FewTasks
<1>6. S = Pending
  BY <1>1, <1>3, <1>4, <1>5, TaskQueueAssumption DEF FewTasks
<1> QED
  BY <1>1, <1>6

LEMMA RunningKept == TypeOK /\ Running /\ [Next]_vars => Running'
<1> SUFFICES ASSUME TypeOK, Running, [Next]_vars PROVE Running'
  OBVIOUS
<1> USE DEF TypeOK, Running
<1>1. ASSUME NEW p \in Procs, Start(p) PROVE Running'
  BY <1>1 DEF Start, StartFinalising, Unborn
<1>2. ASSUME NEW p \in Procs, StopNull(p) PROVE Running'
  BY <1>2 DEF StopNull
<1>3. ASSUME NEW p \in Procs, Crash(p) PROVE Running'
  BY <1>3 DEF Crash
<1>4. ASSUME NEW e \in Executors, StartList(e) PROVE Running'
  BY <1>4 DEF StartList
<1>5. ASSUME NEW e \in Executors, StartDispatch(e) PROVE Running'
  BY <1>5 DEF StartDispatch
<1>6. ASSUME NEW e \in Executors, StopShutdown(e) PROVE Running'
  BY <1>6 DEF StopShutdown
<1>7. CASE UNCHANGED <<executor, pool, boot>>
  BY <1>7
<1> QED
  BY <1>1, <1>2, <1>3, <1>4, <1>5, <1>6, <1>7
  DEF Next, Worker, vars, SubmitInsert, SubmitDispatch, CancelLookup, CancelMark, Take,
      Lookup, Mark, Complete, Fail, Finish, AppendLog

\* A new work item is one that has not been claimed.
LEMMA Queues ==
    ASSUME TypeOK, NEW i \in Items, Enqueue(i)
    PROVE  /\ at'[i] \in Unclaimed
           /\ \A j \in Items : at[j] \in Unclaimed => at'[j] \in Unclaimed
  BY DEF TypeOK, Enqueue, Unclaimed

\* A thread that passes an item by, or claims it, has found the row PENDING no
\* longer, or makes it so.
LEMMA ClaimsLeaveNothing ==
    ASSUME TypeOK, NEW i \in Items, Worker(i),
           NEW t \in Tasks, row'[t] = "PENDING",
           NEW j \in Items, j.task = t, at[j] \in Unclaimed
    PROVE  row[t] = "PENDING" /\ at'[j] \in Unclaimed
<1> USE HolderTypes DEF TypeOK, Unclaimed
<1>1. CASE Take(i)
  BY <1>1 DEF Take, Step
<1>2. CASE Lookup(i)
  BY <1>2 DEF Lookup, Step
<1>3. CASE Mark(i)
  BY <1>3 DEF Mark, Step
<1>4. CASE Complete(i) \/ Fail(i)
  BY <1>4 DEF Complete, Fail, Finish, Step
<1>5. CASE AppendLog(i)
  BY <1>5 DEF AppendLog, Step
<1> QED
  BY <1>1, <1>2, <1>3, <1>4, <1>5 DEF Worker

\* No thread of a pool makes a row PENDING, nor concerns who dispatches.
LEMMA WorkersKeepRest ==
    ASSUME TypeOK, NEW i \in Items, Worker(i)
    PROVE  /\ UNCHANGED <<executor, boot, resubmit, call, snapshot>>
           /\ \A t \in Tasks : row'[t] = "PENDING" => row[t] = "PENDING"
<1> USE HolderTypes DEF TypeOK
<1>1. CASE Take(i) \/ Lookup(i) \/ AppendLog(i)
  BY <1>1 DEF Take, Lookup, AppendLog
<1>2. CASE Mark(i)
  BY <1>2 DEF Mark
<1>3. CASE Complete(i) \/ Fail(i)
  BY <1>3 DEF Complete, Fail, Finish
<1> QED
  BY <1>1, <1>2, <1>3 DEF Worker

\* A step that keeps a row PENDING leaves it in somebody's hands.
LEMMA HandledKept ==
    ASSUME TypeOK, Running, Handled, SingleProcess, FewTasks, [Next]_vars
    PROVE  Handled'
<1> SUFFICES ASSUME NEW q \in Procs, NEW u \in Tasks,
                    executor'[q] # NoExecutor, row'[u] = "PENDING"
             PROVE  InHand(q, u)'
  BY DEF Handled
<1>a. executor[q] # NoExecutor /\ row[u] = "PENDING" => InHand(q, u)
  BY DEF Handled
<1> USE HolderTypes DEF TypeOK
<1>1. ASSUME NEW p \in Procs, NEW t \in Tasks, SubmitInsert(p, t) PROVE InHand(q, u)'
  <2>1. p = q
    BY DEF SingleProcess
  <2> QED
    BY <1>a, <1>1, <2>1 DEF SubmitInsert, InHand
<1>2. ASSUME NEW t \in Tasks, SubmitDispatch(t) PROVE InHand(q, u)'
  <2>1. InHand(q, u) /\ UNCHANGED <<executor, row, boot, resubmit>>
    BY <1>a, <1>2 DEF SubmitDispatch
  <2> DEFINE i == [kind |-> "submit", pool |-> snapshot[t], task |-> t]
  <2>2. CASE t = u /\ snapshot[u] = executor[q]
    <3>1. Accepting(snapshot[t]) /\ snapshot[t] \in Executors
      BY <2>1, <2>2 DEF Running, Accepting
    <3>2. i \in Items /\ i.task = u
      BY <2>2, <3>1 DEF Items
    <3>3. Enqueue(i)
      BY <1>2, <3>1 DEF SubmitDispatch
    <3> QED
      BY <3>2, <3>3, Queues DEF InHand
  <2>3. CASE ~ (t = u /\ snapshot[u] = executor[q])
    <3>1. \A j \in Items : at[j] \in Unclaimed => at'[j] \in Unclaimed
      BY <1>2 DEF SubmitDispatch, Enqueue, Unclaimed
    <3>2. call[u] = "dispatch" /\ snapshot[u] = executor[q]
          => call'[u] = "dispatch" /\ snapshot'[u] = executor[q]
      BY <1>2, <2>3 DEF SubmitDispatch
    <3> QED
      BY <2>1, <3>1, <3>2 DEF InHand
  <2> QED
    BY <2>2, <2>3
<1>3. ASSUME NEW c \in Cancels, CancelLookup(c) \/ CancelMark(c) PROVE InHand(q, u)'
  BY <1>a, <1>3 DEF CancelLookup, CancelMark, InHand
<1>4. ASSUME NEW p \in Procs, Start(p) PROVE InHand(q, u)'
  BY <1>4 DEF Start, StartFinalising, Unborn, InHand, SingleProcess
<1>5. ASSUME NEW p \in Procs, StopNull(p) \/ Crash(p) PROVE InHand(q, u)'
  BY <1>5 DEF StopNull, Crash, SingleProcess
<1>6. ASSUME NEW e \in Executors, StartList(e) PROVE InHand(q, u)'
  <2>1. resubmit' = [resubmit EXCEPT ![e] = Pending]
    BY <1>6, ListsAll
  <2>2. u \in Pending
    BY <1>6 DEF StartList, Pending
  <2> QED
    BY <1>a, <1>6, <2>1, <2>2 DEF StartList, InHand
<1>7. ASSUME NEW e \in Executors, StartDispatch(e) PROVE InHand(q, u)'
  <2>1. InHand(q, u) /\ UNCHANGED <<executor, row, call, snapshot>>
    BY <1>a, <1>7 DEF StartDispatch
  <2>2. ASSUME NEW t \in resubmit[e],
               Enqueue([kind |-> "start", pool |-> e, task |-> t]),
               resubmit' = [resubmit EXCEPT ![e] = @ \ {t}], UNCHANGED boot
        PROVE  InHand(q, u)'
    <3>1. t \in Tasks /\ [kind |-> "start", pool |-> e, task |-> t] \in Items
      BY <2>2 DEF Items
    <3> QED
      BY <2>1, <2>2, <3>1, Queues DEF InHand
  <2>3. ASSUME resubmit[e] = {} \/ ~Accepting(e), UNCHANGED at, boot[e] = "dispatch",
               boot' = [boot EXCEPT ![e] = "done"],
               resubmit' = [resubmit EXCEPT ![e] = {}]
        PROVE  InHand(q, u)'
    <3>1. executor[q] # e \/ resubmit[e] = {}
      BY <2>1, <2>3 DEF Running, Accepting
    <3> QED
      BY <2>1, <2>3, <3>1 DEF InHand
  <2> QED
    BY <1>7, <2>2, <2>3 DEF StartDispatch
<1>8. ASSUME NEW e \in Executors, StopShutdown(e) PROVE InHand(q, u)'
  BY <1>a, <1>8 DEF StopShutdown, InHand
<1>9. ASSUME NEW i \in Items, Worker(i) PROVE InHand(q, u)'
  <2>1. InHand(q, u) /\ UNCHANGED <<executor, boot, resubmit, call, snapshot>>
    BY <1>a, <1>9, WorkersKeepRest
  <2>2. \A j \in Items : j.task = u /\ at[j] \in Unclaimed => at'[j] \in Unclaimed
    BY <1>9, ClaimsLeaveNothing
  <2> QED
    BY <2>1, <2>2 DEF InHand
<1>10. CASE UNCHANGED vars
  BY <1>a, <1>10 DEF vars, InHand
<1> QED
  BY <1>1, <1>2, <1>3, <1>4, <1>5, <1>6, <1>7, <1>8, <1>9, <1>10 DEF Next

\* While the queue is started, and start() has returned, no PENDING row is left
\* without somebody who will look at it.
THEOREM NothingIsStranded == SingleProcess /\ FewTasks => (Spec => []NothingStranded)
<1> SUFFICES ASSUME SingleProcess, FewTasks PROVE Spec => []NothingStranded
  OBVIOUS
<1>1. Init => Running /\ Handled
  BY DEF Init, Running, Handled
<1>2. TypeOK /\ Running /\ Handled /\ [Next]_vars => (Running /\ Handled)'
  BY RunningKept, HandledKept
<1>3. Handled => NothingStranded
  BY DEF Handled, InHand, NothingStranded
<1> QED
  BY <1>1, <1>2, <1>3, TypeCorrect, PTL DEF Spec

===============================================================================
