------------------------------ MODULE TaskQueue ------------------------------
(***************************************************************************)
(* cogtrix_core/tasks/queue.py: rows in a SQLite file, a lock per process, *)
(* and a thread pool ("executor") made by start() and dropped by stop().   *)
(*                                                                         *)
(* Several processes may open one file (every CLI started in a directory   *)
(* uses data/tasks/tasks.db).  A process's `_lock` serialises its own      *)
(* critical sections and nothing else, so a SELECT and the UPDATE that     *)
(* follows it are two steps here, with the lock held in between.           *)
(*                                                                         *)
(* Abstracted: prompts, results and log lines; which of the pool's threads *)
(* runs a work item; the order of the pool's queue.                        *)
(***************************************************************************)
EXTENDS Naturals, FiniteSets

CONSTANTS
    Tasks,          \* the ids submit() may draw
    Procs,          \* the processes that open the same database
    MaxStarts,      \* bound: start() calls that make an executor, per process
    MaxWorkers,     \* max_workers of ThreadPoolExecutor
    PendingLimit    \* limit= of the list() call in start()

ASSUME TaskQueueAssumption ==
    /\ MaxStarts \in Nat
    /\ MaxWorkers \in Nat \ {0}
    /\ PendingLimit \in Nat

Executors == Procs \X (1 .. MaxStarts)
NoExecutor == <<>>

\* A work item of a pool: the submit() or the start() call that made it says
\* which one, so a task dispatched by both has two items on one pool.
Items == [kind : {"submit", "start"}, pool : Executors, task : Tasks]

\* A cancel() call that has read PENDING and still holds the lock.
Cancels == [kind : {"cancel"}, proc : Procs, task : Tasks]

Free == [kind |-> "free"]

Statuses == {"PENDING", "RUNNING", "COMPLETED", "FAILED", "CANCELLED"}
Terminal == {"COMPLETED", "FAILED", "CANCELLED"}

\* Where the thread of a work item stands in _worker(), "none" when there is
\* no such item: not made yet, or done with.
ItemSteps == {"none", "queued", "taken", "mark", "run", "log",
              "fail"}
Unclaimed == {"queued", "taken", "mark"}
Active    == {"taken", "mark", "run", "log", "fail"}

VARIABLES
    row,         \* status column of each task, "ABSENT" before the INSERT
    executor,    \* self._executor of each process
    pool,        \* life of each executor: unborn, open, nulled, shut, dead
    boot,        \* where the start() call that made the executor stands
    resubmit,    \* the tasks that call has still to dispatch
    lock,        \* holder of self._lock across two database statements
    at,          \* step of each work item
    cancelling,  \* cancel() calls between SELECT and UPDATE
    call,        \* where the submit() call of each task stands
    snapshot,    \* the executor that call read under the lock
    runs         \* history: times the runner was invoked for a task

vars == <<row, executor, pool, boot, resubmit, lock, at, cancelling, call,
          snapshot, runs>>

ProcOf(i) == i.pool[1]

TypeOK ==
    /\ row \in [Tasks -> Statuses \cup {"ABSENT"}]
    /\ executor \in [Procs -> Executors \cup {NoExecutor}]
    /\ pool \in [Executors -> {"unborn", "open", "nulled", "shut", "dead"}]
    /\ boot \in [Executors -> {"idle", "list", "dispatch", "done"}]
    /\ resubmit \in [Executors -> SUBSET Tasks]
    /\ lock \in [Procs -> Items \cup Cancels \cup {Free}]
    /\ at \in [Items -> ItemSteps]
    /\ cancelling \in SUBSET Cancels
    /\ call \in [Tasks -> {"none", "dispatch", "raised"}]
    /\ snapshot \in [Tasks -> Executors \cup {NoExecutor}]
    /\ runs \in [Tasks -> Nat]

Init ==
    /\ row = [t \in Tasks |-> "ABSENT"]
    /\ executor = [p \in Procs |-> NoExecutor]
    /\ pool = [e \in Executors |-> "unborn"]
    /\ boot = [e \in Executors |-> "idle"]
    /\ resubmit = [e \in Executors |-> {}]
    /\ lock = [p \in Procs |-> Free]
    /\ at = [i \in Items |-> "none"]
    /\ cancelling = {}
    /\ call = [t \in Tasks |-> "none"]
    /\ snapshot = [t \in Tasks |-> NoExecutor]
    /\ runs = [t \in Tasks |-> 0]

-------------------------------------------------------------------------------
(* submit() *)

\* INSERT and snapshot of the executor, in one critical section.
SubmitInsert(p, t) ==
    /\ lock[p] = Free
    /\ row[t] = "ABSENT"
    /\ row' = [row EXCEPT ![t] = "PENDING"]
    /\ snapshot' = [snapshot EXCEPT ![t] = executor[p]]
    /\ call' = [call EXCEPT ![t] = IF executor[p] = NoExecutor THEN "none" ELSE "dispatch"]
    /\ UNCHANGED <<executor, pool, boot, resubmit, lock, at, cancelling, runs>>

\* ThreadPoolExecutor.submit() queues the call until shutdown() has been called.
Accepting(e) == pool[e] \in {"open", "nulled"}

Enqueue(i) == at' = [at EXCEPT ![i] = "queued"]

SubmitDispatch(t) ==
    LET e == snapshot[t] IN
    /\ call[t] = "dispatch"
    /\ snapshot' = [snapshot EXCEPT ![t] = NoExecutor]
    /\ \/ /\ Accepting(e)
          /\ Enqueue([kind |-> "submit", pool |-> e, task |-> t])
          /\ call' = [call EXCEPT ![t] = "none"]
       \/ /\ ~Accepting(e)
          /\ call' = [call EXCEPT ![t] = "raised"]
          /\ UNCHANGED at
    /\ UNCHANGED <<row, executor, pool, boot, resubmit, lock, cancelling, runs>>

-------------------------------------------------------------------------------
(* cancel(): the calls that find the task PENDING; the others change nothing *)

\* Mutant: the status is read before the lock is taken.
CancelLookupUnlocked(c) ==
    /\ row[c.task] = "PENDING"
    /\ cancelling' = cancelling \cup {c}
    /\ UNCHANGED <<row, executor, pool, boot, resubmit, lock, at, call, snapshot, runs>>

CancelLookup(c) ==
    /\ lock[c.proc] = Free
    /\ row[c.task] = "PENDING"
    /\ lock' = [lock EXCEPT ![c.proc] = c]
    /\ cancelling' = cancelling \cup {c}
    /\ UNCHANGED <<row, executor, pool, boot, resubmit, at, call, snapshot, runs>>

CancelMark(c) ==
    /\ c \in cancelling
    /\ row' = [row EXCEPT ![c.task] = "CANCELLED"]
    /\ lock' = [lock EXCEPT ![c.proc] = Free]
    /\ cancelling' = cancelling \ {c}
    /\ UNCHANGED <<executor, pool, boot, resubmit, at, call, snapshot, runs>>

-------------------------------------------------------------------------------
(* start() and stop() *)

Unborn(p) == {e \in Executors : e[1] = p /\ pool[e] = "unborn"}

\* The critical section of start(): a pool is made, and the rows found RUNNING
\* get another status.
StartFinalising(p, status) ==
    /\ lock[p] = Free
    /\ executor[p] = NoExecutor
    /\ \E e \in Unborn(p) :
        /\ \A f \in Unborn(p) : e[2] <= f[2]
        /\ executor' = [executor EXCEPT ![p] = e]
        /\ pool' = [pool EXCEPT ![e] = "open"]
        /\ boot' = [boot EXCEPT ![e] = "list"]
    /\ row' = [t \in Tasks |-> IF row[t] = "RUNNING" THEN status ELSE row[t]]
    /\ UNCHANGED <<resubmit, lock, at, cancelling, call, snapshot, runs>>

\* Mutants: the orphans are left alone, or queued again.
StartKeepsOrphans(p)   == StartFinalising(p, "RUNNING")
StartRerunsOrphans(p)  == StartFinalising(p, "PENDING")

Start(p) == StartFinalising(p, "FAILED")

Pending == {t \in Tasks : row[t] = "PENDING"}

\* Mutant: start() makes the pool and forgets the rows that survived.
StartListNothing(e) ==
    /\ boot[e] = "list"
    /\ boot' = [boot EXCEPT ![e] = "dispatch"]
    /\ UNCHANGED <<row, executor, pool, resubmit, lock, at, cancelling, call, snapshot, runs>>

\* list(status=PENDING, limit=...), outside the lock: the newest rows only.
\* Which rows are the newest is left open.
StartList(e) ==
    /\ boot[e] = "list"
    /\ \E S \in SUBSET Pending :
        /\ \/ S = Pending /\ Cardinality(Pending) <= PendingLimit
           \/ Cardinality(S) = PendingLimit
        /\ resubmit' = [resubmit EXCEPT ![e] = S]
    /\ boot' = [boot EXCEPT ![e] = "dispatch"]
    /\ UNCHANGED <<row, executor, pool, lock, at, cancelling, call, snapshot, runs>>

\* One executor.submit() of the loop; after shutdown() it raises and ends start().
StartDispatch(e) ==
    /\ boot[e] = "dispatch"
    /\ \/ /\ Accepting(e)
          /\ \E t \in resubmit[e] :
              /\ Enqueue([kind |-> "start", pool |-> e, task |-> t])
              /\ resubmit' = [resubmit EXCEPT ![e] = @ \ {t}]
          /\ UNCHANGED boot
       \/ /\ resubmit[e] = {} \/ ~Accepting(e)
          /\ boot' = [boot EXCEPT ![e] = "done"]
          /\ resubmit' = [resubmit EXCEPT ![e] = {}]
          /\ UNCHANGED at
    /\ UNCHANGED <<row, executor, pool, lock, cancelling, call, snapshot, runs>>

\* stop() nulls the executor under the lock ...  (The bound keeps a start()
\* possible afterwards.)
StopNull(p) ==
    /\ lock[p] = Free
    /\ executor[p] # NoExecutor
    /\ Unborn(p) # {}
    /\ executor' = [executor EXCEPT ![p] = NoExecutor]
    /\ pool' = [pool EXCEPT ![executor[p]] = "nulled"]
    /\ UNCHANGED <<row, boot, resubmit, lock, at, cancelling, call, snapshot, runs>>

\* ... and shuts it down outside: queued items still run, new ones are refused.
\* The join that follows changes nothing.
StopShutdown(e) ==
    /\ pool[e] = "nulled"
    /\ pool' = [pool EXCEPT ![e] = "shut"]
    /\ UNCHANGED <<row, executor, boot, resubmit, lock, at, cancelling, call, snapshot, runs>>

\* The process dies: its threads and calls are gone, the rows stay.  (Bound: it
\* dies at most once per executor it made, and a start() remains possible.)
Crash(p) ==
    /\ \E e \in Executors : e[1] = p /\ pool[e] \notin {"unborn", "dead"}
    /\ Unborn(p) # {}
    /\ executor' = [executor EXCEPT ![p] = NoExecutor]
    /\ pool' = [e \in Executors |->
                  IF e[1] = p /\ pool[e] # "unborn" THEN "dead" ELSE pool[e]]
    /\ boot' = [e \in Executors |-> IF e[1] = p THEN "idle" ELSE boot[e]]
    /\ resubmit' = [e \in Executors |-> IF e[1] = p THEN {} ELSE resubmit[e]]
    /\ lock' = [lock EXCEPT ![p] = Free]
    /\ at' = [i \in Items |-> IF ProcOf(i) = p THEN "none" ELSE at[i]]
    /\ cancelling' = {c \in cancelling : c.proc # p}
    /\ LET Dying(t) == call[t] = "dispatch" /\ snapshot[t][1] = p IN
        /\ call' = [t \in Tasks |-> IF Dying(t) THEN "none" ELSE call[t]]
        /\ snapshot' = [t \in Tasks |-> IF Dying(t) THEN NoExecutor ELSE snapshot[t]]
    /\ UNCHANGED <<row, runs>>

-------------------------------------------------------------------------------
(* _worker() *)

Step(i, from, to) ==
    /\ at[i] = from
    /\ at' = [at EXCEPT ![i] = to]

\* A thread of the pool is free and picks the item up.
Take(i) ==
    /\ Step(i, "queued", "taken")
    /\ Cardinality({j \in Items : j.pool = i.pool /\ at[j] \in Active}) < MaxWorkers
    /\ UNCHANGED <<row, executor, pool, boot, resubmit, lock, cancelling, call, snapshot, runs>>

\* Mutant: SELECT and UPDATE are two critical sections.
LookupUnlocked(i) ==
    /\ lock[ProcOf(i)] = Free
    /\ \/ row[i.task] = "PENDING" /\ Step(i, "taken", "mark")
       \/ row[i.task] # "PENDING" /\ Step(i, "taken", "none")
    /\ UNCHANGED <<row, executor, pool, boot, resubmit, lock, cancelling, call, snapshot, runs>>

\* Is the row still PENDING?  If so the lock is kept for the UPDATE.
Lookup(i) ==
    /\ lock[ProcOf(i)] = Free
    /\ \/ /\ row[i.task] = "PENDING"
          /\ Step(i, "taken", "mark")
          /\ lock' = [lock EXCEPT ![ProcOf(i)] = i]
       \/ /\ row[i.task] # "PENDING"
          /\ Step(i, "taken", "none")
          /\ UNCHANGED lock
    /\ UNCHANGED <<row, executor, pool, boot, resubmit, cancelling, call, snapshot, runs>>

\* UPDATE to RUNNING; the runner is invoked with nothing but a read in between.
Mark(i) ==
    /\ Step(i, "mark", "run")
    /\ row' = [row EXCEPT ![i.task] = "RUNNING"]
    /\ lock' = [lock EXCEPT ![ProcOf(i)] = Free]
    /\ runs' = [runs EXCEPT ![i.task] = @ + 1]
    /\ UNCHANGED <<executor, pool, boot, resubmit, cancelling, call, snapshot>>

\* The final UPDATE looks at nothing: it overwrites whatever the row says.
Finish(i, from, status, to) ==
    /\ lock[ProcOf(i)] = Free
    /\ Step(i, from, to)
    /\ row' = [row EXCEPT ![i.task] = status]
    /\ UNCHANGED <<executor, pool, boot, resubmit, lock, cancelling, call, snapshot, runs>>

\* The runner has returned a result ...
Complete(i) == Finish(i, "run", "COMPLETED", "log")

\* _append_log() runs inside the try: if it raises, the except clause runs.
AppendLog(i) ==
    /\ Step(i, "log", "none") \/ Step(i, "log", "fail")
    /\ UNCHANGED <<row, executor, pool, boot, resubmit, lock, cancelling, call, snapshot, runs>>

\* ... or raised, or its log line did.
Fail(i) ==
    Finish(i, "run", "FAILED", "none") \/ Finish(i, "fail", "FAILED", "none")

Worker(i) ==
    \/ Take(i) \/ Lookup(i) \/ Mark(i)
    \/ Complete(i) \/ AppendLog(i) \/ Fail(i)

-------------------------------------------------------------------------------
Next ==
    \/ \E p \in Procs : \E t \in Tasks : SubmitInsert(p, t)
    \/ \E t \in Tasks : SubmitDispatch(t)
    \/ \E c \in Cancels : CancelLookup(c) \/ CancelMark(c)
    \/ \E p \in Procs : Start(p) \/ StopNull(p) \/ Crash(p)
    \/ \E e \in Executors : StartList(e) \/ StartDispatch(e) \/ StopShutdown(e)
    \/ \E i \in Items : Worker(i)

Spec == Init /\ [][Next]_vars

\* The CLI calls start() at launch, threads are scheduled, runners end.  No
\* fairness for the callers of submit(), cancel() and stop(), nor for crashes.
Fairness ==
    /\ \A p \in Procs : WF_vars(Start(p))
    /\ \A e \in Executors : WF_vars(StartList(e)) /\ WF_vars(StartDispatch(e))
    /\ \A t \in Tasks : WF_vars(SubmitDispatch(t))
    /\ \A c \in Cancels : WF_vars(CancelMark(c))
    /\ \A i \in Items : WF_vars(Worker(i))

FairSpec == Spec /\ Fairness

-------------------------------------------------------------------------------
(* Properties *)

\* Within one process no task's runner is invoked twice, although submit() and
\* start() may both dispatch it, stop() and start() overlap and the process
\* dies at any point: the claim in _worker() is what stands in the way.
AtMostOnce == \A t \in Tasks : runs[t] <= 1

\* Once cancel() has answered True the task stays CANCELLED and is never run,
\* even when a pool already holds it.
CancelIsFinal ==
    [][\A t \in Tasks :
        row[t] = "CANCELLED" => row'[t] = "CANCELLED" /\ runs'[t] = 0]_vars

\* While the queue is started and start() has returned, every PENDING row is in
\* some pool's hands or about to be: submit() and start() leave no gap
\* between the row each can see and the executor each dispatches to.
NothingStranded ==
    \A p \in Procs, t \in Tasks :
        /\ executor[p] # NoExecutor
        /\ boot[executor[p]] = "done"
        /\ row[t] = "PENDING"
        /\ call[t] # "dispatch"
        => \E i \in Items : i.task = t /\ at[i] \in Unclaimed

\* Every accepted task reaches a final status, across stops and crashes.
EveryTaskEnds ==
    \A t \in Tasks : row[t] = "PENDING" ~> row[t] \in Terminal

\* What the rows say of a task, in the words of TaskLedger.
PhaseOf(status) ==
    CASE status = "ABSENT"    -> "unknown"
      [] status = "PENDING"   -> "waiting"
      [] status = "CANCELLED" -> "withdrawn"
      [] status = "RUNNING"   -> "started"
      [] OTHER                -> "ended"

Ledger == INSTANCE TaskLedger
    WITH phase <- [t \in Tasks |-> PhaseOf(row[t])], starts <- runs

\* The queue of one process implements the ledger: a task is accepted once,
\* withdrawn or started once, and reported only after it was started.
ImplementsLedger == Ledger!LedgerSpec
===============================================================================
