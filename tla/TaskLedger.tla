------------------------------ MODULE TaskLedger ------------------------------
(***************************************************************************)
(* What the background task queue promises its callers, with no word about *)
(* executors, locks, restarts or the database: a task that was accepted    *)
(* waits, and from there it is either withdrawn or started, once.  "Agent  *)
(* tasks are not idempotent" (cogtrix_core/tasks/queue.py), so a task that *)
(* was started is never started again, whatever happened to its worker.    *)
(***************************************************************************)
EXTENDS Naturals

CONSTANT Tasks

VARIABLES phase, starts

ledgerVars == <<phase, starts>>

Phases == {"unknown", "waiting", "withdrawn", "started", "ended"}

LedgerInit ==
    /\ phase = [t \in Tasks |-> "unknown"]
    /\ starts = [t \in Tasks |-> 0]

Move(t, from, to) ==
    /\ phase[t] = from
    /\ phase' = [phase EXCEPT ![t] = to]

Accept(t) == Move(t, "unknown", "waiting") /\ UNCHANGED starts

Withdraw(t) == Move(t, "waiting", "withdrawn") /\ UNCHANGED starts

Begin(t) ==
    /\ Move(t, "waiting", "started")
    /\ starts' = [starts EXCEPT ![t] = @ + 1]

\* A restart reports every task it finds started in one go.
Report(S) ==
    /\ S # {}
    /\ \A t \in S : phase[t] = "started"
    /\ phase' = [t \in Tasks |-> IF t \in S THEN "ended" ELSE phase[t]]
    /\ UNCHANGED starts

LedgerNext ==
    \/ \E t \in Tasks : Accept(t) \/ Withdraw(t) \/ Begin(t)
    \/ \E S \in SUBSET Tasks : Report(S)

LedgerSpec == LedgerInit /\ [][LedgerNext]_ledgerVars

===============================================================================
