----------------------------- MODULE ToolDispatch -----------------------------
(***************************************************************************)
(* The tool calls of an agent: process_tools() of                          *)
(* orchestration/nodes/process_tools.py, which answers every call of one   *)
(* reply of the model, and DedupedToolInvoker.invoke_one(), which runs one *)
(* call on the driver's thread or on a worker of the tool pool.            *)
(*                                                                         *)
(* A call identical to one of this run is served from tool_call_history;   *)
(* one identical to a call in flight waits for the Event in                *)
(* _pending_events, for 30 seconds at most.  The driver waits ten minutes  *)
(* for a worker: one it gave up on goes on, into later rounds and into the *)
(* next run, which reuses the compiled graph and resets its state in place *)
(* (the command line; a session of the API builds a graph per run).        *)
(*                                                                         *)
(* A step is one critical section of _history_lock or _tool_budget_lock,   *)
(* one step of the driver, or the moment a tool returns.                   *)
(*                                                                         *)
(* Abstracted: a call is its tool and one argument; every tool is budgeted *)
(* with the same ceiling and none is exempt from the cache, whose limit of  *)
(* 256 results a run does not reach; the denial,                           *)
(* the misuse and the policy checks, which refuse a call for reasons of    *)
(* their own; request_tools, of which the change of the lookup is kept;    *)
(* calls answered without a lookup (capped or prohibited ones).            *)
(***************************************************************************)
EXTENDS Integers, Sequences, SequencesExt, FiniteSets, FiniteSetsExt

CONSTANTS
    Tools, Args,
    HardLimit,      \* _TOOL_BUDGET_HARD
    Workers,        \* _PARALLEL_TOOL_WORKERS
    MaxBatch,       \* bound: calls in a reply
    MaxCalls,       \* bound: calls
    MaxRuns         \* bound: runs of the agent

ASSUME DispatchAssumption ==
    /\ HardLimit \in Nat /\ Workers \in Nat \ {0}
    /\ MaxBatch \in Nat \ {0} /\ MaxCalls \in Nat /\ MaxRuns \in Nat \ {0}

Keys  == Tools \X Args
Calls == 1..MaxCalls

Replies == {"none", "ok", "error", "cached", "paused", "refused", "inactive", "cancelled"}
Answers == Replies \cup {"timeout"}
Steps   == {"queued", "dropped", "lookup", "wait", "woken", "budget", "fetch", "invoke", "charge",
            "release", "done"}

Call == [key : Keys, run : 1..MaxRuns, pooled : BOOLEAN, pc : Steps,
         event : Calls \cup {0},    \* the Event it waits for, by the call that made it
         lapsed : BOOLEAN,          \* waited in vain and went on without a sentinel
         source : Calls \cup {0},   \* the call whose result it was served
         reply : Replies, answer : Answers]

VARIABLES
    run,        \* number of the current run
    mode,       \* what the driver does: "model" | "inline" | "pool" | "raised"
    batch,      \* the calls it waits for, in order
    calls,      \* the calls so far, by id
    history,    \* tool_call_history: the call whose result is kept, 0 for none
    pending,    \* _pending_events: the call that made the Event, 0 for none
    counts,     \* tool_call_counts
    lookup      \* tool_lookup

vars == <<run, mode, batch, calls, history, pending, counts, lookup>>
cache == <<history, pending>>
driver == <<run, mode, batch, lookup>>

Id == DOMAIN calls
Key(c) == calls[c].key
Tool(c) == calls[c].key[1]
At(c, step) == c \in Id /\ calls[c].pc = step
Finished(c) == calls[c].pc \in {"done", "dropped"}
-----------------------------------------------------------------------------
Init ==
    /\ run = 1 /\ mode = "model" /\ batch = <<>> /\ calls = <<>>
    /\ history = [k \in Keys |-> 0] /\ pending = [k \in Keys |-> 0]
    /\ counts = [t \in Tools |-> 0]
    /\ lookup \in SUBSET Tools

\* The tool itself was called.
Invoked(c) == At(c, "invoke") \/ calls[c].reply \in {"ok", "error", "cancelled"}

\* --- the history and the sentinels, under _history_lock ----------------------

Cached(k) == history[k] # 0

\* The call returns; the sentinel of its key is popped, whoever made it, and
\* its Event set.
EndsAndReleases(c, reply) ==
    /\ pending' = [pending EXCEPT ![Key(c)] = 0]
    /\ calls' = [d \in Id |->
          IF d = c THEN [calls[d] EXCEPT !.pc = "done", !.reply = reply]
          ELSE IF At(d, "wait") /\ calls[d].event = pending[Key(c)]
               THEN [calls[d] EXCEPT !.pc = "woken", !.event = 0]
          ELSE calls[d]]

ServeCached(c) ==
    /\ calls' = [calls EXCEPT ![c].pc = "charge", ![c].source = history[Key(c)], ![c].event = 0]
    /\ UNCHANGED cache

\* --- invoke_one(), a step of call c ------------------------------------------

\* Mutant: checks the history and the Events, but reserves nothing.
LookOnly(c) ==
    /\ At(c, "lookup")
    /\ IF Cached(Key(c))
       THEN ServeCached(c)
       ELSE calls' = [calls EXCEPT ![c].pc = "budget"] /\ UNCHANGED cache
    /\ UNCHANGED <<driver, counts>>

\* _check_duplicate() and the check-and-reserve that follows it: the result
\* is there, or a call is in flight, or this one reserves the slot.
Look(c) ==
    /\ At(c, "lookup")
    /\ \/ Cached(Key(c)) /\ ServeCached(c)
       \/ /\ ~Cached(Key(c)) /\ pending[Key(c)] # 0
          /\ calls' = [calls EXCEPT ![c].pc = "wait", ![c].event = pending[Key(c)]]
          /\ UNCHANGED cache
       \/ /\ ~Cached(Key(c)) /\ pending[Key(c)] = 0
          /\ calls' = [calls EXCEPT ![c].pc = "budget"]
          /\ pending' = [pending EXCEPT ![Key(c)] = c]
          /\ UNCHANGED history
    /\ UNCHANGED <<driver, counts>>

\* _wait_event.wait(30) returns, the Event set or not, and the history is
\* read once more; without a result the call falls through to execute.
Recheck(c) ==
    \/ Cached(Key(c)) /\ ServeCached(c)
    \/ /\ ~Cached(Key(c))
       /\ calls' = [calls EXCEPT ![c].pc = "budget", ![c].lapsed = TRUE, ![c].event = 0]
       /\ UNCHANGED cache

WaitEnds(c) ==
    /\ At(c, "woken")
    /\ Recheck(c)
    /\ UNCHANGED <<driver, counts>>

WaitTimesOut(c) ==
    /\ At(c, "wait")
    /\ Recheck(c)
    /\ UNCHANGED <<driver, counts>>

\* Mutant: a refused call returns without releasing the sentinel.
FailKeeps(c) ==
    /\ \/ /\ calls[c].pc \in {"budget", "fetch"}
          /\ calls' = [calls EXCEPT ![c].pc = "done", ![c].reply = "refused"]
          /\ UNCHANGED pending
       \/ calls[c].pc = "invoke" /\ \E r \in {"error", "cancelled"} : EndsAndReleases(c, r)
    /\ UNCHANGED <<driver, history, counts>>

\* A denied tool or a misused one is refused before it is charged, a call the
\* policy blocks after that; the tool raises, or the user cancels the run at
\* its prompt.
Fail(c) ==
    /\ \/ calls[c].pc \in {"budget", "fetch"} /\ EndsAndReleases(c, "refused")
       \/ calls[c].pc = "invoke" /\ \E r \in {"error", "cancelled"} : EndsAndReleases(c, r)
    /\ UNCHANGED <<driver, history, counts>>

\* Under _tool_budget_lock: the count is increased whatever comes of it.
ChargeTo(c, over, under) ==
    /\ counts' = [counts EXCEPT ![Tool(c)] = @ + 1]
    /\ IF counts[Tool(c)] + 1 > HardLimit
       THEN calls' = [calls EXCEPT ![c].pc = over, ![c].reply = "paused"]
       ELSE calls' = [calls EXCEPT ![c].pc = under,
                                   ![c].reply = IF under = "done" THEN "cached" ELSE @]
    /\ UNCHANGED <<driver, cache>>

Budget(c) == At(c, "budget") /\ ChargeTo(c, "release", "fetch")

\* Mutant: a call served from the history costs nothing.
ChargeNoDuplicate(c) ==
    /\ At(c, "charge")
    /\ calls' = [calls EXCEPT ![c].pc = "done", ![c].reply = "cached"]
    /\ UNCHANGED <<driver, cache, counts>>

\* _charge_duplicate_against_budget(), for a call served from the history.
ChargeDuplicate(c) == At(c, "charge") /\ ChargeTo(c, "done", "done")

\* A call over the ceiling.
Release(c) ==
    /\ At(c, "release")
    /\ EndsAndReleases(c, "paused")
    /\ UNCHANGED <<driver, history, counts>>

\* The tool is taken from the lookup; when it is gone the call returns at once.
Fetch(c) ==
    /\ At(c, "fetch")
    /\ calls' = IF Tool(c) \in lookup
                THEN [calls EXCEPT ![c].pc = "invoke"]
                ELSE [calls EXCEPT ![c].pc = "done", ![c].reply = "inactive"]
    /\ UNCHANGED <<driver, cache, counts>>

\* tool.invoke() returns: the result is stored and the Event set in one
\* critical section.
Succeed(c) ==
    /\ At(c, "invoke")
    /\ EndsAndReleases(c, "ok")
    /\ history' = [history EXCEPT ![Key(c)] = c]
    /\ UNCHANGED <<driver, counts>>

\* --- process_tools(), the driver ---------------------------------------------

Fresh(k, pooled) ==
    [key |-> k, run |-> run, pooled |-> pooled, pc |-> "queued", event |-> 0,
     lapsed |-> FALSE, source |-> 0, reply |-> "none", answer |-> "none"]

\* Tools that a reply calls twice.
Burst(keys) == {t \in Tools : Quantify(DOMAIN keys, LAMBDA i : keys[i][1] = t) >= 2}

\* A reply of the model; keys are its calls but those that are answered with
\* advice: of tools which are neither in the lookup nor called twice, and thus
\* loaded without a request.  One call runs on the driver's thread, more of
\* them are submitted to the pool.
Round(keys) ==
    /\ mode = "model" /\ Len(calls) + Len(keys) <= MaxCalls
    /\ \A i \in DOMAIN keys : keys[i][1] \in lookup \cup Burst(keys)
    /\ lookup' = lookup \cup Burst(keys)
    /\ calls' = calls \o [i \in DOMAIN keys |-> Fresh(keys[i], Len(keys) > 1)]
    /\ batch' = [i \in DOMAIN keys |-> Len(calls) + i]
    /\ mode' = IF Len(keys) = 1 THEN "inline" ELSE "pool"
    /\ UNCHANGED <<run, cache, counts>>

\* Calls that occupy a worker, given up on or not.
Busy == {c \in Id : calls[c].pooled /\ calls[c].pc # "queued" /\ ~Finished(c)}

Start(c) ==
    /\ At(c, "queued")
    /\ calls[c].pooled => /\ Cardinality(Busy) < Workers
                          /\ \A d \in Id : At(d, "queued") => c <= d
    /\ calls' = [calls EXCEPT ![c].pc = "lookup"]
    /\ UNCHANGED <<driver, cache, counts>>

\* The driver has the answer of the call it waits for.
Answered(c, answer) ==
    [calls EXCEPT ![c].answer = answer, ![c].pc = IF @ = "queued" THEN "dropped" ELSE @]

Advance ==
    /\ batch' = Tail(batch)
    /\ mode' = IF Len(batch) = 1 THEN "model" ELSE mode

\* The first of the batch is done.  When the user cancelled, the futures that
\* did not start are cancelled, all are answered and the run is over.
Collect ==
    /\ batch # <<>> /\ calls[Head(batch)].pc = "done"
    /\ IF calls[Head(batch)].reply = "cancelled"
       THEN /\ calls' = [c \in Id |-> IF c \in ToSet(batch)
                                      THEN Answered(c, "cancelled")[c] ELSE calls[c]]
            /\ batch' = <<>> /\ mode' = "raised"
       ELSE /\ calls' = Answered(Head(batch), calls[Head(batch)].reply)
            /\ Advance
    /\ UNCHANGED <<run, cache, counts, lookup>>

\* future.result(600) gives up: the future is cancelled, a thread goes on.
GiveUpOn ==
    /\ mode = "pool" /\ ~Finished(Head(batch))
    /\ calls' = Answered(Head(batch), "timeout")
    /\ Advance
    /\ UNCHANGED <<run, cache, counts, lookup>>

\* What request_tools asked for, once its round is answered.
Manage ==
    /\ mode = "model"
    /\ \E t \in Tools : lookup' = IF t \in lookup THEN lookup \ {t} ELSE lookup \cup {t}
    /\ UNCHANGED <<run, mode, batch, calls, cache, counts>>

\* Mutant: the history outlives the run.
NewRunKeeps ==
    /\ mode \in {"model", "raised"} /\ run < MaxRuns
    /\ run' = run + 1 /\ mode' = "model"
    /\ counts' = [t \in Tools |-> 0] /\ pending' = [k \in Keys |-> 0]
    /\ UNCHANGED <<batch, calls, history, lookup>>

\* The next turn finds the compiled graph in the cache: _reset_for_new_run()
\* clears the state of the run in place, and the pending Events unset.
NewRun ==
    /\ mode \in {"model", "raised"} /\ run < MaxRuns
    /\ run' = run + 1 /\ mode' = "model"
    /\ history' = [k \in Keys |-> 0] /\ counts' = [t \in Tools |-> 0]
    /\ pending' = [k \in Keys |-> 0]
    /\ UNCHANGED <<batch, calls, lookup>>

Invoke(c) ==
    \/ Look(c) \/ WaitEnds(c) \/ WaitTimesOut(c) \/ Budget(c) \/ ChargeDuplicate(c)
    \/ Release(c) \/ Fetch(c) \/ Succeed(c) \/ Fail(c)

Next ==
    \/ \E n \in 1..MaxBatch : \E keys \in [1..n -> Keys] : Round(keys)
    \/ \E c \in Id : Start(c) \/ Invoke(c)
    \/ Collect \/ GiveUpOn \/ Manage \/ NewRun

Spec == Init /\ [][Next]_vars
-----------------------------------------------------------------------------
\* Given up on by the driver, which may leave a thread running.
Abandoned(c) == calls[c].answer \in {"timeout", "cancelled"}

TypeOK ==
    /\ run \in 1..MaxRuns /\ mode \in {"model", "inline", "pool", "raised"}
    /\ calls \in Seq(Call) /\ Len(calls) <= MaxCalls
    /\ batch \in Seq(Id) /\ (batch = <<>>) = (mode \in {"model", "raised"})
    /\ history \in [Keys -> Id \cup {0}] /\ pending \in [Keys -> Id \cup {0}]
    /\ counts \in [Tools -> Nat] /\ lookup \subseteq Tools

\* A tool runs twice at once with the same arguments only after a call waited
\* in vain for the first result, or when a thread of an earlier run is about
\* that the driver had given up on (DedupedToolInvoker: parallel duplicates
\* invoke the tool once).
OnceInFlight ==
    \A c, d \in Id : c # d /\ At(c, "invoke") /\ At(d, "invoke") /\ Key(c) = Key(d) =>
        \E e \in Id : /\ Key(e) = Key(c)
                      /\ calls[e].lapsed \/ (calls[e].run # run /\ Abandoned(e))

\* A call that waits for a result waits for a call that will still set the
\* Event, on whatever path it returns; the exception is the tool that left the
\* lookup meanwhile, whose call returns without it (_release_sentinel()).
NobodyWaitsInVain ==
    \A c \in Id : At(c, "wait") /\ calls[c].run = run =>
        LET owner == calls[c].event
        IN  pending[Key(c)] = owner /\ (At(owner, "done") => calls[owner].reply = "inactive")

\* In a run a tool is not called, nor answered from the history, more often
\* than its ceiling allows, however its calls interleave and whatever threads
\* of earlier runs charge (the budget of invoke_one() and
\* _charge_duplicate_against_budget()).
BudgetBounds ==
    \A t \in Tools : Quantify(Id, LAMBDA c : /\ Tool(c) = t /\ calls[c].run = run
                                             /\ Invoked(c) \/ calls[c].reply = "cached")
                       <= HardLimit

\* A result served from the history is one of the same run, unless one of the
\* two calls was given up on (_reset_for_new_run() and tool_call_history).
ServedFromOwnRun ==
    \A c \in Id : calls[c].source # 0 =>
        \/ calls[calls[c].source].run = calls[c].run
        \/ Abandoned(c) \/ Abandoned(calls[c].source)

\* Between rounds every call of the model has an answer, and it is what its
\* thread replied unless the driver gave up on it (the 1:1 mapping of answers
\* to calls that process_tools() keeps).
EveryCallAnswered ==
    \A c \in Id : c \notin ToSet(batch) =>
        /\ calls[c].answer # "none"
        /\ calls[c].answer \in Replies => Abandoned(c) \/ calls[c].answer = calls[c].reply
=============================================================================
