--------------------------- MODULE ToolDispatchProofs ---------------------------
(***************************************************************************)
(* Proofs about ToolDispatch: for any tools, arguments and ceiling, any    *)
(* number of workers, calls in a reply, calls and runs.                    *)
(*                                                                         *)
(* What keeps a key from running twice is its sentinel; what spoils that   *)
(* is a call that went on without one, or a thread that an earlier run     *)
(* left behind.  So the invariant says who owns the sentinel of each key,  *)
(* and that whoever executes without it has such an excuse; and, as        *)
(* threads outlive runs, that a call which is still busy is either waited  *)
(* for by the driver or given up on.                                       *)
(***************************************************************************)
EXTENDS ToolDispatch, FiniteSetTheorems, SequenceTheorems, TLAPS

Executing == {"budget", "fetch", "invoke", "release"}

\* The driver waits for the calls of the batch; all others have their answer.
Driven ==
    /\ \A i, j \in DOMAIN batch : batch[i] = batch[j] => i = j
    /\ \A c \in Id : calls[c].run <= run /\ (calls[c].pc = "done" => calls[c].reply # "none")
    /\ \A c \in ToSet(batch) : calls[c].answer = "none" /\ calls[c].run = run
    /\ \A c \in Id \ ToSet(batch) :
          /\ calls[c].answer # "none"
          /\ Finished(c) \/ Abandoned(c)
          /\ calls[c].answer \in Replies =>
                Abandoned(c) \/ (calls[c].pc = "done" /\ calls[c].answer = calls[c].reply)

\* A call of the key waited in vain, or was left behind by an earlier run.
Excused(k) ==
    \E e \in Id : Key(e) = k /\ (calls[e].lapsed \/ (calls[e].run # run /\ Abandoned(e)))

\* The sentinel of a key belongs to a call that will pop it, or that found its
\* tool gone; and who executes has the sentinel or an excuse.
Sentinels ==
    \A k \in Keys :
        /\ pending[k] # 0 =>
              /\ Key(pending[k]) = k
              /\ \/ calls[pending[k]].pc \in Executing
                 \/ calls[pending[k]].pc = "done" /\ calls[pending[k]].reply = "inactive"
        /\ \A c \in Id : Key(c) = k /\ calls[c].pc \in Executing => pending[k] = c \/ Excused(k)
        /\ \A c \in Id : Key(c) = k /\ calls[c].pc = "wait" /\ calls[c].run = run =>
              calls[c].event = pending[k] /\ pending[k] # 0

\* What the history holds was found in this run, or by an abandoned thread.
Kept ==
    /\ \A k \in Keys : history[k] # 0 => calls[history[k]].run = run \/ Abandoned(history[k])
    /\ \A c \in Id : calls[c].source # 0 => calls[c].source \in Id
    /\ ServedFromOwnRun

\* The calls of the run that were let through.
Passed(t) ==
    {c \in Id : /\ Tool(c) = t /\ calls[c].run = run
                /\ \/ calls[c].pc \in {"fetch", "invoke"}
                   \/ calls[c].reply \in {"ok", "error", "cancelled", "cached"}}

Spent ==
    \A t \in Tools : Cardinality(Passed(t)) <= counts[t] /\ Cardinality(Passed(t)) <= HardLimit

DispatchInv == TypeOK /\ Driven /\ Sentinels /\ Kept /\ Spent

-------------------------------------------------------------------------------
LEMMA IdFacts ==
    ASSUME TypeOK
    PROVE  /\ calls \in [Id -> Call] /\ Id = 1 .. Len(calls) /\ Len(calls) \in Nat
           /\ Id \subseteq Calls /\ 0 \notin Id /\ IsFiniteSet(Id)
<1>1. calls \in [Id -> Call] /\ Id = 1 .. Len(calls) /\ Len(calls) \in Nat /\ Len(calls) <= MaxCalls
  BY DEF TypeOK, Id
<1>2. IsFiniteSet(Id)
  BY <1>1, FS_Interval
<1> QED
  BY <1>1, <1>2, DispatchAssumption DEF Calls

\* Whatever changes the calls one by one leaves a sequence of calls.
LEMMA CallsTyped ==
    ASSUME TypeOK, calls' \in [Id -> Call]
    PROVE  calls' \in Seq(Call) /\ Len(calls') = Len(calls) /\ Id' = Id
<1>1. calls' \in [1 .. Len(calls) -> Call] /\ Len(calls) \in Nat /\ Id = 1 .. Len(calls)
  BY IdFacts
<1>2. calls' \in Seq(Call)
  BY <1>1, SeqDef
<1>3. DOMAIN calls' = 1 .. Len(calls') /\ Len(calls') \in Nat /\ DOMAIN calls' = 1 .. Len(calls)
  BY <1>1, <1>2
<1>4. Len(calls') = Len(calls)
  BY <1>1, <1>3
<1> QED
  BY <1>1, <1>2, <1>3, <1>4 DEF Id

\* The fields a step may change.
LEMMA FieldsTyped ==
    ASSUME NEW r \in Call
    PROVE  /\ \A s \in Steps : [r EXCEPT !.pc = s] \in Call
           /\ \A s \in Steps, e \in Calls \cup {0} : [r EXCEPT !.pc = s, !.event = e] \in Call
           /\ \A s \in Steps, q \in Replies : [r EXCEPT !.pc = s, !.reply = q] \in Call
           /\ \A s \in Steps, e \in Calls \cup {0} : [r EXCEPT !.pc = s, !.source = e, !.event = 0] \in Call
           /\ \A s \in Steps : [r EXCEPT !.pc = s, !.lapsed = TRUE, !.event = 0] \in Call
           /\ \A s \in Steps, a \in Answers : [r EXCEPT !.answer = a, !.pc = s] \in Call
<1> HIDE DEF Keys, Calls, Steps, Replies, Answers
<1>1. \A s \in Steps : [r EXCEPT !.pc = s] \in Call
  BY DEF Call
<1>2. \A s \in Steps, e \in Calls \cup {0} : [r EXCEPT !.pc = s, !.event = e] \in Call
  BY DEF Call
<1>3. \A s \in Steps, q \in Replies : [r EXCEPT !.pc = s, !.reply = q] \in Call
  BY DEF Call
<1>4. \A s \in Steps, e \in Calls \cup {0} : [r EXCEPT !.pc = s, !.source = e, !.event = 0] \in Call
  BY DEF Call
<1>5. \A s \in Steps : [r EXCEPT !.pc = s, !.lapsed = TRUE, !.event = 0] \in Call
  BY DEF Call
<1>6. \A s \in Steps, a \in Answers : [r EXCEPT !.answer = a, !.pc = s] \in Call
  BY DEF Call
<1> QED
  BY <1>1, <1>2, <1>3, <1>4, <1>5, <1>6

\* A call that ends leaves calls, and a pending Event less.
LEMMA EndTyped ==
    ASSUME TypeOK, NEW c \in Id, NEW q \in Replies, EndsAndReleases(c, q)
    PROVE  /\ calls' \in Seq(Call) /\ Len(calls') = Len(calls) /\ Id' = Id
           /\ pending' \in [Keys -> Id \cup {0}]
<1>1. \A d \in Id : calls[d] \in Call
  BY IdFacts
<1>2. \A d \in Id : /\ [calls[d] EXCEPT !.pc = "done", !.reply = q] \in Call
                    /\ [calls[d] EXCEPT !.pc = "woken", !.event = 0] \in Call
  BY <1>1, FieldsTyped DEF Steps
<1>3. calls' \in [Id -> Call]
  BY <1>1, <1>2 DEF EndsAndReleases
<1>4. pending' \in [Keys -> Id \cup {0}]
  BY DEF EndsAndReleases, TypeOK
<1> QED
  BY <1>3, <1>4, CallsTyped

\* The driver goes on with the rest of the batch.
LEMMA TailTyped ==
    ASSUME NEW S, NEW b \in Seq(S), b # <<>>
    PROVE  /\ Head(b) \in S /\ Tail(b) \in Seq(S) /\ Len(Tail(b)) = Len(b) - 1
           /\ (Tail(b) = <<>>) = (Len(b) = 1)
           /\ \A i \in 1 .. Len(Tail(b)) : i + 1 \in 1 .. Len(b) /\ Tail(b)[i] = b[i + 1]
           /\ Head(b) = b[1] /\ 1 \in 1 .. Len(b)
           /\ DOMAIN b = 1 .. Len(b) /\ DOMAIN Tail(b) = 1 .. Len(Tail(b)) /\ Len(b) \in Nat
<1>1. Len(b) \in Nat /\ Len(b) # 0
  OBVIOUS
<1>2. Head(b) \in S /\ Tail(b) \in Seq(S) /\ Len(Tail(b)) = Len(b) - 1
  BY <1>1
<1>3. (Tail(b) = <<>>) = (Len(b) = 1)
  <2>1. (Tail(b) = <<>>) <=> (Len(Tail(b)) = 0)
    BY <1>2, EmptySeq
  <2>2. (Tail(b) = <<>>) <=> (Len(b) = 1)
    BY <1>1, <1>2, <2>1
  <2> QED
    BY <2>2
<1>4. \A i \in 1 .. Len(Tail(b)) : i + 1 \in 1 .. Len(b) /\ Tail(b)[i] = b[i + 1]
  BY <1>1, <1>2
<1> QED
  BY <1>1, <1>2, <1>3, <1>4

\* Every call, sentinel and count is of its type.
LEMMA TypeStep == DispatchInv /\ [Next]_vars => TypeOK'
<1> SUFFICES ASSUME DispatchInv, [Next]_vars PROVE TypeOK'
  OBVIOUS
<1> USE DispatchAssumption DEF DispatchInv, TypeOK, Id, At
<1>1. ASSUME NEW n \in 1 .. MaxBatch, NEW keys \in [1 .. n -> Keys], Round(keys) PROVE TypeOK'
  <2> DEFINE s == [i \in DOMAIN keys |-> Fresh(keys[i], Len(keys) > 1)]
  <2>1. n \in Nat /\ n >= 1 /\ DOMAIN keys = 1 .. n
    OBVIOUS
  <2>2. Len(keys) = n
    BY <2>1, SeqDef
  <2>3. \A i \in 1 .. n : Fresh(keys[i], Len(keys) > 1) \in Call
    BY DEF Fresh, Call, Steps, Replies, Answers
  <2>4. s \in Seq(Call) /\ Len(s) = n
    BY <2>1, <2>3, SeqDef
  <2>5. calls' = calls \o s /\ Len(calls) + n <= MaxCalls
    BY <1>1, <2>2 DEF Round
  <2> HIDE DEF s
  <2>6. calls' \in Seq(Call) /\ Len(calls') = Len(calls) + n
    BY <2>4, <2>5, ConcatProperties
  <2>7. Id' = 1 .. Len(calls) + n /\ Id = 1 .. Len(calls) /\ Len(calls) \in Nat
    BY <2>1, <2>6, IdFacts
  <2>8. batch' = [i \in 1 .. n |-> Len(calls) + i] /\ mode' \in {"inline", "pool"}
    BY <1>1, <2>1 DEF Round
  <2>9. batch' \in Seq(Id') /\ Len(batch') = n
    BY <2>1, <2>7, <2>8, SeqDef
  <2>10. batch' # <<>>
    BY <2>1, <2>9
  <2>11. Id \subseteq Id'
    BY <2>7, <2>1
  <2>12. lookup' \subseteq Tools /\ UNCHANGED <<run, history, pending, counts>>
    BY <1>1 DEF Round, Burst, cache
  <2>13. history' \in [Keys -> Id' \cup {0}] /\ pending' \in [Keys -> Id' \cup {0}]
    BY <2>11, <2>12
  <2>14. Len(calls') <= MaxCalls
    BY <2>5, <2>6
  <2>15. mode' \notin {"model", "raised"} /\ mode' \in {"model", "inline", "pool", "raised"}
    BY <2>8
  <2>16. batch' \in Seq(Id')
    BY <2>9
  <2> QED
    BY <2>6, <2>10, <2>12, <2>13, <2>14, <2>15, <2>16 DEF Id
<1>2. ASSUME NEW c \in Id, Start(c) PROVE TypeOK'
  <2>1. calls' \in [Id -> Call]
    BY <1>2, IdFacts, FieldsTyped DEF Start, Steps, Answers, Replies
  <2>2. calls' \in Seq(Call) /\ Len(calls') = Len(calls) /\ Id' = Id
    BY <2>1, CallsTyped
  <2>3. UNCHANGED <<run, mode, batch, lookup, history, pending, counts>>
    BY <1>2 DEF Start, cache, driver
  <2> QED
    BY <2>2, <2>3
<1>3. ASSUME NEW c \in Id, Look(c) PROVE TypeOK'
  <2>1. calls[c] \in Call /\ Key(c) \in Keys
    BY IdFacts DEF Key, Call
  <2>2. \E r \in Call : calls' = [calls EXCEPT ![c] = r]
    <3>1. CASE Cached(Key(c))
      <4>1. calls' = [calls EXCEPT ![c] = [calls[c] EXCEPT !.pc = "charge", !.source = history[Key(c)], !.event = 0]]
        BY <1>3, <3>1, IdFacts DEF Look, Cached, ServeCached
      <4>2. ([calls[c] EXCEPT !.pc = "charge", !.source = history[Key(c)], !.event = 0]) \in Call
        BY <2>1, FieldsTyped, IdFacts DEF Steps, Replies, Calls
      <4> QED
        BY <4>1, <4>2
    <3>2. CASE ~Cached(Key(c)) /\ pending[Key(c)] # 0
      <4>1. calls' = [calls EXCEPT ![c] = [calls[c] EXCEPT !.pc = "wait", !.event = pending[Key(c)]]]
        BY <1>3, <3>2, IdFacts DEF Look, Cached, ServeCached
      <4>2. ([calls[c] EXCEPT !.pc = "wait", !.event = pending[Key(c)]]) \in Call
        BY <2>1, FieldsTyped, IdFacts DEF Steps, Replies, Calls
      <4> QED
        BY <4>1, <4>2
    <3>3. CASE ~Cached(Key(c)) /\ pending[Key(c)] = 0
      <4>1. calls' = [calls EXCEPT ![c] = [calls[c] EXCEPT !.pc = "budget"]]
        BY <1>3, <3>3, IdFacts DEF Look, Cached, ServeCached
      <4>2. ([calls[c] EXCEPT !.pc = "budget"]) \in Call
        BY <2>1, FieldsTyped, IdFacts DEF Steps, Replies, Calls
      <4> QED
        BY <4>1, <4>2
    <3> QED
      BY <3>1, <3>2, <3>3, <1>3 DEF Look, Cached, ServeCached
  <2>3. calls' \in [Id -> Call]
    BY <2>2, IdFacts
  <2>4. calls' \in Seq(Call) /\ Len(calls') = Len(calls) /\ Id' = Id
    BY <2>3, CallsTyped
  <2>5. UNCHANGED <<run, mode, batch, lookup, history, counts>> /\ pending' \in [Keys -> Id \cup {0}]
    BY <1>3, <2>1 DEF Look, Cached, ServeCached, cache, driver
  <2> QED
    BY <2>4, <2>5
<1>4. ASSUME NEW c \in Id, WaitEnds(c) PROVE TypeOK'
  <2>1. calls[c] \in Call /\ Key(c) \in Keys
    BY IdFacts DEF Key, Call
  <2>2. \E r \in Call : calls' = [calls EXCEPT ![c] = r]
    <3>1. CASE Cached(Key(c))
      <4>1. calls' = [calls EXCEPT ![c] = [calls[c] EXCEPT !.pc = "charge", !.source = history[Key(c)], !.event = 0]]
        BY <1>4, <3>1, IdFacts DEF WaitEnds, Recheck, Cached, ServeCached
      <4>2. ([calls[c] EXCEPT !.pc = "charge", !.source = history[Key(c)], !.event = 0]) \in Call
        BY <2>1, FieldsTyped, IdFacts DEF Steps, Replies, Calls
      <4> QED
        BY <4>1, <4>2
    <3>2. CASE ~Cached(Key(c))
      <4>1. calls' = [calls EXCEPT ![c] = [calls[c] EXCEPT !.pc = "budget", !.lapsed = TRUE, !.event = 0]]
        BY <1>4, <3>2, IdFacts DEF WaitEnds, Recheck, Cached, ServeCached
      <4>2. ([calls[c] EXCEPT !.pc = "budget", !.lapsed = TRUE, !.event = 0]) \in Call
        BY <2>1, FieldsTyped, IdFacts DEF Steps, Replies, Calls
      <4> QED
        BY <4>1, <4>2
    <3> QED
      BY <3>1, <3>2, <1>4 DEF WaitEnds, Recheck, Cached, ServeCached
  <2>3. calls' \in [Id -> Call]
    BY <2>2, IdFacts
  <2>4. calls' \in Seq(Call) /\ Len(calls') = Len(calls) /\ Id' = Id
    BY <2>3, CallsTyped
  <2>5. UNCHANGED <<run, mode, batch, lookup, history, counts>> /\ pending' \in [Keys -> Id \cup {0}]
    BY <1>4, <2>1 DEF WaitEnds, Recheck, Cached, ServeCached, cache, driver
  <2> QED
    BY <2>4, <2>5
<1>5. ASSUME NEW c \in Id, WaitTimesOut(c) PROVE TypeOK'
  <2>1. calls[c] \in Call /\ Key(c) \in Keys
    BY IdFacts DEF Key, Call
  <2>2. \E r \in Call : calls' = [calls EXCEPT ![c] = r]
    <3>1. CASE Cached(Key(c))
      <4>1. calls' = [calls EXCEPT ![c] = [calls[c] EXCEPT !.pc = "charge", !.source = history[Key(c)], !.event = 0]]
        BY <1>5, <3>1, IdFacts DEF WaitTimesOut, Recheck, Cached, ServeCached
      <4>2. ([calls[c] EXCEPT !.pc = "charge", !.source = history[Key(c)], !.event = 0]) \in Call
        BY <2>1, FieldsTyped, IdFacts DEF Steps, Replies, Calls
      <4> QED
        BY <4>1, <4>2
    <3>2. CASE ~Cached(Key(c))
      <4>1. calls' = [calls EXCEPT ![c] = [calls[c] EXCEPT !.pc = "budget", !.lapsed = TRUE, !.event = 0]]
        BY <1>5, <3>2, IdFacts DEF WaitTimesOut, Recheck, Cached, ServeCached
      <4>2. ([calls[c] EXCEPT !.pc = "budget", !.lapsed = TRUE, !.event = 0]) \in Call
        BY <2>1, FieldsTyped, IdFacts DEF Steps, Replies, Calls
      <4> QED
        BY <4>1, <4>2
    <3> QED
      BY <3>1, <3>2, <1>5 DEF WaitTimesOut, Recheck, Cached, ServeCached
  <2>3. calls' \in [Id -> Call]
    BY <2>2, IdFacts
  <2>4. calls' \in Seq(Call) /\ Len(calls') = Len(calls) /\ Id' = Id
    BY <2>3, CallsTyped
  <2>5. UNCHANGED <<run, mode, batch, lookup, history, counts>> /\ pending' \in [Keys -> Id \cup {0}]
    BY <1>5, <2>1 DEF WaitTimesOut, Recheck, Cached, ServeCached, cache, driver
  <2> QED
    BY <2>4, <2>5
<1>6. ASSUME NEW c \in Id, Budget(c) PROVE TypeOK'
  <2>0. calls[c].reply \in Replies
    BY IdFacts DEF Call
  <2>1. calls[c] \in Call /\ Key(c) \in Keys
    BY IdFacts DEF Key, Call
  <2>2. \E r \in Call : calls' = [calls EXCEPT ![c] = r]
    <3>1. CASE counts[Tool(c)] + 1 > HardLimit
      <4>1. calls' = [calls EXCEPT ![c] = [calls[c] EXCEPT !.pc = "release", !.reply = "paused"]]
        BY <1>6, <3>1, IdFacts DEF Budget, ChargeTo
      <4>2. ([calls[c] EXCEPT !.pc = "release", !.reply = "paused"]) \in Call
        BY <2>1, FieldsTyped, IdFacts DEF Steps, Replies, Calls
      <4> QED
        BY <4>1, <4>2
    <3>2. CASE ~(counts[Tool(c)] + 1 > HardLimit)
      <4>1. calls' = [calls EXCEPT ![c] = [calls[c] EXCEPT !.pc = "fetch", !.reply = calls[c].reply]]
        BY <1>6, <3>2, IdFacts DEF Budget, ChargeTo
      <4>2. ([calls[c] EXCEPT !.pc = "fetch", !.reply = calls[c].reply]) \in Call
        BY <2>1, FieldsTyped, IdFacts, <2>0 DEF Steps, Replies, Calls
      <4> QED
        BY <4>1, <4>2
    <3> QED
      BY <3>1, <3>2, <1>6 DEF Budget, ChargeTo
  <2>3. calls' \in [Id -> Call]
    BY <2>2, IdFacts
  <2>4. calls' \in Seq(Call) /\ Len(calls') = Len(calls) /\ Id' = Id
    BY <2>3, CallsTyped
  <2>5. UNCHANGED <<run, mode, batch, lookup, history, pending>>
    BY <1>6 DEF Budget, ChargeTo, cache, driver
  <2>6. counts' = [counts EXCEPT ![Tool(c)] = @ + 1]
    BY <1>6 DEF Budget, ChargeTo
  <2>7. counts' \in [Tools -> Nat]
    BY <2>1, <2>6 DEF Tool, Keys, Key
  <2> QED
    BY <2>4, <2>5, <2>7
<1>7. ASSUME NEW c \in Id, ChargeDuplicate(c) PROVE TypeOK'
  <2>1. calls[c] \in Call /\ Key(c) \in Keys
    BY IdFacts DEF Key, Call
  <2>2. \E r \in Call : calls' = [calls EXCEPT ![c] = r]
    <3>1. CASE counts[Tool(c)] + 1 > HardLimit
      <4>1. calls' = [calls EXCEPT ![c] = [calls[c] EXCEPT !.pc = "done", !.reply = "paused"]]
        BY <1>7, <3>1, IdFacts DEF ChargeDuplicate, ChargeTo
      <4>2. ([calls[c] EXCEPT !.pc = "done", !.reply = "paused"]) \in Call
        BY <2>1, FieldsTyped, IdFacts DEF Steps, Replies, Calls
      <4> QED
        BY <4>1, <4>2
    <3>2. CASE ~(counts[Tool(c)] + 1 > HardLimit)
      <4>1. calls' = [calls EXCEPT ![c] = [calls[c] EXCEPT !.pc = "done", !.reply = "cached"]]
        BY <1>7, <3>2, IdFacts DEF ChargeDuplicate, ChargeTo
      <4>2. ([calls[c] EXCEPT !.pc = "done", !.reply = "cached"]) \in Call
        BY <2>1, FieldsTyped, IdFacts DEF Steps, Replies, Calls
      <4> QED
        BY <4>1, <4>2
    <3> QED
      BY <3>1, <3>2, <1>7 DEF ChargeDuplicate, ChargeTo
  <2>3. calls' \in [Id -> Call]
    BY <2>2, IdFacts
  <2>4. calls' \in Seq(Call) /\ Len(calls') = Len(calls) /\ Id' = Id
    BY <2>3, CallsTyped
  <2>5. UNCHANGED <<run, mode, batch, lookup, history, pending>>
    BY <1>7 DEF ChargeDuplicate, ChargeTo, cache, driver
  <2>6. counts' = [counts EXCEPT ![Tool(c)] = @ + 1]
    BY <1>7 DEF ChargeDuplicate, ChargeTo
  <2>7. counts' \in [Tools -> Nat]
    BY <2>1, <2>6 DEF Tool, Keys, Key
  <2> QED
    BY <2>4, <2>5, <2>7
<1>8. ASSUME NEW c \in Id, Release(c) PROVE TypeOK'
  <2>1. PICK q \in Replies : EndsAndReleases(c, q)
    BY <1>8 DEF Release, Replies
  <2>2. calls' \in Seq(Call) /\ Len(calls') = Len(calls) /\ Id' = Id /\ pending' \in [Keys -> Id \cup {0}]
    BY <2>1, EndTyped
  <2>3. UNCHANGED <<run, mode, batch, lookup, counts>> /\ history' \in [Keys -> Id \cup {0}]
    BY <1>8 DEF Release, driver
  <2> QED
    BY <2>2, <2>3
<1>9. ASSUME NEW c \in Id, Fetch(c) PROVE TypeOK'
  <2>1. calls' \in [Id -> Call]
    BY <1>9, IdFacts, FieldsTyped, ZenonT(60) DEF Fetch, Steps, Answers, Replies
  <2>2. calls' \in Seq(Call) /\ Len(calls') = Len(calls) /\ Id' = Id
    BY <2>1, CallsTyped
  <2>3. UNCHANGED <<run, mode, batch, lookup, history, pending, counts>>
    BY <1>9 DEF Fetch, cache, driver
  <2> QED
    BY <2>2, <2>3
<1>10. ASSUME NEW c \in Id, Succeed(c) PROVE TypeOK'
  <2>1. PICK q \in Replies : EndsAndReleases(c, q)
    BY <1>10 DEF Succeed, Replies
  <2>2. calls' \in Seq(Call) /\ Len(calls') = Len(calls) /\ Id' = Id /\ pending' \in [Keys -> Id \cup {0}]
    BY <2>1, EndTyped
  <2>3. UNCHANGED <<run, mode, batch, lookup, counts>> /\ history' \in [Keys -> Id \cup {0}]
    BY <1>10 DEF Succeed, driver
  <2> QED
    BY <2>2, <2>3
<1>11. ASSUME NEW c \in Id, Fail(c) PROVE TypeOK'
  <2>1. PICK q \in Replies : EndsAndReleases(c, q)
    BY <1>11 DEF Fail, Replies
  <2>2. calls' \in Seq(Call) /\ Len(calls') = Len(calls) /\ Id' = Id /\ pending' \in [Keys -> Id \cup {0}]
    BY <2>1, EndTyped
  <2>3. UNCHANGED <<run, mode, batch, lookup, counts>> /\ history' \in [Keys -> Id \cup {0}]
    BY <1>11 DEF Fail, driver
  <2> QED
    BY <2>2, <2>3
<1>12. ASSUME Collect PROVE TypeOK'
  <2>1. batch # <<>> /\ batch \in Seq(Id) /\ mode \in {"inline", "pool"}
    BY <1>12 DEF Collect
  <2>2. Head(batch) \in Id /\ Tail(batch) \in Seq(Id) /\ (Tail(batch) = <<>>) = (Len(batch) = 1)
    BY <2>1, TailTyped
  <2>3. \A c \in Id : calls[c] \in Call /\ calls[c].reply \in Answers /\ calls[c].pc \in Steps
    BY IdFacts DEF Call, Answers
  <2>4. \A c \in Id, a \in Answers : Answered(c, a)[c] \in Call /\ Answered(c, a) \in [Id -> Call]
    <3>1. ASSUME NEW c \in Id, NEW a \in Answers PROVE Answered(c, a)[c] \in Call /\ Answered(c, a) \in [Id -> Call]
      <4>1. \A p \in Steps : [calls[c] EXCEPT !.answer = a, !.pc = p] \in Call
        BY <2>3, FieldsTyped
      <4> DEFINE r == [calls[c] EXCEPT !.answer = a, !.pc = IF @ = "queued" THEN "dropped" ELSE @]
      <4>2. r \in Call
        BY <2>3, <4>1 DEF Steps
      <4>3. Answered(c, a) = [calls EXCEPT ![c] = r]
        BY IdFacts DEF Answered
      <4> HIDE DEF r
      <4> QED
        BY <4>2, <4>3, IdFacts
    <3> QED
      BY <3>1
  <2>5. calls' \in [Id -> Call]
    <3>1. CASE calls[Head(batch)].reply = "cancelled"
      BY <1>12, <2>3, <2>4, <3>1 DEF Collect, Answers, Replies
    <3>2. CASE calls[Head(batch)].reply # "cancelled"
      BY <1>12, <2>2, <2>3, <2>4, <3>2 DEF Collect
    <3> QED
      BY <3>1, <3>2
  <2>6. calls' \in Seq(Call) /\ Len(calls') = Len(calls) /\ Id' = Id
    BY <2>5, CallsTyped
  <2>7. batch' \in Seq(Id) /\ mode' \in {"model", "inline", "pool", "raised"}
        /\ (batch' = <<>>) = (mode' \in {"model", "raised"})
    <3>1. CASE calls[Head(batch)].reply = "cancelled"
      BY <1>12, <3>1 DEF Collect
    <3>2. CASE calls[Head(batch)].reply # "cancelled"
      BY <1>12, <2>1, <2>2, <3>2 DEF Collect, Advance
    <3> QED
      BY <3>1, <3>2
  <2>8. UNCHANGED <<run, cache, counts, lookup>>
    BY <1>12 DEF Collect
  <2> QED
    BY <2>6, <2>7, <2>8 DEF cache
<1>13. ASSUME GiveUpOn PROVE TypeOK'
  <2>1. batch # <<>> /\ batch \in Seq(Id) /\ mode = "pool"
    BY <1>13 DEF GiveUpOn
  <2>2. Head(batch) \in Id /\ Tail(batch) \in Seq(Id) /\ (Tail(batch) = <<>>) = (Len(batch) = 1)
    BY <2>1, TailTyped
  <2> DEFINE c == Head(batch)
             r == [calls[c] EXCEPT !.answer = "timeout", !.pc = IF @ = "queued" THEN "dropped" ELSE @]
  <2>3. r \in Call
    <3>1. calls[c] \in Call /\ calls[c].pc \in Steps
      BY <2>2, IdFacts DEF Call
    <3> QED
      BY <3>1, FieldsTyped DEF Steps, Answers
  <2>4. calls' = [calls EXCEPT ![c] = r]
    BY <1>13, <2>2, IdFacts DEF GiveUpOn, Answered
  <2> HIDE DEF r
  <2>5. calls' \in [Id -> Call]
    BY <2>2, <2>3, <2>4, IdFacts
  <2>6. calls' \in Seq(Call) /\ Len(calls') = Len(calls) /\ Id' = Id
    BY <2>5, CallsTyped
  <2>7. batch' \in Seq(Id) /\ mode' \in {"model", "pool"} /\ (batch' = <<>>) = (mode' = "model")
    BY <1>13, <2>1, <2>2 DEF GiveUpOn, Advance
  <2>8. UNCHANGED <<run, cache, counts, lookup>>
    BY <1>13 DEF GiveUpOn
  <2> QED
    BY <2>6, <2>7, <2>8 DEF cache
<1>14. ASSUME Manage PROVE TypeOK'
  BY <1>14 DEF Manage, cache, driver
<1>15. ASSUME NewRun PROVE TypeOK'
  <2>1. run' \in 1 .. MaxRuns /\ mode' = "model" /\ UNCHANGED <<batch, calls, lookup>>
    BY <1>15 DEF NewRun
  <2>2. history' \in [Keys -> Id \cup {0}] /\ pending' \in [Keys -> Id \cup {0}] /\ counts' \in [Tools -> Nat]
    BY <1>15 DEF NewRun
  <2>3. mode \in {"model", "raised"}
    BY <1>15 DEF NewRun
  <2> QED
    BY <2>1, <2>2, <2>3
<1>16. ASSUME UNCHANGED vars PROVE TypeOK'
  BY <1>16 DEF vars, cache, driver
<1> HIDE DEF DispatchInv, TypeOK, Id, At
<1> QED
  BY <1>1, <1>2, <1>3, <1>4, <1>5, <1>6, <1>7, <1>8, <1>9, <1>10, <1>11, <1>12, <1>13, <1>14, <1>15, <1>16
  DEF Next, Invoke
-------------------------------------------------------------------------------
(***************************************************************************)
(* What a step of one call changes, whichever it is.                       *)
(***************************************************************************)

\* The call goes on; the others stay as they are, but for those it wakes.
Moves(c) ==
    /\ UNCHANGED driver /\ Id' = Id
    /\ ~Finished(c) /\ (calls'[c].pc = "done" => calls'[c].reply # "none")
    /\ \A d \in Id : /\ calls'[d].key = calls[d].key /\ calls'[d].run = calls[d].run
                     /\ calls'[d].answer = calls[d].answer
                     /\ calls[d].lapsed => calls'[d].lapsed
    /\ \A d \in Id \ {c} : \/ calls'[d] = calls[d]
                           \/ /\ calls[d].pc = "wait" /\ calls'[d].pc = "woken"
                              /\ calls'[d].reply = calls[d].reply
                              /\ calls'[d].source = calls[d].source

LEMMA StepMoves ==
    ASSUME TypeOK, NEW c \in Id, Start(c) \/ Invoke(c)
    PROVE  Moves(c)
<1>1. \A d \in Id : calls[d] \in Call
  BY IdFacts
<1>2. calls \in [Id -> Call] /\ Id = 1 .. Len(calls)
  BY IdFacts
<1> DEFINE Fields(d) == /\ calls'[d].key = calls[d].key /\ calls'[d].run = calls[d].run
                        /\ calls'[d].answer = calls[d].answer
                        /\ (calls[d].lapsed => calls'[d].lapsed)
           Other(d) == \/ calls'[d] = calls[d]
                       \/ /\ calls[d].pc = "wait" /\ calls'[d].pc = "woken"
                          /\ calls'[d].reply = calls[d].reply
                          /\ calls'[d].source = calls[d].source
           Goal == /\ UNCHANGED driver /\ Id' = Id
                   /\ ~Finished(c) /\ (calls'[c].pc = "done" => calls'[c].reply # "none")
                   /\ \A d \in Id : Fields(d)
                   /\ \A d \in Id \ {c} : Other(d)
<1>3. ASSUME Start(c) PROVE Goal
  <2>1. UNCHANGED driver /\ ~Finished(c)
    BY <1>3 DEF Start, Finished, At
  <2>2. Id' = Id
    BY <1>3, <1>2 DEF Start, Id
  <2>3. calls'[c].pc = "done" => calls'[c].reply # "none"
    BY <1>3, <1>1, <1>2 DEF Start, At, Call
  <2>4. \A d \in Id : Fields(d)
    BY <1>3, <1>1, <1>2 DEF Start, Call
  <2>5. \A d \in Id \ {c} : Other(d)
    BY <1>3, <1>1, <1>2 DEF Start, At, Call
  <2> QED
    BY <2>1, <2>2, <2>3, <2>4, <2>5
<1>4. ASSUME Look(c) PROVE Goal
  <2>1. UNCHANGED driver /\ ~Finished(c)
    BY <1>4 DEF Look, Cached, ServeCached, Finished, At
  <2>2. Id' = Id
    BY <1>4, <1>2 DEF Look, Cached, ServeCached, Id
  <2>3. calls'[c].pc = "done" => calls'[c].reply # "none"
    BY <1>4, <1>1, <1>2 DEF Look, Cached, ServeCached, At, Call
  <2>4. \A d \in Id : Fields(d)
    BY <1>4, <1>1, <1>2 DEF Look, Cached, ServeCached, Call
  <2>5. \A d \in Id \ {c} : Other(d)
    BY <1>4, <1>1, <1>2 DEF Look, Cached, ServeCached, At, Call
  <2> QED
    BY <2>1, <2>2, <2>3, <2>4, <2>5
<1>5. ASSUME WaitEnds(c) PROVE Goal
  <2>1. UNCHANGED driver /\ ~Finished(c)
    BY <1>5 DEF WaitEnds, Recheck, Cached, ServeCached, Finished, At
  <2>2. Id' = Id
    BY <1>5, <1>2 DEF WaitEnds, Recheck, Cached, ServeCached, Id
  <2>3. calls'[c].pc = "done" => calls'[c].reply # "none"
    BY <1>5, <1>1, <1>2 DEF WaitEnds, Recheck, Cached, ServeCached, At, Call
  <2>4. \A d \in Id : Fields(d)
    BY <1>5, <1>1, <1>2, SMTT(40) DEF WaitEnds, Recheck, Cached, ServeCached, Call
  <2>5. \A d \in Id \ {c} : Other(d)
    BY <1>5, <1>1, <1>2 DEF WaitEnds, Recheck, Cached, ServeCached, At, Call
  <2> QED
    BY <2>1, <2>2, <2>3, <2>4, <2>5
<1>6. ASSUME WaitTimesOut(c) PROVE Goal
  <2>1. UNCHANGED driver /\ ~Finished(c)
    BY <1>6 DEF WaitTimesOut, Recheck, Cached, ServeCached, Finished, At
  <2>2. Id' = Id
    BY <1>6, <1>2 DEF WaitTimesOut, Recheck, Cached, ServeCached, Id
  <2>3. calls'[c].pc = "done" => calls'[c].reply # "none"
    BY <1>6, <1>1, <1>2 DEF WaitTimesOut, Recheck, Cached, ServeCached, At, Call
  <2>4. \A d \in Id : Fields(d)
    BY <1>6, <1>1, <1>2, SMTT(40) DEF WaitTimesOut, Recheck, Cached, ServeCached, Call
  <2>5. \A d \in Id \ {c} : Other(d)
    BY <1>6, <1>1, <1>2 DEF WaitTimesOut, Recheck, Cached, ServeCached, At, Call
  <2> QED
    BY <2>1, <2>2, <2>3, <2>4, <2>5
<1>7. ASSUME Budget(c) PROVE Goal
  <2>1. UNCHANGED driver /\ ~Finished(c)
    BY <1>7 DEF Budget, ChargeTo, Finished, At
  <2>2. Id' = Id
    BY <1>7, <1>2 DEF Budget, ChargeTo, Id
  <2>3. calls'[c].pc = "done" => calls'[c].reply # "none"
    BY <1>7, <1>1, <1>2 DEF Budget, ChargeTo, At, Call
  <2>4. \A d \in Id : Fields(d)
    BY <1>7, <1>1, <1>2 DEF Budget, ChargeTo, Call
  <2>5. \A d \in Id \ {c} : Other(d)
    BY <1>7, <1>1, <1>2 DEF Budget, ChargeTo, At, Call
  <2> QED
    BY <2>1, <2>2, <2>3, <2>4, <2>5
<1>8. ASSUME ChargeDuplicate(c) PROVE Goal
  <2>1. UNCHANGED driver /\ ~Finished(c)
    BY <1>8 DEF ChargeDuplicate, ChargeTo, Finished, At
  <2>2. Id' = Id
    BY <1>8, <1>2 DEF ChargeDuplicate, ChargeTo, Id
  <2>3. calls'[c].pc = "done" => calls'[c].reply # "none"
    BY <1>8, <1>1, <1>2 DEF ChargeDuplicate, ChargeTo, At, Call
  <2>4. \A d \in Id : Fields(d)
    BY <1>8, <1>1, <1>2 DEF ChargeDuplicate, ChargeTo, Call
  <2>5. \A d \in Id \ {c} : Other(d)
    BY <1>8, <1>1, <1>2 DEF ChargeDuplicate, ChargeTo, At, Call
  <2> QED
    BY <2>1, <2>2, <2>3, <2>4, <2>5
<1>9. ASSUME Release(c) PROVE Goal
  <2>1. UNCHANGED driver /\ ~Finished(c)
    BY <1>9 DEF Release, EndsAndReleases, Finished, At
  <2>2. Id' = Id
    BY <1>9, <1>2 DEF Release, EndsAndReleases, Id
  <2>3. calls'[c].pc = "done" => calls'[c].reply # "none"
    BY <1>9, <1>1, <1>2 DEF Release, EndsAndReleases, At, Call
  <2>4. \A d \in Id : Fields(d)
    BY <1>9, <1>1, <1>2, ZenonT(60) DEF Release, EndsAndReleases, Call
  <2>5. \A d \in Id \ {c} : Other(d)
    BY <1>9, <1>1, <1>2 DEF Release, EndsAndReleases, At, Call
  <2> QED
    BY <2>1, <2>2, <2>3, <2>4, <2>5
<1>10. ASSUME Fetch(c) PROVE Goal
  <2>1. UNCHANGED driver /\ ~Finished(c)
    BY <1>10 DEF Fetch, Finished, At
  <2>2. Id' = Id
    BY <1>10, <1>2 DEF Fetch, Id
  <2>3. calls'[c].pc = "done" => calls'[c].reply # "none"
    BY <1>10, <1>1, <1>2 DEF Fetch, At, Call
  <2>4. \A d \in Id : Fields(d)
    BY <1>10, <1>1, <1>2 DEF Fetch, Call
  <2>5. \A d \in Id \ {c} : Other(d)
    BY <1>10, <1>1, <1>2 DEF Fetch, At, Call
  <2> QED
    BY <2>1, <2>2, <2>3, <2>4, <2>5
<1>11. ASSUME Succeed(c) PROVE Goal
  <2>1. UNCHANGED driver /\ ~Finished(c)
    BY <1>11 DEF Succeed, EndsAndReleases, Finished, At
  <2>2. Id' = Id
    BY <1>11, <1>2 DEF Succeed, EndsAndReleases, Id
  <2>3. calls'[c].pc = "done" => calls'[c].reply # "none"
    BY <1>11, <1>1, <1>2 DEF Succeed, EndsAndReleases, At, Call
  <2>4. \A d \in Id : Fields(d)
    BY <1>11, <1>1, <1>2, ZenonT(60) DEF Succeed, EndsAndReleases, Call
  <2>5. \A d \in Id \ {c} : Other(d)
    BY <1>11, <1>1, <1>2 DEF Succeed, EndsAndReleases, At, Call
  <2> QED
    BY <2>1, <2>2, <2>3, <2>4, <2>5
<1>12. ASSUME Fail(c) PROVE Goal
  <2>0. PICK q \in Replies : EndsAndReleases(c, q) /\ q # "none"
    BY <1>12 DEF Fail, Replies
  <2>1. UNCHANGED driver /\ ~Finished(c)
    BY <1>12 DEF Fail, EndsAndReleases, Finished, At
  <2>2. Id' = Id
    BY <2>0, <1>2 DEF EndsAndReleases, Id
  <2>3. calls'[c].pc = "done" => calls'[c].reply # "none"
    BY <2>0, <1>1, <1>2 DEF EndsAndReleases, At, Call
  <2>4. \A d \in Id : Fields(d)
    BY <2>0, <1>1, <1>2, ZenonT(60) DEF EndsAndReleases, Call
  <2>5. \A d \in Id \ {c} : Other(d)
    BY <2>0, <1>1, <1>2 DEF EndsAndReleases, At, Call
  <2> QED
    BY <2>1, <2>2, <2>3, <2>4, <2>5
<1>13. Goal
  <2> HIDE DEF Goal
  <2> QED
    BY <1>3, <1>4, <1>5, <1>6, <1>7, <1>8, <1>9, <1>10, <1>11, <1>12 DEF Invoke
<1> QED
  BY <1>13 DEF Moves

\* The driver answers calls of its batch, and leaves them and all others as
\* they are but for that.
Settles ==
    /\ UNCHANGED <<run, cache, counts, lookup>> /\ Id' = Id
    /\ ToSet(batch') \subseteq ToSet(batch)
    /\ \A i, j \in DOMAIN batch' : batch'[i] = batch'[j] => i = j
    /\ \A d \in Id : /\ calls'[d].key = calls[d].key /\ calls'[d].run = calls[d].run
                     /\ calls'[d].lapsed = calls[d].lapsed /\ calls'[d].source = calls[d].source
                     /\ calls'[d].event = calls[d].event /\ calls'[d].reply = calls[d].reply
                     /\ calls'[d].pc # calls[d].pc => calls[d].pc = "queued" /\ calls'[d].pc = "dropped"
    /\ \A d \in Id : d \in ToSet(batch') \/ d \notin ToSet(batch) => calls'[d] = calls[d]
    /\ \A d \in ToSet(batch) \ ToSet(batch') :
          /\ calls'[d].answer # "none"
          /\ \/ calls'[d].answer \in {"timeout", "cancelled"}
             \/ calls'[d].pc = "done" /\ calls'[d].answer = calls'[d].reply

\* The head of a batch without repetitions is not in the rest.
LEMMA RestOfBatch ==
    ASSUME NEW S, NEW b \in Seq(S), b # <<>>,
           \A i, j \in DOMAIN b : b[i] = b[j] => i = j
    PROVE  /\ ToSet(b) = {Head(b)} \cup ToSet(Tail(b)) /\ Head(b) \notin ToSet(Tail(b))
           /\ \A i, j \in DOMAIN Tail(b) : Tail(b)[i] = Tail(b)[j] => i = j
           /\ ToSet(b) \subseteq S /\ ToSet(Tail(b)) \subseteq S
<1> DEFINE n == Len(b)
           r == Tail(b)
<1>1. /\ n \in Nat /\ n >= 1 /\ DOMAIN b = 1 .. n /\ DOMAIN r = 1 .. n - 1 /\ Head(b) = b[1]
      /\ \A i \in 1 .. n - 1 : i + 1 \in 1 .. n /\ r[i] = b[i + 1]
      /\ \A i \in 1 .. n : b[i] \in S
  <2>1. n \in Nat /\ n # 0 /\ DOMAIN b = 1 .. n /\ Len(r) = n - 1 /\ DOMAIN r = 1 .. Len(r) /\ Head(b) = b[1]
    BY TailTyped
  <2>2. \A i \in 1 .. Len(r) : i + 1 \in 1 .. n /\ r[i] = b[i + 1]
    BY TailTyped
  <2>3. \A i \in 1 .. n : b[i] \in S
    BY <2>1
  <2> QED
    BY <2>1, <2>2, <2>3
<1> HIDE DEF n, r
<1>2. ToSet(b) = {b[i] : i \in 1 .. n} /\ ToSet(r) = {r[i] : i \in 1 .. n - 1}
  BY <1>1 DEF ToSet
<1>3. \A i \in 1 .. n : i = 1 \/ (i - 1 \in 1 .. n - 1 /\ b[i] = r[i - 1])
  BY <1>1
<1>4. ToSet(b) \subseteq {Head(b)} \cup ToSet(r)
  <2>1. ASSUME NEW x \in ToSet(b) PROVE x \in {Head(b)} \cup ToSet(r)
    <3>1. PICK i \in 1 .. n : x = b[i]
      BY <1>2
    <3>2. CASE i = 1
      BY <1>1, <3>1, <3>2
    <3>3. CASE i # 1
      BY <1>2, <1>3, <3>1, <3>3
    <3> QED
      BY <3>2, <3>3
  <2> QED
    BY <2>1
<1>5. {Head(b)} \cup ToSet(r) \subseteq ToSet(b)
  <2>1. Head(b) \in ToSet(b)
    BY <1>1, <1>2
  <2>2. ToSet(r) \subseteq ToSet(b)
    BY <1>1, <1>2
  <2> QED
    BY <2>1, <2>2
<1>6. Head(b) \notin ToSet(r)
  <2>1. ASSUME NEW i \in 1 .. n - 1, r[i] = b[1] PROVE FALSE
    <3>1. i + 1 = 1
      BY <1>1, <2>1
    <3> QED
      BY <1>1, <3>1
  <2> QED
    BY <1>1, <1>2, <2>1
<1>7. \A i, j \in DOMAIN r : r[i] = r[j] => i = j
  <2>1. ASSUME NEW i \in 1 .. n - 1, NEW j \in 1 .. n - 1, r[i] = r[j] PROVE i = j
    <3>1. i + 1 = j + 1
      BY <1>1, <2>1, SMTT(40)
    <3> QED
      BY <1>1, <3>1
  <2> QED
    BY <1>1, <2>1
<1>8. ToSet(b) \subseteq S
  BY <1>1, <1>2
<1> QED
  BY <1>4, <1>5, <1>6, <1>7, <1>8 DEF r

LEMMA DriverSettles ==
    ASSUME TypeOK, Driven, Collect \/ GiveUpOn
    PROVE  Settles
<1> DEFINE h == Head(batch)
<1>1. batch # <<>> /\ batch \in Seq(Id)
  BY DEF Collect, GiveUpOn, TypeOK
<1>2. /\ h \in Id /\ ToSet(batch) = {h} \cup ToSet(Tail(batch)) /\ h \notin ToSet(Tail(batch))
      /\ \A i, j \in DOMAIN Tail(batch) : Tail(batch)[i] = Tail(batch)[j] => i = j
      /\ ToSet(batch) \subseteq Id /\ ToSet(Tail(batch)) \subseteq Id
  BY <1>1, RestOfBatch, TailTyped DEF Driven
<1>3. \A d \in Id : calls[d] \in Call
  BY IdFacts
<1>4. calls \in [Id -> Call] /\ Id = 1 .. Len(calls)
  BY IdFacts
<1>5. UNCHANGED <<run, cache, counts, lookup>>
  BY DEF Collect, GiveUpOn
<1> HIDE DEF h
\* The head alone has its answer.
<1>6. ASSUME NEW a, a \in {"timeout"} \/ (a = calls[h].reply /\ calls[h].pc = "done" /\ a # "none"),
             calls' = Answered(h, a), batch' = Tail(batch)
      PROVE  Settles
  <2>1. Id' = Id
    BY <1>4, <1>6 DEF Answered, Id
  <2>2. \A d \in Id \ {h} : calls'[d] = calls[d]
    BY <1>4, <1>6 DEF Answered
  <2>3. calls'[h] = [calls[h] EXCEPT !.answer = a, !.pc = IF @ = "queued" THEN "dropped" ELSE @]
    BY <1>2, <1>4, <1>6 DEF Answered
  <2>4. /\ calls'[h].key = calls[h].key /\ calls'[h].run = calls[h].run
        /\ calls'[h].lapsed = calls[h].lapsed /\ calls'[h].source = calls[h].source
        /\ calls'[h].event = calls[h].event /\ calls'[h].reply = calls[h].reply
        /\ calls'[h].answer = a
        /\ calls'[h].pc = IF calls[h].pc = "queued" THEN "dropped" ELSE calls[h].pc
    BY <1>2, <1>3, <2>3 DEF Call
  <2>5. ToSet(batch') \subseteq ToSet(batch) /\ ToSet(batch) \ ToSet(batch') = {h}
    BY <1>2, <1>6
  <2>6. \A i, j \in DOMAIN batch' : batch'[i] = batch'[j] => i = j
    BY <1>2, <1>6
  <2>7. \A d \in Id : /\ calls'[d].key = calls[d].key /\ calls'[d].run = calls[d].run
                      /\ calls'[d].lapsed = calls[d].lapsed /\ calls'[d].source = calls[d].source
                      /\ calls'[d].event = calls[d].event /\ calls'[d].reply = calls[d].reply
                      /\ calls'[d].pc # calls[d].pc => calls[d].pc = "queued" /\ calls'[d].pc = "dropped"
    BY <2>2, <2>4
  <2>8. \A d \in Id : d \in ToSet(batch') \/ d \notin ToSet(batch) => calls'[d] = calls[d]
    BY <1>2, <1>6, <2>2
  <2>9. /\ calls'[h].answer # "none"
        /\ \/ calls'[h].answer \in {"timeout", "cancelled"}
           \/ calls'[h].pc = "done" /\ calls'[h].answer = calls'[h].reply
    BY <1>6, <2>4
  <2> QED
    BY <1>5, <2>1, <2>5, <2>6, <2>7, <2>8, <2>9 DEF Settles
<1>7. CASE Collect /\ calls[h].reply # "cancelled"
  <2>1. calls' = Answered(h, calls[h].reply) /\ batch' = Tail(batch) /\ calls[h].pc = "done"
    BY <1>7 DEF Collect, Advance, h
  <2>2. calls[h].reply # "none"
    BY <1>2, <2>1 DEF Driven
  <2> QED
    BY <1>6, <2>1, <2>2
<1>8. CASE Collect /\ calls[h].reply = "cancelled"
  <2>1. calls' = [c \in Id |-> IF c \in ToSet(batch) THEN Answered(c, "cancelled")[c] ELSE calls[c]]
        /\ batch' = <<>>
    BY <1>8 DEF Collect, h
  <2>2. Id' = Id
    BY <1>4, <2>1 DEF Id
  <2>3. \A d \in Id \ ToSet(batch) : calls'[d] = calls[d]
    BY <2>1
  <2>4. \A d \in ToSet(batch) : calls'[d] = [calls[d] EXCEPT !.answer = "cancelled", !.pc = IF @ = "queued" THEN "dropped" ELSE @]
    BY <1>2, <1>4, <2>1 DEF Answered
  <2>5. \A d \in ToSet(batch) :
        /\ calls'[d].key = calls[d].key /\ calls'[d].run = calls[d].run
        /\ calls'[d].lapsed = calls[d].lapsed /\ calls'[d].source = calls[d].source
        /\ calls'[d].event = calls[d].event /\ calls'[d].reply = calls[d].reply
        /\ calls'[d].answer = "cancelled"
        /\ calls'[d].pc = IF calls[d].pc = "queued" THEN "dropped" ELSE calls[d].pc
    <3> SUFFICES ASSUME NEW d \in ToSet(batch)
                 PROVE  /\ calls'[d].key = calls[d].key /\ calls'[d].run = calls[d].run
                        /\ calls'[d].lapsed = calls[d].lapsed /\ calls'[d].source = calls[d].source
                        /\ calls'[d].event = calls[d].event /\ calls'[d].reply = calls[d].reply
                        /\ calls'[d].answer = "cancelled"
                        /\ calls'[d].pc = IF calls[d].pc = "queued" THEN "dropped" ELSE calls[d].pc
      OBVIOUS
    <3>1. calls[d] \in Call
      BY <1>2, <1>3
    <3>2. calls'[d] = [calls[d] EXCEPT !.answer = "cancelled", !.pc = IF @ = "queued" THEN "dropped" ELSE @]
      BY <2>4
    <3> QED
      BY <3>1, <3>2 DEF Call
  <2>6. ToSet(batch') = {} /\ DOMAIN batch' = {}
    BY <2>1 DEF ToSet
  <2>7. \A d \in Id : /\ calls'[d].key = calls[d].key /\ calls'[d].run = calls[d].run
                      /\ calls'[d].lapsed = calls[d].lapsed /\ calls'[d].source = calls[d].source
                      /\ calls'[d].event = calls[d].event /\ calls'[d].reply = calls[d].reply
                      /\ calls'[d].pc # calls[d].pc => calls[d].pc = "queued" /\ calls'[d].pc = "dropped"
    BY <2>3, <2>5
  <2> QED
    BY <1>5, <2>2, <2>3, <2>5, <2>6, <2>7 DEF Settles
<1>9. CASE GiveUpOn
  BY <1>6, <1>9 DEF GiveUpOn, Advance, h
<1> QED
  BY <1>7, <1>8, <1>9

\* A round only adds calls, which are the new batch.
LEMMA RoundAdds ==
    ASSUME TypeOK, NEW n \in 1 .. MaxBatch, NEW keys \in [1 .. n -> Keys], Round(keys)
    PROVE  /\ Id \subseteq Id' /\ \A d \in Id : calls'[d] = calls[d]
           /\ ToSet(batch') = Id' \ Id /\ \A i, j \in DOMAIN batch' : batch'[i] = batch'[j] => i = j
           /\ \A d \in Id' \ Id : \E k \in Keys, p \in BOOLEAN : calls'[d] = Fresh(k, p)
           /\ UNCHANGED <<run, cache, counts>> /\ batch = <<>>
<1> DEFINE s == [i \in DOMAIN keys |-> Fresh(keys[i], Len(keys) > 1)]
<1>1. n \in Nat /\ DOMAIN keys = 1 .. n /\ Len(keys) = n
  BY DispatchAssumption, SeqDef
<1>2. \A i \in 1 .. n : Fresh(keys[i], Len(keys) > 1) \in Call
  BY DEF Fresh, Call, Steps, Replies, Answers, TypeOK
<1>3. s \in Seq(Call) /\ Len(s) = n /\ \A i \in 1 .. n : s[i] = Fresh(keys[i], Len(keys) > 1)
  BY <1>1, <1>2, SeqDef
<1>4. calls' = calls \o s /\ calls \in Seq(Call) /\ batch = <<>>
  BY DEF Round, TypeOK
<1> HIDE DEF s
<1>5. /\ Len(calls') = Len(calls) + n /\ calls' \in Seq(Call)
      /\ \A i \in 1 .. Len(calls) + n : calls'[i] = IF i <= Len(calls) THEN calls[i] ELSE s[i - Len(calls)]
  BY <1>3, <1>4, ConcatProperties
<1>6. Id = 1 .. Len(calls) /\ Id' = 1 .. Len(calls) + n /\ Len(calls) \in Nat
  BY <1>4, <1>5 DEF Id
<1>7. batch' = [i \in 1 .. n |-> Len(calls) + i] /\ UNCHANGED <<run, cache, counts>>
  BY <1>1 DEF Round
<1>8. \A d \in Id : calls'[d] = calls[d]
  BY <1>1, <1>5, <1>6
<1>9. \A d \in Id' \ Id : d - Len(calls) \in 1 .. n /\ calls'[d] = s[d - Len(calls)]
  BY <1>1, <1>5, <1>6
<1>10. \A i \in 1 .. n : keys[i] \in Keys /\ (Len(keys) > 1) \in BOOLEAN
  OBVIOUS
<1>11. \A d \in Id' \ Id : \E k \in Keys, p \in BOOLEAN : calls'[d] = Fresh(k, p)
  <2>1. ASSUME NEW d \in Id' \ Id PROVE \E k \in Keys, p \in BOOLEAN : calls'[d] = Fresh(k, p)
    <3>1. calls'[d] = Fresh(keys[d - Len(calls)], Len(keys) > 1)
      BY <1>3, <1>9
    <3> QED
      BY <1>9, <1>10, <3>1
  <2> QED
    BY <2>1
<1>12. ToSet(batch') = {Len(calls) + i : i \in 1 .. n}
  BY <1>7 DEF ToSet
<1>13. ToSet(batch') = Id' \ Id
  <2>1. \A i \in 1 .. n : Len(calls) + i \in Id' \ Id
    BY <1>1, <1>6
  <2>2. \A d \in Id' \ Id : d = Len(calls) + (d - Len(calls))
    BY <1>1, <1>6
  <2>3. Id' \ Id \subseteq {Len(calls) + i : i \in 1 .. n}
    BY <1>9, <2>2
  <2> QED
    BY <1>12, <2>1, <2>3
<1>14. \A i, j \in DOMAIN batch' : batch'[i] = batch'[j] => i = j
  BY <1>1, <1>6, <1>7
<1>15. Id \subseteq Id'
  BY <1>1, <1>6
<1> QED
  BY <1>4, <1>7, <1>8, <1>11, <1>13, <1>14, <1>15

-------------------------------------------------------------------------------
(***************************************************************************)
(* The driver and the calls: an action is a step of a call, one of the     *)
(* driver, a round, the start of a run, or none of the invariant's matter. *)
(***************************************************************************)
Idle == UNCHANGED <<run, batch, calls, history, pending, counts>>

LEMMA WhoActs ==
    ASSUME DispatchInv, [Next]_vars
    PROVE  \/ \E c \in Id : Start(c) \/ Invoke(c)
           \/ Settles
           \/ \E n \in 1 .. MaxBatch : \E keys \in [1 .. n -> Keys] : Round(keys)
           \/ NewRun
           \/ Idle
<1>1. CASE Collect \/ GiveUpOn
  BY <1>1, DriverSettles DEF DispatchInv
<1>2. CASE Manage \/ UNCHANGED vars
  BY <1>2 DEF Manage, vars, cache, Idle
<1> QED
  BY <1>1, <1>2 DEF Next

LEMMA DrivenStep == DispatchInv /\ [Next]_vars => Driven'
<1> SUFFICES ASSUME DispatchInv, [Next]_vars PROVE Driven'
  OBVIOUS
<1> USE DEF DispatchInv
<1>0. run \in Nat /\ \A d \in Id : calls[d].run \in Nat
  BY IdFacts DEF Call, TypeOK
<1>1. ToSet(batch) \subseteq Id
  BY DEF TypeOK, ToSet
<1>2. ASSUME NEW c \in Id, Start(c) \/ Invoke(c) PROVE Driven'
  <2>1. Moves(c)
    BY <1>2, StepMoves
  <2>2. UNCHANGED <<run, batch>> /\ Id' = Id
    BY <2>1 DEF Moves, driver
  <2>3. \A d \in Id : calls'[d].run = calls[d].run /\ calls'[d].answer = calls[d].answer
    BY <2>1 DEF Moves
  <2>4. \A d \in Id : calls'[d].pc = "done" => calls'[d].reply # "none"
    BY <2>1 DEF Moves, Driven
  <2>5. \A d \in Id : Finished(d) => calls'[d].pc = calls[d].pc /\ calls'[d].reply = calls[d].reply
    BY <2>1 DEF Moves, Finished
  <2>6. \A d \in Id \ ToSet(batch) :
           /\ calls'[d].answer # "none"
           /\ Finished(d)' \/ Abandoned(d)'
    BY <2>3, <2>5 DEF Driven, Finished, Abandoned
  <2>7. \A d \in Id \ ToSet(batch) : calls'[d].answer \in Replies =>
            Abandoned(d)' \/ (calls'[d].pc = "done" /\ calls'[d].answer = calls'[d].reply)
    BY <2>3, <2>5 DEF Driven, Finished, Abandoned
  <2>8. ToSet(batch') = ToSet(batch) /\ DOMAIN batch' = DOMAIN batch
    BY <2>2
  <2> QED
    BY <1>1, <2>2, <2>3, <2>4, <2>6, <2>7, <2>8 DEF Driven
<1>3. CASE Settles
  <2>1. /\ run' = run /\ Id' = Id
        /\ \A i, j \in DOMAIN batch' : batch'[i] = batch'[j] => i = j
    BY <1>3 DEF Settles
  <2>2. \A d \in Id : /\ calls'[d].run <= run'
                      /\ calls'[d].pc = "done" => calls'[d].reply # "none"
    BY <1>3 DEF Settles, Driven
  <2>3. \A d \in ToSet(batch') : calls'[d].answer = "none" /\ calls'[d].run = run'
    BY <1>1, <1>3 DEF Settles, Driven
  <2>4. \A d \in Id \ ToSet(batch) :
            /\ calls'[d].answer # "none"
            /\ Finished(d)' \/ Abandoned(d)'
            /\ calls'[d].answer \in Replies =>
                  Abandoned(d)' \/ (calls'[d].pc = "done" /\ calls'[d].answer = calls'[d].reply)
    BY <1>3 DEF Settles, Driven, Finished, Abandoned
  <2>5. \A d \in ToSet(batch) \ ToSet(batch') :
            /\ calls'[d].answer # "none"
            /\ Finished(d)' \/ Abandoned(d)'
            /\ calls'[d].answer \in Replies =>
                  Abandoned(d)' \/ (calls'[d].pc = "done" /\ calls'[d].answer = calls'[d].reply)
    BY <1>3 DEF Settles, Finished, Abandoned
  <2> QED
    BY <2>1, <2>2, <2>3, <2>4, <2>5 DEF Driven
<1>4. ASSUME NEW n \in 1 .. MaxBatch, NEW keys \in [1 .. n -> Keys], Round(keys) PROVE Driven'
  <2>1. /\ Id \subseteq Id' /\ \A d \in Id : calls'[d] = calls[d]
        /\ ToSet(batch') = Id' \ Id /\ \A i, j \in DOMAIN batch' : batch'[i] = batch'[j] => i = j
        /\ \A d \in Id' \ Id : \E k \in Keys, p \in BOOLEAN : calls'[d] = Fresh(k, p)
        /\ run' = run /\ batch = <<>>
    BY <1>4, RoundAdds
  <2>2. \A d \in Id' \ Id : calls'[d].run = run /\ calls'[d].answer = "none" /\ calls'[d].pc = "queued"
    <3>1. ASSUME NEW d \in Id' \ Id
          PROVE  calls'[d].run = run /\ calls'[d].answer = "none" /\ calls'[d].pc = "queued"
      <4>1. PICK k \in Keys, p \in BOOLEAN : calls'[d] = Fresh(k, p)
        BY <2>1
      <4> QED
        BY <4>1 DEF Fresh
    <3> QED
      BY <3>1
  <2>3. ToSet(batch) = {}
    BY <2>1 DEF ToSet
  <2>4. \A d \in Id' : calls'[d].run <= run' /\ (calls'[d].pc = "done" => calls'[d].reply # "none")
    BY <1>0, <2>1, <2>2 DEF Driven
  <2>5. \A d \in Id' \ ToSet(batch') : d \in Id \ ToSet(batch) /\ calls'[d] = calls[d]
    BY <2>1, <2>3
  <2>6. \A d \in Id' \ ToSet(batch') :
            /\ calls'[d].answer # "none"
            /\ Finished(d)' \/ Abandoned(d)'
            /\ calls'[d].answer \in Replies =>
                  Abandoned(d)' \/ (calls'[d].pc = "done" /\ calls'[d].answer = calls'[d].reply)
    BY <2>5 DEF Driven, Finished, Abandoned
  <2> QED
    BY <2>1, <2>2, <2>4, <2>6 DEF Driven
<1>5. CASE NewRun
  <2>1. run' = run + 1 /\ UNCHANGED <<batch, calls>> /\ batch = <<>>
    BY <1>5 DEF NewRun, TypeOK
  <2>2. ToSet(batch) = {} /\ DOMAIN batch = {} /\ Id' = Id
    BY <2>1 DEF ToSet, Id
  <2>3. \A d \in Id : calls[d].run <= run'
    BY <1>0, <2>1 DEF Driven
  <2> QED
    BY <2>1, <2>2, <2>3 DEF Driven, Finished, Abandoned
<1>6. CASE Idle
  BY <1>6 DEF Idle, Driven, Finished, Abandoned, Id
<1> HIDE DEF DispatchInv
<1> QED
  BY <1>2, <1>3, <1>4, <1>5, <1>6, WhoActs

\* An excuse lasts.
LEMMA ExcuseStays ==
    ASSUME DispatchInv, [Next]_vars, NEW k, Excused(k) PROVE Excused(k)'
<1> USE DEF DispatchInv
<1>1. PICK e \in Id : Key(e) = k /\ (calls[e].lapsed \/ (calls[e].run # run /\ Abandoned(e)))
  BY DEF Excused
<1>2. e \in ToSet(batch) => calls[e].run = run
  BY DEF Driven
<1>3. \A d \in Id : calls[d].run \in Nat /\ run \in Nat /\ calls[d].run <= run
  BY IdFacts DEF Call, TypeOK, Driven
<1>4. ASSUME NEW c \in Id, Start(c) \/ Invoke(c) PROVE Excused(k)'
  <2>1. Moves(c)
    BY <1>4, StepMoves
  <2>2. /\ e \in Id' /\ Key(e)' = k /\ run' = run /\ calls'[e].run = calls[e].run
        /\ calls'[e].answer = calls[e].answer /\ (calls[e].lapsed => calls'[e].lapsed)
    BY <1>1, <2>1 DEF Moves, driver, Key
  <2> QED
    BY <1>1, <2>2 DEF Excused, Abandoned
<1>5. CASE Settles
  <2>1. /\ e \in Id' /\ Key(e)' = k /\ run' = run /\ calls'[e].run = calls[e].run
        /\ calls'[e].lapsed = calls[e].lapsed
        /\ e \notin ToSet(batch) => calls'[e] = calls[e]
    BY <1>1, <1>5 DEF Settles, Key
  <2> QED
    BY <1>1, <1>2, <2>1 DEF Excused, Abandoned
<1>6. ASSUME NEW n \in 1 .. MaxBatch, NEW keys \in [1 .. n -> Keys], Round(keys) PROVE Excused(k)'
  <2>1. Id \subseteq Id' /\ \A d \in Id : calls'[d] = calls[d]
    BY <1>6, RoundAdds
  <2>2. run' = run
    BY <1>6 DEF Round
  <2> QED
    BY <1>1, <2>1, <2>2 DEF Excused, Abandoned, Key
<1>7. CASE NewRun
  <2>1. run' = run + 1 /\ calls' = calls /\ Id' = Id
    BY <1>7 DEF NewRun, Id
  <2>2. calls[e].run # run'
    BY <1>3, <2>1
  <2> QED
    BY <1>1, <2>1, <2>2 DEF Excused, Abandoned, Key
<1>8. CASE Idle
  BY <1>8 DEF Idle, Excused, Abandoned, Id, Key
<1> HIDE DEF DispatchInv
<1> QED
  BY <1>4, <1>5, <1>6, <1>7, <1>8, WhoActs

-------------------------------------------------------------------------------
\* A call that is still under way when a run starts was given up on.
LEMMA BusyMeansAbandoned ==
    ASSUME DispatchInv, NEW c \in Id, ~Finished(c)
    PROVE  (c \in ToSet(batch) /\ calls[c].run = run) \/ Abandoned(c)
BY DEF DispatchInv, Driven

Owned(k) == pending[k] # 0 =>
    /\ Key(pending[k]) = k
    /\ \/ calls[pending[k]].pc \in Executing
       \/ calls[pending[k]].pc = "done" /\ calls[pending[k]].reply = "inactive"
Holds(c, k) == Key(c) = k /\ calls[c].pc \in Executing => pending[k] = c \/ Excused(k)
Waits(c, k) == Key(c) = k /\ calls[c].pc = "wait" /\ calls[c].run = run =>
                   calls[c].event = pending[k] /\ pending[k] # 0

LEMMA SentinelParts ==
    Sentinels <=> \A k \in Keys : Owned(k) /\ \A c \in Id : Holds(c, k) /\ Waits(c, k)
BY DEF Sentinels, Owned, Holds, Waits

\* A step of the driver leaves the sentinels and the progress of the calls alone.
LEMMA SentinelsKept ==
    ASSUME DispatchInv, [Next]_vars, UNCHANGED <<run, pending>>, Id \subseteq Id',
           \A d \in Id : /\ Key(d)' = Key(d) /\ calls'[d].run = calls[d].run
                         /\ calls'[d].event = calls[d].event /\ calls'[d].reply = calls[d].reply
                         /\ calls'[d].pc = calls[d].pc \/ calls'[d].pc = "dropped",
           \A d \in Id : calls'[d].pc = "dropped" => calls[d].pc \in {"queued", "dropped"},
           \A d \in Id' \ Id : calls'[d].pc = "queued"
    PROVE  Sentinels'
<1>1. pending \in [Keys -> Id \cup {0}] /\ \A k \in Keys : Owned(k) /\ \A c \in Id : Holds(c, k) /\ Waits(c, k)
  BY SentinelParts DEF DispatchInv, TypeOK
<1>2. \A k \in Keys : Owned(k)'
  BY <1>1 DEF Owned, Executing
<1>3. \A k \in Keys : \A c \in Id' : Holds(c, k)'
  <2>1. ASSUME NEW k \in Keys, NEW c \in Id', Key(c)' = k, calls'[c].pc \in Executing
        PROVE  pending'[k] = c \/ Excused(k)'
    <3>1. c \in Id /\ calls[c].pc \in Executing /\ Key(c) = k
      BY <2>1 DEF Executing
    <3> QED
      BY <1>1, <3>1, ExcuseStays DEF Holds
  <2> QED
    BY <2>1 DEF Holds
<1>4. \A k \in Keys : \A c \in Id' : Waits(c, k)'
  BY <1>1 DEF Waits
<1>5. \A k \in Keys : Owned(k)' /\ \A c \in Id' : Holds(c, k)' /\ Waits(c, k)'
  BY <1>2, <1>3, <1>4
<1> QED
  BY <1>5 DEF Sentinels, Owned, Holds, Waits

\* A step of a call that leaves the sentinels alone.
LEMMA SentinelsMove ==
    ASSUME DispatchInv, [Next]_vars, NEW c \in Id, Moves(c), pending' = pending,
           calls[c].pc \in Executing =>
               \/ calls'[c].pc \in Executing
               \/ calls'[c].pc = "done" /\ calls'[c].reply = "inactive",
           calls'[c].pc \in Executing => calls[c].pc \in Executing \/ calls'[c].lapsed,
           calls'[c].pc = "wait" => calls'[c].event = pending[Key(c)] /\ pending[Key(c)] # 0
    PROVE  Sentinels'
<1>1. pending \in [Keys -> Id \cup {0}] /\ \A k \in Keys : Owned(k) /\ \A d \in Id : Holds(d, k) /\ Waits(d, k)
  BY SentinelParts DEF DispatchInv, TypeOK
<1>2. run' = run /\ Id' = Id /\ \A d \in Id : Key(d)' = Key(d) /\ calls'[d].run = calls[d].run
  BY DEF Moves, driver, Key
<1>3. \A d \in Id \ {c} : calls'[d] = calls[d] \/ (calls[d].pc = "wait" /\ calls'[d].pc = "woken")
  BY DEF Moves
<1>4. ASSUME NEW k \in Keys PROVE Owned(k)'
  <2>1. CASE pending[k] = c
    BY <1>1, <1>2, <2>1 DEF Owned, Moves, Finished
  <2>2. CASE pending[k] # c /\ pending[k] # 0
    <3>1. pending[k] \in Id /\ calls[pending[k]].pc # "wait"
      BY <1>1, <2>2 DEF Owned, Executing
    <3>2. calls'[pending[k]] = calls[pending[k]]
      BY <1>3, <2>2, <3>1
    <3> QED
      BY <1>1, <1>2, <2>2, <3>1, <3>2 DEF Owned
  <2>3. CASE pending[k] = 0
    BY <2>3 DEF Owned
  <2> QED
    BY <2>1, <2>2, <2>3
<1>5. ASSUME NEW k \in Keys, NEW d \in Id, Key(d)' = k, calls'[d].pc \in Executing
      PROVE  pending'[k] = d \/ Excused(k)'
  <2>1. CASE calls[d].pc \in Executing
    BY <1>1, <1>2, <1>5, <2>1, ExcuseStays DEF Holds
  <2>2. CASE calls[d].pc \notin Executing
    <3>1. d = c
      BY <1>3, <1>5, <2>2 DEF Executing
    <3> QED
      BY <1>2, <1>5, <2>2, <3>1 DEF Excused
  <2> QED
    BY <2>1, <2>2
<1>6. ASSUME NEW k \in Keys, NEW d \in Id, Key(d)' = k, calls'[d].pc = "wait", calls'[d].run = run'
      PROVE  calls'[d].event = pending[k] /\ pending[k] # 0
  <2>1. CASE d = c
    BY <1>2, <1>6, <2>1
  <2>2. CASE d # c
    <3>1. calls'[d] = calls[d]
      BY <1>3, <1>6, <2>2
    <3> QED
      BY <1>1, <1>2, <1>6, <3>1 DEF Waits
  <2> QED
    BY <2>1, <2>2
<1>7. \A k \in Keys : Owned(k)' /\ \A d \in Id' : Holds(d, k)' /\ Waits(d, k)'
  BY <1>2, <1>4, <1>5, <1>6 DEF Holds, Waits
<1> QED
  BY <1>7 DEF Sentinels, Owned, Holds, Waits

\* A call that ends pops the sentinel of its key; whoever else executes with
\* that key then has an excuse, because one of the two had no sentinel.
LEMMA SentinelPopped ==
    ASSUME DispatchInv, [Next]_vars, NEW c \in Id, Moves(c), NEW q, EndsAndReleases(c, q),
           calls[c].pc \in Executing
    PROVE  Sentinels'
<1>1. pending \in [Keys -> Id \cup {0}] /\ \A k \in Keys : Owned(k) /\ \A d \in Id : Holds(d, k) /\ Waits(d, k)
  BY SentinelParts DEF DispatchInv, TypeOK
<1>2. run' = run /\ Id' = Id /\ \A d \in Id : Key(d)' = Key(d) /\ calls'[d].run = calls[d].run
  BY DEF Moves, driver, Key
<1>3. \A d \in Id : calls[d] \in Call /\ Key(d) \in Keys
  BY IdFacts DEF DispatchInv, Call, Key
<1>4. pending' = [pending EXCEPT ![Key(c)] = 0] /\ pending'[Key(c)] = 0
      /\ \A k \in Keys \ {Key(c)} : pending'[k] = pending[k]
  BY <1>1, <1>3 DEF EndsAndReleases
<1>5. calls'[c].pc = "done"
  BY <1>3 DEF EndsAndReleases, Call
<1>6. \A d \in Id \ {c} : \/ calls'[d] = calls[d]
                          \/ calls[d].pc = "wait" /\ calls'[d].pc = "woken"
  BY DEF Moves
<1>7. \A d \in Id \ {c} : calls[d].pc = "wait" /\ calls[d].event = pending[Key(c)] => calls'[d].pc = "woken"
  BY <1>3 DEF EndsAndReleases, At, Call
<1>8. ASSUME NEW k \in Keys PROVE Owned(k)'
  <2>1. CASE k = Key(c)
    BY <1>4, <2>1 DEF Owned
  <2>2. CASE k # Key(c) /\ pending[k] = 0
    BY <1>4, <2>2 DEF Owned
  <2>3. CASE k # Key(c) /\ pending[k] # 0
    <3>1. pending[k] \in Id \ {c} /\ calls[pending[k]].pc # "wait" /\ pending'[k] = pending[k]
      BY <1>1, <1>4, <2>3 DEF Owned, Executing
    <3>2. calls'[pending[k]] = calls[pending[k]]
      BY <1>6, <3>1
    <3> QED
      BY <1>1, <1>2, <2>3, <3>1, <3>2 DEF Owned
  <2> QED
    BY <2>1, <2>2, <2>3
<1>9. ASSUME NEW k \in Keys, NEW d \in Id, Key(d)' = k, calls'[d].pc \in Executing
      PROVE  pending'[k] = d \/ Excused(k)'
  <2>1. d # c /\ calls[d].pc \in Executing /\ Key(d) = k
    BY <1>2, <1>5, <1>6, <1>9 DEF Executing
  <2>2. CASE Excused(k)
    BY <2>2, ExcuseStays
  <2>3. CASE ~Excused(k)
    <3>1. pending[k] = d
      BY <1>1, <2>1, <2>3 DEF Holds
    <3>2. k # Key(c)
      <4>1. ASSUME k = Key(c) PROVE FALSE
        <5>1. pending[k] = c
          BY <1>1, <2>3, <4>1 DEF Holds
        <5> QED
          BY <2>1, <3>1, <5>1
      <4> QED
        BY <4>1
    <3> QED
      BY <1>4, <3>1, <3>2
  <2> QED
    BY <2>2, <2>3
<1>10. ASSUME NEW k \in Keys, NEW d \in Id, Key(d)' = k, calls'[d].pc = "wait", calls'[d].run = run'
       PROVE  calls'[d].event = pending'[k] /\ pending'[k] # 0
  <2>1. d # c /\ calls'[d] = calls[d] /\ Key(d) = k
    BY <1>2, <1>5, <1>6, <1>10
  <2>2. calls[d].event = pending[k] /\ pending[k] # 0
    BY <1>1, <1>2, <1>10, <2>1 DEF Waits
  <2>3. k # Key(c)
    BY <1>7, <1>10, <2>1, <2>2
  <2> QED
    BY <1>4, <2>1, <2>2, <2>3
<1>11. \A k \in Keys : Owned(k)' /\ \A d \in Id' : Holds(d, k)' /\ Waits(d, k)'
  BY <1>2, <1>8, <1>9, <1>10 DEF Holds, Waits
<1> QED
  BY <1>11 DEF Sentinels, Owned, Holds, Waits

\* A call that finds neither a result nor an Event makes one.
LEMMA SentinelMade ==
    ASSUME DispatchInv, [Next]_vars, NEW c \in Id, Moves(c), calls[c].pc = "lookup",
           calls' = [calls EXCEPT ![c].pc = "budget"], pending[Key(c)] = 0,
           pending' = [pending EXCEPT ![Key(c)] = c]
    PROVE  Sentinels'
<1>1. pending \in [Keys -> Id \cup {0}] /\ \A k \in Keys : Owned(k) /\ \A d \in Id : Holds(d, k) /\ Waits(d, k)
  BY SentinelParts DEF DispatchInv, TypeOK
<1>2. run' = run /\ Id' = Id /\ \A d \in Id : Key(d)' = Key(d) /\ calls'[d].run = calls[d].run
  BY DEF Moves, driver, Key
<1>3. calls \in [Id -> Call] /\ Key(c) \in Keys /\ calls[c] \in Call /\ 0 \notin Id
  BY IdFacts DEF DispatchInv, Call, Key
<1>4. pending'[Key(c)] = c /\ \A k \in Keys \ {Key(c)} : pending'[k] = pending[k]
  BY <1>1, <1>3
<1>5. calls'[c].pc = "budget" /\ \A d \in Id \ {c} : calls'[d] = calls[d]
  BY <1>3 DEF Call
<1>6. ASSUME NEW k \in Keys PROVE Owned(k)'
  <2>1. CASE k = Key(c)
    BY <1>2, <1>4, <1>5, <2>1 DEF Owned, Executing
  <2>2. CASE k # Key(c)
    <3>1. pending'[k] = pending[k] /\ (pending[k] # 0 => pending[k] \in Id \ {c})
      BY <1>1, <1>4, <2>2 DEF Owned
    <3> QED
      BY <1>1, <1>2, <1>5, <3>1 DEF Owned
  <2> QED
    BY <2>1, <2>2
<1>7. ASSUME NEW k \in Keys, NEW d \in Id, Key(d)' = k, calls'[d].pc \in Executing
      PROVE  pending'[k] = d \/ Excused(k)'
  <2>1. CASE d = c
    BY <1>2, <1>4, <1>7, <2>1
  <2>2. CASE d # c
    <3>1. pending[k] = d \/ Excused(k)
      BY <1>1, <1>2, <1>5, <1>7, <2>2 DEF Holds
    <3>2. CASE Excused(k)
      BY <3>2, ExcuseStays
    <3>3. CASE pending[k] = d
      BY <1>3, <1>4, <3>3
    <3> QED
      BY <3>1, <3>2, <3>3
  <2> QED
    BY <2>1, <2>2
<1>8. ASSUME NEW k \in Keys, NEW d \in Id, Key(d)' = k, calls'[d].pc = "wait", calls'[d].run = run'
      PROVE  calls'[d].event = pending'[k] /\ pending'[k] # 0
  <2>1. d # c /\ calls'[d] = calls[d] /\ Key(d) = k
    BY <1>2, <1>5, <1>8
  <2>2. calls[d].event = pending[k] /\ pending[k] # 0
    BY <1>1, <1>2, <1>8, <2>1 DEF Waits
  <2> QED
    BY <1>4, <2>1, <2>2
<1>9. \A k \in Keys : Owned(k)' /\ \A d \in Id' : Holds(d, k)' /\ Waits(d, k)'
  BY <1>2, <1>6, <1>7, <1>8 DEF Holds, Waits
<1> QED
  BY <1>9 DEF Sentinels, Owned, Holds, Waits

LEMMA SentinelsStep == DispatchInv /\ [Next]_vars => Sentinels'
<1> SUFFICES ASSUME DispatchInv, [Next]_vars PROVE Sentinels'
  OBVIOUS
<1>1. /\ calls \in [Id -> Call] /\ (\A d \in Id : calls[d] \in Call) /\ run \in Nat
      /\ pending \in [Keys -> Id \cup {0}]
  BY IdFacts DEF DispatchInv, TypeOK
<1>2. ASSUME NEW c \in Id, Start(c) \/ Invoke(c) PROVE Sentinels'
  <2>1. Moves(c)
    BY <1>2, StepMoves DEF DispatchInv
  <2>2. CASE Release(c) \/ Succeed(c) \/ Fail(c)
    <3>1. PICK q \in Replies : EndsAndReleases(c, q)
      BY <2>2 DEF Release, Succeed, Fail, Replies
    <3>2. calls[c].pc \in Executing
      BY <2>2 DEF Release, Succeed, Fail, At, Executing
    <3> QED
      BY <2>1, <3>1, <3>2, SentinelPopped
  <2>3. CASE Look(c) /\ ~Cached(Key(c)) /\ pending[Key(c)] = 0
    BY <2>1, <2>3, SentinelMade DEF Look, At
  <2> DEFINE Move == /\ pending' = pending
                     /\ calls[c].pc \in Executing => \/ calls'[c].pc \in Executing
                                                     \/ calls'[c].pc = "done" /\ calls'[c].reply = "inactive"
                     /\ calls'[c].pc \in Executing => calls[c].pc \in Executing \/ calls'[c].lapsed
                     /\ calls'[c].pc = "wait" => calls'[c].event = pending[Key(c)] /\ pending[Key(c)] # 0
  <2>4. ASSUME Start(c) PROVE Move
    BY <1>1, <2>4 DEF Start, At, cache, Executing, Call
  <2>5. ASSUME Look(c) /\ Cached(Key(c)) PROVE Move
    <3>1. calls[c].pc = "lookup" /\ calls'[c].pc = "charge" /\ pending' = pending
      BY <1>1, <2>5 DEF Look, ServeCached, Cached, At, cache, Call
    <3> QED
      BY <3>1 DEF Executing
  <2>6. ASSUME Look(c) /\ ~Cached(Key(c)) /\ pending[Key(c)] # 0 PROVE Move
    <3>1. calls[c].pc = "lookup" /\ calls'[c].pc = "wait" /\ calls'[c].event = pending[Key(c)] /\ pending' = pending
      BY <1>1, <2>6 DEF Look, Cached, At, cache, Call
    <3> QED
      BY <2>6, <3>1 DEF Executing
  <2>7. ASSUME WaitEnds(c) \/ WaitTimesOut(c) PROVE Move
    <3>1. calls[c].pc \in {"wait", "woken"} /\ pending' = pending
      BY <2>7 DEF WaitEnds, WaitTimesOut, Recheck, ServeCached, At, cache
    <3>2. calls'[c].pc = "charge" \/ (calls'[c].pc = "budget" /\ calls'[c].lapsed)
      BY <1>1, <2>7 DEF WaitEnds, WaitTimesOut, Recheck, ServeCached, Call
    <3> QED
      BY <3>1, <3>2 DEF Executing
  <2>8. ASSUME Budget(c) PROVE Move
    <3>1. calls[c].pc = "budget" /\ pending' = pending /\ calls'[c].pc \in {"release", "fetch"}
      BY <1>1, <2>8 DEF Budget, ChargeTo, At, cache, Call
    <3> QED
      BY <3>1 DEF Executing
  <2>9. ASSUME ChargeDuplicate(c) PROVE Move
    <3>1. calls[c].pc = "charge" /\ pending' = pending /\ calls'[c].pc = "done"
      BY <1>1, <2>9 DEF ChargeDuplicate, ChargeTo, At, cache, Call
    <3> QED
      BY <3>1 DEF Executing
  <2>10. ASSUME Fetch(c) PROVE Move
    <3>1. calls[c].pc = "fetch" /\ pending' = pending
          /\ (calls'[c].pc = "invoke" \/ (calls'[c].pc = "done" /\ calls'[c].reply = "inactive"))
      BY <1>1, <2>10 DEF Fetch, At, cache, Call
    <3> QED
      BY <3>1 DEF Executing
  <2>11. Move => Sentinels'
    BY <2>1, SentinelsMove
  <2> HIDE DEF Move
  <2> QED
    BY <1>2, <2>2, <2>3, <2>4, <2>5, <2>6, <2>7, <2>8, <2>9, <2>10, <2>11 DEF Invoke, Look
<1>3. CASE Settles
  <2>1. /\ UNCHANGED <<run, pending>> /\ Id' = Id
        /\ \A d \in Id : /\ Key(d)' = Key(d) /\ calls'[d].run = calls[d].run
                         /\ calls'[d].event = calls[d].event /\ calls'[d].reply = calls[d].reply
                         /\ calls'[d].pc = calls[d].pc \/ calls'[d].pc = "dropped"
        /\ \A d \in Id : calls'[d].pc = "dropped" => calls[d].pc \in {"queued", "dropped"}
    BY <1>3 DEF Settles, cache, Key
  <2> QED
    BY <2>1, SentinelsKept
<1>4. ASSUME NEW n \in 1 .. MaxBatch, NEW keys \in [1 .. n -> Keys], Round(keys) PROVE Sentinels'
  <2>1. /\ Id \subseteq Id' /\ \A d \in Id : calls'[d] = calls[d]
        /\ \A d \in Id' \ Id : \E k \in Keys, p \in BOOLEAN : calls'[d] = Fresh(k, p)
        /\ UNCHANGED <<run, cache, counts>>
    BY <1>4, RoundAdds DEF DispatchInv
  <2>2. ASSUME NEW d \in Id' \ Id PROVE calls'[d].pc = "queued"
    <3>1. PICK k \in Keys, p \in BOOLEAN : calls'[d] = Fresh(k, p)
      BY <2>1
    <3> QED
      BY <3>1 DEF Fresh
  <2>3. UNCHANGED <<run, pending>> /\ \A d \in Id : Key(d)' = Key(d)
    BY <2>1 DEF cache, Key
  <2>4. \A d \in Id : calls'[d].pc = "dropped" => calls[d].pc \in {"queued", "dropped"}
    BY <2>1
  <2> QED
    BY <2>1, <2>2, <2>3, <2>4, SentinelsKept
<1>5. CASE NewRun
  <2>1. run' = run + 1 /\ calls' = calls /\ Id' = Id /\ pending' = [k \in Keys |-> 0] /\ batch = <<>>
    BY <1>5 DEF NewRun, Id, DispatchInv, TypeOK
  <2>2. \A d \in Id : calls[d].run \in Nat /\ calls[d].run <= run
    BY <1>1 DEF DispatchInv, Driven, Call
  <2>3. \A d \in Id : calls[d].run # run'
    BY <1>1, <2>1, <2>2
  <2>4. ToSet(batch) = {}
    BY <2>1 DEF ToSet
  <2>5. ASSUME NEW k \in Keys, NEW d \in Id, Key(d) = k, calls[d].pc \in Executing PROVE Excused(k)'
    <3>1. Abandoned(d)
      BY <2>4, <2>5, BusyMeansAbandoned DEF Finished, Executing
    <3>2. d \in Id' /\ Key(d)' = k /\ calls'[d].run # run' /\ Abandoned(d)'
      BY <2>1, <2>3, <2>5, <3>1 DEF Key, Abandoned
    <3> QED
      BY <3>2 DEF Excused
  <2>6. ASSUME NEW k \in Keys PROVE pending'[k] = 0
    BY <2>1
  <2>7. \A d \in Id : Key(d)' = Key(d) /\ calls'[d] = calls[d]
    BY <2>1 DEF Key
  <2> QED
    BY <2>1, <2>3, <2>5, <2>6, <2>7 DEF Sentinels
<1>6. CASE Idle
  <2>1. calls' = calls /\ UNCHANGED <<run, pending>> /\ Id' = Id
    BY <1>6 DEF Idle, Id
  <2>2. \A d \in Id : Key(d)' = Key(d) /\ calls'[d] = calls[d]
    BY <2>1 DEF Key
  <2>3. \A d \in Id : calls'[d].pc = "dropped" => calls[d].pc \in {"queued", "dropped"}
    BY <2>2
  <2> QED
    BY <2>1, <2>2, <2>3, SentinelsKept
<1> QED
  BY <1>2, <1>3, <1>4, <1>5, <1>6, WhoActs

\* The history and what was served from it belong to the run.
LEMMA KeptStep == DispatchInv /\ [Next]_vars => Kept'
<1> SUFFICES ASSUME DispatchInv, [Next]_vars PROVE Kept'
  OBVIOUS
<1>1. /\ calls \in [Id -> Call] /\ (\A d \in Id : calls[d] \in Call /\ Key(d) \in Keys) /\ run \in Nat
      /\ history \in [Keys -> Id \cup {0}] /\ 0 \notin Id
  BY IdFacts DEF DispatchInv, TypeOK, Call, Key
<1>2. /\ \A k \in Keys : history[k] # 0 => calls[history[k]].run = run \/ Abandoned(history[k])
      /\ \A c \in Id : calls[c].source # 0 =>
            /\ calls[c].source \in Id
            /\ \/ calls[calls[c].source].run = calls[c].run
               \/ Abandoned(c) \/ Abandoned(calls[c].source)
  BY DEF DispatchInv, Kept, ServedFromOwnRun
\* Calls keep their source, run and answer, and the history its entries.
<1>3. ASSUME Id \subseteq Id', run' = run,
             \A d \in Id : calls'[d].run = calls[d].run /\ (Abandoned(d) => Abandoned(d)'),
             \A k \in Keys : history'[k] # 0 =>
                 \/ history'[k] = history[k]
                 \/ /\ history'[k] \in Id
                    /\ calls[history'[k]].run = run \/ Abandoned(history'[k]),
             \A d \in Id' : calls'[d].source # 0 =>
                 \/ d \in Id /\ calls'[d].source = calls[d].source
                 \/ /\ d \in Id /\ (calls[d].run = run \/ Abandoned(d))
                    /\ \E k \in Keys : calls'[d].source = history[k]
      PROVE  Kept'
  <2>1. \A k \in Keys : history'[k] # 0 => (calls[history[k]].run = run)' \/ Abandoned(history[k])'
    BY <1>1, <1>2, <1>3 DEF Abandoned
  <2>2. ASSUME NEW d \in Id', calls'[d].source # 0
        PROVE  /\ calls'[d].source \in Id'
               /\ \/ calls'[calls'[d].source].run = calls'[d].run
                  \/ Abandoned(d)' \/ Abandoned(calls[d].source)'
    <3>1. CASE d \in Id /\ calls'[d].source = calls[d].source
      BY <1>2, <1>3, <2>2, <3>1 DEF Abandoned
    <3>2. CASE /\ d \in Id /\ (calls[d].run = run \/ Abandoned(d))
               /\ \E k \in Keys : calls'[d].source = history[k]
      <4>1. PICK k \in Keys : calls'[d].source = history[k]
        BY <3>2
      <4>2. history[k] \in Id /\ (calls[history[k]].run = run \/ Abandoned(history[k]))
        BY <1>1, <1>2, <2>2, <4>1
      <4> QED
        BY <1>3, <3>2, <4>1, <4>2 DEF Abandoned
    <3> QED
      BY <1>3, <2>2, <3>1, <3>2
  <2> QED
    BY <2>1, <2>2 DEF Kept, ServedFromOwnRun
<1>4. ASSUME NEW c \in Id, Start(c) \/ Invoke(c) PROVE Kept'
  <2>1. Moves(c)
    BY <1>4, StepMoves DEF DispatchInv
  <2>2. Id' = Id /\ run' = run /\ \A d \in Id : calls'[d].run = calls[d].run /\ (Abandoned(d) => Abandoned(d)')
    BY <2>1 DEF Moves, driver, Abandoned
  <2>3. calls[c].run = run \/ Abandoned(c)
    BY <2>1, BusyMeansAbandoned DEF Moves
  <2>4. \A d \in Id \ {c} : calls'[d].source = calls[d].source
    BY <2>1 DEF Moves
  <2> DEFINE Same == /\ calls'[c].source = calls[c].source \/ calls'[c].source = history[Key(c)]
                     /\ history' = history \/ history' = [history EXCEPT ![Key(c)] = c]
  <2>5. ASSUME Start(c) PROVE Same
    BY <1>1, <2>5 DEF Start, cache, Call
  <2>6. ASSUME Look(c) PROVE Same
    BY <1>1, <2>6 DEF Look, ServeCached, Cached, cache, Call
  <2>7. ASSUME WaitEnds(c) \/ WaitTimesOut(c) PROVE Same
    BY <1>1, <2>7 DEF WaitEnds, WaitTimesOut, Recheck, ServeCached, Cached, cache, Call
  <2>8. ASSUME Budget(c) PROVE Same
    BY <1>1, <2>8 DEF Budget, ChargeTo, cache, Call
  <2>9. ASSUME ChargeDuplicate(c) PROVE Same
    BY <1>1, <2>9 DEF ChargeDuplicate, ChargeTo, cache, Call
  <2>10. ASSUME Fetch(c) PROVE Same
    BY <1>1, <2>10 DEF Fetch, cache, Call
  <2>11. ASSUME Release(c) \/ Succeed(c) \/ Fail(c) PROVE Same
    <3>1. PICK q \in Replies : EndsAndReleases(c, q)
      BY <2>11 DEF Release, Succeed, Fail, Replies
    <3>2. calls'[c].source = calls[c].source
      BY <1>1, <3>1 DEF EndsAndReleases, Call
    <3>3. history' = history \/ history' = [history EXCEPT ![Key(c)] = c]
      BY <2>11 DEF Release, Succeed, Fail
    <3> QED
      BY <3>2, <3>3
  <2>12. Same
    <3> HIDE DEF Same
    <3> QED
      BY <1>4, <2>5, <2>6, <2>7, <2>8, <2>9, <2>10, <2>11 DEF Invoke
  <2>13. \A k \in Keys : history'[k] # 0 =>
                 \/ history'[k] = history[k]
                 \/ /\ history'[k] \in Id
                    /\ calls[history'[k]].run = run \/ Abandoned(history'[k])
    BY <1>1, <2>3, <2>12
  <2>14. \A d \in Id' : calls'[d].source # 0 =>
                 \/ d \in Id /\ calls'[d].source = calls[d].source
                 \/ /\ d \in Id /\ (calls[d].run = run \/ Abandoned(d))
                    /\ \E k \in Keys : calls'[d].source = history[k]
    BY <1>1, <2>2, <2>3, <2>4, <2>12
  <2> HIDE DEF Same
  <2> QED
    BY <1>3, <2>2, <2>13, <2>14
<1>5. CASE Settles
  <2>1. Id' = Id /\ run' = run /\ history' = history
        /\ \A d \in Id : calls'[d].run = calls[d].run /\ calls'[d].source = calls[d].source
    BY <1>5 DEF Settles, cache
  <2>2. ASSUME NEW d \in Id, Abandoned(d) PROVE Abandoned(d)'
    <3>1. d \notin ToSet(batch)
      BY <2>2 DEF DispatchInv, Driven, Abandoned
    <3> QED
      BY <1>5, <2>2, <3>1 DEF Settles, Abandoned
  <2> QED
    BY <1>3, <2>1, <2>2
<1>6. ASSUME NEW n \in 1 .. MaxBatch, NEW keys \in [1 .. n -> Keys], Round(keys) PROVE Kept'
  <2>1. /\ Id \subseteq Id' /\ \A d \in Id : calls'[d] = calls[d]
        /\ \A d \in Id' \ Id : \E k \in Keys, p \in BOOLEAN : calls'[d] = Fresh(k, p)
        /\ UNCHANGED <<run, cache, counts>>
    BY <1>6, RoundAdds DEF DispatchInv
  <2>2. ASSUME NEW d \in Id' \ Id PROVE calls'[d].source = 0
    <3>1. PICK k \in Keys, p \in BOOLEAN : calls'[d] = Fresh(k, p)
      BY <2>1
    <3> QED
      BY <3>1 DEF Fresh
  <2>3. history' = history /\ run' = run /\ \A d \in Id : Abandoned(d) => Abandoned(d)'
    BY <2>1 DEF cache, Abandoned
  <2>4. \A d \in Id' : calls'[d].source # 0 => d \in Id /\ calls'[d].source = calls[d].source
    BY <2>1, <2>2
  <2> QED
    BY <1>3, <2>1, <2>3, <2>4
<1>7. CASE NewRun
  <2>1. calls' = calls /\ Id' = Id /\ \A k \in Keys : history'[k] = 0
    BY <1>7 DEF NewRun, Id
  <2> QED
    BY <1>2, <2>1 DEF Kept, ServedFromOwnRun, Abandoned
<1>8. CASE Idle
  <2>1. calls' = calls /\ Id' = Id /\ history' = history /\ run' = run
    BY <1>8 DEF Idle, Id
  <2> QED
    BY <1>2, <2>1 DEF Kept, ServedFromOwnRun, Abandoned
<1> QED
  BY <1>4, <1>5, <1>6, <1>7, <1>8, WhoActs

-------------------------------------------------------------------------------
\* Fewer calls passed, or one more than before.
LEMMA AtMostOneMore ==
    ASSUME NEW S, IsFiniteSet(S), NEW c, NEW T, T \subseteq S \cup {c}
    PROVE  /\ IsFiniteSet(T) /\ Cardinality(T) \in Nat /\ Cardinality(S) \in Nat
           /\ Cardinality(T) <= Cardinality(S) + 1
           /\ T \subseteq S => Cardinality(T) <= Cardinality(S)
<1>1. IsFiniteSet(S \cup {c}) /\ Cardinality(S \cup {c}) \in Nat /\ Cardinality(S) \in Nat
      /\ Cardinality(S \cup {c}) <= Cardinality(S) + 1
  <2>1. IsFiniteSet(S \cup {c}) /\ Cardinality(S \cup {c}) = IF c \in S THEN Cardinality(S) ELSE Cardinality(S) + 1
    BY FS_AddElement
  <2>2. Cardinality(S) \in Nat /\ Cardinality(S \cup {c}) \in Nat
    BY <2>1, FS_CardinalityType
  <2> QED
    BY <2>1, <2>2
<1>2. IsFiniteSet(T) /\ Cardinality(T) <= Cardinality(S \cup {c})
  BY <1>1, FS_Subset
<1>3. Cardinality(T) \in Nat
  BY <1>2, FS_CardinalityType
<1>4. T \subseteq S => Cardinality(T) <= Cardinality(S)
  BY FS_Subset
<1> QED
  BY <1>1, <1>2, <1>3, <1>4

LEMMA PassedFinite ==
    ASSUME TypeOK, NEW t
    PROVE  IsFiniteSet(Passed(t)) /\ Cardinality(Passed(t)) \in Nat
<1>1. Passed(t) \subseteq Id
  BY DEF Passed
<1>2. IsFiniteSet(Passed(t))
  BY <1>1, IdFacts, FS_Subset
<1> QED
  BY <1>2, FS_CardinalityType

\* A step that lets no call through and takes nothing off the counts.
LEMMA NoMorePassed ==
    ASSUME DispatchInv,
           \A t \in Tools : Passed(t)' \subseteq Passed(t),
           \A t \in Tools : counts'[t] \in Nat /\ counts'[t] >= counts[t]
    PROVE  Spent'
<1>1. ASSUME NEW t \in Tools PROVE Cardinality(Passed(t)') <= counts'[t] /\ Cardinality(Passed(t)') <= HardLimit
  <2>1. IsFiniteSet(Passed(t)) /\ Cardinality(Passed(t)) \in Nat
    BY PassedFinite DEF DispatchInv
  <2>2. Cardinality(Passed(t)') <= Cardinality(Passed(t)) /\ Cardinality(Passed(t)') \in Nat
    <3>1. Passed(t)' \subseteq Passed(t)
      OBVIOUS
    <3>2. IsFiniteSet(Passed(t)') /\ Cardinality(Passed(t)') <= Cardinality(Passed(t))
      BY <2>1, <3>1, FS_Subset
    <3> QED
      BY <3>2, FS_CardinalityType
  <2>3. Cardinality(Passed(t)) <= counts[t] /\ Cardinality(Passed(t)) <= HardLimit /\ counts[t] \in Nat
    BY DEF DispatchInv, Spent, TypeOK
  <2>4. counts'[t] \in Nat /\ counts'[t] >= counts[t]
    OBVIOUS
  <2> QED
    BY <2>1, <2>2, <2>3, <2>4, DispatchAssumption
<1> QED
  BY <1>1 DEF Spent

\* A charge: the call passes only if the count after it is within the ceiling.
LEMMA ChargeBounds ==
    ASSUME DispatchInv, NEW c \in Id, NEW over \in Steps, NEW under \in Steps, ChargeTo(c, over, under), Moves(c),
           over \notin {"fetch", "invoke"}, calls[c].pc \in {"budget", "charge"}
    PROVE  Spent'
<1>1. /\ calls \in [Id -> Call] /\ (\A d \in Id : calls[d] \in Call) /\ Tool(c) \in Tools
      /\ counts \in [Tools -> Nat]
  BY IdFacts DEF DispatchInv, TypeOK, Call, Tool, Keys
<1>2. Id' = Id /\ run' = run /\ (\A d \in Id : Tool(d)' = Tool(d) /\ calls'[d].run = calls[d].run)
  BY DEF Moves, driver, Tool
<1>3. counts' = [counts EXCEPT ![Tool(c)] = @ + 1] /\ \A d \in Id \ {c} : calls'[d] = calls[d]
  BY <1>1 DEF ChargeTo
<1>4. \A t \in Tools : Passed(t)' \subseteq Passed(t) \cup {c}
  <2>1. ASSUME NEW t \in Tools, NEW d \in Id \ {c}, d \in Passed(t)' PROVE d \in Passed(t)
    BY <1>2, <1>3, <2>1 DEF Passed
  <2>2. \A t \in Tools : Passed(t)' \subseteq Id
    BY <1>2 DEF Passed
  <2> QED
    BY <2>1, <2>2
<1>5. \A t \in Tools \ {Tool(c)} : Passed(t)' \subseteq Passed(t) /\ counts'[t] = counts[t]
  <2>1. \A t \in Tools \ {Tool(c)} : c \notin Passed(t)'
    BY <1>2 DEF Passed
  <2> QED
    BY <1>1, <1>3, <1>4, <2>1
<1>6. counts'[Tool(c)] = counts[Tool(c)] + 1 /\ counts[Tool(c)] \in Nat
  BY <1>1, <1>3
<1>7. CASE counts[Tool(c)] + 1 > HardLimit
  <2>1. calls'[c].pc = over /\ calls'[c].reply = "paused"
    BY <1>1, <1>7 DEF ChargeTo, Call
  <2>2. \A t \in Tools : c \notin Passed(t)'
    BY <2>1 DEF Passed
  <2>3. \A t \in Tools : Passed(t)' \subseteq Passed(t)
    BY <1>4, <2>2
  <2>4. \A t \in Tools : counts'[t] \in Nat /\ counts'[t] >= counts[t]
    BY <1>1, <1>5, <1>6
  <2> QED
    BY <2>3, <2>4, NoMorePassed
<1>8. CASE ~(counts[Tool(c)] + 1 > HardLimit)
  <2>1. ASSUME NEW t \in Tools
        PROVE  Cardinality(Passed(t)') <= counts'[t] /\ Cardinality(Passed(t)') <= HardLimit
    <3>1. IsFiniteSet(Passed(t))
      BY PassedFinite DEF DispatchInv
    <3>2. /\ Cardinality(Passed(t)') \in Nat /\ Cardinality(Passed(t)) \in Nat
          /\ Cardinality(Passed(t)') <= Cardinality(Passed(t)) + 1
          /\ Passed(t)' \subseteq Passed(t) => Cardinality(Passed(t)') <= Cardinality(Passed(t))
      <4>1. Passed(t)' \subseteq Passed(t) \cup {c}
        BY <1>4
      <4> QED
        BY <3>1, <4>1, AtMostOneMore
    <3>3. Cardinality(Passed(t)) <= counts[t] /\ Cardinality(Passed(t)) <= HardLimit /\ counts[t] \in Nat
      BY DEF DispatchInv, Spent, TypeOK
    <3>4. CASE t = Tool(c)
      BY <1>6, <1>8, <3>2, <3>3, <3>4, DispatchAssumption
    <3>5. CASE t # Tool(c)
      BY <1>5, <3>2, <3>3, <3>5, DispatchAssumption
    <3> QED
      BY <3>4, <3>5
  <2> QED
    BY <2>1 DEF Spent
<1> QED
  BY <1>7, <1>8

LEMMA SpentStep == DispatchInv /\ [Next]_vars => Spent'
<1> SUFFICES ASSUME DispatchInv, [Next]_vars PROVE Spent'
  OBVIOUS
<1>1. /\ calls \in [Id -> Call] /\ (\A d \in Id : calls[d] \in Call) /\ run \in Nat
      /\ counts \in [Tools -> Nat]
  BY IdFacts DEF DispatchInv, TypeOK
<1>2. ASSUME NEW c \in Id, Start(c) \/ Invoke(c) PROVE Spent'
  <2>1. Moves(c)
    BY <1>2, StepMoves DEF DispatchInv
  <2>2. Id' = Id /\ run' = run /\ \A d \in Id : Tool(d)' = Tool(d) /\ calls'[d].run = calls[d].run
    BY <2>1 DEF Moves, driver, Tool
  <2>3. CASE Budget(c)
    BY <2>1, <2>3, ChargeBounds DEF Budget, Steps, At
  <2>4. CASE ChargeDuplicate(c)
    BY <2>1, <2>4, ChargeBounds DEF ChargeDuplicate, Steps, At
  <2> DEFINE Through == calls'[c].pc \in {"fetch", "invoke"}
                        \/ calls'[c].reply \in {"ok", "error", "cancelled", "cached"}
             Same == /\ counts' = counts
                     /\ Through => \/ calls[c].pc \in {"fetch", "invoke"}
                                   \/ calls[c].reply \in {"ok", "error", "cancelled", "cached"}
  <2>5. ASSUME Start(c) PROVE Same
    BY <1>1, <2>5 DEF Start, Call
  <2>6. ASSUME Look(c) PROVE Same
    BY <1>1, <2>6 DEF Look, ServeCached, Call
  <2>7. ASSUME WaitEnds(c) \/ WaitTimesOut(c) PROVE Same
    BY <1>1, <2>7 DEF WaitEnds, WaitTimesOut, Recheck, ServeCached, Call
  <2>8. ASSUME Fetch(c) PROVE Same
    BY <1>1, <2>8 DEF Fetch, At, Call
  <2>9. ASSUME Release(c) PROVE Same
    BY <1>1, <2>9 DEF Release, EndsAndReleases, Call
  <2>10. ASSUME Succeed(c) PROVE Same
    BY <1>1, <2>10 DEF Succeed, EndsAndReleases, At, Call
  <2>11. ASSUME Fail(c) PROVE Same
    <3>1. PICK q \in {"refused", "error", "cancelled"} :
             EndsAndReleases(c, q) /\ (q = "refused" \/ calls[c].pc = "invoke")
      BY <2>11 DEF Fail
    <3>2. counts' = counts /\ calls'[c].pc = "done" /\ calls'[c].reply = q
      BY <1>1, <2>11, <3>1 DEF Fail, EndsAndReleases, Call
    <3> QED
      BY <3>1, <3>2
  <2>12. Same => Spent'
    <3> SUFFICES ASSUME Same PROVE Spent'
      OBVIOUS
    <3>1. ASSUME NEW t \in Tools, NEW d \in Passed(t)' PROVE d \in Passed(t)
      <4>1. d \in Id /\ Tool(d) = t /\ calls[d].run = run
        BY <2>2, <3>1 DEF Passed
      <4>2. CASE d = c
        BY <3>1, <4>1, <4>2 DEF Passed
      <4>3. CASE d # c
        BY <2>1, <3>1, <4>1, <4>3 DEF Passed, Moves
      <4> QED
        BY <4>2, <4>3
    <3>2. \A t \in Tools : counts'[t] \in Nat /\ counts'[t] >= counts[t]
      BY <1>1
    <3> QED
      BY <3>1, <3>2, NoMorePassed
  <2> HIDE DEF Same
  <2> QED
    BY <1>2, <2>3, <2>4, <2>5, <2>6, <2>7, <2>8, <2>9, <2>10, <2>11, <2>12 DEF Invoke
<1>3. CASE Settles
  <2>1. Id' = Id /\ run' = run /\ counts' = counts
    BY <1>3 DEF Settles
  <2>2. \A d \in Id : /\ Tool(d)' = Tool(d) /\ calls'[d].run = calls[d].run /\ calls'[d].reply = calls[d].reply
                      /\ calls'[d].pc = calls[d].pc \/ calls'[d].pc = "dropped"
    BY <1>3 DEF Settles, Tool
  <2>3. \A t \in Tools : Passed(t)' \subseteq Passed(t)
    BY <2>1, <2>2 DEF Passed
  <2>4. \A t \in Tools : counts'[t] \in Nat /\ counts'[t] >= counts[t]
    BY <1>1, <2>1
  <2> QED
    BY <2>3, <2>4, NoMorePassed
<1>4. ASSUME NEW n \in 1 .. MaxBatch, NEW keys \in [1 .. n -> Keys], Round(keys) PROVE Spent'
  <2>1. /\ Id \subseteq Id' /\ \A d \in Id : calls'[d] = calls[d]
        /\ \A d \in Id' \ Id : \E k \in Keys, p \in BOOLEAN : calls'[d] = Fresh(k, p)
        /\ UNCHANGED <<run, cache, counts>>
    BY <1>4, RoundAdds DEF DispatchInv
  <2>2. ASSUME NEW d \in Id' \ Id PROVE calls'[d].pc = "queued" /\ calls'[d].reply = "none"
    <3>1. PICK k \in Keys, p \in BOOLEAN : calls'[d] = Fresh(k, p)
      BY <2>1
    <3> QED
      BY <3>1 DEF Fresh
  <2>3. \A t \in Tools : Passed(t)' \subseteq Passed(t)
    BY <2>1, <2>2 DEF Passed, Tool
  <2>4. \A t \in Tools : counts'[t] \in Nat /\ counts'[t] >= counts[t]
    BY <1>1, <2>1
  <2> QED
    BY <2>3, <2>4, NoMorePassed
<1>5. CASE NewRun
  <2>1. run' = run + 1 /\ calls' = calls /\ Id' = Id /\ counts' = [t \in Tools |-> 0]
    BY <1>5 DEF NewRun, Id
  <2>2. \A d \in Id : calls[d].run \in Nat /\ calls[d].run <= run
    BY <1>1 DEF DispatchInv, Driven, Call
  <2>3. \A t \in Tools : Passed(t)' = {}
    BY <1>1, <2>1, <2>2 DEF Passed
  <2>4. \A t \in Tools : Cardinality(Passed(t)') = 0 /\ counts'[t] = 0
    BY <2>1, <2>3, FS_EmptySet
  <2> QED
    BY <2>4, DispatchAssumption DEF Spent
<1>6. CASE Idle
  <2>1. calls' = calls /\ Id' = Id /\ counts' = counts /\ run' = run
    BY <1>6 DEF Idle, Id
  <2>2. \A t \in Tools : Passed(t)' = Passed(t)
    BY <2>1 DEF Passed, Tool
  <2> QED
    BY <2>1, <2>2 DEF Spent, DispatchInv
<1> QED
  BY <1>2, <1>3, <1>4, <1>5, <1>6, WhoActs

-------------------------------------------------------------------------------
LEMMA InitDispatchInv == Init => DispatchInv
<1> SUFFICES ASSUME Init PROVE DispatchInv
  OBVIOUS
<1>1. calls = <<>> /\ batch = <<>> /\ Id = {} /\ ToSet(batch) = {} /\ DOMAIN batch = {}
  BY DEF Init, Id, ToSet
<1>2. TypeOK
  <2>1. calls \in Seq(Call) /\ Len(calls) <= MaxCalls /\ batch \in Seq(Id)
    BY <1>1, DispatchAssumption
  <2>2. run \in 1 .. MaxRuns /\ mode = "model" /\ lookup \subseteq Tools
    BY DispatchAssumption DEF Init
  <2>3. /\ history \in [Keys -> Id \cup {0}] /\ pending \in [Keys -> Id \cup {0}]
        /\ counts \in [Tools -> Nat]
    BY DEF Init
  <2> QED
    BY <1>1, <2>1, <2>2, <2>3 DEF TypeOK
<1>3. Driven
  BY <1>1 DEF Driven
<1>4. Sentinels
  BY <1>1 DEF Init, Sentinels
<1>5. Kept
  BY <1>1 DEF Init, Kept, ServedFromOwnRun
<1>6. \A t \in Tools : Cardinality(Passed(t)) = 0 /\ counts[t] = 0
  <2>1. \A t \in Tools : Passed(t) = {}
    BY <1>1 DEF Passed
  <2> QED
    BY <2>1, FS_EmptySet DEF Init
<1>7. Spent
  BY <1>6, DispatchAssumption DEF Spent
<1> QED
  BY <1>2, <1>3, <1>4, <1>5, <1>7 DEF DispatchInv

THEOREM DispatchInvariant == Spec => []DispatchInv
<1>1. DispatchInv /\ [Next]_vars => DispatchInv'
  BY TypeStep, DrivenStep, SentinelsStep, KeptStep, SpentStep DEF DispatchInv
<1> QED
  BY <1>1, InitDispatchInv, PTL DEF Spec

\* Every variable keeps its type.
THEOREM DispatchTypes == Spec => []TypeOK
<1>1. DispatchInv => TypeOK
  BY DEF DispatchInv
<1> QED
  BY <1>1, DispatchInvariant, PTL

\* The pending Events keep a tool from running twice at once with the same
\* arguments, but for calls that waited in vain and threads of earlier runs.
THEOREM DuplicatesRunOnce == Spec => []OnceInFlight
<1>1. DispatchInv => OnceInFlight
  <2> SUFFICES ASSUME DispatchInv, NEW c \in Id, NEW d \in Id, c # d,
                      At(c, "invoke"), At(d, "invoke"), Key(c) = Key(d)
               PROVE  \E e \in Id : /\ Key(e) = Key(c)
                                    /\ calls[e].lapsed \/ (calls[e].run # run /\ Abandoned(e))
    BY DEF OnceInFlight
  <2>1. Key(c) \in Keys
    BY IdFacts DEF DispatchInv, Call, Key
  <2>2. Excused(Key(c))
    BY <2>1 DEF DispatchInv, Sentinels, At, Executing
  <2> QED
    BY <2>2 DEF Excused
<1> QED
  BY <1>1, DispatchInvariant, PTL

\* A call waits only for one that will still set the Event.
THEOREM WaitersAreServed == Spec => []NobodyWaitsInVain
<1>1. DispatchInv => NobodyWaitsInVain
  <2> SUFFICES ASSUME DispatchInv, NEW c \in Id, At(c, "wait"), calls[c].run = run
               PROVE  LET owner == calls[c].event
                      IN  pending[Key(c)] = owner /\ (At(owner, "done") => calls[owner].reply = "inactive")
    BY DEF NobodyWaitsInVain
  <2>1. Key(c) \in Keys
    BY IdFacts DEF DispatchInv, Call, Key
  <2>2. calls[c].event = pending[Key(c)] /\ pending[Key(c)] # 0
    BY <2>1 DEF DispatchInv, Sentinels, At
  <2> QED
    BY <2>1, <2>2 DEF DispatchInv, Sentinels, At, Executing
<1> QED
  BY <1>1, DispatchInvariant, PTL

\* No run is answered from the results of another, but by or from a thread
\* the driver gave up on.
THEOREM ResultsStayInTheirRun == Spec => []ServedFromOwnRun
<1>1. DispatchInv => ServedFromOwnRun
  BY DEF DispatchInv, Kept
<1> QED
  BY <1>1, DispatchInvariant, PTL

\* Answers map one to one to the calls of a reply.
THEOREM AnswersAreComplete == Spec => []EveryCallAnswered
<1>1. DispatchInv => EveryCallAnswered
  BY DEF DispatchInv, Driven, EveryCallAnswered
<1> QED
  BY <1>1, DispatchInvariant, PTL

\* No interleaving lets more calls of a tool through than its ceiling.
THEOREM CeilingHolds == Spec => []BudgetBounds
<1>1. DispatchInv => BudgetBounds
  <2> SUFFICES ASSUME DispatchInv, NEW t \in Tools
               PROVE  Quantify(Id, LAMBDA c : /\ Tool(c) = t /\ calls[c].run = run
                                              /\ Invoked(c) \/ calls[c].reply = "cached") <= HardLimit
    BY DEF BudgetBounds
  <2> DEFINE Passing == {c \in Id : /\ Tool(c) = t /\ calls[c].run = run
                                    /\ Invoked(c) \/ calls[c].reply = "cached"}
  <2>1. Passing \subseteq Passed(t)
    BY DEF Passed, Invoked, At
  <2>2. IsFiniteSet(Passed(t)) /\ Cardinality(Passed(t)) \in Nat
    BY PassedFinite DEF DispatchInv
  <2>3. Cardinality(Passing) <= Cardinality(Passed(t)) /\ Cardinality(Passing) \in Nat
    BY <2>1, <2>2, FS_Subset, FS_CardinalityType
  <2>4. Cardinality(Passed(t)) <= HardLimit
    BY DEF DispatchInv, Spent
  <2>5. Cardinality(Passing) <= HardLimit
    BY <2>2, <2>3, <2>4, DispatchAssumption
  <2> QED
    BY <2>5 DEF Quantify
<1> QED
  BY <1>1, DispatchInvariant, PTL

===============================================================================
