---------------------------- MODULE DeferralProofs ----------------------------
(***************************************************************************)
(* Proofs about Deferral: for any batches, any number of passes, failures  *)
(* and restarts and any max_depth, also 0.                                 *)
(*                                                                         *)
(* The depth of a record travels: into a pass, back into the record, into  *)
(* snapshots, the file and the next process.  The invariant bounds it in   *)
(* all these places.  That a pass has the chat to itself needs, as long as *)
(* handle_batch() has cancelled nothing, that the dispatch thread still    *)
(* holds the chat's own record while it is between its three looks.        *)
(***************************************************************************)
EXTENDS Deferral, TLAPS

\* A record that exists holds messages and was put off below max_depth.
Sound(r) == r.status # "none" => r.msgs # {} /\ r.depth < MaxDepth

SoundEverywhere ==
    /\ Sound(record) /\ Sound(file) /\ Sound(held)
    /\ \A s \in Savers : Sound(image[s])
    /\ disp # "idle" => (IF same THEN record.status ELSE held.status) # "none"
    /\ \A p \in Passes : UnderWay(p) => pass[p].depth <= MaxDepth

\* Between the looks of the dispatch thread, unless a record was cancelled.
Untouched ==
    ~cut /\ disp # "idle" =>
        /\ record.status = (IF disp = "submit" THEN "firing" ELSE "pending")
        /\ same
        /\ \A p \in Passes : ~UnderWay(p)

DeferInv ==
    TypeOK /\ SoundEverywhere /\ FiringIsWorkedOn /\ RetryKeepsMessages /\ Untouched

-------------------------------------------------------------------------------
LEMMA NoRecordTyped == NoRecord \in Records /\ Sound(NoRecord) /\ NoRecord.status = "none"
  BY DEF NoRecord, Records, Sound

\* The ways in which the code changes a record.
LEMMA RecordTyped ==
    ASSUME NEW r \in Records, NEW m \in SUBSET Messages, NEW d \in Nat,
           NEW s \in {"pending", "firing", "cancelled"}
    PROVE  /\ [r EXCEPT !.status = s] \in Records
           /\ [r EXCEPT !.msgs = @ \cup m] \in Records
           /\ [r EXCEPT !.msgs = @ \cup m, !.depth = d] \in Records
           /\ [status |-> s, msgs |-> m, depth |-> d] \in Records
  BY DEF Records

LEMMA AskTyped ==
    ASSUME saving \in [Savers -> {"no", "asked", "writing"}], NEW s \in Savers
    PROVE  [saving EXCEPT ![s] = "asked"] \in [Savers -> {"no", "asked", "writing"}]
  OBVIOUS

LEMMA ContentTyped ==
    ASSUME TypeOK, NEW w \in Workers, w \in Passes => UnderWay(w)
    PROVE  Content(w) \in SUBSET Messages /\ Content(w) # {} /\ Depth(w) \in Nat
<1>1. CASE w \in Batches
  BY <1>1, DeferralAssumption DEF Content, Depth, Messages
<1>2. CASE w \in Passes
  BY <1>2, DeferralAssumption DEF TypeOK, Content, Depth
<1> QED
  BY <1>1, <1>2 DEF Workers

\* Every record, pass and snapshot is of its type.
LEMMA TypeStep == DeferInv /\ [Next]_vars => TypeOK'
<1> SUFFICES ASSUME DeferInv, [Next]_vars PROVE TypeOK'
  OBVIOUS
<1> USE DeferralAssumption DEF DeferInv, TypeOK, Live, UnderWay, Workers, Savers, Messages, Records, Sound, SoundEverywhere, Steps
<1>1. ASSUME NEW b \in Batches, Arrive(b) PROVE TypeOK'
  BY <1>1, NoRecordTyped DEF Arrive, Go, dispatch, turns, bounds, history
<1>2. ASSUME NEW b \in Batches, NEW m \in b, AddMessage(b, m) PROVE TypeOK'
  <2>1. m \in Messages /\ m \in b
    BY DEF Messages
  <2>2. tried' = [tried EXCEPT ![b] = @ \cup {m}]
    BY <1>2 DEF AddMessage
  <2>3. tried' \in [Batches -> SUBSET Messages] /\ \A c \in Batches : tried'[c] \subseteq c /\ tried[c] \subseteq tried'[c]
    BY <2>1, <2>2
  <2>4. UNCHANGED <<disp, due, same, held, step, pass, file, image, failures, crashes, cut>>
    BY <1>2 DEF AddMessage, dispatch, bounds
  <2>5. CASE Live
    <3>1. /\ record' = [record EXCEPT !.msgs = @ \cup {m}]
          /\ absorbed' = [absorbed EXCEPT ![b] = @ \cup {m}]
          /\ owed' = owed \cup {m} /\ saving' = [saving EXCEPT ![b] = "asked"]
      BY <1>2, <2>5 DEF AddMessage, Ask
    <3>2. /\ absorbed' \in [Batches -> SUBSET Messages]
          /\ \A c \in Batches : absorbed'[c] \subseteq tried'[c]
      BY <2>1, <2>2, <3>1
    <3>3. record' \in Records /\ record'.msgs # {} /\ record.msgs # {}
      BY <2>1, <2>5, <3>1, ZenonT(60)
    <3>4. owed' \in SUBSET Messages /\ saving' \in [Savers -> {"no", "asked", "writing"}]
      BY <2>1, <3>1, AskTyped
    <3> QED
      BY <2>3, <2>4, <3>2, <3>3, <3>4
  <2>6. CASE ~Live
    <3>1. UNCHANGED <<record, absorbed, owed, saving>>
      BY <1>2, <2>6 DEF AddMessage
    <3> QED
      BY <2>3, <2>4, <3>1
  <2> QED
    BY <2>5, <2>6
<1>3. ASSUME NEW b \in Batches, Absorbed(b) PROVE TypeOK'
  BY <1>3, NoRecordTyped DEF Absorbed, Go, dispatch, turns, bounds, history
<1>4. ASSUME NEW b \in Batches, PartlyAbsorbed(b) PROVE TypeOK'
  <2>1. step' \in [Workers -> Steps] /\ \A p \in Passes : step'[p] = step[p]
    BY <1>4 DEF PartlyAbsorbed, Go
  <2>2. UNCHANGED <<disp, due, same, held, pass, tried, absorbed, file, image, failures, crashes>>
    BY <1>4 DEF PartlyAbsorbed, dispatch, turns, bounds
  <2>3. owed' \in SUBSET Messages
    BY <1>4 DEF PartlyAbsorbed
  <2>4. CASE Live
    <3>1. record' = [record EXCEPT !.status = "cancelled"] /\ cut' = TRUE /\ saving' = [saving EXCEPT ![b] = "asked"]
      BY <1>4, <2>4 DEF PartlyAbsorbed, Ask
    <3>2. record' \in Records /\ record'.status = "cancelled"
      BY <3>1
    <3>3. saving' \in [Savers -> {"no", "asked", "writing"}]
      BY <3>1, AskTyped
    <3> QED
      BY <2>1, <2>2, <2>3, <3>1, <3>2, <3>3
  <2>5. CASE ~Live
    <3>1. UNCHANGED <<record, cut, saving>>
      BY <1>4, <2>5 DEF PartlyAbsorbed
    <3> QED
      BY <2>1, <2>2, <2>3, <3>1
  <2> QED
    BY <2>4, <2>5
<1>5. ASSUME NEW w \in Workers, Enter(w) PROVE TypeOK'
  BY <1>5, NoRecordTyped DEF Enter, Go, dispatch, turns, bounds, history
<1>6. ASSUME NEW w \in Workers, Reply(w) PROVE TypeOK'
  BY <1>6, NoRecordTyped DEF Reply, Go, Ended, dispatch, turns, bounds, history
<1>7. ASSUME NEW w \in Workers, Defer(w) PROVE TypeOK'
  <2>1. step[w] = "agent" /\ step' = [step EXCEPT ![w] = "leave"] /\ Depth(w) < MaxDepth
    BY <1>7 DEF Defer, DeferInto, Go
  <2>2. Content(w) \in SUBSET Messages /\ Content(w) # {} /\ Depth(w) \in Nat
    BY <2>1, ContentTyped
  <2>3. step' \in [Workers -> Steps] /\ \A p \in Passes : UnderWay(p)' = UnderWay(p)
    BY <2>1
  <2>4. saving' \in [Savers -> {"no", "asked", "writing"}] /\ owed' \in SUBSET Messages
    BY <1>7, <2>2, AskTyped DEF Defer, DeferInto, Ask
  <2>5. UNCHANGED <<disp, pass, tried, absorbed, file, image, failures, crashes, cut>>
    BY <1>7 DEF Defer, DeferInto, turns, bounds
  <2>6. record' \in Records /\ record'.msgs # {} /\ due' = FALSE /\ same' \in BOOLEAN /\ held' \in Records
    <3>1. CASE record.status \in {"pending", "firing"}
      <4>1. record' = [record EXCEPT !.msgs = @ \cup Content(w), !.depth = Depth(w)] /\ due' = FALSE /\ UNCHANGED <<same, held>>
        BY <1>7, <3>1 DEF Defer, DeferInto
      <4>2. record' \in Records
        BY <2>2, <4>1, RecordTyped
      <4> QED
        BY <2>2, <4>1, <4>2
    <3>2. CASE record.status \notin {"pending", "firing"}
      <4>1. /\ record' = [status |-> "pending", msgs |-> Content(w), depth |-> Depth(w)]
            /\ due' = FALSE /\ same' = FALSE /\ held' = IF same THEN record ELSE held
        BY <1>7, <3>2 DEF Defer, DeferInto, Replace
      <4> QED
        BY <2>2, <4>1
    <3> QED
      BY <3>1, <3>2
  <2> HIDE DEF Records, Messages, Steps
  <2> QED
    BY <2>3, <2>4, <2>5, <2>6
<1>8. ASSUME NEW w \in Workers, Leave(w) PROVE TypeOK'
  BY <1>8, NoRecordTyped DEF Leave, Go, Ended, dispatch, turns, bounds, history
<1>9. ASSUME NEW w \in Workers, Raise(w) PROVE TypeOK'
  BY <1>9, NoRecordTyped DEF Raise, Go, dispatch, turns, bounds, history
<1>10. ASSUME NEW p \in Passes, OnSuccess(p) PROVE TypeOK'
  <2>1. step' \in [Workers -> Steps] /\ pass' \in [Passes -> [msgs : SUBSET Messages, depth : Nat]]
    BY <1>10 DEF OnSuccess, Forget, Go
  <2>2. \A q \in Passes : UnderWay(q)' => UnderWay(q) /\ pass'[q] = pass[q]
    BY <1>10 DEF OnSuccess, Forget, Go
  <2>3. UNCHANGED <<disp, tried, absorbed, saving, image, failures, crashes, cut, owed>>
    BY <1>10 DEF OnSuccess, bounds, history
  <2>4. record' \in {record, NoRecord} /\ held' \in {record, held} /\ due' \in {due, FALSE} /\ same' \in {same, FALSE}
    BY <1>10 DEF OnSuccess, Replace
  <2>5. file' = record'
    BY <1>10 DEF OnSuccess
  <2>6. record' \in Records /\ held' \in Records /\ file' \in Records
    BY <2>4, <2>5, NoRecordTyped
  <2>7. Live' => record'.msgs # {}
    BY <2>4, NoRecordTyped
  <2> HIDE DEF Records, Messages, Steps
  <2> QED
    BY <2>1, <2>2, <2>3, <2>4, <2>6, <2>7
<1>11. ASSUME NEW p \in Passes, OnFailure(p) PROVE TypeOK'
  BY <1>11, NoRecordTyped DEF OnFailure, Forget, Go, dispatch, turns, bounds, history
<1>12. ASSUME Collect PROVE TypeOK'
  BY <1>12, NoRecordTyped DEF Collect, dispatch, turns, bounds, history
<1>13. ASSUME ExpireEarly PROVE TypeOK'
  BY <1>13, NoRecordTyped DEF ExpireEarly, Ask, dispatch, turns, bounds, history
<1>14. ASSUME Check PROVE TypeOK'
  <2>1. disp' \in {"idle", "check", "expire", "fire", "submit"} /\ due' \in BOOLEAN /\ same' \in BOOLEAN
    BY <1>14 DEF Check, ToSleep
  <2>2. held' \in {held, NoRecord}
    BY <1>14 DEF Check, ToSleep
  <2>3. record' \in Records /\ (Live' => record'.msgs # {})
    BY <1>14 DEF Check
  <2>4. saving' \in [Savers -> {"no", "asked", "writing"}]
    BY <1>14, AskTyped DEF Check, Ask
  <2>5. UNCHANGED <<step, pass, tried, absorbed, file, image, crashes, cut>>
    BY <1>14 DEF Check, turns, bounds, history
  <2>6. failures' \in 0 .. MaxFailures /\ owed' \in SUBSET Messages
    BY <1>14 DEF Check, bounds, history
  <2>7. held' \in Records
    BY <2>2, NoRecordTyped
  <2> HIDE DEF Records, Messages, Steps
  <2> QED
    BY <2>1, <2>3, <2>4, <2>5, <2>6, <2>7
<1>15. ASSUME Expire PROVE TypeOK'
  <2>1. disp' \in {"idle", "check", "expire", "fire", "submit"} /\ due' \in BOOLEAN /\ same' \in BOOLEAN
    BY <1>15 DEF Expire, ToSleep
  <2>2. held' \in {held, NoRecord}
    BY <1>15 DEF Expire, ToSleep
  <2>3. record' \in Records /\ (Live' => record'.msgs # {})
    BY <1>15 DEF Expire
  <2>4. saving' \in [Savers -> {"no", "asked", "writing"}]
    BY <1>15, AskTyped DEF Expire, Ask
  <2>5. UNCHANGED <<step, pass, tried, absorbed, file, image, crashes, cut>>
    BY <1>15 DEF Expire, turns, bounds, history
  <2>6. failures' \in 0 .. MaxFailures /\ owed' \in SUBSET Messages
    BY <1>15 DEF Expire, bounds, history
  <2>7. held' \in Records
    BY <2>2, NoRecordTyped
  <2> HIDE DEF Records, Messages, Steps
  <2> QED
    BY <2>1, <2>3, <2>4, <2>5, <2>6, <2>7
<1>16. ASSUME Fire PROVE TypeOK'
  <2>1. disp' \in {"idle", "check", "expire", "fire", "submit"} /\ due' \in BOOLEAN /\ same' \in BOOLEAN
    BY <1>16 DEF Fire, ToSleep
  <2>2. held' \in {held, NoRecord}
    BY <1>16 DEF Fire, ToSleep
  <2>3. record' \in Records /\ (Live' => record'.msgs # {})
    <3>1. record' \in {record, [record EXCEPT !.status = "firing"]}
      BY <1>16 DEF Fire
    <3>2. [record EXCEPT !.status = "firing"] \in Records
      OBVIOUS
    <3>3. record.status = "pending" => record.msgs # {}
      OBVIOUS
    <3>4. record' = record \/ record.status = "pending"
      BY <1>16 DEF Fire
    <3> QED
      BY <3>1, <3>2, <3>3, <3>4
  <2>4. saving' \in [Savers -> {"no", "asked", "writing"}]
    BY <1>16, AskTyped DEF Fire, Ask
  <2>5. UNCHANGED <<step, pass, tried, absorbed, file, image, crashes, cut>>
    BY <1>16 DEF Fire, turns, bounds, history
  <2>6. failures' \in 0 .. MaxFailures /\ owed' \in SUBSET Messages
    BY <1>16 DEF Fire, bounds, history
  <2>7. held' \in Records
    BY <2>2, NoRecordTyped
  <2> HIDE DEF Records, Messages, Steps
  <2> QED
    BY <2>1, <2>3, <2>4, <2>5, <2>6, <2>7
<1>17. ASSUME NEW p \in Passes, Submit(p) PROVE TypeOK'
  <2>1. disp = "submit" /\ step[p] = "idle" /\ step' = [step EXCEPT ![p] = "wait"]
    BY <1>17 DEF Submit, Go
  <2>2. Collected \in Records /\ Collected.msgs # {} /\ Collected.depth + 1 \in Nat
    BY <2>1 DEF Collected
  <2>3. pass' = [pass EXCEPT ![p] = [msgs |-> Collected.msgs, depth |-> Collected.depth + 1]]
    BY <1>17 DEF Submit
  <2>4. Collected.msgs \in SUBSET Messages
    BY <2>2
  <2>5. /\ pass' \in [Passes -> [msgs : SUBSET Messages, depth : Nat]]
        /\ pass'[p].msgs # {} /\ \A q \in Passes : q # p => pass'[q] = pass[q]
    BY <2>2, <2>3, <2>4
  <2>6. /\ step' \in [Workers -> Steps]
        /\ \A q \in Passes : q # p => step'[q] = step[q]
    BY <2>1
  <2>7. disp' = "idle" /\ due' = FALSE /\ same' = FALSE /\ held' = NoRecord
    BY <1>17 DEF Submit, ToSleep
  <2>8. UNCHANGED <<record, tried, absorbed, file, saving, image, failures, crashes, cut, owed>>
    BY <1>17 DEF Submit, bounds, history
  <2> HIDE DEF Records, Messages, Steps
  <2> QED
    BY <2>5, <2>6, <2>7, <2>8, NoRecordTyped
<1>18. ASSUME SubmitFails PROVE TypeOK'
  <2>1. disp' \in {"idle", "check", "expire", "fire", "submit"} /\ due' \in BOOLEAN /\ same' \in BOOLEAN
    BY <1>18 DEF SubmitFails, ToSleep
  <2>2. held' \in {held, NoRecord}
    BY <1>18 DEF SubmitFails, ToSleep
  <2>3. record' \in Records /\ (Live' => record'.msgs # {})
    BY <1>18 DEF SubmitFails
  <2>4. saving' \in [Savers -> {"no", "asked", "writing"}]
    BY <1>18, AskTyped DEF SubmitFails, Ask
  <2>5. UNCHANGED <<step, pass, tried, absorbed, file, image, crashes, cut>>
    BY <1>18 DEF SubmitFails, turns, bounds, history
  <2>6. failures' \in 0 .. MaxFailures /\ owed' \in SUBSET Messages
    BY <1>18 DEF SubmitFails, bounds, history
  <2>7. held' \in Records
    BY <2>2, NoRecordTyped
  <2> HIDE DEF Records, Messages, Steps
  <2> QED
    BY <2>1, <2>3, <2>4, <2>5, <2>6, <2>7
<1>19. ASSUME NEW s \in Savers, SaveBegin(s) PROVE TypeOK'
  BY <1>19, NoRecordTyped DEF SaveBegin, dispatch, turns, bounds, history
<1>20. ASSUME NEW s \in Savers, SaveEnd(s) PROVE TypeOK'
  BY <1>20, NoRecordTyped DEF SaveEnd, dispatch, turns, bounds, history
<1>21. ASSUME Crash PROVE TypeOK'
  <2>1. record' \in Records /\ (Live' => record'.msgs # {})
    BY <1>21 DEF Crash
  <2>2. step' \in [Workers -> Steps] /\ \A p \in Passes : ~UnderWay(p)'
    BY <1>21 DEF Crash
  <2>3. pass' \in [Passes -> [msgs : SUBSET Messages, depth : Nat]]
    BY <1>21 DEF Crash
  <2>4. saving' \in [Savers -> {"no", "asked", "writing"}] /\ image' \in [Savers -> Records]
    BY <1>21, NoRecordTyped DEF Crash
  <2>5. disp' = "idle" /\ due' = FALSE /\ same' = FALSE /\ held' = NoRecord
    BY <1>21 DEF Crash, ToSleep
  <2>6. cut' = FALSE /\ owed' = {} /\ crashes' \in 0 .. MaxCrashes /\ UNCHANGED <<tried, absorbed, file, failures>>
    BY <1>21 DEF Crash
  <2> HIDE DEF Records, Messages, Steps
  <2> QED
    BY <2>1, <2>2, <2>3, <2>4, <2>5, <2>6, NoRecordTyped
<1>22. ASSUME UNCHANGED vars PROVE TypeOK'
  BY <1>22, NoRecordTyped DEF vars, dispatch, turns, bounds, history
<1> HIDE DEF DeferInv, TypeOK, Live, UnderWay, Workers, Savers, Messages, Records, Sound, SoundEverywhere, Steps
<1> QED
  BY <1>1, <1>2, <1>3, <1>4, <1>5, <1>6, <1>7, <1>8, <1>9, <1>10, <1>11,
     <1>12, <1>13, <1>14, <1>15, <1>16, <1>17, <1>18, <1>19, <1>20, <1>21, <1>22
  DEF Next, BatchStep, Turn, Callback, DispatchStep, SaveStep

\* No step makes an empty record or one as deep as max_depth.
LEMMA SoundStep == DeferInv /\ [Next]_vars => SoundEverywhere'
<1> SUFFICES ASSUME DeferInv, [Next]_vars PROVE SoundEverywhere'
  OBVIOUS
<1> USE DeferralAssumption DEF DeferInv, TypeOK, Live, UnderWay, Workers, Savers, Records, Sound, SoundEverywhere
<1>1. ASSUME NEW b \in Batches, Arrive(b) PROVE SoundEverywhere'
  BY <1>1, NoRecordTyped DEF Arrive, Go, dispatch, turns, bounds, history
<1>2. ASSUME NEW b \in Batches, NEW m \in b, AddMessage(b, m) PROVE SoundEverywhere'
  BY <1>2, NoRecordTyped DEF AddMessage, Ask, Quiet, dispatch, turns, bounds, history
<1>3. ASSUME NEW b \in Batches, Absorbed(b) PROVE SoundEverywhere'
  BY <1>3, NoRecordTyped DEF Absorbed, Go, dispatch, turns, bounds, history
<1>4. ASSUME NEW b \in Batches, PartlyAbsorbed(b) PROVE SoundEverywhere'
  BY <1>4, NoRecordTyped, SMTT(40) DEF PartlyAbsorbed, Go, Ask, dispatch, turns, bounds, history
<1>5. ASSUME NEW w \in Workers, Enter(w) PROVE SoundEverywhere'
  BY <1>5, NoRecordTyped DEF Enter, Go, dispatch, turns, bounds, history
<1>6. ASSUME NEW w \in Workers, Reply(w) PROVE SoundEverywhere'
  BY <1>6, NoRecordTyped DEF Reply, Go, Ended, dispatch, turns, bounds, history
<1>7. ASSUME NEW w \in Workers, Defer(w) PROVE SoundEverywhere'
  <2>1. step[w] = "agent" /\ step' = [step EXCEPT ![w] = "leave"] /\ Depth(w) < MaxDepth
    BY <1>7 DEF Defer, DeferInto, Go
  <2>2. Content(w) \in SUBSET Messages /\ Content(w) # {} /\ Depth(w) \in Nat
    BY <2>1, ContentTyped
  <2>3. UNCHANGED <<disp, pass, file, image, cut>>
    BY <1>7 DEF Defer, DeferInto, turns
  <2>4. \A p \in Passes : UnderWay(p)' = UnderWay(p)
    BY <2>1
  <2>5. CASE record.status \in {"pending", "firing"}
    <3>1. record' = [record EXCEPT !.msgs = @ \cup Content(w), !.depth = Depth(w)] /\ UNCHANGED <<same, held>>
      BY <1>7, <2>5 DEF Defer, DeferInto
    <3>2. record'.status = record.status /\ record'.depth = Depth(w) /\ record'.msgs = record.msgs \cup Content(w)
      BY <3>1
    <3> QED
      BY <2>2, <2>1, <2>3, <2>4, <2>5, <3>1, <3>2
  <2>6. CASE record.status \notin {"pending", "firing"}
    <3>1. /\ record' = [status |-> "pending", msgs |-> Content(w), depth |-> Depth(w)]
          /\ same' = FALSE /\ held' = IF same THEN record ELSE held
      BY <1>7, <2>6 DEF Defer, DeferInto, Replace
    <3> QED
      BY <2>2, <2>1, <2>3, <2>4, <2>6, <3>1
  <2> QED
    BY <2>5, <2>6
<1>8. ASSUME NEW w \in Workers, Leave(w) PROVE SoundEverywhere'
  BY <1>8, NoRecordTyped DEF Leave, Go, Ended, dispatch, turns, bounds, history
<1>9. ASSUME NEW w \in Workers, Raise(w) PROVE SoundEverywhere'
  BY <1>9, NoRecordTyped DEF Raise, Go, dispatch, turns, bounds, history
<1>10. ASSUME NEW p \in Passes, OnSuccess(p) PROVE SoundEverywhere'
  BY <1>10, NoRecordTyped DEF OnSuccess, Replace, Forget, Go, dispatch, turns, bounds, history
<1>11. ASSUME NEW p \in Passes, OnFailure(p) PROVE SoundEverywhere'
  BY <1>11, NoRecordTyped DEF OnFailure, Forget, Go, dispatch, turns, bounds, history
<1>12. ASSUME Collect PROVE SoundEverywhere'
  BY <1>12, NoRecordTyped DEF Collect, dispatch, turns, bounds, history
<1>13. ASSUME ExpireEarly PROVE SoundEverywhere'
  BY <1>13, NoRecordTyped DEF ExpireEarly, Ask, dispatch, turns, bounds, history
<1>14. ASSUME Check PROVE SoundEverywhere'
  BY <1>14, NoRecordTyped DEF Check, ToSleep, dispatch, turns, bounds, history
<1>15. ASSUME Expire PROVE SoundEverywhere'
  BY <1>15, NoRecordTyped DEF Expire, ToSleep, Ask, dispatch, turns, bounds, history
<1>16. ASSUME Fire PROVE SoundEverywhere'
  BY <1>16, NoRecordTyped DEF Fire, ToSleep, Ask, dispatch, turns, bounds, history
<1>17. ASSUME NEW p \in Passes, Submit(p) PROVE SoundEverywhere'
  BY <1>17, NoRecordTyped DEF Submit, Go, ToSleep, Collected, dispatch, turns, bounds, history
<1>18. ASSUME SubmitFails PROVE SoundEverywhere'
  BY <1>18, NoRecordTyped DEF SubmitFails, ToSleep, Ask, dispatch, turns, bounds, history
<1>19. ASSUME NEW s \in Savers, SaveBegin(s) PROVE SoundEverywhere'
  BY <1>19, NoRecordTyped DEF SaveBegin, dispatch, turns, bounds, history
<1>20. ASSUME NEW s \in Savers, SaveEnd(s) PROVE SoundEverywhere'
  BY <1>20, NoRecordTyped DEF SaveEnd, dispatch, turns, bounds, history
<1>21. ASSUME Crash PROVE SoundEverywhere'
  BY <1>21, NoRecordTyped DEF Crash, ToSleep, dispatch, turns, bounds, history
<1>22. ASSUME UNCHANGED vars PROVE SoundEverywhere'
  BY <1>22, NoRecordTyped DEF vars, dispatch, turns, bounds, history
<1> HIDE DEF DeferInv, TypeOK, Live, UnderWay, Workers, Savers, Records, Sound, SoundEverywhere
<1> QED
  BY <1>1, <1>2, <1>3, <1>4, <1>5, <1>6, <1>7, <1>8, <1>9, <1>10, <1>11,
     <1>12, <1>13, <1>14, <1>15, <1>16, <1>17, <1>18, <1>19, <1>20, <1>21, <1>22
  DEF Next, BatchStep, Turn, Callback, DispatchStep, SaveStep

\* Who ends a pass, or a submission, takes its record out of firing.
LEMMA WorkedOnStep == DeferInv /\ [Next]_vars => FiringIsWorkedOn'
<1> SUFFICES ASSUME DeferInv, [Next]_vars PROVE FiringIsWorkedOn'
  OBVIOUS
<1> USE DeferralAssumption DEF DeferInv, TypeOK, Live, UnderWay, Workers, Savers, Records, FiringIsWorkedOn
<1>1. ASSUME NEW b \in Batches, Arrive(b) PROVE FiringIsWorkedOn'
  BY <1>1, NoRecordTyped DEF Arrive, Go, dispatch, turns, bounds, history
<1>2. ASSUME NEW b \in Batches, NEW m \in b, AddMessage(b, m) PROVE FiringIsWorkedOn'
  BY <1>2, NoRecordTyped DEF AddMessage, Ask, Quiet, dispatch, turns, bounds, history
<1>3. ASSUME NEW b \in Batches, Absorbed(b) PROVE FiringIsWorkedOn'
  BY <1>3, NoRecordTyped DEF Absorbed, Go, dispatch, turns, bounds, history
<1>4. ASSUME NEW b \in Batches, PartlyAbsorbed(b) PROVE FiringIsWorkedOn'
  BY <1>4, NoRecordTyped DEF PartlyAbsorbed, Go, Ask, dispatch, turns, bounds, history
<1>5. ASSUME NEW w \in Workers, Enter(w) PROVE FiringIsWorkedOn'
  BY <1>5, NoRecordTyped DEF Enter, Go, dispatch, turns, bounds, history
<1>6. ASSUME NEW w \in Workers, Reply(w) PROVE FiringIsWorkedOn'
  BY <1>6, NoRecordTyped DEF Reply, Go, Ended, dispatch, turns, bounds, history
<1>7. ASSUME NEW w \in Workers, Defer(w) PROVE FiringIsWorkedOn'
  <2>1. step[w] = "agent" /\ step' = [step EXCEPT ![w] = "leave"] /\ Depth(w) < MaxDepth
    BY <1>7 DEF Defer, DeferInto, Go
  <2>2. Content(w) \in SUBSET Messages /\ Content(w) # {} /\ Depth(w) \in Nat
    BY <2>1, ContentTyped
  <2>3. UNCHANGED <<disp, pass, file, image, cut>>
    BY <1>7 DEF Defer, DeferInto, turns
  <2>4. \A p \in Passes : UnderWay(p)' = UnderWay(p)
    BY <2>1
  <2>5. CASE record.status \in {"pending", "firing"}
    <3>1. record' = [record EXCEPT !.msgs = @ \cup Content(w), !.depth = Depth(w)] /\ UNCHANGED <<same, held>>
      BY <1>7, <2>5 DEF Defer, DeferInto
    <3>2. record'.status = record.status /\ record'.depth = Depth(w) /\ record'.msgs = record.msgs \cup Content(w)
      BY <3>1
    <3> QED
      BY <2>2, <2>1, <2>3, <2>4, <2>5, <3>1, <3>2
  <2>6. CASE record.status \notin {"pending", "firing"}
    <3>1. /\ record' = [status |-> "pending", msgs |-> Content(w), depth |-> Depth(w)]
          /\ same' = FALSE /\ held' = IF same THEN record ELSE held
      BY <1>7, <2>6 DEF Defer, DeferInto, Replace
    <3> QED
      BY <2>2, <2>1, <2>3, <2>4, <2>6, <3>1
  <2> QED
    BY <2>5, <2>6
<1>8. ASSUME NEW w \in Workers, Leave(w) PROVE FiringIsWorkedOn'
  BY <1>8, NoRecordTyped DEF Leave, Go, Ended, dispatch, turns, bounds, history
<1>9. ASSUME NEW w \in Workers, Raise(w) PROVE FiringIsWorkedOn'
  BY <1>9, NoRecordTyped DEF Raise, Go, dispatch, turns, bounds, history
<1>10. ASSUME NEW p \in Passes, OnSuccess(p) PROVE FiringIsWorkedOn'
  BY <1>10, NoRecordTyped DEF OnSuccess, Replace, Forget, Go, dispatch, turns, bounds, history
<1>11. ASSUME NEW p \in Passes, OnFailure(p) PROVE FiringIsWorkedOn'
  BY <1>11, NoRecordTyped DEF OnFailure, Forget, Go, dispatch, turns, bounds, history
<1>12. ASSUME Collect PROVE FiringIsWorkedOn'
  BY <1>12, NoRecordTyped DEF Collect, dispatch, turns, bounds, history
<1>13. ASSUME ExpireEarly PROVE FiringIsWorkedOn'
  BY <1>13, NoRecordTyped DEF ExpireEarly, Ask, dispatch, turns, bounds, history
<1>14. ASSUME Check PROVE FiringIsWorkedOn'
  BY <1>14, NoRecordTyped DEF Check, ToSleep, dispatch, turns, bounds, history
<1>15. ASSUME Expire PROVE FiringIsWorkedOn'
  BY <1>15, NoRecordTyped DEF Expire, ToSleep, Ask, dispatch, turns, bounds, history
<1>16. ASSUME Fire PROVE FiringIsWorkedOn'
  BY <1>16, NoRecordTyped DEF Fire, ToSleep, Ask, dispatch, turns, bounds, history
<1>17. ASSUME NEW p \in Passes, Submit(p) PROVE FiringIsWorkedOn'
  BY <1>17, NoRecordTyped DEF Submit, Go, ToSleep, Collected, dispatch, turns, bounds, history
<1>18. ASSUME SubmitFails PROVE FiringIsWorkedOn'
  BY <1>18, NoRecordTyped DEF SubmitFails, ToSleep, Ask, dispatch, turns, bounds, history
<1>19. ASSUME NEW s \in Savers, SaveBegin(s) PROVE FiringIsWorkedOn'
  BY <1>19, NoRecordTyped DEF SaveBegin, dispatch, turns, bounds, history
<1>20. ASSUME NEW s \in Savers, SaveEnd(s) PROVE FiringIsWorkedOn'
  BY <1>20, NoRecordTyped DEF SaveEnd, dispatch, turns, bounds, history
<1>21. ASSUME Crash PROVE FiringIsWorkedOn'
  BY <1>21, NoRecordTyped DEF Crash, ToSleep, dispatch, turns, bounds, history
<1>22. ASSUME UNCHANGED vars PROVE FiringIsWorkedOn'
  BY <1>22, NoRecordTyped DEF vars, dispatch, turns, bounds, history
<1> HIDE DEF DeferInv, TypeOK, Live, UnderWay, Workers, Savers, Records, FiringIsWorkedOn
<1> QED
  BY <1>1, <1>2, <1>3, <1>4, <1>5, <1>6, <1>7, <1>8, <1>9, <1>10, <1>11,
     <1>12, <1>13, <1>14, <1>15, <1>16, <1>17, <1>18, <1>19, <1>20, <1>21, <1>22
  DEF Next, BatchStep, Turn, Callback, DispatchStep, SaveStep

\* The record of a pass is neither replaced nor fired again.
LEMMA RetryStep == DeferInv /\ [Next]_vars => RetryKeepsMessages'
<1> SUFFICES ASSUME DeferInv, [Next]_vars PROVE RetryKeepsMessages'
  OBVIOUS
<1> USE DeferralAssumption DEF DeferInv, TypeOK, Live, UnderWay, Workers, Savers, Records, RetryKeepsMessages, Untouched
<1>1. ASSUME NEW b \in Batches, Arrive(b) PROVE RetryKeepsMessages'
  BY <1>1, NoRecordTyped DEF Arrive, Go, dispatch, turns, bounds, history
<1>2. ASSUME NEW b \in Batches, NEW m \in b, AddMessage(b, m) PROVE RetryKeepsMessages'
  BY <1>2, NoRecordTyped DEF AddMessage, Ask, Quiet, dispatch, turns, bounds, history
<1>3. ASSUME NEW b \in Batches, Absorbed(b) PROVE RetryKeepsMessages'
  BY <1>3, NoRecordTyped DEF Absorbed, Go, dispatch, turns, bounds, history
<1>4. ASSUME NEW b \in Batches, PartlyAbsorbed(b) PROVE RetryKeepsMessages'
  BY <1>4, NoRecordTyped DEF PartlyAbsorbed, Go, Ask, dispatch, turns, bounds, history
<1>5. ASSUME NEW w \in Workers, Enter(w) PROVE RetryKeepsMessages'
  BY <1>5, NoRecordTyped DEF Enter, Go, dispatch, turns, bounds, history
<1>6. ASSUME NEW w \in Workers, Reply(w) PROVE RetryKeepsMessages'
  BY <1>6, NoRecordTyped DEF Reply, Go, Ended, dispatch, turns, bounds, history
<1>7. ASSUME NEW w \in Workers, Defer(w) PROVE RetryKeepsMessages'
  <2>1. step[w] = "agent" /\ step' = [step EXCEPT ![w] = "leave"] /\ Depth(w) < MaxDepth
    BY <1>7 DEF Defer, DeferInto, Go
  <2>2. Content(w) \in SUBSET Messages /\ Content(w) # {} /\ Depth(w) \in Nat
    BY <2>1, ContentTyped
  <2>3. UNCHANGED <<disp, pass, file, image, cut>>
    BY <1>7 DEF Defer, DeferInto, turns
  <2>4. \A p \in Passes : UnderWay(p)' = UnderWay(p)
    BY <2>1
  <2>5. CASE record.status \in {"pending", "firing"}
    <3>1. record' = [record EXCEPT !.msgs = @ \cup Content(w), !.depth = Depth(w)] /\ UNCHANGED <<same, held>>
      BY <1>7, <2>5 DEF Defer, DeferInto
    <3>2. record'.status = record.status /\ record'.depth = Depth(w) /\ record'.msgs = record.msgs \cup Content(w)
      BY <3>1
    <3> QED
      BY <2>2, <2>1, <2>3, <2>4, <2>5, <3>1, <3>2
  <2>6. CASE record.status \notin {"pending", "firing"}
    <3>1. /\ record' = [status |-> "pending", msgs |-> Content(w), depth |-> Depth(w)]
          /\ same' = FALSE /\ held' = IF same THEN record ELSE held
      BY <1>7, <2>6 DEF Defer, DeferInto, Replace
    <3> QED
      BY <2>2, <2>1, <2>3, <2>4, <2>6, <3>1
  <2> QED
    BY <2>5, <2>6
<1>8. ASSUME NEW w \in Workers, Leave(w) PROVE RetryKeepsMessages'
  BY <1>8, NoRecordTyped DEF Leave, Go, Ended, dispatch, turns, bounds, history
<1>9. ASSUME NEW w \in Workers, Raise(w) PROVE RetryKeepsMessages'
  BY <1>9, NoRecordTyped DEF Raise, Go, dispatch, turns, bounds, history
<1>10. ASSUME NEW p \in Passes, OnSuccess(p) PROVE RetryKeepsMessages'
  BY <1>10, NoRecordTyped DEF OnSuccess, Replace, Forget, Go, dispatch, turns, bounds, history
<1>11. ASSUME NEW p \in Passes, OnFailure(p) PROVE RetryKeepsMessages'
  BY <1>11, NoRecordTyped DEF OnFailure, Forget, Go, dispatch, turns, bounds, history
<1>12. ASSUME Collect PROVE RetryKeepsMessages'
  BY <1>12, NoRecordTyped DEF Collect, dispatch, turns, bounds, history
<1>13. ASSUME ExpireEarly PROVE RetryKeepsMessages'
  BY <1>13, NoRecordTyped DEF ExpireEarly, Ask, dispatch, turns, bounds, history
<1>14. ASSUME Check PROVE RetryKeepsMessages'
  BY <1>14, NoRecordTyped DEF Check, ToSleep, dispatch, turns, bounds, history
<1>15. ASSUME Expire PROVE RetryKeepsMessages'
  BY <1>15, NoRecordTyped DEF Expire, ToSleep, Ask, dispatch, turns, bounds, history
<1>16. ASSUME Fire PROVE RetryKeepsMessages'
  BY <1>16, NoRecordTyped DEF Fire, ToSleep, Ask, dispatch, turns, bounds, history
<1>17. ASSUME NEW p \in Passes, Submit(p) PROVE RetryKeepsMessages'
  BY <1>17, NoRecordTyped DEF Submit, Go, ToSleep, Collected, dispatch, turns, bounds, history
<1>18. ASSUME SubmitFails PROVE RetryKeepsMessages'
  BY <1>18, NoRecordTyped DEF SubmitFails, ToSleep, Ask, dispatch, turns, bounds, history
<1>19. ASSUME NEW s \in Savers, SaveBegin(s) PROVE RetryKeepsMessages'
  BY <1>19, NoRecordTyped DEF SaveBegin, dispatch, turns, bounds, history
<1>20. ASSUME NEW s \in Savers, SaveEnd(s) PROVE RetryKeepsMessages'
  BY <1>20, NoRecordTyped DEF SaveEnd, dispatch, turns, bounds, history
<1>21. ASSUME Crash PROVE RetryKeepsMessages'
  BY <1>21, NoRecordTyped DEF Crash, ToSleep, dispatch, turns, bounds, history
<1>22. ASSUME UNCHANGED vars PROVE RetryKeepsMessages'
  BY <1>22, NoRecordTyped DEF vars, dispatch, turns, bounds, history
<1> HIDE DEF DeferInv, TypeOK, Live, UnderWay, Workers, Savers, Records, RetryKeepsMessages, Untouched
<1> QED
  BY <1>1, <1>2, <1>3, <1>4, <1>5, <1>6, <1>7, <1>8, <1>9, <1>10, <1>11,
     <1>12, <1>13, <1>14, <1>15, <1>16, <1>17, <1>18, <1>19, <1>20, <1>21, <1>22
  DEF Next, BatchStep, Turn, Callback, DispatchStep, SaveStep

\* Nothing but a cancellation comes between the looks of the dispatch thread.
LEMMA UntouchedStep == DeferInv /\ [Next]_vars => Untouched'
<1> SUFFICES ASSUME DeferInv, [Next]_vars PROVE Untouched'
  OBVIOUS
<1> USE DeferralAssumption DEF DeferInv, TypeOK, Live, UnderWay, Workers, Savers, Records, RetryKeepsMessages, Untouched
<1>1. ASSUME NEW b \in Batches, Arrive(b) PROVE Untouched'
  BY <1>1, NoRecordTyped DEF Arrive, Go, dispatch, turns, bounds, history
<1>2. ASSUME NEW b \in Batches, NEW m \in b, AddMessage(b, m) PROVE Untouched'
  BY <1>2, NoRecordTyped DEF AddMessage, Ask, Quiet, dispatch, turns, bounds, history
<1>3. ASSUME NEW b \in Batches, Absorbed(b) PROVE Untouched'
  BY <1>3, NoRecordTyped DEF Absorbed, Go, dispatch, turns, bounds, history
<1>4. ASSUME NEW b \in Batches, PartlyAbsorbed(b) PROVE Untouched'
  BY <1>4, NoRecordTyped DEF PartlyAbsorbed, Go, Ask, dispatch, turns, bounds, history
<1>5. ASSUME NEW w \in Workers, Enter(w) PROVE Untouched'
  BY <1>5, NoRecordTyped DEF Enter, Go, dispatch, turns, bounds, history
<1>6. ASSUME NEW w \in Workers, Reply(w) PROVE Untouched'
  BY <1>6, NoRecordTyped DEF Reply, Go, Ended, dispatch, turns, bounds, history
<1>7. ASSUME NEW w \in Workers, Defer(w) PROVE Untouched'
  <2>1. step[w] = "agent" /\ step' = [step EXCEPT ![w] = "leave"] /\ Depth(w) < MaxDepth
    BY <1>7 DEF Defer, DeferInto, Go
  <2>2. Content(w) \in SUBSET Messages /\ Content(w) # {} /\ Depth(w) \in Nat
    BY <2>1, ContentTyped
  <2>3. UNCHANGED <<disp, pass, file, image, cut>>
    BY <1>7 DEF Defer, DeferInto, turns
  <2>4. \A p \in Passes : UnderWay(p)' = UnderWay(p)
    BY <2>1
  <2>5. CASE record.status \in {"pending", "firing"}
    <3>1. record' = [record EXCEPT !.msgs = @ \cup Content(w), !.depth = Depth(w)] /\ UNCHANGED <<same, held>>
      BY <1>7, <2>5 DEF Defer, DeferInto
    <3>2. record'.status = record.status /\ record'.depth = Depth(w) /\ record'.msgs = record.msgs \cup Content(w)
      BY <3>1
    <3> QED
      BY <2>2, <2>1, <2>3, <2>4, <2>5, <3>1, <3>2
  <2>6. CASE record.status \notin {"pending", "firing"}
    <3>1. /\ record' = [status |-> "pending", msgs |-> Content(w), depth |-> Depth(w)]
          /\ same' = FALSE /\ held' = IF same THEN record ELSE held
      BY <1>7, <2>6 DEF Defer, DeferInto, Replace
    <3> QED
      BY <2>2, <2>1, <2>3, <2>4, <2>6, <3>1
  <2> QED
    BY <2>5, <2>6
<1>8. ASSUME NEW w \in Workers, Leave(w) PROVE Untouched'
  BY <1>8, NoRecordTyped DEF Leave, Go, Ended, dispatch, turns, bounds, history
<1>9. ASSUME NEW w \in Workers, Raise(w) PROVE Untouched'
  BY <1>9, NoRecordTyped DEF Raise, Go, dispatch, turns, bounds, history
<1>10. ASSUME NEW p \in Passes, OnSuccess(p) PROVE Untouched'
  BY <1>10, NoRecordTyped DEF OnSuccess, Replace, Forget, Go, dispatch, turns, bounds, history
<1>11. ASSUME NEW p \in Passes, OnFailure(p) PROVE Untouched'
  BY <1>11, NoRecordTyped DEF OnFailure, Forget, Go, dispatch, turns, bounds, history
<1>12. ASSUME Collect PROVE Untouched'
  BY <1>12, NoRecordTyped DEF Collect, dispatch, turns, bounds, history
<1>13. ASSUME ExpireEarly PROVE Untouched'
  BY <1>13, NoRecordTyped DEF ExpireEarly, Ask, dispatch, turns, bounds, history
<1>14. ASSUME Check PROVE Untouched'
  BY <1>14, NoRecordTyped DEF Check, ToSleep, dispatch, turns, bounds, history
<1>15. ASSUME Expire PROVE Untouched'
  BY <1>15, NoRecordTyped DEF Expire, ToSleep, Ask, dispatch, turns, bounds, history
<1>16. ASSUME Fire PROVE Untouched'
  BY <1>16, NoRecordTyped DEF Fire, ToSleep, Ask, dispatch, turns, bounds, history
<1>17. ASSUME NEW p \in Passes, Submit(p) PROVE Untouched'
  BY <1>17, NoRecordTyped DEF Submit, Go, ToSleep, Collected, dispatch, turns, bounds, history
<1>18. ASSUME SubmitFails PROVE Untouched'
  BY <1>18, NoRecordTyped DEF SubmitFails, ToSleep, Ask, dispatch, turns, bounds, history
<1>19. ASSUME NEW s \in Savers, SaveBegin(s) PROVE Untouched'
  BY <1>19, NoRecordTyped DEF SaveBegin, dispatch, turns, bounds, history
<1>20. ASSUME NEW s \in Savers, SaveEnd(s) PROVE Untouched'
  BY <1>20, NoRecordTyped DEF SaveEnd, dispatch, turns, bounds, history
<1>21. ASSUME Crash PROVE Untouched'
  BY <1>21, NoRecordTyped DEF Crash, ToSleep, dispatch, turns, bounds, history
<1>22. ASSUME UNCHANGED vars PROVE Untouched'
  BY <1>22, NoRecordTyped DEF vars, dispatch, turns, bounds, history
<1> HIDE DEF DeferInv, TypeOK, Live, UnderWay, Workers, Savers, Records, RetryKeepsMessages, Untouched
<1> QED
  BY <1>1, <1>2, <1>3, <1>4, <1>5, <1>6, <1>7, <1>8, <1>9, <1>10, <1>11,
     <1>12, <1>13, <1>14, <1>15, <1>16, <1>17, <1>18, <1>19, <1>20, <1>21, <1>22
  DEF Next, BatchStep, Turn, Callback, DispatchStep, SaveStep

-------------------------------------------------------------------------------
LEMMA DeferInductive == Spec => []DeferInv
<1>1. Init => DeferInv
  <2> SUFFICES ASSUME Init PROVE DeferInv
    OBVIOUS
  <2> USE DeferralAssumption, NoRecordTyped DEF Init, UnderWay, Workers, Live
  <2>1. TypeOK
    <3>1. /\ record \in Records /\ held \in Records /\ file \in Records
          /\ image \in [Savers -> Records]
      OBVIOUS
    <3>2. pass \in [Passes -> [msgs : SUBSET Messages, depth : Nat]]
      OBVIOUS
    <3>3. /\ step \in [Workers -> Steps] /\ saving \in [Savers -> {"no", "asked", "writing"}]
          /\ \A p \in Passes : ~UnderWay(p)
      BY DEF Steps
    <3>4. /\ tried \in [Batches -> SUBSET Messages] /\ absorbed \in [Batches -> SUBSET Messages]
          /\ \A b \in Batches : absorbed[b] = {} /\ tried[b] = {}
      OBVIOUS
    <3>5. /\ due = FALSE /\ same = FALSE /\ disp = "idle" /\ failures = 0 /\ crashes = 0
          /\ cut = FALSE /\ owed = {} /\ ~Live
      OBVIOUS
    <3>6. failures \in 0 .. MaxFailures /\ crashes \in 0 .. MaxCrashes
      BY <3>5
    <3> HIDE DEF Init, Live, UnderWay, Workers
    <3> QED
      BY <3>1, <3>2, <3>3, <3>4, <3>5, <3>6 DEF TypeOK
  <2>2. SoundEverywhere /\ FiringIsWorkedOn /\ RetryKeepsMessages /\ Untouched
    BY DEF SoundEverywhere, FiringIsWorkedOn, RetryKeepsMessages, Untouched
  <2> QED
    BY <2>1, <2>2 DEF DeferInv
<1>2. DeferInv /\ [Next]_vars => DeferInv'
  BY TypeStep, SoundStep, WorkedOnStep, RetryStep, UntouchedStep DEF DeferInv
<1> QED
  BY <1>1, <1>2, PTL DEF Spec

\* Type correctness; among others, no pass is given an empty list of messages.
THEOREM DeferralTypes == Spec => []TypeOK
<1>1. DeferInv => TypeOK
  BY DEF DeferInv
<1> QED
  BY <1>1, DeferInductive, PTL

\* max_depth bounds the passes of a chat, through every path a depth can take,
\* the file and a restart included.
THEOREM DepthStaysBounded == Spec => []DepthBounded
<1>1. DeferInv => DepthBounded
  BY DEF DeferInv, SoundEverywhere, Sound, DepthBounded, Live
<1> QED
  BY <1>1, DeferInductive, PTL

\* A pass under way has the chat to itself, and its messages are in the record
\* for a retry, unless handle_batch() cancelled the record.
THEOREM RetriesKeepMessages == Spec => []RetryKeepsMessages
<1>1. DeferInv => RetryKeepsMessages
  BY DEF DeferInv
<1> QED
  BY <1>1, DeferInductive, PTL

\* No firing record is left without a thread that will release it.
THEOREM FiringRecordsAreWorkedOn == Spec => []FiringIsWorkedOn
<1>1. DeferInv => FiringIsWorkedOn
  BY DEF DeferInv
<1> QED
  BY <1>1, DeferInductive, PTL
===============================================================================
