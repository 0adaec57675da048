------------------------------ MODULE AgentGraph ------------------------------
(***************************************************************************)
(* One run of the agent: run_agent() of orchestration/runner.py over the   *)
(* compiled graph of orchestration/graph.py, the recovery nodes of         *)
(* orchestration/nodes/recovery.py, the mid-run extension, and             *)
(* recover_from_step_limit() of orchestration/phases.py.                   *)
(*                                                                         *)
(* The graph alternates call_model with process_tools; when a detector     *)
(* objects to the model's reply, a recovery node of that detector's name   *)
(* nudges the model and calls it again.  Two budgets bound that: a counter *)
(* of each detector, kept for the run, and a count of firings, kept for    *)
(* the user's turn.                                                        *)
(*                                                                         *)
(* A step is one node with the conditional edge after it.  The runner      *)
(* streams the graph up to four times, each in a phase with a step limit   *)
(* of its own; counters and messages carry over from phase to phase.       *)
(*                                                                         *)
(* Abstracted: texts, of which only the detectors' verdicts are kept; the  *)
(* message list, of which the last message, the newest assistant text      *)
(* before it and the arrival of unmarked human messages are kept; repairs  *)
(* and compression of what is sent to the model.  A detector gives the     *)
(* node and the router the same verdict, so a node's re-detection does not *)
(* fail.  Whether a text is a step-limit apology or speaks of more to come *)
(* is left open.                                                           *)
(***************************************************************************)
EXTENDS Integers, Sequences, FiniteSets

CONSTANTS
    Flaws,          \* the detectors that may object in this instance
    MaxFlaws,       \* bound: objections to one reply
    Limit           \* recursion_limit of each phase

\* The detectors in the order in which _route_after_model_decision() asks.
Cascade == << "phantom", "fabrication", "fabricated_action",
    "fabricated_quote", "sycophancy", "action_intent", "unverified_claim",
    "unverified_entity", "unsupported_quote", "version_scope",
    "unsupported_attribution", "corpus_attribution_mismatch",
    "entity_owner_mismatch", "topic_substitution", "noncanonical_fork",
    "synthesis_after_eviction" >>

Detectors == {Cascade[i] : i \in 1..Len(Cascade)}

\* These answer for the model when their retries are used up, and the
\* router asks them whatever their counters say.
SelfTerminating == {"phantom", "fabrication", "action_intent"}

\* _MAX_*_RETRIES
Retries == [d \in Detectors |->
    IF d \in SelfTerminating \cup {"corpus_attribution_mismatch"} THEN 3
    ELSE IF d \in {"unsupported_quote", "unsupported_attribution",
                   "entity_owner_mismatch", "topic_substitution"} THEN 2
    ELSE 1]

FiringCap == 4      \* _MAX_RECOVERY_FIRINGS_PER_TURN

Phases == {"main", "synth", "continue", "retry"}

ASSUME AgentGraphAssumption ==
    /\ Flaws \subseteq Detectors
    /\ MaxFlaws \in Nat
    /\ Limit \in [Phases -> Nat]

\* The last message: a human one, tool results, or the model's.
Messages == [kind : {"human", "tools", "ai"},
             text : BOOLEAN, calls : BOOLEAN, flaws : SUBSET Flaws]

Human       == [kind |-> "human", text |-> TRUE, calls |-> FALSE, flaws |-> {}]
ToolResults == [kind |-> "tools", text |-> TRUE, calls |-> FALSE, flaws |-> {}]
GiveUp(F)   == [kind |-> "ai", text |-> TRUE, calls |-> FALSE, flaws |-> F]

\* An assistant text in the list: none, of an earlier turn, or of this one,
\* with the objections the detectors have to it.
Texts == [from : {"none", "history", "turn"}, flaws : SUBSET Flaws]

\* What the model may answer.  Only the phantom detector looks at a reply
\* without text, and none at one with tool calls; the warning that
\* _apply_context_budget_guard() puts in the place of such a reply, and that
\* nobody is asked about either, is a text without flaws.
Replies ==
    {m \in [kind : {"ai"}, text : BOOLEAN, calls : BOOLEAN,
            flaws : {F \in SUBSET Flaws : Cardinality(F) <= MaxFlaws}] :
        /\ m.calls => m.flaws = {}
        /\ ~m.text => m.flaws \subseteq {"phantom"}}

\* "raised": a conditional edge named a node its path map does not have.
Nodes == Detectors \cup {"call_model", "process_tools", "end", "raised"}

Answers == {"none", "text", "stale", "salvage", "delegated", "cancelled",
            "error"}

VARIABLES
    node,       \* the node to run next
    last,       \* the last message
    said,       \* the newest assistant text before it
    kept,       \* Newest when the phase began
    count,      \* the retry counters of the run
    nudged,     \* incompleteness_nudge_given
    firings,    \* recovery_firings_this_turn
    fresh,      \* an unmarked human message came since the marker was taken
    steps,      \* nodes run in this phase
    phase,      \* which stream() of the runner
    extension,  \* ExtendRunState: "no", "continue" or "delegate"
    answer,     \* what run_agent() returned, "none" while it runs
    lone,       \* history: the detectors that fired since the user's message
    cut         \* history: what ended a phase over an objection, the cap on
                \*   firings ("cap") or the step limit ("limit")

vars == <<node, last, said, kept, count, nudged, firings, fresh, steps,
          phase, extension, answer, lone, cut>>

list    == <<last, said>>
budgets == <<count, nudged, firings, fresh>>
runner  == <<kept, phase, extension, answer>>
history == <<lone, cut>>

TypeOK ==
    /\ node \in Nodes /\ last \in Messages
    /\ said \in Texts /\ kept \in Texts
    /\ count \in [Detectors -> Nat] /\ nudged \in BOOLEAN
    /\ firings \in Nat /\ fresh \in BOOLEAN
    /\ steps \in Nat /\ phase \in Phases
    /\ extension \in {"no", "continue", "delegate"} /\ answer \in Answers
    /\ lone \in SUBSET Detectors /\ cut \in SUBSET {"cap", "limit"}

Init ==
    /\ node = "call_model" /\ last = Human
    /\ \E w \in {"none", "history"} : said = [from |-> w, flaws |-> {}]
    /\ kept = said
    /\ count = [d \in Detectors |-> 0] /\ nudged = FALSE
    /\ firings = 0 /\ fresh = TRUE
    /\ steps = 0 /\ phase = "main" /\ extension = "no" /\ answer = "none"
    /\ lone = {} /\ cut = {}

------------------------------------------------------------------------------
(* The message list *)

Spoken(m) == m.kind = "ai" /\ m.text

\* The newest assistant text, the last message included.
Newest ==
    IF Spoken(last) THEN [from |-> "turn", flaws |-> last.flaws] ELSE said

\* A message is added, or takes the place of the last one.
Add(m)     == last' = m /\ said' = Newest
Replace(m) == last' = m /\ UNCHANGED said

------------------------------------------------------------------------------
(* Routing *)

Running(n) ==
    /\ answer = "none" /\ node = n /\ n \notin {"end", "raised"}
    /\ steps < Limit[phase]
    /\ steps' = steps + 1

\* Defect: the router asks detectors with no retries left.
AskedAlways(d) == d \in Detectors

\* The router asks d: always, or while its retries are not used up.
Asked(d) == d \in SelfTerminating \/ count[d] <= Retries[d]

\* d is the first of the cascade that is asked and objects to m.
Objects(d, m) ==
    \E i \in 1..Len(Cascade) :
        /\ Cascade[i] = d /\ d \in m.flaws /\ Asked(d)
        /\ \A j \in 1..(i - 1) : ~(Cascade[j] \in m.flaws /\ Asked(Cascade[j]))

Accepted(m) == \A d \in m.flaws : ~Asked(d)

\* route_after_model(): the budget of firings first, then the cascade.  An
\* objection in the last step of a phase finds no step left for its node.
RouteAfterModel(m) ==
    LET used == IF fresh THEN 0 ELSE firings
    IN  /\ fresh' = FALSE
        /\ \/ /\ used >= FiringCap
              /\ node' = "end" /\ firings' = used /\ cut' = cut \cup {"cap"}
              /\ UNCHANGED lone
           \/ /\ used < FiringCap
              /\ \/ m.calls /\ node' = "process_tools"
                 \/ ~m.calls /\ Accepted(m) /\ node' = "end"
              /\ firings' = used
              /\ UNCHANGED history
           \/ /\ used < FiringCap /\ ~m.calls
              /\ \E d \in m.flaws :
                    /\ Objects(d, m)
                    /\ node' = d
                    /\ lone' = lone \cup {d}
              /\ firings' = used + 1
              /\ cut' = IF steps + 1 = Limit[phase] THEN cut \cup {"limit"} ELSE cut

------------------------------------------------------------------------------
(* The nodes *)

\* call_model(): the model answers.
CallModel ==
    /\ Running("call_model")
    /\ \E m \in Replies : Add(m) /\ RouteAfterModel(m)
    /\ UNCHANGED <<count, nudged, runner>>

\* maybe_apply_thinking_break(): its own call times out, the node adds no
\* message, and the router finds none of the model's.
BreakTimesOut ==
    /\ Running("call_model") /\ last.kind = "tools"
    /\ RouteAfterModel(last)
    /\ UNCHANGED <<list, count, nudged, runner>>

\* process_tools(): every call is answered; expansion, guidance and rewrite
\* notes are human messages without the marker of the recovery nodes.  A tool
\* may be extend_run, which is heeded after the first stream only.
ProcessTools ==
    /\ Running("process_tools")
    /\ \/ Add(ToolResults) /\ UNCHANGED fresh
       \/ Add(Human) /\ fresh' = TRUE
    /\ extension' \in
         IF phase = "main" THEN {extension, "continue", "delegate"} ELSE {extension}
    /\ node' = "call_model"
    /\ UNCHANGED <<kept, count, nudged, firings, phase, answer, history>>

\* synthesize_answer_from_state(): tool results or findings, else the newest
\* text that is long enough, which may be the one objected to.
Synthesized == {GiveUp(F) : F \in {{}, Newest.flaws, said.flaws}}

\* build_handle_phantom_node() and handle_fabrication(): the reply goes; only
\* the nudge of the first is marked, and the second gives up with fixed words.
HandleRemoving(d) ==
    /\ d \in {"phantom", "fabrication"} /\ Running(d)
    /\ count' = [count EXCEPT ![d] = @ + 1]
    /\ IF count[d] >= Retries[d]
       THEN /\ \E m \in IF d = "phantom" THEN Synthesized ELSE {GiveUp({})} :
                    Replace(m)
            /\ node' = "end" /\ UNCHANGED fresh
       ELSE /\ Replace(Human) /\ node' = "call_model"
            /\ fresh' = (fresh \/ d = "fabrication")
    /\ UNCHANGED <<nudged, firings, runner, history>>

\* build_handle_action_intent_node() and route_after_action_intent(): the
\* reply stays and is nudged; in the end it is replaced.  If what replaces it
\* still speaks of more to come, the edge names handle_incompleteness, which
\* its path map lacks: the graph raises, and the node's writes are lost.
HandleActionIntent ==
    /\ Running("action_intent")
    /\ count' = [count EXCEPT !["action_intent"] = @ + 1]
    /\ \/ /\ count["action_intent"] < Retries["action_intent"]
          /\ Add(Human) /\ node' = "call_model" /\ UNCHANGED nudged
       \/ /\ count["action_intent"] >= Retries["action_intent"]
          /\ \E m \in Synthesized : Replace(m)
          /\ node' = "end" /\ UNCHANGED nudged
       \/ /\ count["action_intent"] >= Retries["action_intent"] /\ ~nudged
          /\ node' = "raised" /\ nudged' = TRUE
          /\ UNCHANGED list
    /\ UNCHANGED <<firings, fresh, runner, history>>

\* Defect: the retries are taken to be used up one too early.
HandleRevisionEarly(d) ==
    /\ d \notin SelfTerminating /\ Running(d)
    /\ count' = [count EXCEPT ![d] = @ + 1]
    /\ IF count[d] + 1 >= Retries[d]
       THEN node' = "end" /\ UNCHANGED <<last, said>>
       ELSE node' = "call_model" /\ Replace(Human)
    /\ UNCHANGED <<nudged, firings, fresh, runner, history>>

\* The other nodes: the reply goes and a nudge comes, until the retries are
\* used up; then it ships as it is.
HandleRevision(d) ==
    /\ d \notin SelfTerminating /\ Running(d)
    /\ count' = [count EXCEPT ![d] = @ + 1]
    /\ IF count[d] >= Retries[d]
       THEN node' = "end" /\ UNCHANGED <<last, said>>
       ELSE node' = "call_model" /\ Replace(Human)
    /\ UNCHANGED <<nudged, firings, fresh, runner, history>>

------------------------------------------------------------------------------
(* The runner *)

OverLimit == node \notin {"end", "raised"} /\ steps = Limit[phase]
Ended     == node = "end"

\* The graph is streamed again, with an unmarked human message of the
\* runner's at the end of what there was.
Stream(p, newest) ==
    /\ last' = Human /\ said' = newest /\ kept' = newest /\ fresh' = TRUE
    /\ phase' = p /\ steps' = 0 /\ node' = "call_model"
    /\ UNCHANGED <<count, nudged, firings, extension, answer, lone, cut>>

\* run_agent() returns, or raises.
Return(a) ==
    /\ answer' = a
    /\ UNCHANGED <<node, list, budgets, steps, kept, phase, extension,
                   lone, cut>>

\* extract_response(), given all messages: what the user is told.
Extracted == IF Newest.from = "turn" THEN "text" ELSE "stale"

\* run_agent() after its stream: an extension asked for is honoured however
\* the stream ended; else the text of this turn, unless it is a step-limit
\* apology (is_step_limit_apology()); else the recovery.
AfterMain ==
    /\ answer = "none" /\ phase = "main" /\ (Ended \/ OverLimit)
    /\ \/ extension = "continue" /\ Stream("continue", Newest)
       \/ extension = "delegate" /\ Stream("synth", Newest)
       \/ extension = "no" /\ Ended /\ Newest.from = "turn" /\ Return("text")
       \/ extension = "no" /\ Stream("retry", Newest)

\* _handle_extend_run(), mode delegate: the sub-agents found nothing or
\* failed, and the run continues instead.
DelegationFails ==
    /\ answer = "none" /\ phase = "main" /\ (Ended \/ OverLimit)
    /\ extension = "delegate"
    /\ Stream("continue", Newest)

\* The same, after the synthesis: any text there is, else the raw results.
AfterSynth ==
    /\ answer = "none" /\ phase = "synth"
    /\ \/ Ended /\ Newest.from # "none" /\ Return(Extracted)
       \/ (OverLimit \/ (Ended /\ Newest.from = "none")) /\ Return("delegated")

\* Defect: a continuation that runs out of steps is extended again.
AfterContinueAgain ==
    /\ answer = "none" /\ phase = "continue"
    /\ \/ Ended /\ Newest.from # "none" /\ Return(Extracted)
       \/ OverLimit /\ Stream("continue", Newest)
       \/ Ended /\ Newest.from = "none" /\ Stream("retry", Newest)

\* The same as AfterSynth, after the continuation.
AfterContinue ==
    /\ answer = "none" /\ phase = "continue"
    /\ \/ Ended /\ Newest.from # "none" /\ Return(Extracted)
       \/ /\ OverLimit \/ (Ended /\ Newest.from = "none")
          /\ Stream("retry", Newest)

\* recover_from_step_limit() after its retry, which may have hit its limit.
\* Without any text but an apology it makes do with tool results, partial
\* results, or a fixed apology.
AfterRetry ==
    /\ answer = "none" /\ phase = "retry" /\ (Ended \/ OverLimit)
    /\ \/ Newest.from # "none" /\ Return(Extracted)
       \/ Return("salvage")

\* A stream ends with an exception: the retry makes do without it, a synthesis
\* is given up with what it said and the run continues, anything else ends the
\* run.
StreamFails ==
    \/ phase = "retry" /\ Return("salvage")
    \/ phase = "synth" /\ Stream("continue", kept)
    \/ phase \in {"main", "continue"} /\ Return("error")

\* The model raises.
ModelFails ==
    /\ answer = "none" /\ node = "call_model" /\ steps < Limit[phase]
    /\ StreamFails

\* The KeyError of a conditional edge comes out of the stream.
EdgeFails == answer = "none" /\ node = "raised" /\ StreamFails

\* A tool raises UserCancelledRun.  run_agent() and the recovery let it pass;
\* around the synthesis it is one more Exception.
Cancel ==
    /\ answer = "none" /\ node = "process_tools" /\ steps < Limit[phase]
    /\ IF phase = "synth" THEN Stream("continue", kept) ELSE Return("cancelled")

------------------------------------------------------------------------------

Recover ==
    \/ \E d \in Detectors : HandleRemoving(d) \/ HandleRevision(d)
    \/ HandleActionIntent

Runner ==
    \/ AfterMain \/ DelegationFails \/ AfterSynth \/ AfterContinue
    \/ AfterRetry \/ ModelFails \/ EdgeFails \/ Cancel

Next ==
    \/ CallModel \/ BreakTimesOut \/ ProcessTools
    \/ Recover
    \/ Runner

Spec == Init /\ [][Next]_vars

\* run_agent() is a loop in one thread: while it runs, a step is taken.
FairSpec == Spec /\ WF_vars(Next)
------------------------------------------------------------------------------
(* Properties *)

\* How many streams came before this one, at most.
Earlier == CASE phase = "main" -> 0 [] phase = "synth" -> 1
             [] phase = "continue" -> 2 [] phase = "retry" -> 3

\* A detector cannot keep a run going: one that gives up is asked no more,
\* and one that answers for the model ends the stream each time it is asked
\* again.  This bounds the recoveries of a run also where unmarked messages
\* reset the other budget.
RecoveriesBounded ==
    \A d \in Detectors :
        count[d] <= Retries[d] + 1
                    + (IF d \in SelfTerminating THEN Earlier ELSE 0)

\* The cap on firings sits above the retries of every single detector
\* (comment at _MAX_RECOVERY_FIRINGS_PER_TURN): it never cuts off the answer
\* a lone misfiring detector would have given in the end.
CapSparesLoneDetector == "cap" \in cut => \A d \in Detectors : ~(lone \subseteq {d})

\* What the user is told is a text some detector objects to only when that
\* objection, or another to the same text, was raised as often as its retries
\* allow, unless a phase ended over an objection nobody answered.  Two kinds of
\* text go out sooner or in spite of that.  An announcement of more to come
\* stays in the list when it is nudged, so one nudge is enough for it to be the
\* answer if nothing follows.  And phantom's own give-up may repeat the reply
\* it removes; a phantom call or a false report of success goes out in no other
\* way.  Texts beside tool calls are nobody's to object to.
FlaggedTextIsLastResort ==
    (answer = "text" /\ cut = {}) =>
        LET F == Newest.flaws
        IN  /\ \/ F = {}
               \/ \E d \in F : count[d] > Retries[d]
               \/ "action_intent" \in F /\ count["action_intent"] > 0
            /\ \/ F \cap {"phantom", "fabrication"} = {}
               \/ "phantom" \in F /\ count["phantom"] > Retries["phantom"]

\* The chance that is counted is given: when route_after_action_intent() has
\* taken its one incompleteness nudge ("Give exactly one more chance with a
\* targeted nudge."), the run goes on to give it.
LastChanceIsGiven == [][~nudged /\ nudged' => node' # "raised"]_vars

\* Every run ends, whatever the model does: extension, continuation and
\* recovery do not feed each other.
RunEnds == <>(answer # "none")
===============================================================================
