---------------------------- MODULE AgentGraphProofs ----------------------------
(***************************************************************************)
(* Proofs about AgentGraph: for every set of detectors that may object, in *)
(* any combination, and any step limits.                                   *)
(*                                                                         *)
(* The bounds on recoveries need the node in the invariant: a counter may  *)
(* pass its retries only on the way out of a stream.  The comparison of    *)
(* the cap with a lone detector needs what the two budgets count in common *)
(* since the marker was last taken.  What the user is told may be an older *)
(* text than the last, so every assistant text of the list is vetted.      *)
(***************************************************************************)
EXTENDS AgentGraph, TLAPS

One(condition) == IF condition THEN 1 ELSE 0

\* The counters: one beyond the retries where the stream ended, of those that
\* answer for the model once more for every stream that began after that.
Counted ==
    \A d \in Detectors :
        IF d \in SelfTerminating
        THEN count[d] <= Retries[d] + Earlier + One(node \in {"end", "raised"})
        ELSE /\ count[d] <= Retries[d] + 1
             /\ node = d => count[d] <= Retries[d]

\* The firings since the marker, if d alone fired: each was counted by d too,
\* but the one whose node runs next.
Window ==
    /\ node \in Detectors => node \in lone
    /\ \A d \in Detectors :
          (lone \subseteq {d} /\ ~fresh /\ node \notin {"end", "raised"}) =>
              /\ firings <= count[d] + One(node \in Detectors)
              /\ firings > One(node \in Detectors) => count[d] <= Retries[d]
    /\ "cap" \in cut => \A d \in Detectors : ~(lone \subseteq {d})

Final == {"phantom", "fabrication"}

\* A text with these objections may be the answer.
Shippable(F) ==
    /\ \/ F = {}
       \/ \E d \in F : count[d] > Retries[d]
       \/ "action_intent" \in F /\ count["action_intent"] > 0
    /\ \/ F \cap Final = {}
       \/ "phantom" \in F /\ count["phantom"] > Retries["phantom"]

\* A detector's node runs on a reply it objects to, and has a step to run in;
\* no other text in the list but the reply of such a node is unfit to be told.
Vetted ==
    /\ last.kind # "ai" => last.flaws = {}
    /\ node \in Detectors =>
          /\ node \in last.flaws
          /\ node \notin Final => last.flaws \cap Final = {}
          /\ steps = Limit[phase] => cut # {}
    /\ cut = {} =>
          /\ Shippable(said.flaws) /\ Shippable(kept.flaws)
          /\ node \notin Detectors \cup {"raised"} => Shippable(last.flaws)
          /\ answer = "text" => Shippable(Newest.flaws)

GraphInv == TypeOK /\ Counted /\ Window /\ Vetted

-------------------------------------------------------------------------------
LEMMA CascadeFacts ==
    /\ Len(Cascade) = 16 /\ Cascade[1] = "phantom" /\ Cascade[2] = "fabrication"
    /\ SelfTerminating \subseteq Detectors
    /\ {"call_model", "process_tools", "end", "raised"} \cap Detectors = {}
<1>1. Len(Cascade) = 16 /\ Cascade[1] = "phantom" /\ Cascade[2] = "fabrication" /\ Cascade[6] = "action_intent"
  BY DEF Cascade
<1>2. \A i \in 1 .. 16 : Cascade[i] \notin {"call_model", "process_tools", "end", "raised"}
  BY DEF Cascade
<1>3. {"phantom", "fabrication", "action_intent"} \subseteq {Cascade[i] : i \in 1 .. 16}
  BY <1>1
<1> QED
  BY <1>1, <1>2, <1>3 DEF Detectors, SelfTerminating

LEMMA RetriesFacts ==
    /\ Retries \in [Detectors -> 1 .. 3]
    /\ \A d \in SelfTerminating : Retries[d] = 3
  BY CascadeFacts DEF Retries

\* The two detectors that are always asked are asked first.
LEMMA FinalFirst ==
    ASSUME NEW m \in Messages, NEW d \in m.flaws, Objects(d, m), d \notin Final
    PROVE  m.flaws \cap Final = {}
<1>1. PICK i \in 1 .. 16 : /\ Cascade[i] = d
                           /\ \A j \in 1 .. (i - 1) : ~(Cascade[j] \in m.flaws /\ Asked(Cascade[j]))
  BY CascadeFacts DEF Objects
<1>2. i > 2
  BY <1>1, CascadeFacts DEF Final
<1>3. 1 \in 1 .. (i - 1) /\ 2 \in 1 .. (i - 1)
  BY <1>2
<1> QED
  BY <1>1, <1>3, CascadeFacts DEF Asked, SelfTerminating, Final

LEMMA MessagesTyped ==
    /\ Human \in Messages /\ ToolResults \in Messages
    /\ \A F \in SUBSET Flaws : GiveUp(F) \in Messages /\ GiveUp(F).flaws = F /\ GiveUp(F).kind = "ai"
    /\ Replies \subseteq Messages /\ \A m \in Replies : m.kind = "ai" /\ (m.calls => m.flaws = {})
    /\ Human.flaws = {} /\ ToolResults.flaws = {}
    /\ Human.kind = "human" /\ ToolResults.kind = "tools"
  BY DEF Messages, Human, ToolResults, GiveUp, Replies

LEMMA NewestTyped ==
    ASSUME said \in Texts, last \in Messages
    PROVE  /\ Newest \in Texts
           /\ Newest.flaws \in {last.flaws, said.flaws}
           /\ last.flaws \in SUBSET Flaws /\ said.flaws \in SUBSET Flaws
  BY DEF Newest, Texts, Messages, Spoken

\* What a give-up puts in the place of a reply has the flaws of a text there is.
LEMMA SynthesizedTyped ==
    ASSUME said \in Texts, last \in Messages, NEW m \in Synthesized
    PROVE  /\ m \in Messages /\ m.kind = "ai"
           /\ m.flaws \in {{}, last.flaws, said.flaws}
<1>1. PICK F \in {{}, Newest.flaws, said.flaws} : m = GiveUp(F)
  BY DEF Synthesized
<1>2. F \in {{}, last.flaws, said.flaws} /\ F \in SUBSET Flaws
  BY <1>1, NewestTyped
<1> QED
  BY <1>1, <1>2, MessagesTyped

\* The counters only grow, so what may be told stays so.
LEMMA ShippableKept ==
    ASSUME count \in [Detectors -> Nat], count' \in [Detectors -> Nat],
           \A d \in Detectors : count'[d] >= count[d],
           NEW F \in SUBSET Flaws, Shippable(F)
    PROVE  Shippable(F)'
<1>1. F \subseteq Detectors /\ "phantom" \in Detectors /\ "action_intent" \in Detectors
  BY AgentGraphAssumption, CascadeFacts DEF SelfTerminating
<1>2. \A d \in Detectors : /\ count[d] > Retries[d] => count'[d] > Retries[d]
                           /\ count[d] > 0 => count'[d] > 0
  <2> SUFFICES ASSUME NEW d \in Detectors
               PROVE  /\ count[d] > Retries[d] => count'[d] > Retries[d]
                      /\ count[d] > 0 => count'[d] > 0
    OBVIOUS
  <2>1. count[d] \in Nat /\ count'[d] \in Nat /\ Retries[d] \in Nat /\ count'[d] >= count[d]
    BY RetriesFacts
  <2> QED
    BY <2>1
<1> QED
  BY <1>1, <1>2 DEF Shippable

\* route_after_model() by its three outcomes: cut off, let go, or objected to.
Used == IF fresh THEN 0 ELSE firings

LEMMA Routed ==
    ASSUME NEW m, RouteAfterModel(m)
    PROVE  /\ fresh' = FALSE
           /\ \/ /\ Used >= 4 /\ node' = "end" /\ firings' = Used
                 /\ cut' = cut \cup {"cap"} /\ lone' = lone
              \/ /\ (m.calls /\ node' = "process_tools") \/ (node' = "end" /\ Accepted(m))
                 /\ firings' = Used /\ cut' = cut /\ lone' = lone
              \/ \E d \in m.flaws :
                    /\ Objects(d, m) /\ node' = d
                    /\ firings' = Used + 1 /\ lone' = lone \cup {d}
                    /\ cut' = IF steps + 1 = Limit[phase] THEN cut \cup {"limit"} ELSE cut
  BY DEF RouteAfterModel, FiringCap, Used, history

\* The counters are as they were, and a detector whose node comes next is asked.
LEMMA RoutedCounted ==
    ASSUME GraphInv, NEW m \in Messages, RouteAfterModel(m), node = "call_model",
           count' = count, phase' = phase
    PROVE  Counted'
<1>1. node' \in {"end", "process_tools"} \/ (node' \in m.flaws /\ Objects(node', m))
  BY Routed
<1>2. node' \in Detectors => node' \in SelfTerminating \/ count[node'] <= Retries[node']
  BY <1>1, CascadeFacts DEF Objects, Asked
<1>3. count \in [Detectors -> Nat] /\ Earlier' = Earlier /\ Earlier \in 0 .. 3
  BY DEF GraphInv, TypeOK, Earlier, Phases
<1>4. One(node \in {"end", "raised"}) = 0 /\ One(node' \in {"end", "raised"}) \in {0, 1}
  BY DEF One
<1>5. ASSUME NEW d \in Detectors, d \in SelfTerminating
      PROVE  count[d] <= Retries[d] + Earlier + One(node' \in {"end", "raised"})
  <2>1. count[d] <= Retries[d] + Earlier + One(node \in {"end", "raised"})
    BY <1>5 DEF GraphInv, Counted
  <2>2. Retries[d] \in Nat /\ count[d] \in Nat
    BY <1>3, RetriesFacts
  <2> QED
    BY <2>1, <2>2, <1>3, <1>4
<1>6. ASSUME NEW d \in Detectors, d \notin SelfTerminating
      PROVE  count[d] <= Retries[d] + 1 /\ (node' = d => count[d] <= Retries[d])
  BY <1>2, <1>6 DEF GraphInv, Counted
<1> QED
  BY <1>3, <1>5, <1>6 DEF Counted

LEMMA RoutedWindow ==
    ASSUME GraphInv, NEW m \in Messages, RouteAfterModel(m), node = "call_model", count' = count
    PROVE  Window'
<1>1. count \in [Detectors -> Nat] /\ firings \in Nat /\ m.flaws \subseteq Detectors
  BY AgentGraphAssumption DEF GraphInv, TypeOK, Messages
<1>2. node \notin Detectors /\ node \notin {"end", "raised"} /\ One(node \in Detectors) = 0
  BY CascadeFacts DEF One
<1>3. \A d \in Detectors : lone \subseteq {d} =>
         Used <= count[d] /\ (Used > 0 => count[d] <= Retries[d]) /\ Used <= 3 /\ Used \in Nat
  <2> SUFFICES ASSUME NEW d \in Detectors, lone \subseteq {d}
               PROVE  Used <= count[d] /\ (Used > 0 => count[d] <= Retries[d]) /\ Used <= 3 /\ Used \in Nat
    OBVIOUS
  <2>1. count[d] \in Nat /\ Retries[d] \in 1 .. 3
    BY <1>1, RetriesFacts
  <2>2. CASE fresh
    BY <2>1, <2>2 DEF Used
  <2>3. CASE ~fresh
    <3>1. firings <= count[d] /\ (firings > 0 => count[d] <= Retries[d])
      BY <1>1, <1>2, <2>1, <2>3 DEF GraphInv, Window
    <3> QED
      BY <1>1, <2>1, <2>3, <3>1 DEF Used
  <2> QED
    BY <2>2, <2>3
<1>4. CASE Used >= 4 /\ node' = "end" /\ cut' = cut \cup {"cap"} /\ lone' = lone
  <2>1. \A d \in Detectors : ~(lone \subseteq {d})
    BY <1>3, <1>4
  <2> QED
    BY <1>4, <2>1, CascadeFacts DEF Window
<1>5. CASE /\ (m.calls /\ node' = "process_tools") \/ (node' = "end" /\ Accepted(m))
           /\ firings' = Used /\ cut' = cut /\ lone' = lone
  <2>1. node' \notin Detectors /\ One(node' \in Detectors) = 0
    BY <1>5, CascadeFacts DEF One
  <2>2. QED
    <3>1. \A d \in Detectors : lone \subseteq {d} =>
             Used <= count[d] + One(node' \in Detectors) /\ (Used > One(node' \in Detectors) => count[d] <= Retries[d])
      BY <1>1, <1>3, <2>1
    <3>2. "cap" \in cut => \A d \in Detectors : ~(lone \subseteq {d})
      BY DEF GraphInv, Window
    <3> QED
      BY <1>5, <2>1, <3>1, <3>2 DEF Window
<1>6. CASE \E d \in m.flaws :
              /\ Objects(d, m) /\ node' = d
              /\ firings' = Used + 1 /\ lone' = lone \cup {d}
              /\ cut' = IF steps + 1 = Limit[phase] THEN cut \cup {"limit"} ELSE cut
  <2>1. /\ node' \in Detectors /\ node' \in lone' /\ lone \subseteq lone'
        /\ firings' = Used + 1 /\ ("cap" \in cut' <=> "cap" \in cut)
    BY <1>1, <1>6
  <2>2. One(node' \in Detectors) = 1
    BY <2>1 DEF One
  <2>3. ASSUME NEW d \in Detectors, lone' \subseteq {d}
        PROVE  /\ firings' <= count[d] + 1
               /\ firings' > 1 => count[d] <= Retries[d]
    <3>1. lone \subseteq {d}
      BY <2>1, <2>3
    <3>2. Used <= count[d] /\ (Used > 0 => count[d] <= Retries[d]) /\ Used \in Nat /\ count[d] \in Nat
      BY <1>1, <1>3, <3>1
    <3> QED
      BY <2>1, <3>2
  <2>4. "cap" \in cut' => \A d \in Detectors : ~(lone' \subseteq {d})
    BY <2>1 DEF GraphInv, Window
  <2> QED
    BY <2>1, <2>2, <2>3, <2>4 DEF Window
<1> QED
  BY <1>4, <1>5, <1>6, Routed

LEMMA RoutedVetted ==
    ASSUME GraphInv, NEW m \in Messages, RouteAfterModel(m), node = "call_model", answer = "none",
           last' = m, said' \in {Newest, said}, count' = count, kept' = kept, answer' = answer,
           phase' = phase, steps' = steps + 1,
           m.kind # "ai" => m.flaws = {}, m.calls => m.flaws = {}
    PROVE  Vetted'
<1>1. m.flaws \subseteq Detectors /\ count \in [Detectors -> Nat]
  BY AgentGraphAssumption DEF GraphInv, TypeOK, Messages
<1>2. cut = {} => Shippable(said'.flaws) /\ Shippable(kept.flaws)
  <2>1. Newest.flaws \in {last.flaws, said.flaws}
    BY NewestTyped DEF GraphInv, TypeOK
  <2> QED
    BY <2>1, CascadeFacts DEF GraphInv, Vetted
<1>3. \A F : Shippable(F)' <=> Shippable(F)
  BY DEF Shippable
<1>4. SUFFICES ASSUME cut' = {} \/ node' \in Detectors
               PROVE  /\ node' \in Detectors => /\ node' \in m.flaws
                                                /\ node' \notin Final => m.flaws \cap Final = {}
                                                /\ steps + 1 = Limit[phase] => cut' # {}
                      /\ cut' = {} => cut = {} /\ (node' \notin Detectors \cup {"raised"} => Shippable(m.flaws))
  <2>1. cut' = {} => Shippable(said.flaws)' /\ Shippable(kept.flaws)'
    BY <1>2, <1>3, <1>4
  <2> QED
    BY <1>3, <1>4, <2>1 DEF Vetted
<1>5. CASE Used >= 4 /\ node' = "end" /\ cut' = cut \cup {"cap"}
  BY <1>5, CascadeFacts
<1>6. CASE ((m.calls /\ node' = "process_tools") \/ (node' = "end" /\ Accepted(m))) /\ cut' = cut
  <2>1. Accepted(m) => \A d \in m.flaws : count[d] > Retries[d] /\ d \notin Final
    BY <1>1, RetriesFacts DEF Accepted, Asked, Final, SelfTerminating
  <2>2. Shippable(m.flaws)
    BY <1>6, <2>1 DEF Shippable
  <2> QED
    BY <1>6, <2>2, CascadeFacts
<1>7. CASE \E d \in m.flaws : /\ Objects(d, m) /\ node' = d
                              /\ cut' = IF steps + 1 = Limit[phase] THEN cut \cup {"limit"} ELSE cut
  <2>1. PICK d \in m.flaws : Objects(d, m) /\ node' = d
    BY <1>7
  <2>2. d \notin Final => m.flaws \cap Final = {}
    BY <2>1, FinalFirst
  <2>3. steps + 1 = Limit[phase] => cut' # {}
    BY <1>7
  <2>4. cut' = {} => cut = {}
    BY <1>7
  <2> QED
    BY <1>1, <2>1, <2>2, <2>3, <2>4
<1> QED
  BY <1>5, <1>6, <1>7, Routed

LEMMA RoutedTyped ==
    ASSUME GraphInv, NEW m \in Messages, RouteAfterModel(m)
    PROVE  node' \in Nodes /\ firings' \in Nat /\ fresh' \in BOOLEAN /\ lone' \in SUBSET Detectors
           /\ cut' \in SUBSET {"cap", "limit"}
<1>1. Used \in Nat /\ m.flaws \subseteq Detectors /\ lone \in SUBSET Detectors
      /\ cut \in SUBSET {"cap", "limit"}
  BY AgentGraphAssumption DEF GraphInv, TypeOK, Used, Messages
<1>2. Used + 1 \in Nat /\ \A d \in m.flaws : lone \cup {d} \in SUBSET Detectors
  BY <1>1
<1>3. node' \in {"end", "process_tools"} \cup m.flaws /\ firings' \in {Used, Used + 1}
  BY Routed
<1>4. cut' \in {cut, cut \cup {"cap"}, cut \cup {"limit"}} /\ fresh' = FALSE
  BY Routed
<1>5. lone' = lone \/ \E d \in m.flaws : lone' = lone \cup {d}
  BY Routed
<1> QED
  BY <1>1, <1>2, <1>3, <1>4, <1>5 DEF Nodes

LEMMA CountTyped ==
    ASSUME count \in [Detectors -> Nat], NEW d \in Detectors, count' = [count EXCEPT ![d] = @ + 1]
    PROVE  /\ count' \in [Detectors -> Nat] /\ count'[d] = count[d] + 1
           /\ \A e \in Detectors : e # d => count'[e] = count[e]
  OBVIOUS

\* The runner streams the graph again, later in the order of its phases, or
\* returns; it takes what a stream said only when that is over.
LEMMA RunnerSteps ==
    ASSUME Runner
    PROVE  /\ answer = "none"
           /\ \/ /\ \E p \in Phases, t \in {Newest, kept} :
                       Stream(p, t) /\ phase' = p /\ (t = kept \/ Ended \/ OverLimit)
                 /\ Earlier' >= Earlier + 1 /\ Earlier \in 0 .. 3 /\ Earlier' \in 0 .. 3
              \/ \E a \in Answers : Return(a) /\ (a = "text" => Ended \/ OverLimit)
<1>1. CASE AfterMain
  BY <1>1 DEF AfterMain, Stream, Return, Phases, Answers, Earlier
<1>2. CASE DelegationFails
  BY <1>2 DEF DelegationFails, Stream, Phases, Earlier
<1>3. CASE AfterSynth
  BY <1>3 DEF AfterSynth, Answers, Extracted
<1>4. CASE AfterContinue
  BY <1>4 DEF AfterContinue, Stream, Phases, Answers, Earlier, Extracted
<1>5. CASE AfterRetry
  BY <1>5 DEF AfterRetry, Answers, Extracted
<1>6. CASE ModelFails
  BY <1>6 DEF ModelFails, StreamFails, Stream, Phases, Answers, Earlier
<1>7. CASE EdgeFails
  BY <1>7 DEF EdgeFails, StreamFails, Stream, Phases, Answers, Earlier
<1>8. CASE Cancel
  BY <1>8 DEF Cancel, Stream, Phases, Answers, Earlier
<1> QED
  BY <1>1, <1>2, <1>3, <1>4, <1>5, <1>6, <1>7, <1>8 DEF Runner

\* The node of d counts one more: on the way out of the stream, or with
\* retries left.
LEMMA CountedKept ==
    ASSUME GraphInv, NEW d \in Detectors, node = d, d \notin {"end", "raised"}, phase' = phase,
           count' \in [Detectors -> Nat], count'[d] = count[d] + 1,
           \A e \in Detectors : e # d => count'[e] = count[e],
           node' \in {"end", "call_model", "raised"},
           \/ d \notin SelfTerminating
           \/ node' \in {"end", "raised"}
           \/ count[d] < Retries[d]
    PROVE  Counted'
<1>1. count \in [Detectors -> Nat] /\ Earlier' = Earlier /\ Earlier \in 0 .. 3
  BY DEF GraphInv, TypeOK, Earlier, Phases
<1>2. /\ One(node \in {"end", "raised"}) = 0 /\ One(node' \in {"end", "raised"}) \in {0, 1}
      /\ node' \in {"end", "raised"} => One(node' \in {"end", "raised"}) = 1
  BY DEF One
<1>3. node' \notin Detectors
  BY CascadeFacts
<1>4. ASSUME NEW e \in Detectors, e \in SelfTerminating
      PROVE  count'[e] <= Retries[e] + Earlier + One(node' \in {"end", "raised"})
  <2>1. count[e] <= Retries[e] + Earlier + One(node \in {"end", "raised"})
    BY <1>4 DEF GraphInv, Counted
  <2>2. Retries[e] \in Nat /\ count[e] \in Nat
    BY <1>1, RetriesFacts
  <2>3. CASE e = d
    BY <2>1, <2>2, <2>3, <1>1, <1>2, <1>4
  <2>4. CASE e # d
    BY <2>1, <2>2, <2>4, <1>1, <1>2
  <2> QED
    BY <2>3, <2>4
<1>5. ASSUME NEW e \in Detectors, e \notin SelfTerminating
      PROVE  count'[e] <= Retries[e] + 1 /\ node' # e
  BY <1>1, <1>3, <1>5, RetriesFacts DEF GraphInv, Counted
<1> QED
  BY <1>1, <1>4, <1>5 DEF Counted

\* What the node of d counts keeps up with the firings.
LEMMA WindowKept ==
    ASSUME GraphInv, NEW d \in Detectors, node = d,
           count' \in [Detectors -> Nat], count'[d] = count[d] + 1,
           node' \in {"end", "call_model", "raised"},
           node' = "call_model" => count[d] < Retries[d],
           firings' = firings, lone' = lone, cut' = cut,
           fresh => fresh'
    PROVE  Window'
<1>1. count \in [Detectors -> Nat] /\ firings \in Nat
  BY DEF GraphInv, TypeOK
<1>2. One(node \in Detectors) = 1 /\ node' \notin Detectors /\ One(node' \in Detectors) = 0
  BY CascadeFacts DEF One
<1>3. d \in lone /\ node \notin {"end", "raised"}
  BY CascadeFacts DEF GraphInv, Window
<1>4. ASSUME NEW e \in Detectors, lone \subseteq {e}, ~fresh', node' \notin {"end", "raised"}
      PROVE  firings <= count'[e] /\ count'[e] <= Retries[e]
  <2>1. e = d /\ ~fresh /\ node' = "call_model"
    BY <1>3, <1>4
  <2>2. firings <= count[d] + 1
    BY <1>1, <1>2, <1>3, <1>4, <2>1 DEF GraphInv, Window
  <2>3. count[d] \in Nat /\ Retries[d] \in Nat /\ count[d] < Retries[d]
    BY <1>1, <2>1, RetriesFacts
  <2> QED
    BY <1>1, <2>1, <2>2, <2>3
<1>5. "cap" \in cut => \A e \in Detectors : ~(lone \subseteq {e})
  BY DEF GraphInv, Window
<1>6. \A e \in Detectors : count'[e] \in Nat
  OBVIOUS
<1> QED
  BY <1>1, <1>2, <1>4, <1>5, <1>6 DEF Window

\* Every node hands on messages, counters and nodes of their types.
LEMMA TypeStep == GraphInv /\ [Next]_vars => TypeOK'
<1> SUFFICES ASSUME GraphInv, [Next]_vars PROVE TypeOK'
  OBVIOUS
<1> USE AgentGraphAssumption DEF GraphInv, TypeOK, Nodes, Answers, Phases
<1>1. ASSUME CallModel PROVE TypeOK'
  <2>1. PICK m \in Replies : Add(m) /\ RouteAfterModel(m)
    BY <1>1 DEF CallModel
  <2>2. m \in Messages /\ m.kind = "ai"
    BY MessagesTyped
  <2>3. node = "call_model" /\ UNCHANGED <<count, nudged, runner>> /\ steps \in Nat /\ steps' = steps + 1
    BY <1>1 DEF CallModel, Running
  <2>4. last' = m /\ said' = Newest
    BY <2>1 DEF Add
  <2>5. /\ node' \in Nodes /\ firings' \in Nat /\ fresh' \in BOOLEAN
        /\ lone' \in SUBSET Detectors /\ cut' \in SUBSET {"cap", "limit"}
    BY <2>1, <2>2, RoutedTyped
  <2> QED
    BY <2>2, <2>3, <2>4, <2>5, NewestTyped DEF runner
<1>2. ASSUME BreakTimesOut PROVE TypeOK'
  <2> DEFINE m == last
  <2>1. RouteAfterModel(m) /\ m.kind = "tools" /\ UNCHANGED list
    BY <1>2 DEF BreakTimesOut
  <2>2. m \in Messages
    OBVIOUS
  <2>3. node = "call_model" /\ UNCHANGED <<count, nudged, runner>> /\ steps \in Nat /\ steps' = steps + 1
    BY <1>2 DEF BreakTimesOut, Running
  <2>4. last' = m /\ said' = said
    BY <2>1 DEF list
  <2>5. /\ node' \in Nodes /\ firings' \in Nat /\ fresh' \in BOOLEAN
        /\ lone' \in SUBSET Detectors /\ cut' \in SUBSET {"cap", "limit"}
    BY <2>1, <2>2, RoutedTyped
  <2> QED
    BY <2>2, <2>3, <2>4, <2>5, NewestTyped DEF runner
<1>3. ASSUME ProcessTools PROVE TypeOK'
  <2>1. last' \in {ToolResults, Human} /\ said' = Newest /\ fresh' \in BOOLEAN
    BY <1>3 DEF ProcessTools, Add
  <2>2. extension' \in {"no", "continue", "delegate"} /\ node' = "call_model" /\ steps' \in Nat
    BY <1>3 DEF ProcessTools, Running
  <2>3. UNCHANGED <<kept, count, nudged, firings, phase, answer, lone, cut>>
    BY <1>3 DEF ProcessTools, history
  <2> QED
    BY <2>1, <2>2, <2>3, MessagesTyped, NewestTyped
<1>4. ASSUME NEW d \in Detectors, HandleRemoving(d) PROVE TypeOK'
  <2>1. (last' \in Synthesized \/ last' \in {GiveUp({}), Human}) /\ said' = said
        /\ node' \in {"end", "call_model"} /\ fresh' \in BOOLEAN
    BY <1>4 DEF HandleRemoving, Replace
  <2>2. count' \in [Detectors -> Nat] /\ steps' \in Nat
    BY <1>4, CountTyped DEF HandleRemoving, Running
  <2>3. UNCHANGED <<nudged, firings, kept, phase, extension, answer, lone, cut>>
    BY <1>4 DEF HandleRemoving, runner, history
  <2>4. last' \in Messages
    BY <2>1, MessagesTyped, SynthesizedTyped
  <2> QED
    BY <2>1, <2>2, <2>3, <2>4
<1>5. ASSUME NEW d \in Detectors, HandleRevision(d) PROVE TypeOK'
  BY <1>5, MessagesTyped, NewestTyped, CascadeFacts DEF HandleRevision, Running, Replace, runner, history
<1>6. ASSUME HandleActionIntent PROVE TypeOK'
  <2>1. (last' \in Synthesized \/ last' \in {last, Human}) /\ said' \in {said, Newest} /\ nudged' \in {nudged, TRUE}
    BY <1>6 DEF HandleActionIntent, Add, Replace, list
  <2>2. node' \in {"end", "raised", "call_model"} /\ fresh' = fresh
    BY <1>6 DEF HandleActionIntent
  <2>3. count' \in [Detectors -> Nat] /\ steps' \in Nat
    BY <1>6, CountTyped, CascadeFacts DEF HandleActionIntent, Running, SelfTerminating
  <2>4. UNCHANGED <<firings, kept, phase, extension, answer, lone, cut>>
    BY <1>6 DEF HandleActionIntent, runner, history
  <2>5. last' \in Messages /\ said' \in Texts
    BY <2>1, MessagesTyped, NewestTyped, SynthesizedTyped
  <2>6. nudged' \in BOOLEAN /\ node' \in Nodes
    BY <2>1, <2>2
  <2> HIDE DEF Nodes, Answers, Phases
  <2> QED
    BY <2>2, <2>3, <2>4, <2>5, <2>6
<1>7. ASSUME Runner PROVE TypeOK'
  <2>1. CASE \E p \in Phases, t \in {Newest, kept} : Stream(p, t)
    BY <2>1, MessagesTyped, NewestTyped DEF Stream
  <2>2. CASE \E a \in Answers : Return(a)
    BY <2>2 DEF Return, list, budgets
  <2> QED
    BY <1>7, <2>1, <2>2, RunnerSteps
<1>8. ASSUME UNCHANGED vars PROVE TypeOK'
  BY <1>8, MessagesTyped, NewestTyped, CascadeFacts DEF vars
<1> HIDE DEF GraphInv, TypeOK, Nodes, Answers, Phases
<1> QED
  BY <1>1, <1>2, <1>3, <1>4, <1>5, <1>6, <1>7, <1>8 DEF Next, Recover

\* A counter passes its retries only on the way out of a stream.
LEMMA CountedStep == GraphInv /\ [Next]_vars => Counted'
<1> SUFFICES ASSUME GraphInv, [Next]_vars PROVE Counted'
  OBVIOUS
<1> USE AgentGraphAssumption DEF GraphInv, TypeOK, Counted, Earlier, Phases, One
<1>1. ASSUME CallModel PROVE Counted'
  <2>1. PICK m \in Replies : Add(m) /\ RouteAfterModel(m)
    BY <1>1 DEF CallModel
  <2>2. m \in Messages /\ m.kind = "ai"
    BY MessagesTyped
  <2>3. node = "call_model" /\ UNCHANGED <<count, nudged, runner>> /\ steps \in Nat /\ steps' = steps + 1
    BY <1>1 DEF CallModel, Running
  <2>4. last' = m /\ said' = Newest
    BY <2>1 DEF Add
  <2>5. GraphInv
    OBVIOUS
  <2>6. m.kind # "ai" => m.flaws = {}
    BY <2>2
  <2> HIDE DEF GraphInv, TypeOK, Counted
  <2> QED
    BY <2>1, <2>2, <2>3, <2>4, <2>5, <2>6, RoutedCounted DEF runner
<1>2. ASSUME BreakTimesOut PROVE Counted'
  <2> DEFINE m == last
  <2>1. RouteAfterModel(m) /\ m.kind = "tools" /\ UNCHANGED list
    BY <1>2 DEF BreakTimesOut
  <2>2. m \in Messages
    OBVIOUS
  <2>3. node = "call_model" /\ UNCHANGED <<count, nudged, runner>> /\ steps \in Nat /\ steps' = steps + 1
    BY <1>2 DEF BreakTimesOut, Running
  <2>4. last' = m /\ said' = said
    BY <2>1 DEF list
  <2>5. GraphInv
    OBVIOUS
  <2>6. m.kind # "ai" => m.flaws = {}
    BY <2>5, <2>1 DEF Vetted
  <2> HIDE DEF GraphInv, TypeOK, Counted, m
  <2> QED
    BY <2>1, <2>2, <2>3, <2>4, <2>5, <2>6, RoutedCounted DEF runner
<1>3. ASSUME ProcessTools PROVE Counted'
  BY <1>3, CascadeFacts, RetriesFacts DEF ProcessTools, Running, Add, history
<1>4. ASSUME NEW d \in Detectors, HandleRemoving(d) PROVE Counted'
  <2>1. /\ d \in SelfTerminating /\ node = d /\ d \notin {"end", "raised"}
        /\ phase' = phase
        /\ \/ count[d] >= Retries[d] /\ node' = "end"
           \/ count[d] < Retries[d] /\ node' = "call_model"
    <3>1. d \in {"phantom", "fabrication"} /\ node = d /\ phase' = phase
      BY <1>4 DEF HandleRemoving, Running, runner
    <3>2. IF count[d] >= Retries[d] THEN node' = "end" ELSE node' = "call_model"
      BY <1>4 DEF HandleRemoving
    <3>3. count[d] \in Nat /\ Retries[d] \in Nat
      BY RetriesFacts
    <3> HIDE DEF GraphInv, TypeOK, Counted
    <3>4. d \in SelfTerminating /\ d \notin {"end", "raised"}
      BY <3>1 DEF SelfTerminating
    <3>5. count[d] >= Retries[d] \/ count[d] < Retries[d]
      BY <3>3
    <3> QED
      BY <3>1, <3>2, <3>4, <3>5
  <2>2. /\ count' \in [Detectors -> Nat] /\ count'[d] = count[d] + 1
        /\ \A e \in Detectors : e # d => count'[e] = count[e]
    BY <1>4, CountTyped DEF HandleRemoving
  <2> QED
    BY <2>1, <2>2, CountedKept
<1>5. ASSUME NEW d \in Detectors, HandleRevision(d) PROVE Counted'
  <2>1. /\ d \notin SelfTerminating /\ node = d /\ d \notin {"end", "raised"}
        /\ phase' = phase /\ node' \in {"end", "call_model"}
    BY <1>5, CascadeFacts DEF HandleRevision, Running, runner
  <2>2. /\ count' \in [Detectors -> Nat] /\ count'[d] = count[d] + 1
        /\ \A e \in Detectors : e # d => count'[e] = count[e]
    BY <1>5, CountTyped DEF HandleRevision
  <2> QED
    BY <2>1, <2>2, CountedKept
<1>6. ASSUME HandleActionIntent PROVE Counted'
  <2> DEFINE d == "action_intent"
  <2>1. /\ d \in SelfTerminating /\ d \in Detectors /\ node = d /\ d \notin {"end", "raised"} /\ phase' = phase
        /\ \/ node' \in {"end", "raised"}
           \/ count[d] < Retries[d] /\ node' = "call_model"
    <3>1. /\ node = d /\ phase' = phase
          /\ node' \in {"end", "raised"} \/ (count[d] < Retries[d] /\ node' = "call_model")
      BY <1>6 DEF HandleActionIntent, Running, runner
    <3>2. d \in SelfTerminating /\ d \in Detectors
      BY CascadeFacts DEF SelfTerminating
    <3> HIDE DEF GraphInv, TypeOK, Counted
    <3> QED
      BY <3>1, <3>2
  <2>2. /\ count' \in [Detectors -> Nat] /\ count'[d] = count[d] + 1
        /\ \A e \in Detectors : e # d => count'[e] = count[e]
    BY <1>6, <2>1, CountTyped DEF HandleActionIntent
  <2> QED
    BY <2>1, <2>2, CountedKept
<1>7. ASSUME Runner PROVE Counted'
  <2>1. CASE /\ \E p \in Phases, t \in {Newest, kept} : Stream(p, t)
             /\ Earlier' >= Earlier + 1 /\ Earlier \in 0 .. 3 /\ Earlier' \in 0 .. 3
    <3>1. count' = count /\ node' = "call_model"
      BY <2>1 DEF Stream
    <3>2. node' \notin Detectors /\ count \in [Detectors -> Nat]
      BY <3>1, CascadeFacts
    <3> HIDE DEF Earlier
    <3> QED
      BY <2>1, <3>1, <3>2, RetriesFacts
  <2>2. CASE \E a \in Answers : Return(a)
    BY <2>2 DEF Return, budgets
  <2> QED
    BY <1>7, <2>1, <2>2, RunnerSteps
<1>8. ASSUME UNCHANGED vars PROVE Counted'
  BY <1>8, CascadeFacts, RetriesFacts DEF vars
<1> HIDE DEF GraphInv, TypeOK, Counted, Earlier, Phases, One
<1> QED
  BY <1>1, <1>2, <1>3, <1>4, <1>5, <1>6, <1>7, <1>8 DEF Next, Recover

\* The two budgets agree on a lone detector while its stream goes on.
LEMMA WindowStep == GraphInv /\ [Next]_vars => Window'
<1> SUFFICES ASSUME GraphInv, [Next]_vars PROVE Window'
  OBVIOUS
<1> USE AgentGraphAssumption DEF GraphInv, TypeOK, Window, One
<1>1. ASSUME CallModel PROVE Window'
  <2>1. PICK m \in Replies : Add(m) /\ RouteAfterModel(m)
    BY <1>1 DEF CallModel
  <2>2. m \in Messages /\ m.kind = "ai"
    BY MessagesTyped
  <2>3. node = "call_model" /\ UNCHANGED <<count, nudged, runner>> /\ steps \in Nat /\ steps' = steps + 1
    BY <1>1 DEF CallModel, Running
  <2>4. last' = m /\ said' = Newest
    BY <2>1 DEF Add
  <2>5. GraphInv
    OBVIOUS
  <2>6. m.kind # "ai" => m.flaws = {}
    BY <2>2
  <2> HIDE DEF GraphInv, TypeOK, Window
  <2> QED
    BY <2>1, <2>2, <2>3, <2>4, <2>5, <2>6, RoutedWindow DEF runner
<1>2. ASSUME BreakTimesOut PROVE Window'
  <2> DEFINE m == last
  <2>1. RouteAfterModel(m) /\ m.kind = "tools" /\ UNCHANGED list
    BY <1>2 DEF BreakTimesOut
  <2>2. m \in Messages
    OBVIOUS
  <2>3. node = "call_model" /\ UNCHANGED <<count, nudged, runner>> /\ steps \in Nat /\ steps' = steps + 1
    BY <1>2 DEF BreakTimesOut, Running
  <2>4. last' = m /\ said' = said
    BY <2>1 DEF list
  <2>5. GraphInv
    OBVIOUS
  <2>6. m.kind # "ai" => m.flaws = {}
    BY <2>5, <2>1 DEF Vetted
  <2> HIDE DEF GraphInv, TypeOK, Window, m
  <2> QED
    BY <2>1, <2>2, <2>3, <2>4, <2>5, <2>6, RoutedWindow DEF runner
<1>3. ASSUME ProcessTools PROVE Window'
  BY <1>3, CascadeFacts, RetriesFacts DEF ProcessTools, Running, Add, history
<1>4. ASSUME NEW d \in Detectors, HandleRemoving(d) PROVE Window'
  <2>1. /\ node = d /\ firings' = firings /\ lone' = lone /\ cut' = cut /\ (fresh => fresh')
        /\ node' \in {"end", "call_model"} /\ (node' = "call_model" => ~(count[d] >= Retries[d]))
    BY <1>4 DEF HandleRemoving, Running, history
  <2>2. count' \in [Detectors -> Nat] /\ count'[d] = count[d] + 1
    BY <1>4, CountTyped DEF HandleRemoving
  <2>3. node' = "call_model" => count[d] < Retries[d]
    BY <2>1, RetriesFacts
  <2> HIDE DEF GraphInv, TypeOK, Window
  <2> QED
    BY <2>1, <2>2, <2>3, WindowKept
<1>5. ASSUME NEW d \in Detectors, HandleRevision(d) PROVE Window'
  <2>1. /\ node = d /\ firings' = firings /\ lone' = lone /\ cut' = cut /\ fresh' = fresh
        /\ node' \in {"end", "call_model"} /\ (node' = "call_model" => ~(count[d] >= Retries[d]))
    BY <1>5 DEF HandleRevision, Running, history
  <2>2. count' \in [Detectors -> Nat] /\ count'[d] = count[d] + 1
    BY <1>5, CountTyped DEF HandleRevision
  <2>3. node' = "call_model" => count[d] < Retries[d]
    BY <2>1, RetriesFacts
  <2> HIDE DEF GraphInv, TypeOK, Window
  <2> QED
    BY <2>1, <2>2, <2>3, WindowKept
<1>6. ASSUME HandleActionIntent PROVE Window'
  <2> DEFINE d == "action_intent"
  <2>1. /\ node = d /\ d \in Detectors /\ firings' = firings /\ lone' = lone /\ cut' = cut /\ fresh' = fresh
        /\ node' \in {"end", "call_model", "raised"} /\ (node' = "call_model" => count[d] < Retries[d])
    BY <1>6, CascadeFacts DEF HandleActionIntent, Running, history, SelfTerminating
  <2>2. count' \in [Detectors -> Nat] /\ count'[d] = count[d] + 1
    BY <1>6, <2>1, CountTyped DEF HandleActionIntent
  <2> HIDE DEF GraphInv, TypeOK, Window
  <2> QED
    BY <2>1, <2>2, WindowKept
<1>7. ASSUME Runner PROVE Window'
  <2>1. CASE \E p \in Phases, t \in {Newest, kept} : Stream(p, t)
    BY <2>1, CascadeFacts DEF Stream
  <2>2. CASE \E a \in Answers : Return(a)
    BY <2>2 DEF Return, list, budgets
  <2> QED
    BY <1>7, <2>1, <2>2, RunnerSteps
<1>8. ASSUME UNCHANGED vars PROVE Window'
  BY <1>8, CascadeFacts, RetriesFacts DEF vars
<1> HIDE DEF GraphInv, TypeOK, Window, One
<1> QED
  BY <1>1, <1>2, <1>3, <1>4, <1>5, <1>6, <1>7, <1>8 DEF Next, Recover

\* No node lets a flagged reply out before its objections are used up.
LEMMA VettedStep == GraphInv /\ [Next]_vars => Vetted'
<1> SUFFICES ASSUME GraphInv, [Next]_vars PROVE Vetted'
  OBVIOUS
<1> USE AgentGraphAssumption DEF GraphInv, TypeOK, Vetted, Final
<1>1. ASSUME CallModel PROVE Vetted'
  <2>1. PICK m \in Replies : Add(m) /\ RouteAfterModel(m)
    BY <1>1 DEF CallModel
  <2>2. m \in Messages /\ m.kind = "ai"
    BY MessagesTyped
  <2>3. node = "call_model" /\ UNCHANGED <<count, nudged, runner>> /\ steps \in Nat /\ steps' = steps + 1
    BY <1>1 DEF CallModel, Running
  <2>4. last' = m /\ said' = Newest
    BY <2>1 DEF Add
  <2>5. GraphInv
    OBVIOUS
  <2>6. (m.kind # "ai" => m.flaws = {}) /\ (m.calls => m.flaws = {})
    BY <2>2, MessagesTyped
  <2>7. kept' = kept /\ answer' = answer /\ phase' = phase /\ answer = "none"
    BY <1>1 DEF CallModel, Running, runner
  <2> HIDE DEF GraphInv, TypeOK, Vetted
  <2> QED
    BY <2>1, <2>2, <2>3, <2>4, <2>5, <2>6, <2>7, RoutedVetted
<1>2. ASSUME BreakTimesOut PROVE Vetted'
  <2> DEFINE m == last
  <2>1. RouteAfterModel(m) /\ m.kind = "tools" /\ UNCHANGED list
    BY <1>2 DEF BreakTimesOut
  <2>2. m \in Messages
    OBVIOUS
  <2>3. node = "call_model" /\ UNCHANGED <<count, nudged, runner>> /\ steps \in Nat /\ steps' = steps + 1
    BY <1>2 DEF BreakTimesOut, Running
  <2>4. last' = m /\ said' = said
    BY <2>1 DEF list
  <2>5. GraphInv
    OBVIOUS
  <2>6. m.kind # "ai" => m.flaws = {}
    BY <2>5, <2>1 DEF Vetted
  <2>7. kept' = kept /\ answer' = answer /\ phase' = phase /\ answer = "none" /\ m.flaws = {}
    BY <1>2, <2>1, <2>6 DEF BreakTimesOut, Running, runner
  <2> HIDE DEF GraphInv, TypeOK, Vetted, m
  <2> QED
    BY <2>1, <2>2, <2>3, <2>4, <2>5, <2>6, <2>7, RoutedVetted DEF runner
<1>3. ASSUME ProcessTools PROVE Vetted'
  <2>1. /\ last'.flaws = {} /\ said' = Newest /\ node = "process_tools" /\ node' = "call_model"
        /\ answer = "none" /\ UNCHANGED <<kept, count, answer, cut>>
    BY <1>3, MessagesTyped DEF ProcessTools, Running, Add, history
  <2>2. cut = {} => Shippable(Newest.flaws) /\ Shippable(kept.flaws)
    BY <2>1, NewestTyped, CascadeFacts
  <2>3. \A F : Shippable(F)' <=> Shippable(F)
    BY <2>1 DEF Shippable
  <2>4. Shippable({})
    BY DEF Shippable
  <2> HIDE DEF GraphInv, TypeOK
  <2> QED
    BY <2>1, <2>2, <2>3, <2>4, CascadeFacts
<1>4. ASSUME NEW d \in Detectors, HandleRemoving(d) PROVE Vetted'
  <2>1. /\ node = d /\ answer = "none" /\ said' = said /\ UNCHANGED <<kept, answer, cut>>
        /\ node' \in {"end", "call_model"}
        /\ \/ d = "phantom" /\ count[d] >= Retries[d] /\ last' \in Synthesized
           \/ last' \in {GiveUp({}), Human}
    BY <1>4 DEF HandleRemoving, Running, Replace, runner, history
  <2>2. /\ count' \in [Detectors -> Nat] /\ count'[d] = count[d] + 1
        /\ \A e \in Detectors : count'[e] >= count[e]
    BY <1>4, CountTyped DEF HandleRemoving
  <2>3. said.flaws \in SUBSET Flaws /\ kept.flaws \in SUBSET Flaws /\ last.flaws \in SUBSET Flaws
    BY DEF Texts, Messages
  <2>4. cut = {} => Shippable(said.flaws)' /\ Shippable(kept.flaws)'
    BY <2>1, <2>2, <2>3, ShippableKept
  <2>5. \/ last' \in {GiveUp({}), Human} /\ last'.flaws = {}
        \/ /\ d = "phantom" /\ count'["phantom"] > Retries["phantom"] /\ last'.kind = "ai"
           /\ last'.flaws \in {{}, last.flaws, said.flaws}
    BY <2>1, <2>2, MessagesTyped, SynthesizedTyped, RetriesFacts
  <2>6. d \in last.flaws
    BY <2>1
  <2>7. cut = {} => Shippable(last.flaws)'
    <3>1. last'.flaws = {} => Shippable(last.flaws)'
      BY DEF Shippable
    <3>2. d = "phantom" /\ count'["phantom"] > Retries["phantom"] /\ last'.flaws = last.flaws
            => Shippable(last.flaws)'
      BY <2>6 DEF Shippable
    <3>3. cut = {} /\ last'.flaws = said.flaws => Shippable(last.flaws)'
      BY <2>1, <2>4 DEF Shippable
    <3> QED
      BY <2>5, <3>1, <3>2, <3>3
  <2>8. last'.kind # "ai" => last'.flaws = {}
    BY <2>5, MessagesTyped
  <2> HIDE DEF GraphInv, TypeOK
  <2> QED
    BY <2>1, <2>4, <2>7, <2>8, CascadeFacts
<1>5. ASSUME NEW d \in Detectors, HandleRevision(d) PROVE Vetted'
  <2>1. /\ node = d /\ d \notin SelfTerminating /\ said' = said /\ answer = "none"
        /\ UNCHANGED <<kept, answer, cut>> /\ node' \in {"end", "call_model"}
        /\ \/ count[d] >= Retries[d] /\ last' = last
           \/ last' = Human
    BY <1>5 DEF HandleRevision, Running, Replace, runner, history
  <2>2. /\ count' \in [Detectors -> Nat] /\ count'[d] = count[d] + 1 /\ count[d] \in Nat
        /\ \A e \in Detectors : count'[e] >= count[e]
    BY <1>5, CountTyped DEF HandleRevision
  <2>3. d \in last.flaws /\ last.flaws \cap Final = {} /\ Retries[d] \in Nat
    BY <2>1, RetriesFacts DEF SelfTerminating
  <2>4. said.flaws \in SUBSET Flaws /\ kept.flaws \in SUBSET Flaws
    BY DEF Texts
  <2>5. cut = {} => Shippable(said.flaws)' /\ Shippable(kept.flaws)'
    BY <2>1, <2>2, <2>4, ShippableKept
  <2>6. Shippable(last.flaws)'
    <3>1. CASE count[d] >= Retries[d] /\ last' = last
      <4>1. count'[d] > Retries[d]
        BY <2>2, <2>3, <3>1
      <4> QED
        BY <2>3, <3>1, <4>1 DEF Shippable
    <3>2. CASE last' = Human
      BY <3>2, MessagesTyped DEF Shippable
    <3> QED
      BY <2>1, <3>1, <3>2
  <2>7. last'.kind # "ai" => last'.flaws = {}
    BY <2>1, MessagesTyped
  <2> HIDE DEF GraphInv, TypeOK
  <2> QED
    BY <2>1, <2>5, <2>6, <2>7, CascadeFacts
<1>6. ASSUME HandleActionIntent PROVE Vetted'
  <2> DEFINE d == "action_intent"
  <2>1. /\ node = d /\ answer = "none" /\ UNCHANGED <<kept, answer, cut>>
        /\ \/ last' = Human /\ said' = Newest /\ node' = "call_model"
           \/ last' \in Synthesized /\ said' = said /\ node' = "end"
           \/ last' = last /\ said' = said /\ node' = "raised"
    BY <1>6 DEF HandleActionIntent, Running, Add, Replace, runner, history, list
  <2>2. /\ count' \in [Detectors -> Nat] /\ d \in Detectors /\ count'[d] > 0
        /\ \A e \in Detectors : count'[e] >= count[e]
    <3>1. d \in Detectors /\ count' = [count EXCEPT ![d] = @ + 1]
      BY <1>6, CascadeFacts DEF HandleActionIntent, SelfTerminating
    <3> QED
      BY <3>1, CountTyped
  <2>3. d \in last.flaws /\ last.flaws \cap Final = {}
    BY <2>1, <2>2
  <2>4. said.flaws \in SUBSET Flaws /\ kept.flaws \in SUBSET Flaws /\ Newest.flaws \in {last.flaws, said.flaws}
    BY NewestTyped DEF Texts
  <2>5. /\ \A F \in {{}, last.flaws} : Shippable(F)'
        /\ cut = {} => /\ \A F \in {{}, last.flaws, said.flaws} : Shippable(F)'
                       /\ Shippable(kept.flaws)'
    <3>1. \A F \in {{}, last.flaws} : Shippable(F)'
      BY <2>2, <2>3 DEF Shippable
    <3>2. cut = {} => Shippable(kept.flaws)'
      BY <2>1, <2>2, <2>4, ShippableKept
    <3>3. cut = {} => \A F \in {said.flaws} : Shippable(F)'
      BY <2>2, <2>4, ShippableKept DEF Shippable
    <3> QED
      BY <3>1, <3>2, <3>3
  <2>6. /\ last'.kind # "ai" => last'.flaws = {}
        /\ node' # "raised" => last'.flaws \in {{}, last.flaws, said.flaws}
        /\ said'.flaws \in {last.flaws, said.flaws}
    BY <2>1, <2>4, MessagesTyped, SynthesizedTyped
  <2>7. cut' = {} => /\ Shippable(said.flaws)' /\ Shippable(kept.flaws)'
                     /\ node' # "raised" => Shippable(last.flaws)'
    BY <2>1, <2>5, <2>6 DEF Shippable
  <2> HIDE DEF GraphInv, TypeOK
  <2> QED
    BY <2>1, <2>6, <2>7, CascadeFacts
<1>7. ASSUME Runner PROVE Vetted'
  <2>1. answer = "none"
    BY <1>7, RunnerSteps
  <2>2. Ended \/ OverLimit => (cut = {} => Shippable(Newest.flaws))
    <3>1. Newest.flaws \in {last.flaws, said.flaws}
      BY NewestTyped
    <3>2. node \in Detectors /\ OverLimit => cut # {}
      BY DEF OverLimit
    <3>3. Ended => node \notin Detectors \cup {"raised"}
      BY CascadeFacts DEF Ended
    <3>4. OverLimit /\ cut = {} => node \notin Detectors \cup {"raised"}
      BY <3>2 DEF OverLimit
    <3> QED
      BY <3>1, <3>3, <3>4
  <2>3. CASE \E p \in Phases, t \in {Newest, kept} :
                 Stream(p, t) /\ phase' = p /\ (t = kept \/ Ended \/ OverLimit)
    <3>1. PICK p \in Phases, t \in {Newest, kept} : Stream(p, t) /\ (t = kept \/ Ended \/ OverLimit)
      BY <2>3
    <3>2. /\ last' = Human /\ said' = t /\ kept' = t /\ node' = "call_model"
          /\ UNCHANGED <<count, answer, cut>>
      BY <3>1 DEF Stream
    <3>3. cut = {} => Shippable(t.flaws)
      BY <2>2, <3>1
    <3>4. \A F : Shippable(F)' <=> Shippable(F)
      BY <3>2 DEF Shippable
    <3>5. Shippable({})
      BY DEF Shippable
    <3> HIDE DEF GraphInv, TypeOK
    <3> QED
      BY <2>1, <3>2, <3>3, <3>4, <3>5, CascadeFacts, MessagesTyped
  <2>4. CASE \E a \in Answers : Return(a) /\ (a = "text" => Ended \/ OverLimit)
    <3>1. PICK a \in Answers : Return(a) /\ (a = "text" => Ended \/ OverLimit)
      BY <2>4
    <3>2. answer' = a /\ UNCHANGED <<node, last, said, count, steps, kept, phase, cut>>
      BY <3>1 DEF Return, list, budgets
    <3>3. \A F : Shippable(F)' <=> Shippable(F)
      BY <3>2 DEF Shippable
    <3>4. Newest' = Newest
      BY <3>2 DEF Newest, Spoken
    <3>5. Vetted
      OBVIOUS
    <3> HIDE DEF GraphInv, TypeOK
    <3> QED
      BY <2>2, <3>1, <3>2, <3>3, <3>4, <3>5
  <2> QED
    BY <1>7, <2>3, <2>4, RunnerSteps
<1>8. ASSUME UNCHANGED vars PROVE Vetted'
  <2>1. \A F : Shippable(F)' <=> Shippable(F)
    BY <1>8 DEF Shippable, vars
  <2>2. Newest' = Newest
    BY <1>8 DEF Newest, Spoken, vars
  <2> HIDE DEF GraphInv, TypeOK
  <2> QED
    BY <1>8, <2>1, <2>2 DEF vars, GraphInv
<1> HIDE DEF GraphInv, TypeOK, Vetted, Final
<1> QED
  BY <1>1, <1>2, <1>3, <1>4, <1>5, <1>6, <1>7, <1>8 DEF Next, Recover

-------------------------------------------------------------------------------
LEMMA GraphInductive == Spec => []GraphInv
<1>1. Init => GraphInv
  <2> SUFFICES ASSUME Init PROVE GraphInv
    OBVIOUS
  <2>1. TypeOK
    <3>1. said \in Texts /\ kept \in Texts
      BY DEF Init, Texts
    <3> QED
      BY <3>1, MessagesTyped DEF Init, TypeOK, Nodes, Answers, Phases
  <2>2. Counted
    BY CascadeFacts, RetriesFacts DEF Init, Counted, Earlier, One
  <2>3. Window
    BY CascadeFacts, RetriesFacts DEF Init, Window, One
  <2>4. Vetted
    BY MessagesTyped, CascadeFacts DEF Init, Vetted, Shippable
  <2> QED
    BY <2>1, <2>2, <2>3, <2>4 DEF GraphInv
<1>2. GraphInv /\ [Next]_vars => GraphInv'
  BY TypeStep, CountedStep, WindowStep, VettedStep DEF GraphInv
<1> QED
  BY <1>1, <1>2, PTL DEF Spec

\* Type correctness: every message, node and phase is one the code has.
THEOREM GraphTypes == Spec => []TypeOK
<1>1. GraphInv => TypeOK
  BY DEF GraphInv
<1> QED
  BY <1>1, GraphInductive, PTL

\* No detector calls the model again more often than its own retries allow,
\* whatever resets the budget of firings.
THEOREM RecoveriesStayBounded == Spec => []RecoveriesBounded
<1>1. GraphInv => RecoveriesBounded
  <2> SUFFICES ASSUME GraphInv, NEW d \in Detectors
               PROVE  count[d] <= Retries[d] + 1 + (IF d \in SelfTerminating THEN Earlier ELSE 0)
    BY DEF RecoveriesBounded
  <2>1. count[d] \in Nat /\ Retries[d] \in Nat /\ Earlier \in 0 .. 3
    BY RetriesFacts DEF GraphInv, TypeOK, Earlier, Phases
  <2> QED
    BY <2>1 DEF GraphInv, Counted, One, SelfTerminating
<1> QED
  BY <1>1, GraphInductive, PTL

\* The cap on firings never cuts a lone detector short, for whichever detector
\* and however often the run is streamed again.
THEOREM CapLeavesLoneDetectors == Spec => []CapSparesLoneDetector
<1>1. GraphInv => CapSparesLoneDetector
  BY DEF GraphInv, Window, CapSparesLoneDetector
<1> QED
  BY <1>1, GraphInductive, PTL

\* What the user is told is a text some detector objects to only when an
\* objection to it was raised as often as its retries allow, or it is an
\* announcement that was nudged; a phantom call, or a false report of success,
\* only as far as phantom's own give-up repeats it.  This holds unless a phase
\* ended over an objection, by the cap or for want of steps.
THEOREM FlaggedTextsComeLast == Spec => []FlaggedTextIsLastResort
<1>1. GraphInv => FlaggedTextIsLastResort
  BY DEF GraphInv, Vetted, Shippable, FlaggedTextIsLastResort, Final
<1> QED
  BY <1>1, GraphInductive, PTL
===============================================================================
