-------------------------------- MODULE Memory --------------------------------
(***************************************************************************)
(* The memory of one session: BaseMemoryManager of memory/manager.py, as   *)
(* ConversationMemoryManager of memory/modes/conversation.py uses it, and  *)
(* the tiered cache of memory/tier_cache.py.                               *)
(*                                                                         *)
(* Messages that leave the sliding window are folded into a rolling        *)
(* summary by a job in a thread pool; summary and _summary_msg_idx, the    *)
(* boundary before which it stands in for the messages, are shared with    *)
(* the thread of the session under _hybrid_lock.  A second kind of job     *)
(* recomputes the cache of compressed messages.  All of it is kept on disk *)
(* in three files, written outside the lock.                               *)
(*                                                                         *)
(* A step is one critical section, or one file operation.  The session's   *)
(* own steps that nobody else can see are taken together.                  *)
(*                                                                         *)
(* Abstracted: a turn adds two messages, the user's (odd) and the reply    *)
(* (even); a summary is the set of the messages folded into it, {} for     *)
(* none; token counts, of which the turns since the last summary are kept; *)
(* the vector store, which may fail; the facts store; file errors.         *)
(***************************************************************************)
EXTENDS Integers, Sequences

CONSTANTS
    Window,         \* working_memory_size
    BatchSize,      \* _SUMMARY_BATCH_SIZE
    FailureLimit,   \* _SLOW_PATH_MAX_FAILURES
    ChurnLimit,     \* summary_max_uncovered_tokens, in turns
    Verbatim,       \* how many messages may fit the verbatim budget
    Jobs, Rolls,    \* bound: summarizers, roll-forwards in flight
    Past,           \* turns already in the history
    MaxTurns,       \* bound: turns
    MaxEvents       \* bound: resets, undos, clears, stuck jobs and crashes

ASSUME MemoryAssumption ==
    /\ Window \in Nat /\ BatchSize \in Nat \ {0} /\ FailureLimit \in Nat \ {0}
    /\ ChurnLimit \in Nat \ {0} /\ MaxTurns \in Nat /\ Past \in 0..MaxTurns /\ MaxEvents \in Nat
    /\ Verbatim \subseteq Nat /\ Jobs # {} /\ Rolls # {} /\ "none" \notin Jobs

Message == 1..(2 * MaxTurns)
Reply(m) == m % 2 = 0

\* The summary and its boundary, in memory or in the file.
Summaries == [text : SUBSET Message, upTo : Nat]
Forgotten == [text |-> {}, upTo |-> 0]

\* TierCacheSnapshot: messages from bound on are verbatim; of the replies
\* between from and bound each was sifted, that is compressed into one of the
\* tiers or, where both were full or it was empty, dropped on purpose.
Tiers  == [ready : BOOLEAN, from : Nat, bound : Nat, sifted : SUBSET Message]
NoTier == [ready |-> FALSE, from |-> 0, bound |-> 0, sifted |-> {}]

JobSteps == {"none", "queued", "llm", "save", "write", "flag", "last"}
JobRecords == [pc : JobSteps, batch : SUBSET Message, upTo : Nat,
               before : SUBSET Message, snap : Summaries]
NoJob == [pc |-> "none", batch |-> {}, upTo |-> 0, before |-> {},
          snap |-> Forgotten]

NoBatch == [from |-> 0, upTo |-> 0]

SessionSteps == {"idle", "schedule", "submit", "roll", "domain", "join",
    "reset", "unlink", "wipe", "save", "snapshot", "write", "flag", "tiers",
    "exit", "down"}

Upsets == {"failed", "reset", "undo", "clear", "sanitized", "overlap",
           "overtaken", "raised"}

VARIABLES
    msgs,       \* _messages
    turn,       \* turns so far
    mem,        \* _summary and _summary_msg_idx
    churn,      \* _tokens_since_summary
    dirty,      \* _summary_dirty
    failures,   \* _slow_path_failures
    future,     \* _bg_future
    job,        \* the summarizers of the pool, _run_slow_path()
    tier,       \* _tier_cache, _tier_cache_ready
    roll,       \* the roll-forwards of the pool: what they will store
    hist, meta, tiers,  \* the files: history, _hybrid.json, tier cache
    at,         \* where the thread of the session is
    then,       \* ... where it goes from a shared piece of code
    todo,       \* ... its batch: from, to
    held,       \* ... its snapshot of mem
    events,     \* how many of the bounded events there were
    upsets      \* history: what came between a job and its messages

memoryVars == <<msgs, turn, mem, churn, dirty, failures, future, job, tier, roll,
                hist, meta, tiers, at, then, todo, held, events, upsets>>

files   == <<hist, meta, tiers>>
jobs    == <<future, job, failures>>
caches  == <<tier, roll>>
summary == <<mem, churn, dirty>>
turns   == <<msgs, turn>>
thread  == <<then, todo, held>>
record  == <<events, upsets>>

MemoryTypeOK ==
    /\ msgs \in Seq(Message) /\ turn \in 0..MaxTurns
    /\ mem \in Summaries /\ churn \in Nat /\ dirty \in BOOLEAN
    /\ failures \in Nat /\ future \in Jobs \cup {"none"}
    /\ job \in [Jobs -> JobRecords]
    /\ tier \in Tiers /\ roll \in [Rolls -> Tiers]
    /\ hist \in Seq(Message) /\ meta \in Summaries /\ tiers \in Tiers
    /\ at \in SessionSteps /\ then \in SessionSteps
    /\ todo \in [from : Nat, upTo : Nat] /\ held \in Summaries
    /\ events \in 0..MaxEvents /\ upsets \subseteq Upsets

\* A session just loaded, with the turns of one that kept no summary.
MemoryInit ==
    /\ msgs = [m \in 1..(2 * Past) |-> m] /\ turn = Past
    /\ mem = Forgotten /\ churn = 0 /\ dirty = FALSE
    /\ failures = 0 /\ future = "none" /\ job = [j \in Jobs |-> NoJob]
    /\ tier = NoTier /\ roll = [r \in Rolls |-> NoTier]
    /\ hist = msgs /\ meta = Forgotten /\ tiers = NoTier
    /\ at = "idle" /\ then = "idle" /\ todo = NoBatch
    /\ held = Forgotten
    /\ events = 0 /\ upsets = {}

------------------------------------------------------------------------------

Lesser(a, b) == IF a <= b THEN a ELSE b

\* The messages of s after position a, up to position b.
Part(s, a, b) == {s[i] : i \in (a + 1)..Lesser(b, Len(s))}

Active(j) == job[j].pc # "none"

\* A summarizer that has yet to write what it was given.
Pending(j) == job[j].pc \in {"queued", "llm"}

\* _bg_in_flight()
InFlight == future # "none" /\ Active(future)

Rolling(r) == roll[r].ready

Event == events < MaxEvents /\ events' = events + 1

\* _reset_summary_state_locked()
Forget ==
    /\ mem' = Forgotten /\ churn' = 0 /\ UNCHANGED dirty
    /\ upsets' = upsets \cup IF \E j \in Jobs : Active(j) THEN {"reset"} ELSE {}

Goto(step) == at' = step

------------------------------------------------------------------------------
(* A turn: update() and save() *)

\* update(), up to _check_summary_token_ttl_locked().
Update ==
    /\ at = "idle" /\ turn < MaxTurns
    /\ \E j \in Jobs : ~Active(j)
    /\ \E r \in Rolls : ~Rolling(r)
    /\ turn' = turn + 1
    /\ msgs' = msgs \o <<2 * turn + 1, 2 * turn + 2>>
    /\ IF churn + 1 >= ChurnLimit /\ ~InFlight
       THEN Forget
       ELSE churn' = churn + 1 /\ UNCHANGED <<mem, dirty, upsets>>
    /\ Goto("schedule")
    /\ UNCHANGED <<jobs, caches, files, thread, events>>

\* _schedule_slow_path(), its first part: what lies between the boundary and
\* the window.  Too little meaningful content is not worth a call.
Schedule ==
    /\ at = "schedule"
    /\ LET from == Lesser(mem.upTo, Len(msgs))
           upTo == IF Len(msgs) > Window THEN Len(msgs) - Window ELSE 0
       IN  \/ /\ upTo - from >= BatchSize /\ failures < FailureLimit
              /\ todo' = [from |-> from, upTo |-> upTo]
              /\ Goto("submit")
           \/ Goto("roll") /\ UNCHANGED todo
    /\ UNCHANGED <<turns, summary, jobs, caches, files, then, held, record>>

\* _schedule_slow_path(), its last critical section.  A job that runs for
\* longer than _BG_JOB_TIMEOUT_SECONDS is taken to be stuck and passed by.
Submit ==
    /\ at = "submit"
    /\ IF InFlight THEN Event /\ upsets' = upsets \cup {"overlap"}
                   ELSE UNCHANGED record
    /\ IF todo.upTo <= mem.upTo
       THEN UNCHANGED <<future, job>>
       ELSE \E j \in Jobs :
              /\ ~Active(j)
              /\ job' = [job EXCEPT ![j] =
                   [NoJob EXCEPT !.pc = "queued", !.upTo = todo.upTo,
                                 !.batch = Part(msgs, todo.from, todo.upTo)]]
              /\ future' = j
    /\ Goto("roll") /\ todo' = NoBatch
    /\ UNCHANGED <<turns, summary, failures, caches, files, then, held>>

\* ... one that is still running is left to it.
SkipSubmit ==
    /\ at = "submit" /\ InFlight
    /\ Goto("roll") /\ todo' = NoBatch
    /\ UNCHANGED <<turns, summary, jobs, caches, files, then, held, record>>

\* Defect: the boundary counts as the first message after it.
ScheduleRollSkips ==
    /\ at = "roll"
    /\ \/ Len(msgs) <= Window /\ UNCHANGED roll
       \/ /\ Len(msgs) > Window
          /\ \E v \in Verbatim, r \in Rolls :
               LET bound == Len(msgs) - v
                   from  == Lesser(mem.upTo, bound)
               IN  /\ v < Len(msgs) /\ ~Rolling(r)
                   /\ roll' = [roll EXCEPT ![r] =
                        [ready |-> TRUE, from |-> from, bound |-> bound,
                         sifted |-> {m \in Part(msgs, from + 1, bound) : Reply(m)}]]
    /\ \/ Goto("save") /\ UNCHANGED <<then, events>>
       \/ Event /\ Goto("join") /\ then' = "domain"
    /\ UNCHANGED <<turns, summary, jobs, tier, files, todo, held, upsets>>

\* schedule_tier_roll_forward(): what roll_forward() will make of the
\* messages and the boundary as they are now; how many messages fit the
\* verbatim budget is up to their length, and so is which of the others fit the
\* budgets of the tiers (not kept: the cache records those it went through).
\* Then _check_domain_shift(): after some turns of another domain,
\* reset_summary().
ScheduleRoll ==
    /\ at = "roll"
    /\ \/ Len(msgs) <= Window /\ UNCHANGED roll
       \/ /\ Len(msgs) > Window
          /\ \E v \in Verbatim, r \in Rolls :
               LET bound == Len(msgs) - v
                   from  == Lesser(mem.upTo, bound)
               IN  /\ v < Len(msgs) /\ ~Rolling(r)
                   /\ roll' = [roll EXCEPT ![r] =
                        [ready |-> TRUE, from |-> from, bound |-> bound,
                         sifted |-> {m \in Part(msgs, from, bound) : Reply(m)}]]
    /\ \/ Goto("save") /\ UNCHANGED <<then, events>>
       \/ Event /\ Goto("join") /\ then' = "domain"
    /\ UNCHANGED <<turns, summary, jobs, tier, files, todo, held, upsets>>

\* Defect: nothing is written unless the flag is set.
SaveWhenDirty ==
    /\ at = "save"
    /\ hist' = msgs
    /\ upsets' = upsets \cup
         IF Len(hist) < meta.upTo /\ Len(hist) < Len(msgs) THEN {"overtaken"} ELSE {}
    /\ \/ ~InFlight /\ dirty /\ Goto("snapshot") /\ then' = "tiers"
       \/ InFlight /\ dirty /\ Goto("snapshot") /\ then' = "flag"
       \/ ~dirty /\ Goto("tiers") /\ UNCHANGED then
    /\ UNCHANGED <<turns, summary, jobs, caches, meta, tiers, todo, held, events>>

\* save(), its first part.  The clamp of load() is not in the file yet.
Save ==
    /\ at = "save"
    /\ hist' = msgs
    /\ upsets' = upsets \cup
         IF Len(hist) < meta.upTo /\ Len(hist) < Len(msgs) THEN {"overtaken"} ELSE {}
    /\ \/ ~InFlight /\ Goto("snapshot") /\ then' = "tiers"
       \/ InFlight /\ dirty /\ Goto("snapshot") /\ then' = "flag"
       \/ InFlight /\ ~dirty /\ Goto("tiers") /\ UNCHANGED then
    /\ UNCHANGED <<turns, summary, jobs, caches, meta, tiers, todo, held, events>>

\* _save_hybrid_meta(): a snapshot under the lock, ...
Snapshot ==
    /\ at = "snapshot"
    /\ held' = mem
    /\ Goto("write")
    /\ UNCHANGED <<turns, summary, jobs, caches, files, then, todo, record>>

\* ... the file, or its removal, without it.
WriteMeta ==
    /\ at = "write"
    /\ meta' = held
    /\ Goto(then) /\ then' = "idle" /\ held' = Forgotten
    /\ UNCHANGED <<turns, summary, jobs, caches, hist, tiers, todo, record>>

ClearDirty ==
    /\ at = "flag"
    /\ dirty' = FALSE
    /\ Goto("tiers")
    /\ UNCHANGED <<turns, mem, churn, jobs, caches, files, thread, record>>

\* _save_tier_cache()
SaveTiers ==
    /\ at = "tiers"
    /\ tiers' = IF tier.ready THEN tier ELSE tiers
    /\ Goto("idle")
    /\ UNCHANGED <<turns, summary, jobs, caches, hist, meta, thread, record>>

------------------------------------------------------------------------------
(* Resets, /clear and /undo *)

\* reset_summary_state(), when the agent sees that the topic has changed.
ResetTopic ==
    /\ at = "idle" /\ Event
    /\ Forget
    /\ Goto("unlink") /\ then' = "idle"
    /\ UNCHANGED <<turns, jobs, caches, files, todo, held>>

\* _reset_summary_state(): the file goes after the lock is released.
Unlink ==
    /\ at = "unlink"
    /\ meta' = Forgotten
    /\ Goto(then) /\ then' = "idle"
    /\ UNCHANGED <<turns, summary, jobs, caches, hist, tiers, todo, held, record>>

\* clear(), called by /clear and by the API.
Clear ==
    /\ at = "idle" /\ msgs # << >> /\ Event
    /\ Goto("join") /\ then' = "wipe"
    /\ UNCHANGED <<turns, summary, jobs, caches, files, todo, held, upsets>>

\* join_background(): until the job is done, or for a minute.
Join ==
    /\ at = "join"
    /\ Goto("reset")
    /\ UNCHANGED <<turns, summary, jobs, caches, files, thread, record>>

\* The reset in reset_summary() leaves the count of tokens alone, the one in
\* clear() does not.
Reset ==
    /\ at = "reset"
    /\ IF then = "wipe"
       THEN Forget /\ Goto("unlink") /\ UNCHANGED then
       ELSE /\ mem' = Forgotten
            /\ upsets' = upsets \cup
                 IF \E j \in Jobs : Active(j) THEN {"reset"} ELSE {}
            /\ Goto("snapshot") /\ then' = "save"
            /\ UNCHANGED <<churn, dirty>>
    /\ UNCHANGED <<turns, jobs, caches, files, todo, held, events>>

\* clear(), the rest: the cache, the files, the messages.
Wipe ==
    /\ at = "wipe"
    /\ tier' = NoTier /\ meta' = Forgotten /\ tiers' = NoTier
    /\ msgs' = << >>
    /\ upsets' = upsets \cup
         IF (\E j \in Jobs : Active(j)) \/ (\E r \in Rolls : Rolling(r))
         THEN {"clear"} ELSE {}
    /\ Goto("save")
    /\ UNCHANGED <<turn, summary, jobs, roll, hist, thread, events>>

\* pop_last_turn(): the boundary and the cache stay where they are.
Undo ==
    /\ at = "idle" /\ msgs # << >> /\ Event
    /\ LET left == Len(msgs) - 2
       IN  /\ msgs' = SubSeq(msgs, 1, left)
           /\ upsets' = upsets \cup
                IF \/ mem.upTo > left \/ tier.bound > left \/ tiers.bound > left
                   \/ \E j \in Jobs : Pending(j) /\ job[j].upTo > left
                   \/ \E r \in Rolls : roll[r].bound > left
                THEN {"undo"} ELSE {}
    /\ Goto("save")
    /\ UNCHANGED <<turn, summary, jobs, caches, files, thread>>

------------------------------------------------------------------------------
(* The pool *)

\* _run_slow_path(), from its start to the call of the model.
StartJob(j) ==
    /\ job[j].pc = "queued"
    /\ job' = [job EXCEPT ![j].pc = "llm", ![j].before = mem.text]
    /\ UNCHANGED <<turns, summary, future, failures, caches, files, at, thread,
                   record>>

\* Defect: the summary is stored without a look at the boundary.
AnswerUnguarded(j) ==
    /\ job[j].pc = "llm"
    /\ \E ok \in BOOLEAN :
         LET text == IF ok THEN job[j].before \cup job[j].batch ELSE job[j].before
         IN  IF text # {}
             THEN /\ mem' = [text |-> text, upTo |-> job[j].upTo]
                  /\ churn' = 0 /\ dirty' = TRUE
                  /\ upsets' = upsets \cup IF ok THEN {} ELSE {"failed"}
             ELSE UNCHANGED <<summary, upsets>>
    /\ job' = [job EXCEPT ![j] = [NoJob EXCEPT !.pc = "save"]]
    /\ UNCHANGED <<turns, future, failures, caches, files, at, thread, events>>

\* generate_summary() and what is done with it.  A call that fails, times out
\* or says nothing gives the summary there was before, None if there was none.
Answer(j) ==
    /\ job[j].pc = "llm"
    /\ \E ok \in BOOLEAN :
         LET text == IF ok THEN job[j].before \cup job[j].batch ELSE job[j].before
         IN  IF text # {} /\ job[j].upTo > mem.upTo
             THEN /\ mem' = [text |-> text, upTo |-> job[j].upTo]
                  /\ churn' = 0 /\ dirty' = TRUE
                  /\ upsets' = upsets \cup IF ok THEN {} ELSE {"failed"}
             ELSE UNCHANGED <<summary, upsets>>
    /\ job' = [job EXCEPT ![j] = [NoJob EXCEPT !.pc = "save"]]
    /\ UNCHANGED <<turns, future, failures, caches, files, at, thread, events>>

\* _save_hybrid_meta() in the job.
JobSnapshot(j) ==
    /\ job[j].pc = "save"
    /\ job' = [job EXCEPT ![j].pc = "write", ![j].snap = mem]
    /\ UNCHANGED <<turns, summary, future, failures, caches, files, at, thread,
                   record>>

\* Defect: the boundary is read again when the file is written.
JobWriteTorn(j) ==
    /\ job[j].pc = "write"
    /\ meta' = [job[j].snap EXCEPT !.upTo = mem.upTo]
    /\ job' = [job EXCEPT ![j] = [NoJob EXCEPT !.pc = "flag"]]
    /\ UNCHANGED <<turns, summary, future, failures, caches, hist, tiers, at,
                   thread, record>>

JobWrite(j) ==
    /\ job[j].pc = "write"
    /\ meta' = job[j].snap
    /\ job' = [job EXCEPT ![j] = [NoJob EXCEPT !.pc = "flag"]]
    /\ UNCHANGED <<turns, summary, future, failures, caches, hist, tiers, at,
                   thread, record>>

JobClearDirty(j) ==
    /\ job[j].pc = "flag"
    /\ dirty' = FALSE
    /\ job' = [job EXCEPT ![j].pc = "last"]
    /\ UNCHANGED <<turns, mem, churn, future, failures, caches, files, at,
                   thread, record>>

JobEnds(j) ==
    /\ job[j].pc = "last"
    /\ failures' = 0
    /\ job' = [job EXCEPT ![j] = NoJob]
    /\ UNCHANGED <<turns, summary, future, caches, files, at, thread, record>>

\* The vector store raises, when it is opened, filled or saved.
JobRaises(j) ==
    /\ job[j].pc \in {"llm", "save", "last"}
    /\ failures' = failures + 1
    /\ job' = [job EXCEPT ![j] = NoJob]
    /\ upsets' = upsets \cup IF job[j].pc = "last" THEN {} ELSE {"raised"}
    /\ UNCHANGED <<turns, summary, future, caches, files, at, thread, events>>

\* _do_roll_forward() stores what it made, over whatever is there.
FinishRoll(r) ==
    /\ Rolling(r)
    /\ tier' = roll[r]
    /\ roll' = [roll EXCEPT ![r] = NoTier]
    /\ UNCHANGED <<turns, summary, jobs, files, at, thread, record>>

\* It failed, or every message fits the verbatim budget.
DropRoll(r) ==
    /\ Rolling(r)
    /\ roll' = [roll EXCEPT ![r] = NoTier]
    /\ UNCHANGED <<turns, summary, jobs, tier, files, at, thread, record>>

------------------------------------------------------------------------------
(* The process *)

\* shutdown(): what is still running is not waited for, and a lock it holds
\* leaves its file as it is.
Shutdown ==
    /\ at = "idle" /\ Event
    /\ hist' = msgs
    /\ \/ meta' = mem
       \/ InFlight /\ UNCHANGED meta
    /\ \/ tiers' = IF tier.ready THEN tier ELSE tiers
       \/ InFlight /\ UNCHANGED tiers
    /\ Goto("exit")
    /\ UNCHANGED <<turns, summary, jobs, caches, thread, upsets>>

\* The process ends, after shutdown() or in the middle of anything.
Crash ==
    /\ at # "down"
    /\ IF at = "exit" THEN UNCHANGED events ELSE Event
    /\ Goto("down")
    /\ msgs' = << >> /\ mem' = Forgotten /\ churn' = 0 /\ dirty' = FALSE
    /\ failures' = 0 /\ future' = "none" /\ job' = [j \in Jobs |-> NoJob]
    /\ tier' = NoTier /\ roll' = [r \in Rolls |-> NoTier]
    /\ then' = "idle" /\ todo' = NoBatch /\ held' = Forgotten
    /\ UNCHANGED <<turn, files, upsets>>

\* Defect: _clamp_summary_idx() is not called.
LoadUnclamped ==
    /\ at = "down"
    /\ msgs' = hist /\ mem' = meta /\ UNCHANGED meta
    /\ tier' = tiers
    /\ Goto("idle")
    /\ UNCHANGED <<turn, churn, dirty, jobs, roll, hist, tiers, thread, record>>

\* load(): sanitize_history() may drop a turn, a summary may be too old, and
\* the boundary is clamped to the messages there are.
Load ==
    /\ at = "down"
    /\ \E bad \in {0} \cup {i \in 2..Len(hist) : Reply(hist[i])}, old \in BOOLEAN :
         /\ msgs' = IF bad = 0 THEN hist
                    ELSE SubSeq(hist, 1, bad - 2) \o SubSeq(hist, bad + 1, Len(hist))
         /\ LET kept == IF old THEN Forgotten ELSE meta
            IN  mem' = [kept EXCEPT !.upTo = Lesser(@, Len(msgs'))]
         /\ meta' = IF old THEN Forgotten ELSE meta
         /\ upsets' = upsets \cup IF bad = 0 THEN {} ELSE {"sanitized"}
    /\ tier' = tiers
    /\ Goto("idle")
    /\ UNCHANGED <<turn, churn, dirty, jobs, roll, hist, tiers, thread, events>>

------------------------------------------------------------------------------

Session ==
    \/ Update \/ Schedule \/ Submit \/ SkipSubmit \/ ScheduleRoll
    \/ Save \/ Snapshot \/ WriteMeta \/ ClearDirty \/ SaveTiers
    \/ ResetTopic \/ Unlink \/ Clear \/ Join \/ Reset \/ Wipe \/ Undo

Pool ==
    \/ \E j \in Jobs :
         \/ StartJob(j) \/ Answer(j) \/ JobSnapshot(j) \/ JobWrite(j)
         \/ JobClearDirty(j) \/ JobEnds(j) \/ JobRaises(j)
    \/ \E r \in Rolls : FinishRoll(r) \/ DropRoll(r)

MemoryNext == Session \/ Pool \/ Shutdown \/ Crash \/ Load

MemorySpec == MemoryInit /\ [][MemoryNext]_memoryVars
------------------------------------------------------------------------------
(* Properties *)

\* "How many messages (from the start) are covered by the summary" (comment
\* at _summary_msg_idx).
BoundaryCovered == Part(msgs, 0, mem.upTo) \subseteq mem.text

\* The same, as long as no call of the model failed after the first, no job
\* was overtaken by a reset or a clear, no message before the boundary was
\* taken back or dropped, and no history was saved past a boundary that load()
\* had clamped in memory only: whatever jobs overlap, wherever a crash strikes.
SummaryCoversBoundary == upsets \subseteq {"overlap", "raised"} => BoundaryCovered

\* What a restart would find on disk at any moment, with files that are
\* written one after the other and by two threads, is a summary that covers
\* its boundary too.
RestartCovers ==
    upsets \subseteq {"overlap", "raised"}
        => Part(hist, 0, meta.upTo) \subseteq meta.text

\* No reply is overlooked between the summary, the cache and the verbatim part,
\* however late the roll-forward that made the cache: each is folded into the
\* summary, verbatim, or was sifted by the roll-forward, which lets a reply go
\* only for want of room ("Tier 2 also full", in roll_forward()).  Not once the
\* summary that the cache relies on has been reset.
NoReplyOverlooked ==
    (upsets \subseteq {"overlap", "raised"} /\ tier.ready /\ tier.from <= mem.upTo)
        => \A m \in Part(msgs, 0, Len(msgs)) :
             Reply(m) => m \in mem.text \cup tier.sifted
                               \cup Part(msgs, tier.bound, Len(msgs))

\* A summary is not given up while jobs end in the wrong order: the boundary
\* falls only when the summary is forgotten, or the process ends.
BoundaryNeverRewinds == [][mem'.upTo < mem.upTo => mem' = Forgotten]_memoryVars

\* With the session idle and the pool empty, a clear flag means that the file
\* holds what the memory holds, the clamp of load() apart: what is computed in
\* the background between two saves is not lost.  Not so after a job that was
\* taken to be stuck, which in the end writes the summary it had seen over a
\* newer one and clears the flag ("old thread runs to completion"); nor after a
\* job that raised, or one that a reset or a clear overtook.
CleanMeansSaved ==
    (/\ at = "idle" /\ ~dirty /\ \A j \in Jobs : ~Active(j)
     /\ upsets \cap {"overlap", "raised", "reset", "clear"} = {})
        => meta.text = mem.text /\ mem.upTo <= meta.upTo
===============================================================================
