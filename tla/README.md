# A TLA+ model of Cogtrix

Cogtrix (`src/`) is an AI agent with four ways in: an interactive CLI
(`cogtrix.py`), a REST and WebSocket API (`cogtrix_core/api`), an assistant
daemon that answers WhatsApp and Telegram messages (`cogtrix_core/assistant`),
and a background task queue that the CLI and the API submit to
(`cogtrix_core/tasks`). The answers depend on language models and external
services; what can be verified is the machinery around them: queues, locks,
retries, files that must survive a crash, budgets and cancellation.

Paths below are relative to `src/cogtrix_core` unless they start with `src/`.

## 1. Inventory

| Component | State | Operations | Interacts with | What makes it correct |
|---|---|---|---|---|
| Task queue, `tasks/queue.py` | rows of a SQLite file, a `ThreadPoolExecutor` per `start()`, a lock per process | submit, cancel, start, stop, `_worker` | CLI, API routes, agent tools; other processes on the same file | no task runs twice, none is lost, a cancelled one never runs, every one ends |
| API sessions and turns, `api/session_bridge.py`, `api/turn_runner.py`, `api/routes/messages.py`, `api/callbacks.py` | registry of live `ApiSession` objects; per object `turn_task`, `turn_lock`, `cancel_event`, `ws_queue`, memory | get_or_warm, evict_idle, reconcile_tools, send_message (async and `?sync=true`), WebSocket messages, cancel, clear_history | agent threads, database, memory manager, MCP reconciliation | one turn at a time per object; a cancellation meets the turn it was meant for; every request is answered |
| Memory, `memory/manager.py`, `memory/modes/conversation.py`, `memory/tier_cache.py` | messages, rolling summary and its boundary, failure counters, background jobs, three files | prepare, update, slow path, roll-forward, save, load, clear, undo, shutdown | turns of CLI, API and assistant | what the boundary claims to be summarised is; no reply is overlooked; what is computed is saved |
| Agent graph, `orchestration/{graph,runner,phases}.py`, `orchestration/nodes/recovery.py` | state of a LangGraph run, retry counters, firing budget, step limits | run_agent and the nodes it alternates between | tool dispatch, providers | every run ends; a detector cannot keep it going; a flagged text goes out as a last resort |
| Tool dispatch, `orchestration/nodes/process_tools.py`, `orchestration/deduped_tool_invoker.py`, `orchestration/graph_runtime.py` | history and pending Events by call key, counts by tool, a pool | a round of calls, a call, the reset for a new run | agent graph, tools | duplicates run once, ceilings hold, every call has exactly one answer |
| Scheduled messages, `assistant/scheduler.py` | `_queue` of messages with status and attempts, a JSON file, a dispatch thread | schedule, queue_after_tail, edit, cancel, dispatch, retry, expire, clean up | agent tools of any chat, channels, the file after a restart | cancelled is never sent; attempts are bounded; the file follows the queue; every message settles |
| Deferral, `assistant/deferral.py` | one record per chat (pending, firing, cancelled), JSON file, dispatch thread | defer (merge), add_message, cancel, fire, success and failure callbacks | handler, reprocess callback on a pool | a retry finds its messages; a record fires once per deferral; depth is bounded |
| Inbox and chat sessions, `assistant/{poller,service,session,handler}.py` | buffer and timers by chat, an executor, a registry of sessions, `session.lock` | add, flush, get_or_create, evict, handle, shut down | channels, memory files, deferral, campaigns | turns of a chat are serial; a recorded turn is kept; nothing polled is forgotten |
| Campaigns, `assistant/campaign.py` | a campaign and its targets, JSON file, follow-up thread | launch, follow up, on_reply, mark outcome, edit, delete | executor, chat sessions, the file | bounded follow-ups; one opening message; the first outcome stands |
| MCP client, `mcp_client.py` | connections by server, reconnect locks, `tools_ready` | connect_all, call_tool, heartbeat, reconnect, restart, disconnect | event loop, tool threads, servers | nobody is served a connection that is being closed; nothing leaks; tools become ready |
| Tool confirmation, `api/confirmation.py` | pending prompt of a session | render_prompt, read_choice, resolve | agent thread, WebSocket | unreachable here: every API session has `no_confirm=True` (`api/session_bridge.py:179`) |
| WebSocket connections, `api/ws.py` | connection, sequence number, replay buffer | connect, send, replay | WebSocket handlers | frames in order |
| Tool timeouts, `concurrency.py` | a shared pool of 8 workers | invoke_with_timeout | tools | a timed-out call does not starve others |
| Detectors `orchestration/verification.py`, CLI, auth, quotas, RAG, channels, providers, tools, UI, configuration, setup | mostly sequential, textual or external | | | |

How they meet: a message of a channel goes through the inbox to a chat session,
whose turn runs the agent graph, which dispatches tool calls, some of them to an
MCP server; the turn ends in the memory's update. Deferral takes a batch away
before its turn, the scheduler and campaigns send of their own accord, and a
web session runs the same graph and memory under `turn_lock`.

The hard behaviour is concurrency and failure: work items dispatched from two
snapshots of a pool, a coroutine cancelled at any await while its thread goes
on, objects evicted while a request holds them, whole-file saves by several
threads, sends cut off by a crash, and records collected under a lock and acted
on outside it. `PROJECT.json` lists the hazards, each at its line, with the
properties that cover it or the reason none does.

## 2. Modules

| Module | Models | Proofs |
|---|---|---|
| `TaskLedger` | abstract specification: what the task queue promises its callers | |
| `TaskQueue` | `tasks/queue.py`; refines `TaskLedger` | `TaskQueueProofs` |
| `ApiTurns` | one web session: registry, turns, cancellation, WebSocket, clearing | `SessionProofs` |
| `Memory` | the memory of one session, its background jobs and files | `SessionProofs` |
| `AgentGraph` | one run of the agent: nodes, detectors, budgets, streams | `AgentGraphProofs` |
| `ToolDispatch` | the tool calls of a run and of the next one | `ToolDispatchProofs` |
| `Scheduler` | the queue of scheduled messages, its file, the dispatch thread | `SchedulerProofs` |
| `Deferral` | one chat's record, its batches, passes and file | `DeferralProofs` |
| `ChatSessions` | inbox, executor, registry of chat sessions, turns, shutdown | `AssistantProofs` |
| `Campaign` | one outbound campaign | `AssistantProofs` |
| `McpClient` | the connections to MCP servers | `McpClientProofs` |
| `MC*` | instances for TLC; the `.cfg` files give the constants | |

Operators whose comment starts with "Mutant" are variants of the definition that
follows them, with a plausible mistake in it. No specification uses them: put in
the place of the right definition, they show that a property can break.
Variables and operators keep the source's names where they can. `ChatSessions`
and `Memory` prefix or rename what a proof module would otherwise import twice
(`MemorySpec`, `SessionsSpec`).

### TaskQueue

`row` is the status column, `executor` the attribute `_executor` of each
process, `pool` the life of every executor ever made, `lock` the holder of
`_lock`. `at` gives the step of `_worker()` that each work item stands at; an
item is named by the pool, the task and the caller that queued it (`submit()` or
`start()`), so that a task dispatched twice is two items. `call` and `snapshot`
are a `submit()` between its critical section and its dispatch, `boot` and
`resubmit` a `start()` after its own, `cancelling` a `cancel()` between SELECT
and UPDATE. A SELECT and the UPDATE that depends on it are two steps with the
lock held in between, because another process does not share the lock. A crash
removes pools, calls and work items of a process and keeps the rows.

### ApiTurns

Everything the API does for one session runs on one event loop, so a step is
what runs between two awaits. `stage` follows each request: `new`, `warming` or
`waiting` (in `get_or_warm`), `held` (it has the object), `persist` (holding
`turn_lock`, storing the message), then, once `turn_task` is set, `accepted`,
`agent`, `memory`, `emit`, `closing`, and `ended` or `refused`. `on` is the
object it holds: after an eviction the registry builds a new one, and the old one
lives on in whoever holds it. `agents` and `writers` are the threads, which a
cancelled coroutine leaves running.

### Memory

The thread of the session (`at`, with `then`, `todo` and `held` for the code it
shares between callers) and two kinds of jobs of a pool: `job`, the summarizers
of `_run_slow_path()`, and `roll`, which recompute the cache of compressed
replies. A step is one critical section of `_hybrid_lock` or one file operation;
`hist`, `meta` and `tiers` are the three files. A summary is the set of messages
folded into it, so that "covered" can be said. A cache of compressed replies is
the set of those that `roll_forward()` has sifted: it decides by size which to
compress and which to drop, and the model keeps only that it has decided.
`upsets` is a history variable: it
names what came between a job and the messages it was computed from (a reset, an
undo, a clear, a failed model call, a job that was given up on and overtaken).

### AgentGraph

`node` and `last` (the last message) drive one step per node with the
conditional edge after it; `count` are the detectors' own retry counters,
`firings` the common budget of the user's turn, `fresh` whether an unmarked human
message has reset it, `steps` the recursion limit and `phase` the stream of the
runner: the main one, the synthesis after a delegation, the continuation after
`extend_run`, the recovery from the step limit. Which detectors object to a reply
is the model's choice; their order, retries and self-termination are the code's.
`said` is the newest assistant text in the list with the objections to it, since
`extract_response()` may return a text that was nudged and not removed. Whether
a text is a step-limit apology, which sends the runner on, is left open. `node` is
`"raised"` after a conditional edge that names a node missing in its path map.

### ToolDispatch

`calls` holds a record per call of the model, with the step its thread is at in
`invoke_one()`, its reply and the answer the driver gave; `driver`, `mode` and
`batch` are `process_tools()`; `history`, `pending`, `counts` and `lookup` are
the state of a compiled graph that the next run resets in place, while threads
that the driver gave up on still hold it.

### Scheduler

`rec` is `_queue`, `file` the JSON file, `due` whether `send_at` has passed.
`save()` is two steps per saver: the snapshot, taken with `_save_lock` held, and
the replacement of the file. `disp`, `batch` and `current` are the dispatch
thread. `Crash` is the death of the process together with the loading of the
file by the next one. `cancelling`, `acked` and `sends` are history variables.

### Deferral

One chat and its `record`: status, buffered messages and depth. `step` follows
the threads of the executor: a batch (`absorb`: it offers its messages to
`add_message()` one by one; then `wait`, `agent`, `leave`) or a re-processing
pass (`wait` onwards, then its done callback from `ok` or `failed`). `disp` is
the dispatch thread between its looks at the record it collected: while `same`
holds that is the chat's record, and after `Replace` `held` keeps the old one.
`save()` is a snapshot under the lock (`image`) and, unsynchronised, the write.
`owed` and `cut` are history variables.

### ChatSessions

`buffer` and `timers` are `MessageBuffer`: per chat the armed timers, whether
`_timers` holds one, and those that have expired and wait for the lock.
`batches` is what was submitted to the executor, in order; a batch is a job, a
job names the session it creates, and `at` says how far `handle()` has come.
`registry` is `_sessions`, `older` the order of their `last_activity`, `lock` the
holder of each `session.lock`: a job in its turn, a job that saves what it
evicted, or the eviction thread. `turns` and `stored` are what a session's memory
and a chat's file record. `torn` is a history variable: the chats that had two
sessions at once, or lost a save.

### Campaign

`campaign` and `target` are the memory, `file` and `late` the JSON file and a
`save()` that was overtaken; `launch`, `opening`, `pass` and `jobs` follow the
operator's request, its opening messages, the follow-up thread and the follow-ups
on the executor; `session` is the chat's `session.lock`, held by one of them or
by a reply. Of time stamps only what the code compares is kept. `limit` is
`max_follow_ups`, which a PATCH sets like the status and the interval; `opened`
and `top`, the highest limit so far, are history variables.

### McpClient

One event loop runs every coroutine, so a step ends at an await. `op` says what
each coroutine or calling thread does with which server and connection, `lock`
who holds its reconnect lock, `todo` what is left of the heartbeat's copy of
`_connections`, `batch` the tasks of a `connect_all()`. `transport` outlives the
registration of its connection until `close()` is reached. The deadlines that
cut an operation off (`connect_all()`, `call_tool()`, the whole of `restart()`)
are steps of their own: they skip what the code does after the await.

## 3. What is checked

| Run | Instance | Distinct states | Shows |
|---|---|---|---|
| `task_queue` | 1 task, 1 process, 3 executors, 2 workers, start() lists 1 row | 203,585 | no task runs twice, a started queue strands no pending row, a cancelled one never runs, the queue implements the ledger, every task ends across stops and crashes |
| `api_turns` | 2 requests, 2 objects, queue of 1 | 521,754 | `turn_task` is exactly the turn in progress; a cancellation stays in its turn; agent, memory work and clearing of an object exclude each other; every request that waits is answered and every turn ends, if the frame queue is read |
| `scheduler` | 2 messages, 2 attempts, 1 crash, 1 postponement | 726,764 | sends are bounded by `max_attempts` plus crashes; the file holds the queue whenever nobody is saving; a cancellation holds; every message settles |
| `deferral` | a message and a batch of two, 2 passes, depth 2, 1 failure, 1 crash | 221,703 | a failed pass finds its messages again, until a cancellation; a firing record is in somebody's hands; the chat is released in the end |
| `deferral_buffer` | 2 messages, 1 pass | 2,770 until found | **violated**: a message buffered while the pass runs is dropped when it succeeds |
| `agent_graph` | 4 detectors of different kinds, 2 objections to a reply, step limits 10, 4, 6, 4 | 625,610 | recoveries are bounded; a flagged text is the last resort; the run ends |
| `agent_last_chance` | the same | 2 s until found | **violated**: the last chance for an announcement that was not followed up ends in an exception |
| `memory` | window 1, batches of 2, 2 summarizers, 1 roll-forward, 4 turns (1 of them past), 1 upset | 3,234,292 | what the boundary claims is summarised, in memory and in the files; no reply is overlooked between summary, cache and verbatim part; a clear flag means saved; the boundary does not move back |
| `tool_dispatch` | 1 key, ceiling 2, 2 workers, rounds of 2, 4 calls, 2 runs | 3,314,534 | equal calls run once; a waiting call waits for somebody; ceilings hold; results stay in their run |
| `campaign` | 1 target, limit 0 that a PATCH may set to 1, overlap 2, two of: a raise, an edit, another, a crash | 388,553 | follow-ups stay within the highest limit, the opening is not repeated, an active campaign has work, outcomes stand, whoever is awaited is resolved |
| `mcp_client` | 1 server, 1 caller, 4 connections, one each of start-up, break, expiry, restart, disconnect | 178,175 | a served connection is open; the paths with the lock leak nothing; tools become ready; a broken connection is dropped |
| `chat_sessions` | 2 chats, 2 workers, 1 session (hard cap 1), 3 messages, 1 failing save | 633,500 | turns of a chat overlap only after an eviction between lookup and lock; recorded turns are kept; the inbox settles |

`deferral_buffer` and `agent_last_chance` are the findings: `PROJECT.json` quotes
the document and the comments they contradict. Other disagreements are in section 6.

### Bounds, and why they are enough

The properties speak of one task, message, call, chat or server, or of a pair of
them, so the instances have one or two of each, in every role that can
interfere: a second request on the same session, a second message of a batch, a
duplicate call, a second session of a chat. One crash, failure, edit or upset of
each kind meets every state of the other threads, since TLC tries it in all of
them. `task_queue`: one task shows a duplicate dispatch, two workers run it at
once, three executors allow two restarts. `memory`: four turns with batches of
two give two summarizers that overlap and a boundary that moves twice.
`chat_sessions`: one session makes every second chat an eviction; with three
messages one chat is evicted and comes back. `campaign`: two follow-ups that
overlap are enough to pass a limit of one, and a limit that a PATCH raises from
nought and lowers again is passed in both ways. `mcp_client`: four connections
are what is alive at once when all paths overlap. `agent_graph`: the four
detectors are one of each kind (self-terminating and asked first, the same and
asked later, ordinary, with an extra nudge), and the limits let every phase be
entered and exhausted. The frame queue is cut from 10 000 to 1 so that it fills: a token is enough
to make the done frame wait.
What no bound restricts is in section 4: the theorems hold for all values.

### Fairness

Threads and event loops run what can run, and what they wait for ends: weak
fairness of each step of the code's own threads. `TaskQueue` assumes that the CLI
calls `start()` at launch. `ApiTurns` and `McpClient` have strong fairness where
an `asyncio.Lock` is taken, which wakes its waiters in order; `RequestsEnd`
assumes that the frame queues are read. `Scheduler`, `Deferral` and `Campaign`
assume that time passes, `ChatSessions` that timers expire, `AgentGraph` that its
one loop runs. Nothing is assumed of callers, clients, contacts, operators,
evictions, signals, failures and crashes. `Memory` and `ToolDispatch` have no
liveness property and state no fairness.

## 4. What is proved

Every invariant and every action property of the passing runs is a theorem of
its specification, for all values of the constants, checked by TLAPS; so is the
refinement. The assumptions are the named `ASSUME`s of the modules (bounds are
natural numbers, limits positive where the code's are), and for the task queue
`SingleProcess`: its lock protects one process.

**`TaskQueueProofs`**, under `SingleProcess`: `RunsAtMostOnce`,
`CancelledStaysCancelled`, `QueueImplementsLedger`. `AtMostOnce` does not say why
the second of two work items finds the row taken; `QueueInv` does: a thread
between SELECT and UPDATE holds the lock and its row is still PENDING
(`LockHeld`), a thread past the UPDATE works on a row that was claimed
(`Claimed`), and a runner was invoked once for the rows that were (`Counted`).
The refinement follows by looking at each step's effect on the rows.
`NothingIsStranded` needs in addition that a published executor takes work
(`Running`), that a PENDING row is in somebody's hands until its item is in the
pool (`Handled`), and `FewTasks`: there are no more tasks than `start()` lists
at once (`PendingLimit`, the code's `limit=1000`). `TypeCorrect` needs neither.

**`SchedulerProofs`**: `SendsAreBounded` by `SendInv`, which counts: the sends of
a message are at most the attempts recorded in each record that may still come
to count (in memory, in the file, in each snapshot on its way there), plus the
one in flight and the crashes so far. `CancelledIsNotSent` by `CancelInv`: an
acknowledged cancellation has reached every such record. `QuietMeansSaved` by
`SaveInv`: whenever memory and file differ, somebody has still to save.

**`SessionProofs`**, first part: `TurnTaskIsExact`, `CancellationsStayInTurn`,
`WorkersAreExclusive` from one `TurnInv`, which says of every stage whether its
turn holds the lock, that `turn_task` is empty while a message is being
persisted, and that a thread nobody cancelled belongs to the stage of its turn.

**`SessionProofs`**, second part: `BoundaryIsCovered`, `RestartIsCovered`,
`RepliesAreSifted`, `CleanIsSaved`, `BoundaryStands` from one `MemoryInv`. A job
knows only what it was given when it was submitted, so the invariant says what it
carries: enough to cover the boundary it will set (`Covered`); a cache, stored or
to come, was made from every reply it claims (`Fitting`); the history file agrees with
the messages but during a turn, an undo or a clear (`Histories`); the summary is
in the file or some job or save will put it there (`Saving`). `Covered` and
`Fitting` hold while nothing but overlapping or raising jobs came between
(`Calm`), `Saving` while no job overlapped another, raised, or was overtaken by
a reset or a clear (`Undisturbed`). What breaks them is in section 6. `WorkersAreExclusive` is what `Memory` relies on when it has one
thread per session.

**`AgentGraphProofs`**: `RecoveriesStayBounded`, `FlaggedTextsComeLast` and
`CapLeavesLoneDetectors` from `GraphInv`: a counter passes its retries only on
the way out of a stream (`Counted`), what the two budgets have counted in common
since the marker was last taken (`Window`), and that every assistant text in the
list but the one whose detector's node runs next is fit to be told (`Vetted`).

**`ToolDispatchProofs`**: `DuplicatesRunOnce`, `WaitersAreServed`,
`ResultsStayInTheirRun`, `CeilingHolds` and `AnswersAreComplete` from
`DispatchInv`: a busy call is waited for by the driver or was given up on
(`Driven`), who owns the sentinel of each key (`Sentinels`), whose result the
history holds (`Kept`), and that the counts bound the calls that passed (`Spent`,
by cardinalities of sets).

**`DeferralProofs`**: `RetriesKeepMessages`, `FiringRecordsAreWorkedOn`,
`DepthStaysBounded`. The depth of a record travels into a pass, back into the
record, into snapshots and the file; the invariant bounds it in all these places.
That a pass has the chat to itself needs that the dispatch thread still holds the
chat's own record (`Untouched`), as long as `handle_batch()` has cancelled nothing.

**`AssistantProofs`**, campaigns: `FollowUpsStayBounded`,
`OpeningsAreNotRepeated`, `CampaignsComplete`, `OutcomesStand`. A restart reads a
file that may be older than the memory, so what the invariants say of the memory
they say of the file and of the late write.

**`AssistantProofs`**, chat sessions: `OverlapsAreStray`, `TurnsStayKept`,
`RegistryIsCapped` from `SessionsInv`. A job holds no lock between lookup and
turn, so the invariant speaks of the live sessions of a chat: those that are
listed, locked or about to be locked. `Holding` says who may hold a lock,
`Turning` that the registry has one session per chat and keeps the one whose turn
is under way, `Keeping` that a chat that is not torn has at most one live session,
that it remembers every recorded turn, and that the file does too as soon as
nobody holds the session, or a turn outside the registry does. That a session is
created from a complete file needs the hard cap as well (`Capped`): a lookup that
is refused has evicted nobody, for otherwise there would be room.

**`McpClientProofs`**: `ServedConnectionsAreOpen` by ownership: a connection that
is being opened or closed belongs to one coroutine, or one task of a
`connect_all()`, and is not registered meanwhile (`Owned`, `Batched`, `Served`);
`LockedPathsDoNotLeak` by `LockInv`: while only the paths that take the reconnect
lock run, every live transport is registered or in the hands of one of them.

Each of these modules proves the type invariant of its specification first.
Proved and in no run, to keep the runs to distinct questions: the type
invariants, `DepthBounded`, `CapSparesLoneDetector`, `EveryCallAnswered`, the cap
of the registry.

Only model-checked: the liveness properties (`EveryTaskEnds`, `RequestsEnd`,
`MessagesSettle`, `ChatIsReleased`, `RunEnds`, `AwaitedIsResolved`,
`ToolsBecomeReady`, `BrokenIsDropped`, `InboxSettles`), because the prover does
not reason about ENABLED and so about fairness.

## 5. What is not modelled

Not modelled at all: the CLI's loop, configuration and setup, prompts and texts,
the detectors' rules (`orchestration/verification.py`; their verdicts are inputs),
intent classification, providers, channels, RAG, the tools themselves,
authentication and quotas (a refused request), the WebSocket registry, tool
timeouts, and confirmation over the API, which nothing reaches. Most of the
source's lines are of this kind: sequential, textual or clients of services.

Abstractions within the modules, beyond those named in section 2:

- `TaskQueue`: results, logs, which thread of a pool runs an item.
- `ApiTurns`: creation and deletion of sessions, switching of memory modes.
- `Memory`: the conversation mode only; token counts as turns; file errors; which
  replies `roll_forward()` drops for want of room.
- `Scheduler`, `Deferral`: `start()` and `stop()` within a process are within
  `Crash`; a failing write is logged by the code and left out; the order of
  messages within a chat (`queue_after_tail` is an insertion); limits of two
  and 24 hours are nondeterministic.
- `ToolDispatch`: the policy's decisions, correction of arguments, compression.
- `Campaign`: channels run; one launch at a time; at most one lagging write; a
  PATCH of name, goal and instructions.
- `McpClient`: `close_all()`, prompts and resources; one restart at a time.
- `ChatSessions`: messages are not told apart; pop and submission of a flush are
  one step; the idle sessions are any prefix of the least recently active; a
  turn's send, `update()` and `save()` are one step; one life of the process.

## 6. Departures seen while modelling

What the code does and a reader may not expect. The properties state what holds
all the same, with these cases excepted by name.

- Task queue: `start()` takes every RUNNING row for an orphan (`tasks/queue.py:258`);
  with two processes on one file that is a live task of the other.
- Web sessions: after an eviction between resolution and turn
  (`api/session_bridge.py:745`) two live objects of one session work at once. A
  `?sync=true` request answers with the first done frame of a shared queue
  (`api/routes/messages.py:319`), which may be of an earlier turn.
- Scheduler: a message rescheduled after it was collected is sent at once
  (`assistant/scheduler.py:965`).
- Deferral: the finding of section 3.
- Agent graph: the second finding of section 3 (`orchestration/graph.py:2595`; in
  the delegation synthesis and in the recovery the exception is swallowed). A
  nudged announcement of more to come stays in the list
  (`orchestration/nodes/recovery.py:245`), so that it is the answer when the next
  reply is empty, after one firing of its detector; phantom's give-up may repeat
  the reply it removes, and action_intent's the one before it. A cancellation
  during the delegation synthesis is swallowed (`orchestration/runner.py:1124`);
  unmarked human messages reset the firing budget; a run without text may return
  the text of an earlier turn; an announcement of more to come is delivered behind
  an exhausted objection that is asked earlier.
- Memory: a failed summarization advances the boundary all the same
  (`memory/manager.py:198`); a job or a roll-forward in flight restores state
  after `clear()` (`memory/manager.py:1597`). A job taken to be stuck
  (`memory/manager.py:841`) runs to its end beside its replacement, writes the
  older summary it had seen and clears the flag (`memory/manager.py:989`): the
  newer one is in memory only until the next summarization. A reply that fits in
  neither tier, or is empty, is dropped (`memory/tier_cache.py:449`, `:462`), so
  "no reply is overlooked" does not say that the model sees every one.
- Tool dispatch: after the 30 s wait a duplicate runs the tool itself; the return
  "no longer active" (`orchestration/deduped_tool_invoker.py:583`) does not
  release its sentinel; threads given up on after 600 s write into the next run.
- Campaigns: follow-ups that overlap exceed `max_follow_ups`
  (`src/docs/CONFIGURATION.md:1290`); the escalation re-checks the status only; a
  launch error sets a final outcome back to pending; a crash during a launch
  repeats opening messages; a PATCH revives a finished campaign, and may set
  `max_follow_ups` below what was sent, so that the bound is the highest limit the
  campaign had; a reply between
  send and stamp is lost; an older snapshot may be written last.
- MCP: a deadline of `connect_all()` over slow attempts loses all its servers;
  `restart()` and `disconnect()` do not take the reconnect lock, so that a
  transport may leak and a disconnected server come back; a restart whose server
  was removed meanwhile, or that runs into its overall deadline
  (`mcp_client.py:1612`; the cancellation passes `except Exception`), leaves
  `tools_ready` cleared; a failed reconnect is not
  retried by the heartbeat, which ends for good when no server is left.
- Chat sessions: an eviction between lookup and lock (`assistant/handler.py:1129`)
  gives two turns of a chat at once, which `src/docs/ARCHITECTURE.md:1165`
  excludes, and may lose turns; evicted sessions are saved outside the registry's
  lock; `threading.Lock` does not serve in turn, so the order of a chat's batches
  is not enforced; the hard cap drops a batch that was taken from the channel; a
  message polled after `flush_all()` (`assistant/poller.py:138`) or flushed after
  the executor's shutdown is lost; what `prerecord_user` writes is never read back.

## 7. Plan

Done: the ten components above with their runs, and all their safety
properties as theorems. Left, in order of importance:

1. Abstract specifications for more components, in the manner of `TaskLedger`,
   with the refinement proved from the invariants at hand: a ledger of sends for
   `Scheduler` (from `SendInv` and `CancelInv`), a conversation per chat for
   `ChatSessions` (from `SessionsInv`), a cache of calls for `ToolDispatch`.
2. A crash of the assistant in `ChatSessions`, with the loading of the files.
3. `Connections` (`api/ws.py`) and the pool of `concurrency.py`.
4. `ApiTurns` extended by session deletion and memory-mode switches.
