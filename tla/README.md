# TraceAgent, verified: sessions, their turns and their documents

TraceAgent answers questions over the documents of a *session*. A browser talks
to the **backend** (HTTP and SSE); the backend keeps sessions and turns in SQLite,
runs at most one turn of a session at a time against the **agent** (a gRPC stream
of events), and hands uploads to the **document service** (gRPC), which publishes
its results in an S3 **object store**. The agent is stateless between turns; the
session's truth is in the backend, and that is where this project starts; from
there it follows a turn to the agent and back, a page to its events, an upload into
the bucket, and the bucket to the turn that reads it.

The specifications are translated from the code (paths below are relative to
`src/`). `PROJECT.json` maps each definition to its lines, lists the hazards the
properties are for, and the runs, mutants, findings and theorems.

## 1. Inventory

| part | state it keeps | operations | talks to | what is hard | what makes it correct |
|---|---|---|---|---|---|
| `SessionManager` (backend/services/session_manager.py) | cached session row, turns, resources; command queue; `runtime`, `broken`, `pending_cancel`, `recovery_task`; subscribers | create, cancel, upload/remove/replace, attach, detach, stop; `fail`, recovery, `broadcast`, `close` | registry, runtime, database threads, document service | a handler awaits a thread, a runtime or a service while tasks it does not control run | one turn at a time; acknowledged turns exist; a cancel is answered, and truthfully |
| `TurnRuntime` (turn_runtime.py) | phase, `terminal_status`, `cancel_requested`, the begin outcome, pending group of messages | begin, on_event, finish, cancel | agent stream, database threads, manager callbacks | its result is taken up by the loop after the commit; cancelled at any await | a final status is written once; nothing is written after it |
| `SessionRegistry` (session_registry.py, main.py) | entries CREATING/READY/CLOSING | get_or_create, create/finish/abort, evict_idle, close, start | managers, database | loaders, reaper and shutdown overlap; restart after a crash | no turn left open by a restart; no request refused for good; no manager lost |
| database (crud, models/schema.py, core/db.py) | chat_sessions, chat_turns, chat_messages, session_resources | conditional updates in `BEGIN IMMEDIATE` transactions | all of the above | several writers in threads | the claim (`active_turn_id`) names the open turn |
| event feed (subscription.py, session_history.py, turn_view.py) | bounded queue per subscriber, snapshot | attach, next, detach, overflow | SSE route | snapshot and suffix must meet exactly | every event once, in order |
| message grouping (turn_runtime.py, crud) | pending group, `completed_groups`, message sequences | text, tool batch, tool result | agent stream | repeated/mixed groups; a turn stopped in mid group | no assistant tool call without its results in the history |
| agent loop (agent/.../graph.py, loop.py, executor.py) | messages, attempt number, tool tasks | model call, retry, tool batch | model API, tool subprocesses | deadlines shared by parallel tools, retries after partial text | every call gets exactly one result; terminal event last |
| document service (document_resources/application.py, resources.py) | objects of the session's bucket, `raw/` originals, a thread per request | PrepareResources: add, cut out, clear | manager, object store | several objects, no transaction; a call that timed out goes on | the published set is one publication's, and the one the session's rows speak of |
| tool worker's workspace (core/tools) | a temporary directory per tool call | load_workspace_payload, then a tool | object store | reads object by object while a request writes | what it reads cites what it has |
| converters (document_processor, documents.py, index.py) | none across calls | render, parse, write the tree, chunk, validate | document service | nested sections, pages, merged cells, gaps between texts | the tree is the outline; no text is lost; chunks cite what they contain |
| frontend session (use-session.ts, session-state.ts) | connection generation, snapshot | connect, resume, cancel | SSE | late frames of an earlier connection, reconnects | shown state = the newest connection's snapshot plus its events |
| frontend uploads and tasks, document view, settings | a task store, lists | upload, remove, show | routes | several uploads at once | not modelled |
| search, grep, embedding arithmetic, rendering of answers | none across calls | pure functions | – | – | not modelled |

How they meet: a route asks the registry for the session's manager (or the right to
load it) and puts a command into its queue; the manager runs commands one at a time
and starts a runtime per turn, which reads the agent's stream and calls the manager
back; subscribers get what the runtime published. An upload is a command that
waits for the document service; the references it returns become rows of the
session, which the next turn hands to the agent, whose worker reads the bucket.

## 2. Plan

In the order of what can hurt a user most. Done:

1. **SessionTurns** with **TurnContract**: the session's turns, and what a client may
   rely on. **SessionTurnsProofs**: type safety and three promises without a condition;
   the claim and the contract while the session is orderly (section 3).
2. **SessionFeed**: pages, subscriptions, overflow, reconnection. **SessionFeedProofs**:
   snapshot and suffix, and who hears of the end.
3. **TurnWire**, **AgentLoop**, **TurnStream**, composed by **TurnPipeline**: the
   stream of one turn from the model's answers to the message rows.
   **TurnStreamProofs**: every stored history is paired, and what of a stream may break
   the session. **TurnPipelineProofs**: the agent is a peer of the runtime that never
   sends this, and what is stored is its conversation.
4. **SessionRegistry**: several sessions, racing loaders, eviction, shutdown.
   **SessionRegistryProofs**: one owner of a session, nothing stranded.
5. **DocumentPublish** with **DocumentLibrary**: the objects of a bucket, the thread
   that goes on after its call timed out, the worker that reads meanwhile.
   **DocumentPublishProofs**: what the bucket and the readers have in common at every
   step of a request, and the library, until two threads meet.
6. **DocumentHtml**, **DocumentTree**, **ChunkWindows**, composed by **DocumentBuild**:
   from an uploaded file to directories, files and chunks. **DocumentBuildProofs**: its
   types, that the chunks cover the stream, and that citations are exact.
   **DocumentOutlineProofs**: that the tree is the outline of the source, that no text but
   what a heading's name cannot show is lost on the way into it, and that the stream is
   in order.

Left:

7. **ToolWorker** – the subprocess of a tool call, its deadline and its death, below
   `ToolEnds` and `DeadlinePasses` of AgentLoop.
8. **FrontendSession** – connection generations and late frames, above SessionFeed.
9. Liveness of the pipeline: a turn ends although its tools hang.
10. **Uploads** – use-file-uploads and the task store.
11. The ranking of search results and the evidence links of an answer, as operators
    against a reference definition.

Parameters are CONSTANTS with named assumptions, an operation is an action, and
no module that is proved about uses a RECURSIVE operator.

## 3. SessionTurns

One session. A step is what the event loop runs between two suspension points.
A write transaction is three steps, because `asyncio.to_thread` makes it three:
the loop asks (`io = "asked"`), a worker thread commits (`BeginCommit`,
`EventCommit`, `FinishCommit`, `ReplaceCommit`, `RecoveryCommit`), and the loop
takes up the result (`BeginResume`, ..., `ReplaceResume`).

| variable | code |
|---|---|
| `turnRow`, `sess` | `chat_turns.status`; `chat_sessions.active_turn_id`, `.status` and a version number of the resource rows |
| `mgr`, `up` | the registry entry of the session; the process |
| `cache`, `current`, `broken`, `pending`, `recoveryTask` | `manager.session`, `.runtime`, `.broken`, `.pending_cancel`, `.recovery_task` |
| `queue`, `cmd` | `manager.commands`; the command `_run` is executing and the await it is at |
| `rt[t]` | the TurnRuntime of `t`: its phase, its write, its `cancel_requested` and final status, what its thread read back, and which manager its callbacks reach |
| `recoveries` | the `_recover_active_turn` tasks |
| `acked`, `told` | history: answers clients received |
| `earlier` | history: the order of commits not yet taken up |
| `crossed` | history: an order was crossed (below) |

| actions | code |
|---|---|
| `SubmitCreate/Cancel/Replace` | `_ask`: refused when the queue is full |
| `HandleCreate`, `CreateConflict`, `CreateBegun`, `CreateAnswered`, `CreateBeginError`, `CreateListFault` | `_handle_create`, up to each await and each way out |
| `HandleCancel`, `CancelSettled`, `CancelFault` | `_handle_cancel` |
| `HandleReplace`, `ReplacePrepared`, `ReplaceCommit/Resume/Fault` | `_handle_upload`, `_handle_remove`, `_replace_resources` around one document service call |
| `BeginCommit/Resume`, `EventCommit/Resume`, `FinishCommit/Resume`, `WriteFault`, `AgentEvent`, `StreamEnds` | `TurnRuntime.run`, `_write` and its three operations, with `broadcast` inside the resumptions |
| `RecoveryCommit`, `RecoveryFault` | `_recover_active_turn` |
| `LoadRead/Ready`, `EvictIdle`, `Shutdown`, `CloseWaited`, `HandleStop`, `Exit`, `Crash`, `Restart` | the registry and the application's lifespan |

Nothing in the code orders two things that its authors take for ordered, and the model
does neither:

- *Results.* The loop takes the result of a thread when it arrives. `_write` and
  `_transaction` each take the session row that was read in their own transaction
  (`_refresh_state`), so of a replacement and a write of the runtime that are taken up in
  the other order of their commits the older row stays in the cache. `TakeUp` takes
  results up in any order.
- *Recoveries.* `close()` waits for the recovery task, so that a session is not loaded
  again while one runs (SESSION_MANAGER.md:84). It waits for the last one only: a failing
  begin calls `fail()` twice (in `_write` and in `_run`), and `recovery_task` keeps the
  second. `LoadRead` loads a session at any time.

`crossed` becomes TRUE in the step in which one of the two happens: a result is taken up
before an earlier one, or a session is loaded while a recovery has still to write. It is
written by the steps and read by none. `Orderly == faults <= 1 /\ ~crossed` and
`Undisturbed == faults = 0 /\ ~crossed` are the conditions under which properties are
stated; three need none: a final status is final, an acknowledged turn exists, and a
cancel that is told "completed" or "cancelled" is told the truth. So the properties say
what holds until the first such step of a behaviour, with all behaviours explored, and
*two_turns* says what comes of it.

Not in this module: subscribers (SessionFeed), message rows and grouping
(TurnStream), other sessions and the registry's races (SessionRegistry), the contents of resources (a
version counted modulo `MaxRes + 1` is enough to see a stale copy; DocumentPublish has
the files), and the order
of commands *within* the asyncio queue, which is FIFO.

**TurnContract** is what a client may rely on: turns begin one at a time, settle
once, an acknowledged turn exists, and a cancel is told the status the turn has or,
for a failure only, will get. `ImplementsContract` checks that every step of
SessionTurns is a step of it or leaves it alone.

### Runs of SessionTurns

All with `MCSessionTurns`; symmetric turns where only safety is checked.

| run | instance | question |
|---|---|---|
| faults | 2 turns, queue 1, 1 fault, 1 crash | do the promises without a condition hold, and the others and the contract while the session is orderly, when one database call fails and the process dies once, at any point, and results come in any order? Until a call fails, is nothing written after a final status, and the history settled when a new turn reads it? Yes. |
| live | 1 turn, queue 2, 1 fault, 1 crash | does every turn settle and every waiting cancel get its answer, or disorder come first? Yes. |
| two_turns | 3 turns, no faults | does a session with an active turn refuse another (SESSION_MANAGER.md:54)? **No** |

- *two_turns*: a replacement's transaction commits behind the closing write of turn 1, and
  is taken up before it. Its row shows no active turn, so turn 2 begins. Now the result of
  the closing write arrives: the runtime puts the row it read, without a claim, into the cache, over the
  claim of turn 2, and `broadcast` clears `self.runtime`. The next create passes the
  test of `_handle_create` and a second turn runs beside it. The other order does
  lasting harm as well: when the row that a replacement read before the turn's end is
  taken up last, the manager goes on with an `active_turn_id` of a turn that has ended,
  refuses every create from then on, and is never idle.
- The guard of `OrderlyCancelsAnswered` has a reason: when the closing write and its
  recovery both fail, the session is loaded with a claim and without a runtime;
  `_handle_cancel` (session_manager.py:232) waits for a runtime anyway, and the command
  queue stands still, although SESSION_MANAGER.md:84 calls a reloaded session directly
  usable.

The run *faults* makes no difference between versions of the resources (`MaxRes = 0`): its
properties do not read them, while a replacement's transaction and its row are there.
It does not check for deadlock: a disordered session may wait for ever, as may a
shutdown behind it.

A limit of `RestartSettlesTurns`, which the run checks for one fault: `fail()` drops
the cached claim, so a second `fail()` (of `_run`, after `_write`'s) starts a recovery
without a turn, which clears the claim in the database. If the first recovery fails
too (a second fault), the turn stays `in_progress` without a claim, and the scan of a
restart, which looks for claims, does not see it.

Why these bounds are enough. Two turns are what every conflict here is between: the
one that runs and the one that follows or is refused; a third would only repeat the
second. One crash separates a before from an after; recovery is idempotent and
leaves nothing for a second one to find. One fault is the most of which the
documents promise recovery: each disagreement above needs either two faults or an
unusual order (`crossed`); three turns in *two_turns* are one that ends, one that begins
and the one that should be refused. A queue of one already fills (the stop command waits for its place);
two allow a cancel to wait behind a create.

Fairness (`FairSpec`, run *live*): the event loop and its worker threads go on, so a
handler, a commit or a resumption that can happen does. A stream ends: the gRPC call
has a deadline of 1200 s (`agent_client.py`), and since the arrival of events may
switch `StreamEnds` on and off, this is strong fairness. The recovery task and the
restart script go on. Nothing is assumed of clients, of the agent's events, of
faults, eviction, shutdown or crashes.

What a reader of the properties should know:

- `StreamingTurnOwnsSession` speaks of a serving process (`up = "up"`). While the
  application shuts down, a create that was queued behind another command runs
  after `close()` has waited for the runtime it knew, and its runtime outlives the
  manager. The turn is settled by its own cancellation or by the next start
  (`TurnsSettle` covers it).
- docs/API.md:107 says that a cancel commits locally first and cancels the gRPC
  call afterwards; the code cancels the call and the runtime writes the status. A
  client cannot tell: it is answered after the commit (`RepliedStatusIsFinal`).
- `NoEventAfterTerminal` and `BeginReadsSettledHistory` (docs/table.md:71, 79) are
  stated until a database call fails or an order is crossed: after a failed write the recovery may close the turn
  while a write of its cancelled runtime is still in its thread.

## 4. SessionFeed

How pages follow a session. `/turn/attach` and `/turn/create` put a command into
the manager's queue; its handler registers a bounded subscription and, in the same
step, captures a copy of the running turn's view. The request then builds a snapshot
in a thread, sends it as the first frame, and forwards what the subscription
received since. The page folds both, and reconnects when its stream breaks.

| variable | code |
|---|---|
| `row`, `saved` | the turn's row; how many of its events are committed |
| `seen`, `phase` | how many the runtime applied to its view and published; the runtime's phase |
| `mgr`, `active`, `current`, `broken`, `queue`, `cmd` | as in SessionTurns |
| `sub[p]` | the page's `Subscription`: registered or closed, its queue, and whether its manager is still loaded |
| `stage[p]`, `ctx[p]`, `view[p]` | the request of the page; `ResumeContext`, then the snapshot; the `SessionState` it shows |
| `quiet`, `due` | time since `last_activity`, in retry delays; pages whose retry timer is due |

| actions | code |
|---|---|
| `BeginCommit/TakenUp`, `EventCommit/TakenUp`, `FinishAsked/Commit/TakenUp`, `WriteFault`, `Recover` | TurnRuntime, as far as the feed sees it: commit, then view and `broadcast` |
| `Open`, `Send`, `Retry`, `CallerCancelled` | the routes and `_ask`, with `recycle` of what a cancelled caller never received; the page's timer |
| `Attach`, `Create`, `CreateBegun/BeginError`, `Registered`, `ListFault`, `Rejected`, `Detach` | `_handle_attach`, `_handle_create`, `_handle_detach` |
| `ReplyTaken`, `SnapshotRead`, `SnapshotFails`, `FirstFrame`, `EventSent`, `StreamEnds`, `Disconnected` | `_response` of routes/chat.py, `build_snapshot`, `Subscription.next`, and what `applySessionEvent` and `use-session.ts` make of it |
| `Evict`, `HandleStop`, `Load`, `Tick` | the reaper, `close`, a load, time |

| run | instance | question |
|---|---|---|
| follow | 2 pages, 2 turns, command queue 1, event queue 1, 1 fault, 1 break | are snapshot and suffix together every event once, and will every reader hear the end? Yes. |
| settle | 2 pages, 1 turn, command queue 4, 1 break, idle time of 2 retries | is every subscription read or detached, and does no page show a finished turn as active for ever? Yes, without database faults. |
| starved | 1 page, 1 fault | the same with one fault? **No** |

- `ExactlyOnce` relates four places: what the page shows, what waits in its queue,
  what the snapshot took, and what was published. It holds because capture and
  registration are one step, and an overflow closes the subscription rather than
  dropping an event.
- `ReadersWillHear`: a page that follows a turn is never left with an open
  subscription from which nothing can come any more.
- *starved*: after a fault the manager is broken and refuses every attach, until the
  reaper evicts it after 60 s without activity. A page retries after at most 10 s
  (`use-session.ts`), and every attempt renews `last_activity`. The page shows the
  old turn, and the manager stays broken, as long as the page is open.
- A page reconnects once more than it needs to when its attach copies the session's
  `active_turn_id` while the turn's closing write is under way and its snapshot then
  reads the turn as over: the terminal event finds no active turn to end. The next
  snapshot puts that right (`PagesSettle`).
- A snapshot of a turn that is past its stream is read from its rows. `_render_items`
  shows whole groups; an event of a group that is not whole by then never becomes part
  of one (`_finish` drops `pending_groups`). The model counts events, and counts such a
  one as dealt with.

Bounds. An event queue of one overflows at the second event, so `follow` reaches
overflow, a reader that keeps up, and a create by a second page behind the first
one's turn. A queue of four commands in `settle` is one more than two pages can
fill, so that no detach is refused; a refused one leaves its subscription behind
(listed as a hazard). `MaxLost` counts breaks and failing snapshots.

Fairness (`FairSpec`): event loop, threads and reaper go on; the retry timer of a
page fires; a turn comes to an end, because of the call's deadline (strong fairness
of `FinishAsked`: arriving events disable and enable it). Nothing is assumed of users,
faults, or lost connections. A `Tick` happens only when the command queue is empty
and no command is executing, and a timer that is due fires within its tick: both are
quick compared with 10 s.

Not modelled here: the byte limit of a subscription (it closes it as the event limit
does), shutdown while pages listen, how events fold into items of a view, and the
page's connection generations (FrontendSession).

## 5. TurnPipeline

One turn, from the model's answers to its message rows. **AgentLoop** is the agent's
side of the gRPC call, **TurnStream** the backend's, **TurnWire** what passes between
them, **TurnPipeline** both together with the call's failures.

| variable | code |
|---|---|
| `wire`, `rpc` | the events under way; the call |
| `node`, `attempt` | the node of the LangGraph graph; `model_attempt` |
| `used`, `mid` | message identifiers so far; `message_id` of the streamed message |
| `batch`, `task`, `published` | the calls in execution, what their tasks came to, the results emitted |
| `conv`, `sent` | the graph's messages of this turn; the number of the last event |
| `at`, `io`, `event`, `ready` | where the runtime is; its write, the event and the group it writes |
| `pending`, `completed`, `lastSeq`, `final`, `refused`, `cancelRequested` | `pending_groups`, `completed_groups`, `last_seq`, `status`, a `ValueError` of `_on_event`, `cancel_requested` |
| `rows`, `turnRow`, `broken` | `chat_messages` and status of the turn; `manager.broken` |

| actions | code |
|---|---|
| `Refuse`, `Accept`, `Complete`, `CompletionFails`, `Abandoned` | stream_completion and stream_execution: refusal, first events, terminal event, an exception, the stream closed from outside |
| `FirstChunk`, `ModelReplies`, `ModelFails`, `RetryDue`, `ModelGivesUp` | call_model and retry_wait of the graph with the message events of loop.py |
| `ToolEnds`, `PublishFinished`, `DeadlinePasses`, `ExecutorRaises`, `ToolsReturn` | `_execute_tools_parallel` and run_tools |
| `BeginCommit/TakenUp`, `EventCommit/TakenUp`, `FinishCommit/TakenUp`, `WriteFails`, `FinishFails` | the transactions of TurnRuntime |
| `ReadRefused`, `ReadTerminal`, `ReadMessage`, `ReadResult`, `ReadProgress`, `ReadCancelled`, `StreamOver` | `run` and `_on_event` with `_accept_model_message` and `_accept_tool_result` |
| `Cancel`, `ManagerFails`, `Recover` | what the manager does to a runtime |
| `StrangerSends`, `StrangerEnds`, `Breaks` | any other peer; the deadline or loss of the connection |

The runtime checks the stream because it does not trust it. So there are two
`source`s: this agent, and a *stranger* that may send any event of the protocol at
any time, a result that is not JSON and an event of the backend's own type included.
`HistoryIsPaired` and `StreamSparesSession` are stated for both, the other properties for
the agent only.

| run | instance | question |
|---|---|---|
| stream | 2 calls, 3 model requests, 2 attempts, 5 events under way, 1 fault; stranger with 2 message identifiers and numbers 0 and 1 | is what is stored whole, what breaks the manager, and is what this agent has stored its own conversation? Yes; a fault, and of a stream two kinds of event that the agent does not send; yes. |

- `HistoryIsPaired`: whatever is streamed, and wherever the turn stops, the next model
  request finds no call without its result, and no result without its call.
- `StreamSparesSession`: a failed transaction breaks the manager, not only the turn. The
  two unique indexes of `chat_messages` would turn a repeated message into one;
  `completed_groups` is what keeps a stream from that. Two things get through. A
  `result_json` that is not JSON (the protocol allows any string) is parsed in
  `_save_group`, inside the transaction, and raises there (turn_runtime.py:199, 249-251).
  And an event named `message.created`, a type of the backend's own, passes `_on_event`
  as one without a meaning and raises in `TurnView.apply` (turn_view.py:27-29) for want of its
  fields, after its commit. The action property says: without a fault, the step that breaks
  the manager writes such a result or such an event.
- `AgentSparesSession`: this agent sends neither. Every result leaves it as a JSON value
  (`_tool_message_event`, modelled by `ToolResult`), and its types of event are its own.
- `StoredIsConversation`: results finish in any order, or not at all before the
  deadline, but are stored in the order of the calls, as the graph's own messages
  are; after `completed` nothing is missing.
- `AgentIsUnderstood`: no event of this agent is refused by the runtime, with one
  exception that the property names. The agent does not check that a call has a
  name; the runtime does. Such a turn fails in the backend.
- A disagreement that needs no run: `_tool_detail` (session_history.py:31) looks for the key
  `"error"` in a stored result, the agent's failures have `"ok": false` and `"errors"`
  (executor.py:44, 80). A tool that was shown as failed while the turn ran is shown as
  completed afterwards, although SESSION_MANAGER.md:134 says that tool messages tell
  success from failure by their content.

Bounds. Two calls of one message are what can finish in either order or be repeated.
Three requests allow a retry behind or before a batch and a last message. Two
attempts stand for MODEL_MAX_ATTEMPTS, five: the property of `attempt` is that it
starts again with each message. Numbers 0 (absent in the protocol) and 1 are enough
to be accepted, repeated and unnumbered. `WireLimit` only bounds the gRPC buffer.
The stranger sends its next event when the runtime has read the last one: what it
sends depends on nothing, so an event is as good later as earlier. The runs do not
check for deadlock: a turn ends.

Left out: the text of messages (`model_message.started` and `.delta` are one type of
event) and the events the runtime does not look at (`completion.created`,
`source_indexed`, `model_request.retrying`); prompts and delays; how the model's text
is validated, except for what it decides; a stranger's events with the names of the backend's
`turn.*` events, which `broadcast` would take for the end of a turn; the cancellation of
the runtime's task by the event loop.

## 6. SessionRegistry

All sessions of the application. The registry's lock guards sections without an
await, so each section is one step and nobody waits for the lock; what lies between
two sections (the database thread of a load, the closing of a manager) is where the
races are.

| variable | code |
|---|---|
| `entry[s]` | the registry's entry: absent, CREATING, READY or CLOSING, and its manager |
| `manager` | the managers made so far: command queue, the command in execution, whether it is busy (a runtime; for `idle()` also a subscriber), how far its `close()` got |
| `request[r]` | a request: loading, waiting for its answer, discarding a manager nobody wants |
| `reaper`, `closing`, `app` | the managers that `evict_idle` and `close` wait for; the lifespan of the application |

| actions | code |
|---|---|
| `GetOrCreate`, `Get`, `Loaded`, `LoadFails`, `Discarded`, `CallerCancelled` | `get_or_create`, `get`, `finish_create`, `abort_create`, with the first step of `_ask`, and a request cancelled at any of its awaits |
| `Take`, `Answer`, `Rest`, `RuntimeClosed`, `HandleStop` | `_run`, a turn or subscriber that ends, the steps of `SessionManager.close` |
| `GoQuiet`, `Evict`, `Evicted` | `session_idle_seconds` pass, `evict_idle` |
| `Shutdown`, `CloseManagers`, `Closed` | `SessionRegistry.close`, which cancels the reaper |

| run | instance | question |
|---|---|---|
| registry | 2 sessions, 3 requests, 3 managers | does a session ever get a second manager, or a command get lost, and does everything that began come to its end? No; no; yes. |

- `SessionsHaveOneOwner`: two managers of one session would run two turns of it. Loads,
  evictions, cancelled callers and the end of the application all make and give
  up owners, in sections that do not know of each other.
- `NothingIsStranded`: `idle()` does not see the command that is being executed, so an
  eviction may overtake it. The stop command then waits behind it; nothing is lost.
  And a load that comes back after the application closed closes its own manager.
- `RequestsEnd` is liveness: no session stays CREATING or CLOSING for good, although
  callers disappear in the middle.

Bounds: three requests are a loader, one that races it and one that comes when the
entry has changed again; three managers let one session be loaded, evicted and loaded
a second time beside the other one. Fairness (`FairSpec`): threads, event loop and
commands go on, turns end (the deadline of their call), the reaper's wait ends. Nobody
has to call, to cancel or to shut down, and no manager has to become quiet. The run
does not check for deadlock, because requests run out.

Left to other modules: what a command does (SessionTurns), the queue's limit
(SessionTurns, SessionFeed). Requests that arrive after the shutdown began are left
out: the server accepts none by then.

## 7. DocumentPublish

The files of one session. An upload or removal is one command of the manager, one call
to the document service, and in it one thread that reads and writes objects of the
bucket one by one. There is no transaction over them. The call's deadline frees the
manager, not the thread.

| variable | code |
|---|---|
| `objects`, `raw` | the published objects: `documents.zip`, `manifest.json`, `index.json`, `vectors.npy`; the originals |
| `rows`, `waiting`, `asked` | the session's resource rows; the request the manager waits for; requests so far |
| `thread[r]` | the service's thread: the objects it fetched or is about to put, what is left to do |
| `reader` | a worker that prepares a turn's workspace |
| `torn` | history: a publication was cut short and nothing made it whole since |
| `overlapped` | history: a request was made while a thread still worked for an earlier one |

| actions | code |
|---|---|
| `Upload`, `RemoveFile`, `Replace`, `Refused`, `TimeOut`, `Discard` | `_handle_upload`, `_handle_remove`, `_replace_resources` around the call; its deadline; an answer nobody waits for |
| `List`, `Load`, `Build`, `Put`, `Clear`, `StoreRaw` | prepare_session_resources: list `raw/`, `_load_published`, publish_resources or remove_published_documents, `_publish_to_store`, `_delete_published`, the originals |
| `Fail` | a get, a put, a parse or the service itself fails |
| `BeginRead`, `Read`, `ReadFails` | load_workspace_payload and `_read_index` in the agent |

**DocumentLibrary** says the same of files only: what the archive shows and which
originals are held. A request changes what is shown at once and the originals after
it, may be given up between any two steps, and never touches a file that it does
not name. `ImplementsLibrary` checks the refinement.

| run | instance | question |
|---|---|---|
| publish | 2 files, 3 requests, 1 fault, 1 lost answer, 1 turn reading | until two threads meet: is a bucket at rest one publication, is a request refused without cause, does a turn read a mixture, does the library follow? Yes, no, no, yes. |
| overlap | 2 files, 2 requests, 1 lost answer | do the references that are stored name all originals, when two threads meet? **No** |
| retry | 2 files, 3 requests, 1 fault | may a request that failed be made again? **No** |

- *overlap*: the manager gives up waiting for an upload whose thread goes on
  (document_client.py:29; `asyncio.to_thread` in document_service/routes.py:15), and makes
  the next one. That one lists `raw/` before the first thread stores its original, and
  returns references without it; they become the session's rows. DESIGN.md:21 of the
  document service promises all references. Archive, manifest and index end as those of
  one of the two.
- *retry*: an upload is cut short after the archive was put and before the manifest was
  (the archive comes first, the others in the order of a directory walk, and nothing is
  rolled back). The archive then has the new
  document's directory, the manifest the old highest number. The same upload, made
  again, computes the same number and name, and `entry.rename` onto the directory
  unpacked from the archive fails, however often one tries.
- `IndexCitesItsArchive` is what protects a reader after such a cut: whatever mixture
  passes the checks has an index of its own archive. It does not speak of the vectors:
  a mixture with another publication's vectors may pass, as long as they are as many.
- `RefusalsHaveCause`: *retry* needs a publication cut short. Without one no request
  is refused.

Bounds. Two files let a request keep one and change the other; three requests are a
publication, its rival or successor, and one that finds what both left. `MaxFiles` is 3
so that the quota, which counts a replaced file twice, refuses something. One fault,
one lost answer and one reader at any point: two faults only tear what is torn.

Nothing in the code keeps the next request from being made while a thread still works for
one that has timed out (the manager's queue is serial, the service's threads are not),
and nothing in the model does: `Free` asks only that the manager waits for nothing. What
becomes of two threads that list, fetch and put side by side is not what anybody wants, so that
the properties of *publish* are stated until a request was made beside a working thread
(`Serial == ~overlapped`); of a bucket after that they say nothing, and so the run ends its
exploration there (`CONSTRAINT Serial`: the step that makes the second request is still
taken and checked). The time between a lost answer and the end of its thread, in which
the manager makes no request but a turn may read, is part of the run, and so is a
request after that thread has ended.

Other limits that the model states: a worker that is overtaken by a wipe of the session and a new
upload may mix the two, since directory numbers start again; the property is
stated for a reader that overlaps one request. For the same reason it is stated for
workers that began while the bucket held an original. Four requests, one more than the
run makes, show why: a removal of the last file whose answer is lost leaves rows that
speak of an empty bucket; the next upload, from nothing, is cut short after its puts; a
worker that the stale rows send there while the upload is made again reads the archive
of one and the index of the other, in which the same directory has other text. The
proof (section 9) covers any number of requests. A document has one block and one chunk.
Left out: half-written objects (a put is atomic), the byte quota, the checks of the
embedding model's name and dimension, manifests of an older format without directories.

## 8. DocumentBuild

What becomes of an uploaded file before it is published. The code is sequential; the
module takes a step per turn of its loops, and every file that can be made of some kinds
of blocks is an initial state. **DocumentHtml** has the rendering of PDF blocks and of a
Word body, **DocumentTree** the HTML parser, names and Markdown, **ChunkWindows** the
sliding window of `chunk_text`.

| variable | code |
|---|---|
| `kind`, `blocks` | the file: blocks as MinerU reports them, or the body of a Word file |
| `phase`, `at` | the function at work, and how far its loop is |
| `html`, `open` | the tags written; the sections open in them |
| `parser` | `_Parser`: nodes and stack |
| `sections`, `names`, `files` | `section_stack`, the names used in each directory, the Markdown files of materialize_tree |
| `length`, `start`, `spans`, `cut` | chunk_text |

| run | instance | question |
|---|---|---|
| build | PDFs of up to 3 blocks out of 15 kinds on 2 pages, Word files of up to 4 paragraphs and tables out of 8 kinds; names of at most 3 characters, 1 of a text; windows of 3 tokens, newlines included, that overlap by 1 | is the tree the outline, is all text there and in order, do chunks cover it and cite the files they were cut from? Yes, within the limits below. |

- `TreeIsOutline`: sections are closed by later headings, by page ends and by the end of
  the file, in two renderers with different rules; then the parser and the writer
  have a stack each. A file must still lie under the headings of the source, each
  directory on its path named after one of them (`NamedAfter`).
- `StreamFollowsSource`: the stream is a walk of directories by the number in each name.
  Every heading has its directory; of any other block no character is missing in the
  files.
- `CitationsAreExact`: `build_index` finds the files of a chunk with a cursor over joined
  texts, and a window ends in characters, not tokens.

Names. `slug_text` (documents.py:297-301, `SlugText`) replaces each run of barred characters (`\/:*?"<>|#`)
by a dash, strips some others (blanks, dots, dashes, commas) from both ends, and cuts to
60 characters, 24 of a text that is no heading (`NameLimit`, `SnippetLimit`). The text of
a paragraph, list or table is in its file too; *a heading's text is stored nowhere but in its
directory's name* (documents.py:123). What a name cannot hold of it is lost: it is in no file,
no chunk and no vector. The properties therefore say of a heading what the name keeps:
`NamedAfter` asks that the name shows the heading's characters, if a name can show any,
and all of those it can show unless it is full. A heading of which nothing can be shown is
called "empty", and its number still tells it from its siblings. In the run the second
character of a cell is barred and the third stripped, and one kind of heading is longer
than a name.

Tokens. `DEFAULT_TOKENIZER` (index.py:16-20) and the tests' tokenizers give a token for every
character, the newlines between files included; a model's tokenizer (model.py:77-83) may give none for
them. `NewlineTokens` chooses; the run has TRUE, the proof both. With newline tokens a
window may end right behind a newline. Then the cursor, which counts that newline to the
file behind it, cites a file of which the chunk has no text. `CitationsAreExact` allows
this one file (`BeginsBehind`), and files without text, and no other.

What the code does not keep, and the properties therefore except: the text of a
footnote of a page or of a table is rendered as a `div`, which is no block of the tree;
so is the caption of a table without cells (a file with nothing else is published
without files); Word's Heading 7 to 9 become tags that HTML does not have. And when the
first texts of a document are empty, the cursor does not count the separator after
them, so that citations are off by one character: `CitationsAreExact` speaks of
documents whose first file has a text.

Bounds: three blocks hold a heading, what ends it and what follows; four items two
levels up and down. The kinds are those that the code's conditions tell apart (levels
given or not, contents pages, short titles and labels, empty texts, merged cells,
captions and footnotes). A character is known by the block, row and cell it comes from; a
cell has at most two, the long heading five in all. A window of three with an overlap of one meets texts shorter and longer,
and chunks over several files. Deadlock is not checked: a file is finished.

`SourceBlock` says what a block may be, and the constants are any sets of such blocks
(`BlockAssumption`); the run has the kinds above. Sequences are built with `FlattenSeq`
and with recursive functions, never with RECURSIVE operators, and a table is rendered
from the numbers of its rows, so that a Word table keeps the numbers of the rows that
are left when empty rows are dropped (`FilledRows`); one of the run's Word tables begins
with an empty row.

Left out: how MinerU finds blocks, styling and attributes of the HTML, the recognition
of labels and contents titles (a block says what it is), escaping, images, spans of a cell
above 1000 (the code reads them as 1000), a PDF title whose level is given as 0 (the code
reads it as 1; in the model 0 is a title without a level).

## 9. Proofs

`SessionTurnsProofs` proves, for every number of turns, queue limit, and number of
faults and crashes, and for every order of results:

- `SessionTypeSafety`: `Spec => []TypeOK`. `TypeOK` is not inductive alone: that
  the command being created names a turn, and that a runtime has its final status
  when it closes its turn (`RuntimesOK`), is needed for the row's type.
- `AckedTurnsAreDurable`, `RepliedStatusesAreFinal`, `TerminalStatusesAreFinal`
  from the invariant `RowInv`: a runtime past its begin has a row
  (`RuntimesMatchRows`), a create waiting for its list of turns has one
  (`CommandMatchesRow`), a runtime that won its closing write recorded the status
  that it is about to announce. This link between the committed write and the
  answer that follows it two steps later is what makes `RepliedStatusIsFinal`
  inductive.

The proof goes by families of actions (clients, handlers, faults, runtime steps,
recoveries, registry): the type lemmas first, then, for `RowInv`, lemmas saying
which families leave rows and runtimes alone, so that only commits and resumptions
need an argument of their own. The assumptions are those named in SessionTurns:
`NoTurn` is no turn, and bounds are naturals.

The rest of the module proves what holds of a session while it is orderly, for every number
of turns, faults, crashes and resource versions and every queue limit:
`ClaimMatchesTurns`, `StreamingTurnOwnsSession`, `FailedReplyIsHonest`,
`PendingCancelHasRuntime`, `RestartSettlesTurns`, `NoEventAfterTerminal`,
`BeginReadsSettledHistory`, and `SessionImplementsContract`: `Spec => ImplementsContract`.
The theorems have no hypothesis; the condition (`Orderly` or `Undisturbed`, section 3) is
in the properties, about the behaviour and not about the constants. It cannot be weaker:
TLC finds `ClaimMatchesTurns` violated after two faults (an event's write and the
closing write: the second `fail()` finds the cached turn cleared, and its recovery
releases the session without settling the turn), and after either kind of crossing without
a second fault. In the refinement the abstract `trusted` is
`Orderly`; once it is lost TurnContract promises nothing more, and the properties
without a condition are what is left.

The inductive invariant is `RowInv /\ (Orderly => ClaimInv)`. A property of the claim alone is not
inductive: which turn a step settles depends on what manager, runtime and recoveries
hold at the time. `ClaimInv` has a part for each of them:

- `CommandShape`, `Managers`: what a command waits for; a broken or departing manager has
  no runtime and only its stop in the queue.
- `Runs`, `TurnFacts`: the current runtime holds the claim and reports to this manager;
  one that begins has a free session and the create command waiting for it (`Begins`);
  any other that still lives was told to stop, by a fault or by the shutdown (`Left`).
- `Recovers`, `BeginErrors`: a recovery is for the turn that holds the claim, or there is
  none to recover; a claim without a runtime has a recovery on its way. This is where
  the bound of one fault enters, through the second `fail()` after a failed begin.
- `Newest`, `Waiting`: of the results not yet taken up the last in order of commit has
  the database's row, or the cache has it when there is none. A step that keeps the
  order keeps this; one that does not sets `crossed`.
- `Cancels`, `Honest`: a waiting cancel has a runtime that was told to stop; a turn
  whose failure was announced has no writer left that could close it otherwise.

There is a lemma per action. The refinement follows from the same invariant: the
initial states map to initial states, and each action is a step of TurnContract, or
leaves its variables alone, by who may write a row (`WhoWritesRows`).

`TurnStreamProofs` proves `HistoriesArePaired`: `StreamSpec => []HistoryIsPaired`, for
every number of calls, messages and faults. `StreamSpec` is the runtime with a `Peer`
that may write any sequence of well-typed events into the stream and end it in any
way: no assumption is made about the agent but the types of the protocol. The
inductive invariant adds to the property what makes it inductive:

- `GroupsOK`: a pending group has results for its own calls, and the group handed to
  the write is whole. `ReadResult` establishes it two steps before the commit.
- `Numbered`: the sequences are 1..n, each once. With the lemma `NextIsLast`,
  the transaction's `MAX(sequence) + 1` is n + 1, and `GroupKeepsRows` shows
  that a whole group continues both the numbering and the pairing.
- `BeginsEmpty`: the question is the first row.

Two more theorems there go the same way. `StreamsSpareSessions`:
`StreamSpec => StreamSparesSession`, with the invariant that every group in the rows is
remembered in `completed_groups` (`Remembered`), and that neither a pending group nor
the one being written is among them (`NewGroups`): so the transaction finds no row
that its unique indexes forbid, and what is left to fail without a fault is a result that does
not parse or an event that cannot be shown. `RuntimeTypes` is the type of every variable of the
runtime.

`TurnPipelineProofs` is about both ends together. `PipelineImplementsStream`:
`Spec => StreamSpec`. Each step of the agent, of the stranger and of the connection is a
`Peer` step, for which `PipelineTypesHold` (`Spec => []TypeOK`) shows that all
that is sent is a well-typed event. So the pipeline inherits what was proved of the
runtime with any peer (`PipelineKeepsHistory`). `AgentsSpareSessions` is
`Spec => []AgentSparesSession`: no event of the agent, in the stream, read, pending or about
to be written, is of the two kinds that break the manager.

For this agent `StoredConversation` and `StreamIsUnderstood` prove
`Spec => []StoredIsConversation` and `Spec => AgentIsUnderstood`. Neither property relates
the two ends closely enough to be inductive, because up to `WireLimit` events are
between them. The invariant `Told` fills the gap with a *line of knowledge*: a sequence
`h`, one longer than the stream. Its first piece is what the runtime has made
of the events it read (`RuntimeKnows`: the last number and message, the entries stored or
about to be, the results of the open group), its last piece what the agent has
said (`AgentKnows`), and each piece follows from the one before by hearing the event
between them (`Hears`). An agent's step adds a piece at the end, reading an event
removes one at the front, and the property is that the stored rows are a beginning of
the last piece (`Stores`, `WillStore`). `Stages` says what ends the line:
`completed` is the last event, and it comes when the graph has ended and all is said. When
the runtime no longer listens (cancelled, refused, closing), only `Stores` remains.

`SessionFeedProofs` proves `TypeOK`, `ExactlyOnce` and `ReadersWillHear` for any pages,
turns, events and queue limits. The invariant says how far the rows, the runtime and
each page are with a turn: the row has as many events as the loop has published, or one
more that it has not taken up (`RuntimeInv`); the manager's commands and runtime fit
together (`CommandInv`); and for each subscription (`Follows`), at each stage of its
request, what was captured, built into the snapshot or shown, with the events of the
turn that wait in the queue, is what was published (`CaptureCounts`, `SnapshotCounts`,
`ViewCounts`), a turn that was not captured will be read from its rows as ended or has
only its end to come (`RowsWillCount`), and the end waits in the queue or is still to be
published (`Hears`, `EndsAreSettled`). `EveryReaderIsServed` proves `SubscriptionsAreRead` when the command queue
has a place for each page (`Cardinality(Page) <= QueueLimit`; the code's limit is 64,
src/backend/core/config.py). With a smaller queue it is false: a detach is refused
and its subscription stays, which is listed as a hazard.

`SessionRegistryProofs` proves `TypeOK`, `SessionsHaveOneOwner` and `NothingIsStranded` for
any sessions, requests and number of managers. The strengthening says for every manager
at work who owns it: the entry of its session (`Registered`), the reaper's list while
the entry is CLOSING (`Reaped`), the request that made it and has to discard it, or the
application's shutdown (`Ended`); that a session has at most one of these (`OneEach`);
and that a request that waits is in a queue or in execution of a manager that has not
stopped (`Served`, `StopIsLast`).

`DocumentBuildProofs` is about every file that can be made of any kinds of blocks
(`BlockAssumption`: tables alone have captions and footnotes, a Word file has paragraphs
and tables), of any length, with any window and any overlap that chunk_text accepts
(`WindowAssumption`: the overlap is smaller than the window; chunk_text raises
otherwise). It proves

- `ChunksCover`: `WindowSpec => []ChunksCoverText`, of the loop of chunk_text alone, and
  `BuildChunksCover`: `Spec => []ChunksCoverText`, of the whole build. A step of the loop
  knows only `start`; the invariant adds `LastWindow`, which says where that is: before
  the end of the text and `Overlap` tokens before the end of the last window, which was
  full. So each window brings something new, and the loop cannot end early.
- `BuildTypes`: `Spec => []TypeOK`. The part of it that says something is that no name has
  a copy number other than 1. Its invariant, `TreeOK`, says of every path which number
  each of its names has in its directory, and that the names of a directory are numbered
  from 1 on (`NamesOK`, `Located`): a number that was given to a heading is never given to a
  file beside it, so that nothing written replaces anything.
- `CitationsExact`: `Spec => []CitationsAreExact`. From `TreeOK`, any two files are walked
  one before the other (`WalkedApart`), so that the walk of `_document_streams` exists
  and is one (`WalkExists`). Up to each segment the stream is a beginning of the whole
  (`UptoStays`), with a newline between two segments (`NewlineBetween`); when the first
  segment has a text the cursor is where segments end (`CursorIs`). A chunk begins with a
  token and ends with one: if newlines are no tokens, that rules out the file that the
  cursor would cite for the newline before it, and if they are, that file is the one the
  property excepts (`ExactIs`, for both values of `NewlineTokens`). No chunk is empty when
  there are tokens (`SpansAre`), so that each cites a file (`SomeCovered`) and Validate
  does not refuse.

Names are made of the characters of a text and, for barred ones, of dashes: `KeptIs` and
`SlugIs` say which characters a slug has, that it is not empty, and that it has room left
only if it has them all, for any sets `Barred` and `Trimmed` and any limits.

Most of the module is about what the functions of DocumentHtml and DocumentTree
return for every argument, which is computed by recursion over data: the induction
theorems of the library, which take an operator, cannot be used, so a set of numbers
with 0 and with k + 1 for every k in it takes their place (`EveryNumber`, `UpTo`, from the
least number that is not in it). That a recursive function exists has to be proved the
same way, for `FlattenSeq` (`FlattensExists`), for the placing of a table's cells
(`RowGridExists`, `TableSlotsIs`: each cell finds a free column, every slot has the text of
some cell) and for the cursor.

`DocumentOutlineProofs` proves `OutlineKept` and `SourceFollowed`: `Spec => []TreeIsOutline`
and `Spec => []StreamFollowsSource`, from one invariant, `TreeInv`. What they need
is an account of every node of the parser: which block of the source was the last one
rendered when it was written. `Traced` gives it as a sequence `src` beside the nodes,
0 before the first block, that never goes back; and it says that the text of a node is of its own block, that
of the nodes of one block at most one is a node that materialize_tree writes
(`Alone`), and that what a node lies in is of the same block or belongs to the page
(`Structure`: the shell, `main` and the sections). `Complete` says the other
direction, that each block that is rendered has its node, and that the characters with a place
in a tree are where the Markdown of that node takes them from (`Tells`: a heading or
paragraph itself, an item of its list, a cell of a row, the caption of a table that
has rows). Both are `Tree`.

The tokens are written before any of them is parsed, so that the invariant of
rendering speaks of a parser that has not run: `PageOK` says while the file is rendered
that parsing the shell and what is written so far *would* lead to a parser with such nodes,
on whose stack only the page's elements and the open sections are
(`Rendered`, `Leads`); while it is parsed, that the parser is on that way (`Parsing`); and
after it, that its nodes are such a tree. What a block adds is shown kind by kind, a
table from its rows and cells, with `Parses` for the steps of the parser over some tokens and a
lemma that joins two of them. That each
end tag on the way closes its own element (`Strictly`) and the last one leaves the stack
empty is `Balanced`.

`WriteInv` follows materialize_tree through these nodes. After the nodes of the blocks
up to `x`, the sections on its stack are those of the headings still standing there
(`Standing`: no later heading of their level or above), each directory named after
its heading (`HeadingNamed`, from `SlugIs`), nested, and the last one numbered in its parent (`SectionsFollow`): so that
whatever comes next gets a path after all that was written (`FilesRise`), and lies
under the headings that its block stands under (`FilesFollow`). That no heading
comes between two nodes unseen is what `Complete` was for. `AllTold` says that every
heading so far has its directory and that all that the other nodes so far say is in a file. A stream of rising files, each of
one block, is sorted (`StreamRises`).

The invariant is stronger than the two properties by necessity: neither says anything
before the files are written, and of a file written it says where it lies but not
where the next one will.

`DocumentPublishProofs` is about the files of a session, for any finite set of files and
any numbers of requests, faults, lost answers and turns that read. Its theorems have
no hypothesis either; what they say of a bucket they say until a request is made beside a working
thread (`Serial`, section 7: after that the properties are false):

- `PublishTypes`, `SettledBuckets`, `WorkspacesCiteTheirText`, `RefusalsAreExplained`:
  `Spec => []` of `Serial => TypeOK`, `SettledBucketIsOnePublication`,
  `IndexCitesItsArchive` and `RefusalsHaveCause`.
- `PublishImplementsLibrary`: `Spec => ImplementsLibrary`, where the abstract `trusted` is
  `Serial`.

The module begins with what the two functions that make publications do to one, stated
once each: cutting documents out (`Pruned`) keeps exactly the rows of the directories
that stay, each with its vector; adding documents appends rows whose
directories are numbered above all that the manifest names. The inductive invariant is
`Serial => Inv`, where `Inv` says at each stage of the one thread that works:

- `OneWorks`: no thread works but that of the last request.
- `ThreadOK`: how bucket, originals and thread fit together. What the thread will publish
  (`Builds`) is valid, agrees with the archive it replaces wherever both have a
  directory (`Follows`), and is one publication of the originals that the request
  aims at (`Goal`) unless damage was loaded; from its first put the objects already
  written are the thread's and the others still the old ones (`Written`); when it has
  written all, only the originals of its request may still differ. At rest and undamaged,
  the bucket is `Whole`.
- `ObjectsOK`: directories have numbers up to `Count` per request. Without the
  number of the request the types are not inductive, since each upload counts upwards.
- `ReaderOK`: what a worker has read so far, against what is in the bucket and what the
  thread is about to put there. Its archive may be of the publication before,
  its index of the one being written: so that every index that may still come cites
  only text of every archive that may have been read.

`torn` alone is no strengthening: the citations have to hold of a damaged bucket too, which
is why `Follows` speaks of any two publications that succeed each other and not of
whole ones. `Inv` was checked with TLC before it was proved (one file and five requests;
two files and three requests with two faults and two lost answers). The attempt found
the four requests of section 7 after which a property, as it was stated then,
failed: a worker sent there by stale rows while the bucket has no original. The refinement
follows from the same invariant: `LibraryState` gives the abstract state, a lemma per
abstract action (`LibraryAsk`, `LibraryShow`, `LibraryHold`, ...) its step, and each action
of the service is one of them or a stutter.

Every invariant and every action property of the passing runs is stated by a theorem, with
the conditions named above. The liveness properties `TurnsSettle`,
`OrderlyCancelsAnswered`, `PagesSettle` and `RequestsEnd` are only model-checked: the
prover does not treat fairness. The properties of the four runs that expect a violation
are statements of documents that the code does not keep.

## 10. Not modelled

- The backend's document view and settings: reads of rows and of published objects
  without state of their own.
- The subprocess of a tool call (ToolWorker in the plan), and what the tools compute:
  search, grep and the arithmetic of embeddings are functions of a workspace, and
  their results are real numbers and rankings.
- Frontend: connection generations (planned above SessionFeed), the upload list and the
  task store, and the components, which render what SessionFeed's `view` stands for.
- MinerU, the S3 service, SQLite, gRPC and the model API are external: modelled only by
  what they answer and how they fail.
- Generated protocol code (TurnWire has its messages), scripts, CI.
