# TLA+ models of pi_py

pi_py is a workbench for coding agents: a Vue page, a Node server that runs agents of the external
pi SDK, and a Python server with an agent loop of its own behind the same routes. Around the agent the
Node server keeps tasks with steps, plans, delegations to subagents, approvals, questions, MCP
connections and a trace of every run.

This directory holds TLA+ modules of the parts in which order, failure and concurrency decide whether
the program is right, TLC configurations that check them on small instances, and TLAPS proofs of their
main invariants for every value of the constants. Paths below are relative to `src/`;
`services/` is `node-pi/server/src/services/`.

To repeat the checks, in this directory:

    tlc -workers 2 -config TaskLease_main.cfg TaskLease        # every <module>_<run>.cfg the same way
    tlapm TaskLease_proofs.tla                                 # every *_proofs.tla the same way

Where there is a module `MC<module>`, that is the one to run for the configurations of `<module>`: it
defines the sets and scenarios a configuration cannot write. `PROJECT.json` lists, for every definition,
the lines it models; for every property, a plausible fault of the code (an operator named `...Fault`)
that breaks it; and the hazards of the code at their lines.

## 1. Inventory

| Component | State | Operations | Talks to | Hard because |
|---|---|---|---|---|
| Task execution lease (`services/task/task-lease.ts`, `task-runner.ts`, `TaskService.mutate`, `task-repository.ts`) | a row of SQLite shared by processes: revision, owner, expiry; per process the run under way and a renew timer | start, resume, stop, renew, settle, shut down, every other write of the row | session registry (opens the session, gets the prompt), SDK (settles) | read and save are two statements; timers are late; processes die and come back; a handler awaits between its check and its use |
| Task model and service (`platform/task-model.ts`, `plan-model.ts`, `task-service.ts`, `routes/tasks.ts`, `plan/plan-tools.ts`) | status, plan state, ordered steps with ids and times | create, edit, cancel; add, change, move, remove, replace, reset, retry steps; submit and update a plan; mark interrupted | user (routes), model (tools), runner | long mixes of operations by three parties on one record; ids are reused; a resume waits while the others go on |
| Task recovery (`task-recovery.ts`, `task-recovery-extension.ts`) | `inFlight`, `lastSideEffect`, step times in the row; artifacts on disk | note a turn and a tool, settle; classify an interrupted task; resume with or without a check | tracker in the agent's event stream, runner | a crash falls between any two notes; tools run in parallel but share one slot |
| Plan mode (`plan/plan-mode-service.ts`, `plan-policy.ts`, `plan-tools.ts`) | per session the plan it is bound to; plan state and lease in the task; contexts in the session file | start, submit, propose, execute, refine, pause, resume, abandon; the gate of every tool call; contexts injected and shown; opening | task service, runner, routes, compaction, the page's panel | the gate asks the status of the moment; the user, the model, routes and recovery all change it; a restart has to find the right plan again |
| Plan and task panel (`ChatWindow.vue`, `TaskPlanPanel.vue`, `TaskStepList.vue`, `useAgentSession.ts`) | on the page the copy of the plan or task it shows, the click under way, readings under way | press a button, repeat after a conflict, read again, load, subscribe, change the session | task routes, plan commands, the session's events | copies come by readings, events and answers without a common order; the user changes the session while a click is on its way |
| Subagent gate (`services/subagent/*`) | slots in use, in all and per parent; a FIFO of waiters; children that run | delegate, queue, start, time out, abort, finish | tool call of the parent, registry (creates and removes the child) | the abort, the timer and the return race; a slot must be given back once on every path; nested calls hold and wait |
| Session stream (`agent/agent-registry.ts`, `routes/agent.ts`, `web/src/composables/useAgentSession.ts`, `lib/agent-events.ts`) | per session a numbered buffer of events; on the page the last number, messages, the question, loads under way | publish, subscribe with replay, frame, cut, reconnect, load, prompt, answer | SDK events, SSE, REST | two channels (events and loads) with no common order; streams break; the server restarts and numbers from 1 |
| Session registry (`agent/agent-registry.ts`, `routes/sessions.ts`) | entries, openings under way, the session files with parents and a line of settings | create, open, bind, prompt, set model, abort, remove, delete with adoption of children | SDK sessions, all services attached to a session | opening and removing await in the middle; a delete rewrites several files |
| Approvals and questions (`agent/tool-approval.ts`, `agent/user-question.ts`, the two dialogs of the page) | waiters by session and call; a question per session; what the dialogs show | ask, answer, time out, abort, cancel, show in a parent's page | tools, registry, page | answer, timer, abort, removal and reload race over REST and SSE |
| Session settings (`agent/session-config.ts`, `context-budget.ts`, `platform/preset-store.ts`, page) | abilities, tools, servers, compaction: in the preset, the request, the session, its file | choose, create, persist, reopen, set the model | registry, MCP | undefined, null and empty mean different things, and a value crosses four forms and back |
| Trace (`observability/session-ledger.ts`, `platform/trace-repository.ts`, `sqlite-trace-storage.ts`, `memory-trace-storage.ts`, `routes/observability.ts`) | an open run per session, a queue of writes, tables and roll-ups | open, step, wait, finish; enqueue, flush, degrade; summarise, page, prune, close | every event of a session, the gates, the page | a run is put together from events of four sources; a queue that loses; two storages promise the same |
| MCP (`mcp/mcp-client-manager.ts`, `mcp-service.ts`, `mcp-config.ts`, `routes/mcp.ts`, `McpConfig.vue`) | two layers of files; a pool of connections per workspace; an index of tool names; the tools of each session | sync, connect, disconnect, dispose; add, edit, toggle, remove, refresh; reload of sessions | child processes, session start, page | syncs overlap at their awaits; names collide; one file concerns sessions of every workspace |
| Python agent loop and session (`pi-python/src/pi_agent/agent_loop.py`, `pi_coding_agent/agent_session.py`, `core/session_manager.py`, `core/compaction.py`, `core/branch_summary.py`, `server/services/agent_bridge.py`) | an append-only tree in a file, the leaf, the live list of messages, queues of steers and follow-ups, the compaction under way | prompt, steer, follow up, abort, compact (three ways), move in the tree, set, reopen | provider, tools, HTTP commands | every await lets commands in; list and file are changed apart; cancellation comes at any await |
| Other parts | files of configuration, skills; rendering; providers' streams; wiring | — | — | listed in `PROJECT.json` with the reason why they are left out |

What makes each modelled component correct is stated by its properties (section 3).

How the modelled parts meet in the program: a request starts a task (`TaskLease`), which opens a session
(`SessionRegistry`) and hands it a prompt; the turns of that session note side effects in the row (`TaskRecovery`)
and change steps through tools (`TaskSteps`), under the gate of the plan (`PlanMode`); a tool may delegate
(`SubagentGate`), belong to an MCP server (`McpConnections`), or wait for the user (`HumanAnswers` in
`SessionRegistry`); the events of the session go to the pages (`SessionStream`) and to the ledger (`TraceLedger`).
The Python server replaces everything below the routes with `AgentLoop`. Compositions: `PlanMode` joins the plan
service, the tasks, the runner and the agent's run; `SessionRegistry` joins registry, files, agents, brokers,
settings and the page; `McpConnections` joins files, pool, sessions and the settings page; `TaskPanel` joins the
task with the page that shows and changes it; `TraceLedger` joins the ledger, its queue and both storages.

## 2. Modules

| Module | Models | Used by |
|---|---|---|
| `TaskExclusion` | what the lease promises: who runs the task holds the lease until it ends or dies, and takes it from nobody | implemented by `TaskLease` |
| `TaskLease` | the row, the runner, the keeper and every writer of the row, in several processes | `MCTaskLease` |
| `TaskModel` | pure rules over steps: derived status, ids, times, move and insert, plan status | `TaskSteps`, `TaskRecovery`, `PlanMode` |
| `TaskSteps` | every operation on one task | `TaskPanel` |
| `TaskPanel` | the plan and task panel of a page beside everybody else who changes the task | `MCTaskPanel` |
| `TaskRecovery` | what a crash leaves in the row and how it is read | |
| `PlanMode` | the plans of a session, their gate, contexts, runner and restarts | `MCPlanMode` |
| `SubagentGate` | slots, queue, time limit and abort of delegations | `MCSubagentGate` |
| `SessionStream` | registry buffer, SSE stream and page | `MCSessionStream` |
| `HumanAnswers` | rules of approval, ids and answers of questions, dialogs | `SessionRegistry` |
| `SessionSettings` | from a preset to a session, to its file, and back | `SessionRegistry` |
| `SessionRegistry` | sessions between file, registry, turns, brokers and page | `MCSessionRegistry` |
| `TraceStore` | the two storages and every query over them | `TraceLedger` |
| `TraceLedger` | the ledger, the queue, and the sessions it listens to | `MCTraceLedger` |
| `McpConnections` | MCP files, pool, index, sessions' tools and settings page | `MCMcpConnections` |
| `SessionTree` | the session file, its contexts and where a compaction may cut | `AgentLoop` |
| `AgentLoop` | the run of a session and the commands that reach it | |
| `*_proofs` | theorems | |

### TaskLease

*State.* `row` is the SQLite row (revision, user edits it holds, owner, intervals left of the lease).
`call[p][c]` is where the start or resume request `c` of process `p` is, `active[p]` the `ActiveRun`,
`keepers[p]` the number of `TaskLeaseKeeper` timers that are armed (at most `MaxKeepers`), those that
`TaskRunner.active` has lost sight of included, `agent[p]` whether the session of the task answers a
prompt. `block[p]` is the rest of the synchronous stretch the process is in, `pend[p]` the
read-change-save under way.

*Actions.* Every access of `TaskService` is `Read` and then `Save`, whose guard is `UPDATE ... WHERE revision =
expected`; a failed save is retried up to `MaxTries` times and then throws (`Throw`). Acquire, renew, release and
the heartbeat keep the revision (`keepRevision`); edits, step changes and marks raise it. `Start`, `Opened`,
`OpenedReset`, `OpenFailed`, `Prompted`, `PromptFailed` are the stretches of `TaskRunner.resume` and `start` between
its awaits; `Settle`, `Stop`, `Beat`, `Note`, `UserEdit`, `Shutdown` the other entry points; `Vanish` and `Restart`
the death of a process and its successor, which has a new owner name, so that the old one becomes `Dead`; `Age` is
the passing of a renew interval, which unless `Stall` waits for the owner to renew, as long as a timer of the owner
is armed or its opening is under way: a run whose timer was never armed loses its lease. `PromptFailed` is defensive
code of the program: `command()` does not fail here. A session may also reject a prompt in silence; then the run
stays active with no agent and the lease is renewed until a stop or an exit.

*Flags.* `Interleave` lets another process act inside a synchronous stretch, `Stall` lets timers and
openings be late by a TTL, `Reenter` lets a process start the task it already runs. With all three FALSE
the schedule is orderly: this is the case the comment of `task-lease.ts` has in mind, and there mutual
exclusion holds, and more: `TaskExclusion` says that the lease is taken from nobody and held until the run ends
or its process dies. Each flag alone breaks it (section 7, and the hazards at `task-lease.ts:79`,
`task-runner.ts:163` and `task-service.ts:708`).

### TaskSteps and TaskModel

*State.* `task` is the record (status, stored plan state, sequence of steps with id, title, status and
whether startedAt and completedAt are set); `opening` the resume that waits for `registry.open`;
`explicit` a ghost: the status was set by hand since it was last derived.

*Actions.* One per route, tool and plan command that changes the record: `Update`, `CancelTask`,
`AddStep`, `UpdateStep`, `RemoveStep`, the replacing of all steps by `submit_plan` and `update_plan`,
the step tools, the plan commands, and `TaskRunner.resume` in its stretches before and after the open.
The trailing sort, renumbering and aggregation of the status are part of each action. A behaviour starts
from any task a request can create (`GivenSteps`). An operation is one transaction (TaskLease models the
access itself); a request that fails a check changes nothing and is no step. Details, evidence,
verification and reasons are left out. Ids stay below s10, because ties of positions are broken by
comparing id strings.

### TaskPanel

*State.* `shown` is the session the page shows, "here" the one of the task, "there" one with a task of its own
that nobody changes, "none" no page at all (then the behaviours are those of `TaskSteps`). `held` is the copy
the panel renders, `popped` whether it has opened by itself, `click` the request under way, `reads` the
readings under way, `stream` and `pushed` the event stream and what is written to it and not handled. Of a
copy only this is kept: which session it is of, as what it is rendered, and whether the record was saved since.
Ghost: `changes` counts the savings.

*Actions.* `Press` takes a button that the copy offers; `Land`, `LandNothing`, `Refuse` and `HandleThere` are the
server's handling of it, through the actions of `TaskSteps`; `Lose` a request or an answer that gets lost; `Again`,
`Reread`, `CommandAnswered`, `Continue` and `GiveUp` are `actTask` and `actPlan` after the answer: one repetition
after a 409, and readings. `Serve`, `Apply`, `Load` and their failures are the readings, `Subscribe` and
`HandlePush` the stream, which begins with what the bounded buffer of the entry still has of the task, the newest
event or none, `Switch`, `Reload` and `Prompt` the ways of
the user. `Others` is a saving by the model's tools or another page. The session is open in the server, so that
every saving is buffered as an event. A click on a stale copy is one whose copy went stale on its way.

### TaskRecovery

*State.* The parts of the row recovery looks at, the server (up or not), the agent (idle, in a run of the
task, or answering the user in the same session), the tools that run, the artifacts on disk. `late` is
the set of steps that began after `lastSideEffect.at`, which is all the times are compared for. Ghosts:
`newest`, the step of the latest tool with a real side effect; `cut`, the noted tool that began and did
not end.

*Actions.* The calls of `TaskInFlightTracker` (turn start, tool start, tool end, settle), the step tools,
start and resume with each recovery class, the crash and the restart. A start from the plan makes no
recovery check, by design of the code. `Chat` lets the user prompt the session outside a run of the task;
those tools run in a registry without the task's tracker unless the session is still bound. A step whose
verification is a file is only completed when the file exists (`Evident`); a command that was run and a judgement
of the model are as the model reports them.

### PlanMode

*State.* `plans` are the tasks of origin 'plan' of one session, `recent` their order in `list` (plans
updated by one action come in any order, their times being equal or not); `session` is
the attached `PlanSession` and the plan it is bound to; `active` is `TaskRunner.active`, `run` and `call` what
the agent does; `stopping` a pause or abandon that awaits `session.abort`; `injected` the last context of each
type in the session file, `messages` what the model is shown of them; `shown` the view the page got last.
Ghost: `confirmed`, the plans the user asked to execute since they were last in another state.

*Actions.* One per command (`Start`, `Refine`, `Execute`, `Resume`, `Pause`, `Abandon`), plan tool (`SubmitPlan`,
`UpdatePlan`, `CompleteStep`, `BlockStep`, `ProposePlan`), other tool call (`Use`, through `GateOpen`), task
route (`Routes`: steps patched, added and removed, the task patched or cancelled, on any plan that is not cancelled,
a finished one too), recovery (`RecoverPlan`), settling, heartbeat, compaction, opening (`Attach`), end of the process
(`Down`, closed or killed) and lapse of a dead lease. The gate (`GateOpen`, `PlanningAllows`,
`EvaluatePlanBash`) judges a command as the set of the classes of its segments; `Begin` is a prompt that is
accepted, with the context it injects; `Prompted` adds that a prompt may be refused in silence.
`registry.open` finds the session open, so that a handler is one action; only the abort of pause and
abandon waits.

### SubagentGate

*State.* For each delegation its phase (`resolving` its model, `queued`, `granted` while the child
session is created, `running`, `closing`, `done`); the waiters before it; the two counters; the set of
stopped calls; the aborted signals. A session is named by its path, so depth and parent are in the name.

*Actions.* `run` in its stretches: the call, the fast path of `acquireSlot`, the queue and its drain, the
creation of the child, its prompt, the timer, the abort, the release and the removal of the child. A
drain is not interrupted (JavaScript), which `unseen` expresses. The slot is released before the child is
removed, as in the code. `abortAll` and `abortAllSessions` are modelled as the service offers them,
although the registry the application builds is not given the service (`app.ts:239`). What makes up
the specification is named with Gate (`GateNext`, `GateSpec`), so that one proof module extends it and `TaskRecovery`.

### SessionStream

*State.* Server: `log` (the number of an event is its place), `run`, `asked`, `stored`, `entry` (which
registry entry, raised by a restart). Stream: `link`, `wire` (frames sent and not handled), `last`,
`lastEntry`, `oldest`. Page: `running`, `question`, `list`, `loads`, `failed`, `sending`.

*Actions.* The turn as the SDK publishes it (start, updates, a message stored and published in one step, a question,
a compaction, the end, and the settling as a step of its own), a compaction between two turns, what other tabs and
the task runner prompt, subscribing with replay (of the newest `MaxReplay` events, updates that another update
follows left out), frames one by one, the cut of a stream, the wait and the reconnect, a load as a request with two
answers that come in any order, and the restart.

### SessionRegistry, SessionSettings and HumanAnswers

*State.* `file` is what the session files say (parent, line of settings, models used); `obj` the session objects in
memory, each with its turn; `entry` the registry's map, `opening` the openings others may join; `req` the requests
under way, each at one of its awaits; `waiting` the approvals in the order of the broker's map, `asked` the open
questions; `log` the events of the watched session; `page` its connection, its two dialogs, its load and its click
on the way. Ghosts: what was approved with its worst risk shown, what ran, what the user sent and the model was
told. `bound` is the scenario: files, requests, scripts of turns, presets. `RegistryAssumption` says what all
scenarios observe: a child is asked for by its parent's turn only (`Request`), the id of a session that is made is
not named before it is there, and the id of a call names the call; `SettingsAssumption` of which kinds presets,
windows and the history of models are, with the tools of a preset among those the form lists. `Without` is how a
`Map` loses entries: the rest stays in order.

*Actions.* An action is the code between two awaits of one request. Opening: `OpenActive`, `OpenJoins`,
`OpenStart`, `OpenMissing`, `OpenBuild`, `Register`, `Bound`; creation: `Create`; removal: `DeleteIdle`,
`DeleteBusy` (which awaits the abort), `DeleteMissing`, `Reparent` (a child's header at a time) and `Erase`;
`Abort`. The turn: calls are prepared one after another (`Prepare`, `RequestApproval`, `Skip`), launched, then
run side by side (`Execute`, `AskUser`, `Delegate`), until `TurnEnds`; this order is the SDK's and external.
Timers: `ApprovalTimeout`, `QuestionTimeout`. The page: `ReadEvent`, `Reload` with its snapshot and load, `Approve`
and `Answer` with their responses as steps of their own. `Crash` ends the process at any point; the requests
that have not begun are made to its successor. A child session shows its approvals on the page of its parent.

`SessionSettings` has the conversions a preset goes through: read (`Parsed`), shown and sent by the page
(`Selected`, `Restored`, `Body`), resolved against the window of the model (`Resolved`), created (`Created`),
written as a line of the file and read back (`Line`, `Read`); and the form that edits a preset: opened (`Draft`),
filled anew (`NewDraft`), saved (`Input`). `HumanAnswers` has which rule a command falls under (`Classify`), the ids
of questions, the drafts the page sends and what the dialogs do with an event.

### TraceLedger and TraceStore

*State.* Ledger: `open`, the run of each session with the times it measures from. Queue: `repo` (pending
operations, failures in a row, degraded, closed) and behind it both storages, fed with the same
batches. Sessions: `sdk`, what each does as the registry, the brokers and the plan gate report it.
Ghost: `truth`, counted by what the sessions did; `cut`, `orphans`.

*Actions.* The handlers of the ledger (`OnAgentStart`, `OnTurnStart`, `OnMessageEnd`, `OnToolStart`,
`OnToolEnd`, `NoteApprovalDecision`, `NoteToolBlock`, `NoteQuestionDecision`, `OnCompactionStart`, `OnCompactionEnd`,
`RecordConfigChange`, `NoteContextMessages`, `OnSettled`, `NoteCommandFailure`, `CutShort` for `finalizeSession`)
driven by the sessions' steps; `Flush` with success or failure, `Push` with the drop of the oldest and the
flush of a full batch; `Prune`; deletion, shutdown session by session, closing of the store, the death and the
start. `TraceStore` has the operations on SQLite tables (with upserts) and on the maps of the memory
backend, and what the routes read: a run, a summary over days and rows, percentiles, a page of runs
behind a cursor.

### McpConnections

*State.* `files` (the user's and one per workspace), `pool` (insertion order), `conn` (managed servers),
`sync` (the `sync()` calls under way, one per session and one of the page), `index` and `tools` (names to
servers), `page`, `up`.

*Actions.* An action is the code between two awaits of `sync()`: `StartSync` computes what to cut, `Closed`
comes back from a disconnect, `Connected` and `Refused` from a connect, `Onward` goes on in the loop. A session
opens (`Open`, `Begin`, `Register`) and closes; a server dies; the page loads its list, saves, toggles,
removes, adds from a template, refreshes, and then has the sessions reload (`Reload`, `Answered`); the
service shuts down and disposes.

### SessionTree and AgentLoop

*State.* `entries` is the session file, in its order; each entry carries its parent and its path. A
path has one order only, so paths and contexts are sets of entry numbers. `messages` is the live list
as the entries it comes from, `run` where the run is suspended and what it has in hand, `compaction` the
summary under way and by whom, `moving` a move that waits for its summary. Ghosts: `covers` in a summary
(what it was made from) and `spilled` (answers an overflow took out of the list).

*Actions.* An action is the code between two awaits that really suspend: the stream of the provider, the
wait before a retry, the tools, a summary. An abort is delivered when the task resumes and wins over what
it waited for. `Compact` of the user is an HTTP task of its own; its cancellation is immediate; that of a
compaction of the run cancels the whole run. `Reopen` is an idle close or a death of the server (`Closed`)
followed by an opening (`Reread`). Where a compaction may cut is every place the token count could pick. The
entries the registration writes (model and thinking level) count as one.

## 3. Runs

Each run checks the properties of its configuration on one small instance. All but the last finish
without an error. The last checks one sentence that a comment of the repository says of the program, and
TLC finds a behaviour of the code that contradicts it.

| Run | Module | Instance | Shows |
|---|---|---|---|
| `lease_main` | `TaskLease` | 2 processes, 1 request each, 1 edit, TTL of 2 intervals, revisions to 4, 2 attempts, 2 timers; orderly; fair | mutual exclusion, the promise of the lease, no stray timer; a dead holder's lease lapses; every request ends |
| `lease_free` | `MCTaskLease` | the same with TTL 1, revisions to 3 and all three flags TRUE; 2 processes that are alike | whatever interleaves, a saved edit survives, the content changes only with the revision, and only re-entry leaves a timer behind |
| `steps_main` | `MCTaskPanel` | 2 interchangeable titles, ids to s3, 2 steps; with a page: 2 savings | status, ids and times agree, cancelled tasks are frozen while no resume waits, `update_plan` keeps what has begun; only an answer or an empty buffer takes the panel from the task as it is and the events put it right, a click lands at most once and on the step that was seen |
| `recovery_main` | `TaskRecovery` | 3 steps, the first with a file to verify, 2 tools at once, chats | a run cut off inside the noted tool, and the latest side effect while the slot has not been reused, forbid a silent resume |
| `plan_main` | `MCPlanMode` | 2 plans of up to 1 step, 5 revisions in all, the default policy, any number of runs, restarts and compactions | the gate opens by the user's word, his pause or a block; leases are held by what runs; the page shows the bound plan; an unfinished plan is lost to its session in three ways only; no earlier state of a plan is told last |
| `gate_main` | `MCSubagentGate` | 5 delegations of two sessions, one of them nested, 2 slots, 1 per parent; fair | counters are the holders, no idle slot, a fair queue, every delegation answers |
| `stream_main` | `MCSessionStream` | buffer of 2, 4 events and 2 after a restart, 2 messages, 2 loads at once, 1 restart | each event once, and a page that has caught up with an idle session shows it as it is |
| `registry_main` | `MCSessionRegistry` | nine scenarios, below | one object per session, no orphan in the tree, nothing runs that was not approved as shown, what waits for the user is on the screen, settings survive a restart |
| `trace_main` | `MCTraceLedger` | five scenarios, below | each request is counted once, refusals stay apart from failures, no run is left open, both storages answer alike, page after page |
| `mcp_main` | `MCMcpConnections` | 2 workspaces, 3 sessions, 2 servers, 4 connection objects, two scenarios | nothing is connected twice or lost, what is saved reaches every session, tools lead to their server, the page tells what is so |
| `agent_main` | `AgentLoop` | 6 entries, settings among the first 3, 2 tool calls, 1 retry, 1 queued message, calm clients | the live list is what the file says, no result without its call, repeated compactions forget nothing |
| `agent_forgets` | `AgentLoop` | as `agent_main` | after a compaction the request has neither the old messages nor their summary, since no provider sends the roles of summaries |

`CHECK_DEADLOCK FALSE` stands where the system may really come to rest: a cancelled task with nothing to
do, a gate whose delegations have all answered, a plan, a stream, a trace or a session whose bounds are
used up. `SessionRegistry` says the same in the specification: `Rest` is a stutter once every request has
been answered, so that a request that can go no further still is a deadlock.

### Properties

**TaskLease.** `MutualExclusion`: no two processes run the task. `ImplementsExclusion`: whoever runs it holds an
unexpired lease all the while and took it from nobody (`TaskExclusion`), so that a timer that is not armed, or a
lease given up too early, is a violation although nobody else is there. `NoOrphanKeeper`: only the run in
`TaskRunner.active` renews. `NoLostEdit`, `RevisionNamesContent`: optimistic concurrency works for the fields it
covers, under all three flags. `OrphansByReentry`: under all three flags, a timer that `TaskRunner.active` does not
list is left by a request that starts while its process runs the task, one for each, and goes with the process.
`DeadHolderYields`, `RequestsEnd`: liveness.

**TaskSteps.** `StepsSound`: the status not set by hand is the aggregation of the steps, the numbering gives
no two steps one id, and startedAt and completedAt agree with the status however often a step goes back.
`FrozenUnlessResuming`, `ProgressKept`: action properties.

**TaskPanel.** `PanelCorrected`: a connected panel with no event left turns from the task as it is only by the answer
to a reading or a click, or by connecting to an empty buffer; the last event puts it right, whatever crossed; a copy
of another session comes only by the two answers that do not ask which session is shown; a plan that waits for the
user has opened the panel. It does not say that the panel is always right: it is not (section 7). `ClicksLand`: a
click reaches the task at most once, and its first request changes the very step the user saw.

**TaskRecovery.** `CutShortIsSeen`, `LatestSeen`: the two cases in which the code keeps the promise of
`task-model.ts:109`.

**PlanMode.** `PlanInv`: this process holds the lease of exactly the plans its runner has, and only a plan the user
asked for is 'executing'. `PanelShowsPlan`: the view sent last is that of the bound plan. `ChangesAreConfirmed`: under
an unfinished plan the gate lets a change of the workspace pass after the user asked to execute it, while he has
paused it, or while it is blocked; the last needs no word of his (section 7). `NoPlanStrays`: an unfinished plan gets
out of the reach of its session by a route on a finished plan, by planning begun over an executing one, or by an
opening that finds another, and by nothing else. `NothingStaleIsLast`: a run never begins with an earlier state of its
plan told last; it is told the current one, or nothing after a compaction, or the context of another plan stands
behind the right one.

**SubagentGate.** `SlotsCounted`, `NobodyWaitsInVain`, `OvertakesOnlyTheBlocked`, `EveryCallAnswers`.

**SessionStream.** `EachOnce`: within one registry entry the open stream carries each event the page lacks,
once. `SettledPageIsRight`: the two channels agree in the end.

**SessionRegistry.** `RegistryInv`: one live object per session, registered or being built by exactly one
request, and one waiter per waiting call. `TreeWhole`: no session without its parent. `RunsAsAnswered`: a command
a rule matches runs only if this very call was approved in a dialog that showed the worst of its risks, and
the model hears the answers the user gave. `AskedIsShown`: once the page has read everything, what waits is
on the screen. `ReopenKeepsSettings`: abilities, servers, tools and compaction are those the preset asked for,
when made and when reopened; also after the preset was opened in the form and saved unchanged.

**TraceLedger.** `LedgerInv`: a session at rest has no open run but that of a compaction by hand, and a row is
left running only by a crash or a loss. `SummaryIsRight`: the summary against what happened, requests and
outcomes (`RequestsCounted`) as well as refusals and failures (`RefusalsAreNotFailures`), exactly when nothing was
lost and from below otherwise. `QueriesAreRight`: SQLite and memory give the same answers (`BackendsAgree`), and
following the cursor shows every run once, newest first (`PagesComplete`).

**McpConnections.** `PoolInv`: a live connection is in the pool, once. `ChangeIsEverywhere`: after a request has
been answered, pool and tools of every session follow the files. `ToolsReachTheirServer`: a registered name
leads to its server, which has a client. `PageTellsTheTruth`: the list shown is that of files and pool.

**AgentLoop.** `ContextFollowsStore`; `HistoryIsWhole`: no result without its call, nothing forgotten by a
second compaction; `ModelIsTold` is what `core/compaction.py:5` says.

### Bounds, and why they are enough

* *Lease.* Two processes are what the property speaks of; a TTL of two intervals tells a lease that was
  renewed once from a fresh and an expired one. Each orderly block raises the revision at most once, and
  four values allow an edit, a step and a mark; three, in `lease_free`, two changes between the read and the save of
  another. Two timers are the one that is
  listed and one that is not. In `lease_free` the two processes are alike (`Processes`). More processes,
  requests and edits are covered by the proofs.
* *Steps.* Two steps show every order of two, three ids show that a removed id is used again; the theorems
  hold for any number.
* *Panel.* Two savings of the task while a page looks on: one that makes a copy or a request stale, and the
  landing of the repetition, or two that overtake each other. A page begins with a task just made, or a plan that
  waits for the user or is carried out. Others change the task by a completed or removed step, a new plan or a
  cancel; the rest of `TaskSteps` is a change of the same copies.
* *Recovery.* Three steps: a current one, the one before it and the one after it. Two tools at once are
  what it takes to share a slot.
* *Plan.* Two plans: the one before and the one now, or two unfinished ones. One step is enough for a status that is
  derived from none, an open and a completed step; more are `TaskSteps`. Five revisions: create, submit, execute and
  one step, with one change of somebody else; or two plans, the first finished and taken up again by routes. The
  theorems have no bound.
* *Gate.* Five calls over two slots and one per parent: two hold, one waits for a slot, one for its parent,
  and one is nested. Depth 2, although the default is 1, because depth brings hold-and-wait.
* *Stream.* A buffer of two is overrun by three events; four events are a start, a message, an end and one
  more; two loads overtake each other.
* *Registry.* Nine scenarios, each the smallest in which its parts overlap. `Races`: two opens, a prompt and two
  deletes of one session on disk, in every order. `Tree`: three generations, three deletes one after another, a
  crash anywhere. `Settings` in three windows: a context that has room, has less, has none after the model changes;
  six presets, as they are or saved again, known to the page or not; a crash. `Calls`: three commands of two rules
  or none, approved, refused, aborted, deleted, timed out, with one reload of the page. `Asking`: an approval and
  two questions with equal and missing ids. `Kid`: a child with two commands on its parent's page. `Late`: `Calls`
  with the response to a click after later events; there `AskedIsShown` makes no claim (section 7). Three objects
  allow the old, the new and one that lost; one prompt per page: two turns without a reload, a delete or a restart
  start from the same state of the page, and with one of these `AskedIsShown` fails in the ways of section 7.
* *Trace.* A batch of two and two failures in a row are the least that tell a batch from a write and a
  failure from giving up. `Gates` has every combination of approval, refusal by a gate and failure of a call;
  `Times` two ticks, each a day, and pruning; `Notes` two requests with the other kinds of steps and a restart;
  `Pages` three runs of two sessions in pages of one and two; `Faults` a queue shorter than a batch and a storage
  that fails.
* *MCP.* Two servers whose cleaned names collide, a session that may use only the second; two workspaces, the
  page on one. `Alone` has one request at a time and two changes of files; `Crowd` has overlapping openings and
  loads over files that stay. Four objects: two servers in two workspaces.
* *Agent.* Six entries: a setting, a prompt, an answer, a summary and a second summary with a prompt between;
  or a prompt, an answer with two calls and both results. Settings come while the file has fewer than three
  entries only, and at most one message is queued; the theorems have neither bound. `Calm` excludes moves
  and custom messages during a run, which the program accepts (section 7): without it
  `ContextFollowsStore` and `TypeOK` are proved all the same, `HistoryIsWhole` is claimed for calm
  clients only.

## 4. Fairness

Only two runs use fairness, and their modules say of what.

* `TaskLease!Fairness`: strong fairness of an access of a process (its event loop goes on whenever it is
  up; a process that crashes again and again still gets its turns), of each opening and handing over of a
  prompt (they end, with or without success) and of the passing of time. No fairness of users, restarts
  or crashes.
* `SubagentGate!FairSpec`: weak fairness of the drain and of each call once made (`Proceed`): the creation
  of a session ends, timers fire, the prompt of an aborted child returns once its own tools have ended
  (an assumption on the external SDK), and `registry.remove` ends. Nothing is assumed of the child's own
  work or of users: without the timer a child may never return, and the run shows that the timer is
  what makes nested calls answer.

The other specifications state no fairness, and no property of theirs needs any. That nothing gets stuck
in `SessionRegistry` and `McpConnections` is the deadlock check of their runs.

## 5. Proofs

All theorems hold for every value of the constants that satisfies the named assumption of the module
(`LeaseAssumption`, `BoundsAssumption`, `ChangesAssumption`, `RecoveryAssumption`, `GateAssumption`,
`StreamAssumption`, `LoopAssumption`, `PlanAssumption`, `McpAssumption`, `RegistryAssumption`, `SettingsAssumption`,
`StoreAssumption`, `LedgerAssumption`); these ask only for the kinds of numbers and sets, for names to differ, and
for scenarios that the program can be in.

| Theorem | Statement |
|---|---|
| `TaskLease_proofs!TypeCorrect`, `SavedEditsSurvive`, `RevisionOrdersContent`, `OrphansComeByReentry` | `Spec => []TypeOK`, `NoLostEdit`, `RevisionNamesContent`, `OrphansByReentry`, whatever the flags |
| `TaskLease_proofs!LeaseExclusive`, `LeaseImplements` | orderly: `[]MutualExclusion`, the refinement of `TaskExclusion` |
| `TaskSteps_proofs!TaskStaysSound` | `[]StepsSound`, from `StepsTypeCorrect`, `StatusIsDerived`, `StepIdsDistinct`, `StepTimesMatch` |
| `TaskSteps_proofs!CancelledIsFrozen`, `BegunStepsAreKept` | `FrozenUnlessResuming`, `ProgressKept` |
| `TaskSteps_proofs!PanelFollows`, `ClicksLandOnce` | with a page: `PanelCorrected`, `ClicksLand` |
| `TaskSteps_proofs!WatchedTaskStaysSound`, `WatchedTaskIsFrozen`, `WatchedStepsAreKept` | the same for `PanelSpec`, the specification of the run: `[]StepsSound`, `FrozenUnlessResuming`, `ProgressKept` |
| `NodeTasks_proofs!RecoveryTypeCorrect`, `LatestSideEffectSeen`, `CutShortSeen` | `[]TypeOK`, `[]LatestSeen`, `[]CutShortIsSeen` |
| `NodeTasks_proofs!GateTypeCorrect`, `SlotsAreCounted`, `NoIdleSlot`, `QueueIsFair` | `[]GateTypeOK`, `[]SlotsCounted`, `[]NobodyWaitsInVain`, `OvertakesOnlyTheBlocked` |
| `SessionEvents_proofs!EveryEventOnce` | `[]EachOnce`, from `StreamTypeCorrect`, `NoEventSkipped`, `NoEventTwice` |
| `SessionEvents_proofs!SettledPage` | `[]SettledPageIsRight` |
| `SessionEvents_proofs!NoRunIsLeftOver` | `LedgerSpec => []LedgerInv` |
| `AgentLoop_proofs!LoopTypeCorrect`, `ContextIsStored` | `[]TypeOK`, `[]ContextFollowsStore` |
| `AgentLoop_proofs!HistoryKept` | calm clients: `[]HistoryIsWhole` |
| `PlanMode_proofs!PlansAgree`, `PanelIsRight` | `[]PlanInv`, `[]PanelShowsPlan` |
| `PlanMode_proofs!StraysAccounted`, `NothingStale` | `NoPlanStrays`, `NothingStaleIsLast` |
| `PlanMode_proofs!GateIsAccounted` | `[]ChangesAreConfirmed`, for a policy that lets planning run only what reads or verifies and no MCP tool |
| `McpConnections_proofs!PoolIsShared`, `SavedIsEverywhere`, `PageIsTrue` | in a calm scenario: `[]PoolInv`, `[]ChangeIsEverywhere`, `[]PageTellsTheTruth` |
| `McpConnections_proofs!NamesLead` | in a calm scenario, one request at a time or with distinct cleaned names: `[]ToolsReachTheirServer` |
| `SessionRegistry_proofs!RegistryInductive`, `OneSessionOneObject` | `[]IInv`, `[]RegistryInv` |
| `SessionRegistry_proofs!CommandsAreApproved` | in a careful scenario: `[]RunsAsAnswered` |
| `SessionRegistry_proofs!DeletionsKeepTheTree` | requests one after the other, files that form trees: `[]TreeWhole` |
| `SessionRegistry_proofs!SettingsSurvive` | presets that can be kept: `[]ReopenKeepsSettings` |

A scenario of `SessionRegistry` is careful (`Careful`) if no session that makes calls has its approvals switched
off: such a session runs what it likes, as its user wants it to. Deletions side by side can leave a dangling parent
(section 7), which is why `DeletionsKeepTheTree` asks for one request after the other (`Forest`), and for a `Null`
that is no file. Presets can be kept (`Keepable`) if one that switches its compaction off has the numbers of the
form's own "off" (with others the form shows "follow" and saves nothing) and if the line that a session of it leaves
can be read back, which fails only where the window leaves nothing to keep; both exceptions are in section 7, and a
file that is there at the start keeps its preset already. Eight of the nine scenarios of the run are so, all but
`Settings(4, 10)`. A scenario of `McpConnections` is calm (`Calm`) if its files stay as they are, whoever is opened
and closed at the same time, or if requests come one at a time and no two sessions with servers share a workspace
that is not the page's. Both scenarios of the run are; without it the code does lose a connection (section 7). The
lemmas on the pure rules stand where they are used; a scan finds what it looks for because a set of naturals has a
least element (`LeastNat`).

The arguments:

* *Edits survive.* A pending access holds the revision it read; if that is still the row's revision, the
  edits it read are still the row's. Every change of the edits raises the revision, so a save that passes
  its guard writes at least the edits that are there.
* *Exclusion.* Mutual exclusion is not inductive: a process may be anywhere between its acquisition and the
  prompt. `LeaseInv` adds, for each process, that what it holds armed, listed or on its way belongs to
  one request, that a process that runs or is about to owns the row with time left, and that at most one
  process is inside a synchronous stretch. With `Orderly` an acquisition sees the row it saves. A run keeps
  its lease because time passes only when its timer has renewed, which is what the refinement rests on.
* *Timers.* `TimerInv` says that what `TaskRunner.active` lists has a timer armed, so that what is armed beyond it can
  be counted through every step.
* *Steps.* Each operation rebuilds the sequence from parts of the old one, new steps and steps with a new
  status; one lemma for each shape says that ids stay distinct and times matched.
* *Panel.* Everything a page shows changes in one of seven ways (`ViewStep`). What is written to the stream ends
  with the task as it is, since a saving appends to it and makes the rest stale (`Follows`); so the last event puts
  the panel right, and with nothing left to handle only an answer or a connecting changes what is shown. Of a click,
  `ClickFits` says that one that has landed is not sent again and that a first request whose copy is current names a
  step of the task.
* *Recovery.* The invariant ties the ghosts to the row: `cut` to the effect in the slot, `newest` to
  `lastSideEffect` and to `late`.
* *Gate.* Types include that the queue is a strict order of the queued. A counter changes exactly when a
  call enters or leaves the holders, which the cardinality lemmas of the library turn into arithmetic.
  That nobody waits in vain is carried through a drain by `unseen`.
* *Stream.* `TypeOK` and the two halves of `EachOnce` need each other and two facts more: the frames on
  the wire have no hole but for replaced updates (`NoHole`), and the number the page holds is one of its
  entry (`LastKnown`).
* *Ledger.* A run is `Loose` if its row runs in SQLite or begins in the queue, and no end of it follows there: what
  would run if the queue were stored. An operation changes that only for its own run (`SqliteStep`, `PushSound`), and a
  batch, which is a fold, is a chain of operations (`FoldRuns`), whatever the queue drops or stores halfway through
  (`Written`). While nothing was lost, what is loose is open or an orphan (`NothingLoose`); with the types of rows,
  operations and states, whose times are never ahead of the clock, and with `Rested` this is inductive (`LInv`).
* *Agent.* Every step changes file and list in one of five ways (not at all, grown by the same entries,
  rebuilt from the leaf, rebuilt without failed answers, annotated by a setting): `StoreStep`. A context
  grows by the appended entry unless that is a compaction or a setting: `ContextGrows`. Types of the rest
  are kept by `ControlStep`.
* *History.* The file must be `Sound`: the branch of an entry of a branch is the part before it, a summary keeps
  the branch from the start of a turn on and stands for all that is said before it, and between a call and its
  result no turn starts. The next entry keeps this if what it is made of still fits the leaf: the compaction
  under way was prepared for a part of its branch (`PendingRight`), the answer in hand is on it with no turn
  since (`InHand`), and a move under way finds nothing running (`Quiet`), which is what calm clients provide.
* *Settled page.* While the page has handled everything the entry published, it is right, or knows that a
  load has failed, or its newest load is under way (`RightOrLoading`); that load then was told what still
  is so (`FreshLoads`), because the last event of a turn is one that makes the page load (`ClosedByLoad`).
* *Plan.* Every operation on a plan raises its revision or leaves the record as it was (`Later`), so a context with
  the plan's revision states the plan's state, and where it is in the session file it stands behind every other one
  of this plan (`Newest`): whatever is added goes to the end, what is taken out of its type leaves the rest in order
  (`WithoutFacts`), and a compaction takes a prefix. A lease is this process's exactly where `active` says so, since
  each action changes both. A status changes only for the bound plan or by a route; a new plan is bound at once, and
  leaves the old one behind only if that was executing; `Adopted` finds an unfinished one after a restart, as
  `recent` leaves out no plan (`Listed`).
* *Pool.* Every continuation of `sync()` leaves the same (`Outcome`): a pool without two objects under a key
  (`Shape`), what is being connected in the hand of one call (`Handed`), and a call that still has to cut exactly
  what its goal outdates and no longer looks only at what is there (`Ready`). What it does not touch are the
  entries of other workspaces (`SameEntries`). A call cuts only where it is alone (`CutsAlone`): nothing is
  outdated where sessions may share a workspace, but while the page itself cuts it (`InPlace`).
* *Settled.* `PoolPart` and `Settled` make the invariant. When a call is through, its workspace is as the files say
  and nobody is at work there (`Still`), and that lasts until the next request; index, tools and list are made in
  such a moment. Of two tools with one cleaned name the later has counted the earlier, so their names
  differ (`NamesDiffer`). Where calls meet, nothing is settled; there a connected server stays, and with distinct
  names its tool is always called the same (`Lasting`).
* *Registry.* `AtStep` says what a request has at each step of its handler: an opening that it leads, an object it
  has built, a turn it waits for. A live object is registered or was just built by one request, and an object is
  made in a free slot, so nobody holds it yet. Two requests are never about to register one id: openings share one,
  and the id of a session that is made cannot be named before (`RegistryAssumption`). Whoever waits for the end of a
  turn to remove its session holds the registered object. `Without` keeps the rest in order, so a waiter stays the
  only one of its call.
* *Approvals.* What a turn has ready needs no approval or has one (`Allowed`); a waiter is of the call its turn has
  come to. A call says the same wherever it stands, in a waiter, an event, a dialog or a snapshot, and that is what
  `Classify` makes of it, which is the worst of its rules (`WorstIsShown`). The ids of a question differ
  (`UniqueIdIsNew`), so the answers reported are those drafted. `Guarded` carries from the files to the objects that
  approvals are on.
* *Tree.* A number grows from parent to child (`Age`), so no removal makes a session its own forebear. A removal
  works from a listing that gets old; what keeps it right (`RemovalOK`) is that the parent in it stays, and that the
  children of the session are always among those it has yet to move, since a turn that ends meanwhile writes a file
  without a parent.
* *Settings.* What a preset asks for is carried as `Asked`, a relation of a body or a line to `Chosen`: the form
  keeps it (`FormKeeps`), the page's body has it (`BodyIsAsked`), the line written for that body has it still,
  although the compaction in it is the resolved one (`LineIsAsked`), and any session assembled from it fits the
  preset under any window (`AskedFits`), since resolving is a matter of the larger reserve. `SettingsKept` says this
  of every file, of every file that a running turn will write (`RecordKeeps`), and that each live session fits. A
  step makes a session of such a line or leaves what it was made of alone (`SameMaking`).

*Model-checked only.* The liveness properties (`DeadHolderYields`, `RequestsEnd`, `EveryCallAnswers`): fairness and
ENABLED are beyond the prover. Of `SessionRegistry`: `AskedIsShown`, which is not true of every scenario. A call of
the parent that ends beside a child takes the child's dialog; and where the session has a second turn, TLC finds a
load that began before it and is shown after its question, after a reload or a delete, and the events missed after a
restart (all in section 7). A theorem would have to name the scenarios without these, so it is checked on those of
the run, which have one turn. Of `TraceLedger`: `QueriesAreRight` and `SummaryIsRight`, which are about sums,
percentiles and sorted pages: folds and sortings of sets, by the community modules. What a definition by recursion
computes for every input would need induction theorems that take operators, which the installed provers cannot
instantiate (where one step after the other is enough, a least counterexample does: `LeastNat`); no module declares
a RECURSIVE operator, and a path is kept in its entry (`WellFormed` says that it is what a walk along the parents
gives) for the same reason. The scenarios of `SessionRegistry`, `TraceLedger` and `McpConnections` are a rigid
variable, `bound`, so that a theorem about them speaks of any scenario.

## 6. Not modelled

Of the modelled parts:

* *Lease:* texts, events to the page, and the plan state (TaskSteps and PlanMode have it).
* *Steps:* the same operation in two processes at once (TaskLease); more than one waiting resume.
* *Panel:* making a task or a plan, the list of interrupted tasks with its resume buttons, the reading by hand,
  opening and closing by hand, a session that is not open in the server, several tasks of one session.
* *Recovery:* two servers, and steps that are added or removed while a task runs.
* *Plan:* titles, evidence, clarifying texts, the announcement when the capability is off, the wait of
  `registry.open`, the deletion of a session, and plans made over the task routes.
* *Gate:* the counting of token budgets (a run over budget is one of the ways a call is stopped), records
  and reports, and the choice of models and tools.
* *Stream:* rendering and frame merging, the plan panel (`TaskPanel`), 401 answers, the creation of
  a session by its first prompt, and several POSTs of one page at once. No liveness.
* *Registry:* fork, merge, rename; a file that vanishes between listing and reading, unreadable headers;
  session prompts; steering and compaction commands; several children of one turn; other writers than
  the page; the slots of delegation (SubagentGate). A child has its parent's settings. The read, write and rename of a
  child's file by a deletion (`Reparent`, `routes/sessions.ts:124`) are one step: in the code a line that the live child
  appends between them is lost.
* *Trace:* costs and tokens, the sample limit of 2000, more than one tool call at a time, parents and counters
  of runs, the shape of prompts, redaction, a change of the model within a run (the model follows the session),
  and the migrations. A day is a fixed number of ticks; a working directory is its session.
* *MCP:* probing, results and schemas, the approval of calls, failing writes and reloads, a damaged file or edits
  by hand, and the window between a connect and its first list of tools. One tool per server.
* *Agent:* token counts (any possible cut, or none), contents of messages, retries unless a policy is given
  (the server gives none), fork, rename, delete, export, and a second manager on the same file.

Components that are not modelled are in `PROJECT.json` with the reason. Most are conversions of texts or
files with no state between two requests (providers' streams, skills, resources, output limits, the redaction
of traces), the construction of the objects (wiring), or rendering; two writers of one Python session file
and the event queue of the Python server have state, and are next (section 8).

## 7. Observations beyond the runs

Behaviours seen while modelling, some shown by TLC on variants of the configurations, none with a run here.

Tasks and plans:

* The lease is broken by two processes that read the row before either saves: acquiring keeps the revision
  (`task-service.ts:708`), so both saves pass, against `task-lease.ts:5` and the comment at `task-service.ts:705`;
  by a timer that is late by a TTL while its run goes on; and by starting a task again in the process that runs it:
  the same owner acquires, the second run replaces the first in `TaskRunner.active`, and the first keeper goes on
  renewing (`OrphansByReentry` names this as the only way); when the second request fails, its error path releases
  the lease of the first run.
* A heartbeat or a renewal that was read before another keepRevision write and saved after it
  restores the older lease fields, as both pass the guard.
* `markInterrupted` (`task-service.ts:540`) does not check for a cancelled task: a cancel during a resume's
  wait is followed by `blocked`.
* Ids of removed steps are given again, although `task-model.ts:179` can be read otherwise; steps with
  equal titles may trade places in `update_plan` (`plan-tools.ts:202`); `submit_plan` is three writes.
* A turn that starts after a write hides the write's mark (`task-model.ts:109` promises otherwise). A run that
  dies before its first step begins is not in the recovery list (`task-model.ts:285`); the mark
  of an attempt survives the reset of its step (`task-recovery.ts:249`).
* `stop` during a start finds no active run and does nothing (`task-runner.ts:210`); a settle releases the
  run of the session, whichever turn it is of (`:226`).
* Planning begun over an executing plan makes a second unfinished plan, against the comment at
  `plan-mode-service.ts:218`. A route makes one too: `updateStep`, `addStep`, `removeStep` and `update`
  (`task-service.ts:228-375`) refuse only a cancelled task, so a finished plan can be taken up again beside the bound
  one. `NoPlanStrays` names both; the plan commands reach only the bound plan, and after a restart the one updated last.
* A draft whose step the model marks as blocked, or that is blocked by a route, is 'paused' and opens the gate
  without the user, against the text at `:289`; so does a draft the user pauses. `resume` checks no status (`:797`).
* With two unfinished plans, and a restart that binds the session to the first again, the context of the first is
  not injected anew, its revision being the one injected last, and a run begins with the context of the other plan
  last. `NothingStaleIsLast` names this case; TLC finds it when it is taken out.
* `execute` on a dead lease leaves the plan 'executing' with no run; a prompt refused in silence leaves a run
  that renews its lease for nothing; `resume` in the window of an abort does the first of these: the prompt
  is refused, then the settling of the old run takes the new one out of the runner. No property claims otherwise.
* After a compaction the context of the same revision is not injected again. After a restart the heartbeat of
  a finished plan that was resumed can bind the session to it.

The plan and task panel:

* `refreshTask` (`useAgentSession.ts:833`) asks neither which session is shown nor whether an event came
  meanwhile, unlike `refreshPlan` and `loadSession`. The panel can show the task of the session that was left,
  against "面板只对应当前会话" of `docs/web-task-plan-panel.md`, and a click repeated after a conflict then acts
  on the task of the session shown. The answer of `sendPlanCommand` is shown unasked, too. A reading or an
  answer that is overtaken covers a newer event until the next one. `PanelCorrected` names these answers.
* Connecting shows nothing new when the events of the task have left the buffer, or the session was reopened
  (`agent-registry.ts:1636`, `:1127`): the panel keeps the copy it was loaded with.
* After a 409 only the task is read again, so that an edit of a plan step repeats with the plan's stale
  revision and fails (`ChatWindow.vue:380`). A repeated request names the step by its id, and ids are given again:
  it may reach a step the user never saw, which is why `ClicksLand` speaks of first requests.
* A plan proposed once more, with the same id, does not open the panel again.

Sessions, approvals and questions:

* `create` stores the compaction it has resolved so that a reopened session is the same. Where the window
  leaves no room this is a `keepRecentTokens` of 0, and `parseCompaction` (`session-config.ts`) takes positive
  numbers only and drops the whole line: the session reopens with every ability on and the default
  compaction. `ReopenKeepsSettings` excepts exactly this, and `Settings(4, 10)` reaches it.
* The form knows a compaction only by its numbers (`PresetConfig.vue:98`): saving a preset whose numbers fit no strategy
  drops its compaction, and one that was switched off with other numbers comes back switched on.
* `set_model` on a live session keeps the compaction made for the old window until it is reopened.
* `getRuntime` keeps the promise of the model runtime even when it is rejected (`agent-registry.ts:775`): after one
  failed start every later session fails until `reloadModelRuntime` is called.
* The response to a click clears whatever dialog is on the screen (`useAgentSession.ts:565`), the next call's
  included; a call is then denied after its 30 seconds, against `agent-events.ts:39`.
* A child's approval that times out leaves its dialog on the parent's page; with calls side by side
  any `tool_execution_end` of the parent clears a child's dialog; a snapshot never shows a child's approval; a
  load that began earlier can clear or bring back a dialog, that of a later turn too.
* An opening under way while its session is deleted brings the session back; a GET that joins it answers
  `running` without a state; a prompt accepted while a session is being bound may run on a disposed object;
  concurrent deletes of two generations can leave a dangling parent; a session without a file is removed and then
  the delete fails.
* An approval requested under a signal that is already aborted waits for its timer (`tool-approval.ts:331`).
  Questions are not cancelled by `remove`.
* An abort while a child session is created is lost (`subagent-service.ts:408`), against
  `docs/node-subagent-m5.md:136`; and `app.ts` gives the registry no `subagents`, so its cascade does nothing.

Stream and page:

* After a restart the page asks for numbers above those the new entry gives and misses its first events
  (`agent-registry.ts:1128`), against `docs/sse-streaming-render-pipeline.md:276`; a turn cut by the restart has
  no end event and the page stays busy.
* A snapshot taken before a question and applied after it closes the dialog; a refresh in the middle of a
  turn shows a message twice until the turn ends (`docs/implementation-status.md:127` knows); a deleted
  session's stream stays open in silence.

Trace:

* A failed flush drops its batch, the start of a run included, and is not counted in `dropped`
  (`trace-repository.ts:207`); a run pruned while it is open is never counted.
* Overlapping waits are counted twice and then clipped; `errorType` stays after a retry that succeeds; a compaction
  by hand on an idle session opens a run that stays open until the next request ends.
* The backends treat a malformed cursor and an approval without a risk differently (neither can come
  from the page); a rejecting abort in `AgentRegistry.close` leaves later sessions' runs open.

MCP:

* Two sessions that reload in another workspace can leave two connections of one server, one of them in no
  pool (`mcp-client-manager.ts:5` promises one). A dispose or a cut during a connect leaves a connected client.
* A server whose connect failed, or that died, is skipped while its configuration is unchanged (`:80`).
* A session opened while another connects misses that server's tools until it is reloaded; a preset with a list
  of tools fixes the MCP names at its creation; colliding names may lead elsewhere where calls meet.
* A damaged file is read as empty and overwritten by the next save; a save of a stale list overwrites what
  changed since; a template replaces an existing server of its name.

Python agent:

* An abort while tools run leaves calls without results in the file, and the next request
  carries them so; navigation and custom messages are accepted during a run; messages queued for an aborted
  run are consumed by the next; two prompts may be accepted before the first begins; renaming opens a
  second manager on a live file; the leaf is not stored, so reopening goes on at the last entry; an idle close
  takes the entry out before it ends, so that a second manager may be opened first.

## 8. Plan

Done, in this order: `TaskLease` with `TaskExclusion`; `TaskModel` and `TaskSteps`; `TaskRecovery`;
`SubagentGate`; `SessionStream`; `SessionTree` and `AgentLoop`; each with its run and proofs. Then
`PlanMode` with its proofs; `TaskPanel`, proved about with `TaskSteps`; `McpConnections` with its proofs; `TraceStore`
and `TraceLedger`; `HumanAnswers`, `SessionSettings` and `SessionRegistry`; each with its run.

Theorems to add, most important first:

1. `TraceLedger`: the agreement of the storages, operation by operation, and the sums of the rollups.
2. `SessionRegistry`: `AskedIsShown` for the scenarios whose children do not ask beside other calls of their parent, and
   that have one turn, or several without a reload, a delete or a restart.

Modules to add: the second writer of a Python session file (rename, merge), the event queue of the Python
server, and fork and merge in `SessionRegistry`.
