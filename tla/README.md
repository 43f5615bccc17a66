# Verification of chaosplus

TLA+ specifications of the concurrent and failure-prone parts of chaosplus, the
TLC configurations that check them on small instances, and TLAPS proofs of the
most important invariants for every instance. Paths are relative to the root of
the repository; `CP` is `src/apps/control-plane/internal`, `DM` is
`src/apps/daemon/src`, `SV` is `src/apps/server/internal`, `AD` is
`src/apps/admin/apps/platform/src/app`.

`PROJECT.json` maps every definition to the lines it models, and lists the
components, the runs, the hazards of the code and the theorems.

## 1. The system

chaosplus lets teams of coding agents work on a project. Two programs carry its
own logic, a third provides identity, and a console shows all of it:

- the **control plane** (Go) keeps channels, work items and workflow runs in a
  database, schedules the nodes of a run, and dispatches agents to machines;
- the **daemon** (TypeScript) runs on each machine, starts the agents as child
  processes, and connects to the control plane by one WebSocket;
- the **server** (Go) is an IAM and API server. Most of it is transactional
  CRUD; its infrastructure packages hold the protocols (worker ids, locks), and
  its department tree is the one place where a transaction is more than a few
  statements on one row;
- the **console** (TypeScript, React) has pages that load, post and poll, and
  one that merges a socket with its polls.

```
 HTTP/WS clients         +-------------- control plane ----------------+      daemon
  POST /api/runs  ---->  | RunManager --> Engine --> RunnerExecutor    |   +--------------+
  approve / reject --->  |    ^  |  ^        |            |            |   | onCommand    |
  GET /ws (events) <---  |    |  |  +-- ApprovalBroker    v            |   | AgentManager |
  chat messages   ---->  | ChatService (work items) --> Gateway <-NATS-|-->| AgentSession |
  machine admin   ---->  |    |  v                    machine.Hub ==WS=|===| MachineClient|
                         |    +- store (SQL) <---- event persistence   |   +--------------+
                         +---------------------------------------------+
```

### 1.1 Inventory

| Component | State | Operations | Interacts by | Hard behaviour | What makes it correct |
|---|---|---|---|---|---|
| Workflow engine, `CP/workflow/engine.go`, `nodes.go`, `validate.go`, `def.go` | status, attempts, branch and approval of each node; feedback map; the Go call stack of nested loops | `Run`, `ready`, `execute` of nine node types, `runBody`, final pass | calls the executor and blocks; waits on the broker; `OnEvent` callback | map order; joins; loop re-entry; retries with backoff; cancellation; nested loops | nothing starts too early; joins are sound; loops end; branches exclude one another; Run returns |
| Approval broker, `CP/workflow/approval.go` | `decided`, `pending` channels | `Wait`, `Resolve` | HTTP handler against the engine's goroutine | decision before, during or after Wait; the callback runs outside the lock | no lost wake-up; REVIEW event before the gate opens |
| Run manager, `CP/server/runs.go` | `Run.seq`, `events`, `status`, subscribers; rows, event log and projections in the store | `Start`, `emit`, `Subscribe`, `finalStatus`, NATS echo | goroutine per run, HTTP, NATS, store | two emitters at once; echo; crash between event and row | each event once; log complete; projection agrees; final status honest |
| Run feed and dashboard, `CP/server/server.go` | none of its own | WebSocket feed, lists | reads runs in memory and rows | slow clients | a client sees every event once |
| Gateway and runner executor, `CP/gateway/gateway.go`, `CP/workflow/runner_executor.go` | one event channel, a sequence per executor, timers | `SpawnAndWaitOpts`, `Kill`, `ReadArtifact`, `RunCmd` | NATS request/reply and events | shared channel; stale timers; late reports; dead daemon | own result only; one live session; a capped call ends |
| Daemon sessions, `DM/serve.ts`, `DM/agents` | sessions by spawn id, workspaces | spawn, kill, read-file, run-cmd, runAndReport | commands and events over the WebSocket | a stopped session still writes and reports | every command answered, every session reported |
| Machine hub and tokens, `CP/machine` | tokens by hash, connection per machine, row in `machine_runners` | HandleWS, confirm, refresh, cancel, disconnect, load | WebSockets, HTTP, store | steps of requests and connections interleave; restart between memory and row | newest connection stays; rotated and cancelled tokens stay out |
| Work items, `CP/server/chat.go`, `CP/store/store_workitem.go`, `AD/workspace/page.tsx` | status, progress, run id, parent | create, delete, update, execute, track progress, roll-up, reconcile | HTTP, runs, store | check-then-act; whole-row updates from an older read; tracking outlives the run; restart | 100 % is earned; an item in progress is freed |
| Chat service, `CP/server/chat.go`, `CP/store/store_chat.go` | messages, hub subscriptions, goroutines that reply | post, route, runAgent, list, socket with replay, relay of a run's events | gateway, runs, WebSockets | gives up without killing; shares the event channel; slow subscribers | every task ends; nothing between list and socket is missed; no event relayed twice |
| Channel page, `AD/sessions/page.tsx` | messages, busy, waitingReply, pendingAgentSeq, the socket, requests under way | load, poll, onmessage, send, retryTask, change of channel | HTTP, WebSocket | late answers; two ways in; replace against merge; failures | each message once; the served ones end up shown; the send button comes back |
| Worker-id lease, `SV/infra/wuid` | row per id (owner token, expiry), the worker's id, alive, last renewal | open, claim, renew, reacquire, close | SQL, distributed lock | late answers; expired lock; suspended process; exhausted pool | no two live workers share an id |
| Distributed lock, `SV/infra/dlock` | row (owner, expiry) | lock, try, refresh, unlock | SQL | holder outlives its TTL | one owner while unexpired |
| Bootstrap, ids, health, `SV/deployment`, `SV/infra` | bootstrap row | start-up lock, id generation | database | several instances starting | bootstrap runs once |
| Departments, `SV/modules/organization`, `AD/departments/page.tsx` | rows with parent and version, closure table, the list a page has loaded | create, update with move, delete, list | HTTP, transactions | statements of two transactions interleave; stale versions; no foreign key on the parent | closure table is the tree's; no overwritten change; no orphan |
| Identity, OAuth, governance, audit, ..., `SV/modules` | tables | CRUD with policies, sessions, tokens, approvals | HTTP, database | mostly one transaction each | - |
| Core extensions, wiring, `SV/core`, `SV/app` | caches, rate-limit counters | verify tokens, evaluate policies, start modules | in-process | - | - |
| Other pages of the console, docs, agent adapters, commands | - | UI, output parsing, one-shot tools | - | - | - |

## 2. Modules

| Module | Models | State to code |
|---|---|---|
| `WorkflowEngine` | the scheduler with every node type | one variable per field of `nodeState`; `todo` is what the current `range` over the map still has to visit; `frames` is the stack of `execLoop` calls; `call` the executor call or backoff that blocks the one goroutine; `decided` the sticky decisions of the broker |
| `WorkflowEngineMC` | three definitions: the repository's agile template with a loop nested in its test loop, a routing graph with branches that meet and a loop whose body branches and forks, an if/else diamond | - |
| `WorkflowEngineProofs` | proofs about the engine for every definition | - |
| `RunManager` | one run: the goroutine, concurrent `emit` calls, decisions for any id of the path, broker, NATS echo, store, subscribers, relay, crash and recovery | `em[w]` is the program counter of emitter `w` inside `emit`; `pc` that of the goroutine; `row`, `log`, `execs`, `verdicts` are the four tables; `Outcome` maps them to `RunOutcome` |
| `RunOutcome` | what a run promises to those who decide its gates and read its end, with no engine, history or store | - |
| `RunManagerProofs` | proofs about one run, and that it implements `RunOutcome` | - |
| `Gateway`, `GatewayMC` | callers of one gateway and the daemon behind it | `at` is where a call is; `wire` is NATS, `stream` is `Gateway.events`; `idle` is the timer with the tick its buffered channel may still hold; `fate` is history: who took a report, or that the channel was full; `Promise` maps calls and sessions to `AgentCall` |
| `AgentCall` | what a call for an agent promises to the engine or to a chat, with no commands, events, timers or workspace | - |
| `GatewayProofs` | proofs about callers and sessions, and that they implement `AgentCall` | - |
| `MachineHub` | tokens, connections and requests of one machine | `steps[h]` is what a request has still to do, one lock or one statement each; `alone` and `settled` are history: the request nothing has overlapped, and what it left |
| `MachineHubProofs` | proofs about connections and tokens | - |
| `WorkerLease`, `WorkerLeaseMC` | processes that lease ids from the table, and the lock as they use it | one variable per column and per field of `Worker`; `now` is the database clock |
| `WorkerLeaseProofs` | proofs about the lease | - |
| `ChannelFeed` | what the channel page promises its reader, over any store | - |
| `ChannelPage` | the page, its socket and the chat service; `Feed` maps it to `ChannelFeed` | the page's variables have the names of its states and refs; `messages[m]` is how often `m` is on the page; `fetches` are the closures whose answer is out, with the moment the server read the list; `ws` is the socket, its subscription and what is under way in it |
| `ChannelPageProofs` | proofs about the page, and the safety part of the refinement | - |
| `WorkItems` | rows, the requests of the page, the runs and their trackers, restart | `req` is a handler between its read and its write, with the row it holds; `runs[r].at` is the program counter of `trackRunProgress`; `earned` and `excused` are history |
| `WorkItemsProofs` | proofs about work items | - |
| `Departments`, `DepartmentsMC` | the department tree, transactions statement by statement, the pages | `rows` and `closure` are what is committed; `tx[p]` is what the transaction of a page has read and written; the locks are derived from it |
| `DepartmentsProofs` | proofs about the tree | - |

The engine and the run manager meet at `OnEvent`: `RunManager` replaces the
engine by the events it can emit for a definition of those nodes without loops:
any order of nodes, retried and final failures, gates, skipped nodes. The API takes one
decision for any id, of a gate, an agent or no node, as the handler does. `RunManager` and `Gateway` meet at the
executor call; there `RunManager` has an agent that ends or fails at any moment.
`MachineHub` and `Gateway` meet at the connection: `Gateway` has a daemon that
is there until it is gone. `WorkItems` and `RunManager` meet at
`trackRunProgress`: the first has the row and a run that ends or does not, the
second has the events the tracker relays. `ChannelPage` has the relay and the
replies as authors who may post at any moment.

Operators that a comment calls a *slip* are not used by `Next`. Each is a
plausible mistake in the definition that follows it, kept because replacing that
definition by it must violate the property it belongs to.

### 2.1 What is abstracted

- Engine: prompts, outputs and JSON Logic become the branch value a condition
  yields; the items of a fork are an array no longer than the clones the
  definition lists; clocks are left out, a backoff ends at any moment.
- Run manager: an event is its number, node and what it says; writes to the
  store succeed (their errors are logged and ignored by the code); one run, as
  runs share only the map and the stream.
- Gateway: payloads are gone; a timer that is armed may fire at any moment; a
  `roundTrip` is answered by the daemon or never; a disconnected daemon is
  refused at once.
- Hub: a token is the number of its issue. The one-time kind, which the server
  never issues, is left out. Any statement of the database may fail, up to a bound.
- Lease: time is a counter of ticks of the database; the diagnostics columns
  and the static worker are left out.
- Channel page: a message is its sequence number; members (whether the page
  believes in an agent, and whether the server finds one, may be anything), the
  order on the page, drafts, notifications and the deletion of channels are left
  out; the query of the replay succeeds.
- Work items: hours, texts, attachments and the messages that announce a change;
  progress is none, part or full; the parent is set at the creation.
- Departments: one tenant; names, order and status; the policy revision and the
  audit record, which are the last statements of a transaction. SQLite is
  "a transaction that overlaps another one fails"; PostgreSQL is read committed,
  with the row locks and the foreign keys of the closure table. MySQL, where a
  transaction reads a snapshot, is not modelled.

## 3. Runs

Deadlock is checked unless the table says otherwise.

| Run | Shows | Bounds, and why they are enough | States |
|---|---|---|---|
| `engine_agile` | `TypeOK`, `InFlightExact`, `StartedJustified`, `JoinSound`, `SpawnsBounded`; `SchedulerSettles`, `TerminalStable` | the template's shape with 14 nodes, two clones (so that one can fail while the other runs), loops of two iterations in each other (so that the inner one is re-entered), two attempts with a backoff, cancellation at any moment | 212 k |
| `engine_routes` | `RoutesExact`, `FeedbackReachesFixer`, `DeadlockGenuine`, `BodyRunsOut` | a condition with two keys, a value no key has, and a fallback; two branches that meet in a join; an `always` edge behind an agent that may be skipped; a loop of two iterations whose body has a condition, a gate with a fixer that is retried behind its rejection, and a fork with two joins behind it: Run returns, ends in the deadlock error, or with a stuck body | 386 k |
| `runs_main` | `LogExact`, `ReleaseAfterReview`, `ProjectionAgrees`, `OutcomeHonest`; `GateAnswered`, `ImplementsOutcome` | an agent that may be retried once and a gate, and one decision, for the gate or for the agent, before, while or after the engine is there: two emitters at once; a crash between any two steps | 2.2 M |
| `runs_readers` | `SubscriberSees`, `RelayExact` | an agent, and one decision for it or for an id that is no node (so that a decision overtakes the engine or is overtaken), a client whose buffer overflows at one unread event, the relay, a crash | 4.9 M |
| `sessions_run` | `ResultOwn`, `OneLiveSession`, `ReportAccounted`; `CallSettles`, `ImplementsCall` | a run with both timers and a validator and a chat task that take their events from one channel of capacity two (each can take the other's report, and the channel can be full), two sessions in all, of the run or of both (so that a late report of the run's first meets its second), a daemon that may die. No deadlock check: a call to a daemon that is gone may wait for ever | 849 k |
| `machine_requests` | `NewestSurvives`, `RotationHolds`, `CancelHolds` | two connections, two handlers at a time and four requests (confirm, refresh, cancel in any order and overlap, so that one that runs alone follows two that did not), one refused statement, one event, one restart between any two steps | 6.1 M |
| `lease_timely` | `TypeOK`, `UniqueAlive`, `LeaseHeld` | two processes and two ids, a lease of six ticks with late answers, two faults (failed calls, crashes, Close), nine ticks: long enough for a lease to expire and be taken. No deadlock check: the clock stops at its bound. The processes are symmetric, and only invariants are checked | 2.6 M |
| `channel_page` | `ShownOnce`, `BusyWaits`, `PushComplete`; `ImplementsFeed`, `BusyClears` | two channels (a late answer meets another channel), two messages (the second may be the reply to the first, or come between subscription and replay), a replay and a buffer of one (both overflow), one fetch and one fault at a time; nobody has to post, so every stop of the system is one of the page | 910 k |
| `work_items` | `FullEarned`, `NeverStuck`; `ExecutionEnds` | two items, one possibly the other's parent; two runs, so that one item may have both; two requests at a time, one PUT, one failing statement, one restart. No deadlock check: nobody has to ask for anything | 1.6 M |
| `departments` | `SerialExact`; `NoOverwrite` | three departments (a subtree that moves, an old and a new parent), two administrators, two versions of each department, both datasources; ids and pages are symmetric and only safety is checked. No deadlock check: once an orphan keeps the list from loading nothing is left to ask | 652 k |
| `items_partial` | **violates** `PutIsPartial` | one item, one run, one PUT | - |
| `departments_orphan` | **violates** `ParentThere` | as `departments`, on PostgreSQL | - |

Ten more configurations are kept for the disagreements of 3.2 (`Engine_diamond`,
`Engine_body`, `Runs_pause`, `Runs_failed`, `Sessions_stolen`, `Machine_keys`,
`Machine_overlap`, `Machine_kicked`, `Lease_suspended` and `Channel_limit`: each
ends with the counterexample named there), and five for the type invariants of
`RunManager`, `Gateway`, `MachineHub`, `ChannelPage` and `WorkItems` (`Runs_types`,
`Sessions_types`, `Machine_types`, `Channel_types`, `Work_types`: no error). They are
not part of the list of `PROJECT.json`.

### 3.1 Fairness

- Engine (`SchedulerSettles`): weak fairness of the walk and of what the engine
  does by itself when a backoff ends or a gate was decided. It is one goroutine
  that never blocks elsewhere. No agent and no human is assumed to answer: the
  property says the scheduler has returned or is blocked in a call.
- Run manager (`GateAnswered`): weak fairness of each `emit` call, of the rest
  of each `Resolve`, of a `Wait` that can return, and of NATS. Each is a
  goroutine the Go scheduler runs.
- Gateway (`CallSettles`): weak fairness of each caller (its timers expire), of
  the daemon's command loop and of delivery. No agent is assumed to end; that is
  why the cap is needed. The property stops at the death of the daemon, because
  neither timer bounds the requests themselves.
- Channel page (`ImplementsFeed`, `BusyClears`): weak fairness of the poll timer
  while a channel is open, of the server's answer to a list and of the arrival
  of that answer. `setInterval` goes on as long as the effect lives, and `fetch`
  settles. Nothing is assumed of the reader, the socket, the agents or a post.
- Work items (`ExecutionEnds`): weak fairness of each tracker (a goroutine), of
  the passing of its deadline (a clock), and of the restart (a supervisor).
  Nothing makes a run end or a handler return.
- Departments: safety only.

### 3.2 Disagreements between the code and what it says

Two runs show one each; `PROJECT.json` quotes the lines.

1. `items_partial`: `updateWorkItem` says that a PUT with only a status does not
   touch the rest of the row. It patches a copy it has read and writes all
   columns back, so what a projection or an execution wrote in between is lost:
   the run id (which opens `execute` a second time) or the progress.
2. `departments_orphan`: the documentation has a parent always be there and a
   department with children not be deleted. On PostgreSQL, the datasource of
   `deploy/compose/config.yaml`, a child may be committed between the count of the
   children and the DELETE, and nothing in the schema stops it. After that the
   list of all departments fails, and with it the page.

Ten others have a configuration (`tlc -config <name>.cfg <module>`):

3. `Engine_diamond`, `JoinProceeds`: PRD.md:420 says a join waits until every
   branch is terminal, skipped ones included. `ready` wants every in-edge active,
   and the branch not taken is only marked skipped by the final pass, which
   reports the join as a deadlock.
4. `Engine_body`, `BodyNeverStuck`: the comment of `runBody` (nodes.go:234) says the
   body "may itself fork/join" and is executed "until every body node is terminal".
   A node behind a branch not taken is never skipped inside a body, so the loop ends
   with "loop body stuck" (nodes.go:260); and the clones of a fork are no nodes of the
   body: `runBody` does not execute them, so a join behind them never gets ready. The
   main graph comes to them only when the loop has failed. `BodyRunsOut` is what
   does hold of such bodies.
5. `Runs_failed`, `FailureFails`: `finalStatus` is to fail a run with a node whose
   final status is failed (runs.go:364). The handler (server.go:311-342) and `Resolve`
   (approval.go:109-127) take a decision for any node id, `OnDecision` emits an event
   with status completed for it (runs.go:288-291), and the last event of a node is its
   final status: a decision sent for an agent that has failed makes the run end
   completed, and its row in `node_executions` say so. `OutcomeHonest` and
   `ProjectionAgrees` except exactly the ids a decision was sent for. For an id that is
   no node, a row of that id is written.
6. `Runs_pause`, `PauseHonoured`: a gate that is decided before the engine waits
   for it is returned at once, while its REVIEW event is still on its way; the
   engine can then end before the rejection is visible and the run is reported
   completed instead of paused. The comment in `Resolve` (approval.go:129)
   excludes exactly that, and the code does for a gate that is already waiting
   (`ReleaseAfterReview`).
7. `Sessions_stolen`, `ReportKept`: all callers receive from one channel and drop
   what is not theirs; the comments (runner_executor.go:34, gateway.go:193) rely
   on one consumer at a time, and a run and a chat task are two. `ReportAccounted`
   says that this, and a full channel, are the only ways a report is lost.
8. `Machine_overlap`, `OneToken`: a machine has one token (hub.go:358, "long-term
   tokens are only rotated: the old one is invalidated, the new one stored"). A
   confirmation that has found its token and a cancel at the same time leave a row with
   a token that is not usable before a restart, and after one it is, though it was
   cancelled; two rotations at the same time leave two usable tokens.
9. `Machine_kicked`, `KickedOut`: "the old daemon's token is invalid at once, it is
   kicked off" (hub.go:376). A connection that was validated before the rotation and
   registers after `Disconnect` has looked stays, with the old token.
10. `Machine_keys`, `EventsLogged`: the event number that is to keep idempotency
   keys unique (hub.go:65) starts again with every connection.
11. `Lease_suspended`, `UniqueAlive`: the age of the lease is only looked at after a
   renewal has returned, so a renewal that hangs keeps the worker alive past its
   lease (against wuid.go:10).
12. `Channel_limit`, `PollSuffices`: the poll is to bring new messages when the
   socket is down (sessions/page.tsx:278), and `ListChannelMessages` serves the
   oldest 200: in a longer channel it never brings one. The replay of the socket,
   "the recent history" (chat.go:106), is the oldest 50.

Behaviour seen while modelling that no run is spent on. In the control plane: the final pass
may end in the deadlock error or not, depending on map order, when a node hangs behind
a node that is skipped by an `always` edge: skipped first it is skipped too, visited
first it is a deadlock (`RoutesExact` and `DeadlockGenuine` hold in either order); the
template whose gate is rejected may end that way; a crash between the terminal event and the
row turns the run into a failed one; the relay's cursor can pass an event that
is published late; `relayRunEvents` has cases for the start and the failure of the
run (chat.go:935, 938) that no event meets, as run-level events carry no node status
(runs.go:323, 338); when the UPDATE of a rotation fails the request ends with an error,
with the old token gone and the new one usable though nobody was told it, until a restart
brings the old one back, and when the DELETE of a cancel fails nobody is told and a restart
revives the token; a worker that is closed during
`reacquire` becomes alive again; `output.json` of an earlier session is read as
the output of one that wrote none. A session may time out as idle on a tick that
was already in the channel when activity re-armed the timer; a call whose daemon
dies while a request is outstanding waits for ever; the status
`waiting_approval` outlives the gate it was set for; a run whose launch failed
stays `running` in memory. Of work items: a page that saves an old snapshot puts
a finished item back to in progress, where `execute` answers 409 until a restart
(`NeverStuck` excuses what a PUT sets); two requests launch two runs, and the row
names one of them; the projected progress is below 100 until the end, as only the first event of a
node is counted: it stays 0 unless a node is decided before the engine comes to it; when the last projection fails the item stays in
progress until a restart. Of the channel page: messages of the channel that was
open before stay on the page; a fetch after a post replaces the list and may take
away a message the socket has shown, until the next poll; a load that fails
empties the page; a retry that fails leaves sending disabled (with the waiting
that may end it); the disabled state is carried to another channel. Of
departments on PostgreSQL: three moves that overlap can build a cycle (TLC needs
44 steps), and a version conflict leaves the dialog with the version that
conflicted. The modules contain all of these behaviours,
and so do the instances of the runs above, save that of an exhausted limit of the list;
the properties say what holds nevertheless: `OutcomeHonest` and `ProjectionAgrees`
except the ids that were decided, `RelayExact` what a later number overtook,
`RotationHolds` and `CancelHolds` are about requests that ran alone and whose
statement went through, `UniqueAlive` and `LeaseHeld` about workers on which Close
has not been called, `ShownOnce` and `ChannelFeed` about what is on the page and the
open channel, and `SerialExact` about SQLite.

## 4. Proofs

### 4.1 Engine (`WorkflowEngineProofs`)

For every definition that satisfies `DefAssumption`. `Validate` checks a part of it:
known kinds, edges between nodes of the definition and none to itself, the two
conditions of the edges of a gate, at least one iteration and at most ten attempts.
That a body is closed under out-edges is how `reachable` builds it. The rest nobody
checks, and a definition without it is not modelled: templates are agents and belong
to one fork, and no loop is reached from its own body (`execLoop` would call itself
without end). Forks, joins, gates, conditions and loops may be anywhere, in bodies too.

- `TypeCorrect`: `Spec => []TypeOK`.
- `JustifiedCorrect`: `Spec => []StartedJustified`.
- `JoinCorrect`: `Spec => []JoinSound`.

`StartedJustified` is not inductive by itself: a loop that re-enters its body
puts nodes back to pending, and one must know that the loops it is called from
are still running, so that nothing behind them started. The invariant is

    IInv == TypeOK /\ StartedJustified /\ JoinSound /\ StackOK

where `StackOK` says the loops on the call stack are running, the more deeply
nested ones on top, and that only an agent or a gate blocks the engine. The
argument has three cases: a step that settles or starts one node (`OneNode`:
nothing behind an unsettled node was started, so nothing loses its reason), a
fork that creates clones (`ExpandKeeps`), and the reset of a body (`ResetKeeps`:
whatever the body leads to is in the body).

On top of it:

- `InFlightCorrect`: `Spec => []InFlightExact`. `FlightOK` adds the converse of
  `StackOK`: a node in flight has a frame or is the call, and a call is in flight.
- `StableCorrect`: `Spec => TerminalStable`. `StepShape` reduces every step to four
  shapes (nothing moves, one unsettled node, a fork with clones, the reset of a
  body); `FreshClones` says that a fork outside of the loops has no clones before it
  completes, so that it never puts a settled one back.
- `FeedbackCorrect`: `Spec => []FeedbackReachesFixer` if `FixersFollowGates`: rejected
  edges into agents come from gates, and a loop whose body has such an agent has its
  gate. Without the second part a loop may run the agent again after its feedback
  was consumed.
- `RoutesCorrect`: `Spec => []RoutesExact`, for every definition and every order of the
  maps. `WalkInv` and `LastWalk` say that a walk that executed nothing has found nothing
  ready with nothing in flight, so that a node the last walk skips has an in-edge and
  none that holds; an `always` edge behind a node skipped later may begin to hold,
  which is why `Untaken` has its second case.
- `DeadlockCorrect`: `Spec => []DeadlockGenuine`, for every definition. When the last walk
  begins no candidate is ready, so each has a source that is not settled or an edge
  that does not hold; the walk settles nodes as skipped only, and a reason that was a
  pending source is then a source skipped in the last walk (`Withheld`). The error is
  raised over a node with an active in-edge.
- `BodyCorrect`: `Spec => []BodyRunsOut`, for every definition, whatever is in the bodies.
  `BodyWalk` says that a walk of a body that has executed nothing yet has found none of the
  nodes it has passed ready, and that nothing has moved since; `LoopsSettled` that a loop
  that completed has every node of its own body settled, through the resets of the
  loops around it.
- `SpawnsCorrect`: `Spec => []SpawnsBounded` if `BodiesApart`: no node is in the bodies
  of two loops (a loop in a loop is in the outer body, its own body is not; the
  definition of `engine_agile` is such). Then a node has one owner that puts it back
  to pending, the loop around it or the fork it is a clone of, and `Rounds` multiplies
  along the owners. The code counts no rounds, so the invariant says that counts exist
  (`Counted`): how often each owner has put its nodes back, at most its own iterations
  per time it was put back itself, less those it has left (`OwnersCounted`), and for
  an agent the spawns and the attempts it has left (`AgentsCounted`). Every step of
  the engine has its next counts (`OwnerResets`, `AgentMoves`, `StaysCounted`), which needs
  that a walk of the main graph starts no node of a body (`TodoMain`). `RoundsFix`
  derives the recursive equation of `Rounds` from the nesting depth by the least
  number principle, and `RoundsBound` bounds the counts by it, from the outermost owner in.

### 4.2 Lease (`WorkerLeaseProofs`)

From `LeaseAssumption`, whose timing part is `2 * Latency + Retry <= Margin + 1`,
for any number of processes, ids and any length of the lease:

- `TypeCorrect`: `Spec => []TypeOK`, with or without timely calls.
- `LeaseCorrect`, `UniqueCorrect`: with `Timely`, `Spec => []LeaseHeld` and
  `Spec => []UniqueAlive`.

`IInv` adds to `TypeOK` that unused slots belong to nobody (`Fresh`), that a slot
about to be claimed exists (`Chosen`), and `Held(n)` of each process: a claimed
slot stays its own until `allocate` returns, the next heartbeat, however late,
comes before the end of the lease, and a renewal on its way counts from the
heartbeat that sent it. Without `Timely` it does not hold, as `Lease_suspended`
shows.

### 4.3 Channel page (`ChannelPageProofs`)

From `PageAssumption` (the limits are numbers), for any channels, posts and
limits: `TypeCorrect`, `ShownOnceCorrect`, `BusyWaitsCorrect`, `PushCorrect`, and
`FeedImplemented`: every step of the page maps to a step of `ChannelFeed` or to a
stutter. The invariant adds to the properties that a post under way is for
a channel (`PostsPlaced`), that a socket knows nothing of messages stored before
its subscription but what the replay brings, and that between the subscription and
the replay everything stored after `since` is on its way (`Subscribed`). What is left to TLC of the refinement is
the liveness part, `CatchesUp`.

### 4.4 Work items (`WorkItemsProofs`)

For any items, runs, requests and bounds: `TypeCorrect`, `FullEarnedCorrect`,
`NeverStuckCorrect`.

`FullEarned` is about rows, and a row may be written back by a handler that read
it long before: the invariant also says it of the row in the hand of every request
(`RowEarned`), of a run that has completed (`RunEarned`) and of a mean that was
taken (`MeanEarned`). `NeverStuck` needs that a request about to record an
execution has its run waiting for it (in `TypeOK`), and that no two of them have
the same run (`OwnRun`), so that the tracker exists when the row is written; and
the run of a row in hand is one that was launched (`Known`).

### 4.5 Departments (`DepartmentsProofs`)

For any number of departments, administrators and versions:

- `TypeCorrect` and `NoOverwriteCorrect` on every datasource. The second rests on
  versions: a page never shows a version above that of the row, and a row of the
  same version is the row (`Versions`); a transaction carries the version its page
  had.
- `SerialExactCorrect`: on SQLite the closure table is exactly the tree's. The
  invariant `Serial` says that one transaction is active at most, that the closure
  table on disk is exact, and, for each place between two statements, what the
  transaction has read and written so far is what the finished change asks for
  (`Stage`, `Cut`, `Done`). Three lemmas carry it: adding a leaf, removing a leaf
  and moving a subtree turn an exact closure table into an exact one
  (`CreateExact`, `DeleteExact`, `MoveExact`); the last has to show that no pair is
  linked twice and that distances add up over the new parent.

On PostgreSQL `ClosureExact` is not an invariant (`departments_orphan`).

### 4.6 Run manager (`RunManagerProofs`)

From `RunAssumption` (agents, gates and other ids are different, the limits are
numbers), for any number of nodes, requests, clients and echoes; a decision may come for
any id, an agent's too:

- `LogCorrect`: `Spec => []LogExact`. A number is in the hand of one emitter or in
  the log, never in both; what NATS holds is in the history already, so its echo is
  ignored (`Counted`, `OwnNumber`, `Recorded`, `Unlogged`, `Kept`).
- `ReleaseCorrect`: `Spec => []ReleaseAfterReview`. The `emit` call of a gate carries
  the decision the broker keeps, and once it is past the append its review is in the
  history and in the log (`GateInv`).
- `SubscriberCorrect`: `Spec => []SubscriberSees`.
- `OutcomeCorrect`: `Spec => []OutcomeHonest`. `finalStatus` reads a history that
  others append to. What the history says last of an agent is what the engine last
  said, or the engine is about to say more, unless a decision was sent for it
  (`Voted`, `Heard`, `Spoken`); a gate is never said to have failed (`Calm`); nothing but the current node is under way (`OnlyCurrent`); and a
  row that is being written follows its terminal event (`RowInv`).
- `ProjectionCorrect`: `Spec => []ProjectionAgrees`. An id has two writers, the
  engine, if it is a node, and the request that decides it; the second only writes
  "completed" and leaves its decision with the broker (`Written`).
- `RelayCorrect`: `Spec => []RelayExact`, and `TypeCorrect`: `Spec => []TypeOK`. What one
  call of the relay posts is a fold of `RelayOne` over the history it has read, and both are
  about the result of the fold for a history of any length. `SetInduction` is
  induction over the numbers below a length, stated of a set instead of a
  predicate and derived from the well-foundedness of finite sets; `RelayFold` applies it to
  the iterates of the fold, and `RelayInv` is the invariant of the loop: what was posted is
  no newer than the cursor and in the order of the numbers, and of what is not newer than
  the cursor every card that no later number overtook was posted (`Owed`, `Behind`).
- `OutcomeImplemented`: `Spec => ImplementsOutcome`, the refinement of `RunOutcome` in full
  (`RunOutcome` states no fairness). A step of the engine asks, passes or skips a gate, a
  request decides one, the append of the last event announces, `save` and the
  recovery settle, and all else is a stutter. Beyond the invariants above this needs
  `OutInv`: the row is not terminal while the run is under way, the word that is
  announced is the one `finalStatus` computed and is announced once (`EndInv`); a gate that
  is waited for is waiting, and one that is passed was decided (`AskInv`); and a
  run ends "paused" only if a gate that pauses was rejected: every verdict in the history
  is the decision the broker keeps for that id (`VoteInv`).

### 4.7 Gateway (`GatewayProofs`)

From `GatewayAssumption` (runs and chats are different callers, the limits are
numbers), for any number of callers, attempts and events: `TypeCorrect`,
`ResultOwnCorrect` and `OneLiveCorrect`. The invariant is

    IInv == TypeInv /\ Turns /\ Fresh /\ Honest /\ Stopped /\ ResultOwn

A caller has one request under way, the one it waits for (`Turns`); a session number
is used once (`Fresh`); a report, on the wire or in the channel, comes from a session
that is over (`Honest`); and the sessions a run has left are stopped (`Stopped`),
which is what the answer to a kill tells it.

`ReportAccountedCorrect`: `Spec => []ReportAccounted`, for any callers that share the channel
and any capacity. `FateInv` follows each report: once its session is over it is in exactly one
place, on the wire, in the channel, or met its fate (`OnePlace`), and a caller that met its own
no longer waits for it (`NotOwn`). So a report its waiting caller will not get was taken by
another caller or found the channel full; timers, kills and a late start of the wait lose none.

- `CallImplemented`: `Spec => ImplementsCall`, the refinement of `AgentCall`, for any callers,
  bounds and timers, and also where several callers take events from each other. A
  call that has given up has its outcome, but has not returned before the answer to
  its kill: `Returned` shows the outcome of a caller at rest only. Where events are
  queued, timers fire or files are read the promise stutters (`Unseen`, `GoesOn`);
  every other step is one of its own (`AskMaps`, `ComesBack`, `StartMaps`, `EndMaps`, and
  `StepMaps` for all). Beside `IInv` this takes `CallInv`: a chat, too, reads the output only
  of a session that is over, only runs kill, and only a report says that a session
  succeeded. What `AgentCall` does not promise, because the code does not keep it: that
  a call returns (`CallSettles` is for those with a cap, while the daemon lives), and that
  the output is the session's own (a workspace is shared, and an old file is read).

### 4.8 Machine hub (`MachineHubProofs`)

From `HubAssumption`, for any number of connections, handlers, requests, failed statements
and restarts:

- `TypeCorrect` and `NewestCorrect`, with any requests that overlap or fail.
- `RotationCorrect` and `CancelCorrect`: `Spec => []RotationHolds` and
  `Spec => []CancelHolds`, with requests that overlap, statements that fail and restarts
  between any two steps. Nothing is assumed of the requests: the properties are about those
  that turned out to run alone and whose last statement went through, whatever the ones
  before left behind. `AloneInv` says what a request that nothing has overlapped yet has done so far, for
  each list of steps it may have left (`Stage`), and that no other is under way; `SettledInv`
  that what it left stays until another begins, also when a restart loads the row.

### 4.9 Only model-checked

Every safety invariant of the passing runs has a theorem. What has none:

- Liveness under fairness (`SchedulerSettles`, `GateAnswered`, `CallSettles`,
  `ExecutionEnds`, `BusyClears`, the liveness of `ImplementsFeed`), which is outside
  of what the prover handles.

## 5. Not modelled

The reasons are in `PROJECT.json`. In short: read-only HTTP handlers, CRUD of
one statement (OKR, statistics, attachments, members), adapters that parse the
output of a child process, most of the user interface, command lines,
documentation, and the other IAM modules of the server.

By lines the repository is mostly its console: some 64 000 lines of TypeScript, of
which nearly all are markup, forms, tables, translations, generated components and
typed clients of the API, twice over for the two consoles. A page loads a list,
sends a form and loads the list again; what could go wrong there is on the
server, or is the stale snapshot that `Departments` and `WorkItems` model. The pages
with a protocol of their own are modelled (`sessions`, `workspace`, `departments`).
The protocols of the system are in Go, and most of what is modelled is there.

## 6. Plan

What is left, in the order in which it would pay:

1. `DistributedLock`: `TryLock`, `Lock`, auto-refresh, maximum hold, `Unlock` of a
   lock that has expired; `WorkerLease` over it, and the bootstrap of the server.
2. IAM server: refresh-token rotation and authorization codes (single use under
   concurrent requests), governance approvals.
3. Departments under MySQL's snapshots, and with the foreign key on the parent
   that would make `ParentThere` hold.
