----------------------------- MODULE RunManager -----------------------------
(***************************************************************************)
(* One workflow run of the control plane around its engine                 *)
(* (internal/server/runs.go and internal/workflow/approval.go): the        *)
(* goroutine that runs the engine and the HTTP requests that decide gates  *)
(* both emit events; the broker hands decisions to the engine; the NATS    *)
(* echo, WebSocket clients and the channel relay read the events; the      *)
(* store keeps the run's row, its event log and its projections, and is    *)
(* all that a crash of the process leaves.                                 *)
(*                                                                         *)
(* The engine itself is WorkflowEngine; here it is the sequence of events  *)
(* it emits: it picks the nodes in any order, agents may fail and be       *)
(* retried, and some nodes may be skipped.  The API takes one decision for *)
(* any id of a path, at any moment: of a gate, of an agent, and of an id   *)
(* that is no node.  The writes to the store succeed.                      *)
(***************************************************************************)
EXTENDS Naturals, Sequences, FiniteSets, SequencesExt

CONSTANTS
  Agents, Gates,  \* the nodes of the run: agents, human approvals
  Others,         \* ids a request may name that are no node of the run
  PauseGates,     \* the gates with onReject = "pause"
  Clients,        \* WebSocket connections that may subscribe
  SubBuffer,      \* capacity of a subscriber's channel (64 in the code)
  MaxFailures,    \* bound: failed attempts that are retried
  MaxDecisions,   \* bound: decisions the API takes
  MaxInFlight,    \* bound: echoes of NATS that are outstanding
  Tracked,        \* a work item's trackRunProgress relays the run
  None

VARIABLES
  seq,        \* Run.seq
  events,     \* Run.events
  status,     \* Run.status
  decided,    \* ApprovalBroker.decided
  waiting,    \* the gates with a channel in ApprovalBroker.pending
  released,   \* the gates whose channel holds the decision
  held,       \* the gates whose Resolve found that channel
  em,         \* the emit call of the engine, and of each id's Resolve
  nats,       \* run events on their way back from NATS
  clients,    \* the subscribers: the history they were given and the events
              \* put into their channel since (forgotten when one is lost),
              \* and how many are unread
  pc,         \* where the goroutine of the run is
  cur,        \* the node it executes
  node,       \* nodeState.status of the engine
  failures,   \* retried failures so far
  row,        \* workflow_runs.status
  log,        \* the events table, in the order of its own sequence
  execs,      \* node_executions.status
  verdicts,   \* the ids with a row in validation_results (and feedback_log)
  tracker,    \* trackRunProgress: "on" or "off"
  cursor,     \* the cursor of relayRunEvents
  relayed     \* sequence numbers of the events posted to the channel, in order

runVars == <<seq, events, status>>
brokerVars == <<decided, waiting, released, held>>
engineVars == <<pc, cur, node, failures>>
storeVars == <<row, log, execs, verdicts>>
relayVars == <<tracker, cursor, relayed>>
vars == <<runVars, brokerVars, engineVars, storeVars, relayVars, em, nats, clients>>

ASSUME RunAssumption ==
  /\ PauseGates \subseteq Gates
  /\ Agents \cap Gates = {} /\ Others \cap (Agents \cup Gates) = {}
  /\ None \notin Agents \cup Gates \cup Others \cup {"approved", "rejected", "completed", "paused", "failed"}
  /\ "engine" \notin Agents \cup Gates \cup Others
  /\ SubBuffer \in Nat
  /\ MaxFailures \in Nat /\ MaxDecisions \in Nat
  /\ MaxInFlight \in Nat \ {0}
  /\ Tracked \in BOOLEAN

Nodes == Agents \cup Gates
Ids == Nodes \cup Others
Emitters == {"engine"} \cup Ids

(* An event: a node's status, a review verdict, or (node None) the status  *)
(* of the run.                                                             *)
RunStatuses == {"running", "waiting_approval", "completed", "failed", "paused"}
NodeStatuses == {"pending", "running", "waiting_approval", "retrying", "completed", "failed", "skipped"}
Event == [seq : Nat, node : Ids \cup {None}, what : NodeStatuses \cup RunStatuses \cup {"approved", "rejected"}]

StatusOf(ev) == IF ev.what \in {"approved", "rejected"} THEN "completed" ELSE ev.what
Review(id) == {ev \in {events[i] : i \in DOMAIN events} : ev.node = id /\ ev.what \in {"approved", "rejected"}}
Seqs(s) == {s[i].seq : i \in DOMAIN s}

NoEvent == [seq |-> 0, node |-> None, what |-> "running"]
Terminal == {"completed", "failed", "paused"}

Init ==
  /\ seq = 0 /\ events = <<>> /\ status = "running"
  /\ decided = [id \in Ids |-> None]
  /\ waiting = {} /\ released = {} /\ held = {}
  /\ em = [w \in Emitters |-> [at |-> "idle", ev |-> NoEvent]]
  /\ nats = <<>>
  /\ clients = [c \in Clients |-> [on |-> FALSE, seen |-> <<>>, unread |-> 0, lost |-> FALSE]]
  /\ pc = "new" /\ cur = None
  /\ node = [n \in Nodes |-> "pending"]
  /\ failures = 0
  /\ row = None /\ log = <<>> /\ execs = [id \in Ids |-> None] /\ verdicts = {}
  /\ tracker = IF Tracked THEN "on" ELSE "off"
  /\ cursor = 0 /\ relayed = <<>>

-----------------------------------------------------------------------------
(***************************************************************************)
(* emit: each step takes a lock, or talks to NATS or the store, on its own. *)
(***************************************************************************)
Emit(w, n, what) == em' = [em EXCEPT ![w] = [at |-> "seq", ev |-> [seq |-> 0, node |-> n, what |-> what]]]

At(w, step) == em[w].at = step
Goto(w, step) == em' = [em EXCEPT ![w].at = step]

TakeSeq(w) ==
  /\ At(w, "seq")
  /\ seq' = seq + 1
  /\ em' = [em EXCEPT ![w].at = "publish", ![w].ev.seq = seq + 1]
  /\ UNCHANGED <<events, status, brokerVars, engineVars, storeVars, relayVars, nats, clients>>

(* publish: a client that is too slow loses the event.                     *)
Deliver(ev) ==
  /\ events' = Append(events, ev)
  /\ clients' = [c \in Clients |->
       LET k == clients[c]
       IN IF ~k.on THEN k
          ELSE IF k.unread < SubBuffer
            THEN [k EXCEPT !.seen = Append(@, ev), !.unread = @ + 1]
            ELSE [k EXCEPT !.seen = <<>>, !.lost = TRUE]]

(* The slip: the event goes to NATS before it is in the run's history.     *)
PublishAfterNats(w) ==
  /\ At(w, "publish")
  /\ \/ /\ em[w].ev \notin {nats[i] : i \in DOMAIN nats} /\ ~(em[w].ev.seq \in Seqs(events))
        /\ nats' = Append(nats, em[w].ev)
        /\ UNCHANGED <<em, events, clients>>
     \/ Deliver(em[w].ev) /\ Goto(w, "project") /\ UNCHANGED nats
  /\ UNCHANGED <<seq, status, brokerVars, engineVars, storeVars, relayVars>>

Publish(w) ==
  /\ At(w, "publish")
  /\ Deliver(em[w].ev)
  /\ Goto(w, "project")
  /\ UNCHANGED <<seq, status, brokerVars, engineVars, storeVars, relayVars, nats>>

(* The slip: the projection keeps the first status it was given.           *)
ProjectFirst(w) ==
  /\ At(w, "project")
  /\ LET ev == em[w].ev
     IN execs' = IF ev.node = None \/ execs[ev.node] # None THEN execs
                 ELSE [execs EXCEPT ![ev.node] = StatusOf(ev)]
  /\ Goto(w, "nats")
  /\ UNCHANGED <<runVars, brokerVars, engineVars, row, log, verdicts, relayVars, nats, clients>>

Project(w) ==
  /\ At(w, "project")
  /\ LET ev == em[w].ev
     IN execs' = IF ev.node = None THEN execs ELSE [execs EXCEPT ![ev.node] = StatusOf(ev)]
  /\ Goto(w, "nats")
  /\ UNCHANGED <<runVars, brokerVars, engineVars, row, log, verdicts, relayVars, nats, clients>>

ToNats(w) ==
  /\ At(w, "nats")
  /\ Len(nats) < MaxInFlight
  /\ nats' = Append(nats, em[w].ev)
  /\ Goto(w, "append")
  /\ UNCHANGED <<runVars, brokerVars, engineVars, storeVars, relayVars, clients>>

(* storeTypeFor: the type of the row, part of the idempotency key.         *)
TypeOf(ev) == <<ev.node = None, ev.what>>

KeyOf(ev) == <<TypeOf(ev), ev.seq>>

AppendLog(w) ==
  /\ At(w, "append")
  /\ log' = IF \E i \in DOMAIN log : KeyOf(log[i]) = KeyOf(em[w].ev) THEN log ELSE Append(log, em[w].ev)
  /\ Goto(w, IF w = "engine" THEN "idle" ELSE "verdict")
  /\ UNCHANGED <<runVars, brokerVars, engineVars, row, execs, verdicts, relayVars, nats, clients>>

EmitStep(w) == TakeSeq(w) \/ Publish(w) \/ Project(w) \/ ToNats(w) \/ AppendLog(w)

(* The subscription of Start: an event the run already has is an echo.     *)
Echo ==
  /\ nats # <<>>
  /\ nats' = Tail(nats)
  /\ IF Head(nats).seq \in Seqs(events) THEN UNCHANGED <<events, clients>> ELSE Deliver(Head(nats))
  /\ UNCHANGED <<seq, status, brokerVars, engineVars, storeVars, relayVars, em>>

-----------------------------------------------------------------------------
(***************************************************************************)
(* Launch, and the goroutine of the run.  OnEvent runs inside the engine:  *)
(* the goroutine goes on when its emit call has returned.                  *)
(***************************************************************************)
Engine(at) == pc = at /\ At("engine", "idle")

Create ==
  /\ Engine("new")
  /\ row' = "running"
  /\ pc' = "launch"
  /\ UNCHANGED <<runVars, brokerVars, cur, node, failures, log, execs, verdicts, relayVars, em, nats, clients>>

(* No runner, or no valid graph: only the row learns that the run failed.  *)
LaunchFails ==
  /\ Engine("launch")
  /\ row' = "failed"
  /\ pc' = "unlaunched"
  /\ UNCHANGED <<runVars, brokerVars, cur, node, failures, log, execs, verdicts, relayVars, em, nats, clients>>

Launch ==
  /\ Engine("launch")
  /\ Emit("engine", None, "running")
  /\ pc' = "pick"
  /\ UNCHANGED <<runVars, brokerVars, cur, node, failures, storeVars, relayVars, nats, clients>>

Pick(n) ==
  /\ Engine("pick")
  /\ node[n] \in {"pending", "retrying"}
  /\ node' = [node EXCEPT ![n] = "running"]
  /\ Emit("engine", n, "running")
  /\ pc' = "exec" /\ cur' = n
  /\ UNCHANGED <<runVars, brokerVars, failures, storeVars, relayVars, nats, clients>>

AgentEnds ==
  /\ Engine("exec")
  /\ cur \in Agents
  /\ \E s \in {"completed", "failed"} :
       node' = [node EXCEPT ![cur] = s] /\ Emit("engine", cur, s)
  /\ pc' = "pick"
  /\ UNCHANGED <<runVars, brokerVars, cur, failures, storeVars, relayVars, nats, clients>>

AgentRetries ==
  /\ Engine("exec")
  /\ cur \in Agents
  /\ failures < MaxFailures
  /\ failures' = failures + 1
  /\ node' = [node EXCEPT ![cur] = "retrying"]
  /\ Emit("engine", cur, "retrying")
  /\ pc' = "pick"
  /\ UNCHANGED <<runVars, brokerVars, cur, storeVars, relayVars, nats, clients>>

GateAsks ==
  /\ Engine("exec")
  /\ cur \in Gates
  /\ status' = "waiting_approval"
  /\ node' = [node EXCEPT ![cur] = "waiting_approval"]
  /\ Emit("engine", cur, "waiting_approval")
  /\ pc' = "wait"
  /\ UNCHANGED <<seq, events, brokerVars, cur, failures, storeVars, relayVars, nats, clients>>

(* The slip: Wait registers its channel without looking at decided.        *)
WaitBlindly ==
  /\ Engine("wait")
  /\ pc' = "blocked"
  /\ waiting' = waiting \cup {cur}
  /\ UNCHANGED <<runVars, decided, released, held, cur, node, failures, storeVars, relayVars, em, nats, clients>>

(* Wait: a decision that is there already is returned at once.             *)
Wait ==
  /\ Engine("wait")
  /\ IF decided[cur] # None
       THEN pc' = "answered" /\ UNCHANGED waiting
       ELSE pc' = "blocked" /\ waiting' = waiting \cup {cur}
  /\ UNCHANGED <<runVars, decided, released, held, cur, node, failures, storeVars, relayVars, em, nats, clients>>

WaitReturns ==
  /\ Engine("blocked")
  /\ cur \in released
  /\ pc' = "answered"
  /\ UNCHANGED <<runVars, brokerVars, cur, node, failures, storeVars, relayVars, em, nats, clients>>

GateEnds ==
  /\ Engine("answered")
  /\ node' = [node EXCEPT ![cur] = "completed"]
  /\ Emit("engine", cur, "completed")
  /\ pc' = "pick"
  /\ UNCHANGED <<runVars, brokerVars, cur, failures, storeVars, relayVars, nats, clients>>

(* The last walk of the engine skips what never became ready.              *)
Walked == (Engine("pick") \/ Engine("skip")) /\ \A n \in Nodes : node[n] # "retrying"

Skip(n) ==
  /\ Walked
  /\ node[n] = "pending"
  /\ node' = [node EXCEPT ![n] = "skipped"]
  /\ Emit("engine", n, "skipped")
  /\ pc' = "skip"
  /\ UNCHANGED <<runVars, brokerVars, cur, failures, storeVars, relayVars, nats, clients>>

LastOf(n, s) ==
  LET of == {i \in DOMAIN events : events[i].node = n}
  IN of # {} /\ \E i \in of : StatusOf(events[i]) = s /\ \A j \in of : j <= i

FinalStatus(err) ==
  IF err THEN "failed"
  ELSE IF \E g \in PauseGates : \E ev \in Review(g) : ev.what = "rejected" THEN "paused"
  ELSE IF \E id \in Ids : LastOf(id, "failed") THEN "failed"
  ELSE "completed"

(* Engine.Run returns: with nothing left pending, or with an error.        *)
Returns(err) ==
  /\ Walked
  /\ err <=> \E n \in Nodes : node[n] = "pending"
  /\ status' = FinalStatus(err)
  /\ pc' = "ended"
  /\ UNCHANGED <<seq, events, brokerVars, cur, node, failures, storeVars, relayVars, em, nats, clients>>

(* The slip: the row is written before the terminal event is emitted.      *)
SaveFirst ==
  /\ Engine("ended")
  /\ Emit("engine", None, status)
  /\ row' = status
  /\ pc' = "save"
  /\ UNCHANGED <<runVars, brokerVars, cur, node, failures, log, execs, verdicts, relayVars, nats, clients>>

EmitTerminal ==
  /\ Engine("ended")
  /\ Emit("engine", None, status)
  /\ pc' = "save"
  /\ UNCHANGED <<runVars, brokerVars, cur, node, failures, storeVars, relayVars, nats, clients>>

SaveRow ==
  /\ Engine("save")
  /\ row' = status
  /\ pc' = "done"
  /\ UNCHANGED <<runVars, brokerVars, cur, node, failures, log, execs, verdicts, relayVars, em, nats, clients>>

Goroutine ==
  \/ Create \/ LaunchFails \/ Launch \/ AgentEnds \/ AgentRetries \/ GateAsks \/ Wait
  \/ WaitReturns \/ GateEnds \/ EmitTerminal \/ SaveRow
  \/ \E n \in Nodes : Pick(n) \/ Skip(n)
  \/ \E err \in BOOLEAN : Returns(err)

-----------------------------------------------------------------------------
(***************************************************************************)
(* The approval request: Resolve records the decision and picks up the     *)
(* channel under one lock, emits the REVIEW event (status completed), and  *)
(* only then releases the gate.  Nothing checks that the id is that of a   *)
(* gate, or that the gate was asked; only a Wait of that id has a channel. *)
(***************************************************************************)
Undecided(id) == decided[id] = None /\ Cardinality({i \in Ids : decided[i] # None}) < MaxDecisions

(* The slip: the gate is released before the REVIEW event is emitted.      *)
ReleaseFirst(id, d) ==
  /\ pc # "new"
  /\ Undecided(id)
  /\ decided' = [decided EXCEPT ![id] = d]
  /\ held' = IF id \in waiting THEN held \cup {id} ELSE held
  /\ released' = IF id \in waiting THEN released \cup {id} ELSE released
  /\ Emit(id, id, d)
  /\ UNCHANGED <<runVars, waiting, engineVars, storeVars, relayVars, nats, clients>>

Resolve(id, d) ==
  /\ pc # "new"
  /\ Undecided(id)
  /\ decided' = [decided EXCEPT ![id] = d]
  /\ held' = IF id \in waiting THEN held \cup {id} ELSE held
  /\ Emit(id, id, d)
  /\ UNCHANGED <<runVars, waiting, released, engineVars, storeVars, relayVars, nats, clients>>

(* recordReviewProjection. *)
RecordReview(id) ==
  /\ At(id, "verdict")
  /\ verdicts' = verdicts \cup {id}
  /\ Goto(id, "release")
  /\ UNCHANGED <<runVars, brokerVars, engineVars, row, log, execs, relayVars, nats, clients>>

Release(id) ==
  /\ At(id, "release")
  /\ released' = IF id \in held THEN released \cup {id} ELSE released
  /\ Goto(id, "idle")
  /\ UNCHANGED <<runVars, decided, waiting, held, engineVars, storeVars, relayVars, nats, clients>>

-----------------------------------------------------------------------------
(***************************************************************************)
(* The readers: subscribers and the relay into the work item's channel.    *)
(***************************************************************************)
Alive == pc \notin {"dead", "recovered"}

SubscribeWith(c, hist) ==
  /\ Alive
  /\ ~clients[c].on
  /\ clients' = [clients EXCEPT ![c].on = TRUE, ![c].seen = hist]
  /\ UNCHANGED <<runVars, brokerVars, engineVars, storeVars, relayVars, em, nats>>

(* The slip: the history is read before the channel is registered.         *)
SubscribeLate(c) ==
  \E k \in {Len(events), Len(events) - 1} \cap Nat : SubscribeWith(c, SubSeq(events, 1, k))

Subscribe(c) == SubscribeWith(c, events)

Read(c) ==
  /\ clients[c].unread > 0
  /\ clients' = [clients EXCEPT ![c].unread = @ - 1]
  /\ UNCHANGED <<runVars, brokerVars, engineVars, storeVars, relayVars, em, nats>>

(* relayRunEvents posts what became of a node: that it waits, failed or is *)
(* completed.  A run-level event carries no node status and is not posted. *)
Card(ev) == ev.node # None /\ StatusOf(ev) \in {"waiting_approval", "failed", "completed"}

(* The slip: every event is compared with the cursor the call began with.  *)
RelayFromStart(acc, ev) ==
  IF ev.seq <= cursor THEN acc
  ELSE [cursor |-> ev.seq, posts |-> IF Card(ev) THEN Append(acc.posts, ev.seq) ELSE acc.posts]

(* The cursor moves with every event above it, also one that is not posted. *)
RelayOne(acc, ev) ==
  IF ev.seq <= acc.cursor THEN acc
  ELSE [cursor |-> ev.seq, posts |-> IF Card(ev) THEN Append(acc.posts, ev.seq) ELSE acc.posts]

RelayEvents ==
  /\ tracker = "on"
  /\ Alive
  /\ LET r == FoldLeft(RelayOne, [cursor |-> cursor, posts |-> relayed], events)
     IN cursor' = r.cursor /\ relayed' = r.posts
  /\ tracker' = IF status \in Terminal THEN "off" ELSE "on"
  /\ UNCHANGED <<runVars, brokerVars, engineVars, storeVars, em, nats, clients>>

-----------------------------------------------------------------------------
(***************************************************************************)
(* The process dies between any two steps; CrashRecoverRunning runs when   *)
(* it starts again.                                                        *)
(***************************************************************************)
Crash ==
  /\ Alive
  /\ pc' = "dead"
  /\ em' = [w \in Emitters |-> [at |-> "idle", ev |-> NoEvent]]
  /\ nats' = <<>>
  /\ tracker' = "off"
  /\ UNCHANGED <<runVars, brokerVars, cur, node, failures, storeVars, cursor, relayed, clients>>

(* The slip: the recovery fails every run it finds, also one that ended.   *)
RecoverEvery ==
  /\ pc = "dead"
  /\ row' = IF row = None THEN None ELSE "failed"
  /\ pc' = "recovered"
  /\ UNCHANGED <<runVars, brokerVars, cur, node, failures, log, execs, verdicts, relayVars, em, nats, clients>>

Recover ==
  /\ pc = "dead"
  /\ row' = IF row \in {"running", "waiting_approval"} THEN "failed" ELSE row
  /\ pc' = "recovered"
  /\ UNCHANGED <<runVars, brokerVars, cur, node, failures, log, execs, verdicts, relayVars, em, nats, clients>>

Quiet == \A w \in Emitters : At(w, "idle")

Idle ==
  /\ pc \in {"done", "unlaunched", "recovered"}
  /\ Quiet
  /\ UNCHANGED vars

Next ==
  \/ Goroutine
  \/ \E w \in Emitters : EmitStep(w)
  \/ Echo
  \/ \E id \in Ids : RecordReview(id) \/ Release(id) \/ \E d \in {"approved", "rejected"} : Alive /\ Resolve(id, d)
  \/ \E c \in Clients : Subscribe(c) \/ Read(c)
  \/ RelayEvents
  \/ Crash \/ Recover
  \/ Idle

Spec == Init /\ [][Next]_vars

(* The goroutines are scheduled: one that is in emit, in the rest of a     *)
(* Resolve, or in a Wait that can return goes on, and NATS delivers.       *)
(* Nothing makes an agent or a human answer.                               *)
Fairness ==
  /\ WF_vars(EmitStep("engine") \/ WaitReturns)
  /\ \A id \in Ids : WF_vars(EmitStep(id) \/ RecordReview(id) \/ Release(id))
  /\ WF_vars(Echo)

FairSpec == Spec /\ Fairness

-----------------------------------------------------------------------------
(* The fields have the values the code can give them; a decision is only   *)
(* sent to a channel that Wait made.                                       *)
TypeOK ==
  /\ seq \in Nat
  /\ \A i \in DOMAIN events : events[i] \in Event
  /\ status \in RunStatuses
  /\ decided \in [Ids -> {None, "approved", "rejected"}]
  /\ waiting \subseteq Gates /\ held \subseteq waiting /\ released \subseteq held
  /\ \A w \in Emitters : em[w].ev \in Event
  /\ cur \in Nodes \cup {None}
  /\ node \in [Nodes -> NodeStatuses]
  /\ row \in RunStatuses \cup {None}
  /\ execs \in [Ids -> NodeStatuses \cup {None}]
  /\ cursor <= seq
  /\ verdicts \subseteq Ids

(* The NATS echo never records an event twice, whatever two emitters do.   *)
EventOnce == \A i, j \in DOMAIN events : events[i].seq = events[j].seq => i = j

(* The events the log keeps are, once nobody emits, all the run had: no    *)
(* idempotency key swallows one.                                           *)
LogComplete == Quiet /\ Alive => Seqs(log) = 1 .. seq

(* The history in memory and the log agree on what happened, each event    *)
(* once, although an event comes in twice (emit and the NATS echo) and two *)
(* emitters overtake each other between the number and the append.         *)
LogExact == EventOnce /\ LogComplete

(* A gate is released through its channel only after its REVIEW event is   *)
(* in the history the final status is computed from, and the decision in   *)
(* the log and in the audit projections.                                   *)
ReleaseAfterReview ==
  \A g \in released :
    /\ \E ev \in Review(g) : ev.what = decided[g] /\ ev.seq \in Seqs(log)
    /\ g \in verdicts

(* Once nobody emits, the node_executions projection says of every node    *)
(* what the engine last said; only what a decision was sent for, a gate    *)
(* early or an id that is no gate at all, may read completed instead.      *)
ProjectionAgrees ==
  Quiet /\ pc \in {"save", "done"} =>
    \A id \in Ids :
      \/ execs[id] = None
      \/ id \in Nodes /\ execs[id] = node[id]
      \/ decided[id] # None /\ execs[id] = "completed"

(* A row that says how the run ended is backed by the terminal event in    *)
(* the log, also when the process died on the way.                         *)
RowBacked ==
  row \in {"completed", "paused"} => \E i \in DOMAIN log : log[i].node = None /\ log[i].what = row

(* The run is reported failed only for a node whose last attempt failed or *)
(* an engine error, and completed only without any: a failed agent passes  *)
(* for completed only if the history has a decision sent for it.           *)
FinalHonest ==
  pc \in {"ended", "save", "done"} =>
    /\ status = "failed" => \E n \in Nodes : node[n] \in {"failed", "pending"}
    /\ status = "completed" =>
         \A n \in Nodes : node[n] \in {"completed", "skipped"} \/ (n \in Agents /\ Review(n) # {})

(* What is said of the end of a run is true: of the nodes, and of the log, *)
(* which crash recovery and every reader after a restart go by.            *)
OutcomeHonest == RowBacked /\ FinalHonest

(* A client that never was too slow has seen every event exactly once, in  *)
(* the order of the history, whenever it subscribed.                       *)
SubscriberSees ==
  \A c \in Clients : clients[c].on /\ ~clients[c].lost => clients[c].seen = events

(* No lost wake-up: a gate that was decided lets the engine go on.         *)
GateAnswered ==
  \A g \in Gates : (pc = "blocked" /\ cur = g /\ decided[g] # None) ~> (pc # "blocked" \/ cur # g)

(* A run fails with any node whose final status is failed (finalStatus):   *)
(* it is not reported completed with an agent that failed for good.        *)
FailureFails == row = "completed" => \A n \in Agents : node[n] # "failed"

(* A rejection with onReject = "pause" that the engine acted on is visible *)
(* when the final status is evaluated: the run is not reported completed.  *)
PauseHonoured ==
  row = "completed" => \A g \in PauseGates : ~(node[g] = "completed" /\ decided[g] = "rejected")

(* The relay posts in the order of the numbers, nothing twice; and behind  *)
(* its cursor it has posted every card, an event aside that a later number *)
(* overtook between TakeSeq and Publish: the cursor may pass that one.     *)
Overtaken(i) == \E j \in 1 .. i - 1 : events[j].seq > events[i].seq
RelayExact ==
  /\ \A i, j \in DOMAIN relayed : i < j => relayed[i] < relayed[j]
  /\ \A i \in DOMAIN events :
       Card(events[i]) /\ events[i].seq <= cursor /\ ~Overtaken(i)
         => \E k \in DOMAIN relayed : relayed[k] = events[i].seq

(***************************************************************************)
(* RunOutcome, seen from its gates, the log and the row.                   *)
(***************************************************************************)
GateOf(g) ==
  CASE node[g] = "completed" -> "passed"
    [] node[g] = "skipped" -> "skipped"
    [] node[g] = "waiting_approval" -> "asked"
    [] OTHER -> "closed"

Gating == [g \in Gates |-> GateOf(g)]
Announced == {log[i].what : i \in {j \in DOMAIN log : log[j].node = None}} \cap Terminal
Ending == IF row \in Terminal THEN row ELSE None

Outcome == INSTANCE RunOutcome WITH
  decision <- [g \in Gates |-> decided[g]],
  gate <- Gating,
  announced <- Announced,
  outcome <- Ending

(* The run keeps its promise: decided once, passed after a decision, ended *)
(* once and with the word the log announced, also when the process dies.   *)
ImplementsOutcome == Outcome!Spec
=============================================================================
