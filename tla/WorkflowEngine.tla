--------------------------- MODULE WorkflowEngine ---------------------------
(***************************************************************************)
(* The static-DAG scheduler of the control plane                           *)
(* (apps/control-plane/internal/workflow/engine.go and nodes.go).          *)
(*                                                                         *)
(* Engine.Run walks the map of node states again and again, executing      *)
(* every node that is ready, until a whole walk changes nothing; a last    *)
(* walk then marks the nodes that never became ready as skipped, or gives  *)
(* up with a "deadlock" error.  A Go map is walked in an arbitrary order,  *)
(* fresh for each walk: "todo" holds the nodes the current walk has still  *)
(* to visit, and any of them may be visited next.                          *)
(*                                                                         *)
(* A workflow definition is the constant record Def:                       *)
(*   nodes        the node ids written in the definition                   *)
(*   kind         the node type of each node id and of each fork clone     *)
(*   edges        records [from, to, cond, key]; key is None when the edge *)
(*                has no branchKey, and cond "" is written "success"       *)
(*   clones       for each parallel_fork, the ids templateNodeId#0, #1 ... *)
(*                (their number bounds the length of the itemsExpr array)  *)
(*   firstJoin    for each parallel_fork, the first of the joins that its  *)
(*                out-edges lead to, in the order they are written         *)
(*   templates    the template nodes of the forks                          *)
(*   body         for each loop, its body in the order reachable() lists it*)
(*   maxIterations, maxAttempts, backoffs   the bounds of loops and of the *)
(*                retry policies (maxAttempts 0 where there is no policy,  *)
(*                backoffs the number of waits configured)                 *)
(*   results      the branch values the condition expressions can yield    *)
(***************************************************************************)
EXTENDS Naturals, Sequences, FiniteSets

CONSTANTS Def, None

VARIABLES
  status,       \* nodeState.status, "absent" for a clone not created yet
  approved,     \* nodeState.approved
  branch,       \* nodeState.branch, None before the condition ran
  attempts,     \* nodeState.attempts
  feedbackFor,  \* the nodes with an entry in Engine.feedbackFor
  decided,      \* ApprovalBroker.decided, None while nobody decided
  phase,        \* where Engine.Run is: "walk", "final", "done" or "error"
  todo,         \* nodes the current walk has not visited yet
  progressed,   \* the walk executed a node
  frames,       \* execLoop calls in progress, the innermost last
  call,         \* the node whose executor call (or backoff) blocks the engine
  cancelled,    \* the run context was cancelled
  runs          \* history: how many times RunAgent was called for the node

vars == <<status, approved, branch, attempts, feedbackFor, decided, phase, todo,
          progressed, frames, call, cancelled, runs>>

-----------------------------------------------------------------------------
Ids == DOMAIN Def.kind

Forks == {n \in Def.nodes : Def.kind[n] = "parallel_fork"}
Loops == {n \in Def.nodes : Def.kind[n] = "loop"}

CloneSet(f) == {Def.clones[f][i] : i \in DOMAIN Def.clones[f]}
BodySet(l)  == {Def.body[l][i] : i \in DOMAIN Def.body[l]}

JoinTargets(f) == {n \in Def.nodes : Def.kind[n] = "join" /\ \E e \in Def.edges : e.from = f /\ e.to = n}

(***************************************************************************)
(* Every node that some loop resets, and the clones of the forks among     *)
(* them.                                                                   *)
(***************************************************************************)
LoopBodies == UNION {BodySet(l) : l \in Loops}
LoopClones == UNION {CloneSet(f) : f \in Forks \cap LoopBodies}

Kinds == {"trigger", "agent", "human_approval", "condition", "transform",
          "parallel_fork", "join", "loop", "subworkflow"}
Conds == {"success", "failed", "approved", "rejected", "always"}
EdgeType == [from : Ids, to : Ids, cond : Conds, key : Def.results \cup {None}]

Edge(f, t) == [from |-> f, to |-> t, cond |-> "always", key |-> None]

NestingDepth(d) == \A l \in Loops : \A m \in Loops \cap BodySet(l) : d[l] < d[m]

(***************************************************************************)
(* The definitions that are modelled.  Validate checks a part of this      *)
(* (known kinds, edges between nodes of the definition, no self-edge, the  *)
(* two conditions of the edges of a gate, maxIterations at least 1, at     *)
(* most 10 attempts); that a loop body is closed under out-edges is how    *)
(* reachable() builds it.  The rest nobody checks, and a definition        *)
(* without it is not modelled: templates are agents, and no two forks      *)
(* share one (a clone of the second would replace a clone of the first);   *)
(* no loop is reached from its own body, in one or several steps (execLoop *)
(* would call itself without end), so some depth grows from a loop to      *)
(* those inside.  The nodes are finitely many, as they are read from JSON. *)
(***************************************************************************)
ASSUME DefAssumption ==
  /\ IsFiniteSet(Ids)
  /\ Def.nodes \subseteq Ids
  /\ Def.kind \in [Ids -> Kinds]
  /\ None \notin Def.results
  /\ None \notin Ids
  /\ Def.templates \subseteq Def.nodes
  /\ Def.edges \subseteq EdgeType
  /\ \A e \in Def.edges : e.from \in Def.nodes /\ e.to \in Def.nodes /\ e.from # e.to
  /\ \A e \in Def.edges : Def.kind[e.from] = "human_approval" => e.cond \in {"approved", "rejected"}
  /\ Def.clones \in [Forks -> Seq(Ids \ Def.nodes)]
  /\ Def.firstJoin \in [Forks -> Def.nodes \cup {None}]
  /\ \A f \in Forks : JoinTargets(f) # {} => Def.firstJoin[f] \in JoinTargets(f)
  /\ \A f, g \in Forks : f # g => CloneSet(f) \cap CloneSet(g) = {}
  /\ \A n \in Ids \ Def.nodes : Def.kind[n] = "agent"
  /\ Def.body \in [Loops -> Seq(Def.nodes)]
  /\ \E d \in [Loops -> 0 .. Cardinality(Loops)] : NestingDepth(d)
  /\ \A l \in Loops : \A e \in Def.edges : e.from \in BodySet(l) => e.to \in BodySet(l)
  /\ Def.maxIterations \in [Loops -> Nat \ {0}]
  /\ Def.maxAttempts \in [Ids -> 0 .. 10]
  /\ Def.backoffs \in [Ids -> Nat]

-----------------------------------------------------------------------------
(***************************************************************************)
(* The graph.  A fork adds an edge to each clone and from each clone to    *)
(* the join behind the fork: the first join its out-edges lead to, if any. *)
(***************************************************************************)
JoinOf(f) == {n \in JoinTargets(f) : n = Def.firstJoin[f]}

Created == {n \in Ids : status[n] # "absent"}

CloneEdges ==
  UNION {{Edge(f, c) : c \in CloneSet(f) \cap Created}
         \cup {Edge(c, j) : c \in CloneSet(f) \cap Created, j \in JoinOf(f)} : f \in Forks}

Edges == Def.edges \cup CloneEdges

Terminal(s) == s \in {"completed", "failed", "skipped"}

(* edgeConditionHolds: a selector against the source's terminal state. *)
EdgeConditionHolds(e) ==
  LET s == status[e.from]
  IN \/ e.cond = "success"  /\ s = "completed"
     \/ e.cond = "failed"   /\ s = "failed"
     \/ e.cond = "approved" /\ s = "completed" /\ approved[e.from]
     \/ e.cond = "rejected" /\ s = "completed" /\ ~approved[e.from]
     \/ e.cond = "always"   /\ Terminal(s)

(* The slip: the fallback edge is taken next to the branch that matched. *)
FallbackToo(e) ==
  \/ e.key # None /\ e.key = branch[e.from]
  \/ e.key = None /\ e.cond = "always"

(* edgeActive: the out-edges of a condition node; note that it does not    *)
(* look at the status of the condition.                                    *)
EdgeActive(e) ==
  \/ e.key # None /\ e.key = branch[e.from]
  \/ /\ e.key = None
     /\ e.cond = "always"
     /\ \A o \in Edges : o.from = e.from /\ o.key # None => o.key # branch[e.from]

Holds(e) == IF Def.kind[e.from] = "condition" THEN EdgeActive(e) ELSE EdgeConditionHolds(e)

(* The slip: a join runs as soon as it is looked at. *)
JoinNeverWaits(n) ==
  /\ status[n] = "pending"
  /\ Def.kind[n] # "join" =>
       \A e \in Edges : e.to = n => Terminal(status[e.from]) /\ Holds(e)

Ready(n) ==
  /\ status[n] = "pending"
  /\ \A e \in Edges : e.to = n =>
       /\ Terminal(status[e.from])
       /\ Def.kind[n] # "join" => Holds(e)

AnyActiveIn(n) == \E e \in Edges : e.to = n /\ Holds(e)

(* What a walk of the main graph considers at all. *)
Schedulable(n) == status[n] = "pending" /\ n \notin LoopBodies /\ n \notin Def.templates

Candidates == {n \in Created : Schedulable(n)}

-----------------------------------------------------------------------------
Init ==
  /\ status = [n \in Ids |-> IF n \in Def.nodes THEN "pending" ELSE "absent"]
  /\ approved = [n \in Ids |-> FALSE]
  /\ branch = [n \in Ids |-> None]
  /\ attempts = [n \in Ids |-> 0]
  /\ feedbackFor = {}
  /\ decided = [n \in Ids |-> None]
  /\ phase = "walk"
  /\ todo = {n \in Def.nodes : n \notin LoopBodies /\ n \notin Def.templates}
  /\ progressed = FALSE
  /\ frames = <<>>
  /\ call = None
  /\ cancelled = FALSE
  /\ runs = [n \in Ids |-> 0]

Mark(n, s) == status' = [status EXCEPT ![n] = s]

(***************************************************************************)
(* The executors of the node types.  Each is handed the frames the engine  *)
(* is left with; only a loop pushes one more.                              *)
(***************************************************************************)
ExecTrigger(n) ==
  /\ Def.kind[n] = "trigger"
  /\ Mark(n, "completed")
  /\ UNCHANGED <<approved, branch, attempts, feedbackFor, call, runs>>

ExecTransform(n) ==
  /\ Def.kind[n] = "transform"
  /\ \E s \in {"completed", "failed"} : Mark(n, s)
  /\ UNCHANGED <<approved, branch, attempts, feedbackFor, call, runs>>

ExecSubworkflow(n) ==
  /\ Def.kind[n] = "subworkflow"
  /\ Mark(n, "failed")
  /\ UNCHANGED <<approved, branch, attempts, feedbackFor, call, runs>>

(* A branch value selects the edges of that key, or else the always edges; *)
(* the node fails when there are neither.                                  *)
Matches(n, b) ==
  \E e \in Edges : /\ e.from = n
                   /\ \/ e.key # None /\ e.key = b
                      \/ e.key = None /\ e.cond = "always"

ExecCondition(n) ==
  /\ Def.kind[n] = "condition"
  /\ \/ Mark(n, "failed") /\ UNCHANGED branch
     \/ \E b \in Def.results :
          /\ branch' = [branch EXCEPT ![n] = b]
          /\ Mark(n, IF Matches(n, b) THEN "completed" ELSE "failed")
  /\ UNCHANGED <<approved, attempts, feedbackFor, call, runs>>

(* A fork that runs again (in a loop body) starts its clones afresh.       *)
Expand(n, new) ==
  /\ status' = [m \in Ids |-> IF m = n THEN "completed"
                              ELSE IF m \in new THEN "pending" ELSE status[m]]
  /\ approved' = [m \in Ids |-> IF m \in new THEN FALSE ELSE approved[m]]
  /\ branch' = [m \in Ids |-> IF m \in new THEN None ELSE branch[m]]
  /\ attempts' = [m \in Ids |-> IF m \in new THEN 0 ELSE attempts[m]]

ExecFork(n) ==
  /\ Def.kind[n] = "parallel_fork"
  /\ \/ Mark(n, "failed") /\ UNCHANGED <<approved, branch, attempts>>
     \/ \E k \in 0 .. Len(Def.clones[n]) : Expand(n, {Def.clones[n][i] : i \in 1 .. k})
  /\ UNCHANGED <<feedbackFor, call, runs>>

(* The slip: a failed upstream node does not fail the join. *)
JoinIgnoresFailure(n) ==
  /\ Def.kind[n] = "join"
  /\ Mark(n, "completed")
  /\ UNCHANGED <<approved, branch, attempts, feedbackFor, call, runs>>

ExecJoin(n) ==
  /\ Def.kind[n] = "join"
  /\ Mark(n, IF \E e \in Edges : e.to = n /\ status[e.from] = "failed"
             THEN "failed" ELSE "completed")
  /\ UNCHANGED <<approved, branch, attempts, feedbackFor, call, runs>>

(* The slip: the feedback is consumed when the attempt starts. *)
FeedbackConsumedEarly(n) ==
  /\ Def.kind[n] = "agent"
  /\ Mark(n, "running")
  /\ call' = n
  /\ runs' = [runs EXCEPT ![n] = @ + 1]
  /\ feedbackFor' = feedbackFor \ {n}
  /\ UNCHANGED <<approved, branch, attempts>>

ExecAgent(n) ==
  /\ Def.kind[n] = "agent"
  /\ Mark(n, "running")
  /\ call' = n
  /\ runs' = [runs EXCEPT ![n] = @ + 1]
  /\ UNCHANGED <<approved, branch, attempts, feedbackFor>>

ExecApproval(n) ==
  /\ Def.kind[n] = "human_approval"
  /\ Mark(n, "waiting_approval")
  /\ call' = n
  /\ UNCHANGED <<approved, branch, attempts, feedbackFor, runs>>

(* The slip: an iteration starts the whole graph over, not only the body. *)
ResetAll(l) ==
  /\ status' = [m \in Ids |-> IF m = l THEN "running" ELSE "pending"]
  /\ UNCHANGED <<approved, branch, attempts>>

(* The start of an iteration puts the whole body back to pending. *)
ResetBody(l) ==
  /\ status' = [m \in Ids |-> IF m = l THEN "running"
                              ELSE IF m \in BodySet(l) THEN "pending" ELSE status[m]]
  /\ approved' = [m \in Ids |-> IF m \in BodySet(l) THEN FALSE ELSE approved[m]]
  /\ branch' = [m \in Ids |-> IF m \in BodySet(l) THEN None ELSE branch[m]]
  /\ attempts' = [m \in Ids |-> IF m \in BodySet(l) THEN 0 ELSE attempts[m]]

Frame(l, i) == [loop |-> l, iter |-> i, pos |-> 1, moved |-> FALSE]
AtPos(f, p, m) == [loop |-> f.loop, iter |-> f.iter, pos |-> p, moved |-> m]

ExecLoop(n) ==
  /\ Def.kind[n] = "loop"
  /\ ResetBody(n)
  /\ UNCHANGED <<feedbackFor, call, runs>>

(***************************************************************************)
(* execute(): "rest" is what the walk still has to visit.  Clones are      *)
(* inserted into the map while it is being walked, so the walk may or may  *)
(* not come to each of them.                                               *)
(***************************************************************************)
Execute(n, rest, fr) ==
  /\ \/ ExecTrigger(n)   \/ ExecTransform(n) \/ ExecSubworkflow(n)
     \/ ExecCondition(n) \/ ExecFork(n)      \/ ExecJoin(n)
     \/ ExecAgent(n)     \/ ExecApproval(n)  \/ ExecLoop(n)
  /\ \E seen \in SUBSET {m \in Ids : status[m] = "absent" /\ status'[m] # "absent"} :
       todo' = rest \cup seen
  /\ frames' = IF Def.kind[n] = "loop" THEN Append(fr, Frame(n, 1)) ELSE fr
  /\ UNCHANGED <<decided, phase, cancelled>>

nodeVars == <<status, approved, branch, attempts, feedbackFor, runs>>

-----------------------------------------------------------------------------
(***************************************************************************)
(* The walks over the main graph.                                          *)
(***************************************************************************)
InMain == phase = "walk" /\ frames = <<>> /\ call = None

Visit(n) ==
  /\ InMain
  /\ n \in todo
  /\ Ready(n)
  /\ Execute(n, todo \ {n}, frames)
  /\ progressed' = TRUE

PassOver(n) ==
  /\ InMain
  /\ n \in todo
  /\ ~Ready(n)
  /\ todo' = todo \ {n}
  /\ UNCHANGED <<nodeVars, decided, phase, progressed, frames, call, cancelled>>

(* The slip: one walk is taken for all of them.                            *)
OneWalk ==
  /\ InMain
  /\ todo = {}
  /\ phase' = "final"
  /\ todo' = Candidates
  /\ progressed' = FALSE
  /\ UNCHANGED <<nodeVars, decided, frames, call, cancelled>>

(* A walk that executed something is followed by another one, and the last *)
(* one by the walk that skips what is left.                                *)
EndWalk ==
  /\ InMain
  /\ todo = {}
  /\ phase' = IF progressed THEN "walk" ELSE "final"
  /\ todo' = Candidates
  /\ progressed' = FALSE
  /\ UNCHANGED <<nodeVars, decided, frames, call, cancelled>>

SkipOrDeadlock(n) ==
  /\ phase = "final"
  /\ n \in todo
  /\ Schedulable(n)
  /\ todo' = todo \ {n}
  /\ IF AnyActiveIn(n)
       THEN phase' = "error" /\ UNCHANGED status
       ELSE Mark(n, "skipped") /\ UNCHANGED phase
  /\ UNCHANGED <<approved, branch, attempts, feedbackFor, decided, progressed, frames,
                 call, cancelled, runs>>

Return ==
  /\ phase = "final"
  /\ todo = {}
  /\ phase' = "done"
  /\ UNCHANGED <<nodeVars, decided, todo, progressed, frames, call, cancelled>>

-----------------------------------------------------------------------------
(***************************************************************************)
(* The loop node whose body is being run: runBody walks the body in its    *)
(* listed order until a walk executes nothing.                             *)
(***************************************************************************)
Top == frames[Len(frames)]
Outer == SubSeq(frames, 1, Len(frames) - 1)
WithTop(f) == [frames EXCEPT ![Len(frames)] = f]

InBody == phase = "walk" /\ frames # <<>> /\ call = None

BodyNode == Def.body[Top.loop][Top.pos]

BodyVisit ==
  /\ InBody
  /\ Top.pos <= Len(Def.body[Top.loop])
  /\ Ready(BodyNode)
  /\ Execute(BodyNode, todo, WithTop(AtPos(Top, Top.pos + 1, TRUE)))
  /\ UNCHANGED progressed

BodyPassOver ==
  /\ InBody
  /\ Top.pos <= Len(Def.body[Top.loop])
  /\ ~Ready(BodyNode)
  /\ frames' = WithTop(AtPos(Top, Top.pos + 1, Top.moved))
  /\ UNCHANGED <<nodeVars, decided, phase, todo, progressed, call, cancelled>>

BodyWalked == InBody /\ Top.pos > Len(Def.body[Top.loop])

(* The slip: a walk of the body inherits that the one before it moved. *)
BodyForever ==
  /\ BodyWalked
  /\ Top.moved
  /\ frames' = WithTop(AtPos(Top, 1, Top.moved))
  /\ UNCHANGED <<nodeVars, decided, phase, todo, progressed, call, cancelled>>

BodyAgain ==
  /\ BodyWalked
  /\ Top.moved
  /\ frames' = WithTop(AtPos(Top, 1, FALSE))
  /\ UNCHANGED <<nodeVars, decided, phase, todo, progressed, call, cancelled>>

BodySettled == \A n \in BodySet(Top.loop) : Terminal(status[n])

(* The slip: a body with nothing left to run is taken for a settled one.   *)
StuckCompletes ==
  /\ BodyWalked
  /\ ~Top.moved
  /\ \E s \in {"completed", "failed"} :
       Mark(Top.loop, s) /\ frames' = Outer /\ UNCHANGED <<approved, branch, attempts>>
  /\ UNCHANGED <<feedbackFor, runs, decided, phase, todo, progressed, call, cancelled>>

(* The loop returns: completed when its condition holds, failed when the   *)
(* body is stuck, the condition cannot be evaluated, or the iterations are *)
(* used up.                                                                *)
LoopReturns(s) ==
  /\ Mark(Top.loop, s)
  /\ frames' = Outer
  /\ UNCHANGED <<approved, branch, attempts>>

LoopEnds ==
  /\ BodyWalked
  /\ ~Top.moved
  /\ \/ ~BodySettled /\ LoopReturns("failed")
     \/ BodySettled /\ \E s \in {"completed", "failed"} : LoopReturns(s)
  /\ UNCHANGED <<feedbackFor, runs, decided, phase, todo, progressed, call, cancelled>>

(* The slip: one iteration more than the loop allows. *)
OneIterationMore ==
  /\ BodyWalked
  /\ ~Top.moved
  /\ BodySettled
  /\ Top.iter <= Def.maxIterations[Top.loop]
  /\ ResetBody(Top.loop)
  /\ frames' = WithTop(Frame(Top.loop, Top.iter + 1))
  /\ UNCHANGED <<feedbackFor, runs, decided, phase, todo, progressed, call, cancelled>>

LoopIterates ==
  /\ BodyWalked
  /\ ~Top.moved
  /\ BodySettled
  /\ Top.iter < Def.maxIterations[Top.loop]
  /\ ResetBody(Top.loop)
  /\ frames' = WithTop(Frame(Top.loop, Top.iter + 1))
  /\ UNCHANGED <<feedbackFor, runs, decided, phase, todo, progressed, call, cancelled>>

-----------------------------------------------------------------------------
(***************************************************************************)
(* The calls that block the engine: an agent, a backoff, a human gate.     *)
(***************************************************************************)
controlVars == <<decided, phase, todo, progressed, frames, cancelled>>

AgentSucceeds(n) ==
  /\ call = n
  /\ status[n] = "running"
  /\ Mark(n, "completed")
  /\ feedbackFor' = feedbackFor \ {n}
  /\ call' = None
  /\ UNCHANGED <<approved, branch, attempts, runs, controlVars>>

(* The slip: maxAttempts counts the retries instead of the attempts. *)
OneAttemptMore(n) ==
  /\ call = n
  /\ status[n] = "running"
  /\ attempts' = [attempts EXCEPT ![n] = @ + 1]
  /\ call' = None
  /\ Mark(n, IF attempts[n] < Def.maxAttempts[n] THEN "pending" ELSE "failed")
  /\ UNCHANGED <<approved, branch, feedbackFor, runs, controlVars>>

(* scheduleRetry: with attempts left the node is retrying during the       *)
(* backoff, if there is one, and then pending again.                       *)
AgentFails(n) ==
  /\ call = n
  /\ status[n] = "running"
  /\ attempts' = [attempts EXCEPT ![n] = IF Def.maxAttempts[n] <= 1 THEN @ ELSE @ + 1]
  /\ \/ /\ attempts'[n] >= Def.maxAttempts[n] \/ Def.maxAttempts[n] <= 1
        /\ Mark(n, "failed")
        /\ call' = None
     \/ /\ Def.maxAttempts[n] > 1
        /\ attempts'[n] < Def.maxAttempts[n]
        /\ IF attempts'[n] <= Def.backoffs[n]
             THEN Mark(n, "retrying") /\ UNCHANGED call
             ELSE Mark(n, "pending") /\ call' = None
  /\ UNCHANGED <<approved, branch, feedbackFor, runs, controlVars>>

(* The slip: a run cancelled during the backoff leaves the node retrying. *)
BackoffAbandoned(n) ==
  /\ call = n
  /\ status[n] = "retrying"
  /\ call' = None
  /\ \/ Mark(n, "pending")
     \/ cancelled /\ UNCHANGED status
  /\ UNCHANGED <<approved, branch, attempts, feedbackFor, runs, controlVars>>

BackoffEnds(n) ==
  /\ call = n
  /\ status[n] = "retrying"
  /\ call' = None
  /\ \/ Mark(n, "pending")
     \/ cancelled /\ Mark(n, "failed")
  /\ UNCHANGED <<approved, branch, attempts, feedbackFor, runs, controlVars>>

(* ApprovalBroker.Resolve: a gate is decided once per run, whether or not  *)
(* the engine is waiting at it; a rejection always carries feedback.       *)
Decide(n, d) ==
  /\ Def.kind[n] = "human_approval"
  /\ decided[n] = None
  /\ decided' = [decided EXCEPT ![n] = d]
  /\ UNCHANGED <<nodeVars, phase, todo, progressed, frames, call, cancelled>>

(* Wait returns the decision, also one taken before or in an earlier       *)
(* iteration of a loop; a rejection leaves its feedback for the targets of *)
(* the rejected edges.                                                     *)
GateReturns(n) ==
  /\ call = n
  /\ status[n] = "waiting_approval"
  /\ decided[n] # None
  /\ Mark(n, "completed")
  /\ approved' = [approved EXCEPT ![n] = decided[n] = "approved"]
  /\ feedbackFor' = IF decided[n] = "approved" THEN feedbackFor
                    ELSE feedbackFor \cup {e.to : e \in {x \in Def.edges : x.from = n /\ x.cond = "rejected"}}
  /\ call' = None
  /\ UNCHANGED <<branch, attempts, runs, controlVars>>

GateCancelled(n) ==
  /\ call = n
  /\ status[n] = "waiting_approval"
  /\ cancelled
  /\ Mark(n, "failed")
  /\ call' = None
  /\ UNCHANGED <<approved, branch, attempts, feedbackFor, runs, controlVars>>

Cancel ==
  /\ ~cancelled
  /\ cancelled' = TRUE
  /\ UNCHANGED <<nodeVars, decided, phase, todo, progressed, frames, call>>

Finished == phase \in {"done", "error"}

Idle == Finished /\ UNCHANGED vars

-----------------------------------------------------------------------------
Walk == EndWalk \/ Return \/ \E n \in Ids : Visit(n) \/ PassOver(n) \/ SkipOrDeadlock(n)

Body == BodyVisit \/ BodyPassOver \/ BodyAgain \/ LoopEnds \/ LoopIterates

Returns(n) == AgentSucceeds(n) \/ AgentFails(n) \/ BackoffEnds(n) \/ GateReturns(n) \/ GateCancelled(n)

Next ==
  \/ Walk
  \/ Body
  \/ \E n \in Ids : Returns(n) \/ \E d \in {"approved", "rejected"} : Decide(n, d)
  \/ Cancel
  \/ Idle

(***************************************************************************)
(* The engine's own goroutine runs on, a backoff timer fires, and a gate   *)
(* that was decided returns.  Nothing makes an agent or a human answer.    *)
(***************************************************************************)
Fairness ==
  /\ WF_vars(Walk \/ Body)
  /\ WF_vars(\E n \in Ids : BackoffEnds(n) \/ GateReturns(n))

Spec == Init /\ [][Next]_vars

FairSpec == Spec /\ Fairness

-----------------------------------------------------------------------------
Statuses == {"absent", "pending", "running", "waiting_approval", "retrying",
             "completed", "failed", "skipped"}

FrameType == [loop : Loops, iter : Nat, pos : Nat \ {0}, moved : BOOLEAN]

(* The variables have the values the engine's fields can have. *)
TypeOK ==
  /\ status \in [Ids -> Statuses]
  /\ approved \in [Ids -> BOOLEAN]
  /\ branch \in [Ids -> Def.results \cup {None}]
  /\ attempts \in [Ids -> Nat]
  /\ feedbackFor \subseteq Ids
  /\ decided \in [Ids -> {None, "approved", "rejected"}]
  /\ phase \in {"walk", "final", "done", "error"}
  /\ todo \subseteq Ids
  /\ progressed \in BOOLEAN
  /\ frames \in Seq(FrameType)
  /\ \A i \in DOMAIN frames : frames[i].iter \in 1 .. Def.maxIterations[frames[i].loop]
  /\ call \in Ids \cup {None}
  /\ cancelled \in BOOLEAN
  /\ runs \in [Ids -> Nat]

(* The nodes in flight are exactly the one whose call blocks the engine and *)
(* the loops on its call stack: no node is left running, waiting or         *)
(* retrying that nobody will come back to.                                 *)
InFlightExact ==
  {n \in Ids : status[n] \in {"running", "waiting_approval", "retrying"}}
    = ({call} \ {None}) \cup {frames[i].loop : i \in DOMAIN frames}

Started(n) == status[n] \notin {"absent", "pending", "skipped"}

(* A node that was started still has the reasons it was started for: every *)
(* source is terminal and, unless the node is a join, every in-edge is     *)
(* active.  So nothing upstream ever changes its mind (a retry, a loop     *)
(* re-entry, a late decision) under a node that acted on it, and nothing   *)
(* behind a rejected gate runs.  The clones of a fork in a loop body are   *)
(* left out: they run in the main graph after the loop gave up.            *)
StartedJustified ==
  \A e \in Edges : Started(e.to) /\ e.to \notin LoopClones =>
    /\ Terminal(status[e.from])
    /\ Def.kind[e.to] # "join" => Holds(e)

(* A join that completed waited for every clone its fork created, however  *)
(* many there were, and none of its upstream nodes had failed.             *)
JoinSound ==
  \A j \in Ids : Def.kind[j] = "join" /\ status[j] = "completed" =>
    \A e \in Edges : e.to = j => status[e.from] \in {"completed", "skipped"}

(* Of the edges of a condition only one branch is taken: targets behind    *)
(* different keys, or behind a key and the fallback, never both run.       *)
ExclusiveBranches ==
  \A d, e \in {x \in Edges : Def.kind[x.from] = "condition" /\ Def.kind[x.to] # "join"} :
    d.from = e.from /\ d.key # e.key /\ Started(d.to) /\ Started(e.to) => d.to = e.to

(* The edge is not taken, or it is an "always" edge out of a node that was *)
(* skipped itself.                                                         *)
Untaken(e) == Holds(e) => e.cond = "always" /\ status[e.from] = "skipped"

(* When Run returns without error every node of the main graph is settled, *)
(* and a node was skipped only if some edge into it was really not taken,  *)
(* or is an "always" edge out of a node that was skipped itself: whether   *)
(* such an edge counts depends on which of the two the last walk meets     *)
(* first.                                                                  *)
SkippedUntaken ==
  phase = "done" =>
    \A n \in Created \ (LoopBodies \cup Def.templates) :
      /\ Terminal(status[n])
      /\ status[n] = "skipped" => \E e \in Edges : e.to = n /\ Untaken(e)

(* A condition runs one branch, and what is skipped is what was not taken. *)
RoutesExact == ExclusiveBranches /\ SkippedUntaken

(* A reason why a node that is pending was not run: a source that was not  *)
(* settled, or only skipped in the last walk, or an edge not taken.        *)
Withheld(n) ==
  \E e \in Edges : e.to = n /\ (~Terminal(status[e.from]) \/ status[e.from] = "skipped"
                                \/ (Def.kind[n] # "join" /\ ~Holds(e)))

(* Nothing that could run is left behind: Run gives up with the deadlock   *)
(* error only when no node of the main graph was ready any more, however   *)
(* the maps were walked, and over a node that has an edge taken into it    *)
(* and another reason not to run.                                          *)
DeadlockGenuine ==
  /\ phase \in {"final", "error"} => \A n \in Candidates : Withheld(n)
  /\ phase = "error" => \E n \in Candidates : AnyActiveIn(n)

(* A join whose upstream nodes all completed or were skipped completes.    *)
JoinProceeds ==
  Finished =>
    \A j \in Created : Def.kind[j] = "join" /\ status[j] # "completed" =>
      \E e \in Edges : e.to = j /\ status[e.from] \notin {"completed", "skipped"}

(* A loop body that has nothing left to run is settled (never stuck).      *)
BodyNeverStuck == BodyWalked /\ ~Top.moved => BodySettled

(* The nodes that this loop alone runs.                                    *)
OwnBody(l) == BodySet(l) \ UNION {BodySet(m) : m \in Loops \ {l}}

(* A loop does not go on from an iteration while a node of its body could  *)
(* still run, however its body forks, branches, retries or nests; and it   *)
(* completes only over a body in which every node ended.                   *)
BodyRunsOut ==
  /\ BodyWalked /\ ~Top.moved => \A n \in BodySet(Top.loop) : ~Ready(n)
  /\ \A l \in Loops : status[l] = "completed" => \A n \in OwnBody(l) : Terminal(status[n])

(* How often the engine can come to a node: a node that a loop runs, or    *)
(* that is a clone of a fork, is put back to pending by its owner alone.    *)
Owners(n) == {l \in Loops : n \in BodySet(l)} \cup {f \in Forks : n \in CloneSet(f)}

OwnerOf(n) == CHOOSE p \in Owners(n) : TRUE

Times(p) == IF p \in Loops THEN Def.maxIterations[p] ELSE 1

Rounds[n \in Ids] == IF Owners(n) = {} THEN 1 ELSE Times(OwnerOf(n)) * Rounds[OwnerOf(n)]

Attempts(n) == IF Def.maxAttempts[n] > 1 THEN Def.maxAttempts[n] ELSE 1

(* However the retries and the iterations interleave, an agent node is     *)
(* spawned at most its attempts times the iterations of the loops around   *)
(* it (the cap maxRetryAttempts exists for, M2).                           *)
SpawnsBounded == \A n \in Ids : runs[n] <= Attempts(n) * Rounds[n]

(* A node that runs because a gate rejected carries the feedback of the    *)
(* rejection, on the first attempt and on every retry.                     *)
FeedbackReachesFixer ==
  \A e \in Def.edges :
    e.cond = "rejected" /\ Def.kind[e.to] = "agent" /\ status[e.to] \in {"running", "retrying"}
      => e.to \in feedbackFor

(* A settled node changes its status only when a loop re-enters its body.  *)
TerminalStable ==
  [][\A n \in Ids \ (LoopBodies \cup LoopClones) :
       Terminal(status[n]) => status'[n] = status[n]]_vars

(* The scheduler never spins: from some moment on it has returned, or it   *)
(* is waiting for an agent or a human.                                     *)
SchedulerSettles == <>[](Finished \/ call # None)
=============================================================================
