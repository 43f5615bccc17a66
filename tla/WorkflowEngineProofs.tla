------------------------ MODULE WorkflowEngineProofs ------------------------
(***************************************************************************)
(* What holds of the scheduler for every workflow definition.              *)
(***************************************************************************)
EXTENDS WorkflowEngine, FiniteSetTheorems, TLAPS

(* The fields of one function are updated at one node, or all at once.     *)
LEMMA MarkType ==
  ASSUME TypeOK, NEW n \in Ids, NEW s \in Statuses, Mark(n, s)
  PROVE  status' \in [Ids -> Statuses]
BY DEF TypeOK, Mark

(* A fork node is one of Forks, and its clones are nodes.                   *)
LEMMA ForkNode ==
  ASSUME NEW n \in Ids, Def.kind[n] = "parallel_fork"
  PROVE  n \in Forks /\ CloneSet(n) \subseteq Ids /\ Def.clones[n] \in Seq(Ids)
<1>1. n \in Forks
  BY DefAssumption DEF Forks
<1>2. Def.clones[n] \in Seq(Ids)
  BY <1>1, DefAssumption DEF Ids
<1> QED
  BY <1>1, <1>2 DEF CloneSet

(* A node of type loop is one of Loops.                                     *)
LEMMA LoopNode ==
  ASSUME NEW n \in Ids, Def.kind[n] = "loop"
  PROVE  n \in Loops
BY DefAssumption DEF Loops

(* The body of a loop is a set of nodes of the definition.                  *)
LEMMA LoopBody ==
  ASSUME NEW l \in Loops
  PROVE  /\ l \in Ids
         /\ BodySet(l) \subseteq Def.nodes
         /\ Def.body[l] \in Seq(Def.nodes)
         /\ Def.maxIterations[l] \in Nat \ {0}
BY DefAssumption DEF Loops, BodySet

(* runBody's reset keeps the types.                                         *)
LEMMA ResetType ==
  ASSUME TypeOK, NEW l \in Loops, ResetBody(l)
  PROVE  /\ status' \in [Ids -> Statuses]
         /\ approved' \in [Ids -> BOOLEAN]
         /\ branch' \in [Ids -> Def.results \cup {None}]
         /\ attempts' \in [Ids -> Nat]
BY DEF TypeOK, ResetBody, Statuses

FrameOK(fr) == fr \in Seq(FrameType) /\ \A i \in DOMAIN fr : fr[i].iter \in 1 .. Def.maxIterations[fr[i].loop]

(* execute() of any node keeps the types.                                   *)
LEMMA ExecuteType ==
  ASSUME TypeOK, NEW n \in Ids, NEW rest \in SUBSET Ids, NEW fr, FrameOK(fr),
         Execute(n, rest, fr), progressed' \in BOOLEAN
  PROVE  TypeOK'
<1> USE DEF TypeOK, Statuses
<1>1. todo' \subseteq Ids
  BY DEF Execute
<1>2. FrameOK(frames')
  <2>1. CASE Def.kind[n] = "loop"
    <3>1. n \in Loops /\ Def.maxIterations[n] \in Nat \ {0}
      BY <2>1, LoopNode, LoopBody
    <3>2. Frame(n, 1) \in FrameType /\ Frame(n, 1).iter = 1 /\ Frame(n, 1).loop = n
      BY <3>1 DEF Frame, FrameType
    <3>3. frames' = Append(fr, Frame(n, 1))
      BY <2>1 DEF Execute
    <3> QED
      BY <3>1, <3>2, <3>3 DEF FrameOK
  <2>2. CASE Def.kind[n] # "loop"
    BY <2>2 DEF Execute
  <2> QED
    BY <2>1, <2>2
<1>3. /\ status' \in [Ids -> Statuses]
      /\ approved' \in [Ids -> BOOLEAN]
      /\ branch' \in [Ids -> Def.results \cup {None}]
      /\ attempts' \in [Ids -> Nat]
      /\ feedbackFor' \subseteq Ids
      /\ call' \in Ids \cup {None}
      /\ runs' \in [Ids -> Nat]
  <2>1. CASE ExecTrigger(n) \/ ExecTransform(n) \/ ExecSubworkflow(n) \/ ExecJoin(n)
    BY <2>1 DEF ExecTrigger, ExecTransform, ExecSubworkflow, ExecJoin, Mark
  <2>2. CASE ExecCondition(n)
    <3>1. \E s \in Statuses : Mark(n, s)
      BY <2>2 DEF ExecCondition
    <3>2. status' \in [Ids -> Statuses]
      BY <3>1, MarkType
    <3>3. branch' \in [Ids -> Def.results \cup {None}]
      BY <2>2 DEF ExecCondition
    <3> QED
      BY <2>2, <3>2, <3>3 DEF ExecCondition
  <2>3. CASE ExecFork(n)
    <3>1. CASE Mark(n, "failed") /\ UNCHANGED <<approved, branch, attempts>>
      BY <2>3, <3>1, MarkType DEF ExecFork
    <3>2. CASE \E k \in 0 .. Len(Def.clones[n]) : Expand(n, {Def.clones[n][i] : i \in 1 .. k})
      <4>1. PICK new : Expand(n, new)
        BY <3>2
      <4>2. status' \in [Ids -> Statuses]
        BY <4>1 DEF Expand
      <4>3. approved' \in [Ids -> BOOLEAN] /\ branch' \in [Ids -> Def.results \cup {None}]
            /\ attempts' \in [Ids -> Nat]
        BY <4>1 DEF Expand
      <4> QED
        BY <2>3, <4>2, <4>3 DEF ExecFork
    <3> QED
      BY <2>3, <3>1, <3>2 DEF ExecFork
  <2>4. CASE ExecAgent(n) \/ ExecApproval(n)
    <3>1. status' \in [Ids -> Statuses]
      BY <2>4, MarkType DEF ExecAgent, ExecApproval
    <3>2. runs' \in [Ids -> Nat]
      BY SMTT(20), <2>4 DEF ExecAgent, ExecApproval
    <3> QED
      BY <2>4, <3>1, <3>2 DEF ExecAgent, ExecApproval
  <2>5. CASE ExecLoop(n)
    BY <2>5, LoopNode, ResetType DEF ExecLoop
  <2> QED
    BY <2>1, <2>2, <2>3, <2>4, <2>5 DEF Execute
<1> QED
  BY <1>1, <1>2, <1>3 DEF Execute, FrameOK

-----------------------------------------------------------------------------
(* The frame on top of a well-typed stack is well typed.                    *)
LEMMA TopFrame ==
  ASSUME TypeOK, frames # <<>>
  PROVE  /\ Top \in FrameType
         /\ Top.loop \in Loops
         /\ Top.iter \in 1 .. Def.maxIterations[Top.loop]
         /\ FrameOK(Outer)
         /\ \A f \in FrameType :
              f.iter \in 1 .. Def.maxIterations[f.loop] => FrameOK(WithTop(f))
<1> USE DEF TypeOK
<1>1. Len(frames) \in DOMAIN frames /\ Len(frames) \in Nat
  OBVIOUS
<1>2. Top \in FrameType
  BY <1>1 DEF Top
<1>3. Top.loop \in Loops
  BY <1>2 DEF FrameType
<1>4. Top.iter \in 1 .. Def.maxIterations[Top.loop]
  BY <1>1 DEF Top
<1>5. FrameOK(Outer)
  BY <1>1 DEF Outer, FrameOK
<1>6. ASSUME NEW f \in FrameType, f.iter \in 1 .. Def.maxIterations[f.loop]
      PROVE  FrameOK(WithTop(f))
  BY <1>1, <1>6 DEF WithTop, FrameOK
<1> QED
  BY <1>2, <1>3, <1>4, <1>5, <1>6

(* The moves of the frame on top keep its type.                            *)
LEMMA TopMoves ==
  ASSUME TypeOK, frames # <<>>
  PROVE  /\ FrameOK(WithTop(AtPos(Top, Top.pos + 1, TRUE)))
         /\ FrameOK(WithTop(AtPos(Top, Top.pos + 1, Top.moved)))
         /\ FrameOK(WithTop(AtPos(Top, 1, FALSE)))
         /\ Top.iter < Def.maxIterations[Top.loop] => FrameOK(WithTop(Frame(Top.loop, Top.iter + 1)))
<1>1. Top \in FrameType /\ Top.loop \in Loops /\ Top.iter \in 1 .. Def.maxIterations[Top.loop]
  BY TopFrame
<1>2. Def.maxIterations[Top.loop] \in Nat
  BY <1>1, LoopBody
<1>3. ASSUME NEW f \in FrameType, f.iter \in 1 .. Def.maxIterations[f.loop]
      PROVE  FrameOK(WithTop(f))
  BY TopFrame, <1>3
<1>4. ASSUME NEW p \in Nat \ {0}, NEW m \in BOOLEAN
      PROVE  FrameOK(WithTop(AtPos(Top, p, m)))
  <2>1. AtPos(Top, p, m) \in FrameType /\ AtPos(Top, p, m).iter = Top.iter
        /\ AtPos(Top, p, m).loop = Top.loop
    BY <1>1 DEF AtPos, FrameType
  <2> QED
    BY <1>1, <1>3, <2>1
<1>5. Top.pos + 1 \in Nat \ {0} /\ 1 \in Nat \ {0} /\ Top.moved \in BOOLEAN
  BY <1>1 DEF FrameType
<1>6. /\ FrameOK(WithTop(AtPos(Top, Top.pos + 1, TRUE)))
      /\ FrameOK(WithTop(AtPos(Top, Top.pos + 1, Top.moved)))
      /\ FrameOK(WithTop(AtPos(Top, 1, FALSE)))
  BY <1>4, <1>5
<1>7. ASSUME Top.iter < Def.maxIterations[Top.loop]
      PROVE  FrameOK(WithTop(Frame(Top.loop, Top.iter + 1)))
  <2>1. Frame(Top.loop, Top.iter + 1) \in FrameType
        /\ Frame(Top.loop, Top.iter + 1).iter = Top.iter + 1
        /\ Frame(Top.loop, Top.iter + 1).loop = Top.loop
    BY <1>1 DEF Frame, FrameType
  <2>2. Top.iter + 1 \in 1 .. Def.maxIterations[Top.loop]
    BY <1>1, <1>2, <1>7
  <2> QED
    BY <1>3, <2>1, <2>2
<1> QED
  BY <1>6, <1>7

(* Every step of the engine and of its surroundings keeps the types.       *)
LEMMA TypeStep == TypeOK /\ [Next]_vars => TypeOK'
<1> SUFFICES ASSUME TypeOK, [Next]_vars PROVE TypeOK'
  OBVIOUS
<1> USE DEF TypeOK, nodeVars, controlVars
<1>1. ASSUME NEW n \in Ids, Visit(n) PROVE TypeOK'
  <2>1. FrameOK(frames) /\ todo \ {n} \in SUBSET Ids
    BY DEF FrameOK
  <2> QED
    BY <1>1, <2>1, ExecuteType DEF Visit
<1>2. ASSUME NEW n \in Ids, PassOver(n) PROVE TypeOK'
  BY <1>2 DEF PassOver
<1>3. ASSUME NEW n \in Ids, SkipOrDeadlock(n) PROVE TypeOK'
  BY <1>3 DEF SkipOrDeadlock, Mark, Statuses
<1>4. ASSUME EndWalk PROVE TypeOK'
  BY <1>4 DEF EndWalk, Candidates, Created
<1>5. ASSUME Return PROVE TypeOK'
  BY <1>5 DEF Return
<1>6. ASSUME BodyVisit PROVE TypeOK'
  <2>1. BodyNode \in Ids
    <3>1. Top.loop \in Loops /\ Top \in FrameType
      BY <1>6, TopFrame DEF BodyVisit, InBody
    <3>2. Def.body[Top.loop] \in Seq(Def.nodes) /\ Top.pos \in Nat \ {0}
      BY <3>1, LoopBody DEF FrameType
    <3>3. Top.pos \in 1 .. Len(Def.body[Top.loop])
      BY <1>6, <3>2 DEF BodyVisit
    <3> QED
      BY <3>2, <3>3, DefAssumption DEF BodyNode
  <2>2. FrameOK(WithTop(AtPos(Top, Top.pos + 1, TRUE)))
    BY <1>6, TopMoves DEF BodyVisit, InBody
  <2> QED
    BY <1>6, <2>1, <2>2, ExecuteType DEF BodyVisit
<1>7. ASSUME BodyPassOver PROVE TypeOK'
  BY <1>7, TopMoves DEF BodyPassOver, InBody, FrameOK
<1>8. ASSUME BodyAgain PROVE TypeOK'
  BY <1>8, TopMoves DEF BodyAgain, BodyWalked, InBody, FrameOK
<1>9. ASSUME LoopEnds PROVE TypeOK'
  <2>1. Top.loop \in Ids /\ FrameOK(Outer)
    BY <1>9, TopFrame, LoopBody DEF LoopEnds, BodyWalked, InBody
  <2>2. /\ \E s \in {"completed", "failed"} : Mark(Top.loop, s)
        /\ frames' = Outer
        /\ UNCHANGED <<approved, branch, attempts>>
    BY <1>9 DEF LoopEnds, LoopReturns
  <2>3. status' \in [Ids -> Statuses]
    BY <2>1, <2>2 DEF Mark, Statuses
  <2> QED
    BY <1>9, <2>1, <2>2, <2>3 DEF LoopEnds, FrameOK
<1>10. ASSUME LoopIterates PROVE TypeOK'
  <2>1. Top.loop \in Loops /\ FrameOK(WithTop(Frame(Top.loop, Top.iter + 1)))
    BY <1>10, TopFrame, TopMoves DEF LoopIterates, BodyWalked, InBody
  <2>2. /\ status' \in [Ids -> Statuses]
        /\ approved' \in [Ids -> BOOLEAN]
        /\ branch' \in [Ids -> Def.results \cup {None}]
        /\ attempts' \in [Ids -> Nat]
    BY <1>10, <2>1, ResetType DEF LoopIterates
  <2> QED
    BY <1>10, <2>1, <2>2 DEF LoopIterates, FrameOK
<1>11. ASSUME NEW n \in Ids, AgentSucceeds(n) PROVE TypeOK'
  BY <1>11 DEF AgentSucceeds, Mark, Statuses
<1>12. ASSUME NEW n \in Ids, AgentFails(n) PROVE TypeOK'
  <2>1. \E s \in Statuses : Mark(n, s)
    BY <1>12 DEF AgentFails, Statuses
  <2>2. status' \in [Ids -> Statuses]
    BY <2>1, MarkType
  <2>3. attempts' \in [Ids -> Nat]
    BY <1>12 DEF AgentFails
  <2>4. call' \in Ids \cup {None}
    BY <1>12 DEF AgentFails
  <2> QED
    BY <1>12, <2>2, <2>3, <2>4 DEF AgentFails
<1>13. ASSUME NEW n \in Ids, BackoffEnds(n) PROVE TypeOK'
  BY <1>13 DEF BackoffEnds, Mark, Statuses
<1>14. ASSUME NEW n \in Ids, GateReturns(n) PROVE TypeOK'
  <2>1. status' \in [Ids -> Statuses]
    BY <1>14, MarkType DEF GateReturns, Statuses
  <2>2. feedbackFor' \subseteq Ids
    BY <1>14, DefAssumption DEF GateReturns, EdgeType
  <2>3. approved' \in [Ids -> BOOLEAN]
    BY <1>14 DEF GateReturns
  <2> QED
    BY <1>14, <2>1, <2>2, <2>3 DEF GateReturns
<1>15. ASSUME NEW n \in Ids, GateCancelled(n) PROVE TypeOK'
  BY <1>15 DEF GateCancelled, Mark, Statuses
<1>16. ASSUME NEW n \in Ids, NEW d \in {"approved", "rejected"}, Decide(n, d) PROVE TypeOK'
  BY <1>16 DEF Decide
<1>17. ASSUME Cancel PROVE TypeOK'
  BY <1>17 DEF Cancel
<1>18. ASSUME UNCHANGED vars PROVE TypeOK'
  BY <1>18 DEF vars
<1> QED
  BY <1>1, <1>2, <1>3, <1>4, <1>5, <1>6, <1>7, <1>8, <1>9, <1>10, <1>11, <1>12, <1>13,
     <1>14, <1>15, <1>16, <1>17, <1>18 DEF Next, Walk, Body, Returns, Idle

(***************************************************************************)
(* The engine's fields keep their types whatever the workflow definition.  *)
(***************************************************************************)
THEOREM TypeCorrect == Spec => []TypeOK
<1>1. ASSUME Init PROVE TypeOK
  <2>1. frames = <<>> /\ frames \in Seq(FrameType) /\ DOMAIN frames = {}
    BY <1>1 DEF Init
  <2>2. status \in [Ids -> Statuses] /\ todo \subseteq Ids
    BY <1>1, DefAssumption DEF Init, Statuses
  <2> QED
    BY <1>1, <2>1, <2>2 DEF Init, TypeOK
<1> QED
  BY <1>1, TypeStep, PTL DEF Spec

-----------------------------------------------------------------------------
(***************************************************************************)
(* A depth that grows from every loop to the loops in its body.            *)
(***************************************************************************)
Depth == CHOOSE d \in [Loops -> 0 .. Cardinality(Loops)] : NestingDepth(d)

(* No loop is in its own body, and an inner loop is deeper than its outer. *)
LEMMA DepthFact ==
  /\ \A l \in Loops : l \notin BodySet(l)
  /\ \A l \in Loops : \A m \in Loops \cap BodySet(l) : Depth[l] < Depth[m]
  /\ \A l \in Loops : Depth[l] \in Nat
<1>1. \E d \in [Loops -> 0 .. Cardinality(Loops)] : NestingDepth(d)
  BY DefAssumption
<1>2. Depth \in [Loops -> 0 .. Cardinality(Loops)] /\ NestingDepth(Depth)
  BY <1>1 DEF Depth
<1>3. \A l \in Loops : Depth[l] \in Nat
  BY <1>2
<1>4. \A l \in Loops : \A m \in Loops \cap BodySet(l) : Depth[l] < Depth[m]
  BY <1>2 DEF NestingDepth
<1>5. \A l \in Loops : l \notin BodySet(l)
  BY <1>3, <1>4
<1> QED
  BY <1>3, <1>4, <1>5

(* The loops on the engine's call stack are running, deeper ones on top,   *)
(* and what blocks the engine is an agent or a gate.                       *)
StackOK ==
  /\ \A i \in DOMAIN frames : status[frames[i].loop] = "running"
  /\ \A i, j \in DOMAIN frames : i < j => Depth[frames[i].loop] < Depth[frames[j].loop]
  /\ call # None => Def.kind[call] \in {"agent", "human_approval"}

(***************************************************************************)
(* The inductive invariant.                                                *)
(***************************************************************************)
IInv == TypeOK /\ StartedJustified /\ JoinSound /\ StackOK

(* The edges of the graph are the definition's and the clones'.              *)
LEMMA EdgeShape ==
  ASSUME NEW e \in Edges
  PROVE  /\ e.from \in Ids
         /\ e.to \in Ids
         /\ e.from # e.to
         /\ \/ e \in Def.edges /\ e.from \in Def.nodes /\ e.to \in Def.nodes
            \/ \E f \in Forks : \E c \in CloneSet(f) \cap Created :
                 e = Edge(f, c) \/ \E j \in JoinOf(f) : e = Edge(c, j)
<1>1. CASE e \in Def.edges
  BY <1>1, DefAssumption
<1>2. CASE e \in CloneEdges
  <2>1. PICK f \in Forks : \E c \in CloneSet(f) \cap Created :
          e = Edge(f, c) \/ \E j \in JoinOf(f) : e = Edge(c, j)
    BY <1>2 DEF CloneEdges
  <2>2. PICK c \in CloneSet(f) \cap Created : e = Edge(f, c) \/ \E j \in JoinOf(f) : e = Edge(c, j)
    BY <2>1
  <2>3. f \in Def.nodes /\ f \in Ids /\ Def.clones[f] \in Seq(Ids \ Def.nodes)
    BY DefAssumption DEF Forks
  <2>4. c \in Ids \ Def.nodes
    BY <2>2, <2>3 DEF CloneSet
  <2>5. \A j \in JoinOf(f) : j \in Def.nodes /\ j \in Ids
    BY DefAssumption DEF JoinOf, JoinTargets
  <2> QED
    BY <2>2, <2>3, <2>4, <2>5 DEF Edge
<1> QED
  BY <1>1, <1>2 DEF Edges

(* Clones are agents and no part of the definition. *)
LEMMA CloneShape ==
  ASSUME NEW f \in Forks, NEW c \in CloneSet(f)
  PROVE  c \in Ids \ Def.nodes /\ Def.kind[c] = "agent"
<1>1. Def.clones[f] \in Seq(Ids \ Def.nodes)
  BY DefAssumption DEF Forks
<1> QED
  BY <1>1, DefAssumption DEF CloneSet

(* No clone is a join.                                                       *)
LEMMA JoinNotClone ==
  ASSUME NEW j \in Ids, Def.kind[j] = "join"
  PROVE  j \notin LoopClones
BY CloneShape DEF LoopClones

(* Only the creation of clones changes the graph. *)
LEMMA EdgesStay ==
  ASSUME \A f \in Forks : CloneSet(f) \cap Created' = CloneSet(f) \cap Created
  PROVE  Edges' = Edges
BY DEF Edges, CloneEdges

(* An edge holds as long as its source keeps its status and its output.     *)
LEMMA HoldsStays ==
  ASSUME NEW e, Edges' = Edges,
         status'[e.from] = status[e.from],
         approved'[e.from] = approved[e.from], branch'[e.from] = branch[e.from]
  PROVE  Holds(e)' = Holds(e)
BY DEF Holds, EdgeActive, EdgeConditionHolds

(***************************************************************************)
(* A step that changes one unsettled node keeps every justification: no    *)
(* node behind it was started.                                             *)
(***************************************************************************)
LEMMA OneNode ==
  ASSUME TypeOK, StartedJustified, JoinSound,
         NEW n \in Ids, ~Terminal(status[n]), status[n] # "absent",
         NEW s \in Statuses \ {"absent"}, Mark(n, s),
         \A m \in Ids \ {n} : approved'[m] = approved[m] /\ branch'[m] = branch[m],
         Ready(n) \/ Started(n) \/ s \in {"pending", "skipped"},
         Def.kind[n] = "join" /\ s = "completed" =>
           \A e \in Edges : e.to = n => status[e.from] \in {"completed", "skipped"}
  PROVE  StartedJustified' /\ JoinSound'
<1>1. status'[n] = s /\ \A m \in Ids \ {n} : status'[m] = status[m]
  BY DEF Mark, TypeOK
<1>2. Created' = Created
  BY <1>1 DEF Created
<1>3. Edges' = Edges
  BY <1>2, EdgesStay
<1>4. ASSUME NEW e \in Edges, e.from # n
      PROVE  status'[e.from] = status[e.from] /\ Holds(e)' = Holds(e)
  BY <1>1, <1>3, <1>4, EdgeShape, HoldsStays
<1>5. ASSUME NEW e \in Edges, Started(e.to)', e.to \notin LoopClones
      PROVE  /\ e.from # n
             /\ Terminal(status[e.from])
             /\ Def.kind[e.to] # "join" => Holds(e)
  <2>1. CASE e.to = n
    <3>1. e.from # n
      BY <2>1, EdgeShape
    <3>2. Ready(n) \/ Started(n)
      BY <1>1, <1>5, <2>1 DEF Started
    <3> QED
      BY <1>5, <2>1, <3>1, <3>2 DEF Ready, StartedJustified
  <2>2. CASE e.to # n
    <3>1. Started(e.to)
      BY <1>1, <1>5, <2>2, EdgeShape DEF Started
    <3> QED
      BY <1>5, <3>1 DEF StartedJustified
  <2> QED
    BY <2>1, <2>2
<1>6. StartedJustified'
  BY <1>3, <1>4, <1>5 DEF StartedJustified
<1>7. ASSUME NEW j \in Ids, Def.kind[j] = "join", status'[j] = "completed",
             NEW e \in Edges, e.to = j
      PROVE  status'[e.from] \in {"completed", "skipped"}
  <2>1. j \notin LoopClones
    BY <1>7, JoinNotClone
  <2>2. e.from # n /\ status'[e.from] = status[e.from]
    BY <1>4, <1>5, <1>7, <2>1 DEF Started
  <2>3. CASE j = n
    BY <1>1, <1>7, <2>2, <2>3
  <2>4. CASE j # n
    BY <1>1, <1>7, <2>2, <2>4 DEF JoinSound
  <2> QED
    BY <2>3, <2>4
<1>8. JoinSound'
  BY <1>3, <1>7 DEF JoinSound
<1> QED
  BY <1>6, <1>8

(***************************************************************************)
(* A fork that expands: its clones start afresh, and the join behind them  *)
(* had not started, because the fork itself was not settled.               *)
(***************************************************************************)
LEMMA ExpandKeeps ==
  ASSUME TypeOK, StartedJustified, JoinSound,
         NEW n \in Forks, n \in Ids, Ready(n), NEW new \in SUBSET CloneSet(n), Expand(n, new)
  PROVE  StartedJustified' /\ JoinSound'
<1>1. n \in Def.nodes /\ n \notin new /\ ~Terminal(status[n]) /\ status[n] = "pending"
      /\ Def.kind[n] = "parallel_fork"
  BY CloneShape DEF Forks, Ready, Terminal
<1>2. /\ \A m \in Ids \ (new \cup {n}) : /\ status'[m] = status[m]
                                        /\ approved'[m] = approved[m]
                                        /\ branch'[m] = branch[m]
      /\ \A m \in new : status'[m] = "pending"
      /\ status'[n] = "completed" /\ approved'[n] = approved[n] /\ branch'[n] = branch[n]
  BY <1>1, CloneShape DEF Expand
<1>3. Created' = Created \cup new
  BY <1>1, <1>2, CloneShape DEF Created
<1>4. ASSUME NEW e \in Edges'
      PROVE  e \in Edges \/ e.to \in new \/ (e.from \in new /\ e.to \in JoinOf(n))
  <2>1. CASE e \in Def.edges
    BY <2>1 DEF Edges
  <2>2. CASE e \in CloneEdges'
    <3>1. PICK f \in Forks : \E c \in CloneSet(f) \cap Created' :
            e = Edge(f, c) \/ \E j \in JoinOf(f) : e = Edge(c, j)
      BY <2>2 DEF CloneEdges
    <3>2. PICK c \in CloneSet(f) \cap Created' :
            e = Edge(f, c) \/ \E j \in JoinOf(f) : e = Edge(c, j)
      BY <3>1
    <3>3. CASE c \in Created
      BY <3>2, <3>3 DEF Edges, CloneEdges
    <3>4. CASE c \in new
      <4>1. f = n
        BY <3>2, <3>4, DefAssumption
      <4> QED
        BY <3>2, <3>4, <4>1 DEF Edge
    <3> QED
      BY <1>3, <3>2, <3>3, <3>4
  <2> QED
    BY <2>1, <2>2 DEF Edges
<1>5. Edges \subseteq Edges'
  BY <1>3 DEF Edges, CloneEdges
<1>6. \A j \in JoinOf(n) : ~Started(j)
  <2> SUFFICES ASSUME NEW j \in JoinOf(n) PROVE ~Started(j)
    OBVIOUS
  <2>1. PICK e \in Def.edges : e.from = n /\ e.to = j
    BY DEF JoinOf, JoinTargets
  <2>2. j \in Ids /\ j \notin LoopClones
    BY JoinNotClone, DefAssumption DEF JoinOf, JoinTargets
  <2> QED
    BY <1>1, <2>1, <2>2 DEF StartedJustified, Edges
<1>7. \A e \in Edges : e.from \in new => e.to \in JoinOf(n)
  <2> SUFFICES ASSUME NEW e \in Edges, e.from \in new PROVE e.to \in JoinOf(n)
    OBVIOUS
  <2>1. e.from \notin Def.nodes
    BY CloneShape
  <2>2. PICK f \in Forks : \E c \in CloneSet(f) \cap Created :
          e = Edge(f, c) \/ \E j \in JoinOf(f) : e = Edge(c, j)
    BY <2>1, EdgeShape
  <2>3. PICK c \in CloneSet(f) : e = Edge(f, c) \/ \E j \in JoinOf(f) : e = Edge(c, j)
    BY <2>2
  <2>4. f \in Def.nodes
    BY DEF Forks
  <2>5. e.from = c /\ e.to \in JoinOf(f)
    BY <2>1, <2>3, <2>4 DEF Edge
  <2>6. f = n
    BY <2>5, DefAssumption
  <2> QED
    BY <2>5, <2>6
<1>8. ASSUME NEW e \in Edges', Started(e.to)', e.to \notin LoopClones
      PROVE  /\ e \in Edges
             /\ e.from # n /\ e.from \notin new /\ e.from \in Ids /\ e.to \in Ids
             /\ Terminal(status[e.from])
             /\ Def.kind[e.to] # "join" => Holds(e)
             /\ e.to # n => Started(e.to) /\ status'[e.to] = status[e.to]
  <2>1. e.to \notin new
    BY <1>2, <1>8 DEF Started
  <2>2. e.to \in Ids /\ (e.to # n => Started(e.to) /\ status'[e.to] = status[e.to])
    <3>1. e.to \in Ids
      <4>1. CASE e \in Edges
        BY <4>1, EdgeShape
      <4>2. CASE e.to \in JoinOf(n)
        BY <4>2, DefAssumption DEF JoinOf, JoinTargets
      <4> QED
        BY <1>4, <2>1, <4>1, <4>2
    <3> QED
      BY <1>2, <1>8, <2>1, <3>1 DEF Started
  <2>3. e.to \notin JoinOf(n)
    BY <1>1, <1>6, <2>2 DEF JoinOf, JoinTargets
  <2>4. e \in Edges /\ e.from \notin new /\ e.from \in Ids /\ e.from # e.to
    BY <1>4, <1>7, <2>1, <2>3, EdgeShape
  <2>5. CASE e.to = n
    BY <2>2, <2>4, <2>5 DEF Ready
  <2>6. CASE e.to # n
    BY <1>1, <1>8, <2>2, <2>4, <2>6 DEF StartedJustified
  <2> QED
    BY <2>2, <2>4, <2>5, <2>6
<1>9. ASSUME NEW e \in Edges, e.from \in Ids, e.from # n, e.from \notin new
      PROVE  status'[e.from] = status[e.from] /\ (Holds(e) => Holds(e)')
  <2>1. \A o \in Edges' : o.from = e.from /\ o.key # None => o \in Edges
    <3> SUFFICES ASSUME NEW o \in Edges', o.key # None PROVE o \in Edges
      OBVIOUS
    <3> QED
      BY DEF Edges, CloneEdges, Edge
  <2> QED
    BY <1>2, <1>9, <2>1 DEF Holds, EdgeActive, EdgeConditionHolds
<1>10. StartedJustified'
  BY <1>8, <1>9 DEF StartedJustified
<1>11. JoinSound'
  <2> SUFFICES ASSUME NEW j \in Ids, Def.kind[j] = "join", status'[j] = "completed",
                      NEW e \in Edges', e.to = j
               PROVE  status'[e.from] \in {"completed", "skipped"}
    BY DEF JoinSound
  <2>1. e \in Edges /\ e.from # n /\ e.from \notin new /\ e.from \in Ids /\ status[j] = "completed"
    BY <1>1, <1>8, JoinNotClone DEF Started
  <2> QED
    BY <1>9, <2>1 DEF JoinSound
<1> QED
  BY <1>10, <1>11

(***************************************************************************)
(* A loop that starts an iteration: whatever its body leads to is in the   *)
(* body, and goes back to pending with it.                                 *)
(***************************************************************************)
LEMMA ResetKeeps ==
  ASSUME TypeOK, StartedJustified, JoinSound,
         NEW l \in Loops, ~Terminal(status[l]), Ready(l) \/ Started(l), ResetBody(l)
  PROVE  StartedJustified' /\ JoinSound'
<1>1. l \in Ids /\ l \in Def.nodes /\ l \notin BodySet(l) /\ BodySet(l) \subseteq Def.nodes
      /\ Def.kind[l] = "loop"
  BY DepthFact, LoopBody DEF Loops
<1>2. /\ \A m \in Ids \ (BodySet(l) \cup {l}) : /\ status'[m] = status[m]
                                               /\ approved'[m] = approved[m]
                                               /\ branch'[m] = branch[m]
      /\ \A m \in BodySet(l) : status'[m] = "pending"
      /\ status'[l] = "running"
  BY <1>1, DefAssumption DEF ResetBody
<1>3. Edges' = Edges
  <2>1. \A f \in Forks : CloneSet(f) \cap Created' = CloneSet(f) \cap Created
    BY <1>1, <1>2, CloneShape DEF Created
  <2> QED
    BY <2>1, EdgesStay
<1>4. ASSUME NEW e \in Edges, e.from \in BodySet(l), e.to \notin BodySet(l)
      PROVE  e.to \in LoopClones
  <2>1. e.from \in Def.nodes /\ e \notin Def.edges
    BY <1>1, <1>4, DefAssumption
  <2>2. PICK f \in Forks : \E c \in CloneSet(f) \cap Created :
          e = Edge(f, c) \/ \E j \in JoinOf(f) : e = Edge(c, j)
    BY <2>1, EdgeShape
  <2>3. PICK c \in CloneSet(f) : e = Edge(f, c) \/ \E j \in JoinOf(f) : e = Edge(c, j)
    BY <2>2
  <2>4. e.from = f /\ e.to = c
    BY <2>1, <2>3, CloneShape DEF Edge
  <2> QED
    BY <1>4, <2>3, <2>4 DEF LoopClones, LoopBodies
<1>5. ASSUME NEW e \in Edges, Started(e.to)', e.to \notin LoopClones
      PROVE  /\ e.from \notin BodySet(l) /\ e.from # l /\ e.from \in Ids
             /\ Terminal(status[e.from])
             /\ Def.kind[e.to] # "join" => Holds(e)
             /\ e.to # l => status'[e.to] = status[e.to]
  <2>1. e.to \notin BodySet(l)
    BY <1>2, <1>5 DEF Started
  <2>2. e.from \notin BodySet(l) /\ e.from \in Ids /\ e.to \in Ids /\ e.from # e.to
    BY <1>4, <1>5, <2>1, EdgeShape
  <2>3. Started(e.to) \/ Ready(e.to)
    BY <1>2, <1>5, <2>1, <2>2 DEF Started
  <2>4. Terminal(status[e.from]) /\ (Def.kind[e.to] # "join" => Holds(e))
    BY <1>5, <2>3 DEF StartedJustified, Ready
  <2> QED
    BY <1>2, <2>1, <2>2, <2>4
<1>6. ASSUME NEW e \in Edges, Started(e.to)', e.to \notin LoopClones
      PROVE  status'[e.from] = status[e.from] /\ Holds(e)' = Holds(e)
  BY <1>2, <1>3, <1>5, <1>6, HoldsStays
<1>7. StartedJustified'
  BY <1>3, <1>5, <1>6 DEF StartedJustified
<1>8. JoinSound'
  <2> SUFFICES ASSUME NEW j \in Ids, Def.kind[j] = "join", status'[j] = "completed",
                      NEW e \in Edges, e.to = j
               PROVE  status'[e.from] \in {"completed", "skipped"}
    BY <1>3 DEF JoinSound
  <2>1. j \notin LoopClones /\ Started(e.to)' /\ j # l
    BY <1>1, JoinNotClone DEF Started
  <2>2. status[j] = "completed"
    BY <1>5, <2>1
  <2> QED
    BY <1>6, <2>1, <2>2 DEF JoinSound
<1> QED
  BY <1>7, <1>8

-----------------------------------------------------------------------------
(* execute() of a ready node, whatever its type.                           *)
LEMMA ExecuteKeeps ==
  ASSUME TypeOK, StartedJustified, JoinSound, NEW n \in Ids, NEW rest, NEW fr,
         Ready(n), Execute(n, rest, fr)
  PROVE  StartedJustified' /\ JoinSound'
<1>1. status[n] = "pending" /\ ~Terminal(status[n]) /\ status[n] # "absent"
  BY DEF Ready, Terminal
<1>2. ASSUME NEW s \in {"running", "completed", "failed", "waiting_approval"}, Mark(n, s),
             UNCHANGED <<approved, branch>>, Def.kind[n] # "join" \/ s # "completed"
      PROVE  StartedJustified' /\ JoinSound'
  BY <1>1, <1>2, OneNode DEF Statuses
<1>3. CASE ExecTrigger(n) \/ ExecTransform(n) \/ ExecSubworkflow(n) \/ ExecAgent(n) \/ ExecApproval(n)
  BY <1>2, <1>3 DEF ExecTrigger, ExecTransform, ExecSubworkflow, ExecAgent, ExecApproval
<1>4. CASE ExecCondition(n)
  <2>1. PICK s \in {"completed", "failed"} : Mark(n, s)
    BY <1>4 DEF ExecCondition
  <2>2. \A m \in Ids \ {n} : approved'[m] = approved[m] /\ branch'[m] = branch[m]
    BY <1>4 DEF ExecCondition, TypeOK
  <2> QED
    BY <1>1, <1>4, <2>1, <2>2, OneNode DEF ExecCondition, Statuses
<1>5. CASE ExecJoin(n)
  <2>1. CASE \E e \in Edges : e.to = n /\ status[e.from] = "failed"
    BY <1>2, <1>5, <2>1 DEF ExecJoin
  <2>2. CASE ~\E e \in Edges : e.to = n /\ status[e.from] = "failed"
    <3>1. Mark(n, "completed") /\ UNCHANGED <<approved, branch>>
      BY <1>5, <2>2 DEF ExecJoin
    <3>2. \A e \in Edges : e.to = n => status[e.from] \in {"completed", "skipped"}
      BY <2>2 DEF Ready, Terminal
    <3> QED
      BY <1>1, <3>1, <3>2, OneNode DEF Statuses
  <2> QED
    BY <2>1, <2>2
<1>6. CASE ExecFork(n)
  <2>1. n \in Forks /\ Def.clones[n] \in Seq(Ids)
    BY <1>6, ForkNode DEF ExecFork
  <2>2. CASE Mark(n, "failed") /\ UNCHANGED <<approved, branch, attempts>>
    BY <1>2, <2>2
  <2>3. CASE \E k \in 0 .. Len(Def.clones[n]) : Expand(n, {Def.clones[n][i] : i \in 1 .. k})
    <3>1. PICK k \in 0 .. Len(Def.clones[n]) : Expand(n, {Def.clones[n][i] : i \in 1 .. k})
      BY <2>3
    <3>2. {Def.clones[n][i] : i \in 1 .. k} \subseteq CloneSet(n)
      BY <2>1 DEF CloneSet
    <3> QED
      BY <2>1, <3>1, <3>2, ExpandKeeps
  <2> QED
    BY <1>6, <2>2, <2>3 DEF ExecFork
<1>7. CASE ExecLoop(n)
  <2>1. n \in Loops
    BY <1>7, LoopNode DEF ExecLoop
  <2> QED
    BY <1>1, <1>7, <2>1, ResetKeeps DEF ExecLoop
<1> QED
  BY <1>3, <1>4, <1>5, <1>6, <1>7 DEF Execute

(* The loops on a well-typed stack are loop nodes.                         *)
LEMMA StackLoops ==
  ASSUME NEW fr, fr \in Seq(FrameType)
  PROVE  /\ DOMAIN fr = 1 .. Len(fr) /\ Len(fr) \in Nat
         /\ \A i \in DOMAIN fr : /\ fr[i] \in FrameType
                               /\ fr[i].loop \in Loops /\ fr[i].loop \in Ids
                               /\ Def.kind[fr[i].loop] = "loop"
<1>1. DOMAIN fr = 1 .. Len(fr) /\ Len(fr) \in Nat
  OBVIOUS
<1>2. ASSUME NEW i \in DOMAIN fr PROVE fr[i] \in FrameType
  BY <1>1
<1>3. ASSUME NEW i \in DOMAIN fr PROVE fr[i].loop \in Loops
  BY <1>2 DEF FrameType
<1>4. \A l \in Loops : l \in Ids /\ Def.kind[l] = "loop"
  BY LoopBody, DefAssumption DEF Loops
<1> QED
  BY <1>1, <1>2, <1>3, <1>4

(* A node that is not running is not on the call stack, and executing it   *)
(* leaves the loops on the stack running.                                  *)
LEMMA ExecuteStack ==
  ASSUME TypeOK, StackOK, NEW n \in Ids, NEW rest, NEW fr, FrameOK(fr), Ready(n), Execute(n, rest, fr),
         Len(fr) = Len(frames), \A i \in DOMAIN fr : fr[i].loop = frames[i].loop,
         frames # <<>> => n \in BodySet(Top.loop)
  PROVE  StackOK'
<1>1. status[n] = "pending"
  BY DEF Ready
<1>2. /\ DOMAIN fr = DOMAIN frames
      /\ \A i \in DOMAIN frames : frames[i].loop \in Loops /\ frames[i].loop \in Ids
      /\ DOMAIN fr = 1 .. Len(fr) /\ Len(fr) \in Nat
  BY StackLoops DEF FrameOK, TypeOK
<1>3. \A i \in DOMAIN frames : status[frames[i].loop] = "running" /\ frames[i].loop # n
  BY <1>1 DEF StackOK
<1>4. CASE Def.kind[n] # "loop"
  <2>1. frames' = fr
    BY <1>4 DEF Execute
  <2>2. \A m \in Ids \ {n} : status[m] = "running" /\ Def.kind[m] = "loop" => status'[m] = "running"
    <3>1. CASE \E s \in Statuses : Mark(n, s)
      BY <3>1 DEF Mark, TypeOK
    <3>2. CASE ExecFork(n)
      <4>1. n \in Forks /\ Def.clones[n] \in Seq(Ids)
        BY <3>2, ForkNode DEF ExecFork
      <4>2. CASE Mark(n, "failed")
        BY <3>1, <4>2 DEF Statuses
      <4>3. CASE \E k \in 0 .. Len(Def.clones[n]) : Expand(n, {Def.clones[n][i] : i \in 1 .. k})
        <5>1. PICK k \in 0 .. Len(Def.clones[n]) : Expand(n, {Def.clones[n][i] : i \in 1 .. k})
          BY <4>3
        <5>2. {Def.clones[n][i] : i \in 1 .. k} \subseteq CloneSet(n)
          BY <4>1 DEF CloneSet
        <5>3. \A m \in Ids : Def.kind[m] = "loop" => m \notin {Def.clones[n][i] : i \in 1 .. k}
          BY <4>1, <5>2, CloneShape
        <5> QED
          BY <5>1, <5>3 DEF Expand
      <4> QED
        BY <3>2, <4>2, <4>3 DEF ExecFork
    <3>3. CASE ExecTrigger(n) \/ ExecTransform(n) \/ ExecSubworkflow(n) \/ ExecCondition(n)
               \/ ExecJoin(n) \/ ExecAgent(n) \/ ExecApproval(n)
      BY <3>1, <3>3 DEF ExecTrigger, ExecTransform, ExecSubworkflow, ExecCondition, ExecJoin,
                        ExecAgent, ExecApproval, Statuses
    <3> QED
      BY <1>4, <3>2, <3>3 DEF Execute, ExecLoop
  <2>3. call' # None => Def.kind[call'] \in {"agent", "human_approval"}
    BY <1>4 DEF Execute, ExecTrigger, ExecTransform, ExecSubworkflow, ExecCondition, ExecFork,
                ExecJoin, ExecAgent, ExecApproval, ExecLoop, StackOK
  <2>4. \A i \in DOMAIN frames : Def.kind[frames[i].loop] = "loop"
    BY <1>2 DEF Loops
  <2> QED
    BY <1>2, <1>3, <2>1, <2>2, <2>3, <2>4 DEF StackOK
<1>5. CASE Def.kind[n] = "loop"
  <2>1. n \in Loops /\ n \notin BodySet(n)
    BY <1>5, LoopNode, DepthFact
  <2>2. frames' = Append(fr, Frame(n, 1)) /\ ResetBody(n) /\ call' = call
    BY <1>5 DEF Execute, ExecLoop, ExecTrigger, ExecTransform, ExecSubworkflow, ExecCondition,
                ExecFork, ExecJoin, ExecAgent, ExecApproval
  <2>3. /\ Len(frames') = Len(fr) + 1
        /\ DOMAIN frames' = 1 .. (Len(fr) + 1)
        /\ frames'[Len(fr) + 1].loop = n
        /\ \A i \in 1 .. Len(fr) : frames'[i].loop = frames[i].loop
    BY <1>2, <2>2 DEF Frame, FrameOK
  <2>4. \A i \in DOMAIN frames : Depth[frames[i].loop] < Depth[n]
    <3> SUFFICES ASSUME NEW i \in DOMAIN frames PROVE Depth[frames[i].loop] < Depth[n]
      OBVIOUS
    <3>1. frames # <<>> /\ Len(frames) \in DOMAIN frames /\ Top.loop = frames[Len(frames)].loop
      BY <1>2 DEF Top, TypeOK
    <3>2. Depth[Top.loop] < Depth[n]
      BY <1>2, <2>1, <3>1, DepthFact
    <3>3. i = Len(frames) \/ Depth[frames[i].loop] < Depth[Top.loop]
      BY <1>2, <3>1 DEF StackOK
    <3> QED
      BY <1>2, <2>1, <3>1, <3>2, <3>3, DepthFact
  <2>5. \A i \in DOMAIN frames : frames[i].loop \notin BodySet(n)
    BY <1>2, <2>1, <2>4, DepthFact
  <2>6. status'[n] = "running" /\ \A i \in DOMAIN frames : status'[frames[i].loop] = "running"
    BY <1>2, <1>3, <2>2, <2>5 DEF ResetBody
  <2> QED
    BY <1>2, <2>2, <2>3, <2>4, <2>6 DEF StackOK
<1> QED
  BY <1>4, <1>5

(* A step that leaves the stack alone and marks no loop on it.             *)
LEMMA MarkStack ==
  ASSUME TypeOK, StackOK, NEW n \in Ids, NEW s \in Statuses, Mark(n, s),
         status[n] # "running" \/ Def.kind[n] # "loop", UNCHANGED frames,
         call' \in {call, None}
  PROVE  StackOK'
<1>1. \A i \in DOMAIN frames : frames[i].loop \in Ids /\ Def.kind[frames[i].loop] = "loop"
  BY StackLoops DEF TypeOK
<1>2. \A i \in DOMAIN frames : frames[i].loop # n
  BY <1>1 DEF StackOK
<1> QED
  BY <1>1, <1>2 DEF StackOK, Mark, TypeOK

(* A step that neither touches the nodes nor the stack.                    *)
LEMMA StutterKeeps ==
  ASSUME IInv, UNCHANGED <<status, approved, branch, call>>,
         DOMAIN frames' = DOMAIN frames, \A i \in DOMAIN frames : frames'[i].loop = frames[i].loop
  PROVE  StartedJustified' /\ JoinSound' /\ StackOK'
<1>1. Edges' = Edges
  BY EdgesStay DEF Created
<1>2. \A e \in Edges : Holds(e)' = Holds(e)
  BY <1>1, HoldsStays
<1>3. StartedJustified' /\ JoinSound'
  BY <1>1, <1>2 DEF IInv, StartedJustified, JoinSound, Started
<1>4. StackOK'
  BY DEF IInv, StackOK
<1> QED
  BY <1>3, <1>4

(* A call that comes back, or a node that is skipped.                      *)
LEMMA ReturnKeeps ==
  ASSUME IInv, NEW n \in Ids, status[n] \in {"pending", "running", "waiting_approval", "retrying"},
         NEW s \in {"pending", "retrying", "completed", "failed", "skipped"}, Mark(n, s),
         \A m \in Ids \ {n} : approved'[m] = approved[m] /\ branch'[m] = branch[m],
         status[n] = "pending" => s = "skipped",
         Def.kind[n] = "join" => s # "completed",
         status[n] # "running" \/ Def.kind[n] # "loop",
         UNCHANGED frames, call' \in {call, None}
  PROVE  StartedJustified' /\ JoinSound' /\ StackOK'
<1>1. s \in Statuses \ {"absent"} /\ s \in Statuses
  BY DEF Statuses
<1>2. ~Terminal(status[n]) /\ status[n] # "absent"
  BY DEF Terminal
<1>3. Started(n) \/ s = "skipped"
  BY DEF Started
<1>4. StartedJustified' /\ JoinSound'
  BY <1>1, <1>2, <1>3, OneNode DEF IInv
<1>5. StackOK'
  BY <1>1, MarkStack DEF IInv
<1> QED
  BY <1>4, <1>5

(***************************************************************************)
(* One step per action.                                                    *)
(***************************************************************************)
LEMMA IInvStep == IInv /\ [Next]_vars => IInv'
<1> SUFFICES ASSUME IInv, [Next]_vars PROVE StartedJustified' /\ JoinSound' /\ StackOK'
  BY TypeStep DEF IInv
<1> DEFINE Good == StartedJustified' /\ JoinSound' /\ StackOK'
<1>1. ASSUME NEW n \in Ids, Visit(n) PROVE Good
  <2>1. FrameOK(frames)
    BY DEF IInv, TypeOK, FrameOK
  <2>2. Ready(n) /\ Execute(n, todo \ {n}, frames) /\ frames = <<>>
    BY <1>1 DEF Visit, InMain
  <2>3. StartedJustified' /\ JoinSound'
    BY <2>2, ExecuteKeeps DEF IInv
  <2>4. StackOK'
    BY <2>1, <2>2, ExecuteStack DEF IInv
  <2> QED
    BY <2>3, <2>4
<1>2. ASSUME NEW n \in Ids, PassOver(n) PROVE Good
  BY <1>2, StutterKeeps DEF PassOver, nodeVars
<1>3. ASSUME NEW n \in Ids, SkipOrDeadlock(n) PROVE Good
  <2>1. CASE Mark(n, "skipped")
    BY <1>3, <2>1, ReturnKeeps DEF SkipOrDeadlock, Schedulable
  <2>2. CASE UNCHANGED status
    BY <1>3, <2>2, StutterKeeps DEF SkipOrDeadlock
  <2> QED
    BY <1>3, <2>1, <2>2 DEF SkipOrDeadlock
<1>4. ASSUME EndWalk \/ Return PROVE Good
  BY <1>4, StutterKeeps DEF EndWalk, Return, nodeVars
<1>5. ASSUME BodyVisit PROVE Good
  <2> DEFINE fr == WithTop(AtPos(Top, Top.pos + 1, TRUE))
  <2>1. frames # <<>> /\ Ready(BodyNode) /\ Execute(BodyNode, todo, fr)
        /\ Top.pos <= Len(Def.body[Top.loop])
    BY <1>5 DEF BodyVisit, InBody
  <2>2. Top \in FrameType /\ Top.loop \in Loops /\ FrameOK(fr)
    BY <2>1, TopFrame, TopMoves DEF IInv
  <2>3. BodyNode \in BodySet(Top.loop) /\ BodyNode \in Ids
    <3>1. Def.body[Top.loop] \in Seq(Def.nodes) /\ Top.pos \in Nat \ {0}
      BY <2>2, LoopBody DEF FrameType
    <3>2. Top.pos \in DOMAIN Def.body[Top.loop]
      BY <2>1, <3>1
    <3> QED
      BY <3>1, <3>2, DefAssumption DEF BodyNode, BodySet
  <2>4. Len(fr) = Len(frames) /\ \A i \in DOMAIN fr : fr[i].loop = frames[i].loop
    <3>1. frames \in Seq(FrameType)
      BY DEF IInv, TypeOK
    <3>2. AtPos(Top, Top.pos + 1, TRUE).loop = Top.loop
      BY DEF AtPos
    <3>3. Len(fr) = Len(frames) /\ DOMAIN fr = DOMAIN frames
      BY <3>1 DEF WithTop
    <3>4. ASSUME NEW i \in DOMAIN fr PROVE fr[i].loop = frames[i].loop
      <4>1. CASE i = Len(frames)
        BY <3>2, <3>3, <4>1 DEF WithTop, Top
      <4>2. CASE i # Len(frames)
        BY <3>3, <4>2 DEF WithTop
      <4> QED
        BY <4>1, <4>2
    <3> QED
      BY <3>3, <3>4
  <2>5. StartedJustified' /\ JoinSound'
    BY <2>1, <2>3, ExecuteKeeps DEF IInv
  <2>6. StackOK'
    BY <2>1, <2>2, <2>3, <2>4, ExecuteStack DEF IInv
  <2> QED
    BY <2>5, <2>6
<1>6. ASSUME BodyPassOver \/ BodyAgain PROVE Good
  <2>1. frames \in Seq(FrameType)
    BY DEF IInv, TypeOK
  <2>2. PICK p, m : frames' = WithTop(AtPos(Top, p, m))
    BY <1>6 DEF BodyPassOver, BodyAgain
  <2>3. AtPos(Top, p, m).loop = Top.loop
    BY DEF AtPos
  <2>4. DOMAIN frames' = DOMAIN frames
    BY <2>1, <2>2 DEF WithTop
  <2>5. ASSUME NEW i \in DOMAIN frames PROVE frames'[i].loop = frames[i].loop
    BY <2>2, <2>3 DEF WithTop, Top
  <2> QED
    BY <1>6, <2>4, <2>5, StutterKeeps DEF BodyPassOver, BodyAgain, nodeVars
<1>7. ASSUME LoopEnds PROVE Good
  <2>1. frames # <<>> /\ call = None /\ frames \in Seq(FrameType) /\ Top.loop \in Ids
        /\ Def.kind[Top.loop] = "loop" /\ Len(frames) \in DOMAIN frames
    BY <1>7, TopFrame, LoopBody, StackLoops DEF LoopEnds, BodyWalked, InBody, IInv, TypeOK, Top
  <2>2. PICK s \in {"completed", "failed"} : Mark(Top.loop, s)
    BY <1>7 DEF LoopEnds, LoopReturns
  <2>3. frames' = Outer /\ UNCHANGED <<approved, branch, call>>
    BY <1>7 DEF LoopEnds, LoopReturns
  <2>4. status[Top.loop] = "running"
    BY <2>1 DEF IInv, StackOK, Top
  <2>5. StartedJustified' /\ JoinSound'
    BY <2>1, <2>2, <2>3, <2>4, OneNode DEF IInv, Statuses, Terminal, Started
  <2>6. /\ DOMAIN frames' = 1 .. (Len(frames) - 1)
        /\ \A i \in DOMAIN frames' : i \in DOMAIN frames /\ i < Len(frames) /\ frames'[i] = frames[i]
    BY <2>1, <2>3 DEF Outer
  <2>7. \A i \in DOMAIN frames' : frames[i].loop # Top.loop
    BY <2>1, <2>6, DepthFact, StackLoops DEF IInv, StackOK, Top
  <2>8. \A i \in DOMAIN frames' : status'[frames[i].loop] = "running"
    BY <2>1, <2>2, <2>6, <2>7, StackLoops DEF IInv, StackOK, Mark, TypeOK
  <2>9. StackOK'
    BY <2>1, <2>3, <2>6, <2>8 DEF IInv, StackOK
  <2> QED
    BY <2>5, <2>9
<1>8. ASSUME LoopIterates PROVE Good
  <2>1. frames # <<>> /\ call = None /\ frames \in Seq(FrameType) /\ Top.loop \in Loops
        /\ Len(frames) \in DOMAIN frames /\ ResetBody(Top.loop)
    BY <1>8, TopFrame DEF LoopIterates, BodyWalked, InBody, IInv, TypeOK
  <2>2. status[Top.loop] = "running"
    BY <2>1 DEF IInv, StackOK, Top
  <2>3. StartedJustified' /\ JoinSound'
    BY <2>1, <2>2, ResetKeeps DEF IInv, Terminal, Started
  <2>4. Frame(Top.loop, Top.iter + 1).loop = Top.loop
    BY DEF Frame
  <2>5. DOMAIN frames' = DOMAIN frames
    BY <1>8, <2>1 DEF LoopIterates, WithTop
  <2>6. \A i \in DOMAIN frames : frames'[i].loop = frames[i].loop
    BY <1>8, <2>1, <2>4 DEF LoopIterates, WithTop, Top
  <2>7. \A i \in DOMAIN frames : frames[i].loop \notin BodySet(Top.loop)
    <3> SUFFICES ASSUME NEW i \in DOMAIN frames PROVE frames[i].loop \notin BodySet(Top.loop)
      OBVIOUS
    <3>1. frames[i].loop \in Loops /\ i \in Nat /\ i <= Len(frames)
      BY <2>1, StackLoops
    <3>2. i = Len(frames) \/ Depth[frames[i].loop] < Depth[Top.loop]
      BY <2>1, <3>1 DEF IInv, StackOK, Top
    <3> QED
      BY <2>1, <3>1, <3>2, DepthFact DEF Top
  <2>8. \A i \in DOMAIN frames : status'[frames[i].loop] = "running"
    BY <2>1, <2>7, StackLoops DEF IInv, StackOK, ResetBody
  <2>9. StackOK'
    BY <1>8, <2>5, <2>6, <2>8 DEF IInv, StackOK, LoopIterates
  <2> QED
    BY <2>3, <2>9
<1>9. ASSUME NEW n \in Ids, Returns(n) PROVE Good
  <2> USE DEF controlVars
  <2>1. call = n /\ Def.kind[n] # "loop" /\ Def.kind[n] # "join"
    BY <1>9, DefAssumption DEF Returns, AgentSucceeds, AgentFails, BackoffEnds, GateReturns, GateCancelled, IInv, StackOK
  <2>2. CASE AgentSucceeds(n)
    BY <2>1, <2>2, ReturnKeeps DEF AgentSucceeds
  <2>3. CASE AgentFails(n)
    <3>1. PICK s \in {"failed", "retrying", "pending"} : Mark(n, s)
      BY <2>3 DEF AgentFails
    <3>2. call' \in {call, None}
      BY <2>3 DEF AgentFails
    <3> QED
      BY <2>1, <2>3, <3>1, <3>2, ReturnKeeps DEF AgentFails
  <2>4. CASE BackoffEnds(n)
    BY <2>1, <2>4, ReturnKeeps DEF BackoffEnds
  <2>5. CASE GateReturns(n)
    <3>1. \A m \in Ids \ {n} : approved'[m] = approved[m] /\ branch'[m] = branch[m]
      BY <2>5 DEF GateReturns, IInv, TypeOK
    <3> QED
      BY <2>1, <2>5, <3>1, ReturnKeeps DEF GateReturns
  <2>6. CASE GateCancelled(n)
    BY <2>1, <2>6, ReturnKeeps DEF GateCancelled
  <2> QED
    BY <1>9, <2>2, <2>3, <2>4, <2>5, <2>6 DEF Returns
<1>10. ASSUME NEW n \in Ids, NEW d, Decide(n, d) PROVE Good
  BY <1>10, StutterKeeps DEF Decide, nodeVars
<1>11. ASSUME Cancel PROVE Good
  BY <1>11, StutterKeeps DEF Cancel, nodeVars
<1>12. ASSUME UNCHANGED vars PROVE Good
  BY <1>12, StutterKeeps DEF vars
<1> QED
  BY <1>1, <1>2, <1>3, <1>4, <1>5, <1>6, <1>7, <1>8, <1>9, <1>10, <1>11, <1>12
  DEF Next, Walk, Body, Idle

(* NewEngine leaves no node started and no call on the stack.                *)
LEMMA IInvInit == Init => IInv
<1> SUFFICES ASSUME Init PROVE IInv
  OBVIOUS
<1>1. frames = <<>> /\ frames \in Seq(FrameType) /\ DOMAIN frames = {}
  BY DEF Init
<1>2. TypeOK
  <2>1. status \in [Ids -> Statuses] /\ todo \subseteq Ids
    BY DefAssumption DEF Init, Statuses
  <2> QED
    BY <1>1, <2>1 DEF Init, TypeOK
<1>3. \A n \in Ids : ~Started(n) /\ status[n] # "completed"
  BY DEF Init, Started
<1>4. StartedJustified
  BY <1>3, EdgeShape DEF StartedJustified
<1>5. JoinSound
  BY <1>3 DEF JoinSound
<1>6. StackOK
  BY <1>1 DEF Init, StackOK
<1> QED
  BY <1>2, <1>4, <1>5, <1>6 DEF IInv

(***************************************************************************)
(* Whatever the definition, however the maps are walked, agents fail and   *)
(* are retried, humans decide early or late and loops re-enter: a node     *)
(* that was started keeps every reason it was started for.                 *)
(***************************************************************************)
THEOREM JustifiedCorrect == Spec => []StartedJustified
<1>1. IInv => StartedJustified
  BY DEF IInv
<1> QED
  BY <1>1, IInvInit, IInvStep, PTL DEF Spec

(***************************************************************************)
(* A completed join has waited for every clone of its fork, and no         *)
(* upstream node of it has failed, for any number of clones.               *)
(***************************************************************************)
THEOREM JoinCorrect == Spec => []JoinSound
<1>1. IInv => JoinSound
  BY DEF IInv
<1> QED
  BY <1>1, IInvInit, IInvStep, PTL DEF Spec

-----------------------------------------------------------------------------
(***************************************************************************)
(* What is in flight.  StackOK has the loops on the stack running; the     *)
(* rest is that a node in flight has somebody who will come back to it,    *)
(* and that what blocks the engine is in flight, a gate by waiting.        *)
(***************************************************************************)
Busy(s) == s \in {"running", "waiting_approval", "retrying"}

Stacked(n) == \E i \in DOMAIN frames : frames[i].loop = n

FlightOK ==
  /\ \A n \in Ids : Busy(status[n]) => n = call \/ Stacked(n)
  /\ call # None => Busy(status[call])
  /\ call # None /\ Def.kind[call] = "human_approval" => status[call] = "waiting_approval"

LEMMA FlightImplied ==
  ASSUME TypeOK, StackOK, FlightOK
  PROVE  InFlightExact
<1>1. \A i \in DOMAIN frames : frames[i].loop \in Ids /\ status[frames[i].loop] = "running"
  BY StackLoops DEF TypeOK, StackOK
<1>2. call # None => call \in Ids /\ Busy(status[call])
  BY DEF TypeOK, FlightOK
<1>3. \A n \in Ids : Busy(status[n]) <=> n = call \/ Stacked(n)
  BY <1>1, <1>2, DefAssumption DEF FlightOK, Stacked, Busy
<1> DEFINE S == {frames[i].loop : i \in DOMAIN frames}
<1>4. \A n : n \in S <=> Stacked(n)
  BY DEF Stacked
<1>5. S \subseteq Ids
  BY <1>1
<1>6. {n \in Ids : status[n] \in {"running", "waiting_approval", "retrying"}} = ({call} \ {None}) \cup S
  BY <1>2, <1>3, <1>4, <1>5, DefAssumption DEF Busy
<1> QED
  BY <1>6 DEF InFlightExact

(* The stack keeps its loops when a frame moves.                           *)
LEMMA TopLoopStays ==
  ASSUME TypeOK, frames # <<>>, NEW f, f.loop = Top.loop
  PROVE  /\ Len(WithTop(f)) = Len(frames) /\ DOMAIN WithTop(f) = DOMAIN frames
         /\ \A i \in DOMAIN frames : WithTop(f)[i].loop = frames[i].loop
<1>1. frames \in Seq(FrameType) /\ Len(frames) \in DOMAIN frames
  BY DEF TypeOK
<1> QED
  BY <1>1 DEF WithTop, Top

(* A step that changes one node and leaves the loops of the stack alone.   *)
LEMMA FlightMark ==
  ASSUME TypeOK, FlightOK, NEW n \in Ids, NEW s \in Statuses, Mark(n, s),
         DOMAIN frames' = DOMAIN frames, \A i \in DOMAIN frames : frames'[i].loop = frames[i].loop,
         call \in {n, None}, call' = IF Busy(s) THEN n ELSE None,
         Busy(s) /\ Def.kind[n] = "human_approval" => s = "waiting_approval"
  PROVE  FlightOK'
<1>1. status'[n] = s /\ \A m \in Ids \ {n} : status'[m] = status[m]
  BY DEF Mark, TypeOK
<1>2. \A m : Stacked(m) => Stacked(m)'
  BY DEF Stacked
<1>3. ASSUME NEW m \in Ids, Busy(status'[m]) PROVE m = call' \/ Stacked(m)'
  <2>1. CASE m = n
    BY <1>1, <1>3, <2>1
  <2>2. CASE m # n
    <3>1. Busy(status[m]) /\ m # call
      BY <1>1, <1>3, <2>2, DefAssumption
    <3> QED
      BY <1>2, <3>1 DEF FlightOK
  <2> QED
    BY <2>1, <2>2
<1>4. call' # None => call' = n /\ Busy(s) /\ status'[call'] = s
  BY <1>1
<1> QED
  BY <1>3, <1>4 DEF FlightOK, Busy

(* execute(): only an agent and a gate stay in flight without a frame.     *)
LEMMA ExecuteFlight ==
  ASSUME TypeOK, FlightOK, NEW n \in Ids, NEW rest, NEW fr, FrameOK(fr), Ready(n), Execute(n, rest, fr),
         call = None, DOMAIN fr = DOMAIN frames, \A i \in DOMAIN frames : fr[i].loop = frames[i].loop
  PROVE  FlightOK'
<1>1. status[n] = "pending"
  BY DEF Ready
<1>2. CASE Def.kind[n] # "loop"
  <2>1. frames' = fr
    BY <1>2 DEF Execute
  <2>2. ASSUME NEW s \in Statuses, Mark(n, s), call' = IF Busy(s) THEN n ELSE None,
               Busy(s) /\ Def.kind[n] = "human_approval" => s = "waiting_approval"
        PROVE  FlightOK'
    BY <2>1, <2>2, FlightMark
  <2>3. CASE ExecTrigger(n) \/ ExecTransform(n) \/ ExecSubworkflow(n) \/ ExecCondition(n) \/ ExecJoin(n)
    <3>1. PICK s \in {"completed", "failed"} : Mark(n, s)
      BY <2>3 DEF ExecTrigger, ExecTransform, ExecSubworkflow, ExecCondition, ExecJoin
    <3>2. call' = None
      BY <2>3 DEF ExecTrigger, ExecTransform, ExecSubworkflow, ExecCondition, ExecJoin
    <3> QED
      BY <2>2, <3>1, <3>2 DEF Busy, Statuses
  <2>4. CASE ExecAgent(n) \/ ExecApproval(n)
    BY <2>2, <2>4 DEF ExecAgent, ExecApproval, Busy, Statuses
  <2>5. CASE ExecFork(n)
    <3>1. call' = None
      BY <2>5 DEF ExecFork
    <3>2. CASE Mark(n, "failed")
      BY <2>2, <3>1, <3>2 DEF Busy, Statuses
    <3>3. CASE \E k \in 0 .. Len(Def.clones[n]) : Expand(n, {Def.clones[n][i] : i \in 1 .. k})
      <4>1. PICK new : Expand(n, new)
        BY <3>3
      <4>2. \A m \in Ids : Busy(status'[m]) => status'[m] = status[m]
        BY <4>1 DEF Expand, Busy
      <4>3. \A m : Stacked(m) => Stacked(m)'
        BY <2>1 DEF Stacked
      <4>4. \A m \in Ids : Busy(status'[m]) => Stacked(m)'
        BY <4>2, <4>3, DefAssumption DEF FlightOK
      <4> QED
        BY <3>1, <4>4 DEF FlightOK, Busy
    <3> QED
      BY <2>5, <3>2, <3>3 DEF ExecFork
  <2> QED
    BY <1>2, <2>3, <2>4, <2>5 DEF Execute, ExecLoop
<1>3. CASE Def.kind[n] = "loop"
  <2>1. frames' = Append(fr, Frame(n, 1)) /\ ResetBody(n) /\ call' = None
    BY <1>3 DEF Execute, ExecLoop, ExecTrigger, ExecTransform, ExecSubworkflow, ExecCondition,
                ExecFork, ExecJoin, ExecAgent, ExecApproval
  <2>2. /\ DOMAIN frames' = 1 .. (Len(fr) + 1) /\ Len(fr) + 1 \in DOMAIN frames'
        /\ frames'[Len(fr) + 1] = Frame(n, 1)
        /\ \A i \in DOMAIN fr : i \in DOMAIN frames' /\ frames'[i] = fr[i]
    BY <2>1 DEF FrameOK
  <2>3. Stacked(n)' /\ \A m : Stacked(m) => Stacked(m)'
    BY <2>2 DEF Stacked, Frame
  <2>4. \A m \in Ids : Busy(status'[m]) => m = n \/ Busy(status[m])
    BY <2>1 DEF ResetBody, Busy
  <2>5. \A m \in Ids : Busy(status'[m]) => Stacked(m)'
    BY <2>3, <2>4, DefAssumption DEF FlightOK
  <2> QED
    BY <2>1, <2>5 DEF FlightOK, Busy
<1> QED
  BY <1>2, <1>3

(* A step that touches no node, no call and no loop of the stack.          *)
LEMMA FlightStays ==
  ASSUME FlightOK, UNCHANGED <<status, call>>,
         DOMAIN frames' = DOMAIN frames, \A i \in DOMAIN frames : frames'[i].loop = frames[i].loop
  PROVE  FlightOK'
BY DEF FlightOK, Stacked, Busy

LEMMA FlightStep == IInv /\ FlightOK /\ [Next]_vars => FlightOK'
<1> SUFFICES ASSUME IInv, FlightOK, [Next]_vars PROVE FlightOK'
  OBVIOUS
<1>0. TypeOK /\ frames \in Seq(FrameType)
  BY DEF IInv, TypeOK
<1>1. ASSUME NEW n \in Ids, Visit(n) PROVE FlightOK'
  BY <1>0, <1>1, ExecuteFlight DEF Visit, InMain, FrameOK, TypeOK
<1>2. ASSUME BodyVisit PROVE FlightOK'
  <2> DEFINE fr == WithTop(AtPos(Top, Top.pos + 1, TRUE))
  <2>1. frames # <<>> /\ Ready(BodyNode) /\ Execute(BodyNode, todo, fr) /\ call = None
        /\ Top.pos <= Len(Def.body[Top.loop])
    BY <1>2 DEF BodyVisit, InBody
  <2>2. Top \in FrameType /\ Top.loop \in Loops /\ FrameOK(fr)
    BY <1>0, <2>1, TopFrame, TopMoves
  <2>3. BodyNode \in Ids
    <3>1. Def.body[Top.loop] \in Seq(Def.nodes) /\ Top.pos \in Nat \ {0}
      BY <2>2, LoopBody DEF FrameType
    <3>2. Top.pos \in DOMAIN Def.body[Top.loop]
      BY <2>1, <3>1
    <3> QED
      BY <3>1, <3>2, DefAssumption DEF BodyNode
  <2>4. DOMAIN fr = DOMAIN frames /\ \A i \in DOMAIN frames : fr[i].loop = frames[i].loop
    <3>1. AtPos(Top, Top.pos + 1, TRUE).loop = Top.loop
      BY DEF AtPos
    <3> QED
      BY <1>0, <2>1, <3>1, TopLoopStays
  <2> QED
    BY <1>0, <2>1, <2>2, <2>3, <2>4, ExecuteFlight
<1>3. ASSUME BodyPassOver \/ BodyAgain PROVE FlightOK'
  <2>1. PICK p, m : frames' = WithTop(AtPos(Top, p, m))
    BY <1>3 DEF BodyPassOver, BodyAgain
  <2>2. AtPos(Top, p, m).loop = Top.loop /\ frames # <<>>
    BY <1>3 DEF AtPos, BodyPassOver, BodyAgain, BodyWalked, InBody
  <2> QED
    BY <1>0, <1>3, <2>1, <2>2, TopLoopStays, FlightStays DEF BodyPassOver, BodyAgain, nodeVars
<1>4. ASSUME LoopEnds PROVE FlightOK'
  <2>1. /\ frames # <<>> /\ call = None /\ call' = None /\ Len(frames) \in DOMAIN frames
        /\ Top.loop \in Ids /\ frames' = Outer
    BY <1>0, <1>4, TopFrame, LoopBody DEF LoopEnds, LoopReturns, BodyWalked, InBody
  <2>2. PICK s \in {"completed", "failed"} : Mark(Top.loop, s)
    BY <1>4 DEF LoopEnds, LoopReturns
  <2>3. \A i \in DOMAIN frames : i # Len(frames) => i \in DOMAIN frames' /\ frames'[i] = frames[i]
    BY <1>0, <2>1 DEF Outer
  <2>4. \A m \in Ids : Busy(status'[m]) => m # Top.loop /\ Busy(status[m])
    BY <1>0, <2>1, <2>2 DEF Mark, Busy, TypeOK
  <2>5. \A m : Stacked(m) /\ m # Top.loop => Stacked(m)'
    BY <2>3 DEF Stacked, Top
  <2>6. \A m \in Ids : Busy(status'[m]) => Stacked(m)'
    BY <2>1, <2>4, <2>5, DefAssumption DEF FlightOK
  <2> QED
    BY <2>1, <2>6 DEF FlightOK, Busy
<1>5. ASSUME LoopIterates PROVE FlightOK'
  <2>1. frames # <<>> /\ call = None /\ call' = None /\ ResetBody(Top.loop)
        /\ frames' = WithTop(Frame(Top.loop, Top.iter + 1)) /\ Len(frames) \in DOMAIN frames
    BY <1>0, <1>5 DEF LoopIterates, BodyWalked, InBody
  <2>2. Frame(Top.loop, Top.iter + 1).loop = Top.loop
    BY DEF Frame
  <2>3. DOMAIN frames' = DOMAIN frames /\ \A i \in DOMAIN frames : frames'[i].loop = frames[i].loop
    BY <1>0, <2>1, <2>2, TopLoopStays
  <2>4. \A m : Stacked(m) => Stacked(m)'
    BY <2>3 DEF Stacked
  <2>5. Stacked(Top.loop)
    BY <2>1 DEF Stacked, Top
  <2>6. \A m \in Ids : Busy(status'[m]) => m = Top.loop \/ Busy(status[m])
    BY <2>1 DEF ResetBody, Busy
  <2>7. \A m \in Ids : Busy(status'[m]) => Stacked(m)'
    BY <2>1, <2>4, <2>5, <2>6, DefAssumption DEF FlightOK
  <2> QED
    BY <2>1, <2>7 DEF FlightOK, Busy
<1>6. ASSUME NEW n \in Ids, SkipOrDeadlock(n), Mark(n, "skipped") PROVE FlightOK'
  <2>1. status[n] = "pending" /\ UNCHANGED <<frames, call>>
    BY <1>6 DEF SkipOrDeadlock, Schedulable
  <2>2. status' = [status EXCEPT ![n] = "skipped"]
    BY <1>6 DEF Mark
  <2>3. \A m \in Ids : Busy(status'[m]) <=> Busy(status[m])
    BY <1>0, <2>1, <2>2 DEF Busy, TypeOK
  <2>4. call # None => call \in Ids /\ call # n
    BY <1>0, <2>1 DEF TypeOK, FlightOK, Busy
  <2>5. call # None => status'[call] = status[call]
    BY <1>0, <2>2, <2>4 DEF TypeOK
  <2> QED
    BY <2>1, <2>3, <2>5 DEF FlightOK, Stacked, Busy
<1>7. ASSUME NEW n \in Ids, Returns(n) PROVE FlightOK'
  <2>1. call = n /\ UNCHANGED frames
    BY <1>7 DEF Returns, AgentSucceeds, AgentFails, BackoffEnds, GateReturns, GateCancelled, controlVars
  <2>2. \E s \in Statuses : /\ Mark(n, s) /\ call' = IF Busy(s) THEN n ELSE None
                            /\ Busy(s) /\ Def.kind[n] = "human_approval" => s = "waiting_approval"
    <3>1. Def.kind[n] = "human_approval" => status[n] = "waiting_approval"
      BY <2>1, DefAssumption DEF FlightOK
    <3> QED
      BY <1>7, <2>1, <3>1 DEF Returns, AgentSucceeds, AgentFails, BackoffEnds, GateReturns, GateCancelled, Busy, Statuses
  <2> QED
    BY <1>0, <2>1, <2>2, FlightMark
<1>8. CASE UNCHANGED <<status, call, frames>>
  BY <1>8, FlightStays
<1>9. \/ \E n \in Ids : Visit(n) \/ Returns(n) \/ (SkipOrDeadlock(n) /\ Mark(n, "skipped"))
      \/ BodyVisit \/ BodyPassOver \/ BodyAgain \/ LoopEnds \/ LoopIterates
      \/ UNCHANGED <<status, call, frames>>
  BY DEF Next, Walk, Body, Idle, PassOver, EndWalk, Return, SkipOrDeadlock, Decide, Cancel, vars, nodeVars
<1> QED
  BY <1>1, <1>2, <1>3, <1>4, <1>5, <1>6, <1>7, <1>8, <1>9

LEMMA FlightInit == Init => FlightOK
BY DefAssumption DEF Init, FlightOK, Busy

LEMMA EngineAlways == Spec => [](IInv /\ FlightOK)
BY IInvInit, IInvStep, FlightInit, FlightStep, PTL DEF Spec

(***************************************************************************)
(* Whatever retries, cancellations and nested loops do, the nodes in       *)
(* flight are the one that blocks the engine and the loops on its stack.   *)
(***************************************************************************)
THEOREM InFlightCorrect == Spec => []InFlightExact
<1>1. IInv /\ FlightOK => InFlightExact
  BY FlightImplied DEF IInv
<1> QED
  BY <1>1, EngineAlways, PTL

-----------------------------------------------------------------------------
(***************************************************************************)
(* The shapes a step can have: it leaves the nodes alone, changes one that *)
(* is not settled, expands a fork, or starts an iteration of a loop.  The  *)
(* first two also say what becomes of a gate, of the feedback, of the      *)
(* branch of a condition and of a trigger.                                 *)
(***************************************************************************)
NothingMoves == UNCHANGED <<status, approved, branch, feedbackFor>>

FixersOf(n) == {e.to : e \in {x \in Def.edges : x.from = n /\ x.cond = "rejected"}}

OneMoves(n, s) ==
  /\ status[n] \in {"pending", "running", "waiting_approval", "retrying"}
  /\ Mark(n, s)
  /\ \A m \in Ids \ {n} : approved'[m] = approved[m] /\ branch'[m] = branch[m]
  /\ branch'[n] = branch[n] \/ Terminal(s)
  /\ Def.kind[n] = "trigger" => s \in {"completed", "skipped"}
  /\ feedbackFor \ {n} \subseteq feedbackFor'
  /\ n \in feedbackFor => n \in feedbackFor' \/ s = "completed"
  /\ Def.kind[n] = "human_approval" /\ s = "completed" /\ ~approved'[n] => FixersOf(n) \subseteq feedbackFor'

ForkMoves(n, new) ==
  /\ n \in Forks
  /\ status[n] = "pending"
  /\ new \subseteq CloneSet(n)
  /\ Expand(n, new)
  /\ feedbackFor' = feedbackFor

LoopMoves(l) ==
  /\ l \in Loops
  /\ status[l] \in {"pending", "running"}
  /\ ResetBody(l)
  /\ feedbackFor' = feedbackFor

NodesMove ==
  \/ \E n \in Ids : \E s \in Statuses \ {"absent"} : OneMoves(n, s)
  \/ \E n \in Ids : \E new \in SUBSET Ids : ForkMoves(n, new)
  \/ \E l \in Ids : LoopMoves(l)

LEMMA ExecuteShape ==
  ASSUME TypeOK, NEW n \in Ids, NEW rest, NEW fr, Ready(n), Execute(n, rest, fr)
  PROVE  NodesMove
<1>1. status[n] = "pending"
  BY DEF Ready
<1>2. ASSUME NEW s \in Statuses \ {"absent"}, Mark(n, s), UNCHANGED <<approved, feedbackFor>>,
             Def.kind[n] # "human_approval" \/ s # "completed",
             Def.kind[n] = "trigger" => s = "completed",
             \A m \in Ids \ {n} : branch'[m] = branch[m],
             branch'[n] = branch[n] \/ Terminal(s)
      PROVE  NodesMove
  BY <1>1, <1>2 DEF OneMoves, NodesMove
<1>3. CASE ExecTrigger(n) \/ ExecTransform(n) \/ ExecSubworkflow(n) \/ ExecJoin(n)
           \/ ExecAgent(n) \/ ExecApproval(n)
  <2>1. CASE ExecTrigger(n)
    BY <1>2, <2>1 DEF ExecTrigger, Statuses, Terminal
  <2>2. CASE ExecTransform(n)
    BY <1>2, <2>2 DEF ExecTransform, Statuses, Terminal
  <2>3. CASE ExecSubworkflow(n)
    BY <1>2, <2>3 DEF ExecSubworkflow, Statuses, Terminal
  <2>4. CASE ExecJoin(n)
    <3>1. PICK s \in {"completed", "failed"} : Mark(n, s)
      BY <2>4 DEF ExecJoin
    <3> QED
      BY <1>2, <2>4, <3>1 DEF ExecJoin, Statuses
  <2>5. CASE ExecAgent(n) \/ ExecApproval(n)
    BY <1>2, <2>5 DEF ExecAgent, ExecApproval, Statuses
  <2> QED
    BY <1>3, <2>1, <2>2, <2>3, <2>4, <2>5
<1>4. CASE ExecCondition(n)
  <2>1. PICK s \in {"completed", "failed"} : Mark(n, s)
    BY <1>4 DEF ExecCondition
  <2>2. UNCHANGED <<approved, feedbackFor>> /\ Def.kind[n] \notin {"human_approval", "trigger"}
    BY <1>4 DEF ExecCondition
  <2>3. \A m \in Ids \ {n} : branch'[m] = branch[m]
    BY <1>4 DEF ExecCondition, TypeOK
  <2> QED
    BY <1>2, <2>1, <2>2, <2>3 DEF Statuses, Terminal
<1>5. CASE ExecFork(n)
  <2>1. n \in Forks /\ Def.clones[n] \in Seq(Ids) /\ feedbackFor' = feedbackFor
        /\ Def.kind[n] \notin {"human_approval", "trigger"}
    BY <1>5, ForkNode DEF ExecFork
  <2>2. CASE Mark(n, "failed") /\ UNCHANGED <<approved, branch, attempts>>
    BY <1>2, <2>1, <2>2 DEF Statuses
  <2>3. CASE \E k \in 0 .. Len(Def.clones[n]) : Expand(n, {Def.clones[n][i] : i \in 1 .. k})
    <3>1. PICK k \in 0 .. Len(Def.clones[n]) : Expand(n, {Def.clones[n][i] : i \in 1 .. k})
      BY <2>3
    <3>2. {Def.clones[n][i] : i \in 1 .. k} \subseteq CloneSet(n)
      BY <2>1 DEF CloneSet
    <3>3. CloneSet(n) \subseteq Ids
      BY <2>1, CloneShape
    <3> QED
      BY <1>1, <2>1, <3>1, <3>2, <3>3 DEF ForkMoves, NodesMove
  <2> QED
    BY <1>5, <2>2, <2>3 DEF ExecFork
<1>6. CASE ExecLoop(n)
  BY <1>1, <1>6, LoopNode DEF ExecLoop, LoopMoves, NodesMove
<1> QED
  BY <1>3, <1>4, <1>5, <1>6 DEF Execute

LEMMA ReturnShape ==
  ASSUME IInv, FlightOK, NEW n \in Ids, Returns(n)
  PROVE  NodesMove
<1>0. TypeOK
  BY DEF IInv
<1>1. call = n /\ status[n] \in {"running", "waiting_approval", "retrying"}
      /\ Def.kind[n] \in {"agent", "human_approval"}
  BY DefAssumption DEF Returns, AgentSucceeds, AgentFails, BackoffEnds, GateReturns, GateCancelled, IInv, StackOK
<1>2. ASSUME NEW s \in {"pending", "failed", "retrying"}, Mark(n, s), UNCHANGED <<approved, branch, feedbackFor>>
      PROVE  NodesMove
  BY <1>1, <1>2 DEF OneMoves, NodesMove, Statuses
<1>3. CASE AgentFails(n)
  <2>1. PICK s \in {"failed", "retrying", "pending"} : Mark(n, s)
    BY <1>3 DEF AgentFails
  <2>2. UNCHANGED <<approved, branch, feedbackFor>>
    BY <1>3 DEF AgentFails
  <2> QED
    BY <1>2, <2>1, <2>2
<1>4. CASE BackoffEnds(n) \/ GateCancelled(n)
  BY <1>2, <1>4 DEF BackoffEnds, GateCancelled
<1>5. CASE AgentSucceeds(n)
  <2>1. Def.kind[n] # "human_approval"
    BY <1>1, <1>5, DefAssumption DEF AgentSucceeds, FlightOK
  <2>2. CASE Def.kind[n] = "agent"
    BY <1>1, <1>5, <2>2 DEF AgentSucceeds, OneMoves, NodesMove, Statuses
  <2> QED
    BY <1>1, <2>1, <2>2
<1>6. CASE GateReturns(n)
  <2>1. \A m \in Ids \ {n} : approved'[m] = approved[m]
    BY <1>0, <1>6 DEF GateReturns, TypeOK
  <2>2. approved'[n] = (decided[n] = "approved") /\ branch' = branch /\ Mark(n, "completed")
    BY <1>0, <1>6 DEF GateReturns, TypeOK
  <2>3. feedbackFor \subseteq feedbackFor' /\ (decided[n] # "approved" => FixersOf(n) \subseteq feedbackFor')
    BY <1>6 DEF GateReturns, FixersOf
  <2>4. OneMoves(n, "completed")
    BY <1>1, <2>1, <2>2, <2>3 DEF OneMoves
  <2> QED
    BY <2>4 DEF NodesMove, Statuses
<1> QED
  BY <1>3, <1>4, <1>5, <1>6 DEF Returns

LEMMA StepShape == IInv /\ FlightOK /\ [Next]_vars => NothingMoves \/ NodesMove
<1> SUFFICES ASSUME IInv, FlightOK, [Next]_vars PROVE NothingMoves \/ NodesMove
  OBVIOUS
<1>0. TypeOK /\ frames \in Seq(FrameType)
  BY DEF IInv, TypeOK
<1>1. ASSUME NEW n \in Ids, Visit(n) PROVE NodesMove
  BY <1>0, <1>1, ExecuteShape DEF Visit
<1>2. ASSUME BodyVisit PROVE NodesMove
  <2>1. frames # <<>> /\ Ready(BodyNode) /\ Top.pos <= Len(Def.body[Top.loop])
    BY <1>2 DEF BodyVisit, InBody
  <2>2. Top \in FrameType /\ Top.loop \in Loops
    BY <1>0, <2>1, TopFrame
  <2>3. BodyNode \in Ids
    <3>1. Def.body[Top.loop] \in Seq(Def.nodes) /\ Top.pos \in Nat \ {0}
      BY <2>2, LoopBody DEF FrameType
    <3>2. Top.pos \in DOMAIN Def.body[Top.loop]
      BY <2>1, <3>1
    <3> QED
      BY <3>1, <3>2, DefAssumption DEF BodyNode
  <2> QED
    BY <1>0, <1>2, <2>1, <2>3, ExecuteShape DEF BodyVisit
<1>3. ASSUME NEW n \in Ids, SkipOrDeadlock(n), Mark(n, "skipped") PROVE NodesMove
  BY <1>3 DEF SkipOrDeadlock, Schedulable, OneMoves, NodesMove, Statuses
<1>4. ASSUME LoopEnds \/ LoopIterates PROVE NodesMove
  <2>1. frames # <<>> /\ Len(frames) \in DOMAIN frames
    BY <1>0, <1>4 DEF LoopEnds, LoopIterates, BodyWalked, InBody
  <2>2. Top.loop \in Loops /\ Top.loop \in Ids /\ Def.kind[Top.loop] = "loop"
    BY <1>0, <2>1, TopFrame, LoopBody DEF Loops
  <2>3. status[Top.loop] = "running"
    BY <2>1 DEF IInv, StackOK, Top
  <2>4. CASE LoopEnds
    <3>1. PICK s \in {"completed", "failed"} : Mark(Top.loop, s)
      BY <2>4 DEF LoopEnds, LoopReturns
    <3>2. UNCHANGED <<approved, branch, feedbackFor>>
      BY <2>4 DEF LoopEnds, LoopReturns
    <3>3. OneMoves(Top.loop, s)
      BY <2>2, <2>3, <3>1, <3>2 DEF OneMoves
    <3> QED
      BY <2>2, <3>3 DEF NodesMove, Statuses
  <2>5. CASE LoopIterates
    BY <2>2, <2>3, <2>5 DEF LoopIterates, LoopMoves, NodesMove
  <2> QED
    BY <1>4, <2>4, <2>5
<1>5. ASSUME NEW n \in Ids, Returns(n) PROVE NodesMove
  BY <1>5, ReturnShape
<1>6. \/ \E n \in Ids : Visit(n) \/ Returns(n) \/ (SkipOrDeadlock(n) /\ Mark(n, "skipped"))
      \/ BodyVisit \/ LoopEnds \/ LoopIterates
      \/ NothingMoves
  BY DEF Next, Walk, Body, Idle, PassOver, EndWalk, Return, SkipOrDeadlock, Decide, Cancel,
         BodyPassOver, BodyAgain, NothingMoves, vars, nodeVars
<1> QED
  BY <1>1, <1>2, <1>3, <1>4, <1>5, <1>6

-----------------------------------------------------------------------------
(***************************************************************************)
(* A fork outside of the loops expands once: before that it has no clones. *)
(***************************************************************************)
FreshClones ==
  \A f \in Forks \ LoopBodies : \A c \in CloneSet(f) : status[c] # "absent" => status[f] = "completed"

Stable == \A n \in Ids \ (LoopBodies \cup LoopClones) : Terminal(status[n]) => status'[n] = status[n]

(* A fork is no loop, and neither it nor its clones are of another fork.    *)
LEMMA ForkShape ==
  ASSUME NEW f \in Forks
  PROVE  /\ f \in Ids /\ f \in Def.nodes /\ f \notin Loops
         /\ \A c \in CloneSet(f) : c \in Ids \ Def.nodes
         /\ \A g \in Forks : g # f => CloneSet(f) \cap CloneSet(g) = {}
         /\ \A l \in Loops : CloneSet(f) \cap BodySet(l) = {} /\ (f \notin LoopBodies => f \notin BodySet(l))
<1>1. f \in Ids /\ f \in Def.nodes /\ f \notin Loops
  BY DefAssumption DEF Forks, Loops
<1>2. \A c \in CloneSet(f) : c \in Ids \ Def.nodes
  BY CloneShape
<1>3. \A g \in Forks : g # f => CloneSet(f) \cap CloneSet(g) = {}
  BY DefAssumption
<1>4. \A l \in Loops : CloneSet(f) \cap BodySet(l) = {} /\ (f \notin LoopBodies => f \notin BodySet(l))
  BY <1>2, LoopBody DEF LoopBodies
<1> QED
  BY <1>1, <1>2, <1>3, <1>4

LEMMA FreshStep == IInv /\ FlightOK /\ FreshClones /\ [Next]_vars => FreshClones' /\ Stable
<1> SUFFICES ASSUME IInv, FreshClones, NothingMoves \/ NodesMove PROVE FreshClones' /\ Stable
  BY StepShape
<1>0. status \in [Ids -> Statuses]
  BY DEF IInv, TypeOK
<1>1. CASE NothingMoves
  BY <1>1 DEF NothingMoves, FreshClones, Stable
<1>2. ASSUME NEW n \in Ids, NEW s \in Statuses \ {"absent"}, OneMoves(n, s) PROVE FreshClones' /\ Stable
  <2>1. status'[n] = s /\ \A m \in Ids \ {n} : status'[m] = status[m]
    BY <1>0, <1>2 DEF OneMoves, Mark
  <2>2. ~Terminal(status[n]) /\ status[n] # "absent"
    BY <1>2 DEF OneMoves, Terminal
  <2>3. ASSUME NEW f \in Forks \ LoopBodies, NEW c \in CloneSet(f), status'[c] # "absent"
        PROVE  status'[f] = "completed"
    <3>1. f \in Ids /\ c \in Ids
      BY ForkShape
    <3>2. status[f] = "completed"
      BY <2>1, <2>2, <2>3, <3>1 DEF FreshClones
    <3> QED
      BY <2>1, <2>2, <3>1, <3>2 DEF Terminal
  <2> QED
    BY <2>1, <2>2, <2>3 DEF FreshClones, Stable
<1>3. ASSUME NEW n \in Ids, NEW new \in SUBSET Ids, ForkMoves(n, new) PROVE FreshClones' /\ Stable
  <2>1. n \in Forks /\ status[n] = "pending" /\ new \subseteq CloneSet(n) /\ n \notin new
    BY <1>3, ForkShape DEF ForkMoves
  <2>2. \A m \in Ids : status'[m] = IF m = n THEN "completed" ELSE IF m \in new THEN "pending" ELSE status[m]
    BY <1>3 DEF ForkMoves, Expand
  <2>3. ASSUME NEW f \in Forks \ LoopBodies, NEW c \in CloneSet(f), status'[c] # "absent"
        PROVE  status'[f] = "completed"
    <3>1. f \in Ids /\ c \in Ids /\ f \notin new
      BY <2>1, ForkShape
    <3>2. CASE f = n
      BY <2>2, <3>1, <3>2
    <3>3. CASE f # n
      <4>1. c # n /\ c \notin new
        BY <2>1, <3>3, ForkShape
      <4> QED
        BY <2>2, <2>3, <3>1, <3>3, <4>1 DEF FreshClones
    <3> QED
      BY <3>2, <3>3
  <2>4. ASSUME NEW m \in Ids \ (LoopBodies \cup LoopClones), Terminal(status[m])
        PROVE  status'[m] = status[m]
    <3>1. m # n
      BY <2>1, <2>4 DEF Terminal
    <3>2. m \notin new
      <4>1. SUFFICES ASSUME m \in new PROVE FALSE
        OBVIOUS
      <4>2. n \notin LoopBodies
        BY <2>1, <2>4, <4>1 DEF LoopClones
      <4>3. status[n] = "completed"
        BY <2>1, <2>4, <4>1, <4>2 DEF FreshClones, Terminal
      <4> QED
        BY <2>1, <4>3
    <3> QED
      BY <2>2, <3>1, <3>2
  <2> QED
    BY <2>3, <2>4 DEF FreshClones, Stable
<1>4. ASSUME NEW l \in Ids, LoopMoves(l) PROVE FreshClones' /\ Stable
  <2>1. l \in Loops /\ status[l] \in {"pending", "running"}
    BY <1>4 DEF LoopMoves
  <2>2. \A m \in Ids : status'[m] = IF m = l THEN "running" ELSE IF m \in BodySet(l) THEN "pending" ELSE status[m]
    BY <1>4 DEF LoopMoves, ResetBody
  <2>3. ASSUME NEW f \in Forks \ LoopBodies, NEW c \in CloneSet(f), status'[c] # "absent"
        PROVE  status'[f] = "completed"
    <3>1. f \in Ids /\ c \in Ids /\ f # l /\ f \notin BodySet(l) /\ c \notin BodySet(l) /\ c # l
      BY <2>1, ForkShape DEF Loops
    <3> QED
      BY <2>2, <2>3, <3>1 DEF FreshClones
  <2>4. BodySet(l) \subseteq LoopBodies
    BY <2>1 DEF LoopBodies
  <2> QED
    BY <2>1, <2>2, <2>3, <2>4 DEF FreshClones, Stable, Terminal
<1> QED
  BY <1>1, <1>2, <1>3, <1>4 DEF NodesMove

LEMMA FreshInit == Init => FreshClones
BY ForkShape DEF Init, FreshClones

LEMMA FreshAlways == Spec => []FreshClones
BY EngineAlways, FreshInit, FreshStep, PTL DEF Spec

(***************************************************************************)
(* mark(): no retry, no late return and no fork changes a node of the main *)
(* graph that was settled.                                                 *)
(***************************************************************************)
THEOREM StableCorrect == Spec => TerminalStable
<1>1. (IInv /\ FlightOK) /\ FreshClones /\ [Next]_vars => [Stable]_vars
  BY FreshStep
<1>2. Stable => \A n \in Ids \ (LoopBodies \cup LoopClones) : Terminal(status[n]) => status'[n] = status[n]
  BY DEF Stable
<1> QED
  BY <1>1, <1>2, FreshAlways, EngineAlways, PTL DEF Spec, TerminalStable

-----------------------------------------------------------------------------
(***************************************************************************)
(* Rejections.  A node behind a rejected gate that has not completed since *)
(* then has the feedback.  A loop that resets such a node has to reset its *)
(* gate as well: otherwise the node runs again, its feedback consumed.     *)
(***************************************************************************)
FixersFollowGates ==
  \A e \in Def.edges : e.cond = "rejected" /\ Def.kind[e.to] = "agent" =>
    /\ Def.kind[e.from] = "human_approval"
    /\ \A l \in Loops : e.to \in BodySet(l) => e.from \in BodySet(l)

FixersKnow ==
  \A e \in Def.edges :
    e.cond = "rejected" /\ Def.kind[e.to] = "agent" /\ status[e.from] = "completed" /\ ~approved[e.from]
      => e.to \in feedbackFor \/ status[e.to] = "completed"

LEMMA FixersStep ==
  ASSUME FixersFollowGates
  PROVE  IInv /\ FlightOK /\ FixersKnow /\ [Next]_vars => FixersKnow'
<1> SUFFICES ASSUME IInv, FixersKnow, NothingMoves \/ NodesMove PROVE FixersKnow'
  BY StepShape
<1> SUFFICES ASSUME NEW e \in Def.edges, e.cond = "rejected", Def.kind[e.to] = "agent",
                    status'[e.from] = "completed", ~approved'[e.from]
             PROVE  e.to \in feedbackFor' \/ status'[e.to] = "completed"
  BY DEF FixersKnow
<1>0. /\ status \in [Ids -> Statuses]
      /\ e.from \in Ids /\ e.from \in Def.nodes /\ e.to \in Ids /\ e.to \in Def.nodes
      /\ Def.kind[e.from] = "human_approval"
      /\ \A l \in Loops : e.to \in BodySet(l) => e.from \in BodySet(l)
  BY DefAssumption DEF IInv, TypeOK, FixersFollowGates
<1>1. CASE NothingMoves
  BY <1>1 DEF NothingMoves, FixersKnow
<1>2. ASSUME NEW n \in Ids, NEW s \in Statuses \ {"absent"}, OneMoves(n, s)
      PROVE  e.to \in feedbackFor' \/ status'[e.to] = "completed"
  <2>1. status'[n] = s /\ (\A m \in Ids \ {n} : status'[m] = status[m] /\ approved'[m] = approved[m])
        /\ status[n] # "completed"
    BY <1>0, <1>2 DEF OneMoves, Mark
  <2>2. CASE e.from = n
    <3>1. e.to \in FixersOf(n)
      BY <2>2 DEF FixersOf
    <3> QED
      BY <1>0, <1>2, <2>1, <2>2, <3>1 DEF OneMoves
  <2>3. CASE e.from # n
    <3>1. e.to \in feedbackFor \/ status[e.to] = "completed"
      BY <1>0, <2>1, <2>3 DEF FixersKnow
    <3> QED
      BY <1>0, <1>2, <2>1, <3>1 DEF OneMoves
  <2> QED
    BY <2>2, <2>3
<1>3. ASSUME NEW n \in Ids, NEW new \in SUBSET Ids, ForkMoves(n, new)
      PROVE  e.to \in feedbackFor' \/ status'[e.to] = "completed"
  <2>1. n \in Forks /\ Def.kind[n] = "parallel_fork" /\ \A m \in Def.nodes : m \notin new
    BY <1>3, ForkShape DEF ForkMoves, Forks
  <2>2. \A m \in Def.nodes \cap Ids : m # n => status'[m] = status[m] /\ approved'[m] = approved[m]
    BY <1>3, <2>1 DEF ForkMoves, Expand
  <2>3. feedbackFor' = feedbackFor /\ e.from # n /\ e.to # n
    BY <1>0, <1>3, <2>1 DEF ForkMoves
  <2> QED
    BY <1>0, <2>2, <2>3 DEF FixersKnow
<1>4. ASSUME NEW l \in Ids, LoopMoves(l)
      PROVE  e.to \in feedbackFor' \/ status'[e.to] = "completed"
  <2>1. l \in Loops /\ Def.kind[l] = "loop" /\ feedbackFor' = feedbackFor
    BY <1>4 DEF LoopMoves, Loops
  <2>2. \A m \in Ids : status'[m] = IF m = l THEN "running" ELSE IF m \in BodySet(l) THEN "pending" ELSE status[m]
    BY <1>4 DEF LoopMoves, ResetBody
  <2>3. \A m \in Ids : m \notin BodySet(l) => approved'[m] = approved[m]
    BY <1>4 DEF LoopMoves, ResetBody
  <2>4. e.from # l /\ e.from \notin BodySet(l) /\ e.to # l /\ e.to \notin BodySet(l)
    BY <1>0, <2>1, <2>2
  <2> QED
    BY <1>0, <2>1, <2>2, <2>3, <2>4 DEF FixersKnow
<1> QED
  BY <1>1, <1>2, <1>3, <1>4 DEF NodesMove

(***************************************************************************)
(* recordRejectionFeedback, execAgent: however often the node behind a     *)
(* rejected gate is retried, each attempt has the feedback, in every       *)
(* definition whose loops contain a gate with the nodes it sends back to.  *)
(***************************************************************************)
THEOREM FeedbackCorrect ==
  ASSUME FixersFollowGates
  PROVE  Spec => []FeedbackReachesFixer
<1>1. Init => FixersKnow
  BY DefAssumption DEF Init, FixersKnow
<1>2. IInv /\ FixersKnow => FeedbackReachesFixer
  <2> SUFFICES ASSUME IInv, FixersKnow, NEW e \in Def.edges, e.cond = "rejected", Def.kind[e.to] = "agent",
                      status[e.to] \in {"running", "retrying"}
               PROVE  e.to \in feedbackFor
    BY DEF FeedbackReachesFixer
  <2>1. e \in Edges /\ Started(e.to) /\ e.to \in Def.nodes /\ Def.kind[e.from] = "human_approval"
    BY DefAssumption DEF Edges, Started, FixersFollowGates
  <2>2. e.to \notin LoopClones
    BY <2>1, CloneShape DEF LoopClones
  <2>3. Holds(e)
    BY <2>1, <2>2 DEF IInv, StartedJustified
  <2>4. status[e.from] = "completed" /\ ~approved[e.from]
    BY <2>1, <2>3 DEF Holds, EdgeConditionHolds
  <2> QED
    BY <2>4 DEF FixersKnow
<1>3. IInv /\ FlightOK /\ FixersKnow /\ [Next]_vars => FixersKnow'
  BY FixersStep
<1> QED
  BY <1>1, <1>2, <1>3, EngineAlways, PTL DEF Spec

-----------------------------------------------------------------------------
(***************************************************************************)
(* The last walk.  It begins when a whole walk found nothing ready, with   *)
(* nothing in flight; a node it skips has an in-edge, and none that holds. *)
(***************************************************************************)
Main == Created \ (LoopBodies \cup Def.templates)

WalkInv ==
  /\ phase = "walk" /\ ~progressed => /\ call = None /\ frames = <<>>
                                      /\ \A n \in Candidates \ todo : ~Ready(n)
  /\ phase # "walk" => call = None /\ frames = <<>>
  /\ phase = "walk" => \A n \in Ids : status[n] # "skipped"

LastWalk ==
  /\ phase = "final" =>
       \A n \in Main : ~Terminal(status[n]) =>
         status[n] = "pending" /\ n \in todo /\ \E e \in Edges : e.to = n
  /\ phase = "done" => \A n \in Main : Terminal(status[n])
  /\ phase \in {"final", "done"} =>
       \A n \in Main : status[n] = "skipped" => \E e \in Edges : e.to = n /\ Untaken(e)

(* What the walks look at only depends on the states of the nodes.         *)
LEMMA GraphStays ==
  ASSUME UNCHANGED <<status, approved, branch>>
  PROVE  /\ Created' = Created /\ Edges' = Edges /\ Candidates' = Candidates /\ Main' = Main
         /\ \A e \in Edges : Holds(e)' = Holds(e)
         /\ \A n : Ready(n)' = Ready(n)
<1>1. Created' = Created /\ Edges' = Edges
  BY EdgesStay DEF Created
<1>2. \A e \in Edges : Holds(e)' = Holds(e)
  BY <1>1, HoldsStays
<1>3. \A n : Ready(n)' = Ready(n)
  BY <1>1, <1>2 DEF Ready
<1> QED
  BY <1>1, <1>2, <1>3 DEF Candidates, Main, Schedulable

(* No executor skips a node.                                               *)
LEMMA ExecuteNoSkip ==
  ASSUME TypeOK, NEW n \in Ids, NEW rest, NEW fr, Execute(n, rest, fr)
  PROVE  \A m \in Ids : status'[m] = "skipped" => status[m] = "skipped"
<1>1. ASSUME NEW s \in {"running", "waiting_approval", "completed", "failed"}, Mark(n, s)
      PROVE  \A m \in Ids : status'[m] = "skipped" => status[m] = "skipped"
  BY <1>1 DEF Mark, TypeOK
<1>2. CASE ExecFork(n) /\ ~Mark(n, "failed")
  BY <1>2 DEF ExecFork, Expand
<1>3. CASE ExecLoop(n)
  BY <1>3 DEF ExecLoop, ResetBody
<1> QED
  BY <1>1, <1>2, <1>3 DEF Execute, ExecTrigger, ExecTransform, ExecSubworkflow, ExecCondition,
                          ExecFork, ExecJoin, ExecAgent, ExecApproval

LEMMA WalkStep == IInv /\ WalkInv /\ [Next]_vars => WalkInv'
<1> SUFFICES ASSUME IInv, WalkInv, [Next]_vars PROVE WalkInv'
  OBVIOUS
<1>0. TypeOK /\ progressed \in BOOLEAN /\ phase \in {"walk", "final", "done", "error"}
  BY DEF IInv, TypeOK
<1>1. ASSUME phase = "walk", phase' = "walk", progressed' = TRUE,
             \A m \in Ids : status'[m] = "skipped" => status[m] = "skipped"
      PROVE  WalkInv'
  BY <1>1 DEF WalkInv
<1>2. ASSUME NEW n \in Ids, Visit(n) PROVE WalkInv'
  <2>1. \A m \in Ids : status'[m] = "skipped" => status[m] = "skipped"
    BY <1>0, <1>2, ExecuteNoSkip DEF Visit
  <2> QED
    BY <1>1, <1>2, <2>1 DEF Visit, InMain, Execute
<1>3. ASSUME NEW n \in Ids, PassOver(n) PROVE WalkInv'
  <2>1. UNCHANGED <<status, approved, branch, phase, progressed, frames, call>> /\ todo' = todo \ {n}
        /\ ~Ready(n) /\ phase = "walk"
    BY <1>3 DEF PassOver, InMain, nodeVars
  <2>2. \A m : Ready(m)' = Ready(m)
    BY <2>1, GraphStays
  <2>3. Candidates' = Candidates
    BY <2>1, GraphStays
  <2> QED
    BY <2>1, <2>2, <2>3 DEF WalkInv
<1>4. ASSUME NEW n \in Ids, SkipOrDeadlock(n) PROVE WalkInv'
  BY <1>4 DEF SkipOrDeadlock, WalkInv
<1>5. ASSUME EndWalk PROVE WalkInv'
  <2>1. UNCHANGED <<status, approved, branch, frames, call>> /\ todo' = Candidates
        /\ phase = "walk" /\ call = None /\ frames = <<>>
    BY <1>5 DEF EndWalk, InMain, nodeVars
  <2>2. Candidates' = Candidates
    BY <2>1, GraphStays
  <2> QED
    BY <2>1, <2>2 DEF WalkInv
<1>6. ASSUME Return PROVE WalkInv'
  BY <1>6 DEF Return, WalkInv, nodeVars
<1>7. ASSUME BodyVisit PROVE WalkInv'
  <2>1. phase = "walk" /\ frames # <<>> /\ progressed' = progressed
        /\ Execute(BodyNode, todo, WithTop(AtPos(Top, Top.pos + 1, TRUE)))
        /\ Top.pos <= Len(Def.body[Top.loop])
    BY <1>7 DEF BodyVisit, InBody
  <2>2. phase' = "walk" /\ progressed' = TRUE
    BY <1>0, <2>1 DEF WalkInv, Execute
  <2>3. BodyNode \in Ids
    <3>1. Top \in FrameType /\ Top.loop \in Loops
      BY <1>0, <2>1, TopFrame
    <3>2. Def.body[Top.loop] \in Seq(Def.nodes) /\ Top.pos \in Nat \ {0}
      BY <3>1, LoopBody DEF FrameType
    <3>3. Top.pos \in DOMAIN Def.body[Top.loop]
      BY <2>1, <3>2
    <3> QED
      BY <3>2, <3>3, DefAssumption DEF BodyNode
  <2> QED
    BY <1>0, <1>1, <2>1, <2>2, <2>3, ExecuteNoSkip
<1>8. ASSUME BodyPassOver \/ BodyAgain \/ LoopEnds \/ LoopIterates PROVE WalkInv'
  <2>1. phase = "walk" /\ frames # <<>> /\ progressed' = progressed /\ phase' = "walk"
    BY <1>8 DEF BodyPassOver, BodyAgain, LoopEnds, LoopIterates, BodyWalked, InBody
  <2>2. progressed' = TRUE
    BY <1>0, <2>1 DEF WalkInv
  <2>3. \A m \in Ids : status'[m] = "skipped" => status[m] = "skipped"
    <3>1. CASE BodyPassOver \/ BodyAgain
      BY <3>1 DEF BodyPassOver, BodyAgain, nodeVars
    <3>2. CASE LoopEnds
      <4>1. PICK s \in {"completed", "failed"} : Mark(Top.loop, s)
        BY <3>2 DEF LoopEnds, LoopReturns
      <4> QED
        BY <1>0, <4>1 DEF Mark, TypeOK
    <3>3. CASE LoopIterates
      BY <3>3 DEF LoopIterates, ResetBody
    <3> QED
      BY <1>8, <3>1, <3>2, <3>3
  <2> QED
    BY <1>1, <2>1, <2>2, <2>3
<1>9. ASSUME NEW n \in Ids, Returns(n) PROVE WalkInv'
  <2>1. call # None /\ UNCHANGED <<phase, progressed>>
    BY <1>9, DefAssumption DEF Returns, AgentSucceeds, AgentFails, BackoffEnds, GateReturns, GateCancelled, controlVars
  <2>2. phase = "walk" /\ phase' = "walk" /\ progressed' = TRUE
    BY <1>0, <2>1 DEF WalkInv
  <2>3. \E s \in {"pending", "retrying", "completed", "failed"} : Mark(n, s)
    BY <1>9 DEF Returns, AgentSucceeds, AgentFails, BackoffEnds, GateReturns, GateCancelled
  <2>4. \A m \in Ids : status'[m] = "skipped" => status[m] = "skipped"
    BY <1>0, <2>3 DEF Mark, TypeOK
  <2> QED
    BY <1>1, <2>2, <2>4
<1>10. CASE UNCHANGED <<status, approved, branch, phase, todo, progressed, frames, call>>
  <2>1. Candidates' = Candidates /\ \A m : Ready(m)' = Ready(m)
    BY <1>10, GraphStays
  <2> QED
    BY <1>10, <2>1 DEF WalkInv
<1>11. \/ \E n \in Ids : Visit(n) \/ PassOver(n) \/ SkipOrDeadlock(n) \/ Returns(n)
       \/ EndWalk \/ Return \/ BodyVisit \/ BodyPassOver \/ BodyAgain \/ LoopEnds \/ LoopIterates
       \/ UNCHANGED <<status, approved, branch, phase, todo, progressed, frames, call>>
  BY DEF Next, Walk, Body, Idle, Decide, Cancel, vars, nodeVars
<1> QED
  BY <1>2, <1>3, <1>4, <1>5, <1>6, <1>7, <1>8, <1>9, <1>10, <1>11

LEMMA LastWalkBegins ==
  ASSUME IInv, FlightOK, WalkInv, EndWalk, phase' = "final"
  PROVE  LastWalk'
<1>1. /\ UNCHANGED <<status, approved, branch>> /\ todo = {} /\ todo' = Candidates /\ ~progressed
      /\ phase = "walk" /\ call = None /\ frames = <<>>
  BY DEF EndWalk, InMain, nodeVars
<1>2. /\ Created' = Created /\ Edges' = Edges /\ Main' = Main
      /\ \A e \in Edges : Holds(e)' = Holds(e)
  BY <1>1, GraphStays
<1>3. \A n \in Candidates : ~Ready(n)
  BY <1>1 DEF WalkInv
<1>4. ASSUME NEW n \in Main, ~Terminal(status[n])
      PROVE  status[n] = "pending" /\ n \in Candidates /\ \E e \in Edges : e.to = n
  <2>1. n \in Ids /\ status[n] # "absent" /\ status[n] \in Statuses
    BY DEF Main, Created, IInv, TypeOK
  <2>2. ~Busy(status[n])
    BY <1>1, <2>1, DefAssumption DEF FlightOK, Stacked
  <2>3. status[n] = "pending"
    BY <1>4, <2>1, <2>2 DEF Busy, Statuses, Terminal
  <2>4. n \in Candidates
    BY <2>3 DEF Main, Candidates, Schedulable
  <2> QED
    BY <1>3, <2>3, <2>4 DEF Ready
<1>5. \A n \in Main : status[n] # "skipped"
  BY <1>1 DEF Main, Created, WalkInv
<1> QED
  BY <1>1, <1>2, <1>4, <1>5 DEF LastWalk

-----------------------------------------------------------------------------
(***************************************************************************)
(* Skipping a node makes its "always" edges hold, and only these: the      *)
(* edges of a condition ask for its branch, the others for more than that. *)
(***************************************************************************)
LEMMA UntakenStays ==
  ASSUME IInv, NEW n \in Ids, SkipOrDeadlock(n), Mark(n, "skipped")
  PROVE  /\ Created' = Created /\ Edges' = Edges /\ Main' = Main
         /\ \A e \in Edges : Untaken(e) => Untaken(e)'
<1>1. UNCHANGED <<approved, branch>> /\ status[n] = "pending"
  BY DEF SkipOrDeadlock, Schedulable
<1>3. status'[n] = "skipped" /\ \A m \in Ids \ {n} : status'[m] = status[m]
  BY DEF Mark, IInv, TypeOK
<1>4. Created' = Created
  BY <1>1, <1>3 DEF Created
<1>5. Edges' = Edges /\ Main' = Main
  BY <1>4, EdgesStay DEF Main
<1>6. ASSUME NEW e \in Edges, Untaken(e) PROVE Untaken(e)'
  <2>1. CASE e.from # n
    <3>1. status'[e.from] = status[e.from]
      BY <1>3, <2>1, EdgeShape
    <3>2. Holds(e)' = Holds(e)
      BY <1>1, <1>5, <2>1, <3>1, HoldsStays
    <3> QED
      BY <1>6, <3>1, <3>2 DEF Untaken
  <2>2. CASE e.from = n /\ Def.kind[n] = "condition"
    <3>1. ~Holds(e)
      BY <1>1, <1>6, <2>2 DEF Untaken
    <3>2. Holds(e)' = Holds(e)
      BY <1>1, <1>5, <2>2 DEF Holds, EdgeActive
    <3> QED
      BY <3>1, <3>2 DEF Untaken
  <2>3. CASE e.from = n /\ Def.kind[n] # "condition"
    BY <1>3, <2>3 DEF Untaken, Holds, EdgeConditionHolds
  <2> QED
    BY <2>1, <2>2, <2>3
<1> QED
  BY <1>4, <1>5, <1>6

LEMMA LastWalkSkips ==
  ASSUME IInv, LastWalk,
         NEW n \in Ids, SkipOrDeadlock(n), Mark(n, "skipped"), phase' = phase
  PROVE  LastWalk'
<1>1. /\ phase = "final" /\ n \in todo /\ todo' = todo \ {n} /\ UNCHANGED <<approved, branch>>
      /\ status[n] = "pending" /\ n \notin LoopBodies /\ n \notin Def.templates
  BY DEF SkipOrDeadlock, Schedulable
<1>2. ~AnyActiveIn(n)
  BY <1>1 DEF SkipOrDeadlock
<1>3. status'[n] = "skipped" /\ \A m \in Ids \ {n} : status'[m] = status[m]
  BY DEF Mark, IInv, TypeOK
<1>5. Edges' = Edges /\ Main' = Main
  BY UntakenStays
<1>6. ASSUME NEW e \in Edges, Untaken(e) PROVE Untaken(e)'
  BY <1>6, UntakenStays
<1>7. n \in Main /\ \E e \in Edges : e.to = n /\ Untaken(e)
  <2>1. n \in Main
    BY <1>1 DEF Main, Created
  <2>2. \E e \in Edges : e.to = n
    BY <1>1, <2>1 DEF LastWalk, Terminal
  <2> QED
    BY <1>2, <2>1, <2>2 DEF AnyActiveIn, Untaken
<1>8. ASSUME NEW m \in Main, status'[m] = "skipped" PROVE \E e \in Edges : e.to = m /\ Untaken(e)'
  <2>1. m \in Ids
    BY DEF Main, Created
  <2>2. \E e \in Edges : e.to = m /\ Untaken(e)
    BY <1>1, <1>3, <1>7, <1>8, <2>1 DEF LastWalk
  <2> QED
    BY <1>6, <2>2
<1>9. ASSUME NEW m \in Main, ~Terminal(status'[m])
      PROVE  status'[m] = "pending" /\ m \in todo' /\ \E e \in Edges : e.to = m
  <2>1. m \in Ids /\ m # n
    BY <1>3, <1>9 DEF Main, Created, Terminal
  <2> QED
    BY <1>1, <1>3, <1>9, <2>1 DEF LastWalk
<1> QED
  BY <1>1, <1>5, <1>8, <1>9 DEF LastWalk

LEMMA LastWalkStep ==
  (IInv /\ FlightOK) /\ WalkInv /\ LastWalk /\ [Next]_vars => LastWalk'
<1> SUFFICES ASSUME IInv, FlightOK, WalkInv, LastWalk, [Next]_vars PROVE LastWalk'
  OBVIOUS
<1>1. CASE phase' \notin {"final", "done"}
  BY <1>1 DEF LastWalk
<1>2. CASE EndWalk
  BY <1>1, <1>2, LastWalkBegins DEF EndWalk
<1>3. CASE Return
  <2>1. UNCHANGED <<status, approved, branch>> /\ phase = "final" /\ todo = {} /\ phase' = "done"
    BY <1>3 DEF Return, nodeVars
  <2>2. Edges' = Edges /\ Main' = Main /\ \A e \in Edges : Untaken(e)' = Untaken(e)
    BY <2>1, GraphStays DEF Untaken
  <2> QED
    BY <2>1, <2>2 DEF LastWalk
<1>4. ASSUME NEW n \in Ids, SkipOrDeadlock(n) PROVE LastWalk'
  <2>1. phase' = "error" \/ (Mark(n, "skipped") /\ phase' = phase)
    BY <1>4 DEF SkipOrDeadlock
  <2> QED
    BY <1>1, <1>4, <2>1, LastWalkSkips
<1>5. CASE UNCHANGED <<status, approved, branch, phase, todo>>
  <2>1. Edges' = Edges /\ Main' = Main /\ \A e \in Edges : Untaken(e)' = Untaken(e)
    BY <1>5, GraphStays DEF Untaken
  <2> QED
    BY <1>5, <2>1 DEF LastWalk
<1>6. CASE phase = "walk" /\ phase' = phase
  BY <1>1, <1>6
<1>7. \/ phase = "walk" /\ phase' = phase
      \/ EndWalk \/ Return \/ \E n \in Ids : SkipOrDeadlock(n)
      \/ UNCHANGED <<status, approved, branch, phase, todo>>
  <2>1. ASSUME NEW n \in Ids, Returns(n) PROVE phase = "walk" /\ phase' = phase
    BY <2>1, DefAssumption DEF Returns, AgentSucceeds, AgentFails, BackoffEnds, GateReturns,
                               GateCancelled, controlVars, WalkInv
  <2>2. ASSUME Body PROVE phase = "walk" /\ phase' = phase
    BY <2>2 DEF Body, BodyVisit, BodyPassOver, BodyAgain, LoopEnds, LoopIterates, BodyWalked, InBody, Execute
  <2>3. ASSUME NEW n \in Ids, Visit(n) \/ PassOver(n) PROVE phase = "walk" /\ phase' = phase
    BY <2>3 DEF Visit, PassOver, InMain, Execute
  <2> QED
    BY <2>1, <2>2, <2>3 DEF Next, Walk, Idle, Decide, Cancel, vars, nodeVars
<1> QED
  BY <1>2, <1>3, <1>4, <1>5, <1>6, <1>7

LEMMA WalkInit == Init => WalkInv /\ LastWalk
<1> SUFFICES ASSUME Init PROVE WalkInv /\ LastWalk
  OBVIOUS
<1>1. phase = "walk" /\ call = None /\ frames = <<>>
  BY DEF Init
<1>2. \A n \in Ids : status[n] = IF n \in Def.nodes THEN "pending" ELSE "absent"
  BY DEF Init
<1>3. Candidates \subseteq todo
  BY <1>2 DEF Init, Candidates, Created, Schedulable
<1> QED
  BY <1>1, <1>2, <1>3 DEF WalkInv, LastWalk

(* Of the targets of a condition that started, all are behind one branch.  *)
LEMMA BranchesExclusive == StartedJustified => ExclusiveBranches
<1> SUFFICES ASSUME StartedJustified, NEW d \in Edges, NEW e \in Edges,
                    Def.kind[d.from] = "condition", Def.kind[d.to] # "join",
                    Def.kind[e.from] = "condition", Def.kind[e.to] # "join",
                    d.from = e.from, d.key # e.key, Started(d.to), Started(e.to)
             PROVE  FALSE
  BY DEF ExclusiveBranches
<1>1. ASSUME NEW x \in Edges, Def.kind[x.from] = "condition", Def.kind[x.to] # "join", Started(x.to)
      PROVE  EdgeActive(x)
  <2>1. x \in Def.edges
    <3>1. SUFFICES ASSUME x \notin Def.edges PROVE FALSE
      OBVIOUS
    <3>2. PICK f \in Forks : \E c \in CloneSet(f) \cap Created :
            x = Edge(f, c) \/ \E j \in JoinOf(f) : x = Edge(c, j)
      BY <3>1, EdgeShape
    <3>3. PICK c \in CloneSet(f) : x = Edge(f, c) \/ \E j \in JoinOf(f) : x = Edge(c, j)
      BY <3>2
    <3>4. Def.kind[f] = "parallel_fork" /\ Def.kind[c] = "agent"
      BY CloneShape DEF Forks
    <3> QED
      BY <1>1, <3>3, <3>4 DEF Edge
  <2>2. x.to \notin LoopClones
    <3>1. x.to \in Def.nodes
      BY <2>1, DefAssumption
    <3> QED
      BY <3>1, CloneShape DEF LoopClones
  <2> QED
    BY <1>1, <2>2 DEF StartedJustified, Holds
<1>2. EdgeActive(d) /\ EdgeActive(e)
  BY <1>1
<1> QED
  BY <1>2 DEF EdgeActive

(***************************************************************************)
(* A condition starts the targets of one branch only, and when Run returns *)
(* without error, what was skipped was not taken, however the maps are     *)
(* walked: an "always" edge that was taken leads to a skipped node only    *)
(* out of a node that was skipped too.                                     *)
(***************************************************************************)
THEOREM RoutesCorrect == Spec => []RoutesExact
<1>1. Spec => []WalkInv
  BY WalkInit, WalkStep, EngineAlways, PTL DEF Spec
<1>2. Spec => []LastWalk
  BY <1>1, LastWalkStep, WalkInit, EngineAlways, PTL DEF Spec
<1>3. IInv /\ LastWalk => RoutesExact
  BY BranchesExclusive DEF IInv, LastWalk, RoutesExact, SkippedUntaken, Main
<1> QED
  BY <1>2, <1>3, EngineAlways, PTL

-----------------------------------------------------------------------------
(* A set of natural numbers has a least one.                                *)
LEMMA LeastNatural ==
  ASSUME NEW T, T \subseteq Nat, T # {}
  PROVE  \E x \in T : \A y \in T : x <= y
<1> DEFINE F == {0 .. k : k \in T}
<1>1. F \subseteq FiniteSubsetsOf(Nat)
  <2>1. \A k \in Nat : IsFiniteSet(0 .. k) /\ 0 .. k \subseteq Nat
    BY FS_Interval
  <2> QED
    BY <2>1 DEF FiniteSubsetsOf
<1>2. \E s \in F : \A t \in F : ~ (<<t, s>> \in StrictSubsetOrdering(Nat))
  <2>1. IsWellFoundedOn(StrictSubsetOrdering(Nat), FiniteSubsetsOf(Nat))
    BY FS_StrictSubsetOrderingWellFounded
  <2>2. F # {}
    OBVIOUS
  <2> HIDE DEF F
  <2> QED
    BY <1>1, <2>1, <2>2, WFMin
<1>3. PICK x \in T : \A t \in F : ~ (<<t, 0 .. x>> \in StrictSubsetOrdering(Nat))
  BY <1>2
<1>4. ASSUME NEW y \in T, y < x PROVE FALSE
  <2>1. x \in Nat /\ y \in Nat /\ x \in 0 .. x /\ x \notin 0 .. y /\ 0 .. y \subseteq 0 .. x
    BY <1>4
  <2>2. 0 .. y \in SUBSET Nat /\ 0 .. x \in SUBSET Nat /\ 0 .. y # 0 .. x
    BY <2>1
  <2>3. <<0 .. y, 0 .. x>> \in StrictSubsetOrdering(Nat)
    BY <2>1, <2>2 DEF StrictSubsetOrdering
  <2> QED
    BY <1>3, <2>3
<1> QED
  BY <1>4

(* A node of the definition is never missing, is settled if it has its     *)
(* branch, and is not failed if it is a trigger.                           *)
NodeInv ==
  \A n \in Def.nodes :
    /\ status[n] # "absent"
    /\ branch[n] # None => Terminal(status[n])
    /\ Def.kind[n] = "trigger" => status[n] \in {"pending", "completed", "skipped"}

LEMMA NodeInit == Init => NodeInv
BY DefAssumption DEF Init, NodeInv

LEMMA NodeStep == IInv /\ FlightOK /\ NodeInv /\ [Next]_vars => NodeInv'
<1> SUFFICES ASSUME IInv, NodeInv, NothingMoves \/ NodesMove PROVE NodeInv'
  BY StepShape
<1>0. status \in [Ids -> Statuses] /\ Def.nodes \subseteq Ids
  BY DefAssumption DEF IInv, TypeOK
<1>1. CASE NothingMoves
  BY <1>1 DEF NothingMoves, NodeInv
<1>2. ASSUME NEW n \in Ids, NEW s \in Statuses \ {"absent"}, OneMoves(n, s) PROVE NodeInv'
  <2>1. status'[n] = s /\ \A m \in Ids \ {n} : status'[m] = status[m] /\ branch'[m] = branch[m]
    BY <1>0, <1>2 DEF OneMoves, Mark
  <2>2. /\ ~Terminal(status[n])
        /\ branch'[n] = branch[n] \/ Terminal(s)
        /\ Def.kind[n] = "trigger" => s \in {"completed", "skipped"}
    BY <1>2 DEF OneMoves, Terminal
  <2> QED
    BY <1>0, <2>1, <2>2 DEF NodeInv
<1>3. ASSUME NEW n \in Ids, NEW new \in SUBSET Ids, ForkMoves(n, new) PROVE NodeInv'
  <2>1. /\ \A m \in Ids : status'[m] = IF m = n THEN "completed" ELSE IF m \in new THEN "pending" ELSE status[m]
        /\ \A m \in Ids : branch'[m] = IF m \in new THEN None ELSE branch[m]
    BY <1>3 DEF ForkMoves, Expand
  <2>2. new \cap Def.nodes = {} /\ Def.kind[n] # "trigger"
    BY <1>3, ForkShape DEF ForkMoves, Forks
  <2> QED
    BY <1>0, <2>1, <2>2 DEF NodeInv, Terminal
<1>4. ASSUME NEW l \in Ids, LoopMoves(l) PROVE NodeInv'
  <2>1. l \in Loops /\ ~Terminal(status[l]) /\ Def.kind[l] # "trigger" /\ BodySet(l) \subseteq LoopBodies
    BY <1>4 DEF LoopMoves, Loops, LoopBodies, Terminal
  <2>2. /\ \A m \in Ids : status'[m] = IF m = l THEN "running" ELSE IF m \in BodySet(l) THEN "pending" ELSE status[m]
        /\ \A m \in Ids : branch'[m] = IF m \in BodySet(l) THEN None ELSE branch[m]
    BY <1>4 DEF LoopMoves, ResetBody
  <2> QED
    BY <1>0, <2>1, <2>2 DEF NodeInv
<1> QED
  BY <1>1, <1>2, <1>3, <1>4 DEF NodesMove

(* Nothing is pending that a walk could run when the last walk begins.     *)
LEMMA NothingReady ==
  ASSUME IInv, FlightOK, WalkInv, EndWalk, phase' = "final", NEW n \in Main, ~Terminal(status[n])
  PROVE  n \in Ids /\ status[n] = "pending" /\ ~Ready(n)
<1>1. todo = {} /\ ~progressed /\ phase = "walk" /\ call = None /\ frames = <<>>
  BY DEF EndWalk, InMain
<1>2. n \in Ids /\ status[n] # "absent" /\ status[n] \in Statuses
  BY DEF Main, Created, IInv, TypeOK
<1>3. ~Busy(status[n])
  BY <1>1, <1>2, DefAssumption DEF FlightOK, Stacked
<1>4. status[n] = "pending"
  BY <1>2, <1>3 DEF Busy, Statuses, Terminal
<1>5. n \in Candidates
  BY <1>2, <1>4 DEF Main, Candidates, Schedulable
<1> QED
  BY <1>1, <1>2, <1>4, <1>5 DEF WalkInv

(***************************************************************************)
(* What is pending when the last walk begins has a reason to wait, and     *)
(* what the last walk skips before it is only another one.                 *)
(***************************************************************************)
LEMMA WithheldBegins ==
  ASSUME IInv, FlightOK, WalkInv, EndWalk, phase' = "final"
  PROVE  DeadlockGenuine'
<1>1. UNCHANGED <<status, approved, branch>>
  BY DEF EndWalk, nodeVars
<1>2. Candidates' = Candidates /\ Edges' = Edges /\ \A e \in Edges : Holds(e)' = Holds(e)
  BY <1>1, GraphStays
<1>3. ASSUME NEW n \in Candidates PROVE Withheld(n)
  <2>1. n \in Main /\ status[n] = "pending"
    BY DEF Candidates, Schedulable, Main, Created
  <2>2. ~Ready(n)
    BY <2>1, NothingReady DEF Terminal
  <2> QED
    BY <2>1, <2>2 DEF Ready, Withheld
<1> QED
  BY <1>1, <1>2, <1>3 DEF DeadlockGenuine, Withheld

LEMMA WithheldStays ==
  ASSUME IInv, DeadlockGenuine, NEW n \in Ids, SkipOrDeadlock(n), Mark(n, "skipped"), phase' = phase
  PROVE  DeadlockGenuine'
<1>1. UNCHANGED <<approved, branch>> /\ status[n] = "pending" /\ phase = "final"
  BY DEF SkipOrDeadlock, Schedulable
<1>2. status'[n] = "skipped" /\ \A m \in Ids \ {n} : status'[m] = status[m]
  BY DEF Mark, IInv, TypeOK
<1>3. Created' = Created /\ Edges' = Edges
  BY UntakenStays
<1>4. ASSUME NEW m \in Candidates' PROVE Withheld(m)'
  <2>1. m \in Candidates
    BY <1>2, <1>3, <1>4 DEF Candidates, Created, Schedulable
  <2>2. PICK e \in Edges : e.to = m /\ (~Terminal(status[e.from]) \/ status[e.from] = "skipped"
                                       \/ (Def.kind[m] # "join" /\ ~Holds(e)))
    BY <1>1, <2>1 DEF DeadlockGenuine, Withheld
  <2>3. CASE e.from = n
    BY <1>2, <1>3, <2>2, <2>3 DEF Withheld
  <2>4. CASE e.from # n
    <3>1. status'[e.from] = status[e.from]
      BY <1>2, <2>4, EdgeShape
    <3>2. Holds(e)' = Holds(e)
      BY <1>1, <1>3, <2>4, <3>1, HoldsStays
    <3> QED
      BY <1>3, <2>2, <3>1, <3>2 DEF Withheld
  <2> QED
    BY <2>3, <2>4
<1> QED
  BY <1>1, <1>4 DEF DeadlockGenuine

LEMMA DeadlockStep == IInv /\ FlightOK /\ WalkInv /\ DeadlockGenuine /\ [Next]_vars => DeadlockGenuine'
<1> SUFFICES ASSUME IInv, FlightOK, WalkInv, DeadlockGenuine, [Next]_vars PROVE DeadlockGenuine'
  OBVIOUS
<1>1. CASE phase' \notin {"final", "error"}
  BY <1>1 DEF DeadlockGenuine
<1>2. CASE EndWalk
  BY <1>1, <1>2, WithheldBegins DEF EndWalk
<1>3. ASSUME NEW n \in Ids, SkipOrDeadlock(n) PROVE DeadlockGenuine'
  <2>1. CASE Mark(n, "skipped") /\ phase' = phase
    BY <1>3, <2>1, WithheldStays
  <2>2. CASE AnyActiveIn(n) /\ phase' = "error" /\ UNCHANGED status
    <3>1. UNCHANGED <<status, approved, branch>> /\ phase = "final" /\ Schedulable(n) /\ n \in Candidates
      BY <1>3, <2>2 DEF SkipOrDeadlock, Candidates, Created, Schedulable
    <3>2. Candidates' = Candidates /\ Edges' = Edges /\ \A e \in Edges : Holds(e)' = Holds(e)
      BY <3>1, GraphStays
    <3> QED
      BY <2>2, <3>1, <3>2 DEF DeadlockGenuine, Withheld, AnyActiveIn
  <2> QED
    BY <1>3, <2>1, <2>2 DEF SkipOrDeadlock
<1>4. CASE UNCHANGED <<status, approved, branch, phase>>
  <2>1. Candidates' = Candidates /\ Edges' = Edges /\ \A e \in Edges : Holds(e)' = Holds(e)
    BY <1>4, GraphStays
  <2> QED
    BY <1>4, <2>1 DEF DeadlockGenuine, Withheld, AnyActiveIn
<1>5. \/ phase' \notin {"final", "error"} \/ EndWalk \/ \E n \in Ids : SkipOrDeadlock(n)
      \/ UNCHANGED <<status, approved, branch, phase>>
  BY DefAssumption
     DEF Next, Walk, Body, Returns, Idle, Finished, Visit, PassOver, EndWalk, Return, InMain, InBody, BodyWalked,
         Execute, BodyVisit, BodyPassOver, BodyAgain, LoopEnds, LoopIterates, AgentSucceeds, AgentFails,
         BackoffEnds, GateReturns, GateCancelled, controlVars, Decide, Cancel, vars, nodeVars, WalkInv
<1> QED
  BY <1>1, <1>2, <1>3, <1>4, <1>5

(***************************************************************************)
(* Run walks on while anything is ready, whatever the conditions, gates    *)
(* and agents yield and in whatever order the maps are walked: the         *)
(* deadlock error is never raised over a node that could have run.         *)
(***************************************************************************)
THEOREM DeadlockCorrect == Spec => []DeadlockGenuine
<1>1. Spec => []WalkInv
  BY WalkInit, WalkStep, EngineAlways, PTL DEF Spec
<1>2. Init => DeadlockGenuine
  BY DEF Init, DeadlockGenuine
<1> QED
  BY <1>1, <1>2, DeadlockStep, EngineAlways, PTL DEF Spec

-----------------------------------------------------------------------------
(***************************************************************************)
(* A walk of a body that has executed nothing yet has nothing in flight,   *)
(* and has found nothing ready so far.  The loops below the one on top     *)
(* were executed by a walk, which has moved.                               *)
(***************************************************************************)
Passed(m) == \E i \in 1 .. Top.pos - 1 : m = Def.body[Top.loop][i]

BodyWalk ==
  /\ \A i \in DOMAIN frames : i < Len(frames) => frames[i].moved
  /\ frames # <<>> /\ ~Top.moved => call = None /\ \A m \in Ids : Passed(m) => ~Ready(m)

LEMMA ExecuteBody ==
  ASSUME NEW n \in Ids, NEW rest, NEW fr \in Seq(FrameType), \A i \in DOMAIN fr : fr[i].moved,
         call = None, Execute(n, rest, fr)
  PROVE  BodyWalk'
<1>1. CASE Def.kind[n] # "loop"
  <2>1. frames' = fr
    BY <1>1 DEF Execute
  <2>2. frames' # <<>> => Len(frames') \in DOMAIN frames'
    BY <2>1
  <2> QED
    BY <2>1, <2>2 DEF BodyWalk, Top
<1>2. CASE Def.kind[n] = "loop"
  <2>1. frames' = Append(fr, Frame(n, 1)) /\ call' = None
    BY <1>2 DEF Execute, ExecLoop, ExecTrigger, ExecTransform, ExecSubworkflow, ExecCondition,
                ExecFork, ExecJoin, ExecAgent, ExecApproval
  <2>2. /\ Len(frames') = Len(fr) + 1 /\ DOMAIN frames' = 1 .. (Len(fr) + 1)
        /\ frames'[Len(frames')] = Frame(n, 1)
        /\ \A i \in DOMAIN frames' : i < Len(frames') => i \in DOMAIN fr /\ frames'[i] = fr[i]
    BY <2>1
  <2>3. Top'.pos = 1
    BY <2>2 DEF Top, Frame
  <2>4. \A i \in DOMAIN frames' : i < Len(frames') => frames'[i].moved
    BY <2>2
  <2>5. \A m : ~Passed(m)'
    BY <2>3 DEF Passed
  <2> QED
    BY <2>1, <2>4, <2>5 DEF BodyWalk
<1> QED
  BY <1>1, <1>2

(* The frame on top is replaced by one whose walk begins, or has moved.     *)
LEMMA TopReplaced ==
  ASSUME frames \in Seq(FrameType), frames # <<>>, BodyWalk, call' = None,
         NEW f, f.moved \/ f.pos = 1, frames' = WithTop(f)
  PROVE  BodyWalk'
<1>1. /\ Len(frames') = Len(frames) /\ DOMAIN frames' = DOMAIN frames /\ Len(frames) \in DOMAIN frames
      /\ frames'[Len(frames')] = f
      /\ \A i \in DOMAIN frames' : i < Len(frames') => frames'[i] = frames[i]
  BY DEF WithTop
<1>2. Top' = f
  BY <1>1 DEF Top
<1>3. f.pos = 1 => \A m : ~Passed(m)'
  BY <1>2 DEF Passed
<1> QED
  BY <1>1, <1>2, <1>3 DEF BodyWalk

LEMMA BodyStep == IInv /\ WalkInv /\ BodyWalk /\ [Next]_vars => BodyWalk'
<1> SUFFICES ASSUME IInv, WalkInv, BodyWalk, [Next]_vars PROVE BodyWalk'
  OBVIOUS
<1>0. TypeOK /\ frames \in Seq(FrameType)
  BY DEF IInv, TypeOK
<1>1. ASSUME NEW n \in Ids, Visit(n) PROVE BodyWalk'
  <2>1. frames = <<>> /\ call = None /\ Execute(n, todo \ {n}, frames)
    BY <1>1 DEF Visit, InMain
  <2>2. \A i \in DOMAIN frames : frames[i].moved
    BY <2>1
  <2> QED
    BY <1>0, <2>1, <2>2, ExecuteBody
<1>2. CASE BodyVisit
  <2>1. /\ frames # <<>> /\ call = None
        /\ Execute(BodyNode, todo, WithTop(AtPos(Top, Top.pos + 1, TRUE)))
        /\ Top.pos <= Len(Def.body[Top.loop])
    BY <1>2 DEF BodyVisit, InBody
  <2>2. BodyNode \in Ids
    <3>1. Top \in FrameType /\ Top.loop \in Loops
      BY <1>0, <2>1, TopFrame
    <3>2. Def.body[Top.loop] \in Seq(Def.nodes) /\ Top.pos \in Nat \ {0}
      BY <3>1, LoopBody DEF FrameType
    <3>3. Top.pos \in DOMAIN Def.body[Top.loop]
      BY <2>1, <3>2
    <3> QED
      BY <3>2, <3>3, DefAssumption DEF BodyNode
  <2>3. WithTop(AtPos(Top, Top.pos + 1, TRUE)) \in Seq(FrameType)
    BY <1>0, <2>1, TopMoves DEF FrameOK
  <2>4. AtPos(Top, Top.pos + 1, TRUE).moved
    BY DEF AtPos
  <2>5. PICK fr : fr = WithTop(AtPos(Top, Top.pos + 1, TRUE))
    OBVIOUS
  <2>6. \A i \in DOMAIN fr : fr[i].moved
    <3>1. DOMAIN fr = DOMAIN frames /\ DOMAIN frames = 1 .. Len(frames) /\ Len(frames) \in Nat
      BY <1>0, <2>5 DEF WithTop
    <3>2. \A i \in DOMAIN frames : fr[i] = IF i = Len(frames) THEN AtPos(Top, Top.pos + 1, TRUE) ELSE frames[i]
      BY <2>5 DEF WithTop
    <3>3. \A i \in DOMAIN frames : i = Len(frames) \/ i < Len(frames)
      BY <3>1
    <3> QED
      BY <2>4, <3>1, <3>2, <3>3 DEF BodyWalk
  <2> QED
    BY <2>1, <2>2, <2>3, <2>5, <2>6, ExecuteBody
<1>3. CASE BodyPassOver
  <2>1. /\ frames # <<>> /\ call = None /\ call' = None /\ UNCHANGED <<status, approved, branch>>
        /\ ~Ready(BodyNode) /\ frames' = WithTop(AtPos(Top, Top.pos + 1, Top.moved))
    BY <1>3 DEF BodyPassOver, InBody, nodeVars
  <2>2. CASE Top.moved
    <3>1. AtPos(Top, Top.pos + 1, Top.moved).moved
      BY <2>2 DEF AtPos
    <3> QED
      BY <1>0, <2>1, <3>1, TopReplaced
  <2>3. CASE ~Top.moved
    <3>1. /\ Len(frames') = Len(frames) /\ DOMAIN frames' = DOMAIN frames /\ Len(frames) \in DOMAIN frames
          /\ frames'[Len(frames')] = AtPos(Top, Top.pos + 1, Top.moved)
          /\ \A i \in DOMAIN frames' : i < Len(frames') => frames'[i] = frames[i]
      BY <1>0, <2>1 DEF WithTop
    <3>2. Top'.pos = Top.pos + 1 /\ Top'.loop = Top.loop
      BY <3>1 DEF Top, AtPos
    <3>3. \A m : Ready(m)' = Ready(m)
      BY <2>1, GraphStays
    <3>4. Top.pos \in Nat
      BY <1>0, <2>1, TopFrame DEF FrameType
    <3>5. ASSUME NEW m \in Ids, Passed(m)' PROVE ~Ready(m)'
      <4>1. PICK i \in 1 .. Top'.pos - 1 : m = Def.body[Top'.loop][i]
        BY <3>5 DEF Passed
      <4>2. CASE i = Top.pos
        BY <2>1, <3>2, <3>3, <4>1, <4>2 DEF BodyNode
      <4>3. CASE i # Top.pos
        <5>1. i \in 1 .. Top.pos - 1
          BY <3>2, <3>4, <4>1, <4>3
        <5>2. Passed(m)
          BY <3>2, <4>1, <5>1 DEF Passed
        <5> QED
          BY <2>1, <2>3, <3>3, <5>2 DEF BodyWalk
      <4> QED
        BY <4>2, <4>3
    <3> QED
      BY <2>1, <3>1, <3>5 DEF BodyWalk
  <2> QED
    BY <2>2, <2>3
<1>4. CASE BodyAgain
  <2>1. frames # <<>> /\ call' = None /\ frames' = WithTop(AtPos(Top, 1, FALSE))
    BY <1>4 DEF BodyAgain, BodyWalked, InBody
  <2>2. AtPos(Top, 1, FALSE).pos = 1
    BY DEF AtPos
  <2> QED
    BY <1>0, <2>1, <2>2, TopReplaced
<1>5. CASE LoopEnds
  <2>1. frames # <<>> /\ frames' = Outer /\ Len(frames) \in DOMAIN frames
    BY <1>0, <1>5 DEF LoopEnds, LoopReturns, BodyWalked, InBody
  <2>2. /\ DOMAIN frames' = 1 .. (Len(frames) - 1)
        /\ \A i \in DOMAIN frames' : i \in DOMAIN frames /\ i < Len(frames) /\ frames'[i] = frames[i]
    BY <1>0, <2>1 DEF Outer
  <2>3. \A i \in DOMAIN frames' : frames'[i].moved
    BY <2>2 DEF BodyWalk
  <2>4. frames' \in Seq(FrameType)
    BY <1>0, <2>1, TopFrame DEF FrameOK
  <2>5. frames' # <<>> => Len(frames') \in DOMAIN frames'
    BY <2>4
  <2> QED
    BY <2>3, <2>5 DEF BodyWalk, Top
<1>6. CASE LoopIterates
  <2>1. frames # <<>> /\ call' = None /\ frames' = WithTop(Frame(Top.loop, Top.iter + 1))
    BY <1>6 DEF LoopIterates, BodyWalked, InBody
  <2>2. Frame(Top.loop, Top.iter + 1).pos = 1
    BY DEF Frame
  <2> QED
    BY <1>0, <2>1, <2>2, TopReplaced
<1>7. ASSUME NEW n \in Ids, Returns(n) PROVE BodyWalk'
  <2>1. call # None /\ UNCHANGED frames
    BY <1>7, DefAssumption DEF Returns, AgentSucceeds, AgentFails, BackoffEnds, GateReturns, GateCancelled, controlVars
  <2> QED
    BY <2>1 DEF BodyWalk, Top
<1>8. CASE frames = <<>> /\ UNCHANGED frames
  BY <1>0, <1>8 DEF BodyWalk
<1>9. CASE UNCHANGED <<status, approved, branch, frames, call>>
  <2>1. \A m : Ready(m)' = Ready(m)
    BY <1>9, GraphStays
  <2> QED
    BY <1>9, <2>1 DEF BodyWalk, Passed, Top
<1>10. \/ \E n \in Ids : Visit(n) \/ Returns(n)
       \/ BodyVisit \/ BodyPassOver \/ BodyAgain \/ LoopEnds \/ LoopIterates
       \/ frames = <<>> /\ UNCHANGED frames
       \/ UNCHANGED <<status, approved, branch, frames, call>>
  BY DEF Next, Walk, Body, Idle, PassOver, SkipOrDeadlock, EndWalk, Return, InMain, Decide, Cancel, vars, nodeVars, WalkInv
<1> QED
  BY <1>1, <1>2, <1>3, <1>4, <1>5, <1>6, <1>7, <1>8, <1>9, <1>10

(* A walk that ends without having moved has passed the whole body.        *)
LEMMA BodyExhausted ==
  ASSUME IInv, BodyWalk, BodyWalked, ~Top.moved, NEW n \in BodySet(Top.loop)
  PROVE  ~Ready(n)
<1>1. frames # <<>> /\ Top.pos > Len(Def.body[Top.loop]) /\ TypeOK /\ frames \in Seq(FrameType)
  BY DEF BodyWalked, InBody, IInv, TypeOK
<1>2. Top \in FrameType /\ Top.loop \in Loops
  BY <1>1, TopFrame
<1>3. Top.pos \in Nat /\ Def.body[Top.loop] \in Seq(Def.nodes) /\ n \in Ids
  BY <1>2, LoopBody, DefAssumption DEF FrameType
<1>4. PICK i \in DOMAIN Def.body[Top.loop] : n = Def.body[Top.loop][i]
  BY DEF BodySet
<1>5. i \in 1 .. Top.pos - 1
  BY <1>1, <1>3
<1>6. Passed(n)
  BY <1>4, <1>5 DEF Passed
<1> QED
  BY <1>1, <1>3, <1>6 DEF BodyWalk

(* A loop completes at the end of an iteration, over a settled body.       *)
LEMMA LoopCompletes ==
  ASSUME IInv, FlightOK, [Next]_vars, NEW l \in Loops, status'[l] = "completed", status[l] # "completed"
  PROVE  \A n \in BodySet(l) : Terminal(status[n]) /\ status'[n] = status[n]
<1>0. /\ status \in [Ids -> Statuses] /\ l \in Ids /\ Def.kind[l] = "loop" /\ l \in Def.nodes
      /\ BodySet(l) \subseteq Ids \ {l}
  BY DepthFact, LoopBody, DefAssumption DEF IInv, TypeOK, Loops
<1>1. ASSUME NEW n \in Ids, NEW rest, NEW fr, Execute(n, rest, fr) PROVE FALSE
  <2>1. ASSUME NEW s, Mark(n, s), Def.kind[n] # "loop" PROVE FALSE
    BY <1>0, <2>1 DEF Mark
  <2>2. CASE ExecFork(n)
    <3>1. CASE \E k \in 0 .. Len(Def.clones[n]) : Expand(n, {Def.clones[n][i] : i \in 1 .. k})
      <4>1. PICK new : Expand(n, new)
        BY <3>1
      <4> QED
        BY <1>0, <2>2, <4>1 DEF Expand, ExecFork
    <3> QED
      BY <2>1, <2>2, <3>1 DEF ExecFork
  <2>3. CASE ExecLoop(n)
    BY <1>0, <2>3 DEF ExecLoop, ResetBody
  <2> QED
    BY <1>1, <2>1, <2>2, <2>3
       DEF Execute, ExecTrigger, ExecTransform, ExecSubworkflow, ExecCondition, ExecJoin, ExecAgent, ExecApproval
<1>2. ASSUME NEW n \in Ids, Returns(n) PROVE FALSE
  <2>1. call = n /\ call # None /\ \E s : Mark(n, s)
    BY <1>2, DefAssumption DEF Returns, AgentSucceeds, AgentFails, BackoffEnds, GateReturns, GateCancelled
  <2>2. Def.kind[n] # "loop"
    BY <2>1 DEF IInv, StackOK
  <2> QED
    BY <1>0, <2>1, <2>2 DEF Mark
<1>3. ASSUME NEW n \in Ids, SkipOrDeadlock(n) PROVE FALSE
  BY <1>0, <1>3 DEF SkipOrDeadlock, Mark
<1>4. CASE LoopIterates
  BY <1>0, <1>4 DEF LoopIterates, ResetBody
<1>5. CASE LoopEnds
  <2>1. PICK s \in {"completed", "failed"} : Mark(Top.loop, s) /\ (s = "completed" => BodySettled)
    BY <1>5 DEF LoopEnds, LoopReturns
  <2>2. Top.loop = l /\ s = "completed"
    BY <1>0, <2>1 DEF Mark
  <2> QED
    BY <1>0, <2>1, <2>2 DEF BodySettled, Mark
<1>6. CASE BodyVisit
  <2>1. frames # <<>> /\ TypeOK /\ Top.pos <= Len(Def.body[Top.loop])
    BY <1>6 DEF BodyVisit, InBody, IInv
  <2>2. Top \in FrameType /\ Top.loop \in Loops
    BY <2>1, TopFrame
  <2>3. Top.pos \in Nat \ {0} /\ Def.body[Top.loop] \in Seq(Def.nodes)
    BY <2>2, LoopBody DEF FrameType
  <2>4. BodyNode \in Ids
    BY <2>1, <2>3, DefAssumption DEF BodyNode
  <2> QED
    BY <1>1, <1>6, <2>4 DEF BodyVisit
<1>7. ASSUME NEW n \in Ids, Visit(n) PROVE FALSE
  BY <1>1, <1>7 DEF Visit
<1>8. CASE UNCHANGED status
  BY <1>8
<1>9. \/ \E n \in Ids : Visit(n) \/ Returns(n) \/ SkipOrDeadlock(n)
      \/ LoopIterates \/ LoopEnds \/ BodyVisit \/ UNCHANGED status
  BY DEF Next, Walk, Body, Idle, PassOver, EndWalk, Return, BodyPassOver, BodyAgain, Decide, Cancel, vars, nodeVars
<1> QED
  BY <1>2, <1>3, <1>4, <1>5, <1>6, <1>7, <1>8, <1>9

LoopsSettled == \A l \in Loops : status[l] = "completed" => \A n \in OwnBody(l) : Terminal(status[n])

LEMMA LoopsStep == IInv /\ FlightOK /\ LoopsSettled /\ [Next]_vars => LoopsSettled'
<1> SUFFICES ASSUME IInv, FlightOK, LoopsSettled, [Next]_vars,
                    NEW l \in Loops, status'[l] = "completed", NEW n \in OwnBody(l)
             PROVE  Terminal(status'[n])
  BY DEF LoopsSettled
<1>1. /\ status \in [Ids -> Statuses] /\ l \in Ids /\ n \in BodySet(l)
      /\ \A m \in Loops : m # l => n \notin BodySet(m)
      /\ n \in Ids /\ n \in Def.nodes
  BY LoopBody, DefAssumption DEF IInv, TypeOK, OwnBody, Loops
<1>2. CASE status[l] # "completed"
  BY <1>1, <1>2, LoopCompletes
<1>3. CASE status[l] = "completed"
  <2>0. Terminal(status[n])
    BY <1>3 DEF LoopsSettled
  <2>1. CASE NothingMoves
    BY <2>0, <2>1 DEF NothingMoves
  <2>2. ASSUME NEW m \in Ids, NEW s \in Statuses \ {"absent"}, OneMoves(m, s) PROVE Terminal(status'[n])
    BY <1>1, <2>0, <2>2 DEF OneMoves, Mark, Terminal
  <2>3. ASSUME NEW m \in Ids, NEW new \in SUBSET Ids, ForkMoves(m, new) PROVE Terminal(status'[n])
    <3>1. n \notin new
      BY <1>1, <2>3, ForkShape DEF ForkMoves
    <3> QED
      BY <1>1, <2>0, <2>3, <3>1 DEF ForkMoves, Expand, Terminal
  <2>4. ASSUME NEW m \in Ids, LoopMoves(m) PROVE Terminal(status'[n])
    <3>1. m \in Loops /\ ~Terminal(status[m])
      BY <2>4 DEF LoopMoves, Loops, Terminal
    <3>2. m # l /\ m # n
      BY <1>3, <2>0, <3>1 DEF Terminal
    <3>3. n \notin BodySet(m)
      BY <1>1, <3>1, <3>2
    <3> QED
      BY <1>1, <2>0, <2>4, <3>2, <3>3 DEF LoopMoves, ResetBody
  <2> QED
    BY <2>1, <2>2, <2>3, <2>4, StepShape DEF NodesMove
<1> QED
  BY <1>2, <1>3

(***************************************************************************)
(* runBody walks the body on while a node of it is ready, and a loop does  *)
(* not complete over a body that is stuck, however the body branches,      *)
(* forks, joins, asks and nests.                                           *)
(***************************************************************************)
THEOREM BodyCorrect == Spec => []BodyRunsOut
<1>1. Spec => []WalkInv
  BY WalkInit, WalkStep, EngineAlways, PTL DEF Spec
<1>2. Init => BodyWalk
  BY DEF Init, BodyWalk
<1>3. Spec => []BodyWalk
  BY <1>1, <1>2, BodyStep, EngineAlways, PTL DEF Spec
<1>4. Init => LoopsSettled
  BY DefAssumption DEF Init, LoopsSettled, Loops
<1>5. Spec => []LoopsSettled
  BY <1>4, LoopsStep, EngineAlways, PTL DEF Spec
<1>6. IInv /\ BodyWalk /\ LoopsSettled => BodyRunsOut
  BY BodyExhausted DEF BodyRunsOut, LoopsSettled
<1> QED
  BY <1>3, <1>5, <1>6, EngineAlways, PTL

-----------------------------------------------------------------------------
(***************************************************************************)
(* How often an agent runs.  Where no two bodies overlap, a node has one   *)
(* owner: the loop that runs it, or the fork it is a clone of.             *)
(***************************************************************************)
BodiesApart == \A l, m \in Loops : l # m => BodySet(l) \cap BodySet(m) = {}

LEMMA OwnerFacts ==
  ASSUME BodiesApart
  PROVE  /\ \A n : Owners(n) # {} => OwnerOf(n) \in Owners(n)
         /\ \A n : \A p \in Owners(n) : p = OwnerOf(n) /\ p \in Loops \cup Forks /\ p \in Def.nodes /\ p \in Ids
         /\ \A l \in Loops : \A n \in BodySet(l) : n \in Def.nodes /\ l \in Owners(n)
         /\ \A f \in Forks : \A c \in CloneSet(f) : c \in Ids \ Def.nodes /\ f \in Owners(c)
         /\ \A n : \A p \in Owners(n) \cap Loops : n \in BodySet(p)
         /\ \A n : \A p \in Owners(n) \cap Forks : n \in CloneSet(p)
         /\ Loops \cap Forks = {}
<1>1. \A n : Owners(n) # {} => OwnerOf(n) \in Owners(n)
  BY DEF OwnerOf
<1>2. \A l \in Loops : l \in Def.nodes /\ l \in Ids /\ l \notin Forks
  BY DefAssumption DEF Loops, Forks
<1>3. \A l \in Loops : \A n \in BodySet(l) : n \in Def.nodes
  BY LoopBody
<1>4. \A f \in Forks : f \in Def.nodes /\ f \in Ids /\ \A c \in CloneSet(f) : c \in Ids \ Def.nodes
  BY ForkShape
<1>5. ASSUME NEW n, NEW p \in Owners(n), NEW q \in Owners(n) PROVE p = q
  <2>1. CASE p \in Loops /\ n \in BodySet(p)
    <3>1. n \in Def.nodes
      BY <1>3, <2>1
    <3>2. q \in Loops /\ n \in BodySet(q)
      BY <1>4, <3>1 DEF Owners
    <3> QED
      BY <2>1, <3>2 DEF BodiesApart
  <2>2. CASE p \in Forks /\ n \in CloneSet(p)
    <3>1. n \notin Def.nodes
      BY <1>4, <2>2
    <3>2. q \in Forks /\ n \in CloneSet(q)
      BY <1>3, <3>1 DEF Owners
    <3> QED
      BY <2>2, <3>2, ForkShape
  <2> QED
    BY <2>1, <2>2 DEF Owners
<1>6. \A n : \A p \in Owners(n) : p = OwnerOf(n)
  BY <1>1, <1>5
<1>7. \A n : \A p \in Owners(n) : p \in Loops \cup Forks
  BY DEF Owners
<1> QED
  BY <1>1, <1>2, <1>3, <1>4, <1>6, <1>7 DEF Owners

LEMMA TimesType ==
  /\ \A p \in Loops \cup Forks : Times(p) \in Nat \ {0}
  /\ \A l \in Loops : Times(l) = Def.maxIterations[l]
  /\ \A f \in Forks : Times(f) = 1
<1>1. \A l \in Loops : Def.maxIterations[l] \in Nat \ {0}
  BY LoopBody, DefAssumption
<1>2. Loops \cap Forks = {}
  BY DEF Loops, Forks
<1>3. \A l \in Loops : Times(l) = Def.maxIterations[l]
  BY DEF Times
<1>4. \A f \in Forks : Times(f) = 1
  BY <1>2 DEF Times
<1>5. 1 \in Nat \ {0}
  OBVIOUS
<1>6. \A p \in Loops \cup Forks : p \in Loops \/ p \in Forks
  OBVIOUS
<1> QED
  BY <1>1, <1>3, <1>4, <1>5, <1>6

LEMMA AttemptsType == \A n \in Ids : Attempts(n) \in Nat \ {0} /\ (Def.maxAttempts[n] > 1 => Attempts(n) = Def.maxAttempts[n])
<1>1. \A n \in Ids : Def.maxAttempts[n] \in 0 .. 10
  BY DefAssumption
<1> QED
  BY <1>1 DEF Attempts

(* A level above that of the owner.                                        *)
Level(n) ==
  IF Owners(n) = {} THEN 0
  ELSE IF OwnerOf(n) \in Loops THEN Depth[OwnerOf(n)] + 1
  ELSE IF Owners(OwnerOf(n)) = {} THEN 1
  ELSE Depth[OwnerOf(OwnerOf(n))] + 2

LEMMA LevelFact ==
  ASSUME BodiesApart
  PROVE  /\ Cardinality(Loops) \in Nat
         /\ \A n \in Ids : Level(n) \in 0 .. Cardinality(Loops) + 2
         /\ \A n \in Ids : Owners(n) # {} => OwnerOf(n) \in Ids /\ Level(OwnerOf(n)) < Level(n)
<1>1. Cardinality(Loops) \in Nat
  <2>1. Loops \subseteq Ids /\ IsFiniteSet(Ids)
    BY DefAssumption DEF Loops
  <2> QED
    BY <2>1, FS_Subset, FS_CardinalityType
<1>2. \A l \in Loops : Depth[l] \in 0 .. Cardinality(Loops)
  BY DefAssumption DEF Depth
<1>3. ASSUME NEW n \in Ids, Owners(n) # {}
      PROVE  OwnerOf(n) \in Ids /\ Level(OwnerOf(n)) < Level(n) /\ Level(n) \in 0 .. Cardinality(Loops) + 2
  <2> DEFINE p == OwnerOf(n)
  <2>1. p \in Owners(n) /\ p \in Loops \cup Forks /\ p \in Ids /\ p \in Def.nodes
    BY <1>3, OwnerFacts
  <2>2. ASSUME Owners(p) # {}
        PROVE  /\ OwnerOf(p) \in Loops /\ p \in BodySet(OwnerOf(p)) /\ Level(p) = Depth[OwnerOf(p)] + 1
               /\ Depth[OwnerOf(p)] \in 0 .. Cardinality(Loops)
    <3>1. OwnerOf(p) \in Owners(p) /\ OwnerOf(p) \in Loops \cup Forks
      BY <2>2, OwnerFacts
    <3>2. OwnerOf(p) \notin Forks
      BY <2>1, <3>1, OwnerFacts
    <3> QED
      BY <1>2, <2>2, <3>1, <3>2, OwnerFacts DEF Level
  <2>3. Owners(p) = {} => Level(p) = 0
    BY DEF Level
  <2>4. CASE p \in Loops
    <3>1. Level(n) = Depth[p] + 1 /\ Depth[p] \in 0 .. Cardinality(Loops)
      BY <1>2, <1>3, <2>4 DEF Level
    <3>2. Owners(p) # {} => Depth[OwnerOf(p)] < Depth[p]
      BY <2>2, <2>4, DepthFact
    <3> QED
      BY <1>1, <2>1, <2>2, <2>3, <3>1, <3>2
  <2>5. CASE p \notin Loops
    <3>1. Level(n) = IF Owners(p) = {} THEN 1 ELSE Depth[OwnerOf(p)] + 2
      BY <1>3, <2>5 DEF Level
    <3> QED
      BY <1>1, <2>1, <2>2, <2>3, <3>1
  <2> QED
    BY <2>4, <2>5
<1>4. \A n \in Ids : Owners(n) = {} => Level(n) = 0
  BY DEF Level
<1> QED
  BY <1>1, <1>3, <1>4

(* The rounds of a node are those of its owner, times what the owner does.  *)
LEMMA RoundsFix ==
  ASSUME BodiesApart
  PROVE  \A n \in Ids : Rounds[n] = IF Owners(n) = {} THEN 1 ELSE Times(OwnerOf(n)) * Rounds[OwnerOf(n)]
<1> DEFINE Rhs(f, n) == IF Owners(n) = {} THEN 1 ELSE Times(OwnerOf(n)) * f[OwnerOf(n)]
           Good(k) == \E f : f = [n \in Ids |-> f[n]] /\ \A n \in Ids : Level(n) <= k => f[n] = Rhs(f, n)
           K == Cardinality(Loops) + 2
<1>1. K \in Nat /\ \A n \in Ids : Level(n) \in 0 .. K
  BY LevelFact
<1>2. Good(0)
  <2> DEFINE f == [n \in Ids |-> 1]
  <2>1. \A n \in Ids : Level(n) <= 0 => Owners(n) = {}
    <3> SUFFICES ASSUME NEW n \in Ids, Level(n) <= 0, Owners(n) # {} PROVE FALSE
      OBVIOUS
    <3>1. OwnerOf(n) \in Ids /\ Level(OwnerOf(n)) < Level(n)
      BY LevelFact
    <3> QED
      BY <1>1, <3>1
  <2>2. \A n \in Ids : Level(n) <= 0 => f[n] = Rhs(f, n)
    BY <2>1
  <2>3. f = [n \in Ids |-> f[n]]
    OBVIOUS
  <2> HIDE DEF f, Rhs
  <2> QED
    BY <2>2, <2>3
<1>3. ASSUME NEW k \in Nat, Good(k) PROVE Good(k + 1)
  <2>1. PICK f : f = [n \in Ids |-> f[n]] /\ \A n \in Ids : Level(n) <= k => f[n] = Rhs(f, n)
    BY <1>3
  <2> DEFINE g == [n \in Ids |-> IF Level(n) <= k THEN f[n] ELSE Rhs(f, n)]
  <2>2. ASSUME NEW n \in Ids, Level(n) <= k + 1 PROVE g[n] = Rhs(f, n)
    BY <2>1, <2>2
  <2>3. ASSUME NEW n \in Ids, Level(n) <= k + 1 PROVE Rhs(g, n) = Rhs(f, n)
    <3>1. CASE Owners(n) = {}
      BY <3>1
    <3>2. CASE Owners(n) # {}
      <4>1. OwnerOf(n) \in Ids /\ Level(OwnerOf(n)) < Level(n) /\ Level(OwnerOf(n)) \in Nat /\ Level(n) \in Nat
        BY <1>1, <3>2, LevelFact
      <4>2. Level(OwnerOf(n)) <= k
        BY <2>3, <4>1
      <4>3. g[OwnerOf(n)] = f[OwnerOf(n)]
        BY <4>1, <4>2
      <4> QED
        BY <4>3
    <3> QED
      BY <3>1, <3>2
  <2>4. g = [n \in Ids |-> g[n]]
    OBVIOUS
  <2> HIDE DEF g, Rhs
  <2> QED
    BY <2>2, <2>3, <2>4
<1>4. Good(K)
  <2> DEFINE Bad == {k \in Nat : ~Good(k)}
  <2>1. Bad \subseteq Nat /\ (0 \in Nat /\ 0 \notin Bad) /\ \A k \in Nat : k + 1 \in Bad => k \in Bad
    BY <1>2, <1>3
  <2>2. K \in Bad \/ Good(K)
    BY <1>1
  <2> HIDE DEF Bad, Good, K
  <2>3. ASSUME K \in Bad PROVE FALSE
    <3>1. PICK x \in Bad : \A y \in Bad : x <= y
      BY <2>1, <2>3, LeastNatural
    <3>2. x \in Nat /\ x # 0
      BY <2>1
    <3>3. x - 1 \in Nat /\ (x - 1) + 1 = x
      BY <3>2
    <3>4. x - 1 \in Bad
      BY <2>1, <3>3
    <3> QED
      BY <3>1, <3>2, <3>4
  <2> QED
    BY <2>2, <2>3
<1>5. \E f : f = [n \in Ids |-> Rhs(f, n)]
  <2>1. PICK f : f = [n \in Ids |-> f[n]] /\ \A n \in Ids : Level(n) <= K => f[n] = Rhs(f, n)
    BY <1>4
  <2>2. \A n \in Ids : f[n] = Rhs(f, n)
    BY <1>1, <2>1
  <2> HIDE DEF Rhs
  <2>3. [n \in Ids |-> f[n]] = [n \in Ids |-> Rhs(f, n)]
    BY <2>2
  <2> QED
    BY <2>1, <2>3
<1>6. Rounds = [n \in Ids |-> Rhs(Rounds, n)]
  BY <1>5 DEF Rounds
<1> HIDE DEF Rhs
<1>7. \A n \in Ids : Rounds[n] = Rhs(Rounds, n)
  BY <1>6
<1> QED
  BY <1>7 DEF Rhs

-----------------------------------------------------------------------------
(***************************************************************************)
(* C[p] counts what the owner p has put back to pending: the iterations a  *)
(* loop has begun, the times a fork has expanded.  A node that its owner   *)
(* has not reached is pending too, but nothing visits it: it is not live.  *)
(***************************************************************************)
Resets(C, n) == IF Owners(n) = {} THEN 1 ELSE C[OwnerOf(n)]

Live(n) == \A l \in Loops : n \in BodySet(l) => Stacked(l)

(* An owner has used what it has left, in its frame or before it starts.   *)
OwnersCounted(C) ==
  /\ \A p \in Loops \cup Forks : C[p] <= Times(p) * Resets(C, p)
  /\ \A p \in Loops \cup Forks :
       status[p] = "pending" /\ Live(p) => C[p] + Times(p) <= Times(p) * Resets(C, p)
  /\ \A i \in DOMAIN frames :
       C[frames[i].loop] + Times(frames[i].loop)
         <= Times(frames[i].loop) * Resets(C, frames[i].loop) + frames[i].iter

(* An agent has been spawned for its resets, less the attempts it has left. *)
AgentCounted(C, n) ==
  /\ runs[n] <= Attempts(n) * Resets(C, n)
  /\ status[n] \in {"pending", "running", "retrying"} => attempts[n] < Attempts(n)
  /\ status[n] = "retrying" \/ (status[n] = "pending" /\ Live(n)) =>
       runs[n] + Attempts(n) <= Attempts(n) * Resets(C, n) + attempts[n]
  /\ status[n] = "running" => runs[n] + Attempts(n) <= Attempts(n) * Resets(C, n) + attempts[n] + 1

AgentsCounted(C) ==
  \A n \in Ids : IF Def.kind[n] = "agent" THEN AgentCounted(C, n) ELSE runs[n] = 0

CountType == [Loops \cup Forks -> Nat]

Counted == \E C \in CountType : OwnersCounted(C) /\ AgentsCounted(C)

LEMMA ResetsType ==
  ASSUME BodiesApart, NEW C \in CountType
  PROVE  \A n \in Ids : Resets(C, n) \in Nat
BY OwnerFacts DEF Resets, CountType

LEMMA CountedInit ==
  ASSUME BodiesApart
  PROVE  Init => Counted
<1> SUFFICES ASSUME Init PROVE Counted
  OBVIOUS
<1> DEFINE C == [p \in Loops \cup Forks |-> 0]
<1>1. C \in CountType
  BY DEF CountType
<1>2. \A n \in Ids : Resets(C, n) = IF Owners(n) = {} THEN 1 ELSE 0
  BY OwnerFacts DEF Resets
<1>3. ~\E l : Stacked(l)
  BY DEF Init, Stacked
<1>4. ASSUME NEW n \in Ids, status[n] = "pending", Live(n) PROVE Owners(n) = {}
  <2>1. n \in Def.nodes
    BY <1>4 DEF Init
  <2>2. \A l \in Loops : n \notin BodySet(l)
    BY <1>3, <1>4 DEF Live
  <2> QED
    BY <2>1, <2>2, OwnerFacts DEF Owners
<1>5. OwnersCounted(C)
  <2>1. \A p \in Loops \cup Forks : p \in Ids /\ C[p] = 0 /\ Times(p) \in Nat /\ Resets(C, p) \in {0, 1}
    BY <1>2, TimesType, DefAssumption DEF Loops, Forks
  <2>2. \A p \in Loops \cup Forks : status[p] = "pending" /\ Live(p) => Resets(C, p) = 1
    BY <1>2, <1>4, <2>1
  <2>3. frames = <<>>
    BY DEF Init
  <2> HIDE DEF C
  <2>4. \A p \in Loops \cup Forks : C[p] <= Times(p) * Resets(C, p)
    BY <2>1
  <2>5. \A p \in Loops \cup Forks :
          status[p] = "pending" /\ Live(p) => C[p] + Times(p) <= Times(p) * Resets(C, p)
    BY <2>1, <2>2
  <2> QED
    BY <2>3, <2>4, <2>5 DEF OwnersCounted
<1>6. AgentsCounted(C)
  <2>1. \A n \in Ids : /\ runs[n] = 0 /\ attempts[n] = 0 /\ status[n] \notin {"running", "retrying"}
                       /\ Attempts(n) \in Nat \ {0} /\ Resets(C, n) \in {0, 1}
    BY <1>2, AttemptsType DEF Init
  <2>2. \A n \in Ids : status[n] = "pending" /\ Live(n) => Resets(C, n) = 1
    BY <1>2, <1>4
  <2> HIDE DEF C
  <2>3. ASSUME NEW n \in Ids PROVE AgentCounted(C, n)
    BY <2>1, <2>2 DEF AgentCounted
  <2> QED
    BY <2>1, <2>3 DEF AgentsCounted
<1> HIDE DEF C
<1> QED
  BY <1>1, <1>5, <1>6 DEF Counted

StackWithin ==
  \A i \in DOMAIN frames' : \E j \in DOMAIN frames :
    frames'[i].loop = frames[j].loop /\ frames'[i].iter = frames[j].iter

(* Settling nodes and leaving loops uses nothing.                          *)
LEMMA StaysCounted ==
  ASSUME Counted, StackWithin, UNCHANGED runs,
         \A n \in Ids : n \in Loops \cup Forks \/ Def.kind[n] = "agent" =>
           (status'[n] \in {"pending", "running", "retrying"} =>
              status'[n] = status[n] /\ attempts'[n] = attempts[n])
  PROVE  Counted'
<1>1. PICK C \in CountType : OwnersCounted(C) /\ AgentsCounted(C)
  BY DEF Counted
<1>2. \A n \in Ids : Live(n)' => Live(n)
  BY DEF Live, Stacked, StackWithin
<1>3. \A p \in Loops \cup Forks : p \in Ids
  BY DefAssumption DEF Loops, Forks
<1>4. OwnersCounted(C)'
  BY <1>1, <1>2, <1>3 DEF OwnersCounted, StackWithin, Resets
<1>5. ASSUME NEW n \in Ids, Def.kind[n] = "agent" PROVE AgentCounted(C, n)'
  <2>1. AgentCounted(C, n)
    BY <1>1, <1>5 DEF AgentsCounted
  <2> QED
    BY <1>2, <1>5, <2>1 DEF AgentCounted, Resets
<1>6. \A n \in Ids : Def.kind[n] # "agent" => runs'[n] = 0
  BY <1>1 DEF AgentsCounted
<1>7. AgentsCounted(C)'
  BY <1>5, <1>6 DEF AgentsCounted
<1> QED
  BY <1>1, <1>4, <1>7 DEF Counted, CountType

(* An agent that starts or returns leaves the others alone.                *)
LEMMA AgentMoves ==
  ASSUME NEW C \in CountType, OwnersCounted(C), AgentsCounted(C), StackWithin,
         NEW n \in Ids, Def.kind[n] = "agent",
         \A m \in Ids \ {n} : status'[m] = status[m] /\ attempts'[m] = attempts[m] /\ runs'[m] = runs[m],
         AgentCounted(C, n)'
  PROVE  Counted'
<1>1. \A m \in Ids : Live(m)' => Live(m)
  BY DEF Live, Stacked, StackWithin
<1>2. \A p \in Loops \cup Forks : p \in Ids \ {n}
  BY DefAssumption DEF Loops, Forks
<1>3. OwnersCounted(C)'
  BY <1>1, <1>2 DEF OwnersCounted, StackWithin, Resets
<1>4. ASSUME NEW m \in Ids \ {n}, Def.kind[m] = "agent" PROVE AgentCounted(C, m)'
  <2>1. AgentCounted(C, m)
    BY <1>4 DEF AgentsCounted
  <2> QED
    BY <1>1, <1>4, <2>1 DEF AgentCounted, Resets
<1>5. \A m \in Ids : Def.kind[m] # "agent" => runs'[m] = 0
  BY DEF AgentsCounted
<1>6. AgentsCounted(C)'
  BY <1>4, <1>5 DEF AgentsCounted
<1> QED
  BY <1>3, <1>6 DEF Counted, CountType

LEMMA MulNext == \A a, r \in Nat : a * r \in Nat /\ a * (r + 1) = a * r + a
OBVIOUS

LEMMA MulGrows ==
  ASSUME NEW a \in Nat, NEW r \in Nat, NEW q \in Nat, r <= q
  PROVE  a * r \in Nat /\ a * q \in Nat /\ a * r <= a * q
<1>1. PICK d \in Nat : q = r + d
  <2>1. q - r \in Nat /\ q = r + (q - r)
    OBVIOUS
  <2> QED
    BY <2>1
<1>2. a * q = a * r + a * d /\ a * d \in Nat /\ a * r \in Nat
  BY <1>1
<1> QED
  BY <1>2

(* An owner that puts its nodes back to pending counts it.                 *)
LEMMA OwnerResets ==
  ASSUME BodiesApart, TypeOK, NEW C \in CountType, OwnersCounted(C), AgentsCounted(C),
         NEW p \in Loops \cup Forks, NEW N \in SUBSET Ids,
         \A n \in N : p \in Owners(n), p \in Loops => BodySet(p) \subseteq N,
         status'[p] # "pending", UNCHANGED runs,
         \A n \in N : status'[n] = "pending" /\ attempts'[n] = 0,
         \A n \in Ids \ (N \cup {p}) : status'[n] = status[n] /\ attempts'[n] = attempts[n],
         C[p] + 1 <= Times(p) * Resets(C, p),
         \A i \in DOMAIN frames' :
           \/ /\ frames'[i].loop = p
              /\ C[p] + 1 + Times(p) <= Times(p) * Resets(C, p) + frames'[i].iter
           \/ \E j \in DOMAIN frames : /\ frames'[i].loop = frames[j].loop /\ frames'[i].iter = frames[j].iter
                                       /\ frames[j].loop # p
  PROVE  Counted'
<1> DEFINE D == [C EXCEPT ![p] = @ + 1]
<1>1. p \in Ids /\ p \in Def.nodes /\ p \notin Owners(p) /\ Def.kind[p] # "agent"
  <2>1. p \in Ids /\ p \in Def.nodes /\ Def.kind[p] # "agent"
    BY DefAssumption DEF Loops, Forks
  <2>2. p \notin Owners(p)
    BY <2>1, DepthFact, OwnerFacts
  <2> QED
    BY <2>1, <2>2
<1>2. D \in CountType /\ D[p] = C[p] + 1 /\ \A q \in (Loops \cup Forks) \ {p} : D[q] = C[q]
  BY DEF CountType
<1> HIDE DEF D
<1>3. \A n \in Ids : Resets(C, n) \in Nat
  BY ResetsType
<1>4. \A n \in Ids : p \in Owners(n) => Resets(D, n) = Resets(C, n) + 1
  BY <1>2, OwnerFacts DEF Resets
<1>5. \A n \in Ids : p \notin Owners(n) => Resets(D, n) = Resets(C, n)
  BY <1>2, OwnerFacts DEF Resets
<1>6. \A q \in Loops \cup Forks : q \in Ids /\ q \in Def.nodes /\ C[q] \in Nat /\ Times(q) \in Nat
  BY TimesType, DefAssumption DEF Loops, Forks, CountType
<1>7. ASSUME NEW a \in Nat, NEW n \in Ids
      PROVE  /\ a * Resets(C, n) \in Nat /\ a * Resets(D, n) \in Nat /\ a * Resets(C, n) <= a * Resets(D, n)
             /\ p \in Owners(n) => a * Resets(D, n) = a * Resets(C, n) + a
             /\ p \notin Owners(n) => a * Resets(D, n) = a * Resets(C, n)
  <2>1. a * Resets(C, n) \in Nat /\ a * (Resets(C, n) + 1) = a * Resets(C, n) + a
    BY <1>3, <1>7, MulNext
  <2>2. CASE p \in Owners(n)
    <3>1. a * Resets(D, n) = a * Resets(C, n) + a
      BY <1>4, <2>1, <2>2
    <3> QED
      BY <1>7, <2>1, <2>2, <3>1
  <2>3. CASE p \notin Owners(n)
    <3>1. a * Resets(D, n) = a * Resets(C, n)
      BY <1>5, <2>3
    <3> QED
      BY <1>7, <2>1, <2>3, <3>1
  <2> QED
    BY <2>2, <2>3
<1>8. ASSUME NEW n \in Ids, p \notin Owners(n), Live(n)' PROVE Live(n)
  <2> SUFFICES ASSUME NEW l \in Loops, n \in BodySet(l) PROVE Stacked(l)
    BY DEF Live
  <2>1. l # p
    BY <1>8, OwnerFacts
  <2>2. PICK i \in DOMAIN frames' : frames'[i].loop = l
    BY <1>8 DEF Live, Stacked
  <2> QED
    BY <2>1, <2>2 DEF Stacked
<1>9. OwnersCounted(D)'
  <2>1. ASSUME NEW q \in Loops \cup Forks PROVE D[q] <= Times(q) * Resets(D, q)
    <3>1. CASE q = p
      BY <1>1, <1>2, <1>6, <1>7, <3>1
    <3>2. CASE q # p
      <4>1. C[q] <= Times(q) * Resets(C, q)
        BY DEF OwnersCounted
      <4> QED
        BY <1>2, <1>6, <1>7, <3>2, <4>1
    <3> QED
      BY <3>1, <3>2
  <2>2. ASSUME NEW q \in Loops \cup Forks, status'[q] = "pending", Live(q)'
        PROVE  D[q] + Times(q) <= Times(q) * Resets(D, q)
    <3>1. q # p /\ D[q] = C[q] /\ q \in Ids /\ C[q] \in Nat /\ Times(q) \in Nat
      BY <1>2, <1>6, <2>2
    <3>2. CASE p \in Owners(q)
      <4>1. C[q] <= Times(q) * Resets(C, q)
        BY DEF OwnersCounted
      <4> QED
        BY <1>7, <3>1, <3>2, <4>1
    <3>3. CASE p \notin Owners(q)
      <4>1. status[q] = "pending" /\ Live(q)
        BY <1>8, <2>2, <3>1, <3>3
      <4>2. C[q] + Times(q) <= Times(q) * Resets(C, q)
        BY <4>1 DEF OwnersCounted
      <4> QED
        BY <1>7, <3>1, <3>3, <4>2
    <3> QED
      BY <3>2, <3>3
  <2>3. ASSUME NEW i \in DOMAIN frames'
        PROVE  D[frames'[i].loop] + Times(frames'[i].loop)
                 <= Times(frames'[i].loop) * Resets(D, frames'[i].loop) + frames'[i].iter
    <3>1. CASE frames'[i].loop = p /\ C[p] + 1 + Times(p) <= Times(p) * Resets(C, p) + frames'[i].iter
      <4>1. Resets(D, p) = Resets(C, p)
        BY <1>1, <1>5
      <4> QED
        BY <1>2, <3>1, <4>1
    <3>2. CASE \E j \in DOMAIN frames : /\ frames'[i].loop = frames[j].loop /\ frames'[i].iter = frames[j].iter
                                        /\ frames[j].loop # p
      <4>1. PICK j \in DOMAIN frames : /\ frames'[i].loop = frames[j].loop /\ frames'[i].iter = frames[j].iter
                                       /\ frames[j].loop # p
        BY <3>2
      <4>2. PICK q : q = frames[j].loop
        OBVIOUS
      <4>3. q \in Loops /\ q \in Ids /\ frames[j].iter \in Nat
        BY <4>2, StackLoops DEF TypeOK, FrameType
      <4>4. C[q] + Times(q) <= Times(q) * Resets(C, q) + frames[j].iter
        BY <4>2 DEF OwnersCounted
      <4>5. D[q] + Times(q) <= Times(q) * Resets(D, q) + frames[j].iter
        BY <1>2, <1>6, <1>7, <4>1, <4>2, <4>3, <4>4
      <4> QED
        BY <4>1, <4>2, <4>5
    <3> QED
      BY <3>1, <3>2
  <2>4. \A n : Resets(D, n)' = Resets(D, n)
    BY DEF Resets
  <2> QED
    BY <2>1, <2>2, <2>3 DEF OwnersCounted, Resets
<1>10. ASSUME NEW n \in Ids, Def.kind[n] = "agent" PROVE AgentCounted(D, n)'
  <2>1. AgentCounted(C, n) /\ n # p
    BY <1>1, <1>10 DEF AgentsCounted
  <2>2. Attempts(n) \in Nat \ {0} /\ runs[n] \in Nat /\ attempts[n] \in Nat
    BY AttemptsType DEF TypeOK
  <2>3. PICK x \in Nat : x = Attempts(n) * Resets(C, n)
    BY <1>7, <2>2
  <2>4. PICK y \in Nat : y = Attempts(n) * Resets(D, n)
    BY <1>7, <2>2
  <2>5. /\ x <= y
        /\ p \in Owners(n) => y = x + Attempts(n)
    BY <1>7, <2>2, <2>3, <2>4
  <2>6. CASE n \in N
    <3>1. status'[n] = "pending" /\ attempts'[n] = 0 /\ p \in Owners(n) /\ runs[n] <= x
      BY <2>1, <2>3, <2>6 DEF AgentCounted
    <3>2. /\ runs[n] <= y /\ 0 < Attempts(n)
          /\ runs[n] + Attempts(n) <= y + 0
      BY <2>2, <2>5, <3>1
    <3> QED
      BY <2>4, <3>1, <3>2 DEF AgentCounted, Resets
  <2>7. CASE n \notin N
    <3>1. status'[n] = status[n] /\ attempts'[n] = attempts[n]
      BY <2>1, <2>7
    <3>2. Live(n)' => Live(n)
      <4>1. CASE p \in Owners(n)
        <5>1. p \notin Loops
          BY <2>7, <4>1, OwnerFacts
        <5>2. n \notin Def.nodes
          BY <4>1, <5>1, OwnerFacts
        <5> QED
          BY <5>2, OwnerFacts DEF Live
      <4>2. CASE p \notin Owners(n)
        BY <1>8, <4>2
      <4> QED
        BY <4>1, <4>2
    <3>3. /\ runs[n] <= x
          /\ status[n] \in {"pending", "running", "retrying"} => attempts[n] < Attempts(n)
          /\ status[n] = "retrying" \/ (status[n] = "pending" /\ Live(n)) => runs[n] + Attempts(n) <= x + attempts[n]
          /\ status[n] = "running" => runs[n] + Attempts(n) <= x + attempts[n] + 1
      BY <2>1, <2>3 DEF AgentCounted
    <3>4. /\ runs[n] <= y
          /\ status[n] = "retrying" \/ (status[n] = "pending" /\ Live(n)) => runs[n] + Attempts(n) <= y + attempts[n]
          /\ status[n] = "running" => runs[n] + Attempts(n) <= y + attempts[n] + 1
      BY <2>2, <2>5, <3>3
    <3> QED
      BY <2>4, <3>1, <3>2, <3>3, <3>4 DEF AgentCounted, Resets
  <2> QED
    BY <2>6, <2>7
<1>11. \A n \in Ids : Def.kind[n] # "agent" => runs'[n] = 0
  BY DEF AgentsCounted
<1>12. AgentsCounted(D)'
  BY <1>10, <1>11 DEF AgentsCounted
<1> QED
  BY <1>2, <1>9, <1>12 DEF Counted, CountType

(* execute() of a node that is ready and live.                             *)
LEMMA ExecuteCounted ==
  ASSUME BodiesApart, TypeOK, StackOK, Counted, NEW n \in Ids, Ready(n), Live(n),
         NEW rest, NEW fr \in Seq(FrameType), Len(fr) = Len(frames),
         \A i \in DOMAIN fr : fr[i].loop = frames[i].loop /\ fr[i].iter = frames[i].iter,
         Execute(n, rest, fr)
  PROVE  Counted'
<1>1. /\ DOMAIN fr = DOMAIN frames /\ DOMAIN fr = 1 .. Len(fr) /\ Len(fr) \in Nat
      /\ \A i \in DOMAIN frames : frames[i].loop # n
      /\ status[n] = "pending"
  BY StackLoops DEF StackOK, TypeOK, Ready
<1>2. PICK C \in CountType : OwnersCounted(C) /\ AgentsCounted(C)
  BY DEF Counted
<1>3. ASSUME n \in Loops \cup Forks
      PROVE  /\ C[n] \in Nat /\ Times(n) \in Nat \ {0} /\ Times(n) * Resets(C, n) \in Nat
             /\ C[n] + Times(n) <= Times(n) * Resets(C, n)
             /\ C[n] + 1 <= Times(n) * Resets(C, n)
  <2>1. C[n] \in Nat /\ Times(n) \in Nat \ {0} /\ Resets(C, n) \in Nat
    BY <1>3, TimesType, ResetsType DEF CountType
  <2>2. Times(n) * Resets(C, n) \in Nat
    BY <2>1, MulNext
  <2>3. C[n] + Times(n) <= Times(n) * Resets(C, n)
    BY <1>1, <1>2, <1>3 DEF OwnersCounted
  <2> QED
    BY <2>1, <2>2, <2>3
<1>4. CASE Def.kind[n] # "loop"
  <2>1. frames' = fr
    BY <1>4 DEF Execute
  <2>2. StackWithin
    BY <1>1, <2>1 DEF StackWithin
  <2>3. CASE ExecTrigger(n) \/ ExecTransform(n) \/ ExecSubworkflow(n) \/ ExecCondition(n)
             \/ ExecJoin(n) \/ ExecApproval(n)
    <3>1. /\ Def.kind[n] \notin {"agent", "loop", "parallel_fork"} /\ UNCHANGED <<attempts, runs>>
          /\ \E s : Mark(n, s)
      BY <2>3 DEF ExecTrigger, ExecTransform, ExecSubworkflow, ExecCondition, ExecJoin, ExecApproval
    <3>2. \A m \in Ids \ {n} : status'[m] = status[m]
      BY <3>1 DEF Mark, TypeOK
    <3>3. n \notin Loops \cup Forks
      BY <3>1 DEF Loops, Forks
    <3> QED
      BY <2>2, <3>1, <3>2, <3>3, StaysCounted
  <2>4. CASE ExecAgent(n)
    <3>1. /\ Def.kind[n] = "agent" /\ Mark(n, "running") /\ UNCHANGED attempts
          /\ runs' = [runs EXCEPT ![n] = @ + 1]
      BY <2>4 DEF ExecAgent
    <3>2. /\ status'[n] = "running" /\ runs'[n] = runs[n] + 1
          /\ \A m \in Ids \ {n} : status'[m] = status[m] /\ runs'[m] = runs[m]
      BY <3>1 DEF Mark, TypeOK
    <3>3. AgentCounted(C, n) /\ runs[n] \in Nat /\ attempts[n] \in Nat /\ Attempts(n) \in Nat \ {0}
      BY <1>2, <3>1, AttemptsType DEF AgentsCounted, TypeOK
    <3>4. Attempts(n) * Resets(C, n) \in Nat
      BY <3>3, ResetsType, MulNext
    <3>5. /\ attempts[n] < Attempts(n)
          /\ runs[n] + Attempts(n) <= Attempts(n) * Resets(C, n) + attempts[n]
      BY <1>1, <3>3 DEF AgentCounted
    <3>6. /\ runs[n] + 1 <= Attempts(n) * Resets(C, n)
          /\ runs[n] + 1 + Attempts(n) <= Attempts(n) * Resets(C, n) + attempts[n] + 1
      BY <3>3, <3>4, <3>5
    <3>7. AgentCounted(C, n)'
      BY <3>1, <3>2, <3>5, <3>6 DEF AgentCounted, Resets
    <3> QED
      BY <1>2, <2>2, <3>1, <3>2, <3>7, AgentMoves
  <2>5. CASE ExecFork(n)
    <3>1. n \in Forks /\ Def.clones[n] \in Seq(Ids) /\ UNCHANGED runs /\ Times(n) = 1
      BY <2>5, ForkNode, TimesType DEF ExecFork
    <3>2. CASE Mark(n, "failed") /\ UNCHANGED <<approved, branch, attempts>>
      <4>1. status'[n] = "failed" /\ \A m \in Ids \ {n} : status'[m] = status[m]
        BY <3>2 DEF Mark, TypeOK
      <4> QED
        BY <2>2, <3>1, <3>2, <4>1, StaysCounted
    <3>3. CASE \E k \in 0 .. Len(Def.clones[n]) : Expand(n, {Def.clones[n][i] : i \in 1 .. k})
      <4>1. PICK k \in 0 .. Len(Def.clones[n]) : Expand(n, {Def.clones[n][i] : i \in 1 .. k})
        BY <3>3
      <4>2. PICK N : N = {Def.clones[n][i] : i \in 1 .. k}
        OBVIOUS
      <4>3. N \subseteq CloneSet(n)
        BY <3>1, <4>2 DEF CloneSet
      <4>4. N \in SUBSET Ids /\ n \notin N /\ \A m \in N : n \in Owners(m)
        BY <3>1, <4>3, OwnerFacts, ForkShape
      <4>5. /\ status'[n] = "completed"
            /\ \A m \in N : status'[m] = "pending" /\ attempts'[m] = 0
            /\ \A m \in Ids \ (N \cup {n}) : status'[m] = status[m] /\ attempts'[m] = attempts[m]
        BY <4>1, <4>2, <4>4 DEF Expand
      <4>6. n \notin Loops
        BY <1>4 DEF Loops
      <4>7. \A i \in DOMAIN frames' : \E j \in DOMAIN frames :
              frames'[i].loop = frames[j].loop /\ frames'[i].iter = frames[j].iter /\ frames[j].loop # n
        BY <1>1, <2>2 DEF StackWithin
      <4> QED
        BY <1>2, <1>3, <3>1, <4>4, <4>5, <4>6, <4>7, OwnerResets
    <3> QED
      BY <2>5, <3>2, <3>3 DEF ExecFork
  <2> QED
    BY <1>4, <2>3, <2>4, <2>5 DEF Execute, ExecLoop
<1>5. CASE Def.kind[n] = "loop"
  <2>1. n \in Loops /\ BodySet(n) \in SUBSET Ids /\ n \notin BodySet(n)
    BY <1>5, LoopNode, LoopBody, DepthFact, DefAssumption
  <2>2. frames' = Append(fr, Frame(n, 1)) /\ ResetBody(n) /\ UNCHANGED runs
    BY <1>5 DEF Execute, ExecLoop, ExecTrigger, ExecTransform, ExecSubworkflow, ExecCondition,
                ExecFork, ExecJoin, ExecAgent, ExecApproval
  <2>3. /\ DOMAIN frames' = 1 .. (Len(fr) + 1)
        /\ frames'[Len(fr) + 1].loop = n /\ frames'[Len(fr) + 1].iter = 1
        /\ \A i \in 1 .. Len(fr) : frames'[i] = fr[i]
    BY <1>1, <2>2 DEF Frame
  <2>4. /\ status'[n] = "running"
        /\ \A m \in BodySet(n) : status'[m] = "pending" /\ attempts'[m] = 0
        /\ \A m \in Ids \ (BodySet(n) \cup {n}) : status'[m] = status[m] /\ attempts'[m] = attempts[m]
    BY <2>1, <2>2 DEF ResetBody
  <2>5. \A m \in BodySet(n) : n \in Owners(m)
    BY <2>1, OwnerFacts
  <2>6. C[n] + 1 + Times(n) <= Times(n) * Resets(C, n) + 1
    BY <1>3, <2>1
  <2>7. ASSUME NEW i \in DOMAIN frames'
        PROVE  \/ /\ frames'[i].loop = n
                  /\ C[n] + 1 + Times(n) <= Times(n) * Resets(C, n) + frames'[i].iter
               \/ \E j \in DOMAIN frames : /\ frames'[i].loop = frames[j].loop /\ frames'[i].iter = frames[j].iter
                                           /\ frames[j].loop # n
    <3>1. CASE i = Len(fr) + 1
      BY <2>3, <2>6, <3>1
    <3>2. CASE i # Len(fr) + 1
      <4>1. i \in 1 .. Len(fr)
        BY <1>1, <2>3, <3>2
      <4>2. i \in DOMAIN frames /\ frames'[i].loop = frames[i].loop /\ frames'[i].iter = frames[i].iter
        BY <1>1, <2>3, <4>1
      <4> QED
        BY <1>1, <4>2
    <3> QED
      BY <3>1, <3>2
  <2> QED
    BY <1>2, <1>3, <2>1, <2>2, <2>4, <2>5, <2>7, OwnerResets
<1> QED
  BY <1>4, <1>5

(* No walk of the main graph visits the body of a loop.                    *)
TodoMain == todo \cap LoopBodies = {}

LEMMA TodoStep == NodeInv /\ TodoMain /\ [Next]_vars => TodoMain'
<1> SUFFICES ASSUME NodeInv, TodoMain, [Next]_vars PROVE TodoMain'
  OBVIOUS
<1>1. ASSUME NEW n, NEW rest, NEW fr, rest \cap LoopBodies = {}, Execute(n, rest, fr) PROVE TodoMain'
  <2>1. PICK seen \in SUBSET {m \in Ids : status[m] = "absent" /\ status'[m] # "absent"} : todo' = rest \cup seen
    BY <1>1 DEF Execute
  <2>2. LoopBodies \subseteq Def.nodes
    BY LoopBody DEF LoopBodies
  <2>3. seen \cap LoopBodies = {}
    BY <2>1, <2>2 DEF NodeInv
  <2> QED
    BY <1>1, <2>1, <2>3 DEF TodoMain
<1>2. ASSUME NEW n \in Ids, Visit(n) PROVE TodoMain'
  BY <1>1, <1>2 DEF Visit, TodoMain
<1>3. ASSUME BodyVisit PROVE TodoMain'
  BY <1>1, <1>3 DEF BodyVisit, TodoMain
<1>4. CASE EndWalk
  BY <1>4 DEF EndWalk, TodoMain, Candidates, Schedulable
<1>5. CASE todo' \subseteq todo
  BY <1>5 DEF TodoMain
<1>6. (\E n \in Ids : Visit(n)) \/ BodyVisit \/ EndWalk \/ todo' \subseteq todo
  BY DEF Next, Walk, Body, Returns, Idle, PassOver, SkipOrDeadlock, Return, BodyPassOver, BodyAgain, LoopEnds,
         LoopIterates, AgentSucceeds, AgentFails, BackoffEnds, GateReturns, GateCancelled, controlVars,
         Decide, Cancel, vars
<1> QED
  BY <1>2, <1>3, <1>4, <1>5, <1>6

(* A call that returns: an agent that has failed has an attempt less.      *)
LEMMA ReturnCounted ==
  ASSUME BodiesApart, IInv, FlightOK, Counted, NEW n \in Ids, Returns(n)
  PROVE  Counted'
<1>0. TypeOK /\ call = n /\ UNCHANGED <<frames, runs>>
  BY DEF IInv, Returns, AgentSucceeds, AgentFails, BackoffEnds, GateReturns, GateCancelled, controlVars
<1>1. /\ Def.kind[n] \in {"agent", "human_approval"}
      /\ Def.kind[n] = "human_approval" => status[n] = "waiting_approval"
  BY <1>0, DefAssumption DEF IInv, StackOK, FlightOK
<1>2. StackWithin
  BY <1>0 DEF StackWithin
<1>3. PICK s \in Statuses : Mark(n, s)
  <2>1. \E s \in {"completed", "failed", "pending", "retrying"} : Mark(n, s)
    BY DEF Returns, AgentSucceeds, AgentFails, BackoffEnds, GateReturns, GateCancelled
  <2> QED
    BY <2>1 DEF Statuses
<1>4. status'[n] = s /\ \A m \in Ids \ {n} : status'[m] = status[m]
  BY <1>0, <1>3 DEF Mark, TypeOK
<1>5. CASE s \notin {"pending", "running", "retrying"} /\ \A m \in Ids \ {n} : attempts'[m] = attempts[m]
  BY <1>0, <1>2, <1>4, <1>5, StaysCounted
<1>6. CASE AgentSucceeds(n) \/ GateReturns(n) \/ GateCancelled(n)
  <2>1. s \in {"completed", "failed"} /\ UNCHANGED attempts
    <3>1. Mark(n, "completed") \/ Mark(n, "failed")
      BY <1>6 DEF AgentSucceeds, GateReturns, GateCancelled
    <3>2. status'[n] \in {"completed", "failed"}
      BY <1>0, <3>1 DEF Mark, TypeOK
    <3> QED
      BY <1>4, <1>6, <3>2 DEF AgentSucceeds, GateReturns, GateCancelled
  <2> QED
    BY <1>5, <2>1
<1>7. PICK C \in CountType : OwnersCounted(C) /\ AgentsCounted(C)
  BY DEF Counted
<1>8. CASE BackoffEnds(n)
  <2>1. status[n] = "retrying" /\ UNCHANGED attempts /\ Def.kind[n] = "agent"
    BY <1>1, <1>8 DEF BackoffEnds
  <2>2. s \in {"pending", "failed"}
    <3>1. Mark(n, "pending") \/ Mark(n, "failed")
      BY <1>8 DEF BackoffEnds
    <3>2. status'[n] \in {"pending", "failed"}
      BY <1>0, <3>1 DEF Mark, TypeOK
    <3> QED
      BY <1>4, <3>2
  <2>3. AgentCounted(C, n)
    BY <1>7, <2>1 DEF AgentsCounted
  <2>4. AgentCounted(C, n)'
    BY <1>0, <1>4, <2>1, <2>2, <2>3 DEF AgentCounted, Resets
  <2> QED
    BY <1>0, <1>2, <1>4, <1>7, <2>1, <2>4, AgentMoves
<1>9. CASE AgentFails(n)
  <2>1. /\ status[n] = "running" /\ Def.kind[n] = "agent"
        /\ attempts' = [attempts EXCEPT ![n] = IF Def.maxAttempts[n] <= 1 THEN @ ELSE @ + 1]
    BY <1>1, <1>9 DEF AgentFails
  <2>2. /\ attempts'[n] = IF Def.maxAttempts[n] <= 1 THEN attempts[n] ELSE attempts[n] + 1
        /\ \A m \in Ids \ {n} : attempts'[m] = attempts[m]
    BY <1>0, <2>1 DEF TypeOK
  <2>3. CASE Mark(n, "failed")
    <3>1. s = "failed"
      BY <1>0, <1>4, <2>3 DEF Mark, TypeOK
    <3> QED
      BY <1>5, <2>2, <3>1
  <2>4. CASE ~Mark(n, "failed")
    <3>1. /\ Def.maxAttempts[n] > 1 /\ attempts'[n] < Def.maxAttempts[n]
          /\ Mark(n, "retrying") \/ Mark(n, "pending")
      BY <1>9, <2>4 DEF AgentFails
    <3>2. s \in {"retrying", "pending"}
      BY <1>0, <1>4, <3>1 DEF Mark, TypeOK
    <3>3. Attempts(n) = Def.maxAttempts[n] /\ Def.maxAttempts[n] \in Nat /\ attempts[n] \in Nat /\ runs[n] \in Nat
      BY <1>0, <3>1, AttemptsType, DefAssumption DEF TypeOK
    <3>4. attempts'[n] = attempts[n] + 1
      BY <2>2, <3>1, <3>3
    <3>5. AgentCounted(C, n)
      BY <1>7, <2>1 DEF AgentsCounted
    <3>6. /\ runs[n] <= Attempts(n) * Resets(C, n)
          /\ runs[n] + Attempts(n) <= Attempts(n) * Resets(C, n) + attempts[n] + 1
      BY <2>1, <3>5 DEF AgentCounted
    <3>7. Attempts(n) * Resets(C, n) \in Nat
      BY <1>7, <3>3, ResetsType, MulNext
    <3>8. runs[n] + Attempts(n) <= Attempts(n) * Resets(C, n) + (attempts[n] + 1)
      BY <3>3, <3>6, <3>7
    <3>9. AgentCounted(C, n)'
      BY <1>0, <1>4, <3>1, <3>2, <3>3, <3>4, <3>6, <3>8 DEF AgentCounted, Resets
    <3> QED
      BY <1>0, <1>2, <1>4, <1>7, <2>1, <2>2, <3>9, AgentMoves
  <2> QED
    BY <2>3, <2>4
<1> QED
  BY <1>6, <1>8, <1>9 DEF Returns

LEMMA CountedStep ==
  ASSUME BodiesApart
  PROVE  (IInv /\ FlightOK) /\ TodoMain /\ Counted /\ [Next]_vars => Counted'
<1> SUFFICES ASSUME IInv, FlightOK, TodoMain, Counted, [Next]_vars PROVE Counted'
  OBVIOUS
<1>0. TypeOK /\ StackOK /\ frames \in Seq(FrameType)
  BY DEF IInv, TypeOK
<1>1. ASSUME NEW n \in Ids, Visit(n) PROVE Counted'
  <2>1. Ready(n) /\ Execute(n, todo \ {n}, frames) /\ Live(n)
    BY <1>1 DEF Visit, TodoMain, Live, LoopBodies
  <2> QED
    BY <1>0, <2>1, ExecuteCounted
<1>2. CASE BodyVisit
  <2>0. /\ frames # <<>> /\ Ready(BodyNode)
        /\ Execute(BodyNode, todo, WithTop(AtPos(Top, Top.pos + 1, TRUE)))
        /\ Top.pos <= Len(Def.body[Top.loop])
    BY <1>2, Zenon DEF BodyVisit, InBody
  <2>1. /\ frames # <<>> /\ Ready(BodyNode) /\ Len(frames) \in DOMAIN frames
        /\ Execute(BodyNode, todo, WithTop(AtPos(Top, Top.pos + 1, TRUE)))
        /\ Top.pos <= Len(Def.body[Top.loop])
    <3>1. Len(frames) \in DOMAIN frames
      BY <1>0, <2>0
    <3> QED
      BY <2>0, <3>1, Zenon
  <2>2. BodyNode \in Ids /\ BodyNode \in BodySet(Top.loop) /\ Top.loop \in Loops
    <3>1. Top \in FrameType /\ Top.loop \in Loops
      BY <1>0, <2>1, TopFrame
    <3>2. Def.body[Top.loop] \in Seq(Def.nodes) /\ Top.pos \in Nat \ {0}
      BY <3>1, LoopBody DEF FrameType
    <3>3. Top.pos \in DOMAIN Def.body[Top.loop]
      BY <2>1, <3>2
    <3> QED
      BY <3>1, <3>2, <3>3, DefAssumption DEF BodyNode, BodySet
  <2>3. Stacked(Top.loop)
    BY <2>1 DEF Stacked, Top
  <2>4. Live(BodyNode)
    <3> SUFFICES ASSUME NEW l \in Loops, BodyNode \in BodySet(l) PROVE Stacked(l)
      BY DEF Live
    <3>1. l = Top.loop
      BY <2>2 DEF BodiesApart
    <3> QED
      BY <2>3, <3>1
  <2>5. PICK fr : fr = WithTop(AtPos(Top, Top.pos + 1, TRUE))
    OBVIOUS
  <2>6. fr \in Seq(FrameType) /\ Len(fr) = Len(frames) /\ DOMAIN fr = DOMAIN frames
    <3>1. fr \in Seq(FrameType)
      <4>1. FrameOK(WithTop(AtPos(Top, Top.pos + 1, TRUE)))
        BY <1>0, <2>1, TopMoves
      <4> QED
        BY <2>5, <4>1 DEF FrameOK
    <3>2. DOMAIN fr = DOMAIN frames
      BY <2>5 DEF WithTop
    <3> QED
      BY <1>0, <3>1, <3>2
  <2>7. \A i \in DOMAIN fr : fr[i].loop = frames[i].loop /\ fr[i].iter = frames[i].iter
    BY <2>5, <2>6 DEF WithTop, AtPos, Top
  <2> QED
    BY <1>0, <2>1, <2>2, <2>4, <2>5, <2>6, <2>7, ExecuteCounted
<1>3. ASSUME NEW n \in Ids, SkipOrDeadlock(n) PROVE Counted'
  <2>1. UNCHANGED <<attempts, frames, runs>> /\ (Mark(n, "skipped") \/ UNCHANGED status)
    BY <1>3 DEF SkipOrDeadlock
  <2>2. StackWithin
    BY <2>1 DEF StackWithin
  <2>3. \A m \in Ids : status'[m] \in {"pending", "running", "retrying"} => status'[m] = status[m]
    BY <1>0, <2>1 DEF Mark, TypeOK
  <2> QED
    BY <2>1, <2>2, <2>3, StaysCounted
<1>4. CASE BodyPassOver \/ BodyAgain
  <2>1. UNCHANGED <<status, attempts, runs>> /\ \E q, m : frames' = WithTop(AtPos(Top, q, m))
    BY <1>4 DEF BodyPassOver, BodyAgain, nodeVars
  <2>2. PICK q, m : frames' = WithTop(AtPos(Top, q, m))
    BY <2>1
  <2>3. DOMAIN frames' = DOMAIN frames
    BY <2>2 DEF WithTop
  <2>4. \A i \in DOMAIN frames : frames'[i].loop = frames[i].loop /\ frames'[i].iter = frames[i].iter
    BY <2>2 DEF WithTop, AtPos, Top
  <2>5. StackWithin
    BY <2>3, <2>4 DEF StackWithin
  <2> QED
    BY <2>1, <2>5, StaysCounted
<1>5. CASE LoopEnds
  <2>1. frames # <<>> /\ frames' = Outer /\ Len(frames) \in DOMAIN frames /\ UNCHANGED <<attempts, runs>>
    BY <1>0, <1>5 DEF LoopEnds, LoopReturns, BodyWalked, InBody
  <2>2. PICK s \in {"completed", "failed"} : Mark(Top.loop, s)
    BY <1>5 DEF LoopEnds, LoopReturns
  <2>3. /\ DOMAIN frames' = 1 .. (Len(frames) - 1)
        /\ \A i \in DOMAIN frames' : i \in DOMAIN frames /\ i < Len(frames) /\ frames'[i] = frames[i]
    BY <1>0, <2>1 DEF Outer
  <2>4. StackWithin
    BY <2>3 DEF StackWithin
  <2>5. \A m \in Ids : status'[m] \in {"pending", "running", "retrying"} => status'[m] = status[m]
    BY <1>0, <2>2 DEF Mark, TypeOK
  <2> QED
    BY <2>1, <2>4, <2>5, StaysCounted
<1>6. CASE LoopIterates
  <2>1. /\ frames # <<>> /\ Len(frames) \in DOMAIN frames /\ UNCHANGED runs
        /\ Top.iter < Def.maxIterations[Top.loop] /\ ResetBody(Top.loop)
        /\ frames' = WithTop(Frame(Top.loop, Top.iter + 1))
    BY <1>0, <1>6 DEF LoopIterates, BodyWalked, InBody
  <2>2. PICK l : l = Top.loop
    OBVIOUS
  <2>3. PICK it : it = Top.iter
    OBVIOUS
  <2>4. /\ l \in Loops /\ l \in Ids /\ BodySet(l) \in SUBSET Ids /\ l \notin BodySet(l)
        /\ it \in Nat /\ it < Times(l)
    <3>1. Top.loop \in Loops /\ Top.iter \in 1 .. Def.maxIterations[Top.loop]
      BY <1>0, <2>1, TopFrame
    <3>2. Def.maxIterations[l] \in Nat /\ Times(l) = Def.maxIterations[l] /\ BodySet(l) \in SUBSET Ids /\ l \in Ids
      BY <2>2, <3>1, TimesType, LoopBody, DefAssumption DEF Loops
    <3> QED
      BY <2>1, <2>2, <2>3, <3>1, <3>2, DepthFact
  <2>5. PICK C \in CountType : OwnersCounted(C) /\ AgentsCounted(C)
    BY DEF Counted
  <2>6. /\ C[l] \in Nat /\ Times(l) \in Nat \ {0} /\ Times(l) * Resets(C, l) \in Nat
        /\ C[l] + Times(l) <= Times(l) * Resets(C, l) + it
    <3>1. C[l] \in Nat /\ Times(l) \in Nat \ {0} /\ Resets(C, l) \in Nat
      BY <2>4, <2>5, TimesType, ResetsType DEF CountType
    <3>2. frames[Len(frames)].loop = l /\ frames[Len(frames)].iter = it
      BY <2>2, <2>3 DEF Top
    <3>3. C[l] + Times(l) <= Times(l) * Resets(C, l) + it
      BY <2>1, <2>5, <3>2 DEF OwnersCounted
    <3> QED
      BY <3>1, <3>3, MulNext
  <2>7. C[l] + 1 <= Times(l) * Resets(C, l) /\ C[l] + 1 + Times(l) <= Times(l) * Resets(C, l) + (it + 1)
    BY <2>4, <2>6
  <2>8. /\ status'[l] = "running"
        /\ \A m \in BodySet(l) : status'[m] = "pending" /\ attempts'[m] = 0
        /\ \A m \in Ids \ (BodySet(l) \cup {l}) : status'[m] = status[m] /\ attempts'[m] = attempts[m]
    BY <2>1, <2>2, <2>4 DEF ResetBody
  <2>9. \A m \in BodySet(l) : l \in Owners(m)
    BY <2>4, OwnerFacts
  <2>10. ASSUME NEW i \in DOMAIN frames'
         PROVE  \/ /\ frames'[i].loop = l
                   /\ C[l] + 1 + Times(l) <= Times(l) * Resets(C, l) + frames'[i].iter
                \/ \E j \in DOMAIN frames : /\ frames'[i].loop = frames[j].loop /\ frames'[i].iter = frames[j].iter
                                            /\ frames[j].loop # l
    <3>1. i \in DOMAIN frames /\ i \in Nat /\ Len(frames) \in Nat /\ i <= Len(frames)
      BY <1>0, <2>1, StackLoops DEF WithTop
    <3>2. CASE i = Len(frames)
      <4>1. frames'[i].loop = l /\ frames'[i].iter = it + 1
        BY <2>1, <2>2, <2>3, <3>1, <3>2 DEF WithTop, Frame
      <4> QED
        BY <2>7, <4>1
    <3>3. CASE i # Len(frames)
      <4>1. frames'[i] = frames[i]
        BY <2>1, <3>1, <3>3 DEF WithTop
      <4>2. Depth[frames[i].loop] < Depth[l]
        BY <1>0, <2>1, <2>2, <3>1, <3>3 DEF StackOK, Top
      <4>3. frames[i].loop # l
        BY <2>4, <4>2, DepthFact
      <4> QED
        BY <3>1, <4>1, <4>3
    <3> QED
      BY <3>2, <3>3
  <2> QED
    BY <1>0, <2>1, <2>4, <2>5, <2>7, <2>8, <2>9, <2>10, OwnerResets
<1>7. ASSUME NEW n \in Ids, Returns(n) PROVE Counted'
  BY <1>7, ReturnCounted
<1>8. CASE UNCHANGED <<status, attempts, frames, runs>>
  <2>1. StackWithin
    BY <1>8 DEF StackWithin
  <2> QED
    BY <1>8, <2>1, StaysCounted
<1>9. \/ \E n \in Ids : Visit(n) \/ SkipOrDeadlock(n) \/ Returns(n)
      \/ BodyVisit \/ BodyPassOver \/ BodyAgain \/ LoopEnds \/ LoopIterates
      \/ UNCHANGED <<status, attempts, frames, runs>>
  BY DEF Next, Walk, Body, Idle, PassOver, EndWalk, Return, Decide, Cancel, vars, nodeVars
<1> QED
  BY <1>1, <1>2, <1>3, <1>4, <1>5, <1>6, <1>7, <1>8, <1>9

(* What an owner has done stays within its rounds, from the outermost in.   *)
LEMMA RoundsBound ==
  ASSUME BodiesApart, NEW C \in CountType, OwnersCounted(C)
  PROVE  \A n \in Ids : Resets(C, n) \in Nat /\ Rounds[n] \in Nat /\ Resets(C, n) <= Rounds[n]
<1> DEFINE Ok(n) == Rounds[n] \in Nat /\ Resets(C, n) <= Rounds[n]
           T == {Level(n) : n \in {m \in Ids : ~Ok(m)}}
<1>1. \A n \in Ids : Resets(C, n) \in Nat
  BY ResetsType
<1>2. \A n \in Ids : Level(n) \in Nat
  BY LevelFact
<1>3. SUFFICES ASSUME T # {} PROVE FALSE
  BY <1>1
<1>4. T \subseteq Nat
  BY <1>2
<1>5. PICK x \in T : \A y \in T : x <= y
  <2> HIDE DEF T
  <2> QED
    BY <1>3, <1>4, LeastNatural
<1>6. PICK n \in Ids : ~Ok(n) /\ x = Level(n)
  BY <1>5
<1>7. \A m \in Ids : Level(m) < Level(n) => Ok(m)
  <2> SUFFICES ASSUME NEW m \in Ids, Level(m) < Level(n), ~Ok(m) PROVE FALSE
    OBVIOUS
  <2>1. Level(m) \in T
    OBVIOUS
  <2>2. Level(n) <= Level(m) /\ Level(m) \in Nat /\ Level(n) \in Nat
    BY <1>2, <1>5, <1>6, <2>1
  <2> QED
    BY <2>2
<1>8. CASE Owners(n) = {}
  BY <1>6, <1>8, RoundsFix DEF Resets
<1>9. CASE Owners(n) # {}
  <2> DEFINE p == OwnerOf(n)
  <2>1. p \in Loops \cup Forks /\ p \in Ids /\ Level(p) < Level(n)
    BY <1>9, OwnerFacts, LevelFact
  <2>2. Rounds[p] \in Nat /\ Resets(C, p) <= Rounds[p]
    BY <1>7, <2>1
  <2>3. Resets(C, n) = C[p] /\ C[p] <= Times(p) * Resets(C, p) /\ Rounds[n] = Times(p) * Rounds[p]
    BY <1>9, <2>1, RoundsFix DEF Resets, OwnersCounted
  <2>4. Times(p) \in Nat /\ Resets(C, p) \in Nat /\ C[p] \in Nat
    BY <1>1, <2>1, TimesType DEF CountType
  <2> HIDE DEF p
  <2>5. Times(p) * Resets(C, p) <= Times(p) * Rounds[p] /\ Times(p) * Rounds[p] \in Nat /\ Times(p) * Resets(C, p) \in Nat
    BY <2>2, <2>4, MulGrows
  <2>6. Rounds[n] \in Nat /\ Resets(C, n) <= Rounds[n]
    BY <2>3, <2>4, <2>5
  <2> QED
    BY <1>6, <2>6
<1> QED
  BY <1>8, <1>9

(***************************************************************************)
(* An agent is spawned at most its attempts times the rounds of the loops  *)
(* around it, however retries, backoffs, cancellation and the iterations   *)
(* of loops in loops interleave, and whether it is a clone of a fork or    *)
(* not, in every definition whose loop bodies do not overlap.              *)
(***************************************************************************)
THEOREM SpawnsCorrect ==
  ASSUME BodiesApart
  PROVE  Spec => []SpawnsBounded
<1>1. Spec => []NodeInv
  BY NodeInit, NodeStep, EngineAlways, PTL DEF Spec
<1>2. Init => TodoMain
  BY DEF Init, TodoMain
<1>3. Spec => []TodoMain
  BY <1>1, <1>2, TodoStep, PTL DEF Spec
<1>4. Init => Counted
  BY CountedInit
<1>5. (IInv /\ FlightOK) /\ TodoMain /\ Counted /\ [Next]_vars => Counted'
  BY CountedStep
<1>6. Spec => []Counted
  BY <1>3, <1>4, <1>5, EngineAlways, PTL DEF Spec
<1>7. IInv /\ Counted => SpawnsBounded
  <2> SUFFICES ASSUME TypeOK, Counted, NEW n \in Ids PROVE runs[n] <= Attempts(n) * Rounds[n]
    BY DEF IInv, SpawnsBounded
  <2>1. PICK C \in CountType : OwnersCounted(C) /\ AgentsCounted(C)
    BY DEF Counted
  <2>2. Resets(C, n) \in Nat /\ Rounds[n] \in Nat /\ Resets(C, n) <= Rounds[n]
    BY <2>1, RoundsBound
  <2>3. Attempts(n) \in Nat /\ runs[n] \in Nat
    BY AttemptsType DEF TypeOK
  <2>4. /\ Attempts(n) * Resets(C, n) \in Nat /\ Attempts(n) * Rounds[n] \in Nat
        /\ Attempts(n) * Resets(C, n) <= Attempts(n) * Rounds[n]
    BY <2>2, <2>3, MulGrows
  <2>5. runs[n] <= Attempts(n) * Resets(C, n) \/ runs[n] = 0
    BY <2>1 DEF AgentsCounted, AgentCounted
  <2> QED
    BY <2>3, <2>4, <2>5
<1> QED
  BY <1>6, <1>7, EngineAlways, PTL

=============================================================================
