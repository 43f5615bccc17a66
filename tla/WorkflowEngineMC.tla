-------------------------- MODULE WorkflowEngineMC --------------------------
(***************************************************************************)
(* Workflow definitions on which TLC runs WorkflowEngine.                  *)
(***************************************************************************)
EXTENDS WorkflowEngine

Out(from, to, cond) == [from |-> from, to |-> to, cond |-> cond, key |-> None]
Key(from, to, key) == [from |-> from, to |-> to, cond |-> "success", key |-> key]

(* A definition without forks and loops is a function from its ids to their *)
(* kinds and its edges.                                                    *)
Plain(kind, edges, retry) ==
  [nodes |-> DOMAIN kind, kind |-> kind, edges |-> edges, clones |-> <<>>, firstJoin |-> <<>>,
   templates |-> {}, body |-> <<>>, maxIterations |-> <<>>, maxAttempts |-> [n \in DOMAIN kind |-> retry],
   backoffs |-> [n \in DOMAIN kind |-> 1], results |-> {"yes", "no", "other"}]

(* examples/software-dev-agile.json with the chain of agents before the     *)
(* fork shortened, and with a loop inside its qa loop: the fix is repeated  *)
(* until a gate is satisfied.                                              *)
AgileKind ==
  [trigger |-> "trigger", prdApproval |-> "human_approval", plan |-> "agent",
   fork |-> "parallel_fork", coding |-> "agent", join |-> "join", qaLoop |-> "loop",
   qa |-> "agent", fixLoop |-> "loop", bugFix |-> "agent", check |-> "human_approval",
   delivery |-> "transform", coding0 |-> "agent", coding1 |-> "agent"]

AgileEdges ==
  {Out("trigger", "prdApproval", "success"), Out("prdApproval", "plan", "approved"),
   Out("plan", "fork", "success"), Out("fork", "join", "always"),
   Out("join", "qaLoop", "success"), Out("qa", "fixLoop", "always"),
   Out("bugFix", "check", "always"), Out("qaLoop", "delivery", "success")}

AgileDef ==
  [nodes |-> DOMAIN AgileKind \ {"coding0", "coding1"}, kind |-> AgileKind, edges |-> AgileEdges,
   clones |-> [f \in {"fork"} |-> <<"coding0", "coding1">>], firstJoin |-> [f \in {"fork"} |-> "join"],
   templates |-> {"coding"},
   body |-> [l \in {"qaLoop", "fixLoop"} |->
               IF l = "qaLoop" THEN <<"qa", "fixLoop">> ELSE <<"bugFix", "check">>],
   maxIterations |-> [l \in {"qaLoop", "fixLoop"} |-> 2],
   maxAttempts |-> [n \in DOMAIN AgileKind |-> IF n \in {"plan", "bugFix"} THEN 2 ELSE 0],
   backoffs |-> [n \in DOMAIN AgileKind |-> IF n = "bugFix" THEN 1 ELSE 0], results |-> {"yes"}]

(* A condition with a fallback edge, and behind one of its branches a gate, *)
(* a subworkflow with a failure edge, and a report that is made always,    *)
(* also when its source was skipped; the other branches meet in a join.    *)
(* Behind one of them there is a loop whose body branches, forks to two    *)
(* joins, and asks a gate with a fixer behind its rejection.               *)
RoutesKind ==
  [route |-> "condition", make |-> "agent", gate |-> "human_approval",
   sub |-> "subworkflow", rescue |-> "transform", report |-> "transform",
   else |-> "transform", meet |-> "join", rounds |-> "loop",
   pick |-> "condition", ask |-> "human_approval", redo |-> "agent",
   split |-> "parallel_fork", part |-> "agent", merge |-> "join", late |-> "join", part0 |-> "agent"]

RoutesEdges ==
  {Key("route", "make", "yes"), Key("route", "rounds", "no"), Out("route", "else", "always"),
   Out("make", "gate", "success"), Out("make", "report", "always"),
   Out("gate", "sub", "approved"), Out("sub", "rescue", "failed"),
   Out("rounds", "meet", "success"), Out("else", "meet", "success"),
   Key("pick", "ask", "yes"), Key("pick", "split", "no"), Out("ask", "redo", "rejected"),
   Out("split", "merge", "always"), Out("split", "late", "always")}

RoutesDef ==
  [nodes |-> DOMAIN RoutesKind \ {"part0"}, kind |-> RoutesKind, edges |-> RoutesEdges,
   clones |-> [f \in {"split"} |-> <<"part0">>], firstJoin |-> [f \in {"split"} |-> "merge"],
   templates |-> {"part"},
   body |-> [l \in {"rounds"} |-> <<"pick", "ask", "redo", "split", "merge", "late">>],
   maxIterations |-> [l \in {"rounds"} |-> 2],
   maxAttempts |-> [n \in DOMAIN RoutesKind |-> IF n = "redo" THEN 2 ELSE 0],
   backoffs |-> [n \in DOMAIN RoutesKind |-> 1], results |-> {"yes", "no", "other"}]

(* The if/else that meets again in a join. *)
DiamondDef ==
  Plain([start |-> "trigger", route |-> "condition", yes |-> "agent", no |-> "agent",
         meet |-> "join"],
        {Out("start", "route", "success"), Key("route", "yes", "yes"), Key("route", "no", "no"),
         Out("yes", "meet", "success"), Out("no", "meet", "success")}, 0)

=============================================================================
