------------------------------ MODULE WorkItems ------------------------------
(***************************************************************************)
(* Work items and the runs that execute them (internal/server/chat.go,     *)
(* internal/store/store_workitem.go, the workspace page of the console).   *)
(* A row has three writers that know nothing of each other: a request of   *)
(* the page, which writes back the WHOLE row it has read; the goroutine    *)
(* that projects a run into the row; the roll-up of a child into its       *)
(* parent.  Runs, requests and goroutines die with the process, rows stay. *)
(*                                                                         *)
(* Of a row only status, progress and run are kept, and progress is part    *)
(* (below 100) or full (100).  Hours, texts and the messages that announce a *)
(* change are left out.  The page sends a status of its own choice or that *)
(* of an old snapshot: either is any status.                               *)
(***************************************************************************)
EXTENDS Naturals, FiniteSets

CONSTANTS
  Items,
  Runs,
  Requests,    \* the requests that may be under way at a time
  PutStatuses, \* bound: the statuses a PUT sets
  MaxRuns,     \* bound: runs launched
  MaxEdits,    \* bound: PUT requests
  MaxFaults,   \* bound: statements that fail
  MaxCrashes,  \* bound: restarts of the control plane
  None

VARIABLES
  items,    \* work_items: a row, or NoRow before its creation, or Gone
  parent,   \* parentId, which the page sends back as it got it
  runs,     \* the runs launched for items, with the trackRunProgress of each
  req,      \* the requests under way
  up, launched, edits, faults, crashes,
  earned,   \* history: items that may show 100%
  excused   \* history: items last set to in_progress by a PUT, or whose last
            \* projection was lost

envVars == <<launched, edits, faults, crashes>>
vars == <<items, parent, runs, req, up, envVars, earned, excused>>

Statuses == {"open", "in_progress", "review", "done"}
Progress == {"part", "full"}

ASSUME WorkItemsAssumption ==
  /\ None \notin Items \cup Runs /\ PutStatuses \subseteq Statuses
  /\ MaxRuns \in Nat /\ MaxEdits \in Nat /\ MaxFaults \in Nat /\ MaxCrashes \in Nat

(* run: whether workflow_run_id is set; no code looks further.             *)
Row == [status : Statuses, progress : Progress, run : BOOLEAN]
NoRow == [status |-> "absent", progress |-> "part", run |-> FALSE]
Gone == [status |-> "gone", progress |-> "part", run |-> FALSE]

Exists(i) == items[i].status \in Statuses
Kids(p) == {i \in Items : Exists(i) /\ parent[i] = p}

(* A run is forgotten when its tracker returns.  at: where the tracker is; *)
(* state: of the run, where failed stands for paused too; mean: of the     *)
(* children, once listed.                                                  *)
Live == {"sleep", "project", "stall", "final"}
NoRun == [at |-> "none", item |-> None, state |-> "running", late |-> FALSE, mean |-> "part"]
NoRequest == [at |-> "none", item |-> None, row |-> NoRow, run |-> None]

Init ==
  /\ items = [i \in Items |-> NoRow] /\ parent = [i \in Items |-> None]
  /\ runs = [r \in Runs |-> NoRun]
  /\ req = [q \in Requests |-> NoRequest]
  /\ up = TRUE /\ launched = 0 /\ edits = 0 /\ faults = 0 /\ crashes = 0
  /\ earned = {} /\ excused = {}

Fault == faults < MaxFaults /\ faults' = faults + 1

(* An UPDATE: the row, if it is still there.                               *)
Writes(i, row) ==
  items' = IF Exists(i) THEN [items EXCEPT ![i] = row] ELSE items

(* Ids and slots have no meaning: a new one is any that is free.           *)
NewItem == CHOOSE i \in Items : items[i] = NoRow
NewRun == CHOOSE r \in Runs : runs[r] = NoRun
NewRequest == CHOOSE q \in Requests : req[q] = NoRequest

-----------------------------------------------------------------------------
(***************************************************************************)
(* Requests of the page.                                                   *)
(***************************************************************************)
(* createWorkItem; the parent is one the page has shown.                   *)
Create(i) ==
  /\ up /\ items[i] = NoRow /\ i = NewItem
  /\ \E p \in {None} \cup {j \in Items : items[j] # NoRow} :
       parent' = [parent EXCEPT ![i] = p]
  /\ items' = [items EXCEPT ![i] = [status |-> "open", progress |-> "part", run |-> FALSE]]
  /\ UNCHANGED <<runs, req, up, envVars, earned, excused>>

Delete(i) ==
  /\ up /\ Exists(i)
  /\ items' = [items EXCEPT ![i] = Gone]
  /\ UNCHANGED <<parent, runs, req, up, envVars, earned, excused>>

(* updateWorkItem reads the row and puts the status of the request in...   *)
PutReads(q, i) ==
  /\ up /\ req[q] = NoRequest /\ q = NewRequest /\ Exists(i)
  /\ edits < MaxEdits /\ edits' = edits + 1
  /\ \E s \in PutStatuses :
       req' = [req EXCEPT ![q] = [at |-> "put", item |-> i, run |-> None,
                                  row |-> [items[i] EXCEPT !.status = s]]]
  /\ UNCHANGED <<items, parent, runs, up, launched, faults, crashes, earned, excused>>

(* ...and writes all of it back.                                           *)
PutWrites(q) ==
  LET i == req[q].item IN
  /\ req[q].at = "put"
  /\ req' = [req EXCEPT ![q] = NoRequest]
  /\ \/ /\ Writes(i, req[q].row)
        /\ excused' = IF req[q].row.status = "in_progress" THEN excused \cup {i} ELSE excused \ {i}
        /\ UNCHANGED faults
     \/ Fault /\ UNCHANGED <<items, excused>>
  /\ UNCHANGED <<parent, runs, up, launched, edits, crashes, earned>>

(* executeWorkItem: 409 if the row is executing a run; else Launch, whose  *)
(* refusal changes nothing.  Launching at once loses no behaviour: the run *)
(* takes its own time, and nobody sees it before the row is written.       *)
Launches(q, i) ==
  /\ up /\ req[q] = NoRequest /\ q = NewRequest /\ Exists(i)
  /\ ~(items[i].status = "in_progress" /\ items[i].run)
  /\ launched < MaxRuns /\ launched' = launched + 1
  /\ \E r \in Runs :
       /\ runs[r] = NoRun /\ r = NewRun
       /\ runs' = [runs EXCEPT ![r].at = "launched", ![r].item = i]
       /\ req' = [req EXCEPT ![q] =
            [at |-> "record", item |-> i, run |-> r,
             row |-> [items[i] EXCEPT !.status = "in_progress", !.run = TRUE]]]
  /\ UNCHANGED <<items, parent, up, edits, faults, crashes, earned, excused>>

(* The row that was read before the launch is written back, an error is    *)
(* ignored, and go trackRunProgress starts.                                *)
Records(q) ==
  /\ req[q].at = "record"
  /\ runs' = [runs EXCEPT ![req[q].run].at = "sleep"]
  /\ req' = [req EXCEPT ![q] = NoRequest]
  /\ \/ /\ Writes(req[q].item, req[q].row)
        /\ excused' = excused \ {req[q].item}
        /\ UNCHANGED faults
     \/ Fault /\ UNCHANGED <<items, excused>>
  /\ UNCHANGED <<parent, up, launched, edits, crashes, earned>>

-----------------------------------------------------------------------------
(***************************************************************************)
(* A run, and trackRunProgress.                                            *)
(***************************************************************************)
(* External to the item: a run ends, or stalls at a review for ever.        *)
RunEnds(r) ==
  /\ runs[r].at \in Live \cup {"launched"} /\ runs[r].state = "running"
  /\ \E s \in {"completed", "failed"} :
       /\ runs' = [runs EXCEPT ![r].state = s, ![r].late = FALSE]
       /\ earned' = IF s = "completed" THEN earned \cup {runs[r].item} ELSE earned
  /\ UNCHANGED <<items, parent, req, up, envVars, excused>>

(* It is of no account once the run has ended.                             *)
DeadlinePasses(r) ==
  /\ runs[r].at \in {"sleep", "project"} /\ runs[r].state = "running" /\ ~runs[r].late
  /\ runs' = [runs EXCEPT ![r].late = TRUE]
  /\ UNCHANGED <<items, parent, req, up, envVars, earned, excused>>

(* The slip: no absolute limit.                                            *)
ChecksForEver(r) ==
  /\ runs[r].at = "sleep"
  /\ runs' = [runs EXCEPT ![r].at = IF runs[r].state # "running" THEN "final" ELSE "project"]
  /\ UNCHANGED <<items, parent, req, up, envVars, earned, excused>>

(* Every two seconds: has the run ended, or is the deadline over?          *)
Checks(r) ==
  /\ runs[r].at = "sleep"
  /\ runs' = [runs EXCEPT ![r].at =
       IF runs[r].state # "running" THEN "final"
       ELSE IF runs[r].late THEN "stall" ELSE "project"]
  /\ UNCHANGED <<items, parent, req, up, envVars, earned, excused>>

(* UpdateWorkItemRun.                                                      *)
UpdateWorkItemRun(i, progress, status) ==
  Writes(i, [items[i] EXCEPT !.progress = progress, !.status = status])

(* Only the first event of a node is counted.  That one says running, and  *)
(* completed for a node that was decided before it was reached; never for  *)
(* the trigger, which runs before the first look: the share stays below    *)
(* 100.                                                                    *)
Projects(r) ==
  /\ runs[r].at = "project"
  /\ runs' = [runs EXCEPT ![r].at = "sleep"]
  /\ \/ /\ UpdateWorkItemRun(runs[r].item, "part", "in_progress")
        /\ excused' = excused \ {runs[r].item}
        /\ UNCHANGED faults
     \/ Fault /\ UNCHANGED <<items, excused>>
  /\ UNCHANGED <<parent, req, up, launched, edits, crashes, earned>>

(* The last projection of a run; an error is only logged.                  *)
LastUpdate(i, progress, status) ==
  \/ UpdateWorkItemRun(i, progress, status) /\ excused' = excused \ {i} /\ UNCHANGED faults
  \/ Fault /\ excused' = excused \cup {i} /\ UNCHANGED items

(* The parent is added up, if there is one.                                *)
AfterLast(i) ==
  IF parent[i] = None THEN NoRun ELSE [NoRun EXCEPT !.at = "rollup", !.item = i]

(* The deadline: the item goes to review and the run is left alone.        *)
Stalls(r) ==
  /\ runs[r].at = "stall"
  /\ runs' = [runs EXCEPT ![r] = NoRun]
  /\ LastUpdate(runs[r].item, "part", "review")
  /\ UNCHANGED <<parent, req, up, launched, edits, crashes, earned>>

(* The slip: 100% whatever the outcome.                                    *)
FinishesFull(r) ==
  /\ runs[r].at = "final"
  /\ runs' = [runs EXCEPT ![r] = AfterLast(runs[r].item)]
  /\ LastUpdate(runs[r].item, "full", IF runs[r].state = "completed" THEN "done" ELSE "review")
  /\ UNCHANGED <<parent, req, up, launched, edits, crashes, earned>>

(* The end of the run: done at 100%, or review where it stood.             *)
Finishes(r) ==
  /\ runs[r].at = "final"
  /\ runs' = [runs EXCEPT ![r] = AfterLast(runs[r].item)]
  /\ IF runs[r].state = "completed"
       THEN LastUpdate(runs[r].item, "full", "done")
       ELSE LastUpdate(runs[r].item, "part", "review")
  /\ UNCHANGED <<parent, req, up, launched, edits, crashes, earned>>

(* The mean of the children, rounded down: 100 iff every one is at 100.    *)
Mean(kids) ==
  IF \A k \in kids : items[k].progress = "full" THEN "full" ELSE "part"

(* RollupParent reads the children...                                      *)
Lists(r) ==
  LET p == parent[runs[r].item] IN
  /\ runs[r].at = "rollup"
  /\ IF Kids(p) = {}
       THEN runs' = [runs EXCEPT ![r] = NoRun] /\ UNCHANGED earned
       ELSE /\ runs' = [runs EXCEPT ![r].at = "rolled", ![r].mean = Mean(Kids(p))]
            /\ earned' = IF Kids(p) \subseteq earned THEN earned \cup {p} ELSE earned
  /\ UNCHANGED <<items, parent, req, up, envVars, excused>>

(* ...and writes the parent.                                               *)
RollsUp(r) ==
  LET p == parent[runs[r].item] IN
  /\ runs[r].at = "rolled"
  /\ runs' = [runs EXCEPT ![r] = NoRun]
  /\ \/ Writes(p, [items[p] EXCEPT !.progress = runs[r].mean]) /\ UNCHANGED faults
     \/ Fault /\ UNCHANGED items
  /\ UNCHANGED <<parent, req, up, launched, edits, crashes, earned, excused>>

-----------------------------------------------------------------------------
(* The process dies, and with it runs, trackers and requests.              *)
Crash ==
  /\ up /\ crashes < MaxCrashes /\ crashes' = crashes + 1
  /\ up' = FALSE
  /\ runs' = [r \in Runs |-> NoRun]
  /\ req' = [q \in Requests |-> NoRequest]
  /\ UNCHANGED <<items, parent, launched, edits, faults, earned, excused>>

(* The slip: nothing is reconciled before requests are served.             *)
RestartAsIs ==
  /\ ~up /\ up' = TRUE
  /\ UNCHANGED <<items, parent, runs, req, envVars, earned, excused>>

(* main: ReconcileStaleRunning, whose failure is only logged, then serve.   *)
Restart ==
  LET stale == {i \in Items : items[i].status = "in_progress"} IN
  /\ ~up /\ up' = TRUE
  /\ \/ /\ items' = [i \in Items |-> IF i \in stale THEN [items[i] EXCEPT !.status = "review"]
                                     ELSE items[i]]
        /\ UNCHANGED <<faults, excused>>
     \/ Fault /\ excused' = excused \cup stale /\ UNCHANGED items
  /\ UNCHANGED <<parent, runs, req, launched, edits, crashes, earned>>

-----------------------------------------------------------------------------
Request(q) ==
  \/ \E i \in Items : PutReads(q, i) \/ Launches(q, i)
  \/ PutWrites(q) \/ Records(q)
Track(r) ==
  \/ Checks(r) \/ Projects(r) \/ Stalls(r) \/ Finishes(r) \/ Lists(r) \/ RollsUp(r)

Next ==
  \/ \E i \in Items : Create(i) \/ Delete(i)
  \/ \E q \in Requests : Request(q)
  \/ \E r \in Runs : RunEnds(r) \/ DeadlinePasses(r) \/ Track(r)
  \/ Crash \/ Restart

Spec == Init /\ [][Next]_vars

(* A tracker goes on, time passes, and a supervisor starts the process     *)
(* again.  Nothing makes a run end, a reader ask or a handler return.      *)
FairSpec ==
  /\ Spec
  /\ \A r \in Runs : WF_vars(Track(r)) /\ WF_vars(DeadlinePasses(r))
  /\ WF_vars(Restart)

-----------------------------------------------------------------------------
RowsType ==
  items \in [Items -> Row \cup {NoRow, Gone}] /\ parent \in [Items -> Items \cup {None}]
RunRecord ==
  [at : Live \cup {"none", "launched", "rollup", "rolled"}, item : Items \cup {None},
   state : {"running", "completed", "failed"}, late : BOOLEAN, mean : Progress]
RunsType ==
  /\ runs \in [Runs -> RunRecord]
  /\ \A r \in Runs : runs[r].at # "none" => runs[r].item \in Items
  /\ \A r \in Runs : runs[r].at \in {"rollup", "rolled"} => parent[runs[r].item] \in Items
RequestsType ==
  /\ req \in [Requests -> [at : {"none", "put", "record"}, item : Items \cup {None},
                           row : Row \cup {NoRow}, run : Runs \cup {None}]]
  /\ \A q \in Requests : req[q].at # "none" => req[q].item \in Items /\ req[q].row \in Row
  /\ \A q \in Requests : req[q].at = "record" =>
       /\ req[q].run \in Runs
       /\ runs[req[q].run].at = "launched" /\ runs[req[q].run].item = req[q].item
RestType ==
  /\ up \in BOOLEAN /\ launched \in 0 .. MaxRuns /\ edits \in 0 .. MaxEdits
  /\ faults \in 0 .. MaxFaults /\ crashes \in 0 .. MaxCrashes
  /\ earned \subseteq Items /\ excused \subseteq Items

(* Every variable keeps to its values; a request under way has an item and *)
(* its row, and the run of an execution that is not yet recorded waits for *)
(* its tracker; only a run of an item with a parent is added up.           *)
TypeOK == RowsType /\ RunsType /\ RequestsType /\ RestType

(* "A failed or paused run is not 100%" (chat.go:1055), nor is its parent: *)
(* an item shows 100% only if a run of it completed, or if all of its      *)
(* children had earned it when they were added up; and no row read before  *)
(* and written back, by a request or by a tracker, can bring about more.   *)
FullEarned ==
  \A i \in Items : Exists(i) /\ items[i].progress = "full" => i \in earned

(* While the service is up, an item in progress has a goroutine that will  *)
(* take it out of progress, through double launches, deletions and         *)
(* restarts: otherwise execute answers 409 until the next restart.  What   *)
(* can leave it behind is a PUT that sets in_progress, or the failure of   *)
(* the very statement that should have freed it.                           *)
Executing(i) == items[i].status = "in_progress"
TrackedBy(i) == {r \in Runs : runs[r].item = i /\ runs[r].at \in Live}
NeverStuck ==
  up => \A i \in Items : Executing(i) /\ i \notin excused => TrackedBy(i) # {}

(* Whatever the run does, stalled at a review nobody answers or gone with  *)
(* the process, its item leaves in_progress (the deadline of               *)
(* trackRunProgress, ReconcileStaleRunning).                               *)
ExecutionEnds ==
  \A i \in Items : (Executing(i) /\ i \notin excused) ~> (~Executing(i) \/ i \in excused)

(* "A PUT with only {status} would clear the other fields and wash away    *)
(* the projection of the run under way" (chat.go:525-526) is why an update *)
(* is partial: it changes the status of the stored row and nothing else.   *)
PutIsPartial ==
  [][\A q \in Requests : req[q].at = "put" /\ PutWrites(q) =>
       LET i == req[q].item IN
       items'[i].progress = items[i].progress /\ items'[i].run = items[i].run]_vars
==============================================================================
