--------------------------- MODULE WorkItemsProofs ---------------------------
(***************************************************************************)
(* For any number of work items, runs, requests, failed statements and     *)
(* restarts: what shows 100% has earned it, and an item in progress has a  *)
(* tracker unless a PUT or a lost statement left it so.                    *)
(***************************************************************************)
EXTENDS WorkItems, TLAPS

(* Two executions under way have launched two runs.                        *)
OwnRun ==
  \A q, w \in Requests :
    req[q].at = "record" /\ req[w].at = "record" /\ req[q].run = req[w].run => q = w

(* A request and a run are for an item that has been created.              *)
Known ==
  /\ \A q \in Requests : req[q].at # "none" => items[req[q].item] # NoRow
  /\ \A r \in Runs : runs[r].at # "none" => items[runs[r].item] # NoRow

TypeInv == TypeOK /\ OwnRun

(* What may write 100% later, from memory, has earned it too: the row of a *)
(* request, a completed run, the mean of the children.                     *)
RowEarned ==
  \A q \in Requests : req[q].at # "none" /\ req[q].row.progress = "full" => req[q].item \in earned
RunEarned ==
  \A r \in Runs : runs[r].at # "none" /\ runs[r].state = "completed" => runs[r].item \in earned
MeanEarned ==
  \A r \in Runs : runs[r].at = "rolled" /\ runs[r].mean = "full" => parent[runs[r].item] \in earned

EarnedInv == FullEarned /\ RowEarned /\ RunEarned /\ MeanEarned

IInv == TypeInv /\ Known /\ EarnedInv /\ NeverStuck

-----------------------------------------------------------------------------
LEMMA InitInv == Init => IInv
<1> SUFFICES ASSUME Init PROVE IInv
  OBVIOUS
<1> USE DEF Init, NoRow, NoRun, NoRequest
<1>1. RowsType
  BY DEF RowsType
<1>2. RunsType
  BY DEF RunsType, RunRecord, Progress
<1>3. RequestsType
  BY DEF RequestsType
<1>4. RestType
  BY WorkItemsAssumption DEF RestType
<1>5. OwnRun /\ EarnedInv
  BY DEF OwnRun, EarnedInv, FullEarned, RowEarned, RunEarned, MeanEarned, Exists, Statuses
<1>6. NeverStuck /\ Known
  BY DEF NeverStuck, Executing, Known
<1> QED
  BY <1>1, <1>2, <1>3, <1>4, <1>5, <1>6 DEF IInv, TypeInv, TypeOK

-----------------------------------------------------------------------------
(* A statement of the store keeps every other row, and a row that is gone. *)
LEMMA Written ==
  ASSUME RowsType, NEW i \in Items, NEW row \in Row, Writes(i, row), UNCHANGED parent
  PROVE  /\ RowsType'
         /\ Exists(i) => items'[i] = row
         /\ ~Exists(i) => items'[i] = items[i]
         /\ \A j \in Items \ {i} : items'[j] = items[j]
BY DEF RowsType, Writes

(* UpdateWorkItemRun is such a statement.                                  *)
LEMMA Updated ==
  ASSUME RowsType, NEW i \in Items, NEW p \in Progress, NEW s \in Statuses,
         UpdateWorkItemRun(i, p, s), UNCHANGED parent
  PROVE  /\ RowsType'
         /\ Exists(i) => items'[i].progress = p /\ items'[i].status = s
         /\ ~Exists(i) => items'[i] = items[i]
         /\ \A j \in Items \ {i} : items'[j] = items[j]
<1>1. CASE Exists(i)
  <2>1. items[i] \in Row
    BY <1>1 DEF RowsType, Exists, NoRow, Gone, Statuses
  <2>2. [items[i] EXCEPT !.progress = p, !.status = s] \in Row
    BY <2>1 DEF Row
  <2>3. [items[i] EXCEPT !.progress = p, !.status = s].progress = p
        /\ [items[i] EXCEPT !.progress = p, !.status = s].status = s
    BY <2>1 DEF Row
  <2> QED
    BY <1>1, <2>2, <2>3, Written DEF UpdateWorkItemRun
<1>2. CASE ~Exists(i)
  BY <1>2 DEF RowsType, Writes, UpdateWorkItemRun
<1> QED
  BY <1>1, <1>2

(* The row of an item that exists is a row of the table.                   *)
LEMMA RowOf ==
  ASSUME RowsType, NEW i \in Items, Exists(i)
  PROVE  items[i] \in Row
BY DEF RowsType, Exists, NoRow, Gone, Statuses

-----------------------------------------------------------------------------
(***************************************************************************)
(* Type correctness.                                                       *)
(***************************************************************************)
LEMMA TypeRequests ==
  ASSUME TypeInv, NEW q \in Requests, Request(q)
  PROVE  TypeInv'
<1> USE DEF TypeInv, TypeOK
<1>1. ASSUME NEW i \in Items, PutReads(q, i) PROVE TypeInv'
  <2>1. PICK s \in PutStatuses :
          req' = [req EXCEPT ![q] = [at |-> "put", item |-> i, run |-> None,
                                     row |-> [items[i] EXCEPT !.status = s]]]
    BY <1>1 DEF PutReads
  <2>2. [items[i] EXCEPT !.status = s] \in Row
    BY <1>1, RowOf, WorkItemsAssumption DEF PutReads, Row
  <2>3. RowsType' /\ RunsType' /\ RestType'
    BY <1>1, WorkItemsAssumption DEF PutReads, RowsType, RunsType, RunRecord, RestType, envVars
  <2>4. RequestsType' /\ OwnRun'
    BY <1>1, <2>1, <2>2 DEF PutReads, RequestsType, OwnRun
  <2> QED
    BY <2>3, <2>4
<1>2. ASSUME NEW i \in Items, Launches(q, i) PROVE TypeInv'
  <2>1. PICK r \in Runs :
          /\ runs[r] = NoRun
          /\ runs' = [runs EXCEPT ![r].at = "launched", ![r].item = i]
          /\ req' = [req EXCEPT ![q] =
               [at |-> "record", item |-> i, run |-> r,
                row |-> [items[i] EXCEPT !.status = "in_progress", !.run = TRUE]]]
    BY <1>2 DEF Launches
  <2>2. [items[i] EXCEPT !.status = "in_progress", !.run = TRUE] \in Row
    BY <1>2, RowOf DEF Launches, Row, Statuses
  <2>3. RowsType' /\ RestType'
    BY <1>2, WorkItemsAssumption DEF Launches, RowsType, RestType, envVars
  <2>4. RunsType'
    BY <1>2, <2>1 DEF Launches, RunsType, RunRecord, NoRun
  <2>5. \A w \in Requests : req[w].at = "record" => req[w].run # r
    BY <2>1 DEF RequestsType, NoRun
  <2>6. RequestsType' /\ OwnRun'
    BY <1>2, <2>1, <2>2, <2>5 DEF RequestsType, OwnRun, RunsType, RunRecord
  <2> QED
    BY <2>3, <2>4, <2>6
<1>3. CASE PutWrites(q)
  <2>1. req[q].item \in Items /\ req[q].row \in Row
    BY <1>3 DEF PutWrites, RequestsType
  <2>2. RowsType'
    BY <1>3, <2>1, Written DEF PutWrites, RowsType
  <2>3. RunsType' /\ RestType'
    BY <1>3, <2>1, WorkItemsAssumption DEF PutWrites, RunsType, RunRecord, RestType, Fault, envVars
  <2>4. RequestsType' /\ OwnRun'
    BY <1>3 DEF PutWrites, RequestsType, OwnRun, NoRequest
  <2> QED
    BY <2>2, <2>3, <2>4
<1>4. CASE Records(q)
  <2>1. /\ req[q].item \in Items /\ req[q].row \in Row
        /\ req[q].run \in Runs /\ runs[req[q].run].at = "launched"
    BY <1>4 DEF Records, RequestsType
  <2>2. RowsType'
    BY <1>4, <2>1, Written DEF Records, RowsType
  <2>3. RunsType'
    BY <1>4, <2>1 DEF Records, RunsType, RunRecord, Live
  <2>4. RestType'
    BY <1>4, <2>1, WorkItemsAssumption DEF Records, RestType, Fault, envVars
  <2>5. RequestsType' /\ OwnRun'
    BY <1>4, <2>1 DEF Records, RequestsType, OwnRun, NoRequest, RunsType, RunRecord
  <2> QED
    BY <2>2, <2>3, <2>4, <2>5
<1> QED
  BY <1>1, <1>2, <1>3, <1>4 DEF Request

(* The last update of a run frees it, or leaves it to be added up.         *)
LEMMA LastUpdated ==
  ASSUME RowsType, RestType, NEW i \in Items, NEW p \in Progress, NEW s \in Statuses,
         LastUpdate(i, p, s), UNCHANGED <<parent, up, launched, edits, crashes, earned>>
  PROVE  RowsType' /\ RestType'
<1>1. RowsType'
  BY Updated DEF LastUpdate, RowsType
<1> QED
  BY <1>1, WorkItemsAssumption DEF LastUpdate, RestType, Fault

(* A step of a tracker leaves alone the runs that are not its own.         *)
LEMMA TypeRuns ==
  ASSUME TypeInv, NEW r \in Runs, RunEnds(r) \/ DeadlinePasses(r) \/ Track(r)
  PROVE  TypeInv'
<1> USE DEF TypeInv, TypeOK
<1>1. runs[r].at # "none" => runs[r].item \in Items
  BY DEF RunsType, RunRecord
<1>2. ASSUME RunsType', UNCHANGED req, runs'[r].item = runs[r].item,
             runs[r].at = "launched" => runs'[r].at = "launched",
             \A t \in Runs \ {r} : runs'[t] = runs[t]
      PROVE  RequestsType' /\ OwnRun'
  BY <1>2 DEF RequestsType, OwnRun
<1>3. ASSUME RunsType', UNCHANGED req, runs[r].at # "launched",
             \A t \in Runs \ {r} : runs'[t] = runs[t]
      PROVE  RequestsType' /\ OwnRun'
  BY <1>3 DEF RequestsType, OwnRun
<1>4. CASE RunEnds(r)
  <2>1. RowsType' /\ RestType'
    BY <1>1, <1>4, WorkItemsAssumption DEF RunEnds, RowsType, RestType, envVars, Live
  <2>2. RunsType' /\ runs'[r].item = runs[r].item /\ runs'[r].at = runs[r].at
        /\ \A t \in Runs \ {r} : runs'[t] = runs[t]
    BY <1>4 DEF RunEnds, RunsType, RunRecord
  <2> QED
    BY <1>2, <1>4, <2>1, <2>2 DEF RunEnds
<1>5. CASE DeadlinePasses(r)
  <2>1. RowsType' /\ RestType'
    BY <1>5, WorkItemsAssumption DEF DeadlinePasses, RowsType, RestType, envVars
  <2>2. RunsType' /\ runs'[r].item = runs[r].item /\ runs'[r].at = runs[r].at
        /\ \A t \in Runs \ {r} : runs'[t] = runs[t]
    BY <1>5 DEF DeadlinePasses, RunsType, RunRecord
  <2> QED
    BY <1>2, <1>5, <2>1, <2>2 DEF DeadlinePasses
<1>6. CASE Checks(r)
  <2>1. RowsType' /\ RestType'
    BY <1>6, WorkItemsAssumption DEF Checks, RowsType, RestType, envVars
  <2>2. RunsType' /\ \A t \in Runs \ {r} : runs'[t] = runs[t]
    BY <1>6 DEF Checks, RunsType, RunRecord, Live
  <2> QED
    BY <1>3, <1>6, <2>1, <2>2 DEF Checks
<1>7. CASE Projects(r)
  <2>1. RowsType' /\ RestType'
    BY <1>1, <1>7, Updated, WorkItemsAssumption
    DEF Projects, RowsType, RestType, Fault, Progress, Statuses
  <2>2. RunsType' /\ \A t \in Runs \ {r} : runs'[t] = runs[t]
    BY <1>7 DEF Projects, RunsType, RunRecord, Live
  <2> QED
    BY <1>3, <1>7, <2>1, <2>2 DEF Projects
<1>8. CASE Stalls(r)
  <2>1. RowsType' /\ RestType'
    BY <1>1, <1>8, LastUpdated DEF Stalls, Progress, Statuses
  <2>2. RunsType' /\ \A t \in Runs \ {r} : runs'[t] = runs[t]
    BY <1>8 DEF Stalls, RunsType, RunRecord, NoRun, Progress
  <2> QED
    BY <1>3, <1>8, <2>1, <2>2 DEF Stalls
<1>9. CASE Finishes(r)
  <2>1. RowsType' /\ RestType'
    BY <1>1, <1>9, LastUpdated DEF Finishes, Progress, Statuses
  <2>2. \/ AfterLast(runs[r].item) = NoRun
        \/ /\ AfterLast(runs[r].item) = [at |-> "rollup", item |-> runs[r].item,
                                         state |-> "running", late |-> FALSE, mean |-> "part"]
           /\ parent[runs[r].item] \in Items
    BY <1>1, <1>9 DEF AfterLast, Finishes, RowsType, NoRun
  <2>3. RunsType' /\ \A t \in Runs \ {r} : runs'[t] = runs[t]
    <3>1. CASE AfterLast(runs[r].item) = NoRun
      BY <1>9, <3>1 DEF Finishes, RunsType, RunRecord, NoRun, Progress
    <3>2. CASE AfterLast(runs[r].item) # NoRun
      <4>1. PICK v \in RunRecord :
              /\ runs' = [runs EXCEPT ![r] = v]
              /\ v.at = "rollup" /\ v.item = runs[r].item /\ parent[v.item] \in Items
        <5> DEFINE v == [at |-> "rollup", item |-> runs[r].item,
                         state |-> "running", late |-> FALSE, mean |-> "part"]
        <5>1. v \in RunRecord
          BY <1>1, <1>9 DEF Finishes, RunRecord, Progress
        <5>2. runs' = [runs EXCEPT ![r] = v] /\ parent[v.item] \in Items
          BY <1>9, <2>2, <3>2 DEF Finishes
        <5> QED
          BY <5>1, <5>2
      <4> QED
        BY <1>1, <1>9, <4>1 DEF Finishes, RunsType
    <3> QED
      BY <3>1, <3>2
  <2> QED
    BY <1>3, <1>9, <2>1, <2>3 DEF Finishes
<1>10. CASE Lists(r)
  <2>1. parent[runs[r].item] \in Items
    BY <1>10 DEF Lists, RunsType, RunRecord
  <2>2. RowsType' /\ RestType'
    BY <1>10, <2>1, WorkItemsAssumption DEF Lists, RowsType, RestType, envVars
  <2>3. Mean(Kids(parent[runs[r].item])) \in Progress
    BY DEF Mean, Progress
  <2>4. RunsType' /\ \A t \in Runs \ {r} : runs'[t] = runs[t]
    <3>1. CASE Kids(parent[runs[r].item]) = {}
      <4>1. runs' = [runs EXCEPT ![r] = NoRun] /\ UNCHANGED parent
        BY <1>10, <3>1 DEF Lists
      <4> QED
        BY <4>1 DEF RunsType, RunRecord, NoRun, Progress
    <3>2. CASE Kids(parent[runs[r].item]) # {}
      <4>1. PICK m \in Progress : runs' = [runs EXCEPT ![r].at = "rolled", ![r].mean = m]
        BY <1>10, <2>3, <3>2 DEF Lists
      <4>2. runs[r].item \in Items /\ UNCHANGED parent
        BY <1>10 DEF Lists, RunsType
      <4> QED
        BY <2>1, <4>1, <4>2 DEF RunsType, RunRecord
    <3> QED
      BY <3>1, <3>2
  <2> QED
    BY <1>3, <1>10, <2>2, <2>4 DEF Lists
<1>11. CASE RollsUp(r)
  <2>1. parent[runs[r].item] \in Items /\ runs[r].mean \in Progress
    BY <1>11 DEF RollsUp, RunsType, RunRecord
  <2>2. ASSUME Exists(parent[runs[r].item])
        PROVE  [items[parent[runs[r].item]] EXCEPT !.progress = runs[r].mean] \in Row
    BY <2>1, <2>2, RowOf DEF Row
  <2>3. RowsType' /\ RestType'
    BY <1>11, <2>1, <2>2, WorkItemsAssumption
    DEF RollsUp, RowsType, RestType, Fault, Writes
  <2>4. RunsType' /\ \A t \in Runs \ {r} : runs'[t] = runs[t]
    BY <1>11 DEF RollsUp, RunsType, RunRecord, NoRun, Progress
  <2> QED
    BY <1>3, <1>11, <2>3, <2>4 DEF RollsUp
<1> QED
  BY <1>4, <1>5, <1>6, <1>7, <1>8, <1>9, <1>10, <1>11 DEF Track

LEMMA TypeStep ==
  ASSUME TypeInv, Known, [Next]_vars
  PROVE  TypeInv'
<1> USE DEF TypeInv, TypeOK
<1>1. ASSUME NEW i \in Items, Create(i) PROVE TypeInv'
  <2>1. PICK p \in Items \cup {None} : parent' = [parent EXCEPT ![i] = p]
    BY <1>1 DEF Create
  <2>2. items' = [items EXCEPT ![i] = [status |-> "open", progress |-> "part", run |-> FALSE]]
    BY <1>1 DEF Create
  <2>3. RowsType'
    BY <2>1, <2>2 DEF RowsType, Row, Statuses, Progress
  <2>4. \A r \in Runs : runs[r].at \in {"rollup", "rolled"} => runs[r].item # i
    BY <1>1 DEF Create, Known
  <2>5. RunsType'
    BY <1>1, <2>1, <2>4 DEF Create, RunsType, RunRecord, RowsType
  <2>6. RequestsType' /\ OwnRun' /\ RestType'
    BY <1>1, WorkItemsAssumption DEF Create, RequestsType, OwnRun, RestType, envVars
  <2> QED
    BY <2>3, <2>5, <2>6
<1>2. ASSUME NEW i \in Items, Delete(i) PROVE TypeInv'
  BY <1>2, WorkItemsAssumption
  DEF Delete, RowsType, RunsType, RunRecord, RequestsType, OwnRun, RestType, envVars
<1>3. CASE Crash
  <2>1. RunsType' /\ RequestsType' /\ OwnRun'
    BY <1>3 DEF Crash, RunsType, RunRecord, RequestsType, OwnRun, NoRun, NoRequest, Progress
  <2>2. RowsType'
    BY <1>3 DEF Crash, RowsType
  <2>3. RestType'
    <3>1. /\ up' = FALSE /\ crashes < MaxCrashes /\ crashes' = crashes + 1
          /\ UNCHANGED <<launched, edits, faults, earned, excused>>
      BY <1>3 DEF Crash
    <3>2. crashes' \in 0 .. MaxCrashes
      BY <3>1, WorkItemsAssumption DEF RestType
    <3>3. up' \in BOOLEAN
      BY <3>1
    <3> QED
      BY <3>1, <3>2, <3>3 DEF RestType
  <2> QED
    BY <2>1, <2>2, <2>3
<1>4. CASE Restart
  <2>1. \A i \in Items : items[i].status = "in_progress" =>
          [items[i] EXCEPT !.status = "review"] \in Row
    BY DEF RowsType, Row, Statuses, NoRow, Gone
  <2>2. RowsType'
    BY <1>4, <2>1 DEF Restart, RowsType
  <2>3. RunsType' /\ RequestsType' /\ OwnRun'
    BY <1>4 DEF Restart, RunsType, RequestsType, OwnRun
  <2>4. RestType'
    BY <1>4, WorkItemsAssumption DEF Restart, RestType, Fault
  <2> QED
    BY <2>2, <2>3, <2>4
<1>5. CASE UNCHANGED vars
  BY <1>5 DEF vars, envVars, RowsType, RunsType, RunRecord, RequestsType, OwnRun, RestType
<1> QED
  BY <1>1, <1>2, <1>3, <1>4, <1>5, TypeRequests, TypeRuns DEF Next

-----------------------------------------------------------------------------
(* A statement does not make a row one that was never created.             *)
LEMMA WrittenStays ==
  ASSUME NEW j \in Items, NEW row, Writes(j, row), Exists(j) => row.status \in Statuses,
         items \in [Items -> Row \cup {NoRow, Gone}], NEW i \in Items, items[i] # NoRow
  PROVE  items'[i] # NoRow
BY DEF Writes, NoRow, Statuses

(* A row may change and go, but not become one that was never created.     *)
LEMMA Stays ==
  ASSUME TypeInv, [Next]_vars, NEW i \in Items, items[i] # NoRow
  PROVE  items'[i] # NoRow
<1> USE DEF TypeInv, TypeOK
<1>0. items \in [Items -> Row \cup {NoRow, Gone}]
  BY DEF RowsType
<1>1. ASSUME NEW j \in Items, Create(j) \/ Delete(j) PROVE items'[i] # NoRow
  BY <1>0, <1>1 DEF Create, Delete, NoRow, Gone
<1>2. ASSUME NEW q \in Requests, Request(q) PROVE items'[i] # NoRow
  <2>1. CASE PutWrites(q) \/ Records(q)
    <3>1. req[q].item \in Items /\ req[q].row.status \in Statuses
      BY <2>1 DEF PutWrites, Records, RequestsType, Row
    <3>2. Writes(req[q].item, req[q].row) \/ UNCHANGED items
      BY <2>1 DEF PutWrites, Records
    <3> QED
      BY <1>0, <3>1, <3>2, WrittenStays
  <2>2. ASSUME NEW j \in Items, PutReads(q, j) \/ Launches(q, j) PROVE items'[i] # NoRow
    BY <2>2 DEF PutReads, Launches
  <2> QED
    BY <1>2, <2>1, <2>2 DEF Request
<1>3. ASSUME NEW r \in Runs, RunEnds(r) \/ DeadlinePasses(r) \/ Track(r) PROVE items'[i] # NoRow
  <2>1. ASSUME NEW p \in Progress, NEW st \in Statuses, NEW j \in Items,
               UpdateWorkItemRun(j, p, st)
        PROVE  items'[i] # NoRow
    <3>1. Exists(j) => [items[j] EXCEPT !.progress = p, !.status = st].status \in Statuses
      BY RowOf DEF Row
    <3> QED
      BY <1>0, <2>1, <3>1, WrittenStays DEF UpdateWorkItemRun
  <2>2. runs[r].at # "none" => runs[r].item \in Items
    BY DEF RunsType
  <2>3. CASE Projects(r)
    BY <2>1, <2>2, <2>3 DEF Projects, Progress, Statuses
  <2>4. CASE Stalls(r) \/ Finishes(r)
    BY <2>1, <2>2, <2>4 DEF Stalls, Finishes, LastUpdate, Progress, Statuses
  <2>5. CASE RollsUp(r)
    <3>1. parent[runs[r].item] \in Items
      BY <2>5 DEF RollsUp, RunsType
    <3>2. Exists(parent[runs[r].item]) =>
            [items[parent[runs[r].item]] EXCEPT !.progress = runs[r].mean].status \in Statuses
      BY <3>1, RowOf DEF Row
    <3> QED
      BY <1>0, <2>5, <3>1, <3>2, WrittenStays DEF RollsUp
  <2>6. CASE RunEnds(r) \/ DeadlinePasses(r) \/ Checks(r) \/ Lists(r)
    BY <2>6 DEF RunEnds, DeadlinePasses, Checks, Lists
  <2> QED
    BY <1>3, <2>3, <2>4, <2>5, <2>6 DEF Track
<1>4. CASE Crash \/ Restart \/ UNCHANGED vars
  <2>1. CASE Restart
    BY <1>0, <2>1 DEF Restart, Row, NoRow, Gone, Statuses
  <2> QED
    BY <1>4, <2>1 DEF Crash, vars
<1> QED
  BY <1>1, <1>2, <1>3, <1>4 DEF Next

(* What a request or a run is for was there when it began.                  *)
LEMMA KnownStep ==
  ASSUME TypeInv, TypeInv', Known, [Next]_vars
  PROVE  Known'
<1> USE DEF TypeInv, TypeOK
<1>1. \A i \in Items : items[i] # NoRow => items'[i] # NoRow
  BY Stays
<1>2. /\ \A q \in Requests : req[q].at # "none" => req[q].item \in Items
      /\ \A r \in Runs : runs[r].at # "none" => runs[r].item \in Items
  BY DEF RequestsType, RunsType
<1>3. ASSUME \A q \in Requests : req'[q].at # "none" =>
               (req'[q].item = req[q].item /\ req[q].at # "none") \/ items[req'[q].item] # NoRow,
             \A r \in Runs : runs'[r].at # "none" =>
               (runs'[r].item = runs[r].item /\ runs[r].at # "none") \/ items[runs'[r].item] # NoRow
      PROVE  Known'
  <2>1. ASSUME NEW q \in Requests, req'[q].at # "none" PROVE items'[req'[q].item] # NoRow
    <3>1. req'[q].item \in Items
      BY <2>1 DEF RequestsType
    <3> QED
      BY <1>1, <1>3, <2>1, <3>1 DEF Known
  <2>2. ASSUME NEW r \in Runs, runs'[r].at # "none" PROVE items'[runs'[r].item] # NoRow
    <3>1. runs'[r].item \in Items
      BY <2>2 DEF RunsType
    <3> QED
      BY <1>1, <1>3, <2>2, <3>1 DEF Known
  <2> QED
    BY <2>1, <2>2 DEF Known
<1>4. ASSUME UNCHANGED <<req, runs>> PROVE Known'
  BY <1>3, <1>4
<1>5. ASSUME NEW q \in Requests, Request(q) PROVE Known'
  <2>1. ASSUME NEW i \in Items, PutReads(q, i) \/ Launches(q, i) PROVE Known'
    <3>1. items[i] # NoRow
      BY <2>1 DEF PutReads, Launches, Exists, NoRow, Statuses
    <3>2. CASE PutReads(q, i)
      BY <1>3, <3>1, <3>2 DEF PutReads, RequestsType
    <3>3. CASE Launches(q, i)
      BY <1>3, <3>1, <3>3 DEF Launches, RequestsType, RunsType, RunRecord
    <3> QED
      BY <2>1, <3>2, <3>3
  <2>2. CASE PutWrites(q)
    BY <1>3, <2>2 DEF PutWrites, NoRequest, RequestsType
  <2>3. CASE Records(q)
    BY <1>3, <2>3 DEF Records, NoRequest, RequestsType, RunsType, RunRecord
  <2> QED
    BY <1>5, <2>1, <2>2, <2>3 DEF Request
<1>6. ASSUME NEW r \in Runs, RunEnds(r) \/ DeadlinePasses(r) \/ Track(r) PROVE Known'
  <2>1. UNCHANGED req
    BY <1>6 DEF RunEnds, DeadlinePasses, Track, Checks, Projects, Stalls, Finishes, Lists, RollsUp
  <2>2. \A t \in Runs \ {r} : runs'[t] = runs[t]
    BY <1>6 DEF RunEnds, DeadlinePasses, Track, Checks, Projects, Stalls, Finishes, Lists, RollsUp,
       RunsType
  <2>3. runs'[r].at # "none" => runs'[r].item = runs[r].item /\ runs[r].at # "none"
    <3>1. CASE RunEnds(r) \/ DeadlinePasses(r) \/ Checks(r) \/ Projects(r)
      BY <3>1 DEF RunEnds, DeadlinePasses, Checks, Projects, RunsType, RunRecord, Live
    <3>2. CASE Stalls(r) \/ RollsUp(r)
      BY <3>2 DEF Stalls, RollsUp, RunsType, NoRun
    <3>3. CASE Finishes(r)
      <4>1. AfterLast(runs[r].item).at # "none" => AfterLast(runs[r].item).item = runs[r].item
        BY DEF AfterLast, NoRun
      <4> QED
        BY <3>3, <4>1 DEF Finishes, RunsType
    <3>4. CASE Lists(r)
      BY <3>4 DEF Lists, RunsType, RunRecord, NoRun
    <3> QED
      BY <1>6, <3>1, <3>2, <3>3, <3>4 DEF Track
  <2> QED
    BY <1>3, <2>1, <2>2, <2>3
<1>7. CASE Crash
  BY <1>3, <1>7 DEF Crash, NoRun, NoRequest
<1> QED
  BY <1>4, <1>5, <1>6, <1>7 DEF Next, Create, Delete, Restart, vars

-----------------------------------------------------------------------------
(***************************************************************************)
(* What shows 100% has earned it.                                          *)
(***************************************************************************)
(* A statement that writes 100% only for an item that has earned it.       *)
LEMMA WrittenEarned ==
  ASSUME RowsType, FullEarned, NEW i \in Items, NEW row, Writes(i, row),
         Exists(i) /\ row.progress = "full" => i \in earned, earned \subseteq earned'
  PROVE  FullEarned'
BY DEF RowsType, FullEarned, Writes, Exists

LEMMA EarnedRequests ==
  ASSUME TypeInv, EarnedInv, NEW q \in Requests, Request(q)
  PROVE  EarnedInv'
<1> USE DEF TypeInv, TypeOK, EarnedInv
<1>1. ASSUME NEW i \in Items, NEW s \in Statuses, Exists(i)
      PROVE  [items[i] EXCEPT !.status = s].progress = "full" => i \in earned
  BY <1>1, RowOf DEF Row, FullEarned
<1>2. ASSUME NEW i \in Items, PutReads(q, i) PROVE EarnedInv'
  <2>1. FullEarned' /\ RunEarned' /\ MeanEarned'
    BY <1>2 DEF PutReads, FullEarned, RunEarned, MeanEarned, Exists
  <2>2. RowEarned'
    BY <1>1, <1>2, WorkItemsAssumption DEF PutReads, RowEarned, RequestsType
  <2> QED
    BY <2>1, <2>2
<1>3. ASSUME NEW i \in Items, Launches(q, i) PROVE EarnedInv'
  <2>1. FullEarned'
    BY <1>3 DEF Launches, FullEarned, Exists
  <2>2. RunEarned' /\ MeanEarned'
    BY <1>3 DEF Launches, RunEarned, MeanEarned, RunsType, RunRecord, NoRun
  <2>3. [items[i] EXCEPT !.status = "in_progress", !.run = TRUE].progress = "full" => i \in earned
    BY <1>3, RowOf DEF Launches, Row, FullEarned
  <2>4. RowEarned'
    BY <1>3, <2>3 DEF Launches, RowEarned, RequestsType
  <2> QED
    BY <2>1, <2>2, <2>4
<1>4. CASE PutWrites(q) \/ Records(q)
  <2>1. /\ req[q].item \in Items /\ UNCHANGED earned
        /\ req[q].row.progress = "full" => req[q].item \in earned
        /\ req' = [req EXCEPT ![q] = NoRequest]
        /\ Writes(req[q].item, req[q].row) \/ UNCHANGED items
    BY <1>4 DEF PutWrites, Records, RequestsType, RowEarned
  <2>2. FullEarned'
    BY <2>1, WrittenEarned DEF FullEarned, Exists
  <2>3. RowEarned'
    BY <2>1 DEF RowEarned, RequestsType, NoRequest
  <2>4. RunEarned' /\ MeanEarned'
    <3>1. CASE PutWrites(q)
      BY <3>1 DEF PutWrites, RunEarned, MeanEarned
    <3>2. CASE Records(q)
      <4>1. /\ req[q].run \in Runs /\ runs[req[q].run].at = "launched"
            /\ runs' = [runs EXCEPT ![req[q].run].at = "sleep"] /\ UNCHANGED parent
        BY <3>2 DEF Records, RequestsType
      <4> QED
        BY <2>1, <4>1 DEF RunEarned, MeanEarned, RunsType, RunRecord
    <3> QED
      BY <1>4, <3>1, <3>2
  <2> QED
    BY <2>2, <2>3, <2>4
<1> QED
  BY <1>2, <1>3, <1>4 DEF Request

LEMMA EarnedRuns ==
  ASSUME TypeInv, EarnedInv, NEW r \in Runs, RunEnds(r) \/ DeadlinePasses(r) \/ Track(r)
  PROVE  EarnedInv'
<1> USE DEF TypeInv, TypeOK, EarnedInv
<1>1. UNCHANGED <<req, parent>> /\ earned \subseteq earned'
  BY DEF RunEnds, DeadlinePasses, Track, Checks, Projects, Stalls, Finishes, Lists, RollsUp
<1>2. RowEarned'
  BY <1>1 DEF RowEarned
<1>3. runs[r].at # "none" => runs[r].item \in Items
  BY DEF RunsType
<1>4. FullEarned'
  <2>1. ASSUME NEW p \in Progress, NEW st \in Statuses, NEW j \in Items,
               UpdateWorkItemRun(j, p, st), p = "full" => j \in earned
        PROVE  FullEarned'
    <3>1. Exists(j) => [items[j] EXCEPT !.progress = p, !.status = st].progress = p
      BY RowOf DEF Row
    <3> QED
      BY <1>1, <2>1, <3>1, WrittenEarned DEF UpdateWorkItemRun
  <2>2. UNCHANGED items => FullEarned'
    BY <1>1 DEF FullEarned, Exists
  <2>3. CASE Projects(r)
    BY <1>3, <2>1, <2>2, <2>3 DEF Projects, Progress, Statuses
  <2>4. CASE Stalls(r)
    BY <1>3, <2>1, <2>2, <2>4 DEF Stalls, LastUpdate, Progress, Statuses
  <2>5. CASE Finishes(r)
    BY <1>3, <2>1, <2>2, <2>5 DEF Finishes, LastUpdate, Progress, Statuses, RunEarned
  <2>6. CASE RollsUp(r)
    <3>1. parent[runs[r].item] \in Items
      BY <2>6 DEF RollsUp, RunsType
    <3>2. Exists(parent[runs[r].item]) =>
            [items[parent[runs[r].item]] EXCEPT !.progress = runs[r].mean].progress = runs[r].mean
      BY <3>1, RowOf DEF Row
    <3>3. runs[r].mean = "full" => parent[runs[r].item] \in earned
      BY <2>6 DEF RollsUp, MeanEarned
    <3> QED
      BY <1>1, <2>2, <2>6, <3>1, <3>2, <3>3, WrittenEarned DEF RollsUp
  <2>7. CASE RunEnds(r) \/ DeadlinePasses(r) \/ Checks(r) \/ Lists(r)
    BY <2>2, <2>7 DEF RunEnds, DeadlinePasses, Checks, Lists
  <2> QED
    BY <2>3, <2>4, <2>5, <2>6, <2>7 DEF Track
<1>5. RunEarned' /\ MeanEarned'
  <2>1. CASE RunEnds(r)
    <3>1. runs[r].item \in Items
      BY <1>3, <2>1 DEF RunEnds, Live
    <3> QED
      BY <1>1, <2>1, <3>1 DEF RunEnds, RunEarned, MeanEarned, RunsType, RunRecord
  <2>2. CASE DeadlinePasses(r) \/ Checks(r) \/ Projects(r)
    BY <1>1, <2>2 DEF DeadlinePasses, Checks, Projects, RunEarned, MeanEarned, RunsType, RunRecord
  <2>3. CASE Stalls(r) \/ RollsUp(r)
    BY <1>1, <2>3 DEF Stalls, RollsUp, RunEarned, MeanEarned, RunsType, NoRun
  <2>4. CASE Finishes(r)
    <3>1. AfterLast(runs[r].item).state = "running" /\ AfterLast(runs[r].item).at # "rolled"
      BY DEF AfterLast, NoRun
    <3> QED
      BY <1>1, <2>4, <3>1 DEF Finishes, RunEarned, MeanEarned, RunsType
  <2>5. CASE Lists(r)
    <3> DEFINE p == parent[runs[r].item]
    <3>1. CASE Kids(p) = {}
      <4>1. runs' = [runs EXCEPT ![r] = NoRun]
        BY <2>5, <3>1 DEF Lists
      <4> QED
        BY <1>1, <4>1 DEF RunEarned, MeanEarned, RunsType, NoRun
    <3>2. CASE Kids(p) # {}
      <4>1. PICK m : m = Mean(Kids(p)) /\ runs' = [runs EXCEPT ![r].at = "rolled", ![r].mean = m]
        BY <2>5, <3>2 DEF Lists
      <4>2. m = "full" => p \in earned'
        <5>1. m = "full" => \A k \in Kids(p) : items[k].progress = "full"
          BY <4>1 DEF Mean
        <5>2. m = "full" => Kids(p) \subseteq earned
          BY <5>1 DEF Kids, FullEarned
        <5> QED
          BY <2>5, <3>2, <5>2 DEF Lists
      <4>3. runs[r].at = "rollup"
        BY <2>5 DEF Lists
      <4> QED
        BY <1>1, <4>1, <4>2, <4>3 DEF RunEarned, MeanEarned, RunsType, RunRecord
    <3> QED
      BY <3>1, <3>2
  <2> QED
    BY <2>1, <2>2, <2>3, <2>4, <2>5 DEF Track
<1> QED
  BY <1>2, <1>4, <1>5

LEMMA EarnedStep ==
  ASSUME TypeInv, Known, EarnedInv, [Next]_vars
  PROVE  EarnedInv'
<1> USE DEF TypeInv, TypeOK, EarnedInv
<1>1. ASSUME NEW i \in Items, Create(i) PROVE EarnedInv'
  <2>1. FullEarned'
    BY <1>1 DEF Create, FullEarned, Exists, RowsType
  <2>2. RowEarned' /\ RunEarned'
    BY <1>1 DEF Create, RowEarned, RunEarned
  <2>3. \A r \in Runs : runs[r].at = "rolled" => runs[r].item # i
    BY <1>1 DEF Create, Known
  <2>4. MeanEarned'
    BY <1>1, <2>3 DEF Create, MeanEarned, RowsType
  <2> QED
    BY <2>1, <2>2, <2>4
<1>2. ASSUME NEW i \in Items, Delete(i) PROVE EarnedInv'
  BY <1>2 DEF Delete, FullEarned, RowEarned, RunEarned, MeanEarned, Exists, RowsType, Gone
<1>3. CASE Crash
  BY <1>3 DEF Crash, FullEarned, RowEarned, RunEarned, MeanEarned, Exists, NoRun, NoRequest
<1>4. CASE Restart
  <2>1. \A i \in Items : items'[i].progress = items[i].progress
    BY <1>4 DEF Restart, RowsType, Row, NoRow, Gone
  <2>2. \A i \in Items : Exists(i)' => Exists(i)
    BY <1>4 DEF Restart, RowsType, Exists, Statuses
  <2>3. FullEarned'
    BY <1>4, <2>1, <2>2 DEF Restart, FullEarned
  <2> QED
    BY <1>4, <2>3 DEF Restart, RowEarned, RunEarned, MeanEarned
<1>5. CASE UNCHANGED vars
  BY <1>5 DEF vars, FullEarned, RowEarned, RunEarned, MeanEarned, Exists
<1> QED
  BY <1>1, <1>2, <1>3, <1>4, <1>5, EarnedRequests, EarnedRuns DEF Next

-----------------------------------------------------------------------------
(***************************************************************************)
(* An item in progress is tracked.                                         *)
(***************************************************************************)
(* A run that is tracked goes on being so for its item.                    *)
LEMMA StillTracked ==
  ASSUME NeverStuck, NEW r \in Runs, UNCHANGED up,
         \A t \in Runs \ {r} : runs'[t] = runs[t],
         NEW i \in Items, runs[r].at \in Live => runs[r].item = i,
         \A j \in Items \ {i} : (Executing(j) /\ j \notin excused)' => Executing(j) /\ j \notin excused,
         (up /\ Executing(i) /\ i \notin excused)' => TrackedBy(i)' # {}
  PROVE  NeverStuck'
<1> SUFFICES ASSUME up, NEW j \in Items, (Executing(j) /\ j \notin excused)'
             PROVE  TrackedBy(j)' # {}
  BY DEF NeverStuck
<1>1. CASE j = i
  BY <1>1
<1>2. CASE j # i
  <2>1. PICK t \in Runs : runs[t].item = j /\ runs[t].at \in Live
    BY <1>2 DEF NeverStuck, TrackedBy
  <2>2. t # r
    BY <1>2, <2>1
  <2> QED
    BY <2>1, <2>2 DEF TrackedBy
<1> QED
  BY <1>1, <1>2

LEMMA StuckRequests ==
  ASSUME TypeInv, NeverStuck, NEW q \in Requests, Request(q)
  PROVE  NeverStuck'
<1> USE DEF TypeInv, TypeOK
<1>1. ASSUME NEW i \in Items, PutReads(q, i) PROVE NeverStuck'
  BY <1>1 DEF PutReads, NeverStuck, Executing, TrackedBy
<1>2. ASSUME NEW i \in Items, Launches(q, i) PROVE NeverStuck'
  <2>1. PICK r \in Runs : runs[r] = NoRun /\ \A t \in Runs \ {r} : runs'[t] = runs[t]
    BY <1>2 DEF Launches, RunsType
  <2>2. \A j \in Items : TrackedBy(j) \subseteq TrackedBy(j)'
    BY <2>1 DEF TrackedBy, NoRun, Live
  <2> QED
    BY <1>2, <2>2 DEF Launches, NeverStuck, Executing
<1>3. CASE PutWrites(q)
  <2>1. req[q].item \in Items /\ req[q].row \in Row
    BY <1>3 DEF PutWrites, RequestsType
  <2>2. ASSUME NEW j \in Items, (Executing(j) /\ j \notin excused)'
        PROVE  Executing(j) /\ j \notin excused
    BY <1>3, <2>1, <2>2 DEF PutWrites, Executing, Writes, RowsType, Row, Exists, Statuses
  <2> QED
    BY <1>3, <2>2 DEF PutWrites, NeverStuck, TrackedBy
<1>4. CASE Records(q)
  <2>1. PICK r \in Runs, i \in Items :
          req[q].run = r /\ req[q].item = i /\ runs[r].at = "launched" /\ runs[r].item = i
    BY <1>4 DEF Records, RequestsType
  <2>2. /\ \A t \in Runs \ {r} : runs'[t] = runs[t]
        /\ runs'[r].at \in Live /\ runs'[r].item = i
    BY <1>4, <2>1 DEF Records, RunsType, RunRecord, Live
  <2>3. \A j \in Items \ {i} : (Executing(j) /\ j \notin excused)' => Executing(j) /\ j \notin excused
    BY <1>4, <2>1 DEF Records, Executing, Writes, RowsType
  <2>4. TrackedBy(i)' # {}
    BY <2>1, <2>2 DEF TrackedBy
  <2>5. runs[r].at \notin Live
    BY <2>1 DEF Live
  <2>6. UNCHANGED up
    BY <1>4 DEF Records
  <2> QED
    BY <2>1, <2>2, <2>3, <2>4, <2>5, <2>6, StillTracked
<1> QED
  BY <1>1, <1>2, <1>3, <1>4 DEF Request

LEMMA StuckRuns ==
  ASSUME TypeInv, NeverStuck, NEW r \in Runs, RunEnds(r) \/ DeadlinePasses(r) \/ Track(r)
  PROVE  NeverStuck'
<1> USE DEF TypeInv, TypeOK
<1>1. UNCHANGED up /\ \A t \in Runs \ {r} : runs'[t] = runs[t]
  BY DEF RunEnds, DeadlinePasses, Track, Checks, Projects, Stalls, Finishes, Lists, RollsUp, RunsType
<1>2. CASE RunEnds(r) \/ DeadlinePasses(r) \/ Checks(r)
  <2>1. runs'[r].item = runs[r].item /\ (runs[r].at \in Live => runs'[r].at \in Live)
    BY <1>2 DEF RunEnds, DeadlinePasses, Checks, RunsType, RunRecord, Live
  <2>2. \A j \in Items : TrackedBy(j) \subseteq TrackedBy(j)'
    BY <1>1, <2>1 DEF TrackedBy
  <2> QED
    BY <1>1, <1>2, <2>2 DEF RunEnds, DeadlinePasses, Checks, NeverStuck, Executing
<1>3. ASSUME NEW i \in Items, NEW p \in Progress, NEW s \in Statuses, UpdateWorkItemRun(i, p, s)
      PROVE  /\ \A j \in Items \ {i} : Executing(j)' => Executing(j)
             /\ Executing(i)' => s = "in_progress"
  BY <1>3, RowOf DEF UpdateWorkItemRun, Executing, Writes, RowsType, Row, Exists, Statuses
<1>4. CASE Projects(r)
  <2>1. runs[r].item \in Items /\ runs'[r].item = runs[r].item /\ runs'[r].at \in Live
    BY <1>4 DEF Projects, RunsType, RunRecord, Live
  <2>2. TrackedBy(runs[r].item)' # {}
    BY <2>1 DEF TrackedBy
  <2>3. \A j \in Items \ {runs[r].item} :
          (Executing(j) /\ j \notin excused)' => Executing(j) /\ j \notin excused
    BY <1>3, <1>4, <2>1 DEF Projects, Executing, Progress, Statuses
  <2> QED
    BY <1>1, <2>1, <2>2, <2>3, StillTracked
<1>5. CASE Stalls(r) \/ Finishes(r)
  <2>1. PICK i \in Items : runs[r].item = i
    BY <1>5 DEF Stalls, Finishes, RunsType
  <2>2. PICK p \in Progress, s \in {"review", "done"} : LastUpdate(i, p, s)
    BY <1>5, <2>1 DEF Stalls, Finishes, Progress
  <2>3. \A j \in Items \ {i} :
          (Executing(j) /\ j \notin excused)' => Executing(j) /\ j \notin excused
    BY <1>3, <2>2 DEF LastUpdate, Executing, Statuses
  <2>4. ~(Executing(i) /\ i \notin excused)'
    BY <1>3, <2>2 DEF LastUpdate, Statuses
  <2> QED
    BY <1>1, <2>1, <2>3, <2>4, StillTracked
<1>6. CASE Lists(r) \/ RollsUp(r)
  <2>1. runs[r].at \notin Live
    BY <1>6 DEF Lists, RollsUp, Live
  <2>2. \A j \in Items : TrackedBy(j) \subseteq TrackedBy(j)'
    BY <1>1, <2>1 DEF TrackedBy
  <2>3. CASE Lists(r)
    BY <1>1, <2>2, <2>3 DEF Lists, NeverStuck, Executing
  <2>4. CASE RollsUp(r)
    <3>1. parent[runs[r].item] \in Items
      BY <2>4 DEF RollsUp, RunsType
    <3>2. \A j \in Items : Executing(j)' => Executing(j)
      BY <2>4, <3>1, RowOf DEF RollsUp, Executing, Writes, RowsType, Row
    <3> QED
      BY <1>1, <2>2, <2>4, <3>2 DEF RollsUp, NeverStuck
  <2> QED
    BY <1>6, <2>3, <2>4
<1> QED
  BY <1>2, <1>4, <1>5, <1>6 DEF Track

LEMMA StuckStep ==
  ASSUME TypeInv, NeverStuck, [Next]_vars
  PROVE  NeverStuck'
<1> USE DEF TypeInv, TypeOK
<1>1. ASSUME NEW i \in Items, Create(i) \/ Delete(i) PROVE NeverStuck'
  <2>1. \A j \in Items : Executing(j)' => Executing(j)
    BY <1>1 DEF Create, Delete, Executing, RowsType, Gone
  <2>2. UNCHANGED <<runs, up, excused>>
    BY <1>1 DEF Create, Delete
  <2> QED
    BY <2>1, <2>2 DEF NeverStuck, TrackedBy
<1>2. CASE Crash
  BY <1>2 DEF Crash, NeverStuck
<1>3. CASE Restart
  <2>1. \A i \in Items : Executing(i) => items[i] \in Row
    BY RowOf DEF Executing, Exists, Statuses
  <2>2. \A i \in Items : ~(Executing(i) /\ i \notin excused)'
    BY <1>3, <2>1 DEF Restart, Executing, RowsType, Row
  <2> QED
    BY <2>2 DEF NeverStuck
<1>4. CASE UNCHANGED vars
  BY <1>4 DEF vars, NeverStuck, Executing, TrackedBy
<1> QED
  BY <1>1, <1>2, <1>3, <1>4, StuckRequests, StuckRuns DEF Next

-----------------------------------------------------------------------------
LEMMA Invariance == Spec => []IInv
<1>1. IInv /\ [Next]_vars => IInv'
  BY TypeStep, KnownStep, EarnedStep, StuckStep DEF IInv
<1> QED
  BY <1>1, InitInv, PTL DEF Spec

(* Type correctness of work items, requests, runs and trackers.            *)
THEOREM TypeCorrect == Spec => []TypeOK
<1>1. IInv => TypeOK
  BY DEF IInv, TypeInv
<1> QED
  BY <1>1, Invariance, PTL

(* An item shows 100% only if a run of it completed or all its children    *)
(* had earned it (trackRunProgress, RollupParent, updateWorkItem).         *)
THEOREM FullEarnedCorrect == Spec => []FullEarned
<1>1. IInv => FullEarned
  BY DEF IInv, EarnedInv
<1> QED
  BY <1>1, Invariance, PTL

(* An item in progress has a tracker, or a PUT or a lost statement left it *)
(* so (executeWorkItem, trackRunProgress, ReconcileStaleRunning).          *)
THEOREM NeverStuckCorrect == Spec => []NeverStuck
<1>1. IInv => NeverStuck
  BY DEF IInv
<1> QED
  BY <1>1, Invariance, PTL
==============================================================================
