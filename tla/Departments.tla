----------------------------- MODULE Departments -----------------------------
(***************************************************************************)
(* The department tree of the IAM server                                   *)
(* (apps/server/internal/modules/organization/service.go, repository.go)   *)
(* and the console page that edits it (app/departments/page.tsx).          *)
(*                                                                         *)
(* A department names its parent, and a closure table keeps every pair of  *)
(* an ancestor and a descendant with their distance.  Create, Update and   *)
(* Delete each run in one transaction of several statements; what the      *)
(* statements of two transactions may do to each other depends on the      *)
(* datasource.  On SQLite a transaction that read before another one wrote *)
(* fails when it writes: transactions are as if one at a time.  On         *)
(* PostgreSQL, at its default level, every statement reads what is         *)
(* committed when it starts, and the locks of rows and of their references *)
(* are all that keeps two transactions apart.                              *)
(*                                                                         *)
(* An update, an error and a refusal that leave no trace but a message on  *)
(* the page are one action, Fails.  Names, status, order, the policy       *)
(* revision and the audit record have no part in the tree; a name conflict *)
(* or a department in use is a failure.                                    *)
(***************************************************************************)
EXTENDS Naturals, FiniteSets

CONSTANTS
  Ids,         \* what nextID may return, each once
  Admins,      \* the pages that are open
  Dialects,    \* the datasources that are looked at, of "sqlite" and "postgres"
  MaxVersion,  \* bound: a department is updated up to this version
  Root         \* the parent "" of a top department

VARIABLES
  rows,     \* iam_departments: the parent and the version of each id
  closure,  \* iam_department_closure: <<ancestor, descendant, depth>>
  tx,       \* the request of each page and the transaction that serves it
  page,     \* the departments each page shows, as it loaded them
  dialect   \* the datasource

vars == <<rows, closure, tx, page, dialect>>

ASSUME RootAssumption == Root \notin Ids
ASSUME VersionAssumption == MaxVersion \in Nat \ {0}
ASSUME DialectAssumption == Dialects \subseteq {"sqlite", "postgres"}

Row == [parent : Ids \cup {Root}, version : Nat]
NoRow == [parent |-> Root, version |-> 0]
Gone  == [parent |-> Root, version |-> MaxVersion + 1]

DepartmentsIn(table) == {d \in Ids : table[d] \notin {NoRow, Gone}}
Departments == DepartmentsIn(rows)

AncestorsIn(links, d)   == {<<r[1], r[3]>> : r \in {r \in links : r[2] = d}}
DescendantsIn(links, d) == {<<r[2], r[3]>> : r \in {r \in links : r[1] = d}}

-----------------------------------------------------------------------------
(***************************************************************************)
(* A request, and what its transaction has read and written so far:        *)
(*   kind, id, parent, seen   the request; seen is the version it gives    *)
(*   from           the parent the row had when it was read                *)
(*   tree, old      move: the subtree with its depths, the old ancestors   *)
(*   targets, links the closure rows to delete and to insert               *)
(*   wrote, del, ins   what is written and not committed                   *)
(***************************************************************************)
Idle ==
  [pc |-> "idle", kind |-> "none", id |-> Root, parent |-> Root, seen |-> 0, from |-> Root,
   tree |-> {}, old |-> {}, targets |-> {}, links |-> {}, wrote |-> FALSE, del |-> {}, ins |-> {}]

Request(kind, id, parent, seen, from) ==
  [Idle EXCEPT !.pc = "write", !.kind = kind, !.id = id, !.parent = parent, !.seen = seen,
               !.from = from]

Moves(t) == t.kind = "update" /\ t.parent # t.from

(* Inside its own transaction a statement sees what the others committed   *)
(* and what the transaction itself has written.                            *)
Sees(p) == (closure \ tx[p].del) \cup tx[p].ins

(* The locks a transaction keeps to its end: on the department it writes   *)
(* (of the kind that keeps references out when the row is inserted or      *)
(* deleted or its key, of which parent_id is a part, changes), and shared  *)
(* ones on the departments that its new closure rows refer to.             *)
Holds(t)  == IF t.wrote THEN {t.id} ELSE {}
Keyed(t)  == t.kind # "update" \/ Moves(t)
Shares(t) == UNION {{r[1], r[2]} : r \in t.ins}

Others(p) == {tx[q] : q \in Admins \ {p}}

Init ==
  /\ rows = [d \in Ids |-> NoRow]
  /\ closure = {}
  /\ tx = [p \in Admins |-> Idle]
  /\ page = [p \in Admins |-> rows]
  /\ dialect \in Dialects

-----------------------------------------------------------------------------
(* The page. *)

(* List orders the rows by walking down from the root; rows the walk does  *)
(* not reach make it fail (ErrHierarchyCorrupt).                           *)
List(table) ==
  \A S \in SUBSET DepartmentsIn(table) :
    S # {} => \E d \in S : table[d].parent \in {Root} \cup (DepartmentsIn(table) \ S)

Load(p) ==
  /\ tx[p] = Idle
  /\ List(rows)
  /\ page' = [page EXCEPT ![p] = rows]
  /\ UNCHANGED <<rows, closure, tx, dialect>>

(* The departments under d on the page: every set that has d and the       *)
(* children of its members has them.                                       *)
Below(table, d) ==
  {e \in DepartmentsIn(table) :
     \A S \in SUBSET DepartmentsIn(table) :
       (d \in S /\ \A c \in DepartmentsIn(table) : table[c].parent \in S => c \in S) => e \in S}

ParentOptions(table, d) == {Root} \cup (DepartmentsIn(table) \ Below(table, d))

-----------------------------------------------------------------------------
(* What a transaction reads before it writes.  The page sends no request   *)
(* while it waits for one; as long as it waits nothing changes what it     *)
(* shows, and so the request and these reads are one step.                 *)
Begins(p, t) ==
  /\ tx[p] = Idle
  /\ dialect = "sqlite" => \A o \in Others(p) : o = Idle
  /\ tx' = [tx EXCEPT ![p] = t]
  /\ UNCHANGED <<rows, closure, page, dialect>>

(* The row is there and has the version the page has seen. *)
Current(d, version) == d \in Departments /\ rows[d].version = version

(* The parent of a new department is there. *)
Create(p) ==
  \E d \in Ids, parent \in {Root} \cup (DepartmentsIn(page[p]) \cap Departments) :
    /\ rows[d] = NoRow
    /\ \A o \in Others(p) : o.id # d
    /\ Begins(p, [Request("create", d, parent, 0, parent) EXCEPT !.tree = {<<d, 0>>}])

(* A request that changes nothing ends here; one that leaves the parent    *)
(* changes the name, the status or the order.  The new parent is looked up *)
(* after the department.                                                   *)
Asking(t) == IF Moves(t) /\ t.parent # Root THEN [t EXCEPT !.pc = "parent"] ELSE t

Update(p) ==
  \E d \in DepartmentsIn(page[p]) :
  \E parent \in ParentOptions(page[p], d) :
    /\ page[p][d].version < MaxVersion
    /\ Current(d, page[p][d].version)
    /\ Begins(p, Asking(Request("update", d, parent, page[p][d].version, rows[d].parent)))

Delete(p) ==
  \E d \in DepartmentsIn(page[p]) :
    /\ Current(d, page[p][d].version)
    /\ \A c \in Departments : rows[c].parent # d
    /\ Begins(p, Request("delete", d, Root, page[p][d].version, Root))

Step(p, pc) == tx[p].pc = pc /\ UNCHANGED <<rows, closure, page, dialect>>

(* The new parent of a department that moves is there... *)
GetParent(p) ==
  /\ Step(p, "parent")
  /\ tx[p].parent \in Departments
  /\ tx' = [tx EXCEPT ![p] = [tx[p] EXCEPT !.pc = "cycle"]]

(* ...and, by the closure, neither the department nor below it. *)
IsDescendant(d, parent) == \E l \in AncestorsIn(closure, parent) : l[1] = d

CheckCycle(p) ==
  /\ Step(p, "cycle")
  /\ ~IsDescendant(tx[p].id, tx[p].parent)
  /\ tx' = [tx EXCEPT ![p] = [tx[p] EXCEPT !.pc = "write"]]

-----------------------------------------------------------------------------
(* What it writes, statement by statement. *)

(* INSERT, UPDATE or DELETE of the department.  The statement waits for    *)
(* the locks of the others and looks at the version again; a new row       *)
(* brings its own closure row, a deletion takes its closure rows with it.  *)
Cascade(d) == {r \in closure : d \in {r[1], r[2]}}

(* The slip: the statement does not ask for the version that was read. *)
WriteAnyVersion(p) ==
  LET t == tx[p]
  IN /\ Step(p, "write")
     /\ \A o \in Others(p) : t.id \notin Holds(o) /\ (Keyed(t) => t.id \notin Shares(o))
     /\ t.kind = "delete" => \A o \in Others(p) : Cascade(t.id) \cap o.del = {}
     /\ tx' = [tx EXCEPT ![p] =
                 [t EXCEPT !.wrote = TRUE,
                           !.ins = IF t.kind = "create" THEN {<<t.id, t.id, 0>>} ELSE {},
                           !.del = IF t.kind = "delete" THEN Cascade(t.id) ELSE {},
                           !.pc = IF Moves(t) THEN "links"
                                  ELSE IF t.kind = "create" /\ t.parent # Root THEN "above"
                                  ELSE "commit"]]

Write(p) ==
  LET t == tx[p]
  IN /\ Step(p, "write")
     /\ \A o \in Others(p) : t.id \notin Holds(o) /\ (Keyed(t) => t.id \notin Shares(o))
     /\ t.kind # "create" => Current(t.id, t.seen)
     /\ t.kind = "delete" => \A o \in Others(p) : Cascade(t.id) \cap o.del = {}
     /\ tx' = [tx EXCEPT ![p] =
                 [t EXCEPT !.wrote = TRUE,
                           !.ins = IF t.kind = "create" THEN {<<t.id, t.id, 0>>} ELSE {},
                           !.del = IF t.kind = "delete" THEN Cascade(t.id) ELSE {},
                           !.pc = IF Moves(t) THEN "links"
                                  ELSE IF t.kind = "create" /\ t.parent # Root THEN "above"
                                  ELSE "commit"]]

(* move: the subtree and the old ancestors. *)
ReadLinks(p) ==
  LET t == tx[p]
  IN /\ Step(p, "links")
     /\ tx' = [tx EXCEPT ![p] =
                 [t EXCEPT !.tree = DescendantsIn(closure, t.id),
                           !.old = {l[1] : l \in AncestorsIn(closure, t.id)} \ {t.id},
                           !.pc = "find"]]

(* move: the DELETE of the links between them finds its rows when it       *)
(* starts, and may have to wait before it deletes those that are left.     *)

(* The slip: the subtree keeps its links to the old ancestors. *)
CrossingOwn(t) == {r \in closure : r[1] \in t.old /\ r[2] = t.id}

Crossing(t) == {r \in closure : r[1] \in t.old /\ \E s \in t.tree : s[1] = r[2]}

FindLinks(p) ==
  /\ Step(p, "find")
  /\ tx' = [tx EXCEPT ![p] = [tx[p] EXCEPT !.targets = Crossing(tx[p]), !.pc = "unlink"]]

DeleteLinks(p) ==
  LET t == tx[p]
  IN /\ Step(p, "unlink")
     /\ \A o \in Others(p) : o.del \cap t.targets = {}
     /\ tx' = [tx EXCEPT ![p] = [t EXCEPT !.del = t.targets \cap closure,
                                          !.pc = IF t.parent = Root THEN "commit" ELSE "above"]]

(* The ancestors of the parent, each to be linked to the whole subtree. *)
NewLinks(p) ==
  {<<a[1], s[1], a[2] + s[2] + 1>> :
     a \in AncestorsIn(Sees(p), tx[p].parent), s \in tx[p].tree}

ReadAbove(p) ==
  /\ Step(p, "above")
  /\ tx' = [tx EXCEPT ![p] = [tx[p] EXCEPT !.links = NewLinks(p), !.pc = "link"]]

(* The links refer to departments that must be there, and that nobody is   *)
(* about to delete or to move; none of them may be there already.          *)
Pairs(links) == {<<r[1], r[2]>> : r \in links}

InsertLinks(p) ==
  LET t == tx[p]
  IN /\ Step(p, "link")
     /\ \A r \in t.links : {r[1], r[2]} \subseteq Departments \cup {t.id}
     /\ \A o \in Others(p) :
          /\ Keyed(o) => Holds(o) \cap UNION {{r[1], r[2]} : r \in t.links} = {}
          /\ Pairs(o.ins \cup o.del) \cap Pairs(t.links) = {}
     /\ Pairs(t.links) \cap Pairs(Sees(p)) = {}
     /\ tx' = [tx EXCEPT ![p] = [t EXCEPT !.ins = @ \cup t.links, !.pc = "commit"]]

Commit(p) ==
  LET t == tx[p]
      row == [parent |-> t.parent, version |-> t.seen + 1]
  IN /\ tx[p].pc = "commit"
     /\ rows' = [rows EXCEPT ![t.id] = IF t.kind = "delete" THEN Gone ELSE row]
     /\ closure' = Sees(p)
     /\ tx' = [tx EXCEPT ![p] = Idle]
     /\ UNCHANGED <<page, dialect>>

(* A version conflict, an error of a statement or a deadlock rolls the     *)
(* transaction back and is shown on the page, which keeps what it has.     *)
Fails(p) ==
  /\ tx[p] # Idle
  /\ tx' = [tx EXCEPT ![p] = Idle]
  /\ UNCHANGED <<rows, closure, page, dialect>>

Next ==
  \E p \in Admins :
    \/ Load(p) \/ Create(p) \/ Update(p) \/ Delete(p) \/ GetParent(p) \/ CheckCycle(p)
    \/ Write(p) \/ ReadLinks(p) \/ FindLinks(p) \/ DeleteLinks(p)
    \/ ReadAbove(p) \/ InsertLinks(p) \/ Commit(p) \/ Fails(p)

Spec == Init /\ [][Next]_vars

-----------------------------------------------------------------------------
(* The type of the state.                                                  *)
Links == Ids \X Ids \X Nat

Tx ==
  [pc : {"idle", "parent", "cycle", "write", "links", "find", "unlink", "above", "link", "commit"},
   kind : {"none", "create", "update", "delete"},
   id : Ids \cup {Root}, parent : Ids \cup {Root}, seen : Nat, from : Ids \cup {Root},
   tree : SUBSET (Ids \X Nat), old : SUBSET Ids, targets : SUBSET Links, links : SUBSET Links,
   wrote : BOOLEAN, del : SUBSET Links, ins : SUBSET Links]

TypeOK ==
  /\ rows \in [Ids -> Row]
  /\ closure \in SUBSET Links
  /\ tx \in [Admins -> Tx]
  /\ page \in [Admins -> [Ids -> Row]]
  /\ dialect \in {"sqlite", "postgres"}

(* The closure table is the tree's: the ancestors of a department are      *)
(* itself and those of its parent, one further away, and every parent is   *)
(* there (repository.go; admin-acceptance.md:128 "depth 与 closure table  *)
(* 一致").                                                                 *)
ClosureExact ==
  /\ \A r \in closure : r[1] \in Departments /\ r[2] \in Departments
  /\ \A d \in Departments :
       /\ rows[d].parent \in Departments \cup {Root}
       /\ AncestorsIn(closure, d) =
            {<<d, 0>>} \cup {<<l[1], l[2] + 1>> : l \in AncestorsIn(closure, rows[d].parent)}

(* With transactions one at a time the closure is never wrong. *)
SerialExact == dialect = "sqlite" => ClosureExact

(* Every parent is there (admin-console.md:242 "父部门必须存在于同一租户",  *)
(* "存在子节点返回 409 department_has_children").  It holds on SQLite, as   *)
(* a part of ClosureExact.  On PostgreSQL the parent may be deleted while  *)
(* the child is created: the deletion counts no children, parent_id is no  *)
(* foreign key, and then the list of all departments fails.                *)
ParentThere == \A d \in Departments : rows[d].parent \in Departments \cup {Root}

(* A row is written only by a request that knew its version: whoever       *)
(* edited it in between, the other change is not overwritten (page.tsx:309 *)
(* "冲突版本不会覆盖其他管理员的修改"; repository.go:131).                 *)
NoOverwrite ==
  [][\A p \in Admins, d \in Departments :
       rows'[d] # rows[d] /\ tx[p].id = d /\ tx'[p] # tx[p]
         => rows[d] = page[p][d]]_vars
=============================================================================
