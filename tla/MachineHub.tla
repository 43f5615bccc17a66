---------------------------- MODULE MachineHub ----------------------------
(***************************************************************************)
(* The life of one machine at the control plane: its tokens, its row in    *)
(* the database and the WebSockets of its daemons (internal/machine).      *)
(*                                                                         *)
(* HandleWS and the handlers of the HTTP API run concurrently; a handler   *)
(* is the list of the steps it has still to take, each under one lock or   *)
(* one statement of the database.  Every token the server issues is a      *)
(* long-term one.  The process may restart between any two steps.          *)
(***************************************************************************)
EXTENDS Naturals, Sequences, FiniteSets

CONSTANTS
  Conns,        \* WebSocket connections, each used once
  Handlers,     \* HTTP requests that can be served at the same time
  MaxOps,       \* bound: confirm, refresh and cancel requests
  MaxEvents,    \* bound: events a daemon sends on one connection
  MaxRestarts,  \* bound: restarts of the control plane
  MaxFaults,    \* bound: statements that the database refuses
  None

VARIABLES
  issued,    \* how many tokens were issued; a token is its number
  valid,     \* TokenStore.byHash
  row,       \* the token hash in machine_runners, None without a row
  conns,     \* Hub.conns of the machine
  phase,     \* where HandleWS is, for each connection
  tok,       \* the token the connection came with
  latest,    \* history: the connection registered last
  steps,     \* what each handler has still to do
  arg,       \* the token a handler was given or has issued
  victim,    \* the connection Disconnect found
  alone,     \* history: the request that no other has overlapped so far
  settled,   \* history: what the last request left if it ran alone and no
             \* other has begun since: its token, 0 after a cancel, or None
  ops, restarts, faults,
  evtSeq,    \* daemonConn.evtSeq
  sent,      \* history: events bridged to NATS
  log        \* the idempotency keys of the event log

hubVars == <<conns, phase, tok, latest>>
tokenVars == <<issued, valid, row>>
handlerVars == <<steps, arg, victim, alone, settled, ops, faults>>
eventVars == <<evtSeq, sent, log>>
vars == <<hubVars, tokenVars, handlerVars, eventVars, restarts>>

ASSUME HubAssumption ==
  /\ None \notin Conns \cup Handlers \cup Nat
  /\ {MaxOps, MaxEvents, MaxRestarts, MaxFaults} \subseteq Nat

Init ==
  /\ issued = 1 /\ valid = {1} /\ row = None
  /\ conns = None /\ latest = None
  /\ phase = [c \in Conns |-> "new"]
  /\ tok = [c \in Conns |-> 0]
  /\ steps = [h \in Handlers |-> <<>>]
  /\ arg = [h \in Handlers |-> 0]
  /\ victim = [h \in Handlers |-> None]
  /\ alone = None /\ settled = None
  /\ ops = 0 /\ restarts = 0 /\ faults = 0
  /\ evtSeq = [c \in Conns |-> 0] /\ sent = 0 /\ log = {}

-----------------------------------------------------------------------------
(***************************************************************************)
(* HandleWS, serve and unregister.                                         *)
(***************************************************************************)
Phase(c, p) == phase' = [phase EXCEPT ![c] = p]

Validate(c, t) ==
  /\ phase[c] = "new"
  /\ tok' = [tok EXCEPT ![c] = t]
  /\ Phase(c, IF t \in valid THEN "validated" ELSE "closed")
  /\ UNCHANGED <<conns, latest, tokenVars, handlerVars, eventVars, restarts>>

Register(c) ==
  /\ phase[c] = "validated"
  /\ Phase(c, "open")
  /\ conns' = c
  /\ latest' = c
  /\ UNCHANGED <<tok, tokenVars, handlerVars, eventVars, restarts>>

(* The daemon closes the connection, or it breaks.                         *)
HangUp(c) ==
  /\ phase[c] = "open"
  /\ Phase(c, "closing")
  /\ UNCHANGED <<conns, tok, latest, tokenVars, handlerVars, eventVars, restarts>>

(* The slip: whichever connection is registered is removed.                *)
UnregisterAny(c) ==
  /\ phase[c] = "closing"
  /\ Phase(c, "closed")
  /\ conns' = None
  /\ UNCHANGED <<tok, latest, tokenVars, handlerVars, eventVars, restarts>>

(* The read loop has ended: the connection is removed unless a newer one   *)
(* has taken its place.                                                    *)
Unregister(c) ==
  /\ phase[c] = "closing"
  /\ Phase(c, "closed")
  /\ conns' = IF conns = c THEN None ELSE conns
  /\ UNCHANGED <<tok, latest, tokenVars, handlerVars, eventVars, restarts>>

(* An event is numbered per connection; the log keeps the first of each    *)
(* idempotency key (runner, type, seq).                                    *)
Event(c) ==
  /\ phase[c] = "open"
  /\ evtSeq[c] < MaxEvents
  /\ evtSeq' = [evtSeq EXCEPT ![c] = @ + 1]
  /\ sent' = sent + 1
  /\ log' = log \cup {evtSeq'[c]}
  /\ UNCHANGED <<hubVars, tokenVars, handlerVars, restarts>>

-----------------------------------------------------------------------------
(***************************************************************************)
(* The handlers.                                                           *)
(***************************************************************************)
ConfirmSteps == <<"promote", "upsert">>

(* The slip: the old tokens are not invalidated.                           *)
RefreshKeepsOld == <<"check", "look", "close", "issue", "save">>
RefreshSteps == <<"check", "invalidate", "look", "close", "issue", "save">>

(* The slip: the row goes, the tokens stay.                                *)
CancelKeepsTokens == <<"look", "close", "delete">>
CancelSteps == <<"invalidate", "look", "close", "delete">>

Quiet == \A h \in Handlers : steps[h] = <<>>

Begin(h, todo, t) ==
  /\ steps[h] = <<>>
  /\ ops < MaxOps
  /\ ops' = ops + 1
  /\ steps' = [steps EXCEPT ![h] = todo]
  /\ arg' = [arg EXCEPT ![h] = t]
  /\ alone' = IF Quiet THEN h ELSE None
  /\ settled' = None
  /\ UNCHANGED <<hubVars, tokenVars, victim, faults, eventVars, restarts>>

Confirm(h) == \E t \in 1 .. issued : Begin(h, ConfirmSteps, t)
Refresh(h) == Begin(h, RefreshSteps, 0)
Cancel(h)  == Begin(h, CancelSteps, 0)

At(h, step) == steps[h] # <<>> /\ Head(steps[h]) = step
Step(h, step) == At(h, step) /\ steps' = [steps EXCEPT ![h] = Tail(@)]

(* MakeLongTerm and the check that the machine exists end the request with *)
(* an error when they fail.                                                *)
Check(h) ==
  /\ \/ At(h, "promote") /\ steps' = [steps EXCEPT ![h] = IF arg[h] \in valid THEN Tail(@) ELSE <<>>]
     \/ At(h, "check") /\ steps' = [steps EXCEPT ![h] = IF row # None THEN Tail(@) ELSE <<>>]
  /\ UNCHANGED <<hubVars, tokenVars, arg, victim, alone, settled, ops, faults, eventVars, restarts>>

Upsert(h) ==
  /\ Step(h, "upsert")
  /\ row' = arg[h]
  /\ UNCHANGED <<hubVars, issued, valid, arg, victim, alone, settled, ops, faults, eventVars, restarts>>

Invalidate(h) ==
  /\ Step(h, "invalidate")
  /\ valid' = {}
  /\ UNCHANGED <<hubVars, issued, row, arg, victim, alone, settled, ops, faults, eventVars, restarts>>

(* Disconnect looks up the connection under the lock and closes it after.  *)
Look(h) ==
  /\ Step(h, "look")
  /\ victim' = [victim EXCEPT ![h] = conns]
  /\ UNCHANGED <<hubVars, tokenVars, arg, alone, settled, ops, faults, eventVars, restarts>>

Close(h) ==
  /\ Step(h, "close")
  /\ phase' = [c \in Conns |-> IF c = victim[h] /\ phase[c] = "open" THEN "closing" ELSE phase[c]]
  /\ victim' = [victim EXCEPT ![h] = None]
  /\ UNCHANGED <<conns, tok, latest, tokenVars, arg, alone, settled, ops, faults, eventVars, restarts>>

Issue(h) ==
  /\ Step(h, "issue")
  /\ issued' = issued + 1
  /\ valid' = valid \cup {issued + 1}
  /\ arg' = [arg EXCEPT ![h] = issued + 1]
  /\ UNCHANGED <<hubVars, row, victim, alone, settled, ops, faults, eventVars, restarts>>

Settle(h, left) == settled' = IF alone = h THEN left ELSE settled

(* An UPDATE: without the row it changes nothing.                          *)
Save(h) ==
  /\ Step(h, "save")
  /\ row' = IF row = None THEN None ELSE arg[h]
  /\ Settle(h, arg[h])
  /\ UNCHANGED <<hubVars, issued, valid, arg, victim, alone, ops, faults, eventVars, restarts>>

Delete(h) ==
  /\ Step(h, "delete")
  /\ row' = None
  /\ Settle(h, 0)
  /\ UNCHANGED <<hubVars, issued, valid, arg, victim, alone, ops, faults, eventVars, restarts>>

(* The database refuses the statement of the step.  A confirmation and a   *)
(* rotation end with the error, a cancel ends as if nothing had happened;  *)
(* what was done in memory stays done.                                     *)
DbError(h) ==
  /\ faults < MaxFaults
  /\ faults' = faults + 1
  /\ \E step \in {"check", "upsert", "save", "delete"} : At(h, step)
  /\ steps' = [steps EXCEPT ![h] = <<>>]
  /\ UNCHANGED <<hubVars, tokenVars, arg, victim, alone, settled, ops, eventVars, restarts>>

-----------------------------------------------------------------------------
(***************************************************************************)
(* The process restarts: LoadTokens brings back the token of the row.      *)
(***************************************************************************)
Restart ==
  /\ restarts < MaxRestarts
  /\ restarts' = restarts + 1
  /\ valid' = IF row = None THEN {} ELSE {row}
  /\ conns' = None
  /\ latest' = None
  /\ phase' = [c \in Conns |-> IF phase[c] = "new" THEN "new" ELSE "closed"]
  /\ steps' = [h \in Handlers |-> <<>>]
  /\ victim' = [h \in Handlers |-> None]
  /\ UNCHANGED <<tok, issued, row, arg, alone, settled, ops, faults, eventVars>>

Idle ==
  /\ ops = MaxOps
  /\ Quiet
  /\ \A c \in Conns : phase[c] = "closed"
  /\ UNCHANGED vars

Next ==
  \/ \E c \in Conns :
       \/ \E t \in 1 .. issued : Validate(c, t)
       \/ Register(c) \/ HangUp(c) \/ Unregister(c) \/ Event(c)
  \/ \E h \in Handlers :
       \/ Confirm(h) \/ Refresh(h) \/ Cancel(h)
       \/ Check(h) \/ Upsert(h) \/ Invalidate(h) \/ Look(h) \/ Close(h)
       \/ Issue(h) \/ Save(h) \/ Delete(h) \/ DbError(h)
  \/ Restart
  \/ Idle

Spec == Init /\ [][Next]_vars

-----------------------------------------------------------------------------
Tokens == 1 .. issued
StepNames == {"promote", "upsert", "check", "invalidate", "look", "close", "issue", "save", "delete"}

(* The variables have the values the code can give them; the registered    *)
(* connection is one whose HandleWS has not returned.                      *)
TypeOK ==
  /\ issued \in Nat \ {0}
  /\ valid \subseteq Tokens
  /\ row \in Tokens \cup {None}
  /\ phase \in [Conns -> {"new", "validated", "open", "closing", "closed"}]
  /\ conns \in {c \in Conns : phase[c] \in {"open", "closing"}} \cup {None}
  /\ victim \in [Handlers -> Conns \cup {None}]
  /\ steps \in [Handlers -> Seq(StepNames)]
  /\ arg \in [Handlers -> Tokens \cup {0}]
  /\ alone \in Handlers \cup {None}
  /\ settled \in Tokens \cup {0, None}

(* The connection that registered last stays the registered one until it   *)
(* ends itself: the late end of an older one does not take it away.        *)
NewestSurvives == latest # None /\ phase[latest] = "open" => conns = latest

(* A rotation that no other request overlapped and whose UPDATE went       *)
(* through leaves its token as the only usable one and in the row, and     *)
(* that stays so, through restarts and connections, until another request  *)
(* begins: whatever requests overlapped or failed before, it mends it.     *)
RotationHolds == settled \in Tokens => valid = {settled} /\ row = settled

(* And a cancel that no other request overlapped and whose DELETE went     *)
(* through leaves no usable token, and no row in which a restart would     *)
(* find one.                                                               *)
CancelHolds == settled = 0 => valid = {} /\ row = None

(* When no request is being served there is one usable token at most, and  *)
(* of a confirmed machine it is the one in the database.  Requests that    *)
(* overlap and statements that fail break it.                              *)
OneToken ==
  Quiet => Cardinality(valid) <= 1 /\ (row # None => valid = {row})

(* After such a rotation the daemon that is connected came with the new    *)
(* token.  A connection whose token was validated and which has not been   *)
(* registered when Disconnect looks breaks it.                             *)
KickedOut ==
  settled \in Tokens =>
    \A c \in Conns : phase[c] = "open" /\ conns = c => tok[c] = settled

(* Every event a daemon sent is in the log: the sequence number keeps the  *)
(* idempotency keys apart.                                                 *)
EventsLogged == Cardinality(log) = sent
=============================================================================
