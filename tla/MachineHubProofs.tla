-------------------------- MODULE MachineHubProofs --------------------------
(***************************************************************************)
(* For any number of connections, requests, tokens, restarts and failing   *)
(* statements: the newer connection of a machine stays the registered one; *)
(* and a rotation or a cancel that no other request overlapped holds until *)
(* another request begins, whatever happened before it.                    *)
(***************************************************************************)
EXTENDS MachineHub, TLAPS

(* What a handler has still to do is the end of one of the three lists.    *)
Ends ==
  {<<>>,
   ConfirmSteps, <<"upsert">>,
   RefreshSteps, <<"invalidate", "look", "close", "issue", "save">>,
   <<"look", "close", "issue", "save">>, <<"close", "issue", "save">>,
   <<"issue", "save">>, <<"save">>,
   CancelSteps, <<"look", "close", "delete">>, <<"close", "delete">>, <<"delete">>}

HubType ==
  /\ phase \in [Conns -> {"new", "validated", "open", "closing", "closed"}]
  /\ conns \in {c \in Conns : phase[c] \in {"open", "closing"}} \cup {None}
  /\ latest \in Conns \cup {None}
  /\ victim \in [Handlers -> Conns \cup {None}]

TokenType ==
  /\ issued \in Nat \ {0}
  /\ valid \subseteq Tokens
  /\ row \in Tokens \cup {None}
  /\ steps \in [Handlers -> Ends]
  /\ arg \in [Handlers -> Tokens \cup {0}]
  /\ alone \in Handlers \cup {None}
  /\ settled \in Tokens \cup {0, None}

(* A token about to be written into the row is a real one.                 *)
ArgIssued ==
  \A h \in Handlers :
    steps[h] \in {ConfirmSteps, <<"upsert">>, <<"save">>} => arg[h] \in Tokens

TypeInv == HubType /\ TokenType /\ ArgIssued

(* The ends by the step they begin with.                                   *)
LEMMA EndsByHead ==
  ASSUME NEW s \in Ends, s # <<>>
  PROVE  /\ Tail(s) \in Ends
         /\ Head(s) = "promote" => s = ConfirmSteps /\ Tail(s) = <<"upsert">>
         /\ Head(s) = "upsert" => s = <<"upsert">> /\ Tail(s) = <<>>
         /\ Head(s) = "check" =>
              s = RefreshSteps /\ Tail(s) = <<"invalidate", "look", "close", "issue", "save">>
         /\ Head(s) = "invalidate" =>
              \/ s = CancelSteps /\ Tail(s) = <<"look", "close", "delete">>
              \/ /\ s = <<"invalidate", "look", "close", "issue", "save">>
                 /\ Tail(s) = <<"look", "close", "issue", "save">>
         /\ Head(s) = "look" =>
              \/ s = <<"look", "close", "delete">> /\ Tail(s) = <<"close", "delete">>
              \/ s = <<"look", "close", "issue", "save">> /\ Tail(s) = <<"close", "issue", "save">>
         /\ Head(s) = "close" =>
              \/ s = <<"close", "delete">> /\ Tail(s) = <<"delete">>
              \/ s = <<"close", "issue", "save">> /\ Tail(s) = <<"issue", "save">>
         /\ Head(s) = "issue" => s = <<"issue", "save">> /\ Tail(s) = <<"save">>
         /\ Head(s) = "save" => s = <<"save">> /\ Tail(s) = <<>>
         /\ Head(s) = "delete" => s = <<"delete">> /\ Tail(s) = <<>>
<1>1. CASE s = ConfirmSteps
  BY <1>1 DEF Ends, ConfirmSteps
<1>2. CASE s = <<"upsert">>
  BY <1>2 DEF Ends
<1>3. CASE s = RefreshSteps
  BY <1>3 DEF Ends, RefreshSteps
<1>4. CASE s = CancelSteps
  BY <1>4 DEF Ends, CancelSteps
<1>5. CASE s = <<"invalidate", "look", "close", "issue", "save">>
  BY <1>5 DEF Ends
<1>6. CASE s = <<"look", "close", "issue", "save">>
  BY <1>6 DEF Ends
<1>7. CASE s = <<"close", "issue", "save">>
  BY <1>7 DEF Ends
<1>8. CASE s = <<"issue", "save">>
  BY <1>8 DEF Ends
<1>9. CASE s = <<"save">>
  BY <1>9 DEF Ends
<1>10. CASE s = <<"look", "close", "delete">>
  BY <1>10 DEF Ends
<1>11. CASE s = <<"close", "delete">>
  BY <1>11 DEF Ends
<1>12. CASE s = <<"delete">>
  BY <1>12 DEF Ends
<1> QED
  BY <1>1, <1>2, <1>3, <1>4, <1>5, <1>6, <1>7, <1>8, <1>9, <1>10, <1>11, <1>12 DEF Ends

(* A step that a handler takes leaves the end of its list that follows.    *)
LEMMA Taken ==
  ASSUME TokenType, NEW h \in Handlers, NEW name, Step(h, name)
  PROVE  /\ steps[h] \in Ends /\ steps[h] # <<>> /\ Head(steps[h]) = name
         /\ steps' = [steps EXCEPT ![h] = Tail(steps[h])]
         /\ steps' \in [Handlers -> Ends]
         /\ steps'[h] = Tail(steps[h])
         /\ \A g \in Handlers : g # h => steps'[g] = steps[g]
<1>1. steps[h] \in Ends /\ steps[h] # <<>> /\ Head(steps[h]) = name
  BY DEF TokenType, Step, At
<1>2. Tail(steps[h]) \in Ends
  BY <1>1, EndsByHead
<1> QED
  BY <1>1, <1>2 DEF TokenType, Step

(* The empty list and the three full ones differ from each other and from  *)
(* what follows a step.                                                    *)
LEMMA Distinct ==
  /\ <<>> \notin {ConfirmSteps, <<"upsert">>, <<"save">>}
  /\ RefreshSteps \notin {<<>>, ConfirmSteps, <<"upsert">>, <<"save">>}
  /\ CancelSteps \notin {<<>>, ConfirmSteps, RefreshSteps, <<"upsert">>, <<"save">>}
  /\ {<<>>, ConfirmSteps, RefreshSteps, CancelSteps} \subseteq Ends
BY DEF Ends, ConfirmSteps, RefreshSteps, CancelSteps

LEMMA TypeInit == Init => TypeInv
<1> SUFFICES ASSUME Init PROVE TypeInv
  OBVIOUS
<1>1. HubType
  BY DEF Init, HubType
<1>2. TokenType
  BY Distinct DEF Init, TokenType, Tokens
<1>3. ArgIssued
  BY Distinct DEF Init, ArgIssued
<1> QED
  BY <1>1, <1>2, <1>3 DEF TypeInv

(* What a connection does leaves the tokens and the handlers alone.        *)
LEMMA ConnType ==
  ASSUME TypeInv, NEW c \in Conns,
         \/ \E t \in 1 .. issued : Validate(c, t)
         \/ Register(c) \/ HangUp(c) \/ Unregister(c) \/ Event(c)
  PROVE  TypeInv' /\ UNCHANGED <<tokenVars, handlerVars>>
<1>1. UNCHANGED <<tokenVars, handlerVars>>
  BY DEF Validate, Register, HangUp, Unregister, Event
<1>2. TokenType' /\ ArgIssued'
  BY <1>1 DEF TypeInv, TokenType, ArgIssued, Tokens, tokenVars, handlerVars
<1>3. CASE \E t \in 1 .. issued : Validate(c, t)
  BY <1>3, <1>2 DEF Validate, TypeInv, HubType, Phase, handlerVars
<1>4. CASE Register(c)
  BY <1>4, <1>2 DEF Register, TypeInv, HubType, Phase, handlerVars
<1>5. CASE HangUp(c)
  BY <1>5, <1>2 DEF HangUp, TypeInv, HubType, Phase, handlerVars
<1>6. CASE Unregister(c)
  BY <1>6, <1>2 DEF Unregister, TypeInv, HubType, Phase, handlerVars
<1>7. CASE Event(c)
  BY <1>7, <1>2 DEF Event, TypeInv, HubType, hubVars, handlerVars
<1> QED
  BY <1>1, <1>3, <1>4, <1>5, <1>6, <1>7

LEMMA BeginType ==
  ASSUME TypeInv, NEW h \in Handlers, Confirm(h) \/ Refresh(h) \/ Cancel(h)
  PROVE  TypeInv'
<1>1. PICK todo \in {ConfirmSteps, RefreshSteps, CancelSteps}, t \in Tokens \cup {0} :
        Begin(h, todo, t) /\ (todo = ConfirmSteps => t \in Tokens)
  BY Distinct DEF Confirm, Refresh, Cancel, Tokens
<1>2. HubType'
  BY <1>1 DEF Begin, TypeInv, HubType, hubVars
<1>3. TokenType'
  BY <1>1, Distinct DEF Begin, TypeInv, TokenType, Tokens, tokenVars
<1>4. ArgIssued'
  BY <1>1, Distinct DEF Begin, TypeInv, TokenType, ArgIssued, Tokens, tokenVars
<1> QED
  BY <1>2, <1>3, <1>4 DEF TypeInv

(* The checks leave everything but the list alone, and what is left of a   *)
(* list asks of the argument no more than the list did.                    *)
LEMMA Checked ==
  ASSUME TokenType, NEW h \in Handlers, Check(h)
  PROVE  /\ UNCHANGED <<hubVars, tokenVars, arg, victim, alone, settled, ops>>
         /\ steps' \in [Handlers -> Ends]
         /\ \A g \in Handlers : g # h => steps'[g] = steps[g]
         /\ \/ steps[h] \in {ConfirmSteps, RefreshSteps} /\ steps'[h] = <<>>
            \/ steps[h] = ConfirmSteps /\ arg[h] \in valid /\ steps'[h] = <<"upsert">>
            \/ /\ steps[h] = RefreshSteps /\ row # None
               /\ steps'[h] = <<"invalidate", "look", "close", "issue", "save">>
<1>1. steps[h] \in Ends /\ steps[h] # <<>>
  BY DEF TokenType, Check, At
<1>2. \/ steps[h] = ConfirmSteps /\ Tail(steps[h]) = <<"upsert">>
      \/ /\ steps[h] = RefreshSteps
         /\ Tail(steps[h]) = <<"invalidate", "look", "close", "issue", "save">>
  BY <1>1, EndsByHead DEF Check, At
<1>3. CASE At(h, "promote")
  <2>1. steps[h] = ConfirmSteps /\ Tail(steps[h]) = <<"upsert">> /\ Tail(steps[h]) \in Ends
    BY <1>1, <1>3, EndsByHead DEF At
  <2>2. ~At(h, "check")
    BY <1>3 DEF At
  <2> QED
    BY <2>1, <2>2, Distinct DEF Check, TokenType
<1>4. CASE At(h, "check")
  <2>1. /\ steps[h] = RefreshSteps /\ Tail(steps[h]) \in Ends
        /\ Tail(steps[h]) = <<"invalidate", "look", "close", "issue", "save">>
    BY <1>1, <1>4, EndsByHead DEF At
  <2>2. ~At(h, "promote")
    BY <1>4 DEF At
  <2> QED
    BY <2>1, <2>2, Distinct DEF Check, TokenType
<1> QED
  BY <1>3, <1>4 DEF Check

HandlerStep(h) ==
  \/ Upsert(h) \/ Invalidate(h) \/ Look(h) \/ Close(h)
  \/ Issue(h) \/ Save(h) \/ Delete(h) \/ DbError(h)

(* The names of the steps keep the actions of a handler apart.             *)
LEMMA HandlerType ==
  ASSUME TypeInv, NEW h \in Handlers, Check(h) \/ HandlerStep(h)
  PROVE  TypeInv'
<1> USE DEF TypeInv
<1>1. CASE Check(h)
  <2>1. HubType' /\ TokenType'
    BY <1>1, Checked DEF HubType, TokenType, Tokens, hubVars, tokenVars
  <2>2. ArgIssued'
    <3> SUFFICES ASSUME NEW g \in Handlers, steps'[g] \in {ConfirmSteps, <<"upsert">>, <<"save">>}
                 PROVE  arg'[g] \in Tokens'
      BY DEF ArgIssued
    <3>1. arg' = arg /\ Tokens' = Tokens
      BY <1>1, Checked DEF Tokens, tokenVars
    <3>2. CASE g = h
      <4>1. steps[h] = ConfirmSteps \/ steps'[h] \notin {ConfirmSteps, <<"upsert">>, <<"save">>}
        <5>1. <<"invalidate", "look", "close", "issue", "save">>
                \notin {ConfirmSteps, <<"upsert">>, <<"save">>}
          BY DEF ConfirmSteps
        <5> QED
          BY <1>1, <5>1, Checked, Distinct
      <4> QED
        BY <3>1, <3>2, <4>1 DEF ArgIssued
    <3>3. CASE g # h
      BY <1>1, <3>1, <3>3, Checked DEF ArgIssued
    <3> QED
      BY <3>2, <3>3
  <2> QED
    BY <2>1, <2>2
<1>2. CASE Upsert(h)
  <2>1. Step(h, "upsert")
    BY <1>2 DEF Upsert
  <2>2. steps[h] = <<"upsert">> /\ steps'[h] = <<>> /\ arg[h] \in Tokens
    BY <2>1, Taken, EndsByHead DEF ArgIssued
  <2> QED
    BY <1>2, <2>1, <2>2, Taken, Distinct DEF Upsert, HubType, TokenType, ArgIssued, Tokens, hubVars
<1>3. CASE Invalidate(h)
  <2>1. Step(h, "invalidate")
    BY <1>3 DEF Invalidate
  <2>2. steps'[h] \notin {ConfirmSteps, <<"upsert">>, <<"save">>}
    BY <2>1, Taken, EndsByHead DEF ConfirmSteps
  <2> QED
    BY <1>3, <2>1, <2>2, Taken DEF Invalidate, HubType, TokenType, ArgIssued, Tokens, hubVars
<1>4. CASE Look(h)
  <2>1. Step(h, "look")
    BY <1>4 DEF Look
  <2>2. steps'[h] \notin {ConfirmSteps, <<"upsert">>, <<"save">>}
    BY <2>1, Taken, EndsByHead DEF ConfirmSteps
  <2> QED
    BY <1>4, <2>1, <2>2, Taken
    DEF Look, HubType, TokenType, ArgIssued, Tokens, hubVars, tokenVars
<1>5. CASE Close(h)
  <2>1. Step(h, "close")
    BY <1>5 DEF Close
  <2>2. steps'[h] \notin {ConfirmSteps, <<"upsert">>, <<"save">>}
    BY <2>1, Taken, EndsByHead DEF ConfirmSteps
  <2>3. HubType'
    BY <1>5 DEF Close, HubType
  <2> QED
    BY <1>5, <2>1, <2>2, <2>3, Taken DEF Close, TokenType, ArgIssued, Tokens, tokenVars
<1>6. CASE Issue(h)
  <2>1. Step(h, "issue")
    BY <1>6 DEF Issue
  <2> QED
    BY <1>6, <2>1, Taken DEF Issue, HubType, TokenType, ArgIssued, Tokens, hubVars
<1>7. CASE Save(h)
  <2>1. Step(h, "save")
    BY <1>7 DEF Save
  <2>2. steps[h] = <<"save">> /\ steps'[h] = <<>> /\ arg[h] \in Tokens
    BY <2>1, Taken, EndsByHead DEF ArgIssued
  <2>3. HubType'
    BY <1>7 DEF Save, HubType, hubVars
  <2>4. TokenType'
    <3>1. Tokens' = Tokens /\ row' \in Tokens \cup {None} /\ settled' \in Tokens \cup {0, None}
      BY <1>7, <2>2 DEF Save, Settle, TokenType, Tokens
    <3> QED
      BY <1>7, <2>1, <3>1, Taken DEF Save, TokenType
  <2>5. ArgIssued'
    BY <1>7, <2>1, <2>2, Taken, Distinct DEF Save, ArgIssued, Tokens
  <2> QED
    BY <2>3, <2>4, <2>5
<1>8. CASE Delete(h)
  <2>1. Step(h, "delete")
    BY <1>8 DEF Delete
  <2>2. steps'[h] = <<>>
    BY <2>1, Taken, EndsByHead
  <2> QED
    BY <1>8, <2>1, <2>2, Taken, Distinct
    DEF Delete, Settle, HubType, TokenType, ArgIssued, Tokens, hubVars
<1>9. CASE DbError(h)
  BY <1>9, Distinct DEF DbError, HubType, TokenType, ArgIssued, Tokens, hubVars, tokenVars
<1> QED
  BY <1>1, <1>2, <1>3, <1>4, <1>5, <1>6, <1>7, <1>8, <1>9 DEF HandlerStep

LEMMA RestartType ==
  ASSUME TypeInv, Restart
  PROVE  TypeInv'
<1>1. HubType'
  BY DEF Restart, TypeInv, HubType
<1>2. TokenType' /\ ArgIssued'
  BY Distinct DEF Restart, TypeInv, TokenType, ArgIssued, Tokens
<1> QED
  BY <1>1, <1>2 DEF TypeInv

LEMMA TypeStep == TypeInv /\ [Next]_vars => TypeInv'
<1> SUFFICES ASSUME TypeInv, [Next]_vars PROVE TypeInv'
  OBVIOUS
<1>1. CASE UNCHANGED vars
  BY <1>1 DEF vars, hubVars, tokenVars, handlerVars, TypeInv, HubType, TokenType, ArgIssued, Tokens
<1>2. CASE Next
  BY <1>1, <1>2, ConnType, BeginType, HandlerType, RestartType DEF Next, HandlerStep, Idle
<1> QED
  BY <1>1, <1>2

LEMMA TypeImplied == TypeInv => TypeOK
<1>1. Ends \subseteq Seq(StepNames)
  BY DEF Ends, StepNames, ConfirmSteps, RefreshSteps, CancelSteps
<1> QED
  BY <1>1 DEF TypeInv, HubType, TokenType, TypeOK

LEMMA TypeAlways == Spec => []TypeInv
BY TypeInit, TypeStep, PTL DEF Spec

(* The variables of the hub, the token store and the requests have the     *)
(* values the code can give them, however requests, connections and        *)
(* restarts interleave; the registered connection is one whose HandleWS    *)
(* has not returned.                                                       *)
THEOREM TypeCorrect == Spec => []TypeOK
BY TypeAlways, TypeImplied, PTL

-----------------------------------------------------------------------------
(* The end of an older connection, however late, does not take the newest  *)
(* one out of Hub.conns: unregister looks which connection is there.       *)
THEOREM NewestCorrect == Spec => []NewestSurvives
<1>1. Init => NewestSurvives
  BY DEF Init, NewestSurvives
<1>2. TypeInv /\ NewestSurvives /\ [Next]_vars => NewestSurvives'
  <2> SUFFICES ASSUME TypeInv, NewestSurvives, [Next]_vars PROVE NewestSurvives'
    OBVIOUS
  <2> USE HubAssumption DEF NewestSurvives
  <2>1. UNCHANGED hubVars => NewestSurvives'
    BY DEF hubVars
  <2>2. ASSUME NEW c \in Conns, NEW t, Validate(c, t)
        PROVE  NewestSurvives'
    BY <2>2 DEF Validate, Phase, TypeInv, HubType
  <2>3. ASSUME NEW c \in Conns, Register(c)
        PROVE  NewestSurvives'
    BY <2>3 DEF Register
  <2>4. ASSUME NEW c \in Conns, HangUp(c)
        PROVE  NewestSurvives'
    BY <2>4 DEF HangUp, Phase, TypeInv, HubType
  <2>5. ASSUME NEW c \in Conns, Unregister(c)
        PROVE  NewestSurvives'
    BY <2>5 DEF Unregister, Phase, TypeInv, HubType
  <2>6. ASSUME NEW c \in Conns, Event(c)
        PROVE  NewestSurvives'
    BY <2>1, <2>6 DEF Event
  <2>7. ASSUME NEW h \in Handlers, Close(h)
        PROVE  NewestSurvives'
    BY <2>7 DEF Close, TypeInv, HubType
  <2>8. ASSUME NEW h \in Handlers,
               \/ Confirm(h) \/ Refresh(h) \/ Cancel(h) \/ Check(h) \/ Upsert(h)
               \/ Invalidate(h) \/ Look(h) \/ Issue(h) \/ Save(h) \/ Delete(h) \/ DbError(h)
        PROVE  NewestSurvives'
    BY <2>1, <2>8
    DEF Confirm, Refresh, Cancel, Begin, Check, Upsert, Invalidate, Look, Issue, Save, Delete,
        DbError
  <2>9. CASE Restart
    BY <2>9 DEF Restart
  <2>10. CASE UNCHANGED vars \/ Idle
    BY <2>1, <2>10 DEF Idle, vars
  <2> QED
    BY <2>2, <2>3, <2>4, <2>5, <2>6, <2>7, <2>8, <2>9, <2>10 DEF Next
<1> QED
  BY <1>1, <1>2, TypeAlways, PTL DEF Spec

-----------------------------------------------------------------------------
(***************************************************************************)
(* The request that runs alone.  The invariant says for every end of its   *)
(* list what it has done so far: nobody else can have undone it, as a      *)
(* second request ends the being alone, a connection touches no token, and *)
(* a restart ends the request.                                             *)
(***************************************************************************)
Starts == {<<>>, ConfirmSteps, RefreshSteps, CancelSteps, <<"upsert">>}
Refreshing == {<<"invalidate", "look", "close", "issue", "save">>}
Emptied == {<<"look", "close", "issue", "save">>, <<"close", "issue", "save">>, <<"issue", "save">>}
Saving == {<<"save">>}
Cancelling == {<<"look", "close", "delete">>, <<"close", "delete">>, <<"delete">>}

Stage(h) ==
  /\ steps[h] \in Refreshing => row # None
  /\ steps[h] \in Emptied => valid = {} /\ row # None
  /\ steps[h] \in Saving => valid = {arg[h]} /\ row # None
  /\ steps[h] \in Cancelling => valid = {}

Lonely(h) == \A g \in Handlers : g # h => steps[g] = <<>>

AloneInv == \A h \in Handlers : alone = h => Lonely(h) /\ Stage(h)

(* Once settled no request is under way.                                   *)
SettledInv ==
  /\ settled # None => Quiet
  /\ RotationHolds
  /\ CancelHolds

SoleInv == TypeInv /\ AloneInv /\ SettledInv

(* The parts into which the invariant divides the ends.                    *)
LEMMA Parts ==
  /\ Starts \cap (Refreshing \cup Emptied \cup Saving \cup Cancelling) = {}
  /\ Refreshing \cap (Emptied \cup Saving \cup Cancelling) = {}
  /\ Emptied \cap (Saving \cup Cancelling) = {}
  /\ Saving \cap Cancelling = {}
<1> USE DEF Starts, Refreshing, Emptied, Saving, Cancelling, ConfirmSteps, RefreshSteps, CancelSteps
<1>1. Starts \cap (Refreshing \cup Emptied \cup Saving \cup Cancelling) = {}
  OBVIOUS
<1>2. Refreshing \cap (Emptied \cup Saving \cup Cancelling) = {}
  OBVIOUS
<1>3. Emptied \cap (Saving \cup Cancelling) = {} /\ Saving \cap Cancelling = {}
  OBVIOUS
<1> QED
  BY <1>1, <1>2, <1>3

LEMMA SoleInit == Init => SoleInv
<1> SUFFICES ASSUME Init PROVE SoleInv
  OBVIOUS
<1>1. settled = None /\ alone = None
  BY DEF Init
<1>2. AloneInv
  BY <1>1, HubAssumption DEF AloneInv
<1>3. SettledInv
  BY <1>1, HubAssumption DEF SettledInv, RotationHolds, CancelHolds, Tokens
<1> QED
  BY <1>2, <1>3, TypeInit DEF SoleInv

(* What leaves the tokens and the handlers alone leaves the invariant.     *)
LEMMA SoleConn ==
  ASSUME SoleInv, TypeInv', UNCHANGED <<tokenVars, handlerVars>>
  PROVE  SoleInv'
BY DEF SoleInv, AloneInv, Lonely, Stage, SettledInv, RotationHolds, CancelHolds, Quiet, Tokens,
       tokenVars, handlerVars

LEMMA SoleBegin ==
  ASSUME SoleInv, NEW h \in Handlers, Confirm(h) \/ Refresh(h) \/ Cancel(h)
  PROVE  SoleInv'
<1>1. TypeInv'
  BY BeginType DEF SoleInv
<1>2. /\ settled' = None
      /\ alone' = IF Quiet THEN h ELSE None
      /\ steps'[h] \in Starts
      /\ \A g \in Handlers : g # h => steps'[g] = steps[g]
  BY DEF Confirm, Refresh, Cancel, Begin, SoleInv, TypeInv, TokenType, Starts
<1>3. AloneInv'
  BY <1>2, HubAssumption, Parts DEF AloneInv, Lonely, Stage, Quiet
<1>4. SettledInv'
  BY <1>2, HubAssumption DEF SettledInv, RotationHolds, CancelHolds, Tokens
<1> QED
  BY <1>1, <1>3, <1>4 DEF SoleInv

(* While a request has a step to take nothing is settled.                  *)
LEMMA Unsettled ==
  ASSUME SoleInv, NEW h \in Handlers, steps[h] # <<>>
  PROVE  /\ settled = None
         /\ \A g \in Handlers : alone = g => g = h
BY DEF SoleInv, SettledInv, AloneInv, Lonely, Quiet

(* A step of a request that settles nothing: only what it leaves of itself *)
(* is in question.                                                         *)
LEMMA SoleKept ==
  ASSUME SoleInv, NEW h \in Handlers, steps[h] # <<>>, TypeInv',
         UNCHANGED <<alone, settled>>,
         \A g \in Handlers : g # h => steps'[g] = steps[g],
         alone = h => Stage(h)'
  PROVE  SoleInv'
<1>1. settled' = None
  BY Unsettled
<1>2. SettledInv'
  BY <1>1, HubAssumption DEF SettledInv, RotationHolds, CancelHolds, Tokens
<1>3. AloneInv'
  <2> SUFFICES ASSUME NEW g \in Handlers, alone = g PROVE Lonely(g)' /\ Stage(g)'
    BY DEF AloneInv
  <2>1. g = h /\ Lonely(h)
    BY Unsettled DEF SoleInv, AloneInv
  <2>2. Lonely(h)'
    BY <2>1 DEF Lonely
  <2> QED
    BY <2>1, <2>2
<1> QED
  BY <1>2, <1>3 DEF SoleInv

LEMMA SoleHandler ==
  ASSUME SoleInv, NEW h \in Handlers, Check(h) \/ HandlerStep(h)
  PROVE  SoleInv'
<1>1. TypeInv' /\ TypeInv /\ TokenType
  BY HandlerType DEF SoleInv, TypeInv
<1>2. alone = h => Stage(h)
  BY DEF SoleInv, AloneInv
<1>3. CASE Check(h)
  <2>1. steps[h] # <<>>
    BY <1>3 DEF Check, At
  <2>2. \/ steps'[h] \in Starts
        \/ steps'[h] \in Refreshing /\ row' # None
    BY <1>1, <1>3, Checked DEF Starts, Refreshing, tokenVars
  <2>3. Stage(h)'
    BY <2>2, Parts DEF Stage
  <2>4. UNCHANGED <<alone, settled>> /\ \A g \in Handlers : g # h => steps'[g] = steps[g]
    BY <1>1, <1>3, Checked
  <2> QED
    BY <1>1, <2>1, <2>3, <2>4, SoleKept
<1>4. CASE Upsert(h)
  <2>1. Step(h, "upsert")
    BY <1>4 DEF Upsert
  <2>2. /\ steps[h] # <<>> /\ steps'[h] \in Starts
        /\ \A g \in Handlers : g # h => steps'[g] = steps[g]
    BY <1>1, <2>1, Taken, EndsByHead DEF Starts
  <2>3. Stage(h)'
    BY <2>2, Parts DEF Stage
  <2> QED
    BY <1>1, <1>4, <2>2, <2>3, SoleKept DEF Upsert
<1>5. CASE Invalidate(h)
  <2>1. Step(h, "invalidate")
    BY <1>5 DEF Invalidate
  <2>2. /\ steps[h] # <<>>
        /\ \A g \in Handlers : g # h => steps'[g] = steps[g]
        /\ \/ steps'[h] \in Cancelling
           \/ steps[h] \in Refreshing /\ steps'[h] \in Emptied
    BY <1>1, <2>1, Taken, EndsByHead DEF Cancelling, Refreshing, Emptied
  <2>3. alone = h => Stage(h)'
    BY <1>2, <1>5, <2>2, Parts DEF Stage, Invalidate
  <2> QED
    BY <1>1, <1>5, <2>2, <2>3, SoleKept DEF Invalidate
<1>6. CASE Look(h) \/ Close(h)
  <2>1. PICK name \in {"look", "close"} : Step(h, name)
    BY <1>6 DEF Look, Close
  <2>2. /\ steps[h] # <<>>
        /\ \A g \in Handlers : g # h => steps'[g] = steps[g]
        /\ \/ steps[h] \in Emptied /\ steps'[h] \in Emptied
           \/ steps[h] \in Cancelling /\ steps'[h] \in Cancelling
    BY SMTT(20), <1>1, <2>1, Taken, EndsByHead DEF Emptied, Cancelling
  <2>3. UNCHANGED <<issued, valid, row, arg, alone, settled>>
    BY <1>6 DEF Look, Close, tokenVars
  <2>4. alone = h => Stage(h)'
    BY <1>2, <2>2, <2>3, Parts DEF Stage
  <2> QED
    BY <1>1, <2>2, <2>3, <2>4, SoleKept
<1>7. CASE Issue(h)
  <2>1. Step(h, "issue")
    BY <1>7 DEF Issue
  <2>2. /\ steps[h] # <<>>
        /\ \A g \in Handlers : g # h => steps'[g] = steps[g]
        /\ steps[h] \in Emptied /\ steps'[h] \in Saving
    BY <1>1, <2>1, Taken, EndsByHead DEF Emptied, Saving
  <2>3. alone = h => Stage(h)'
    BY <1>1, <1>2, <1>7, <2>2, Parts DEF Stage, Issue, TokenType
  <2> QED
    BY <1>1, <1>7, <2>2, <2>3, SoleKept DEF Issue
<1>8. ASSUME NEW left \in Nat, Settle(h, left), alone' = alone,
             \E name \in {"save", "delete"} : Step(h, name),
             alone = h /\ left # 0 => valid' = {left} /\ row' = left,
             alone = h /\ left = 0 => valid' = {} /\ row' = None
      PROVE  SoleInv'
  <2>1. /\ steps[h] # <<>> /\ steps'[h] = <<>>
        /\ \A g \in Handlers : g # h => steps'[g] = steps[g]
    BY <1>1, <1>8, Taken, EndsByHead
  <2>2. CASE alone = h
    <3>1. settled' = left
      BY <1>8, <2>2 DEF Settle
    <3>2. Lonely(h)
      BY <2>2 DEF SoleInv, AloneInv
    <3>3. Quiet'
      BY <2>1, <3>2 DEF Lonely, Quiet
    <3>4. SettledInv'
      BY <1>8, <2>2, <3>1, <3>3, HubAssumption
      DEF SettledInv, RotationHolds, CancelHolds, Tokens
    <3>5. AloneInv'
      BY <3>3, Parts DEF AloneInv, Lonely, Stage, Quiet, Starts
    <3> QED
      BY <1>1, <3>4, <3>5 DEF SoleInv
  <2>3. CASE alone # h
    BY <1>1, <1>8, <2>1, <2>3, SoleKept DEF Settle
  <2> QED
    BY <2>2, <2>3
<1>9. CASE Save(h)
  <2>1. Step(h, "save")
    BY <1>9 DEF Save
  <2>2. steps[h] \in Saving /\ arg[h] \in Tokens
    BY <1>1, <2>1, Taken, EndsByHead DEF Saving, TypeInv, ArgIssued
  <2>3. alone = h => valid' = {arg[h]} /\ row' = arg[h]
    BY <1>2, <1>9, <2>2 DEF Save, Stage
  <2>4. arg[h] \in Nat /\ arg[h] # 0
    BY <2>2, <1>1 DEF Tokens, TokenType
  <2> QED
    BY <1>8, <1>9, <2>1, <2>3, <2>4 DEF Save
<1>10. CASE Delete(h)
  <2>1. Step(h, "delete")
    BY <1>10 DEF Delete
  <2>2. steps[h] \in Cancelling
    BY <1>1, <2>1, Taken, EndsByHead DEF Cancelling
  <2>3. alone = h => valid' = {} /\ row' = None
    BY <1>2, <1>10, <2>2 DEF Delete, Stage
  <2> QED
    BY <1>8, <1>10, <2>1, <2>3 DEF Delete
<1>11. CASE DbError(h)
  <2>1. /\ steps[h] # <<>> /\ steps'[h] \in Starts
        /\ \A g \in Handlers : g # h => steps'[g] = steps[g]
    BY <1>1, <1>11 DEF DbError, At, TokenType, Starts
  <2>2. Stage(h)'
    BY <2>1, Parts DEF Stage
  <2> QED
    BY <1>1, <1>11, <2>1, <2>2, SoleKept DEF DbError
<1> QED
  BY <1>3, <1>4, <1>5, <1>6, <1>7, <1>9, <1>10, <1>11 DEF HandlerStep

(* A restart ends the requests and finds the token of the row.             *)
LEMMA SoleRestart ==
  ASSUME SoleInv, Restart
  PROVE  SoleInv'
<1>1. /\ TypeInv'
      /\ valid' = (IF row = None THEN {} ELSE {row}) /\ UNCHANGED <<issued, row, alone, settled>>
      /\ \A h \in Handlers : steps'[h] = <<>>
  BY RestartType DEF Restart, SoleInv
<1>2. AloneInv'
  BY <1>1, Parts DEF AloneInv, Lonely, Stage, Starts
<1>3. SettledInv'
  BY <1>1, HubAssumption DEF SoleInv, SettledInv, RotationHolds, CancelHolds, Quiet, Tokens
<1> QED
  BY <1>1, <1>2, <1>3 DEF SoleInv

LEMMA SoleStep == SoleInv /\ [Next]_vars => SoleInv'
<1> SUFFICES ASSUME SoleInv, [Next]_vars PROVE SoleInv'
  OBVIOUS
<1>1. TypeInv'
  BY TypeStep DEF SoleInv
<1>2. ASSUME NEW c \in Conns,
             \/ \E t \in 1 .. issued : Validate(c, t)
             \/ Register(c) \/ HangUp(c) \/ Unregister(c) \/ Event(c)
      PROVE  SoleInv'
  BY <1>1, <1>2, ConnType, SoleConn DEF SoleInv
<1>3. CASE UNCHANGED vars
  BY <1>1, <1>3, SoleConn DEF vars
<1> QED
  BY <1>2, <1>3, SoleBegin, SoleHandler, SoleRestart DEF Next, HandlerStep, Idle

(* RefreshToken: once a rotation that no other request overlapped has      *)
(* ended without an error, its token is the only usable one and the one    *)
(* LoadTokens would find, until another request begins; whatever requests  *)
(* overlapped, failed or were cut off by a restart before it.              *)
THEOREM RotationCorrect == Spec => []RotationHolds
<1>1. SoleInv => RotationHolds
  BY DEF SoleInv, SettledInv
<1> QED
  BY <1>1, SoleInit, SoleStep, PTL DEF Spec

(* Cancel: once a cancel that no other request overlapped has ended and    *)
(* its DELETE went through, no token is usable and no restart finds one,   *)
(* until another request begins.                                           *)
THEOREM CancelCorrect == Spec => []CancelHolds
<1>1. SoleInv => CancelHolds
  BY DEF SoleInv, SettledInv
<1> QED
  BY <1>1, SoleInit, SoleStep, PTL DEF Spec
=============================================================================
