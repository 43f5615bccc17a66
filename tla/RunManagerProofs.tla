-------------------------- MODULE RunManagerProofs --------------------------
(***************************************************************************)
(* For any agents, gates, clients, buffers and bounds: the history and the *)
(* log agree, a gate is released after its review, a client sees what the  *)
(* run had, and what is said of the end of a run is true.                  *)
(***************************************************************************)
EXTENDS RunManager, FiniteSetTheorems, TLAPS

Steps == {"idle", "seq", "publish", "project", "nats", "append", "verdict", "release"}
Places ==
  {"new", "launch", "unlaunched", "pick", "exec", "wait", "blocked", "answered", "skip", "ended",
   "save", "done", "dead", "recovered"}
NodeWords == NodeStatuses \cup {"approved", "rejected"}

Elems(s) == {s[i] : i \in DOMAIN s}

RunType ==
  /\ seq \in Nat
  /\ events \in Seq(Event) /\ log \in Seq(Event) /\ nats \in Seq(Event)
  /\ status \in RunStatuses
  /\ em \in [Emitters -> [at : Steps, ev : Event]]
  /\ execs \in [Ids -> NodeStatuses \cup {None}]
  /\ \A w \in Emitters : em[w].ev.node # None => em[w].ev.what \in NodeWords
  /\ em["engine"].at \notin {"verdict", "release"}

BrokerType ==
  /\ decided \in [Ids -> {None, "approved", "rejected"}]
  /\ waiting \subseteq Gates /\ held \subseteq waiting /\ released \subseteq held
  /\ verdicts \subseteq Ids

EngineType ==
  /\ pc \in Places
  /\ cur \in Nodes \cup {None}
  /\ node \in [Nodes -> NodeStatuses]
  /\ pc \in {"wait", "blocked", "answered"} => cur \in Gates
  /\ pc = "exec" => cur \in Nodes

TypeInv == RunType /\ BrokerType /\ EngineType

-----------------------------------------------------------------------------
(* A sequence that grows by one, and one that loses its head.              *)
LEMMA Grown ==
  ASSUME NEW S, NEW q \in Seq(S), NEW e \in S
  PROVE  /\ Append(q, e) \in Seq(S)
         /\ DOMAIN q = 1 .. Len(q) /\ Len(q) \in Nat
         /\ DOMAIN Append(q, e) = 1 .. Len(q) + 1
         /\ \A i \in 1 .. Len(q) : Append(q, e)[i] = q[i]
         /\ Append(q, e)[Len(q) + 1] = e
OBVIOUS

LEMMA GrownElems ==
  ASSUME NEW S, NEW q \in Seq(S), NEW e \in S
  PROVE  Elems(Append(q, e)) = Elems(q) \cup {e}
<1>1. /\ DOMAIN Append(q, e) = DOMAIN q \cup {Len(q) + 1}
      /\ \A i \in DOMAIN q : Append(q, e)[i] = q[i]
      /\ Append(q, e)[Len(q) + 1] = e
  BY Grown
<1> QED
  BY <1>1 DEF Elems

LEMMA Shrunk ==
  ASSUME NEW S, NEW q \in Seq(S), q # <<>>
  PROVE  /\ Tail(q) \in Seq(S) /\ Elems(Tail(q)) \subseteq Elems(q)
         /\ Head(q) \in Elems(q) /\ Head(q) \in S
<1>1. /\ Tail(q) \in Seq(S) /\ 1 \in DOMAIN q /\ Head(q) = q[1] /\ Head(q) \in S
      /\ \A i \in DOMAIN Tail(q) : i + 1 \in DOMAIN q /\ Tail(q)[i] = q[i + 1]
  OBVIOUS
<1> QED
  BY <1>1 DEF Elems

LEMMA SeqsElems ==
  ASSUME NEW q
  PROVE  Seqs(q) = {ev.seq : ev \in Elems(q)}
BY DEF Seqs, Elems

LEMMA ElemsType ==
  ASSUME NEW S, NEW q \in Seq(S)
  PROVE  Elems(q) \subseteq S
BY DEF Elems

LEMMA TypeInit == Init => TypeInv
<1> SUFFICES ASSUME Init PROVE TypeInv
  OBVIOUS
<1> USE RunAssumption DEF Init
<1>1. NoEvent \in Event
  BY DEF NoEvent, Event, NodeStatuses, RunStatuses
<1>2. RunType
  BY <1>1 DEF RunType, NoEvent, RunStatuses, Steps, Emitters
<1> QED
  BY <1>2 DEF TypeInv, BrokerType, EngineType, Places, NodeStatuses

LEMMA EmitEffect ==
  ASSUME RunType, NEW w \in Emitters, NEW n \in Ids \cup {None},
         NEW what \in NodeWords \cup RunStatuses, n # None => what \in NodeWords, Emit(w, n, what)
  PROVE  /\ em' \in [Emitters -> [at : Steps, ev : Event]]
         /\ em'[w].at = "seq" /\ em'[w].ev.node = n /\ em'[w].ev.what = what
         /\ \A v \in Emitters : v # w => em'[v] = em[v]
         /\ \A v \in Emitters : em'[v].ev.node # None => em'[v].ev.what \in NodeWords
<1>1. [seq |-> 0, node |-> n, what |-> what] \in Event
  BY DEF Event, NodeWords
<1>2. em' \in [Emitters -> [at : Steps, ev : Event]]
  BY <1>1 DEF RunType, Emit, Steps
<1>3. /\ em'[w] = [at |-> "seq", ev |-> [seq |-> 0, node |-> n, what |-> what]]
      /\ \A v \in Emitters : v # w => em'[v] = em[v]
  BY DEF RunType, Emit
<1> QED
  BY <1>2, <1>3 DEF RunType

LEMMA GotoEffect ==
  ASSUME RunType, NEW w \in Emitters, NEW step \in Steps, Goto(w, step)
  PROVE  /\ em' \in [Emitters -> [at : Steps, ev : Event]]
         /\ em'[w].at = step /\ em'[w].ev = em[w].ev
         /\ \A v \in Emitters : v # w => em'[v] = em[v]
         /\ \A v \in Emitters : em'[v].ev = em[v].ev
         /\ \A v \in Emitters : em'[v].ev.node # None => em'[v].ev.what \in NodeWords
<1>1. em[w] \in [at : Steps, ev : Event]
  BY DEF RunType
<1>2. em'[w] = [em[w] EXCEPT !.at = step] /\ \A v \in Emitters : v # w => em'[v] = em[v]
  BY DEF RunType, Goto
<1>3. em'[w] \in [at : Steps, ev : Event] /\ em'[w].at = step /\ em'[w].ev = em[w].ev
  BY <1>1, <1>2
<1>4. em' \in [Emitters -> [at : Steps, ev : Event]]
  BY <1>3 DEF RunType, Goto
<1>5. \A v \in Emitters : em'[v].ev = em[v].ev
  BY <1>2, <1>3
<1> QED
  BY <1>2, <1>3, <1>4, <1>5 DEF RunType

(* The goroutine of the run emits through its own call, and only when the  *)
(* call before has returned.                                               *)
Starts(n, what) == At("engine", "idle") /\ Emit("engine", n, what)

LEMMA GoroutineKeeps ==
  ASSUME Goroutine
  PROVE  /\ UNCHANGED <<seq, events, decided, released, held, log, execs, verdicts, nats, clients>>
         /\ pc \notin {"dead", "recovered", "done", "unlaunched"} /\ pc' \notin {"dead", "recovered"}
<1> USE DEF Engine, runVars, brokerVars, engineVars, storeVars, relayVars
<1>1. ASSUME NEW n \in Nodes, Pick(n) \/ Skip(n)
      PROVE  /\ UNCHANGED <<seq, events, decided, released, held, log, execs, verdicts, nats, clients>>
             /\ pc \in {"pick", "skip"} /\ pc' \in {"exec", "skip"}
  BY <1>1 DEF Pick, Skip, Walked
<1>2. ASSUME NEW err \in BOOLEAN, Returns(err)
      PROVE  /\ UNCHANGED <<seq, events, decided, released, held, log, execs, verdicts, nats, clients>>
             /\ pc \in {"pick", "skip"} /\ pc' = "ended"
  BY <1>2 DEF Returns, Walked
<1>3. CASE Create \/ LaunchFails \/ Launch \/ AgentEnds \/ AgentRetries \/ GateAsks
  BY <1>3 DEF Create, LaunchFails, Launch, AgentEnds, AgentRetries, GateAsks
<1>4. CASE Wait \/ WaitReturns \/ GateEnds \/ EmitTerminal \/ SaveRow
  BY <1>4 DEF Wait, WaitReturns, GateEnds, EmitTerminal, SaveRow
<1> QED
  BY <1>1, <1>2, <1>3, <1>4 DEF Goroutine

(* FinalStatus is one of the words for the end of a run.                   *)
LEMMA FinalWord == \A err \in BOOLEAN : FinalStatus(err) \in {"failed", "paused", "completed"}
BY DEF FinalStatus

LEMMA GoroutineEmits ==
  ASSUME TypeInv, Goroutine
  PROVE  \/ UNCHANGED em
         \/ \E n \in Nodes \cup {None} : \E what \in NodeWords \cup RunStatuses :
              (n # None => what \in NodeWords) /\ Starts(n, what)
<1> USE DEF Engine, Starts, NodeWords, NodeStatuses, RunStatuses
<1>1. ASSUME NEW n \in Nodes, Pick(n) \/ Skip(n)
      PROVE  Starts(n, "running") \/ Starts(n, "skipped")
  BY <1>1 DEF Pick, Skip, Walked
<1>2. CASE Create \/ LaunchFails \/ Wait \/ WaitReturns \/ SaveRow \/ \E err \in BOOLEAN : Returns(err)
  BY <1>2 DEF Create, LaunchFails, Wait, WaitReturns, SaveRow, Returns
<1>3. CASE Launch
  BY <1>3 DEF Launch
<1>4. CASE AgentEnds \/ AgentRetries
  <2>1. cur \in Nodes
    BY <1>4 DEF AgentEnds, AgentRetries, Nodes
  <2>2. \E what \in {"completed", "failed", "retrying"} : Starts(cur, what)
    BY <1>4 DEF AgentEnds, AgentRetries
  <2> QED
    BY <2>1, <2>2
<1>5. CASE GateAsks \/ GateEnds
  <2>1. cur \in Nodes
    BY <1>5 DEF GateAsks, GateEnds, Nodes, TypeInv, EngineType
  <2>2. \E what \in {"completed", "waiting_approval"} : Starts(cur, what)
    BY <1>5 DEF GateAsks, GateEnds
  <2> QED
    BY <2>1, <2>2
<1>6. CASE EmitTerminal
  BY <1>6 DEF EmitTerminal, TypeInv, RunType
<1> QED
  BY <1>1, <1>2, <1>3, <1>4, <1>5, <1>6 DEF Goroutine

LEMMA EngineInEmitters ==
  /\ "engine" \in Emitters /\ Ids \subseteq Emitters /\ "engine" \notin Ids
  /\ Gates \subseteq Ids /\ Agents \subseteq Ids /\ Nodes \subseteq Ids /\ None \notin Ids
BY RunAssumption DEF Emitters, Ids, Nodes

LEMMA GoroutineTypes ==
  ASSUME TypeInv, Goroutine
  PROVE  EngineType' /\ status' \in RunStatuses /\ waiting' \subseteq Gates /\ waiting \subseteq waiting'
<1> USE DEF Engine, TypeInv, EngineType, Places, NodeStatuses, RunStatuses, runVars, brokerVars,
            engineVars, storeVars, relayVars
<1>0. status \in RunStatuses /\ waiting \subseteq Gates
  BY DEF RunType, BrokerType
<1>1. ASSUME NEW n \in Nodes, Pick(n) \/ Skip(n)
      PROVE  EngineType' /\ UNCHANGED <<status, waiting>>
  BY <1>1 DEF Pick, Skip, Walked
<1>2. ASSUME NEW err \in BOOLEAN, Returns(err)
      PROVE  EngineType' /\ status' \in RunStatuses /\ UNCHANGED waiting
  BY <1>2, FinalWord DEF Returns, Walked
<1>3. CASE Create \/ LaunchFails \/ Launch \/ EmitTerminal \/ SaveRow
  BY <1>0, <1>3 DEF Create, LaunchFails, Launch, EmitTerminal, SaveRow
<1>4. CASE AgentEnds \/ AgentRetries
  BY <1>0, <1>4 DEF AgentEnds, AgentRetries
<1>5. CASE GateAsks
  BY <1>0, <1>5 DEF GateAsks
<1>6. CASE Wait
  BY <1>0, <1>6 DEF Wait
<1>7. CASE WaitReturns \/ GateEnds
  BY <1>0, <1>7 DEF WaitReturns, GateEnds
<1> QED
  BY <1>0, <1>1, <1>2, <1>3, <1>4, <1>5, <1>6, <1>7 DEF Goroutine

LEMMA GoroutineType ==
  ASSUME TypeInv, Goroutine
  PROVE  TypeInv'
<1>1. UNCHANGED <<seq, events, decided, released, held, log, execs, verdicts, nats, clients>>
  BY GoroutineKeeps
<1>2. EngineType' /\ status' \in RunStatuses /\ waiting' \subseteq Gates /\ waiting \subseteq waiting'
  BY GoroutineTypes
<1>3. BrokerType'
  BY <1>1, <1>2 DEF TypeInv, BrokerType
<1>4. RunType'
  <2>1. CASE UNCHANGED em
    BY <1>1, <1>2, <2>1 DEF TypeInv, RunType
  <2>2. ASSUME NEW n \in Nodes \cup {None}, NEW what \in NodeWords \cup RunStatuses,
               n # None => what \in NodeWords, Starts(n, what)
        PROVE  RunType'
    <3>1. /\ em' \in [Emitters -> [at : Steps, ev : Event]] /\ em'["engine"].at = "seq"
          /\ \A v \in Emitters : em'[v].ev.node # None => em'[v].ev.what \in NodeWords
      BY <2>2, EmitEffect, EngineInEmitters DEF TypeInv, Starts
    <3> QED
      BY <1>1, <1>2, <3>1 DEF TypeInv, RunType
  <2> QED
    BY <2>1, <2>2, GoroutineEmits
<1> QED
  BY <1>2, <1>3, <1>4 DEF TypeInv

(* The status an event stands for in the projection.                       *)
LEMMA StatusWord ==
  ASSUME NEW ev, ev.what \in NodeWords
  PROVE  StatusOf(ev) \in NodeStatuses
BY DEF StatusOf, NodeWords, NodeStatuses

LEMMA EmitStepType ==
  ASSUME TypeInv, NEW w \in Emitters, EmitStep(w)
  PROVE  TypeInv'
<1> USE DEF TypeInv, runVars, brokerVars, engineVars, storeVars, relayVars
<1>1. /\ UNCHANGED <<status, decided, waiting, held, released, verdicts, pc, cur, node>>
      /\ em[w] \in [at : Steps, ev : Event] /\ em[w].ev \in Event
  BY DEF EmitStep, TakeSeq, Publish, Project, ToNats, AppendLog, RunType
<1>2. BrokerType' /\ EngineType'
  BY <1>1 DEF BrokerType, EngineType
<1>3. CASE TakeSeq(w)
  <2>1. /\ seq' = seq + 1 /\ UNCHANGED <<events, log, nats, execs>>
        /\ em' = [em EXCEPT ![w].at = "publish", ![w].ev.seq = seq + 1]
    BY <1>3 DEF TakeSeq
  <2>2. em'[w] = [at |-> "publish", ev |-> [em[w].ev EXCEPT !.seq = seq + 1]]
    BY <1>1, <2>1 DEF RunType
  <2>3. em'[w] \in [at : Steps, ev : Event] /\ em'[w].ev.node = em[w].ev.node /\ em'[w].ev.what = em[w].ev.what
    BY <1>1, <2>2 DEF RunType, Event, Steps
  <2>4. \A v \in Emitters : v # w => em'[v] = em[v]
    BY <2>1 DEF RunType
  <2>5. em' \in [Emitters -> [at : Steps, ev : Event]]
    BY <2>1, <2>3 DEF RunType
  <2>6. em'["engine"].at \notin {"verdict", "release"}
    BY <2>2, <2>4, EngineInEmitters DEF RunType
  <2>7. \A v \in Emitters : em'[v].ev.node # None => em'[v].ev.what \in NodeWords
    BY <2>3, <2>4 DEF RunType
  <2>8. seq' \in Nat
    BY <2>1 DEF RunType
  <2> QED
    BY <1>1, <1>2, <2>1, <2>5, <2>6, <2>7, <2>8 DEF RunType
<1>4. ASSUME NEW step \in Steps \ {"verdict", "release"}, Goto(w, step),
             UNCHANGED seq, events' \in Seq(Event), log' \in Seq(Event), nats' \in Seq(Event),
             execs' \in [Ids -> NodeStatuses \cup {None}]
      PROVE  TypeInv'
  <2>1. /\ em' \in [Emitters -> [at : Steps, ev : Event]] /\ em'[w].at = step
        /\ \A v \in Emitters : v # w => em'[v] = em[v]
        /\ \A v \in Emitters : em'[v].ev.node # None => em'[v].ev.what \in NodeWords
    BY <1>4, GotoEffect
  <2>2. em'["engine"].at \notin {"verdict", "release"}
    BY <1>4, <2>1, EngineInEmitters DEF RunType
  <2> QED
    BY <1>1, <1>2, <1>4, <2>1, <2>2 DEF RunType
<1>5. CASE Publish(w)
  <2>1. events' \in Seq(Event)
    BY <1>1, <1>5, Grown DEF Publish, Deliver, RunType
  <2> QED
    BY <1>4, <1>5, <2>1 DEF Publish, RunType, Steps
<1>6. CASE Project(w)
  <2>1. execs' \in [Ids -> NodeStatuses \cup {None}]
    <3>1. CASE em[w].ev.node = None
      BY <1>6, <3>1 DEF Project, RunType
    <3>2. CASE em[w].ev.node # None
      <4>1. StatusOf(em[w].ev) \in NodeStatuses
        BY <3>2, StatusWord DEF RunType
      <4> QED
        BY <1>6, <3>2, <4>1 DEF Project, RunType
    <3> QED
      BY <3>1, <3>2
  <2> QED
    BY <1>4, <1>6, <2>1 DEF Project, RunType, Steps
<1>7. CASE ToNats(w)
  <2>1. nats' \in Seq(Event)
    BY <1>1, <1>7, Grown DEF ToNats, RunType
  <2> QED
    BY <1>4, <1>7, <2>1 DEF ToNats, RunType, Steps
<1>8. CASE AppendLog(w)
  <2>1. log' \in Seq(Event) /\ UNCHANGED <<seq, events, nats, execs>>
    BY <1>1, <1>8, Grown DEF AppendLog, RunType
  <2>2. CASE w = "engine"
    BY <1>4, <1>8, <2>1, <2>2 DEF AppendLog, RunType, Steps
  <2>3. CASE w # "engine"
    <3>1. Goto(w, "verdict") /\ "verdict" \in Steps
      BY <1>8, <2>3 DEF AppendLog, Steps
    <3>2. /\ em' \in [Emitters -> [at : Steps, ev : Event]]
          /\ \A v \in Emitters : v # w => em'[v] = em[v]
          /\ \A v \in Emitters : em'[v].ev.node # None => em'[v].ev.what \in NodeWords
      BY <3>1, GotoEffect
    <3> QED
      BY <1>1, <1>2, <2>1, <2>3, <3>2, EngineInEmitters DEF RunType
  <2> QED
    BY <2>2, <2>3
<1> QED
  BY <1>3, <1>5, <1>6, <1>7, <1>8 DEF EmitStep

(* The steps that touch neither the emit calls nor the engine's state.     *)
LEMMA ReaderType ==
  ASSUME TypeInv,
         \/ Echo \/ RelayEvents \/ Recover \/ Idle
         \/ \E c \in Clients : Subscribe(c) \/ Read(c)
  PROVE  TypeInv'
<1> USE DEF TypeInv, runVars, brokerVars, engineVars, storeVars, relayVars
<1>1. /\ UNCHANGED <<seq, status, decided, waiting, held, released, verdicts, cur, node, em, log, execs>>
      /\ pc' \in Places /\ (pc' = pc \/ pc' = "recovered")
  BY DEF Echo, RelayEvents, Recover, Idle, Subscribe, SubscribeWith, Read, vars, EngineType, Places
<1>2. BrokerType' /\ EngineType'
  BY <1>1 DEF BrokerType, EngineType
<1>3. events' \in Seq(Event) /\ nats' \in Seq(Event)
  <2>1. CASE Echo
    <3>1. Head(nats) \in Event /\ Tail(nats) \in Seq(Event)
      BY <2>1, Shrunk DEF Echo, RunType
    <3>2. events \in Seq(Event) /\ Append(events, Head(nats)) \in Seq(Event)
      BY <3>1, Grown DEF RunType
    <3>3. events' = events \/ events' = Append(events, Head(nats))
      BY <2>1 DEF Echo, Deliver
    <3> QED
      BY <2>1, <3>1, <3>2, <3>3 DEF Echo
  <2>2. CASE ~Echo
    BY <2>2 DEF RelayEvents, Recover, Idle, Subscribe, SubscribeWith, Read, vars, RunType
  <2> QED
    BY <2>1, <2>2
<1> QED
  BY <1>1, <1>2, <1>3 DEF RunType

LEMMA ResolveKeeps ==
  ASSUME TypeInv, NEW g \in Ids, NEW d \in {"approved", "rejected"}, Resolve(g, d)
  PROVE  /\ TypeInv'
         /\ UNCHANGED <<runVars, waiting, released, engineVars, storeVars, nats, clients>>
         /\ decided[g] = None /\ decided'[g] = d
         /\ \A h \in Ids : h # g => decided'[h] = decided[h]
         /\ em'[g].at = "seq" /\ em'[g].ev.node = g /\ em'[g].ev.what = d
         /\ \A w \in Emitters : w # g => em'[w] = em[w]
<1> USE DEF TypeInv, runVars, brokerVars, engineVars, storeVars, relayVars
<1>1. g \in Ids \cup {None} /\ g # None /\ d \in NodeWords /\ g \in Emitters /\ g # "engine"
  BY EngineInEmitters DEF NodeWords
<1>2. /\ em' \in [Emitters -> [at : Steps, ev : Event]]
      /\ em'[g].at = "seq" /\ em'[g].ev.node = g /\ em'[g].ev.what = d
      /\ \A v \in Emitters : v # g => em'[v] = em[v]
      /\ \A v \in Emitters : em'[v].ev.node # None => em'[v].ev.what \in NodeWords
  BY <1>1, EmitEffect DEF Resolve
<1>3. /\ decided[g] = None /\ decided' = [decided EXCEPT ![g] = d]
      /\ UNCHANGED <<runVars, waiting, released, engineVars, storeVars, nats, clients>>
      /\ held' = IF g \in waiting THEN held \cup {g} ELSE held
  BY DEF Resolve, Undecided
<1>4. BrokerType'
  BY <1>3 DEF BrokerType
<1>5. EngineType'
  BY <1>3 DEF EngineType
<1>6. RunType'
  BY <1>1, <1>2, <1>3, EngineInEmitters DEF RunType
<1> QED
  BY <1>2, <1>3, <1>4, <1>5, <1>6 DEF BrokerType

LEMMA GateKeeps ==
  ASSUME TypeInv, NEW g \in Ids, RecordReview(g) \/ Release(g)
  PROVE  /\ TypeInv'
         /\ UNCHANGED <<runVars, decided, waiting, held, engineVars, row, log, execs, nats, clients>>
         /\ em[g].at \in {"verdict", "release"} /\ em'[g].at \in {"release", "idle"}
         /\ em'[g].ev = em[g].ev
         /\ \A w \in Emitters : w # g => em'[w] = em[w]
<1> USE DEF TypeInv, runVars, brokerVars, engineVars, storeVars, relayVars
<1>1. /\ UNCHANGED <<runVars, decided, waiting, held, engineVars, row, log, execs, nats, clients>>
      /\ g \in Emitters /\ g # "engine" /\ em[g].at \in {"verdict", "release"}
      /\ verdicts' \subseteq verdicts \cup {g} /\ released' \subseteq held /\ released \subseteq released'
  BY EngineInEmitters DEF RecordReview, Release, At, BrokerType
<1>2. PICK step \in {"release", "idle"} : Goto(g, step)
  BY DEF RecordReview, Release
<1>3. step \in Steps
  BY <1>2 DEF Steps
<1>4. /\ em' \in [Emitters -> [at : Steps, ev : Event]]
      /\ em'[g].at = step /\ em'[g].ev = em[g].ev
      /\ \A v \in Emitters : v # g => em'[v] = em[v]
      /\ \A v \in Emitters : em'[v].ev.node # None => em'[v].ev.what \in NodeWords
  BY <1>1, <1>2, <1>3, GotoEffect
<1>5. BrokerType'
  BY <1>1 DEF BrokerType
<1>6. EngineType'
  BY <1>1 DEF EngineType
<1>7. RunType'
  BY <1>1, <1>4, EngineInEmitters DEF RunType
<1> QED
  BY <1>1, <1>2, <1>4, <1>5, <1>6, <1>7

LEMMA CrashType ==
  ASSUME TypeInv, Crash
  PROVE  TypeInv' /\ \A w \in Emitters : em'[w].at = "idle"
<1> USE DEF TypeInv, runVars, brokerVars, engineVars, storeVars, relayVars
<1>1. /\ em' = [w \in Emitters |-> [at |-> "idle", ev |-> NoEvent]] /\ nats' = <<>> /\ pc' = "dead"
      /\ UNCHANGED <<seq, events, status, log, execs, decided, waiting, held, released, verdicts, cur, node>>
  BY DEF Crash
<1>2. NoEvent \in Event /\ NoEvent.node = None
  BY DEF NoEvent, Event, NodeStatuses, RunStatuses
<1>3. RunType'
  BY <1>1, <1>2, EngineInEmitters DEF RunType, Steps
<1> QED
  BY <1>1, <1>3 DEF BrokerType, EngineType, Places

LEMMA TypeStep == TypeInv /\ [Next]_vars => TypeInv'
<1> SUFFICES ASSUME TypeInv, [Next]_vars PROVE TypeInv'
  OBVIOUS
<1>1. CASE UNCHANGED vars
  BY <1>1
  DEF vars, runVars, brokerVars, engineVars, storeVars, TypeInv, RunType, BrokerType, EngineType
<1> QED
  BY <1>1, GoroutineType, EmitStepType, ReaderType, ResolveKeeps, GateKeeps, CrashType DEF Next

LEMMA TypeAlways == Spec => []TypeInv
BY TypeInit, TypeStep, PTL DEF Spec

-----------------------------------------------------------------------------
(***************************************************************************)
(* The numbers.  Between TakeSeq and AppendLog an event is in the hand of  *)
(* its emitter: a number is in the log or in one hand, never in both; what *)
(* NATS has is in the history, so that no echo is recorded.                *)
(***************************************************************************)
InHand == {"publish", "project", "nats", "append"}

Counted ==
  /\ \A ev \in Elems(events) : ev.seq \in 1 .. seq
  /\ \A ev \in Elems(log) : ev.seq \in 1 .. seq
  /\ \A w \in Emitters : em[w].at \in InHand => em[w].ev.seq \in 1 .. seq
OwnNumber ==
  \A w, v \in Emitters : em[w].at \in InHand /\ em[v].at \in InHand /\ em[w].ev.seq = em[v].ev.seq => w = v
Recorded ==
  /\ \A w \in Emitters :
       /\ em[w].at = "publish" => em[w].ev.seq \notin Seqs(events)
       /\ em[w].at \in InHand \ {"publish"} => em[w].ev \in Elems(events)
  /\ Elems(nats) \subseteq Elems(events)
Unlogged == \A w \in Emitters : em[w].at \in InHand => em[w].ev.seq \notin Seqs(log)
Kept ==
  Alive => \A k \in 1 .. seq :
    k \in Seqs(log) \/ \E w \in Emitters : em[w].at \in InHand /\ em[w].ev.seq = k

NumberInv == Counted /\ OwnNumber /\ EventOnce /\ Recorded /\ Unlogged /\ Kept

LEMMA NumberImplied == NumberInv => LogExact
<1> SUFFICES ASSUME NumberInv PROVE LogExact
  OBVIOUS
<1>1. Quiet /\ Alive => 1 .. seq \subseteq Seqs(log)
  BY DEF NumberInv, Kept, Quiet, At, InHand
<1>2. Seqs(log) \subseteq 1 .. seq
  BY SeqsElems DEF NumberInv, Counted
<1> QED
  BY <1>1, <1>2 DEF NumberInv, LogExact, LogComplete

LEMMA NumberInit == Init => NumberInv
<1> SUFFICES ASSUME Init PROVE NumberInv
  OBVIOUS
<1>1. Elems(events) = {} /\ Elems(log) = {} /\ Elems(nats) = {} /\ Seqs(events) = {}
  BY DEF Init, Elems, Seqs
<1>2. \A w \in Emitters : em[w].at \notin InHand
  BY DEF Init, InHand
<1>3. 1 .. seq = {}
  BY DEF Init
<1>4. EventOnce
  BY DEF Init, EventOnce
<1> QED
  BY <1>1, <1>2, <1>3, <1>4
  DEF NumberInv, Counted, OwnNumber, Recorded, Unlogged, Kept, InHand

(* What nobody holds does not matter.                                      *)
LEMMA NumberKept ==
  ASSUME NumberInv, UNCHANGED <<seq, events, log>>, Elems(nats') \subseteq Elems(nats), Alive' => Alive,
         \A w \in Emitters : em'[w] = em[w]
                             \/ (em'[w].at \notin InHand /\ (Alive' => em[w].at \notin InHand))
  PROVE  NumberInv'
<1>1. Elems(events)' = Elems(events) /\ Elems(log)' = Elems(log) /\ Elems(nats)' = Elems(nats')
      /\ Seqs(events)' = Seqs(events) /\ Seqs(log)' = Seqs(log)
  BY DEF Elems, Seqs
<1>2. \A w \in Emitters : em'[w].at \in InHand => em'[w] = em[w]
  OBVIOUS
<1>3. Counted' /\ OwnNumber' /\ Unlogged'
  BY <1>1, <1>2 DEF NumberInv, Counted, OwnNumber, Unlogged
<1>4. EventOnce'
  BY DEF NumberInv, EventOnce
<1>5. Recorded'
  BY <1>1, <1>2 DEF NumberInv, Recorded, InHand
<1>6. Kept'
  BY <1>1 DEF NumberInv, Kept
<1> QED
  BY <1>3, <1>4, <1>5, <1>6 DEF NumberInv

(* Recording an event whose number the history does not have.              *)
LEMMA RecordOnce ==
  ASSUME events \in Seq(Event), NEW ev \in Event, EventOnce, ev.seq \notin Seqs(events),
         events' = Append(events, ev)
  PROVE  EventOnce' /\ Elems(events)' = Elems(events) \cup {ev}
<1>1. /\ DOMAIN events = 1 .. Len(events) /\ Len(events) \in Nat
      /\ DOMAIN events' = 1 .. Len(events) + 1
      /\ \A i \in 1 .. Len(events) : events'[i] = events[i]
      /\ events'[Len(events) + 1] = ev
  BY Grown
<1>2. \A i \in DOMAIN events' : i \in DOMAIN events \/ i = Len(events) + 1
  BY <1>1
<1>3. \A i \in DOMAIN events : events'[i].seq # ev.seq /\ events'[i] = events[i]
  BY <1>1 DEF Seqs
<1>4. EventOnce'
  BY <1>1, <1>2, <1>3 DEF EventOnce
<1>5. Elems(events') = Elems(events) \cup {ev}
  BY GrownElems
<1> QED
  BY <1>4, <1>5 DEF Elems

LEMMA NumberEmit ==
  ASSUME TypeInv, NumberInv, NEW w \in Emitters, EmitStep(w)
  PROVE  NumberInv'
<1> USE DEF runVars, brokerVars, engineVars, storeVars, relayVars
<1>1. /\ RunType /\ em[w] \in [at : Steps, ev : Event] /\ em[w].ev \in Event /\ seq \in Nat
      /\ events \in Seq(Event) /\ log \in Seq(Event) /\ nats \in Seq(Event)
  BY DEF TypeInv, RunType
<1>2. /\ Counted /\ OwnNumber /\ EventOnce /\ Recorded /\ Unlogged /\ Kept
      /\ Elems(nats) \subseteq Elems(events)
  BY DEF NumberInv, Recorded
<1>3. CASE TakeSeq(w)
  <2>1. /\ em[w].at = "seq" /\ seq' = seq + 1 /\ UNCHANGED <<events, log, nats, pc>>
        /\ em' = [em EXCEPT ![w].at = "publish", ![w].ev.seq = seq + 1]
    BY <1>3 DEF TakeSeq, At
  <2>2. em'[w] = [at |-> "publish", ev |-> [em[w].ev EXCEPT !.seq = seq + 1]]
    BY <1>1, <2>1 DEF RunType
  <2>3. em'[w].at = "publish" /\ em'[w].ev.seq = seq + 1
    BY <1>1, <2>2 DEF Event
  <2>4. \A v \in Emitters : v # w => em'[v] = em[v]
    BY <1>1, <2>1 DEF RunType
  <2>5. /\ Elems(events)' = Elems(events) /\ Elems(log)' = Elems(log) /\ Elems(nats)' = Elems(nats)
        /\ Seqs(events)' = Seqs(events) /\ Seqs(log)' = Seqs(log)
    BY <2>1 DEF Elems, Seqs
  <2>6. seq + 1 \notin Seqs(events) /\ seq + 1 \notin Seqs(log)
    BY <1>1, <1>2, SeqsElems DEF Counted
  <2>7. Counted'
    <3>1. 1 .. seq \subseteq 1 .. seq' /\ seq + 1 \in 1 .. seq'
      BY <1>1, <2>1
    <3> QED
      BY <1>2, <2>3, <2>4, <2>5, <3>1 DEF Counted
  <2>8. OwnNumber'
    <3>1. \A v \in Emitters : v # w /\ em'[v].at \in InHand => em'[v].ev.seq # seq + 1
      BY <1>1, <1>2, <2>4 DEF Counted
    <3> QED
      BY <1>2, <2>3, <2>4, <3>1 DEF OwnNumber
  <2>9. Recorded'
    BY <1>2, <2>3, <2>4, <2>5, <2>6 DEF Recorded, InHand
  <2>10. Unlogged'
    BY <1>2, <2>3, <2>4, <2>5, <2>6 DEF Unlogged
  <2>11. Kept'
    <3> SUFFICES ASSUME Alive', NEW k \in 1 .. seq'
                 PROVE  k \in Seqs(log)' \/ \E v \in Emitters : em'[v].at \in InHand /\ em'[v].ev.seq = k
      BY DEF Kept
    <3>1. Alive
      BY <2>1 DEF Alive
    <3>2. CASE k = seq + 1
      BY <2>3, <3>2 DEF InHand
    <3>3. CASE k \in 1 .. seq
      BY <1>2, <2>1, <2>4, <2>5, <3>1, <3>3 DEF Kept, InHand
    <3>4. seq \in Nat /\ seq' = seq + 1 /\ k \in 1 .. seq'
      BY <1>1, <2>1
    <3>5. k = seq + 1 \/ k \in 1 .. seq
      BY <3>4
    <3> QED
      BY <3>2, <3>3, <3>5
  <2>12. EventOnce'
    BY <1>2, <2>1 DEF EventOnce
  <2> QED
    BY <2>7, <2>8, <2>9, <2>10, <2>11, <2>12 DEF NumberInv
<1>4. ASSUME em[w].at \in InHand, NEW step \in InHand \ {"publish"}, Goto(w, step),
             UNCHANGED <<seq, log, pc>>,
             EventOnce', em[w].ev \in Elems(events)', Elems(events) \subseteq Elems(events)',
             Elems(events)' \subseteq Elems(events) \cup {em[w].ev},
             Elems(nats)' \subseteq Elems(events)'
      PROVE  NumberInv'
  <2>1. step \in Steps
    BY <1>4 DEF InHand, Steps
  <2>2. /\ em'[w].at = step /\ em'[w].ev = em[w].ev
        /\ \A v \in Emitters : v # w => em'[v] = em[v]
    BY <1>1, <1>4, <2>1, GotoEffect
  <2>3. \A v \in Emitters : /\ em'[v].ev = em[v].ev /\ (em'[v].at \in InHand <=> em[v].at \in InHand)
                            /\ em'[v].at = "publish" => v # w /\ em[v].at = "publish"
    BY <1>4, <2>2
  <2>4. Elems(log)' = Elems(log) /\ Seqs(log)' = Seqs(log)
    BY <1>4 DEF Elems, Seqs
  <2>5. Counted'
    BY <1>2, <1>4, <2>3, <2>4 DEF Counted
  <2>6. OwnNumber' /\ Unlogged'
    BY <1>2, <2>3, <2>4 DEF OwnNumber, Unlogged
  <2>7. Kept'
    BY <1>2, <1>4, <2>3, <2>4 DEF Kept, Alive
  <2>8. Recorded'
    <3>1. ASSUME NEW v \in Emitters, em'[v].at = "publish"
          PROVE  em'[v].ev.seq \notin Seqs(events)'
      <4>1. v # w /\ em[v].at = "publish" /\ em'[v].ev = em[v].ev
        BY <2>3, <3>1
      <4>2. em[v].ev.seq # em[w].ev.seq /\ em[v].ev.seq \notin Seqs(events)
        BY <1>2, <1>4, <4>1 DEF OwnNumber, Recorded, InHand
      <4>3. Seqs(events) = {ev.seq : ev \in Elems(events)} /\ Seqs(events)' = {ev.seq : ev \in Elems(events)'}
        BY SeqsElems DEF Seqs, Elems
      <4> QED
        BY <1>4, <4>1, <4>2, <4>3
    <3>2. ASSUME NEW v \in Emitters, em'[v].at \in InHand \ {"publish"}
          PROVE  em'[v].ev \in Elems(events)'
      BY <1>2, <1>4, <2>2, <3>2 DEF Recorded
    <3> QED
      BY <1>4, <3>1, <3>2 DEF Recorded
  <2> QED
    BY <1>4, <2>5, <2>6, <2>7, <2>8 DEF NumberInv
<1>5. CASE Publish(w)
  <2>1. /\ em[w].at = "publish" /\ events' = Append(events, em[w].ev) /\ Goto(w, "project")
        /\ UNCHANGED <<seq, log, nats, pc>>
    BY <1>5 DEF Publish, Deliver, At
  <2>2. em[w].ev.seq \notin Seqs(events)
    BY <1>2, <2>1 DEF Recorded
  <2>3. EventOnce' /\ Elems(events)' = Elems(events) \cup {em[w].ev}
    BY <1>1, <1>2, <2>1, <2>2, RecordOnce
  <2>4. Elems(nats)' = Elems(nats)
    BY <2>1 DEF Elems
  <2> QED
    BY <1>2, <1>4, <2>1, <2>3, <2>4 DEF InHand
<1>6. CASE Project(w) \/ ToNats(w)
  <2>1. /\ em[w].at \in {"project", "nats"} /\ UNCHANGED <<seq, log, events, pc>>
        /\ nats' = nats \/ nats' = Append(nats, em[w].ev)
        /\ Goto(w, "nats") \/ Goto(w, "append")
    BY <1>6 DEF Project, ToNats, At
  <2>2. em[w].ev \in Elems(events) /\ Elems(events)' = Elems(events)
    BY <1>2, <2>1 DEF Recorded, InHand, Elems
  <2>3. Elems(nats') \subseteq Elems(nats) \cup {em[w].ev}
    <3>1. Elems(Append(nats, em[w].ev)) = Elems(nats) \cup {em[w].ev}
      BY <1>1, GrownElems
    <3>2. CASE nats' = nats
      BY <3>2
    <3>3. CASE nats' = Append(nats, em[w].ev)
      BY <3>1, <3>3
    <3> QED
      BY <2>1, <3>2, <3>3
  <2>4. Elems(nats)' \subseteq Elems(events)'
    BY <1>2, <2>2, <2>3 DEF Elems
  <2>5. EventOnce'
    BY <1>2, <2>1 DEF EventOnce
  <2> QED
    BY <1>4, <2>1, <2>2, <2>4, <2>5 DEF InHand
<1>7. CASE AppendLog(w)
  <2>1. /\ em[w].at = "append" /\ UNCHANGED <<seq, events, nats, pc>>
        /\ log' = IF \E i \in DOMAIN log : KeyOf(log[i]) = KeyOf(em[w].ev)
                   THEN log ELSE Append(log, em[w].ev)
    BY <1>7 DEF AppendLog, At
  <2>2. PICK step \in {"idle", "verdict"} : Goto(w, step)
    BY <1>7 DEF AppendLog
  <2>3. step \in Steps /\ step \notin InHand
    BY DEF Steps, InHand
  <2>4. /\ em'[w].at = step /\ \A v \in Emitters : v # w => em'[v] = em[v]
    BY <1>1, <2>2, <2>3, GotoEffect
  <2>5. em[w].at \in InHand /\ em[w].ev.seq \notin Seqs(log)
    BY <1>2, <2>1 DEF Unlogged, InHand
  <2>6. log' = Append(log, em[w].ev)
    BY <2>1, <2>5 DEF KeyOf, Seqs
  <2>7. Elems(log') = Elems(log) \cup {em[w].ev}
    BY <1>1, <2>6, GrownElems
  <2>8. Seqs(log') = Seqs(log) \cup {em[w].ev.seq}
    BY <2>7, SeqsElems
  <2>9. /\ Elems(log)' = Elems(log) \cup {em[w].ev} /\ Seqs(log)' = Seqs(log) \cup {em[w].ev.seq}
        /\ Elems(events)' = Elems(events) /\ Elems(nats)' = Elems(nats) /\ Seqs(events)' = Seqs(events)
    <3>1. Elems(log)' = Elems(log) \cup {em[w].ev}
      BY <2>7 DEF Elems
    <3>2. Seqs(log)' = Seqs(log) \cup {em[w].ev.seq}
      BY <2>8 DEF Seqs
    <3>3. Elems(events)' = Elems(events) /\ Elems(nats)' = Elems(nats)
      BY <2>1 DEF Elems
    <3>4. Seqs(events)' = Seqs(events)
      BY <2>1 DEF Seqs
    <3> QED
      BY <3>1, <3>2, <3>3, <3>4
  <2>10. \A v \in Emitters : em'[v].at \in InHand => v # w /\ em'[v] = em[v]
    BY <2>3, <2>4
  <2>11. Counted'
    BY <1>2, <2>1, <2>5, <2>9, <2>10 DEF Counted
  <2>12. OwnNumber'
    BY <1>2, <2>10 DEF OwnNumber
  <2>13. Unlogged'
    BY <1>2, <2>5, <2>9, <2>10 DEF Unlogged, OwnNumber
  <2>14. Kept'
    BY <1>2, <2>1, <2>4, <2>9 DEF Kept, Alive
  <2>15. Recorded'
    BY <1>2, <2>9, <2>10 DEF Recorded, InHand
  <2>16. EventOnce'
    BY <1>2, <2>1 DEF EventOnce
  <2> QED
    BY <2>11, <2>12, <2>13, <2>14, <2>15, <2>16 DEF NumberInv
<1> QED
  BY <1>3, <1>5, <1>6, <1>7 DEF EmitStep

(* Every echo is of an event the run has.                                  *)
LEMMA EchoIgnored ==
  ASSUME TypeInv, NumberInv, Echo
  PROVE  UNCHANGED <<events, clients>> /\ Elems(nats') \subseteq Elems(nats)
<1>1. nats \in Seq(Event) /\ nats # <<>> /\ nats' = Tail(nats)
  BY DEF TypeInv, RunType, Echo
<1>2. Head(nats) \in Elems(events) /\ Elems(Tail(nats)) \subseteq Elems(nats)
  BY <1>1, Shrunk DEF NumberInv, Recorded
<1>3. Head(nats).seq \in Seqs(events)
  BY <1>2, SeqsElems
<1> QED
  BY <1>1, <1>2, <1>3 DEF Echo

(* A gate's Resolve runs once: its emit call is idle while the gate is     *)
(* undecided.                                                              *)
AskedOnce == \A g \in Ids : em[g].at # "idle" => decided[g] # None

LEMMA NumberStep == TypeInv /\ AskedOnce /\ NumberInv /\ [Next]_vars => NumberInv'
<1> SUFFICES ASSUME TypeInv, AskedOnce, NumberInv, [Next]_vars PROVE NumberInv'
  OBVIOUS
<1> USE DEF runVars, brokerVars, engineVars, storeVars, relayVars
<1>1. CASE UNCHANGED vars
  BY <1>1, NumberKept DEF vars, Alive
<1>2. CASE Goroutine
  <2>1. UNCHANGED <<seq, events, log, nats>> /\ Alive
    BY <1>2, GoroutineKeeps DEF Alive
  <2>2. \A w \in Emitters : em'[w] = em[w] \/ (em'[w].at \notin InHand /\ em[w].at \notin InHand)
    <3>1. ASSUME NEW n \in Nodes \cup {None}, NEW what \in NodeWords \cup RunStatuses,
                 n # None => what \in NodeWords, Starts(n, what)
          PROVE  \A w \in Emitters : em'[w] = em[w] \/ (em'[w].at \notin InHand /\ em[w].at \notin InHand)
      <4>1. /\ em["engine"].at = "idle" /\ em'["engine"].at = "seq"
            /\ \A w \in Emitters : w # "engine" => em'[w] = em[w]
        BY <3>1, EmitEffect, EngineInEmitters DEF Starts, At, TypeInv
      <4> QED
        BY <4>1 DEF InHand
    <3> QED
      BY <1>2, <3>1, GoroutineEmits
  <2>3. Elems(nats') \subseteq Elems(nats)
    BY <2>1 DEF Elems
  <2> QED
    BY <2>1, <2>2, <2>3, NumberKept
<1>3. ASSUME NEW w \in Emitters, EmitStep(w)
      PROVE  NumberInv'
  BY <1>3, NumberEmit
<1>4. CASE Echo
  <2>1. UNCHANGED <<seq, events, log, em, pc>> /\ Elems(nats') \subseteq Elems(nats)
    BY <1>4, EchoIgnored DEF Echo
  <2> QED
    BY <2>1, NumberKept DEF Alive
<1>5. ASSUME NEW g \in Ids, NEW d \in {"approved", "rejected"}, Alive, Resolve(g, d)
      PROVE  NumberInv'
  <2>0. em[g].at = "idle"
    BY <1>5 DEF AskedOnce, Resolve, Undecided
  <2>1. /\ UNCHANGED <<seq, events, log, nats, pc>> /\ em'[g].at = "seq"
        /\ \A w \in Emitters : w # g => em'[w] = em[w]
    BY <1>5, ResolveKeeps
  <2>2. Elems(nats') \subseteq Elems(nats) /\ g \in Emitters
    BY <2>1, EngineInEmitters DEF Elems
  <2> QED
    BY <2>0, <2>1, <2>2, NumberKept DEF InHand, Alive
<1>6. ASSUME NEW g \in Ids, RecordReview(g) \/ Release(g)
      PROVE  NumberInv'
  <2>1. /\ UNCHANGED <<seq, events, log, nats, pc>>
        /\ em[g].at \notin InHand /\ em'[g].at \notin InHand
        /\ \A w \in Emitters : w # g => em'[w] = em[w]
    BY <1>6, GateKeeps DEF InHand
  <2>2. Elems(nats') \subseteq Elems(nats)
    BY <2>1 DEF Elems
  <2> QED
    BY <2>1, <2>2, NumberKept DEF Alive
<1>7. CASE RelayEvents \/ Recover \/ Idle \/ \E c \in Clients : Subscribe(c) \/ Read(c)
  <2>1. UNCHANGED <<seq, events, log, nats, em>> /\ (Alive' => Alive)
    BY <1>7 DEF RelayEvents, Recover, Idle, Subscribe, SubscribeWith, Read, vars, Alive
  <2>2. Elems(nats') \subseteq Elems(nats)
    BY <2>1 DEF Elems
  <2> QED
    BY <2>1, <2>2, NumberKept
<1>8. CASE Crash
  <2>1. /\ UNCHANGED <<seq, events, log>> /\ nats' = <<>> /\ ~Alive' /\ Alive
    BY <1>8 DEF Crash, Alive
  <2>2. \A w \in Emitters : em'[w].at \notin InHand
    BY <1>8, CrashType DEF InHand
  <2>3. Elems(nats') \subseteq Elems(nats)
    BY <2>1 DEF Elems
  <2> QED
    BY <2>1, <2>2, <2>3, NumberKept
<1> QED
  BY <1>1, <1>2, <1>3, <1>4, <1>5, <1>6, <1>7, <1>8 DEF Next

(* What a step of an emit call does to the history, the log and the call.  *)
LEMMA EmitMoves ==
  ASSUME TypeInv, NumberInv, NEW w \in Emitters, EmitStep(w)
  PROVE  /\ UNCHANGED <<status, brokerVars, engineVars, row, verdicts>>
         /\ em'[w].ev.node = em[w].ev.node /\ em'[w].ev.what = em[w].ev.what
         /\ \A v \in Emitters : v # w => em'[v] = em[v]
         /\ \/ em[w].at = "seq" /\ em'[w].at = "publish" /\ UNCHANGED <<events, log, clients>>
            \/ em[w].at = "publish" /\ em'[w].at = "project" /\ Deliver(em[w].ev) /\ UNCHANGED log
            \/ em[w].at \in {"project", "nats"} /\ em'[w].at \in {"nats", "append"} /\ UNCHANGED <<events, log, clients>>
            \/ /\ em[w].at = "append" /\ em'[w].at = (IF w = "engine" THEN "idle" ELSE "verdict")
               /\ log' = Append(log, em[w].ev) /\ em[w].ev \in Elems(events) /\ UNCHANGED <<events, clients>>
<1> USE DEF runVars, brokerVars, engineVars, storeVars, relayVars
<1>1. RunType /\ em[w] \in [at : Steps, ev : Event] /\ em[w].ev \in Event
  BY DEF TypeInv, RunType
<1>2. UNCHANGED <<status, brokerVars, engineVars, row, verdicts>>
  BY DEF EmitStep, TakeSeq, Publish, Project, ToNats, AppendLog
<1>3. CASE TakeSeq(w)
  <2>1. /\ em[w].at = "seq" /\ UNCHANGED <<events, log, clients>>
        /\ em' = [em EXCEPT ![w].at = "publish", ![w].ev.seq = seq + 1]
    BY <1>3 DEF TakeSeq, At
  <2>2. em'[w] = [at |-> "publish", ev |-> [em[w].ev EXCEPT !.seq = seq + 1]]
    BY <1>1, <2>1 DEF RunType
  <2>3. em'[w].at = "publish" /\ em'[w].ev.node = em[w].ev.node /\ em'[w].ev.what = em[w].ev.what
    BY <1>1, <2>2 DEF Event
  <2>4. \A v \in Emitters : v # w => em'[v] = em[v]
    BY <1>1, <2>1 DEF RunType
  <2> QED
    BY <1>2, <2>1, <2>3, <2>4
<1>4. CASE Publish(w)
  <2>1. em[w].at = "publish" /\ Deliver(em[w].ev) /\ Goto(w, "project") /\ UNCHANGED log
    BY <1>4 DEF Publish, At
  <2>2. em'[w].at = "project" /\ em'[w].ev = em[w].ev /\ \A v \in Emitters : v # w => em'[v] = em[v]
    BY <1>1, <2>1, GotoEffect DEF Steps
  <2> QED
    BY <1>2, <2>1, <2>2
<1>5. CASE Project(w) \/ ToNats(w)
  <2>1. /\ em[w].at \in {"project", "nats"} /\ UNCHANGED <<events, log, clients>>
        /\ \E step \in {"nats", "append"} : Goto(w, step)
    BY <1>5 DEF Project, ToNats, At
  <2>2. /\ em'[w].at \in {"nats", "append"} /\ em'[w].ev = em[w].ev
        /\ \A v \in Emitters : v # w => em'[v] = em[v]
    BY <1>1, <2>1, GotoEffect DEF Steps
  <2> QED
    BY <1>2, <2>1, <2>2
<1>6. CASE AppendLog(w)
  <2>1. /\ em[w].at = "append" /\ UNCHANGED <<events, clients>>
        /\ log' = IF \E i \in DOMAIN log : KeyOf(log[i]) = KeyOf(em[w].ev)
                   THEN log ELSE Append(log, em[w].ev)
    BY <1>6 DEF AppendLog, At
  <2>2. em[w].ev.seq \notin Seqs(log) /\ em[w].ev \in Elems(events)
    BY <2>1 DEF NumberInv, Unlogged, Recorded, InHand
  <2>3. log' = Append(log, em[w].ev)
    BY <2>1, <2>2 DEF KeyOf, Seqs
  <2>4. Goto(w, IF w = "engine" THEN "idle" ELSE "verdict")
    BY <1>6 DEF AppendLog
  <2>5. /\ em'[w].at = (IF w = "engine" THEN "idle" ELSE "verdict") /\ em'[w].ev = em[w].ev
        /\ \A v \in Emitters : v # w => em'[v] = em[v]
    BY <1>1, <2>4, GotoEffect DEF Steps
  <2> QED
    BY <1>2, <2>1, <2>2, <2>3, <2>5
<1> QED
  BY <1>3, <1>4, <1>5, <1>6 DEF EmitStep

(* Nothing is taken out of the history or the log.                         *)
LEMMA EmitGrows ==
  ASSUME TypeInv, NumberInv, NEW w \in Emitters, EmitStep(w)
  PROVE  /\ Elems(events) \subseteq Elems(events)' /\ Elems(events)' \subseteq Elems(events) \cup {em[w].ev}
         /\ Elems(log) \subseteq Elems(log)' /\ Seqs(log) \subseteq Seqs(log)'
         /\ em[w].at = "append" => em[w].ev \in Elems(log)' /\ em[w].ev.seq \in Seqs(log)'
<1>1. events \in Seq(Event) /\ log \in Seq(Event) /\ em[w].ev \in Event
  BY DEF TypeInv, RunType
<1>2. events' = events \/ events' = Append(events, em[w].ev)
  BY EmitMoves DEF Deliver
<1>3. /\ log' = log \/ log' = Append(log, em[w].ev)
      /\ em[w].at = "append" => log' = Append(log, em[w].ev)
  BY EmitMoves
<1>4. Elems(Append(events, em[w].ev)) = Elems(events) \cup {em[w].ev}
  BY <1>1, GrownElems
<1>5. Elems(Append(log, em[w].ev)) = Elems(log) \cup {em[w].ev}
  BY <1>1, GrownElems
<1>6. Elems(events') = Elems(events) \/ Elems(events') = Elems(events) \cup {em[w].ev}
  BY <1>2, <1>4
<1>7. /\ Elems(log') = Elems(log) \/ Elems(log') = Elems(log) \cup {em[w].ev}
      /\ em[w].at = "append" => Elems(log') = Elems(log) \cup {em[w].ev}
  BY <1>3, <1>5
<1>8. Elems(events)' = Elems(events') /\ Elems(log)' = Elems(log') /\ Seqs(log)' = Seqs(log')
  BY DEF Elems, Seqs
<1>9. Seqs(log) = {ev.seq : ev \in Elems(log)} /\ Seqs(log') = {ev.seq : ev \in Elems(log')}
  BY SeqsElems
<1> QED
  BY <1>6, <1>7, <1>8, <1>9

-----------------------------------------------------------------------------
(***************************************************************************)
(* The gates.  The emit call of a gate carries its decision; when it is    *)
(* past the append, the review is in the history and in the log.           *)
(***************************************************************************)
Reviewed(g) ==
  decided[g] # None /\ \E ev \in Elems(events) : ev.node = g /\ ev.what = decided[g] /\ ev.seq \in Seqs(log)

GateInv ==
  /\ AskedOnce
  /\ \A g \in Ids : em[g].at \in InHand \cup {"seq"} => em[g].ev.node = g /\ em[g].ev.what = decided[g]
  /\ \A g \in Ids : em[g].at \in {"verdict", "release"} => Reviewed(g)
  /\ \A g \in Ids : em[g].at = "release" => g \in verdicts
  /\ \A g \in released : Reviewed(g) /\ g \in verdicts

LEMMA GateImplied == TypeInv /\ GateInv => ReleaseAfterReview
<1> SUFFICES ASSUME TypeInv, GateInv, NEW g \in released
             PROVE  (\E ev \in Review(g) : ev.what = decided[g] /\ ev.seq \in Seqs(log)) /\ g \in verdicts
  BY DEF ReleaseAfterReview
<1>1. g \in verdicts /\ Reviewed(g) /\ decided[g] \in {None, "approved", "rejected"}
  BY DEF GateInv, TypeInv, BrokerType
<1>2. PICK ev \in Elems(events) : ev.node = g /\ ev.what = decided[g] /\ ev.seq \in Seqs(log)
  BY <1>1 DEF Reviewed
<1>3. ev.what \in {"approved", "rejected"}
  BY <1>1, <1>2 DEF Reviewed
<1>4. ev \in Review(g)
  BY <1>2, <1>3 DEF Review, Elems
<1> QED
  BY <1>1, <1>2, <1>4

LEMMA GateInit == Init => GateInv
<1> SUFFICES ASSUME Init PROVE GateInv
  OBVIOUS
<1>1. released = {} /\ \A g \in Ids : em[g].at = "idle"
  BY EngineInEmitters DEF Init
<1> QED
  BY <1>1 DEF GateInv, AskedOnce, InHand

(* A review stays.                                                         *)
LEMMA ReviewedKept ==
  ASSUME NEW g, Reviewed(g), decided'[g] = decided[g],
         Elems(events) \subseteq Elems(events)', Seqs(log) \subseteq Seqs(log)'
  PROVE  Reviewed(g)'
BY DEF Reviewed

LEMMA GateKept ==
  ASSUME GateInv, UNCHANGED <<decided, verdicts, released>>,
         Elems(events) \subseteq Elems(events)', Seqs(log) \subseteq Seqs(log)',
         \A g \in Ids : em'[g] = em[g] \/ em'[g].at = "idle"
  PROVE  GateInv'
<1>1. \A g : Reviewed(g) => Reviewed(g)'
  BY DEF Reviewed
<1>2. \A g \in Ids : em'[g].at # "idle" => em'[g] = em[g]
  OBVIOUS
<1>3. AskedOnce'
  BY <1>2 DEF GateInv, AskedOnce
<1>4. \A g \in Ids : em'[g].at \in InHand \cup {"seq"} => em'[g].ev.node = g /\ em'[g].ev.what = decided'[g]
  BY <1>2 DEF GateInv, InHand
<1>5. \A g \in Ids : em'[g].at \in {"verdict", "release"} => Reviewed(g)'
  BY <1>1, <1>2 DEF GateInv
<1>6. \A g \in Ids : em'[g].at = "release" => g \in verdicts'
  BY <1>2 DEF GateInv
<1>7. \A g \in released' : Reviewed(g)' /\ g \in verdicts'
  BY <1>1 DEF GateInv
<1> QED
  BY <1>3, <1>4, <1>5, <1>6, <1>7 DEF GateInv

LEMMA GateEmit ==
  ASSUME TypeInv, NumberInv, GateInv, NEW w \in Emitters, EmitStep(w)
  PROVE  GateInv'
<1> USE DEF brokerVars
<1>1. /\ UNCHANGED <<decided, verdicts, released>>
      /\ \A v \in Emitters : v # w => em'[v] = em[v]
  BY EmitMoves
<1>2. /\ Elems(events) \subseteq Elems(events)' /\ Seqs(log) \subseteq Seqs(log)'
      /\ em[w].at = "append" => em[w].ev.seq \in Seqs(log)'
  BY EmitGrows
<1>3. CASE w \notin Ids
  BY <1>1, <1>2, <1>3, GateKept, EngineInEmitters
<1>4. CASE w \in Ids
  <2>1. w # "engine"
    BY <1>4, EngineInEmitters
  <2>2. /\ em'[w].ev.node = em[w].ev.node /\ em'[w].ev.what = em[w].ev.what
        /\ em[w].at \in InHand \cup {"seq"}
        /\ em'[w].at \in InHand \/ em'[w].at = "verdict"
        /\ em'[w].at = "verdict" => em[w].at = "append" /\ em[w].ev \in Elems(events)
    BY <2>1, EmitMoves DEF InHand
  <2>3. em[w].ev.node = w /\ em[w].ev.what = decided[w] /\ decided[w] # None
    BY <1>4, <2>2 DEF GateInv, AskedOnce, InHand
  <2>4. \A g : Reviewed(g) => Reviewed(g)'
    BY <1>1, <1>2 DEF Reviewed
  <2>5. em'[w].at = "verdict" => Reviewed(w)'
    BY <1>1, <1>2, <2>2, <2>3 DEF Reviewed
  <2>6. AskedOnce'
    BY <1>1, <2>3, EngineInEmitters DEF GateInv, AskedOnce
  <2>7. \A g \in Ids : em'[g].at \in InHand \cup {"seq"} => em'[g].ev.node = g /\ em'[g].ev.what = decided'[g]
    BY <1>1, <2>2, <2>3, EngineInEmitters DEF GateInv
  <2>8. \A g \in Ids : em'[g].at \in {"verdict", "release"} => Reviewed(g)'
    <3>1. em'[w].at # "release"
      BY <2>2 DEF InHand
    <3> QED
      BY <1>1, <2>4, <2>5, <3>1, EngineInEmitters DEF GateInv
  <2>9. \A g \in Ids : em'[g].at = "release" => g \in verdicts'
    <3>1. em'[w].at # "release"
      BY <2>2 DEF InHand
    <3> QED
      BY <1>1, <3>1, EngineInEmitters DEF GateInv
  <2>10. \A g \in released' : Reviewed(g)' /\ g \in verdicts'
    BY <1>1, <2>4 DEF GateInv
  <2> QED
    BY <2>6, <2>7, <2>8, <2>9, <2>10 DEF GateInv
<1> QED
  BY <1>3, <1>4

LEMMA GateResolve ==
  ASSUME TypeInv, GateInv, NEW g \in Ids, NEW d \in {"approved", "rejected"}, Resolve(g, d)
  PROVE  GateInv'
<1>1. /\ UNCHANGED <<events, log, verdicts, released>>
      /\ decided[g] = None /\ decided'[g] = d /\ d # None
      /\ \A h \in Ids : h # g => decided'[h] = decided[h]
      /\ em'[g].at = "seq" /\ em'[g].ev.node = g /\ em'[g].ev.what = d
      /\ \A w \in Emitters : w # g => em'[w] = em[w]
  BY ResolveKeeps, RunAssumption DEF runVars, storeVars
<1>2. Elems(events)' = Elems(events) /\ Seqs(log)' = Seqs(log)
  BY <1>1 DEF Elems, Seqs
<1>3. \A h \in Ids : Reviewed(h) => h # g /\ Reviewed(h)'
  BY <1>1, <1>2 DEF Reviewed
<1>4. \A h \in Ids : h # g => em'[h] = em[h]
  BY <1>1, EngineInEmitters
<1>5. AskedOnce'
  BY <1>1, <1>4 DEF GateInv, AskedOnce
<1>6. \A h \in Ids : em'[h].at \in InHand \cup {"seq"} => em'[h].ev.node = h /\ em'[h].ev.what = decided'[h]
  BY <1>1, <1>4 DEF GateInv
<1>7. \A h \in Ids : em'[h].at \in {"verdict", "release"} => Reviewed(h)' /\ (em'[h].at = "release" => h \in verdicts')
  BY <1>1, <1>3, <1>4 DEF GateInv
<1>8. \A h \in released' : Reviewed(h)' /\ h \in verdicts'
  <2>1. released \subseteq Ids
    BY EngineInEmitters DEF TypeInv, BrokerType
  <2> QED
    BY <1>1, <1>3, <2>1 DEF GateInv
<1> QED
  BY <1>5, <1>6, <1>7, <1>8 DEF GateInv

LEMMA GateLeaves ==
  ASSUME TypeInv, GateInv, NEW g \in Ids, RecordReview(g) \/ Release(g)
  PROVE  GateInv'
<1>1. /\ UNCHANGED <<events, decided, log>>
      /\ em[g].at \in {"verdict", "release"} /\ em'[g].ev = em[g].ev
      /\ \A w \in Emitters : w # g => em'[w] = em[w]
  BY GateKeeps DEF runVars
<1>2. \/ verdicts' = verdicts \cup {g} /\ released' = released /\ em'[g].at = "release"
      \/ /\ verdicts' = verdicts /\ released' \subseteq released \cup {g}
         /\ em[g].at = "release" /\ em'[g].at = "idle"
  <2>1. RunType /\ g \in Emitters
    BY EngineInEmitters DEF TypeInv
  <2>2. CASE RecordReview(g)
    <3>1. Goto(g, "release") /\ verdicts' = verdicts \cup {g} /\ released' = released
      BY <2>2 DEF RecordReview, brokerVars
    <3>2. em'[g].at = "release"
      BY <2>1, <3>1, GotoEffect DEF Steps
    <3> QED
      BY <3>1, <3>2
  <2>3. CASE Release(g)
    <3>1. /\ Goto(g, "idle") /\ verdicts' = verdicts /\ em[g].at = "release"
          /\ released' \subseteq released \cup {g}
      BY <2>3 DEF Release, storeVars, At
    <3>2. em'[g].at = "idle"
      BY <2>1, <3>1, GotoEffect DEF Steps
    <3> QED
      BY <3>1, <3>2
  <2> QED
    BY <2>2, <2>3
<1>3. Elems(events)' = Elems(events) /\ Seqs(log)' = Seqs(log)
  BY <1>1 DEF Elems, Seqs
<1>4. \A h : Reviewed(h) => Reviewed(h)'
  BY <1>1, <1>3 DEF Reviewed
<1>5. \A h \in Ids : h # g => em'[h] = em[h]
  BY <1>1, EngineInEmitters
<1>6. Reviewed(g)' /\ decided[g] # None /\ em'[g].at \notin InHand \cup {"seq"}
  BY <1>1, <1>2, <1>4 DEF GateInv, AskedOnce, InHand
<1>7. AskedOnce'
  BY <1>1, <1>5, <1>6 DEF GateInv, AskedOnce
<1>8. \A h \in Ids : em'[h].at \in InHand \cup {"seq"} => em'[h].ev.node = h /\ em'[h].ev.what = decided'[h]
  BY <1>1, <1>5, <1>6 DEF GateInv
<1>9. \A h \in Ids : em'[h].at \in {"verdict", "release"} => Reviewed(h)'
  BY <1>4, <1>5, <1>6 DEF GateInv
<1>10. \A h \in Ids : em'[h].at = "release" => h \in verdicts'
  BY <1>2, <1>5 DEF GateInv
<1>11. \A h \in released' : Reviewed(h)' /\ h \in verdicts'
  <2>1. \A h \in released : Reviewed(h)' /\ h \in verdicts'
    BY <1>2, <1>4 DEF GateInv
  <2>2. released' # released => g \in verdicts'
    BY <1>2 DEF GateInv
  <2> QED
    BY <1>2, <1>6, <2>1, <2>2
<1> QED
  BY <1>7, <1>8, <1>9, <1>10, <1>11 DEF GateInv

(* The steps that add nothing to the history or the log.                   *)
LEMMA OthersKeep ==
  ASSUME TypeInv, NumberInv,
         \/ Echo \/ RelayEvents \/ Recover \/ Crash \/ Idle
         \/ \E c \in Clients : Subscribe(c) \/ Read(c)
         \/ UNCHANGED vars
  PROVE  /\ UNCHANGED <<seq, events, log, status, brokerVars, verdicts, cur, node>>
         /\ UNCHANGED em \/ (Crash /\ \A w \in Emitters : em'[w].at = "idle")
         /\ pc' = pc \/ (pc' \in {"dead", "recovered"} /\ ~Alive')
<1> USE DEF runVars, brokerVars, engineVars, storeVars, relayVars
<1>1. CASE Echo
  BY <1>1, EchoIgnored DEF Echo
<1>2. CASE Crash
  BY <1>2, CrashType DEF Crash, Alive
<1>3. CASE RelayEvents \/ Recover \/ Idle \/ UNCHANGED vars
  BY <1>3 DEF RelayEvents, Recover, Idle, vars, Alive
<1>4. CASE \E c \in Clients : Subscribe(c) \/ Read(c)
  BY <1>4 DEF Subscribe, SubscribeWith, Read
<1> QED
  BY <1>1, <1>2, <1>3, <1>4

(* The goroutine moves at most its own emit call.                          *)
LEMMA GoroutineOwn ==
  ASSUME TypeInv, Goroutine
  PROVE  \A g \in Ids : em'[g] = em[g]
<1>1. ASSUME NEW n \in Nodes \cup {None}, NEW what \in NodeWords \cup RunStatuses,
             n # None => what \in NodeWords, Starts(n, what)
      PROVE  \A g \in Ids : em'[g] = em[g]
  BY <1>1, EmitEffect, EngineInEmitters DEF Starts, TypeInv
<1> QED
  BY <1>1, GoroutineEmits

LEMMA GateStep == TypeInv /\ NumberInv /\ GateInv /\ [Next]_vars => GateInv'
<1> SUFFICES ASSUME TypeInv, NumberInv, GateInv, [Next]_vars PROVE GateInv'
  OBVIOUS
<1>1. CASE Goroutine
  <2>1. UNCHANGED <<events, log, decided, verdicts, released>>
    BY <1>1, GoroutineKeeps
  <2>2. Elems(events)' = Elems(events) /\ Seqs(log)' = Seqs(log)
    BY <2>1 DEF Elems, Seqs
  <2> QED
    BY <1>1, <2>1, <2>2, GoroutineOwn, GateKept
<1>2. CASE \/ Echo \/ RelayEvents \/ Recover \/ Crash \/ Idle
           \/ \E c \in Clients : Subscribe(c) \/ Read(c)
           \/ UNCHANGED vars
  <2>1. /\ UNCHANGED <<events, log, decided, verdicts, released>>
        /\ \A g \in Ids : em'[g] = em[g] \/ em'[g].at = "idle"
    BY <1>2, OthersKeep, EngineInEmitters DEF brokerVars
  <2>2. Elems(events)' = Elems(events) /\ Seqs(log)' = Seqs(log)
    BY <2>1 DEF Elems, Seqs
  <2> QED
    BY <2>1, <2>2, GateKept
<1> QED
  BY <1>1, <1>2, GateEmit, GateResolve, GateLeaves DEF Next

LEMMA NumberGateAlways == Spec => [](NumberInv /\ GateInv)
<1>1. Init => NumberInv /\ GateInv
  BY NumberInit, GateInit
<1>2. TypeInv /\ (NumberInv /\ GateInv) /\ [Next]_vars => (NumberInv /\ GateInv)'
  BY NumberStep, GateStep DEF GateInv
<1> QED
  BY <1>1, <1>2, TypeAlways, PTL DEF Spec

(* The history and the log agree on what happened, each event once,        *)
(* although emit and the NATS echo both bring it and emitters overtake     *)
(* each other: for any number of gates decided while the engine emits, and *)
(* any bound on what NATS holds.                                           *)
THEOREM LogCorrect == Spec => []LogExact
BY NumberGateAlways, NumberImplied, PTL

(* A gate that was released has its review in the history, the log and the *)
(* audit projections, whatever order the requests and the engine go in.    *)
THEOREM ReleaseCorrect == Spec => []ReleaseAfterReview
BY TypeAlways, NumberGateAlways, GateImplied, PTL

-----------------------------------------------------------------------------
(* A client that is on has the history, or was lost.                       *)
ClientInv ==
  /\ clients \in [Clients -> [on : BOOLEAN, seen : Seq(Event), unread : Nat, lost : BOOLEAN]]
  /\ SubscriberSees

LEMMA ClientInit == Init => ClientInv
BY DEF Init, ClientInv, SubscriberSees

(* What is delivered is delivered to the history and to every client.      *)
LEMMA DeliverSees ==
  ASSUME events \in Seq(Event), NEW ev \in Event, ClientInv, Deliver(ev)
  PROVE  ClientInv'
<1>1. /\ clients \in [Clients -> [on : BOOLEAN, seen : Seq(Event), unread : Nat, lost : BOOLEAN]]
      /\ \A c \in Clients : clients[c].on /\ ~clients[c].lost => clients[c].seen = events
      /\ events' = Append(events, ev)
  BY DEF ClientInv, SubscriberSees, Deliver
<1>2. ASSUME NEW c \in Clients
      PROVE  /\ clients'[c] \in [on : BOOLEAN, seen : Seq(Event), unread : Nat, lost : BOOLEAN]
             /\ clients'[c].on /\ ~clients'[c].lost => clients'[c].seen = events'
  <2> DEFINE k == clients[c]
  <2>1. k \in [on : BOOLEAN, seen : Seq(Event), unread : Nat, lost : BOOLEAN]
    BY <1>1
  <2>2. clients'[c] = IF ~k.on THEN k
                      ELSE IF k.unread < SubBuffer
                        THEN [k EXCEPT !.seen = Append(@, ev), !.unread = @ + 1]
                        ELSE [k EXCEPT !.seen = <<>>, !.lost = TRUE]
    BY DEF Deliver
  <2> HIDE DEF k
  <2>3. CASE ~k.on
    BY <2>1, <2>2, <2>3
  <2>4. CASE k.on /\ k.unread < SubBuffer
    <3>1. clients'[c] = [k EXCEPT !.seen = Append(k.seen, ev), !.unread = k.unread + 1]
      BY <2>2, <2>4
    <3>2. Append(k.seen, ev) \in Seq(Event) /\ k.unread + 1 \in Nat
      BY <2>1, Grown
    <3>3. /\ clients'[c] \in [on : BOOLEAN, seen : Seq(Event), unread : Nat, lost : BOOLEAN]
          /\ clients'[c].lost = k.lost /\ clients'[c].seen = Append(k.seen, ev)
      BY <2>1, <3>1, <3>2
    <3>4. ~k.lost => k.seen = events
      BY <1>1, <2>4 DEF k
    <3> QED
      BY <1>1, <3>3, <3>4
  <2>5. CASE k.on /\ ~(k.unread < SubBuffer)
    <3>1. clients'[c] = [k EXCEPT !.seen = <<>>, !.lost = TRUE]
      BY <2>2, <2>5
    <3>2. <<>> \in Seq(Event) /\ TRUE \in BOOLEAN
      OBVIOUS
    <3>3. clients'[c] \in [on : BOOLEAN, seen : Seq(Event), unread : Nat, lost : BOOLEAN]
      BY <2>1, <3>1, <3>2
    <3>4. clients'[c].lost
      BY <2>1, <3>1
    <3> QED
      BY <3>3, <3>4
  <2> QED
    BY <2>3, <2>4, <2>5
<1>3. DOMAIN clients' = Clients /\ clients' = [c \in Clients |-> clients'[c]]
  BY DEF Deliver
<1>4. clients' \in [Clients -> [on : BOOLEAN, seen : Seq(Event), unread : Nat, lost : BOOLEAN]]
  BY <1>2, <1>3
<1> QED
  BY <1>2, <1>4 DEF ClientInv, SubscriberSees

LEMMA ClientStep == TypeInv /\ NumberInv /\ ClientInv /\ [Next]_vars => ClientInv'
<1> SUFFICES ASSUME TypeInv, NumberInv, ClientInv, [Next]_vars PROVE ClientInv'
  OBVIOUS
<1> USE DEF runVars, brokerVars, engineVars, storeVars, relayVars
<1>1. events \in Seq(Event) /\ \A w \in Emitters : em[w].ev \in Event
  BY DEF TypeInv, RunType
<1>2. ASSUME UNCHANGED <<events, clients>> PROVE ClientInv'
  BY <1>2 DEF ClientInv, SubscriberSees
<1>3. ASSUME NEW w \in Emitters, EmitStep(w) PROVE ClientInv'
  <2>1. UNCHANGED <<events, clients>> \/ Deliver(em[w].ev)
    BY <1>3, EmitMoves
  <2> QED
    BY <1>1, <1>2, <2>1, DeliverSees
<1>4. ASSUME NEW c \in Clients, Subscribe(c) PROVE ClientInv'
  <2>1. clients' = [clients EXCEPT ![c].on = TRUE, ![c].seen = events] /\ UNCHANGED events
    BY <1>4 DEF Subscribe, SubscribeWith
  <2>2. clients' = [clients EXCEPT ![c] = [clients[c] EXCEPT !.on = TRUE, !.seen = events]]
    BY <2>1 DEF ClientInv
  <2>3. clients[c] \in [on : BOOLEAN, seen : Seq(Event), unread : Nat, lost : BOOLEAN]
    BY DEF ClientInv
  <2>4. /\ [clients[c] EXCEPT !.on = TRUE, !.seen = events]
             \in [on : BOOLEAN, seen : Seq(Event), unread : Nat, lost : BOOLEAN]
        /\ [clients[c] EXCEPT !.on = TRUE, !.seen = events].seen = events
    BY <1>1, <2>3
  <2> QED
    BY <2>1, <2>2, <2>4 DEF ClientInv, SubscriberSees
<1>5. ASSUME NEW c \in Clients, Read(c) PROVE ClientInv'
  <2>1. clients[c].unread > 0 /\ clients' = [clients EXCEPT ![c].unread = @ - 1] /\ UNCHANGED events
    BY <1>5 DEF Read
  <2>2. clients' = [clients EXCEPT ![c] = [clients[c] EXCEPT !.unread = clients[c].unread - 1]]
    BY <2>1 DEF ClientInv
  <2>3. clients[c] \in [on : BOOLEAN, seen : Seq(Event), unread : Nat, lost : BOOLEAN]
    BY DEF ClientInv
  <2>4. clients[c].unread - 1 \in Nat
    BY <2>1, <2>3
  <2>5. /\ [clients[c] EXCEPT !.unread = clients[c].unread - 1]
             \in [on : BOOLEAN, seen : Seq(Event), unread : Nat, lost : BOOLEAN]
        /\ [clients[c] EXCEPT !.unread = clients[c].unread - 1].on = clients[c].on
        /\ [clients[c] EXCEPT !.unread = clients[c].unread - 1].lost = clients[c].lost
        /\ [clients[c] EXCEPT !.unread = clients[c].unread - 1].seen = clients[c].seen
    BY <2>3, <2>4
  <2> QED
    BY <2>1, <2>2, <2>5 DEF ClientInv, SubscriberSees
<1>6. CASE Goroutine
  BY <1>2, <1>6, GoroutineKeeps
<1>7. CASE Echo
  BY <1>2, <1>7, EchoIgnored
<1>8. ASSUME NEW g \in Ids, NEW d \in {"approved", "rejected"},
             Resolve(g, d) \/ RecordReview(g) \/ Release(g)
      PROVE  UNCHANGED <<events, clients>>
  BY <1>8 DEF Resolve, RecordReview, Release
<1>9. CASE RelayEvents \/ Crash \/ Recover \/ Idle \/ UNCHANGED vars
  <2>1. UNCHANGED <<events, clients>>
    BY <1>9 DEF RelayEvents, Crash, Recover, Idle, vars
  <2> QED
    BY <1>2, <2>1
<1> QED
  BY <1>2, <1>3, <1>4, <1>5, <1>6, <1>7, <1>8, <1>9 DEF Next

(* A client that was never too slow has every event once and in order,     *)
(* whenever it subscribed: for any number of clients, any size of their    *)
(* channels and any emitters.                                              *)
THEOREM SubscriberCorrect == Spec => []SubscriberSees
<1>1. ClientInv => SubscriberSees
  BY DEF ClientInv
<1> QED
  BY <1>1, ClientInit, ClientStep, TypeAlways, NumberGateAlways, PTL DEF Spec

-----------------------------------------------------------------------------
(***************************************************************************)
(* The end of the run.                                                     *)
(***************************************************************************)
Logged(what) == \E ev \in Elems(log) : ev.node = None /\ ev.what = what

RowInv ==
  /\ pc = "save" =>
       \/ em["engine"].at \in InHand \cup {"seq"} /\ em["engine"].ev.node = None /\ em["engine"].ev.what = status
       \/ Logged(status)
  /\ row \in {"completed", "paused"} => Logged(row)

LEMMA RowInit == Init => RowInv
BY RunAssumption DEF Init, RowInv

(* Only the end of the goroutine says how the run ended.                   *)
LEMMA GoroutineRow ==
  ASSUME Goroutine
  PROVE  \/ EmitTerminal \/ SaveRow
         \/ (pc' # "save" /\ row' \in {row, "running", "failed"})
<1> USE DEF storeVars
<1>1. ASSUME NEW n \in Nodes, Pick(n) \/ Skip(n)
      PROVE  pc' # "save" /\ row' = row
  BY <1>1 DEF Pick, Skip
<1>2. ASSUME NEW err \in BOOLEAN, Returns(err)
      PROVE  pc' # "save" /\ row' = row
  BY <1>2 DEF Returns
<1>3. CASE Create \/ LaunchFails \/ Launch \/ AgentEnds \/ AgentRetries
  BY <1>3 DEF Create, LaunchFails, Launch, AgentEnds, AgentRetries
<1>4. CASE GateAsks \/ Wait \/ WaitReturns \/ GateEnds
  BY <1>4 DEF GateAsks, Wait, WaitReturns, GateEnds
<1> QED
  BY <1>1, <1>2, <1>3, <1>4 DEF Goroutine

LEMMA RowKept ==
  ASSUME RowInv, Elems(log) \subseteq Elems(log)', row' \in {row, "running", "failed"},
         pc' # "save" \/ (UNCHANGED <<pc, status>> /\ em'["engine"] = em["engine"])
  PROVE  RowInv'
<1>1. \A what : Logged(what) => Logged(what)'
  BY DEF Logged
<1>2. row' \in {"completed", "paused"} => Logged(row)'
  BY <1>1 DEF RowInv
<1>3. pc' = "save" => \/ /\ em'["engine"].at \in InHand \cup {"seq"}
                         /\ em'["engine"].ev.node = None /\ em'["engine"].ev.what = status'
                      \/ Logged(status)'
  BY <1>1 DEF RowInv
<1> QED
  BY <1>2, <1>3 DEF RowInv

LEMMA RowGoroutine ==
  ASSUME TypeInv, RowInv, Goroutine
  PROVE  RowInv'
<1>1. UNCHANGED log
  BY GoroutineKeeps
<1>2. Elems(log)' = Elems(log)
  BY <1>1 DEF Elems
<1>3. CASE EmitTerminal
  <2>1. /\ Emit("engine", None, status) /\ UNCHANGED <<status, row>> /\ pc' = "save"
    BY <1>3 DEF EmitTerminal, runVars, storeVars
  <2>2. None \in Nodes \cup {None} /\ status \in NodeWords \cup RunStatuses
    BY DEF TypeInv, RunType
  <2>3. em'["engine"].at = "seq" /\ em'["engine"].ev.node = None /\ em'["engine"].ev.what = status
    BY <2>1, <2>2, EmitEffect, EngineInEmitters DEF TypeInv
  <2>4. row' \in {"completed", "paused"} => Logged(row)'
    BY <1>2, <2>1 DEF RowInv, Logged
  <2> QED
    BY <2>1, <2>3, <2>4 DEF RowInv
<1>4. CASE SaveRow
  <2>1. pc = "save" /\ em["engine"].at = "idle" /\ row' = status /\ pc' = "done"
    BY <1>4 DEF SaveRow, Engine, At
  <2>2. Logged(status)
    BY <2>1 DEF RowInv, InHand
  <2>3. Logged(row)'
    BY <1>2, <2>1, <2>2 DEF Logged
  <2> QED
    BY <2>1, <2>3 DEF RowInv
<1>5. CASE pc' # "save" /\ row' \in {row, "running", "failed"}
  BY <1>2, <1>5, RowKept
<1> QED
  BY <1>3, <1>4, <1>5, GoroutineRow

LEMMA RowEmit ==
  ASSUME TypeInv, NumberInv, RowInv, NEW w \in Emitters, EmitStep(w)
  PROVE  RowInv'
<1>1. UNCHANGED <<pc, status, row>>
  BY EmitMoves DEF engineVars
<1>2. Elems(log) \subseteq Elems(log)' /\ (em[w].at = "append" => em[w].ev \in Elems(log)')
  BY EmitGrows
<1>3. CASE w # "engine"
  <2>1. em'["engine"] = em["engine"]
    BY <1>3, EmitMoves, EngineInEmitters
  <2> QED
    BY <1>1, <1>2, <2>1, RowKept
<1>4. CASE w = "engine"
  <2>1. /\ em'[w].ev.node = em[w].ev.node /\ em'[w].ev.what = em[w].ev.what
        /\ em'[w].at \in InHand \/ em[w].at = "append"
    BY EmitMoves DEF InHand
  <2>2. \A what : Logged(what) => Logged(what)'
    BY <1>2 DEF Logged
  <2>3. row' \in {"completed", "paused"} => Logged(row)'
    BY <1>1, <2>2 DEF RowInv
  <2>4. ASSUME pc' = "save"
        PROVE  \/ /\ em'["engine"].at \in InHand \cup {"seq"}
                  /\ em'["engine"].ev.node = None /\ em'["engine"].ev.what = status'
               \/ Logged(status)'
    <3>1. CASE Logged(status)
      BY <1>1, <2>2, <3>1
    <3>2. CASE ~Logged(status)
      <4>1. em[w].ev.node = None /\ em[w].ev.what = status
        BY <1>1, <1>4, <2>4, <3>2 DEF RowInv
      <4>2. CASE em'[w].at \in InHand
        BY <1>1, <1>4, <2>1, <4>1, <4>2
      <4>3. CASE em[w].at = "append"
        BY <1>1, <1>2, <4>1, <4>3 DEF Logged
      <4> QED
        BY <2>1, <4>2, <4>3
    <3> QED
      BY <3>1, <3>2
  <2> QED
    BY <2>3, <2>4 DEF RowInv
<1> QED
  BY <1>3, <1>4

LEMMA RowStep == TypeInv /\ NumberInv /\ RowInv /\ [Next]_vars => RowInv'
<1> SUFFICES ASSUME TypeInv, NumberInv, RowInv, [Next]_vars PROVE RowInv'
  OBVIOUS
<1> USE DEF runVars, brokerVars, engineVars, storeVars, relayVars
<1>1. ASSUME NEW g \in Ids, NEW d \in {"approved", "rejected"},
             Resolve(g, d) \/ RecordReview(g) \/ Release(g)
      PROVE  RowInv'
  <2>1. UNCHANGED <<pc, status, row, log>>
    BY <1>1 DEF Resolve, RecordReview, Release
  <2>2. em'["engine"] = em["engine"]
    BY <1>1, ResolveKeeps, GateKeeps, EngineInEmitters
  <2>3. Elems(log)' = Elems(log)
    BY <2>1 DEF Elems
  <2> QED
    BY <2>1, <2>2, <2>3, RowKept
<1>2. CASE \/ Echo \/ RelayEvents \/ Recover \/ Crash \/ Idle
           \/ \E c \in Clients : Subscribe(c) \/ Read(c)
           \/ UNCHANGED vars
  <2>1. /\ UNCHANGED <<log, status>>
        /\ UNCHANGED em \/ (Crash /\ \A w \in Emitters : em'[w].at = "idle")
        /\ pc' = pc \/ pc' \in {"dead", "recovered"}
    BY <1>2, OthersKeep
  <2>2. Elems(log)' = Elems(log)
    BY <2>1 DEF Elems
  <2>3. row' \in {row, "running", "failed"}
    BY <1>2 DEF Echo, RelayEvents, Recover, Crash, Idle, Subscribe, SubscribeWith, Read, vars
  <2>4. pc' # "save" \/ (UNCHANGED <<pc, status>> /\ em'["engine"] = em["engine"])
    BY <2>1 DEF Crash
  <2> QED
    BY <2>2, <2>3, <2>4, RowKept
<1> QED
  BY <1>1, <1>2, RowGoroutine, RowEmit DEF Next

(* What the history says of a node, and what the engine is about to say.   *)
Of(n) == {i \in DOMAIN events : events[i].node = n}
Says(n) == IF node[n] = "pending" THEN Of(n) = {} ELSE LastOf(n, node[n])
Unsaid(n) == em["engine"].at \in {"seq", "publish"} /\ em["engine"].ev.node = n

(* A decision that was sent for an agent may have the last word on it, and *)
(* the word is never "failed".                                             *)
Voted(n) == \E ev \in Elems(events) : ev.node = n /\ ev.what \in {"approved", "rejected"}
Heard(n) == Voted(n) /\ (LastOf(n, "failed") => node[n] = "failed")

Spoken ==
  Alive => \A n \in Agents :
    IF Unsaid(n) THEN em["engine"].ev.what = node[n] /\ node[n] # "pending" ELSE Says(n) \/ Heard(n)

Calm ==
  /\ \A g \in Gates : node[g] \notin {"failed", "retrying"}
  /\ em["engine"].ev.node \in Gates \cup Others => em["engine"].ev.what # "failed"
  /\ \A ev \in Elems(events) : ev.node \in Gates \cup Others => StatusOf(ev) # "failed"

OnlyCurrent ==
  Alive => \A n \in Nodes :
    node[n] \in {"running", "waiting_approval"} => n = cur /\ pc \in {"exec", "wait", "blocked", "answered"}

FinalInv == Spoken /\ Calm /\ OnlyCurrent /\ FinalHonest

LEMMA LastUnique ==
  ASSUME events \in Seq(Event), NEW n, NEW s1, NEW s2, LastOf(n, s1), LastOf(n, s2)
  PROVE  s1 = s2
<1>1. PICK i \in Of(n) : StatusOf(events[i]) = s1 /\ \A j \in Of(n) : j <= i
  BY DEF LastOf, Of
<1>2. PICK k \in Of(n) : StatusOf(events[k]) = s2 /\ \A j \in Of(n) : j <= k
  BY DEF LastOf, Of
<1>3. i \in Nat /\ k \in Nat /\ i <= k /\ k <= i
  BY <1>1, <1>2 DEF Of
<1> QED
  BY <1>1, <1>2, <1>3

LEMMA SaysKept ==
  ASSUME events \in Seq(Event), NEW n, NEW ev \in Event, ev.node # n, Says(n), node'[n] = node[n],
         events' = Append(events, ev)
  PROVE  Says(n)'
<1>1. /\ DOMAIN events = 1 .. Len(events) /\ Len(events) \in Nat
      /\ DOMAIN events' = 1 .. Len(events) + 1
      /\ \A i \in 1 .. Len(events) : events'[i] = events[i]
      /\ events'[Len(events) + 1] = ev
  BY Grown
<1>2. \A i \in DOMAIN events' : i \in DOMAIN events \/ i = Len(events) + 1
  BY <1>1
<1>3. Of(n)' = Of(n)
  BY <1>1, <1>2 DEF Of
<1>4. \A i \in Of(n) : events'[i] = events[i]
  BY <1>1 DEF Of
<1>5. LastOf(n, node[n]) => LastOf(n, node[n])'
  BY <1>3, <1>4 DEF LastOf, Of, StatusOf
<1> QED
  BY <1>3, <1>5 DEF Says, LastOf

LEMMA SaysNew ==
  ASSUME events \in Seq(Event), NEW n, NEW ev \in Event, ev.node = n, node[n] = StatusOf(ev),
         node[n] # "pending", node'[n] = node[n], events' = Append(events, ev)
  PROVE  Says(n)'
<1>1. /\ DOMAIN events = 1 .. Len(events) /\ Len(events) \in Nat
      /\ DOMAIN events' = 1 .. Len(events) + 1
      /\ events'[Len(events) + 1] = ev
  BY Grown
<1> DEFINE last == Len(events) + 1
<1>2. last \in DOMAIN events' /\ events'[last] = ev /\ \A j \in DOMAIN events' : j <= last
  BY <1>1
<1>3. StatusOf(events'[last]) = node'[n]
  BY <1>2
<1> HIDE DEF last
<1>4. LastOf(n, node[n])'
  BY <1>2, <1>3 DEF LastOf, StatusOf
<1> QED
  BY <1>4 DEF Says

(* The last word of a node that is not "failed".                           *)
LEMMA LastNew ==
  ASSUME events \in Seq(Event), NEW n, NEW ev \in Event, ev.node = n, StatusOf(ev) # "failed",
         events' = Append(events, ev)
  PROVE  ~LastOf(n, "failed")'
<1>1. /\ DOMAIN events = 1 .. Len(events) /\ Len(events) \in Nat
      /\ DOMAIN events' = 1 .. Len(events) + 1
      /\ events'[Len(events) + 1] = ev
  BY Grown
<1> SUFFICES ASSUME LastOf(n, "failed")' PROVE FALSE
  OBVIOUS
<1>2. PICK i \in DOMAIN events' :
        StatusOf(events'[i]) = "failed" /\ \A j \in DOMAIN events' : events'[j].node = n => j <= i
  BY DEF LastOf, StatusOf
<1>3. Len(events) + 1 <= i /\ i \in 1 .. Len(events) + 1
  BY <1>1, <1>2
<1>4. i = Len(events) + 1
  BY <1>1, <1>3
<1> QED
  BY <1>1, <1>2, <1>4

LEMMA VotedKept ==
  ASSUME events \in Seq(Event), NEW n, NEW ev \in Event, events' = Append(events, ev)
  PROVE  /\ Voted(n) => Voted(n)'
         /\ ev.node = n /\ ev.what \in {"approved", "rejected"} => Voted(n)'
<1>1. Elems(Append(events, ev)) = Elems(events) \cup {ev}
  BY GrownElems
<1>2. Elems(events)' = Elems(events) \cup {ev}
  BY <1>1 DEF Elems
<1> QED
  BY <1>2 DEF Voted

(* An event of another node leaves the last word alone.                    *)
LEMMA HeardKept ==
  ASSUME events \in Seq(Event), NEW n, NEW ev \in Event, ev.node # n, Heard(n), node'[n] = node[n],
         events' = Append(events, ev)
  PROVE  Heard(n)'
<1>1. /\ DOMAIN events = 1 .. Len(events) /\ Len(events) \in Nat
      /\ DOMAIN events' = 1 .. Len(events) + 1
      /\ \A i \in 1 .. Len(events) : events'[i] = events[i]
      /\ events'[Len(events) + 1] = ev
  BY Grown
<1>2. \A i \in DOMAIN events' : i \in DOMAIN events \/ i = Len(events) + 1
  BY <1>1
<1>3. Of(n)' = Of(n)
  BY <1>1, <1>2 DEF Of
<1>4. \A i \in Of(n) : events'[i] = events[i]
  BY <1>1 DEF Of
<1>5. LastOf(n, "failed")' => LastOf(n, "failed")
  BY <1>3, <1>4 DEF LastOf, Of, StatusOf
<1> QED
  BY <1>5, VotedKept DEF Heard

(* What the goroutine says of a node is what it then is.                   *)
EngineWords == {"running", "completed", "failed", "retrying", "waiting_approval", "skipped"}

LEMMA GoroutineSays ==
  ASSUME TypeInv, Goroutine
  PROVE  \/ UNCHANGED <<em, node>>
         \/ \E n \in Nodes : \E what \in EngineWords :
              /\ Starts(n, what) /\ node' = [node EXCEPT ![n] = what]
              /\ n \in Gates => what \notin {"failed", "retrying"}
              /\ n \in Gates /\ node[n] \in {"waiting_approval", "completed"}
                   => what \in {"waiting_approval", "completed"}
         \/ \E what \in RunStatuses : Starts(None, what) /\ UNCHANGED node
<1> USE DEF Engine, Starts, EngineWords
<1>0. Agents \cap Gates = {}
  BY RunAssumption
<1>1. ASSUME NEW n \in Nodes, Pick(n) \/ Skip(n)
      PROVE  /\ \E what \in {"running", "skipped"} : Starts(n, what) /\ node' = [node EXCEPT ![n] = what]
             /\ node[n] \notin {"waiting_approval", "completed"}
  BY <1>1 DEF Pick, Skip, Walked
<1>2. CASE Create \/ LaunchFails \/ Wait \/ WaitReturns \/ SaveRow \/ \E err \in BOOLEAN : Returns(err)
  BY <1>2 DEF Create, LaunchFails, Wait, WaitReturns, SaveRow, Returns
<1>3. CASE Launch
  BY <1>3 DEF Launch, RunStatuses
<1>4. CASE AgentEnds \/ AgentRetries
  <2>1. cur \in Nodes /\ cur \notin Gates
    BY <1>0, <1>4 DEF AgentEnds, AgentRetries, Nodes
  <2>2. \E what \in {"completed", "failed", "retrying"} :
          Starts(cur, what) /\ node' = [node EXCEPT ![cur] = what]
    BY <1>4 DEF AgentEnds, AgentRetries
  <2> QED
    BY <2>1, <2>2
<1>5. CASE GateAsks \/ GateEnds
  <2>1. cur \in Nodes
    BY <1>5 DEF GateAsks, GateEnds, Nodes, TypeInv, EngineType
  <2>2. \E what \in {"completed", "waiting_approval"} :
          Starts(cur, what) /\ node' = [node EXCEPT ![cur] = what]
    BY <1>5 DEF GateAsks, GateEnds
  <2> QED
    BY <2>1, <2>2
<1>6. CASE EmitTerminal
  BY <1>6 DEF EmitTerminal, engineVars, TypeInv, RunType
<1> QED
  BY <1>1, <1>2, <1>3, <1>4, <1>5, <1>6 DEF Goroutine

LEMMA EngineWordsOk == EngineWords \subseteq NodeStatuses /\ EngineWords \subseteq NodeWords \cup RunStatuses
                       /\ EngineWords \subseteq NodeWords
BY DEF EngineWords, NodeStatuses, NodeWords

-----------------------------------------------------------------------------
LEMMA SpokenGoroutine ==
  ASSUME TypeInv, Spoken, Goroutine
  PROVE  Spoken'
<1>1. Alive /\ UNCHANGED events
  BY GoroutineKeeps DEF Alive
<1>2. \A n \in Agents : node'[n] = node[n] => (Says(n) => Says(n)') /\ (Heard(n) => Heard(n)')
  BY <1>1 DEF Says, LastOf, Of, StatusOf, Heard, Voted, Elems
<1>3. CASE UNCHANGED <<em, node>>
  BY <1>1, <1>2, <1>3 DEF Spoken, Unsaid
<1>4. ASSUME NEW n \in Nodes \cup {None}, NEW what \in NodeWords \cup RunStatuses, n # None => what \in NodeWords,
             Starts(n, what),
             \A m \in Agents : m # n => node'[m] = node[m],
             n \in Agents => node'[n] = what /\ what # "pending"
      PROVE  Spoken'
  <2>1. em["engine"].at = "idle"
    BY <1>4 DEF Starts, At
  <2>2. em'["engine"].at = "seq" /\ em'["engine"].ev.node = n /\ em'["engine"].ev.what = what
    BY <1>4, EmitEffect, EngineInEmitters DEF Starts, TypeInv
  <2>3. \A m \in Agents : Says(m) \/ Heard(m)
    BY <1>1, <2>1 DEF Spoken, Unsaid
  <2>4. ASSUME NEW m \in Agents
        PROVE  IF Unsaid(m)' THEN em'["engine"].ev.what = node'[m] /\ node'[m] # "pending"
               ELSE Says(m)' \/ Heard(m)'
    <3>1. CASE m = n
      BY <1>4, <2>2, <3>1 DEF Unsaid
    <3>2. CASE m # n
      BY <1>2, <1>4, <2>2, <2>3, <3>2 DEF Unsaid
    <3> QED
      BY <3>1, <3>2
  <2> QED
    BY <2>4 DEF Spoken
<1>5. ASSUME NEW n \in Nodes, NEW what \in EngineWords, Starts(n, what), node' = [node EXCEPT ![n] = what]
      PROVE  Spoken'
  <2>1. node \in [Nodes -> NodeStatuses] /\ Agents \subseteq Nodes
    BY DEF TypeInv, EngineType, Nodes
  <2>2. \A m \in Agents : m # n => node'[m] = node[m]
    BY <1>5, <2>1
  <2>3. node'[n] = what /\ what # "pending"
    BY <1>5, <2>1 DEF EngineWords
  <2> QED
    BY <1>4, <1>5, <2>2, <2>3, EngineWordsOk
<1>6. ASSUME NEW what \in RunStatuses, Starts(None, what), UNCHANGED node
      PROVE  Spoken'
  BY <1>4, <1>6, RunAssumption
<1> QED
  BY <1>3, <1>5, <1>6, GoroutineSays

LEMMA SpokenEmit ==
  ASSUME TypeInv, NumberInv, GateInv, Spoken, NEW w \in Emitters, EmitStep(w)
  PROVE  Spoken'
<1>1. /\ UNCHANGED <<pc, node>> /\ events \in Seq(Event) /\ em[w].ev \in Event
  BY EmitMoves DEF engineVars, TypeInv, RunType
<1>2. ASSUME UNCHANGED events, NEW n PROVE (Says(n) => Says(n)') /\ (Heard(n) => Heard(n)')
  BY <1>1, <1>2 DEF Says, LastOf, Of, StatusOf, Heard, Voted, Elems
<1> SUFFICES ASSUME Alive', NEW n \in Agents
             PROVE  IF Unsaid(n)' THEN em'["engine"].ev.what = node'[n] /\ node'[n] # "pending"
                    ELSE Says(n)' \/ Heard(n)'
  BY DEF Spoken
<1>3. IF Unsaid(n) THEN em["engine"].ev.what = node[n] /\ node[n] # "pending" ELSE Says(n) \/ Heard(n)
  BY <1>1 DEF Spoken, Alive
<1>4. CASE w # "engine"
  <2>1. em'["engine"] = em["engine"] /\ w \in Ids
    BY <1>4, EmitMoves, EngineInEmitters DEF Emitters
  <2>2. em[w].at \in InHand \cup {"seq"}
    BY EmitMoves DEF InHand
  <2>3. em[w].ev.node = w /\ em[w].ev.what \in {"approved", "rejected"}
    BY <2>1, <2>2 DEF GateInv, AskedOnce, InHand, TypeInv, BrokerType
  <2>4. Unsaid(n)' <=> Unsaid(n)
    BY <2>1 DEF Unsaid
  <2>5. events' = events \/ events' = Append(events, em[w].ev)
    BY EmitMoves DEF Deliver
  <2>6. ASSUME ~Unsaid(n) PROVE Says(n)' \/ Heard(n)'
    <3>1. CASE events' = events
      BY <1>2, <1>3, <2>6, <3>1
    <3>2. CASE events' = Append(events, em[w].ev) /\ n # w
      BY <1>1, <1>3, <2>3, <2>6, <3>2, SaysKept, HeardKept
    <3>3. CASE events' = Append(events, em[w].ev) /\ n = w
      <4>1. StatusOf(em[w].ev) # "failed"
        BY <2>3 DEF StatusOf
      <4>2. ~LastOf(n, "failed")' /\ Voted(n)'
        BY <1>1, <2>3, <3>3, <4>1, LastNew, VotedKept
      <4> QED
        BY <4>2 DEF Heard
    <3> QED
      BY <2>5, <3>1, <3>2, <3>3
  <2> QED
    BY <1>1, <1>3, <2>1, <2>4, <2>6
<1>5. CASE w = "engine" /\ em[w].at = "publish"
  <2>1. /\ em'[w].at = "project" /\ events' = Append(events, em[w].ev)
    BY <1>5, EmitMoves DEF Deliver
  <2>2. ~Unsaid(n)'
    BY <1>5, <2>1 DEF Unsaid
  <2>3. CASE em[w].ev.node = n
    <3>1. em[w].ev.what = node[n] /\ node[n] # "pending" /\ node[n] \in NodeStatuses
      BY <1>3, <1>5, <2>3 DEF Unsaid, TypeInv, EngineType, Nodes
    <3>2. StatusOf(em[w].ev) = node[n]
      BY <3>1 DEF StatusOf, NodeStatuses
    <3> QED
      BY <1>1, <2>1, <2>2, <2>3, <3>1, <3>2, SaysNew
  <2>4. CASE em[w].ev.node # n
    BY <1>1, <1>3, <1>5, <2>1, <2>2, <2>4, SaysKept, HeardKept DEF Unsaid
  <2> QED
    BY <2>3, <2>4
<1>6. CASE w = "engine" /\ em[w].at # "publish"
  <2>1. /\ UNCHANGED events /\ em'[w].ev.node = em[w].ev.node /\ em'[w].ev.what = em[w].ev.what
        /\ (em[w].at = "seq" /\ em'[w].at = "publish")
           \/ (em[w].at \notin {"seq", "publish"} /\ em'[w].at \notin {"seq", "publish"})
    BY <1>6, EmitMoves
  <2>2. Unsaid(n)' <=> Unsaid(n)
    BY <1>6, <2>1 DEF Unsaid
  <2> QED
    BY <1>1, <1>2, <1>3, <1>6, <2>1, <2>2
<1> QED
  BY <1>4, <1>5, <1>6

LEMMA CalmStep == TypeInv /\ NumberInv /\ GateInv /\ Calm /\ [Next]_vars => Calm'
<1> SUFFICES ASSUME TypeInv, NumberInv, GateInv, Calm, [Next]_vars PROVE Calm'
  OBVIOUS
<1>1. ASSUME Elems(events)' = Elems(events), UNCHANGED node,
             em'["engine"].ev = em["engine"].ev \/ em'["engine"].ev.node = None
      PROVE  Calm'
  <2>1. \A ev \in Elems(events)' : ev.node \in Gates \cup Others => StatusOf(ev) # "failed"
    BY <1>1 DEF Calm
  <2> QED
    BY <1>1, <2>1, RunAssumption DEF Calm, StatusOf
<1>2. CASE Goroutine
  <2>1. Elems(events)' = Elems(events)
    BY <1>2, GoroutineKeeps DEF Elems
  <2>2. CASE UNCHANGED <<em, node>>
    BY <1>1, <2>1, <2>2
  <2>3. ASSUME NEW n \in Nodes, NEW what \in EngineWords, Starts(n, what), node' = [node EXCEPT ![n] = what],
               n \in Gates => what \notin {"failed", "retrying"}
        PROVE  Calm'
    <3>1. em'["engine"].ev.node = n /\ em'["engine"].ev.what = what
      BY <2>3, EmitEffect, EngineInEmitters, EngineWordsOk DEF Starts, TypeInv
    <3>2. node \in [Nodes -> NodeStatuses] /\ Gates \subseteq Nodes /\ n \notin Others
      BY RunAssumption DEF TypeInv, EngineType, Nodes
    <3>3. \A g \in Gates : node'[g] \notin {"failed", "retrying"}
      BY <2>3, <3>2 DEF Calm
    <3>4. \A ev \in Elems(events)' : ev.node \in Gates \cup Others => StatusOf(ev) # "failed"
      BY <2>1 DEF Calm
    <3> QED
      BY <2>3, <3>1, <3>2, <3>3, <3>4 DEF Calm, StatusOf
  <2>4. ASSUME NEW what \in RunStatuses, Starts(None, what), UNCHANGED node
        PROVE  Calm'
    <3>1. em'["engine"].ev.node = None
      BY <2>4, EmitEffect, EngineInEmitters DEF Starts, TypeInv
    <3> QED
      BY <1>1, <2>1, <2>4, <3>1
  <2> QED
    BY <1>2, <2>2, <2>3, <2>4, GoroutineSays
<1>3. ASSUME NEW w \in Emitters, EmitStep(w) PROVE Calm'
  <2>1. /\ UNCHANGED node /\ em[w].at \in InHand \cup {"seq"}
        /\ em'[w].ev.node = em[w].ev.node /\ em'[w].ev.what = em[w].ev.what
        /\ \A v \in Emitters : v # w => em'[v] = em[v]
    BY <1>3, EmitMoves DEF engineVars, InHand
  <2>2. Elems(events)' \subseteq Elems(events) \cup {em[w].ev}
    BY <1>3, EmitGrows
  <2>3. em'["engine"].ev.node = em["engine"].ev.node /\ em'["engine"].ev.what = em["engine"].ev.what
    BY <2>1, EngineInEmitters
  <2>4. em[w].ev.node \in Gates \cup Others => StatusOf(em[w].ev) # "failed"
    <3>1. CASE w = "engine"
      BY <3>1 DEF Calm, StatusOf
    <3>2. CASE w # "engine"
      <4>1. w \in Ids /\ em[w].ev.what = decided[w] /\ decided[w] # "failed"
        BY <2>1, <3>2 DEF GateInv, AskedOnce, Emitters, InHand, TypeInv, BrokerType
      <4> QED
        BY <4>1 DEF StatusOf
    <3> QED
      BY <3>1, <3>2
  <2>5. \A ev \in Elems(events)' : ev.node \in Gates \cup Others => StatusOf(ev) # "failed"
    BY <2>2, <2>4 DEF Calm
  <2> QED
    BY <2>1, <2>3, <2>5 DEF Calm, StatusOf
<1>4. ASSUME NEW g \in Ids, NEW d \in {"approved", "rejected"},
             Resolve(g, d) \/ RecordReview(g) \/ Release(g)
      PROVE  Calm'
  <2>1. UNCHANGED <<events, node>>
    BY <1>4 DEF Resolve, RecordReview, Release, runVars, engineVars
  <2>2. em'["engine"] = em["engine"]
    BY <1>4, ResolveKeeps, GateKeeps, EngineInEmitters
  <2>3. Elems(events)' = Elems(events)
    BY <2>1 DEF Elems
  <2> QED
    BY <1>1, <2>1, <2>2, <2>3
<1>5. CASE \/ Echo \/ RelayEvents \/ Recover \/ Crash \/ Idle
           \/ \E c \in Clients : Subscribe(c) \/ Read(c)
           \/ UNCHANGED vars
  <2>1. UNCHANGED <<events, node>> /\ (UNCHANGED em \/ Crash)
    BY <1>5, OthersKeep
  <2>2. Elems(events)' = Elems(events)
    BY <2>1 DEF Elems
  <2>3. Crash => em'["engine"].ev.node = None
    BY EngineInEmitters DEF Crash, NoEvent
  <2> QED
    BY <1>1, <2>1, <2>2, <2>3
<1> QED
  BY <1>2, <1>3, <1>4, <1>5 DEF Next

LEMMA SpokenStep == TypeInv /\ NumberInv /\ GateInv /\ Spoken /\ [Next]_vars => Spoken'
<1> SUFFICES ASSUME TypeInv, NumberInv, GateInv, Spoken, [Next]_vars PROVE Spoken'
  OBVIOUS
<1>1. ASSUME UNCHANGED <<events, node>>, Alive' => Alive, Alive' => em'["engine"] = em["engine"]
      PROVE  Spoken'
  <2>1. \A n : (Says(n) => Says(n)') /\ (Heard(n) => Heard(n)')
    BY <1>1 DEF Says, LastOf, Of, StatusOf, Heard, Voted, Elems
  <2> QED
    BY <1>1, <2>1 DEF Spoken, Unsaid
<1>2. ASSUME NEW g \in Ids, NEW d \in {"approved", "rejected"},
             Resolve(g, d) \/ RecordReview(g) \/ Release(g)
      PROVE  Spoken'
  <2>1. UNCHANGED <<events, node, pc>>
    BY <1>2 DEF Resolve, RecordReview, Release, runVars, engineVars
  <2>2. em'["engine"] = em["engine"]
    BY <1>2, ResolveKeeps, GateKeeps, EngineInEmitters
  <2> QED
    BY <1>1, <2>1, <2>2 DEF Alive
<1>3. CASE \/ Echo \/ RelayEvents \/ Recover \/ Crash \/ Idle
           \/ \E c \in Clients : Subscribe(c) \/ Read(c)
           \/ UNCHANGED vars
  <2>1. UNCHANGED <<events, node>> /\ (pc' = pc \/ ~Alive') /\ (UNCHANGED em \/ Crash)
    BY <1>3, OthersKeep
  <2>2. Crash => ~Alive'
    BY DEF Crash, Alive
  <2> QED
    BY <1>1, <2>1, <2>2 DEF Alive
<1> QED
  BY <1>2, <1>3, SpokenGoroutine, SpokenEmit DEF Next

LEMMA CurrentGoroutine ==
  ASSUME TypeInv, OnlyCurrent, Goroutine
  PROVE  OnlyCurrent'
<1> DEFINE busy == {"running", "waiting_approval"}
           here == {"exec", "wait", "blocked", "answered"}
<1> USE DEF Engine, engineVars
<1>1. /\ node \in [Nodes -> NodeStatuses]
      /\ \A n \in Nodes : node[n] \in busy => n = cur /\ pc \in here
  BY GoroutineKeeps DEF TypeInv, EngineType, OnlyCurrent, Alive
<1>2. ASSUME NEW n \in Nodes, Pick(n)
      PROVE  OnlyCurrent'
  <2>1. /\ pc = "pick" /\ pc' = "exec" /\ cur' = n /\ node' = [node EXCEPT ![n] = "running"]
    BY <1>2 DEF Pick
  <2>2. \A m \in Nodes : node'[m] \in busy => m = n
    BY <1>1, <2>1
  <2> QED
    BY <2>1, <2>2 DEF OnlyCurrent
<1>3. ASSUME NEW n \in Nodes, Skip(n)
      PROVE  OnlyCurrent'
  <2>1. /\ pc \in {"pick", "skip"} /\ node' = [node EXCEPT ![n] = "skipped"]
    BY <1>3 DEF Skip, Walked
  <2>2. \A m \in Nodes : node'[m] \notin busy
    BY <1>1, <2>1
  <2> QED
    BY <2>2 DEF OnlyCurrent
<1>4. CASE AgentEnds \/ AgentRetries \/ GateEnds
  <2>1. /\ cur \in Nodes
        /\ \E what \in {"completed", "failed", "retrying"} : node' = [node EXCEPT ![cur] = what]
    BY <1>4 DEF AgentEnds, AgentRetries, GateEnds, TypeInv, EngineType, Nodes
  <2>2. \A m \in Nodes : node'[m] \notin busy
    BY <1>1, <2>1
  <2> QED
    BY <2>2 DEF OnlyCurrent
<1>5. CASE GateAsks
  <2>1. node' = [node EXCEPT ![cur] = "waiting_approval"] /\ cur' = cur /\ pc' = "wait"
    BY <1>5 DEF GateAsks
  <2>2. \A m \in Nodes : node'[m] \in busy => m = cur
    BY <1>1, <2>1
  <2> QED
    BY <2>1, <2>2 DEF OnlyCurrent
<1>6. CASE Wait \/ WaitReturns
  <2>1. UNCHANGED <<node, cur>> /\ pc' \in here
    BY <1>6 DEF Wait, WaitReturns
  <2> QED
    BY <1>1, <2>1 DEF OnlyCurrent
<1>7. CASE Create \/ LaunchFails \/ Launch \/ EmitTerminal \/ SaveRow \/ \E err \in BOOLEAN : Returns(err)
  <2>1. UNCHANGED node /\ pc \notin here
    BY <1>7 DEF Create, LaunchFails, Launch, EmitTerminal, SaveRow, Returns, Walked
  <2> QED
    BY <1>1, <2>1 DEF OnlyCurrent
<1> QED
  BY <1>2, <1>3, <1>4, <1>5, <1>6, <1>7 DEF Goroutine

(* What the final status is computed from is what the nodes are.           *)
LEMMA ReturnsHonest ==
  ASSUME TypeInv, Spoken, Calm, OnlyCurrent, NEW err \in BOOLEAN, Returns(err)
  PROVE  FinalHonest'
<1>1. /\ em["engine"].at = "idle" /\ pc \in {"pick", "skip"} /\ \A n \in Nodes : node[n] # "retrying"
      /\ err <=> \E n \in Nodes : node[n] = "pending"
      /\ status' = FinalStatus(err) /\ UNCHANGED node
  BY DEF Returns, Walked, Engine, At, engineVars
<1>2. events \in Seq(Event) /\ \A n \in Nodes : node[n] \in NodeStatuses
  BY DEF TypeInv, RunType, EngineType
<1>3. \A n \in Agents : Says(n) \/ Heard(n)
  BY <1>1 DEF Spoken, Alive, Unsaid
<1>4. \A n \in Nodes : node[n] \notin {"running", "waiting_approval"}
  BY <1>1 DEF OnlyCurrent, Alive
<1>5. ASSUME NEW n \in Ids, LastOf(n, "failed")
      PROVE  n \in Nodes /\ node[n] = "failed"
  <2>1. PICK i \in DOMAIN events : events[i].node = n /\ StatusOf(events[i]) = "failed"
    BY <1>5 DEF LastOf
  <2>2. n \notin Gates \cup Others
    BY <2>1 DEF Calm, Elems
  <2>3. n \in Agents /\ n \in Nodes
    BY <2>2 DEF Ids, Nodes
  <2>4. CASE Says(n)
    <3>1. Of(n) # {}
      BY <2>1 DEF Of
    <3> QED
      BY <1>2, <1>5, <2>3, <2>4, <3>1, LastUnique DEF Says
  <2>5. CASE Heard(n)
    BY <1>5, <2>3, <2>5 DEF Heard
  <2> QED
    BY <1>3, <2>3, <2>4, <2>5
<1>6. ASSUME NEW n \in Nodes, node[n] = "failed", ~LastOf(n, "failed")
      PROVE  n \in Agents /\ Review(n) # {}
  <2>1. n \in Agents
    BY <1>6 DEF Calm, Nodes
  <2>2. Voted(n)
    BY <1>3, <1>6, <2>1 DEF Says, Heard
  <2>3. Review(n) # {}
    BY <2>2 DEF Voted, Review, Elems
  <2> QED
    BY <2>1, <2>3
<1>7. status' = "failed" => \E n \in Nodes : node[n] \in {"failed", "pending"}
  <2>1. status' = "failed" => err \/ \E n \in Ids : LastOf(n, "failed")
    BY <1>1 DEF FinalStatus
  <2> QED
    BY <1>1, <1>5, <2>1
<1>8. status' = "completed" =>
        \A n \in Nodes : node[n] \in {"completed", "skipped"} \/ (n \in Agents /\ Review(n) # {})
  <2>1. status' = "completed" => ~err /\ \A n \in Nodes : ~LastOf(n, "failed")
    BY <1>1, EngineInEmitters DEF FinalStatus
  <2>2. ASSUME NEW n \in Nodes, ~err, ~LastOf(n, "failed")
        PROVE  node[n] \in {"completed", "skipped"} \/ (n \in Agents /\ Review(n) # {})
    BY <1>1, <1>2, <1>4, <1>6, <2>2 DEF NodeStatuses
  <2> QED
    BY <2>1, <2>2
<1>9. \A n : Review(n)' = Review(n)
  BY DEF Returns, Review
<1> QED
  BY <1>1, <1>7, <1>8, <1>9 DEF FinalHonest

LEMMA HonestStep ==
  TypeInv /\ NumberInv /\ Spoken /\ Calm /\ OnlyCurrent /\ FinalHonest /\ [Next]_vars
    => FinalHonest' /\ OnlyCurrent'
<1> SUFFICES ASSUME TypeInv, NumberInv, Spoken, Calm, OnlyCurrent, FinalHonest, [Next]_vars
             PROVE  FinalHonest' /\ OnlyCurrent'
  OBVIOUS
<1> USE DEF runVars, engineVars
<1>0. ASSUME Elems(events) \subseteq Elems(events)', NEW n, Review(n) # {}
      PROVE  Review(n)' # {}
  BY <1>0 DEF Review, Elems
<1>1. ASSUME UNCHANGED <<node, cur, status>>, pc' = pc \/ (pc' \in {"dead", "recovered"} /\ ~Alive'),
             Elems(events) \subseteq Elems(events)'
      PROVE  FinalHonest' /\ OnlyCurrent'
  BY <1>0, <1>1 DEF FinalHonest, OnlyCurrent, Alive
<1>2. CASE Goroutine
  <2>1. OnlyCurrent'
    BY <1>2, CurrentGoroutine
  <2>2. ASSUME NEW err \in BOOLEAN, Returns(err) PROVE FinalHonest'
    BY <2>2, ReturnsHonest
  <2>3. ASSUME EmitTerminal \/ SaveRow PROVE FinalHonest'
    <3>1. pc \in {"ended", "save"} /\ UNCHANGED <<node, status, events>>
      BY <2>3 DEF EmitTerminal, SaveRow, Engine
    <3>2. \A n : Review(n)' = Review(n)
      BY <3>1 DEF Review
    <3> QED
      BY <3>1, <3>2 DEF FinalHonest
  <2>4. ASSUME \/ Create \/ LaunchFails \/ Launch \/ AgentEnds \/ AgentRetries \/ GateAsks \/ Wait
               \/ WaitReturns \/ GateEnds \/ \E n \in Nodes : Pick(n) \/ Skip(n)
        PROVE  FinalHonest'
    <3>1. pc' \notin {"ended", "save", "done"}
      BY <2>4 DEF Create, LaunchFails, Launch, AgentEnds, AgentRetries, GateAsks, Wait, WaitReturns, GateEnds,
                  Pick, Skip
    <3> QED
      BY <3>1 DEF FinalHonest
  <2> QED
    BY <1>2, <2>1, <2>2, <2>3, <2>4 DEF Goroutine
<1>3. ASSUME NEW w \in Emitters, EmitStep(w) PROVE FinalHonest' /\ OnlyCurrent'
  <2>1. UNCHANGED <<node, cur, status, pc>> /\ Elems(events) \subseteq Elems(events)'
    BY <1>3, EmitMoves, EmitGrows
  <2> QED
    BY <1>1, <2>1
<1>4. ASSUME NEW g \in Ids, NEW d \in {"approved", "rejected"},
             Resolve(g, d) \/ RecordReview(g) \/ Release(g)
      PROVE  FinalHonest' /\ OnlyCurrent'
  <2>1. UNCHANGED <<node, cur, status, pc, events>>
    BY <1>4 DEF Resolve, RecordReview, Release
  <2>2. Elems(events)' = Elems(events)
    BY <2>1 DEF Elems
  <2> QED
    BY <1>1, <2>1, <2>2
<1>5. CASE \/ Echo \/ RelayEvents \/ Recover \/ Crash \/ Idle
           \/ \E c \in Clients : Subscribe(c) \/ Read(c)
           \/ UNCHANGED vars
  <2>1. UNCHANGED <<node, cur, status, events>> /\ (pc' = pc \/ (pc' \in {"dead", "recovered"} /\ ~Alive'))
    BY <1>5, OthersKeep
  <2>2. Elems(events)' = Elems(events)
    BY <2>1 DEF Elems
  <2> QED
    BY <1>1, <2>1, <2>2
<1> QED
  BY <1>2, <1>3, <1>4, <1>5 DEF Next

LEMMA FinalInit == Init => FinalInv
<1> SUFFICES ASSUME Init PROVE FinalInv
  OBVIOUS
<1>1. events = <<>> /\ em["engine"] = [at |-> "idle", ev |-> NoEvent] /\ pc = "new"
      /\ \A n \in Nodes : node[n] = "pending"
  BY EngineInEmitters DEF Init
<1>2. \A n \in Agents : Says(n) /\ ~Unsaid(n)
  BY <1>1 DEF Says, Of, Unsaid, Nodes
<1>3. Calm
  <2>1. em["engine"].ev.node = None /\ None \notin Gates \cup Others
    BY <1>1, RunAssumption DEF NoEvent
  <2> QED
    BY <1>1, <2>1 DEF Calm, Elems, Nodes
<1> QED
  BY <1>1, <1>2, <1>3 DEF FinalInv, Spoken, OnlyCurrent, FinalHonest

LEMMA OutcomeAlways == Spec => [](RowInv /\ FinalInv)
<1>1. Init => RowInv /\ FinalInv
  BY RowInit, FinalInit
<1>2. TypeInv /\ (NumberInv /\ GateInv) /\ (RowInv /\ FinalInv) /\ [Next]_vars => (RowInv /\ FinalInv)'
  <2> SUFFICES ASSUME TypeInv, NumberInv, GateInv, RowInv, FinalInv, [Next]_vars
               PROVE  RowInv' /\ FinalInv'
    OBVIOUS
  <2>1. Spoken /\ Calm /\ OnlyCurrent /\ FinalHonest
    BY DEF FinalInv
  <2>2. RowInv'
    BY RowStep
  <2>3. Spoken' /\ Calm'
    BY <2>1, SpokenStep, CalmStep
  <2>4. FinalHonest' /\ OnlyCurrent'
    BY <2>1, HonestStep
  <2> QED
    BY <2>2, <2>3, <2>4 DEF FinalInv
<1> QED
  BY <1>1, <1>2, TypeAlways, NumberGateAlways, PTL DEF Spec

LEMMA OutcomeImplied == RowInv /\ FinalInv => OutcomeHonest
<1> SUFFICES ASSUME RowInv, FinalInv PROVE RowBacked /\ FinalHonest
  BY DEF OutcomeHonest
<1>1. RowBacked
  <2> SUFFICES ASSUME row \in {"completed", "paused"}
               PROVE  \E i \in DOMAIN log : log[i].node = None /\ log[i].what = row
    BY DEF RowBacked
  <2>1. PICK ev \in Elems(log) : ev.node = None /\ ev.what = row
    BY DEF RowInv, Logged
  <2> QED
    BY <2>1 DEF Elems
<1> QED
  BY <1>1 DEF FinalInv

(* What is said of the end of a run is true: a row that says completed or  *)
(* paused has the terminal event behind it in the log, wherever the        *)
(* process died, and the status computed from the history is that of the   *)
(* nodes, however many attempts failed on the way.                         *)
THEOREM OutcomeCorrect == Spec => []OutcomeHonest
BY OutcomeAlways, OutcomeImplied, PTL

-----------------------------------------------------------------------------
(***************************************************************************)
(* The projection.  The engine writes what a node is before it goes on; a  *)
(* request writes "completed", and nothing else.                           *)
(***************************************************************************)
Unwritten(n) == em["engine"].at \in {"seq", "publish", "project"} /\ em["engine"].ev.node = n
Written(id) ==
  \/ execs[id] = None
  \/ Unwritten(id)
  \/ id \in Nodes /\ execs[id] = node[id]
  \/ decided[id] # None /\ execs[id] = "completed"

ProjectionInv ==
  Alive =>
    /\ \A id \in Ids : Unwritten(id) => id \in Nodes /\ em["engine"].ev.what = node[id]
    /\ \A id \in Ids : Written(id)

LEMMA ProjectionInit == Init => ProjectionInv
<1> SUFFICES ASSUME Init PROVE ProjectionInv
  OBVIOUS
<1>1. em["engine"].at = "idle" /\ \A id \in Ids : execs[id] = None
  BY EngineInEmitters DEF Init
<1> QED
  BY <1>1 DEF ProjectionInv, Written, Unwritten

LEMMA ProjectionKept ==
  ASSUME ProjectionInv, UNCHANGED <<node, execs>>, Alive' => Alive,
         \A id \in Ids : decided[id] # None => decided'[id] = decided[id],
         Alive' => em'["engine"] = em["engine"]
  PROVE  ProjectionInv'
BY DEF ProjectionInv, Written, Unwritten

LEMMA ProjectionGoroutine ==
  ASSUME TypeInv, ProjectionInv, Goroutine
  PROVE  ProjectionInv'
<1>1. Alive /\ UNCHANGED <<decided, execs>>
  BY GoroutineKeeps DEF Alive
<1>2. CASE UNCHANGED <<em, node>>
  BY <1>1, <1>2, ProjectionKept
<1>3. ASSUME NEW n \in Nodes, NEW what \in EngineWords, Starts(n, what), node' = [node EXCEPT ![n] = what]
      PROVE  ProjectionInv'
  <2>1. em["engine"].at = "idle" /\ n # None
    BY <1>3, RunAssumption DEF Starts, At, Nodes
  <2>2. em'["engine"].at = "seq" /\ em'["engine"].ev.node = n /\ em'["engine"].ev.what = what
    BY <1>3, EmitEffect, EngineInEmitters, EngineWordsOk DEF Starts, TypeInv
  <2>3. \A id \in Ids : ~Unwritten(id) /\ (Unwritten(id)' <=> id = n)
    BY <2>1, <2>2 DEF Unwritten
  <2>4. node'[n] = what /\ \A m \in Nodes : m # n => node'[m] = node[m]
    BY <1>3 DEF TypeInv, EngineType
  <2>5. \A id \in Ids : Unwritten(id)' => id \in Nodes /\ em'["engine"].ev.what = node'[id]
    BY <2>2, <2>3, <2>4, EngineInEmitters
  <2>6. \A id \in Ids : Written(id)'
    BY <1>1, <2>3, <2>4 DEF ProjectionInv, Written
  <2> QED
    BY <2>5, <2>6 DEF ProjectionInv
<1>4. ASSUME NEW what \in RunStatuses, Starts(None, what), UNCHANGED node
      PROVE  ProjectionInv'
  <2>1. em["engine"].at = "idle"
    BY <1>4 DEF Starts, At
  <2>2. em'["engine"].ev.node = None
    BY <1>4, EmitEffect, EngineInEmitters DEF Starts, TypeInv
  <2>3. \A id \in Ids : ~Unwritten(id) /\ ~Unwritten(id)'
    BY <2>1, <2>2, EngineInEmitters DEF Unwritten
  <2>4. \A id \in Ids : Written(id)'
    BY <1>1, <1>4, <2>3 DEF ProjectionInv, Written
  <2> QED
    BY <2>3, <2>4, EngineInEmitters DEF ProjectionInv
<1> QED
  BY <1>2, <1>3, <1>4, GoroutineSays

LEMMA EmitProjects ==
  ASSUME TypeInv, NumberInv, NEW w \in Emitters, EmitStep(w)
  PROVE  \/ /\ em[w].at = "project" /\ em'[w].at = "nats"
            /\ execs' = IF em[w].ev.node = None THEN execs
                        ELSE [execs EXCEPT ![em[w].ev.node] = StatusOf(em[w].ev)]
         \/ em[w].at # "project" /\ UNCHANGED execs
<1>1. CASE Project(w)
  <2>1. Goto(w, "nats")
    BY <1>1 DEF Project
  <2>2. em'[w].at = "nats"
    BY <2>1, GotoEffect DEF TypeInv, Steps
  <2> QED
    BY <1>1, <2>2 DEF Project, At
<1>2. CASE TakeSeq(w) \/ Publish(w) \/ ToNats(w) \/ AppendLog(w)
  BY <1>2 DEF TakeSeq, Publish, ToNats, AppendLog, At, storeVars
<1> QED
  BY <1>1, <1>2 DEF EmitStep

LEMMA ProjectionEmit ==
  ASSUME TypeInv, NumberInv, GateInv, ProjectionInv, NEW w \in Emitters, EmitStep(w)
  PROVE  ProjectionInv'
<1>1. /\ UNCHANGED <<pc, node, decided>> /\ em[w].at \in InHand \cup {"seq"}
      /\ em'[w].ev.node = em[w].ev.node /\ em'[w].ev.what = em[w].ev.what
      /\ \A v \in Emitters : v # w => em'[v] = em[v]
  BY EmitMoves DEF engineVars, brokerVars, InHand
<1>2. /\ execs \in [Ids -> NodeStatuses \cup {None}] /\ node \in [Nodes -> NodeStatuses]
      /\ None \notin Ids /\ Nodes \subseteq Ids
      /\ em[w].ev.node \in Ids \cup {None}
  BY EngineInEmitters DEF TypeInv, RunType, EngineType, Event
<1>3. \/ /\ em[w].at = "project" /\ em'[w].at = "nats"
         /\ execs' = IF em[w].ev.node = None THEN execs
                     ELSE [execs EXCEPT ![em[w].ev.node] = StatusOf(em[w].ev)]
      \/ em[w].at # "project" /\ UNCHANGED execs
  BY EmitProjects
<1> SUFFICES ASSUME Alive' PROVE ProjectionInv'
  BY DEF ProjectionInv
<1>4. /\ \A id \in Ids : Unwritten(id) => id \in Nodes /\ em["engine"].ev.what = node[id]
      /\ \A id \in Ids : Written(id)
  BY <1>1 DEF ProjectionInv, Alive
<1>5. \A id \in Ids : id # em[w].ev.node => execs'[id] = execs[id]
  BY <1>2, <1>3
<1>6. em[w].at = "project" /\ em[w].ev.node \in Ids => execs'[em[w].ev.node] = StatusOf(em[w].ev)
  BY <1>2, <1>3
<1>7. CASE w = "engine"
  <2>1. \A id \in Ids : Unwritten(id)' => Unwritten(id)
    <3>1. em'[w].at \in {"seq", "publish", "project"} => em[w].at \in {"seq", "publish", "project"}
      BY EmitMoves DEF InHand
    <3> QED
      BY <1>1, <1>7, <3>1 DEF Unwritten
  <2>2. \A id \in Ids : Unwritten(id) /\ ~Unwritten(id)' => em[w].at = "project" /\ em[w].ev.node = id
    <3>1. em[w].at \in {"seq", "publish"} => em'[w].at \in {"publish", "project"}
      BY EmitMoves
    <3> QED
      BY <1>1, <1>7, <3>1 DEF Unwritten
  <2>3. ASSUME NEW n \in Nodes, Unwritten(n), ~Unwritten(n)'
        PROVE  execs'[n] = node'[n]
    <3>1. em[w].at = "project" /\ em[w].ev.node = n /\ em[w].ev.what = node[n] /\ node[n] \in NodeStatuses
      BY <1>2, <1>4, <1>7, <2>2, <2>3
    <3>2. StatusOf(em[w].ev) = node[n]
      BY <3>1 DEF StatusOf, NodeStatuses
    <3> QED
      BY <1>1, <1>2, <1>6, <3>1, <3>2
  <2>4. ASSUME NEW id \in Ids, ~Unwritten(id)
        PROVE  execs'[id] = execs[id]
    <3>1. em[w].at = "project" => id # em[w].ev.node
      BY <1>7, <2>4 DEF Unwritten
    <3> QED
      BY <1>3, <1>5, <3>1
  <2>5. \A id \in Ids : Unwritten(id)' => id \in Nodes /\ em'["engine"].ev.what = node'[id]
    BY <1>1, <1>2, <1>4, <1>7, <2>1
  <2>6. \A id \in Ids : Written(id)'
    <3>1. ASSUME NEW id \in Ids, Unwritten(id), ~Unwritten(id)' PROVE Written(id)'
      BY <1>4, <2>3, <3>1 DEF Written
    <3>2. ASSUME NEW id \in Ids, ~Unwritten(id) PROVE Written(id)'
      BY <1>1, <1>4, <2>4, <3>2 DEF Written
    <3> QED
      BY <3>1, <3>2 DEF Written
  <2> QED
    BY <2>5, <2>6 DEF ProjectionInv
<1>8. CASE w # "engine"
  <2>1. em'["engine"] = em["engine"] /\ w \in Ids
    BY <1>1, <1>8, EngineInEmitters DEF Emitters
  <2>2. \A n : Unwritten(n)' <=> Unwritten(n)
    BY <2>1 DEF Unwritten
  <2>3. em[w].ev.node = w /\ em[w].ev.what \in {"approved", "rejected"} /\ decided[w] # None
    BY <1>1, <2>1 DEF GateInv, AskedOnce, InHand, TypeInv, BrokerType
  <2>4. StatusOf(em[w].ev) = "completed"
    BY <2>3 DEF StatusOf
  <2>5. \A id \in Ids : execs'[id] = execs[id] \/ (id = w /\ execs'[id] = "completed")
    BY <1>3, <1>5, <1>6, <2>1, <2>3, <2>4
  <2>6. \A id \in Ids : Unwritten(id)' => id \in Nodes /\ em'["engine"].ev.what = node'[id]
    BY <1>1, <1>4, <2>1, <2>2
  <2>7. \A id \in Ids : Written(id)'
    BY <1>1, <1>4, <2>2, <2>3, <2>5 DEF Written
  <2> QED
    BY <2>6, <2>7 DEF ProjectionInv
<1> QED
  BY <1>7, <1>8

LEMMA ProjectionStep == TypeInv /\ NumberInv /\ GateInv /\ ProjectionInv /\ [Next]_vars => ProjectionInv'
<1> SUFFICES ASSUME TypeInv, NumberInv, GateInv, ProjectionInv, [Next]_vars PROVE ProjectionInv'
  OBVIOUS
<1> USE DEF storeVars
<1>1. ASSUME NEW g \in Ids, NEW d \in {"approved", "rejected"},
             Resolve(g, d) \/ RecordReview(g) \/ Release(g)
      PROVE  ProjectionInv'
  <2>1. UNCHANGED <<node, pc, execs>>
    BY <1>1 DEF Resolve, RecordReview, Release, engineVars
  <2>2. em'["engine"] = em["engine"]
    BY <1>1, ResolveKeeps, GateKeeps, EngineInEmitters
  <2>3. \A id \in Ids : decided[id] # None => decided'[id] = decided[id]
    BY <1>1, ResolveKeeps, GateKeeps
  <2> QED
    BY <2>1, <2>2, <2>3, ProjectionKept DEF Alive
<1>2. CASE \/ Echo \/ RelayEvents \/ Recover \/ Crash \/ Idle
           \/ \E c \in Clients : Subscribe(c) \/ Read(c)
           \/ UNCHANGED vars
  <2>1. UNCHANGED <<decided, node>> /\ (pc' = pc \/ ~Alive') /\ (UNCHANGED em \/ Crash)
    BY <1>2, OthersKeep DEF brokerVars
  <2>2. Crash => ~Alive'
    BY DEF Crash, Alive
  <2>3. UNCHANGED execs
    BY <1>2 DEF Echo, RelayEvents, Recover, Crash, Idle, Subscribe, SubscribeWith, Read, vars
  <2> QED
    BY <2>1, <2>2, <2>3, ProjectionKept DEF Alive
<1> QED
  BY <1>1, <1>2, ProjectionGoroutine, ProjectionEmit DEF Next

LEMMA ProjectionImplied == ProjectionInv => ProjectionAgrees
<1> SUFFICES ASSUME ProjectionInv, Quiet, pc \in {"save", "done"}, NEW id \in Ids
             PROVE  Written(id) /\ ~Unwritten(id)
  BY DEF ProjectionAgrees, Written
<1> QED
  BY EngineInEmitters DEF ProjectionInv, Alive, Quiet, At, Unwritten

(* Once nobody emits, the node_executions projection has of every node     *)
(* what the engine said of it, whatever the requests wrote in between; the *)
(* one way to read otherwise is "completed" for an id that was decided,    *)
(* and an id that is no node has a row only then.                          *)
THEOREM ProjectionCorrect == Spec => []ProjectionAgrees
<1>1. TypeInv /\ (NumberInv /\ GateInv) /\ ProjectionInv /\ [Next]_vars => ProjectionInv'
  BY ProjectionStep
<1> QED
  BY <1>1, ProjectionImplied, ProjectionInit, TypeAlways, NumberGateAlways, PTL DEF Spec

-----------------------------------------------------------------------------
(***************************************************************************)
(* Induction on the natural numbers, for the set of those that have a      *)
(* property: the intervals 0 .. k of the others have no smallest one.      *)
(***************************************************************************)
LEMMA SetInduction ==
  ASSUME NEW S, 0 \in S, \A n \in Nat : n \in S => n + 1 \in S
  PROVE  \A n \in Nat : n \in S
<1> SUFFICES ASSUME NEW m \in Nat, m \notin S PROVE FALSE
  OBVIOUS
<1> DEFINE T == {0 .. k : k \in {j \in 0 .. m : j \notin S}}
<1>1. T \subseteq FiniteSubsetsOf(Nat)
  <2>1. \A k \in Nat : IsFiniteSet(0 .. k) /\ 0 .. k \subseteq Nat
    BY FS_Interval
  <2>2. QED BY <2>1 DEF FiniteSubsetsOf
<1>2. (0 .. m) \in T
  OBVIOUS
<1>3. \E x \in T : \A y \in T : ~ (<<y, x>> \in StrictSubsetOrdering(Nat))
  <2>1. IsWellFoundedOn(StrictSubsetOrdering(Nat), FiniteSubsetsOf(Nat))
    BY FS_StrictSubsetOrderingWellFounded
  <2>2. T # {}
    BY <1>2
  <2> HIDE DEF T
  <2>3. QED BY <1>1, <2>1, <2>2, WFMin
<1>4. PICK k \in 0 .. m : k \notin S /\ \A y \in T : ~ (<<y, 0 .. k>> \in StrictSubsetOrdering(Nat))
  BY <1>3
<1>5. k # 0 /\ k - 1 \in 0 .. m /\ k - 1 \notin S
  BY <1>4
<1>6. (0 .. (k - 1)) \in T
  BY <1>5
<1>7. <<0 .. (k - 1), 0 .. k>> \in StrictSubsetOrdering(Nat)
  <2>1. 0 .. (k-1) \subseteq 0 .. k /\ k \in 0 .. k /\ k \notin 0 .. (k-1)
    BY <1>5
  <2>2. 0 .. (k-1) \in SUBSET Nat /\ 0 .. k \in SUBSET Nat /\ 0 .. (k-1) # 0 .. k
    BY <2>1
  <2>3. QED BY <2>1, <2>2 DEF StrictSubsetOrdering
<1>8. QED BY <1>4, <1>6, <1>7

-----------------------------------------------------------------------------
(***************************************************************************)
(* The relay.  FoldLeft is a recursive function on the sets of indices:    *)
(* the function exists, so that its values on 1 .. k are what the loop of  *)
(* relayRunEvents has after k events.                                      *)
(***************************************************************************)
Iterates(g, b, q, k) ==
  g = [s \in SUBSET (1 .. k) |-> IF s = {} THEN b ELSE RelayOne(g[s \ {Max(s)}], q[Max(s)])]

LEMMA TopOf ==
  ASSUME NEW k \in Nat, NEW s \in SUBSET (1 .. k + 1), k + 1 \in s
  PROVE  Max(s) = k + 1 /\ s \ {k + 1} \in SUBSET (1 .. k)
<1>1. \A x \in s : k + 1 >= x
  OBVIOUS
<1>2. \A y \in s : (\A x \in s : y >= x) => y = k + 1
  OBVIOUS
<1>3. Max(s) = k + 1
  BY <1>1, <1>2 DEF Max
<1> QED
  BY <1>3

LEMMA IteratesMore ==
  ASSUME NEW b, NEW q, NEW k \in Nat, NEW g, Iterates(g, b, q, k)
  PROVE  \E h : Iterates(h, b, q, k + 1)
<1> DEFINE h == [s \in SUBSET (1 .. k + 1) |-> IF k + 1 \in s THEN RelayOne(g[s \ {k + 1}], q[k + 1]) ELSE g[s]]
<1>1. ASSUME NEW s \in SUBSET (1 .. k + 1)
      PROVE  h[s] = IF s = {} THEN b ELSE RelayOne(h[s \ {Max(s)}], q[Max(s)])
  <2>1. CASE k + 1 \in s
    <3>1. Max(s) = k + 1 /\ s \ {k + 1} \in SUBSET (1 .. k) /\ s \ {k + 1} \in SUBSET (1 .. k + 1)
      BY <2>1, TopOf
    <3>2. h[s \ {k + 1}] = g[s \ {k + 1}]
      BY <3>1
    <3> QED
      BY <2>1, <3>1, <3>2
  <2>2. CASE k + 1 \notin s
    <3>0. \A x \in s : x \in 1 .. k
      BY <2>2
    <3>1. s \in SUBSET (1 .. k) /\ s \ {Max(s)} \in SUBSET (1 .. k) /\ s \ {Max(s)} \in SUBSET (1 .. k + 1)
      BY <3>0
    <3>2. h[s \ {Max(s)}] = g[s \ {Max(s)}] /\ h[s] = g[s]
      BY <2>2, <3>1
    <3>3. g[s] = IF s = {} THEN b ELSE RelayOne(g[s \ {Max(s)}], q[Max(s)])
      BY <3>1 DEF Iterates
    <3> QED
      BY <3>2, <3>3
  <2> QED
    BY <2>1, <2>2
<1>2. h = [s \in SUBSET (1 .. k + 1) |-> h[s]]
  OBVIOUS
<1> HIDE DEF h
<1>3. Iterates(h, b, q, k + 1)
  BY <1>1, <1>2 DEF Iterates
<1> QED
  BY <1>3

LEMMA IteratesExists ==
  ASSUME NEW b, NEW q
  PROVE  \A k \in Nat : \E g : Iterates(g, b, q, k)
<1> DEFINE S == {k \in Nat : \E g : Iterates(g, b, q, k)}
<1>1. 0 \in S
  <2>1. SUBSET (1 .. 0) = {{}}
    OBVIOUS
  <2>2. Iterates([s \in SUBSET (1 .. 0) |-> b], b, q, 0)
    BY <2>1 DEF Iterates
  <2> QED
    BY <2>2
<1>2. \A k \in Nat : k \in S => k + 1 \in S
  BY IteratesMore
<1> HIDE DEF S
<1>3. \A k \in Nat : k \in S
  BY <1>1, <1>2, SetInduction
<1> QED
  BY <1>3 DEF S

LEMMA RelayFold ==
  ASSUME NEW q \in Seq(Event), NEW b
  PROVE  \E h : /\ h[0] = b
                /\ \A k \in 1 .. Len(q) : h[k] = RelayOne(h[k - 1], q[k])
                /\ FoldLeft(RelayOne, b, q) = h[Len(q)]
<1>1. DOMAIN q = 1 .. Len(q) /\ Len(q) \in Nat
  OBVIOUS
<1> DEFINE g == CHOOSE f : Iterates(f, b, q, Len(q))
           h == [k \in 0 .. Len(q) |-> g[1 .. k]]
<1>2. Iterates(g, b, q, Len(q))
  BY <1>1, IteratesExists
<1>3. FoldLeft(RelayOne, b, q) = g[1 .. Len(q)]
  BY <1>1 DEF FoldLeft, MapThenFoldSet, Iterates
<1> HIDE DEF g
<1>4. h[0] = b
  <2>1. 1 .. 0 = {} /\ {} \in SUBSET (1 .. Len(q))
    OBVIOUS
  <2>2. g[{}] = b
    BY <1>2, <2>1 DEF Iterates
  <2> QED
    BY <1>1, <2>1, <2>2
<1>5. ASSUME NEW k \in 1 .. Len(q)
      PROVE  h[k] = RelayOne(h[k - 1], q[k])
  <2>0. k - 1 \in Nat /\ (k - 1) + 1 = k /\ k \in 1 .. k
    BY <1>1
  <2>1. 1 .. k \in SUBSET (1 .. Len(q)) /\ 1 .. k \in SUBSET (1 .. (k - 1) + 1) /\ 1 .. k # {}
    <3>1. \A x \in 1 .. k : x \in 1 .. Len(q) /\ x \in 1 .. (k - 1) + 1
      BY <1>1, <2>0
    <3> QED
      BY <2>0, <3>1
  <2>2. Max(1 .. k) = k
    <3>1. \A j \in Nat : \A s \in SUBSET (1 .. j + 1) : j + 1 \in s => Max(s) = j + 1
      BY TopOf
    <3>2. Max(1 .. k) = (k - 1) + 1
      BY <2>0, <2>1, <3>1
    <3> QED
      BY <2>0, <3>2
  <2>3. (1 .. k) \ {k} = 1 .. (k - 1)
    BY <2>0
  <2>4. g[1 .. k] = RelayOne(g[(1 .. k) \ {Max(1 .. k)}], q[Max(1 .. k)])
    BY <1>2, <2>1 DEF Iterates
  <2>5. h[k] = g[1 .. k] /\ h[k - 1] = g[1 .. (k - 1)]
    BY <1>1, <2>0
  <2> QED
    BY <2>2, <2>3, <2>4, <2>5
<1>6. h[Len(q)] = g[1 .. Len(q)]
  BY <1>1
<1> QED
  BY <1>3, <1>4, <1>5, <1>6

Relays(acc) ==
  /\ acc.cursor \in Nat /\ acc.cursor <= seq
  /\ acc.cursor = 0 \/ acc.cursor \in Seqs(events)
  /\ acc.posts \in Seq(Nat)
  /\ \A i \in DOMAIN acc.posts : acc.posts[i] \in Seqs(events) /\ acc.posts[i] <= acc.cursor
  /\ \A i, j \in DOMAIN acc.posts : i < j => acc.posts[i] < acc.posts[j]

(* What the relay owes the channel: the cards that nothing overtook.       *)
Owed(i) == Card(events[i]) /\ ~Overtaken(i)
Posted(acc, i) == \E k \in DOMAIN acc.posts : acc.posts[k] = events[i].seq
Behind(acc) == \A i \in DOMAIN events : Owed(i) /\ events[i].seq <= acc.cursor => Posted(acc, i)

LEMMA RelayOneSound ==
  ASSUME NEW acc, Relays(acc), NEW ev \in Event, ev.seq \in Seqs(events), ev.seq <= seq, seq \in Nat
  PROVE  Relays(RelayOne(acc, ev))
<1>0. ev.seq \in Nat
  BY DEF Event
<1>1. CASE ev.seq <= acc.cursor
  BY <1>1 DEF RelayOne
<1>2. CASE ~(ev.seq <= acc.cursor)
  <2> DEFINE posts == IF Card(ev) THEN Append(acc.posts, ev.seq) ELSE acc.posts
  <2>1. RelayOne(acc, ev) = [cursor |-> ev.seq, posts |-> posts]
    BY <1>2 DEF RelayOne
  <2>2. acc.posts \in Seq(Nat) /\ acc.cursor \in Nat /\ acc.cursor < ev.seq
    BY <1>0, <1>2 DEF Relays
  <2>3. /\ Append(acc.posts, ev.seq) \in Seq(Nat)
        /\ DOMAIN acc.posts = 1 .. Len(acc.posts) /\ Len(acc.posts) \in Nat
        /\ DOMAIN Append(acc.posts, ev.seq) = 1 .. Len(acc.posts) + 1
        /\ \A i \in 1 .. Len(acc.posts) : Append(acc.posts, ev.seq)[i] = acc.posts[i]
        /\ Append(acc.posts, ev.seq)[Len(acc.posts) + 1] = ev.seq
    BY <1>0, <2>2, Grown
  <2>4. \A i \in DOMAIN acc.posts : acc.posts[i] \in Nat /\ acc.posts[i] < ev.seq /\ acc.posts[i] \in Seqs(events)
    <3> TAKE i \in DOMAIN acc.posts
    <3>1. acc.posts[i] \in Seqs(events) /\ acc.posts[i] <= acc.cursor
      BY DEF Relays
    <3>2. acc.posts[i] \in Nat
      BY <2>2
    <3> QED
      BY <1>0, <2>2, <3>1, <3>2
  <2>5. /\ posts \in Seq(Nat)
        /\ \A i \in DOMAIN posts : posts[i] \in Seqs(events) /\ posts[i] <= ev.seq
        /\ \A i, j \in DOMAIN posts : i < j => posts[i] < posts[j]
    <3>1. \A i, j \in DOMAIN acc.posts : i < j => acc.posts[i] < acc.posts[j]
      BY DEF Relays
    <3>2. CASE Card(ev)
      <4>1. posts = Append(acc.posts, ev.seq)
        BY <3>2
      <4> HIDE DEF posts
      <4>2. \A i \in DOMAIN posts : (i \in 1 .. Len(acc.posts) /\ posts[i] = acc.posts[i]) \/ (i = Len(acc.posts) + 1 /\ posts[i] = ev.seq)
        BY <2>3, <4>1
      <4>3. posts \in Seq(Nat)
        BY <2>3, <4>1
      <4>4. \A i \in DOMAIN posts : posts[i] \in Seqs(events) /\ posts[i] <= ev.seq
        BY <1>0, <2>3, <2>4, <4>2
      <4>5. ASSUME NEW i \in DOMAIN posts, NEW j \in DOMAIN posts, i < j PROVE posts[i] < posts[j]
        <5>1. i \in 1 .. Len(acc.posts) /\ posts[i] = acc.posts[i]
          BY <2>3, <4>1, <4>2, <4>5
        <5> QED
          BY <2>3, <2>4, <3>1, <4>2, <4>5, <5>1
      <4> QED
        BY <4>3, <4>4, <4>5
    <3>3. CASE ~Card(ev)
      <4>1. posts = acc.posts
        BY <3>3
      <4>2. \A i \in DOMAIN posts : posts[i] \in Seqs(events) /\ posts[i] <= ev.seq
        BY <1>0, <2>4, <4>1
      <4> QED
        BY <2>2, <3>1, <4>1, <4>2
    <3> QED
      BY <3>2, <3>3
  <2> HIDE DEF posts
  <2> QED
    BY <1>0, <2>1, <2>5 DEF Relays
<1> QED
  BY <1>1, <1>2

LEMMA HistoryType ==
  ASSUME TypeInv
  PROVE  /\ events \in Seq(Event) /\ DOMAIN events = 1 .. Len(events) /\ Len(events) \in Nat
         /\ \A i \in DOMAIN events : events[i].seq \in Nat
<1>1. events \in Seq(Event)
  BY DEF TypeInv, RunType
<1>2. DOMAIN events = 1 .. Len(events) /\ Len(events) \in Nat /\ \A i \in DOMAIN events : events[i] \in Event
  BY <1>1
<1>3. \A ev \in Event : ev.seq \in Nat
  BY DEF Event
<1> QED
  BY <1>1, <1>2, <1>3

(* The cursor jumps over numbers only of events that come later in the     *)
(* history, and these are overtaken by the one it jumps to.                *)
LEMMA RelayOneCovers ==
  ASSUME TypeInv, NumberInv, NEW acc, Relays(acc), Behind(acc), NEW k \in DOMAIN events,
         \A i \in DOMAIN events : i < k /\ Owed(i) => Posted(acc, i)
  PROVE  /\ Behind(RelayOne(acc, events[k]))
         /\ \A i \in DOMAIN events : i <= k /\ Owed(i) => Posted(RelayOne(acc, events[k]), i)
<1>0. /\ events \in Seq(Event) /\ DOMAIN events = 1 .. Len(events) /\ Len(events) \in Nat
      /\ \A i \in DOMAIN events : events[i].seq \in Nat
  BY HistoryType
<1>1. CASE events[k].seq <= acc.cursor
  <2>1. RelayOne(acc, events[k]) = acc
    BY <1>1 DEF RelayOne
  <2>2. Owed(k) => Posted(acc, k)
    BY <1>1 DEF Behind
  <2>3. \A i \in DOMAIN events : i <= k => i < k \/ i = k
    BY <1>0
  <2> QED
    BY <2>1, <2>2, <2>3
<1>2. CASE ~(events[k].seq <= acc.cursor)
  <2> DEFINE r == RelayOne(acc, events[k])
  <2>1. /\ r.cursor = events[k].seq
        /\ r.posts = IF Card(events[k]) THEN Append(acc.posts, events[k].seq) ELSE acc.posts
    BY <1>2 DEF RelayOne
  <2>2. acc.posts \in Seq(Nat)
    BY DEF Relays
  <2>3. /\ DOMAIN acc.posts = 1 .. Len(acc.posts) /\ Len(acc.posts) \in Nat
        /\ DOMAIN Append(acc.posts, events[k].seq) = 1 .. Len(acc.posts) + 1
        /\ \A i \in 1 .. Len(acc.posts) : Append(acc.posts, events[k].seq)[i] = acc.posts[i]
        /\ Append(acc.posts, events[k].seq)[Len(acc.posts) + 1] = events[k].seq
    BY <1>0, <2>2, Grown
  <2> HIDE DEF r
  <2>4. \A i \in DOMAIN events : Posted(acc, i) => Posted(r, i)
    BY <2>1, <2>3 DEF Posted
  <2>5. Card(events[k]) => Posted(r, k)
    BY <2>1, <2>3 DEF Posted
  <2>6. \A i \in DOMAIN events : i <= k /\ Owed(i) => Posted(r, i)
    <3>1. \A i \in DOMAIN events : i <= k => i < k \/ i = k
      BY <1>0
    <3> QED
      BY <2>4, <2>5, <3>1 DEF Owed
  <2>7. ASSUME NEW i \in DOMAIN events, ~(i <= k), events[i].seq <= r.cursor PROVE ~Owed(i)
    <3>1. events[k].seq # events[i].seq
      BY <1>0, <2>7 DEF NumberInv, EventOnce
    <3>2. k \in 1 .. i - 1 /\ events[k].seq > events[i].seq
      BY <1>0, <2>1, <2>7, <3>1
    <3> QED
      BY <3>2 DEF Owed, Overtaken
  <2>8. Behind(r)
    BY <2>6, <2>7 DEF Behind
  <2> QED
    BY <2>6, <2>8 DEF r
<1> QED
  BY <1>1, <1>2

LEMMA RelaySound ==
  ASSUME TypeInv, NumberInv, NEW acc, Relays(acc), Behind(acc)
  PROVE  Relays(FoldLeft(RelayOne, acc, events)) /\ Behind(FoldLeft(RelayOne, acc, events))
<1>0. events \in Seq(Event) /\ seq \in Nat /\ DOMAIN events = 1 .. Len(events) /\ Len(events) \in Nat
  BY DEF TypeInv, RunType
<1>1. \A k \in 1 .. Len(events) : events[k] \in Event /\ events[k].seq \in Seqs(events) /\ events[k].seq <= seq
  BY <1>0 DEF NumberInv, Counted, Elems, Seqs
<1>2. PICK h : /\ h[0] = acc
               /\ \A k \in 1 .. Len(events) : h[k] = RelayOne(h[k - 1], events[k])
               /\ FoldLeft(RelayOne, acc, events) = h[Len(events)]
  BY <1>0, RelayFold
<1> DEFINE Looped(k) ==
             /\ Relays(h[k]) /\ Behind(h[k])
             /\ \A i \in DOMAIN events : i <= k /\ Owed(i) => Posted(h[k], i)
           S == {k \in Nat : k <= Len(events) => Looped(k)}
<1>3. 0 \in S
  BY <1>0, <1>2
<1>4. ASSUME NEW k \in Nat, k \in S PROVE k + 1 \in S
  <2> SUFFICES ASSUME k + 1 <= Len(events) PROVE Looped(k + 1)
    OBVIOUS
  <2>1. k + 1 \in 1 .. Len(events) /\ (k + 1) - 1 = k /\ Looped(k)
    BY <1>0, <1>4
  <2>2. h[k + 1] = RelayOne(h[k], events[k + 1])
    BY <1>2, <2>1
  <2>3. Relays(h[k + 1])
    BY <1>0, <1>1, <2>1, <2>2, RelayOneSound
  <2>4. \A i \in DOMAIN events : i < k + 1 => i <= k
    BY <1>0
  <2>5. Behind(h[k + 1]) /\ \A i \in DOMAIN events : i <= k + 1 /\ Owed(i) => Posted(h[k + 1], i)
    BY <1>0, <2>1, <2>2, <2>4, RelayOneCovers
  <2> QED
    BY <2>3, <2>5
<1> HIDE DEF S
<1>5. \A k \in Nat : k \in S
  BY <1>3, <1>4, SetInduction
<1>6. Relays(h[Len(events)]) /\ Behind(h[Len(events)])
  BY <1>0, <1>5 DEF S
<1> QED
  BY <1>2, <1>6

RelayInv ==
  Relays([cursor |-> cursor, posts |-> relayed]) /\ Behind([cursor |-> cursor, posts |-> relayed])

(* The row's word, which only the goroutine and the recovery write.        *)
RowWord == row \in RunStatuses \cup {None}

LEMMA RowWordStep == TypeInv /\ RowWord /\ [Next]_vars => RowWord'
<1> SUFFICES ASSUME TypeInv, RowWord, [Next]_vars PROVE RowWord'
  OBVIOUS
<1> USE DEF runVars, brokerVars, engineVars, storeVars, relayVars
<1>1. status \in RunStatuses
  BY DEF TypeInv, RunType
<1>2. row' = row \/ row' \in {"running", "failed"} \/ row' = status
  <2>1. CASE Goroutine
    BY <2>1 DEF Goroutine, Create, LaunchFails, Launch, AgentEnds, AgentRetries, GateAsks, Wait, WaitReturns,
                GateEnds, EmitTerminal, SaveRow, Pick, Skip, Returns
  <2>2. CASE \E w \in Emitters : EmitStep(w)
    BY <2>2 DEF EmitStep, TakeSeq, Publish, Project, ToNats, AppendLog
  <2>3. CASE Echo \/ RelayEvents \/ Crash \/ Recover \/ Idle \/ UNCHANGED vars
    BY <2>3 DEF Echo, RelayEvents, Crash, Recover, Idle, vars
  <2>4. ASSUME NEW g \in Ids, NEW d \in {"approved", "rejected"}, Resolve(g, d) \/ RecordReview(g) \/ Release(g)
        PROVE  row' = row
    BY <2>4 DEF Resolve, RecordReview, Release
  <2>5. ASSUME NEW c \in Clients, Subscribe(c) \/ Read(c) PROVE row' = row
    BY <2>5 DEF Subscribe, SubscribeWith, Read
  <2> QED
    BY <2>1, <2>2, <2>3, <2>4, <2>5 DEF Next
<1> QED
  BY <1>1, <1>2 DEF RowWord, RunStatuses

LEMMA RowWordAlways == Spec => []RowWord
<1>1. Init => RowWord
  BY DEF Init, RowWord
<1> QED
  BY <1>1, RowWordStep, TypeAlways, PTL DEF Spec

(* An event that is published behind the cursor was overtaken: the cursor  *)
(* is the number of an event that is in the history already.               *)
LEMMA RelayPublish ==
  ASSUME TypeInv, NumberInv, RelayInv, UNCHANGED <<cursor, relayed, seq>>,
         NEW ev \in Event, ev.seq \notin Seqs(events), ev.seq \in 1 .. seq, events' = Append(events, ev)
  PROVE  RelayInv'
<1> DEFINE q == events'
<1>0. /\ events \in Seq(Event) /\ DOMAIN events = 1 .. Len(events) /\ Len(events) \in Nat
      /\ \A i \in DOMAIN events : events[i].seq \in Nat
      /\ cursor \in Nat /\ ev.seq \in Nat /\ seq \in Nat
  <2>1. cursor \in Nat /\ seq \in Nat
    BY DEF TypeInv, RunType, RelayInv, Relays
  <2>2. ev.seq \in Nat
    BY DEF Event
  <2> QED
    BY <2>1, <2>2, HistoryType
<1> PICK top : top = Len(events) + 1
  OBVIOUS
<1>1. /\ DOMAIN q = 1 .. top /\ q[top] = ev
      /\ \A i \in 1 .. Len(events) : q[i] = events[i]
  BY <1>0, Grown
<1> HIDE DEF q
<1>2. Seqs(events) \subseteq Seqs(q)
  BY <1>0, <1>1 DEF Seqs
<1>3. Relays([cursor |-> cursor, posts |-> relayed])'
  <2>1. Seqs(events)' = Seqs(q)
    BY DEF q, Seqs
  <2> QED
    BY <1>2, <2>1 DEF RelayInv, Relays
<1>4. ASSUME NEW i \in DOMAIN events PROVE Owed(i)' => Owed(i)
  <2>1. q[i] = events[i] /\ \A j \in 1 .. i - 1 : q[j] = events[j]
    BY <1>0, <1>1
  <2> QED
    BY <2>1 DEF q, Owed, Overtaken, Card, StatusOf
<1>5. ev.seq <= cursor => ~Owed(top)'
  <2> SUFFICES ASSUME ev.seq <= cursor PROVE Overtaken(top)'
    BY DEF Owed
  <2>0. cursor # 0
    BY <1>0
  <2>1. PICK j \in DOMAIN events : events[j].seq = cursor
    BY <2>0 DEF RelayInv, Relays, Seqs
  <2>2. ev.seq # cursor
    BY <2>1 DEF Seqs
  <2>3. j \in 1 .. top - 1
    BY <1>0
  <2>4. q[j] = events[j] /\ q[top] = ev
    BY <1>0, <1>1
  <2>5. q[j].seq > q[top].seq
    BY <1>0, <2>1, <2>2, <2>4
  <2> QED
    BY <2>3, <2>5 DEF q, Overtaken
<1>6. ASSUME NEW i \in DOMAIN q, Owed(i)', q[i].seq <= cursor
      PROVE  \E k \in DOMAIN relayed : relayed[k] = q[i].seq
  <2>1. i \in DOMAIN events
    BY <1>0, <1>1, <1>5, <1>6
  <2>2. q[i] = events[i]
    BY <1>0, <1>1, <2>1
  <2> QED
    BY <1>4, <1>6, <2>1, <2>2 DEF RelayInv, Behind, Posted
<1>7. Behind([cursor |-> cursor, posts |-> relayed])'
  BY <1>6 DEF q, Behind, Posted
<1> QED
  BY <1>3, <1>7 DEF RelayInv

LEMMA RelayKept ==
  ASSUME TypeInv, RelayInv, UNCHANGED <<cursor, relayed, events>>, seq' \in Nat, seq <= seq'
  PROVE  RelayInv'
<1>1. seq \in Nat
  BY DEF TypeInv, RunType
<1> QED
  BY <1>1 DEF RelayInv, Relays, Behind, Owed, Overtaken, Posted, Seqs

LEMMA RelayStep == TypeInv /\ NumberInv /\ RelayInv /\ [Next]_vars => RelayInv'
<1> SUFFICES ASSUME TypeInv, NumberInv, RelayInv, [Next]_vars PROVE RelayInv'
  OBVIOUS
<1> USE DEF runVars, brokerVars, engineVars, storeVars, relayVars
<1>0. seq \in Nat
  BY DEF TypeInv, RunType
<1>1. ASSUME UNCHANGED <<seq, events, cursor, relayed>> PROVE RelayInv'
  BY <1>0, <1>1, RelayKept
<1>2. ASSUME NEW w \in Emitters, EmitStep(w) PROVE RelayInv'
  <2>1. CASE Publish(w)
    <3>1. /\ em[w].at = "publish" /\ events' = Append(events, em[w].ev)
          /\ UNCHANGED <<seq, cursor, relayed>>
      BY <2>1 DEF Publish, At, Deliver
    <3>2. em[w].ev.seq \notin Seqs(events) /\ em[w].ev.seq \in 1 .. seq /\ em[w].ev \in Event
      BY <3>1 DEF NumberInv, Recorded, Counted, InHand, TypeInv, RunType
    <3> QED
      BY <3>1, <3>2, RelayPublish
  <2>2. CASE ~Publish(w)
    <3>1. UNCHANGED <<events, cursor, relayed>> /\ (seq' = seq \/ seq' = seq + 1)
      BY <1>2, <2>2 DEF EmitStep, TakeSeq, Project, ToNats, AppendLog
    <3> QED
      BY <1>0, <3>1, RelayKept
  <2> QED
    BY <2>1, <2>2
<1>3. CASE Goroutine
  <2>1. UNCHANGED <<cursor, relayed>>
    BY <1>3 DEF Goroutine, Create, LaunchFails, Launch, AgentEnds, AgentRetries, GateAsks, Wait, WaitReturns,
                GateEnds, EmitTerminal, SaveRow, Pick, Skip, Returns
  <2> QED
    BY <1>1, <1>3, <2>1, GoroutineKeeps
<1>4. CASE Echo
  <2>1. UNCHANGED <<seq, events, cursor, relayed>>
    BY <1>4, EchoIgnored DEF Echo
  <2> QED
    BY <1>1, <2>1
<1>5. CASE RelayEvents
  <2>1. /\ Relays(FoldLeft(RelayOne, [cursor |-> cursor, posts |-> relayed], events))
        /\ Behind(FoldLeft(RelayOne, [cursor |-> cursor, posts |-> relayed], events))
    BY RelaySound DEF RelayInv
  <2> DEFINE r == FoldLeft(RelayOne, [cursor |-> cursor, posts |-> relayed], events)
  <2>2. cursor' = r.cursor /\ relayed' = r.posts /\ UNCHANGED <<seq, events>>
    BY <1>5 DEF RelayEvents
  <2> HIDE DEF r
  <2>3. Relays(r) /\ Behind(r)
    BY <2>1 DEF r
  <2> QED
    BY <2>2, <2>3 DEF RelayInv, Relays, Behind, Owed, Overtaken, Posted, Seqs
<1>6. ASSUME NEW g \in Ids, NEW d \in {"approved", "rejected"},
             Resolve(g, d) \/ RecordReview(g) \/ Release(g)
      PROVE  RelayInv'
  <2>1. UNCHANGED <<seq, events, cursor, relayed>>
    BY <1>6 DEF Resolve, RecordReview, Release
  <2> QED
    BY <1>1, <2>1
<1>7. ASSUME NEW c \in Clients, Subscribe(c) \/ Read(c) PROVE RelayInv'
  <2>1. UNCHANGED <<seq, events, cursor, relayed>>
    BY <1>7 DEF Subscribe, SubscribeWith, Read
  <2> QED
    BY <1>1, <2>1
<1>8. CASE Crash \/ Recover \/ Idle \/ UNCHANGED vars
  <2>1. UNCHANGED <<seq, events, cursor, relayed>>
    BY <1>8 DEF Crash, Recover, Idle, vars
  <2> QED
    BY <1>1, <2>1
<1> QED
  BY <1>2, <1>3, <1>4, <1>5, <1>6, <1>7, <1>8 DEF Next

LEMMA RelayInit == Init => RelayInv
<1> SUFFICES ASSUME Init PROVE RelayInv
  OBVIOUS
<1>1. cursor = 0 /\ relayed = <<>> /\ seq = 0 /\ events = <<>>
  BY DEF Init
<1>2. <<>> \in Seq(Nat) /\ DOMAIN <<>> = {}
  OBVIOUS
<1> QED
  BY <1>1, <1>2 DEF RelayInv, Relays, Behind

LEMMA RelayAlways == Spec => []RelayInv
<1>1. Init => RelayInv
  BY RelayInit
<1>2. TypeInv /\ NumberInv /\ RelayInv /\ [Next]_vars => RelayInv'
  BY RelayStep
<1>3. Spec => []TypeInv
  BY TypeAlways
<1>4. Spec => [](NumberInv /\ GateInv)
  BY NumberGateAlways
<1> QED
  BY <1>1, <1>2, <1>3, <1>4, PTL DEF Spec

(* Whatever order the emitters publish in and whenever the relay looks: it *)
(* posts in the order of the numbers, nothing twice, and misses behind its *)
(* cursor no card but one that a later number overtook on its way into the *)
(* history.                                                                *)
THEOREM RelayCorrect == Spec => []RelayExact
<1>1. RelayInv => RelayExact
  BY DEF RelayInv, Relays, Behind, Owed, Posted, RelayExact
<1> QED
  BY <1>1, RelayAlways, PTL

(* The types of the run's fields, and that the cursor of the relay never   *)
(* passes the numbers that were given out.                                 *)
THEOREM TypeCorrect == Spec => []TypeOK
<1>1. TypeInv /\ RelayInv /\ RowWord => TypeOK
  <2> SUFFICES ASSUME TypeInv, RelayInv, RowWord PROVE TypeOK
    OBVIOUS
  <2>1. \A i \in DOMAIN events : events[i] \in Event
    BY DEF TypeInv, RunType
  <2>2. \A w \in Emitters : em[w].ev \in Event
    BY DEF TypeInv, RunType
  <2>3. row \in RunStatuses \cup {None}
    BY DEF RowWord
  <2> QED
    BY <2>1, <2>2, <2>3 DEF TypeOK, TypeInv, RunType, BrokerType, EngineType, RelayInv, Relays
<1> QED
  BY <1>1, TypeAlways, RelayAlways, RowWordAlways, PTL

-----------------------------------------------------------------------------
(***************************************************************************)
(* RunOutcome.  The engine asks a gate and goes past it while the run is   *)
(* under way; the terminal event is appended once, when nothing but the    *)
(* row is left to write.                                                   *)
(***************************************************************************)
Words == {ev.what : ev \in {e \in Elems(log) : e.node = None}} \cap Terminal

LEMMA WordsAnnounced == Announced = Words
BY DEF Announced, Words, Elems

UnderWay == {"new", "launch", "pick", "exec", "wait", "blocked", "answered", "skip", "ended"}

EndInv ==
  /\ pc \in UnderWay \cup {"save"} => row \notin Terminal
  /\ pc \in UnderWay \cup {"unlaunched"} =>
       Words = {} /\ (em["engine"].ev.node = None => em["engine"].ev.what = "running")
  /\ pc = "save" =>
       \/ /\ em["engine"].at \in InHand \cup {"seq"} /\ em["engine"].ev.node = None
          /\ em["engine"].ev.what = status /\ Words = {}
       \/ em["engine"].at = "idle" /\ Words = {status}
  /\ pc \in {"done", "dead", "recovered"} => em["engine"].at = "idle"
  /\ pc \in {"ended", "save", "done"} => status \in Terminal

AskInv ==
  /\ pc = "exec" => node[cur] = "running"
  /\ pc \in {"wait", "blocked", "answered"} => node[cur] = "waiting_approval"
  /\ pc = "answered" => decided[cur] # None

VoteInv ==
  /\ em["engine"].ev.what \notin {"approved", "rejected"}
  /\ \A ev \in Elems(events) : ev.node \in Ids /\ ev.what \in {"approved", "rejected"} => decided[ev.node] = ev.what
  /\ status = "paused" => \E g \in PauseGates : decided[g] = "rejected"

OutInv == EndInv /\ AskInv /\ VoteInv

LEMMA OutInit == Init => OutInv
<1> SUFFICES ASSUME Init PROVE OutInv
  OBVIOUS
<1>1. /\ events = <<>> /\ log = <<>> /\ pc = "new" /\ row = None /\ status = "running"
      /\ em["engine"] = [at |-> "idle", ev |-> NoEvent]
  BY EngineInEmitters DEF Init
<1>2. Elems(events) = {} /\ Words = {}
  BY <1>1 DEF Elems, Words
<1>3. row \notin Terminal
  BY <1>1, RunAssumption DEF Terminal, Init
<1>4. em["engine"].ev.what = "running"
  BY <1>1 DEF NoEvent
<1>5. EndInv
  BY <1>1, <1>2, <1>3, <1>4 DEF EndInv, UnderWay
<1>6. AskInv /\ VoteInv
  BY <1>1, <1>2, <1>4 DEF AskInv, VoteInv
<1> QED
  BY <1>5, <1>6 DEF OutInv

(* What the engine's own steps do to the row and to where it is.           *)
LEMMA EndGoroutine ==
  ASSUME TypeInv, EndInv, Goroutine
  PROVE  EndInv'
<1> USE DEF Engine, At, runVars, brokerVars, engineVars, storeVars, relayVars
<1>0. Words' = Words
  <2>1. UNCHANGED log
    BY GoroutineKeeps
  <2> QED
    BY <2>1 DEF Words, Elems
<1>1. ASSUME NEW n \in Nodes, NEW what \in NodeStatuses, Starts(n, what), pc \in UnderWay, pc' \in UnderWay \ {"ended"},
             UNCHANGED row
      PROVE  EndInv'
  <2>1. em'["engine"].ev.node = n /\ n # None
    BY <1>1, EmitEffect, EngineInEmitters, RunAssumption DEF Starts, TypeInv, NodeWords, Nodes
  <2> QED
    BY <1>0, <1>1, <2>1 DEF EndInv, UnderWay
<1>2. ASSUME NEW n \in Nodes, Pick(n) \/ Skip(n) PROVE EndInv'
  <2>1. /\ Starts(n, "running") \/ Starts(n, "skipped")
        /\ pc \in UnderWay /\ pc' \in UnderWay \ {"ended"} /\ UNCHANGED row
    BY <1>2 DEF Pick, Skip, Walked, Starts, UnderWay
  <2> QED
    BY <1>1, <2>1 DEF NodeStatuses
<1>3. CASE AgentEnds \/ AgentRetries \/ GateAsks \/ GateEnds
  <2>1. cur \in Nodes
    BY <1>3 DEF AgentEnds, AgentRetries, GateAsks, GateEnds, TypeInv, EngineType, Nodes
  <2>2. /\ \E what \in {"completed", "failed", "retrying", "waiting_approval"} : Starts(cur, what)
        /\ pc \in UnderWay /\ pc' \in UnderWay \ {"ended"} /\ UNCHANGED row
    BY <1>3 DEF AgentEnds, AgentRetries, GateAsks, GateEnds, Starts, UnderWay
  <2> QED
    BY <1>1, <2>1, <2>2 DEF NodeStatuses
<1>4. CASE Create \/ LaunchFails \/ Wait \/ WaitReturns
  <2>1. /\ UNCHANGED <<em, status>> /\ pc \in UnderWay /\ pc' \in (UnderWay \ {"ended"}) \cup {"unlaunched"}
        /\ row' = row \/ row' = "running" \/ pc' = "unlaunched"
    BY <1>4 DEF Create, LaunchFails, Wait, WaitReturns, UnderWay
  <2> QED
    BY <1>0, <2>1 DEF EndInv, UnderWay, Terminal
<1>5. CASE Launch
  <2>1. Starts(None, "running") /\ pc = "launch" /\ pc' = "pick" /\ UNCHANGED row
    BY <1>5 DEF Launch, Starts
  <2>2. em'["engine"].ev.what = "running"
    BY <2>1, EmitEffect, EngineInEmitters DEF Starts, TypeInv, RunStatuses
  <2> QED
    BY <1>0, <2>1, <2>2 DEF EndInv, UnderWay
<1>6. ASSUME NEW err \in BOOLEAN, Returns(err) PROVE EndInv'
  <2>1. UNCHANGED <<em, row>> /\ pc \in UnderWay /\ pc' = "ended" /\ status' \in Terminal
    BY <1>6, FinalWord DEF Returns, Walked, UnderWay, Terminal
  <2> QED
    BY <1>0, <2>1 DEF EndInv, UnderWay
<1>7. CASE EmitTerminal
  <2>1. Starts(None, status) /\ pc = "ended" /\ pc' = "save" /\ UNCHANGED <<row, status>>
    BY <1>7 DEF EmitTerminal, Starts
  <2>2. em'["engine"].at = "seq" /\ em'["engine"].ev.node = None /\ em'["engine"].ev.what = status
    BY <2>1, EmitEffect, EngineInEmitters DEF Starts, TypeInv, RunType
  <2> QED
    BY <1>0, <2>1, <2>2 DEF EndInv, UnderWay
<1>8. CASE SaveRow
  <2>1. UNCHANGED <<em, status>> /\ pc = "save" /\ pc' = "done" /\ em["engine"].at = "idle"
    BY <1>8 DEF SaveRow
  <2> QED
    BY <2>1 DEF EndInv, UnderWay
<1> QED
  BY <1>2, <1>3, <1>4, <1>5, <1>6, <1>7, <1>8 DEF Goroutine

(* What an append adds to the terminal words of the log.                   *)
LEMMA WordsGrow ==
  ASSUME TypeInv, NumberInv, NEW w \in Emitters, EmitStep(w)
  PROVE  \/ Words' = Words
         \/ /\ em[w].at = "append" /\ em[w].ev.node = None /\ em[w].ev.what \in Terminal
            /\ Words' = Words \cup {em[w].ev.what}
<1>1. log \in Seq(Event) /\ em[w].ev \in Event
  BY DEF TypeInv, RunType
<1>2. log' = log \/ (em[w].at = "append" /\ log' = Append(log, em[w].ev))
  BY EmitMoves
<1>3. Elems(Append(log, em[w].ev)) = Elems(log) \cup {em[w].ev}
  BY <1>1, GrownElems
<1>4. Elems(log)' = Elems(log')
  BY DEF Elems
<1>5. CASE log' = log
  BY <1>5 DEF Words, Elems
<1>6. CASE em[w].at = "append" /\ Elems(log)' = Elems(log) \cup {em[w].ev}
  BY <1>6 DEF Words
<1> QED
  BY <1>2, <1>3, <1>4, <1>5, <1>6

LEMMA EndEmit ==
  ASSUME TypeInv, NumberInv, GateInv, EndInv, NEW w \in Emitters, EmitStep(w)
  PROVE  EndInv'
<1>1. /\ UNCHANGED <<pc, status, row>>
      /\ em'[w].ev.node = em[w].ev.node /\ em'[w].ev.what = em[w].ev.what
      /\ \A v \in Emitters : v # w => em'[v] = em[v]
  BY EmitMoves DEF engineVars
<1>2. CASE w # "engine"
  <2>1. em'["engine"] = em["engine"] /\ w \in Ids
    BY <1>1, <1>2, EngineInEmitters DEF Emitters
  <2>2. em[w].at = "append" => em[w].ev.node # None
    BY <2>1, EngineInEmitters DEF GateInv, InHand
  <2>3. Words' = Words
    BY <2>2, WordsGrow
  <2> QED
    BY <1>1, <2>1, <2>3 DEF EndInv
<1>3. CASE w = "engine"
  <2>1. /\ em[w].at # "idle"
        /\ em'[w].at \in InHand \/ (em[w].at = "append" /\ em'[w].at = "idle")
    BY <1>3, EmitMoves DEF InHand
  <2>2. CASE pc \in UnderWay \cup {"unlaunched"}
    <3>1. Words' = Words
      BY <1>3, <2>2, WordsGrow DEF EndInv, Terminal
    <3> QED
      BY <1>1, <1>3, <2>2, <3>1 DEF EndInv, UnderWay
  <2>3. CASE pc = "save"
    <3>1. em[w].ev.node = None /\ em[w].ev.what = status /\ Words = {} /\ status \in Terminal /\ row \notin Terminal
      BY <1>3, <2>1, <2>3 DEF EndInv
    <3>2. CASE em[w].at = "append" /\ em'[w].at = "idle"
      <4>1. Words' = Words \cup {status}
        <5>1. em[w].ev \in Elems(log)' /\ Elems(log) \subseteq Elems(log)'
          BY <3>2, EmitGrows
        <5>2. status \in Words'
          BY <3>1, <5>1 DEF Words
        <5> QED
          BY <3>1, <5>2, WordsGrow
      <4> QED
        BY <1>1, <1>3, <2>3, <3>1, <3>2, <4>1 DEF EndInv, UnderWay
    <3>3. CASE em'[w].at \in InHand
      <4>1. em[w].at # "append"
        BY <1>3, <3>3, EmitMoves DEF InHand
      <4>2. Words' = Words
        BY <4>1, WordsGrow
      <4> QED
        BY <1>1, <1>3, <2>3, <3>1, <3>3, <4>2 DEF EndInv, UnderWay
    <3> QED
      BY <2>1, <3>2, <3>3
  <2>5. pc \notin {"done", "dead", "recovered"}
    BY <1>3, <2>1 DEF EndInv
  <2> QED
    BY <2>2, <2>3, <2>5 DEF TypeInv, EngineType, Places, UnderWay
<1> QED
  BY <1>2, <1>3

LEMMA EndStep == TypeInv /\ NumberInv /\ GateInv /\ EndInv /\ [Next]_vars => EndInv'
<1> SUFFICES ASSUME TypeInv, NumberInv, GateInv, EndInv, [Next]_vars PROVE EndInv'
  OBVIOUS
<1> USE DEF runVars, brokerVars, engineVars, storeVars, relayVars
<1>1. ASSUME NEW g \in Ids, NEW d \in {"approved", "rejected"},
             Resolve(g, d) \/ RecordReview(g) \/ Release(g)
      PROVE  EndInv'
  <2>1. UNCHANGED <<pc, status, row, log>>
    BY <1>1 DEF Resolve, RecordReview, Release
  <2>2. em'["engine"] = em["engine"]
    BY <1>1, ResolveKeeps, GateKeeps, EngineInEmitters
  <2>3. Words' = Words
    BY <2>1 DEF Words, Elems
  <2> QED
    BY <2>1, <2>2, <2>3 DEF EndInv
<1>2. CASE \/ Echo \/ RelayEvents \/ Recover \/ Crash \/ Idle
           \/ \E c \in Clients : Subscribe(c) \/ Read(c)
           \/ UNCHANGED vars
  <2>1. /\ UNCHANGED <<log, status>>
        /\ UNCHANGED em \/ (Crash /\ em'["engine"].at = "idle")
        /\ pc' = pc \/ pc' \in {"dead", "recovered"}
    BY <1>2, OthersKeep, EngineInEmitters
  <2>2. row' = row \/ Recover
    BY <1>2 DEF Echo, RelayEvents, Crash, Idle, Subscribe, SubscribeWith, Read, vars
  <2>3. CASE pc' \in {"dead", "recovered"}
    <3>1. Crash \/ pc \in {"dead", "recovered"}
      BY <1>2, <2>3 DEF Echo, RelayEvents, Recover, Idle, Subscribe, SubscribeWith, Read, vars
    <3>2. em'["engine"].at = "idle"
      BY <2>1, <3>1, EngineInEmitters DEF EndInv, Crash
    <3> QED
      BY <2>3, <3>2 DEF EndInv, UnderWay
  <2>4. CASE pc' \notin {"dead", "recovered"}
    <3>1. UNCHANGED <<pc, em, row>>
      BY <2>1, <2>2, <2>4 DEF Crash, Recover
    <3>2. Words' = Words
      BY <2>1 DEF Words, Elems
    <3> QED
      BY <2>1, <3>1, <3>2 DEF EndInv
  <2> QED
    BY <2>3, <2>4
<1> QED
  BY <1>1, <1>2, EndGoroutine, EndEmit DEF Next

(* A gate that is executed was asked, and is passed after its decision.    *)
LEMMA AskGoroutine ==
  ASSUME TypeInv, GateInv, AskInv, Goroutine
  PROVE  AskInv'
<1> USE DEF Engine, At, runVars, brokerVars, engineVars, storeVars, relayVars
<1>1. node \in [Nodes -> NodeStatuses]
  BY DEF TypeInv, EngineType
<1>2. ASSUME NEW n \in Nodes, Pick(n) PROVE AskInv'
  BY <1>1, <1>2 DEF Pick, AskInv
<1>3. CASE GateAsks
  <2>1. cur \in Nodes /\ pc' = "wait" /\ cur' = cur /\ node' = [node EXCEPT ![cur] = "waiting_approval"]
    BY <1>3 DEF GateAsks, Nodes
  <2> QED
    BY <1>1, <2>1 DEF AskInv
<1>4. CASE Wait \/ WaitReturns
  <2>1. UNCHANGED <<cur, node, decided>> /\ pc \in {"wait", "blocked"} /\ pc' \in {"blocked", "answered"}
    BY <1>4 DEF Wait, WaitReturns
  <2>2. ASSUME pc' = "answered" PROVE decided[cur] # None
    <3>1. CASE Wait
      BY <2>2, <3>1 DEF Wait
    <3>2. CASE WaitReturns
      BY <3>2 DEF WaitReturns, GateInv, Reviewed
    <3> QED
      BY <1>4, <3>1, <3>2
  <2>3. node[cur] = "waiting_approval"
    BY <2>1 DEF AskInv
  <2> QED
    BY <2>1, <2>2, <2>3 DEF AskInv
<1>5. CASE \/ Create \/ LaunchFails \/ Launch \/ AgentEnds \/ AgentRetries \/ GateEnds \/ EmitTerminal \/ SaveRow
           \/ \E n \in Nodes : Skip(n)
           \/ \E err \in BOOLEAN : Returns(err)
  <2>1. pc' \notin {"exec", "wait", "blocked", "answered"}
    BY <1>5 DEF Create, LaunchFails, Launch, AgentEnds, AgentRetries, GateEnds, EmitTerminal, SaveRow, Skip, Returns
  <2> QED
    BY <2>1 DEF AskInv
<1> QED
  BY <1>2, <1>3, <1>4, <1>5 DEF Goroutine

LEMMA AskStep == TypeInv /\ NumberInv /\ GateInv /\ AskInv /\ [Next]_vars => AskInv'
<1> SUFFICES ASSUME TypeInv, NumberInv, GateInv, AskInv, [Next]_vars PROVE AskInv'
  OBVIOUS
<1> USE DEF runVars, brokerVars, engineVars, storeVars, relayVars
<1>1. ASSUME NEW w \in Emitters, EmitStep(w) PROVE AskInv'
  <2>1. UNCHANGED <<pc, cur, node, decided>>
    BY <1>1, EmitMoves
  <2> QED
    BY <2>1 DEF AskInv
<1>2. ASSUME NEW g \in Ids, NEW d \in {"approved", "rejected"},
             Resolve(g, d) \/ RecordReview(g) \/ Release(g)
      PROVE  AskInv'
  <2>1. UNCHANGED <<pc, cur, node>>
    BY <1>2 DEF Resolve, RecordReview, Release
  <2>2. \A h \in Ids : decided[h] # None => decided'[h] # None
    BY <1>2, ResolveKeeps, GateKeeps
  <2>3. pc = "answered" => cur \in Ids
    BY EngineInEmitters DEF TypeInv, EngineType
  <2> QED
    BY <2>1, <2>2, <2>3 DEF AskInv
<1>3. CASE \/ Echo \/ RelayEvents \/ Recover \/ Crash \/ Idle
           \/ \E c \in Clients : Subscribe(c) \/ Read(c)
           \/ UNCHANGED vars
  <2>1. UNCHANGED <<decided, cur, node>> /\ (pc' = pc \/ pc' \in {"dead", "recovered"})
    BY <1>3, OthersKeep
  <2> QED
    BY <2>1 DEF AskInv
<1> QED
  BY <1>1, <1>2, <1>3, AskGoroutine DEF Next

(* A review in the history is the decision of its gate, and the run is     *)
(* paused for one that was rejected.                                       *)
LEMMA VoteGoroutine ==
  ASSUME TypeInv, VoteInv, Goroutine
  PROVE  VoteInv'
<1>1. UNCHANGED <<events, decided>>
  BY GoroutineKeeps
<1>2. Elems(events)' = Elems(events)
  BY <1>1 DEF Elems
<1>3. em'["engine"].ev.what \notin {"approved", "rejected"}
  <2>1. ASSUME NEW n \in Nodes, NEW what \in EngineWords, Starts(n, what)
        PROVE  em'["engine"].ev.what \notin {"approved", "rejected"}
    <3>1. em'["engine"].ev.what = what
      BY <2>1, EmitEffect, EngineInEmitters, EngineWordsOk DEF Starts, TypeInv
    <3> QED
      BY <3>1 DEF EngineWords
  <2>2. ASSUME NEW what \in RunStatuses, Starts(None, what)
        PROVE  em'["engine"].ev.what \notin {"approved", "rejected"}
    <3>1. em'["engine"].ev.what = what
      BY <2>2, EmitEffect, EngineInEmitters DEF Starts, TypeInv
    <3> QED
      BY <3>1 DEF RunStatuses
  <2> QED
    BY <2>1, <2>2, GoroutineSays DEF VoteInv
<1>4. status' = status \/ status' = "waiting_approval" \/ \E err \in BOOLEAN : status' = FinalStatus(err)
  BY DEF Goroutine, Create, LaunchFails, Launch, AgentEnds, AgentRetries, GateAsks, Wait, WaitReturns,
         GateEnds, EmitTerminal, SaveRow, Pick, Skip, Returns, runVars
<1>5. ASSUME NEW err \in BOOLEAN, FinalStatus(err) = "paused"
      PROVE  \E g \in PauseGates : decided[g] = "rejected"
  <2>1. PICK g \in PauseGates : \E ev \in Review(g) : ev.what = "rejected"
    BY <1>5 DEF FinalStatus
  <2>2. g \in Ids
    BY RunAssumption, EngineInEmitters
  <2> QED
    BY <2>1, <2>2 DEF VoteInv, Review, Elems
<1> QED
  BY <1>1, <1>2, <1>3, <1>4, <1>5 DEF VoteInv

LEMMA VoteStep == TypeInv /\ NumberInv /\ GateInv /\ VoteInv /\ [Next]_vars => VoteInv'
<1> SUFFICES ASSUME TypeInv, NumberInv, GateInv, VoteInv, [Next]_vars PROVE VoteInv'
  OBVIOUS
<1> USE DEF runVars, brokerVars, engineVars, storeVars, relayVars
<1>1. ASSUME NEW w \in Emitters, EmitStep(w) PROVE VoteInv'
  <2>1. /\ UNCHANGED <<status, decided>> /\ em[w].at \in InHand \cup {"seq"}
        /\ em'[w].ev.what = em[w].ev.what /\ \A v \in Emitters : v # w => em'[v] = em[v]
    BY <1>1, EmitMoves DEF InHand
  <2>2. Elems(events)' \subseteq Elems(events) \cup {em[w].ev}
    BY <1>1, EmitGrows
  <2>3. em'["engine"].ev.what = em["engine"].ev.what
    BY <2>1, EngineInEmitters
  <2>4. em[w].ev.what \in {"approved", "rejected"} => decided[em[w].ev.node] = em[w].ev.what
    <3>1. CASE w = "engine"
      BY <3>1 DEF VoteInv
    <3>2. CASE w # "engine"
      BY <2>1, <3>2 DEF Emitters, GateInv
    <3> QED
      BY <3>1, <3>2
  <2> QED
    BY <2>1, <2>2, <2>3, <2>4 DEF VoteInv
<1>2. ASSUME NEW g \in Ids, NEW d \in {"approved", "rejected"}, Resolve(g, d) PROVE VoteInv'
  <2>1. UNCHANGED <<events, status>> /\ decided[g] = None /\ \A h \in Ids : h # g => decided'[h] = decided[h]
    BY <1>2, ResolveKeeps
  <2>2. em'["engine"] = em["engine"] /\ PauseGates \subseteq Ids
    BY <1>2, ResolveKeeps, EngineInEmitters, RunAssumption
  <2>3. None \notin {"approved", "rejected"}
    BY RunAssumption
  <2>4. Elems(events)' = Elems(events)
    BY <2>1 DEF Elems
  <2>5. \A h \in Ids : decided[h] \in {"approved", "rejected"} => decided'[h] = decided[h]
    BY <2>1, <2>3
  <2> QED
    BY <2>1, <2>2, <2>4, <2>5 DEF VoteInv
<1>3. ASSUME NEW g \in Ids, RecordReview(g) \/ Release(g) PROVE VoteInv'
  <2>1. UNCHANGED <<events, status, decided>>
    BY <1>3 DEF RecordReview, Release
  <2>2. em'["engine"] = em["engine"]
    BY <1>3, GateKeeps, EngineInEmitters
  <2>3. Elems(events)' = Elems(events)
    BY <2>1 DEF Elems
  <2> QED
    BY <2>1, <2>2, <2>3 DEF VoteInv
<1>4. CASE \/ Echo \/ RelayEvents \/ Recover \/ Crash \/ Idle
           \/ \E c \in Clients : Subscribe(c) \/ Read(c)
           \/ UNCHANGED vars
  <2>1. UNCHANGED <<events, status, decided>> /\ (UNCHANGED em \/ Crash)
    BY <1>4, OthersKeep
  <2>2. Crash => em'["engine"].ev.what = "running"
    BY EngineInEmitters DEF Crash, NoEvent
  <2>3. Elems(events)' = Elems(events)
    BY <2>1 DEF Elems
  <2> QED
    BY <2>1, <2>2, <2>3 DEF VoteInv
<1> QED
  BY <1>1, <1>2, <1>3, <1>4, VoteGoroutine DEF Next

LEMMA OutAlways == Spec => []OutInv
<1>1. TypeInv /\ (NumberInv /\ GateInv) /\ OutInv /\ [Next]_vars => OutInv'
  BY EndStep, AskStep, VoteStep DEF OutInv
<1> QED
  BY <1>1, OutInit, TypeAlways, NumberGateAlways, PTL DEF Spec

(* Every step of the run is a step of its promise, or leaves it alone.     *)
LEMMA Unseen ==
  ASSUME UNCHANGED <<decided, node, log>>, Ending' = Ending
  PROVE  UNCHANGED Outcome!vars
BY DEF Outcome!vars, Gating, GateOf, Announced

LEMMA GateOfOther ==
  ASSUME TypeInv, NEW n \in Nodes, NEW what, node' = [node EXCEPT ![n] = what],
         n \in Gates => GateOf(n)' = GateOf(n)
  PROVE  Gating' = Gating
<1>1. \A g \in Gates : GateOf(g)' = GateOf(g)
  <2> TAKE g \in Gates
  <2>1. CASE g = n
    BY <2>1
  <2>2. CASE g # n
    <3>1. node'[g] = node[g]
      BY <2>2 DEF TypeInv, EngineType, Nodes
    <3> QED
      BY <3>1 DEF GateOf
  <2> QED
    BY <2>1, <2>2
<1> QED
  BY <1>1 DEF Gating

LEMMA GateOfMoves ==
  ASSUME TypeInv, NEW g \in Gates, NEW what, node' = [node EXCEPT ![g] = what]
  PROVE  Gating' = [Gating EXCEPT ![g] = GateOf(g)']
<1>1. \A h \in Gates : h # g => GateOf(h)' = GateOf(h)
  BY DEF GateOf, TypeInv, EngineType, Nodes
<1> QED
  BY <1>1 DEF Gating

LEMMA MapsGate ==
  ASSUME TypeInv, OutInv, Goroutine, NEW g \in Gates, NEW what, node' = [node EXCEPT ![g] = what],
         pc \in UnderWay, row' = row, NEW to, GateOf(g)' = to
  PROVE  Outcome!Moves(g, GateOf(g), to)
<1>1. Announced = {} /\ Ending = None
  BY WordsAnnounced DEF OutInv, EndInv, Ending
<1>2. UNCHANGED <<decided, log>>
  BY GoroutineKeeps
<1>3. Announced' = Announced /\ Ending' = Ending
  BY <1>2 DEF Announced, Ending
<1>4. Gating[g] = GateOf(g) /\ Gating' = [Gating EXCEPT ![g] = to]
  BY GateOfMoves DEF Gating
<1> QED
  BY <1>1, <1>2, <1>3, <1>4 DEF Outcome!Moves

LEMMA MapsGoroutine ==
  ASSUME TypeInv, Calm, OutInv, Goroutine
  PROVE  Outcome!Next \/ UNCHANGED Outcome!vars
<1> USE DEF Engine, runVars, brokerVars, engineVars, storeVars, relayVars
<1>0. /\ UNCHANGED <<decided, log>> /\ node \in [Nodes -> NodeStatuses] /\ Gates \subseteq Nodes
      /\ Agents \cap Gates = {}
  BY GoroutineKeeps, RunAssumption DEF TypeInv, EngineType, Nodes
<1>1. ASSUME NEW n \in Nodes, Pick(n) PROVE UNCHANGED Outcome!vars
  <2>1. node[n] \in {"pending", "retrying"} /\ node' = [node EXCEPT ![n] = "running"] /\ row' = row
    BY <1>1 DEF Pick
  <2>2. node'[n] = "running"
    BY <1>0, <2>1
  <2>3. GateOf(n)' = GateOf(n)
    BY <2>1, <2>2 DEF GateOf
  <2>4. Gating' = Gating
    BY <2>1, <2>3, GateOfOther
  <2> QED
    BY <1>0, <2>1, <2>4 DEF Outcome!vars, Announced, Ending
<1>2. ASSUME NEW n \in Nodes, Skip(n) PROVE Outcome!Next \/ UNCHANGED Outcome!vars
  <2>1. node[n] = "pending" /\ node' = [node EXCEPT ![n] = "skipped"] /\ row' = row /\ pc \in UnderWay
    BY <1>2 DEF Skip, Walked, UnderWay
  <2>2. CASE n \in Gates
    <3>1. GateOf(n) = "closed" /\ GateOf(n)' = "skipped"
      BY <1>0, <2>1 DEF GateOf
    <3>2. Outcome!Skip(n)
      BY <2>1, <2>2, <3>1, MapsGate DEF Outcome!Skip
    <3> QED
      BY <2>2, <3>2 DEF Outcome!Next
  <2>3. CASE n \notin Gates
    <3>1. Gating' = Gating
      BY <2>1, <2>3, GateOfOther
    <3> QED
      BY <1>0, <2>1, <3>1 DEF Outcome!vars, Announced, Ending
  <2> QED
    BY <2>2, <2>3
<1>3. CASE AgentEnds \/ AgentRetries
  <2>1. /\ cur \in Nodes /\ cur \notin Gates /\ row' = row
        /\ \E what \in {"completed", "failed", "retrying"} : node' = [node EXCEPT ![cur] = what]
    BY <1>0, <1>3 DEF AgentEnds, AgentRetries, Nodes
  <2>2. Gating' = Gating
    BY <2>1, GateOfOther
  <2> QED
    BY <1>0, <2>1, <2>2 DEF Outcome!vars, Announced, Ending
<1>4. CASE GateAsks
  <2>1. /\ cur \in Gates /\ node' = [node EXCEPT ![cur] = "waiting_approval"] /\ row' = row
        /\ pc \in UnderWay /\ node[cur] = "running"
    BY <1>4 DEF GateAsks, UnderWay, OutInv, AskInv
  <2>2. GateOf(cur) = "closed" /\ GateOf(cur)' = "asked"
    <3>1. node'[cur] = "waiting_approval" /\ cur' = cur
      BY <1>0, <1>4, <2>1 DEF GateAsks
    <3> QED
      BY <2>1, <3>1 DEF GateOf
  <2>3. PICK g \in Gates : g = cur
    BY <2>1
  <2>4. GateOf(g) = "closed" /\ GateOf(g)' = "asked"
    <3>1. node'[g] = "waiting_approval" /\ node[g] = "running"
      BY <1>0, <2>1, <2>3
    <3> QED
      BY <3>1 DEF GateOf
  <2>5. Outcome!Ask(g)
    BY <2>1, <2>3, <2>4, MapsGate DEF Outcome!Ask
  <2> QED
    BY <2>5 DEF Outcome!Next
<1>5. CASE GateEnds
  <2>1. /\ cur \in Gates /\ node' = [node EXCEPT ![cur] = "completed"] /\ row' = row
        /\ pc \in UnderWay /\ node[cur] = "waiting_approval" /\ decided[cur] # None
    BY <1>5 DEF GateEnds, UnderWay, OutInv, AskInv, TypeInv, EngineType
  <2>2. PICK g \in Gates : g = cur
    BY <2>1
  <2>3. GateOf(g) = "asked" /\ GateOf(g)' = "passed"
    <3>1. node'[g] = "completed" /\ node[g] = "waiting_approval"
      BY <1>0, <2>1, <2>2
    <3> QED
      BY <3>1 DEF GateOf
  <2>4. Outcome!Pass(g)
    BY <2>1, <2>2, <2>3, MapsGate DEF Outcome!Pass
  <2> QED
    BY <2>4 DEF Outcome!Next
<1>6. CASE Wait \/ WaitReturns \/ Launch \/ EmitTerminal \/ \E err \in BOOLEAN : Returns(err)
  <2>1. UNCHANGED <<node, row>>
    BY <1>6 DEF Wait, WaitReturns, Launch, EmitTerminal, Returns
  <2> QED
    BY <1>0, <2>1, Unseen DEF Ending
<1>7. CASE Create
  <2>1. UNCHANGED node /\ row' = "running" /\ row \notin Terminal
    BY <1>7 DEF Create, OutInv, EndInv, UnderWay
  <2> QED
    BY <1>0, <2>1, Unseen DEF Ending, Terminal
<1>8. ASSUME UNCHANGED node, row \notin Terminal, row' \in Announced \cup {"failed"}
      PROVE  Outcome!Next
  <2>1. row' \in Terminal /\ row' \in {"completed", "paused", "failed"}
    BY <1>8 DEF Announced, Terminal
  <2>2. Outcome!Settle(row')
    <3>1. Ending = None /\ Ending' = row'
      BY <1>8, <2>1 DEF Ending
    <3>2. Gating' = Gating /\ Announced' = Announced
      BY <1>0, <1>8 DEF Gating, GateOf, Announced
    <3> QED
      BY <1>0, <1>8, <3>1, <3>2 DEF Outcome!Settle
  <2> QED
    BY <2>1, <2>2 DEF Outcome!Next
<1>9. CASE LaunchFails
  <2>1. UNCHANGED node /\ row' = "failed" /\ row \notin Terminal
    BY <1>9 DEF LaunchFails, OutInv, EndInv, UnderWay
  <2> QED
    BY <1>8, <2>1
<1>10. CASE SaveRow
  <2>1. UNCHANGED node /\ row' = status /\ pc = "save" /\ em["engine"].at = "idle"
    BY <1>10 DEF SaveRow, At
  <2>2. row \notin Terminal /\ Words = {status}
    BY <2>1 DEF OutInv, EndInv, InHand
  <2> QED
    BY <1>8, <2>1, <2>2, WordsAnnounced
<1> QED
  BY <1>1, <1>2, <1>3, <1>4, <1>5, <1>6, <1>7, <1>9, <1>10 DEF Goroutine

LEMMA MapsEmit ==
  ASSUME TypeInv, NumberInv, GateInv, FinalHonest, OutInv, NEW w \in Emitters, EmitStep(w)
  PROVE  Outcome!Next \/ UNCHANGED Outcome!vars
<1>1. UNCHANGED <<decided, node, row>>
  BY EmitMoves DEF brokerVars, engineVars
<1>2. Gating' = Gating /\ Ending' = Ending
  BY <1>1 DEF Gating, GateOf, Ending
<1>3. Announced = Words /\ Announced' = Words'
  BY WordsAnnounced DEF Announced, Words, Elems
<1>4. CASE Words' = Words
  BY <1>1, <1>2, <1>3, <1>4 DEF Outcome!vars
<1>5. CASE /\ em[w].at = "append" /\ em[w].ev.node = None /\ em[w].ev.what \in Terminal
           /\ Words' = Words \cup {em[w].ev.what}
  <2> DEFINE o == em[w].ev.what
  <2>1. w = "engine"
    BY <1>5, EngineInEmitters DEF GateInv, InHand, Emitters
  <2>2. CASE pc = "save"
    <3>1. Words = {} /\ o = status /\ row \notin Terminal
      BY <1>5, <2>1, <2>2 DEF OutInv, EndInv
    <3>2. o \in {"completed", "paused", "failed"}
      BY <1>5 DEF Terminal
    <3>3. o = "completed" => \A g \in Gates : Gating[g] \in {"passed", "skipped"}
      BY <2>2, <3>1, RunAssumption DEF FinalHonest, Gating, GateOf, Nodes
    <3>4. o = "paused" => \E g \in PauseGates : [h \in Gates |-> decided[h]][g] = "rejected"
      BY <3>1, RunAssumption DEF OutInv, VoteInv
    <3>5. Announced = {} /\ Ending = None /\ Announced' = {o}
      BY <1>3, <1>5, <3>1 DEF Ending
    <3> HIDE DEF o
    <3>6. Outcome!Announce(o)
      BY <1>1, <1>2, <3>3, <3>4, <3>5 DEF Outcome!Announce
    <3> QED
      BY <3>2, <3>6 DEF Outcome!Next
  <2>3. CASE pc # "save"
    <3>1. pc \in {"dead", "recovered"}
      BY <1>5, <2>1, <2>3 DEF OutInv, EndInv, UnderWay, TypeInv, EngineType, Places, Terminal
    <3> QED
      BY <1>5, <2>1, <3>1 DEF OutInv, EndInv
  <2> QED
    BY <2>2, <2>3
<1> QED
  BY <1>4, <1>5, WordsGrow

LEMMA MapsOthers ==
  ASSUME TypeInv, NumberInv,
         \/ Echo \/ RelayEvents \/ Recover \/ Crash \/ Idle
         \/ \E c \in Clients : Subscribe(c) \/ Read(c)
         \/ UNCHANGED vars
  PROVE  Outcome!Next \/ UNCHANGED Outcome!vars
<1> USE DEF runVars, brokerVars, engineVars, storeVars, relayVars
<1>1. UNCHANGED <<decided, node, log>>
  BY OthersKeep
<1>2. CASE row' = row
  BY <1>1, <1>2, Unseen DEF Ending
<1>3. CASE row' # row
  <2>1. Recover
    BY <1>3 DEF Echo, RelayEvents, Crash, Idle, Subscribe, SubscribeWith, Read, vars
  <2>2. row' = "failed" /\ row \notin Terminal
    BY <1>3, <2>1 DEF Recover, Terminal
  <2>3. Gating' = Gating /\ Announced' = Announced /\ Ending = None /\ Ending' = "failed"
    BY <1>1, <2>2 DEF Gating, GateOf, Announced, Ending, Terminal
  <2>4. Outcome!Settle("failed")
    BY <1>1, <2>3 DEF Outcome!Settle
  <2> QED
    BY <2>4 DEF Outcome!Next
<1> QED
  BY <1>2, <1>3

LEMMA MapsResolve ==
  ASSUME TypeInv, NEW id \in Ids, NEW d \in {"approved", "rejected"}, Resolve(id, d)
  PROVE  Outcome!Next \/ UNCHANGED Outcome!vars
<1>1. decided[id] = None /\ decided' = [decided EXCEPT ![id] = d] /\ UNCHANGED <<node, log, row>>
  BY DEF Resolve, Undecided, engineVars, storeVars
<1>2. Gating' = Gating /\ Announced' = Announced /\ Ending' = Ending
  BY <1>1 DEF Gating, GateOf, Announced, Ending
<1>3. \A g \in Gates : decided'[g] = IF g = id THEN d ELSE decided[g]
  BY <1>1, EngineInEmitters DEF TypeInv, BrokerType
<1>4. CASE id \in Gates
  <2>1. [g \in Gates |-> decided'[g]] = [[g \in Gates |-> decided[g]] EXCEPT ![id] = d]
    BY <1>3, <1>4
  <2>2. Outcome!Decide(id, d)
    BY <1>1, <1>2, <1>4, <2>1 DEF Outcome!Decide
  <2> QED
    BY <1>4, <2>2 DEF Outcome!Next
<1>5. CASE id \notin Gates
  <2>1. [g \in Gates |-> decided'[g]] = [g \in Gates |-> decided[g]]
    BY <1>3, <1>5
  <2> QED
    BY <1>2, <2>1 DEF Outcome!vars
<1> QED
  BY <1>4, <1>5

(* The run implements RunOutcome, for any agents, gates, clients and       *)
(* bounds: decisions are taken once, no gate is passed before its own, and *)
(* the store's word is the announced one or says that the run failed, and  *)
(* is never taken back, whatever the emitters' order and wherever the      *)
(* process dies.                                                           *)
THEOREM OutcomeImplemented == Spec => ImplementsOutcome
<1>1. Init => Outcome!Init
  <2> SUFFICES ASSUME Init PROVE Outcome!Init
    OBVIOUS
  <2>1. Announced = {}
    BY DEF Init, Announced
  <2>2. Ending = None
    BY DEF Init, Ending
  <2>3. Gating = [g \in Gates |-> "closed"]
    BY DEF Init, Gating, GateOf, Nodes
  <2>4. [g \in Gates |-> decided[g]] = [g \in Gates |-> None]
    BY EngineInEmitters DEF Init
  <2> QED
    BY <2>1, <2>2, <2>3, <2>4 DEF Outcome!Init
<1>2. TypeInv /\ (NumberInv /\ GateInv) /\ (RowInv /\ FinalInv) /\ OutInv /\ [Next]_vars
        => [Outcome!Next]_(Outcome!vars)
  <2> SUFFICES ASSUME TypeInv, NumberInv, GateInv, FinalInv, OutInv, [Next]_vars
               PROVE  Outcome!Next \/ UNCHANGED Outcome!vars
    OBVIOUS
  <2>1. Calm /\ FinalHonest
    BY DEF FinalInv
  <2>2. ASSUME NEW g \in Ids, NEW d \in {"approved", "rejected"}, Resolve(g, d)
        PROVE  Outcome!Next \/ UNCHANGED Outcome!vars
    BY <2>2, MapsResolve
  <2>3. ASSUME NEW g \in Ids, RecordReview(g) \/ Release(g)
        PROVE  UNCHANGED Outcome!vars
    <3>1. UNCHANGED <<decided, node, log, row>>
      BY <2>3, GateKeeps DEF engineVars
    <3> QED
      BY <3>1, Unseen DEF Ending
  <2> QED
    BY <2>1, <2>2, <2>3, MapsGoroutine, MapsEmit, MapsOthers DEF Next
<1> QED
  BY <1>1, <1>2, TypeAlways, NumberGateAlways, OutcomeAlways, OutAlways, PTL DEF Spec, ImplementsOutcome, Outcome!Spec
=============================================================================
