---------------------------- MODULE GatewayProofs ----------------------------
(***************************************************************************)
(* For any number of runs and chats, calls, events and any capacity of the *)
(* event channel: a run takes the report of its own session only, and a    *)
(* session it gave up is stopped before the next one is asked for.  Every  *)
(* report is accounted for, with its takers and the full channel.  Callers *)
(* and daemon implement AgentCall.                                         *)
(***************************************************************************)
EXTENDS Gateway, TLAPS

Types == {"spawn", "kill", "read", "run"}
Command == [caller : Callers, spawn : Spawns, type : Types]
Published == [spawn : Spawns, type : {"started", "event"} \cup Reported]

CallType ==
  /\ at \in [Callers -> {"idle", "spawning", "waiting", "killing", "reading", "validating"}]
  /\ calls \in [Callers -> 0 .. MaxCalls]
  /\ idle \in [Callers -> {"off", "armed", "fired", "both"}]
  /\ outcome \in [Callers -> {None, "refused", "failed", "idle", "capped", "ok"}]
  /\ out \in [Callers -> Spawns \cup {None}]
  /\ reply \in [Callers -> Spawns \cup {None, "ok", "no"}]
  /\ \A c \in Callers : at[c] # "idle" \/ outcome[c] = "ok" => calls[c] \in 1 .. MaxCalls
  /\ \A c \in Callers : idle[c] # "off" => at[c] = "waiting"

DaemonType ==
  /\ session \in [Spawns -> {"none", "running", "stopped", "reported"}]
  /\ verdict \in [Spawns -> BOOLEAN]
  /\ wrote \in [{Workspace[c] : c \in Callers} -> Spawns \cup {None}]

QueueType ==
  /\ cmds \in Seq(Command)
  /\ wire \in Seq(Published)
  /\ stream \in Seq(Published) /\ Len(stream) <= EventBuf

(* What a caller that awaits an answer has asked for.                      *)
Asks(where, type) ==
  <<where, type>> \in
    {<<"spawning", "spawn">>, <<"killing", "kill">>, <<"reading", "read">>, <<"validating", "run">>}

(* A caller has one request under way at most, and it is the one it is     *)
(* waiting for.                                                            *)
Turns ==
  /\ \A i \in DOMAIN cmds :
       /\ cmds[i].spawn = Mine(cmds[i].caller)
       /\ Asks(at[cmds[i].caller], cmds[i].type)
       /\ reply[cmds[i].caller] = None
  /\ \A i, j \in DOMAIN cmds : cmds[i].caller = cmds[j].caller => i = j
  /\ \A c \in Callers : reply[c] # None => at[c] \notin {"idle", "waiting"}
  /\ \A c \in Callers : at[c] = "reading" => reply[c] \in Spawns \cup {None, "no"}

(* A session number is used once: until its spawn is served there is no    *)
(* such session.                                                           *)
Fresh ==
  /\ \A c \in Callers : \A n \in calls[c] + 1 .. MaxCalls : session[<<c, n>>] = "none"
  /\ \A i \in DOMAIN cmds : cmds[i].type = "spawn" => session[cmds[i].spawn] = "none"
  /\ \A c \in Callers : at[c] = "spawning" /\ reply[c] = "no" /\ daemon = "up" =>
       session[Mine(c)] = "none"

(* A report comes from a session that is over, and says what it found.     *)
HonestIn(q) ==
  \A i \in DOMAIN q : q[i].type \in Reported =>
    session[q[i].spawn] = "reported" /\ (q[i].type = "done" => verdict[q[i].spawn])
Honest == HonestIn(wire) /\ HonestIn(stream)

(* Of a run only the current session is running, and that not once its     *)
(* kill has been answered.                                                 *)
Stopped ==
  daemon = "up" => \A c \in Runs :
    /\ \A n \in 1 .. calls[c] - 1 : session[<<c, n>>] # "running"
    /\ calls[c] \in 1 .. MaxCalls /\ (at[c] = "idle" \/ (at[c] = "killing" /\ reply[c] # None)) =>
         session[Mine(c)] # "running"

TypeInv == CallType /\ DaemonType /\ QueueType
IInv == TypeInv /\ Turns /\ Fresh /\ Honest /\ Stopped /\ ResultOwn

-----------------------------------------------------------------------------
LEMMA InitInv == Init => IInv
<1> SUFFICES ASSUME Init PROVE IInv
  OBVIOUS
<1> USE GatewayAssumption DEF Init
<1>1. CallType /\ DaemonType /\ QueueType
  BY DEF CallType, DaemonType, QueueType, Callers
<1>2. Turns /\ Fresh /\ Honest
  BY DEF Turns, Fresh, Honest, HonestIn, Spawns
<1>3. Stopped /\ ResultOwn
  BY DEF Stopped, ResultOwn, Callers
<1> QED
  BY <1>1, <1>2, <1>3 DEF IInv, TypeInv

LEMMA Implied == IInv => TypeOK /\ ResultOwn /\ OneLiveSession
<1> SUFFICES ASSUME IInv PROVE TypeOK /\ ResultOwn /\ OneLiveSession
  OBVIOUS
<1>1. TypeOK
  BY DEF IInv, TypeInv, CallType, DaemonType, QueueType, Fresh, TypeOK
<1>2. OneLiveSession
  <2> SUFFICES ASSUME NEW c \in Runs, daemon = "up", at[c] \in {"idle", "spawning"},
                      NEW n \in 1 .. calls[c], session[<<c, n>>] = "running"
               PROVE  at[c] = "spawning" /\ n = calls[c]
    BY DEF OneLiveSession
  <2>1. calls[c] \in 0 .. MaxCalls /\ MaxCalls \in Nat
    BY GatewayAssumption DEF IInv, TypeInv, CallType, Callers
  <2>2. n \notin 1 .. calls[c] - 1
    BY DEF IInv, Stopped
  <2>3. n = calls[c] /\ calls[c] \in 1 .. MaxCalls
    BY <2>1, <2>2
  <2> QED
    BY <2>3 DEF IInv, Stopped, Mine
<1> QED
  BY <1>1, <1>2 DEF IInv

(* A queue that grows by one, and one that loses its head.                 *)
LEMMA Grown ==
  ASSUME NEW S, NEW q \in Seq(S), NEW e \in S
  PROVE  /\ Append(q, e) \in Seq(S) /\ Len(Append(q, e)) = Len(q) + 1
         /\ DOMAIN q = 1 .. Len(q) /\ Len(q) \in Nat
         /\ DOMAIN Append(q, e) = 1 .. Len(q) + 1
         /\ \A i \in 1 .. Len(q) : Append(q, e)[i] = q[i]
         /\ Append(q, e)[Len(q) + 1] = e
OBVIOUS

LEMMA Shrunk ==
  ASSUME NEW S, NEW q \in Seq(S), q # <<>>
  PROVE  /\ Tail(q) \in Seq(S) /\ Len(Tail(q)) = Len(q) - 1
         /\ 1 \in DOMAIN q /\ Head(q) = q[1] /\ Head(q) \in S
         /\ DOMAIN q = 1 .. Len(q) /\ Len(q) \in Nat
         /\ \A i \in DOMAIN Tail(q) : i \in Nat /\ i # 0 /\ i + 1 \in DOMAIN q /\ Tail(q)[i] = q[i + 1]
OBVIOUS

LEMMA Member ==
  ASSUME NEW S, NEW q \in Seq(S), NEW i \in DOMAIN q
  PROVE  q[i] \in S
OBVIOUS

LEMMA CommandOf ==
  ASSUME TypeInv, NEW i \in DOMAIN cmds
  PROVE  cmds[i].caller \in Callers /\ cmds[i].spawn \in Spawns /\ cmds[i].type \in Types
<1>1. cmds[i] \in Command
  BY Member DEF TypeInv, QueueType
<1> QED
  BY <1>1 DEF Command

LEMMA PublishedOf ==
  ASSUME NEW q \in Seq(Published), NEW i \in DOMAIN q
  PROVE  q[i].spawn \in Spawns
<1>1. q[i] \in Published
  BY Member
<1> QED
  BY <1>1 DEF Published

(* A caller that is not waiting for the daemon has nothing under way.      *)
LEMMA NothingSent ==
  ASSUME Turns, NEW c \in Callers, at[c] \in {"idle", "waiting"} \/ reply[c] # None
  PROVE  \A i \in DOMAIN cmds : cmds[i].caller # c
BY DEF Turns, Asks

(* What a request does to the queue of commands or to the reply.           *)
Sent(c, s, type) ==
  \/ /\ daemon = "up"
     /\ cmds' = Append(cmds, [caller |-> c, spawn |-> s, type |-> type])
     /\ reply' = [reply EXCEPT ![c] = None]
  \/ /\ daemon # "up"
     /\ cmds' = cmds
     /\ reply' = [reply EXCEPT ![c] = "no"]

LEMMA Requested ==
  ASSUME TypeInv, Turns, NEW c \in Callers, at[c] \in {"idle", "waiting"},
         NEW s, NEW type, Request(c, s, type)
  PROVE  Sent(c, s, type)
<1>1. reply \in [Callers -> Spawns \cup {None, "ok", "no"}] /\ reply[c] = None
  BY DEF TypeInv, CallType, Turns
<1> QED
  BY <1>1 DEF Request, Sent

(* The turn of a caller after a request of its current session.            *)
LEMMA SentTurn ==
  ASSUME TypeInv, Turns, NEW c \in Callers, at[c] \in {"idle", "waiting"} \/ reply[c] # None,
         NEW type \in Types, NEW where, NEW k \in 1 .. MaxCalls,
         Sent(c, <<c, k>>, type), calls' = [calls EXCEPT ![c] = k],
         at' = [at EXCEPT ![c] = where], Asks(where, type)
  PROVE  /\ Turns' /\ cmds' \in Seq(Command)
         /\ reply' \in [Callers -> Spawns \cup {None, "ok", "no"}]
         /\ \A i \in DOMAIN cmds' :
              \/ i \in DOMAIN cmds /\ cmds'[i] = cmds[i] /\ cmds[i].caller # c
              \/ cmds'[i] = [caller |-> c, spawn |-> <<c, k>>, type |-> type]
<1>1. \A i \in DOMAIN cmds : cmds[i].caller # c
  BY NothingSent
<1>2. /\ cmds \in Seq(Command) /\ reply \in [Callers -> Spawns \cup {None, "ok", "no"}]
      /\ at \in [Callers -> {"idle", "spawning", "waiting", "killing", "reading", "validating"}]
      /\ calls \in [Callers -> 0 .. MaxCalls]
  BY DEF TypeInv, QueueType, CallType
<1>3. where \in {"spawning", "killing", "reading", "validating"}
  BY DEF Asks
<1>4. [caller |-> c, spawn |-> <<c, k>>, type |-> type] \in Command
  BY DEF Command, Spawns
<1>5. reply' \in [Callers -> Spawns \cup {None, "ok", "no"}] /\ reply'[c] \in {None, "no"}
      /\ \A d \in Callers : d # c => reply'[d] = reply[d] /\ at'[d] = at[d] /\ calls'[d] = calls[d]
  BY <1>2 DEF Sent
<1>6. calls'[c] = k /\ at'[c] = where
  BY <1>2
<1>7. CASE daemon = "up"
  <2>1. /\ cmds' = Append(cmds, [caller |-> c, spawn |-> <<c, k>>, type |-> type])
        /\ reply'[c] = None
    BY <1>2, <1>7 DEF Sent
  <2>2. /\ cmds' \in Seq(Command) /\ DOMAIN cmds = 1 .. Len(cmds) /\ Len(cmds) \in Nat
        /\ DOMAIN cmds' = 1 .. Len(cmds) + 1
        /\ \A i \in 1 .. Len(cmds) : cmds'[i] = cmds[i]
        /\ cmds'[Len(cmds) + 1] = [caller |-> c, spawn |-> <<c, k>>, type |-> type]
    BY <1>2, <1>4, <2>1, Grown
  <2>3. \A i \in DOMAIN cmds' :
          \/ i \in DOMAIN cmds /\ cmds'[i] = cmds[i] /\ cmds[i].caller # c
          \/ cmds'[i] = [caller |-> c, spawn |-> <<c, k>>, type |-> type] /\ i = Len(cmds) + 1
    BY <2>2, <1>1
  <2>4. \A i \in DOMAIN cmds' :
          /\ cmds'[i].spawn = <<cmds'[i].caller, calls'[cmds'[i].caller]>>
          /\ Asks(at'[cmds'[i].caller], cmds'[i].type)
          /\ reply'[cmds'[i].caller] = None
    <3> SUFFICES ASSUME NEW i \in DOMAIN cmds'
                 PROVE  /\ cmds'[i].spawn = <<cmds'[i].caller, calls'[cmds'[i].caller]>>
                        /\ Asks(at'[cmds'[i].caller], cmds'[i].type)
                        /\ reply'[cmds'[i].caller] = None
      OBVIOUS
    <3>1. CASE i \in DOMAIN cmds /\ cmds'[i] = cmds[i] /\ cmds[i].caller # c
      <4>1. cmds[i].caller \in Callers
        BY <3>1, CommandOf
      <4> QED
        BY <1>5, <3>1, <4>1 DEF Turns, Asks, Mine
    <3>2. CASE cmds'[i] = [caller |-> c, spawn |-> <<c, k>>, type |-> type]
      BY <1>6, <2>1, <3>2
    <3> QED
      BY <2>3, <3>1, <3>2
  <2>5. \A i, j \in DOMAIN cmds' : cmds'[i].caller = cmds'[j].caller => i = j
    BY <2>3 DEF Turns
  <2>6. \A d \in Callers : reply'[d] # None => at'[d] \notin {"idle", "waiting"}
    BY <1>5, <2>1 DEF Turns
  <2>7. \A d \in Callers : at'[d] = "reading" => reply'[d] \in Spawns \cup {None, "no"}
    BY <1>5, <2>1, GatewayAssumption DEF Turns
  <2>8. Turns'
    BY <2>4, <2>5, <2>6, <2>7 DEF Turns, Mine
  <2> QED
    BY <1>5, <2>2, <2>3, <2>8
<1>8. CASE daemon # "up"
  <2>1. cmds' = cmds
    BY <1>8 DEF Sent
  <2>2. \A i \in DOMAIN cmds : cmds[i].caller \in Callers
    BY CommandOf
  <2>3. \A i \in DOMAIN cmds' :
          /\ cmds'[i].spawn = <<cmds'[i].caller, calls'[cmds'[i].caller]>>
          /\ Asks(at'[cmds'[i].caller], cmds'[i].type)
          /\ reply'[cmds'[i].caller] = None
    BY <1>1, <1>5, <2>1, <2>2 DEF Turns, Asks, Mine
  <2>4. \A d \in Callers : reply'[d] # None => at'[d] \notin {"idle", "waiting"}
    BY <1>3, <1>5, <1>6 DEF Turns
  <2>5. \A d \in Callers : at'[d] = "reading" => reply'[d] \in Spawns \cup {None, "no"}
    BY <1>5, GatewayAssumption DEF Turns
  <2> QED
    BY <1>1, <1>2, <1>5, <2>1, <2>3, <2>4, <2>5 DEF Turns, Mine
<1> QED
  BY <1>7, <1>8

LEMMA SentNow ==
  ASSUME TypeInv, Turns, NEW c \in Callers, at[c] = "waiting" \/ reply[c] # None,
         NEW type \in Types, type # "spawn", NEW where, UNCHANGED calls,
         Sent(c, Mine(c), type), at' = [at EXCEPT ![c] = where], Asks(where, type)
  PROVE  /\ Turns' /\ cmds' \in Seq(Command)
         /\ reply' \in [Callers -> Spawns \cup {None, "ok", "no"}]
         /\ \A i \in DOMAIN cmds' :
              (i \in DOMAIN cmds /\ cmds'[i] = cmds[i]) \/ cmds'[i].type # "spawn"
<1>1. PICK k : k = calls[c]
  OBVIOUS
<1>2. calls \in [Callers -> 0 .. MaxCalls] /\ at[c] # "idle"
  BY DEF TypeInv, CallType, Turns
<1>3. k \in 1 .. MaxCalls /\ calls' = [calls EXCEPT ![c] = k] /\ Sent(c, <<c, k>>, type)
  BY <1>1, <1>2 DEF TypeInv, CallType, Mine
<1>4. /\ Turns' /\ cmds' \in Seq(Command)
      /\ reply' \in [Callers -> Spawns \cup {None, "ok", "no"}]
      /\ \A i \in DOMAIN cmds' :
           \/ i \in DOMAIN cmds /\ cmds'[i] = cmds[i] /\ cmds[i].caller # c
           \/ cmds'[i] = [caller |-> c, spawn |-> <<c, k>>, type |-> type]
  BY ZenonT(30), <1>3, SentTurn
<1> QED
  BY <1>4

(* The turn of a caller that goes on without a request.                    *)
LEMMA KeptTurn ==
  ASSUME TypeInv, Turns, NEW c \in Callers, at[c] \in {"idle", "waiting"} \/ reply[c] # None,
         NEW where \in {"idle", "waiting"}, UNCHANGED <<calls, cmds>>,
         at' = [at EXCEPT ![c] = where], reply' = [reply EXCEPT ![c] = None]
  PROVE  /\ Turns' /\ reply' \in [Callers -> Spawns \cup {None, "ok", "no"}]
         /\ \A i \in DOMAIN cmds : cmds[i].caller # c
<1>1. \A i \in DOMAIN cmds : cmds[i].caller # c
  BY NothingSent
<1>2. /\ cmds \in Seq(Command) /\ reply \in [Callers -> Spawns \cup {None, "ok", "no"}]
      /\ at \in [Callers -> {"idle", "spawning", "waiting", "killing", "reading", "validating"}]
  BY DEF TypeInv, QueueType, CallType
<1>3. \A i \in DOMAIN cmds : cmds[i].caller \in Callers
  BY CommandOf
<1>4. /\ reply'[c] = None /\ at'[c] = where
      /\ \A d \in Callers : d # c => reply'[d] = reply[d] /\ at'[d] = at[d]
  BY <1>2
<1> QED
  BY <1>1, <1>2, <1>3, <1>4, GatewayAssumption DEF Turns, Asks, Mine

(* Reports are as true as they were when the sessions have not changed and *)
(* the queue is an old one or its rest.                                    *)
LEMMA HonestTail ==
  ASSUME NEW q \in Seq(Published), HonestIn(q), q # <<>>
  PROVE  HonestIn(Tail(q))
BY Shrunk DEF HonestIn

(* A caller goes on within its call: what has to hold of its session where *)
(* it goes to is all that has to be shown.                                 *)
LEMMA Onward ==
  ASSUME IInv, NEW c \in Callers, at[c] # "idle",
         UNCHANGED <<calls, daemon, session, verdict, wrote, wire>>,
         NEW where \in {"idle", "waiting", "killing", "reading", "validating"},
         at' = [at EXCEPT ![c] = where],
         NEW how \in {None, "refused", "failed", "idle", "capped", "ok"},
         outcome' = [outcome EXCEPT ![c] = how],
         NEW timer \in {"off", "armed", "fired", "both"}, timer # "off" => where = "waiting",
         idle' = [idle EXCEPT ![c] = timer],
         out' \in [Callers -> Spawns \cup {None}],
         stream' = stream \/ (stream # <<>> /\ stream' = Tail(stream)),
         Turns', cmds' \in Seq(Command), reply' \in [Callers -> Spawns \cup {None, "ok", "no"}],
         \A d \in Callers : d # c => reply'[d] = reply[d],
         \A i \in DOMAIN cmds' :
           (i \in DOMAIN cmds /\ cmds'[i] = cmds[i]) \/ cmds'[i].type # "spawn",
         c \in Runs /\ daemon = "up" /\ (where = "idle" \/ (where = "killing" /\ reply'[c] # None)) =>
           session[Mine(c)] # "running",
         c \in Runs /\ (where \in {"reading", "validating"} \/ how = "ok") =>
           session[Mine(c)] = "reported" /\ verdict[Mine(c)]
  PROVE  IInv'
<1>1. /\ at \in [Callers -> {"idle", "spawning", "waiting", "killing", "reading", "validating"}]
      /\ outcome \in [Callers -> {None, "refused", "failed", "idle", "capped", "ok"}]
  BY DEF IInv, TypeInv, CallType
<1>2. /\ at'[c] = where /\ outcome'[c] = how
      /\ \A d \in Callers : d # c => at'[d] = at[d] /\ outcome'[d] = outcome[d]
      /\ \A d \in Callers : Mine(d)' = Mine(d)
  BY <1>1 DEF Mine
<1>3. Fresh'
  <2>1. \A i \in DOMAIN cmds' : cmds'[i].type = "spawn" => session'[cmds'[i].spawn] = "none"
    BY DEF IInv, Fresh
  <2>2. \A d \in Callers : at'[d] = "spawning" /\ reply'[d] = "no" /\ daemon' = "up" =>
          session'[Mine(d)'] = "none"
    BY <1>2 DEF IInv, Fresh
  <2>3. \A d \in Callers : \A n \in calls'[d] + 1 .. MaxCalls : session'[<<d, n>>] = "none"
    BY DEF IInv, Fresh
  <2> QED
    BY <2>1, <2>2, <2>3 DEF Fresh
<1>4. Stopped'
  <2> SUFFICES ASSUME daemon' = "up", NEW d \in Runs
               PROVE  /\ \A n \in 1 .. calls'[d] - 1 : session'[<<d, n>>] # "running"
                      /\ calls'[d] \in 1 .. MaxCalls
                         /\ (at'[d] = "idle" \/ (at'[d] = "killing" /\ reply'[d] # None)) =>
                           session'[Mine(d)'] # "running"
    BY DEF Stopped
  <2>1. d \in Callers
    BY DEF Callers
  <2> QED
    BY <1>2, <2>1 DEF IInv, Stopped
<1>5. ResultOwn'
  <2> SUFFICES ASSUME NEW d \in Runs, at'[d] \in {"reading", "validating"} \/ outcome'[d] = "ok"
               PROVE  session'[Mine(d)'] = "reported" /\ verdict'[Mine(d)']
    BY DEF ResultOwn
  <2>1. d \in Callers
    BY DEF Callers
  <2> QED
    BY <1>2, <2>1 DEF IInv, ResultOwn
<1>6. CallType'
  <2>1. /\ CallType /\ calls \in [Callers -> 0 .. MaxCalls]
        /\ idle \in [Callers -> {"off", "armed", "fired", "both"}]
    BY DEF IInv, TypeInv, CallType
  <2>2. /\ at' \in [Callers -> {"idle", "spawning", "waiting", "killing", "reading", "validating"}]
        /\ outcome' \in [Callers -> {None, "refused", "failed", "idle", "capped", "ok"}]
        /\ idle' \in [Callers -> {"off", "armed", "fired", "both"}]
    BY <1>1, <2>1
  <2>3. idle'[c] = timer /\ \A d \in Callers : d # c => idle'[d] = idle[d]
    BY <2>1
  <2>4. calls[c] \in 1 .. MaxCalls
    BY <2>1 DEF CallType
  <2>5. \A d \in Callers : at'[d] # "idle" \/ outcome'[d] = "ok" => calls'[d] \in 1 .. MaxCalls
    BY <1>2, <2>1, <2>4 DEF CallType
  <2>6. \A d \in Callers : idle'[d] # "off" => at'[d] = "waiting"
    BY <1>2, <2>1, <2>3 DEF CallType
  <2> QED
    BY <2>1, <2>2, <2>5, <2>6 DEF CallType
<1>7. DaemonType' /\ QueueType' /\ Honest'
  <2>1. stream \in Seq(Published) /\ wire \in Seq(Published) /\ Len(stream) <= EventBuf
    BY DEF IInv, TypeInv, QueueType
  <2>2. stream' \in Seq(Published) /\ Len(stream') <= EventBuf
    <3>1. CASE stream # <<>> /\ stream' = Tail(stream)
      <4>1. Tail(stream) \in Seq(Published) /\ Len(Tail(stream)) = Len(stream) - 1 /\ Len(stream) \in Nat
        BY <2>1, <3>1, Shrunk
      <4>2. EventBuf \in Nat
        BY GatewayAssumption
      <4>3. Len(Tail(stream)) <= EventBuf
        BY <2>1, <4>1, <4>2
      <4> QED
        BY <3>1, <4>1, <4>3
    <3> QED
      BY <2>1, <3>1
  <2>3. HonestIn(stream) /\ HonestIn(wire)
    BY DEF IInv, Honest
  <2>4. HonestIn(stream)' /\ HonestIn(wire)'
    <3>1. CASE stream' = stream
      BY <2>3, <3>1 DEF HonestIn
    <3>2. CASE stream # <<>> /\ stream' = Tail(stream)
      BY <2>1, <2>3, <3>2, HonestTail DEF HonestIn
    <3> QED
      BY <3>1, <3>2
  <2> QED
    BY <2>1, <2>2, <2>4 DEF IInv, TypeInv, DaemonType, QueueType, Honest
<1> QED
  BY <1>3, <1>4, <1>5, <1>6, <1>7 DEF IInv, TypeInv

LEMMA SpawnStep ==
  ASSUME IInv, NEW c \in Callers, Spawn(c)
  PROVE  IInv'
<1> USE GatewayAssumption
<1>0. PICK k : k = calls[c] + 1
  OBVIOUS
<1>1. TypeInv /\ Turns /\ CallType
  BY DEF IInv, TypeInv
<1>2. k \in 1 .. MaxCalls /\ at[c] = "idle" /\ reply[c] = None
  BY <1>0, <1>1 DEF Spawn, CallType, Turns
<1>3. /\ calls' = [calls EXCEPT ![c] = k] /\ at' = [at EXCEPT ![c] = "spawning"]
      /\ outcome' = [outcome EXCEPT ![c] = None] /\ out' = [out EXCEPT ![c] = None]
      /\ UNCHANGED <<idle, daemon, session, activity, verdict, wrote, wire, stream>>
  BY <1>0 DEF Spawn, Goto, daemonVars
<1>4. Sent(c, <<c, k>>, "spawn")
  BY <1>0, <1>1, <1>2, Requested DEF Spawn
<1>5. "spawn" \in Types /\ Asks("spawning", "spawn")
  BY DEF Types, Asks
<1>6. /\ Turns' /\ cmds' \in Seq(Command)
      /\ reply' \in [Callers -> Spawns \cup {None, "ok", "no"}]
      /\ \A i \in DOMAIN cmds' :
           \/ i \in DOMAIN cmds /\ cmds'[i] = cmds[i] /\ cmds[i].caller # c
           \/ cmds'[i] = [caller |-> c, spawn |-> <<c, k>>, type |-> "spawn"]
  <2>1. /\ TypeInv /\ Turns /\ at[c] \in {"idle", "waiting"} /\ "spawn" \in Types
        /\ k \in 1 .. MaxCalls /\ Sent(c, <<c, k>>, "spawn") /\ calls' = [calls EXCEPT ![c] = k]
        /\ at' = [at EXCEPT ![c] = "spawning"] /\ Asks("spawning", "spawn")
    BY <1>1, <1>2, <1>3, <1>4, <1>5
  <2> QED
    BY ZenonT(60), <2>1, SentTurn
<1>7. /\ calls'[c] = k /\ at'[c] = "spawning" /\ outcome'[c] = None
      /\ \A d \in Callers : d # c =>
           at'[d] = at[d] /\ calls'[d] = calls[d] /\ outcome'[d] = outcome[d] /\ reply'[d] = reply[d]
  BY <1>1, <1>3, <1>4 DEF CallType, Sent
<1>8. TypeInv'
  <2>1. /\ at' \in [Callers -> {"idle", "spawning", "waiting", "killing", "reading", "validating"}]
        /\ calls' \in [Callers -> 0 .. MaxCalls]
        /\ idle' \in [Callers -> {"off", "armed", "fired", "both"}]
        /\ outcome' \in [Callers -> {None, "refused", "failed", "idle", "capped", "ok"}]
        /\ out' \in [Callers -> Spawns \cup {None}]
    BY <1>1, <1>2, <1>3 DEF CallType
  <2>2. \A d \in Callers : at'[d] # "idle" \/ outcome'[d] = "ok" => calls'[d] \in 1 .. MaxCalls
    BY <1>1, <1>2, <1>7 DEF CallType
  <2>3. \A d \in Callers : idle'[d] # "off" => at'[d] = "waiting"
    BY <1>1, <1>2, <1>3, <1>7 DEF CallType
  <2>4. CallType'
    BY <1>6, <2>1, <2>2, <2>3 DEF CallType
  <2> QED
    BY <1>1, <1>3, <1>6, <2>4 DEF TypeInv, DaemonType, QueueType
<1>9. session[<<c, k>>] = "none"
  BY <1>0, <1>1, <1>2 DEF CallType, IInv, Fresh
<1>10. Fresh'
  <2>1. \A i \in DOMAIN cmds' : cmds'[i].type = "spawn" => session'[cmds'[i].spawn] = "none"
    <3> SUFFICES ASSUME NEW i \in DOMAIN cmds', cmds'[i].type = "spawn"
                 PROVE  session'[cmds'[i].spawn] = "none"
      OBVIOUS
    <3>1. CASE i \in DOMAIN cmds /\ cmds'[i] = cmds[i]
      BY <1>3, <3>1 DEF IInv, Fresh
    <3>2. CASE cmds'[i] = [caller |-> c, spawn |-> <<c, k>>, type |-> "spawn"]
      <4>1. cmds'[i].spawn = <<c, k>>
        BY <3>2
      <4> QED
        BY <1>3, <1>9, <4>1
    <3> QED
      BY <1>6, <3>1, <3>2
  <2>2. \A d \in Callers : at'[d] = "spawning" /\ reply'[d] = "no" /\ daemon' = "up" =>
          session'[Mine(d)'] = "none"
    BY <1>3, <1>7, <1>9 DEF IInv, Fresh, Mine
  <2>3. \A d \in Callers : \A n \in calls'[d] + 1 .. MaxCalls : session'[<<d, n>>] = "none"
    <3>1. session' = session /\ daemon' = daemon
      BY <1>3
    <3>2. calls[c] \in 0 .. MaxCalls /\ calls'[c] = calls[c] + 1
      BY <1>0, <1>1, <1>7 DEF CallType
    <3>3. \A n \in calls'[c] + 1 .. MaxCalls : session'[<<c, n>>] = "none"
      BY <3>1, <3>2 DEF IInv, Fresh
    <3> QED
      BY <1>7, <3>1, <3>3 DEF IInv, Fresh
  <2> QED
    BY <2>1, <2>2, <2>3 DEF Fresh
<1>11. Stopped'
  <2> SUFFICES ASSUME daemon' = "up", NEW d \in Runs
               PROVE  /\ \A n \in 1 .. calls'[d] - 1 : session'[<<d, n>>] # "running"
                      /\ calls'[d] \in 1 .. MaxCalls
                         /\ (at'[d] = "idle" \/ (at'[d] = "killing" /\ reply'[d] # None)) =>
                           session'[Mine(d)'] # "running"
    BY DEF Stopped
  <2>1. d \in Callers
    BY DEF Callers
  <2>2. CASE d # c
    BY <1>3, <1>7, <2>1, <2>2 DEF IInv, Stopped, Mine
  <2>3. CASE d = c
    <3>1. \A n \in 1 .. calls[c] - 1 : session[<<c, n>>] # "running"
      BY <1>3, <2>3 DEF IInv, Stopped
    <3>2. calls[c] \in 1 .. MaxCalls => session[<<c, calls[c]>>] # "running"
      BY <1>2, <1>3, <2>3 DEF IInv, Stopped, Mine
    <3>3. calls[c] \in Nat /\ calls[c] <= MaxCalls
      BY <1>1 DEF CallType
    <3>4. \A n \in 1 .. k - 1 : n \in 1 .. calls[c] - 1 \/ (n = calls[c] /\ calls[c] \in 1 .. MaxCalls)
      BY <1>0, <3>3
    <3> QED
      BY <1>3, <1>7, <2>3, <3>1, <3>2, <3>4
  <2> QED
    BY <2>2, <2>3
<1>12. ResultOwn'
  <2> SUFFICES ASSUME NEW d \in Runs, at'[d] \in {"reading", "validating"} \/ outcome'[d] = "ok"
               PROVE  session'[Mine(d)'] = "reported" /\ verdict'[Mine(d)']
    BY DEF ResultOwn
  <2>1. d \in Callers /\ d # c
    BY <1>7 DEF Callers
  <2> QED
    BY <1>3, <1>7, <2>1 DEF IInv, ResultOwn, Mine
<1>13. Honest'
  BY <1>3 DEF IInv, Honest, HonestIn
<1> QED
  BY <1>6, <1>8, <1>10, <1>11, <1>12, <1>13 DEF IInv

(* Steps that neither ask nor answer leave the reply empty.                *)
LEMMA NoReply ==
  ASSUME IInv, NEW c \in Callers, at[c] \in {"idle", "waiting"}
  PROVE  /\ reply[c] = None /\ reply = [reply EXCEPT ![c] = None]
         /\ at = [at EXCEPT ![c] = at[c]] /\ outcome = [outcome EXCEPT ![c] = outcome[c]]
         /\ idle = [idle EXCEPT ![c] = idle[c]]
BY DEF IInv, TypeInv, CallType, Turns

LEMMA AcceptedStep ==
  ASSUME IInv, NEW c \in Callers, SpawnAccepted(c)
  PROVE  IInv'
<1>1. /\ TypeInv /\ Turns /\ CallType /\ cmds \in Seq(Command)
      /\ outcome = [outcome EXCEPT ![c] = outcome[c]]
      /\ outcome[c] \in {None, "refused", "failed", "idle", "capped", "ok"}
  BY DEF IInv, TypeInv, CallType, QueueType
<1>2. /\ at[c] = "spawning" /\ reply[c] # None /\ reply' = [reply EXCEPT ![c] = None]
      /\ at' = [at EXCEPT ![c] = "waiting"]
      /\ UNCHANGED <<calls, outcome, out, daemon, session, verdict, wrote, cmds, wire, stream>>
  BY DEF SpawnAccepted, Answered, Goto, daemonVars
<1>3. PICK timer \in {"off", "armed", "fired", "both"} : idle' = [idle EXCEPT ![c] = timer]
  BY DEF SpawnAccepted, Armed
<1>4. Turns' /\ reply' \in [Callers -> Spawns \cup {None, "ok", "no"}]
  BY <1>1, <1>2, KeptTurn
<1>5. c \in Runs /\ outcome[c] = "ok" => session[Mine(c)] = "reported" /\ verdict[Mine(c)]
  BY DEF IInv, ResultOwn
<1>6. out' \in [Callers -> Spawns \cup {None}] /\ \A d \in Callers : d # c => reply'[d] = reply[d]
  BY <1>1, <1>2 DEF CallType
<1>7. /\ at[c] # "idle" /\ stream' = stream
      /\ \A i \in DOMAIN cmds' : i \in DOMAIN cmds /\ cmds'[i] = cmds[i]
      /\ UNCHANGED <<calls, daemon, session, verdict, wrote, wire>>
  BY <1>2
<1>8. cmds' \in Seq(Command)
  BY <1>1, <1>2
<1>9. PICK how \in {None, "refused", "failed", "idle", "capped", "ok"} :
        how = outcome[c] /\ outcome' = [outcome EXCEPT ![c] = how]
  BY <1>1, <1>2
<1>10. c \in Runs /\ how = "ok" => session[Mine(c)] = "reported" /\ verdict[Mine(c)]
  BY <1>5, <1>9
<1> QED
  BY <1>2, <1>3, <1>4, <1>6, <1>7, <1>8, <1>9, <1>10, Onward

LEMMA RefusedStep ==
  ASSUME IInv, NEW c \in Callers, SpawnRefused(c)
  PROVE  IInv'
<1>1. /\ TypeInv /\ Turns /\ CallType /\ cmds \in Seq(Command)
      /\ idle = [idle EXCEPT ![c] = idle[c]] /\ calls = [calls EXCEPT ![c] = calls[c]]
  BY DEF IInv, TypeInv, CallType, QueueType
<1>2. /\ at[c] = "spawning" /\ reply[c] = "no" /\ reply[c] # None
      /\ reply' = [reply EXCEPT ![c] = None]
      /\ outcome' = [outcome EXCEPT ![c] = "refused"]
      /\ UNCHANGED <<calls, idle, out, daemon, session, verdict, wrote, wire, stream>>
  BY GatewayAssumption DEF SpawnRefused, Answered, daemonVars
<1>3. /\ idle[c] = "off" /\ calls[c] \in 1 .. MaxCalls
      /\ out' \in [Callers -> Spawns \cup {None}]
      /\ reply'[c] = None /\ \A d \in Callers : d # c => reply'[d] = reply[d]
  BY <1>1, <1>2 DEF CallType
<1>4. daemon = "up" => session[Mine(c)] # "running"
  BY <1>2 DEF IInv, Fresh
<1>5. CASE c \in Runs /\ daemon = "up"
  <2>1. /\ cmds' = Append(cmds, [caller |-> c, spawn |-> Mine(c), type |-> "kill"])
        /\ at' = [at EXCEPT ![c] = "killing"]
    BY <1>5 DEF SpawnRefused, Goto
  <2>2. Sent(c, Mine(c), "kill") /\ "kill" \in Types /\ Asks("killing", "kill")
    BY <1>2, <1>5, <2>1 DEF Sent, Types, Asks
  <2>3. UNCHANGED calls
    BY <1>2
  <2>4. /\ Turns' /\ cmds' \in Seq(Command)
        /\ reply' \in [Callers -> Spawns \cup {None, "ok", "no"}]
        /\ \A i \in DOMAIN cmds' :
             (i \in DOMAIN cmds /\ cmds'[i] = cmds[i]) \/ cmds'[i].type # "spawn"
    BY <1>1, <1>2, <2>1, <2>2, <2>3, SentNow
  <2> QED
    BY <1>1, <1>2, <1>3, <1>4, <2>1, <2>4, Onward
<1>6. CASE ~(c \in Runs /\ daemon = "up")
  <2>1. cmds' = cmds /\ at' = [at EXCEPT ![c] = "idle"]
    BY <1>6 DEF SpawnRefused, Goto
  <2>2. Turns' /\ reply' \in [Callers -> Spawns \cup {None, "ok", "no"}]
    BY <1>1, <1>2, <2>1, KeptTurn
  <2> QED
    BY <1>1, <1>2, <1>3, <1>4, <1>6, <2>1, <2>2, Onward
<1> QED
  BY <1>5, <1>6

(* The report a run acts on is of its own session, and that has ended ok.  *)
LEMMA ConsumeStep ==
  ASSUME IInv, NEW c \in Callers, Consume(c)
  PROVE  IInv'
<1>1. /\ TypeInv /\ Turns /\ CallType /\ cmds \in Seq(Command) /\ stream \in Seq(Published)
      /\ idle[c] \in {"off", "armed", "fired", "both"}
      /\ outcome[c] \in {None, "refused", "failed", "idle", "capped", "ok"}
  BY DEF IInv, TypeInv, CallType, QueueType
<1>2. /\ at[c] = "waiting" /\ stream # <<>> /\ stream' = Tail(stream)
      /\ UNCHANGED <<calls, out, daemon, session, verdict, wrote, wire>>
  BY DEF Consume, daemonVars
<1>3. PICK ev : ev = Head(stream)
  OBVIOUS
<1>4. /\ reply[c] = None /\ reply = [reply EXCEPT ![c] = None]
      /\ at = [at EXCEPT ![c] = at[c]] /\ outcome = [outcome EXCEPT ![c] = outcome[c]]
      /\ idle = [idle EXCEPT ![c] = idle[c]]
  BY <1>2, NoReply
<1>5. out' \in [Callers -> Spawns \cup {None}] /\ at[c] # "idle"
  BY <1>1, <1>2 DEF CallType
<1>6. c \in Runs /\ outcome[c] = "ok" => session[Mine(c)] = "reported" /\ verdict[Mine(c)]
  BY DEF IInv, ResultOwn
<1>7. Matches(c, ev) /\ ev.type \in Reported =>
        session[Mine(c)] = "reported" /\ (ev.type = "done" => verdict[Mine(c)])
  <2>1. 1 \in DOMAIN stream /\ Head(stream) = stream[1]
    BY <1>1, <1>2, Shrunk
  <2> QED
    BY <1>3, <2>1 DEF IInv, Honest, HonestIn, Matches
<1>8. CASE /\ UNCHANGED <<at, outcome, cmds, reply>>
           /\ \E timer \in {"off", "armed", "fired", "both"} : idle' = [idle EXCEPT ![c] = timer]
  <2>1. PICK timer \in {"off", "armed", "fired", "both"} : idle' = [idle EXCEPT ![c] = timer]
    BY <1>8
  <2>2. at' = [at EXCEPT ![c] = "waiting"] /\ reply' = [reply EXCEPT ![c] = None]
    BY <1>2, <1>4, <1>8
  <2>3. Turns' /\ reply' \in [Callers -> Spawns \cup {None, "ok", "no"}]
    BY <1>1, <1>2, <1>8, <2>2, KeptTurn
  <2>4. outcome' = [outcome EXCEPT ![c] = outcome[c]] /\ cmds' = cmds /\ reply' = reply
    BY <1>4, <1>8
  <2> QED
    BY <1>1, <1>2, <1>5, <1>6, <2>1, <2>2, <2>3, <2>4, Onward
<1>9. CASE /\ Matches(c, ev)
           /\ ev.type = "done" \/ (ev.type = "failed" /\ c \in Chats)
           /\ idle' = [idle EXCEPT ![c] = "off"]
           /\ Request(c, Mine(c), "read") /\ Goto(c, "reading") /\ UNCHANGED outcome
  <2>1. Sent(c, Mine(c), "read") /\ "read" \in Types /\ Asks("reading", "read")
    BY <1>1, <1>2, <1>9, Requested DEF Types, Asks
  <2>2. at' = [at EXCEPT ![c] = "reading"] /\ outcome' = [outcome EXCEPT ![c] = outcome[c]]
    BY <1>4, <1>9 DEF Goto
  <2>3. /\ Turns' /\ cmds' \in Seq(Command)
        /\ reply' \in [Callers -> Spawns \cup {None, "ok", "no"}]
        /\ \A i \in DOMAIN cmds' :
             (i \in DOMAIN cmds /\ cmds'[i] = cmds[i]) \/ cmds'[i].type # "spawn"
    BY <1>1, <1>2, <2>1, <2>2, SentNow
  <2>4. \A d \in Callers : d # c => reply'[d] = reply[d]
    BY <1>1, <2>1 DEF Sent, CallType
  <2>5. c \in Runs => session[Mine(c)] = "reported" /\ verdict[Mine(c)]
    BY <1>7, <1>9, GatewayAssumption DEF Reported
  <2> QED
    BY <1>1, <1>2, <1>5, <1>9, <2>2, <2>3, <2>4, <2>5, Onward
<1>10. CASE /\ Matches(c, ev) /\ ev.type \in Reported
            /\ Finish(c, "failed") /\ Goto(c, "idle") /\ UNCHANGED <<cmds, reply>>
  <2>1. /\ at' = [at EXCEPT ![c] = "idle"] /\ outcome' = [outcome EXCEPT ![c] = "failed"]
        /\ idle' = [idle EXCEPT ![c] = "off"] /\ reply' = [reply EXCEPT ![c] = None]
        /\ reply' = reply /\ cmds' = cmds
    BY <1>4, <1>10 DEF Goto, Finish
  <2>2. Turns' /\ reply' \in [Callers -> Spawns \cup {None, "ok", "no"}]
    BY <1>1, <1>2, <2>1, KeptTurn
  <2>3. session[Mine(c)] # "running"
    BY <1>7, <1>10
  <2> QED
    BY <1>1, <1>2, <1>5, <2>1, <2>2, <2>3, GatewayAssumption, Onward
<1> QED
  <2>1. \/ ~Matches(c, ev) /\ UNCHANGED <<at, idle, outcome, cmds, reply>>
        \/ /\ idle' = [idle EXCEPT ![c] = CASE @ = "off" -> "off" [] @ = "armed" -> "armed"
                                               [] OTHER -> "both"]
           /\ UNCHANGED <<at, outcome, cmds, reply>>
        \/ /\ Matches(c, ev)
           /\ ev.type \in Reported
           /\ IF ev.type = "done" \/ (ev.type = "failed" /\ c \in Chats)
                THEN /\ idle' = [idle EXCEPT ![c] = "off"]
                     /\ Request(c, Mine(c), "read") /\ Goto(c, "reading") /\ UNCHANGED outcome
                ELSE Finish(c, "failed") /\ Goto(c, "idle") /\ UNCHANGED <<cmds, reply>>
    BY <1>3 DEF Consume
  <2> QED
    BY <1>1, <1>4, <1>8, <1>9, <1>10, <2>1

(* The timer and the select: the state of the call only.                   *)
LEMMA IdleStep ==
  ASSUME IInv, NEW c \in Callers, IdleFires(c)
  PROVE  IInv'
<1>1. /\ TypeInv /\ Turns /\ CallType /\ cmds \in Seq(Command)
      /\ outcome[c] \in {None, "refused", "failed", "idle", "capped", "ok"}
  BY DEF IInv, TypeInv, CallType, QueueType
<1>2. at[c] = "waiting"
  BY <1>1 DEF IdleFires, CallType
<1>3. /\ reply = [reply EXCEPT ![c] = None] /\ at = [at EXCEPT ![c] = "waiting"]
      /\ outcome = [outcome EXCEPT ![c] = outcome[c]]
  BY <1>2, NoReply
<1>4. /\ idle' = [idle EXCEPT ![c] = "fired"]
      /\ UNCHANGED <<at, calls, outcome, out, daemon, session, verdict, wrote, reply, cmds, wire, stream>>
  BY DEF IdleFires, daemonVars
<1>5. /\ at' = [at EXCEPT ![c] = "waiting"] /\ reply' = [reply EXCEPT ![c] = None]
      /\ outcome' = [outcome EXCEPT ![c] = outcome[c]] /\ out' \in [Callers -> Spawns \cup {None}]
  BY <1>1, <1>3, <1>4 DEF CallType
<1>6. Turns' /\ reply' \in [Callers -> Spawns \cup {None, "ok", "no"}]
  BY <1>1, <1>2, <1>4, <1>5, KeptTurn
<1>7. c \in Runs /\ outcome[c] = "ok" => session[Mine(c)] = "reported" /\ verdict[Mine(c)]
  BY DEF IInv, ResultOwn
<1> QED
  BY <1>1, <1>2, <1>4, <1>5, <1>6, <1>7, Onward

LEMMA TimeoutStep ==
  ASSUME IInv, NEW c \in Callers, TimesOut(c)
  PROVE  IInv'
<1>1. TypeInv /\ Turns /\ CallType /\ cmds \in Seq(Command)
  BY DEF IInv, TypeInv, QueueType
<1>2. /\ at[c] = "waiting"
      /\ UNCHANGED <<calls, out, daemon, session, verdict, wrote, wire, stream>>
  BY DEF TimesOut, daemonVars
<1>3. PICK how \in {"idle", "capped"} : GiveUp(c, how)
  BY DEF TimesOut
<1>4. /\ how \in {None, "refused", "failed", "idle", "capped", "ok"} /\ how # "ok"
      /\ outcome' = [outcome EXCEPT ![c] = how] /\ idle' = [idle EXCEPT ![c] = "off"]
      /\ out' \in [Callers -> Spawns \cup {None}] /\ reply = [reply EXCEPT ![c] = None]
  BY <1>1, <1>2, <1>3, NoReply DEF GiveUp, Finish, CallType
<1>5. CASE c \in Runs
  <2>1. Request(c, Mine(c), "kill") /\ at' = [at EXCEPT ![c] = "killing"]
    BY <1>3, <1>5 DEF GiveUp, Goto
  <2>2. Sent(c, Mine(c), "kill") /\ "kill" \in Types /\ Asks("killing", "kill")
    BY <1>1, <1>2, <2>1, Requested DEF Types, Asks
  <2>3. /\ Turns' /\ cmds' \in Seq(Command)
        /\ reply' \in [Callers -> Spawns \cup {None, "ok", "no"}]
        /\ \A i \in DOMAIN cmds' :
             (i \in DOMAIN cmds /\ cmds'[i] = cmds[i]) \/ cmds'[i].type # "spawn"
    BY <1>1, <1>2, <2>1, <2>2, SentNow
  <2>4. /\ \A d \in Callers : d # c => reply'[d] = reply[d]
        /\ daemon = "up" => reply'[c] = None
    BY <1>1, <2>2 DEF Sent, CallType
  <2> QED
    BY <1>1, <1>2, <1>4, <2>1, <2>3, <2>4, Onward
<1>6. CASE c \notin Runs
  <2>1. at' = [at EXCEPT ![c] = "idle"] /\ UNCHANGED <<reply, cmds>>
    BY <1>3, <1>6 DEF GiveUp, Goto
  <2>2. reply' = [reply EXCEPT ![c] = None] /\ cmds' = cmds /\ reply' = reply
    BY <1>4, <2>1
  <2>3. Turns' /\ reply' \in [Callers -> Spawns \cup {None, "ok", "no"}]
    BY <1>1, <1>2, <2>1, <2>2, KeptTurn
  <2> QED
    BY <1>1, <1>2, <1>4, <1>6, <2>1, <2>2, <2>3, Onward
<1> QED
  BY <1>5, <1>6

LEMMA KilledStep ==
  ASSUME IInv, NEW c \in Callers, Killed(c)
  PROVE  IInv'
<1>1. /\ TypeInv /\ Turns /\ CallType /\ cmds \in Seq(Command)
      /\ outcome = [outcome EXCEPT ![c] = outcome[c]] /\ idle = [idle EXCEPT ![c] = idle[c]]
      /\ outcome[c] \in {None, "refused", "failed", "idle", "capped", "ok"}
  BY DEF IInv, TypeInv, CallType, QueueType
<1>2. /\ at[c] = "killing" /\ reply[c] # None /\ reply' = [reply EXCEPT ![c] = None]
      /\ at' = [at EXCEPT ![c] = "idle"]
      /\ UNCHANGED <<calls, idle, outcome, out, daemon, session, verdict, wrote, cmds, wire, stream>>
  BY DEF Killed, Answered, Goto, daemonVars
<1>3. Turns' /\ reply' \in [Callers -> Spawns \cup {None, "ok", "no"}]
  BY <1>1, <1>2, KeptTurn
<1>4. /\ idle[c] = "off" /\ out' \in [Callers -> Spawns \cup {None}]
      /\ \A d \in Callers : d # c => reply'[d] = reply[d]
  BY <1>1, <1>2 DEF CallType
<1>5. c \in Runs /\ outcome[c] = "ok" => session[Mine(c)] = "reported" /\ verdict[Mine(c)]
  BY DEF IInv, ResultOwn
<1>6. c \in Runs /\ daemon = "up" => session[Mine(c)] # "running"
  BY <1>1, <1>2 DEF IInv, Stopped, CallType
<1> QED
  BY ZenonT(30), <1>1, <1>2, <1>3, <1>4, <1>5, <1>6, Onward

LEMMA ReadStep ==
  ASSUME IInv, NEW c \in Callers, ReadReturns(c)
  PROVE  IInv'
<1>1. /\ TypeInv /\ Turns /\ CallType /\ cmds \in Seq(Command)
      /\ outcome = [outcome EXCEPT ![c] = outcome[c]] /\ idle = [idle EXCEPT ![c] = idle[c]]
      /\ outcome[c] \in {None, "refused", "failed", "idle", "capped", "ok"}
  BY DEF IInv, TypeInv, CallType, QueueType
<1>2. /\ at[c] = "reading" /\ reply[c] # None
      /\ UNCHANGED <<calls, idle, daemon, session, verdict, wrote, wire, stream>>
  BY DEF ReadReturns, daemonVars
<1>3. reply' = [reply EXCEPT ![c] = None]
  BY DEF ReadReturns, Answered
<1>4. c \in Runs => session[Mine(c)] = "reported" /\ verdict[Mine(c)]
  BY <1>2 DEF IInv, ResultOwn
<1>5. idle[c] = "off" /\ reply'[c] = None /\ \A d \in Callers : d # c => reply'[d] = reply[d]
  BY <1>1, <1>2, <1>3 DEF CallType
<1>6. CASE /\ at' = [at EXCEPT ![c] = "idle"] /\ cmds' = cmds
           /\ out' \in [Callers -> Spawns \cup {None}]
           /\ \E how \in {"failed", "ok"} : outcome' = [outcome EXCEPT ![c] = how]
  <2>1. PICK how \in {"failed", "ok"} : outcome' = [outcome EXCEPT ![c] = how]
    BY <1>6
  <2>2. Turns' /\ reply' \in [Callers -> Spawns \cup {None, "ok", "no"}]
    BY <1>1, <1>2, <1>3, <1>6, KeptTurn
  <2>3. how \in {None, "refused", "failed", "idle", "capped", "ok"}
    BY <2>1
  <2> QED
    BY <1>1, <1>2, <1>4, <1>5, <1>6, <2>1, <2>2, <2>3, Onward
<1>7. CASE /\ daemon = "up" /\ at' = [at EXCEPT ![c] = "validating"] /\ UNCHANGED <<outcome, out>>
           /\ cmds' = Append(cmds, [caller |-> c, spawn |-> Mine(c), type |-> "run"])
  <2>1. Sent(c, Mine(c), "run") /\ "run" \in Types /\ Asks("validating", "run")
    BY <1>3, <1>7 DEF Sent, Types, Asks
  <2>2. /\ Turns' /\ cmds' \in Seq(Command)
        /\ reply' \in [Callers -> Spawns \cup {None, "ok", "no"}]
        /\ \A i \in DOMAIN cmds' :
             (i \in DOMAIN cmds /\ cmds'[i] = cmds[i]) \/ cmds'[i].type # "spawn"
    BY <1>1, <1>2, <1>7, <2>1, SentNow
  <2>3. out' \in [Callers -> Spawns \cup {None}] /\ outcome' = [outcome EXCEPT ![c] = outcome[c]]
    BY <1>1, <1>7 DEF CallType
  <2> QED
    BY ZenonT(30), <1>1, <1>2, <1>4, <1>5, <1>7, <2>2, <2>3, Onward
<1> QED
  <2>1. reply[c] # "no" => reply[c] \in Spawns
    BY <1>1, <1>2 DEF Turns
  <2>2. out \in [Callers -> Spawns \cup {None}]
    BY <1>1 DEF CallType
  <2>3. CASE outcome' = [outcome EXCEPT ![c] = "failed"] /\ Goto(c, "idle") /\ UNCHANGED <<out, cmds>>
    BY <1>6, <2>2, <2>3 DEF Goto
  <2>4. CASE /\ reply[c] # "no" /\ outcome' = [outcome EXCEPT ![c] = "ok"]
             /\ out' = [out EXCEPT ![c] = reply[c]] /\ Goto(c, "idle") /\ UNCHANGED cmds
    BY <1>6, <2>1, <2>2, <2>4 DEF Goto
  <2> QED
    BY <1>7, <2>3, <2>4 DEF ReadReturns, Goto

LEMMA ValidatorStep ==
  ASSUME IInv, NEW c \in Callers, ValidatorReturns(c)
  PROVE  IInv'
<1>1. /\ TypeInv /\ Turns /\ CallType /\ cmds \in Seq(Command)
      /\ idle = [idle EXCEPT ![c] = idle[c]]
  BY DEF IInv, TypeInv, CallType, QueueType
<1>2. /\ at[c] = "validating" /\ reply[c] # None /\ reply' = [reply EXCEPT ![c] = None]
      /\ at' = [at EXCEPT ![c] = "idle"]
      /\ UNCHANGED <<calls, idle, daemon, session, verdict, wrote, cmds, wire, stream>>
  BY DEF ValidatorReturns, Answered, Goto, daemonVars
<1>3. PICK how \in {"ok", "failed"} : outcome' = [outcome EXCEPT ![c] = how]
  BY DEF ValidatorReturns
<1>4. out' \in [Callers -> Spawns \cup {None}]
  <2>1. Mine(c) \in Spawns
    BY <1>1, <1>2 DEF CallType, Mine, Spawns
  <2> QED
    BY <1>1, <2>1 DEF CallType, ValidatorReturns
<1>5. Turns' /\ reply' \in [Callers -> Spawns \cup {None, "ok", "no"}]
  BY <1>1, <1>2, KeptTurn
<1>6. /\ how \in {None, "refused", "failed", "idle", "capped", "ok"} /\ idle[c] = "off"
      /\ \A d \in Callers : d # c => reply'[d] = reply[d]
  BY <1>1, <1>2, <1>3 DEF CallType
<1>7. c \in Runs => session[Mine(c)] = "reported" /\ verdict[Mine(c)]
  BY <1>2 DEF IInv, ResultOwn
<1> QED
  BY <1>1, <1>2, <1>3, <1>4, <1>5, <1>6, <1>7, Onward

-----------------------------------------------------------------------------
(* The daemon serves the command of a caller that waits for just that.     *)
LEMMA Served ==
  ASSUME IInv, NEW type, Serving(type), NEW what \in Spawns \cup {"ok", "no"}, Answer(what),
         type = "read" => what \in Spawns \cup {"no"}, UNCHANGED callVars
  PROVE  /\ Head(cmds).caller \in Callers /\ Head(cmds).spawn = Mine(Head(cmds).caller)
         /\ Asks(at[Head(cmds).caller], type)
         /\ type = "spawn" => session[Head(cmds).spawn] = "none"
         /\ reply' = [reply EXCEPT ![Head(cmds).caller] = what]
         /\ reply' \in [Callers -> Spawns \cup {None, "ok", "no"}]
         /\ Turns' /\ cmds' \in Seq(Command) /\ CallType'
         /\ \A i \in DOMAIN cmds' : \E j \in DOMAIN cmds :
              cmds'[i] = cmds[j] /\ cmds[j].caller # Head(cmds).caller
<1>1. PICK c : c = Head(cmds).caller
  OBVIOUS
<1>2. /\ TypeInv /\ Turns /\ CallType /\ cmds \in Seq(Command) /\ cmds # <<>>
      /\ UNCHANGED <<at, calls, idle, outcome, out>>
  BY DEF IInv, TypeInv, QueueType, Serving, callVars
<1>3. /\ 1 \in DOMAIN cmds /\ Head(cmds) = cmds[1] /\ cmds' = Tail(cmds)
      /\ Tail(cmds) \in Seq(Command)
      /\ \A i \in DOMAIN Tail(cmds) :
           i \in Nat /\ i # 0 /\ i + 1 \in DOMAIN cmds /\ Tail(cmds)[i] = cmds[i + 1]
  BY <1>2, Shrunk DEF Answer
<1>4. /\ c \in Callers /\ Head(cmds).spawn = Mine(c) /\ Asks(at[c], type)
      /\ type = "spawn" => session[Head(cmds).spawn] = "none"
  BY <1>1, <1>2, <1>3, CommandOf DEF Turns, Serving, IInv, Fresh
<1>5. \A i \in DOMAIN cmds' : \E j \in DOMAIN cmds : cmds'[i] = cmds[j] /\ cmds[j].caller # c
  <2> SUFFICES ASSUME NEW i \in DOMAIN cmds'
               PROVE  \E j \in DOMAIN cmds : cmds'[i] = cmds[j] /\ cmds[j].caller # c
    OBVIOUS
  <2>1. i + 1 \in DOMAIN cmds /\ cmds'[i] = cmds[i + 1] /\ i + 1 # 1
    BY <1>3
  <2>2. cmds[i + 1].caller # c
    BY <1>1, <1>2, <1>3, <2>1 DEF Turns
  <2> QED
    BY <2>1, <2>2
<1>6. /\ reply' = [reply EXCEPT ![c] = what] /\ reply'[c] = what
      /\ reply' \in [Callers -> Spawns \cup {None, "ok", "no"}]
      /\ \A d \in Callers : d # c => reply'[d] = reply[d]
  BY <1>1, <1>2, <1>4 DEF Answer, CallType
<1>7. Turns'
  <2>1. \A i \in DOMAIN cmds' :
          /\ cmds'[i].spawn = <<cmds'[i].caller, calls'[cmds'[i].caller]>>
          /\ Asks(at'[cmds'[i].caller], cmds'[i].type)
          /\ reply'[cmds'[i].caller] = None
    <3> SUFFICES ASSUME NEW i \in DOMAIN cmds'
                 PROVE  /\ cmds'[i].spawn = <<cmds'[i].caller, calls'[cmds'[i].caller]>>
                        /\ Asks(at'[cmds'[i].caller], cmds'[i].type)
                        /\ reply'[cmds'[i].caller] = None
      OBVIOUS
    <3>1. PICK j \in DOMAIN cmds : cmds'[i] = cmds[j] /\ cmds[j].caller # c
      BY <1>5
    <3>2. cmds[j].caller \in Callers
      BY <1>2, CommandOf
    <3> QED
      BY <1>2, <1>6, <3>1, <3>2 DEF Turns, Mine
  <2>2. \A i, j \in DOMAIN cmds' : cmds'[i].caller = cmds'[j].caller => i = j
    <3> SUFFICES ASSUME NEW i \in DOMAIN cmds', NEW j \in DOMAIN cmds',
                        cmds'[i].caller = cmds'[j].caller
                 PROVE  i = j
      OBVIOUS
    <3>1. /\ i \in Nat /\ i + 1 \in DOMAIN cmds /\ cmds'[i] = cmds[i + 1]
          /\ j \in Nat /\ j + 1 \in DOMAIN cmds /\ cmds'[j] = cmds[j + 1]
      BY <1>3
    <3>2. i + 1 = j + 1
      BY <1>2, <3>1 DEF Turns
    <3> QED
      BY <3>1, <3>2
  <2>3. at[c] \notin {"idle", "waiting"} /\ (at[c] = "reading" => what \in Spawns \cup {"no"})
    BY <1>4 DEF Asks
  <2>4. \A d \in Callers : reply'[d] # None => at'[d] \notin {"idle", "waiting"}
    BY <1>2, <1>6, <2>3 DEF Turns
  <2>5. \A d \in Callers : at'[d] = "reading" => reply'[d] \in Spawns \cup {None, "no"}
    BY <1>2, <1>6, <2>3 DEF Turns
  <2> QED
    BY <2>1, <2>2, <2>4, <2>5 DEF Turns, Mine
<1>8. CallType'
  BY <1>2, <1>6 DEF CallType
<1> QED
  BY <1>1, <1>3, <1>4, <1>5, <1>6, <1>7, <1>8

(* The steps between the daemon and the gateway that touch no call and no  *)
(* command.                                                                *)
LEMMA EventStep ==
  ASSUME IInv,
         Deliver \/ \E s \in Spawns : Works(s) \/ Writes(s)
  PROVE  IInv'
<1>1. UNCHANGED <<at, calls, idle, outcome, out, reply, cmds, daemon, session, verdict>>
  BY DEF Deliver, Works, Writes, callVars, daemonVars
<1>2. wire \in Seq(Published) /\ stream \in Seq(Published) /\ Len(stream) <= EventBuf
  BY DEF IInv, TypeInv, QueueType
<1>3. HonestIn(wire) /\ HonestIn(stream)
  BY DEF IInv, Honest
<1>4. Turns' /\ Fresh' /\ Stopped' /\ ResultOwn' /\ CallType'
  BY <1>1 DEF IInv, Turns, Fresh, Stopped, ResultOwn, TypeInv, CallType, Mine
<1>5. cmds' \in Seq(Command)
  BY <1>1 DEF IInv, TypeInv, QueueType
<1>6. CASE Deliver
  <2>1. wire # <<>> /\ wire' = Tail(wire) /\ wrote' = wrote
    BY <1>6 DEF Deliver, daemonVars
  <2>2. /\ Tail(wire) \in Seq(Published) /\ Head(wire) \in Published
        /\ 1 \in DOMAIN wire /\ Head(wire) = wire[1]
    BY <1>2, <2>1, Shrunk
  <2>3. HonestIn(Tail(wire))
    BY <1>2, <1>3, <2>1, HonestTail
  <2>4. /\ stream' \in Seq(Published) /\ Len(stream') <= EventBuf /\ HonestIn(stream')
    <3>1. CASE stream' = stream
      BY <1>2, <1>3, <3>1
    <3>2. CASE Len(stream) < EventBuf /\ stream' = Append(stream, Head(wire))
      <4>1. /\ stream' \in Seq(Published) /\ Len(stream') = Len(stream) + 1 /\ Len(stream) \in Nat
            /\ DOMAIN stream = 1 .. Len(stream) /\ DOMAIN stream' = 1 .. Len(stream) + 1
            /\ \A i \in 1 .. Len(stream) : stream'[i] = stream[i]
            /\ stream'[Len(stream) + 1] = Head(wire)
        BY <1>2, <2>2, <3>2, Grown
      <4>2. EventBuf \in Nat
        BY GatewayAssumption
      <4>3. Len(stream') <= EventBuf
        BY <3>2, <4>1, <4>2
      <4>4. \A i \in DOMAIN stream' : i \in DOMAIN stream \/ i = Len(stream) + 1
        BY <4>1
      <4>5. HonestIn(stream')
        BY <1>3, <2>2, <4>1, <4>4 DEF HonestIn
      <4> QED
        BY <4>1, <4>3, <4>5
    <3> QED
      BY <1>6, <3>1, <3>2 DEF Deliver
  <2>5. Honest'
    BY <1>1, <2>1, <2>3, <2>4 DEF Honest, HonestIn
  <2>6. DaemonType' /\ QueueType'
    BY <1>1, <1>5, <2>1, <2>2, <2>4 DEF IInv, TypeInv, DaemonType, QueueType
  <2> QED
    BY <1>4, <2>5, <2>6 DEF IInv, TypeInv
<1>7. ASSUME NEW s \in Spawns, Works(s)
      PROVE  IInv'
  <2>1. wire' = Append(wire, Event(s, "event")) /\ UNCHANGED <<wrote, stream>>
    BY <1>7 DEF Works
  <2>2. Event(s, "event") \in Published /\ Event(s, "event").type \notin Reported
    BY DEF Event, Published, Reported
  <2>3. /\ wire' \in Seq(Published) /\ Len(wire) \in Nat
        /\ DOMAIN wire = 1 .. Len(wire) /\ DOMAIN wire' = 1 .. Len(wire) + 1
        /\ \A i \in 1 .. Len(wire) : wire'[i] = wire[i]
        /\ wire'[Len(wire) + 1] = Event(s, "event")
    BY <1>2, <2>1, <2>2, Grown
  <2>4. \A i \in DOMAIN wire' : i \in DOMAIN wire \/ i = Len(wire) + 1
    BY <2>3
  <2>5. Honest'
    BY <1>1, <1>3, <2>1, <2>2, <2>3, <2>4 DEF Honest, HonestIn
  <2>6. DaemonType' /\ QueueType'
    BY <1>1, <1>2, <1>5, <2>1, <2>3 DEF IInv, TypeInv, DaemonType, QueueType
  <2> QED
    BY <1>4, <2>5, <2>6 DEF IInv, TypeInv
<1>8. ASSUME NEW s \in Spawns, Writes(s)
      PROVE  IInv'
  <2>1. UNCHANGED <<wire, stream>> /\ wrote' = [wrote EXCEPT ![Workspace[s[1]]] = s]
    BY <1>8 DEF Writes
  <2>2. Honest' /\ QueueType'
    BY <1>1, <1>2, <1>3, <1>5, <2>1 DEF Honest, HonestIn, QueueType
  <2>3. DaemonType'
    BY <1>1, <2>1 DEF IInv, TypeInv, DaemonType
  <2> QED
    BY <1>4, <2>2, <2>3 DEF IInv, TypeInv
<1> QED
  BY <1>6, <1>7, <1>8

LEMMA DiesStep ==
  ASSUME IInv, Dies
  PROVE  IInv'
<1>1. /\ UNCHANGED <<at, calls, idle, outcome, out, reply, session, verdict, wrote, wire, stream>>
      /\ cmds' = <<>> /\ daemon' = "gone"
  BY DEF Dies, callVars
<1>2. Turns' /\ Fresh'
  BY <1>1 DEF IInv, Turns, Fresh
<1>3. Stopped' /\ ResultOwn' /\ Honest'
  BY <1>1 DEF IInv, Stopped, ResultOwn, Honest, HonestIn, Mine
<1>4. TypeInv'
  BY <1>1 DEF IInv, TypeInv, CallType, DaemonType, QueueType
<1> QED
  BY <1>2, <1>3, <1>4 DEF IInv

(* What a step of the daemon may do to a session without a caller noticing:*)
(* nothing to one that is over, and no running one but that just asked for.*)
LEMMA SessionsKept ==
  ASSUME IInv, UNCHANGED <<at, calls, outcome, daemon>>,
         session' \in [Spawns -> {"none", "running", "stopped", "reported"}],
         \A s \in Spawns : session[s] = "reported" =>
           session'[s] = "reported" /\ verdict'[s] = verdict[s],
         \A s \in Spawns : session[s] = "none" => session'[s] = "none"
                             \/ \E c \in Callers : s = Mine(c) /\ at[c] = "spawning" /\ reply'[c] = "ok",
         \A s \in Spawns : session'[s] = "running" => session[s] = "running"
                             \/ \E c \in Callers : s = Mine(c) /\ at[c] = "spawning",
         \A c \in Callers : reply'[c] = reply[c]
                             \/ (at[c] = "killing" => session'[Mine(c)] # "running"),
         \A c \in Callers : at[c] = "spawning" /\ reply'[c] = "no" /\ reply[c] # "no" =>
                             session[Mine(c)] = "none",
         \A i \in DOMAIN cmds' : \E j \in DOMAIN cmds :
           cmds'[i] = cmds[j] /\ reply'[cmds[j].caller] = reply[cmds[j].caller]
  PROVE  Fresh' /\ Stopped' /\ ResultOwn'
<1>1. /\ TypeInv /\ Turns /\ Fresh /\ Stopped /\ ResultOwn
      /\ calls \in [Callers -> 0 .. MaxCalls] /\ MaxCalls \in Nat
      /\ \A c \in Callers : at[c] # "idle" \/ outcome[c] = "ok" => calls[c] \in 1 .. MaxCalls
  BY GatewayAssumption DEF IInv, TypeInv, CallType
<1>2. \A c \in Callers : calls[c] \in 1 .. MaxCalls => Mine(c) \in Spawns
  BY DEF Mine, Spawns
<1>3. \A c \in Callers : Mine(c)' = Mine(c)
  BY DEF Mine
<1>4. \A c \in Callers : \A n : Mine(c) = <<c, calls[c]>> /\ (<<c, n>> = Mine(c) => n = calls[c])
  BY DEF Mine
<1>5. \A c, d \in Callers : \A n : <<d, n>> = Mine(c) => d = c /\ n = calls[c]
  BY DEF Mine
<1>6. Fresh'
  <2>1. \A c \in Callers : \A n \in calls'[c] + 1 .. MaxCalls : session'[<<c, n>>] = "none"
    <3> SUFFICES ASSUME NEW c \in Callers, NEW n \in calls[c] + 1 .. MaxCalls
                 PROVE  session'[<<c, n>>] = "none"
      OBVIOUS
    <3>1. calls[c] \in 0 .. MaxCalls
      BY <1>1
    <3>2. n \in 1 .. MaxCalls /\ n # calls[c]
      BY <1>1, <3>1
    <3>3. <<c, n>> \in Spawns /\ session[<<c, n>>] = "none"
      BY <1>1, <3>2 DEF Fresh, Spawns
    <3>4. ~\E d \in Callers : <<c, n>> = Mine(d)
      BY <1>5, <3>2
    <3> QED
      BY <3>3, <3>4
  <2>2. \A i \in DOMAIN cmds' : cmds'[i].type = "spawn" => session'[cmds'[i].spawn] = "none"
    <3> SUFFICES ASSUME NEW i \in DOMAIN cmds', cmds'[i].type = "spawn"
                 PROVE  session'[cmds'[i].spawn] = "none"
      OBVIOUS
    <3>1. PICK j \in DOMAIN cmds :
            cmds'[i] = cmds[j] /\ reply'[cmds[j].caller] = reply[cmds[j].caller]
      OBVIOUS
    <3>2. /\ cmds[j].caller \in Callers /\ cmds[j].spawn \in Spawns
          /\ cmds[j].spawn = Mine(cmds[j].caller) /\ reply[cmds[j].caller] = None
      BY <1>1, CommandOf DEF Turns
    <3>3. session[cmds[j].spawn] = "none"
      BY <1>1, <3>1 DEF Fresh
    <3>4. \A d \in Callers : cmds[j].spawn = Mine(d) => d = cmds[j].caller
      BY <3>2 DEF Mine
    <3> QED
      BY <3>1, <3>2, <3>3, <3>4, GatewayAssumption
  <2>3. \A c \in Callers : at'[c] = "spawning" /\ reply'[c] = "no" /\ daemon' = "up" =>
          session'[Mine(c)'] = "none"
    <3> SUFFICES ASSUME NEW c \in Callers, at[c] = "spawning", reply'[c] = "no", daemon = "up"
                 PROVE  session'[Mine(c)] = "none"
      BY <1>3
    <3>1. Mine(c) \in Spawns
      BY <1>1, <1>2
    <3>2. session[Mine(c)] = "none"
      BY <1>1 DEF Fresh
    <3>3. \A d \in Callers : Mine(c) = Mine(d) => d = c
      BY DEF Mine
    <3> QED
      BY <3>1, <3>2, <3>3
  <2> QED
    BY <2>1, <2>2, <2>3 DEF Fresh
<1>7. Stopped'
  <2> SUFFICES ASSUME daemon = "up", NEW c \in Runs
               PROVE  /\ \A n \in 1 .. calls[c] - 1 : session'[<<c, n>>] # "running"
                      /\ calls[c] \in 1 .. MaxCalls
                         /\ (at[c] = "idle" \/ (at[c] = "killing" /\ reply'[c] # None)) =>
                           session'[Mine(c)] # "running"
    BY <1>3 DEF Stopped, Callers
  <2>1. c \in Callers /\ calls[c] \in 0 .. MaxCalls
    BY <1>1 DEF Callers
  <2>2. ASSUME NEW n \in 1 .. calls[c] - 1
        PROVE  session'[<<c, n>>] # "running"
    <3>1. n \in 1 .. MaxCalls /\ n # calls[c]
      BY <1>1, <2>1
    <3>2. <<c, n>> \in Spawns /\ session[<<c, n>>] # "running"
      BY <1>1, <2>1, <3>1 DEF Stopped, Spawns
    <3>3. ~\E d \in Callers : <<c, n>> = Mine(d)
      BY <1>5, <2>1, <3>1
    <3> QED
      BY <3>2, <3>3
  <2>3. ASSUME calls[c] \in 1 .. MaxCalls, at[c] = "idle" \/ (at[c] = "killing" /\ reply'[c] # None)
        PROVE  session'[Mine(c)] # "running"
    <3>1. Mine(c) \in Spawns /\ \A d \in Callers : Mine(c) = Mine(d) => d = c
      BY <1>2, <2>1, <2>3 DEF Mine
    <3>2. CASE at[c] = "idle" \/ reply[c] # None
      BY <1>1, <2>1, <2>3, <3>1, <3>2 DEF Stopped
    <3>3. CASE at[c] = "killing" /\ reply[c] = None
      BY <2>1, <2>3, <3>3
    <3> QED
      BY <2>3, <3>2, <3>3
  <2> QED
    BY <2>2, <2>3
<1>8. ResultOwn'
  <2> SUFFICES ASSUME NEW c \in Runs, at[c] \in {"reading", "validating"} \/ outcome[c] = "ok"
               PROVE  session'[Mine(c)] = "reported" /\ verdict'[Mine(c)]
    BY <1>3 DEF ResultOwn, Callers
  <2>1. c \in Callers /\ Mine(c) \in Spawns
    BY <1>1, <1>2 DEF Callers
  <2> QED
    BY <1>1, <2>1 DEF ResultOwn
<1> QED
  BY <1>6, <1>7, <1>8

LEMMA ServeStep ==
  ASSUME IInv, Serve
  PROVE  IInv'
<1>1. PICK c, s : c = Head(cmds).caller /\ s = Head(cmds).spawn
  OBVIOUS
<1>2. /\ TypeInv /\ CallType /\ wire \in Seq(Published) /\ stream \in Seq(Published)
      /\ session \in [Spawns -> {"none", "running", "stopped", "reported"}]
      /\ HonestIn(wire) /\ HonestIn(stream)
  BY DEF IInv, TypeInv, DaemonType, QueueType, Honest
<1>3. UNCHANGED callVars /\ UNCHANGED <<at, calls, outcome, daemon, verdict, wrote, stream>>
  BY DEF Serve, ServeSpawn, ServeKill, ServeRead, ServeRun, callVars, daemonVars
<1>4. ASSUME NEW type, Serving(type), NEW what \in Spawns \cup {"ok", "no"}, Answer(what),
             type = "read" => what \in Spawns \cup {"no"}
      PROVE  /\ c \in Callers /\ s = Mine(c) /\ s \in Spawns /\ Asks(at[c], type)
             /\ type = "spawn" => session[s] = "none"
             /\ Turns' /\ cmds' \in Seq(Command) /\ CallType'
             /\ reply'[c] = what /\ \A d \in Callers : d # c => reply'[d] = reply[d]
             /\ \A i \in DOMAIN cmds' : \E j \in DOMAIN cmds :
                  cmds'[i] = cmds[j] /\ reply'[cmds[j].caller] = reply[cmds[j].caller]
  <2>1. /\ c \in Callers /\ s = Mine(c) /\ Asks(at[c], type)
        /\ type = "spawn" => session[s] = "none"
        /\ reply' = [reply EXCEPT ![c] = what]
        /\ Turns' /\ cmds' \in Seq(Command) /\ CallType'
        /\ \A i \in DOMAIN cmds' : \E j \in DOMAIN cmds : cmds'[i] = cmds[j] /\ cmds[j].caller # c
    BY <1>1, <1>3, <1>4, Served
  <2>2. s \in Spawns
    BY <1>2, <2>1 DEF CallType, Asks, Mine, Spawns
  <2>3. reply'[c] = what /\ \A d \in Callers : d # c => reply'[d] = reply[d]
    BY <1>2, <2>1 DEF CallType
  <2>4. \A j \in DOMAIN cmds : cmds[j].caller \in Callers
    BY <1>2, CommandOf
  <2> QED
    BY <2>1, <2>2, <2>3, <2>4
<1>5. ASSUME UNCHANGED <<session, wire>>, NEW type, Serving(type),
             NEW what \in Spawns \cup {"ok", "no"}, Answer(what),
             type = "read" => what \in Spawns \cup {"no"}, type # "kill"
      PROVE  IInv'
  <2>1. /\ c \in Callers /\ s = Mine(c) /\ Asks(at[c], type)
        /\ type = "spawn" => session[s] = "none"
        /\ Turns' /\ cmds' \in Seq(Command) /\ CallType'
        /\ \A d \in Callers : d # c => reply'[d] = reply[d]
        /\ \A i \in DOMAIN cmds' : \E j \in DOMAIN cmds :
             cmds'[i] = cmds[j] /\ reply'[cmds[j].caller] = reply[cmds[j].caller]
    BY <1>4, <1>5
  <2>2. at[c] # "killing" /\ (at[c] = "spawning" => session[Mine(c)] = "none")
    BY <1>5, <2>1 DEF Asks
  <2>3. Fresh' /\ Stopped' /\ ResultOwn'
    BY <1>2, <1>3, <1>5, <2>1, <2>2, SessionsKept
  <2>4. Honest' /\ DaemonType' /\ QueueType'
    BY <1>2, <1>3, <1>5, <2>1 DEF IInv, TypeInv, Honest, HonestIn, DaemonType, QueueType
  <2> QED
    BY <2>1, <2>3, <2>4 DEF IInv, TypeInv
<1>6. CASE ServeSpawn
  <2>1. Serving("spawn")
    BY <1>6 DEF ServeSpawn
  <2>2. CASE Answer("no") /\ UNCHANGED <<session, wire>>
    BY <1>5, <2>1, <2>2
  <2>3. CASE /\ session' = [session EXCEPT ![s] = "running"]
             /\ wire' = Append(wire, Event(s, "started")) /\ Answer("ok")
    <3>1. /\ c \in Callers /\ s = Mine(c) /\ s \in Spawns /\ at[c] = "spawning"
          /\ session[s] = "none"
          /\ Turns' /\ cmds' \in Seq(Command) /\ CallType'
          /\ reply'[c] = "ok" /\ \A d \in Callers : d # c => reply'[d] = reply[d]
          /\ \A i \in DOMAIN cmds' : \E j \in DOMAIN cmds :
               cmds'[i] = cmds[j] /\ reply'[cmds[j].caller] = reply[cmds[j].caller]
      BY <1>4, <2>1, <2>3 DEF Asks
    <3>2. /\ session' \in [Spawns -> {"none", "running", "stopped", "reported"}]
          /\ session'[s] = "running" /\ \A t \in Spawns : t # s => session'[t] = session[t]
      BY <1>2, <2>3, <3>1
    <3>3. Fresh' /\ Stopped' /\ ResultOwn'
      BY <1>2, <1>3, <3>1, <3>2, SessionsKept
    <3>4. Event(s, "started") \in Published /\ Event(s, "started").type \notin Reported
      BY <3>1 DEF Event, Published, Reported
    <3>5. /\ wire' \in Seq(Published) /\ Len(wire) \in Nat
          /\ DOMAIN wire = 1 .. Len(wire) /\ DOMAIN wire' = 1 .. Len(wire) + 1
          /\ \A i \in 1 .. Len(wire) : wire'[i] = wire[i]
          /\ wire'[Len(wire) + 1] = Event(s, "started")
      BY <1>2, <2>3, <3>4, Grown
    <3>6. \A i \in DOMAIN wire' : i \in DOMAIN wire \/ i = Len(wire) + 1
      BY <3>5
    <3>7. \A t \in Spawns : session[t] = "reported" => session'[t] = "reported" /\ verdict'[t] = verdict[t]
      BY <1>3, <3>1, <3>2
    <3>8. (\A i \in DOMAIN wire : wire[i].spawn \in Spawns)
          /\ \A i \in DOMAIN stream : stream[i].spawn \in Spawns
      BY <1>2, PublishedOf
    <3>9. HonestIn(wire)'
      <4> SUFFICES ASSUME NEW i \in DOMAIN wire', wire'[i].type \in Reported
                   PROVE  /\ session'[wire'[i].spawn] = "reported"
                          /\ wire'[i].type = "done" => verdict'[wire'[i].spawn]
        BY DEF HonestIn
      <4>1. i \in DOMAIN wire /\ wire'[i] = wire[i]
        BY <3>4, <3>5, <3>6
      <4> QED
        BY <1>2, <3>7, <3>8, <4>1 DEF HonestIn
    <3>10. HonestIn(stream)'
      BY <1>2, <1>3, <3>7, <3>8 DEF HonestIn
    <3>11. DaemonType' /\ QueueType'
      BY <1>2, <1>3, <3>1, <3>2, <3>5 DEF TypeInv, DaemonType, QueueType
    <3> QED
      BY <3>1, <3>3, <3>9, <3>10, <3>11 DEF IInv, TypeInv, Honest
  <2> QED
    BY <1>1, <1>6, <2>2, <2>3 DEF ServeSpawn
<1>7. CASE ServeKill
  <2>1. /\ Serving("kill") /\ Answer("ok") /\ UNCHANGED wire
        /\ session' = [session EXCEPT ![s] = IF @ = "running" THEN "stopped" ELSE @]
    BY <1>1, <1>7 DEF ServeKill
  <2>2. /\ c \in Callers /\ s = Mine(c) /\ s \in Spawns /\ at[c] = "killing"
        /\ Turns' /\ cmds' \in Seq(Command) /\ CallType'
        /\ \A d \in Callers : d # c => reply'[d] = reply[d]
        /\ \A i \in DOMAIN cmds' : \E j \in DOMAIN cmds :
             cmds'[i] = cmds[j] /\ reply'[cmds[j].caller] = reply[cmds[j].caller]
    BY <1>4, <2>1 DEF Asks
  <2>3. /\ session' \in [Spawns -> {"none", "running", "stopped", "reported"}]
        /\ session'[s] # "running"
        /\ \A t \in Spawns : session'[t] = session[t] \/ (session[t] = "running" /\ session'[t] = "stopped")
    BY <1>2, <2>1, <2>2
  <2>4. Fresh' /\ Stopped' /\ ResultOwn'
    BY <1>3, <2>2, <2>3, SessionsKept
  <2>5. (\A i \in DOMAIN wire : wire[i].spawn \in Spawns)
        /\ \A i \in DOMAIN stream : stream[i].spawn \in Spawns
    BY <1>2, PublishedOf
  <2>6. Honest'
    BY <1>2, <1>3, <2>1, <2>3, <2>5 DEF Honest, HonestIn
  <2>7. DaemonType' /\ QueueType'
    BY <1>2, <1>3, <2>1, <2>2, <2>3 DEF TypeInv, DaemonType, QueueType
  <2> QED
    BY <2>2, <2>4, <2>6, <2>7 DEF IInv, TypeInv
<1>8. CASE ServeRead
  <2>1. PICK what : Answer(what) /\ what = (IF wrote[Workspace[c]] = None THEN "no" ELSE wrote[Workspace[c]])
    BY <1>1, <1>8 DEF ServeRead
  <2>2. Serving("read") /\ UNCHANGED <<session, wire>>
    BY <1>8 DEF ServeRead, daemonVars
  <2>3. c \in Callers
    <3>0. cmds \in Seq(Command) /\ cmds # <<>>
      BY <2>2 DEF Serving, IInv, TypeInv, QueueType
    <3>1. 1 \in DOMAIN cmds /\ Head(cmds) = cmds[1]
      BY <3>0, Shrunk
    <3> QED
      BY <1>1, <1>2, <3>1, CommandOf
  <2>4. what \in Spawns \cup {"no"}
    BY <1>2, <2>1, <2>3 DEF TypeInv, DaemonType
  <2> QED
    BY <1>5, <2>1, <2>2, <2>4
<1>9. CASE ServeRun
  <2>1. PICK what \in {"ok", "no"} : Answer(what)
    BY <1>9 DEF ServeRun
  <2>2. Serving("run") /\ UNCHANGED <<session, wire>>
    BY <1>9 DEF ServeRun, daemonVars
  <2> QED
    BY <1>5, <2>1, <2>2
<1> QED
  BY <1>6, <1>7, <1>8, <1>9 DEF Serve

(* A session ends once, with one report.                                   *)
LEMMA ReportsStep ==
  ASSUME IInv, NEW s \in Spawns, Reports(s)
  PROVE  IInv'
<1>1. /\ TypeInv /\ wire \in Seq(Published) /\ stream \in Seq(Published) /\ cmds \in Seq(Command)
      /\ session \in [Spawns -> {"none", "running", "stopped", "reported"}]
      /\ verdict \in [Spawns -> BOOLEAN]
      /\ HonestIn(wire) /\ HonestIn(stream) /\ CallType /\ Turns
  BY DEF IInv, TypeInv, DaemonType, QueueType, Honest
<1>2. /\ session[s] \in {"running", "stopped"} /\ session' = [session EXCEPT ![s] = "reported"]
      /\ UNCHANGED <<at, calls, idle, outcome, out, daemon, wrote, reply, cmds, stream>>
  BY DEF Reports, callVars
<1>3. PICK how \in Reported : /\ verdict' = [verdict EXCEPT ![s] = how = "done"]
                              /\ wire' = Append(wire, Event(s, how))
  BY DEF Reports
<1>4. /\ session' \in [Spawns -> {"none", "running", "stopped", "reported"}]
      /\ verdict' \in [Spawns -> BOOLEAN] /\ session'[s] = "reported"
      /\ verdict'[s] = (how = "done")
      /\ \A t \in Spawns : t # s => session'[t] = session[t] /\ verdict'[t] = verdict[t]
  BY <1>1, <1>2, <1>3
<1>5. CallType' /\ Turns'
  BY <1>1, <1>2 DEF CallType, Turns, Mine
<1>6. Fresh' /\ Stopped' /\ ResultOwn'
  BY <1>2, <1>4, SessionsKept
<1>7. Event(s, how) \in Published /\ Event(s, how).spawn = s /\ Event(s, how).type = how
  BY DEF Event, Published
<1>8. /\ wire' \in Seq(Published) /\ Len(wire) \in Nat
      /\ DOMAIN wire = 1 .. Len(wire) /\ DOMAIN wire' = 1 .. Len(wire) + 1
      /\ \A i \in 1 .. Len(wire) : wire'[i] = wire[i]
      /\ wire'[Len(wire) + 1] = Event(s, how)
  BY <1>1, <1>3, <1>7, Grown
<1>9. \A i \in DOMAIN wire' : i \in DOMAIN wire \/ i = Len(wire) + 1
  BY <1>8
<1>10. \A t \in Spawns : session[t] = "reported" => session'[t] = "reported" /\ verdict'[t] = verdict[t]
  BY <1>2, <1>4
<1>11. HonestIn(wire)'
  <2> SUFFICES ASSUME NEW i \in DOMAIN wire', wire'[i].type \in Reported
               PROVE  /\ session'[wire'[i].spawn] = "reported"
                      /\ wire'[i].type = "done" => verdict'[wire'[i].spawn]
    BY DEF HonestIn
  <2>1. CASE i \in DOMAIN wire
    BY <1>1, <1>8, <1>10, <2>1, PublishedOf DEF HonestIn
  <2>2. CASE i = Len(wire) + 1
    BY <1>4, <1>7, <1>8, <2>2
  <2> QED
    BY <1>9, <2>1, <2>2
<1>12. HonestIn(stream)'
  BY <1>1, <1>2, <1>10, PublishedOf DEF HonestIn
<1>13. DaemonType' /\ QueueType'
  BY <1>1, <1>2, <1>4, <1>8 DEF TypeInv, DaemonType, QueueType
<1> QED
  BY <1>5, <1>6, <1>11, <1>12, <1>13 DEF IInv, TypeInv, Honest

LEMMA NextInv == IInv /\ [Next]_vars => IInv'
<1> SUFFICES ASSUME IInv, [Next]_vars PROVE IInv'
  OBVIOUS
<1>1. CASE UNCHANGED vars
  BY <1>1
  DEF vars, callVars, daemonVars, IInv, TypeInv, CallType, DaemonType, QueueType, Turns, Fresh,
      Honest, HonestIn, Stopped, ResultOwn, Mine
<1>2. ASSUME NEW c \in Callers, Spawn(c) \/ Call(c) \/ IdleFires(c)
      PROVE  IInv'
  BY <1>2, SpawnStep, AcceptedStep, RefusedStep, ConsumeStep, TimeoutStep, KilledStep, ReadStep,
     ValidatorStep, IdleStep DEF Call
<1>3. CASE \E s \in Spawns : Works(s) \/ Writes(s) \/ Reports(s)
  BY <1>3, EventStep, ReportsStep
<1> QED
  BY <1>1, <1>2, <1>3, ServeStep, EventStep, DiesStep DEF Next, Idle

LEMMA Always == Spec => []IInv
BY InitInv, NextInv, PTL DEF Spec

(* The variables have the values the code can give them.                   *)
THEOREM TypeCorrect == Spec => []TypeOK
BY Always, Implied, PTL

(* SpawnAndWait and ReadArtifact: whatever happens to the daemon, and      *)
(* whoever else takes events from the channel, a run reads the output only *)
(* after a spawn-done with ok of the session it is waiting for.            *)
THEOREM ResultOwnCorrect == Spec => []ResultOwn
BY Always, Implied, PTL

(* RunAgent kills what it gives up: a run never asks for a session while   *)
(* an earlier one of its own is running.                                   *)
THEOREM OneLiveCorrect == Spec => []OneLiveSession
BY Always, Implied, PTL

-----------------------------------------------------------------------------
(***************************************************************************)
(* Reports.  Every session that ended has its report in one place: on the  *)
(* wire, in the channel, in the hands of a caller, or dropped.             *)
(***************************************************************************)
IsReport(ev, s) == ev.spawn = s /\ ev.type \in Reported
Once(q, s) == \A i, j \in DOMAIN q : IsReport(q[i], s) /\ IsReport(q[j], s) => i = j

FateType == fate \in [Spawns -> Callers \cup {None, "dropped"}]
OnePlace ==
  \A s \in Spawns :
    /\ Once(wire, s) /\ Once(stream, s) /\ ~(ReportIn(wire, s) /\ ReportIn(stream, s))
    /\ session[s] = "reported" => OnItsWay(s) \/ fate[s] # None
    /\ fate[s] # None => session[s] = "reported" /\ ~OnItsWay(s)
(* Who has taken the report of its own session no longer waits.            *)
NotOwn == \A c \in Callers : Awaited(c) => fate[Mine(c)] # c

FateInv == FateType /\ OnePlace /\ NotOwn

LEMMA MineIs ==
  ASSUME IInv, NEW c \in Callers, at[c] # "idle"
  PROVE  Mine(c) \in Spawns
BY DEF IInv, TypeInv, CallType, Mine, Spawns

LEMMA FateImplied == IInv /\ FateInv => ReportAccounted
<1> SUFFICES ASSUME IInv, FateInv PROVE ReportAccounted
  OBVIOUS
<1>1. ASSUME NEW c \in Callers, Awaited(c), ~OnItsWay(Mine(c))
      PROVE  fate[Mine(c)] \in (Callers \ {c}) \cup {"dropped"}
  <2>1. Mine(c) \in Spawns
    BY <1>1, MineIs DEF Awaited
  <2>2. fate[Mine(c)] # None /\ fate[Mine(c)] # c
    BY <1>1, <2>1 DEF FateInv, OnePlace, NotOwn, Awaited
  <2> QED
    BY <2>1, <2>2 DEF FateInv, FateType
<1> QED
  BY <1>1 DEF ReportAccounted, FateInv, OnePlace

LEMMA FateInit == Init => FateInv
<1> SUFFICES ASSUME Init PROVE FateInv
  OBVIOUS
<1>1. /\ wire = <<>> /\ stream = <<>> /\ fate = [s \in Spawns |-> None]
      /\ \A s \in Spawns : session[s] = "none"
      /\ \A c \in Callers : at[c] = "idle"
  BY DEF Init
<1>2. \A s : Once(<<>>, s) /\ ~ReportIn(<<>>, s)
  BY DEF Once, ReportIn
<1> QED
  BY <1>1, <1>2 DEF FateInv, FateType, OnePlace, NotOwn, Awaited, OnItsWay

LEMMA ReportGrown ==
  ASSUME NEW q \in Seq(Published), NEW ev \in Published, NEW s
  PROVE  /\ ReportIn(Append(q, ev), s) <=> ReportIn(q, s) \/ IsReport(ev, s)
         /\ Once(q, s) /\ ~(ReportIn(q, s) /\ IsReport(ev, s)) => Once(Append(q, ev), s)
<1>1. /\ Len(q) \in Nat /\ DOMAIN q = 1 .. Len(q) /\ DOMAIN Append(q, ev) = 1 .. Len(q) + 1
      /\ \A i \in 1 .. Len(q) : Append(q, ev)[i] = q[i]
      /\ Append(q, ev)[Len(q) + 1] = ev
  BY Grown
<1>2. \A i \in DOMAIN Append(q, ev) : i \in DOMAIN q \/ i = Len(q) + 1
  BY <1>1
<1>3. Len(q) + 1 \in DOMAIN Append(q, ev) /\ \A i \in DOMAIN q : i \in DOMAIN Append(q, ev)
  BY <1>1
<1> QED
  BY <1>1, <1>2, <1>3 DEF ReportIn, Once, IsReport

LEMMA ReportShrunk ==
  ASSUME NEW q \in Seq(Published), q # <<>>, NEW s
  PROVE  /\ ReportIn(q, s) <=> ReportIn(Tail(q), s) \/ IsReport(Head(q), s)
         /\ Once(q, s) => Once(Tail(q), s) /\ ~(ReportIn(Tail(q), s) /\ IsReport(Head(q), s))
<1>1. /\ Len(q) \in Nat /\ Len(q) # 0 /\ DOMAIN q = 1 .. Len(q) /\ DOMAIN Tail(q) = 1 .. Len(q) - 1
      /\ \A i \in 1 .. Len(q) - 1 : Tail(q)[i] = q[i + 1]
      /\ Head(q) = q[1]
  OBVIOUS
<1>2. \A i \in DOMAIN Tail(q) : i + 1 \in DOMAIN q /\ Tail(q)[i] = q[i + 1] /\ i + 1 # 1 /\ i \in Nat
  BY <1>1
<1>3. \A i \in DOMAIN q : i = 1 \/ (i - 1 \in DOMAIN Tail(q) /\ Tail(q)[i - 1] = q[i])
  BY <1>1
<1>4. 1 \in DOMAIN q
  BY <1>1
<1>5. ReportIn(q, s) <=> ReportIn(Tail(q), s) \/ IsReport(Head(q), s)
  BY <1>1, <1>2, <1>3, <1>4 DEF ReportIn, IsReport
<1>6. ASSUME Once(q, s) PROVE Once(Tail(q), s)
  <2> SUFFICES ASSUME NEW i \in DOMAIN Tail(q), NEW j \in DOMAIN Tail(q),
                      IsReport(Tail(q)[i], s), IsReport(Tail(q)[j], s)
               PROVE  i = j
    BY DEF Once
  <2>1. i + 1 = j + 1
    BY <1>2, <1>6 DEF Once
  <2> QED
    BY <1>2, <2>1
<1>7. ASSUME Once(q, s), ReportIn(Tail(q), s), IsReport(Head(q), s) PROVE FALSE
  <2>1. PICK i \in DOMAIN Tail(q) : IsReport(Tail(q)[i], s)
    BY <1>7 DEF ReportIn, IsReport
  <2> QED
    BY <1>1, <1>2, <1>4, <1>7, <2>1 DEF Once
<1> QED
  BY <1>5, <1>6, <1>7

(* A step that leaves the queues and the sessions' ends alone, after which *)
(* nobody waits for a report who did not before.                           *)
LEMMA FateAlone ==
  ASSUME FateInv, UNCHANGED <<wire, stream, fate>>,
         \A s \in Spawns : session'[s] = "reported" <=> session[s] = "reported",
         \A c \in Callers : Awaited(c)' => Awaited(c) /\ Mine(c)' = Mine(c)
  PROVE  FateInv'
<1>1. \A s : (ReportIn(wire, s)' <=> ReportIn(wire, s)) /\ (ReportIn(stream, s)' <=> ReportIn(stream, s))
  BY DEF ReportIn
<1>2. \A s : (Once(wire, s)' <=> Once(wire, s)) /\ (Once(stream, s)' <=> Once(stream, s))
  BY DEF Once, IsReport
<1>3. OnePlace'
  BY <1>1, <1>2 DEF FateInv, OnePlace, OnItsWay
<1>4. FateType' /\ NotOwn'
  BY DEF FateInv, FateType, NotOwn
<1> QED
  BY <1>3, <1>4 DEF FateInv

(* A step of a caller, other than Consume.                                 *)
LEMMA FateCaller ==
  ASSUME IInv, FateInv, NEW c \in Callers,
         \/ SpawnAccepted(c) \/ SpawnRefused(c) \/ TimesOut(c) \/ Killed(c)
         \/ ReadReturns(c) \/ ValidatorReturns(c) \/ IdleFires(c)
  PROVE  FateInv'
<1>1. at \in [Callers -> {"idle", "spawning", "waiting", "killing", "reading", "validating"}]
  BY DEF IInv, TypeInv, CallType
<1>2. UNCHANGED <<wire, stream, fate, session, calls>>
  BY DEF SpawnAccepted, SpawnRefused, TimesOut, Killed, ReadReturns, ValidatorReturns, IdleFires, daemonVars
<1>3. \/ at' = at
      \/ \E where \in {"idle", "killing", "validating"} : at' = [at EXCEPT ![c] = where]
      \/ at[c] = "spawning" /\ at' = [at EXCEPT ![c] = "waiting"]
  BY DEF SpawnAccepted, SpawnRefused, TimesOut, GiveUp, Killed, ReadReturns, ValidatorReturns, IdleFires, Goto, Answered
<1>4. \A d \in Callers : at'[d] \in {"spawning", "waiting"} => at[d] \in {"spawning", "waiting"}
  BY <1>1, <1>3
<1> QED
  BY <1>2, <1>4, FateAlone DEF Awaited, Mine

LEMMA FateSpawn ==
  ASSUME IInv, FateInv, NEW c \in Callers, Spawn(c)
  PROVE  FateInv'
<1>1. /\ at \in [Callers -> {"idle", "spawning", "waiting", "killing", "reading", "validating"}]
      /\ calls \in [Callers -> 0 .. MaxCalls] /\ MaxCalls \in Nat
  BY GatewayAssumption DEF IInv, TypeInv, CallType
<1>2. /\ UNCHANGED <<wire, stream, fate, session>> /\ calls[c] < MaxCalls
      /\ at' = [at EXCEPT ![c] = "spawning"] /\ calls' = [calls EXCEPT ![c] = @ + 1]
  BY DEF Spawn, Goto, daemonVars
<1>3. session[<<c, calls[c] + 1>>] = "none"
  BY <1>1, <1>2 DEF IInv, Fresh
<1>4. ~ Awaited(c)'
  BY <1>1, <1>2, <1>3 DEF Awaited, Mine
<1>5. \A d \in Callers \ {c} : Awaited(d)' => Awaited(d) /\ Mine(d)' = Mine(d)
  BY <1>1, <1>2 DEF Awaited, Mine
<1> QED
  BY <1>2, <1>4, <1>5, FateAlone

(* The fate of a report that is met in a queue.                            *)
LEMMA MetIs ==
  ASSUME FateType, NEW ev \in Published, NEW how \in Callers \cup {"dropped"}, fate' = Met(ev, how)
  PROVE  /\ FateType'
         /\ \A s \in Spawns : fate'[s] = IF IsReport(ev, s) THEN how ELSE fate[s]
<1>1. ev.spawn \in Spawns
  BY DEF Published
<1> QED
  BY <1>1 DEF Met, FateType, IsReport

(* The one place where a report is taken: by the one who waits for it, and *)
(* whose wait it ends, or by somebody else.                                *)
LEMMA FateConsume ==
  ASSUME IInv, FateInv, NEW c \in Callers, Consume(c)
  PROVE  FateInv'
<1>1. /\ at \in [Callers -> {"idle", "spawning", "waiting", "killing", "reading", "validating"}]
      /\ stream \in Seq(Published)
  BY DEF IInv, TypeInv, CallType, QueueType
<1>2. /\ at[c] = "waiting" /\ stream # <<>> /\ stream' = Tail(stream)
      /\ UNCHANGED <<wire, session, calls>> /\ fate' = Met(Head(stream), c)
  BY DEF Consume, daemonVars
<1>3. \/ at' = at /\ ~IsReport(Head(stream), Mine(c))
      \/ \E where \in {"idle", "reading"} : at' = [at EXCEPT ![c] = where]
  BY DEF Consume, Goto, Matches, Reported, IsReport
<1>4. Head(stream) \in Published
  BY <1>1, <1>2
<1>5. FateType' /\ \A s \in Spawns : fate'[s] = IF IsReport(Head(stream), s) THEN c ELSE fate[s]
  BY <1>2, <1>4, MetIs DEF FateInv
<1>6. \A s \in Spawns :
        /\ Once(Tail(stream), s)
        /\ ReportIn(stream, s) <=> ReportIn(Tail(stream), s) \/ IsReport(Head(stream), s)
        /\ ~(ReportIn(Tail(stream), s) /\ IsReport(Head(stream), s))
  BY <1>1, <1>2, ReportShrunk DEF FateInv, OnePlace
<1>7. \A s \in Spawns : IsReport(Head(stream), s) => session[s] = "reported"
  <2>1. Honest /\ 1 \in DOMAIN stream /\ Head(stream) = stream[1]
    BY <1>1, <1>2 DEF IInv
  <2> QED
    BY <2>1 DEF Honest, HonestIn, IsReport
<1>8. c # None
  BY GatewayAssumption
<1>9. \A s \in Spawns :
        /\ Once(wire, s) /\ Once(Tail(stream), s) /\ ~(ReportIn(wire, s) /\ ReportIn(Tail(stream), s))
        /\ session[s] = "reported" => ReportIn(wire, s) \/ ReportIn(Tail(stream), s) \/ fate'[s] # None
        /\ fate'[s] # None => session[s] = "reported" /\ ~ReportIn(wire, s) /\ ~ReportIn(Tail(stream), s)
  BY <1>5, <1>6, <1>7, <1>8 DEF FateInv, OnePlace, OnItsWay
<1>10. OnePlace'
  BY <1>2, <1>9 DEF OnePlace, OnItsWay, Once, ReportIn, IsReport
<1>11. ASSUME NEW d \in Callers, Awaited(d)' PROVE fate'[Mine(d)] # d
  <2>1. at[d] \in {"spawning", "waiting"} /\ (d = c => at' = at)
    BY <1>1, <1>3, <1>11 DEF Awaited
  <2>2. Awaited(d) /\ Mine(d) \in Spawns
    BY <1>2, <1>11, <2>1, MineIs DEF Awaited, Mine
  <2>3. fate[Mine(d)] # d
    BY <2>2 DEF FateInv, NotOwn
  <2>4. d = c => ~IsReport(Head(stream), Mine(d))
    BY <1>1, <1>3, <2>1
  <2> QED
    BY <1>5, <2>2, <2>3, <2>4
<1>12. NotOwn'
  BY <1>2, <1>11 DEF NotOwn, Mine
<1> QED
  BY <1>5, <1>10, <1>12 DEF FateInv

LEMMA FateDeliver ==
  ASSUME IInv, FateInv, Deliver
  PROVE  FateInv'
<1>1. wire \in Seq(Published) /\ stream \in Seq(Published)
  BY DEF IInv, TypeInv, QueueType
<1>2. wire # <<>> /\ wire' = Tail(wire) /\ UNCHANGED <<at, calls, session>>
  BY DEF Deliver, callVars, daemonVars
<1>3. Head(wire) \in Published
  BY <1>1, <1>2
<1>4. \A s \in Spawns :
        /\ Once(Tail(wire), s)
        /\ ReportIn(wire, s) <=> ReportIn(Tail(wire), s) \/ IsReport(Head(wire), s)
        /\ ~(ReportIn(Tail(wire), s) /\ IsReport(Head(wire), s))
  BY <1>1, <1>2, ReportShrunk DEF FateInv, OnePlace
<1>5. CASE stream' = Append(stream, Head(wire)) /\ UNCHANGED fate
  <2>1. \A s \in Spawns :
          /\ Once(stream, s) /\ ~(ReportIn(stream, s) /\ IsReport(Head(wire), s)) => Once(Append(stream, Head(wire)), s)
          /\ ReportIn(Append(stream, Head(wire)), s) <=> ReportIn(stream, s) \/ IsReport(Head(wire), s)
    BY <1>1, <1>3, ReportGrown
  <2>2. \A s \in Spawns :
          /\ Once(Tail(wire), s) /\ Once(Append(stream, Head(wire)), s)
          /\ ~(ReportIn(Tail(wire), s) /\ ReportIn(Append(stream, Head(wire)), s))
          /\ session[s] = "reported" =>
               ReportIn(Tail(wire), s) \/ ReportIn(Append(stream, Head(wire)), s) \/ fate[s] # None
          /\ fate[s] # None =>
               session[s] = "reported" /\ ~ReportIn(Tail(wire), s) /\ ~ReportIn(Append(stream, Head(wire)), s)
    BY <1>4, <2>1 DEF FateInv, OnePlace, OnItsWay
  <2>3. OnePlace'
    BY <1>2, <1>5, <2>2 DEF OnePlace, OnItsWay, Once, ReportIn, IsReport
  <2>4. FateType' /\ NotOwn'
    BY <1>2, <1>5 DEF FateInv, FateType, NotOwn, Awaited, Mine
  <2> QED
    BY <2>3, <2>4 DEF FateInv
<1>6. CASE fate' = Met(Head(wire), "dropped") /\ UNCHANGED stream
  <2>1. FateType' /\ \A s \in Spawns : fate'[s] = IF IsReport(Head(wire), s) THEN "dropped" ELSE fate[s]
    BY <1>3, <1>6, MetIs DEF FateInv
  <2>2. \A s \in Spawns : IsReport(Head(wire), s) => session[s] = "reported"
    <3>1. Honest /\ 1 \in DOMAIN wire /\ Head(wire) = wire[1]
      BY <1>1, <1>2 DEF IInv
    <3> QED
      BY <3>1 DEF Honest, HonestIn, IsReport
  <2>3. "dropped" # None /\ "dropped" \notin Callers
    BY GatewayAssumption
  <2>4. \A s \in Spawns :
          /\ Once(Tail(wire), s) /\ Once(stream, s) /\ ~(ReportIn(Tail(wire), s) /\ ReportIn(stream, s))
          /\ session[s] = "reported" => ReportIn(Tail(wire), s) \/ ReportIn(stream, s) \/ fate'[s] # None
          /\ fate'[s] # None => session[s] = "reported" /\ ~ReportIn(Tail(wire), s) /\ ~ReportIn(stream, s)
    BY <1>4, <2>1, <2>2, <2>3 DEF FateInv, OnePlace, OnItsWay
  <2>5. OnePlace'
    BY <1>2, <1>6, <2>4 DEF OnePlace, OnItsWay, Once, ReportIn, IsReport
  <2>6. ASSUME NEW d \in Callers, Awaited(d)' PROVE fate'[Mine(d)] # d
    <3>1. Awaited(d) /\ Mine(d) \in Spawns
      BY <1>2, <2>6, MineIs DEF Awaited, Mine
    <3> QED
      BY <2>1, <2>3, <3>1 DEF FateInv, NotOwn
  <2>7. NotOwn'
    BY <1>2, <2>6 DEF NotOwn, Mine
  <2> QED
    BY <2>1, <2>5, <2>7 DEF FateInv
<1> QED
  BY <1>5, <1>6 DEF Deliver

(* What the daemon publishes comes behind what is on the wire.             *)
LEMMA FatePublish ==
  ASSUME IInv, FateInv, NEW s \in Spawns, NEW type \in {"started", "event"} \cup Reported,
         wire' = Append(wire, Event(s, type)), UNCHANGED <<at, calls, stream, fate>>,
         type \in Reported => session[s] # "reported",
         \A t \in Spawns : session'[t] = "reported" <=> session[t] = "reported" \/ (t = s /\ type \in Reported)
  PROVE  FateInv'
<1>1. wire \in Seq(Published) /\ stream \in Seq(Published)
  BY DEF IInv, TypeInv, QueueType
<1>2. PICK ev : ev = Event(s, type)
  OBVIOUS
<1>3. ev \in Published /\ \A t : IsReport(ev, t) <=> (t = s /\ type \in Reported)
  BY <1>2 DEF Event, Published, IsReport
<1>4. \A t \in Spawns :
        /\ Once(wire, t) /\ ~(ReportIn(wire, t) /\ IsReport(ev, t)) => Once(Append(wire, ev), t)
        /\ ReportIn(Append(wire, ev), t) <=> ReportIn(wire, t) \/ IsReport(ev, t)
  BY <1>1, <1>3, ReportGrown
<1>5. \A t \in Spawns : session[t] # "reported" => ~ReportIn(wire, t) /\ ~ReportIn(stream, t)
  BY DEF IInv, Honest, HonestIn, ReportIn
<1>6. \A t \in Spawns :
        /\ Once(Append(wire, ev), t) /\ Once(stream, t)
        /\ ~(ReportIn(Append(wire, ev), t) /\ ReportIn(stream, t))
        /\ session'[t] = "reported" => ReportIn(Append(wire, ev), t) \/ ReportIn(stream, t) \/ fate[t] # None
        /\ fate[t] # None => session'[t] = "reported" /\ ~ReportIn(Append(wire, ev), t) /\ ~ReportIn(stream, t)
  BY <1>3, <1>4, <1>5 DEF FateInv, OnePlace, OnItsWay
<1>7. OnePlace'
  BY <1>2, <1>6 DEF OnePlace, OnItsWay, Once, ReportIn, IsReport
<1>8. ASSUME NEW d \in Callers, Awaited(d)' PROVE fate[Mine(d)] # d
  <2>1. at[d] \in {"spawning", "waiting"} /\ Mine(d) \in Spawns
    BY <1>8, MineIs DEF Awaited
  <2>2. CASE session[Mine(d)] = "reported"
    BY <2>1, <2>2 DEF FateInv, NotOwn, Awaited
  <2>3. CASE session[Mine(d)] # "reported"
    <3>1. fate[Mine(d)] = None
      BY <2>1, <2>3 DEF FateInv, OnePlace
    <3> QED
      BY <3>1, GatewayAssumption
  <2> QED
    BY <2>2, <2>3
<1>9. FateType' /\ NotOwn'
  BY <1>8 DEF FateInv, FateType, NotOwn, Mine
<1> QED
  BY <1>7, <1>9 DEF FateInv

LEMMA FateDaemon ==
  ASSUME IInv, FateInv,
         \/ ServeKill \/ ServeRead \/ ServeRun \/ ServeSpawn \/ Dies
         \/ \E s \in Spawns : Works(s) \/ Writes(s) \/ Reports(s)
  PROVE  FateInv'
<1>1. cmds \in Seq(Command) /\ session \in [Spawns -> {"none", "running", "stopped", "reported"}]
  BY DEF IInv, TypeInv, QueueType, DaemonType
<1>2. CASE ServeRead \/ ServeRun \/ Dies \/ \E s \in Spawns : Writes(s)
  <2>1. UNCHANGED <<at, calls, session, wire, stream, fate>>
    BY <1>2 DEF ServeRead, ServeRun, Dies, Writes, callVars, daemonVars
  <2> QED
    BY <2>1, FateAlone DEF Awaited, Mine
<1>3. CASE ServeKill
  <2>1. UNCHANGED <<at, calls, wire, stream, fate>>
    BY <1>3 DEF ServeKill, callVars
  <2>2. PICK s : session' = [session EXCEPT ![s] = IF @ = "running" THEN "stopped" ELSE @]
    BY <1>3 DEF ServeKill
  <2>3. \A t \in Spawns : session'[t] = "reported" <=> session[t] = "reported"
    BY <1>1, <2>2
  <2>4. \A c \in Callers : Awaited(c)' => Awaited(c) /\ Mine(c)' = Mine(c)
    BY <2>1, <2>3, MineIs DEF Awaited, Mine
  <2> QED
    BY <2>1, <2>3, <2>4, FateAlone
<1>4. CASE ServeSpawn
  <2>1. cmds # <<>> /\ UNCHANGED <<at, calls, stream, fate>> /\ Head(cmds).type = "spawn"
    BY <1>4 DEF ServeSpawn, Serving, callVars
  <2>2. Head(cmds).spawn \in Spawns /\ session[Head(cmds).spawn] = "none"
    <3>1. Head(cmds) \in Command /\ 1 \in DOMAIN cmds /\ Head(cmds) = cmds[1]
      BY <1>1, <2>1
    <3> QED
      BY <2>1, <3>1 DEF Command, IInv, Fresh
  <2>3. CASE UNCHANGED <<session, wire>>
    BY <2>1, <2>3, FateAlone DEF Awaited, Mine
  <2>4. CASE /\ session' = [session EXCEPT ![Head(cmds).spawn] = "running"]
             /\ wire' = Append(wire, Event(Head(cmds).spawn, "started"))
    <3>1. \A t \in Spawns : session'[t] = "reported" <=> session[t] = "reported"
      BY <1>1, <2>2, <2>4
    <3>2. "started" \notin Reported
      BY DEF Reported
    <3> QED
      BY <2>1, <2>2, <2>4, <3>1, <3>2, FatePublish
  <2> QED
    BY <1>4, <2>3, <2>4 DEF ServeSpawn
<1>5. ASSUME NEW s \in Spawns, Works(s)
      PROVE  FateInv'
  <2>1. UNCHANGED <<at, calls, stream, fate, session>> /\ wire' = Append(wire, Event(s, "event"))
    BY <1>5 DEF Works, callVars
  <2>2. "event" \notin Reported
    BY DEF Reported
  <2> QED
    BY <2>1, <2>2, FatePublish
<1>6. ASSUME NEW s \in Spawns, Reports(s)
      PROVE  FateInv'
  <2>1. /\ UNCHANGED <<at, calls, stream, fate>> /\ session' = [session EXCEPT ![s] = "reported"]
        /\ session[s] # "reported"
    BY <1>6 DEF Reports, callVars
  <2>2. PICK how \in Reported : wire' = Append(wire, Event(s, how))
    BY <1>6 DEF Reports
  <2>3. \A t \in Spawns : session'[t] = "reported" <=> session[t] = "reported" \/ t = s
    BY <1>1, <2>1
  <2> QED
    BY <2>1, <2>2, <2>3, FatePublish
<1> QED
  BY <1>2, <1>3, <1>4, <1>5, <1>6

LEMMA FateStep == IInv /\ FateInv /\ [Next]_vars => FateInv'
<1> SUFFICES ASSUME IInv, FateInv, [Next]_vars PROVE FateInv'
  OBVIOUS
<1>1. CASE UNCHANGED vars
  BY <1>1, FateAlone DEF vars, callVars, daemonVars, Awaited, Mine
<1>2. CASE Idle
  BY <1>1, <1>2 DEF Idle
<1> QED
  BY <1>1, <1>2, FateCaller, FateSpawn, FateConsume, FateDeliver, FateDaemon DEF Next, Call, Serve

(* For any number of runs and chats at the one channel and any capacity of *)
(* it: the report of a session is taken by one caller at most, and who     *)
(* waits for it in vain has lost it to another caller or to the full       *)
(* channel; no timeout, kill, retry or late report of another session      *)
(* loses it.                                                               *)
THEOREM ReportAccountedCorrect == Spec => []ReportAccounted
<1>1. IInv /\ FateInv /\ [Next]_vars => FateInv'
  BY FateStep
<1>2. IInv /\ FateInv => ReportAccounted
  BY FateImplied
<1> QED
  BY <1>1, <1>2, FateInit, Always, PTL DEF Spec

-----------------------------------------------------------------------------
(***************************************************************************)
(* The gateway implements AgentCall.  Beside IInv: a call that reads its   *)
(* output has a session that is over, also that of a chat; a call that     *)
(* waits for the answer to its kill is one of a run and has failed; and    *)
(* nothing but a report says that a session succeeded.                     *)
(***************************************************************************)
CallInv ==
  /\ \A c \in Callers : at[c] \in {"reading", "validating"} => session[Mine(c)] = "reported"
  /\ \A c \in Callers : at[c] = "killing" => c \in Runs /\ outcome[c] \in {"refused", "idle", "capped"}
  /\ \A s \in Spawns : verdict[s] => session[s] = "reported"

CallState == IInv /\ CallInv

(* What the steps of the calls and of the daemon leave alone.              *)
LEMMA Kept ==
  ASSUME IInv
  PROVE  /\ at \in [Callers -> {"idle", "spawning", "waiting", "killing", "reading", "validating"}]
         /\ calls \in [Callers -> 0 .. MaxCalls]
         /\ outcome \in [Callers -> {None, "refused", "failed", "idle", "capped", "ok"}]
         /\ reply \in [Callers -> Spawns \cup {None, "ok", "no"}]
         /\ session \in [Spawns -> {"none", "running", "stopped", "reported"}]
         /\ verdict \in [Spawns -> BOOLEAN]
         /\ \A c \in Callers : at[c] # "idle" => Mine(c) \in Spawns
BY DEF IInv, TypeInv, CallType, DaemonType, Mine, Spawns

(* The view of a state, at one caller and at one session.                  *)
LEMMA View ==
  /\ InCall \subseteq Callers
  /\ \A c \in Callers : c \in InCall <=> at[c] # "idle"
  /\ \A c \in Callers : Returned[c] = IF at[c] = "idle" THEN outcome[c] ELSE None
  /\ \A s \in Spawns : /\ Stage(s) = "fresh" <=> session[s] = "none"
                       /\ session[s] = "running" => Stage(s) = "working"
                       /\ session[s] = "stopped" => Stage(s) = "stopped"
                       /\ session[s] = "reported" => Stage(s) = "over"
BY DEF InCall, Returned, Stage

(* A step of a call that does not return, and one that does.               *)
LEMMA GoesOn ==
  ASSUME CallState, NEW c \in Callers, at[c] # "idle",
         NEW where \in {"waiting", "killing", "reading", "validating"},
         at' = [at EXCEPT ![c] = where],
         NEW how, outcome' = [outcome EXCEPT ![c] = how],
         where = "killing" => c \in Runs /\ how \in {"refused", "idle", "capped"},
         where \in {"reading", "validating"} => session[Mine(c)] = "reported",
         UNCHANGED <<calls, daemon, session, verdict>>
  PROVE  UNCHANGED Promise!vars /\ CallInv'
<1>0. IInv /\ CallInv
  BY DEF CallState
<1>1. at'[c] = where /\ outcome'[c] = how
      /\ \A d \in Callers \ {c} : at'[d] = at[d] /\ outcome'[d] = outcome[d]
  BY <1>0, Kept
<1>2. InCall' = InCall
  BY <1>1 DEF InCall
<1>3. Returned' = Returned
  BY <1>1 DEF Returned
<1>4. [s \in Spawns |-> Stage(s)]' = [s \in Spawns |-> Stage(s)]
  BY DEF Stage
<1>5. UNCHANGED Promise!vars
  BY <1>2, <1>3, <1>4 DEF Promise!vars, Promise!agentVars
<1>6. CallInv'
  BY <1>0, <1>1 DEF CallInv, Mine
<1> QED
  BY <1>5, <1>6

LEMMA ComesBack ==
  ASSUME CallState, NEW c \in Callers, at[c] # "idle", at' = [at EXCEPT ![c] = "idle"],
         NEW how \in {"refused", "failed", "idle", "capped", "ok"}, outcome' = [outcome EXCEPT ![c] = how],
         c \in Runs /\ daemon = "up" => session[Mine(c)] # "running",
         how = "ok" => session[Mine(c)] = "reported" /\ (c \in Runs => verdict[Mine(c)]),
         UNCHANGED <<calls, daemon, session, verdict>>
  PROVE  Promise!Next /\ CallInv'
<1>0. IInv /\ CallInv
  BY DEF CallState
<1>1. at'[c] = "idle" /\ outcome'[c] = how /\ Mine(c) \in Spawns /\ Promise!Current(c) = Mine(c)
      /\ \A d \in Callers \ {c} : at'[d] = at[d] /\ outcome'[d] = outcome[d]
  BY <1>0, Kept DEF Promise!Current, Mine
<1>2. InCall' = InCall \ {c} /\ c \in InCall
  BY <1>1 DEF InCall
<1>3. Returned' = [Returned EXCEPT ![c] = how]
  BY <1>1 DEF Returned
<1>4. [s \in Spawns |-> Stage(s)]' = [s \in Spawns |-> Stage(s)]
  BY DEF Stage
<1>5. c \in Runs /\ daemon = "up" => [s \in Spawns |-> Stage(s)][Mine(c)] # "working"
  BY <1>0, <1>1, Kept DEF Stage
<1>6. how = "ok" => /\ [s \in Spawns |-> Stage(s)][Mine(c)] = "over"
                    /\ c \in Runs => Mine(c) \in {s \in Spawns : verdict[s]}
  BY <1>1 DEF Stage
<1>7. Promise!Return(c, how)
  BY <1>1, <1>2, <1>3, <1>4, <1>5, <1>6 DEF Promise!Return, Promise!agentVars
<1>8. CallInv'
  BY <1>0, <1>1 DEF CallInv, Mine
<1> QED
  BY <1>7, <1>8 DEF Promise!Next, Promise!Results

LEMMA AskMaps ==
  ASSUME CallState, NEW c \in Callers, Spawn(c)
  PROVE  Promise!Next /\ CallInv'
<1>0. IInv /\ CallInv
  BY DEF CallState
<1>1. /\ at[c] = "idle" /\ at' = [at EXCEPT ![c] = "spawning"]
      /\ calls' = [calls EXCEPT ![c] = @ + 1] /\ outcome' = [outcome EXCEPT ![c] = None]
      /\ UNCHANGED <<daemon, session, verdict>>
  BY DEF Spawn, Goto, daemonVars
<1>2. at'[c] = "spawning" /\ outcome'[c] = None
      /\ \A d \in Callers \ {c} : at'[d] = at[d] /\ outcome'[d] = outcome[d] /\ Mine(d)' = Mine(d)
  BY <1>0, <1>1, Kept DEF Mine
<1>3. c \notin InCall /\ InCall' = InCall \cup {c}
  BY <1>1, <1>2 DEF InCall
<1>4. Returned' = [Returned EXCEPT ![c] = None]
  BY <1>2 DEF Returned
<1>5. [s \in Spawns |-> Stage(s)]' = [s \in Spawns |-> Stage(s)]
  BY <1>1 DEF Stage
<1>6. Promise!Ask(c)
  BY <1>1, <1>3, <1>4, <1>5 DEF Promise!Ask, Promise!agentVars
<1>7. CallInv'
  BY <1>0, <1>1, <1>2 DEF CallInv
<1> QED
  BY <1>6, <1>7 DEF Promise!Next

(* The calls that are under way.                                           *)
LEMMA CallMaps ==
  ASSUME CallState, NEW c \in Callers, Call(c) \/ IdleFires(c)
  PROVE  (Promise!Next \/ UNCHANGED Promise!vars) /\ CallInv'
<1>0. IInv /\ CallInv /\ TypeInv /\ Turns /\ Fresh /\ Stopped /\ ResultOwn /\ CallType
  BY DEF CallState, IInv, TypeInv
<1>1. outcome = [outcome EXCEPT ![c] = outcome[c]] /\ at = [at EXCEPT ![c] = at[c]]
  BY <1>0, Kept
<1>2. CASE SpawnAccepted(c)
  <2>1. at[c] = "spawning" /\ at' = [at EXCEPT ![c] = "waiting"] /\ UNCHANGED <<calls, outcome, daemon, session, verdict>>
    BY <1>2 DEF SpawnAccepted, Answered, Goto, daemonVars
  <2>2. outcome' = [outcome EXCEPT ![c] = outcome[c]]
    BY <1>1, <2>1
  <2> QED
    BY <2>1, <2>2, GoesOn
<1>3. CASE SpawnRefused(c)
  <2>1. /\ at[c] = "spawning" /\ reply[c] = "no" /\ outcome' = [outcome EXCEPT ![c] = "refused"]
        /\ UNCHANGED <<calls, daemon, session, verdict>>
    BY <1>3 DEF SpawnRefused, Answered, daemonVars
  <2>2. daemon = "up" => session[Mine(c)] # "running"
    BY <1>0, <2>1 DEF Fresh
  <2>3. CASE c \in Runs /\ at' = [at EXCEPT ![c] = "killing"]
    BY <2>1, <2>3, GoesOn
  <2>4. CASE at' = [at EXCEPT ![c] = "idle"]
    BY <2>1, <2>2, <2>4, ComesBack
  <2> QED
    BY <1>3, <2>3, <2>4 DEF SpawnRefused, Goto
<1>4. CASE Consume(c)
  <2>1. at[c] = "waiting" /\ stream # <<>> /\ UNCHANGED <<calls, daemon, session, verdict>>
    BY <1>4 DEF Consume, daemonVars
  <2>2. PICK ev : ev = Head(stream)
    OBVIOUS
  <2>3. Matches(c, ev) /\ ev.type \in Reported => session[Mine(c)] = "reported"
    <3>1. stream \in Seq(Published)
      BY <1>0 DEF TypeInv, QueueType
    <3>2. 1 \in DOMAIN stream /\ Head(stream) = stream[1]
      BY <2>1, <3>1, Shrunk
    <3> QED
      BY <1>0, <2>2, <3>2 DEF IInv, Honest, HonestIn, Matches
  <2>4. CASE UNCHANGED <<at, outcome>>
    <3>1. at' = [at EXCEPT ![c] = "waiting"] /\ outcome' = [outcome EXCEPT ![c] = outcome[c]]
      BY <1>1, <2>1, <2>4
    <3> QED
      BY <2>1, <3>1, GoesOn
  <2>5. CASE /\ Matches(c, ev) /\ ev.type \in Reported
             /\ at' = [at EXCEPT ![c] = "reading"] /\ UNCHANGED outcome
    <3>1. outcome' = [outcome EXCEPT ![c] = outcome[c]]
      BY <1>1, <2>5
    <3> QED
      BY <2>1, <2>3, <2>5, <3>1, GoesOn
  <2>6. CASE /\ Matches(c, ev) /\ ev.type \in Reported
             /\ at' = [at EXCEPT ![c] = "idle"] /\ outcome' = [outcome EXCEPT ![c] = "failed"]
    <3>1. session[Mine(c)] # "running"
      BY <2>3, <2>6
    <3> QED
      BY <2>1, <2>6, <3>1, ComesBack
  <2>7. \/ UNCHANGED <<at, outcome>>
        \/ /\ Matches(c, ev) /\ ev.type \in Reported
           /\ \/ at' = [at EXCEPT ![c] = "reading"] /\ UNCHANGED outcome
              \/ at' = [at EXCEPT ![c] = "idle"] /\ outcome' = [outcome EXCEPT ![c] = "failed"]
    BY <1>4, <2>2 DEF Consume, Finish, Goto
  <2> QED
    BY <2>4, <2>5, <2>6, <2>7
<1>5. CASE TimesOut(c)
  <2>1. at[c] = "waiting" /\ UNCHANGED <<calls, daemon, session, verdict>>
    BY <1>5 DEF TimesOut, daemonVars
  <2>2. PICK how \in {"idle", "capped"} : GiveUp(c, how)
    BY <1>5 DEF TimesOut
  <2>3. outcome' = [outcome EXCEPT ![c] = how]
    BY <2>2 DEF GiveUp, Finish
  <2>4. CASE c \in Runs
    <3>1. at' = [at EXCEPT ![c] = "killing"]
      BY <2>2, <2>4 DEF GiveUp, Goto
    <3> QED
      BY <2>1, <2>3, <2>4, <3>1, GoesOn
  <2>5. CASE c \notin Runs
    <3>1. at' = [at EXCEPT ![c] = "idle"]
      BY <2>2, <2>5 DEF GiveUp, Goto
    <3> QED
      BY <2>1, <2>3, <2>5, <3>1, ComesBack
  <2> QED
    BY <2>4, <2>5
<1>6. CASE Killed(c)
  <2>1. /\ at[c] = "killing" /\ reply[c] # None /\ at' = [at EXCEPT ![c] = "idle"]
        /\ UNCHANGED <<calls, outcome, daemon, session, verdict>>
    BY <1>6 DEF Killed, Answered, Goto, daemonVars
  <2>2. outcome' = [outcome EXCEPT ![c] = outcome[c]] /\ outcome[c] \in {"refused", "idle", "capped"}
    BY <1>0, <1>1, <2>1 DEF CallInv
  <2>3. c \in Runs /\ daemon = "up" => session[Mine(c)] # "running"
    BY <1>0, <2>1 DEF Stopped, CallType
  <2> QED
    BY <2>1, <2>2, <2>3, ComesBack
<1>7. ASSUME at[c] \in {"reading", "validating"}
      PROVE  session[Mine(c)] = "reported" /\ (c \in Runs => verdict[Mine(c)])
  BY <1>0, <1>7 DEF CallInv, ResultOwn
<1>8. CASE ReadReturns(c)
  <2>1. at[c] = "reading" /\ UNCHANGED <<calls, daemon, session, verdict>>
    BY <1>8 DEF ReadReturns, daemonVars
  <2>2. \/ at' = [at EXCEPT ![c] = "idle"] /\ \E how \in {"failed", "ok"} : outcome' = [outcome EXCEPT ![c] = how]
        \/ at' = [at EXCEPT ![c] = "validating"] /\ UNCHANGED outcome
    BY <1>8 DEF ReadReturns, Goto
  <2>3. CASE at' = [at EXCEPT ![c] = "idle"] /\ \E how \in {"failed", "ok"} : outcome' = [outcome EXCEPT ![c] = how]
    BY <1>7, <2>1, <2>3, ComesBack
  <2>4. CASE at' = [at EXCEPT ![c] = "validating"] /\ UNCHANGED outcome
    <3>1. outcome' = [outcome EXCEPT ![c] = outcome[c]]
      BY <1>1, <2>4
    <3> QED
      BY <1>7, <2>1, <2>4, <3>1, GoesOn
  <2> QED
    BY <2>2, <2>3, <2>4
<1>9. CASE ValidatorReturns(c)
  <2>1. /\ at[c] = "validating" /\ at' = [at EXCEPT ![c] = "idle"]
        /\ UNCHANGED <<calls, daemon, session, verdict>>
    BY <1>9 DEF ValidatorReturns, Answered, Goto, daemonVars
  <2>2. PICK how \in {"failed", "ok"} : outcome' = [outcome EXCEPT ![c] = how]
    BY <1>9 DEF ValidatorReturns
  <2> QED
    BY <1>7, <2>1, <2>2, ComesBack
<1>10. CASE IdleFires(c)
  <2>1. at[c] = "waiting" /\ UNCHANGED <<at, outcome, calls, daemon, session, verdict>>
    BY <1>0, <1>10 DEF IdleFires, daemonVars, CallType
  <2>2. at' = [at EXCEPT ![c] = "waiting"] /\ outcome' = [outcome EXCEPT ![c] = outcome[c]]
    BY <1>1, <2>1
  <2> QED
    BY <2>1, <2>2, GoesOn
<1> QED
  BY <1>2, <1>3, <1>4, <1>5, <1>6, <1>8, <1>9, <1>10 DEF Call

(* The sessions of the daemon.                                             *)
LEMMA SessionMoves ==
  ASSUME CallState, NEW s \in Spawns, NEW to \in {"running", "stopped", "reported"},
         session' = [session EXCEPT ![s] = to], session[s] # "reported",
         UNCHANGED <<at, calls, outcome, daemon>>
  PROVE  /\ InCall' = InCall /\ Returned' = Returned
         /\ [t \in Spawns |-> Stage(t)]' =
              [[t \in Spawns |-> Stage(t)] EXCEPT ![s] =
                 CASE to = "running" -> "working" [] to = "stopped" -> "stopped" [] OTHER -> "over"]
         /\ \A c \in Callers : at'[c] \in {"reading", "validating"} => session'[Mine(c)'] = "reported"
         /\ \A c \in Callers : at'[c] = "killing" => c \in Runs /\ outcome'[c] \in {"refused", "idle", "capped"}
<1>0. IInv /\ CallInv
  BY DEF CallState
<1>1. session'[s] = to /\ \A t \in Spawns \ {s} : session'[t] = session[t]
  BY <1>0, Kept
<1>2. \A t \in Spawns \ {s} : Stage(t)' = Stage(t)
  BY <1>1 DEF Stage
<1>3. Stage(s)' = CASE to = "running" -> "working" [] to = "stopped" -> "stopped" [] OTHER -> "over"
  BY <1>1 DEF Stage
<1>4. ASSUME NEW c \in Callers, at'[c] \in {"reading", "validating"}
      PROVE  session'[Mine(c)'] = "reported"
  <2>1. Mine(c)' = Mine(c) /\ Mine(c) \in Spawns /\ session[Mine(c)] = "reported"
    BY <1>0, <1>4, Kept DEF CallInv, Mine
  <2> QED
    BY <1>1, <2>1
<1> QED
  BY <1>0, <1>2, <1>3, <1>4 DEF CallInv, InCall, Returned

(* Nothing the promise is about moves.                                     *)
LEMMA Unseen ==
  ASSUME CallState, UNCHANGED <<at, calls, outcome, daemon, session, verdict>>
  PROVE  UNCHANGED Promise!vars /\ CallInv'
<1>1. [s \in Spawns |-> Stage(s)]' = [s \in Spawns |-> Stage(s)]
  BY DEF Stage
<1> QED
  BY <1>1 DEF Promise!vars, Promise!agentVars, InCall, Returned, CallState, CallInv, Mine

LEMMA StartMaps ==
  ASSUME CallState, Serve
  PROVE  (Promise!Next \/ UNCHANGED Promise!vars) /\ CallInv'
<1>0. IInv /\ CallInv /\ TypeInv /\ Turns /\ Fresh
  BY DEF CallState, IInv
<1>1. daemon = "up" /\ cmds # <<>> /\ UNCHANGED <<at, calls, outcome, daemon, verdict>>
  BY DEF Serve, ServeSpawn, ServeKill, ServeRead, ServeRun, Serving, callVars, daemonVars
<1>2. PICK c \in Callers : /\ Head(cmds).caller = c /\ Head(cmds).spawn = Mine(c) /\ Mine(c) \in Spawns
                           /\ Head(cmds).type = "spawn" => at[c] = "spawning" /\ session[Mine(c)] = "none"
                           /\ Head(cmds).type = "kill" => at[c] = "killing"
  <2>1. 1 \in DOMAIN cmds /\ Head(cmds) = cmds[1]
    <3>1. cmds \in Seq(Command)
      BY <1>0 DEF TypeInv, QueueType
    <3> QED
      BY <1>1, <3>1, Shrunk
  <2>2. cmds[1].caller \in Callers /\ cmds[1].spawn \in Spawns
    BY <1>0, <2>1, CommandOf
  <2>3. cmds[1].spawn = Mine(cmds[1].caller) /\ Asks(at[cmds[1].caller], cmds[1].type)
        /\ (cmds[1].type = "spawn" => session[cmds[1].spawn] = "none")
    BY <1>0, <2>1 DEF Turns, Fresh
  <2>4. /\ cmds[1].type = "spawn" => at[cmds[1].caller] = "spawning"
        /\ cmds[1].type = "kill" => at[cmds[1].caller] = "killing"
    BY <2>3 DEF Asks
  <2> QED
    BY <2>1, <2>2, <2>3, <2>4
<1>3. Promise!Current(c) = Mine(c) /\ (at[c] # "idle" => c \in InCall)
  BY <1>2 DEF Promise!Current, Mine, InCall
<1>4. CASE UNCHANGED session
  BY <1>1, <1>4, Unseen
<1>5. CASE Head(cmds).type = "spawn" /\ session' = [session EXCEPT ![Mine(c)] = "running"]
  <2>1. /\ InCall' = InCall /\ Returned' = Returned
        /\ [t \in Spawns |-> Stage(t)]' = [[t \in Spawns |-> Stage(t)] EXCEPT ![Mine(c)] = "working"]
        /\ \A d \in Callers : at'[d] \in {"reading", "validating"} => session'[Mine(d)'] = "reported"
        /\ \A d \in Callers : at'[d] = "killing" => d \in Runs /\ outcome'[d] \in {"refused", "idle", "capped"}
    BY <1>1, <1>2, <1>5, SessionMoves
  <2>2. [t \in Spawns |-> Stage(t)][Mine(c)] = "fresh"
    BY <1>2, <1>5 DEF Stage
  <2>3. Promise!Start(c)
    BY <1>1, <1>2, <1>3, <1>5, <2>1, <2>2 DEF Promise!Start, Promise!Moves
  <2>4. \A t \in Spawns : verdict'[t] => session'[t] = "reported"
    BY <1>0, <1>1, <1>2, <1>5, Kept DEF CallInv
  <2> QED
    BY <2>1, <2>3, <2>4 DEF Promise!Next, CallInv
<1>6. CASE Head(cmds).type = "kill" /\ session[Mine(c)] = "running" /\ session' = [session EXCEPT ![Mine(c)] = "stopped"]
  <2>1. /\ InCall' = InCall /\ Returned' = Returned
        /\ [t \in Spawns |-> Stage(t)]' = [[t \in Spawns |-> Stage(t)] EXCEPT ![Mine(c)] = "stopped"]
        /\ \A d \in Callers : at'[d] \in {"reading", "validating"} => session'[Mine(d)'] = "reported"
        /\ \A d \in Callers : at'[d] = "killing" => d \in Runs /\ outcome'[d] \in {"refused", "idle", "capped"}
    BY <1>1, <1>2, <1>6, SessionMoves
  <2>2. [t \in Spawns |-> Stage(t)][Mine(c)] = "working" /\ c \in Runs
    BY <1>0, <1>2, <1>6 DEF Stage, CallInv
  <2>3. Promise!Stop(c)
    BY <1>1, <1>2, <1>3, <1>6, <2>1, <2>2 DEF Promise!Stop, Promise!Moves
  <2>4. \A t \in Spawns : verdict'[t] => session'[t] = "reported"
    BY <1>0, <1>1, <1>2, <1>6, Kept DEF CallInv
  <2> QED
    BY <2>1, <2>3, <2>4 DEF Promise!Next, CallInv
<1>7. \/ UNCHANGED session
      \/ Head(cmds).type = "spawn" /\ session' = [session EXCEPT ![Mine(c)] = "running"]
      \/ Head(cmds).type = "kill" /\ session[Mine(c)] = "running" /\ session' = [session EXCEPT ![Mine(c)] = "stopped"]
  <2>1. CASE ServeSpawn
    BY <1>2, <2>1 DEF ServeSpawn, Serving
  <2>2. CASE ServeKill
    <3>1. Head(cmds).type = "kill"
          /\ session' = [session EXCEPT ![Mine(c)] = IF @ = "running" THEN "stopped" ELSE @]
      BY <1>2, <2>2 DEF ServeKill, Serving
    <3> QED
      BY <1>0, <1>2, <3>1, Kept
  <2>3. CASE ServeRead \/ ServeRun
    BY <2>3 DEF ServeRead, ServeRun, daemonVars
  <2> QED
    BY <2>1, <2>2, <2>3 DEF Serve
<1> QED
  BY <1>4, <1>5, <1>6, <1>7

LEMMA EndMaps ==
  ASSUME CallState, NEW s \in Spawns, Reports(s)
  PROVE  Promise!Next /\ CallInv'
<1>0. IInv /\ CallInv
  BY DEF CallState
<1>1. /\ daemon = "up" /\ session[s] \in {"running", "stopped"}
      /\ session' = [session EXCEPT ![s] = "reported"]
      /\ UNCHANGED <<at, calls, outcome, daemon>>
  BY DEF Reports, callVars
<1>2. PICK v \in BOOLEAN : verdict' = [verdict EXCEPT ![s] = v]
  BY DEF Reports
<1>3. /\ InCall' = InCall /\ Returned' = Returned
      /\ [t \in Spawns |-> Stage(t)]' = [[t \in Spawns |-> Stage(t)] EXCEPT ![s] = "over"]
      /\ \A c \in Callers : at'[c] \in {"reading", "validating"} => session'[Mine(c)'] = "reported"
      /\ \A c \in Callers : at'[c] = "killing" => c \in Runs /\ outcome'[c] \in {"refused", "idle", "capped"}
  BY <1>1, SessionMoves
<1>4. verdict'[s] = v /\ session'[s] = "reported" /\ ~verdict[s]
      /\ \A t \in Spawns \ {s} : verdict'[t] = verdict[t] /\ session'[t] = session[t]
  BY <1>0, <1>1, <1>2, Kept DEF CallInv
<1>5. {t \in Spawns : verdict[t]}' \in {{t \in Spawns : verdict[t]}, {t \in Spawns : verdict[t]} \cup {s}}
  <2>1. CASE v
    BY <1>4, <2>1
  <2>2. CASE ~v
    BY <1>4, <2>2
  <2> QED
    BY <2>1, <2>2
<1>6. [t \in Spawns |-> Stage(t)][s] \in {"working", "stopped"}
  BY <1>1 DEF Stage
<1>7. Promise!End(s)
  BY <1>1, <1>3, <1>5, <1>6 DEF Promise!End, Promise!Moves
<1>8. \A t \in Spawns : verdict'[t] => session'[t] = "reported"
  BY <1>0, <1>4 DEF CallInv
<1> QED
  BY <1>3, <1>7, <1>8 DEF Promise!Next, CallInv

(* Every step of the gateway and the daemon is one of the promise, or none *)
(* it speaks of.                                                           *)
LEMMA StepMaps == CallState /\ [Next]_vars => [Promise!Next]_Promise!vars /\ CallInv'
<1> SUFFICES ASSUME CallState, [Next]_vars PROVE (Promise!Next \/ UNCHANGED Promise!vars) /\ CallInv'
  OBVIOUS
<1>1. CASE \E c \in Callers : Spawn(c) \/ Call(c) \/ IdleFires(c)
  BY <1>1, AskMaps, CallMaps
<1>2. CASE Serve
  BY <1>2, StartMaps
<1>3. CASE \E s \in Spawns : Reports(s)
  BY <1>3, EndMaps
<1>4. CASE Dies
  <2>1. daemon = "up" /\ daemon' = "gone" /\ UNCHANGED <<at, calls, outcome, session, verdict>>
    BY <1>4 DEF Dies, callVars
  <2>2. InCall' = InCall /\ Returned' = Returned
        /\ [t \in Spawns |-> Stage(t)]' = [t \in Spawns |-> Stage(t)]
    BY <2>1 DEF InCall, Returned, Stage
  <2>3. Promise!Disconnect
    BY <2>1, <2>2 DEF Promise!Disconnect
  <2>4. CallInv'
    BY <2>1 DEF CallState, CallInv, Mine
  <2> QED
    BY <2>3, <2>4 DEF Promise!Next
<1>5. CASE Deliver \/ Idle \/ UNCHANGED vars \/ \E s \in Spawns : Works(s) \/ Writes(s)
  <2>1. UNCHANGED <<at, calls, outcome, daemon, session, verdict>>
    BY <1>5 DEF Deliver, Idle, vars, callVars, daemonVars, Works, Writes
  <2> QED
    BY <2>1, Unseen
<1> QED
  BY <1>1, <1>2, <1>3, <1>4, <1>5 DEF Next

LEMMA InitMaps == Init => Promise!Init /\ CallInv
<1> SUFFICES ASSUME Init PROVE Promise!Init /\ CallInv
  OBVIOUS
<1>1. InCall = {} /\ Returned = [c \in Callers |-> None]
  BY DEF Init, InCall, Returned
<1>2. [s \in Spawns |-> Stage(s)] = [s \in Spawns |-> "fresh"] /\ {s \in Spawns : verdict[s]} = {}
  BY DEF Init, Stage
<1>3. Promise!Init
  BY <1>1, <1>2 DEF Init, Promise!Init
<1>4. CallInv
  <2>1. \A c \in Callers : at[c] = "idle"
    BY DEF Init
  <2>2. \A s \in Spawns : ~verdict[s]
    BY DEF Init
  <2> QED
    BY <2>1, <2>2 DEF CallInv
<1> QED
  BY <1>3, <1>4

(* RunAgent and runAgent of the chat implement AgentCall, for any callers, *)
(* bounds and timers: whatever is lost, late or timed out, a call returns  *)
(* once, "ok" means that its own session is over (and, of a run, did its   *)
(* work), nothing starts that nobody waits for, and a run gets no result   *)
(* over a session that was not stopped, unless the daemon is gone.         *)
THEOREM CallImplemented == Spec => ImplementsCall
<1>1. Spec => []CallInv
  BY Always, InitMaps, StepMaps, PTL DEF Spec, CallState
<1>2. Spec => Promise!Init /\ [][Promise!Next]_Promise!vars
  BY Always, <1>1, InitMaps, StepMaps, PTL DEF Spec, CallState
<1> QED
  BY <1>2 DEF ImplementsCall, Promise!Spec
=============================================================================
