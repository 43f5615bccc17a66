------------------------------ MODULE Gateway ------------------------------
(***************************************************************************)
(* Agent sessions on a remote daemon, as the control plane drives them     *)
(* (internal/gateway/gateway.go, workflow/runner_executor.go, runAgent of  *)
(* server/chat.go, and the daemon's src/serve.ts).                         *)
(*                                                                         *)
(* A caller asks for a session, waits for its spawn-done among the events  *)
(* of every session, and reads output.json back from the workspace.  All   *)
(* callers take their events from the one channel of the one gateway.      *)
(* Commands reach the daemon, and events the gateway, in the order sent;   *)
(* a reply travels on its own.  Time is abstract: a timer that is armed    *)
(* may fire at any moment.                                                 *)
(***************************************************************************)
EXTENDS Naturals, Sequences, FiniteSets

CONSTANTS
  Runs,         \* executors of workflow runs, one agent node at a time
  Chats,        \* chat tasks of one agent each
  Workspace,    \* the workspace each caller's agents work in
  IdleTimed,    \* the runs with an idle timeout
  Capped,       \* the runs with an absolute cap (a chat always has one)
  Validated,    \* the runs whose agents have a 'cmd:' validator
  MaxCalls,     \* bound: sessions of one caller
  MaxSessions,  \* bound: sessions of all callers
  MaxActivity,  \* bound: spawn-events of all sessions
  EventBuf,     \* capacity of Gateway.events (256 in the code)
  Mortal,       \* the daemon may die
  None

Callers == Runs \cup Chats

ASSUME GatewayAssumption ==
  /\ Runs \cap Chats = {}
  /\ IdleTimed \subseteq Runs /\ Capped \subseteq Runs /\ Validated \subseteq Runs
  /\ MaxCalls \in Nat /\ MaxActivity \in Nat /\ EventBuf \in Nat
  /\ MaxSessions \in Nat
  /\ Mortal \in BOOLEAN
  /\ None \notin Callers \cup {"ok", "no", "dropped"}
  /\ "dropped" \notin Callers

VARIABLES
  at,        \* where the call of a caller is
  calls,     \* RunnerExecutor.seq, ChatService.seq
  idle,      \* the idle timer: "off", "armed", "fired", or "both" when it
             \* is armed again and its earlier tick is still in idleC
  outcome,   \* how the last call returned
  out,       \* the session whose output.json the last call returned
  reply,     \* the answer to the caller's outstanding request
  cmds,      \* commands on their way to the daemon
  daemon,    \* "up" or "gone"
  session,   \* the daemon's sessions
  activity,  \* spawn-events published so far
  verdict,   \* it ended with a spawn-done that is ok
  wrote,     \* the session that last wrote the output.json of a workspace
  wire,      \* events on their way to the gateway
  stream,    \* Gateway.events
  fate       \* history: the caller that took a session's report out of the
             \* channel, or "dropped" when the channel had no room for it

callVars == <<at, calls, idle, outcome, out>>
daemonVars == <<daemon, session, activity, verdict, wrote>>
vars == <<callVars, daemonVars, reply, cmds, wire, stream, fate>>

Spawns == Callers \X (1 .. MaxCalls)
Mine(c) == <<c, calls[c]>>
Asked == {s \in Spawns : s[2] <= calls[s[1]]}

Event(s, type) == [spawn |-> s, type |-> type]

(* spawn-done with ok, spawn-done without, spawn-error.                    *)
Reported == {"done", "failed", "error"}

Init ==
  /\ at = [c \in Callers |-> "idle"]
  /\ calls = [c \in Callers |-> 0]
  /\ idle = [c \in Callers |-> "off"]
  /\ outcome = [c \in Callers |-> None]
  /\ out = [c \in Callers |-> None]
  /\ reply = [c \in Callers |-> None]
  /\ cmds = <<>> /\ wire = <<>> /\ stream = <<>>
  /\ fate = [s \in Spawns |-> None]
  /\ daemon = "up"
  /\ session = [s \in Spawns |-> "none"]
  /\ activity = 0
  /\ verdict = [s \in Spawns |-> FALSE]
  /\ wrote = [w \in {Workspace[c] : c \in Callers} |-> None]

-----------------------------------------------------------------------------
(***************************************************************************)
(* roundTrip: a request nobody is subscribed to is refused at once; one    *)
(* that reached the daemon is answered by it, or never.                    *)
(***************************************************************************)
Request(c, s, type) ==
  IF daemon = "up"
    THEN cmds' = Append(cmds, [caller |-> c, spawn |-> s, type |-> type]) /\ UNCHANGED reply
    ELSE reply' = [reply EXCEPT ![c] = "no"] /\ UNCHANGED cmds

Goto(c, where) == at' = [at EXCEPT ![c] = where]

Finish(c, how) ==
  /\ outcome' = [outcome EXCEPT ![c] = how]
  /\ idle' = [idle EXCEPT ![c] = "off"]

Answered(c, where) ==
  /\ at[c] = where
  /\ reply[c] # None
  /\ reply' = [reply EXCEPT ![c] = None]

Spawn(c) ==
  /\ at[c] = "idle"
  /\ calls[c] < MaxCalls /\ Cardinality(Asked) < MaxSessions
  /\ calls' = [calls EXCEPT ![c] = @ + 1]
  /\ out' = [out EXCEPT ![c] = None]
  /\ outcome' = [outcome EXCEPT ![c] = None]
  /\ Request(c, <<c, calls[c] + 1>>, "spawn")
  /\ Goto(c, "spawning")
  /\ UNCHANGED <<idle, daemonVars, wire, stream, fate>>

Armed(c) == [idle EXCEPT ![c] = IF c \in IdleTimed THEN "armed" ELSE "off"]

(* The slip: the channel is emptied of old events before the wait begins.  *)
DrainFirst(c) ==
  /\ Answered(c, "spawning")
  /\ reply[c] = "ok"
  /\ Goto(c, "waiting")
  /\ idle' = Armed(c)
  /\ stream' = <<>>
  /\ UNCHANGED <<calls, outcome, out, daemonVars, cmds, wire, fate>>

SpawnAccepted(c) ==
  /\ Answered(c, "spawning")
  /\ reply[c] = "ok"
  /\ Goto(c, "waiting")
  /\ idle' = Armed(c)
  /\ UNCHANGED <<calls, outcome, out, daemonVars, cmds, wire, stream, fate>>

(* The slip: the kill is sent, and its answer is not waited for.           *)
KillUnawaited(c, how) ==
  /\ Finish(c, how)
  /\ Goto(c, "idle")
  /\ IF c \in Runs THEN Request(c, Mine(c), "kill") ELSE UNCHANGED <<reply, cmds>>

(* RunAgent kills the session after any error of SpawnAndWait; runAgent of *)
(* the chat just returns.                                                  *)
GiveUp(c, how) ==
  /\ Finish(c, how)
  /\ IF c \in Runs THEN Request(c, Mine(c), "kill") /\ Goto(c, "killing")
                   ELSE Goto(c, "idle") /\ UNCHANGED <<reply, cmds>>

SpawnRefused(c) ==
  /\ Answered(c, "spawning")
  /\ reply[c] = "no"
  /\ outcome' = [outcome EXCEPT ![c] = "refused"]
  /\ IF c \in Runs /\ daemon = "up"
       THEN cmds' = Append(cmds, [caller |-> c, spawn |-> Mine(c), type |-> "kill"]) /\ Goto(c, "killing")
       ELSE Goto(c, "idle") /\ UNCHANGED cmds
  /\ UNCHANGED <<calls, idle, out, daemonVars, wire, stream, fate>>

(* The slip: spawn ids without the sequence number of the executor.        *)
SameCaller(c, ev) == ev.spawn[1] = c

Matches(c, ev) == ev.spawn = Mine(c)

Met(ev, how) == IF ev.type \in Reported THEN [fate EXCEPT ![ev.spawn] = how] ELSE fate

(* Take the next event of the channel, whose ever it is; one of another    *)
(* session is dropped.  A run whose session did not end ok fails; the chat *)
(* does not look at the ok of spawn-done.                                  *)
Consume(c) ==
  /\ at[c] = "waiting"
  /\ stream # <<>>
  /\ stream' = Tail(stream)
  /\ fate' = Met(Head(stream), c)
  /\ LET ev == Head(stream)
     IN \/ /\ ~Matches(c, ev)
           /\ UNCHANGED <<at, idle, outcome, cmds, reply>>
        \/ /\ Matches(c, ev)
           /\ ev.type \in {"started", "event"}
           /\ idle' = [idle EXCEPT ![c] = CASE @ = "off" -> "off" [] @ = "armed" -> "armed" [] OTHER -> "both"]
           /\ UNCHANGED <<at, outcome, cmds, reply>>
        \/ /\ Matches(c, ev)
           /\ ev.type \in Reported
           /\ IF ev.type = "done" \/ (ev.type = "failed" /\ c \in Chats)
                THEN /\ idle' = [idle EXCEPT ![c] = "off"]
                     /\ Request(c, Mine(c), "read")
                     /\ Goto(c, "reading")
                     /\ UNCHANGED outcome
                ELSE /\ Finish(c, "failed")
                     /\ Goto(c, "idle")
                     /\ UNCHANGED <<cmds, reply>>
  /\ UNCHANGED <<calls, out, daemonVars, wire>>

IdleFires(c) ==
  /\ idle[c] = "armed"
  /\ idle' = [idle EXCEPT ![c] = "fired"]
  /\ UNCHANGED <<at, calls, outcome, out, daemonVars, reply, cmds, wire, stream, fate>>

(* The slip: a timed-out session is left to itself.                        *)
TimedOutUnkilled(c) ==
  /\ at[c] = "waiting"
  /\ \/ idle[c] \in {"fired", "both"} /\ Finish(c, "idle")
     \/ c \in Capped \cup Chats /\ Finish(c, "capped")
  /\ Goto(c, "idle")
  /\ UNCHANGED <<calls, out, daemonVars, reply, cmds, wire, stream, fate>>

(* The select takes any of the channels that are ready.                    *)
TimesOut(c) ==
  /\ at[c] = "waiting"
  /\ \/ idle[c] \in {"fired", "both"} /\ GiveUp(c, "idle")
     \/ c \in Capped \cup Chats /\ GiveUp(c, "capped")
  /\ UNCHANGED <<calls, out, daemonVars, wire, stream, fate>>

Killed(c) ==
  /\ Answered(c, "killing")
  /\ Goto(c, "idle")
  /\ UNCHANGED <<calls, idle, outcome, out, daemonVars, cmds, wire, stream, fate>>

(* ReadArtifact returned: no file, a file that is no JSON, or the output;  *)
(* an agent with a validator has it run in the workspace then.             *)
ReadReturns(c) ==
  /\ at[c] = "reading"
  /\ reply[c] # None
  /\ \/ /\ outcome' = [outcome EXCEPT ![c] = "failed"]
        /\ Answered(c, "reading")
        /\ Goto(c, "idle")
        /\ UNCHANGED <<out, cmds>>
     \/ /\ reply[c] # "no"
        /\ c \notin Validated
        /\ outcome' = [outcome EXCEPT ![c] = "ok"]
        /\ out' = [out EXCEPT ![c] = reply[c]]
        /\ Answered(c, "reading")
        /\ Goto(c, "idle")
        /\ UNCHANGED cmds
     \/ /\ reply[c] # "no"
        /\ c \in Validated
        /\ daemon = "up"
        /\ Answered(c, "reading")
        /\ cmds' = Append(cmds, [caller |-> c, spawn |-> Mine(c), type |-> "run"])
        /\ Goto(c, "validating")
        /\ UNCHANGED <<outcome, out>>
  /\ UNCHANGED <<calls, idle, daemonVars, wire, stream, fate>>

ValidatorReturns(c) ==
  /\ Answered(c, "validating")
  /\ outcome' = [outcome EXCEPT ![c] = IF reply[c] = "ok" THEN "ok" ELSE "failed"]
  /\ out' = [out EXCEPT ![c] = IF reply[c] = "ok" THEN Mine(c) ELSE None]
  /\ Goto(c, "idle")
  /\ UNCHANGED <<calls, idle, daemonVars, cmds, wire, stream, fate>>

(* The callback of the event subscription: a full channel drops the event. *)
Deliver ==
  /\ wire # <<>>
  /\ wire' = Tail(wire)
  /\ IF Len(stream) < EventBuf
       THEN stream' = Append(stream, Head(wire)) /\ UNCHANGED fate
       ELSE fate' = Met(Head(wire), "dropped") /\ UNCHANGED stream
  /\ UNCHANGED <<callVars, daemonVars, reply, cmds>>

-----------------------------------------------------------------------------
(***************************************************************************)
(* The daemon: onCommand, the sessions of AgentManager, runAndReport.      *)
(***************************************************************************)
Serving(type) == daemon = "up" /\ cmds # <<>> /\ Head(cmds).type = type

Answer(what) ==
  /\ cmds' = Tail(cmds)
  /\ reply' = [reply EXCEPT ![Head(cmds).caller] = what]

ServeSpawn ==
  /\ Serving("spawn")
  /\ LET s == Head(cmds).spawn
     IN \/ /\ session' = [session EXCEPT ![s] = "running"]
           /\ wire' = Append(wire, Event(s, "started"))
           /\ Answer("ok")
        \/ Answer("no") /\ UNCHANGED <<session, wire>>
  /\ UNCHANGED <<callVars, daemon, activity, verdict, wrote, stream, fate>>

(* The slip: a kill of a session that is not there is not answered.        *)
KillUnanswered ==
  /\ Serving("kill")
  /\ LET s == Head(cmds).spawn
     IN IF session[s] \in {"running", "stopped"}
          THEN session' = [session EXCEPT ![s] = "stopped"] /\ Answer("ok")
          ELSE cmds' = Tail(cmds) /\ UNCHANGED <<session, reply>>
  /\ UNCHANGED <<callVars, daemon, activity, verdict, wrote, wire, stream, fate>>

ServeKill ==
  /\ Serving("kill")
  /\ LET s == Head(cmds).spawn
     IN session' = [session EXCEPT ![s] = IF @ = "running" THEN "stopped" ELSE @]
  /\ Answer("ok")
  /\ UNCHANGED <<callVars, daemon, activity, verdict, wrote, wire, stream, fate>>

(* The workspace of a spawn stays known after its session ended.           *)
ServeRead ==
  /\ Serving("read")
  /\ LET w == Workspace[Head(cmds).caller]
     IN Answer(IF wrote[w] = None THEN "no" ELSE wrote[w])
  /\ UNCHANGED <<callVars, daemonVars, wire, stream, fate>>

ServeRun ==
  /\ Serving("run")
  /\ \E what \in {"ok", "no"} : Answer(what)
  /\ UNCHANGED <<callVars, daemonVars, wire, stream, fate>>

Works(s) ==
  /\ daemon = "up"
  /\ session[s] = "running"
  /\ activity < MaxActivity
  /\ activity' = activity + 1
  /\ wire' = Append(wire, Event(s, "event"))
  /\ UNCHANGED <<callVars, daemon, session, verdict, wrote, reply, cmds, stream, fate>>

(* Until its run has returned, a stopped session may still write.          *)
Writes(s) ==
  /\ daemon = "up"
  /\ session[s] \in {"running", "stopped"}
  /\ wrote' = [wrote EXCEPT ![Workspace[s[1]]] = s]
  /\ UNCHANGED <<callVars, daemon, session, activity, verdict, reply, cmds, wire, stream, fate>>

Reports(s) ==
  /\ daemon = "up"
  /\ session[s] \in {"running", "stopped"}
  /\ session' = [session EXCEPT ![s] = "reported"]
  /\ \E how \in Reported :
       /\ verdict' = [verdict EXCEPT ![s] = how = "done"]
       /\ wire' = Append(wire, Event(s, how))
  /\ UNCHANGED <<callVars, daemon, activity, wrote, reply, cmds, stream, fate>>

(* The daemon dies, or its WebSocket breaks: it never connects again by    *)
(* itself, and the commands on their way to it are lost.                   *)
Dies ==
  /\ Mortal
  /\ daemon = "up"
  /\ daemon' = "gone"
  /\ cmds' = <<>>
  /\ UNCHANGED <<callVars, session, activity, verdict, wrote, reply, wire, stream, fate>>

Idle ==
  /\ \A c \in Callers : at[c] = "idle"
  /\ Cardinality(Asked) = MaxSessions \/ \A c \in Callers : calls[c] = MaxCalls
  /\ UNCHANGED vars

Call(c) ==
  \/ SpawnAccepted(c) \/ SpawnRefused(c) \/ Consume(c) \/ TimesOut(c)
  \/ Killed(c) \/ ReadReturns(c) \/ ValidatorReturns(c)

Serve == ServeSpawn \/ ServeKill \/ ServeRead \/ ServeRun

Next ==
  \/ \E c \in Callers : Spawn(c) \/ Call(c) \/ IdleFires(c)
  \/ \E s \in Spawns : Works(s) \/ Writes(s) \/ Reports(s)
  \/ Serve \/ Deliver \/ Dies \/ Idle

Spec == Init /\ [][Next]_vars

(* The caller's goroutine runs and its timers expire, NATS delivers, and   *)
(* the daemon serves the commands it gets.  Nothing makes an agent end.    *)
Fairness ==
  /\ \A c \in Callers : WF_vars(Call(c))
  /\ WF_vars(Serve)
  /\ WF_vars(Deliver)

FairSpec == Spec /\ Fairness

-----------------------------------------------------------------------------
(* The variables have the values the code can give them.                   *)
TypeOK ==
  /\ at \in [Callers -> {"idle", "spawning", "waiting", "killing", "reading", "validating"}]
  /\ calls \in [Callers -> 0 .. MaxCalls]
  /\ idle \in [Callers -> {"off", "armed", "fired", "both"}]
  /\ \A c \in Callers : idle[c] # "off" => at[c] = "waiting"
  /\ outcome \in [Callers -> {None, "refused", "failed", "idle", "capped", "ok"}]
  /\ out \in [Callers -> Spawns \cup {None}]
  /\ session \in [Spawns -> {"none", "running", "stopped", "reported"}]
  /\ Len(stream) <= EventBuf
  /\ \A c \in Callers : \A n \in calls[c] + 1 .. MaxCalls : session[<<c, n>>] = "none"

(* A run goes on to read the output only when the session of this very     *)
(* attempt reported success: a late report of an attempt that was given up *)
(* never ends the next one.                                                *)
ResultOwn ==
  \A c \in Runs : at[c] \in {"reading", "validating"} \/ outcome[c] = "ok" =>
    session[Mine(c)] = "reported" /\ verdict[Mine(c)]

(* A run never has two sessions at work: the one it gave up was stopped    *)
(* before the next one is asked for (it may still be ending).              *)
OneLiveSession ==
  \A c \in Runs : daemon = "up" /\ at[c] \in {"idle", "spawning"} =>
    \A n \in 1 .. calls[c] : session[<<c, n>>] = "running" => at[c] = "spawning" /\ n = calls[c]

ReportIn(q, s) == \E i \in DOMAIN q : q[i].spawn = s /\ q[i].type \in Reported
OnItsWay(s) == ReportIn(wire, s) \/ ReportIn(stream, s)
Awaited(c) == at[c] \in {"spawning", "waiting"} /\ session[Mine(c)] = "reported"

(* The report of a session is on its way, or in the channel, as long as    *)
(* its caller waits for it: nobody else has taken it.                      *)
ReportKept == \A c \in Callers : Awaited(c) => OnItsWay(Mine(c))

(* No report is lost unaccounted for, and none is delivered twice: one     *)
(* that its waiting caller will not get was taken by another caller of the *)
(* shared channel, or the channel was full; timers, kills and the late     *)
(* start of the wait lose none.                                            *)
ReportAccounted ==
  /\ \A c \in Callers : Awaited(c) /\ ~OnItsWay(Mine(c)) => fate[Mine(c)] \in (Callers \ {c}) \cup {"dropped"}
  /\ \A s \in Spawns : fate[s] # None => session[s] = "reported" /\ ~OnItsWay(s)

(* A call with a cap returns, whatever the agent does, as long as there is *)
(* a daemon to answer: the cap does not bound the requests themselves.     *)
CallSettles ==
  \A c \in Capped \cup Chats : at[c] # "idle" ~> (at[c] = "idle" \/ daemon = "gone")

(***************************************************************************)
(* AgentCall, seen from the caller and the daemon's sessions: a call that  *)
(* waits for the answer to its kill has its outcome, but has not returned. *)
(***************************************************************************)
InCall == {c \in Callers : at[c] # "idle"}
Returned == [c \in Callers |-> IF at[c] = "idle" THEN outcome[c] ELSE None]
Stage(s) ==
  CASE session[s] = "none" -> "fresh"
    [] session[s] = "running" -> "working"
    [] session[s] = "stopped" -> "stopped"
    [] OTHER -> "over"

Promise == INSTANCE AgentCall WITH
  Sessions <- Spawns,
  attempt <- calls,
  busy <- InCall,
  result <- Returned,
  session <- [s \in Spawns |-> Stage(s)],
  succeeded <- {s \in Spawns : verdict[s]},
  connected <- daemon = "up"

(* A call for an agent keeps its promise: answered once, "ok" for its own  *)
(* session only, and a run is not answered over an agent still at work.    *)
ImplementsCall == Promise!Spec
=============================================================================
