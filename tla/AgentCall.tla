------------------------------ MODULE AgentCall ------------------------------
(***************************************************************************)
(* What a call for an agent promises, whatever becomes of the commands,    *)
(* the events and the timers under it: it returns once, with one result;   *)
(* no session starts that nobody is waiting for; a result "ok" is that of  *)
(* the call's own session, which is over, and for a run it succeeded; and  *)
(* while the daemon is there, a run gets no result before its session has  *)
(* ended or was told to stop.  The agent may end at any moment, or never.  *)
(***************************************************************************)
EXTENDS Naturals

CONSTANTS
  Callers,
  Runs,      \* the callers that stop a session they give up
  Sessions,  \* a caller and the number of its call
  None

Results == {"refused", "failed", "idle", "capped", "ok"}

VARIABLES
  attempt,    \* per caller, the number of its last call
  busy,       \* the callers whose call has not returned
  result,     \* per caller, what the last call returned
  session,    \* per session: fresh, working, stopped or over
  succeeded,  \* the sessions that said they did their work
  connected   \* the daemon is there

agentVars == <<session, succeeded, connected>>
vars == <<attempt, busy, result, agentVars>>

Current(c) == <<c, attempt[c]>>

Init ==
  /\ attempt = [c \in Callers |-> 0]
  /\ busy = {}
  /\ result = [c \in Callers |-> None]
  /\ session = [s \in Sessions |-> "fresh"]
  /\ succeeded = {} /\ connected = TRUE

Ask(c) ==
  /\ c \notin busy
  /\ busy' = busy \cup {c}
  /\ attempt' = [attempt EXCEPT ![c] = @ + 1]
  /\ result' = [result EXCEPT ![c] = None]
  /\ UNCHANGED agentVars

Return(c, how) ==
  /\ c \in busy
  /\ c \in Runs /\ connected => session[Current(c)] # "working"
  /\ how = "ok" => session[Current(c)] = "over" /\ (c \in Runs => Current(c) \in succeeded)
  /\ busy' = busy \ {c}
  /\ result' = [result EXCEPT ![c] = how]
  /\ UNCHANGED <<attempt, agentVars>>

Moves(s, from, to) ==
  /\ connected
  /\ session[s] \in from
  /\ session' = [session EXCEPT ![s] = to]
  /\ UNCHANGED <<attempt, busy, result, connected>>

Start(c) == c \in busy /\ Moves(Current(c), {"fresh"}, "working") /\ UNCHANGED succeeded
Stop(c) == c \in busy \cap Runs /\ Moves(Current(c), {"working"}, "stopped") /\ UNCHANGED succeeded
End(s) == Moves(s, {"working", "stopped"}, "over") /\ succeeded' \in {succeeded, succeeded \cup {s}}

Disconnect ==
  /\ connected
  /\ connected' = FALSE
  /\ UNCHANGED <<attempt, busy, result, session, succeeded>>

Next ==
  \/ \E c \in Callers : Ask(c) \/ Start(c) \/ Stop(c) \/ \E how \in Results : Return(c, how)
  \/ \E s \in Sessions : End(s)
  \/ Disconnect

Spec == Init /\ [][Next]_vars
=============================================================================
