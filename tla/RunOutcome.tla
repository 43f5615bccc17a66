----------------------------- MODULE RunOutcome -----------------------------
(***************************************************************************)
(* What a run promises to the people who decide its gates and to those who *)
(* read how it ended: a decision is taken once and stays; a gate is passed *)
(* after its decision; the end is announced in the log once and is then    *)
(* final; and the store's word on the run is written once, the announced   *)
(* one, or "failed" when the run was never launched or its process died.   *)
(***************************************************************************)
CONSTANTS Gates, PauseGates, None

VARIABLES
  decision,   \* per gate, what the API accepted, or None
  gate,       \* per gate: closed, asked, passed or skipped
  announced,  \* the terminal words in the event log
  outcome     \* the store's word on how the run ended, or None

vars == <<decision, gate, announced, outcome>>

Init ==
  /\ decision = [g \in Gates |-> None]
  /\ gate = [g \in Gates |-> "closed"]
  /\ announced = {} /\ outcome = None

(* People may decide before they are asked, and when all is over.          *)
Decide(g, d) ==
  /\ decision[g] = None
  /\ decision' = [decision EXCEPT ![g] = d]
  /\ UNCHANGED <<gate, announced, outcome>>

Moves(g, from, to) ==
  /\ announced = {} /\ outcome = None
  /\ gate[g] = from
  /\ gate' = [gate EXCEPT ![g] = to]
  /\ UNCHANGED <<decision, announced, outcome>>

Ask(g) == Moves(g, "closed", "asked")
Pass(g) == decision[g] # None /\ Moves(g, "asked", "passed")
Skip(g) == Moves(g, "closed", "skipped")

Announce(o) ==
  /\ announced = {} /\ outcome = None
  /\ o = "completed" => \A g \in Gates : gate[g] \in {"passed", "skipped"}
  /\ o = "paused" => \E g \in PauseGates : decision[g] = "rejected"
  /\ announced' = {o}
  /\ UNCHANGED <<decision, gate, outcome>>

Settle(o) ==
  /\ outcome = None
  /\ o \in announced \cup {"failed"}
  /\ outcome' = o
  /\ UNCHANGED <<decision, gate, announced>>

Next ==
  \/ \E g \in Gates : Ask(g) \/ Pass(g) \/ Skip(g) \/ \E d \in {"approved", "rejected"} : Decide(g, d)
  \/ \E o \in {"completed", "paused", "failed"} : Announce(o) \/ Settle(o)

Spec == Init /\ [][Next]_vars
=============================================================================
