----------------------------- MODULE ChannelFeed -----------------------------
(***************************************************************************)
(* What the channel page of the console promises its reader, whatever the  *)
(* order in which fetches, pushed messages and the reader's own posts come *)
(* in: of the open channel it shows stored messages only, and while the    *)
(* reader stays it ends up showing every message the list endpoint serves, *)
(* the oldest Limit ones.  A message may leave the page again for a while. *)
(***************************************************************************)
EXTENDS Naturals, FiniteSets

CONSTANTS Channels, Limit, None

VARIABLES
  stored,  \* per channel, the sequence numbers of its messages
  open,    \* the channel on the page, or None
  view     \* the messages of that channel the page shows

vars == <<stored, open, view>>

Init == stored = [c \in Channels |-> {}] /\ open = None /\ view = {}

(* A message is stored; sequence numbers grow over all channels.           *)
Store(c) ==
  /\ \E m \in stored'[c] :
       /\ stored' = [stored EXCEPT ![c] = @ \cup {m}]
       /\ \A d \in Channels : \A k \in stored[d] : k < m
  /\ UNCHANGED <<open, view>>

Browse ==
  /\ open' \in Channels \cup {None}
  /\ view' \subseteq (IF open' = None THEN {} ELSE stored[open'])
  /\ UNCHANGED stored

Show ==
  /\ open # None
  /\ view' \subseteq stored[open]
  /\ UNCHANGED <<stored, open>>

Next == (\E c \in Channels : Store(c)) \/ Browse \/ Show

Served(c) == {m \in stored[c] : Cardinality({k \in stored[c] : k <= m}) <= Limit}

CatchesUp ==
  \A c \in Channels : <>[](open = c) => <>[](open = c /\ Served(c) \subseteq view)

Spec == Init /\ [][Next]_vars /\ CatchesUp
=============================================================================
