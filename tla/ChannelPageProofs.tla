-------------------------- MODULE ChannelPageProofs --------------------------
(***************************************************************************)
(* For any number of channels, posts, messages and requests, and any       *)
(* limits: no message is on the page twice, a disabled send button means   *)
(* that a reply is waited for, the socket misses nothing that its replay   *)
(* and its subscription cover, and every step of the page is one of the    *)
(* feed.                                                                   *)
(***************************************************************************)
EXTENDS ChannelPage, TLAPS

(* A post that is under way is for a channel.                              *)
PostsPlaced == \A p \in Posts : posts[p].at # "none" => posts[p].chan \in Channels

OnItsWay(m) == m \in hub \cup ws.sent \cup ws.got

(* Between the subscription and the replay the subscription alone answers  *)
(* for what is stored after it.                                            *)
Subscribed ==
  ws.at = "subscribed" /\ ~ws.lost =>
    \A m \in Of(channelId) : m > ws.since => OnItsWay(m)

IInv == TypeOK /\ ShownOnce /\ BusyWaits /\ PostsPlaced /\ Subscribed /\ PushComplete

-----------------------------------------------------------------------------
(* AppendChannelMessage adds one row and keeps the others.                 *)
LEMMA Appended ==
  ASSUME RowsType, NEW c \in Channels, NEW author \in {"other", "agent"}, AppendMessage(c, author)
  PROVE  /\ RowsType'
         /\ Len(rows) \in Nat /\ Len(rows') = Len(rows) + 1 /\ Len(rows') <= MaxMessages
         /\ Seqs' = Seqs \cup {Len(rows) + 1} /\ Seqs = 1 .. Len(rows)
         /\ \A m \in Seqs : rows'[m] = rows[m]
         /\ rows'[Len(rows) + 1] = [chan |-> c, author |-> author]
         /\ hub' = hub \cup {Len(rows) + 1}
BY PageAssumption DEF RowsType, AppendMessage, Seqs

(* The list of a channel is made of stored messages.                       *)
LEMMA ListStored ==
  ASSUME NEW c, NEW limit, NEW upto
  PROVE  ListChannelMessages(c, limit, upto) \subseteq Of(c) /\ Of(c) \subseteq Seqs
BY DEF ListChannelMessages, Of

(* A row that is added does not move the older ones in any list: whether a *)
(* message is among the oldest is settled when it is stored.               *)
LEMMA ListKept ==
  ASSUME RowsType, NEW c \in Channels, NEW author \in {"other", "agent"}, AppendMessage(c, author),
         NEW d, NEW limit, NEW m \in Seqs
  PROVE  /\ m \in Of(d)' <=> m \in Of(d)
         /\ m \in ListChannelMessages(d, limit, Len(rows))' =>
              m \in ListChannelMessages(d, limit, Len(rows))
<1>1. /\ Seqs' = Seqs \cup {Len(rows) + 1} /\ Seqs = 1 .. Len(rows) /\ Len(rows) \in Nat
      /\ \A k \in Seqs : rows'[k] = rows[k]
  BY Appended
<1>2. \A k \in Seqs : k \in Of(d)' <=> k \in Of(d)
  BY <1>1 DEF Of
<1>3. {k \in Of(d)' : k <= m} = {k \in Of(d) : k <= m}
  <2>1. \A k \in Of(d)' : k <= m => k \in Seqs
    BY <1>1 DEF Of
  <2>2. \A k \in Of(d) : k \in Seqs
    BY DEF Of
  <2> QED
    BY <1>2, <2>1, <2>2
<1>4. m <= Len(rows)
  BY <1>1
<1> QED
  BY <1>2, <1>3, <1>4 DEF ListChannelMessages

-----------------------------------------------------------------------------
(* The state in which the page is mounted.                                 *)
LEMMA InitInv == Init => IInv
<1> SUFFICES ASSUME Init PROVE IInv
  OBVIOUS
<1>1. Seqs = {} /\ RowsType /\ Len(rows) = 0
  BY DEF Init, Seqs, RowsType
<1>2. ServerType /\ faults \in 0 .. MaxFaults
  BY <1>1, PageAssumption DEF Init, ServerType
<1>7. PageType
  <2>1. messages \in [1 .. MaxMessages -> Nat]
    BY DEF Init
  <2> QED
    BY <2>1 DEF Init, PageType
<1>3. PostsType
  BY <1>1 DEF Init, PostsType, NoPost
<1>4. FetchesType
  BY <1>1 DEF Init, FetchesType, NoFetch
<1>5. SocketType
  BY <1>1 DEF Init, SocketType, NoSocket
<1>6. ShownOnce /\ BusyWaits /\ PostsPlaced /\ Subscribed /\ PushComplete
  BY <1>1, PageAssumption DEF Init, ShownOnce, BusyWaits, PostsPlaced, Subscribed, PushComplete,
     NoPost, NoSocket
<1> QED
  BY <1>1, <1>2, <1>3, <1>4, <1>5, <1>6, <1>7 DEF IInv, TypeOK

(***************************************************************************)
(* The chat service stores a message: nothing the page knows moves.        *)
(***************************************************************************)
LEMMA AppendInv ==
  ASSUME IInv, NEW c \in Channels, NEW author \in {"other", "agent"}, AppendMessage(c, author),
         UNCHANGED <<pageVars, fetches, ws, faults>>, PostsType', PostsPlaced',
         running' \in [Channels -> Nat]
  PROVE  IInv'
<1> USE DEF IInv, TypeOK
<1>1. /\ RowsType'
      /\ Len(rows) \in Nat /\ Len(rows') = Len(rows) + 1 /\ Len(rows') <= MaxMessages
      /\ Seqs' = Seqs \cup {Len(rows) + 1} /\ Seqs = 1 .. Len(rows)
      /\ \A m \in Seqs : rows'[m] = rows[m]
      /\ rows'[Len(rows) + 1] = [chan |-> c, author |-> author]
      /\ hub' = hub \cup {Len(rows) + 1}
  BY Appended
<1>2. ServerType'
  BY <1>1 DEF ServerType
<1>3. PageType'
  <2>1. pendingAgentSeq' \in {0} \cup AgentSeqs(Seqs)'
    BY <1>1 DEF PageType, AgentSeqs, pageVars
  <2> QED
    BY <2>1 DEF PageType, pageVars
<1>4. FetchesType'
  BY <1>1 DEF FetchesType, Fetchers
<1>5. SocketType'
  BY <1>1 DEF SocketType
<1>6. ShownOnce' /\ BusyWaits'
  BY <1>1 DEF ShownOnce, BusyWaits, pageVars, PageType
<1>7. ASSUME NEW m \in Of(channelId)', m \notin Seqs PROVE OnItsWay(m)'
  BY <1>1, <1>7 DEF Of, OnItsWay
<1>8. \A m : OnItsWay(m) => OnItsWay(m)'
  BY <1>1 DEF OnItsWay
<1>9. \A m \in Seqs : m \in Of(channelId)' => m \in Of(channelId)
  BY ListKept DEF pageVars
<1>10. Subscribed'
  BY <1>7, <1>8, <1>9 DEF Subscribed
<1>11. \A m \in Seqs : m \in ListChannelMessages(channelId, ReplayLimit, Len(rows))' =>
                         m \in ListChannelMessages(channelId, ReplayLimit, Len(rows))
  BY ListKept DEF pageVars
<1>12. PushComplete'
  BY <1>7, <1>8, <1>9, <1>11 DEF PushComplete, OnItsWay
<1> QED
  BY <1>1, <1>2, <1>3, <1>4, <1>5, <1>6, <1>10, <1>12

(***************************************************************************)
(* Whatever leaves the rows alone leaves every list alone.                 *)
(***************************************************************************)
LEMMA RowsKept ==
  ASSUME UNCHANGED rows
  PROVE  /\ Seqs' = Seqs /\ RowsType' = RowsType
         /\ \A S : AgentSeqs(S)' = AgentSeqs(S)
         /\ \A c : Of(c)' = Of(c)
BY DEF Seqs, RowsType, AgentSeqs, Of

(***************************************************************************)
(* Every other step of the service.                                        *)
(***************************************************************************)
LEMMA PublishInv == ASSUME IInv, NEW m \in Seqs, Publish(m) PROVE IInv'
<1> USE DEF IInv, TypeOK
<1>1. UNCHANGED <<rows, running, posts, pageVars, fetches, faults>> /\ hub' = hub \ {m} /\ m \in hub
  BY DEF Publish
<1>2. ws' \in {ws, [ws EXCEPT !.sent = @ \cup {m}], [ws EXCEPT !.lost = TRUE]}
  BY DEF Publish
<1>3. Seqs' = Seqs /\ RowsType' /\ \A c : Of(c)' = Of(c)
  BY <1>1, RowsKept
<1>4. ServerType' /\ PostsType' /\ FetchesType' /\ PostsPlaced'
  BY <1>1, <1>3 DEF ServerType, PostsType, FetchesType, PostsPlaced
<1>5. PageType' /\ ShownOnce' /\ BusyWaits'
  BY <1>1, <1>3, RowsKept DEF PageType, ShownOnce, BusyWaits, pageVars, AgentSeqs
<1>6. SocketType'
  <2>1. ws.sent \cup {m} \in SUBSET Seqs
    BY DEF SocketType
  <2>2. ws' = ws => SocketType'
    BY <1>1, <1>3 DEF SocketType
  <2>3. ws' = [ws EXCEPT !.sent = @ \cup {m}] => SocketType'
    BY <1>1, <1>3, <2>1 DEF SocketType
  <2>4. ws' = [ws EXCEPT !.lost = TRUE] => SocketType'
    BY <1>1, <1>3 DEF SocketType
  <2> QED
    BY <1>2, <2>2, <2>3, <2>4
<1>7. ws'.at = ws.at /\ ws'.since = ws.since /\ ws'.got = ws.got /\ (ws.lost => ws'.lost)
  BY <1>2 DEF SocketType
<1>8. ASSUME NEW k \in Of(channelId), OnItsWay(k), ~ws'.lost, ws.at \in {"subscribed", "live"}
      PROVE  OnItsWay(k)'
  <2>1. CASE k = m
    <3>1. ws' = [ws EXCEPT !.sent = @ \cup {m}]
      BY <1>8, <2>1 DEF Publish, Of, SocketType
    <3> QED
      BY <2>1, <3>1 DEF OnItsWay, SocketType
  <2>2. CASE k # m
    BY <1>1, <1>2, <1>8, <2>2 DEF OnItsWay, SocketType
  <2> QED
    BY <2>1, <2>2
<1>9. Subscribed'
  BY <1>1, <1>3, <1>7, <1>8 DEF Subscribed, pageVars
<1>10. PushComplete'
  BY <1>1, <1>3, <1>7, <1>8 DEF PushComplete, pageVars, OnItsWay, ListChannelMessages
<1> QED
  BY <1>1, <1>3, <1>4, <1>5, <1>6, <1>9, <1>10

(* What a step that touches neither rows nor hub nor socket has to show.   *)
LEMMA PageInv ==
  ASSUME IInv, UNCHANGED <<rows, hub, channelId, ws>>,
         running' \in [Channels -> Nat], PostsType', PostsPlaced', FetchesType', PageType',
         ShownOnce', BusyWaits', faults' \in 0 .. MaxFaults
  PROVE  IInv'
<1> USE DEF IInv, TypeOK
<1>1. Seqs' = Seqs /\ RowsType' /\ \A c : Of(c)' = Of(c)
  BY RowsKept
<1>2. ServerType' /\ SocketType'
  BY <1>1 DEF ServerType, SocketType
<1>3. Subscribed' /\ PushComplete'
  BY <1>1 DEF Subscribed, PushComplete, OnItsWay, ListChannelMessages
<1> QED
  BY <1>1, <1>2, <1>3

(* The requests and goroutines that end, or fail.                          *)
LEMMA ServiceInv ==
  ASSUME IInv, \/ \E p \in Posts : PostReturns(p) \/ PostFails(p)
               \/ \E c \in Channels : ReplyLost(c)
  PROVE  IInv'
<1> USE DEF IInv, TypeOK
<1>1. ASSUME NEW p \in Posts, PostReturns(p) PROVE IInv'
  <2>1. posts[p].chan \in Channels
    BY <1>1 DEF PostReturns, PostsPlaced
  <2>2. running' \in [Channels -> Nat]
    <3>1. PICK agent \in {0, 1} : running' = [running EXCEPT ![posts[p].chan] = @ + agent]
      BY <1>1 DEF PostReturns
    <3> QED
      BY <2>1, <3>1 DEF ServerType
  <2>3. PostsType' /\ PostsPlaced'
    BY <1>1, <2>1 DEF PostReturns, PostsType, PostsPlaced, Seqs
  <2>4. UNCHANGED <<rows, hub, pageVars, fetches, ws, faults>>
    BY <1>1 DEF PostReturns
  <2> QED
    BY <2>2, <2>3, <2>4, RowsKept, PageInv
    DEF FetchesType, PageType, pageVars, ShownOnce, BusyWaits, Seqs, AgentSeqs
<1>2. ASSUME NEW p \in Posts, PostFails(p) PROVE IInv'
  <2>1. PostsType' /\ PostsPlaced'
    BY <1>2 DEF PostFails, PostsType, PostsPlaced, Seqs
  <2>2. UNCHANGED <<rows, hub, running, pageVars, fetches, ws>> /\ faults' \in 0 .. MaxFaults
    BY <1>2, PageAssumption DEF PostFails, Fault
  <2> QED
    BY <2>1, <2>2, PageInv
    DEF ServerType, FetchesType, PageType, pageVars, ShownOnce, BusyWaits, Seqs, AgentSeqs
<1>3. ASSUME NEW c \in Channels, ReplyLost(c) PROVE IInv'
  <2>1. UNCHANGED <<rows, hub, posts, pageVars, fetches, ws>> /\ faults' \in 0 .. MaxFaults
    BY <1>3, PageAssumption DEF ReplyLost, Fault
  <2>2. running' \in [Channels -> Nat]
    BY <1>3 DEF ReplyLost, ServerType
  <2> QED
    BY <2>1, <2>2, PageInv
    DEF PostsType, PostsPlaced, FetchesType, PageType, pageVars, ShownOnce, BusyWaits, Seqs, AgentSeqs
<1> QED
  BY <1>1, <1>2, <1>3

(* The requests that store a message, and the other authors.               *)
LEMMA StoreInv ==
  ASSUME IInv, \/ \E p \in Posts : PostAppends(p)
               \/ \E c \in Channels : OtherAppends(c) \/ AgentReplies(c)
  PROVE  IInv'
<1> USE DEF IInv, TypeOK
<1>1. ASSUME NEW p \in Posts, PostAppends(p) PROVE IInv'
  <2>1. posts[p].chan \in Channels
    BY <1>1 DEF PostAppends, PostsPlaced
  <2>2. AppendMessage(posts[p].chan, "other") /\ UNCHANGED <<running, pageVars, fetches, ws, faults>>
    BY <1>1 DEF PostAppends
  <2>3. Seqs' = Seqs \cup {Len(rows) + 1}
    BY <2>1, <2>2, Appended
  <2>4. PostsType' /\ PostsPlaced'
    BY <1>1, <2>1, <2>3 DEF PostAppends, PostsType, PostsPlaced
  <2> QED
    BY <2>1, <2>2, <2>4, AppendInv DEF ServerType
<1>2. ASSUME NEW c \in Channels, OtherAppends(c) PROVE IInv'
  <2>1. AppendMessage(c, "other") /\ UNCHANGED <<running, posts, pageVars, fetches, ws, faults>>
    BY <1>2 DEF OtherAppends
  <2>2. Seqs' = Seqs \cup {Len(rows) + 1}
    BY <2>1, Appended
  <2>3. PostsType' /\ PostsPlaced'
    BY <2>1, <2>2 DEF PostsType, PostsPlaced
  <2> QED
    BY <2>1, <2>3, AppendInv DEF ServerType
<1>3. ASSUME NEW c \in Channels, AgentReplies(c) PROVE IInv'
  <2>1. AppendMessage(c, "agent") /\ UNCHANGED <<posts, pageVars, fetches, ws, faults>>
    BY <1>3 DEF AgentReplies
  <2>2. Seqs' = Seqs \cup {Len(rows) + 1}
    BY <2>1, Appended
  <2>3. PostsType' /\ PostsPlaced'
    BY <2>1, <2>2 DEF PostsType, PostsPlaced
  <2>4. running' \in [Channels -> Nat]
    BY <1>3 DEF AgentReplies, ServerType
  <2> QED
    BY <2>1, <2>3, <2>4, AppendInv
<1> QED
  BY <1>1, <1>2, <1>3

(***************************************************************************)
(* The socket.                                                             *)
(***************************************************************************)
LEMMA SocketInv == ASSUME IInv, Socket PROVE IInv'
<1> USE DEF IInv, TypeOK
<1>1. UNCHANGED <<rows, hub, running, posts, pageVars, fetches>> /\ faults' \in 0 .. MaxFaults
  BY PageAssumption DEF Socket, Subscribe, Replay, SocketLost, Fault
<1>2. Seqs' = Seqs /\ RowsType' /\ \A c : Of(c)' = Of(c)
  BY <1>1, RowsKept
<1>3. ServerType' /\ PostsType' /\ FetchesType' /\ PostsPlaced'
  BY <1>1, <1>2 DEF ServerType, PostsType, FetchesType, PostsPlaced
<1>4. PageType' /\ ShownOnce' /\ BusyWaits'
  BY <1>1, <1>2 DEF PageType, ShownOnce, BusyWaits, pageVars, AgentSeqs
<1>5. Len(rows) \in Nat /\ Seqs = 1 .. Len(rows)
  BY DEF RowsType, Seqs
<1>6. SocketType' /\ Subscribed' /\ PushComplete'
  <2>1. CASE Subscribe
    <3>1. ws' = [ws EXCEPT !.at = "subscribed", !.since = Len(rows)] /\ rows' = rows
      BY <2>1 DEF Subscribe
    <3>2. SocketType'
      <4>1. Len(rows) \in 0 .. Len(rows)
        BY <1>5
      <4> QED
        BY <1>2, <3>1, <4>1 DEF SocketType
    <3>3. ws'.at = "subscribed" /\ ws'.since = Len(rows)
      BY <3>1 DEF SocketType
    <3>4. Subscribed' /\ PushComplete'
      BY <1>2, <1>5, <3>3 DEF Subscribed, PushComplete, Of
    <3> QED
      BY <3>2, <3>4
  <2>2. CASE Replay
    <3> DEFINE replayed == ListChannelMessages(channelId, ReplayLimit, Len(rows))
    <3>1. ws' = [ws EXCEPT !.at = "live", !.sent = @ \cup replayed] /\ rows' = rows
      BY <2>2 DEF Replay
    <3>2. ws.sent \cup replayed \in SUBSET Seqs
      BY ListStored DEF SocketType
    <3>3. SocketType'
      BY <1>2, <3>1, <3>2 DEF SocketType
    <3>4. /\ ws'.at = "live" /\ ws'.since = ws.since /\ ws'.lost = ws.lost /\ ws'.got = ws.got
          /\ ws'.sent = ws.sent \cup replayed
      BY <3>1 DEF SocketType
    <3>5. ws.at = "subscribed" /\ channelId' = channelId /\ hub' = hub
      BY <1>1, <2>2 DEF Replay, pageVars
    <3>6. Of(channelId)' = Of(channelId)
      BY <1>2, <3>5
    <3>7. replayed' = replayed
      BY <3>1, <3>5, <3>6 DEF ListChannelMessages
    <3>8. Subscribed'
      BY <3>4 DEF Subscribed
    <3>9. Subscribed /\ replayed' = ListChannelMessages(channelId, ReplayLimit, Len(rows))'
      BY <3>5
    <3>10. PushComplete'
      BY <3>4, <3>5, <3>6, <3>7, <3>9 DEF PushComplete, Subscribed, OnItsWay
    <3> QED
      BY <3>3, <3>8, <3>10
  <2>3. CASE SocketLost
    <3>1. ws' = NoSocket
      BY <2>3 DEF SocketLost
    <3>2. SocketType'
      BY <1>2, <1>5, <3>1, <1>1 DEF SocketType, NoSocket
    <3> QED
      BY <3>1, <3>2 DEF Subscribed, PushComplete, NoSocket
  <2> QED
    BY <2>1, <2>2, <2>3 DEF Socket
<1> QED
  BY <1>1, <1>2, <1>3, <1>4, <1>6

(* ws.onmessage: what was on its way has arrived.                          *)
LEMMA OnMessageInv == ASSUME IInv, NEW m \in Seqs, OnMessage(m) PROVE IInv'
<1> USE DEF IInv, TypeOK
<1>1. /\ UNCHANGED <<rows, hub, running, posts, channelId, busy, waitingReply, pendingAgentSeq, fetches, faults>>
      /\ ws' = [ws EXCEPT !.sent = @ \ {m}, !.got = @ \cup {m}]
      /\ messages' = [messages EXCEPT ![m] = IF @ > 0 THEN @ ELSE 1]
  BY DEF OnMessage
<1>2. Seqs' = Seqs /\ RowsType' /\ \A c : Of(c)' = Of(c)
  BY <1>1, RowsKept
<1>3. ServerType' /\ PostsType' /\ FetchesType' /\ PostsPlaced'
  BY <1>1, <1>2 DEF ServerType, PostsType, FetchesType, PostsPlaced
<1>4. PageType' /\ BusyWaits'
  BY <1>1, <1>2 DEF PageType, BusyWaits, AgentSeqs
<1>5. ShownOnce'
  BY <1>1, <1>2 DEF ShownOnce, PageType
<1>6. ws.sent \ {m} \in SUBSET Seqs /\ ws.got \cup {m} \in SUBSET Seqs
  BY DEF SocketType
<1>7. SocketType'
  BY <1>1, <1>2, <1>6 DEF SocketType
<1>8. /\ ws'.at = ws.at /\ ws'.since = ws.since /\ ws'.lost = ws.lost
      /\ ws'.sent = ws.sent \ {m} /\ ws'.got = ws.got \cup {m}
  BY <1>1 DEF SocketType
<1>9. \A k : OnItsWay(k) => OnItsWay(k)'
  BY <1>1, <1>8 DEF OnItsWay
<1>10. Subscribed' /\ PushComplete'
  BY <1>1, <1>2, <1>8, <1>9 DEF Subscribed, PushComplete, OnItsWay, ListChannelMessages
<1> QED
  BY <1>1, <1>2, <1>3, <1>4, <1>5, <1>7, <1>10

-----------------------------------------------------------------------------
(***************************************************************************)
(* The page.                                                               *)
(***************************************************************************)
LEMMA NavigateInv == ASSUME IInv, NEW c \in Channels \cup {None}, Navigate(c) PROVE IInv'
<1> USE DEF IInv, TypeOK
<1>1. /\ UNCHANGED <<rows, hub, running, posts, messages, busy, waitingReply, pendingAgentSeq, faults>>
      /\ channelId' = c
      /\ ws' = NoSocket \/ ws' = [NoSocket EXCEPT !.at = "opening"]
  BY DEF Navigate
<1>2. Seqs' = Seqs /\ RowsType' /\ Len(rows) \in Nat
  BY <1>1, RowsKept DEF RowsType
<1>3. ServerType' /\ PostsType' /\ PostsPlaced' /\ PageType' /\ ShownOnce' /\ BusyWaits'
  BY <1>1, <1>2 DEF ServerType, PostsType, PostsPlaced, PageType, ShownOnce, BusyWaits, AgentSeqs
<1>4. FetchesType'
  <2>1. CASE UNCHANGED fetches
    BY <1>1, <2>1 DEF FetchesType
  <2>2. CASE ~UNCHANGED fetches
    <3>1. c \in Channels /\ fetches' = [fetches EXCEPT ![c]["load"] = [at |-> "asked", upto |-> 0]]
      BY <2>2 DEF Navigate
    <3> QED
      BY <1>1, <1>2, <3>1 DEF FetchesType, Fetchers
  <2> QED
    BY <2>1, <2>2
<1>5. SocketType' /\ ws'.at \in {"none", "opening"}
  <2>1. {} \in SUBSET Seqs /\ 0 \in 0 .. Len(rows)
    BY <1>2
  <2>2. ws' = NoSocket => SocketType' /\ ws'.at = "none"
    BY <1>1, <1>2, <2>1 DEF SocketType, NoSocket
  <2>3. ws' = [NoSocket EXCEPT !.at = "opening"] => SocketType' /\ ws'.at = "opening"
    BY <1>1, <1>2, <2>1 DEF SocketType, NoSocket
  <2> QED
    BY <1>1, <2>2, <2>3
<1>6. Subscribed' /\ PushComplete'
  BY <1>5 DEF Subscribed, PushComplete
<1> QED
  BY <1>1, <1>2, <1>3, <1>4, <1>5, <1>6

(* Asking, answering and failing to answer.                                *)
LEMMA FetchInv ==
  ASSUME IInv, \/ Poll
               \/ \E c \in Channels, h \in Fetchers : Answer(c, h)
               \/ \E c \in Channels : LoadFails(c) \/ ReplaceFails(c)
  PROVE  IInv'
<1> USE DEF IInv, TypeOK
<1>1. UNCHANGED <<rows, hub, running, posts, channelId, busy, waitingReply, pendingAgentSeq, ws>>
  BY DEF Poll, Answer, LoadFails, ReplaceFails, pageVars
<1>2. Seqs' = Seqs /\ Len(rows) \in Nat /\ faults' \in 0 .. MaxFaults
  BY <1>1, RowsKept, PageAssumption DEF RowsType, Poll, Answer, LoadFails, ReplaceFails, Fault
<1>3. FetchesType'
  <2>1. ASSUME Poll PROVE FetchesType'
    <3>1. channelId \in Channels /\ fetches' = [fetches EXCEPT ![channelId]["load"].at = "asked"]
      BY <2>1 DEF Poll, Ask, PageType
    <3>2. [fetches[channelId]["load"] EXCEPT !.at = "asked"] \in
            [at : {"none", "asked", "answered"}, upto : 0 .. Len(rows)]
      BY <3>1 DEF FetchesType, Fetchers
    <3> QED
      BY <1>1, <3>1, <3>2 DEF FetchesType, Fetchers
  <2>2. ASSUME NEW c \in Channels, NEW h \in Fetchers, Answer(c, h) PROVE FetchesType'
    <3>1. [at |-> "answered", upto |-> Len(rows)] \in [at : {"none", "asked", "answered"}, upto : 0 .. Len(rows)]
      BY <1>2
    <3> QED
      BY <1>1, <2>2, <3>1 DEF Answer, FetchesType
  <2>3. ASSUME NEW c \in Channels, LoadFails(c) \/ ReplaceFails(c) PROVE FetchesType'
    <3>1. NoFetch \in [at : {"none", "asked", "answered"}, upto : 0 .. Len(rows)]
      BY <1>2 DEF NoFetch
    <3>2. PICK h \in Fetchers : fetches' = [fetches EXCEPT ![c][h] = NoFetch]
      BY <2>3 DEF LoadFails, ReplaceFails, Fetchers
    <3> QED
      BY <1>1, <3>1, <3>2 DEF FetchesType
  <2> QED
    BY <2>1, <2>2, <2>3
<1>4. messages' \in {messages, [m \in DOMAIN messages |-> 0]}
  BY DEF Poll, Answer, LoadFails, ReplaceFails, pageVars
<1>5. PageType' /\ ShownOnce' /\ BusyWaits'
  <2>1. messages' \in [1 .. MaxMessages -> Nat] /\ ShownOnce'
    <3>1. ASSUME messages' = [m \in DOMAIN messages |-> 0] PROVE messages' \in [1 .. MaxMessages -> Nat] /\ ShownOnce'
      BY <3>1 DEF PageType, ShownOnce
    <3>2. ASSUME messages' = messages PROVE messages' \in [1 .. MaxMessages -> Nat] /\ ShownOnce'
      BY <1>2, <3>2 DEF PageType, ShownOnce
    <3> QED
      BY <1>4, <3>1, <3>2
  <2> QED
    BY <1>1, <1>2, <2>1 DEF PageType, BusyWaits, AgentSeqs
<1>6. ServerType' /\ PostsType' /\ PostsPlaced'
  BY <1>1, <1>2 DEF ServerType, PostsType, PostsPlaced
<1> QED
  BY <1>1, <1>2, <1>3, <1>5, <1>6, PageInv DEF ServerType

(* An answer arrives: the page shows the list, with or without what it     *)
(* showed before.                                                          *)
LEMMA ArriveInv == ASSUME IInv, NEW c \in Channels, Load(c) \/ Replace(c) PROVE IInv'
<1> USE DEF IInv, TypeOK
<1>1. UNCHANGED <<rows, hub, running, posts, channelId, pendingAgentSeq, ws, faults>>
  BY DEF Load, Replace
<1>2. Seqs' = Seqs /\ Len(rows) \in Nat
  BY <1>1, RowsKept DEF RowsType
<1>3. PICK h \in Fetchers, S \in SUBSET Seqs :
        /\ fetches' = [fetches EXCEPT ![c][h] = NoFetch]
        /\ messages' = [m \in DOMAIN messages |-> IF m \in S THEN 1 ELSE 0]
  <2>1. Shown \subseteq Seqs
    BY DEF Shown, ShownOnce, PageType
  <2>2. List(c, "load") \subseteq Seqs /\ List(c, "after") \subseteq Seqs
    BY ListStored DEF List
  <2> QED
    BY <2>1, <2>2 DEF Load, Replace, Received, Fetchers
<1>4. FetchesType'
  <2>1. NoFetch \in [at : {"none", "asked", "answered"}, upto : 0 .. Len(rows)]
    BY <1>2 DEF NoFetch
  <2> QED
    BY <1>1, <1>3, <2>1 DEF FetchesType
<1>5. messages' \in [1 .. MaxMessages -> Nat] /\ ShownOnce'
  BY <1>2, <1>3 DEF PageType, ShownOnce
<1>6. busy' \in BOOLEAN /\ waitingReply' \in BOOLEAN /\ BusyWaits'
  <2>1. (busy' = FALSE /\ waitingReply' = FALSE) \/ (busy' = busy /\ waitingReply' = waitingReply)
    BY DEF Load, Replace
  <2>2. busy \in BOOLEAN /\ waitingReply \in BOOLEAN /\ (busy => waitingReply)
    BY DEF PageType, BusyWaits
  <2>3. CASE busy' = FALSE /\ waitingReply' = FALSE
    BY <2>3 DEF BusyWaits
  <2>4. CASE busy' = busy /\ waitingReply' = waitingReply
    BY <2>2, <2>4, Zenon DEF BusyWaits
  <2> QED
    BY <2>1, <2>3, <2>4
<1>7. PageType'
  BY <1>1, <1>2, <1>5, <1>6 DEF PageType, AgentSeqs
<1>8. PostsType' /\ PostsPlaced' /\ running' \in [Channels -> Nat] /\ faults' \in 0 .. MaxFaults
  BY <1>1, <1>2 DEF ServerType, PostsType, PostsPlaced
<1> QED
  BY <1>1, <1>4, <1>5, <1>6, <1>7, <1>8, PageInv

(* The reader posts, and the rest of the handler runs.                     *)
LEMMA SendInv ==
  ASSUME IInv, NEW p \in Posts,
         SendResumes(p) \/ \E retry, hasAgent \in BOOLEAN : Send(p, retry, hasAgent)
  PROVE  IInv'
<1> USE DEF IInv, TypeOK
<1>1. UNCHANGED <<rows, hub, running, channelId, messages, ws, faults>>
  BY DEF Send, SendResumes
<1>2. Seqs' = Seqs /\ Len(rows) \in Nat
  BY <1>1, RowsKept DEF RowsType
<1>3. ASSUME NEW retry \in BOOLEAN, NEW hasAgent \in BOOLEAN, Send(p, retry, hasAgent) PROVE IInv'
  <2>1. channelId \in Channels
    BY <1>3 DEF Send, PageType
  <2>2. PostsType' /\ PostsPlaced'
    BY <1>2, <1>3, <2>1 DEF Send, PostsType, PostsPlaced
  <2>3. Shown \subseteq Seqs
    BY DEF Shown, ShownOnce, PageType
  <2>4. pendingAgentSeq' \in {0} \cup AgentSeqs(Seqs)
    BY <1>3, <2>3 DEF Send, AgentSeqs, PageType
  <2>5. busy' \in BOOLEAN /\ waitingReply' \in BOOLEAN /\ BusyWaits'
    BY <1>3 DEF Send, PageType, BusyWaits
  <2>6. PageType' /\ ShownOnce'
    BY <1>1, <1>2, <2>4, <2>5 DEF PageType, ShownOnce, AgentSeqs
  <2>7. FetchesType' /\ running' \in [Channels -> Nat] /\ faults' \in 0 .. MaxFaults
    BY <1>1, <1>3 DEF Send, FetchesType, ServerType
  <2> QED
    BY <1>1, <2>2, <2>5, <2>6, <2>7, PageInv
<1>4. ASSUME SendResumes(p) PROVE IInv'
  <2>1. PostsType' /\ PostsPlaced'
    BY <1>2, <1>4 DEF SendResumes, PostsType, PostsPlaced, NoPost
  <2>2. busy' \in BOOLEAN /\ waitingReply' \in BOOLEAN /\ BusyWaits'
    <3>1. posts[p].hasAgent \in BOOLEAN /\ posts[p].retry \in BOOLEAN
      BY DEF PostsType
    <3>2. busy \in BOOLEAN /\ waitingReply \in BOOLEAN
      BY DEF PageType
    <3>3. /\ waitingReply' = (waitingReply /\ ~(posts[p].at = "failed" /\ ~posts[p].retry))
          /\ busy' = (busy /\ ~(posts[p].at = "failed" /\ ~posts[p].retry) /\ posts[p].hasAgent)
      BY <1>4 DEF SendResumes
    <3> QED
      BY <3>1, <3>2, <3>3 DEF BusyWaits
  <2>3. pendingAgentSeq' = pendingAgentSeq
    BY <1>4 DEF SendResumes
  <2>4. PageType' /\ ShownOnce'
    BY <1>1, <1>2, <2>2, <2>3 DEF PageType, ShownOnce, AgentSeqs
  <2>5. FetchesType'
    <3>1. CASE UNCHANGED fetches
      BY <1>1, <3>1 DEF FetchesType
    <3>2. CASE ~UNCHANGED fetches
      <4>1. posts[p].chan \in Channels /\ fetches' = [fetches EXCEPT ![posts[p].chan]["after"].at = "asked"]
        BY <1>4, <3>2 DEF SendResumes, Ask, PostsPlaced
      <4>2. [fetches[posts[p].chan]["after"] EXCEPT !.at = "asked"] \in
              [at : {"none", "asked", "answered"}, upto : 0 .. Len(rows)]
        BY ZenonT(30), <4>1 DEF FetchesType, Fetchers
      <4> QED
        BY <1>1, <4>1, <4>2 DEF FetchesType, Fetchers
    <3> QED
      BY <3>1, <3>2
  <2> QED
    BY <1>1, <2>1, <2>2, <2>4, <2>5, PageInv DEF ServerType
<1> QED
  BY <1>3, <1>4

-----------------------------------------------------------------------------
(* Every step keeps the invariant.                                         *)
LEMMA NextInv == IInv /\ [Next]_vars => IInv'
<1> SUFFICES ASSUME IInv, [Next]_vars PROVE IInv'
  OBVIOUS
<1>1. CASE Requests \/ Authors
  BY <1>1, ServiceInv, StoreInv DEF Requests, Authors
<1>2. CASE Socket
  BY <1>2, SocketInv
<1>3. CASE Pushes
  BY <1>3, PublishInv, OnMessageInv DEF Pushes
<1>4. CASE Arrivals
  BY <1>4, ArriveInv, FetchInv DEF Arrivals
<1>5. CASE Reader \/ \E p \in Posts : SendResumes(p)
  BY <1>5, NavigateInv, SendInv DEF Reader
<1>6. CASE Poll \/ \E c \in Channels, h \in Fetchers : Answer(c, h)
  BY <1>6, FetchInv
<1>7. CASE UNCHANGED vars
  <2>1. UNCHANGED <<rows, hub, running, posts, channelId, messages, busy, waitingReply, pendingAgentSeq,
                    fetches, ws, faults>>
    BY <1>7 DEF vars, pageVars
  <2> QED
    BY <2>1, PageInv DEF IInv, TypeOK, ServerType, PostsType, PostsPlaced, FetchesType, PageType,
       ShownOnce, BusyWaits, Seqs, AgentSeqs
<1> QED
  BY <1>1, <1>2, <1>3, <1>4, <1>5, <1>6, <1>7 DEF Next

(* The variables keep their types, and what the page waits after is always *)
(* a message of an agent.                                                  *)
THEOREM TypeCorrect == Spec => []TypeOK
<1>1. IInv => TypeOK
  BY DEF IInv
<1> QED
  BY InitInv, NextInv, <1>1, PTL DEF Spec

(* Replay, push, poll and the fetch after a post (page.tsx:243-284,        *)
(* 338-386) never put a message on the page twice.                         *)
THEOREM ShownOnceCorrect == Spec => []ShownOnce
<1>1. IInv => ShownOnce
  BY DEF IInv
<1> QED
  BY InitInv, NextInv, <1>1, PTL DEF Spec

(* A disabled send button means that a reply is waited for.                *)
THEOREM BusyWaitsCorrect == Spec => []BusyWaits
<1>1. IInv => BusyWaits
  BY DEF IInv
<1> QED
  BY InitInv, NextInv, <1>1, PTL DEF Spec

(* channelEventsWS subscribes before it replays, so a socket that is live  *)
(* and kept up misses no message of either.                                *)
THEOREM PushCorrect == Spec => []PushComplete
<1>1. IInv => PushComplete
  BY DEF IInv
<1> QED
  BY InitInv, NextInv, <1>1, PTL DEF Spec

-----------------------------------------------------------------------------
(***************************************************************************)
(* Every step of the page is a step of the feed, or changes nothing of it. *)
(***************************************************************************)
View == IF channelId = None THEN {} ELSE Shown \cap Of(channelId)
Stored == [c \in Channels |-> Of(c)]

(* A step stores one message, or none.                                     *)
LEMMA StoresOne ==
  ASSUME IInv, [Next]_vars
  PROVE  \/ UNCHANGED rows
         \/ /\ \E c \in Channels, author \in {"other", "agent"} : AppendMessage(c, author)
            /\ UNCHANGED <<messages, channelId>>
<1>1. ASSUME NEW p \in Posts, PostAppends(p)
      PROVE  AppendMessage(posts[p].chan, "other") /\ posts[p].chan \in Channels /\ UNCHANGED pageVars
  BY <1>1 DEF PostAppends, IInv, PostsPlaced
<1>2. ASSUME NEW c \in Channels, OtherAppends(c) \/ AgentReplies(c)
      PROVE  UNCHANGED pageVars /\ \E author \in {"other", "agent"} : AppendMessage(c, author)
  BY <1>2 DEF OtherAppends, AgentReplies
<1>3. CASE Requests \/ Authors
  BY <1>1, <1>2, <1>3 DEF Requests, Authors, PostReturns, PostFails, ReplyLost, pageVars
<1>4. CASE Socket \/ Pushes \/ Arrivals \/ Reader \/ Poll
  BY <1>4 DEF Socket, Subscribe, Replay, SocketLost, Pushes, Publish, OnMessage, Arrivals, Load,
     LoadFails, Replace, ReplaceFails, Reader, Navigate, Send, Poll
<1>5. CASE (\E p \in Posts : SendResumes(p)) \/ \E c \in Channels, h \in Fetchers : Answer(c, h)
  BY <1>5 DEF SendResumes, Answer
<1>6. CASE UNCHANGED vars
  BY <1>6 DEF vars
<1> QED
  BY <1>3, <1>4, <1>5, <1>6 DEF Next

LEMMA StoreMaps ==
  ASSUME IInv, NEW c \in Channels, NEW author \in {"other", "agent"}, AppendMessage(c, author),
         UNCHANGED <<messages, channelId>>
  PROVE  Feed!Store(c)
<1>1. RowsType /\ ShownOnce /\ messages \in [1 .. MaxMessages -> Nat]
  BY DEF IInv, TypeOK, PageType
<1>2. /\ Len(rows) \in Nat /\ Seqs' = Seqs \cup {Len(rows) + 1} /\ Seqs = 1 .. Len(rows)
      /\ \A m \in Seqs : rows'[m] = rows[m]
      /\ rows'[Len(rows) + 1] = [chan |-> c, author |-> author]
  BY <1>1, Appended
<1>3. Of(c)' = Of(c) \cup {Len(rows) + 1} /\ Len(rows) + 1 \in Of(c)'
  BY <1>2 DEF Of
<1>4. \A d \in Channels \ {c} : Of(d)' = Of(d)
  BY <1>2 DEF Of
<1>5. Stored' = [Stored EXCEPT ![c] = @ \cup {Len(rows) + 1}]
  BY <1>3, <1>4 DEF Stored
<1>6. \A d \in Channels : \A k \in Stored[d] : k < Len(rows) + 1
  BY <1>2 DEF Stored, Of
<1>7. Len(rows) + 1 \notin Shown /\ Shown' = Shown
  BY <1>1, <1>2 DEF Shown, ShownOnce
<1>8. \A d : Shown' \cap Of(d)' = Shown \cap Of(d)
  BY <1>2, <1>7 DEF Of
<1>9. View' = View
  BY <1>8 DEF View
<1>10. Len(rows) + 1 \in Stored'[c]
  BY <1>3 DEF Stored
<1> QED
  BY <1>5, <1>6, <1>9, <1>10 DEF Feed!Store, Stored, View

(* The steps that store nothing browse, or change what is shown, or leave  *)
(* the list of channels as it is.                                          *)
LEMMA ShowMaps ==
  ASSUME IInv, IInv', UNCHANGED rows
  PROVE  Feed!Browse \/ Feed!Show \/ UNCHANGED Feed!vars
<1>1. Stored' = Stored /\ \A c : Of(c)' = Of(c)
  BY RowsKept DEF Stored
<1>2. channelId' \in Channels \cup {None} /\ channelId \in Channels \cup {None}
  BY DEF IInv, TypeOK, PageType
<1>3. View' \subseteq (IF channelId' = None THEN {} ELSE Stored[channelId'])
  BY <1>1, <1>2, PageAssumption DEF View, Stored
<1> QED
  BY <1>1, <1>2, <1>3 DEF Feed!Browse, Feed!Show, Feed!vars, Stored, View

(* What holds of any order of the page's fetches, pushed messages and      *)
(* posts: the open channel shows stored messages only, and storing a       *)
(* message is never what takes one off the page.                           *)
THEOREM FeedImplemented == Spec => Feed!Init /\ [][Feed!Next]_(Feed!vars)
<1>1. Init => Feed!Init
  BY DEF Init, Feed!Init, Of, Seqs
<1>2. IInv /\ IInv' /\ [Next]_vars => [Feed!Next]_(Feed!vars)
  BY StoresOne, StoreMaps, ShowMaps DEF Feed!Next
<1> QED
  BY InitInv, NextInv, <1>1, <1>2, PTL DEF Spec
=============================================================================
