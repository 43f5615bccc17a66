----------------------------- MODULE ChannelPage -----------------------------
(***************************************************************************)
(* The channel page of the console (app/sessions/page.tsx) against the     *)
(* chat service (internal/server/chat.go).  A message reaches the page by  *)
(* three ways that race: the answer of a fetch, the replay of the channel's *)
(* socket, and the messages the hub pushes into it.  An answer is the list *)
(* as it was when the server read it, and is applied whenever it arrives:  *)
(* the poll merges it into the page, a post of the reader replaces the     *)
(* page by it.                                                             *)
(*                                                                         *)
(* A message is its sequence number.  The members of a channel are left    *)
(* out: whether the page believes there is an agent, and whether the       *)
(* server finds one, may be anything, for the page's list may be stale.    *)
(* Order on the page, notifications and drafts are left out.               *)
(***************************************************************************)
EXTENDS Naturals, Sequences, FiniteSets

CONSTANTS
  Channels,
  Posts,         \* the posts the page may have under way at a time
  ListLimit,     \* messages the list endpoint serves (200 in the code)
  ReplayLimit,   \* messages a new socket is given (50)
  HubBuffer,     \* capacity of a subscriber's channel (64)
  MaxMessages,   \* bound: messages stored
  MaxFetches,    \* bound: lists under way at a time
  MaxFaults,     \* bound: failed requests and lost sockets
  None

VARIABLES
  rows,       \* channel_messages in order of seq: channel and author
  hub,        \* messages stored and not yet published
  running,    \* per channel, the goroutines in runAgentReply
  posts,      \* POST /messages: where each is, and what its caller knows
  channelId,  \* the channel in the URL, or None for the list of channels
  messages,   \* how many times a message is on the page
  busy,       \* "agent is working": sending is disabled
  waitingReply, pendingAgentSeq,  \* the refs of the same name
  fetches,    \* GET /messages of each closure: asked, or answered with the
              \* list as of row number upto
  ws,         \* the socket of the page and its subscription in the hub
  faults

pageVars == <<channelId, messages, busy, waitingReply, pendingAgentSeq>>
vars == <<rows, hub, running, posts, pageVars, fetches, ws, faults>>

ASSUME PageAssumption ==
  /\ None \notin Channels
  /\ ListLimit \in Nat /\ ReplayLimit \in Nat /\ HubBuffer \in Nat
  /\ MaxMessages \in Nat /\ MaxFaults \in Nat

Seqs == DOMAIN rows
Of(c) == {m \in Seqs : rows[m].chan = c}
(* ListChannelMessages: the OLDEST limit messages of the channel, as they  *)
(* were when upto was the last one stored.                                 *)
ListChannelMessages(c, limit, upto) ==
  {m \in Of(c) : m <= upto /\ Cardinality({k \in Of(c) : k <= m}) <= limit}

Shown == {m \in DOMAIN messages : messages[m] > 0}
AgentSeqs(S) == {m \in S : rows[m].author = "agent"}

NoPost == [at |-> "none", chan |-> None, seq |-> 0, hasAgent |-> FALSE, retry |-> FALSE]
NoFetch == [at |-> "none", upto |-> 0]
(* how: "load" merges, "after" replaces (it follows a post).               *)
Fetchers == {"load", "after"}
NoSocket == [at |-> "none", since |-> 0, sent |-> {}, got |-> {}, lost |-> FALSE]

Init ==
  /\ rows = <<>> /\ hub = {} /\ running = [c \in Channels |-> 0]
  /\ posts = [p \in Posts |-> NoPost]
  /\ channelId = None /\ messages = [m \in 1 .. MaxMessages |-> 0]
  /\ busy = FALSE /\ waitingReply = FALSE /\ pendingAgentSeq = 0
  /\ fetches = [c \in Channels |-> [h \in Fetchers |-> NoFetch]]
  /\ ws = NoSocket
  /\ faults = 0

Fault == faults < MaxFaults /\ faults' = faults + 1

-----------------------------------------------------------------------------
(***************************************************************************)
(* The chat service.                                                       *)
(***************************************************************************)
(* AppendChannelMessage; the handler publishes in a step of its own.       *)
AppendMessage(c, author) ==
  /\ Len(rows) < MaxMessages
  /\ rows' = Append(rows, [chan |-> c, author |-> author])
  /\ hub' = hub \cup {Len(rows) + 1}

(* The slip: the hub knows a subscriber only once it has been replayed to. *)
PublishToLive(m) ==
  /\ m \in hub
  /\ hub' = hub \ {m}
  /\ IF ws.at = "live" /\ rows[m].chan = channelId
       THEN ws' = [ws EXCEPT !.sent = @ \cup {m}]
       ELSE UNCHANGED ws
  /\ UNCHANGED <<rows, running, posts, pageVars, fetches, faults>>

(* publish: a subscriber whose channel is full does not get the message.   *)
(* What is sent may be in that channel or on its way to the page.          *)
Publish(m) ==
  /\ m \in hub
  /\ hub' = hub \ {m}
  /\ IF ws.at \in {"subscribed", "live"} /\ rows[m].chan = channelId
       THEN \/ ws' = [ws EXCEPT !.sent = @ \cup {m}]
            \/ Cardinality(ws.sent) >= HubBuffer /\ ws' = [ws EXCEPT !.lost = TRUE]
       ELSE UNCHANGED ws
  /\ UNCHANGED <<rows, running, posts, pageVars, fetches, faults>>

(* The relay of a run or of a work item posts, or somebody else does.       *)
OtherAppends(c) ==
  /\ AppendMessage(c, "other")
  /\ UNCHANGED <<running, posts, pageVars, fetches, ws, faults>>

(* postMessage up to its AppendChannelMessage.                             *)
PostAppends(p) ==
  /\ posts[p].at = "sent"
  /\ AppendMessage(posts[p].chan, "other")
  /\ posts' = [posts EXCEPT ![p].at = "stored", ![p].seq = Len(rows) + 1]
  /\ UNCHANGED <<running, pageVars, fetches, ws, faults>>

(* Then routeAgent finds an agent, or finds none.                          *)
PostReturns(p) ==
  /\ posts[p].at = "stored"
  /\ posts[p].seq \notin hub
  /\ \E agent \in {0, 1} : running' = [running EXCEPT ![posts[p].chan] = @ + agent]
  /\ posts' = [posts EXCEPT ![p].at = "ok"]
  /\ UNCHANGED <<rows, hub, pageVars, fetches, ws, faults>>

(* The request is lost, or the list of members fails after the message has *)
(* been stored and published.                                              *)
PostFails(p) ==
  /\ \/ posts[p].at = "sent"
     \/ posts[p].at = "stored" /\ posts[p].seq \notin hub
  /\ posts' = [posts EXCEPT ![p].at = "failed"]
  /\ Fault
  /\ UNCHANGED <<rows, hub, running, pageVars, fetches, ws>>

(* runAgentReply ends: the reply, or the text of the error, is stored.     *)
AgentReplies(c) ==
  /\ running[c] > 0
  /\ running' = [running EXCEPT ![c] = @ - 1]
  /\ AppendMessage(c, "agent")
  /\ UNCHANGED <<posts, pageVars, fetches, ws, faults>>

ReplyLost(c) ==
  /\ running[c] > 0
  /\ running' = [running EXCEPT ![c] = @ - 1]
  /\ Fault
  /\ UNCHANGED <<rows, hub, posts, pageVars, fetches, ws>>

(* GET /messages reads the table.                                          *)
Answer(c, h) ==
  /\ fetches[c][h].at = "asked"
  /\ fetches' = [fetches EXCEPT ![c][h] = [at |-> "answered", upto |-> Len(rows)]]
  /\ UNCHANGED <<rows, hub, running, posts, pageVars, ws, faults>>

(***************************************************************************)
(* channelEventsWS: it subscribes, then replays, then forwards.            *)
(***************************************************************************)
Subscribe ==
  /\ ws.at = "opening"
  /\ ws' = [ws EXCEPT !.at = "subscribed", !.since = Len(rows)]
  /\ UNCHANGED <<rows, hub, running, posts, pageVars, fetches, faults>>

Replay ==
  /\ ws.at = "subscribed"
  /\ ws' = [ws EXCEPT !.at = "live",
                      !.sent = @ \cup ListChannelMessages(channelId, ReplayLimit, Len(rows))]
  /\ UNCHANGED <<rows, hub, running, posts, pageVars, fetches, faults>>

(* The socket is lost; the page opens no other.                            *)
SocketLost ==
  /\ ws.at # "none"
  /\ ws' = NoSocket
  /\ Fault
  /\ UNCHANGED <<rows, hub, running, posts, pageVars, fetches>>

-----------------------------------------------------------------------------
(***************************************************************************)
(* The page.                                                               *)
(***************************************************************************)
RoomToFetch ==
  Cardinality({x \in Channels \X Fetchers : fetches[x[1]][x[2]].at # "none"}) < MaxFetches

Ask(c, h) ==
  /\ fetches[c][h].at = "none" /\ RoomToFetch
  /\ fetches' = [fetches EXCEPT ![c][h].at = "asked"]

(* The route changes: the effect of the old channel closes its socket and  *)
(* timer, and the one of the new loads and opens a socket.  The component  *)
(* stays mounted, so messages, busy and the refs stay, and so do the       *)
(* requests that are out.  (A load that is out for that channel is joined.) *)
Navigate(c) ==
  /\ c # channelId
  /\ channelId' = c
  /\ ws' = IF c = None THEN NoSocket ELSE [NoSocket EXCEPT !.at = "opening"]
  /\ IF c = None \/ ~RoomToFetch THEN UNCHANGED fetches
     ELSE fetches' = [fetches EXCEPT ![c]["load"] = [at |-> "asked", upto |-> 0]]
  /\ UNCHANGED <<rows, hub, running, posts, messages, busy, waitingReply, pendingAgentSeq, faults>>

(* The slip: the page polls only while it has no socket.                   *)
PollOffline ==
  /\ channelId # None /\ ws.at = "none"
  /\ Ask(channelId, "load")
  /\ UNCHANGED <<rows, hub, running, posts, pageVars, ws, faults>>

(* The timer of the effect, every 15 seconds.                              *)
Poll ==
  /\ channelId # None
  /\ Ask(channelId, "load")
  /\ UNCHANGED <<rows, hub, running, posts, pageVars, ws, faults>>

Received(c, h) ==
  /\ fetches[c][h].at = "answered"
  /\ fetches' = [fetches EXCEPT ![c][h] = NoFetch]

List(c, h) == ListChannelMessages(c, ListLimit, fetches[c][h].upto)

(* The slip: the end of waiting forgets the send button.                   *)
LoadKeepsBusy(c) ==
  /\ Received(c, "load")
  /\ messages' = [m \in DOMAIN messages |-> IF m \in Shown \cup List(c, "load") THEN 1 ELSE 0]
  /\ waitingReply' = (waitingReply /\ \A m \in AgentSeqs(List(c, "load")) : m <= pendingAgentSeq)
  /\ UNCHANGED <<rows, hub, running, posts, channelId, busy, pendingAgentSeq, ws, faults>>

(* The slip: only messages that are new to the page end the waiting.       *)
LoadIgnoresShown(c) ==
  /\ Received(c, "load")
  /\ messages' = [m \in DOMAIN messages |-> IF m \in Shown \cup List(c, "load") THEN 1 ELSE 0]
  /\ IF waitingReply /\ \E m \in AgentSeqs(List(c, "load") \ Shown) : m > pendingAgentSeq
       THEN busy' = FALSE /\ waitingReply' = FALSE
       ELSE UNCHANGED <<busy, waitingReply>>
  /\ UNCHANGED <<rows, hub, running, posts, channelId, pendingAgentSeq, ws, faults>>

(* The answer of a load is merged by id, whichever channel is open by now. *)
Load(c) ==
  /\ Received(c, "load")
  /\ messages' = [m \in DOMAIN messages |-> IF m \in Shown \cup List(c, "load") THEN 1 ELSE 0]
  /\ IF waitingReply /\ \E m \in AgentSeqs(List(c, "load")) : m > pendingAgentSeq
       THEN busy' = FALSE /\ waitingReply' = FALSE
       ELSE UNCHANGED <<busy, waitingReply>>
  /\ UNCHANGED <<rows, hub, running, posts, channelId, pendingAgentSeq, ws, faults>>

(* .catch(() => setMessages([])) *)
LoadFails(c) ==
  /\ fetches[c]["load"].at = "asked"
  /\ fetches' = [fetches EXCEPT ![c]["load"] = NoFetch]
  /\ messages' = [m \in DOMAIN messages |-> 0]
  /\ Fault
  /\ UNCHANGED <<rows, hub, running, posts, channelId, busy, waitingReply, pendingAgentSeq, ws>>

(* The fetch after a post replaces what the page shows.                    *)
Replace(c) ==
  /\ Received(c, "after")
  /\ messages' = [m \in DOMAIN messages |-> IF m \in List(c, "after") THEN 1 ELSE 0]
  /\ UNCHANGED <<rows, hub, running, posts, channelId, busy, waitingReply, pendingAgentSeq, ws, faults>>

ReplaceFails(c) ==
  /\ fetches[c]["after"].at = "asked"
  /\ fetches' = [fetches EXCEPT ![c]["after"] = NoFetch]
  /\ Fault
  /\ UNCHANGED <<rows, hub, running, posts, pageVars, ws>>

(* The slip: a pushed message is appended whether it is there or not.      *)
OnMessageAppends(m) ==
  /\ m \in ws.sent
  /\ ws' = [ws EXCEPT !.sent = @ \ {m}, !.got = @ \cup {m}]
  /\ messages' = [messages EXCEPT ![m] = @ + 1]
  /\ UNCHANGED <<rows, hub, running, posts, channelId, busy, waitingReply, pendingAgentSeq, fetches, faults>>

(* ws.onmessage *)
OnMessage(m) ==
  /\ m \in ws.sent
  /\ ws' = [ws EXCEPT !.sent = @ \ {m}, !.got = @ \cup {m}]
  /\ messages' = [messages EXCEPT ![m] = IF @ > 0 THEN @ ELSE 1]
  /\ UNCHANGED <<rows, hub, running, posts, channelId, busy, waitingReply, pendingAgentSeq, fetches, faults>>

(* send, and the retry button of a failed reply (retryTask).               *)
Send(p, retry, hasAgent) ==
  /\ channelId # None /\ ~busy /\ posts[p].at = "none"
  /\ retry => AgentSeqs(Shown) # {}
  /\ posts' = [posts EXCEPT ![p] = [at |-> "sent", chan |-> channelId, seq |-> 0,
                                    hasAgent |-> hasAgent, retry |-> retry]]
  /\ IF hasAgent
       THEN /\ busy' = TRUE /\ waitingReply' = TRUE
            /\ pendingAgentSeq' \in {0} \cup AgentSeqs(Shown)
            /\ \A m \in AgentSeqs(Shown) : m <= pendingAgentSeq'
       ELSE UNCHANGED <<busy, waitingReply, pendingAgentSeq>>
  /\ UNCHANGED <<rows, hub, running, channelId, messages, fetches, ws, faults>>

(* The rest of send or retryTask, after its await.  A retry that failed    *)
(* has no catch: busy and waitingReply stay.                               *)
SendResumes(p) ==
  /\ posts[p].at \in {"ok", "failed"}
  /\ posts' = [posts EXCEPT ![p] = NoPost]
  /\ IF posts[p].at = "ok" THEN Ask(posts[p].chan, "after") ELSE UNCHANGED fetches
  /\ LET caught == posts[p].at = "failed" /\ ~posts[p].retry
     IN /\ waitingReply' = (waitingReply /\ ~caught)
        /\ busy' = (busy /\ ~caught /\ posts[p].hasAgent)
  /\ UNCHANGED <<rows, hub, running, channelId, messages, pendingAgentSeq, ws, faults>>

Requests == \E p \in Posts : PostAppends(p) \/ PostReturns(p) \/ PostFails(p)
Authors == \E c \in Channels : OtherAppends(c) \/ AgentReplies(c) \/ ReplyLost(c)
Socket == Subscribe \/ Replay \/ SocketLost
Pushes == \E m \in Seqs : Publish(m) \/ OnMessage(m)
Arrivals == \E c \in Channels : Load(c) \/ LoadFails(c) \/ Replace(c) \/ ReplaceFails(c)
Reader == \/ \E c \in Channels \cup {None} : Navigate(c)
          \/ \E p \in Posts, retry, hasAgent \in BOOLEAN : Send(p, retry, hasAgent)

Next ==
  \/ Requests \/ Authors \/ Socket \/ Pushes \/ Arrivals \/ Reader \/ Poll
  \/ \E c \in Channels, h \in Fetchers : Answer(c, h)
  \/ \E p \in Posts : SendResumes(p)

Spec == Init /\ [][Next]_vars

(* The timer goes on while the channel is open, and every request is      *)
(* answered or fails.  Nothing is assumed of the reader, of the socket or  *)
(* of the agents.                                                          *)
FairSpec ==
  /\ Spec /\ WF_vars(Poll)
  /\ \A c \in Channels : WF_vars(Load(c)) /\ WF_vars(Replace(c))
  /\ \A c \in Channels, h \in Fetchers : WF_vars(Answer(c, h))

-----------------------------------------------------------------------------
RowsType == rows \in Seq([chan : Channels, author : {"other", "agent"}])
ServerType == Len(rows) <= MaxMessages /\ hub \subseteq Seqs /\ running \in [Channels -> Nat]
PostsType ==
  posts \in [Posts -> [at : {"none", "sent", "stored", "ok", "failed"}, chan : Channels \cup {None},
                      seq : Seqs \cup {0}, hasAgent : BOOLEAN, retry : BOOLEAN]]
PageType ==
  /\ channelId \in Channels \cup {None} /\ messages \in [1 .. MaxMessages -> Nat]
  /\ busy \in BOOLEAN /\ waitingReply \in BOOLEAN
  /\ pendingAgentSeq \in {0} \cup AgentSeqs(Seqs)
FetchesType ==
  fetches \in [Channels -> [Fetchers -> [at : {"none", "asked", "answered"}, upto : 0 .. Len(rows)]]]
SocketType ==
  ws \in [at : {"none", "opening", "subscribed", "live"}, since : 0 .. Len(rows),
         sent : SUBSET Seqs, got : SUBSET Seqs, lost : BOOLEAN]

(* The variables have the values the code can give them; what the page     *)
(* waits after is a message of an agent.                                   *)
TypeOK ==
  /\ RowsType /\ ServerType /\ PostsType /\ PageType /\ FetchesType /\ SocketType
  /\ faults \in 0 .. MaxFaults

(* However replay, push, poll and the fetch after a post interleave, no    *)
(* message is on the page twice, and only stored ones are.                 *)
ShownOnce == \A m \in DOMAIN messages : messages[m] <= (IF m \in Seqs THEN 1 ELSE 0)

(* While sending is disabled somebody waits for a reply: no interleaving of *)
(* two sends, a failure and a poll leaves the button disabled for nothing. *)
BusyWaits == busy => waitingReply

(* "so nothing is missed between the client's initial fetch and this       *)
(* subscription" (chat.go:107): unless the subscriber was too slow, every  *)
(* message of the channel that the replay covers, or that came after the   *)
(* subscription, has arrived or is on its way.                             *)
PushComplete ==
  ws.at = "live" /\ ~ws.lost =>
    \A m \in Of(channelId) :
      (m > ws.since \/ m \in ListChannelMessages(channelId, ReplayLimit, Len(rows)))
        => m \in hub \cup ws.sent \cup ws.got

(* The page implements the feed: it shows stored messages of the open      *)
(* channel only, and a reader who stays ends up seeing every message the   *)
(* list endpoint serves, through lost sockets, failed loads and lists that *)
(* replace the page late (page.tsx: load, onmessage, send).                *)
Feed == INSTANCE ChannelFeed WITH
  Limit <- ListLimit,
  stored <- [c \in Channels |-> Of(c)],
  open <- channelId,
  view <- IF channelId = None THEN {} ELSE Shown \cap Of(channelId)

ImplementsFeed == Feed!Spec

(* "the poll is the fallback: with the socket down messages still arrive"  *)
(* (page.tsx:278).  The list endpoint serves the oldest ListLimit messages  *)
(* only, so the poll of a long channel never brings a new one.             *)
PollSuffices ==
  \A c \in Channels : <>[](channelId = c) => <>[](Of(c) \subseteq Shown)

(* A reply that the list endpoint serves.                                  *)
ReplyServed ==
  /\ waitingReply /\ channelId # None
  /\ \E m \in AgentSeqs(ListChannelMessages(channelId, ListLimit, Len(rows))) : m > pendingAgentSeq

(* While the reader stays, such a reply ends the waiting, also when the    *)
(* socket has shown it before: "the reply clears busy through the poll"    *)
(* (page.tsx:372; load).                                                   *)
BusyClears == \A c \in Channels : [](ReplyServed /\ [](channelId = c) => <>~ReplyServed)
=============================================================================
