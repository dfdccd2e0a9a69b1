------------------------------- MODULE Realtime -------------------------------
(***************************************************************************)
(* The websocket of one browser tab and what it follows: RealtimeClient of *)
(* apps/web/src/lib/ws.ts, and the hub of the API, modules/ws/hub.ts and   *)
(* routes.ts, which keeps who follows a match by socket and by match.      *)
(*                                                                         *)
(* The session allows and forbids the socket, the network and the server   *)
(* drop it, and both ends notice at their own time; messages of a socket   *)
(* arrive in order. Left out: what the server sends (events, snapshots,    *)
(* presence), the rate limit, other tabs, tournaments, which are followed  *)
(* in the same way, and close(), after which the client is thrown away.    *)
(* Bounds: MaxSockets, MaxSent (what a page sends while nothing arrives).  *)
(***************************************************************************)
EXTENDS Naturals, FiniteSets, SequencesExt

CONSTANTS Topic, MaxSubscriptions, MaxSockets, MaxSent, NoSocket

ASSUME RealtimeAssumption ==
    /\ IsFiniteSet(Topic)
    /\ MaxSockets \in Nat /\ NoSocket \notin 1..MaxSockets

VARIABLES
    allowed, wanted, ws,    \* of the client: a session, a page that wants events, its socket
    subscriptions,          \* what is replayed after a reconnect
    socket,                 \* each socket opened: both ends and what is under way to the server
    follows, followers      \* hub: socketMatches and matchSubs

client == <<allowed, wanted, ws, subscriptions>>
hub == <<follows, followers>>
realtimeVars == <<client, socket, hub>>

Socket == 1..MaxSockets
Opened == DOMAIN socket

RealtimeInit ==
    /\ allowed = FALSE /\ wanted = FALSE /\ ws = NoSocket
    /\ subscriptions = {}
    /\ socket = <<>>
    /\ follows = [s \in Socket |-> {}]
    /\ followers = [x \in Topic |-> {}]

-----------------------------------------------------------------------------
\* connect: a socket unless there is one. A page calls it, or the timeout of scheduleReconnect
MayConnect(on) == on /\ ws = NoSocket
NewSocket == [near |-> "connecting", far |-> "none", sent |-> <<>>, refused |-> FALSE]

DoConnect(on) ==
    /\ wanted' = TRUE
    /\ IF MayConnect(on)
       THEN Len(socket) < MaxSockets /\ socket' = Append(socket, NewSocket) /\ ws' = Len(socket')
       ELSE UNCHANGED <<socket, ws>>

Connect ==
    /\ DoConnect(allowed)
    /\ UNCHANGED <<allowed, subscriptions, hub>>

\* setAllowed, as the session comes and goes
Allow ==
    /\ ~allowed
    /\ allowed' = TRUE
    /\ IF wanted THEN DoConnect(TRUE) ELSE UNCHANGED <<wanted, ws, socket>>
    /\ UNCHANGED <<subscriptions, hub>>

Forbid ==
    /\ allowed
    /\ allowed' = FALSE
    /\ ws' = NoSocket
    /\ socket' = IF ws = NoSocket THEN socket ELSE [socket EXCEPT ![ws].near = "closing"]
    /\ UNCHANGED <<wanted, subscriptions, hub>>

-----------------------------------------------------------------------------
\* Without the replay
OnOpen_NoReplay(s) ==
    /\ socket[s].near = "connecting"
    /\ socket' = [socket EXCEPT ![s].near = "open", ![s].far = "open"]
    /\ UNCHANGED <<client, hub>>

\* onopen replays what the tab follows, in the order it came to follow it
Subscribe(x) == [type |-> "subscribe", topic |-> x]
OnOpen(s) ==
    /\ socket[s].near = "connecting"
    /\ \E replay \in SetToSeqs({Subscribe(x) : x \in subscriptions}) :
          socket' = [socket EXCEPT ![s].near = "open", ![s].far = "open", ![s].sent = replay]
    /\ UNCHANGED <<client, hub>>

\* onclose of the tab. With code 4001 the session has ended and is not wanted back before it says so
OnClose(s, ended) ==
    /\ socket[s].near # "closed"
    /\ socket' = [socket EXCEPT ![s].near = "closed"]
    /\ ws' = IF ws = s THEN NoSocket ELSE ws
    /\ allowed' = (allowed /\ ~ended)
    /\ UNCHANGED <<wanted, subscriptions, hub>>

\* send: remembered, and written if the socket is open
Send(type, x) ==
    /\ subscriptions' = IF type = "subscribe" THEN subscriptions \cup {x} ELSE subscriptions \ {x}
    /\ subscriptions' # subscriptions
    /\ ws # NoSocket => Len(socket[ws].sent) < MaxSent
    /\ socket' = IF ws # NoSocket /\ socket[ws].near = "open"
                 THEN [socket EXCEPT ![ws].sent = Append(@, [type |-> type, topic |-> x])] ELSE socket
    /\ UNCHANGED <<allowed, wanted, ws, hub>>

-----------------------------------------------------------------------------
\* The server handles the next message of a socket: follow and unfollow
Full(s, x) == x \notin follows[s] /\ Cardinality(follows[s]) >= MaxSubscriptions

Handle(s) ==
    /\ socket[s].far = "open" /\ socket[s].sent # <<>>
    /\ LET m == Head(socket[s].sent)
           refuse == m.type = "subscribe" /\ Full(s, m.topic)
       IN  /\ socket' = [socket EXCEPT ![s].sent = Tail(@), ![s].refused = @ \/ refuse]
           /\ CASE refuse -> UNCHANGED hub
                [] m.type = "subscribe" /\ ~refuse ->
                      /\ follows' = [follows EXCEPT ![s] = @ \cup {m.topic}]
                      /\ followers' = [followers EXCEPT ![m.topic] = @ \cup {s}]
                [] m.type = "unsubscribe" ->
                      /\ follows' = [follows EXCEPT ![s] = @ \ {m.topic}]
                      /\ followers' = [followers EXCEPT ![m.topic] = @ \ {s}]
    /\ UNCHANGED client

\* Forgets the socket, but not that it follows
DropSocket_Forgets(s) == followers

\* dropSocket of the hub's remove, once the server sees the socket closed
DropSocket(s) == [x \in Topic |-> IF x \in follows[s] THEN followers[x] \ {s} ELSE followers[x]]
FarClosed(s) ==
    /\ socket[s].far = "open"
    /\ socket' = [socket EXCEPT ![s].far = "closed", ![s].sent = <<>>]
    /\ followers' = DropSocket(s)
    /\ follows' = [follows EXCEPT ![s] = {}]
    /\ UNCHANGED client

-----------------------------------------------------------------------------
RealtimeNext ==
    \/ Connect \/ Allow \/ Forbid
    \/ \E type \in {"subscribe", "unsubscribe"}, x \in Topic : Send(type, x)
    \/ \E s \in Opened : OnOpen(s) \/ OnClose(s, TRUE) \/ OnClose(s, FALSE) \/ Handle(s) \/ FarClosed(s)

RealtimeSpec == RealtimeInit /\ [][RealtimeNext]_realtimeVars

-----------------------------------------------------------------------------
\* ws.ts 17-18, 49-55, 96-108, hub.ts 97-103: however often the socket is lost, forbidden and opened again,
\* once what was sent has arrived the server sends the tab exactly what its pages follow, unless it has
\* refused more; and it sends to no socket that it knows to be closed
SubscriptionsKept ==
    \A x \in Topic :
        /\ \A s \in followers[x] : socket[s].far = "open"
        /\ (ws # NoSocket /\ socket[ws].near = "open" /\ socket[ws].far = "open" /\ socket[ws].sent = <<>>) =>
              /\ ws \in followers[x] => x \in subscriptions
              /\ (x \in subscriptions /\ ~socket[ws].refused) => ws \in followers[x]
=============================================================================
