----------------------------- MODULE McpClient -----------------------------
(***************************************************************************)
(* Client of pkg/mcp with one server behind a transport that correlates    *)
(* answers by message id (StdioTransport; SSETransport has the same Send,  *)
(* routing and Close). Each Connect makes a transport of its own, numbered *)
(* here. Connect holds serversMu through the handshake and leaves behind a *)
(* goroutine that fills toolCache. A transport's reader holds pendingMu    *)
(* while it puts a message into the channel of capacity one a Send reads.  *)
(* The server may answer in any order, send requests of its own, or die.   *)
(***************************************************************************)
EXTENDS Naturals

CONSTANTS ToolUsers,       \* goroutines that call tools or read resources
          Handshake,       \* the goroutine in Connect
          MaxConnects, MaxRequests,
          MaxOwnRequests   \* bound on the requests the server sends

Transports == 1 .. MaxConnects

\* The goroutine that caches the tools of a server bears its transport's number.
ASSUME McpAssumption ==
    /\ {MaxConnects, MaxRequests, MaxOwnRequests} \subseteq Nat
    /\ Handshake \notin ToolUsers \cup Transports
    /\ ToolUsers \cap Transports = {}

NoTransport == 0

VARIABLES server,       \* the transport in the map servers, or NoTransport
          connects,     \* transports made
          connecting,   \* the transport of the Connect that holds serversMu
          up,           \* the transports that are connected
          request,      \* the Send of each user, of the handshake and of each cache goroutine
          nextID, sent, \* the last message id; the requests made, which number them
          pending,      \* ids with a channel, per transport
          box,          \* what is in the channels
          jammed,       \* the message a reader cannot put, holding pendingMu
          unanswered,   \* requests the server has
          wire,         \* messages of the server not yet read
          ownRequests,
          toolCache     \* the transports whose server's tools are cached

mcpVars == <<server, connects, connecting, up, request, nextID, sent, pending, box, jammed,
             unanswered, wire, ownRequests, toolCache>>

Requesters == ToolUsers \cup {Handshake} \cup Transports
ServersOwn == 0   \* a message that answers nothing
NoAnswer == MaxRequests + 1
NoRequest == [step |-> "idle", over |-> NoTransport, id |-> 0, number |-> 0, answer |-> NoAnswer]

McpInit ==
    /\ server = NoTransport /\ connects = 0 /\ connecting = NoTransport /\ up = {}
    /\ request = [c \in Requesters |-> NoRequest]
    /\ nextID = 0 /\ sent = 0 /\ ownRequests = 0
    /\ pending = {} /\ box = {} /\ jammed = {} /\ unanswered = {} /\ wire = {}
    /\ toolCache = {}

Goes(c, from, to) ==
    request[c].step = from /\ request' = [request EXCEPT ![c].step = to]

Locked(t) == \E m \in jammed : m.over = t
Channel(c) == [over |-> request[c].over, id |-> request[c].id]
Holds(b, ch) == b.over = ch.over /\ b.id = ch.id

ServerState == <<unanswered, wire, ownRequests>>
Connections == <<server, connects, connecting, up, toolCache>>

-----------------------------------------------------------------------------
(* A request: getConnection, then the transport's Send.                    *)
GetConnection(c) ==
    /\ connecting = NoTransport
    /\ \/ c \in ToolUsers /\ request[c] = NoRequest /\ sent < MaxRequests /\ server # NoTransport
       \/ c \in Transports /\ request[c].step = "start"
    /\ request' = [request EXCEPT ![c] = IF server = NoTransport THEN NoRequest
                       ELSE [NoRequest EXCEPT !.step = "looked", !.over = server]]
    /\ UNCHANGED <<Connections, nextID, sent, pending, box, jammed, ServerState>>

\* A mutant: the counter is read without being advanced.
SameID == IF nextID = 0 THEN 1 ELSE nextID

NextID == nextID + 1

OpenChannel(c) ==
    /\ request[c].step = "looked" /\ sent < MaxRequests
    /\ IF request[c].over \notin up
       THEN /\ request' = [request EXCEPT ![c].step = "over"]
            /\ UNCHANGED <<nextID, sent, pending>>
       ELSE /\ ~Locked(request[c].over)
            /\ nextID' = NextID /\ sent' = sent + 1
            /\ pending' = pending \cup {[over |-> request[c].over, id |-> NextID]}
            /\ request' = [request EXCEPT ![c].step = "open", ![c].id = NextID, ![c].number = sent + 1]
    /\ UNCHANGED <<Connections, box, jammed, ServerState>>

WriteMessage(c) ==
    /\ IF request[c].over \in up
       THEN /\ Goes(c, "open", "waiting")
            /\ unanswered' = unanswered \cup {[over |-> request[c].over, id |-> request[c].id,
                                               number |-> request[c].number]}
       ELSE Goes(c, "open", "leaving") /\ UNCHANGED unanswered
    /\ UNCHANGED <<Connections, nextID, sent, pending, box, jammed, wire, ownRequests>>

ReceiveAnswer(c) ==
    /\ request[c].step = "waiting"
    /\ \E b \in box :
          /\ Holds(b, Channel(c))
          /\ box' = box \ {b}
          /\ request' = [request EXCEPT ![c].step = "leaving", ![c].answer = b.number]
    /\ UNCHANGED <<Connections, nextID, sent, pending, jammed, ServerState>>

\* A mutant: a Send over a transport that has closed waits for its answer only.
TimeoutWhileUp(c) ==
    /\ Goes(c, "waiting", "leaving") /\ request[c].over \in up
    /\ UNCHANGED <<Connections, nextID, sent, pending, box, jammed, ServerState>>

Timeout(c) ==
    /\ Goes(c, "waiting", "leaving")
    /\ UNCHANGED <<Connections, nextID, sent, pending, box, jammed, ServerState>>

\* The deferred removal of the channel; what is in it is lost.
CloseChannel(c) ==
    /\ Goes(c, "leaving", "over") /\ ~Locked(request[c].over)
    /\ pending' = pending \ {Channel(c)}
    /\ box' = {b \in box : ~Holds(b, Channel(c))}
    /\ UNCHANGED <<Connections, nextID, sent, jammed, ServerState>>

Answered(c) == request[c].answer = request[c].number

\* A tool's result is returned; the cache goroutine enters the tools it got.
ReturnAnswer(c) ==
    /\ c # Handshake /\ request[c].step = "over"
    /\ request' = [request EXCEPT ![c] = NoRequest]
    /\ toolCache' = IF c \in Transports /\ request[c].id # 0 /\ Answered(c)
                    THEN toolCache \cup {request[c].over} ELSE toolCache
    /\ UNCHANGED <<server, connects, connecting, up, nextID, sent, pending, box, jammed, ServerState>>

-----------------------------------------------------------------------------
(* Connect, Disconnect and Close.                                          *)
Connect ==
    /\ connecting = NoTransport /\ server = NoTransport /\ connects < MaxConnects /\ sent < MaxRequests
    /\ connects' = connects + 1 /\ connecting' = connects + 1
    /\ up' = up \cup {connects + 1}
    /\ request' = [request EXCEPT ![Handshake] = [NoRequest EXCEPT !.step = "looked", !.over = connects + 1]]
    /\ UNCHANGED <<server, nextID, sent, pending, box, jammed, ServerState, toolCache>>

\* What is no result does not unmarshal, and the notification needs the transport.
EndConnect ==
    /\ request[Handshake].step = "over" /\ connecting' = NoTransport
    /\ IF request[Handshake].id # 0 /\ Answered(Handshake) /\ connecting \in up
       THEN /\ server' = connecting
            /\ request' = [request EXCEPT ![Handshake] = NoRequest, ![connecting].step = "start"]
            /\ UNCHANGED up
       ELSE /\ up' = up \ {connecting}
            /\ request' = [request EXCEPT ![Handshake] = NoRequest]
            /\ UNCHANGED server
    /\ UNCHANGED <<connects, nextID, sent, pending, box, jammed, ServerState, toolCache>>

\* Close does the same for all servers, but leaves the cache.
Disconnect(clearTools) ==
    /\ connecting = NoTransport /\ server # NoTransport
    /\ up' = up \ {server} /\ server' = NoTransport
    /\ toolCache' = IF clearTools THEN {} ELSE toolCache
    /\ UNCHANGED <<connects, connecting, request, nextID, sent, pending, box, jammed, ServerState>>

-----------------------------------------------------------------------------
(* readResponses: a message with a known id goes into that channel, a      *)
(* request of the server as well; others are dropped. A full channel makes *)
(* the reader wait with pendingMu held. At the end of the output the       *)
(* transport closes itself, but stays in servers.                          *)
ReadMessage(m) ==
    /\ m \in wire /\ m.over \in up /\ ~Locked(m.over)
    /\ wire' = wire \ {m}
    /\ IF [over |-> m.over, id |-> m.id] \notin pending THEN UNCHANGED <<box, jammed>>
       ELSE IF \E b \in box : Holds(b, m) THEN jammed' = jammed \cup {m} /\ UNCHANGED box
       ELSE box' = box \cup {m} /\ UNCHANGED jammed
    /\ UNCHANGED <<Connections, request, nextID, sent, pending, unanswered, ownRequests>>

PutMessage(m) ==
    /\ m \in jammed /\ ~\E b \in box : Holds(b, m)
    /\ jammed' = jammed \ {m} /\ box' = box \cup {m}
    /\ UNCHANGED <<Connections, request, nextID, sent, pending, ServerState>>

OutputEnds(t) ==
    /\ t \in up /\ ~Locked(t) /\ \A m \in wire : m.over # t
    /\ up' = up \ {t}
    /\ UNCHANGED <<server, connects, connecting, request, nextID, sent, pending, box, jammed,
                   ServerState, toolCache>>

ServerAnswers(m) ==
    /\ m \in unanswered /\ m.over \in up
    /\ unanswered' = unanswered \ {m} /\ wire' = wire \cup {m}
    /\ UNCHANGED <<Connections, request, nextID, sent, pending, box, jammed, ownRequests>>

ServerRequests(t, id) ==
    /\ t \in up /\ ownRequests < MaxOwnRequests
    /\ ownRequests' = ownRequests + 1
    /\ wire' = wire \cup {[over |-> t, id |-> id, number |-> ServersOwn]}
    /\ UNCHANGED <<Connections, request, nextID, sent, pending, box, jammed, unanswered>>

-----------------------------------------------------------------------------
Send(c) ==
    \/ OpenChannel(c) \/ WriteMessage(c) \/ ReceiveAnswer(c) \/ Timeout(c) \/ CloseChannel(c)

McpNext ==
    \/ \E c \in Requesters : GetConnection(c) \/ Send(c) \/ ReturnAnswer(c)
    \/ Connect \/ EndConnect
    \/ \E clearTools \in BOOLEAN : Disconnect(clearTools)
    \/ \E m \in wire : ReadMessage(m)
    \/ \E m \in jammed : PutMessage(m)
    \/ \E m \in unanswered : ServerAnswers(m)
    \/ \E t \in up : OutputEnds(t) \/ \E id \in 1 .. MaxRequests : ServerRequests(t, id)

McpSpec == McpInit /\ [][McpNext]_mcpVars

\* Goroutines go on and timeouts fire; the server need not do anything.
McpFairness ==
    /\ \A c \in Requesters : WF_mcpVars(Send(c)) /\ WF_mcpVars(ReturnAnswer(c))
    /\ WF_mcpVars(EndConnect)
    /\ WF_mcpVars(\E m \in jammed : PutMessage(m))

-----------------------------------------------------------------------------
(* However answers are delayed, reordered or outlive their request and its *)
(* connection, a request gets its own answer, or none, or a request of the *)
(* server that has its number (which OnNotification never sees). What is   *)
(* in a channel belongs to a Send that is still there to take it.          *)
AnswersMatch ==
    /\ \A c \in Requesters : request[c].answer \in {NoAnswer, ServersOwn, request[c].number}
    /\ \A b \in box : \E c \in Requesters :
          request[c].step \in {"open", "waiting", "leaving"} /\ Holds(b, Channel(c))

(* Every request ends, and with it the lock a Connect holds, even when the *)
(* server dies or is silent, unless two messages with one id have jammed   *)
(* the reader of its transport.                                            *)
RequestsEnd ==
    \A c \in Requesters :
        request[c].step \in {"open", "waiting", "leaving"}
            ~> request[c].step \in {"idle", "over"} \/ Locked(request[c].over)
=============================================================================
