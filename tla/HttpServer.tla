----------------------------- MODULE HttpServer -----------------------------
(***************************************************************************)
(* net/http_server.cpp: the life of the server and of its connections, as  *)
(* android/jni_bridge.cpp drives it (start, stop, start again).            *)
(*                                                                         *)
(* One control thread calls start and stop, one thread accepts, and every  *)
(* accepted connection has a detached thread in handleConnection's         *)
(* keep-alive loop.  A request is abstracted to what the loop tells apart: *)
(* "plain"; "last", whose response ends the connection (the client asked   *)
(* for Connection: close, or findRoute has no route and the answer is 404); *)
(* "sse", whose response is a stream; "malformed", on which readRequest    *)
(* gives up.  Plaintext only: no TLS handshake.                            *)
(***************************************************************************)
EXTENDS Naturals, Sequences

CONSTANTS
    Conns,         \* client connections
    MaxRequests,   \* kMaxRequestsPerConn
    MaxPipelined,  \* bound: requests a client sends before reading an answer
    MaxStarts      \* bound: calls of start

ASSUME HttpServerAssumption ==
    /\ MaxRequests \in Nat \ {0}
    /\ MaxPipelined \in Nat \ {0}
    /\ MaxStarts \in Nat

VARIABLES
    ctl,        \* where the control thread is between start and stop's return
    stop,       \* m_stop
    listening,  \* is the listening socket open?
    acceptor,   \* where the accept thread is
    starts,     \* what MaxStarts leaves
    conn,       \* where each connection's thread is
    inbox,      \* requests sent and not read: the socket's and raw's bytes
    request,    \* the request each thread is serving
    count,      \* requestCount
    owed,       \* has the thread read a request it has not answered? (history)
    client,     \* the client's end: see ClientStates
    overtime    \* requests served since m_stop was set (history)

serverVars == <<ctl, stop, listening, acceptor, starts>>
connVars == <<conn, inbox, request, count, owed, client, overtime>>
vars == <<serverVars, connVars>>

Kinds     == {"plain", "last", "sse", "malformed"}
Serving   == {"top", "read", "handle", "write", "stream", "close"}
Locations == {"none", "backlog", "closed"} \cup Serving

(* A client reads; does not read (a write to it blocks); keeps sending     *)
(* bytes of a request that is not complete yet, each within 60 seconds of  *)
(* the last; or has left.                                                  *)
ClientStates == {"up", "stalled", "slow", "gone"}

Init ==
    /\ ctl = "idle"
    /\ stop = FALSE
    /\ listening = FALSE
    /\ acceptor = "off"
    /\ starts = MaxStarts
    /\ conn = [c \in Conns |-> "none"]
    /\ inbox = [c \in Conns |-> <<>>]
    /\ request = [c \in Conns |-> "none"]
    /\ count = [c \in Conns |-> 0]
    /\ owed = [c \in Conns |-> FALSE]
    /\ client = [c \in Conns |-> "up"]
    /\ overtime = [c \in Conns |-> 0]

Goto(c, label) == conn' = [conn EXCEPT ![c] = label]

----------------------------------------------------------------------------
(* start and stop: nativeStart/nativeStop are guarded by gStarted, so they *)
(* alternate.                                                              *)

Start ==
    /\ ctl = "idle"
    /\ starts > 0
    /\ starts' = starts - 1
    /\ ctl' = "running"
    /\ stop' = FALSE
    /\ listening' = TRUE
    /\ acceptor' = "check"
    /\ overtime' = [c \in Conns |-> 0]
    /\ UNCHANGED <<conn, inbox, request, count, owed, client>>

(* socket, bind or listen fails: nothing was started.  *)
StartFails ==
    /\ ctl = "idle"
    /\ starts > 0
    /\ starts' = starts - 1
    /\ UNCHANGED <<ctl, stop, listening, acceptor, connVars>>

Stop ==
    /\ ctl = "running"
    /\ ctl' = "closing"
    /\ stop' = TRUE
    /\ UNCHANGED <<listening, acceptor, starts, connVars>>

(* Fault: the listening socket stays open.  *)
CloseNothing ==
    /\ ctl = "closing"
    /\ ctl' = "joining"
    /\ UNCHANGED <<stop, listening, acceptor, starts, connVars>>

(* shutdown and close of m_listenFd: a blocked accept returns, and the     *)
(* kernel resets the connections nobody has accepted.                      *)
CloseListener ==
    /\ ctl = "closing"
    /\ ctl' = "joining"
    /\ listening' = FALSE
    /\ conn' = [c \in Conns |-> IF conn[c] = "backlog" THEN "closed" ELSE conn[c]]
    /\ UNCHANGED <<stop, acceptor, starts, inbox, request, count, owed, client, overtime>>

(* Fault: stop returns without waiting for the accept thread.  *)
JoinNobody ==
    /\ ctl = "joining"
    /\ ctl' = "idle"
    /\ UNCHANGED <<stop, listening, acceptor, starts, connVars>>

Join ==
    /\ ctl = "joining"
    /\ acceptor = "off"
    /\ ctl' = "idle"
    /\ UNCHANGED <<stop, listening, acceptor, starts, connVars>>

----------------------------------------------------------------------------
(* acceptLoop.  *)

CheckStop ==
    /\ acceptor = "check"
    /\ acceptor' = IF stop THEN "off" ELSE "accept"
    /\ UNCHANGED <<ctl, stop, listening, starts, connVars>>

Accept(c) ==
    /\ acceptor = "accept"
    /\ conn[c] = "backlog"
    /\ Goto(c, "top")
    /\ acceptor' = "check"
    /\ UNCHANGED <<ctl, stop, listening, starts, inbox, request, count, owed, client,
                   overtime>>

AcceptFails ==
    /\ acceptor = "accept"
    /\ ~listening
    /\ acceptor' = IF stop THEN "off" ELSE "check"
    /\ UNCHANGED <<ctl, stop, listening, starts, connVars>>

----------------------------------------------------------------------------
(* handleConnection.  *)

(* Fault: the loop does not look at m_stop.  *)
LoopTopForever(c) ==
    /\ conn[c] = "top"
    /\ Goto(c, "read")
    /\ UNCHANGED <<serverVars, inbox, request, count, owed, client, overtime>>

LoopTop(c) ==
    /\ conn[c] = "top"
    /\ Goto(c, IF stop THEN "close" ELSE "read")
    /\ UNCHANGED <<serverVars, inbox, request, count, owed, client, overtime>>

ReadRequest(c) ==
    /\ conn[c] = "read"
    /\ inbox[c] # <<>>
    /\ inbox' = [inbox EXCEPT ![c] = Tail(@)]
    /\ LET k == Head(inbox[c])
       IN  IF k = "malformed"
           THEN /\ Goto(c, "close")
                /\ UNCHANGED <<request, count, owed, overtime>>
           ELSE /\ Goto(c, "handle")
                /\ request' = [request EXCEPT ![c] = k]
                /\ count' = [count EXCEPT ![c] = @ + 1]
                /\ owed' = [owed EXCEPT ![c] = TRUE]
                /\ overtime' = [overtime EXCEPT ![c] = IF stop THEN @ + 1 ELSE @]
    /\ UNCHANGED <<serverVars, client>>

(* Fault: no SO_RCVTIMEO.  *)
ReadFailsOnEof(c) ==
    /\ conn[c] = "read"
    /\ inbox[c] = <<>>
    /\ client[c] = "gone"
    /\ Goto(c, "close")
    /\ UNCHANGED <<serverVars, inbox, request, count, owed, client, overtime>>

(* End of file, or 60 seconds of silence.  *)
ReadFails(c) ==
    /\ conn[c] = "read"
    /\ inbox[c] = <<>>
    /\ client[c] # "slow"
    /\ Goto(c, "close")
    /\ UNCHANGED <<serverVars, inbox, request, count, owed, client, overtime>>

(* Fault: a thread that sees m_stop after its handler goes home.  *)
HandleAndLook(c) ==
    /\ conn[c] = "handle"
    /\ Goto(c, IF stop THEN "close" ELSE "write")
    /\ UNCHANGED <<serverVars, inbox, request, count, owed, client, overtime>>

(* findRoute and the handler, whose exceptions become a 500.  *)
Handle(c) ==
    /\ conn[c] = "handle"
    /\ Goto(c, "write")
    /\ UNCHANGED <<serverVars, inbox, request, count, owed, client, overtime>>

(* Fault: one request too many.  *)
KeepAliveOffByOne(c) == request[c] # "last" /\ count[c] <= MaxRequests

KeepAlive(c) == request[c] # "last" /\ count[c] < MaxRequests

(* writeAll: it blocks while the client does not read (there is no send    *)
(* timeout), and may succeed or fail when the client has left.             *)
WriteResponse(c) ==
    /\ conn[c] = "write"
    /\ \/ /\ client[c] \in {"up", "gone"}
          /\ owed' = [owed EXCEPT ![c] = FALSE]
          /\ Goto(c, IF request[c] = "sse" THEN "stream" ELSE IF KeepAlive(c) THEN "top" ELSE "close")
       \/ /\ client[c] = "gone"
          /\ Goto(c, "close")
          /\ UNCHANGED owed
    /\ request' = [request EXCEPT ![c] = "none"]
    /\ UNCHANGED <<serverVars, inbox, count, client, overtime>>

(* sseHandler (SseTransport) returns when a write fails.  *)
StreamEnds(c) ==
    /\ conn[c] = "stream"
    /\ client[c] = "gone"
    /\ Goto(c, "close")
    /\ UNCHANGED <<serverVars, inbox, request, count, owed, client, overtime>>

CloseConnection(c) ==
    /\ conn[c] = "close"
    /\ Goto(c, "closed")
    /\ inbox' = [inbox EXCEPT ![c] = <<>>]
    /\ count' = [count EXCEPT ![c] = 0]
    /\ UNCHANGED <<serverVars, request, owed, client, overtime>>

----------------------------------------------------------------------------
(* Clients.  *)

Connected(c) == conn[c] \notin {"none", "closed"}

Connect(c) ==
    /\ conn[c] = "none"
    /\ listening
    /\ Goto(c, "backlog")
    /\ UNCHANGED <<serverVars, inbox, request, count, owed, client, overtime>>

Send(c, k) ==
    /\ Connected(c) /\ client[c] = "up"
    /\ Len(inbox[c]) < MaxPipelined
    /\ inbox' = [inbox EXCEPT ![c] = Append(@, k)]
    /\ UNCHANGED <<serverVars, conn, request, count, owed, client, overtime>>

ClientStep(c, from, to) ==
    /\ Connected(c)
    /\ client[c] \in from
    /\ client' = [client EXCEPT ![c] = to]
    /\ UNCHANGED <<serverVars, conn, inbox, request, count, owed, overtime>>

(* Whether a client reads matters only to a thread that writes.  *)
Stall(c)   == conn[c] = "write" /\ ClientStep(c, {"up"}, "stalled")
Trickle(c) == conn[c] = "read" /\ inbox[c] = <<>> /\ ClientStep(c, {"up"}, "slow")
Resume(c)  == ClientStep(c, {"stalled", "slow"}, "up")
Leave(c)   == ClientStep(c, {"up", "stalled", "slow"}, "gone")

----------------------------------------------------------------------------
StopStep == CloseListener \/ Join

AcceptStep == CheckStop \/ AcceptFails \/ \E c \in Conns : Accept(c)

(* The thread of a connection outside its handlers.  *)
ServeStep(c) ==
    \/ LoopTop(c) \/ ReadRequest(c) \/ ReadFails(c) \/ WriteResponse(c)
    \/ StreamEnds(c) \/ CloseConnection(c)

ConnStep(c) == ServeStep(c) \/ Handle(c)

Finished ==
    /\ ctl = "idle" /\ starts = 0
    /\ \A c \in Conns : ~Connected(c)
    /\ UNCHANGED vars

Next ==
    \/ Start \/ StartFails \/ Stop \/ StopStep \/ AcceptStep
    \/ \E c \in Conns :
        \/ ConnStep(c) \/ Connect(c) \/ (\E k \in Kinds : Send(c, k))
        \/ Stall(c) \/ Trickle(c) \/ Resume(c) \/ Leave(c)
    \/ Finished

Spec == Init /\ [][Next]_vars

(* Threads run, recv returns after its 60 seconds, a stream's handler      *)
(* notices that its client left.  A handler of a request need not end (a   *)
(* tool's runShell has no deadline that always holds), nobody has to start *)
(* or stop the server, and clients owe nothing.                            *)
FairSpec ==
    /\ Spec
    /\ WF_vars(StopStep) /\ WF_vars(AcceptStep)
    /\ \A c \in Conns : WF_vars(ServeStep(c))

----------------------------------------------------------------------------
(* Every variable has its type; no connection is served more requests than *)
(* kMaxRequestsPerConn (docs/transport.md:78).                             *)
TypeOK ==
    /\ ctl \in {"idle", "running", "closing", "joining"}
    /\ stop \in BOOLEAN /\ listening \in BOOLEAN
    /\ acceptor \in {"off", "check", "accept"}
    /\ starts \in 0..MaxStarts
    /\ conn \in [Conns -> Locations]
    /\ inbox \in [Conns -> Seq(Kinds)]
    /\ request \in [Conns -> Kinds \cup {"none"}]
    /\ count \in [Conns -> 0..MaxRequests]
    /\ owed \in [Conns -> BOOLEAN]
    /\ client \in [Conns -> ClientStates]
    /\ overtime \in [Conns -> Nat]

(* When stop has returned the accept thread is over, and nobody is left    *)
(* waiting to be accepted.                                                 *)
StopIsComplete ==
    ctl = "idle" =>
        /\ acceptor = "off" /\ ~listening
        /\ \A c \in Conns : conn[c] # "backlog"

(* A request the server has read is answered, also when stop comes in the  *)
(* middle of it: a connection only closes on a client with an unanswered   *)
(* request if the client left.                                             *)
NothingSwallowed ==
    \A c \in Conns : owed[c] => conn[c] \in {"handle", "write"} \/ client[c] = "gone"

(* Once stop was called a connection is served one more request at most,   *)
(* the one its thread was already waiting for.                             *)
OneMoreAfterStop == \A c \in Conns : overtime[c] <= 1

(* stop returns, although accept blocks without a timeout.  *)
StopReturns == ctl \in {"closing", "joining"} ~> ctl = "idle"

(* Every connection ends in finite time (request limit, idle timeout),     *)
(* unless one of its handlers never returns, it became a stream, or its    *)
(* client does not read its responses or trickles a request.               *)
ConnectionsEnd ==
    \A c \in Conns :
        \/ <>[](conn[c] = "handle")
        \/ conn[c] \in Serving ~> \/ conn[c] \in {"closed", "stream"}
                                  \/ client[c] \in {"stalled", "slow"}
=============================================================================
