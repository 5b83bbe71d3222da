---------------------------- MODULE SseTransport ----------------------------
(***************************************************************************)
(* mcp/http_transport.{hpp,cpp}: MCP over Server-Sent Events.              *)
(*                                                                         *)
(* A client opens GET /sse; the connection's thread (a member of Conns)    *)
(* draws a session id, puts a fresh SseSession into m_sessions, and then   *)
(* runs sseHandler until a write fails: it waits up to 15 seconds on the   *)
(* session's condition variable, takes the whole queue, and writes it out  *)
(* as "message" events.  Every POST /message?sessionId=... is served by a  *)
(* thread of its own (a member of Posts), which looks the session up, lets *)
(* the protocol handle the body, appends the response to the session's     *)
(* queue and notifies the condition variable.                              *)
(*                                                                         *)
(* Each action is one critical section or one call that may block; between *)
(* two actions any other thread may run.  Data abstraction:                *)
(*   - a response is named by the POST that produced it;                   *)
(*   - a session object is named by the connection whose createSession     *)
(*     made it, so a shared_ptr<SseSession> is a member of Conns or None;  *)
(*   - a session id is the position of the random generator it was drawn   *)
(*     at: distinct positions give distinct 32-digit ids.                  *)
(***************************************************************************)
EXTENDS Naturals, Sequences

CONSTANTS
    Conns,     \* GET /sse connections, each with its server thread
    Posts,     \* POST /message requests, each with its server thread
    Ids,       \* generator positions, i.e. session ids
    Overlap,   \* may two /sse handlers be inside randomSessionId at once?
    None       \* the null shared_ptr, and "no id drawn yet"

ASSUME SseAssumption ==
    /\ Ids \subseteq Nat
    /\ Overlap \in BOOLEAN
    /\ None \notin Conns
    /\ None \notin Ids

VARIABLES
    rng,       \* the state of the function-static mt19937_64
    sessions,  \* m_sessions: id -> session object
    queue,     \* SseSession::queue of each session object
    closed,    \* SseSession::closed of each session object
    pc,        \* where each /sse thread is
    sid,       \* sessionId captured by each sseHandler
    obj,       \* the shared_ptr sseHandler got from findSession
    pending,   \* sseHandler's local deque
    sent,      \* "message" events whose writeAll returned true, per connection
    peer,      \* the client's end of each /sse socket
    ppc,       \* where each POST thread is
    ptr,       \* the shared_ptr each POST thread holds
    answers    \* whether handleMessage produced a response

pumpVars == <<pc, sid, obj, pending, sent>>
postVars == <<ppc, ptr, answers>>
vars == <<rng, sessions, queue, closed, pumpVars, peer, postVars>>

----------------------------------------------------------------------------
(* Control points of the /sse thread.  *)
Drawing    == {"draw", "store"}                \* inside randomSessionId
Pumping    == {"wait", "asleep", "keepalive", "write"}
Registered == {"head", "find", "endpoint", "remove"} \cup Pumping
PumpPoints == {"idle", "create", "done"} \cup Drawing \cup Registered

(* Control points of the POST thread.  *)
PostPoints == {"idle", "handle", "enqueue", "notify", "done"}

(* The client reads, has stopped reading (the send buffer is full and      *)
(* writeAll blocks: there is no send timeout), has left without the server *)
(* kernel knowing yet (writes still succeed), or is known to have left;    *)
(* "closed" once the server's thread has closed the socket.                *)
PeerStates == {"up", "stalled", "gone", "reset", "closed"}

Init ==
    /\ rng = 0
    /\ sessions = [i \in Ids |-> None]
    /\ queue = [c \in Conns |-> <<>>]
    /\ closed = [c \in Conns |-> FALSE]
    /\ pc = [c \in Conns |-> "idle"]
    /\ sid = [c \in Conns |-> None]
    /\ obj = [c \in Conns |-> None]
    /\ pending = [c \in Conns |-> <<>>]
    /\ sent = [c \in Conns |-> <<>>]
    /\ peer = [c \in Conns |-> "up"]
    /\ ppc = [p \in Posts |-> "idle"]
    /\ ptr = [p \in Posts |-> None]
    /\ answers = [p \in Posts |-> FALSE]

Goto(c, label) == pc' = [pc EXCEPT ![c] = label]

(* writeAll on the /sse socket: it blocks while the peer is stalled, and   *)
(* then reports what the kernel knows of the peer.                         *)
WriteOK(c)    == peer[c] \in {"up", "gone"}
WriteFails(c) == peer[c] = "reset"

----------------------------------------------------------------------------
(* GET /sse: handleSseConnect, then the HTTP server's call of sseHandler.  *)

Unauthorized(c) ==
    /\ pc[c] = "idle"
    /\ Goto(c, "done")
    /\ UNCHANGED <<rng, sessions, queue, closed, sid, obj, pending, sent, peer, postVars>>

Connect(c) ==
    /\ pc[c] = "idle"
    /\ Overlap \/ \A d \in Conns : pc[d] \notin Drawing
    /\ Goto(c, "draw")
    /\ UNCHANGED <<rng, sessions, queue, closed, sid, obj, pending, sent, peer, postVars>>

(* randomSessionId reads and advances one unsynchronised static generator: *)
(* threads inside it at the same time race, as a read and a later store.   *)
ReadRng(c) ==
    /\ pc[c] = "draw"
    /\ rng \in Ids
    /\ sid' = [sid EXCEPT ![c] = rng]
    /\ Goto(c, "store")
    /\ UNCHANGED <<rng, sessions, queue, closed, obj, pending, sent, peer, postVars>>

(* Fault: a generator whose state is not kept between calls.  *)
StoreRngForgets(c) ==
    /\ pc[c] = "store"
    /\ Goto(c, "create")
    /\ UNCHANGED <<rng, sessions, queue, closed, sid, obj, pending, sent, peer, postVars>>

StoreRng(c) ==
    /\ pc[c] = "store"
    /\ rng' = sid[c] + 1
    /\ Goto(c, "create")
    /\ UNCHANGED <<sessions, queue, closed, sid, obj, pending, sent, peer, postVars>>

(* m_sessions[id] = make_shared<SseSession>(): replaces whatever the id    *)
(* was mapped to.                                                          *)
CreateSession(c) ==
    /\ pc[c] = "create"
    /\ sessions' = [sessions EXCEPT ![sid[c]] = c]
    /\ Goto(c, "head")
    /\ UNCHANGED <<rng, queue, closed, sid, obj, pending, sent, peer, postVars>>

(* handleConnection writes the event-stream header and ignores the result. *)
WriteHead(c) ==
    /\ pc[c] = "head"
    /\ WriteOK(c) \/ WriteFails(c)
    /\ Goto(c, "find")
    /\ UNCHANGED <<rng, sessions, queue, closed, sid, obj, pending, sent, peer, postVars>>

(* sseHandler returns and the connection is closed: its locals are gone.   *)
EndStream(c) ==
    /\ Goto(c, "done")
    /\ obj' = [obj EXCEPT ![c] = None]
    /\ pending' = [pending EXCEPT ![c] = <<>>]
    /\ peer' = [peer EXCEPT ![c] = "closed"]

FindSession(c) ==
    /\ pc[c] = "find"
    /\ \/ /\ sessions[sid[c]] = None
          /\ EndStream(c)
       \/ /\ sessions[sid[c]] # None
          /\ obj' = [obj EXCEPT ![c] = sessions[sid[c]]]
          /\ Goto(c, "endpoint")
          /\ UNCHANGED <<pending, peer>>
    /\ UNCHANGED <<rng, sessions, queue, closed, sid, sent, postVars>>

WriteEndpoint(c) ==
    /\ pc[c] = "endpoint"
    /\ \/ WriteOK(c)    /\ Goto(c, "wait")
       \/ WriteFails(c) /\ Goto(c, "remove")
    /\ UNCHANGED <<rng, sessions, queue, closed, sid, obj, pending, sent, peer, postVars>>

----------------------------------------------------------------------------
(* The push loop of sseHandler.  The predicate of wait_for is evaluated    *)
(* under the session's mutex when the loop comes around, after every       *)
(* notification, and when the 15 seconds are over.                         *)

HasData(c) == queue[obj[c]] # <<>>

TakeQueue(c) ==
    /\ pending' = [pending EXCEPT ![c] = queue[obj[c]]]
    /\ queue' = [queue EXCEPT ![obj[c]] = <<>>]
    /\ Goto(c, "write")

(* wait_for up to the first sleep.  *)
Wait(c) ==
    /\ pc[c] = "wait"
    /\ \/ /\ closed[obj[c]]
          /\ Goto(c, "remove")
          /\ UNCHANGED <<queue, pending>>
       \/ /\ ~closed[obj[c]]
          /\ HasData(c)
          /\ TakeQueue(c)
       \/ /\ ~closed[obj[c]]
          /\ ~HasData(c)
          /\ Goto(c, "asleep")
          /\ UNCHANGED <<queue, pending>>
    /\ UNCHANGED <<rng, sessions, closed, sid, obj, sent, peer, postVars>>

(* The 15 seconds are over: the predicate is evaluated once more, and an   *)
(* empty queue now means a keepalive.                                      *)
Timeout(c) ==
    /\ pc[c] = "asleep"
    /\ \/ /\ closed[obj[c]]
          /\ Goto(c, "remove")
          /\ UNCHANGED <<queue, pending>>
       \/ /\ ~closed[obj[c]]
          /\ HasData(c)
          /\ TakeQueue(c)
       \/ /\ ~closed[obj[c]]
          /\ ~HasData(c)
          /\ Goto(c, "keepalive")
          /\ UNCHANGED <<queue, pending>>
    /\ UNCHANGED <<rng, sessions, closed, sid, obj, sent, peer, postVars>>

(* Fault: a failed keepalive returns without removing the session.  *)
WriteKeepaliveReturns(c) ==
    /\ pc[c] = "keepalive"
    /\ \/ /\ WriteOK(c)
          /\ Goto(c, "wait")
          /\ UNCHANGED <<obj, pending, peer>>
       \/ /\ WriteFails(c)
          /\ EndStream(c)
    /\ UNCHANGED <<rng, sessions, queue, closed, sid, sent, postVars>>

(* Fault: the result of the keepalive write is ignored.  *)
WriteKeepaliveIgnored(c) ==
    /\ pc[c] = "keepalive"
    /\ WriteOK(c) \/ WriteFails(c)
    /\ Goto(c, "wait")
    /\ UNCHANGED <<rng, sessions, queue, closed, sid, obj, pending, sent, peer, postVars>>

WriteKeepalive(c) ==
    /\ pc[c] = "keepalive"
    /\ \/ WriteOK(c)    /\ Goto(c, "wait")
       \/ WriteFails(c) /\ Goto(c, "remove")
    /\ UNCHANGED <<rng, sessions, queue, closed, sid, obj, pending, sent, peer, postVars>>

(* Fault: an "if" for the inner loop, one message per batch.  *)
WriteFirstMessage(c) ==
    /\ pc[c] = "write"
    /\ WriteOK(c)
    /\ sent' = [sent EXCEPT ![c] = Append(@, Head(pending[c]))]
    /\ pending' = [pending EXCEPT ![c] = Tail(@)]
    /\ Goto(c, "wait")
    /\ UNCHANGED <<rng, sessions, queue, closed, sid, obj, peer, postVars>>

(* One round of the inner loop.  The unlocked read of closed that follows  *)
(* the last message is part of it.                                         *)
WriteMessage(c) ==
    /\ pc[c] = "write"
    /\ \/ /\ WriteOK(c)
          /\ sent' = [sent EXCEPT ![c] = Append(@, Head(pending[c]))]
          /\ pending' = [pending EXCEPT ![c] = Tail(@)]
          /\ Goto(c, IF pending'[c] # <<>> THEN "write"
                     ELSE IF closed[obj[c]] THEN "remove" ELSE "wait")
          /\ UNCHANGED closed
       \/ /\ WriteFails(c)
          /\ closed' = [closed EXCEPT ![obj[c]] = TRUE]
          /\ Goto(c, "remove")
          /\ UNCHANGED <<sent, pending>>
    /\ UNCHANGED <<rng, sessions, queue, sid, obj, peer, postVars>>

RemoveSession(c) ==
    /\ pc[c] = "remove"
    /\ sessions' = [sessions EXCEPT ![sid[c]] = None]
    /\ EndStream(c)
    /\ UNCHANGED <<rng, queue, closed, sid, sent, postVars>>

----------------------------------------------------------------------------
(* POST /message: handleSseMessage.                                        *)

PostUnauthorized(p) ==
    /\ ppc[p] = "idle"
    /\ ppc' = [ppc EXCEPT ![p] = "done"]
    /\ UNCHANGED <<rng, sessions, queue, closed, pumpVars, peer, ptr, answers>>

(* findSession: the POST may name any id, live, stale or made up, and is   *)
(* answered 404 when the table does not have it.                           *)
PostMessage(p, i) ==
    /\ ppc[p] = "idle"
    /\ ptr' = [ptr EXCEPT ![p] = sessions[i]]
    /\ ppc' = [ppc EXCEPT ![p] = IF ptr'[p] = None THEN "done" ELSE "handle"]
    /\ UNCHANGED <<rng, sessions, queue, closed, pumpVars, peer, answers>>

(* Fault: hasResponse is not looked at.  *)
HandleMessageAlwaysPushes(p) ==
    /\ ppc[p] = "handle"
    /\ \E has \in BOOLEAN : answers' = [answers EXCEPT ![p] = has]
    /\ ppc' = [ppc EXCEPT ![p] = "enqueue"]
    /\ UNCHANGED <<rng, sessions, queue, closed, pumpVars, peer, ptr>>

(* Protocol::handleMessage runs the tool with no lock held, for as long as *)
(* the device takes; a notification produces no response.                  *)
HandleMessage(p) ==
    /\ ppc[p] = "handle"
    /\ \/ /\ answers' = [answers EXCEPT ![p] = TRUE]
          /\ ppc' = [ppc EXCEPT ![p] = "enqueue"]
       \/ /\ ppc' = [ppc EXCEPT ![p] = "done"]
          /\ UNCHANGED answers
    /\ UNCHANGED <<rng, sessions, queue, closed, pumpVars, peer, ptr>>

(* Fault: push_front for push_back.  *)
EnqueueFront(p) ==
    /\ ppc[p] = "enqueue"
    /\ queue' = [queue EXCEPT ![ptr[p]] = <<p>> \o @]
    /\ ppc' = [ppc EXCEPT ![p] = "notify"]
    /\ UNCHANGED <<rng, sessions, closed, pumpVars, peer, ptr, answers>>

Enqueue(p) ==
    /\ ppc[p] = "enqueue"
    /\ queue' = [queue EXCEPT ![ptr[p]] = Append(@, p)]
    /\ ppc' = [ppc EXCEPT ![p] = "notify"]
    /\ UNCHANGED <<rng, sessions, closed, pumpVars, peer, ptr, answers>>

(* Fault: nobody is notified.  *)
NotifyNobody(p) ==
    /\ ppc[p] = "notify"
    /\ ppc' = [ppc EXCEPT ![p] = "done"]
    /\ UNCHANGED <<rng, sessions, queue, closed, pumpVars, peer, ptr, answers>>

(* cv.notify_all after the unlock, and the 202: every sleeper on this      *)
(* session object wakes up and evaluates its predicate again.              *)
NotifyAll(p) ==
    /\ ppc[p] = "notify"
    /\ pc' = [c \in Conns |-> IF pc[c] = "asleep" /\ obj[c] = ptr[p]
                              THEN "wait" ELSE pc[c]]
    /\ ppc' = [ppc EXCEPT ![p] = "done"]
    /\ UNCHANGED <<rng, sessions, queue, closed, sid, obj, pending, sent, peer, ptr, answers>>

----------------------------------------------------------------------------
(* The client's end of an /sse socket.  *)

Connected(c) == pc[c] \notin {"idle", "done"}

PeerStep(c, from, to) ==
    /\ Connected(c)
    /\ peer[c] \in from
    /\ peer' = [peer EXCEPT ![c] = to]
    /\ UNCHANGED <<rng, sessions, queue, closed, pumpVars, postVars>>

PeerStalls(c)  == PeerStep(c, {"up"}, "stalled")
PeerResumes(c) == PeerStep(c, {"stalled"}, "up")
PeerLeaves(c)  == PeerStep(c, {"up", "stalled"}, "gone")
PeerReset(c)   == PeerStep(c, {"gone"}, "reset")

----------------------------------------------------------------------------
PumpStep(c) ==
    \/ ReadRng(c) \/ StoreRng(c) \/ CreateSession(c)
    \/ WriteHead(c) \/ FindSession(c) \/ WriteEndpoint(c)
    \/ Wait(c) \/ Timeout(c) \/ WriteKeepalive(c) \/ WriteMessage(c)
    \/ RemoveSession(c)

PostStep(p) == HandleMessage(p) \/ Enqueue(p) \/ NotifyAll(p)

(* The workload of the model is finite.  *)
Finished ==
    /\ \A c \in Conns : pc[c] = "done"
    /\ \A p \in Posts : ppc[p] = "done"
    /\ UNCHANGED vars

Next ==
    \/ \E c \in Conns :
        \/ Unauthorized(c) \/ Connect(c) \/ PumpStep(c)
        \/ PeerStalls(c) \/ PeerResumes(c) \/ PeerLeaves(c) \/ PeerReset(c)
    \/ \E p \in Posts :
        \/ PostUnauthorized(p) \/ \E i \in Ids : PostMessage(p, i)
        \/ PostStep(p)
    \/ Finished

Spec == Init /\ [][Next]_vars

(* Threads run: the scheduler is fair to each, and wait_for returns after  *)
(* its 15 seconds.  handleMessage need not end, as not every runShell does *)
(* (LocalExecutor).  TCP finds out about a peer that left.  Clients owe    *)
(* nothing: no fairness on connecting, posting, stalling, resuming or      *)
(* leaving.                                                                *)
Fairness ==
    /\ \A c \in Conns : WF_vars(PumpStep(c)) /\ WF_vars(PeerReset(c))
    /\ \A p \in Posts : WF_vars(Enqueue(p) \/ NotifyAll(p))

FairSpec == Spec /\ Fairness

----------------------------------------------------------------------------
Typed ==
    /\ rng \in Nat
    /\ sessions \in [Ids -> Conns \cup {None}]
    /\ queue \in [Conns -> Seq(Posts)]
    /\ closed \in [Conns -> BOOLEAN]
    /\ pc \in [Conns -> PumpPoints]
    /\ sid \in [Conns -> Ids \cup {None}]
    /\ obj \in [Conns -> Conns \cup {None}]
    /\ pending \in [Conns -> Seq(Posts)]
    /\ sent \in [Conns -> Seq(Posts)]
    /\ peer \in [Conns -> PeerStates]
    /\ ppc \in [Posts -> PostPoints]
    /\ ptr \in [Posts -> Conns \cup {None}]
    /\ answers \in [Posts -> BOOLEAN]

NeverNull ==
    /\ \A c \in Conns : pc[c] \in Pumping \cup {"endpoint"} => obj[c] # None
    /\ \A p \in Posts : ppc[p] \in {"handle", "enqueue", "notify"} => ptr[p] # None

(* Every variable has its type, and neither a push loop nor a POST past    *)
(* its lookup runs on a null session pointer (the checks after findSession *)
(* in sseHandler and handleSseMessage).                                    *)
TypeOK == Typed /\ NeverNull

(* The session table does not leak: an entry always belongs to a thread    *)
(* that is still going to remove it, even when two threads drew the same   *)
(* id and one replaced the other's entry.                                  *)
NoSessionLeak ==
    \A i \in Ids : sessions[i] # None =>
        \E c \in Conns : sid[c] = i /\ pc[c] \in Registered

(* The condition variable protocol never depends on its timeout: when a    *)
(* pump sleeps although its queue holds something, the POST that put it    *)
(* there has not called notify_all yet.                                    *)
NoLostWakeup ==
    \A c \in Conns : pc[c] = "asleep" /\ HasData(c) =>
        \E p \in Posts : ppc[p] = "notify" /\ ptr[p] = obj[c]

(* The id a client was told in its endpoint event names its own session    *)
(* for as long as its stream is being pumped (docs/transport.md:32-38: a   *)
(* POST to that id is answered on that stream).                            *)
AdvertisedIdResolves ==
    \A c \in Conns : pc[c] \in Pumping => sessions[sid[c]] = c /\ obj[c] = c

(* A response is only ever written to the stream of the session its POST   *)
(* resolved, and only if its POST was authorised, found and not silent.    *)
OwnStreamOnly ==
    \A c \in Conns : \A k \in DOMAIN sent[c] :
        LET p == sent[c][k] IN ptr[p] = c /\ answers[p]

Leaving == {"remove", "done"}

(* The detailed transport implements SseChannel: per stream FIFO, nothing  *)
(* invented, duplicated or reordered, and nothing lost unless the stream   *)
(* ends.  A thread's local batch followed by the shared queue is the       *)
(* channel's backlog.                                                      *)
Channel == INSTANCE SseChannel WITH
    Channels <- Conns,
    Messages <- Posts,
    phase <- [c \in Conns |->
                IF pc[c] \in Registered \ Leaving THEN "open"
                ELSE IF pc[c] \in Leaving THEN "closed" ELSE "new"],
    accepted <- {p \in Posts : answers[p] /\ ppc[p] \in {"notify", "done"}},
    backlog <- [c \in Conns |->
                IF pc[c] \in Registered \ Leaving THEN pending[c] \o queue[c] ELSE <<>>],
    delivered <- sent

ImplementsChannel == Channel!Spec

(* A response that was accepted with 202 is written to the stream of its   *)
(* session, unless the stream ends first; clients may stall on the way as  *)
(* long as they do not do so for ever, or again and again.                 *)
AcceptedIsSent ==
    \A p \in Posts, c \in Conns :
        <>[](peer[c] # "stalled") =>
            (ppc[p] = "notify" /\ ptr[p] = c ~>
                (\E k \in DOMAIN sent[c] : sent[c][k] = p) \/ pc[c] \in Leaving)

(* A client that left is noticed: its thread ends and its session leaves   *)
(* the table, even if nobody ever posts to it again (the keepalive).       *)
DeadPeerReclaimed ==
    \A c \in Conns :
        peer[c] = "gone" ~> /\ pc[c] = "done"
                            /\ \A i \in Ids : sessions[i] # c
=============================================================================
