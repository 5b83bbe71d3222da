-------------------------- MODULE HttpServerProofs --------------------------
(***************************************************************************)
(* Proofs about the HTTP server: HttpServer for any number of connections, *)
(* requests and restarts, then HttpFraming for requests and reads of any   *)
(* size.                                                                   *)
(***************************************************************************)
EXTENDS HttpServer, HttpFraming, SequenceTheorems, WellFoundedInduction, TLAPS

----------------------------------------------------------------------------
(* The inductive invariant: stop's phases, and what a thread owes.         *)
Shape ==
    /\ conn \in [Conns -> Locations]
    /\ owed \in [Conns -> BOOLEAN]
    /\ overtime \in [Conns -> Nat]
    /\ client \in [Conns -> ClientStates]

Stopping ==
    /\ ctl \in {"idle", "joining"} => ~listening
    /\ ctl = "idle" => acceptor = "off"
    /\ ~listening => \A c \in Conns : conn[c] # "backlog"

(* The one request served after stop is the one being read when it came: a *)
(* thread that has served it can no longer get to "read".                  *)
Overtime ==
    \A c \in Conns : overtime[c] # 0 => overtime[c] = 1 /\ stop /\ conn[c] # "read"

IInv == Shape /\ Stopping /\ NothingSwallowed /\ Overtime

LEMMA InvInit == Init => IInv
BY DEF Init, IInv, Shape, Stopping, NothingSwallowed, Overtime, Locations, ClientStates

(* A step of one connection's thread, or of its client, that moves only    *)
(* what belongs to that connection.                                        *)
Own(c) ==
    /\ UNCHANGED serverVars
    /\ \A d \in Conns \ {c} : UNCHANGED <<conn[d], owed[d], overtime[d], client[d]>>

LEMMA OwnStep ==
    ASSUME IInv, Shape', NEW c \in Conns, Own(c),
           conn'[c] = "backlog" => listening,
           owed'[c] => conn'[c] \in {"handle", "write"} \/ client'[c] = "gone",
           overtime'[c] # 0 => overtime'[c] = 1 /\ stop /\ conn'[c] # "read"
    PROVE  IInv'
<1>1. Stopping'
      BY DEF IInv, Stopping, Own, serverVars, Shape
<1>2. NothingSwallowed'
      BY DEF IInv, NothingSwallowed, Own, Shape
<1>3. Overtime'
      BY DEF IInv, Overtime, Own, serverVars, Shape
<1> QED
    BY <1>1, <1>2, <1>3 DEF IInv

LEMMA InvNext == IInv /\ [Next]_vars => IInv'
<1> SUFFICES ASSUME IInv, [Next]_vars
             PROVE  IInv'
    OBVIOUS
<1> USE DEF serverVars, connVars, Goto
<1>1. CASE Start \/ StartFails \/ Stop
      BY <1>1 DEF Start, StartFails, Stop, IInv, Shape, Stopping, NothingSwallowed, Overtime
<1>2. CASE StopStep
      BY <1>2
      DEF StopStep, CloseListener, Join, IInv, Shape, Stopping, NothingSwallowed, Overtime, Locations
<1>3. CASE CheckStop \/ AcceptFails
      BY <1>3 DEF CheckStop, AcceptFails, IInv, Shape, Stopping, NothingSwallowed, Overtime
<1>4. ASSUME NEW c \in Conns, Accept(c)
      PROVE  IInv'
  <2>1. /\ conn[c] = "backlog" /\ conn'[c] = "top" /\ acceptor' = "check" /\ acceptor = "accept"
        /\ UNCHANGED <<ctl, stop, listening, owed, overtime, client>>
        /\ conn' \in [Conns -> Locations]
        /\ \A d \in Conns \ {c} : conn'[d] = conn[d]
        BY <1>4 DEF Accept, IInv, Shape, Locations, Serving
  <2> QED
      BY <2>1 DEF IInv, Shape, Stopping, NothingSwallowed, Overtime
<1>5. ASSUME NEW c \in Conns, ConnStep(c)
      PROVE  IInv'
  <2> USE DEF Locations, Serving
  <2>1. CASE LoopTop(c)
        BY <2>1, OwnStep DEF LoopTop, IInv, Shape, Stopping, NothingSwallowed, Overtime, Own
  <2>2. CASE ReadRequest(c)
    <3>1. /\ UNCHANGED <<ctl, stop, listening, acceptor, starts, client>>
          /\ conn[c] = "read" /\ conn'[c] \in {"close", "handle"}
          /\ \/ owed'[c] = owed[c] /\ overtime'[c] = overtime[c] /\ conn'[c] = "close"
             \/ conn'[c] = "handle" /\ overtime'[c] = IF stop THEN overtime[c] + 1 ELSE overtime[c]
          /\ \A d \in Conns \ {c} : UNCHANGED <<conn[d], owed[d], overtime[d]>>
          BY <1>5, <2>2 DEF ReadRequest, IInv, Shape
    <3>2. Shape'
      <4>1. CASE Head(inbox[c]) = "malformed"
            BY <2>2, <4>1 DEF ReadRequest, IInv, Shape
      <4>2. CASE Head(inbox[c]) # "malformed"
        <5>1. /\ conn' = [conn EXCEPT ![c] = "handle"]
              /\ owed' = [owed EXCEPT ![c] = TRUE]
              /\ overtime' = [overtime EXCEPT ![c] = IF stop THEN overtime[c] + 1 ELSE overtime[c]]
              /\ UNCHANGED <<stop, client>>
              BY <2>2, <4>2 DEF ReadRequest
        <5> QED
            BY <5>1 DEF IInv, Shape
      <4> QED
          BY <4>1, <4>2
    <3>3. overtime[c] = 0
          BY <3>1 DEF IInv, Overtime
    <3> QED
        BY <3>1, <3>2, <3>3, OwnStep DEF IInv, NothingSwallowed, Own
  <2>3. CASE ReadFails(c) \/ StreamEnds(c) \/ CloseConnection(c)
        BY <2>3, OwnStep
        DEF ReadFails, StreamEnds, CloseConnection, IInv, Shape, Stopping, NothingSwallowed, Overtime,
            Own
  <2>4. CASE Handle(c)
        BY <2>4, OwnStep DEF Handle, IInv, Shape, Stopping, NothingSwallowed, Overtime, Own
  <2>5. CASE WriteResponse(c)
        BY <2>5, OwnStep DEF WriteResponse, IInv, Shape, Stopping, NothingSwallowed, Overtime, Own
  <2> QED
      BY <1>5, <2>1, <2>2, <2>3, <2>4, <2>5 DEF ConnStep, ServeStep
<1>6. ASSUME NEW c \in Conns, Connect(c) \/ Stall(c) \/ Trickle(c) \/ Resume(c) \/ Leave(c)
      PROVE  IInv'
  <2>1. CASE Connect(c)
        BY <2>1, OwnStep
        DEF Connect, IInv, Shape, Stopping, NothingSwallowed, Overtime, Own, Locations
  <2>2. CASE Stall(c) \/ Trickle(c) \/ Resume(c) \/ Leave(c)
    <3>1. /\ UNCHANGED <<ctl, stop, listening, acceptor, starts, conn, owed, overtime>>
          /\ client[c] # "gone"
          /\ client' \in [Conns -> ClientStates]
          /\ \A d \in Conns \ {c} : client'[d] = client[d]
          BY <2>2 DEF Stall, Trickle, Resume, Leave, ClientStep, ClientStates, IInv, Shape
    <3> QED
        BY <3>1 DEF IInv, Shape, Stopping, NothingSwallowed, Overtime
  <2> QED
      BY <1>6, <2>1, <2>2
<1>7. ASSUME NEW c \in Conns, NEW k \in Kinds, Send(c, k)
      PROVE  IInv'
      BY <1>7 DEF Send, IInv, Shape, Stopping, NothingSwallowed, Overtime
<1>8. CASE UNCHANGED vars
      BY <1>8 DEF vars, IInv, Shape, Stopping, NothingSwallowed, Overtime
<1> QED
    BY <1>1, <1>2, <1>3, <1>4, <1>5, <1>6, <1>7, <1>8 DEF Next, AcceptStep, Finished

LEMMA Invariant == Spec => []IInv
BY InvInit, InvNext, PTL DEF Spec

(* When stop has returned, accepting is over for good.                     *)
THEOREM StopCompletes == Spec => []StopIsComplete
<1>1. IInv => StopIsComplete
      BY DEF IInv, Stopping, StopIsComplete
<1> QED
    BY <1>1, Invariant, PTL

(* Every request that was read is answered unless its client left.         *)
THEOREM EveryRequestAnswered == Spec => []NothingSwallowed
BY Invariant, PTL DEF IInv

(* After stop a connection is served at most one more request.             *)
THEOREM AtMostOneAfterStop == Spec => []OneMoreAfterStop
<1>1. IInv => OneMoreAfterStop
  <2> SUFFICES ASSUME IInv, NEW c \in Conns
               PROVE  overtime[c] <= 1
      BY DEF OneMoreAfterStop
  <2>1. overtime[c] \in Nat /\ (overtime[c] # 0 => overtime[c] = 1)
        BY DEF IInv, Shape, Overtime
  <2> QED
      BY <2>1
<1> QED
    BY <1>1, Invariant, PTL

----------------------------------------------------------------------------
(* The rest of the types, and why the request limit holds: a thread that   *)
(* may still read a request has served less than MaxRequests.              *)
Counting ==
    /\ ctl \in {"idle", "running", "closing", "joining"}
    /\ stop \in BOOLEAN /\ listening \in BOOLEAN
    /\ acceptor \in {"off", "check", "accept"}
    /\ starts \in 0..MaxStarts
    /\ inbox \in [Conns -> Seq(Kinds)]
    /\ request \in [Conns -> Kinds \cup {"none"}]
    /\ count \in [Conns -> 0..MaxRequests]
    /\ \A c \in Conns : conn[c] \in {"none", "backlog", "top", "read"} => count[c] < MaxRequests

LEMMA CountInit == Init => Counting
<1> SUFFICES ASSUME Init
             PROVE  Counting
    OBVIOUS
<1>1. inbox \in [Conns -> Seq(Kinds)]
      BY DEF Init
<1>2. /\ count \in [Conns -> 0..MaxRequests] /\ \A c \in Conns : count[c] < MaxRequests
      /\ starts \in 0..MaxStarts
      BY HttpServerAssumption DEF Init
<1>3. request \in [Conns -> Kinds \cup {"none"}]
      BY DEF Init
<1>4. ctl = "idle" /\ ~stop /\ stop \in BOOLEAN /\ listening \in BOOLEAN /\ acceptor = "off"
      BY DEF Init
<1> QED
    BY <1>1, <1>2, <1>3, <1>4 DEF Counting

LEMMA CountNext == IInv /\ Counting /\ [Next]_vars => Counting'
<1> SUFFICES ASSUME IInv, Counting, [Next]_vars
             PROVE  Counting'
    OBVIOUS
<1> USE HttpServerAssumption DEF serverVars, connVars, Goto, Shape, Locations, Serving
<1>1. CASE Start \/ StartFails \/ Stop \/ StopStep \/ CheckStop \/ AcceptFails
  <2>1. /\ UNCHANGED <<inbox, request, count>>
        /\ \A c \in Conns : conn'[c] \in {"none", "backlog", "top", "read"} => conn'[c] = conn[c]
        BY <1>1 DEF Start, StartFails, Stop, StopStep, CloseListener, Join, CheckStop, AcceptFails
  <2>2. /\ ctl' \in {"idle", "running", "closing", "joining"}
        /\ acceptor' \in {"off", "check", "accept"}
        /\ stop' \in BOOLEAN /\ listening' \in BOOLEAN
        BY <1>1
        DEF Start, StartFails, Stop, StopStep, CloseListener, Join, CheckStop, AcceptFails, Counting
  <2>3. starts' \in 0..MaxStarts
        BY <1>1
        DEF Start, StartFails, Stop, StopStep, CloseListener, Join, CheckStop, AcceptFails, Counting
  <2> QED
      BY <2>1, <2>2, <2>3 DEF Counting
<1>2. ASSUME NEW c \in Conns, Accept(c) \/ Connect(c)
      PROVE  Counting'
      BY <1>2 DEF Accept, Connect, IInv, Counting
<1>3. ASSUME NEW c \in Conns, LoopTop(c) \/ ReadFails(c) \/ Handle(c) \/ StreamEnds(c)
      PROVE  Counting'
      BY <1>3 DEF LoopTop, ReadFails, Handle, StreamEnds, IInv, Counting
<1>4. ASSUME NEW c \in Conns, ReadRequest(c)
      PROVE  Counting'
  <2>1. /\ inbox[c] \in Seq(Kinds) /\ inbox[c] # <<>>
        /\ conn[c] = "read" /\ count[c] \in 0..MaxRequests /\ count[c] < MaxRequests
        BY <1>4 DEF ReadRequest, Counting
  <2>2. Head(inbox[c]) \in Kinds /\ Tail(inbox[c]) \in Seq(Kinds)
        BY <2>1, HeadTailProperties
  <2>3. inbox' \in [Conns -> Seq(Kinds)]
        BY <1>4, <2>2 DEF ReadRequest, Counting
  <2>4. CASE Head(inbox[c]) = "malformed"
        BY <1>4, <2>3, <2>4 DEF ReadRequest, IInv, Counting
  <2>5. CASE Head(inbox[c]) # "malformed"
    <3>1. /\ conn' = [conn EXCEPT ![c] = "handle"]
          /\ request' = [request EXCEPT ![c] = Head(inbox[c])]
          /\ count' = [count EXCEPT ![c] = count[c] + 1]
          /\ UNCHANGED <<ctl, stop, listening, acceptor, starts>>
          BY <1>4, <2>5 DEF ReadRequest
    <3>2. request' \in [Conns -> Kinds \cup {"none"}]
          BY <2>2, <3>1 DEF Counting
    <3>3. count' \in [Conns -> 0..MaxRequests]
          BY <2>1, <3>1 DEF Counting
    <3> QED
        BY <2>3, <3>1, <3>2, <3>3 DEF IInv, Counting
  <2> QED
      BY <2>4, <2>5
<1>5. ASSUME NEW c \in Conns, WriteResponse(c)
      PROVE  Counting'
  <2>1. /\ UNCHANGED <<ctl, stop, listening, acceptor, starts, inbox, count>>
        /\ request' = [request EXCEPT ![c] = "none"]
        /\ conn'[c] \in {"stream", "top", "close"}
        /\ conn'[c] = "top" => count[c] < MaxRequests
        /\ \A d \in Conns \ {c} : conn'[d] = conn[d]
        BY <1>5 DEF WriteResponse, KeepAlive, IInv
  <2> QED
      BY <2>1 DEF Counting
<1>6. ASSUME NEW c \in Conns, CloseConnection(c)
      PROVE  Counting'
  <2>1. <<>> \in Seq(Kinds)
        OBVIOUS
  <2>2. inbox' \in [Conns -> Seq(Kinds)]
        BY <1>6, <2>1 DEF CloseConnection, Counting
  <2> QED
      BY <1>6, <2>2 DEF CloseConnection, IInv, Counting
<1>7. ASSUME NEW c \in Conns, NEW k \in Kinds, Send(c, k)
      PROVE  Counting'
  <2>1. inbox[c] \in Seq(Kinds)
        BY DEF Counting
  <2>2. Append(inbox[c], k) \in Seq(Kinds)
        BY <2>1, AppendProperties
  <2>3. inbox' \in [Conns -> Seq(Kinds)]
        BY <1>7, <2>2 DEF Send, Counting
  <2> QED
      BY <1>7, <2>3 DEF Send, Counting
<1>8. ASSUME NEW c \in Conns, Stall(c) \/ Trickle(c) \/ Resume(c) \/ Leave(c)
      PROVE  Counting'
      BY <1>8 DEF Stall, Trickle, Resume, Leave, ClientStep, Counting
<1>9. CASE UNCHANGED vars
      BY <1>9 DEF vars, Counting
<1> QED
    BY <1>1, <1>2, <1>3, <1>4, <1>5, <1>6, <1>7, <1>8, <1>9
    DEF Next, AcceptStep, ConnStep, ServeStep, Finished

(* Type correctness, and the limit of kMaxRequestsPerConn, for any limit.  *)
THEOREM TypeCorrect == Spec => []TypeOK
<1>1. IInv /\ Counting => TypeOK
      BY DEF IInv, Shape, Counting, TypeOK
<1> QED
    BY <1>1, InvInit, InvNext, CountInit, CountNext, PTL DEF Spec

----------------------------------------------------------------------------
(* Numbers and sequences.                                                  *)

LEMMA NatHasMin ==
    ASSUME NEW S, S \subseteq Nat, S # {}
    PROVE  Min(S) \in S /\ \A i \in S : Min(S) <= i
<1>1. PICK x \in S : \A y \in S : ~ (<<y, x>> \in OpToRel(<, Nat))
      BY NatLessThanWellFounded, WFMin, Zenon
<1>2. \A y \in S : x =< y
  <2> SUFFICES ASSUME NEW y \in S, y < x
               PROVE  FALSE
      BY SMT
  <2>1. <<y, x>> \in OpToRel(<, Nat)
        BY Zenon DEF OpToRel
  <2> QED
      BY <2>1, <1>1, Zenon
<1> QED
    BY <1>2, Zenon DEF Min

(* The smallest of a set is the element below which there is no other.     *)
LEMMA MinIs ==
    ASSUME NEW S, S \subseteq Nat, NEW m \in S, \A i \in S : m <= i
    PROVE  Min(S) = m
<1>1. Min(S) \in S /\ Min(S) <= m
      BY NatHasMin, Zenon
<1>2. Min(S) \in Nat /\ m \in Nat /\ m <= Min(S)
      BY <1>1, Zenon
<1> QED
    BY <1>1, <1>2, SMT

LEMMA ModIs ==
    ASSUME NEW n \in Nat, NEW w \in Nat, n < w
    PROVE  n % w = n
OBVIOUS

LEMMA ModTyped ==
    ASSUME NEW n \in Int, NEW w \in Nat \ {0}
    PROVE  n % w \in Nat /\ n % w < w
OBVIOUS

LEMMA FcnIsSeq ==
    ASSUME NEW S, NEW k \in Nat, NEW f \in [1..k -> S]
    PROVE  f \in Seq(S) /\ Len(f) = k
OBVIOUS

LEMMA Joined ==
    ASSUME NEW S, NEW s \in Seq(S), NEW t \in Seq(S)
    PROVE  /\ s \o t \in Seq(S) /\ Len(s \o t) = Len(s) + Len(t)
           /\ Len(s) \in Nat /\ Len(t) \in Nat
           /\ \A i \in 1..Len(s) : (s \o t)[i] = s[i]
           /\ \A i \in 1..Len(t) : (s \o t)[Len(s) + i] = t[i]
OBVIOUS

LEMMA Associative ==
    ASSUME NEW s \in Seq(Bytes), NEW t \in Seq(Bytes), NEW u \in Seq(Bytes)
    PROVE  (s \o t) \o u = s \o (t \o u)
BY ConcatAssociative

LEMMA JoinedIs ==
    ASSUME NEW S, NEW s \in Seq(S), NEW t \in Seq(S), NEW w, w = s \o t
    PROVE  /\ Len(w) = Len(s) + Len(t)
           /\ \A i \in 1..Len(s) : w[i] = s[i]
           /\ \A i \in 1..Len(t) : w[Len(s) + i] = t[i]
BY Joined

LEMMA JoinedThree ==
    ASSUME NEW S, NEW s \in Seq(S), NEW t \in Seq(S), NEW u \in Seq(S)
    PROVE  /\ s \o t \o u \in Seq(S) /\ Len(s \o t \o u) = Len(s) + Len(t) + Len(u)
           /\ \A i \in 1..Len(s) : (s \o t \o u)[i] = s[i]
           /\ \A i \in 1..Len(t) : (s \o t \o u)[Len(s) + i] = t[i]
           /\ \A i \in 1..Len(u) : (s \o t \o u)[Len(s) + Len(t) + i] = u[i]
<1>1. PICK v : v = s \o t
      OBVIOUS
<1>2. /\ v \in Seq(S) /\ Len(v) = Len(s) + Len(t)
      /\ \A i \in 1..Len(s) : v[i] = s[i]
      /\ \A i \in 1..Len(t) : v[Len(s) + i] = t[i]
      BY <1>1
<1> QED
    BY <1>1, <1>2

----------------------------------------------------------------------------
(* What a request looks like on the wire.                                  *)

LEMMA Constants ==
    /\ \A k \in Lines : k \in Nat \ {0}
    /\ \A n \in Lengths : n \in Int /\ 2 * n < Wrap
    /\ Wrap \in Nat \ {0} /\ Limit \in Nat \ {0} /\ Chunk \in Nat \ {0}
    /\ Chunk < Limit /\ 2 * Limit <= Wrap
BY HttpFramingAssumption

LEMMA ByteFacts ==
    /\ CR \in Bytes /\ LF \in Bytes /\ CR # LF
    /\ \A b \in {"line"} \X {0, 1} : b \in Bytes /\ b[1] = "line" /\ b # CR /\ b # LF
    /\ \A n \in Lengths : <<"length", n>> \in Bytes
    /\ \A n \in Int : <<"length", n>> # CR /\ <<"length", n>> # LF
    /\ \A n \in Int : <<"length", n>>[1] = "length" /\ <<"length", n>>[2] = n
    /\ CR[1] # "length" /\ LF[1] # "length" /\ CR # <<"line", 1>> /\ LF # <<"line", 1>>
BY DEF CR, LF, Bytes

LEMMA Fields ==
    ASSUME NEW r \in Requests
    PROVE  /\ r = [line |-> r.line, length |-> r.length, body |-> r.body]
           /\ r.line \in Seq({"line"} \X {0, 1})
           /\ Len(r.line) \in Nat \ {0}
           /\ r.line[1] \in {<<"line", 0>>, <<"line", 1>>}
           /\ r.length \in Lengths \cup {0}
           /\ r.length \in Int /\ 2 * r.length < Wrap
           /\ r.body \in Seq({CR, LF})
           /\ Len(r.body) = IF r.length > 0 THEN r.length ELSE 0
<1>1. CASE /\ r \in [line : UNION {[1..k -> {<<"line", 1>>}] : k \in Lines}, length : Lengths,
                     body : UNION {Bodies(n) : n \in Lengths}]
           /\ r.body \in Bodies(r.length)
  <2>1. PICK k \in Lines : r.line \in [1..k -> {<<"line", 1>>}]
        BY <1>1
  <2>2. k \in Nat \ {0} /\ r.line \in [1..k -> {"line"} \X {0, 1}] /\ r.line[1] = <<"line", 1>>
        BY <2>1, Constants
  <2>3. r.line \in Seq({"line"} \X {0, 1}) /\ Len(r.line) = k
        BY <2>2, FcnIsSeq
  <2>4. /\ r.length \in Lengths /\ r.length \in Int /\ 2 * r.length < Wrap
        /\ r.body \in [1..r.length -> {CR, LF}]
        BY <1>1, Constants DEF Bodies
  <2>5. r.body \in Seq({CR, LF}) /\ Len(r.body) = IF r.length > 0 THEN r.length ELSE 0
    <3>1. CASE r.length > 0
          BY <2>4, <3>1, FcnIsSeq
    <3>2. CASE ~(r.length > 0)
      <4>1. 1..r.length = 1..0
            BY <2>4, <3>2
      <4>2. r.body \in [1..0 -> {CR, LF}]
            BY <2>4, <4>1
      <4> QED
          BY <2>4, <4>2, <3>2, FcnIsSeq
    <3> QED
        BY <3>1, <3>2
  <2>6. r = [line |-> r.line, length |-> r.length, body |-> r.body]
        BY <1>1
  <2> QED
      BY <2>2, <2>3, <2>4, <2>5, <2>6
<1>2. CASE r \in [line : {<< <<"line", 0>> >>}, length : {0}, body : {<<>>}]
  <2>1. r.line = << <<"line", 0>> >> /\ r.length = 0 /\ r.body = <<>>
        BY <1>2
  <2>2. r.line \in Seq({"line"} \X {0, 1}) /\ Len(r.line) = 1 /\ r.line[1] = <<"line", 0>>
        BY <2>1
  <2> QED
      BY <2>1, <2>2, <1>2, Constants
<1> QED
    BY <1>1, <1>2, Zenon DEF Requests

(* Where the mark begins, less one.                                        *)
Before(r) == IF r.length = 0 THEN Len(r.line) ELSE Len(r.line) + 3

LEMMA HeadBytes ==
    ASSUME NEW r \in Requests
    PROVE  LET h == HeadOf(r)
               n == Len(r.line)
               m == Before(r)
           IN /\ h \in Seq(Bytes) /\ Len(h) = m + 4
              /\ n \in Nat \ {0} /\ m = IF r.length = 0 THEN n ELSE n + 3
              /\ \A i \in 1..n : h[i] = r.line[i]
              /\ r.length # 0 =>
                    h[n + 1] = CR /\ h[n + 2] = LF /\ h[n + 3] = <<"length", r.length>>
              /\ h[m + 1] = CR /\ h[m + 2] = LF /\ h[m + 3] = CR /\ h[m + 4] = LF
<1>1. PICK line, length : line = r.line /\ length = r.length
      OBVIOUS
<1> DEFINE field == IF length = 0 THEN <<>> ELSE <<CR, LF, <<"length", length>> >>
<1>2. /\ line \in Seq(Bytes) /\ Len(line) \in Nat \ {0}
      /\ length \in Int /\ (length = 0 \/ <<"length", length>> \in Bytes)
  <2>1. {"line"} \X {0, 1} \subseteq Bytes
        BY ByteFacts
  <2> QED
      BY <1>1, <2>1, Fields, ByteFacts, SeqMonotonic
<1>3. /\ field \in Seq(Bytes)
      /\ Len(field) = IF length = 0 THEN 0 ELSE 3
      /\ length # 0 => field[1] = CR /\ field[2] = LF /\ field[3] = <<"length", length>>
      BY <1>2, ByteFacts
<1>4. /\ HeadMark \in Seq(Bytes) /\ Len(HeadMark) = 4
      /\ HeadMark[1] = CR /\ HeadMark[2] = LF /\ HeadMark[3] = CR /\ HeadMark[4] = LF
      BY ByteFacts DEF HeadMark
<1>5. PICK h, m : /\ h = HeadOf(r) /\ m = Before(r)
                  /\ h = line \o field \o HeadMark
                  /\ m = IF length = 0 THEN Len(line) ELSE Len(line) + 3
      BY <1>1 DEF HeadOf, Before
<1> HIDE DEF field
<1>6. /\ h \in Seq(Bytes) /\ Len(h) = Len(line) + Len(field) + 4
      /\ \A i \in 1..Len(line) : h[i] = line[i]
      /\ \A i \in 1..Len(field) : h[Len(line) + i] = field[i]
      /\ \A i \in 1..4 : h[Len(line) + Len(field) + i] = HeadMark[i]
  <2>1. PICK f, k : f = field /\ k = HeadMark
        OBVIOUS
  <2>2. line \in Seq(Bytes) /\ f \in Seq(Bytes) /\ k \in Seq(Bytes) /\ h = line \o f \o k
        BY <1>2, <1>3, <1>4, <1>5, <2>1
  <2>3. /\ h \in Seq(Bytes) /\ Len(h) = Len(line) + Len(f) + Len(k)
        /\ \A i \in 1..Len(line) : h[i] = line[i]
        /\ \A i \in 1..Len(f) : h[Len(line) + i] = f[i]
        /\ \A i \in 1..Len(k) : h[Len(line) + Len(f) + i] = k[i]
        BY <2>2, JoinedThree
  <2> QED
      BY <2>1, <2>3, <1>4
<1>7. m = Len(line) + Len(field) /\ m \in Nat
      BY <1>2, <1>3, <1>5
<1>8. h[m + 1] = CR /\ h[m + 2] = LF /\ h[m + 3] = CR /\ h[m + 4] = LF
      BY <1>4, <1>6, <1>7
<1>9. length # 0 =>
          /\ h[Len(line) + 1] = CR /\ h[Len(line) + 2] = LF
          /\ h[Len(line) + 3] = <<"length", length>>
      BY <1>3, <1>6
<1>10. Len(h) = m + 4
      BY <1>6, <1>7
<1> QED
    BY <1>1, <1>2, <1>5, <1>6, <1>8, <1>9, <1>10, Zenon

----------------------------------------------------------------------------
(* What readRequest finds in a buffer that begins like a request.          *)
Agree(s, h) == \A i \in 1..Len(s) : i <= Len(h) => s[i] = h[i]

LEMMA MarkAt ==
    ASSUME NEW s \in Seq(Bytes), NEW i \in 1..(Len(s) - 3)
    PROVE  i \in Marks(s)
           <=> s[i] = CR /\ s[i + 1] = LF /\ s[i + 2] = CR /\ s[i + 3] = LF
<1>1. PICK t : t = SubSeq(s, i, i + 3)
      OBVIOUS
<1>2. Len(t) = 4 /\ t \in Seq(Bytes)
      /\ t[1] = s[i] /\ t[2] = s[i + 1] /\ t[3] = s[i + 2] /\ t[4] = s[i + 3]
      BY <1>1
<1>3. t = <<t[1], t[2], t[3], t[4]>>
      BY <1>2
<1>4. t = HeadMark <=> t[1] = CR /\ t[2] = LF /\ t[3] = CR /\ t[4] = LF
      BY <1>3, SMT DEF HeadMark
<1>5. i \in Marks(s) <=> t = HeadMark
      BY <1>1 DEF Marks
<1> QED
    BY <1>2, <1>4, <1>5

LEMMA HeadKinds ==
    ASSUME NEW r \in Requests, NEW i \in 1..Len(r.line)
    PROVE  HeadOf(r)[i] # CR /\ HeadOf(r)[i][1] # "length"
<1>1. HeadOf(r)[i] = r.line[i]
      BY HeadBytes
<1>2. r.line[i] \in {"line"} \X {0, 1}
      BY Fields, ElementOfSeq
<1> QED
    BY <1>1, <1>2, ByteFacts

(* The head h of r: a line of n bytes, perhaps the length, and from m + 1  *)
(* the mark; s agrees with it as far as it goes.                           *)
HasHead(r, s, h, n, m, l) ==
    /\ h = HeadOf(r) /\ n = Len(r.line) /\ l = <<"length", r.length>>
    /\ l # CR /\ l # LF /\ l[1] = "length"
    /\ n \in Nat \ {0} /\ h \in Seq(Bytes) /\ Len(h) = m + 4
    /\ \/ r.length = 0 /\ m = n
       \/ r.length # 0 /\ m = n + 3 /\ h[n + 1] = CR /\ h[n + 2] = LF /\ h[n + 3] = l
    /\ h[m + 1] = CR /\ h[m + 2] = LF /\ h[m + 3] = CR /\ h[m + 4] = LF
    /\ \A i \in 1..n : h[i] # CR /\ h[i][1] # "length"
    /\ \A i \in 1..Len(s) : i <= m + 4 => s[i] = h[i]

LEMMA HeadFacts ==
    ASSUME NEW r \in Requests, NEW s \in Seq(Bytes), Agree(s, HeadOf(r))
    PROVE  \E h, n, m, l : HasHead(r, s, h, n, m, l)
<1>1. PICK h, n, m : h = HeadOf(r) /\ n = Len(r.line) /\ m = Before(r)
      OBVIOUS
<1>2. PICK l : l = <<"length", r.length>>
      OBVIOUS
<1>3. l # CR /\ l # LF /\ l[1] = "length"
      BY <1>2, Fields, ByteFacts
<1>4. /\ n \in Nat \ {0} /\ h \in Seq(Bytes) /\ Len(h) = m + 4
      /\ h[m + 1] = CR /\ h[m + 2] = LF /\ h[m + 3] = CR /\ h[m + 4] = LF
      BY <1>1, HeadBytes
<1>5. \/ r.length = 0 /\ m = n
      \/ r.length # 0 /\ m = n + 3 /\ h[n + 1] = CR /\ h[n + 2] = LF /\ h[n + 3] = l
      BY <1>1, <1>2, HeadBytes
<1>6. \A i \in 1..n : h[i] # CR /\ h[i][1] # "length"
      BY <1>1, HeadKinds
<1>7. \A i \in 1..Len(s) : i <= m + 4 => s[i] = h[i]
      BY <1>1, <1>4 DEF Agree
<1>8. HasHead(r, s, h, n, m, l)
      BY <1>1, <1>2, <1>3, <1>4, <1>5, <1>6, <1>7, Zenon DEF HasHead
<1> QED
    BY <1>8, Zenon

LEMMA FirstMark ==
    ASSUME NEW r \in Requests, NEW s \in Seq(Bytes), Agree(s, HeadOf(r))
    PROVE  FindMark(s) = IF Len(s) < Len(HeadOf(r)) THEN 0 ELSE Len(HeadOf(r))
<1>1. PICK h, n, m, l : HasHead(r, s, h, n, m, l)
      BY HeadFacts, Zenon
<1>2. h = HeadOf(r)
      BY <1>1, Zenon DEF HasHead
<1>3. l # CR
      BY <1>1, Zenon DEF HasHead
<1>4. /\ n \in Nat \ {0} /\ h \in Seq(Bytes) /\ Len(h) = m + 4
      /\ \/ m = n
         \/ m = n + 3 /\ h[n + 1] = CR /\ h[n + 2] = LF /\ h[n + 3] = l
      /\ h[m + 1] = CR /\ h[m + 2] = LF /\ h[m + 3] = CR /\ h[m + 4] = LF
      BY <1>1, Zenon DEF HasHead
<1>5. \A i \in 1..n : h[i] # CR
      BY <1>1, Zenon DEF HasHead
<1>6. \A i \in 1..Len(s) : i <= m + 4 => s[i] = h[i]
      BY <1>1, Zenon DEF HasHead
<1>7. \A i \in 1..(Len(s) - 3) : i <= m => i \notin Marks(s)
  <2> SUFFICES ASSUME NEW i \in 1..(Len(s) - 3), i <= m
               PROVE  s[i] # CR \/ s[i + 2] # CR
      BY MarkAt
  <2>1. s[i] = h[i] /\ s[i + 2] = h[i + 2]
        BY <1>4, <1>6
  <2> QED
      BY <2>1, <1>3, <1>4, <1>5, ByteFacts
<1>8. \A i \in Marks(s) : i \in 1..(Len(s) - 3) /\ i >= m + 1
      BY <1>4, <1>7 DEF Marks
<1>9. CASE Len(s) < m + 4
  <2>1. Marks(s) = {}
        BY <1>4, <1>8, <1>9
  <2> QED
      BY <2>1, <1>2, <1>4, <1>9 DEF FindMark
<1>10. CASE Len(s) >= m + 4
  <2>1. m + 1 \in Marks(s)
    <3>1. m + 1 \in 1..(Len(s) - 3)
          BY <1>4, <1>10
    <3>2. /\ s[m + 1] = h[m + 1] /\ s[m + 2] = h[m + 2]
          /\ s[m + 3] = h[m + 3] /\ s[m + 4] = h[m + 4]
          BY <1>4, <1>6, <1>10
    <3>3. (m + 1) + 1 = m + 2 /\ (m + 1) + 2 = m + 3 /\ (m + 1) + 3 = m + 4
          BY <1>4
    <3> QED
        BY <3>1, <3>2, <3>3, <1>4, MarkAt
  <2>2. Marks(s) \subseteq Nat
        BY DEF Marks
  <2>3. Min(Marks(s)) = m + 1
        BY <2>1, <2>2, <1>4, <1>8, MinIs
  <2> QED
      BY <2>1, <2>3, <1>2, <1>4, <1>10 DEF FindMark
<1> QED
    BY <1>4, <1>9, <1>10

LEMMA FirstLength ==
    ASSUME NEW r \in Requests, NEW s \in Seq(Bytes), Agree(s, HeadOf(r)),
           Len(HeadOf(r)) <= Len(s)
    PROVE  LET i == SelectInSubSeq(s, 1, Len(HeadOf(r)), LAMBDA b : b[1] = "length")
           IN IF r.length = 0 THEN i = 0 ELSE i # 0 /\ s[i] = <<"length", r.length>>
<1>1. PICK h, n, m, l : HasHead(r, s, h, n, m, l)
      BY HeadFacts, Zenon
<1>2. h = HeadOf(r) /\ l = <<"length", r.length>>
      BY <1>1, Zenon DEF HasHead
<1>3. /\ n \in Nat \ {0} /\ Len(h) = m + 4 /\ l[1] = "length"
      /\ \/ r.length = 0 /\ m = n
         \/ r.length # 0 /\ m = n + 3 /\ h[n + 1] = CR /\ h[n + 2] = LF /\ h[n + 3] = l
      /\ h[m + 1] = CR /\ h[m + 2] = LF /\ h[m + 3] = CR /\ h[m + 4] = LF
      BY <1>1, Zenon DEF HasHead
<1>4. \A i \in 1..n : h[i][1] # "length"
      BY <1>1, Zenon DEF HasHead
<1>5. \A i \in 1..(m + 4) : s[i] = h[i]
  <2>1. \A i \in 1..Len(s) : i <= m + 4 => s[i] = h[i]
        BY <1>1, Zenon DEF HasHead
  <2> QED
      BY <2>1, <1>2, <1>3
<1> DEFINE I == {i \in 1..(m + 4) : s[i][1] = "length"}
<1>6. SelectInSubSeq(s, 1, Len(h), LAMBDA b : b[1] = "length") = IF I # {} THEN Min(I) ELSE 0
      BY <1>3 DEF SelectInSubSeq
<1>7. \A i \in I : i = n + 3 /\ m = n + 3
  <2> SUFFICES ASSUME NEW i \in 1..(m + 4), h[i][1] = "length"
               PROVE  i = n + 3 /\ m = n + 3
      BY <1>5
  <2>1. h[i] # CR /\ h[i] # LF
        BY ByteFacts
  <2>2. i \notin 1..n
        BY <1>4
  <2>3. i # m + 1 /\ i # m + 2 /\ i # m + 3 /\ i # m + 4
        BY <2>1, <1>3, Zenon
  <2>4. m = n \/ (m = n + 3 /\ i # n + 1 /\ i # n + 2)
        BY <2>1, <1>3, Zenon
  <2>5. n \in Nat
        BY <1>3
  <2> QED
      BY <2>2, <2>3, <2>4, <2>5
<1>8. CASE r.length = 0
  <2>1. I = {}
        BY <1>3, <1>7, <1>8
  <2> QED
      BY <2>1, <1>2, <1>6, <1>8
<1>9. CASE r.length # 0
  <2>1. m = n + 3 /\ n + 3 \in 1..(m + 4) /\ s[n + 3] = l
        BY <1>3, <1>5, <1>9
  <2>2. n + 3 \in I /\ I \subseteq Nat
        BY <2>1, <1>3
  <2>3. Min(I) = n + 3
    <3>1. \A i \in I : n + 3 <= i
          BY <1>3, <1>7
    <3> HIDE DEF I
    <3> QED
        BY <2>2, <3>1, MinIs
  <2> QED
      BY <2>1, <2>2, <2>3, <1>2, <1>3, <1>6, <1>9
<1> QED
    BY <1>8, <1>9

LEMMA FirstCR ==
    ASSUME NEW r \in Requests, NEW s \in Seq(Bytes), Agree(s, HeadOf(r)),
           Len(HeadOf(r)) <= Len(s)
    PROVE  SelectInSubSeq(s, 1, Len(HeadOf(r)), LAMBDA b : b = CR) = Len(r.line) + 1
<1>1. PICK h, n, m, l : HasHead(r, s, h, n, m, l)
      BY HeadFacts, Zenon
<1>2. h = HeadOf(r) /\ n = Len(r.line)
      BY <1>1, Zenon DEF HasHead
<1>3. /\ n \in Nat \ {0} /\ Len(h) = m + 4
      /\ \/ m = n
         \/ m = n + 3 /\ h[n + 1] = CR
      /\ h[m + 1] = CR
      BY <1>1, Zenon DEF HasHead
<1>4. \A i \in 1..n : h[i] # CR
      BY <1>1, Zenon DEF HasHead
<1>5. \A i \in 1..(m + 4) : s[i] = h[i]
  <2>1. \A i \in 1..Len(s) : i <= m + 4 => s[i] = h[i]
        BY <1>1, Zenon DEF HasHead
  <2> QED
      BY <2>1, <1>2, <1>3
<1> DEFINE I == {i \in 1..(m + 4) : s[i] = CR}
<1>6. SelectInSubSeq(s, 1, Len(h), LAMBDA b : b = CR) = IF I # {} THEN Min(I) ELSE 0
      BY <1>3 DEF SelectInSubSeq
<1>7. n + 1 \in I /\ I \subseteq Nat
      BY <1>3, <1>5
<1>8. \A i \in I : n + 1 <= i
      BY <1>3, <1>4, <1>5
<1>9. Min(I) = n + 1
      BY <1>3, <1>7, <1>8, MinIs
<1> QED
    BY <1>2, <1>6, <1>7, <1>9

----------------------------------------------------------------------------
(* Types.                                                                  *)

LEMMA FindMarkTyped ==
    ASSUME NEW s \in Seq(Bytes)
    PROVE  /\ FindMark(s) \in 0..Len(s)
           /\ FindMark(s) # 0 =>
                 FindMark(s) > 3 /\ SubSeq(s, FindMark(s) - 3, FindMark(s)) = HeadMark
<1>1. CASE Marks(s) = {}
      BY <1>1 DEF FindMark
<1>2. CASE Marks(s) # {}
  <2>1. PICK i : i = Min(Marks(s))
        OBVIOUS
  <2>2. Marks(s) \subseteq Nat
        BY DEF Marks
  <2>3. i \in Marks(s)
        BY <2>1, <2>2, <1>2, NatHasMin
  <2>4. i \in 1..(Len(s) - 3) /\ SubSeq(s, i, i + 3) = HeadMark
        BY <2>3 DEF Marks
  <2>5. FindMark(s) = i + 3
        BY <2>1, <1>2 DEF FindMark
  <2>6. i + 3 \in 0..Len(s) /\ i + 3 > 3 /\ (i + 3) - 3 = i
        BY <2>4
  <2> QED
      BY <2>4, <2>5, <2>6
<1> QED
    BY <1>1, <1>2

(* recv moves the first bytes of coming to the end of raw.                 *)
LEMMA RecvTyped ==
    ASSUME FramingTypeOK, Recv
    PROVE  /\ raw' \in Seq(Bytes) /\ coming' \in Seq(Bytes)
           /\ raw' \o coming' = raw \o coming
           /\ Len(raw') <= Len(raw) + Chunk /\ Len(raw) <= Len(raw')
           /\ \A i \in 1..Len(raw) : raw'[i] = raw[i]
<1>1. raw \in Seq(Bytes) /\ coming \in Seq(Bytes) /\ Chunk \in Nat \ {0}
      BY Constants DEF FramingTypeOK
<1>2. PICK n \in 1..Chunk : /\ n <= Len(coming)
                            /\ raw' = raw \o SubSeq(coming, 1, n)
                            /\ coming' = SubSeq(coming, n + 1, Len(coming))
      BY DEF Recv
<1>3. PICK t : t = SubSeq(coming, 1, n)
      OBVIOUS
<1>4. t \in Seq(Bytes) /\ Len(t) = n /\ coming' \in Seq(Bytes)
      BY <1>1, <1>2, <1>3
<1>5. t \o coming' = coming
  <2>1. SubSeq(coming, 1, n) \o SubSeq(coming, n + 1, Len(coming)) = SubSeq(coming, 1, Len(coming))
        BY <1>1, <1>2, ConcatAdjacentSubSeq
  <2> QED
      BY <2>1, <1>1, <1>2, <1>3, SubSeqFull
<1>6. raw' \o coming' = raw \o coming
  <2>1. raw' \o coming' = (raw \o t) \o coming'
        BY <1>2, <1>3
  <2>2. (raw \o t) \o coming' = raw \o (t \o coming')
        BY <1>1, <1>4, ConcatAssociative
  <2> QED
      BY <2>1, <2>2, <1>5
<1>7. /\ raw' \in Seq(Bytes) /\ Len(raw') = Len(raw) + n
      /\ \A i \in 1..Len(raw) : raw'[i] = raw[i]
      BY <1>1, <1>2, <1>3, <1>4, Joined
<1>8. Len(raw') <= Len(raw) + Chunk /\ Len(raw) <= Len(raw')
      BY <1>1, <1>2, <1>7
<1> QED
    BY <1>4, <1>6, <1>7, <1>8

LEMMA SubSeqKept ==
    ASSUME NEW s \in Seq(Bytes), NEW t \in Seq(Bytes), Len(s) <= Len(t),
           \A i \in 1..Len(s) : t[i] = s[i], NEW k \in 4..Len(s)
    PROVE  SubSeq(t, k - 3, k) = SubSeq(s, k - 3, k)
<1>1. PICK u, v : u = SubSeq(s, k - 3, k) /\ v = SubSeq(t, k - 3, k)
      OBVIOUS
<1>2. u \in Seq(Bytes) /\ Len(u) = 4 /\ \A i \in 1..4 : u[i] = s[k - 4 + i]
      BY <1>1
<1>3. v \in Seq(Bytes) /\ Len(v) = 4 /\ \A i \in 1..4 : v[i] = t[k - 4 + i]
      BY <1>1
<1>4. \A i \in 1..4 : u[i] = v[i]
  <2> SUFFICES ASSUME NEW i \in 1..4
               PROVE  u[i] = v[i]
      OBVIOUS
  <2>1. k - 4 + i \in 1..Len(s)
        OBVIOUS
  <2> QED
      BY <2>1, <1>2, <1>3
<1> QED
    BY <1>1, <1>2, <1>3, <1>4, SeqEqual

LEMMA RequestTyped ==
    ASSUME FramingTypeOK
    PROVE  /\ ContentLength \in Nat /\ RequestEnd \in Nat
           /\ Request \in [line : Seq(Bytes), length : Nat, body : Seq(Bytes)]
<1>1. raw \in Seq(Bytes) /\ headEnd \in 0..Len(raw) /\ Wrap \in Nat \ {0}
      BY Constants DEF FramingTypeOK
<1>2. ContentLength \in Nat
  <2> DEFINE I == {i \in 1..headEnd : raw[i][1] = "length"}
  <2>1. ContentLength = LET i == IF I # {} THEN Min(I) ELSE 0
                        IN IF i = 0 THEN 0 ELSE raw[i][2] % Wrap
        BY DEF ContentLength, SelectInSubSeq
  <2>2. \A i \in I : i # 0 /\ raw[i][2] \in Int
    <3> SUFFICES ASSUME NEW i \in 1..headEnd, raw[i][1] = "length"
                 PROVE  raw[i][2] \in Int
        OBVIOUS
    <3>1. raw[i] \in Bytes
          BY <1>1
    <3> QED
        BY <3>1, Constants, ByteFacts DEF Bytes
  <2>3. CASE I = {}
        BY <2>1, <2>3
  <2>4. CASE I # {}
    <3>1. I \subseteq Nat
          OBVIOUS
    <3> HIDE DEF I
    <3>2. Min(I) \in I
          BY <3>1, <2>4, NatHasMin
    <3>3. Min(I) # 0 /\ raw[Min(I)][2] \in Int
          BY <3>2, <2>2
    <3> QED
        BY <3>3, <2>1, <2>4, <1>1, ModTyped
  <2> QED
      BY <2>3, <2>4
<1>3. RequestEnd \in Nat
      BY <1>1, <1>2, ModTyped DEF RequestEnd
<1>4. LineEnd \in 0..Len(raw)
  <2> DEFINE I == {i \in 1..headEnd : raw[i] = CR}
  <2>1. LineEnd = IF I # {} THEN Min(I) ELSE 0
        BY DEF LineEnd, SelectInSubSeq
  <2>2. I \subseteq 1..headEnd /\ I \subseteq Nat
        BY <1>1
  <2> HIDE DEF I
  <2>3. I # {} => Min(I) \in 1..headEnd
        BY <2>2, NatHasMin
  <2> QED
      BY <2>1, <2>3, <1>1
<1>5. SubSeq(raw, 1, LineEnd - 1) \in Seq(Bytes)
      BY <1>1, <1>4
<1>6. SubSeq(raw, headEnd + 1, Min({headEnd + ContentLength, Len(raw)})) \in Seq(Bytes)
  <2>1. PICK a, b : a = headEnd + ContentLength /\ b = Len(raw)
        OBVIOUS
  <2>2. a \in Nat /\ b \in Nat
        BY <2>1, <1>1, <1>2
  <2>3. Min({a, b}) \in {a, b} /\ Min({a, b}) <= b
        BY <2>2, NatHasMin
  <2>4. PICK e : e = Min({a, b})
        OBVIOUS
  <2>5. SubSeq(raw, headEnd + 1, e) \in Seq(Bytes)
    <3>1. e \in Nat /\ e <= Len(raw) /\ headEnd \in Nat
          BY <2>1, <2>2, <2>3, <2>4, <1>1
    <3> QED
        BY <3>1, <1>1
  <2> QED
      BY <2>1, <2>4, <2>5
<1> QED
    BY <1>2, <1>3, <1>5, <1>6 DEF Request

LEMMA BytesTyped ==
    ASSUME NEW r \in Requests
    PROVE  /\ HeadOf(r) \in Seq(Bytes) /\ r.body \in Seq(Bytes)
           /\ BytesOf(r) \in Seq(Bytes)
           /\ Len(BytesOf(r)) = Len(HeadOf(r)) + Len(r.body)
<1>1. HeadOf(r) \in Seq(Bytes)
      BY HeadBytes
<1>2. r.body \in Seq(Bytes)
      BY Fields, ByteFacts, SeqMonotonic
<1> QED
    BY <1>1, <1>2, Joined DEF BytesOf

LEMMA TypeNext == FramingTypeOK /\ [FramingNext]_framingVars => FramingTypeOK'
<1> SUFFICES ASSUME FramingTypeOK, [FramingNext]_framingVars
             PROVE  FramingTypeOK'
    OBVIOUS
<1>1. CASE SendRequest
  <2>1. PICK r \in Requests : sent' = Append(sent, r) /\ coming' = coming \o BytesOf(r)
        BY <1>1 DEF SendRequest
  <2>2. coming' \in Seq(Bytes)
        BY <2>1, BytesTyped, Joined DEF FramingTypeOK
  <2> QED
      BY <2>1, <2>2, <1>1 DEF SendRequest, FramingTypeOK
<1>2. CASE FindHead
      BY <1>2, FindMarkTyped DEF FindHead, FramingTypeOK
<1>3. CASE ReadHead \/ ReadBody
  <2>1. /\ Recv /\ UNCHANGED <<sent, pc, headEnd, got, cause>>
        BY <1>3 DEF ReadHead, ReadBody
  <2>2. pc \in {"parse", "body"} => SubSeq(raw', headEnd - 3, headEnd) = HeadMark
        BY <2>1, RecvTyped, SubSeqKept DEF FramingTypeOK
  <2>3. headEnd \in 0..Len(raw')
        BY <2>1, RecvTyped DEF FramingTypeOK
  <2> QED
      BY <2>1, <2>2, <2>3, RecvTyped DEF FramingTypeOK
<1>4. CASE HeadTooLong \/ ParseFails \/ RecvEnds
  <2>1. /\ pc' = "closed" /\ cause' \in {"limit", "malformed", "end", "idle"}
        /\ UNCHANGED <<sent, coming, raw, headEnd, got>>
        BY <1>4 DEF HeadTooLong, ParseFails, RecvEnds, Refuse
  <2> QED
      BY <2>1 DEF FramingTypeOK
<1>5. CASE Parse
      BY <1>5 DEF Parse, FramingTypeOK
<1>6. CASE Cut
  <2>1. got' \in Seq([line : Seq(Bytes), length : Nat, body : Seq(Bytes)])
        BY <1>6, RequestTyped DEF Cut, FramingTypeOK
  <2>2. raw' \in Seq(Bytes)
    <3>1. PICK n \in Nat, s \in Seq(Bytes) : n = RequestEnd /\ s = raw
          BY RequestTyped DEF FramingTypeOK
    <3>2. SubSeq(s, n + 1, Len(s)) \in Seq(Bytes)
          OBVIOUS
    <3> QED
        BY <3>1, <3>2, <1>6 DEF Cut
  <2> QED
      BY <2>1, <2>2, <1>6 DEF Cut, FramingTypeOK
<1>7. CASE UNCHANGED framingVars
      BY <1>7 DEF framingVars, FramingTypeOK
<1> QED
    BY <1>1, <1>2, <1>3, <1>4, <1>5, <1>6, <1>7 DEF FramingNext, FramingFinished

(* Every variable keeps its type, and a head that was found stays found    *)
(* (readRequest's raw and headerEnd).                                      *)
THEOREM FramingTypeCorrect == FramingSpec => []FramingTypeOK
<1>1. FramingInit => FramingTypeOK
      BY DEF FramingInit, FramingTypeOK
<1> QED
    BY <1>1, TypeNext, PTL DEF FramingSpec

----------------------------------------------------------------------------
(* The inductive invariant.  What was received and what is coming are the  *)
(* requests not yet returned, one after the other: rest[k] begins with the *)
(* k-th.                                                                   *)
Split(rest) ==
    /\ rest \in [1..(Len(sent) + 1) -> Seq(Bytes)]
    /\ rest[Len(got) + 1] = raw \o coming
    /\ rest[Len(sent) + 1] = <<>>
    /\ \A k \in (Len(got) + 1)..Len(sent) : rest[k] = BytesOf(sent[k]) \o rest[k + 1]

Good(k) == ~Malformed(sent[k]) /\ Len(HeadOf(sent[k])) < Limit

Returned ==
    /\ Len(got) <= Len(sent)
    /\ \A k \in 1..Len(got) : got[k] = sent[k] /\ Good(k)

(* How far readRequest is with the request r, and how little of the next   *)
(* it has received.                                                        *)
AtHead(r) == Len(raw) < Len(HeadOf(r)) + Chunk

AtBody(r) ==
    /\ headEnd = Len(HeadOf(r)) /\ headEnd < Limit
    /\ pc = "body" => ~Malformed(r)
    /\ r.length >= 0 => Len(raw) < Len(BytesOf(r)) + Chunk

Current ==
    IF Len(got) = Len(sent)
    THEN pc \in {"head", "closed"}
    ELSE LET r == sent[Len(got) + 1]
         IN /\ pc = "head" => AtHead(r)
            /\ pc \in {"parse", "body"} => AtBody(r)

Framed == Sane(Len(got)) => Returned /\ Current /\ \E rest : Split(rest)

FramingInv ==
    /\ FramingTypeOK
    /\ Framed
    /\ RequestsIntact
    /\ IF pc = "closed" THEN RefusedWithCause ELSE cause = "none"

LEMMA FramingInvInit == FramingInit => FramingInv
<1> SUFFICES ASSUME FramingInit
             PROVE  FramingInv
    OBVIOUS
<1>1. FramingTypeOK
      BY DEF FramingInit, FramingTypeOK
<1>2. Split([k \in 1..1 |-> <<>>])
      BY DEF FramingInit, Split
<1>3. Returned /\ Current
      BY DEF FramingInit, Returned, Current
<1> QED
    BY <1>1, <1>2, <1>3 DEF FramingInv, Framed, FramingInit, RequestsIntact

----------------------------------------------------------------------------
(* The request at the front.                                               *)

(* a, of which b is still to come, begins with h and then y.               *)
Begins(a, b, h, y, z) ==
    /\ Agree(a, h)
    /\ \A i \in 1..Len(y) : Len(h) + i <= Len(a) => a[Len(h) + i] = y[i]
    /\ Len(a) + Len(b) = Len(h) + Len(y) + Len(z)

LEMMA Fronts ==
    ASSUME NEW a \in Seq(Bytes), NEW b \in Seq(Bytes),
           NEW h \in Seq(Bytes), NEW y \in Seq(Bytes), NEW z \in Seq(Bytes),
           a \o b = (h \o y) \o z
    PROVE  Begins(a, b, h, y, z)
<1>1. PICK w : w = a \o b
      OBVIOUS
<1>2. /\ w \in Seq(Bytes) /\ Len(w) = Len(a) + Len(b)
      /\ \A i \in 1..Len(a) : w[i] = a[i]
      BY <1>1, Joined
<1>3. /\ Len(w) = Len(h) + Len(y) + Len(z)
      /\ \A i \in 1..Len(h) : w[i] = h[i]
      /\ \A i \in 1..Len(y) : w[Len(h) + i] = y[i]
      BY <1>1, JoinedThree
<1>4. Len(a) \in Nat /\ Len(h) \in Nat /\ Len(y) \in Nat
      OBVIOUS
<1>5. Agree(a, h)
      BY <1>2, <1>3, <1>4 DEF Agree
<1>6. \A i \in 1..Len(y) : Len(h) + i <= Len(a) => a[Len(h) + i] = y[i]
  <2> SUFFICES ASSUME NEW i \in 1..Len(y), Len(h) + i <= Len(a)
               PROVE  a[Len(h) + i] = y[i]
      OBVIOUS
  <2>1. Len(h) + i \in 1..Len(a)
        BY <1>4
  <2> QED
      BY <2>1, <1>2, <1>3
<1>7. Len(a) + Len(b) = Len(h) + Len(y) + Len(z)
      BY <1>2, <1>3
<1> QED
    BY <1>5, <1>6, <1>7 DEF Begins

LEMMA CutFront ==
    ASSUME NEW a \in Seq(Bytes), NEW b \in Seq(Bytes),
           NEW p \in Seq(Bytes), NEW z \in Seq(Bytes),
           a \o b = p \o z, Len(p) <= Len(a)
    PROVE  SubSeq(a, Len(p) + 1, Len(a)) \o b = z
<1>1. PICK w, t, u : w = a \o b /\ t = SubSeq(a, Len(p) + 1, Len(a)) /\ u = t \o b
      OBVIOUS
<1>2. Len(a) \in Nat /\ Len(b) \in Nat /\ Len(p) \in Nat /\ Len(z) \in Nat
      OBVIOUS
<1>3. /\ t \in Seq(Bytes) /\ Len(t) = Len(a) - Len(p)
      /\ \A i \in 1..Len(t) : t[i] = a[Len(p) + i]
      BY <1>1, <1>2
<1>4. /\ Len(w) = Len(a) + Len(b)
      /\ \A i \in 1..Len(a) : w[i] = a[i]
      /\ \A i \in 1..Len(b) : w[Len(a) + i] = b[i]
  <2>1. w = a \o b
        BY <1>1
  <2> QED
      BY ONLY <2>1, JoinedIs, a \in Seq(Bytes), b \in Seq(Bytes)
<1>5. /\ Len(w) = Len(p) + Len(z)
      /\ \A i \in 1..Len(z) : w[Len(p) + i] = z[i]
  <2>1. w = p \o z
        BY <1>1
  <2> QED
      BY <2>1, Joined
<1>6. /\ u \in Seq(Bytes) /\ Len(u) = Len(t) + Len(b)
      /\ \A i \in 1..Len(t) : u[i] = t[i]
      /\ \A i \in 1..Len(b) : u[Len(t) + i] = b[i]
  <2>1. u = t \o b /\ t \in Seq(Bytes)
        BY <1>1, <1>3
  <2> QED
      BY <2>1, Joined
<1>7. Len(u) = Len(z)
      BY <1>2, <1>3, <1>4, <1>5, <1>6
<1>8. \A i \in 1..Len(u) : u[i] = z[i]
  <2> SUFFICES ASSUME NEW i \in 1..Len(u)
               PROVE  u[i] = w[Len(p) + i]
      BY <1>5, <1>7
  <2>1. CASE i <= Len(t)
    <3>1. i \in 1..Len(t) /\ Len(p) + i \in 1..Len(a)
          BY <2>1, <1>2, <1>3
    <3> QED
        BY <3>1, <1>3, <1>4, <1>6
  <2>2. CASE i > Len(t)
    <3>1. PICK j \in 1..Len(b) : i = Len(t) + j
      <4>1. i - Len(t) \in 1..Len(b) /\ i = Len(t) + (i - Len(t))
            BY <2>2, <1>2, <1>3, <1>6
      <4> QED
          BY <4>1
    <3>2. Len(p) + i = Len(a) + j
          BY <3>1, <1>2, <1>3
    <3> QED
        BY <3>1, <3>2, <1>4, <1>6
  <2> QED
      BY <2>1, <2>2, <1>3, <1>6
<1>9. u = z
      BY <1>6, <1>7, <1>8, SeqEqual
<1> QED
    BY <1>1, <1>9

(* The bytes at hand begin with those of r, the next request.              *)
Facing(r) ==
    /\ r \in Requests
    /\ Agree(raw, HeadOf(r))
    /\ \A i \in 1..Len(r.body) :
          Len(HeadOf(r)) + i <= Len(raw) => raw[Len(HeadOf(r)) + i] = r.body[i]
    /\ Len(raw) + Len(coming) >= Len(BytesOf(r))

LEMMA Typed ==
    ASSUME FramingTypeOK
    PROVE  /\ Len(got) \in Nat /\ Len(sent) \in Nat
           /\ \A k \in 1..Len(sent) : sent[k] \in Requests
           /\ raw \in Seq(Bytes) /\ coming \in Seq(Bytes)
           /\ Len(raw) \in Nat /\ Len(coming) \in Nat
           /\ headEnd \in Nat /\ headEnd <= Len(raw)
BY DEF FramingTypeOK

LEMMA FacingNext ==
    ASSUME FramingTypeOK, NEW rest, Split(rest), Len(got) < Len(sent)
    PROVE  /\ Facing(sent[Len(got) + 1])
           /\ raw \o coming = BytesOf(sent[Len(got) + 1]) \o rest[Len(got) + 2]
<1>1. PICK k \in 1..Len(sent) : k = Len(got) + 1 /\ k + 1 = Len(got) + 2
  <2>1. Len(got) + 1 \in 1..Len(sent) /\ (Len(got) + 1) + 1 = Len(got) + 2
        BY Typed
  <2> QED
      BY <2>1
<1>2. PICK r, z : r = sent[k] /\ z = rest[k + 1]
      OBVIOUS
<1>3. r \in Requests /\ raw \in Seq(Bytes) /\ coming \in Seq(Bytes)
      BY <1>2, Typed
<1>4. z \in Seq(Bytes)
  <2>1. k + 1 \in 1..(Len(sent) + 1)
        BY Typed
  <2> QED
      BY <1>2, <2>1 DEF Split
<1>5. raw \o coming = BytesOf(r) \o z
  <2>1. k \in (Len(got) + 1)..Len(sent)
        BY <1>1, Typed
  <2> QED
      BY <1>1, <1>2, <2>1 DEF Split
<1>6. PICK h, y : h = HeadOf(r) /\ y = r.body
      OBVIOUS
<1>7. h \in Seq(Bytes) /\ y \in Seq(Bytes) /\ raw \o coming = (h \o y) \o z
      BY <1>3, <1>5, <1>6, BytesTyped DEF BytesOf
<1>8. /\ Agree(raw, h)
      /\ \A i \in 1..Len(y) : Len(h) + i <= Len(raw) => raw[Len(h) + i] = y[i]
      /\ Len(raw) + Len(coming) = Len(h) + Len(y) + Len(z)
  <2>1. Begins(raw, coming, h, y, z)
        BY <1>3, <1>4, <1>7, Fronts, Zenon
  <2> QED
      BY <2>1 DEF Begins
<1>9. Len(raw) + Len(coming) >= Len(BytesOf(r))
  <2>1. Len(h) \in Nat /\ Len(y) \in Nat /\ Len(z) \in Nat
        BY <1>4, <1>7
  <2>2. Len(BytesOf(r)) = Len(h) + Len(y)
        BY <1>3, <1>6, BytesTyped
  <2> QED
      BY <2>1, <2>2, <1>8
<1>10. Facing(r)
      BY <1>3, <1>6, <1>8, <1>9 DEF Facing
<1> QED
    BY <1>1, <1>2, <1>5, <1>10

LEMMA NothingAhead ==
    ASSUME FramingTypeOK, NEW rest, Split(rest), Len(got) = Len(sent)
    PROVE  Len(raw) = 0 /\ Len(coming) = 0 /\ FindMark(raw) = 0
<1>1. raw \o coming = <<>>
      BY DEF Split
<1>2. Len(raw) = 0 /\ Len(coming) = 0
      BY <1>1, Typed
<1>3. FindMark(raw) \in 0..Len(raw)
      BY Typed, FindMarkTyped
<1>4. FindMark(raw) = 0
      BY <1>2, <1>3
<1> QED
    BY <1>2, <1>4

LEMMA LengthIs ==
    ASSUME FramingTypeOK, NEW r \in Requests, Agree(raw, HeadOf(r)),
           headEnd = Len(HeadOf(r)), headEnd < Limit, r.length >= 0
    PROVE  /\ ContentLength = r.length
           /\ RequestEnd = headEnd + r.length /\ RequestEnd = Len(BytesOf(r))
<1>1. /\ r.length \in Nat /\ 2 * r.length < Wrap /\ Len(r.body) = r.length
      /\ raw \in Seq(Bytes) /\ headEnd \in Nat /\ headEnd <= Len(raw)
      BY Typed, Fields
<1>2. ContentLength = r.length
  <2> DEFINE i == SelectInSubSeq(raw, 1, headEnd, LAMBDA b : b[1] = "length")
  <2>1. IF r.length = 0 THEN i = 0 ELSE i # 0 /\ raw[i] = <<"length", r.length>>
        BY <1>1, FirstLength
  <2>2. ContentLength = IF i = 0 THEN 0 ELSE raw[i][2] % Wrap
        BY DEF ContentLength
  <2> HIDE DEF i
  <2>3. CASE r.length = 0
        BY <2>1, <2>2, <2>3
  <2>4. CASE r.length # 0
    <3>1. raw[i][2] = r.length
          BY <2>1, <2>4
    <3>2. r.length % Wrap = r.length
      <4>1. PICK n \in Nat, w \in Nat : n = r.length /\ w = Wrap /\ n < w
            BY <1>1, Constants
      <4> QED
          BY <4>1, ModIs
    <3> QED
        BY <2>1, <2>2, <2>4, <3>1, <3>2
  <2> QED
      BY <2>3, <2>4
<1>3. headEnd + r.length < Wrap /\ headEnd + r.length \in Nat
      BY <1>1, Constants
<1>4. RequestEnd = headEnd + r.length
      BY <1>2, <1>3, Constants, ModIs DEF RequestEnd
<1>5. Len(BytesOf(r)) = headEnd + r.length
      BY <1>1, BytesTyped
<1> QED
    BY <1>2, <1>4, <1>5

LEMMA RequestIs ==
    ASSUME FramingTypeOK, NEW r, Facing(r), headEnd = Len(HeadOf(r)), headEnd < Limit,
           r.length >= 0, Len(BytesOf(r)) <= Len(raw)
    PROVE  Request = r
<1>1. /\ r \in Requests /\ Agree(raw, HeadOf(r)) /\ raw \in Seq(Bytes)
      /\ headEnd \in Nat /\ headEnd <= Len(raw)
      BY Typed DEF Facing
<1>2. PICK line, length, body :
            /\ line = r.line /\ length = r.length /\ body = r.body
            /\ r = [line |-> line, length |-> length, body |-> body]
      BY <1>1, Fields
<1>3. ContentLength = length /\ length \in Nat
      BY <1>1, <1>2, LengthIs, Fields
<1>4. LineEnd = Len(line) + 1
      BY <1>1, <1>2, FirstCR DEF LineEnd
<1>5. SubSeq(raw, 1, LineEnd - 1) = line
  <2>1. PICK n \in Nat : n = Len(line) /\ LineEnd - 1 = n
        BY <1>1, <1>2, <1>4, Fields
  <2>2. n <= headEnd /\ \A i \in 1..n : HeadOf(r)[i] = line[i]
        BY <1>1, <1>2, <2>1, HeadBytes
  <2>3. \A i \in 1..n : raw[i] = line[i]
        BY <1>1, <2>2 DEF Agree
  <2>4. line \in Seq(Bytes)
    <3>1. {"line"} \X {0, 1} \subseteq Bytes
          BY ByteFacts
    <3> QED
        BY <3>1, <1>1, <1>2, Fields, SeqMonotonic
  <2>5. PICK t : t = SubSeq(raw, 1, n)
        OBVIOUS
  <2>6. t \in Seq(Bytes) /\ Len(t) = n /\ \A i \in 1..n : t[i] = raw[i]
        BY <2>2, <2>5, <1>1
  <2>7. t = line
        BY <2>1, <2>3, <2>4, <2>6, SeqEqual
  <2> QED
      BY <2>1, <2>5, <2>7
<1>6. SubSeq(raw, headEnd + 1, Min({headEnd + ContentLength, Len(raw)})) = body
  <2>1. PICK n \in Nat : n = headEnd + length
        BY <1>1, <1>3
  <2>2. n <= Len(raw) /\ Len(body) = length /\ body \in Seq(Bytes)
    <3>1. body \in Seq(Bytes) /\ Len(BytesOf(r)) = headEnd + Len(body)
          BY <1>1, <1>2, BytesTyped
    <3>2. Len(body) = length
          BY <1>1, <1>2, <1>3, Fields
    <3> QED
        BY <2>1, <3>1, <3>2
  <2>3. Min({n, Len(raw)}) = n
    <3>1. PICK S : S = {n, Len(raw)}
          OBVIOUS
    <3>2. S \subseteq Nat /\ n \in S /\ \A i \in S : n <= i
          BY <3>1, <2>2, <1>1
    <3>3. Min(S) = n
          BY <3>2, MinIs
    <3> QED
        BY <3>1, <3>3
  <2>4. PICK t : t = SubSeq(raw, headEnd + 1, n)
        OBVIOUS
  <2>5. t \in Seq(Bytes) /\ Len(t) = length /\ \A i \in 1..length : t[i] = raw[headEnd + i]
        BY <2>1, <2>2, <2>4, <1>1, <1>3
  <2>6. \A i \in 1..length : raw[headEnd + i] = body[i]
    <3>1. headEnd = Len(HeadOf(r)) /\ r.body = body /\ Len(body) = length
          BY <2>2, <1>2
    <3>2. \A i \in 1..length : headEnd + i <= Len(raw) => raw[headEnd + i] = body[i]
      <4>1. \A i \in 1..Len(r.body) :
               Len(HeadOf(r)) + i <= Len(raw) => raw[Len(HeadOf(r)) + i] = r.body[i]
            BY Zenon DEF Facing
      <4> QED
          BY <3>1, <4>1, Zenon
    <3>3. \A i \in 1..length : headEnd + i <= Len(raw)
          BY <2>1, <2>2, <1>1, <1>3
    <3> QED
        BY <3>2, <3>3, Zenon
  <2>7. t = body
        BY <2>2, <2>5, <2>6, SeqEqual
  <2> QED
      BY <2>1, <2>3, <2>4, <2>7, <1>3
<1> QED
    BY <1>2, <1>3, <1>5, <1>6 DEF Request

----------------------------------------------------------------------------
(* What the steps do to the requests ahead.                                *)

LEMMA SplitSend ==
    ASSUME FramingTypeOK, NEW rest, Split(rest), Len(got) <= Len(sent), NEW r \in Requests,
           sent' = Append(sent, r), coming' = coming \o BytesOf(r), UNCHANGED <<raw, got>>
    PROVE  \E more : Split(more)'
<1>1. PICK n, g, b : n = Len(sent) /\ g = Len(got) /\ b = BytesOf(r)
      OBVIOUS
<1>2. /\ n \in Nat /\ g \in Nat /\ g <= n /\ b \in Seq(Bytes)
      /\ raw \in Seq(Bytes) /\ coming \in Seq(Bytes)
      BY <1>1, Typed, BytesTyped
<1>3. /\ Len(sent') = n + 1 /\ Len(got') = g /\ sent'[n + 1] = r
      /\ \A k \in 1..n : sent'[k] = sent[k]
      BY <1>1 DEF FramingTypeOK
<1>4. /\ rest \in [1..(n + 1) -> Seq(Bytes)]
      /\ rest[g + 1] = raw \o coming /\ rest[n + 1] = <<>>
      /\ \A k \in (g + 1)..n : rest[k] = BytesOf(sent[k]) \o rest[k + 1]
      BY <1>1 DEF Split
<1> DEFINE more == [k \in 1..(n + 2) |-> IF k = n + 2 THEN <<>> ELSE rest[k] \o b]
<1>5. more \in [1..(n + 2) -> Seq(Bytes)]
  <2> SUFFICES ASSUME NEW k \in 1..(n + 2), k # n + 2
               PROVE  rest[k] \o b \in Seq(Bytes)
      OBVIOUS
  <2>1. k \in 1..(n + 1)
        BY <1>2
  <2>2. rest[k] \in Seq(Bytes)
        BY <2>1, <1>4
  <2> QED
      BY <2>2, <1>2, Joined
<1>6. more[g + 1] = raw \o (coming \o b)
  <2>1. more[g + 1] = (raw \o coming) \o b
    <3>1. g + 1 \in 1..(n + 2) /\ g + 1 # n + 2
          BY <1>2
    <3> QED
        BY <3>1, <1>4
  <2>2. (raw \o coming) \o b = raw \o (coming \o b)
        BY <1>2, Associative
  <2> QED
      BY <2>1, <2>2
<1>7. more[n + 2] = <<>>
      BY <1>2
<1>8. \A k \in (g + 1)..(n + 1) : more[k] = BytesOf(sent'[k]) \o more[k + 1]
  <2> SUFFICES ASSUME NEW k \in (g + 1)..(n + 1)
               PROVE  more[k] = BytesOf(sent'[k]) \o more[k + 1]
      OBVIOUS
  <2>1. k \in 1..(n + 1) /\ k # n + 2 /\ more[k] = rest[k] \o b
        BY <1>2
  <2>2. CASE k = n + 1
    <3>1. more[k] = b /\ more[k + 1] = <<>>
      <4>1. more[k] = <<>> \o b /\ k + 1 = n + 2
            BY <2>1, <2>2, <1>2, <1>4
      <4>2. <<>> \o b = b
            BY <1>2, ConcatEmptySeq, Zenon
      <4> QED
          BY <4>1, <4>2, <1>7
    <3> QED
        BY <3>1, <2>2, <1>1, <1>2, <1>3, ConcatEmptySeq
  <2>3. CASE k # n + 1
    <3>1. k \in (g + 1)..n /\ k \in 1..n /\ k + 1 \in 1..(n + 1) /\ k + 1 # n + 2
          BY <2>3, <1>2
    <3>2. more[k] = (BytesOf(sent[k]) \o rest[k + 1]) \o b
          BY <2>1, <3>1, <1>4
    <3>3. more[k + 1] = rest[k + 1] \o b
          BY <3>1, <1>2
    <3>4. sent[k] \in Requests
          BY <3>1, <1>1, Typed
    <3>5. BytesOf(sent[k]) \in Seq(Bytes) /\ rest[k + 1] \in Seq(Bytes)
          BY <3>1, <3>4, <1>4, BytesTyped
    <3>6. more[k] = BytesOf(sent[k]) \o (rest[k + 1] \o b)
      <4>1. PICK x, y : x = BytesOf(sent[k]) /\ y = rest[k + 1]
            OBVIOUS
      <4>2. (x \o y) \o b = x \o (y \o b)
            BY <4>1, <3>5, <1>2, Associative
      <4> QED
          BY <4>1, <4>2, <3>2
    <3> QED
        BY <3>1, <3>3, <3>6, <1>3
  <2> QED
      BY <2>2, <2>3
<1> HIDE DEF more
<1>9. /\ Len(sent') + 1 = n + 2 /\ Len(got') + 1 = g + 1
      /\ raw' \o coming' = raw \o (coming \o b)
      BY <1>1, <1>2, <1>3
<1>10. Split(more)'
      BY <1>3, <1>5, <1>6, <1>7, <1>8, <1>9 DEF Split
<1> QED
    BY <1>10

LEMMA SplitRecv ==
    ASSUME FramingTypeOK, NEW rest, Split(rest), Recv, UNCHANGED <<sent, got>>
    PROVE  Split(rest)'
<1>1. raw' \o coming' = raw \o coming
      BY RecvTyped
<1> QED
    BY <1>1 DEF Split

LEMMA SplitCut ==
    ASSUME FramingTypeOK, NEW rest, Split(rest), Len(got) < Len(sent),
           Len(BytesOf(sent[Len(got) + 1])) = RequestEnd, RequestEnd <= Len(raw),
           Len(got') = Len(got) + 1, raw' = SubSeq(raw, RequestEnd + 1, Len(raw)),
           UNCHANGED <<sent, coming>>
    PROVE  Split(rest)'
<1>1. PICK p, z : p = BytesOf(sent[Len(got) + 1]) /\ z = rest[Len(got) + 2]
      OBVIOUS
<1>2. raw \o coming = p \o z
      BY <1>1, FacingNext
<1>3. Len(got) \in Nat /\ Len(sent) \in Nat /\ raw \in Seq(Bytes) /\ coming \in Seq(Bytes)
      BY Typed
<1>4. p \in Seq(Bytes)
      BY <1>1, <1>3, Typed, BytesTyped
<1>5. z \in Seq(Bytes)
      BY <1>1, <1>3 DEF Split
<1>6. raw' \o coming' = z
      BY <1>1, <1>2, <1>3, <1>4, <1>5, CutFront
<1>7. Len(got') + 1 = Len(got) + 2
      BY <1>3
<1>8. \A k \in (Len(got') + 1)..Len(sent) : k \in (Len(got) + 1)..Len(sent)
      BY <1>3
<1> QED
    BY <1>1, <1>6, <1>7, <1>8 DEF Split

----------------------------------------------------------------------------
(* Each step keeps the invariant.                                          *)

(* What is known of a step of readRequest up to which no negative length   *)
(* was sent.                                                               *)
LEMMA Ahead ==
    ASSUME FramingInv, Sane(Len(got))
    PROVE  /\ Returned /\ Current
           /\ \E rest : Split(rest)
           /\ Len(got) = Len(sent) => Len(raw) = 0 /\ FindMark(raw) = 0
           /\ Len(got) # Len(sent) => Len(got) < Len(sent) /\ Facing(sent[Len(got) + 1])
<1>1. FramingTypeOK /\ Returned /\ Current
      BY DEF FramingInv, Framed
<1>2. PICK rest : Split(rest)
      BY DEF FramingInv, Framed
<1>3. Len(got) = Len(sent) => Len(raw) = 0 /\ FindMark(raw) = 0
      BY <1>1, <1>2, NothingAhead
<1>4. ASSUME Len(got) # Len(sent)
      PROVE  Len(got) < Len(sent) /\ Facing(sent[Len(got) + 1])
  <2>1. Len(got) < Len(sent)
        BY <1>1, <1>4, Typed DEF Returned
  <2> QED
      BY <2>1, <1>1, <1>2, FacingNext
<1> QED
    BY <1>1, <1>2, <1>3, <1>4

LEMMA MarkFacing ==
    ASSUME FramingTypeOK, NEW r, Facing(r)
    PROVE  /\ FindMark(raw) = IF Len(raw) < Len(HeadOf(r)) THEN 0 ELSE Len(HeadOf(r))
           /\ Len(HeadOf(r)) \in Nat \ {0} /\ Len(HeadOf(r)) <= Len(BytesOf(r))
           /\ Len(BytesOf(r)) \in Nat
<1>1. r \in Requests /\ raw \in Seq(Bytes) /\ Agree(raw, HeadOf(r))
      BY Typed DEF Facing
<1>2. FindMark(raw) = IF Len(raw) < Len(HeadOf(r)) THEN 0 ELSE Len(HeadOf(r))
      BY <1>1, FirstMark
<1>3. Len(HeadOf(r)) \in Nat \ {0}
  <2>1. PICK m, n : m = Before(r) /\ n = Len(r.line) /\ n \in Nat \ {0} /\ (m = n \/ m = n + 3)
        BY <1>1, HeadBytes
  <2>2. Len(HeadOf(r)) = m + 4
        BY <1>1, <2>1, HeadBytes
  <2> QED
      BY <2>1, <2>2
<1>4. PICK y : y = r.body /\ y \in Seq(Bytes) /\ Len(BytesOf(r)) = Len(HeadOf(r)) + Len(y)
      BY <1>1, BytesTyped
<1>5. Len(y) \in Nat
      BY <1>4
<1> QED
    BY <1>2, <1>3, <1>4, <1>5

LEMMA LineFacing ==
    ASSUME FramingTypeOK, NEW r, Facing(r), Len(HeadOf(r)) <= Len(raw)
    PROVE  /\ raw[1] = <<"line", 1>> => ~Malformed(r)
           /\ raw[1] # <<"line", 1>> => Malformed(r)
<1>1. r \in Requests /\ Len(raw) \in Nat /\ Len(HeadOf(r)) \in Nat \ {0}
      BY Typed, MarkFacing DEF Facing
<1>2. raw[1] = HeadOf(r)[1]
      BY <1>1 DEF Facing, Agree
<1>3. HeadOf(r)[1] = r.line[1]
  <2>1. 1 \in 1..Len(r.line)
        BY <1>1, Fields
  <2> QED
      BY <2>1, <1>1, HeadBytes
<1>4. PICK b : b = r.line[1] /\ b \in {<<"line", 0>>, <<"line", 1>>}
      BY <1>1, Fields
<1>5. <<"line", 0>> # <<"line", 1>>
      OBVIOUS
<1> QED
    BY <1>2, <1>3, <1>4, <1>5 DEF Malformed

LEMMA SendKeeps ==
    ASSUME FramingInv, FramingTypeOK', SendRequest
    PROVE  FramingInv'
<1>1. PICK r \in Requests : sent' = Append(sent, r) /\ coming' = coming \o BytesOf(r)
      BY DEF SendRequest
<1>2. pc # "closed" /\ UNCHANGED <<raw, pc, headEnd, got, cause>> /\ FramingTypeOK
      BY DEF SendRequest, FramingInv
<1>3. /\ Len(sent) \in Nat /\ Len(got) \in Nat
      /\ Len(sent') = Len(sent) + 1 /\ sent'[Len(sent) + 1] = r
      /\ \A k \in 1..Len(sent) : sent'[k] = sent[k]
      BY <1>1, <1>2 DEF FramingTypeOK
<1>4. ASSUME Sane(Len(got))'
      PROVE  (Returned /\ Current /\ \E rest : Split(rest))'
  <2>1. Sane(Len(got))
    <3> SUFFICES ASSUME NEW i \in DOMAIN sent, i <= Len(got)
                 PROVE  sent[i].length >= 0
        BY DEF Sane
    <3>1. i \in 1..Len(sent) /\ i \in DOMAIN sent'
          BY <1>2, <1>3 DEF FramingTypeOK
    <3>2. sent'[i].length >= 0
          BY <3>1, <1>2, <1>4 DEF Sane
    <3> QED
        BY <3>1, <3>2, <1>3
  <2>2. Returned /\ Current
        BY <2>1, Ahead
  <2>3. PICK rest : Split(rest)
        BY <2>1, Ahead
  <2>4. Returned'
        BY <2>2, <1>2, <1>3 DEF Returned, Good
  <2>5. Current'
    <3>1. CASE Len(got) = Len(sent)
      <4>1. pc = "head" /\ Len(raw) = 0
            BY <3>1, <2>1, <2>2, <1>2, Ahead DEF Current
      <4>2. Len(HeadOf(r)) \in Nat
            BY BytesTyped
      <4>3. AtHead(r)'
            BY <4>1, <4>2, <1>2, Constants DEF AtHead
      <4> QED
          BY <3>1, <4>1, <4>3, <1>2, <1>3 DEF Current
    <3>2. CASE Len(got) # Len(sent)
      <4>1. Len(got) + 1 \in 1..Len(sent)
            BY <3>2, <2>2, <1>3 DEF Returned
      <4> QED
          BY <3>2, <4>1, <2>2, <1>2, <1>3 DEF Current, AtHead, AtBody
    <3> QED
        BY <3>1, <3>2
  <2>6. \E rest1 : Split(rest1)'
        BY <2>2, <2>3, <1>1, <1>2, SplitSend DEF Returned
  <2> QED
      BY <2>4, <2>5, <2>6
<1>5. RequestsIntact'
  <2> SUFFICES ASSUME NEW i \in DOMAIN got, Sane(i)'
               PROVE  i \in DOMAIN sent' /\ got[i] = sent'[i]
      BY <1>2 DEF RequestsIntact
  <2>1. DOMAIN sent = 1..Len(sent) /\ DOMAIN sent' = 1..Len(sent')
        BY <1>1, <1>2 DEF FramingTypeOK
  <2>2. Sane(i)
    <3> SUFFICES ASSUME NEW k \in DOMAIN sent, k <= i
                 PROVE  sent[k].length >= 0
        BY DEF Sane
    <3>1. k \in DOMAIN sent' /\ sent'[k] = sent[k]
          BY <2>1, <1>3
    <3> QED
        BY <3>1 DEF Sane
  <2>3. i \in DOMAIN sent /\ got[i] = sent[i]
        BY <2>2, <1>2 DEF FramingInv, RequestsIntact
  <2> QED
      BY <2>1, <2>3, <1>3
<1> QED
    BY <1>2, <1>4, <1>5 DEF FramingInv, Framed

LEMMA FindHeadKeeps ==
    ASSUME FramingInv, FramingTypeOK', FindHead
    PROVE  FramingInv'
<1>1. /\ pc = "head" /\ pc' = "parse" /\ headEnd' = FindMark(raw)
      /\ FindMark(raw) # 0 /\ Len(raw) < Limit
      /\ UNCHANGED <<sent, coming, raw, got, cause>> /\ FramingTypeOK
      BY DEF FindHead, FramingInv
<1>2. ASSUME Sane(Len(got))
      PROVE  (Returned /\ Current /\ \E rest : Split(rest))'
  <2>1. PICK r : r = sent[Len(got) + 1] /\ Facing(r) /\ Len(got) # Len(sent)
        BY <1>1, <1>2, Ahead
  <2>2. AtHead(r)
        BY <1>1, <1>2, <2>1, Ahead DEF Current
  <2>3. headEnd' = Len(HeadOf(r)) /\ headEnd' <= Len(raw)
        BY <1>1, <2>1, MarkFacing, Typed
  <2>4. Len(raw) < Len(BytesOf(r)) + Chunk
        BY <1>1, <2>1, <2>2, MarkFacing, Typed, Constants DEF AtHead
  <2>5. AtBody(r)'
        BY <1>1, <2>3, <2>4, Typed, Constants DEF AtBody
  <2>6. Current'
        BY <1>1, <2>1, <2>5 DEF Current
  <2>7. Returned' /\ \E rest : Split(rest)'
        BY <1>1, <1>2, Ahead DEF Returned, Good, Split
  <2> QED
      BY <2>6, <2>7
<1>3. RequestsIntact'
      BY <1>1 DEF FramingInv, RequestsIntact, Sane
<1> QED
    BY <1>1, <1>2, <1>3 DEF FramingInv, Framed, Sane

LEMMA ReadHeadKeeps ==
    ASSUME FramingInv, FramingTypeOK', ReadHead
    PROVE  FramingInv'
<1>1. /\ pc = "head" /\ FindMark(raw) = 0 /\ Recv
      /\ UNCHANGED <<sent, pc, headEnd, got, cause>> /\ FramingTypeOK
      BY DEF ReadHead, HeadMissing, FramingInv
<1>2. Len(raw') <= Len(raw) + Chunk /\ Len(raw') \in Nat
      BY <1>1, RecvTyped, Typed DEF FramingTypeOK
<1>3. ASSUME Sane(Len(got))
      PROVE  (Returned /\ Current /\ \E rest : Split(rest))'
  <2>1. Current'
    <3>1. CASE Len(got) = Len(sent)
          BY <3>1, <1>1 DEF Current
    <3>2. CASE Len(got) # Len(sent)
      <4>1. PICK r : r = sent[Len(got) + 1] /\ Facing(r)
            BY <3>2, <1>3, Ahead
      <4>2. Len(raw) < Len(HeadOf(r)) /\ Len(HeadOf(r)) \in Nat
            BY <4>1, <1>1, MarkFacing
      <4>3. AtHead(r)'
            BY <4>2, <1>1, <1>2, Typed, Constants DEF AtHead
      <4> QED
          BY <3>2, <4>1, <4>3, <1>1 DEF Current
    <3> QED
        BY <3>1, <3>2
  <2>2. Returned'
        BY <1>1, <1>3, Ahead DEF Returned, Good
  <2>3. \E rest : Split(rest)'
        BY <1>1, <1>3, Ahead, SplitRecv
  <2> QED
      BY <2>1, <2>2, <2>3
<1>4. RequestsIntact'
      BY <1>1 DEF FramingInv, RequestsIntact, Sane
<1> QED
    BY <1>1, <1>3, <1>4 DEF FramingInv, Framed, Sane

LEMMA ParseKeeps ==
    ASSUME FramingInv, FramingTypeOK', Parse
    PROVE  FramingInv'
<1>1. /\ pc = "parse" /\ pc' = "body" /\ raw[1] = <<"line", 1>>
      /\ UNCHANGED <<sent, coming, raw, headEnd, got, cause>> /\ FramingTypeOK
      BY DEF Parse, FramingInv
<1>2. ASSUME Sane(Len(got))
      PROVE  (Returned /\ Current /\ \E rest : Split(rest))'
  <2>1. Len(got) # Len(sent)
        BY <1>1, <1>2, Ahead DEF Current
  <2>2. PICK r : r = sent[Len(got) + 1] /\ Facing(r)
        BY <2>1, <1>2, Ahead
  <2>3. AtBody(r)
        BY <2>1, <2>2, <1>1, <1>2, Ahead DEF Current
  <2>4. ~Malformed(r)
        BY <2>2, <2>3, <1>1, Typed, LineFacing DEF AtBody
  <2>5. AtBody(r)'
        BY <2>3, <2>4, <1>1 DEF AtBody
  <2>6. Current'
        BY <2>1, <2>2, <2>5, <1>1 DEF Current
  <2>7. Returned' /\ \E rest : Split(rest)'
        BY <1>1, <1>2, Ahead DEF Returned, Good, Split
  <2> QED
      BY <2>6, <2>7
<1>3. RequestsIntact'
      BY <1>1 DEF FramingInv, RequestsIntact, Sane
<1> QED
    BY <1>1, <1>2, <1>3 DEF FramingInv, Framed, Sane

LEMMA ReadBodyKeeps ==
    ASSUME FramingInv, FramingTypeOK', ReadBody
    PROVE  FramingInv'
<1>1. /\ pc = "body" /\ Len(raw) < RequestEnd /\ Recv
      /\ UNCHANGED <<sent, pc, headEnd, got, cause>> /\ FramingTypeOK
      BY DEF ReadBody, FramingInv
<1>2. Len(raw') <= Len(raw) + Chunk /\ Len(raw') \in Nat
      BY <1>1, RecvTyped, Typed DEF FramingTypeOK
<1>3. ASSUME Sane(Len(got))
      PROVE  (Returned /\ Current /\ \E rest : Split(rest))'
  <2>1. Len(got) # Len(sent)
        BY <1>1, <1>3, Ahead DEF Current
  <2>2. PICK r : r = sent[Len(got) + 1] /\ Facing(r)
        BY <2>1, <1>3, Ahead
  <2>3. AtBody(r)
        BY <2>1, <2>2, <1>1, <1>3, Ahead DEF Current
  <2>4. ASSUME r.length >= 0
        PROVE  Len(raw') < Len(BytesOf(r)) + Chunk
    <3>1. RequestEnd = Len(BytesOf(r))
          BY <2>2, <2>3, <2>4, <1>1, LengthIs DEF AtBody, Facing
    <3>2. Len(BytesOf(r)) \in Nat
          BY <2>2, <1>1, MarkFacing
    <3> QED
        BY <3>1, <3>2, <1>1, <1>2, Typed, Constants
  <2>5. AtBody(r)'
        BY <2>3, <2>4, <1>1 DEF AtBody
  <2>6. Current'
        BY <2>1, <2>2, <2>5, <1>1 DEF Current
  <2>7. Returned'
        BY <1>1, <1>3, Ahead DEF Returned, Good
  <2>8. \E rest : Split(rest)'
        BY <1>1, <1>3, Ahead, SplitRecv
  <2> QED
      BY <2>6, <2>7, <2>8
<1>4. RequestsIntact'
      BY <1>1 DEF FramingInv, RequestsIntact, Sane
<1> QED
    BY <1>1, <1>3, <1>4 DEF FramingInv, Framed, Sane

(* A request is returned as it was sent, and what is left in raw is less   *)
(* than one recv brings.                                                   *)
LEMMA CutIs ==
    ASSUME FramingInv, Cut, Sane(Len(got) + 1)
    PROVE  /\ Len(got) < Len(sent)
           /\ Request = sent[Len(got) + 1] /\ Good(Len(got) + 1)
           /\ RequestEnd = Len(BytesOf(sent[Len(got) + 1])) /\ RequestEnd <= Len(raw)
           /\ Len(raw') \in Nat /\ Len(raw') < Chunk
<1>1. /\ pc = "body" /\ Len(raw) >= RequestEnd /\ FramingTypeOK
      /\ raw' = SubSeq(raw, RequestEnd + 1, Len(raw))
      BY DEF Cut, FramingInv
<1>2. Len(got) \in Nat /\ DOMAIN sent = 1..Len(sent)
      BY <1>1 DEF FramingTypeOK
<1>3. Sane(Len(got))
      BY <1>2 DEF Sane
<1>4. Len(got) # Len(sent)
      BY <1>1, <1>3, Ahead DEF Current
<1>5. PICK r : r = sent[Len(got) + 1] /\ Facing(r) /\ Len(got) < Len(sent)
      BY <1>3, <1>4, Ahead
<1>6. AtBody(r)
      BY <1>1, <1>3, <1>4, <1>5, Ahead DEF Current
<1>7. r.length >= 0
  <2>1. Len(got) + 1 \in DOMAIN sent
        BY <1>1, <1>2, <1>5, Typed
  <2> QED
      BY <2>1, <1>2, <1>5 DEF Sane
<1>8. /\ headEnd = Len(HeadOf(r)) /\ headEnd < Limit /\ ~Malformed(r)
      /\ Len(raw) < Len(BytesOf(r)) + Chunk
      BY <1>1, <1>6, <1>7 DEF AtBody
<1>9. RequestEnd = Len(BytesOf(r)) /\ RequestEnd \in Nat
      BY <1>1, <1>5, <1>7, <1>8, LengthIs, MarkFacing DEF Facing
<1>10. Request = r
      BY <1>1, <1>5, <1>7, <1>8, <1>9, RequestIs
<1>11. Good(Len(got) + 1)
      BY <1>5, <1>8 DEF Good
<1>12. Len(raw') = Len(raw) - RequestEnd
      BY <1>1, <1>9, Typed
<1>13. Len(raw') \in Nat /\ Len(raw') < Chunk
      BY <1>1, <1>8, <1>9, <1>12, Typed, Constants
<1> QED
    BY <1>1, <1>5, <1>9, <1>10, <1>11, <1>13

LEMMA CutKeeps ==
    ASSUME FramingInv, FramingTypeOK', Cut
    PROVE  FramingInv'
<1>1. /\ pc' = "head" /\ got' = Append(got, Request)
      /\ raw' = SubSeq(raw, RequestEnd + 1, Len(raw))
      /\ UNCHANGED <<sent, coming, cause>> /\ FramingTypeOK
      /\ pc = "body"
      BY DEF Cut, FramingInv
<1>2. /\ Len(got) \in Nat /\ Len(got') = Len(got) + 1
      /\ got'[Len(got) + 1] = Request
      /\ \A k \in 1..Len(got) : got'[k] = got[k]
      /\ DOMAIN got = 1..Len(got) /\ DOMAIN got' = 1..(Len(got) + 1)
      /\ DOMAIN sent = 1..Len(sent) /\ Len(sent) \in Nat
      BY <1>1 DEF FramingTypeOK
<1>3. ASSUME Sane(Len(got) + 1)
      PROVE  (Returned /\ Current /\ \E rest : Split(rest))'
  <2>1. Sane(Len(got))
        BY <1>2, <1>3 DEF Sane
  <2>2. /\ Len(got) < Len(sent)
        /\ Request = sent[Len(got) + 1] /\ Good(Len(got) + 1)
        /\ RequestEnd = Len(BytesOf(sent[Len(got) + 1])) /\ RequestEnd <= Len(raw)
        /\ Len(raw') \in Nat /\ Len(raw') < Chunk
        BY <1>3, CutIs
  <2>3. Returned'
    <3>1. Returned
          BY <2>1, Ahead
    <3>2. Len(got') <= Len(sent)
          BY <2>2, <1>2
    <3>3. ASSUME NEW k \in 1..(Len(got) + 1)
          PROVE  got'[k] = sent[k] /\ Good(k)
      <4>1. CASE k = Len(got) + 1
            BY <4>1, <2>2, <1>2
      <4>2. CASE k # Len(got) + 1
        <5>1. k \in 1..Len(got)
              BY <4>2, <1>2
        <5> QED
            BY <5>1, <3>1, <1>2 DEF Returned
      <4> QED
          BY <4>1, <4>2
    <3> QED
        BY <3>2, <3>3, <1>1, <1>2 DEF Returned, Good
  <2>4. \E rest : Split(rest)'
        BY <2>1, <2>2, <1>1, <1>2, Ahead, SplitCut
  <2>5. Current'
    <3>1. CASE Len(got') = Len(sent')
          BY <3>1, <1>1 DEF Current
    <3>2. CASE Len(got') # Len(sent')
      <4>1. PICK r : r = sent[Len(got') + 1]
            OBVIOUS
      <4>2. Len(got') + 1 \in 1..Len(sent)
        <5>1. PICK g, n : g = Len(got) /\ n = Len(sent)
              OBVIOUS
        <5>2. g \in Nat /\ n \in Nat /\ g < n /\ g + 1 # n
              BY <5>1, <3>2, <2>2, <1>1, <1>2
        <5>3. Len(got') + 1 = g + 2
              BY <5>1, <5>2, <1>2
        <5>4. g + 2 \in 1..n
              BY <5>2
        <5> QED
            BY <5>1, <5>3, <5>4
      <4>3. r \in Requests
            BY <4>1, <4>2, <1>1, Typed
      <4>4. Len(HeadOf(r)) \in Nat
            BY <4>3, BytesTyped
      <4>5. AtHead(r)'
            BY <4>4, <2>2, Constants DEF AtHead
      <4> QED
          BY <3>2, <4>1, <4>5, <1>1 DEF Current
    <3> QED
        BY <3>1, <3>2
  <2> QED
      BY <2>3, <2>4, <2>5
<1>4. RequestsIntact'
  <2> SUFFICES ASSUME NEW i \in 1..(Len(got) + 1), Sane(i)
               PROVE  i \in DOMAIN sent /\ got'[i] = sent[i]
      BY <1>1, <1>2 DEF RequestsIntact, Sane
  <2>1. CASE i = Len(got) + 1
    <3>1. Len(got) < Len(sent) /\ Request = sent[Len(got) + 1]
          BY <2>1, CutIs
    <3> QED
        BY <2>1, <3>1, <1>2
  <2>2. CASE i # Len(got) + 1
    <3>1. i \in DOMAIN got /\ got'[i] = got[i]
          BY <2>2, <1>2
    <3> QED
        BY <3>1 DEF FramingInv, RequestsIntact
  <2> QED
      BY <2>1, <2>2
<1>5. Sane(Len(got))' => Sane(Len(got) + 1)
      BY <1>1, <1>2 DEF Sane
<1>6. Framed'
      BY <1>3, <1>5 DEF Framed
<1>7. cause' = "none" /\ pc' # "closed"
      BY <1>1 DEF FramingInv
<1> QED
    BY <1>4, <1>6, <1>7 DEF FramingInv

(* Whatever ends the connection, the request at the front is to blame for  *)
(* it, or there is none.                                                   *)
LEMMA RefusalsKeep ==
    ASSUME FramingInv, FramingTypeOK', HeadTooLong \/ ParseFails \/ RecvEnds
    PROVE  FramingInv'
<1>1. /\ pc' = "closed" /\ UNCHANGED <<sent, coming, raw, headEnd, got>>
      /\ pc \in {"head", "parse", "body"} /\ cause' \in {"limit", "malformed", "end", "idle"}
      /\ FramingTypeOK
      BY DEF HeadTooLong, ParseFails, RecvEnds, Refuse, FramingInv
<1>2. Len(got) \in Nat /\ Len(sent) \in Nat /\ DOMAIN sent = 1..Len(sent)
      BY <1>1 DEF FramingTypeOK
<1>3. ASSUME Sane(Len(got))
      PROVE  (Returned /\ Current /\ \E rest : Split(rest))'
      BY <1>1, <1>3, Ahead DEF Returned, Good, Current, Split
<1>4. RequestsIntact'
      BY <1>1 DEF FramingInv, RequestsIntact, Sane
<1>5. ASSUME Sane(Len(got) + 1)
      PROVE  /\ cause' = "end"       => Len(got) = Len(sent)
             /\ cause' = "malformed" => Malformed(sent[Len(got) + 1])
             /\ cause' = "limit"     => Len(HeadOf(sent[Len(got) + 1])) > Limit - Chunk
             /\ \A i \in DOMAIN got : ~Malformed(got[i]) /\ Len(HeadOf(got[i])) < Limit
  <2>1. Sane(Len(got))
        BY <1>2, <1>5 DEF Sane
  <2>2. \A i \in DOMAIN got : ~Malformed(got[i]) /\ Len(HeadOf(got[i])) < Limit
    <3>1. DOMAIN got = 1..Len(got) /\ Returned
          BY <2>1, <1>1, Ahead DEF FramingTypeOK
    <3> QED
        BY <3>1 DEF Returned, Good
  <2>3. CASE Len(got) = Len(sent)
    <3>1. pc = "head" /\ Len(raw) = 0
          BY <2>1, <2>3, <1>1, Ahead DEF Current
    <3>2. cause' # "limit" /\ cause' # "malformed"
          BY <3>1, Constants DEF HeadTooLong, ParseFails, RecvEnds, Refuse
    <3> QED
        BY <3>2, <2>2, <2>3
  <2>4. CASE Len(got) # Len(sent)
    <3>1. PICK r : r = sent[Len(got) + 1] /\ Facing(r) /\ Len(got) < Len(sent)
          BY <2>1, <2>4, Ahead
    <3>2. /\ pc = "head" => AtHead(r)
          /\ pc \in {"parse", "body"} => AtBody(r)
          BY <2>1, <2>4, <3>1, Ahead DEF Current
    <3>3. r.length >= 0
      <4>1. Len(got) + 1 \in DOMAIN sent
            BY <3>1, <1>2
      <4> QED
          BY <4>1, <1>2, <1>5, <3>1 DEF Sane
    <3>4. CASE HeadTooLong
      <4>1. pc = "head" /\ Len(raw) >= Limit /\ cause' = "limit"
            BY <3>4 DEF HeadTooLong, Refuse
      <4>2. Len(HeadOf(r)) > Limit - Chunk
            BY <4>1, <3>1, <3>2, <1>1, MarkFacing, Typed, Constants DEF AtHead
      <4> QED
          BY <4>1, <4>2, <3>1, <2>2
    <3>5. CASE ParseFails
      <4>1. pc = "parse" /\ raw[1] # <<"line", 1>> /\ cause' = "malformed"
            BY <3>5 DEF ParseFails, Refuse
      <4>2. Len(HeadOf(r)) <= Len(raw)
            BY <4>1, <3>2, <1>1, Typed DEF AtBody
      <4>3. Malformed(r)
            BY <4>1, <4>2, <3>1, <1>1, LineFacing
      <4> QED
          BY <4>1, <4>3, <3>1, <2>2
    <3>6. CASE RecvEnds
      <4>1. /\ cause' = IF coming = <<>> THEN "end" ELSE "idle"
            /\ \/ pc = "head" /\ FindMark(raw) = 0
               \/ pc = "body" /\ Len(raw) < RequestEnd
            BY <3>6 DEF RecvEnds, Refuse, HeadMissing
      <4>2. Len(raw) < Len(BytesOf(r))
        <5>1. CASE pc = "head" /\ FindMark(raw) = 0
              BY <5>1, <3>1, <1>1, MarkFacing, Typed
        <5>2. CASE pc = "body" /\ Len(raw) < RequestEnd
              BY <5>2, <3>1, <3>2, <3>3, <1>1, LengthIs DEF AtBody, Facing
        <5> QED
            BY <4>1, <5>1, <5>2
      <4>3. coming # <<>>
        <5>1. Len(raw) + Len(coming) >= Len(BytesOf(r)) /\ Len(BytesOf(r)) \in Nat
              BY <3>1, <1>1, MarkFacing DEF Facing
        <5>2. Len(coming) # 0
              BY <4>2, <5>1, <1>1, Typed
        <5> QED
            BY <5>2
      <4> QED
          BY <4>1, <4>3, <2>2
    <3> QED
        BY <3>4, <3>5, <3>6
  <2> QED
      BY <2>3, <2>4
<1>6. RefusedWithCause'
      BY <1>1, <1>5 DEF RefusedWithCause, Sane
<1> QED
    BY <1>1, <1>3, <1>4, <1>6 DEF FramingInv, Framed, Sane

LEMMA FramingInvNext == FramingInv /\ [FramingNext]_framingVars => FramingInv'
<1> SUFFICES ASSUME FramingInv, [FramingNext]_framingVars
             PROVE  FramingInv'
    OBVIOUS
<1>1. FramingTypeOK'
      BY TypeNext DEF FramingInv
<1>2. CASE SendRequest
      BY <1>1, <1>2, SendKeeps
<1>3. CASE FindHead
      BY <1>1, <1>3, FindHeadKeeps
<1>4. CASE ReadHead
      BY <1>1, <1>4, ReadHeadKeeps
<1>5. CASE HeadTooLong \/ ParseFails \/ RecvEnds
      BY <1>1, <1>5, RefusalsKeep
<1>6. CASE Parse
      BY <1>1, <1>6, ParseKeeps
<1>7. CASE ReadBody
      BY <1>1, <1>7, ReadBodyKeeps
<1>8. CASE Cut
      BY <1>1, <1>8, CutKeeps
<1>9. CASE UNCHANGED framingVars
      BY <1>9 DEF framingVars, FramingInv, FramingTypeOK, Framed, Returned, Good, Current, AtHead, AtBody,
                  Split, RequestsIntact, RefusedWithCause, Sane
<1> QED
    BY <1>2, <1>3, <1>4, <1>5, <1>6, <1>7, <1>8, <1>9 DEF FramingNext, FramingFinished

LEMMA FramingInvariant == FramingSpec => []FramingInv
BY FramingInvInit, FramingInvNext, PTL DEF FramingSpec

----------------------------------------------------------------------------
(* However the bytes are split, what readRequest returns are the requests  *)
(* that were sent, whole and in order, up to a negative Content-Length.    *)
THEOREM RequestsAreIntact == FramingSpec => []RequestsIntact
<1>1. FramingInv => RequestsIntact
      BY DEF FramingInv
<1> QED
    BY <1>1, FramingInvariant, PTL

(* readRequest returns false only when there is nothing left to return, on *)
(* a malformed request line, or on a head within one recv of the limit.    *)
THEOREM RefusalsHaveCause == FramingSpec => []RefusedWithCause
<1>1. FramingInv => RefusedWithCause
  <2> SUFFICES ASSUME FramingInv, pc # "closed", Sane(Len(got) + 1)
               PROVE  /\ cause = "none"
                      /\ \A i \in DOMAIN got : ~Malformed(got[i]) /\ Len(HeadOf(got[i])) < Limit
      BY DEF FramingInv, RefusedWithCause
  <2>1. cause = "none" /\ DOMAIN got = 1..Len(got) /\ Len(got) \in Nat /\ DOMAIN sent = 1..Len(sent)
        BY DEF FramingInv, FramingTypeOK
  <2>2. Sane(Len(got))
        BY <2>1 DEF Sane
  <2>3. Returned
        BY <2>2, Ahead
  <2> QED
      BY <2>1, <2>3 DEF Returned, Good
<1> QED
    BY <1>1, FramingInvariant, PTL

(* However many requests were pipelined, no more than one recv's worth of  *)
(* them stays in raw when a request is returned.                           *)
THEOREM ResidueIsBounded == FramingSpec => ResidueBounded
<1>1. FramingInv /\ [FramingNext]_framingVars =>
          [pc = "body" /\ pc' = "head" /\ Sane(Len(got')) => Len(raw') <= Chunk]_framingVars
  <2> SUFFICES ASSUME FramingInv, FramingNext, pc = "body", pc' = "head", Sane(Len(got'))
               PROVE  Len(raw') <= Chunk
      OBVIOUS
  <2>1. Cut /\ FramingTypeOK
        BY DEF FramingNext, SendRequest, FindHead, ReadHead, HeadTooLong, ParseFails, Parse, ReadBody,
               RecvEnds, Refuse, FramingFinished, framingVars, FramingInv
  <2>2. Len(got') = Len(got) + 1
        BY <2>1 DEF Cut, FramingTypeOK
  <2>3. Len(raw') \in Nat /\ Len(raw') < Chunk
        BY <2>1, <2>2, CutIs
  <2> QED
      BY <2>3, Constants
<1> QED
    BY <1>1, FramingInvariant, PTL DEF FramingSpec, ResidueBounded

============================================================================
