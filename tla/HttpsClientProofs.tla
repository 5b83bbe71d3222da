-------------------------- MODULE HttpsClientProofs --------------------------
(***************************************************************************)
(* Proofs about HttpsClient for any urls and answers, any number of        *)
(* addresses and of writes, and whatever the server and the network do.    *)
(***************************************************************************)
EXTENDS HttpsClient, TLAPS

----------------------------------------------------------------------------
(* The inductive invariant, in named parts.                                *)

Typed ==
    /\ openssl \in BOOLEAN /\ post \in BOOLEAN /\ more \in BOOLEAN
    /\ pc \in Points
    /\ answer \in Seq(Parts)
    /\ resp = [status |-> resp.status, body |-> resp.body, error |-> resp.error]
    /\ resp.status \in {0, 200, 404} /\ resp.error \in BOOLEAN

(* What is held depends on where the caller is and what it speaks.  *)
Held ==
    /\ pc \in {"context", "handshake"} => Tls
    /\ pc = "context" \/ (pc \in {"send", "recv"} /\ ~Tls) => handles = {"fd"}
    /\ pc = "handshake" \/ (pc \in {"send", "recv"} /\ Tls) => handles = {"fd", "ctx", "ssl"}
    /\ pc \in {"start", "connect", "parse", "done"} => handles = {}

Counted ==
    /\ left \in 0..Addresses
    /\ unsent \in 0..Pieces
    /\ pc \in {"context", "handshake", "send"} => unsent > 0
    /\ sent \in 0..Len(answer)
    /\ raw \in 0..sent
    /\ link \in {"open", "closed", "cut"}

(* Over TLS a response is only parsed when it was read to the close.  *)
Whole ==
    /\ pc # "done" => ~resp.error
    /\ pc = "parse" /\ Tls => link = "closed" /\ AllRead
    /\ pc = "done" /\ Tls /\ ~resp.error =>
         /\ link = "closed" /\ ~more
         /\ resp = ParseResponse(SubSeq(answer, 1, sent))

IInv == Typed /\ Held /\ Counted /\ Whole

LEMMA InvInit == Init => IInv
<1> SUFFICES ASSUME Init
             PROVE  IInv
    OBVIOUS
<1> USE DEF Init
<1>1. Typed
      BY HttpsClientAssumption DEF Typed, Points, NoResponse
<1>2. Held /\ Whole
      BY DEF Held, Whole, Tls, NoResponse
<1>3. Counted
      BY <1>1, HttpsClientAssumption DEF Counted, Typed
<1> QED
    BY <1>1, <1>2, <1>3 DEF IInv

(* An early return that releases all that is held.  *)
LEMMA FailStep ==
    ASSUME IInv, NEW released, Fail(released), handles \subseteq released
    PROVE  IInv'
<1> USE DEF Fail, callVars, serverVars
<1>1. resp'.error = TRUE /\ resp'.status = resp.status /\ Typed'
      BY DEF IInv, Typed, Points
<1>2. Held'
      BY DEF IInv, Held, Tls
<1>3. Counted' /\ Whole'
      BY <1>1 DEF IInv, Counted, Whole
<1> QED
    BY <1>1, <1>2, <1>3 DEF IInv

LEMMA ParsedIsResponse ==
    ASSUME NEW r
    PROVE  LET p == ParseResponse(r)
           IN  /\ p = [status |-> p.status, body |-> p.body, error |-> p.error]
               /\ p.status \in {0, 200, 404} /\ p.error \in BOOLEAN
<1> DEFINE noLine == LineEnds(r) = {} \/ r[1] \notin DOMAIN Status
<1>1. CASE noLine
      BY <1>1 DEF ParseResponse, NoResponse
<1>2. CASE ~noLine
  <2>1. Status[r[1]] \in {0, 200, 404}
        BY <1>2 DEF Status
  <2> QED
      BY <1>2, <2>1 DEF ParseResponse
<1> QED
    BY <1>1, <1>2

(* Before there is a socket.  *)
LEMMA StartStep ==
    ASSUME IInv, FetchUrl \/ FetchUrlPlain \/ Post \/ PostRefused \/ Resolve
    PROVE  IInv'
<1>1. handles = {} /\ pc \in {"start", "connect"}
      BY DEF FetchUrl, FetchUrlPlain, Post, PostRefused, Resolve, IInv, Held
<1>2. CASE Fail({})
      BY <1>1, <1>2, FailStep
<1>3. CASE ~Fail({})
  <2>1. /\ UNCHANGED <<callVars, handles, unsent, raw, resp, serverVars>>
        /\ pc' = "connect" /\ left' \in 0..Addresses
        BY <1>3 DEF FetchUrl, FetchUrlPlain, Post, PostRefused, Resolve, IInv, Counted
  <2> QED
      BY <1>1, <2>1 DEF IInv, Typed, Held, Counted, Whole, Points, callVars, serverVars
<1> QED
    BY <1>2, <1>3

LEMMA DialStep ==
    ASSUME IInv, Dial
    PROVE  IInv'
<1>1. handles = {} /\ pc = "connect" /\ ~resp.error
      BY DEF Dial, IInv, Held, Whole
<1>2. CASE Fail({})
      BY <1>1, <1>2, FailStep
<1>3. CASE /\ handles' = {"fd"} /\ left' = 0
           /\ pc' = IF Tls THEN "context" ELSE "send"
           /\ unsent' = Pieces
           /\ UNCHANGED <<callVars, target, raw, resp, serverVars>>
      BY <1>1, <1>3, HttpsClientAssumption
      DEF IInv, Typed, Held, Counted, Whole, Points, Tls, callVars, serverVars
<1>4. CASE /\ left > 1 /\ left' = left - 1
           /\ UNCHANGED <<callVars, pc, target, handles, unsent, raw, resp, serverVars>>
      BY <1>1, <1>4, HttpsClientAssumption
      DEF IInv, Typed, Held, Counted, Whole, Tls, callVars, serverVars
<1> QED
    BY <1>2, <1>3, <1>4 DEF Dial

(* Up to the last byte read.  *)
LEMMA ExchangeStep ==
    ASSUME IInv, NewContext \/ Handshake \/ SendTls \/ SendPlain \/ ReadSome \/ ReadMore
    PROVE  IInv'
<1>1. pc \in {"context", "handshake", "send", "recv"} /\ ~resp.error
      BY DEF NewContext, Handshake, SendTls, SendPlain, ReadSome, ReadMore, IInv, Whole
<1>2. ASSUME NEW released, Fail(released), handles \subseteq released
      PROVE  IInv'
      BY <1>2, FailStep
<1>3. CASE NewContext
  <2>1. pc = "context" /\ handles = {"fd"} /\ Tls
        BY <1>3 DEF NewContext, IInv, Held
  <2>2. CASE /\ handles' = handles \cup {"ctx", "ssl"} /\ pc' = "handshake"
             /\ UNCHANGED <<callVars, target, left, unsent, raw, resp, serverVars>>
        BY <2>1, <2>2, <1>1 DEF IInv, Typed, Held, Counted, Whole, Points, Tls, callVars, serverVars
  <2> QED
      BY <1>2, <1>3, <2>1, <2>2 DEF NewContext
<1>4. CASE Handshake
  <2>1. pc = "handshake" /\ handles = {"fd", "ctx", "ssl"} /\ Tls
        BY <1>4 DEF Handshake, IInv, Held
  <2>2. CASE /\ pc' = "send"
             /\ UNCHANGED <<callVars, target, left, handles, unsent, raw, resp, serverVars>>
        BY <2>1, <2>2, <1>1 DEF IInv, Typed, Held, Counted, Whole, Points, Tls, callVars, serverVars
  <2> QED
      BY <1>2, <1>4, <2>1, <2>2 DEF Handshake
<1>5. CASE SendTls \/ SendPlain
  <2>1. /\ pc = "send" /\ unsent > 0
        /\ handles = IF Tls THEN {"fd", "ctx", "ssl"} ELSE {"fd"}
        BY <1>5 DEF SendTls, SendPlain, IInv, Held, Counted
  <2>2. CASE /\ unsent' = unsent - 1
             /\ pc' = IF unsent = 1 THEN "recv" ELSE "send"
             /\ UNCHANGED <<callVars, target, left, handles, raw, resp, serverVars>>
        BY <2>1, <2>2, <1>1, HttpsClientAssumption
        DEF IInv, Typed, Held, Counted, Whole, Points, Tls, callVars, serverVars
  <2> QED
      BY <1>2, <1>5, <2>1, <2>2 DEF SendTls, SendPlain
<1>6. CASE ReadSome
      BY <1>1, <1>6 DEF ReadSome, IInv, Typed, Held, Counted, Whole, Tls, callVars, serverVars
<1>7. CASE ReadMore
      BY <1>1, <1>7 DEF ReadMore, IInv, Typed, Held, Counted, Whole, Tls, callVars
<1> QED
    BY <1>3, <1>4, <1>5, <1>6, <1>7

(* The end of the response, and what is made of it.  *)
LEMMA EndStep ==
    ASSUME IInv, ReadAll \/ RecvPlain \/ Parse
    PROVE  IInv'
<1>1. CASE ReadAll
  <2>1. pc = "recv" /\ Tls /\ handles = {"fd", "ctx", "ssl"} /\ ~resp.error
        BY <1>1 DEF ReadAll, IInv, Held, Whole
  <2>2. CASE /\ link = "closed" /\ AllRead /\ pc' = "parse" /\ handles' = {}
             /\ UNCHANGED <<callVars, target, left, unsent, raw, resp, serverVars>>
        BY <2>1, <2>2 DEF IInv, Typed, Held, Counted, Whole, AllRead, Points, Tls, callVars, serverVars
  <2>3. CASE Fail({"ssl", "ctx", "fd"})
        BY <2>1, <2>3, FailStep
  <2> QED
      BY <1>1, <2>2, <2>3 DEF ReadAll
<1>2. CASE RecvPlain
  <2>1. /\ pc = "recv" /\ ~Tls /\ handles = {"fd"} /\ ~resp.error
        /\ handles' = {} /\ pc' = "parse"
        BY <1>2 DEF RecvPlain, IInv, Held, Whole
  <2> QED
      BY <1>2, <2>1 DEF RecvPlain, IInv, Typed, Held, Counted, Whole, Points, Tls, callVars, serverVars
<1>3. CASE Parse
  <2>1. /\ pc = "parse" /\ pc' = "done" /\ handles = {}
        /\ UNCHANGED <<callVars, target, left, handles, unsent, raw, serverVars>>
        /\ resp' = ParseResponse(SubSeq(answer, 1, raw))
        BY <1>3 DEF Parse, Received, IInv, Held
  <2>2. Typed'
        BY <2>1, ParsedIsResponse DEF IInv, Typed, Points, callVars, serverVars
  <2>3. Held' /\ Counted'
        BY <2>1 DEF IInv, Held, Counted, Tls, serverVars
  <2>4. Whole'
        BY <2>1 DEF IInv, Whole, AllRead, Tls, serverVars
  <2> QED
      BY <2>2, <2>3, <2>4 DEF IInv
<1> QED
    BY <1>1, <1>2, <1>3

(* The server and the network act while there is a socket, and the server  *)
(* only while the link is open.                                            *)
LEMMA ServerStep ==
    ASSUME IInv, ServerSends \/ ServerTrickles \/ ServerCloses \/ LinkBreaks
    PROVE  IInv'
<1>1. /\ link = "open" /\ handles # {}
      /\ UNCHANGED <<callVars, pc, target, left, handles, unsent, raw, resp, answer>>
      BY DEF ServerSends, ServerTrickles, ServerCloses, LinkBreaks, Reached
<1>2. /\ sent' \in 0..Len(answer) /\ raw \in 0..sent'
      /\ link' \in {"open", "closed", "cut"}
      BY DEF ServerSends, ServerTrickles, ServerCloses, LinkBreaks, IInv, Typed, Counted
<1>3. more' \in BOOLEAN
      BY DEF ServerSends, ServerTrickles, ServerCloses, LinkBreaks, IInv, Typed
<1>4. pc \notin {"parse", "done"}
      BY <1>1 DEF IInv, Held
<1>5. Typed' /\ Held'
      BY <1>1, <1>3 DEF IInv, Typed, Held, Tls, callVars
<1>6. Counted' /\ Whole'
      BY <1>1, <1>2, <1>4 DEF IInv, Counted, Whole, Tls, callVars
<1> QED
    BY <1>5, <1>6 DEF IInv

LEMMA InvNext == IInv /\ [Next]_vars => IInv'
<1>1. ASSUME IInv, UNCHANGED vars
      PROVE  IInv'
      BY <1>1 DEF vars, IInv, Typed, Held, Counted, Whole, AllRead, Tls, callVars, serverVars
<1> QED
    BY <1>1, StartStep, DialStep, ExchangeStep, EndStep, ServerStep
    DEF Next, ClientStep, Finished, StillWaits

LEMMA Invariant == Spec => []IInv
BY InvInit, InvNext, PTL DEF Spec

----------------------------------------------------------------------------
(* Type correctness: a TLS session and its context exist together, on a    *)
(* socket.                                                                 *)
THEOREM TypeCorrect == Spec => []TypeOK
<1>1. IInv => TypeOK
      BY DEF IInv, Typed, Held, Counted, TypeOK, Points
<1> QED
    BY <1>1, Invariant, PTL

(* However often a request is written, however many addresses are tried    *)
(* and whichever step fails, no socket, session or context is left.        *)
THEOREM NothingIsLeft == Spec => []NothingLeft
<1>1. IInv => NothingLeft
      BY DEF IInv, Held, NothingLeft
<1> QED
    BY <1>1, Invariant, PTL

(* Over TLS no response is reported that was not read to its close,        *)
(* whatever it says and wherever the connection breaks.                    *)
THEOREM AnswersAreWhole == Spec => []AnswerWhole
<1>1. IInv => AnswerWhole
      BY DEF IInv, Whole, AnswerWhole
<1> QED
    BY <1>1, Invariant, PTL
=============================================================================
