---------------------------- MODULE HttpFraming ----------------------------
(***************************************************************************)
(* net/http_server.cpp, readRequest: how one connection's bytes are cut    *)
(* into requests.                                                          *)
(*                                                                         *)
(* A client sends requests back to back; recv returns any part of what is  *)
(* there.  raw keeps what was received beyond a request for the next one.  *)
(* A byte is <<kind, n>>: CR, LF, a byte of the request line (n is 0 if    *)
(* the line cannot be parsed), or the Content-Length header (n is its      *)
(* value, which atol reads as signed).  Bodies are made of the bytes that  *)
(* could be taken for the end of a head.                                   *)
(***************************************************************************)
EXTENDS Integers, Sequences, FiniteSetsExt, SequencesExt

CONSTANTS
    Lines,    \* lengths of the requests' lines
    Lengths,  \* values of Content-Length, 0 if there is none
    MaxSent,  \* bound: requests a client sends
    Limit,    \* 1024 * 1024: raw is not read further without a complete head
    Chunk,    \* 8192: sizeof(buf)
    Wrap      \* 2^64: size_t

(* A length is a long: half as wide as size_t, and signed.  *)
ASSUME HttpFramingAssumption ==
    /\ Lines \subseteq Nat \ {0}
    /\ Lengths \subseteq {n \in Int : -Wrap <= 2 * n /\ 2 * n < Wrap}
    /\ {MaxSent, Limit, Chunk, Wrap} \subseteq Nat \ {0}
    /\ Chunk < Limit /\ 2 * Limit <= Wrap

VARIABLES
    sent,      \* the requests the client has sent
    coming,    \* bytes sent and not received
    raw,       \* the buffer handleConnection keeps
    pc,        \* where readRequest is
    headEnd,   \* headerEnd + 4: bytes of raw up to the body
    got,       \* the requests readRequest returned
    cause      \* why it returned false
framingVars == <<sent, coming, raw, pc, headEnd, got, cause>>

CR == <<"cr", 0>>
LF == <<"lf", 0>>
Bytes == {CR, LF} \cup ({"line"} \X {0, 1}) \cup ({"length"} \X Lengths)

HeadMark == <<CR, LF, CR, LF>>

----------------------------------------------------------------------------
(* What clients send.  A body has as many bytes as the head announces, or  *)
(* none if the announced length is negative.                               *)

Bodies(n) == [1..n -> {CR, LF}]

Requests ==
    {r \in [line : UNION {[1..k -> {<<"line", 1>>}] : k \in Lines}, length : Lengths,
            body : UNION {Bodies(n) : n \in Lengths}] : r.body \in Bodies(r.length)}
    \cup [line : {<< <<"line", 0>> >>}, length : {0}, body : {<<>>}]

HeadOf(r) ==
    r.line \o (IF r.length = 0 THEN <<>> ELSE <<CR, LF, <<"length", r.length>> >>) \o HeadMark

BytesOf(r) == HeadOf(r) \o r.body

Malformed(r) == r.line[1] = <<"line", 0>>

FramingInit ==
    /\ sent = <<>>
    /\ coming = <<>>
    /\ raw = <<>>
    /\ pc = "head"
    /\ headEnd = 0
    /\ got = <<>>
    /\ cause = "none"

(* A client may send on without waiting for answers.  *)
SendRequest ==
    /\ pc # "closed"
    /\ Len(sent) < MaxSent
    /\ \E r \in Requests :
        /\ sent' = Append(sent, r)
        /\ coming' = coming \o BytesOf(r)
    /\ UNCHANGED <<raw, pc, headEnd, got, cause>>

----------------------------------------------------------------------------
(* recv with a buffer of Chunk bytes: what has arrived, or part of it.  *)
Recv ==
    \E n \in 1..Chunk :
        /\ n <= Len(coming)
        /\ raw' = raw \o SubSeq(coming, 1, n)
        /\ coming' = SubSeq(coming, n + 1, Len(coming))

Marks(s) == {i \in 1..(Len(s) - 3) : SubSeq(s, i, i + 3) = HeadMark}

(* Fault: what was received before is not searched again.  *)
FindMarkInChunk(s) ==
    LET late == {i \in Marks(s) : i > Len(s) - Chunk}
    IN IF late = {} THEN 0 ELSE Min(late) + 3

(* Fault: the body begins after three of the four bytes.  *)
FindMarkShort(s) == IF Marks(s) = {} THEN 0 ELSE Min(Marks(s)) + 2

(* Bytes up to and with the first CR LF CR LF, or 0 if there is none.  *)
FindMark(s) == IF Marks(s) = {} THEN 0 ELSE Min(Marks(s)) + 3

Refuse(why) ==
    /\ pc' = "closed"
    /\ cause' = why
    /\ UNCHANGED <<sent, coming, raw, headEnd, got>>

HeadMissing == Len(raw) < Limit /\ FindMark(raw) = 0

FindHead ==
    /\ pc = "head"
    /\ Len(raw) < Limit /\ FindMark(raw) # 0
    /\ headEnd' = FindMark(raw)
    /\ pc' = "parse"
    /\ UNCHANGED <<sent, coming, raw, got, cause>>

ReadHead ==
    /\ pc = "head"
    /\ HeadMissing
    /\ Recv
    /\ UNCHANGED <<sent, pc, headEnd, got, cause>>

(* The loop ends without having looked at what the last recv appended.  *)
HeadTooLong ==
    /\ pc = "head"
    /\ Len(raw) >= Limit
    /\ Refuse("limit")

(* The request line needs two spaces.  *)
ParseFails ==
    /\ pc = "parse"
    /\ raw[1] # <<"line", 1>>
    /\ Refuse("malformed")

(* The first Content-Length in the head, converted to size_t.  *)
ContentLength ==
    LET i == SelectInSubSeq(raw, 1, headEnd, LAMBDA b : b[1] = "length")
    IN IF i = 0 THEN 0 ELSE raw[i][2] % Wrap

RequestEnd == (headEnd + ContentLength) % Wrap  \* bodyStart + contentLength

Parse ==
    /\ pc = "parse"
    /\ raw[1] = <<"line", 1>>
    /\ pc' = "body"
    /\ UNCHANGED <<sent, coming, raw, headEnd, got, cause>>

(* Fault: the body is read before it is asked whether it is there already.  *)
ReadBodyFirst ==
    /\ \/ pc = "parse" /\ raw[1] = <<"line", 1>>
       \/ pc = "body" /\ Len(raw) < RequestEnd
    /\ Recv
    /\ pc' = "body"
    /\ UNCHANGED <<sent, headEnd, got, cause>>

ReadBody ==
    /\ pc = "body"
    /\ Len(raw) < RequestEnd
    /\ Recv
    /\ UNCHANGED <<sent, pc, headEnd, got, cause>>

(* The first CR LF: no line contains a CR.  *)
LineEnd == SelectInSubSeq(raw, 1, headEnd, LAMBDA b : b = CR)

(* The request at the front of raw; substr stops at the end of raw.  *)
Request ==
    [line   |-> SubSeq(raw, 1, LineEnd - 1),
     length |-> ContentLength,
     body   |-> SubSeq(raw, headEnd + 1, Min({headEnd + ContentLength, Len(raw)}))]

(* Fault: what was received of the next request is dropped.  *)
CutAll ==
    /\ pc = "body"
    /\ Len(raw) >= RequestEnd
    /\ got' = Append(got, Request)
    /\ raw' = <<>>
    /\ pc' = "head"
    /\ headEnd' = 0
    /\ UNCHANGED <<sent, coming, cause>>

(* The request is returned and its bytes leave raw.  *)
Cut ==
    /\ pc = "body"
    /\ Len(raw) >= RequestEnd
    /\ got' = Append(got, Request)
    /\ raw' = SubSeq(raw, RequestEnd + 1, Len(raw))
    /\ pc' = "head"
    /\ headEnd' = 0
    /\ UNCHANGED <<sent, coming, cause>>

(* recv returns no data: the client has sent everything and closes, or     *)
(* pauses for 60 seconds.                                                  *)
RecvEnds ==
    /\ \/ pc = "head" /\ HeadMissing
       \/ pc = "body" /\ Len(raw) < RequestEnd
    /\ Refuse(IF coming = <<>> THEN "end" ELSE "idle")

FramingFinished == pc = "closed" /\ UNCHANGED framingVars

FramingNext ==
    \/ SendRequest
    \/ FindHead \/ ReadHead \/ HeadTooLong \/ ParseFails \/ Parse \/ ReadBody \/ Cut \/ RecvEnds
    \/ FramingFinished

FramingSpec == FramingInit /\ [][FramingNext]_framingVars

----------------------------------------------------------------------------
(* Every variable has its type, and a head that was found is in raw.  *)
FramingTypeOK ==
    /\ sent \in Seq(Requests)
    /\ coming \in Seq(Bytes) /\ raw \in Seq(Bytes)
    /\ pc \in {"head", "parse", "body", "closed"}
    /\ headEnd \in 0..Len(raw)
    /\ got \in Seq([line : Seq(Bytes), length : Nat, body : Seq(Bytes)])
    /\ pc \in {"parse", "body"} =>
          headEnd > 3 /\ SubSeq(raw, headEnd - 3, headEnd) = HeadMark
    /\ cause \in {"none", "limit", "malformed", "end", "idle"}

(* No negative length was announced in the first k requests.  *)
Sane(k) == \A i \in DOMAIN sent : i <= k => sent[i].length >= 0

(* However the bytes are split, the requests returned are those that were  *)
(* sent, whole and in order: none is lost, merged with the next or read    *)
(* out of another one's body (readRequest leaves the rest in raw for the   *)
(* next call).  Only a negative Content-Length, which readRequest does not *)
(* refuse, upsets the requests from there on.                              *)
RequestsIntact ==
    \A i \in DOMAIN got : Sane(i) => i \in DOMAIN sent /\ got[i] = sent[i]

(* The connection is only given up for a reason: the client paused, all it *)
(* sent was answered, its request line is malformed, or its head is within *)
(* one recv of the limit.  No head that reaches the limit is accepted.     *)
RefusedWithCause ==
    Sane(Len(got) + 1) =>
        LET next == sent[Len(got) + 1]
        IN /\ cause = "end"       => Len(got) = Len(sent)
           /\ cause = "malformed" => Malformed(next)
           /\ cause = "limit"     => Len(HeadOf(next)) > Limit - Chunk
           /\ \A i \in DOMAIN got : ~Malformed(got[i]) /\ Len(HeadOf(got[i])) < Limit

(* What raw keeps of the requests that follow is at most what one recv     *)
(* appended, however many of them were pipelined; negative lengths aside.  *)
ResidueBounded ==
    [][pc = "body" /\ pc' = "head" /\ Sane(Len(got')) => Len(raw') <= Chunk]_framingVars
=============================================================================
