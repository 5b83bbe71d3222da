----------------------------- MODULE HttpsClient -----------------------------
(***************************************************************************)
(* net/https_client.cpp: one outgoing request, of fetchUrl (a key set at   *)
(* start) or of HttpsClient::post (a cloud command), and the server it     *)
(* talks to.                                                               *)
(*                                                                         *)
(* The file exists twice, with OpenSSL and without; connectTcp, parseUrl   *)
(* and httpGetPlain are the same in both.  A response is a sequence of     *)
(* parts: a status line without its end, CRLF, a header field, text.  It   *)
(* may be cut between any two of them, and a field or a text may be of any *)
(* length: a server can send more of it for ever.  A url is what parseUrl tells       *)
(* apart; names and paths are not spelt.                                   *)
(***************************************************************************)
EXTENDS Integers, Sequences, FiniteSets

CONSTANTS
    Urls,       \* the urls fetchUrl is called with
    Answers,    \* the responses a server may mean to send
    Addresses,  \* bound: addresses getaddrinfo returns
    Pieces      \* bound: writes a request takes

Parts == {"s200", "s404", "junk", "crlf", "field", "text"}

ASSUME HttpsClientAssumption ==
    /\ Answers \subseteq Seq(Parts)
    /\ Addresses \in Nat
    /\ Pieces \in Nat \ {0}

VARIABLES
    openssl,  \* MCP_WITH_OPENSSL
    url,      \* the url fetched; for post, the cloud endpoint
    post,     \* HttpsClient::post instead of fetchUrl?
    pc,       \* where the caller is
    target,   \* what parseUrl returned
    left,     \* addresses not tried yet
    handles,  \* what has to be released: "fd", "ctx", "ssl"
    unsent,   \* pieces of the request not written
    answer,   \* the server's response, in full
    sent,     \* parts of it the server has sent
    raw,      \* parts of it the caller has read
    more,     \* is there more of the last part sent, not read yet?
    link,     \* "open"; "closed" by the server, in TLS with close_notify; "cut"
    resp      \* HttpResponse

serverVars == <<answer, sent, more, link>>
callVars == <<openssl, url, post>>
vars == <<callVars, pc, target, left, handles, unsent, raw, resp, serverVars>>

Points == {"start", "connect", "context", "handshake", "send", "recv", "parse", "done"}

NoResponse == [status |-> 0, body |-> <<>>, error |-> FALSE]
Tls        == target.scheme = "https"
Status     == [s200 |-> 200, s404 |-> 404]

(* HttpResponse::ok().  *)
Ok(r) == ~r.error /\ r.status \in 200..299

Init ==
    /\ openssl \in BOOLEAN
    /\ url \in Urls
    /\ post \in BOOLEAN
    /\ pc = "start"
    /\ target = [ok |-> FALSE, scheme |-> "none", host |-> "none", port |-> 0]
    /\ left = 0
    /\ handles = {}
    /\ unsent = 0
    /\ answer \in Answers
    /\ sent = 0 /\ raw = 0 /\ more = FALSE
    /\ link = "open"
    /\ resp = NoResponse

(* An early return: an error, and what was released before it.  *)
Fail(released) ==
    /\ pc' = "done"
    /\ resp' = [resp EXCEPT !.error = TRUE]
    /\ handles' = handles \ released
    /\ UNCHANGED <<callVars, target, left, unsent, raw, serverVars>>

----------------------------------------------------------------------------
(* A url is [scheme, host, port, bracket]; port "none" if there is none,   *)
(* else what atoi makes of it; bracket if the host is an IPv6 literal,     *)
(* whose port then stays part of the name.                                 *)
ParseUrl(u) ==
    LET explicit == u.port # "none" /\ ~u.bracket
        port     == IF explicit THEN u.port ELSE IF u.scheme = "https" THEN "443" ELSE "80"
    IN  [ok     |-> u.scheme \in {"http", "https"} /\ port \notin {"0", "-1"} /\ u.host # "none",
         scheme |-> u.scheme,
         host   |-> IF u.bracket THEN "unresolvable" ELSE u.host,
         port   |-> port]

(* fetchUrl, with OpenSSL.  *)
FetchUrl ==
    /\ pc = "start" /\ ~post /\ openssl
    /\ IF ParseUrl(url).ok
       THEN /\ target' = ParseUrl(url)
            /\ pc' = "connect"
            /\ UNCHANGED <<callVars, left, handles, unsent, raw, resp, serverVars>>
       ELSE Fail({})

(* fetchUrl, without.  *)
FetchUrlPlain ==
    /\ pc = "start" /\ ~post /\ ~openssl
    /\ IF ParseUrl(url).ok /\ url.scheme = "http"
       THEN /\ target' = ParseUrl(url)
            /\ pc' = "connect"
            /\ UNCHANGED <<callVars, left, handles, unsent, raw, resp, serverVars>>
       ELSE Fail({})

(* HttpsClient::post, with OpenSSL: request.  *)
Post ==
    /\ pc = "start" /\ post /\ openssl
    /\ target' = [ok |-> TRUE, scheme |-> "https", host |-> "endpoint", port |-> "443"]
    /\ pc' = "connect"
    /\ UNCHANGED <<callVars, left, handles, unsent, raw, resp, serverVars>>

(* HttpsClient::post, without.  *)
PostRefused == pc = "start" /\ post /\ ~openssl /\ Fail({})

----------------------------------------------------------------------------
(* connectTcp.  *)

(* getaddrinfo.  *)
Resolve ==
    /\ pc = "connect" /\ left = 0
    /\ \/ Fail({})
       \/ /\ target.host # "unresolvable"
          /\ left' \in 1..Addresses
          /\ UNCHANGED <<callVars, pc, target, handles, unsent, raw, resp, serverVars>>

(* One address: a socket and its connection, or neither.  *)
Dial ==
    /\ pc = "connect" /\ left > 0
    /\ \/ /\ handles' = {"fd"}
          /\ left' = 0
          /\ pc' = IF Tls THEN "context" ELSE "send"
          /\ unsent' = Pieces
          /\ UNCHANGED <<callVars, target, raw, resp, serverVars>>
       \/ /\ left > 1
          /\ left' = left - 1
          /\ UNCHANGED <<callVars, pc, target, handles, unsent, raw, resp, serverVars>>
       \/ left = 1 /\ Fail({})

----------------------------------------------------------------------------
(* request and readAll.  *)

NewContext ==
    /\ pc = "context"
    /\ \/ Fail({"fd"})
       \/ /\ handles' = handles \cup {"ctx", "ssl"}
          /\ pc' = "handshake"
          /\ UNCHANGED <<callVars, target, left, unsent, raw, resp, serverVars>>

(* Fault: a failed handshake does not close the socket.  *)
HandshakeLeaks ==
    /\ pc = "handshake"
    /\ \/ Fail({"ssl", "ctx"})
       \/ /\ link = "open"
          /\ pc' = "send"
          /\ UNCHANGED <<callVars, target, left, handles, unsent, raw, resp, serverVars>>

Handshake ==
    /\ pc = "handshake"
    /\ \/ Fail({"ssl", "ctx", "fd"})
       \/ /\ link = "open"
          /\ pc' = "send"
          /\ UNCHANGED <<callVars, target, left, handles, unsent, raw, resp, serverVars>>

(* SSL_write in a loop: a write may be short, and may fail or time out.  *)
SendTls ==
    /\ pc = "send" /\ Tls
    /\ \/ Fail({"ssl", "ctx", "fd"})
       \/ /\ unsent' = unsent - 1
          /\ pc' = IF unsent = 1 THEN "recv" ELSE "send"
          /\ UNCHANGED <<callVars, target, left, handles, raw, resp, serverVars>>

(* What SSL_read and recv return of what has been sent.  *)
ReadSome ==
    /\ pc = "recv" /\ raw < sent
    /\ raw' = raw + 1
    /\ UNCHANGED <<callVars, pc, target, left, handles, unsent, resp, serverVars>>

(* The rest of a part is not kept apart from it.  *)
ReadMore ==
    /\ pc = "recv" /\ more
    /\ more' = FALSE
    /\ UNCHANGED <<callVars, pc, target, left, handles, unsent, raw, resp, answer, sent, link>>

AllRead == raw = sent /\ ~more

(* Fault: whatever ends the stream is its end.  *)
ReadAllOfIt ==
    /\ pc = "recv" /\ Tls
    /\ \/ /\ link = "cut" \/ (link = "closed" /\ AllRead)
          /\ pc' = "parse"
          /\ handles' = {}
          /\ UNCHANGED <<callVars, target, left, unsent, raw, resp, serverVars>>

(* readAll: close_notify ends the response, a connection that breaks is an *)
(* error, and a timeout (WANT_READ) reads again.                           *)
ReadAll ==
    /\ pc = "recv" /\ Tls
    /\ \/ /\ link = "closed" /\ AllRead
          /\ pc' = "parse"
          /\ handles' = {}
          /\ UNCHANGED <<callVars, target, left, unsent, raw, resp, serverVars>>
       \/ link = "cut" /\ Fail({"ssl", "ctx", "fd"})

----------------------------------------------------------------------------
(* httpGetPlain.  *)

SendPlain ==
    /\ pc = "send" /\ ~Tls
    /\ \/ Fail({"fd"})
       \/ /\ unsent' = unsent - 1
          /\ pc' = IF unsent = 1 THEN "recv" ELSE "send"
          /\ UNCHANGED <<callVars, target, left, handles, raw, resp, serverVars>>

(* Fault: a recv that times out is tried again.  *)
RecvPlainRetries ==
    /\ pc = "recv" /\ ~Tls
    /\ link = "cut" \/ (link = "closed" /\ AllRead)
    /\ pc' = "parse"
    /\ handles' = handles \ {"fd"}
    /\ UNCHANGED <<callVars, target, left, unsent, raw, resp, serverVars>>

(* recv returns 0 or fails: the end of the response, a reset, or 30        *)
(* seconds without a byte.                                                 *)
RecvPlain ==
    /\ pc = "recv" /\ ~Tls
    /\ link = "cut" \/ AllRead
    /\ pc' = "parse"
    /\ handles' = handles \ {"fd"}
    /\ UNCHANGED <<callVars, target, left, unsent, raw, resp, serverVars>>

----------------------------------------------------------------------------
(* The response: its first line, the status in it, the blank line, the     *)
(* rest.  What was received of a response whose head is not complete has   *)
(* a status all the same.                                                  *)

LineEnds(r) == {i \in DOMAIN r : r[i] = "crlf"}
HeadEnds(r) == {i \in LineEnds(r) : i + 1 \in LineEnds(r)}
First(S)    == CHOOSE i \in S : \A j \in S : i <= j

ParseResponse(r) ==
    IF LineEnds(r) = {} \/ r[1] \notin DOMAIN Status
    THEN [NoResponse EXCEPT !.error = TRUE]
    ELSE IF HeadEnds(r) = {}
    THEN [status |-> Status[r[1]], body |-> <<>>, error |-> TRUE]
    ELSE [status |-> Status[r[1]], body |-> SubSeq(r, First(HeadEnds(r)) + 2, Len(r)), error |-> FALSE]

Received == SubSeq(answer, 1, raw)

Parse ==
    /\ pc = "parse"
    /\ resp' = ParseResponse(Received)
    /\ pc' = "done"
    /\ UNCHANGED <<callVars, target, left, handles, unsent, raw, serverVars>>

----------------------------------------------------------------------------
(* The server, and the network.  *)

Reached == "fd" \in handles

ServerSends ==
    /\ Reached /\ link = "open" /\ unsent = 0
    /\ sent < Len(answer)
    /\ sent' = sent + 1
    /\ UNCHANGED <<callVars, pc, target, left, handles, unsent, raw, resp, answer, more, link>>

(* More of the part it is at, as often as it likes and within the reader's *)
(* timeout: nothing bounds a response, or the time it takes.               *)
ServerTrickles ==
    /\ Reached /\ link = "open" /\ sent > 0
    /\ answer[sent] \in {"field", "text"}
    /\ ~more
    /\ more' = TRUE
    /\ UNCHANGED <<callVars, pc, target, left, handles, unsent, raw, resp, answer, sent, link>>

(* The server closes, as a rule when it has sent all.  *)
ServerCloses ==
    /\ Reached /\ link = "open"
    /\ link' = "closed"
    /\ UNCHANGED <<callVars, pc, target, left, handles, unsent, raw, resp, answer, sent, more>>

(* A reset, or in TLS an end without close_notify.  *)
LinkBreaks ==
    /\ Reached /\ link = "open"
    /\ link' = "cut"
    /\ UNCHANGED <<callVars, pc, target, left, handles, unsent, raw, resp, answer, sent, more>>

----------------------------------------------------------------------------
ClientStep ==
    \/ FetchUrl \/ FetchUrlPlain \/ Post \/ PostRefused
    \/ Resolve \/ Dial \/ NewContext \/ Handshake \/ SendTls \/ SendPlain
    \/ ReadSome \/ ReadMore \/ ReadAll \/ RecvPlain \/ Parse

Finished == pc = "done" /\ UNCHANGED vars

(* A TLS read that times out is followed by another.  *)
StillWaits ==
    /\ pc = "recv" /\ Tls /\ link = "open" /\ AllRead
    /\ UNCHANGED vars

Next ==
    \/ ClientStep
    \/ ServerSends \/ ServerTrickles \/ ServerCloses \/ LinkBreaks
    \/ Finished \/ StillWaits

Spec == Init /\ [][Next]_vars

(* The caller runs and its sockets' timeouts pass.  The server owes        *)
(* nothing.                                                                *)
FairSpec == Spec /\ WF_vars(ClientStep)

----------------------------------------------------------------------------
(* Every variable has its type, and a TLS session exists on a context and  *)
(* a socket only.                                                          *)
TypeOK ==
    /\ openssl \in BOOLEAN /\ post \in BOOLEAN
    /\ pc \in Points
    /\ left \in 0..Addresses
    /\ handles \in {{}, {"fd"}, {"fd", "ctx", "ssl"}}
    /\ unsent \in 0..Pieces
    /\ sent \in 0..Len(answer) /\ raw \in 0..sent /\ more \in BOOLEAN
    /\ link \in {"open", "closed", "cut"}
    /\ resp.status \in {0, 200, 404} /\ resp.error \in BOOLEAN

(* Whichever step failed, the request leaves no socket, TLS session or     *)
(* context behind (https_client.cpp:192-237).                              *)
NothingLeft == pc = "done" => handles = {}

(* Over TLS a response is reported without an error only if all that the   *)
(* server sent before it closed was read: a connection that broke in the   *)
(* middle never passes for a short response.                               *)
AnswerWhole ==
    pc = "done" /\ Tls /\ ~resp.error =>
        /\ link = "closed" /\ ~more
        /\ resp = ParseResponse(SubSeq(answer, 1, sent))

(* A request comes to an end, also if the server falls silent, stops in    *)
(* the middle or vanishes, with two exceptions the code makes: over TLS    *)
(* readAll waits for ever for a server that keeps the connection open, and *)
(* in plain http recv goes on for a server that keeps sending.             *)
NeverStops == []<><<~Tls /\ ServerTrickles>>_vars

RequestReturns ==
    \/ <>[](Tls /\ pc = "recv" /\ link = "open")
    \/ NeverStops
    \/ <>(pc = "done")
=============================================================================
