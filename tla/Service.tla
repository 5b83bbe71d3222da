------------------------------- MODULE Service -------------------------------
(***************************************************************************)
(* main.cpp: the process from its command line to its exit, with the stdio *)
(* loop of mcp/stdio_server.cpp and the requests to /mcp and /healthz of   *)
(* mcp/http_transport.cpp.  How connections are accepted, read and closed  *)
(* is HttpServer and HttpFraming; /sse and /message are SseTransport.      *)
(***************************************************************************)
EXTENDS Auth, Protocol, FiniteSets

CONSTANTS
    CommandLines,   \* the command lines, sequences of words
    Environments,   \* [secret, key, token]: MCP_JWT_SECRET, ...
    Inputs,         \* what stdin holds, sequences of messages
    Conns,          \* connections, one request each
    Credentials,    \* Authorization headers
    Messages,       \* bodies posted to /mcp
    Paths,          \* a reader's words that name files with a key: word -> text
    MaxTime         \* bound: seconds the clock advances

ASSUME ServiceAssumption ==
    /\ MaxTime \in Nat
    /\ \A s \in CommandLines \cup Inputs : Len(s) \in Nat
    /\ \A s \in Inputs : \A k \in 1..Len(s) : s[k].text \in Texts
    /\ \A m \in Messages : m.text \in Texts

Options ==
    {"--transport", "--port", "--backend", "--bind", "--auth-token",
     "--auth-jwt-secret", "--auth-jwt-public-key", "--tls-cert", "--tls-key"}

VARIABLES
    openssl,  \* MCP_WITH_OPENSSL
    argv,     \* the command line
    env,      \* the environment
    input,    \* the lines of stdin
    line,     \* lines read
    pc,       \* where main is
    i,        \* the argument parsed next
    opt,      \* the options' values
    code,     \* exit code
    auth,     \* the AuthChecker
    gStop,    \* a signal came
    now,      \* the clock
    output,   \* answers written to stdout
    conn      \* per connection: where its thread is, the request, the answer

mainVars == <<pc, i, opt, code, auth, gStop>>
given    == <<openssl, argv, env, input>>
vars     == <<given, line, mainVars, now, output, conn>>

Defaults == [o \in Options |->
    CASE o = "--transport" -> "stdio" [] o = "--port" -> "8080" [] o = "--backend" -> "adb"
      [] o = "--bind" -> "0.0.0.0" [] OTHER -> ""]

NoMessage == [text |-> "blank", method |-> "", id |-> "absent", tool |-> ""]
Idle ==
    [at |-> "idle", cred |-> [bearer |-> FALSE, text |-> ""], msg |-> NoMessage,
     arrived |-> 0, ended |-> 0, status |-> 0, answer |-> <<>>]

Init ==
    /\ openssl \in BOOLEAN
    /\ argv \in CommandLines
    /\ env \in Environments
    /\ input \in Inputs
    /\ line = 0
    /\ pc = "parse" /\ i = 1 /\ opt = Defaults /\ code = 0
    /\ auth = NoAuth
    /\ gStop = FALSE
    /\ now = 0
    /\ output = <<>>
    /\ conn = [c \in Conns |-> Idle]

Exit(status) ==
    /\ pc' = "exit" /\ code' = status
    /\ UNCHANGED <<given, line, i, opt, auth, gStop, now, output, conn>>

----------------------------------------------------------------------------
(* main.  *)

Long(word) ==
    CASE word = "-t" -> "--transport" [] word = "-p" -> "--port"
      [] word = "-b" -> "--backend"   [] word = "-h" -> "--help"
      [] OTHER -> word

(* An option takes the next argument, whatever it looks like.  *)
ParseArgument ==
    /\ pc = "parse" /\ i <= Len(argv)
    /\ CASE Long(argv[i]) \in Options /\ i < Len(argv) ->
              /\ opt' = [opt EXCEPT ![Long(argv[i])] = argv[i + 1]]
              /\ i' = i + 2
              /\ UNCHANGED <<given, line, pc, code, auth, gStop, now, output, conn>>
         [] Long(argv[i]) = "--help" -> Exit(0)
         [] OTHER -> Exit(2)

(* After initProvider: which server runs.  *)
ChooseTransport ==
    /\ pc = "parse" /\ i > Len(argv)
    /\ CASE opt["--transport"] = "stdio" -> pc' = "stdio" /\ UNCHANGED code
         [] opt["--transport"] \in {"sse", "streamable-http", "http"} -> pc' = "auth" /\ UNCHANGED code
         [] OTHER -> pc' = "exit" /\ code' = 2
    /\ UNCHANGED <<given, line, i, opt, auth, gStop, now, output, conn>>

JwtAsked == opt["--auth-jwt-secret"] # "" \/ opt["--auth-jwt-public-key"] # ""

(* Fault: a JWT key that does not load is only reported.  *)
ConfigureAuthAnyway ==
    /\ pc = "auth"
    /\ auth' \in IF JwtAsked
                 THEN {WithJwt(r.jwt) : r \in JwtFrom(openssl, opt["--auth-jwt-secret"],
                                                      opt["--auth-jwt-public-key"])}
                 ELSE {WithToken(opt["--auth-token"])}
    /\ pc' = "listen"
    /\ UNCHANGED <<given, line, i, opt, code, gStop, now, output, conn>>

(* JWT before token before environment; a key that does not load ends the  *)
(* process.                                                                *)
ConfigureAuth ==
    /\ pc = "auth"
    /\ IF JwtAsked
       THEN \E r \in JwtFrom(openssl, opt["--auth-jwt-secret"], opt["--auth-jwt-public-key"]) :
              IF r.ok THEN /\ auth' = WithJwt(r.jwt) /\ pc' = "listen" /\ UNCHANGED code
              ELSE pc' = "exit" /\ code' = 1 /\ UNCHANGED auth
       ELSE /\ auth' \in IF opt["--auth-token"] # "" THEN {WithToken(opt["--auth-token"])}
                         ELSE FromEnv(openssl, env)
            /\ pc' = "listen"
            /\ UNCHANGED code
    /\ UNCHANGED <<given, line, i, opt, gStop, now, output, conn>>

(* start, or startTls, which needs OpenSSL and both files.  *)
TlsAsked == opt["--tls-cert"] # "" \/ opt["--tls-key"] # ""

Listen ==
    /\ pc = "listen"
    /\ \/ Exit(1)
       \/ /\ TlsAsked => openssl /\ opt["--tls-cert"] # "" /\ opt["--tls-key"] # ""
          /\ pc' = "run"
          /\ UNCHANGED <<given, line, i, opt, code, auth, gStop, now, output, conn>>

OnSignal ==
    /\ pc = "run" /\ ~gStop
    /\ gStop' = TRUE
    /\ UNCHANGED <<given, line, pc, i, opt, code, auth, now, output, conn>>

(* The loop sees it, up to 200 ms later; stop returns.  *)
Stop == pc = "run" /\ gStop /\ Exit(0)

----------------------------------------------------------------------------
(* StdioServer::run: a line, and its answer before the next.  *)

StdioLine ==
    /\ pc = "stdio" /\ line < Len(input)
    /\ line' = line + 1
    /\ \E outcome \in Outcomes :
         output' = output \o (IF input[line + 1].text = "blank" THEN <<>>
                             ELSE HandleMessage(input[line + 1], outcome))
    /\ UNCHANGED <<given, mainVars, now, conn>>

StdioEnds == pc = "stdio" /\ line = Len(input) /\ Exit(0)

----------------------------------------------------------------------------
(* A connection's thread.  *)

Answered(c, status, answers) ==
    conn' = [conn EXCEPT ![c] = [@ EXCEPT !.at = "done", !.status = status, !.answer = answers,
                                          !.ended = now]]

(* handleHealth asks for no credential.  *)
GetHealthz(c) ==
    /\ pc = "run" /\ conn[c].at = "idle"
    /\ conn' = [conn EXCEPT ![c] = [@ EXCEPT !.at = "healthy", !.status = 200]]
    /\ UNCHANGED <<given, line, mainVars, now, output>>

PostMcp(c) ==
    /\ pc = "run" /\ conn[c].at = "idle"
    /\ \E cred \in Credentials, m \in Messages :
         conn' = [conn EXCEPT ![c] = [@ EXCEPT !.at = "check", !.cred = cred, !.msg = m,
                                               !.arrived = now]]
    /\ UNCHANGED <<given, line, mainVars, now, output>>

(* check; of a JWT all but nbf.  *)
Check(c) ==
    /\ pc = "run" /\ conn[c].at = "check"
    /\ LET cred == conn[c].cred
           next ==
             CASE auth.mode = "none" -> "handle"
               [] auth.mode = "token" -> IF TokenMatches(auth, cred) THEN "handle" ELSE "done"
               [] OTHER -> IF Signed(auth.jwt, cred) /\ NotExpired(Jwts[cred.text], now)
                           THEN "nbf" ELSE "done"
       IN  IF next = "done" THEN Answered(c, 401, <<>>)
           ELSE conn' = [conn EXCEPT ![c] = [@ EXCEPT !.at = next]]
    /\ UNCHANGED <<given, line, mainVars, now, output>>

(* The clock is read again.  *)
CheckNbf(c) ==
    /\ pc = "run" /\ conn[c].at = "nbf"
    /\ IF Effective(Jwts[conn[c].cred.text], now) THEN conn' = [conn EXCEPT ![c] = [@ EXCEPT !.at = "handle"]]
       ELSE Answered(c, 401, <<>>)
    /\ UNCHANGED <<given, line, mainVars, now, output>>

(* handleStreamable.  *)
HandleStreamable(c) ==
    /\ pc = "run" /\ conn[c].at = "handle"
    /\ \E outcome \in Outcomes :
         LET answers == HandleMessage(conn[c].msg, outcome)
         IN  Answered(c, IF answers = <<>> THEN 202 ELSE 200, answers)
    /\ UNCHANGED <<given, line, mainVars, now, output>>

Tick ==
    /\ pc = "run" /\ now < MaxTime
    /\ now' = now + 1
    /\ UNCHANGED <<given, line, mainVars, output, conn>>

----------------------------------------------------------------------------
MainStep ==
    \/ ParseArgument \/ ChooseTransport \/ ConfigureAuth \/ Listen \/ Stop
    \/ StdioLine \/ StdioEnds

ConnStep(c) == GetHealthz(c) \/ PostMcp(c) \/ Check(c) \/ CheckNbf(c) \/ HandleStreamable(c)

Exited == pc = "exit" /\ UNCHANGED vars

Next == MainStep \/ OnSignal \/ Tick \/ (\E c \in Conns : ConnStep(c)) \/ Exited

Spec == Init /\ [][Next]_vars

----------------------------------------------------------------------------
(* Every variable has its type.  *)
TypeOK ==
    /\ pc \in {"parse", "stdio", "auth", "listen", "run", "exit"}
    /\ i \in 1..(Len(argv) + 1)
    /\ code \in 0..2
    /\ auth.mode \in {"none", "token", "jwt"}
    /\ auth.mode = "jwt" <=> VerifierEnabled(auth.jwt)
    /\ now \in 0..MaxTime
    /\ line \in 0..Len(input)
    /\ \A c \in Conns :
         /\ conn[c].at \in {"idle", "healthy", "check", "nbf", "handle", "done"}
         /\ conn[c].arrived <= now

Served(c) == conn[c].at = "done" /\ conn[c].status # 401

(* The keys a source can be said to hold.  *)
KeysOf(source) == UNION {{t.key} \cup {t.keys[k].n : k \in DOMAIN t.keys} : t \in Material(source)}

JwtBy(cred, secret, source) ==
    /\ cred.text \in DOMAIN Jwts
    /\ LET jwt == Jwts[cred.text]
       IN  \/ jwt.alg = "HS256" /\ jwt.signer = secret
           \/ jwt.alg = "RS256" /\ source # "" /\ jwt.signer \in KeysOf(source)

(* The environment named a key that did not load, and was given up with    *)
(* all else it asks for (auth.cpp:105): the server asks for nothing.       *)
EnvKeyLost ==
    env.key # "" /\ auth.mode = "none" /\ \E l \in LoadKey(openssl, env.key) : ~l.ok

(* What a credential has to be if the command line is silent.  *)
AskedByEnv(cred) ==
    /\ env.secret # "" \/ env.key # "" => JwtBy(cred, env.secret, env.key) \/ EnvKeyLost
    /\ env.secret = "" /\ env.key = "" /\ env.token # "" => cred.text = env.token

(* No message is handled that does not carry what the process was started  *)
(* to ask for: a JWT under the secret or the key the command line gave,    *)
(* whatever that key turned out to be, else its token, else the JWT or the *)
(* token of the environment.  The one exception: if the environment's key  *)
(* does not load, every message is handled (main.cpp:200-217,              *)
(* auth.cpp:98-132, jwt.cpp:213-299).                                      *)
AuthNotLost ==
    \A c \in Conns : Served(c) =>
        LET cred == conn[c].cred
        IN  CASE JwtAsked -> JwtBy(cred, opt["--auth-jwt-secret"], opt["--auth-jwt-public-key"])
              [] ~JwtAsked /\ opt["--auth-token"] # "" -> cred.text = opt["--auth-token"]
              [] OTHER -> AskedByEnv(cred)

(* The clock is read twice, and may advance in between; even so a token    *)
(* accepted was valid, under both its claims, at some one moment between   *)
(* the request's arrival and its answer (jwt.cpp:301-326).                 *)
ValidAtSomeMoment ==
    \A c \in Conns : Served(c) /\ auth.mode = "jwt" =>
        LET jwt == Jwts[conn[c].cred.text]
        IN  (\A e \in jwt.exp, b \in jwt.nbf : b < e) =>
                \E t \in conn[c].arrived..conn[c].ended :
                    (\A e \in jwt.exp : t < e) /\ (\A b \in jwt.nbf : b <= t)

(* What JSON-RPC asks: a request without an id, and nothing else, has no   *)
(* answer; what cannot be understood is answered under id null.            *)
NeedsAnswer(m) ==
    \/ m.text \notin {"blank", "object"}
    \/ m.text = "object" /\ (m.method = "" \/ m.id \notin {"absent", "null"})

AnswerTo(m) == IF m.text = "object" /\ m.id # "absent" THEN m.id ELSE "null"

(* The lines read that need an answer.  *)
Asked == {k \in 1..line : NeedsAnswer(input[k])}

(* The k-th answer is to the k-th of them.  *)
StdioAnswersMatch ==
    /\ Len(output) = Cardinality(Asked)
    /\ \A k \in Asked : output[Cardinality({j \in Asked : j <= k})].id = AnswerTo(input[k])

HttpAnswersMatch ==
    \A c \in Conns : Served(c) =>
        LET m == conn[c].msg
        IN  IF m.text = "blank" \/ NeedsAnswer(m)
            THEN conn[c].status = 200 /\ Len(conn[c].answer) = 1 /\ conn[c].answer[1].id = AnswerTo(m)
            ELSE conn[c].status = 202 /\ conn[c].answer = <<>>

(* On stdout, one answer for each line that needs one, under its id and in *)
(* the order of the lines, and nothing else; over HTTP a body with the     *)
(* request's own id, or 202.  A message under notifications/ that has an   *)
(* id is answered like any request (stdio_server.cpp:23-40, protocol.cpp:50-92,   *)
(* http_transport.cpp:155-166).                                            *)
AnswersMatch == StdioAnswersMatch /\ HttpAnswersMatch

(* "Three kinds of source are supported: a local PEM file, inline PEM, an  *)
(* http(s) URL" (auth.hpp:16): a path to a key that would load configures  *)
(* it.  The code takes the path itself for the key's text.                 *)
KeyFileLoads ==
    [][LET source == opt["--auth-jwt-public-key"]
       IN  pc = "auth" /\ source \in DOMAIN Paths /\ LoadText(openssl, Paths[source]).ok
             => pc' = "listen" /\ auth'.jwt.key = Paths[source].key]_vars
=============================================================================
