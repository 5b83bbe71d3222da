---------------------------- MODULE ServiceProofs ----------------------------
(***************************************************************************)
(* Proofs about Service for any command lines, environments, keys, tokens, *)
(* messages and connections, and any advance of the clock.                 *)
(***************************************************************************)
EXTENDS Service, FiniteSetTheorems, SequenceTheorems, WellFoundedInduction, TLAPS

----------------------------------------------------------------------------
(* What a key source can give.                                             *)

LEMMA SmallestOf ==
    ASSUME NEW S, S \subseteq Nat, S # {}
    PROVE  \E k \in S : \A j \in S : k <= j
<1>1. PICK k \in S : \A j \in S : <<j, k>> \notin OpToRel(<, Nat)
      BY NatLessThanWellFounded, WFMin
<1>2. \A j \in S : ~(j < k)
      BY <1>1 DEF OpToRel
<1> QED
    BY <1>2

(* The key of a JWKS is one of its entries'.  *)
LEMMA JwksKey ==
    ASSUME NEW t, DOMAIN t.keys \subseteq Nat, LoadJwks(t).ok
    PROVE  \E k \in DOMAIN t.keys : LoadJwks(t).key = t.keys[k].n
<1> DEFINE fits == {k \in DOMAIN t.keys : t.keys[k].kty = "RSA" /\ t.keys[k].alg \in {"", "RS256"}}
           first == CHOOSE k \in fits : \A j \in fits : k <= j
<1>1. fits # {} /\ t.form = "json"
      BY DEF LoadJwks, Loaded, ParseJwks, NoKey
<1>2. first \in fits
  <2>1. \E k \in fits : \A j \in fits : k <= j
        BY <1>1, SmallestOf
  <2> QED
      BY <2>1
<1>3. ParseJwks(t).n = t.keys[first].n
      BY <1>1 DEF ParseJwks
<1>4. LoadJwks(t).key = ParseJwks(t).n
      BY DEF LoadJwks, Loaded, NoKey
<1> QED
    BY <1>2, <1>3, <1>4

(* What loads is a key the source holds.  *)
LEMMA LoadedKey ==
    ASSUME NEW ssl, NEW source, NEW l \in LoadKey(ssl, source), l.ok
    PROVE  l.key # NoKey /\ l.key \in KeysOf(source)
<1>1. PICK t \in Material(source) : l = LoadText(ssl, t)
  <2>1. ~Loaded(NoKey).ok
        BY DEF Loaded
  <2>2. l \in {LoadText(ssl, t) : t \in Material(source)}
        BY <2>1 DEF LoadKey
  <2> QED
      BY <2>2
<1>2. DOMAIN t.keys \subseteq Nat
      BY <1>1, AuthAssumption DEF Material, Text, Urls
<1>3. l.key # NoKey
      BY <1>1 DEF LoadText, LoadPem, LoadJwks, Loaded
<1>4. l.key = t.key \/ \E k \in DOMAIN t.keys : l.key = t.keys[k].n
  <2>1. CASE t.form = "pem"
        BY <1>1, <1>3, <2>1 DEF LoadText, LoadPem, Loaded
  <2>2. CASE t.form # "pem"
        BY <1>1, <1>2, <2>2, JwksKey DEF LoadText
  <2> QED
      BY <2>1, <2>2
<1> QED
    BY <1>1, <1>3, <1>4 DEF KeysOf

(* A verifier that was asked for is on, has the secret given, and no key   *)
(* but one the source holds.                                               *)
From(v, secret, source) ==
    /\ v.secret = secret
    /\ v.key # NoKey => source # "" /\ v.key \in KeysOf(source)

LEMMA JwtFromFacts ==
    ASSUME NEW ssl, NEW secret, NEW source, secret # "" \/ source # "",
           NEW r \in JwtFrom(ssl, secret, source), r.ok
    PROVE  WithJwt(r.jwt).mode = "jwt" /\ From(WithJwt(r.jwt).jwt, secret, source)
<1>1. CASE source = ""
  <2>1. JwtFrom(ssl, secret, source) = {[ok |-> TRUE, jwt |-> Verifier(secret, NoKey)]}
        BY <1>1, Zenon DEF JwtFrom
  <2>2. r.jwt.secret = secret /\ r.jwt.key = NoKey
    <3>1. r = [ok |-> TRUE, jwt |-> Verifier(secret, NoKey)]
          BY <2>1
    <3> QED
        BY <3>1 DEF Verifier
  <2>3. VerifierEnabled(r.jwt)
        BY <1>1, <2>2 DEF VerifierEnabled
  <2> QED
      BY <2>2, <2>3 DEF WithJwt, NoAuth, From
<1>2. CASE source # ""
  <2>1. PICK l \in LoadKey(ssl, source) : r = [ok |-> l.ok, jwt |-> Verifier(secret, l.key)]
        BY <1>2 DEF JwtFrom
  <2>2. l.key # NoKey /\ l.key \in KeysOf(source)
        BY <2>1, LoadedKey
  <2> QED
      BY <1>2, <2>1, <2>2 DEF WithJwt, NoAuth, Verifier, VerifierEnabled, From
<1> QED
    BY <1>1, <1>2

----------------------------------------------------------------------------
(* The inductive invariant, in named parts.                                *)

Fields == {"at", "cred", "msg", "arrived", "ended", "status", "answer"}

IsConn(r) == r = [f \in Fields |-> r[f]]

Typed ==
    /\ conn = [c \in Conns |-> conn[c]]
    /\ \A c \in Conns :
         /\ IsConn(conn[c])
         /\ conn[c].at \in {"idle", "healthy", "check", "nbf", "handle", "done"}
    /\ pc \in {"parse", "stdio", "auth", "listen", "run", "exit"}

(* The checker is what the command line asked for, or else the environment. *)
Configured ==
    /\ JwtAsked => /\ auth.mode = "jwt"
                   /\ From(auth.jwt, opt["--auth-jwt-secret"], opt["--auth-jwt-public-key"])
    /\ ~JwtAsked /\ opt["--auth-token"] # "" => auth.mode = "token" /\ auth.token = opt["--auth-token"]
    /\ ~JwtAsked /\ opt["--auth-token"] = "" =>
         /\ env.secret # "" \/ env.key # "" =>
              (auth.mode = "jwt" /\ From(auth.jwt, env.secret, env.key)) \/ EnvKeyLost
         /\ env.secret = "" /\ env.key = "" /\ env.token # "" =>
              auth.mode = "token" /\ auth.token = env.token

(* Requests come when it is configured.  *)
Started ==
    /\ pc \in {"listen", "run"} => Configured
    /\ \A c \in Conns : conn[c].at # "idle" => pc \in {"run", "exit"} /\ Configured

(* What check has established so far.  *)
Passed(c) ==
    /\ auth.mode = "token" => conn[c].cred.text = auth.token
    /\ auth.mode = "jwt" => Signed(auth.jwt, conn[c].cred)

Checked ==
    \A c \in Conns :
        /\ conn[c].at \in {"nbf", "handle"} \/ Served(c) => Passed(c)
        /\ conn[c].at = "nbf" => auth.mode \notin {"none", "token"}

(* When it was established: at t for exp, and at u for nbf.  *)
Timed ==
    /\ now \in Nat
    /\ \A c \in Conns :
        LET r == conn[c]
            j == Jwts[r.cred.text]
        IN  /\ r.arrived \in Nat /\ r.arrived <= now
            /\ r.at = "nbf" => \E t \in r.arrived..now : NotExpired(j, t)
            /\ r.at = "handle" /\ auth.mode = "jwt" =>
                 \E t \in r.arrived..now : NotExpired(j, t) /\ \E u \in t..now : Effective(j, u)
            /\ Served(c) /\ auth.mode = "jwt" =>
                 /\ r.ended \in Nat
                 /\ \E t \in r.arrived..r.ended :
                      NotExpired(j, t) /\ \E u \in t..r.ended : Effective(j, u)

IInv == Typed /\ Started /\ Checked /\ Timed

LEMMA InvInit == Init => IInv
<1> SUFFICES ASSUME Init
             PROVE  IInv
    OBVIOUS
<1>1. \A c \in Conns : conn[c] = Idle
      BY DEF Init
<1>2. IsConn(Idle) /\ Idle.at = "idle" /\ Idle.arrived = 0
      BY DEF Idle, IsConn, Fields
<1>3. conn = [c \in Conns |-> conn[c]] /\ now = 0 /\ pc = "parse"
      BY DEF Init
<1> QED
    BY <1>1, <1>2, <1>3 DEF IInv, Typed, Started, Checked, Timed, Served

(* Before the server listens there are no requests, and once it does the   *)
(* checker stays.                                                          *)
LEMMA ConfigureStep ==
    ASSUME IInv, ConfigureAuth
    PROVE  IInv'
<1>1. /\ pc = "auth" /\ pc' \in {"listen", "exit"}
      /\ UNCHANGED <<given, line, i, opt, gStop, now, output, conn>>
      BY DEF ConfigureAuth
<1>2. \A c \in Conns : conn[c].at = "idle"
      BY <1>1 DEF IInv, Started
<1>3. ASSUME pc' = "listen"
      PROVE  Configured'
  <2>1. CASE JwtAsked
    <3>1. PICK r \in JwtFrom(openssl, opt["--auth-jwt-secret"], opt["--auth-jwt-public-key"]) :
            r.ok /\ auth' = WithJwt(r.jwt)
          BY <1>3, <2>1 DEF ConfigureAuth
    <3>2. /\ WithJwt(r.jwt).mode = "jwt"
          /\ From(WithJwt(r.jwt).jwt, opt["--auth-jwt-secret"], opt["--auth-jwt-public-key"])
          BY <2>1, <3>1, JwtFromFacts DEF JwtAsked
    <3> QED
        BY <1>1, <2>1, <3>1, <3>2 DEF Configured, JwtAsked, given
  <2>2. CASE ~JwtAsked /\ opt["--auth-token"] # ""
    <3>1. auth' = WithToken(opt["--auth-token"])
          BY <2>2 DEF ConfigureAuth
    <3> QED
        BY <1>1, <2>2, <3>1 DEF Configured, JwtAsked, WithToken, NoAuth, given
  <2>3. CASE ~JwtAsked /\ opt["--auth-token"] = ""
    <3>1. auth' \in FromEnv(openssl, env)
          BY <2>3 DEF ConfigureAuth
    <3>2. CASE env.secret # "" \/ env.key # ""
      <4>1. PICK r \in JwtFrom(openssl, env.secret, env.key) :
              auth' = IF r.ok THEN WithJwt(r.jwt) ELSE NoAuth
            BY <3>1, <3>2 DEF FromEnv
      <4>2. CASE r.ok
        <5>1. WithJwt(r.jwt).mode = "jwt" /\ From(WithJwt(r.jwt).jwt, env.secret, env.key)
              BY <3>2, <4>2, JwtFromFacts
        <5> QED
            BY <1>1, <2>3, <3>2, <4>1, <4>2, <5>1 DEF Configured, JwtAsked, given
      <4>3. CASE ~r.ok
        <5>1. env.key # ""
          <6> SUFFICES ASSUME env.key = ""
                       PROVE  FALSE
              OBVIOUS
          <6>1. JwtFrom(openssl, env.secret, env.key)
                    = {[ok |-> TRUE, jwt |-> Verifier(env.secret, NoKey)]}
                BY Zenon DEF JwtFrom
          <6>2. r = [ok |-> TRUE, jwt |-> Verifier(env.secret, NoKey)]
                BY <4>1, <6>1
          <6> QED
              BY <4>3, <6>2
        <5>2. PICK l \in LoadKey(openssl, env.key) : r = [ok |-> l.ok, jwt |-> Verifier(env.secret, l.key)]
              BY <5>1 DEF JwtFrom
        <5>3. ~l.ok
              BY <4>3, <5>2
        <5>4. auth'.mode = "none"
              BY <4>1, <4>3 DEF NoAuth
        <5>5. EnvKeyLost'
              BY <1>1, <5>1, <5>3, <5>4 DEF EnvKeyLost, given
        <5> QED
            BY <1>1, <2>3, <3>2, <5>5 DEF Configured, JwtAsked, given
      <4> QED
          BY <4>2, <4>3
    <3>3. CASE env.key = "" /\ env.secret = ""
      <4>1. auth' = WithToken(env.token)
            BY <3>1, <3>3 DEF FromEnv
      <4> QED
          BY <1>1, <2>3, <3>3, <4>1 DEF Configured, JwtAsked, WithToken, NoAuth, given
    <3> QED
        BY <3>2, <3>3
  <2> QED
      BY <2>1, <2>2, <2>3
<1>4. Typed' /\ Started'
      BY <1>1, <1>2, <1>3 DEF IInv, Typed, Started
<1>5. Checked' /\ Timed'
      BY <1>1, <1>2 DEF IInv, Checked, Timed, Served
<1> QED
    BY <1>4, <1>5 DEF IInv

(* The rest of main: conn stays as it is, and so do the options and the    *)
(* checker once there are requests.                                        *)
LEMMA MainStepKeeps ==
    ASSUME IInv,
           \/ ParseArgument \/ ChooseTransport \/ Listen \/ Stop
           \/ StdioLine \/ StdioEnds \/ OnSignal
    PROVE  IInv'
<1> USE DEF mainVars, given
<1>1. /\ UNCHANGED <<openssl, env, auth, now, conn>>
      /\ pc' \in {"parse", "stdio", "auth", "listen", "run", "exit"}
      /\ pc \in {"run", "listen"} => UNCHANGED opt
      /\ pc' \in {"listen", "run"} => pc \in {"listen", "run"}
      /\ pc = "run" => pc' \in {"run", "exit"}
      /\ pc # "exit"
      BY DEF ParseArgument, ChooseTransport, Listen, Stop, StdioLine, StdioEnds, OnSignal, Exit,
             IInv, Typed
<1>2. Configured /\ opt' = opt => Configured'
      BY <1>1 DEF Configured, JwtAsked, EnvKeyLost
<1>3. Typed'
      BY <1>1 DEF IInv, Typed
<1>4. Started'
      BY <1>1, <1>2 DEF IInv, Started
<1>5. Checked' /\ Timed'
      BY <1>1 DEF IInv, Checked, Timed, Served, Passed
<1> QED
    BY <1>3, <1>4, <1>5 DEF IInv

(* A second passes.  *)
LEMMA TickStep ==
    ASSUME IInv, Tick
    PROVE  IInv'
<1>1. now' = now + 1 /\ UNCHANGED <<given, line, mainVars, output, conn>>
      BY DEF Tick
<1>2. Typed' /\ Started' /\ Checked'
      BY <1>1 DEF IInv, Typed, Started, Checked, Configured, JwtAsked, EnvKeyLost, Passed, Served, given, mainVars
<1>3. Timed'
      BY <1>1 DEF IInv, Timed, Served, mainVars
<1> QED
    BY <1>2, <1>3 DEF IInv

(* A request moves on: what its connection becomes has to satisfy the      *)
(* invariant, the others are as they were.                                 *)
LEMMA ConnStepKeeps ==
    ASSUME IInv, NEW c \in Conns, pc = "run", UNCHANGED <<given, line, mainVars, now, output>>,
           NEW r, conn' = [conn EXCEPT ![c] = r], IsConn(r),
           r.at \in {"healthy", "check", "nbf", "handle", "done"},
           (r.at \in {"nbf", "handle"} \/ (r.at = "done" /\ r.status # 401)) => Passed(c)',
           r.at = "nbf" => auth.mode \notin {"none", "token"},
           r.arrived \in Nat /\ r.arrived <= now,
           r.at = "nbf" => \E t \in r.arrived..now : NotExpired(Jwts[r.cred.text], t),
           r.at = "handle" /\ auth.mode = "jwt" =>
               \E t \in r.arrived..now : /\ NotExpired(Jwts[r.cred.text], t)
                                         /\ \E u \in t..now : Effective(Jwts[r.cred.text], u),
           r.at = "done" /\ r.status # 401 /\ auth.mode = "jwt" =>
               /\ r.ended \in Nat
               /\ \E t \in r.arrived..r.ended :
                    /\ NotExpired(Jwts[r.cred.text], t)
                    /\ \E u \in t..r.ended : Effective(Jwts[r.cred.text], u)
    PROVE  IInv'
<1> USE DEF mainVars, given
<1>1. /\ conn'[c] = r
      /\ \A d \in Conns \ {c} : conn'[d] = conn[d]
      /\ conn' = [d \in Conns |-> conn'[d]]
      BY DEF IInv, Typed
<1>2. UNCHANGED <<pc, opt, auth, openssl, env, now>>
      OBVIOUS
<1>3. Configured /\ Configured'
      BY <1>2 DEF IInv, Started, Configured, JwtAsked, EnvKeyLost
<1>4. Typed'
      BY <1>1, <1>2 DEF IInv, Typed
<1>5. Started'
      BY <1>1, <1>2, <1>3 DEF IInv, Started
<1>6. Checked'
  <2>1. ASSUME NEW d \in Conns \ {c}
        PROVE  /\ conn'[d].at \in {"nbf", "handle"} \/ Served(d)' => Passed(d)'
               /\ conn'[d].at = "nbf" => auth'.mode \notin {"none", "token"}
        BY <1>1, <1>2 DEF IInv, Checked, Served, Passed
  <2> QED
      BY <1>1, <1>2, <2>1 DEF Checked, Served
<1>7. Timed'
      BY <1>1, <1>2 DEF IInv, Timed, Served
<1> QED
    BY <1>4, <1>5, <1>6, <1>7 DEF IInv

(* A request that is refused is not served.  *)
LEMMA RefusedStep ==
    ASSUME IInv, NEW c \in Conns, pc = "run", UNCHANGED <<given, line, mainVars, now, output>>,
           conn[c].at # "idle", Answered(c, 401, <<>>)
    PROVE  IInv'
<1> DEFINE r == [conn[c] EXCEPT !.at = "done", !.status = 401, !.answer = <<>>, !.ended = now]
<1>1. conn' = [conn EXCEPT ![c] = r]
      BY DEF Answered
<1>2. IsConn(conn[c]) /\ conn[c].arrived \in Nat /\ conn[c].arrived <= now
      BY DEF IInv, Typed, Timed
<1>3. r.at = "done" /\ r.status = 401 /\ r.arrived = conn[c].arrived
      BY <1>2 DEF IsConn, Fields
<1>4. IsConn(r)
      BY <1>2 DEF IsConn, Fields
<1> HIDE DEF r
<1> QED
    BY <1>1, <1>2, <1>3, <1>4, ConnStepKeeps

LEMMA ArrivalStep ==
    ASSUME IInv, NEW c \in Conns, GetHealthz(c) \/ PostMcp(c)
    PROVE  IInv'
<1>1. /\ pc = "run" /\ UNCHANGED <<given, line, mainVars, now, output>>
      /\ IsConn(conn[c]) /\ conn[c].arrived \in Nat /\ conn[c].arrived <= now /\ now \in Nat
      BY DEF GetHealthz, PostMcp, IInv, Typed, Timed
<1>2. CASE GetHealthz(c)
  <2> DEFINE r == [conn[c] EXCEPT !.at = "healthy", !.status = 200]
  <2>1. conn' = [conn EXCEPT ![c] = r]
        BY <1>2 DEF GetHealthz
  <2>2. IsConn(r) /\ r.at = "healthy" /\ r.arrived = conn[c].arrived
        BY <1>1 DEF IsConn, Fields
  <2> HIDE DEF r
  <2> QED
      BY <1>1, <2>1, <2>2, ConnStepKeeps
<1>3. CASE PostMcp(c)
  <2>1. PICK cred \in Credentials, m \in Messages :
          conn' = [conn EXCEPT ![c] = [conn[c] EXCEPT !.at = "check", !.cred = cred, !.msg = m,
                                                      !.arrived = now]]
        BY <1>3 DEF PostMcp
  <2> DEFINE r == [conn[c] EXCEPT !.at = "check", !.cred = cred, !.msg = m, !.arrived = now]
  <2>2. IsConn(r) /\ r.at = "check" /\ r.arrived = now
        BY <1>1 DEF IsConn, Fields
  <2>3. conn' = [conn EXCEPT ![c] = r]
        BY <2>1
  <2>4. r.arrived \in Nat /\ r.arrived <= now
        BY <1>1, <2>2
  <2> HIDE DEF r
  <2> QED
      BY <1>1, <2>2, <2>3, <2>4, ConnStepKeeps
<1> QED
    BY <1>2, <1>3

(* check, up to the expiry.  *)
LEMMA CheckStep ==
    ASSUME IInv, NEW c \in Conns, Check(c)
    PROVE  IInv'
<1> DEFINE cred == conn[c].cred
           next ==
             CASE auth.mode = "none" -> "handle"
               [] auth.mode = "token" -> IF TokenMatches(auth, cred) THEN "handle" ELSE "done"
               [] OTHER -> IF Signed(auth.jwt, cred) /\ NotExpired(Jwts[cred.text], now)
                           THEN "nbf" ELSE "done"
           r == [conn[c] EXCEPT !.at = next]
<1>1. /\ pc = "run" /\ UNCHANGED <<given, line, mainVars, now, output>> /\ conn[c].at = "check"
      /\ IsConn(conn[c]) /\ conn[c].arrived \in Nat /\ conn[c].arrived <= now /\ now \in Nat
      BY DEF Check, IInv, Typed, Timed
<1>2. CASE next = "done"
      BY <1>1, <1>2, RefusedStep DEF Check
<1>3. CASE next # "done"
  <2>1. conn' = [conn EXCEPT ![c] = r]
        BY <1>3 DEF Check
  <2>2. \/ auth.mode = "none" /\ next = "handle"
        \/ auth.mode = "token" /\ next = "handle" /\ cred.text = auth.token
        \/ /\ auth.mode \notin {"none", "token"} /\ next = "nbf"
           /\ Signed(auth.jwt, cred) /\ NotExpired(Jwts[cred.text], now)
        BY <1>3 DEF TokenMatches
  <2> HIDE DEF next
  <2>3. IsConn(r) /\ r.at = next /\ r.cred = cred /\ r.arrived = conn[c].arrived
        BY <1>1 DEF IsConn, Fields
  <2>4. conn'[c] = r /\ auth' = auth
        BY <2>1, <1>1 DEF IInv, Typed, mainVars
  <2>5. Passed(c)'
        BY <2>2, <2>3, <2>4 DEF Passed
  <2>6. now \in r.arrived..now
        BY <1>1, <2>3
  <2> HIDE DEF r
  <2> QED
      BY <1>1, <2>1, <2>2, <2>3, <2>5, <2>6, ConnStepKeeps
<1> QED
    BY <1>2, <1>3

(* The second reading of the clock.  *)
LEMMA CheckNbfStep ==
    ASSUME IInv, NEW c \in Conns, CheckNbf(c)
    PROVE  IInv'
<1> DEFINE j == Jwts[conn[c].cred.text]
           r == [conn[c] EXCEPT !.at = "handle"]
<1>1. /\ pc = "run" /\ UNCHANGED <<given, line, mainVars, now, output>> /\ conn[c].at = "nbf"
      /\ IsConn(conn[c]) /\ conn[c].arrived \in Nat /\ conn[c].arrived <= now /\ now \in Nat
      BY DEF CheckNbf, IInv, Typed, Timed
<1>2. CASE ~Effective(j, now)
      BY <1>1, <1>2, RefusedStep DEF CheckNbf
<1>3. CASE Effective(j, now)
  <2>1. conn' = [conn EXCEPT ![c] = r]
        BY <1>3 DEF CheckNbf
  <2>2. IsConn(r) /\ r.at = "handle" /\ r.cred = conn[c].cred /\ r.arrived = conn[c].arrived
        BY <1>1 DEF IsConn, Fields
  <2>3. PICK t \in r.arrived..now : NotExpired(j, t)
        BY <1>1, <2>2 DEF IInv, Timed
  <2>4. t \in r.arrived..now /\ now \in t..now
        BY <1>1, <2>2, <2>3
  <2>5. conn'[c] = r /\ auth' = auth
        BY <2>1, <1>1 DEF IInv, Typed, mainVars
  <2>6. Passed(c)'
        BY <1>1, <2>2, <2>5 DEF IInv, Checked, Passed
  <2> HIDE DEF r
  <2> QED
      BY <1>1, <1>3, <2>1, <2>2, <2>3, <2>4, <2>6, ConnStepKeeps
<1> QED
    BY <1>2, <1>3

LEMMA HandleStep ==
    ASSUME IInv, NEW c \in Conns, HandleStreamable(c)
    PROVE  IInv'
<1>1. /\ pc = "run" /\ UNCHANGED <<given, line, mainVars, now, output>> /\ conn[c].at = "handle"
      /\ IsConn(conn[c]) /\ conn[c].arrived \in Nat /\ conn[c].arrived <= now /\ now \in Nat
      BY DEF HandleStreamable, IInv, Typed, Timed
<1>2. PICK status, answers : Answered(c, status, answers)
      BY DEF HandleStreamable
<1> DEFINE r == [conn[c] EXCEPT !.at = "done", !.status = status, !.answer = answers, !.ended = now]
<1>3. conn' = [conn EXCEPT ![c] = r]
      BY <1>2 DEF Answered
<1>4. /\ IsConn(r) /\ r.at = "done" /\ r.cred = conn[c].cred /\ r.arrived = conn[c].arrived
      /\ r.ended = now
      BY <1>1 DEF IsConn, Fields
<1>5. conn'[c] = r /\ auth' = auth
      BY <1>3, <1>1 DEF IInv, Typed, mainVars
<1>6. Passed(c)'
      BY <1>1, <1>4, <1>5 DEF IInv, Checked, Passed
<1>7. auth.mode = "jwt" =>
        \E t \in r.arrived..r.ended :
            /\ NotExpired(Jwts[r.cred.text], t)
            /\ \E u \in t..r.ended : Effective(Jwts[r.cred.text], u)
      BY <1>1, <1>4 DEF IInv, Timed
<1> HIDE DEF r
<1> QED
    BY <1>1, <1>3, <1>4, <1>6, <1>7, ConnStepKeeps

LEMMA InvNext == IInv /\ [Next]_vars => IInv'
<1>1. ASSUME IInv, UNCHANGED vars
      PROVE  IInv'
      BY <1>1
      DEF vars, given, mainVars, IInv, Typed, Started, Checked, Timed, Configured, JwtAsked, EnvKeyLost, Passed, Served
<1>2. ASSUME IInv, MainStep \/ OnSignal
      PROVE  IInv'
      BY <1>2, ConfigureStep, MainStepKeeps DEF MainStep
<1>3. ASSUME IInv, NEW c \in Conns, ConnStep(c)
      PROVE  IInv'
      BY <1>3, ArrivalStep, CheckStep, CheckNbfStep, HandleStep DEF ConnStep
<1> QED
    BY <1>1, <1>2, <1>3, TickStep DEF Next, Exited

LEMMA Invariant == Spec => []IInv
BY InvInit, InvNext, PTL DEF Spec

----------------------------------------------------------------------------
LEMMA AuthModes ==
    /\ NoAuth.mode = "none" /\ ~VerifierEnabled(NoAuth.jwt)
    /\ \A v : LET a == WithJwt(v)
             IN  /\ a.mode \in {"none", "jwt"}
                 /\ a.mode = "jwt" <=> VerifierEnabled(a.jwt)
    /\ \A w : LET a == WithToken(w)
             IN  a.mode \in {"none", "token"} /\ ~VerifierEnabled(a.jwt)
BY DEF NoAuth, WithJwt, WithToken, Verifier, VerifierEnabled

(* The argument parsed next is at most one past the last, for all that an  *)
(* option takes two; every exit code is one main returns.                  *)
LEMMA TypedNext ==
    ASSUME IInv, TypeOK, [Next]_vars, IInv'
    PROVE  TypeOK'
<1> USE DEF given, mainVars
<1>1. /\ pc' \in {"parse", "stdio", "auth", "listen", "run", "exit"}
      /\ \A c \in Conns : /\ conn'[c].at \in {"idle", "healthy", "check", "nbf", "handle", "done"}
                           /\ conn'[c].arrived <= now'
      BY DEF IInv, Typed, Timed
<1>2. UNCHANGED given
      BY DEF Next, MainStep, ConnStep, OnSignal, Tick, Exited, vars, ParseArgument, ChooseTransport,
             ConfigureAuth, Listen, Stop, StdioLine, StdioEnds, Exit, GetHealthz, PostMcp, Check,
             CheckNbf, HandleStreamable
<1>3. i' \in 1..(Len(argv') + 1)
  <2>1. CASE ParseArgument
    <3>1. Len(argv) \in Nat
          BY ServiceAssumption DEF TypeOK
    <3> QED
        BY <1>2, <2>1, <3>1 DEF TypeOK, ParseArgument, Exit
  <2>2. CASE ~ParseArgument
    <3>1. UNCHANGED i
          BY <2>2 DEF Next, MainStep, ConnStep, OnSignal, Tick, Exited, vars, ChooseTransport,
                      ConfigureAuth, Listen, Stop, StdioLine, StdioEnds, Exit, GetHealthz, PostMcp,
                      Check, CheckNbf, HandleStreamable
    <3> QED
        BY <1>2, <3>1 DEF TypeOK
  <2> QED
      BY <2>1, <2>2
<1>4. code' \in 0..2
  <2>1. CASE UNCHANGED code
        BY <2>1 DEF TypeOK
  <2>2. CASE ~UNCHANGED code
    <3>1. ParseArgument \/ ChooseTransport \/ ConfigureAuth \/ Listen \/ Stop \/ StdioEnds
          BY <2>2 DEF Next, MainStep, ConnStep, OnSignal, Tick, Exited, vars, StdioLine,
                      GetHealthz, PostMcp, Check, CheckNbf, HandleStreamable
    <3>2. code' \in {0, 1, 2}
          BY <2>2, <3>1 DEF ParseArgument, ChooseTransport, ConfigureAuth, Listen, Stop, StdioEnds, Exit
    <3> QED
        BY <3>2
  <2> QED
      BY <2>1, <2>2
<1>5. now' \in 0..MaxTime
  <2>1. CASE UNCHANGED now
        BY <2>1 DEF TypeOK
  <2>2. CASE ~UNCHANGED now
    <3>1. Tick
          BY <2>2 DEF Next, MainStep, ConnStep, OnSignal, Exited, vars, ParseArgument, ChooseTransport,
                      ConfigureAuth, Listen, Stop, StdioLine, StdioEnds, Exit, GetHealthz, PostMcp,
                      Check, CheckNbf, HandleStreamable
    <3> QED
        BY <3>1, ServiceAssumption DEF Tick, TypeOK
  <2> QED
      BY <2>1, <2>2
<1>6. line' \in 0..Len(input')
  <2>1. CASE UNCHANGED line
        BY <1>2, <2>1 DEF TypeOK
  <2>2. CASE ~UNCHANGED line
    <3>1. StdioLine
          BY <2>2 DEF Next, MainStep, ConnStep, OnSignal, Tick, Exited, vars, ParseArgument,
                      ChooseTransport, ConfigureAuth, Listen, Stop, StdioEnds, Exit, GetHealthz,
                      PostMcp, Check, CheckNbf, HandleStreamable
    <3>2. line < Len(input) /\ line' = line + 1
          BY <3>1 DEF StdioLine
    <3> QED
        BY <1>2, <3>2 DEF TypeOK
  <2> QED
      BY <2>1, <2>2
<1>7. auth'.mode \in {"none", "token", "jwt"} /\ (auth'.mode = "jwt" <=> VerifierEnabled(auth'.jwt))
  <2>1. CASE UNCHANGED auth
        BY <2>1 DEF TypeOK
  <2>2. CASE ~UNCHANGED auth
    <3>1. ConfigureAuth
          BY <2>2 DEF Next, MainStep, ConnStep, OnSignal, Tick, Exited, vars, ParseArgument,
                      ChooseTransport, Listen, Stop, StdioLine, StdioEnds, Exit, GetHealthz,
                      PostMcp, Check, CheckNbf, HandleStreamable
    <3>2. \/ auth' = NoAuth
          \/ \E v : auth' = WithJwt(v)
          \/ \E w : auth' = WithToken(w)
      <4>1. CASE JwtAsked
            BY <2>2, <3>1, <4>1 DEF ConfigureAuth
      <4>2. CASE ~JwtAsked /\ opt["--auth-token"] # ""
            BY <3>1, <4>2 DEF ConfigureAuth
      <4>3. CASE ~JwtAsked /\ opt["--auth-token"] = ""
        <5>1. auth' \in FromEnv(openssl, env)
              BY <3>1, <4>3 DEF ConfigureAuth
        <5> QED
            BY <5>1 DEF FromEnv
      <4> QED
          BY <4>1, <4>2, <4>3
    <3> QED
        BY <3>2, AuthModes
  <2> QED
      BY <2>1, <2>2
<1> QED
    BY <1>1, <1>3, <1>4, <1>5, <1>6, <1>7 DEF TypeOK

(* Every variable keeps its type, whatever the command line.  *)
THEOREM TypeCorrect == Spec => []TypeOK
<1>1. Init => TypeOK
  <2> SUFFICES ASSUME Init
               PROVE  TypeOK
      OBVIOUS
  <2>1. Len(argv) \in Nat /\ Len(input) \in Nat
        BY ServiceAssumption DEF Init
  <2>2. /\ pc = "parse" /\ i = 1 /\ code = 0 /\ auth = NoAuth /\ now = 0 /\ line = 0
        /\ \A c \in Conns : conn[c] = Idle
        BY DEF Init
  <2>3. Idle.at = "idle" /\ Idle.arrived = 0
        BY DEF Idle
  <2> QED
      BY <2>1, <2>2, <2>3, ServiceAssumption, AuthModes DEF TypeOK
<1>2. TypeOK /\ [Next]_vars /\ IInv /\ IInv' => TypeOK'
      BY TypedNext
<1> QED
    BY <1>1, <1>2, Invariant, PTL DEF Spec

----------------------------------------------------------------------------
(* No message is handled without the credential the process was started to *)
(* ask for, on the command line or else in the environment, except where   *)
(* the environment's key did not load.                                     *)
THEOREM AuthIsNotLost == Spec => []AuthNotLost
<1>1. ASSUME IInv
      PROVE  AuthNotLost
  <2> SUFFICES ASSUME NEW c \in Conns, Served(c)
               PROVE  LET cred == conn[c].cred
                      IN  CASE JwtAsked ->
                                 JwtBy(cred, opt["--auth-jwt-secret"], opt["--auth-jwt-public-key"])
                            [] ~JwtAsked /\ opt["--auth-token"] # "" -> cred.text = opt["--auth-token"]
                            [] OTHER -> AskedByEnv(cred)
      BY DEF AuthNotLost
  <2>1. Configured /\ Passed(c)
        BY <1>1 DEF IInv, Started, Checked, Served
  <2>2. ASSUME NEW secret, NEW source, auth.mode = "jwt", From(auth.jwt, secret, source)
        PROVE  JwtBy(conn[c].cred, secret, source)
        BY <2>1, <2>2 DEF Passed, Signed, VerifySignature, From, JwtBy, NoKey
  <2>3. CASE JwtAsked
        BY <2>1, <2>2, <2>3 DEF Configured
  <2>4. CASE ~JwtAsked
        BY <2>1, <2>2, <2>4 DEF Configured, Passed, AskedByEnv
  <2> QED
      BY <2>3, <2>4
<1> QED
    BY <1>1, Invariant, PTL

(* A token that was accepted was within both its limits at one moment of   *)
(* the request, whenever the clock advanced between the two readings.      *)
THEOREM ValidAtOneMoment == Spec => []ValidAtSomeMoment
<1>1. ASSUME IInv
      PROVE  ValidAtSomeMoment
  <2> SUFFICES ASSUME NEW c \in Conns, Served(c), auth.mode = "jwt",
                      \A e \in Jwts[conn[c].cred.text].exp, b \in Jwts[conn[c].cred.text].nbf : b < e
               PROVE  \E t \in conn[c].arrived..conn[c].ended :
                        /\ \A e \in Jwts[conn[c].cred.text].exp : t < e
                        /\ \A b \in Jwts[conn[c].cred.text].nbf : b <= t
      BY DEF ValidAtSomeMoment
  <2> DEFINE j == Jwts[conn[c].cred.text]
  <2>1. conn[c].cred.text \in DOMAIN Jwts
        BY <1>1 DEF IInv, Checked, Passed, Signed
  <2>2. /\ j.exp \subseteq Int /\ j.nbf \subseteq Int
        /\ \A s, t \in j.nbf : s = t
        BY <2>1, AuthAssumption
  <2>3. conn[c].arrived \in Nat /\ conn[c].ended \in Nat
        BY <1>1 DEF IInv, Timed
  <2>4. PICK t \in conn[c].arrived..conn[c].ended :
          NotExpired(j, t) /\ \E u \in t..conn[c].ended : Effective(j, u)
        BY <1>1 DEF IInv, Timed
  <2>8. PICK u \in t..conn[c].ended : Effective(j, u)
        BY <2>4
  <2>5. /\ \A e \in j.exp : t < e
        /\ \A b \in j.nbf : u >= b
        BY <2>4, <2>8 DEF NotExpired, Effective
  <2>6. CASE \A b \in j.nbf : b <= t
        BY <2>4, <2>5, <2>6
  <2>7. ASSUME NEW b \in j.nbf, ~(b <= t)
        PROVE  \E s \in conn[c].arrived..conn[c].ended :
                 (\A e \in j.exp : s < e) /\ (\A n \in j.nbf : n <= s)
    <3>1. b \in conn[c].arrived..conn[c].ended
          BY <2>2, <2>3, <2>4, <2>5, <2>7, <2>8
    <3>2. \A n \in j.nbf : n <= b
          BY <2>2
    <3> QED
        BY <3>1, <3>2
  <2> QED
      BY <2>6, <2>7
<1> QED
    BY <1>1, Invariant, PTL
----------------------------------------------------------------------------
(* Messages and their answers.                                             *)

Answers(m) == {HandleMessage(m, outcome)[1] : outcome \in Outcomes}

(* What handleMessage returns: one answer to what needs one and to a blank *)
(* body, under its id; none to the rest.                                   *)
LEMMA HandleMessageAnswers ==
    ASSUME NEW m, m.text \in Texts, NEW outcome \in Outcomes
    PROVE  IF m.text = "blank" \/ NeedsAnswer(m)
           THEN \E a \in Answers(m) : a.id = AnswerTo(m) /\ HandleMessage(m, outcome) = <<a>>
           ELSE HandleMessage(m, outcome) = <<>>
<1>1. ASSUME NEW a, HandleMessage(m, outcome) = <<a>>
      PROVE  a \in Answers(m)
      BY <1>1 DEF Answers
<1>2. \A id, c : MakeError(id, c).id = id /\ MakeResult(id).id = id
      BY DEF MakeError, MakeResult
<1>3. CASE m.text \in {"blank", "junk"}
  <2>1. HandleMessage(m, outcome) = <<MakeError("null", ParseError)>>
        BY <1>3, Zenon DEF HandleMessage
  <2>2. m.text = "blank" \/ NeedsAnswer(m)
        BY <1>3 DEF NeedsAnswer
  <2>3. AnswerTo(m) = "null"
        BY <1>3 DEF AnswerTo
  <2> QED
      BY <1>1, <1>2, <2>1, <2>2, <2>3
<1>4. CASE m.text = "value"
  <2>1. m.text \notin {"blank", "junk"} /\ NeedsAnswer(m)
        BY <1>4 DEF NeedsAnswer
  <2>2. HandleMessage(m, outcome) = <<MakeError("null", InvalidRequest)>>
        BY <1>4, <2>1, Zenon DEF HandleMessage
  <2>3. AnswerTo(m) = "null"
        BY <1>4 DEF AnswerTo
  <2> QED
      BY <1>1, <1>2, <2>1, <2>2, <2>3
<1>5. CASE m.text = "object"
  <2>1. m.text \notin {"blank", "junk"} /\ m.text # "value"
        BY <1>5
  <2>2. CASE m.method = ""
    <3>1. NeedsAnswer(m)
          BY <1>5, <2>2 DEF NeedsAnswer
    <3>2. HandleMessage(m, outcome) = <<MakeError(Echo(m.id), InvalidRequest)>>
          BY <2>1, <2>2, Zenon DEF HandleMessage
    <3>3. AnswerTo(m) = Echo(m.id)
          BY <1>5 DEF AnswerTo, Echo
    <3> QED
        BY <1>1, <1>2, <3>1, <3>2, <3>3
  <2>3. CASE m.method # "" /\ IsNotification(m)
    <3>1. ~NeedsAnswer(m) /\ m.text # "blank"
          BY <1>5, <2>3 DEF NeedsAnswer, IsNotification
    <3>2. HandleMessage(m, outcome) = <<>>
          BY <2>1, <2>3, Zenon DEF HandleMessage
    <3> QED
        BY <3>1, <3>2
  <2>4. CASE m.method # "" /\ ~IsNotification(m)
    <3>1. NeedsAnswer(m) /\ AnswerTo(m) = m.id
          BY <1>5, <2>4 DEF NeedsAnswer, IsNotification, AnswerTo
    <3>2. HandleMessage(m, outcome) = <<Dispatch(m, outcome)>>
          BY <2>1, <2>4, Zenon DEF HandleMessage
    <3>3. OnToolsCall(m, outcome).id = m.id
          BY DEF OnToolsCall, MakeResult
    <3>4. Dispatch(m, outcome).id = m.id
          BY <1>2, <3>3, Zenon DEF Dispatch
    <3> QED
        BY <1>1, <3>1, <3>2, <3>4
  <2> QED
      BY <2>2, <2>3, <2>4
<1> QED
    BY <1>3, <1>4, <1>5 DEF Texts

(* What is known of the output and of the requests at every moment.        *)
AnswersOf(s) == UNION {Answers(s[k]) : k \in 1..Len(s)}

Answering ==
    /\ input \in Inputs
    /\ output \in Seq(AnswersOf(input))
    /\ StdioAnswersMatch
    /\ \A c \in Conns : conn[c].at \in {"check", "nbf", "handle", "done"} => conn[c].msg \in Messages
    /\ HttpAnswersMatch

(* A line more: one element of Asked more, above the others, or none.      *)
LEMMA StdioLineStep ==
    ASSUME TypeOK, Answering, StdioLine
    PROVE  output' \in Seq(AnswersOf(input)) /\ StdioAnswersMatch'
<1> DEFINE m == input[line + 1]
<1>1. /\ line' = line + 1 /\ input' = input
      /\ line \in Nat /\ Len(input) \in Nat /\ line + 1 \in 1..Len(input)
      BY ServiceAssumption DEF StdioLine, given, TypeOK, Answering
<1>2. PICK outcome \in Outcomes :
        output' = output \o (IF m.text = "blank" THEN <<>> ELSE HandleMessage(m, outcome))
      BY DEF StdioLine
<1>3. m.text \in Texts
      BY <1>1, ServiceAssumption DEF Answering
<1>4. output \in Seq(AnswersOf(input)) /\ Len(output) \in Nat /\ StdioAnswersMatch
      BY DEF Answering
<1>5. /\ IsFiniteSet(Asked) /\ Cardinality(Asked) \in Nat
      /\ \A k \in Asked : IsFiniteSet({j \in Asked : j <= k})
  <2>1. IsFiniteSet(1..line)
        BY <1>1, FS_Interval
  <2>4. Asked \in SUBSET (1..line)
        BY DEF Asked
  <2>2. IsFiniteSet(Asked) /\ Cardinality(Asked) \in Nat
        BY <2>1, <2>4, FS_Subset, FS_CardinalityType
  <2>3. ASSUME NEW k \in Asked
        PROVE  IsFiniteSet({j \in Asked : j <= k})
    <3>1. {j \in Asked : j <= k} \in SUBSET Asked
          OBVIOUS
    <3> QED
        BY <2>2, <3>1, FS_Subset
  <2> QED
      BY <2>2, <2>3
<1>6. CASE ~NeedsAnswer(m)
  <2>1. Asked' = Asked
        BY <1>1, <1>6 DEF Asked
  <2>2. (IF m.text = "blank" THEN <<>> ELSE HandleMessage(m, outcome)) = <<>>
        BY <1>3, <1>6, HandleMessageAnswers
  <2>3. output' = output
        BY <1>2, <1>4, <2>2, ConcatEmptySeq
  <2> QED
      BY <1>1, <1>4, <2>1, <2>3 DEF StdioAnswersMatch
<1>7. CASE NeedsAnswer(m)
  <2>1. m.text # "blank"
        BY <1>7 DEF NeedsAnswer
  <2>2. PICK a \in Answers(m) : a.id = AnswerTo(m) /\ HandleMessage(m, outcome) = <<a>>
        BY <1>3, <1>7, HandleMessageAnswers
  <2>3. a \in AnswersOf(input) /\ a.id = AnswerTo(m)
        BY <1>1, <2>2 DEF AnswersOf
  <2>4. output' = Append(output, a)
        BY <1>2, <1>4, <2>1, <2>2, <2>3, AppendIsConcat
  <2>5. /\ output' \in Seq(AnswersOf(input)) /\ Len(output') = Len(output) + 1
        /\ \A n \in 1..Len(output) : output'[n] = output[n]
        /\ output'[Len(output) + 1] = a
        BY <1>4, <2>3, <2>4, AppendProperties
  <2>6. Asked' = Asked \cup {line + 1} /\ line + 1 \notin Asked
        BY <1>1, <1>7 DEF Asked
  <2>7. Cardinality(Asked') = Cardinality(Asked) + 1
        BY <1>5, <2>6, FS_AddElement
  <2>8. ASSUME NEW k \in Asked
        PROVE  output'[Cardinality({j \in Asked' : j <= k})].id = AnswerTo(input'[k])
    <3> DEFINE below == {j \in Asked : j <= k}
    <3>1. {j \in Asked' : j <= k} = below
          BY <1>1, <2>6 DEF Asked
    <3>2. IsFiniteSet(below) /\ below \in SUBSET Asked
          BY <1>5
    <3>3. Cardinality(below) \in Nat /\ Cardinality(below) <= Cardinality(Asked)
          BY <1>5, <3>2, FS_Subset, FS_CardinalityType
    <3>4. k \in below
          BY <1>1 DEF Asked
    <3>5. Cardinality(below) # 0
          BY <3>2, <3>4, FS_EmptySet
    <3>6. Cardinality(below) \in 1..Len(output)
          BY <1>4, <1>5, <3>3, <3>5 DEF StdioAnswersMatch
    <3>7. output[Cardinality(below)].id = AnswerTo(input[k])
          BY <1>4 DEF StdioAnswersMatch
    <3> QED
        BY <1>1, <2>5, <3>1, <3>6, <3>7
  <2>9. {j \in Asked' : j <= line + 1} = Asked'
        BY <1>1, <2>6 DEF Asked
  <2>10. output'[Cardinality({j \in Asked' : j <= line + 1})].id = AnswerTo(input'[line + 1])
        BY <1>1, <1>4, <2>3, <2>5, <2>7, <2>9 DEF StdioAnswersMatch
  <2>11. \A k \in Asked' : output'[Cardinality({j \in Asked' : j <= k})].id = AnswerTo(input'[k])
        BY <2>6, <2>8, <2>10
  <2>12. Len(output') = Cardinality(Asked')
        BY <1>4, <1>5, <2>5, <2>7 DEF StdioAnswersMatch
  <2> QED
      BY <2>5, <2>11, <2>12 DEF StdioAnswersMatch
<1> QED
    BY <1>6, <1>7

(* A request moves on: it keeps its message, and its answer is the one its *)
(* message asks for.                                                       *)
LEMMA ConnAnswerKeeps ==
    ASSUME IInv, Answering, NEW c \in Conns, UNCHANGED <<input, line, output>>,
           NEW r, conn' = [conn EXCEPT ![c] = r],
           r.at \in {"check", "nbf", "handle", "done"} => r.msg \in Messages,
           r.at = "done" /\ r.status # 401 =>
               IF r.msg.text = "blank" \/ NeedsAnswer(r.msg)
               THEN r.status = 200 /\ Len(r.answer) = 1 /\ r.answer[1].id = AnswerTo(r.msg)
               ELSE r.status = 202 /\ r.answer = <<>>
    PROVE  Answering'
<1>1. conn'[c] = r /\ \A d \in Conns \ {c} : conn'[d] = conn[d]
      BY DEF IInv, Typed
<1>2. input' \in Inputs /\ output' \in Seq(AnswersOf(input')) /\ StdioAnswersMatch'
      BY DEF Answering, StdioAnswersMatch, Asked
<1>3. \A d \in Conns : conn'[d].at \in {"check", "nbf", "handle", "done"} => conn'[d].msg \in Messages
      BY <1>1 DEF Answering
<1>4. HttpAnswersMatch'
  <2> SUFFICES ASSUME NEW d \in Conns, Served(d)'
               PROVE  LET m == conn'[d].msg
                      IN  IF m.text = "blank" \/ NeedsAnswer(m)
                          THEN conn'[d].status = 200 /\ Len(conn'[d].answer) = 1 /\ conn'[d].answer[1].id = AnswerTo(m)
                          ELSE conn'[d].status = 202 /\ conn'[d].answer = <<>>
      BY DEF HttpAnswersMatch
  <2>1. CASE d = c
        BY <1>1, <2>1 DEF Served
  <2>2. CASE d # c
        BY <1>1, <2>2 DEF Served, Answering, HttpAnswersMatch
  <2> QED
      BY <2>1, <2>2
<1> QED
    BY <1>2, <1>3, <1>4 DEF Answering

LEMMA ConnAnswerStep ==
    ASSUME IInv, Answering, NEW c \in Conns, ConnStep(c)
    PROVE  Answering'
<1> DEFINE old == conn[c]
<1>1. UNCHANGED <<input, line, output>>
      BY DEF ConnStep, GetHealthz, PostMcp, Check, CheckNbf, HandleStreamable, given
<1>2. old = [f \in Fields |-> old[f]]
      BY DEF IInv, Typed, IsConn
<1>3. old.at \in {"check", "nbf", "handle", "done"} => old.msg \in Messages
      BY DEF Answering
<1>4. ASSUME NEW r, conn' = [conn EXCEPT ![c] = r], r.at \in {"idle", "healthy"}
      PROVE  Answering'
      BY <1>1, <1>4, ConnAnswerKeeps
<1>5. CASE GetHealthz(c)
  <2>1. conn' = [conn EXCEPT ![c] = [old EXCEPT !.at = "healthy", !.status = 200]]
        BY <1>5 DEF GetHealthz
  <2>2. [old EXCEPT !.at = "healthy", !.status = 200].at = "healthy"
        BY <1>2 DEF Fields
  <2> QED
      BY <1>4, <2>1, <2>2
<1>6. ASSUME NEW r, conn' = [conn EXCEPT ![c] = r], r.at \in {"check", "nbf", "handle"}, r.msg \in Messages
      PROVE  Answering'
      BY <1>1, <1>6, ConnAnswerKeeps
<1>7. CASE PostMcp(c)
  <2>1. PICK cred \in Credentials, m \in Messages :
          conn' = [conn EXCEPT ![c] = [old EXCEPT !.at = "check", !.cred = cred, !.msg = m, !.arrived = now]]
        BY <1>7 DEF PostMcp
  <2> DEFINE r == [old EXCEPT !.at = "check", !.cred = cred, !.msg = m, !.arrived = now]
  <2>2. r.at = "check" /\ r.msg = m
        BY <1>2 DEF Fields
  <2>3. conn' = [conn EXCEPT ![c] = r]
        BY <2>1
  <2> HIDE DEF r
  <2> QED
      BY <1>6, <2>2, <2>3
<1>8. ASSUME NEW next \in {"nbf", "handle"}, conn' = [conn EXCEPT ![c] = [old EXCEPT !.at = next]],
             old.at \in {"check", "nbf"}
      PROVE  Answering'
  <2> DEFINE r == [old EXCEPT !.at = next]
  <2>1. r.at = next /\ r.msg = old.msg
        BY <1>2 DEF Fields
  <2>2. conn' = [conn EXCEPT ![c] = r]
        BY <1>8
  <2> HIDE DEF r
  <2> QED
      BY <1>3, <1>6, <1>8, <2>1, <2>2
<1>9. ASSUME NEW status, NEW answers, Answered(c, status, answers), old.at \in {"check", "nbf", "handle"},
             status # 401 =>
                 IF old.msg.text = "blank" \/ NeedsAnswer(old.msg)
                 THEN status = 200 /\ Len(answers) = 1 /\ answers[1].id = AnswerTo(old.msg)
                 ELSE status = 202 /\ answers = <<>>
      PROVE  Answering'
  <2> DEFINE r == [old EXCEPT !.at = "done", !.status = status, !.answer = answers, !.ended = now]
  <2>1. r.at = "done" /\ r.msg = old.msg /\ r.status = status /\ r.answer = answers
        BY <1>2 DEF Fields
  <2>2. conn' = [conn EXCEPT ![c] = r]
        BY <1>9 DEF Answered
  <2>3. old.msg \in Messages
        BY <1>3, <1>9
  <2>4. r.at = "done" /\ r.status # 401 =>
            IF r.msg.text = "blank" \/ NeedsAnswer(r.msg)
            THEN r.status = 200 /\ Len(r.answer) = 1 /\ r.answer[1].id = AnswerTo(r.msg)
            ELSE r.status = 202 /\ r.answer = <<>>
        BY <1>9, <2>1
  <2>5. r.at \in {"check", "nbf", "handle", "done"} => r.msg \in Messages
        BY <2>1, <2>3
  <2> HIDE DEF r
  <2> QED
      BY <1>1, <2>2, <2>4, <2>5, ConnAnswerKeeps
<1>10. CASE Check(c)
  <2>1. \/ Answered(c, 401, <<>>)
        \/ \E next \in {"nbf", "handle"} : conn' = [conn EXCEPT ![c] = [old EXCEPT !.at = next]]
        BY <1>10 DEF Check
  <2>2. old.at = "check"
        BY <1>10 DEF Check
  <2> QED
      BY <1>8, <1>9, <2>1, <2>2
<1>11. CASE CheckNbf(c)
  <2>1. Answered(c, 401, <<>>) \/ conn' = [conn EXCEPT ![c] = [old EXCEPT !.at = "handle"]]
        BY <1>11 DEF CheckNbf
  <2>2. old.at = "nbf"
        BY <1>11 DEF CheckNbf
  <2> QED
      BY <1>8, <1>9, <2>1, <2>2
<1>12. CASE HandleStreamable(c)
  <2>1. PICK outcome \in Outcomes :
          Answered(c, IF HandleMessage(old.msg, outcome) = <<>> THEN 202 ELSE 200, HandleMessage(old.msg, outcome))
        BY <1>12 DEF HandleStreamable
  <2>2. old.at = "handle" /\ old.msg \in Messages
        BY <1>3, <1>12 DEF HandleStreamable
  <2>3. old.msg.text \in Texts
        BY <2>2, ServiceAssumption
  <2>4. CASE old.msg.text = "blank" \/ NeedsAnswer(old.msg)
    <3>1. PICK a \in Answers(old.msg) :
            a.id = AnswerTo(old.msg) /\ HandleMessage(old.msg, outcome) = <<a>>
          BY <2>3, <2>4, HandleMessageAnswers
    <3>2. a.id = AnswerTo(old.msg)
          BY <3>1
    <3>3. Answered(c, 200, <<a>>)
          BY <2>1, <3>1
    <3>4. Len(<<a>>) = 1 /\ <<a>>[1] = a
          OBVIOUS
    <3> HIDE DEF old
    <3> QED
        BY <1>9, <2>2, <2>4, <3>2, <3>3, <3>4
  <2>5. CASE ~(old.msg.text = "blank" \/ NeedsAnswer(old.msg))
    <3>1. HandleMessage(old.msg, outcome) = <<>>
          BY <2>3, <2>5, HandleMessageAnswers
    <3>2. Answered(c, 202, <<>>)
          BY <2>1, <3>1
    <3> QED
        BY <1>9, <2>2, <2>5, <3>2
  <2> QED
      BY <2>4, <2>5
<1> QED
    BY <1>5, <1>7, <1>10, <1>11, <1>12 DEF ConnStep

LEMMA AnsweringInit == Init => Answering
<1> SUFFICES ASSUME Init
             PROVE  Answering
    OBVIOUS
<1>1. input \in Inputs /\ line = 0 /\ output = <<>> /\ \A c \in Conns : conn[c] = Idle
      BY DEF Init
<1>2. Idle.at = "idle"
      BY DEF Idle
<1>3. Asked = {}
      BY <1>1 DEF Asked
<1>4. StdioAnswersMatch
      BY <1>1, <1>3, FS_EmptySet DEF StdioAnswersMatch
<1>5. HttpAnswersMatch
      BY <1>1, <1>2 DEF HttpAnswersMatch, Served
<1> QED
    BY <1>1, <1>2, <1>4, <1>5 DEF Answering

LEMMA AnsweringNext ==
    ASSUME IInv, TypeOK, Answering, [Next]_vars
    PROVE  Answering'
<1>1. CASE StdioLine
  <2>1. input' = input /\ conn' = conn
        BY <1>1 DEF StdioLine, given
  <2> QED
      BY <1>1, <2>1, StdioLineStep DEF Answering, HttpAnswersMatch, Served
<1>2. CASE \E c \in Conns : ConnStep(c)
      BY <1>2, ConnAnswerStep
<1>3. CASE ~StdioLine /\ ~\E c \in Conns : ConnStep(c)
  <2>1. UNCHANGED <<input, line, output, conn>>
        BY <1>3 DEF Next, MainStep, OnSignal, Tick, Exited, vars, ParseArgument, ChooseTransport,
                    ConfigureAuth, Listen, Stop, StdioEnds, Exit, given
  <2> QED
      BY <2>1 DEF Answering, StdioAnswersMatch, Asked, HttpAnswersMatch, Served
<1> QED
    BY <1>1, <1>2, <1>3

(* Whatever stdin holds and whatever tools return or throw, the k-th       *)
(* answer on stdout is to the k-th line that needs one and under its id,   *)
(* and no others are written; over HTTP each request gets its own answer.  *)
THEOREM AnswersAreMatched == Spec => []AnswersMatch
<1>1. Answering => AnswersMatch
      BY DEF Answering, AnswersMatch
<1> QED
    BY <1>1, AnsweringInit, AnsweringNext, Invariant, TypeCorrect, PTL DEF Spec
=============================================================================
