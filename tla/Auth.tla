-------------------------------- MODULE Auth --------------------------------
(***************************************************************************)
(* mcp/auth.cpp and mcp/jwt.cpp: where the keys come from, and what a      *)
(* request has to carry.                                                   *)
(*                                                                         *)
(* A text is what the code tells apart in it, [form, spki, key, keys]:     *)
(* form "pem" if it contains -----BEGIN, "json" if it parses as JSON,      *)
(* "text" otherwise; spki if it contains BEGIN PUBLIC KEY; key the RSA key *)
(* the PEM holds, "unreadable" if it cannot be decoded; keys the entries   *)
(* of a JWKS.  Who signed a token stands for its signature bytes.          *)
(***************************************************************************)
EXTENDS Integers, Sequences

CONSTANTS
    KeyTexts,   \* what the words given as keys are, as texts
    Bodies,     \* for a word that is a url, the texts it may return
    Jwts        \* the words that are three base64url parts with a JSON header:
                \* [alg, signer, payload, exp, nbf], payload if that is JSON too

Urls == DOMAIN Bodies

(* A JWKS is a sequence, and a token has each claim once at most.  *)
ASSUME AuthAssumption ==
    /\ \A w \in DOMAIN KeyTexts : DOMAIN KeyTexts[w].keys \subseteq Nat
    /\ \A u \in Urls : \A t \in Bodies[u] : DOMAIN t.keys \subseteq Nat
    /\ \A w \in DOMAIN Jwts :
         \A claim \in {Jwts[w].exp, Jwts[w].nbf} :
            claim \subseteq Int /\ \A s, t \in claim : s = t

Text(word) ==
    IF word \in DOMAIN KeyTexts THEN KeyTexts[word]
    ELSE [form |-> "text", spki |-> FALSE, key |-> "unreadable", keys |-> <<>>]

NoKey == ""
Loaded(key) == [ok |-> key # NoKey, key |-> key]

----------------------------------------------------------------------------
(* JwtVerifier: the secret of HS256 and the key of RS256, "" when off.     *)
Verifier(secret, key) == [secret |-> secret, key |-> key]
VerifierEnabled(v) == v.secret # "" \/ v.key # NoKey

(* loadRs256Pem.  OpenSSL takes any PEM and reads it at every verification.*)
LoadPem(openssl, t) ==
    Loaded(IF openssl \/ (t.spki /\ t.key # "unreadable") THEN t.key ELSE NoKey)

(* parseJwks: the first RSA key for RS256, or none.  *)
ParseJwks(t) ==
    LET fits == {i \in DOMAIN t.keys :
                    t.keys[i].kty = "RSA" /\ t.keys[i].alg \in {"", "RS256"}}
        i    == CHOOSE k \in fits : \A j \in fits : k <= j
    IN  IF fits = {} \/ t.form # "json" THEN [n |-> "", e |-> ""]
        ELSE [n |-> t.keys[i].n, e |-> t.keys[i].e]

(* loadRs256Jwks; "?" has a character base64url does not have.  *)
LoadJwks(t) ==
    LET rsa == ParseJwks(t)
    IN  Loaded(IF "" \in {rsa.n, rsa.e} \/ "?" \in {rsa.n, rsa.e} THEN NoKey ELSE rsa.n)

(* loadRs256Key of main.cpp and loadRs256Source of auth.cpp: the texts     *)
(* that may be loaded, none if a url does not answer.                      *)
Material(source) == IF source \in Urls THEN Bodies[source] ELSE {Text(source)}

LoadText(openssl, t) == IF t.form = "pem" THEN LoadPem(openssl, t) ELSE LoadJwks(t)

LoadKey(openssl, source) ==
    {LoadText(openssl, t) : t \in Material(source)}
        \cup (IF source \in Urls THEN {Loaded(NoKey)} ELSE {})

----------------------------------------------------------------------------
(* AuthChecker.  *)
NoAuth == [mode |-> "none", token |-> "", jwt |-> Verifier("", NoKey)]

WithToken(token) ==
    IF token = "" THEN NoAuth ELSE [NoAuth EXCEPT !.mode = "token", !.token = token]

WithJwt(v) ==
    IF VerifierEnabled(v) THEN [NoAuth EXCEPT !.mode = "jwt", !.jwt = v] ELSE NoAuth

(* The verifiers that a secret and a key source may give; a source that is *)
(* given has to load.                                                      *)
JwtFrom(openssl, secret, source) ==
    IF source = "" THEN {[ok |-> TRUE, jwt |-> Verifier(secret, NoKey)]}
    ELSE {[ok |-> l.ok, jwt |-> Verifier(secret, l.key)] : l \in LoadKey(openssl, source)}

(* fromEnv: a key that does not load leaves no authentication.  *)
FromEnv(openssl, env) ==
    IF env.secret = "" /\ env.key = "" THEN {WithToken(env.token)}
    ELSE {IF r.ok THEN WithJwt(r.jwt) ELSE NoAuth : r \in JwtFrom(openssl, env.secret, env.key)}

----------------------------------------------------------------------------
(* An Authorization header is [bearer, text]; none is an empty one.  *)

(* check, of a token.  *)
TokenMatches(auth, cred) == cred.text = auth.token

(* verify, up to the claims: a word that is no JWT is refused.  *)
VerifySignature(v, jwt) ==
    \/ jwt.alg = "HS256" /\ v.secret # "" /\ jwt.signer = v.secret
    \/ jwt.alg = "RS256" /\ v.key \notin {NoKey, "unreadable"} /\ jwt.signer = v.key

Signed(v, cred) == cred.text \in DOMAIN Jwts /\ VerifySignature(v, Jwts[cred.text])

(* Fault: a token is still good in the second it expires.  *)
NotExpiredYet(jwt, now) == jwt.payload /\ \A t \in jwt.exp : now <= t

(* checkClaims reads the clock for exp, then again for nbf.  A claim is a  *)
(* set, empty if it is missing or no number.                               *)
NotExpired(jwt, now) == jwt.payload /\ \A t \in jwt.exp : now < t
Effective(jwt, now)  == \A t \in jwt.nbf : now >= t
=============================================================================
