------------------------------ MODULE MCService ------------------------------
(* Instances of Service: command lines, keys, tokens and messages of each   *)
(* kind the code tells apart.                                               *)
EXTENDS Service

CONSTANT c1

Pem(spki, key) == [form |-> "pem", spki |-> spki, key |-> key, keys |-> <<>>]
Jwks(keys)     == [form |-> "json", spki |-> FALSE, key |-> "unreadable", keys |-> keys]
Rsa(alg, n)    == [kty |-> "RSA", alg |-> alg, n |-> n, e |-> "AQAB"]

MCKeyTexts ==
    [pem |-> Pem(TRUE, "k1"), cert |-> Pem(FALSE, "k1"), badpem |-> Pem(TRUE, "unreadable"),
     jwks |-> Jwks(<<[Rsa("", "k9") EXCEPT !.kty = "EC"], Rsa("RS512", "k2"), Rsa("RS256", "k1"), Rsa("", "k2")>>),
     nokeys |-> Jwks(<<>>), badjwks |-> Jwks(<<Rsa("RS256", "?")>>), half |-> Jwks(<<Rsa("", "")>>)]

MCBodies == [url |-> {Pem(TRUE, "k1"), Jwks(<<Rsa("", "k1")>>), Jwks(<<>>)}]
MCPaths  == [path |-> Pem(TRUE, "k1")]

Jwt(alg, signer, exp, nbf) == [alg |-> alg, signer |-> signer, payload |-> TRUE, exp |-> exp, nbf |-> nbf]
MCJwts ==
    [hs |-> Jwt("HS256", "secret", {2}, {1}), rs |-> Jwt("RS256", "k1", {2}, {}),
     rs2 |-> Jwt("RS256", "k2", {}, {}), none |-> Jwt("none", "", {}, {}),
     cross |-> Jwt("HS256", "k1", {}, {1}), late |-> Jwt("HS256", "secret", {1}, {1}),
     broken |-> [Jwt("HS256", "secret", {}, {}) EXCEPT !.payload = FALSE]]

Http(options) == <<"--transport", "http">> \o options
KeyWords == DOMAIN MCKeyTexts \cup {"url", "path"}

MCCommandLines ==
    {Http(<<"--auth-jwt-public-key", w>>) : w \in KeyWords}
    \cup {Http(<<"--auth-jwt-secret", "secret", "--auth-jwt-public-key", w>>) : w \in {"pem", "nokeys"}}
    \cup {Http(o) : o \in {<<>>, <<"--auth-token", "token">>, <<"--auth-token", "--bind">>,
            <<"--auth-jwt-secret", "secret", "--auth-token", "token">>, <<"--auth-jwt-secret", "">>,
            <<"--tls-cert", "cert">>, <<"--tls-cert", "cert", "--tls-key", "key">>,
            <<"--auth-token">>, <<"--help">>, <<"--verbose">>}}
    \cup {<<>>, <<"--backend", "cloud", "-p", "1">>, <<"-b", "adb", "--transport", "ws">>,
          <<"-t", "http", "--auth-token", "-h">>, <<"-h">>}

NoEnv == [secret |-> "", key |-> "", token |-> ""]
MCEnvironments ==
    {NoEnv, [NoEnv EXCEPT !.token = "token"], [NoEnv EXCEPT !.secret = "secret", !.token = "token"],
     [NoEnv EXCEPT !.key = "path", !.token = "token"], [NoEnv EXCEPT !.key = "pem"],
     [NoEnv EXCEPT !.secret = "secret", !.key = "url"]}

MCCredentials ==
    [bearer : BOOLEAN, text : {"token", "hs"}]
    \cup [bearer : {TRUE}, text : {"", "rs", "rs2", "none", "cross", "late", "broken"}]
    \cup {[bearer |-> FALSE, text |-> ""]}

Msg(method, id, tool) == [text |-> "object", method |-> method, id |-> id, tool |-> tool]
Not(text) == [Msg("", "absent", "") EXCEPT !.text = text]

MCMessages == {Msg("tools/call", "1", "tap"), Msg("notifications/initialized", "2", ""), Not("blank")}

Script ==
    <<Msg("initialize", "0", ""), Msg("notifications/initialized", "absent", ""), Not("blank"),
      Not("junk"), Msg("tools/call", "null", "tap"), Msg("tools/call", "1", "tap"),
      Msg("", "absent", ""), Not("value"), Msg("notifications/cancelled", "2", ""),
      Msg("tools/call", "3", "fly"), Msg("resources/list", "4", ""), Msg("", "5", ""), Msg("ping", "6", "")>>
MCInputs == {Script, <<>>}
=============================================================================
