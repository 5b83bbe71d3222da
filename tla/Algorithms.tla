----------------------------- MODULE Algorithms -----------------------------
(***************************************************************************)
(* The program's pure algorithms, one computation at a time: what is asked *)
(* (job), then what the code returns (out), compared with a definition     *)
(* that owes nothing to the code's loops.                                  *)
(***************************************************************************)
EXTENDS BigInt, Encoding, Digest, JsonText

CONSTANT Jobs    \* bound: the computations asked for

Bytes256 == 0..255
Data     == {Byte(b) : b \in Bytes256}

(* What the callers ask for.  A Big is one that bignum.cpp returns: its    *)
(* limbs in range, and no zero limb on top.  A power has arguments of 64   *)
(* bits, and a modulus other than zero.                                    *)
IsBig(a) == /\ a \in Seq(0..(Base - 1)) /\ a # <<>>
            /\ Len(a) > 1 => a[Len(a)] # 0

(* A key that a length of two bytes is enough for.  *)
KeyLimit == 65000
IsKey(j) == /\ {j.n, j.e, j.algorithm} \subseteq Seq(Bytes256) /\ j.cut \in Nat
            /\ j.n # <<>> /\ j.n[1] # 0
            /\ j.e # <<>> /\ j.e[1] # 0
            /\ Len(j.n) + Len(j.e) + Len(j.algorithm) <= KeyLimit

JobsAssumed(j) ==
    CASE j.kind = "arith"   -> IsBig(j.a) /\ IsBig(j.b)
      [] j.kind = "power"   -> {j.base, j.exp} \subseteq 0..(Word - 1) /\ j.m \in 1..(Word - 1)
      [] j.kind = "rsa"     -> /\ {j.n, j.e, j.s} \subseteq Seq(0..(ByteBase - 1))
                               /\ j.digest \in Seq(0..(ByteBase - 1))
      [] j.kind = "spki"    -> IsKey(j)
      [] j.kind = "hash"    -> j.chunks \in Seq(Seq(Data))
      [] j.kind = "hmac"    -> {j.key, j.message} \subseteq Seq(Data)
      [] j.kind = "base64"  -> j.bytes \in Seq(Bytes256)
      [] j.kind = "json"    -> j.v \in Values
      [] j.kind = "escapes" -> j.units \in Seq(0..65535)
      [] j.kind = "shell"   -> j.s \in Seq(Bytes256)

ASSUME JobsAssumption == \A j \in Jobs : JobsAssumed(j)

VARIABLES
    job,   \* [kind, ...]
    done,  \* computed?
    out    \* the result

vars == <<job, done, out>>

----------------------------------------------------------------------------
(* What a signer and a key generator write.  *)

Tlv(tag, content) ==
    LET n == Len(content)
    IN  <<tag>> \o (IF n < 128 THEN <<n>> ELSE IF n < 256 THEN <<129, n>> ELSE <<130, n \div 256, n % 256>>)
            \o content

(* A number that is not negative: a zero first if its high bit is set.  *)
DerInteger(bytes) == Tlv(2, IF bytes[1] >= 128 THEN <<0>> \o bytes ELSE bytes)

(* A public key in a PEM; the last cut bytes of the inner sequence are     *)
(* missing, its lengths and all else as they should be.                    *)
SpkiDer(n, e, algorithm, cut) ==
    LET rsa == Tlv(48, DerInteger(n) \o DerInteger(e))
    IN  Tlv(48, Tlv(48, algorithm) \o Tlv(3, <<0>> \o SubSeq(rsa, 1, Len(rsa) - cut)))

DashLine == <<45, 45, 45, 66, 45, 45, LF>>
Lines(text) ==
    FlattenSeq([k \in 1..((Len(text) + 63) \div 64) |->
        SubSeq(text, 64 * k - 63, IF 64 * k < Len(text) THEN 64 * k ELSE Len(text)) \o <<CR, LF>>])
Pem(der) == DashLine \o Lines(Base64Encode(der)) \o DashLine

Hex4(u) ==
    <<HexDigit(u \div 4096), HexDigit((u \div 256) % 16), HexDigit((u \div 16) % 16), HexDigit(u % 16)>>
EscapedText(units) ==
    <<QuoteMark>> \o FlattenSeq([k \in DOMAIN units |-> <<ReverseSolidus, 117>> \o Hex4(units[k])])
        \o <<QuoteMark>>

----------------------------------------------------------------------------
(* A context that was given these pieces.  *)
Updates(chunks) ==
    LET ctx[k \in 0..Len(chunks)] == IF k = 0 THEN NewCtx ELSE Update(ctx[k - 1], chunks[k])
    IN  ctx[Len(chunks)]

Result(j) ==
    CASE j.kind = "arith"   -> [add |-> BigAdd(j.a, j.b),
                                sub |-> IF BigCmp(j.a, j.b) < 0 THEN BigSub(j.b, j.a) ELSE BigSub(j.a, j.b),
                                mul |-> BigMul(j.a, j.b),
                                mod |-> IF j.b = <<0>> THEN <<0>> ELSE BigMod(j.a, j.b)]
      [] j.kind = "power"   -> BigModPow(BigFromUint(j.base), BigFromUint(j.exp), BigFromUint(j.m))
      [] j.kind = "rsa"     -> RsaVerify(j.n, j.e, j.s, j.digest)
      [] j.kind = "spki"    -> ParseSpkiPem(Pem(SpkiDer(j.n, j.e, j.algorithm, j.cut)))
      [] j.kind = "hash"    -> Final(Updates(j.chunks))
      [] j.kind = "hmac"    -> HmacSha256(j.key, j.message)
      [] j.kind = "base64"  -> <<Base64Decode(Base64Encode(j.bytes)), Base64UrlDecode(Base64UrlEncode(j.bytes))>>
      [] j.kind = "json"    -> Dump(j.v)
      [] j.kind = "escapes" -> Parse(EscapedText(j.units))
      [] j.kind = "shell"   -> ShellQuote(j.s)

Init == job \in Jobs /\ done = FALSE /\ out = <<>>

Compute ==
    /\ ~done
    /\ done' = TRUE
    /\ out' = Result(job)
    /\ UNCHANGED job

Finished == done /\ UNCHANGED vars

Next == Compute \/ Finished

Spec == Init /\ [][Next]_vars

Answered(kind) == done /\ job.kind = kind

----------------------------------------------------------------------------
(* The arithmetic of bignum.cpp is that of the numbers: whatever carries   *)
(* and borrows, whatever the operands' lengths, and no result keeps a zero *)
(* limb on top, which bigCmp would take for a larger number.               *)
Value(a) ==
    LET value[k \in 1..(Len(a) + 1)] == IF k > Len(a) THEN 0 ELSE value[k + 1] * Base + a[k]
    IN  value[1]
Abs(x) == IF x < 0 THEN -x ELSE x

Powers(b, e, m) ==
    LET power[k \in 0..e] == IF k = 0 THEN 1 ELSE (power[k - 1] * b) % m
    IN  power[e]

BigAgrees ==
    /\ Answered("arith") =>
         LET a == Value(job.a)
             b == Value(job.b)
         IN  /\ \A r \in {out.add, out.sub, out.mul, out.mod} : IsBig(r)
             /\ Value(out.add) = a + b
             /\ Value(out.sub) = Abs(a - b)
             /\ Value(out.mul) = a * b
             /\ b # 0 => Value(out.mod) = a % b
    /\ Answered("power") =>
         /\ IsBig(out)
         /\ Value(out) = Powers(job.base, job.exp, job.m)

(* A signature is accepted if and only if it is, as a number, below the    *)
(* modulus and a root of the one encoding PKCS #1 gives the digest at the  *)
(* modulus's length (rsa_verify.cpp:184-244).                              *)
SignatureExact ==
    Answered("rsa") =>
        LET k    == Len(job.n)
            n    == BytesValue(job.n)
            s    == BytesValue(job.s)
            tLen == Len(DigestInfo) + Len(job.digest)
            em   == <<0, 1>> \o [j \in 1..(k - tLen - 3) |-> ByteBase - 1] \o <<0>> \o DigestInfo \o job.digest
        IN  out <=> /\ k >= tLen + MinPad + 3
                    /\ s < n
                    /\ Powers(s % n, BytesValue(job.e), n) = BytesValue(em)

(* The modulus and the exponent come back from a PEM as they went in, for  *)
(* every length of theirs and of the algorithm's name, whether a length    *)
(* takes one byte or three; a key that is cut short is refused             *)
(* (rsa_verify.cpp:59-165).                                                *)
SpkiRoundTrips ==
    Answered("spki") =>
        IF job.cut > 0 THEN ~out.ok ELSE out = [ok |-> TRUE, n |-> job.n, e |-> job.e]

(* SHA-256 does not depend on the pieces its input comes in: the blocks    *)
(* are those of the whole message, one bit, the fewest zeros and the       *)
(* length; and an HMAC is the two hashes RFC 2104 asks for, at every       *)
(* length of the key (sha256.cpp:108-228).                                 *)
Blocks(bytes) ==
    LET zeros == CHOOSE z \in 0..(BlockSize - 1) : (Len(bytes) + 1 + z + LengthSize) % BlockSize = 0
        all   == bytes \o <<Byte(128)>> \o [k \in 1..zeros |-> Null] \o LengthBytes(8 * Len(bytes))
    IN  [k \in 1..(Len(all) \div BlockSize) |-> SubSeq(all, (k - 1) * BlockSize + 1, k * BlockSize)]

Hash(bytes) == DigestOf(Blocks(bytes))

DigestWhole ==
    /\ Answered("hash") => out = Hash(FlattenSeq(job.chunks))
    /\ Answered("hmac") =>
         LET key == IF Len(job.key) > BlockSize THEN Hash(job.key) ELSE job.key
             k0  == key \o [k \in 1..(BlockSize - Len(key)) |-> Null]
         IN  out = Hash(Xor(k0, 92) \o Hash(Xor(k0, 54) \o job.message))

(* Every sequence of bytes survives both base64s, padded or not            *)
(* (util.cpp:38-96, sha256.cpp:239-287).                                   *)
Base64RoundTrips ==
    Answered("base64") => \A k \in 1..2 : out[k].ok /\ out[k].out = job.bytes

(* \u escapes are UTF-16: a high surrogate and a low one after it are one  *)
(* character, any other stands alone; each becomes the UTF-8 a decoder     *)
(* reads back (json.cpp:49-65, 219-237).                                   *)
Utf16(units) ==
    LET chars[p \in 1..(Len(units) + 1)] ==
            IF p > Len(units) THEN <<>>
            ELSE IF p < Len(units) /\ IsHigh(units[p]) /\ IsLow(units[p + 1])
            THEN <<65536 + (units[p] - 55296) * 1024 + units[p + 1] - 56320>> \o chars[p + 2]
            ELSE <<units[p]>> \o chars[p + 1]
    IN  chars[1]

(* What a first byte says: how many follow it, and the character it begins. *)
More(c) == IF c < 128 THEN 0 ELSE IF c < 224 THEN 1 ELSE IF c < 240 THEN 2 ELSE 3
CodeAt(bytes, p) ==
    LET c    == bytes[p]
        t(k) == bytes[p + k] % 64
    IN  IF c < 128 THEN c
        ELSE IF c < 224 THEN (c % 32) * 64 + t(1)
        ELSE IF c < 240 THEN ((c % 16) * 64 + t(1)) * 64 + t(2)
        ELSE (((c % 8) * 64 + t(1)) * 64 + t(2)) * 64 + t(3)

Utf8(bytes) ==
    LET chars[p \in 1..(Len(bytes) + 1)] ==
            IF p > Len(bytes) THEN <<>>
            ELSE IF p + More(bytes[p]) > Len(bytes) THEN <<-1>>
            ELSE <<CodeAt(bytes, p)>> \o chars[p + More(bytes[p]) + 1]
    IN  chars[1]

(* What is dumped parses to the same value, cut anywhere it does not parse *)
(* (a number aside), and it is one line: stdio and SSE end a message with  *)
(* a newline.  Text written with escapes is read as the characters meant   *)
(* (json.cpp:115-368, stdio_server.cpp:34).                                *)
JsonRoundTrips ==
    /\ Answered("json") =>
         /\ Parse(out) = [ok |-> TRUE, v |-> job.v, at |-> Len(out) + 1]
         /\ \A k \in DOMAIN out : out[k] \notin {LF, CR}
         /\ job.v.t \notin {"number", "double"} =>
              \A k \in 0..(Len(out) - 1) : ~Parse(SubSeq(out, 1, k)).ok
    /\ Answered("escapes") => out.ok /\ Utf8(out.v.s) = Utf16(job.units)

(* A shell reads a quoted text as one word, the text (util.cpp:119-129).   *)
(* Outside quotes a backslash keeps the next character.                    *)
ShellStep(s, c) ==
    CASE s.mode = "quoted" -> IF c = Quote THEN [s EXCEPT !.mode = "plain"] ELSE [s EXCEPT !.word = Append(@, c)]
      [] s.mode = "escaped" -> [s EXCEPT !.mode = "plain", !.word = Append(@, c)]
      [] s.mode = "plain" /\ c = Quote -> [s EXCEPT !.mode = "quoted"]
      [] s.mode = "plain" /\ c = Backslash -> [s EXCEPT !.mode = "escaped"]
      [] OTHER -> [s EXCEPT !.word = Append(@, c), !.words = IF c \in {Space, TAB, LF} THEN @ + 1 ELSE @]

ShellWord(text) ==
    LET state[k \in 0..Len(text)] ==
            IF k = 0 THEN [mode |-> "plain", word |-> <<>>, words |-> 1]
            ELSE ShellStep(state[k - 1], text[k])
    IN  state[Len(text)]

ShellWordIsText ==
    Answered("shell") => ShellWord(out) = [mode |-> "plain", word |-> job.s, words |-> 1]
=============================================================================
