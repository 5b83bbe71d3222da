---------------------------- MODULE MCAlgorithms ----------------------------
(* Instances of Algorithms: limbs of four bits, bytes of two, where carries *)
(* are frequent; texts and lengths on both sides of every boundary.         *)
EXTENDS Algorithms

MCDigestInfo == <<2>>

Strings(S, n) == UNION {[1..k -> S] : k \in 0..n}
Bigs == {Normal(a) : a \in Strings({0, 1, 8, 15}, 3) \ {<<>>}}

Arith == [kind : {"arith"}, a : Bigs, b : Bigs]
Power == [kind : {"power"}, base : {0, 1, 2, 13, 16, 250}, exp : {0, 1, 2, 3, 15, 16, 17, 31},
          m : {2, 3, 15, 16, 17, 240, 255}]

(* 456 + d is the encoding of digest <<d>> in six bytes.  *)
RECURSIVE ToBytes(_)
ToBytes(v) == IF v = 0 THEN <<>> ELSE ToBytes(v \div 4) \o <<v % 4>>
Rsa(n, e, sigs) == [kind : {"rsa"}, n : {ToBytes(n)}, e : {ToBytes(e)}, s : sigs, digest : {<<1>>, <<3>>}]
RsaJobs ==
    Rsa(3127, 1, {ToBytes(s) : s \in 0..1023 \cup {457 + 3127, 3126, 3127}} \cup {<<0, 0>> \o ToBytes(457)})
    \cup Rsa(1024 + 77, 3, {ToBytes(s) : s \in {x \in 0..1100 : Powers(x, 3, 1101) \in 450..462}})
    \cup Rsa(1023, 1, {ToBytes(457), ToBytes(459)})
    \cup Rsa(5000, 1, {ToBytes(s) : s \in {457, 459, 4 * 457, 1993, 1995}})

Bytes(first, n) == <<first>> \o [k \in 1..(n - 1) |-> (k * 37) % 256]
SpkiOf(ns, algorithms, cuts) ==
    [kind : {"spki"}, n : ns, e : {<<3>>, <<1, 0, 1>>}, algorithm : algorithms, cut : cuts]
Spki ==
    SpkiOf({Bytes(f, l) : f \in {127, 128, 255}, l \in {1, 2, 126, 127, 128, 256}}, {<<5, 0>>}, {0})
    \cup SpkiOf({Bytes(128, 2), Bytes(128, 128)}, {[k \in 1..130 |-> 7]}, {0})
    \cup SpkiOf({<<200, 100>>}, {<<5, 0>>}, 1..11)

Message(from, n) == [k \in 1..n |-> Byte(from + k)]
HashJobs ==
    {[kind |-> "hash", chunks |-> <<Message(0, a), Message(a, b), Message(a + b, c)>>] :
        a \in 0..9, b \in 0..9, c \in {0, 1, 7, 8}}
HmacJobs == [kind : {"hmac"}, key : {Message(0, n) : n \in 0..11}, message : {Message(50, n) : n \in {0, 1, 7, 8}}]

Base64Jobs == [kind : {"base64"}, bytes : Strings({0, 62, 63, 251, 255}, 4) \cup {Bytes(b, 2) : b \in 0..255}]

JsonStrings == Strings({97, 34, 92, 10, 13, 1, 31, 195, 47}, 2)
Scalars == {NullValue, BoolValue(TRUE), BoolValue(FALSE), IntValue(0), IntValue(-12), IntValue(1024),
            Double(<<49, 46, 53>>), Double(<<45, 49, 101, 43, 51, 48>>), StringValue(<<>>), StringValue(<<34, 92>>)}
Keys == {<<>>, <<97>>, <<10>>}
Compound == {ArrayValue(a) : a \in Strings(Scalars, 2)}
            \cup {ObjectValue(o) : o \in Strings(Keys \X {NullValue, IntValue(7), StringValue(<<125>>)}, 2)}
Nested == {ArrayValue(<<v, v>>) : v \in Compound} \cup {ObjectValue(<<<< <<97>>, v >>>>) : v \in Compound}
MCValues == {StringValue(s) : s \in JsonStrings} \cup Scalars \cup {IntValue(7), StringValue(<<125>>)}
            \cup Compound \cup Nested
MCDepth == [v \in MCValues |-> IF v \in Nested THEN 2 ELSE IF v \in Compound THEN 1 ELSE 0]
JsonJobs == [kind : {"json"}, v : MCValues]

Units == {65, 127, 128, 2047, 2048, 55296, 56319, 56320, 57343, 65535}
EscapeJobs == [kind : {"escapes"}, units : Strings(Units, 3)]

ShellJobs == [kind : {"shell"}, s : Strings({97, 39, 92, 32, 36}, 4)]

MCJobs == Arith \cup Power \cup RsaJobs \cup Spki \cup HashJobs \cup HmacJobs \cup Base64Jobs
          \cup JsonJobs \cup EscapeJobs \cup ShellJobs
=============================================================================
