------------------------------ MODULE JsonText ------------------------------
(***************************************************************************)
(* json/json.cpp: JSON values and their text, a sequence of bytes.  A      *)
(* value is [t, ...]: a bool b, an integer n, a string s, an array a or an *)
(* object o, its pairs in order.  What is written with a point or an       *)
(* exponent is a double, known by that text.                               *)
(***************************************************************************)
EXTENDS Integers, Sequences, SequencesExt

CONSTANTS
    Values,    \* the values written, and all values in them
    Depth      \* how deep each of them is nested

QuoteMark == 34
Solidus == 47
ReverseSolidus == 92
Comma == 44
Colon == 58
Minus == 45
Plus == 43
Point == 46
Digits == 48..57
Blanks == {32, 9, 10, 13}
True_ == <<116, 114, 117, 101>>
False_ == <<102, 97, 108, 115, 101>>
Null_ == <<110, 117, 108, 108>>
(* The escapes of one letter, and what they stand for.  *)
Escapes ==
    {<<34, 34>>, <<92, 92>>, <<98, 8>>, <<102, 12>>, <<110, 10>>, <<114, 13>>, <<116, 9>>}

NullValue      == [t |-> "null"]
BoolValue(b)   == [t |-> "bool", b |-> b]
IntValue(n)    == [t |-> "number", n |-> n]
Double(text)   == [t |-> "double", d |-> text]
StringValue(s) == [t |-> "string", s |-> s]
ArrayValue(a)  == [t |-> "array", a |-> a]
ObjectValue(o) == [t |-> "object", o |-> o]

(* What %.17g makes of a number that is no integer: a sign, digits to dot,  *)
(* a point and digits to e, an exponent; one of the last two at least.      *)
IsDouble(d) ==
    /\ d \in Seq(0..255)
    /\ \E int \in {1, 2}, dot \in 1..Len(d), e \in 1..(Len(d) + 1) :
          /\ int < dot /\ dot <= e
          /\ int = 2 => d[1] = Minus
          /\ \A k \in int..(dot - 1) : d[k] \in Digits
          /\ dot < e => d[dot] = Point /\ \A k \in (dot + 1)..(e - 1) : d[k] \in Digits
          /\ e <= Len(d) => /\ e < Len(d) /\ d[e] = 101 /\ d[e + 1] \in {Plus, Minus}
                            /\ \A k \in (e + 2)..Len(d) : d[k] \in Digits

IsJson(v) ==
    \/ v = NullValue
    \/ v.t = "bool"   /\ v = BoolValue(v.b)   /\ v.b \in BOOLEAN
    \/ v.t = "number" /\ v = IntValue(v.n)    /\ v.n \in Int
    \/ v.t = "double" /\ v = Double(v.d)      /\ IsDouble(v.d)
    \/ v.t = "string" /\ v = StringValue(v.s) /\ v.s \in Seq(0..255)
    \/ v.t = "array"  /\ v = ArrayValue(v.a)  /\ v.a \in Seq(Values)
    \/ v.t = "object" /\ v = ObjectValue(v.o) /\ v.o \in Seq(Seq(0..255) \X Values)

ASSUME ValuesAssumption ==
    \A v \in Values :
        /\ IsJson(v)
        /\ Depth[v] \in Nat
        /\ v.t = "array"  => \A k \in DOMAIN v.a : Depth[v.a[k]] < Depth[v]
        /\ v.t = "object" => \A k \in DOMAIN v.o : Depth[v.o[k][2]] < Depth[v]

----------------------------------------------------------------------------
(* dump.  *)

HexDigit(d) == IF d < 10 THEN 48 + d ELSE 87 + d

(* Fault: a newline in a string stays one.  *)
DumpCharRaw(c) ==
    IF \E e \in Escapes : e[2] = c /\ c # 10
    THEN <<ReverseSolidus, (CHOOSE e \in Escapes : e[2] = c)[1]>>
    ELSE IF c < 32 /\ c # 10 THEN <<ReverseSolidus, 117, 48, 48, HexDigit(c \div 16), HexDigit(c % 16)>>
    ELSE <<c>>

DumpChar(c) ==
    IF \E e \in Escapes : e[2] = c THEN <<ReverseSolidus, (CHOOSE e \in Escapes : e[2] = c)[1]>>
    ELSE IF c < 32 THEN <<ReverseSolidus, 117, 48, 48, HexDigit(c \div 16), HexDigit(c % 16)>>
    ELSE <<c>>

DumpString(s) ==
    <<QuoteMark>> \o FlattenSeq([k \in DOMAIN s |-> DumpChar(s[k])]) \o <<QuoteMark>>

DumpNat(n) ==
    LET digits[m \in 0..n] ==
            IF m < 10 THEN <<48 + m>> ELSE digits[m \div 10] \o <<48 + (m % 10)>>
    IN  digits[n]
DumpInt(n) == IF n < 0 THEN <<Minus>> \o DumpNat(-n) ELSE DumpNat(n)

(* The items, a comma before each but the first.  *)
Joined(texts) ==
    FlattenSeq([k \in DOMAIN texts |-> IF k = 1 THEN texts[k] ELSE <<Comma>> \o texts[k]])

(* text[w] is what is written for the values in it.  *)
ItemTexts(v, text) == [k \in DOMAIN v.a |-> text[v.a[k]]]
PairTexts(v, text) == [k \in DOMAIN v.o |-> DumpString(v.o[k][1]) \o <<Colon>> \o text[v.o[k][2]]]
TextOf(v, text) ==
    CASE v.t = "null"   -> Null_
      [] v.t = "bool"   -> IF v.b THEN True_ ELSE False_
      [] v.t = "number" -> DumpInt(v.n)
      [] v.t = "double" -> v.d
      [] v.t = "string" -> DumpString(v.s)
      [] v.t = "array"  -> <<91>> \o Joined(ItemTexts(v, text)) \o <<93>>
      [] v.t = "object" -> <<123>> \o Joined(PairTexts(v, text)) \o <<125>>

Dump(value) ==
    LET text[v \in Values] == TextOf(v, text)
    IN  text[value]

----------------------------------------------------------------------------
(* parse.  A parser returns [ok, v, at], at the first byte it left.        *)

Fails    == [ok |-> FALSE, v |-> NullValue, at |-> 0]
Is(v, at) == [ok |-> TRUE, v |-> v, at |-> at]

Peek(s, at) == IF at \in DOMAIN s THEN s[at] ELSE 0

(* The first place at or after this one whose byte is none of these.  *)
Past(bytes, s, at) ==
    IF at \notin DOMAIN s THEN at
    ELSE CHOOSE p \in at..(Len(s) + 1) :
            (p > Len(s) \/ s[p] \notin bytes) /\ \A q \in at..(p - 1) : s[q] \in bytes
SkipWs(s, at) == Past(Blanks, s, at)

ParseLiteral(s, at, lit, v) ==
    IF \A k \in DOMAIN lit : Peek(s, at + k - 1) = lit[k] THEN Is(v, at + Len(lit)) ELSE Fails

HexVal(c) ==
    IF c \in Digits THEN c - 48 ELSE IF c \in 97..102 THEN c - 87 ELSE IF c \in 65..70 THEN c - 55 ELSE -1

(* parseHex4; -1 if it is no escape.  *)
ParseHex4(s, at) ==
    LET h == [k \in 0..3 |-> HexVal(Peek(s, at + k))]
    IN  IF -1 \in {h[k] : k \in 0..3} THEN -1 ELSE h[0] * 4096 + h[1] * 256 + h[2] * 16 + h[3]

AppendUtf8(cp) ==
    IF cp < 128 THEN <<cp>>
    ELSE IF cp < 2048 THEN <<192 + (cp \div 64), 128 + (cp % 64)>>
    ELSE IF cp < 65536 THEN <<224 + (cp \div 4096), 128 + ((cp \div 64) % 64), 128 + (cp % 64)>>
    ELSE <<240 + (cp \div 262144), 128 + ((cp \div 4096) % 64), 128 + ((cp \div 64) % 64), 128 + (cp % 64)>>

IsHigh(u) == u \in 55296..56319
IsLow(u)  == u \in 56320..57343

(* A \u escape, at its digits, joined with a low surrogate that follows a  *)
(* high one: [ok, cp, at].  A bad escape after a high one is an error too. *)
ParseUnicode(s, at) ==
    LET hi   == ParseHex4(s, at)
        next == Peek(s, at + 4) = ReverseSolidus /\ Peek(s, at + 5) = 117
        lo   == ParseHex4(s, at + 6)
    IN  IF hi = -1 \/ (IsHigh(hi) /\ next /\ lo = -1) THEN [ok |-> FALSE, cp |-> 0, at |-> 0]
        ELSE IF IsHigh(hi) /\ next /\ IsLow(lo)
        THEN [ok |-> TRUE, cp |-> 65536 + (hi - 55296) * 1024 + (lo - 56320), at |-> at + 10]
        ELSE [ok |-> TRUE, cp |-> hi, at |-> at + 4]

(* What a parser found, before what the rest of the text holds.  *)
Then(first, rest) == IF rest.ok THEN Is(first \o rest.v, rest.at) ELSE Fails

(* A string from p on; chars[q] is the string from q on.  *)
StringFrom(s, p, chars) ==
    LET e == Peek(s, p + 1)
        u == ParseUnicode(s, p + 2)
    IN  IF p > Len(s) THEN Fails
        ELSE IF s[p] = QuoteMark THEN Is(<<>>, p + 1)
        ELSE IF s[p] # ReverseSolidus THEN Then(<<s[p]>>, chars[p + 1])
        ELSE IF e = Solidus THEN Then(<<Solidus>>, chars[p + 2])
        ELSE IF \E q \in Escapes : q[1] = e
        THEN Then(<<(CHOOSE q \in Escapes : q[1] = e)[2]>>, chars[p + 2])
        ELSE IF e = 117 /\ u.ok THEN Then(AppendUtf8(u.cp), chars[u.at])
        ELSE Fails

StringRead(r) == IF r.ok THEN Is(StringValue(r.v), r.at) ELSE Fails

(* parseString, from its opening quote.  *)
ParseString(s, at) ==
    LET chars[p \in Nat] == StringFrom(s, p, chars)
    IN  StringRead(chars[at + 1])

(* parseNumber: what looks like one, as stod takes it; a sign alone is     *)
(* nothing stod takes.                                                     *)
IntOf(text) ==
    LET int[k \in 0..Len(text)] == IF k = 0 THEN 0 ELSE int[k - 1] * 10 + (text[k] - 48)
    IN  int[Len(text)]

ParseNumber(s, at) ==
    LET int  == IF Peek(s, at) = Minus THEN at + 1 ELSE at
        dot  == Past(Digits, s, int)
        frac == IF Peek(s, dot) = Point THEN Past(Digits, s, dot + 1) ELSE dot
        sign == IF Peek(s, frac + 1) \in {Plus, Minus} THEN frac + 2 ELSE frac + 1
        end  == IF Peek(s, frac) \in {69, 101} THEN Past(Digits, s, sign) ELSE frac
    IN  IF ~\E k \in int..(frac - 1) : s[k] \in Digits THEN Fails
        ELSE IF end > dot THEN Is(Double(SubSeq(s, at, end - 1)), end)
        ELSE Is(IntValue((IF int > at THEN -1 ELSE 1) * IntOf(SubSeq(s, int, dot - 1))), end)

(* The pairs of parseObject, and the items of parseArray; later[<<p, at>>]  *)
(* is what parser p finds further on.                                       *)
PairRead(s, later, k, key, c, v, next) ==
    IF Peek(s, k) # QuoteMark \/ ~key.ok \/ Peek(s, c) # Colon \/ ~v.ok THEN Fails
    ELSE IF Peek(s, next) = Comma THEN Then(<<<<key.v.s, v.v>>>>, later[<<"pairs", next + 1>>])
    ELSE IF Peek(s, next) = 125 THEN Is(<<<<key.v.s, v.v>>>>, next + 1) ELSE Fails

ParsePairs(s, later, at) ==
    LET k    == SkipWs(s, at)
        key  == ParseString(s, k)
        c    == SkipWs(s, key.at)
        v    == later[<<"value", c + 1>>]
        next == SkipWs(s, v.at)
    IN  PairRead(s, later, k, key, c, v, next)

ParseObject(s, later, at) ==
    LET first == SkipWs(s, at + 1)
        pairs == later[<<"pairs", first>>]
    IN  IF Peek(s, first) = 125 THEN Is(ObjectValue(<<>>), first + 1)
        ELSE IF pairs.ok THEN Is(ObjectValue(pairs.v), pairs.at) ELSE Fails

ParseArray(s, later, at) ==
    LET first == SkipWs(s, at + 1)
        items == later[<<"items", first>>]
    IN  IF Peek(s, first) = 93 THEN Is(ArrayValue(<<>>), first + 1)
        ELSE IF items.ok THEN Is(ArrayValue(items.v), items.at) ELSE Fails

ParseValue(s, later, from) ==
    LET at == SkipWs(s, from)
        c  == Peek(s, at)
    IN  CASE c = 123 -> ParseObject(s, later, at)
          [] c = 91  -> ParseArray(s, later, at)
          [] c = QuoteMark -> ParseString(s, at)
          [] c = 116 -> ParseLiteral(s, at, True_, BoolValue(TRUE))
          [] c = 102 -> ParseLiteral(s, at, False_, BoolValue(FALSE))
          [] c = 110 -> ParseLiteral(s, at, Null_, NullValue)
          [] c = Minus \/ c \in Digits -> ParseNumber(s, at)
          [] OTHER -> Fails

ItemFrom(s, later, v, next) ==
    IF ~v.ok THEN Fails
    ELSE IF Peek(s, next) = Comma THEN Then(<<v.v>>, later[<<"items", next + 1>>])
    ELSE IF Peek(s, next) = 93 THEN Is(<<v.v>>, next + 1) ELSE Fails

ParseItems(s, later, at) ==
    LET v == ParseValue(s, later, at)
    IN  ItemFrom(s, later, v, SkipWs(s, v.at))

Parsers == {"value", "items", "pairs"}
Later(s, parse, at) == [q \in Parsers \X ((at + 1)..(Len(s) + 1)) |-> parse[q]]
ParserAt(s, later, p, at) ==
    CASE p = "value" -> ParseValue(s, later, at)
      [] p = "items" -> ParseItems(s, later, at)
      [] p = "pairs" -> ParsePairs(s, later, at)

(* Value::parse: nothing but blanks may follow.  *)
TextRead(s, v) == IF v.ok /\ SkipWs(s, v.at) = Len(s) + 1 THEN v ELSE Fails

Parse(text) ==
    LET parse[q \in Parsers \X (1..(Len(text) + 1))] ==
            ParserAt(text, Later(text, parse, q[2]), q[1], q[2])
    IN  TextRead(text, parse[<<"value", 1>>])
=============================================================================
