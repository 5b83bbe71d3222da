------------------------------ MODULE Encoding ------------------------------
(***************************************************************************)
(* Texts as sequences of bytes: base64 (util/util.cpp, util/sha256.cpp),   *)
(* the public key in a PEM text (util/rsa_verify.cpp) and shell quoting    *)
(* (util/util.cpp).                                                        *)
(***************************************************************************)
EXTENDS Integers, Sequences, SequencesExt

TAB == 9
LF == 10
CR == 13
Space == 32
Quote == 39
Dash == 45
Equals == 61
Backslash == 92

(* The two alphabets differ in their last two characters.  *)
Std == <<43, 47>>
Url == <<45, 95>>

Char(alphabet, v) ==
    IF v < 26 THEN 65 + v ELSE IF v < 52 THEN 71 + v ELSE IF v < 62 THEN v - 4 ELSE alphabet[v - 61]
CharValues(alphabet, c) == {v \in 0..63 : Char(alphabet, v) = c}

(* A group of three bytes, fewer at the end.  *)
EncodeGroup(alphabet, pad, g) ==
    LET n == g[1] * 65536 + (IF Len(g) > 1 THEN g[2] * 256 ELSE 0) + (IF Len(g) > 2 THEN g[3] ELSE 0)
        chars == <<n \div 262144, (n \div 4096) % 64, (n \div 64) % 64, n % 64>>
    IN  [k \in 1..(Len(g) + 1) |-> Char(alphabet, chars[k])]
            \o (IF pad THEN [k \in 1..(3 - Len(g)) |-> Equals] ELSE <<>>)

Encode(alphabet, pad, bytes) ==
    FlattenSeq([k \in 1..((Len(bytes) + 2) \div 3) |->
        EncodeGroup(alphabet, pad, SubSeq(bytes, 3 * k - 2, IF 3 * k < Len(bytes) THEN 3 * k ELSE Len(bytes)))])

Base64Encode(bytes)    == Encode(Std, TRUE, bytes)
Base64UrlEncode(bytes) == Encode(Url, FALSE, bytes)

(* Six bits in, eight out as soon as they are there.  Of n the low twelve  *)
(* bits are all that is ever read.                                         *)
Window == 4096
Reading(n, bits, bytes) == [mode |-> "read", n |-> n, bits |-> bits, out |-> bytes]
Shifted(n, bits) == (CASE bits = 2 -> n [] bits = 4 -> n \div 4 [] bits = 6 -> n \div 16) % 256

(* Fault: the bits left over when a byte is taken are forgotten.  *)
DecodeCharAligned(alphabet, stops, s, c) ==
    LET n == (s.n * 64 + CHOOSE v \in 0..63 : Char(alphabet, v) = c) % Window
    IN  CASE s.mode # "read" -> s
          [] s.mode = "read" /\ c \in stops -> [s EXCEPT !.mode = "stop"]
          [] s.mode = "read" /\ c \notin stops /\ CharValues(alphabet, c) = {} -> [s EXCEPT !.mode = "bad"]
          [] OTHER -> IF s.bits + 6 >= 8 THEN Reading(n, 0, Append(s.out, Shifted(n, s.bits)))
                      ELSE Reading(n, s.bits + 6, s.out)

(* base64Decode and base64UrlDecode, one character: one of stops ends the  *)
(* text, one that is not in the alphabet fails.                            *)
DecodeChar(alphabet, stops, s, c) ==
    LET n == (s.n * 64 + CHOOSE v \in 0..63 : Char(alphabet, v) = c) % Window
    IN  CASE s.mode # "read" -> s
          [] s.mode = "read" /\ c \in stops -> [s EXCEPT !.mode = "stop"]
          [] s.mode = "read" /\ c \notin stops /\ CharValues(alphabet, c) = {} -> [s EXCEPT !.mode = "bad"]
          [] OTHER -> IF s.bits + 6 >= 8 THEN Reading(n, s.bits - 2, Append(s.out, Shifted(n, s.bits)))
                      ELSE Reading(n, s.bits + 6, s.out)

DecodeChars(alphabet, stops, start, text) ==
    LET state[k \in 0..Len(text)] ==
            IF k = 0 THEN start ELSE DecodeChar(alphabet, stops, state[k - 1], text[k])
    IN  state[Len(text)]

(* The loop over the text, in stretches of 64: TLC's stack is small.  *)
Stretch(text, j) == SubSeq(text, 64 * j - 63, IF 64 * j < Len(text) THEN 64 * j ELSE Len(text))
Stretches(text)  == (Len(text) + 63) \div 64

DecodeState(alphabet, stops, text) ==
    LET state[j \in 0..Stretches(text)] ==
            IF j = 0 THEN Reading(0, 0, <<>>)
            ELSE LET s == state[j - 1]
                 IN  IF s.mode # "read" THEN s ELSE DecodeChars(alphabet, stops, s, Stretch(text, j))
    IN  state[Stretches(text)]

Decode(alphabet, stops, text) ==
    LET s == DecodeState(alphabet, stops, text) IN [ok |-> s.mode # "bad", out |-> s.out]

Base64Decode(text)    == Decode(Std, {Equals, LF, CR}, text)
Base64UrlDecode(text) == Decode(Url, {Equals}, text)

----------------------------------------------------------------------------
(* DER.  at is the next byte; a result carries the place after it.         *)

NoTlv == [ok |-> FALSE, tag |-> 0, len |-> 0, at |-> 0]

(* The number in n bytes, the highest first.  *)
NumberIn(der, at, n) ==
    LET number[k \in 0..n] == IF k = 0 THEN 0 ELSE number[k - 1] * 256 + der[at + k - 1] IN number[n]

(* readTlv: a length of one byte, or of up to four that follow it.  *)
TlvAt(der, at, lenByte) ==
    LET numBytes == IF lenByte < 128 THEN 0 ELSE lenByte - 128
        len      == IF lenByte < 128 THEN lenByte ELSE NumberIn(der, at + 2, numBytes)
        data     == at + 2 + numBytes
    IN  IF \/ at + 1 > Len(der)
           \/ lenByte = 128 \/ numBytes > 4 \/ data - 1 > Len(der)
           \/ data + len - 1 > Len(der)
        THEN NoTlv
        ELSE [ok |-> TRUE, tag |-> der[at], len |-> len, at |-> data]

ReadTlv(der, at) == TlvAt(der, at, der[at + 1])

NoInteger == [ok |-> FALSE, bytes |-> <<>>, at |-> 0]

(* Fault: the zero before a high bit is kept.  *)
ReadDerIntegerWhole(der, at) ==
    LET tlv == ReadTlv(der, at)
    IN  IF ~tlv.ok \/ tlv.tag # 2 \/ tlv.len = 0 \/ der[tlv.at] >= 128 THEN NoInteger
        ELSE [ok |-> TRUE, bytes |-> SubSeq(der, tlv.at, tlv.at + tlv.len - 1), at |-> tlv.at + tlv.len]

(* readDerInteger: not negative, without the zero before a high bit.  *)
ReadDerInteger(der, at) ==
    LET tlv  == ReadTlv(der, at)
        skip == IF der[tlv.at] = 0 THEN 1 ELSE 0
    IN  IF ~tlv.ok \/ tlv.tag # 2 \/ tlv.len = 0 \/ der[tlv.at] >= 128 \/ tlv.len = skip THEN NoInteger
        ELSE [ok |-> TRUE, bytes |-> SubSeq(der, tlv.at + skip, tlv.at + tlv.len - 1),
              at |-> tlv.at + tlv.len]

(* A character of a PEM, unless it is space or after a dash on its line.    *)
Kept(pem, k) ==
    IF \/ \E d \in 1..k : pem[d] = Dash /\ \A m \in d..k : pem[m] # LF
       \/ pem[k] \in {LF, CR, TAB, Space}
    THEN <<>> ELSE <<pem[k]>>

StripPem(pem) ==
    FlattenSeq([j \in 1..Stretches(pem) |->
        FlattenSeq([i \in 1..Len(Stretch(pem, j)) |-> Kept(pem, 64 * (j - 1) + i)])])

NoPublicKey == [ok |-> FALSE, n |-> <<>>, e |-> <<>>]

(* SEQUENCE { SEQUENCE algorithm, BIT STRING { SEQUENCE { n, e } } }.  *)
ParseSpki(der) ==
    LET spki  == ReadTlv(der, 1)
        algId == ReadTlv(der, spki.at)
        bits  == ReadTlv(der, algId.at + algId.len)
        rsa   == SubSeq(der, bits.at + 1, bits.at + bits.len - 1)
        seq   == ReadTlv(rsa, 1)
        n     == ReadDerInteger(rsa, seq.at)
        e     == ReadDerInteger(rsa, n.at)
    IN  IF /\ spki.ok /\ spki.tag = 48
           /\ algId.ok /\ algId.tag = 48
           /\ bits.ok /\ bits.tag = 3 /\ bits.len > 0 /\ der[bits.at] = 0
           /\ seq.ok /\ seq.tag = 48
           /\ n.ok /\ e.ok
        THEN [ok |-> TRUE, n |-> n.bytes, e |-> e.bytes] ELSE NoPublicKey

ParseSpkiPem(pem) ==
    LET der == Base64Decode(StripPem(pem)) IN IF der.ok THEN ParseSpki(der.out) ELSE NoPublicKey

----------------------------------------------------------------------------
(* Fault: a quote inside is doubled.  *)
ShellQuoteDoubled(s) ==
    <<Quote>> \o FlattenSeq([k \in DOMAIN s |-> IF s[k] = Quote THEN <<Quote, Quote>> ELSE <<s[k]>>])
        \o <<Quote>>

ShellQuote(s) ==
    <<Quote>>
        \o FlattenSeq([k \in DOMAIN s |->
               IF s[k] = Quote THEN <<Quote, Backslash, Quote, Quote>> ELSE <<s[k]>>])
        \o <<Quote>>
=============================================================================
