------------------------------- MODULE BigInt -------------------------------
(***************************************************************************)
(* util/bignum.cpp and the verification in util/rsa_verify.cpp.  A Big is  *)
(* a sequence of limbs, the lowest first, without zeros on top.  The       *)
(* widths are scaled down: a limb is LimbBytes bytes of ByteBits bits, and *)
(* what the code computes in 64 bits is computed in two limbs.             *)
(***************************************************************************)
EXTENDS Integers, Sequences, SequencesExt

CONSTANTS
    ByteBits,   \* 8 in the code
    LimbBytes,  \* 4 in the code
    MinPad,     \* FF bytes a signature has at least, 8 in the code
    DigestInfo  \* the prefix of a digest, 19 bytes in the code

ASSUME BigIntAssumption == {ByteBits, LimbBytes, MinPad} \subseteq Nat \ {0}

(* b to the n.  *)
Pow(b, n) == LET p[k \in 0..n] == IF k = 0 THEN 1 ELSE b * p[k - 1] IN p[n]

ByteBase == Pow(2, ByteBits)
LimbBits == ByteBits * LimbBytes
Base     == Pow(2, LimbBits)
Word     == Base * Base

(* An array of bytes in the code.  *)
ASSUME DigestInfoAssumption == DigestInfo \in Seq(0..(ByteBase - 1))

Zeros(n) == <<>> \o [k \in 1..n |-> 0]    \* a sequence TLC has written out
Limb(a, k) == IF k \in DOMAIN a THEN a[k] ELSE 0
Longest(a, b) == IF Len(a) < Len(b) THEN Len(b) ELSE Len(a)

(* The loops that pop zero limbs; one stays.  *)
Normal(a) ==
    LET used == {k \in DOMAIN a : a[k] # 0}
    IN  IF used = {} THEN <<0>> ELSE SubSeq(a, 1, CHOOSE k \in used : \A j \in used : j <= k)

(* bigFromBytes: limbs from the end, the last one shorter perhaps.  *)
BytesValue(bytes) ==
    LET value[k \in 0..Len(bytes)] == IF k = 0 THEN 0 ELSE value[k - 1] * ByteBase + bytes[k]
    IN  value[Len(bytes)]

BigFromBytes(bytes) ==
    LET limbs == (Len(bytes) + LimbBytes - 1) \div LimbBytes
        first(k) == IF Len(bytes) > k * LimbBytes THEN Len(bytes) - k * LimbBytes + 1 ELSE 1
    IN  Normal([k \in 1..limbs |->
            BytesValue(SubSeq(bytes, first(k), Len(bytes) - (k - 1) * LimbBytes))])

(* bigFromUint, of 64 bits.  *)
BigFromUint(v) == Normal(<<v % Base, v \div Base>>)

(* bigCmp: by length, then by the highest limb that differs.  *)
BigCmp(a, b) ==
    LET differ == {k \in DOMAIN a : a[k] # b[k]}
        top    == CHOOSE k \in differ : \A j \in differ : j <= k
    IN  IF Len(a) # Len(b) THEN IF Len(a) < Len(b) THEN -1 ELSE 1
        ELSE IF differ = {} THEN 0 ELSE IF a[top] < b[top] THEN -1 ELSE 1

BigAdd(a, b) ==
    LET n == Longest(a, b)
        sum[k \in 1..n] ==
            Limb(a, k) + Limb(b, k) + (IF k = 1 THEN 0 ELSE sum[k - 1] \div Base)
    IN  [k \in 1..n |-> sum[k] % Base]
            \o (IF sum[n] >= Base THEN <<sum[n] \div Base>> ELSE <<>>)

(* bigSub, of a >= b.  *)
BigSub(a, b) ==
    LET n == Longest(a, b)
        diff[k \in 1..n] ==
            Limb(a, k) - Limb(b, k) - (IF k > 1 /\ diff[k - 1] < 0 THEN 1 ELSE 0)
    IN  Normal([k \in 1..n |-> diff[k] % Base])

----------------------------------------------------------------------------
(* A row of bigMul: ai times b, added to out from limb i on.  Above the    *)
(* limbs of b there is only the carry, and where it is zero nothing        *)
(* changes.                                                                *)
MulLimb(out, ai, b, i) ==
    LET cur[k \in i..Len(out)] ==
            (out[k] + ai * Limb(b, k - i + 1) + (IF k = i THEN 0 ELSE cur[k - 1] \div Base)) % Word
    IN  [k \in 1..Len(out) |-> IF k < i THEN out[k] ELSE cur[k] % Base]

(* bigMul.  *)
BigMul(a, b) ==
    LET out[i \in 0..Len(a)] == IF i = 0 THEN Zeros(Len(a) + Len(b)) ELSE MulLimb(out[i - 1], a[i], b, i)
    IN  IF a = <<0>> \/ b = <<0>> THEN <<0>> ELSE Normal(out[Len(a)])

(* shiftLeftOneAdd.  *)
ShiftLeftOneAdd(r, bit) ==
    LET cur[k \in 1..Len(r)] == r[k] * 2 + (IF k = 1 THEN bit ELSE cur[k - 1] \div Base)
    IN  [k \in 1..Len(r) |-> cur[k] % Base]
            \o (IF cur[Len(r)] >= Base THEN <<cur[Len(r)] \div Base>> ELSE <<>>)

(* Bit k of a; 0 is the lowest.  *)
BitCount(a) == Len(a) * LimbBits
Bit(a, k)   == (a[k \div LimbBits + 1] \div Pow(2, k % LimbBits)) % 2

(* Fault: nothing is subtracted from a remainder that equals the modulus.  *)
ModStepLess(r, bit, m) ==
    LET s == ShiftLeftOneAdd(r, bit) IN IF BigCmp(s, m) > 0 THEN BigSub(s, m) ELSE s

(* One bit of the long division.  *)
ModStep(r, bit, m) ==
    LET s == ShiftLeftOneAdd(r, bit) IN IF BigCmp(s, m) >= 0 THEN BigSub(s, m) ELSE s

(* bigMod: from the highest bit down.  *)
BigMod(a, m) ==
    LET r[k \in 0..BitCount(a)] == IF k = 0 THEN <<0>> ELSE ModStep(r[k - 1], Bit(a, BitCount(a) - k), m)
    IN  IF BigCmp(a, m) < 0 THEN a ELSE r[BitCount(a)]

BigModMul(a, b, m) == BigMod(BigMul(a, b), m)

(* bigModPow.  The square after the last bit that is set is not computed:  *)
(* nothing reads it.                                                       *)
BigModPow(base, exp, m) ==
    LET state[k \in 0..BitCount(exp)] ==
            IF k = 0 THEN [result |-> <<1>>, b |-> BigMod(base, m)]
            ELSE LET s == state[k - 1]
                 IN  [result |-> IF Bit(exp, k - 1) = 1 THEN BigModMul(s.result, s.b, m) ELSE s.result,
                      b      |-> BigModMul(s.b, s.b, m)]
    IN  state[BitCount(exp)].result

----------------------------------------------------------------------------
(* rsaVerifyPkcs1Sha256.  *)

(* The bytes of a limb, highest first.  *)
LimbBytesOf(limb) == [j \in 1..LimbBytes |-> (limb \div Pow(ByteBase, LimbBytes - j)) % ByteBase]

(* Those of the top limb that count, and all of the others.  *)
TopBytes(limb) ==
    LET bytes == LimbBytesOf(limb)
    IN  SubSeq(bytes, CHOOSE j \in DOMAIN bytes : bytes[j] # 0 /\ \A i \in 1..(j - 1) : bytes[i] = 0, LimbBytes)

BigBytes(m) ==
    IF m[Len(m)] = 0 THEN <<>>
    ELSE TopBytes(m[Len(m)]) \o FlattenSeq([k \in 1..(Len(m) - 1) |-> LimbBytesOf(m[Len(m) - k])])

(* Fault: any byte but zero pads.  *)
PaddingLoose(em, digest) ==
    LET k    == Len(em)
        tLen == Len(DigestInfo) + Len(digest)
    IN  /\ k >= tLen + MinPad + 3
        /\ em[1] = 0 /\ em[2] = 1
        /\ \A j \in 3..(k - tLen - 1) : em[j] # 0
        /\ em[k - tLen] = 0
        /\ SubSeq(em, k - tLen + 1, k) = DigestInfo \o digest

(* em = 00 01 FF ... FF 00 DigestInfo digest.  *)
PaddingHolds(em, digest) ==
    LET k    == Len(em)
        tLen == Len(DigestInfo) + Len(digest)
    IN  /\ k >= tLen + MinPad + 3
        /\ em[1] = 0 /\ em[2] = 1
        /\ \A j \in 3..(k - tLen - 1) : em[j] = ByteBase - 1
        /\ em[k - tLen] = 0
        /\ SubSeq(em, k - tLen + 1, k) = DigestInfo \o digest

RsaVerify(nBytes, eBytes, signature, digest) ==
    LET n == BigFromBytes(nBytes)
        s == BigFromBytes(signature)
        m == BigBytes(BigModPow(s, BigFromBytes(eBytes), n))
    IN  /\ BigCmp(s, n) < 0
        /\ Len(m) <= Len(nBytes)
        /\ PaddingHolds(Zeros(Len(nBytes) - Len(m)) \o m, digest)
=============================================================================
