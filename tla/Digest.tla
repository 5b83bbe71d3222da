------------------------------- MODULE Digest -------------------------------
(***************************************************************************)
(* util/sha256.cpp: SHA-256 in pieces, and HMAC over it.  What block does  *)
(* to the chain is left out but for this: two chains are equal only if the *)
(* same blocks made them.  So a chain is the blocks.  A byte is a record:  *)
(* [byte], [of, k] the k-th byte of a digest, [byte, pad] one xored.       *)
(***************************************************************************)
EXTENDS Integers, Sequences, SequencesExt

CONSTANTS
    BlockSize,   \* bytes in a block, 64 in the code
    LengthSize,  \* bytes of the length at the end, 8 in the code
    DigestSize   \* bytes in a digest, 32 in the code

ASSUME DigestAssumption ==
    /\ {BlockSize, LengthSize, DigestSize} \subseteq Nat \ {0}
    /\ LengthSize < BlockSize /\ DigestSize <= BlockSize

Byte(b) == [byte |-> b]
Null    == Byte(0)

(* Sha256Ctx.  *)
NewCtx == [h |-> <<>>, buf |-> <<>>, totalLen |-> 0]

(* block.  *)
Block(h, block) == Append(h, block)

(* A pass of update: fill the buffer, compress it when it is full.  *)
Fill(ctx, data) ==
    LET room == BlockSize - Len(ctx.buf)
        take == IF room > Len(data) THEN Len(data) ELSE room
        buf  == ctx.buf \o SubSeq(data, 1, take)
        full == Len(buf) = BlockSize
    IN  [ctx  |-> [h        |-> IF full THEN Block(ctx.h, buf) ELSE ctx.h,
                   buf      |-> IF full THEN <<>> ELSE buf,
                   totalLen |-> ctx.totalLen],
         rest |-> SubSeq(data, take + 1, Len(data))]

(* Fault: what is left of the input when a block is full is not read.  *)
UpdateOnce(ctx, data) == Fill([ctx EXCEPT !.totalLen = @ + Len(data)], data).ctx

(* update: passes until nothing is left; each takes a byte at least, and   *)
(* one that finds nothing left changes nothing.                            *)
Update(ctx, data) ==
    LET pass[k \in 0..Len(data)] ==
            IF k = 0 THEN [ctx |-> [ctx EXCEPT !.totalLen = @ + Len(data)], rest |-> data]
            ELSE Fill(pass[k - 1].ctx, pass[k - 1].rest)
    IN  pass[Len(data)].ctx

(* The length in bits, as big-endian bytes.  *)
LengthBytes(bitLen) == [k \in 1..LengthSize |-> Byte((bitLen \div 256^(LengthSize - k)) % 256)]

(* The zeros of final: until just the length fits, fewer than a block.  *)
PadZeros(ctx) ==
    LET padded[k \in 0..BlockSize] ==
            IF k = 0 THEN ctx
            ELSE IF Len(padded[k - 1].buf) = BlockSize - LengthSize THEN padded[k - 1]
            ELSE Update(padded[k - 1], <<Null>>)
    IN  padded[BlockSize]

DigestOf(h) == [k \in 1..DigestSize |-> [of |-> h, k |-> k]]

(* final.  *)
Final(ctx) ==
    DigestOf(Update(PadZeros(Update(ctx, <<Byte(128)>>)), LengthBytes(ctx.totalLen * 8)).h)

Sha256(data) == Final(Update(NewCtx, data))

(* The key of an HMAC: its digest if it is longer than a block; zeros.  *)
KeyBlock(key) ==
    LET k == IF Len(key) > BlockSize THEN Sha256(key) ELSE key
    IN  k \o [j \in 1..(BlockSize - Len(k)) |-> Null]

Xor(block, pad) == [k \in DOMAIN block |-> [byte |-> block[k], pad |-> pad]]

(* hmacSha256.  *)
HmacSha256(key, message) ==
    LET inner == Update(Update(NewCtx, Xor(KeyBlock(key), 54)), message)
        outer == Update(Update(NewCtx, Xor(KeyBlock(key), 92)), Final(inner))
    IN  Final(outer)
=============================================================================
