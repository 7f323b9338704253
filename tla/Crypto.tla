------------------------------- MODULE Crypto -------------------------------
(***************************************************************************)
(* src/crypto.cpp: how sha1_update and sha1_final cut a message and its    *)
(* padding into blocks, and base64_encode.  The compression function,      *)
(* sha1_transform, stays a parameter: the hash is the 20 bytes it leaves   *)
(* after the last block.  Bytes are numbers.                               *)
(***************************************************************************)
EXTENDS Integers, Sequences, SequencesExt

CONSTANT sha1_transform(_, _)      \* the 20 bytes after a block

Byte == 0..255
BLOCK == 64

sha1_init == [h |-> [i \in 1..20 |-> i], len |-> 0, buf |-> <<>>]

(* h after the k first blocks of bytes. *)
Blocks(h0, bytes) ==
    LET h[k \in 0..Len(bytes) \div BLOCK] ==
            IF k = 0 THEN h0 ELSE sha1_transform(h[k - 1], SubSeq(bytes, BLOCK * (k - 1) + 1, BLOCK * k))
    IN  h

(* The context after the bytes of data, the buffer being emptied when full.*)
sha1_update(ctx, data) ==
    LET bytes == ctx.buf \o data
        n     == Len(bytes) \div BLOCK
    IN  [h |-> Blocks(ctx.h, bytes)[n], len |-> ctx.len + 8 * Len(data),
         buf |-> SubSeq(bytes, BLOCK * n + 1, Len(bytes))]

Zeros(n) == [i \in 1..n |-> 0]

(* The length in bits, as eight bytes; the high four stay zero. *)
LengthBytes(bits) ==
    Zeros(4) \o [i \in 1..4 |-> (bits \div <<16777216, 65536, 256, 1>>[i]) % 256]

sha1_final_one_block(ctx) ==
    LET marked == Append(ctx.buf, 128)
    IN  sha1_transform(ctx.h, SubSeq(marked \o Zeros(BLOCK), 1, BLOCK - 8) \o LengthBytes(ctx.len))

(* The mark, zeros and the length; in a block of its own when they do not  *)
(* fit behind the data.                                                    *)
sha1_final(ctx) ==
    LET marked == Append(ctx.buf, 128)
        fits   == Len(marked) <= BLOCK - 8
        h      == IF fits THEN ctx.h
                  ELSE sha1_transform(ctx.h, marked \o Zeros(BLOCK - Len(marked)))
        last   == IF fits THEN marked ELSE <<>>
    IN  sha1_transform(h, last \o Zeros(BLOCK - 8 - Len(last)) \o LengthBytes(ctx.len))

PAD == 64                          \* the character =

(* Indices into b64_table: digit o of the four for the bytes from in[i + 1] *)
(* on; what is behind the end is zero, and a digit of no byte is PAD.      *)
base64_digit(in, i, o) ==
    LET n == Len(in)
    IN  CASE o = 0 -> in[i + 1] \div 4
          [] o = 1 -> (in[i + 1] % 4) * 16 + IF i + 1 < n THEN in[i + 2] \div 16 ELSE 0
          [] o = 2 -> IF i + 1 < n
                      THEN (in[i + 2] % 16) * 4 + IF i + 2 < n THEN in[i + 3] \div 64 ELSE 0
                      ELSE PAD
          [] o = 3 -> IF i + 2 < n THEN in[i + 3] % 64 ELSE PAD

base64_encode(in) ==
    [k \in 1..4 * ((Len(in) + 2) \div 3) |-> base64_digit(in, 3 * ((k - 1) \div 4), (k - 1) % 4)]

-----------------------------------------------------------------------------
(* What they should compute. *)

(* SHA-1: the message, a one bit, the fewest zeros and the length make a   *)
(* whole number of blocks.                                                 *)
Padded(data) ==
    LET z == CHOOSE k \in 0..BLOCK - 1 : (Len(data) + 9 + k) % BLOCK = 0
    IN  data \o <<128>> \o Zeros(z) \o LengthBytes(8 * Len(data))

Sha1(data) == Blocks(sha1_init.h, Padded(data))[Len(Padded(data)) \div BLOCK]

(* Bit i of width bits, from the left. *)
Bit(x, width, i) == (x \div <<128, 64, 32, 16, 8, 4, 2, 1>>[8 - width + i]) % 2

(* Base 64: the same bits, six at a time, and = for digits of no byte. *)
IsBase64Of(digits, in) ==
    /\ Len(digits) = 4 * ((Len(in) + 2) \div 3)
    /\ \A k \in 0..6 * Len(digits) - 1 :
          LET d == digits[k \div 6 + 1]
          IN  IF 6 * (k \div 6) >= 8 * Len(in) THEN d = PAD
              ELSE Bit(d, 6, (k % 6) + 1) =
                      IF k < 8 * Len(in) THEN Bit(in[k \div 8 + 1], 8, (k % 8) + 1) ELSE 0
=============================================================================
