------------------------------ MODULE Hashing ------------------------------
(* The streaming of src/src/crypto/sha256.c and sha512.c.  The             *)
(* compression function is not computed: `done` is the sequence of blocks it  *)
(* was given, which is all the digest depends on.                             *)
EXTENDS Integers, Sequences

CONSTANTS
  HashBlock,     \* bytes of a block, by algorithm: 64 and 128
  LengthRoom,    \* bytes of the block kept for the length: 8 and 16
  LengthBytes    \* bytes the length is really written in: 8

ASSUME HashingAssumption ==
  /\ DOMAIN HashBlock = DOMAIN LengthRoom
  /\ \A h \in DOMAIN HashBlock : LengthBytes <= LengthRoom[h] /\ LengthRoom[h] < HashBlock[h]

\* 0x80, which no byte of a modelled message is.
Mark == 128

\* tamga_sha256_init, tamga_sha512_init
HashInit(h) ==
  [alg |-> h, block |-> [i \in 1..HashBlock[h] |-> 0], blockLen |-> 0, total |-> 0, done |-> <<>>]

Compress(c, block) == [c EXCEPT !.done = Append(@, block)]

\* memcpy and memset into the block
Fill(c, from, bytes) ==
  [c EXCEPT !.block = [i \in DOMAIN @ |->
     IF i > from /\ i <= from + Len(bytes) THEN bytes[i - from] ELSE @[i]]]

Drop(bytes, n) == SubSeq(bytes, n + 1, Len(bytes))

\* The loop over whole blocks of the caller's data, and what is left after it.
Absorb(c, bytes) ==
  LET size == HashBlock[c.alg]
      whole == Len(bytes) \div size
      rest == Drop(bytes, whole * size)
      blocks == [k \in 1..whole |-> SubSeq(bytes, (k - 1) * size + 1, k * size)]
      fed == [c EXCEPT !.done = @ \o blocks]
  IN IF rest = <<>> THEN fed ELSE [Fill(fed, 0, rest) EXCEPT !.blockLen = Len(rest)]

\* tamga_sha256_update, tamga_sha512_update
Update(c, bytes) ==
  LET size == HashBlock[c.alg]
      counted == [c EXCEPT !.total = @ + Len(bytes)]
      needed == size - c.blockLen
      take == IF Len(bytes) < needed THEN Len(bytes) ELSE needed
      filled == [Fill(counted, c.blockLen, SubSeq(bytes, 1, take)) EXCEPT !.blockLen = @ + take]
  IN IF c.blockLen = 0 THEN Absorb(counted, bytes)
     ELSE IF filled.blockLen < size THEN filled
     ELSE Absorb([Compress(filled, filled.block) EXCEPT !.blockLen = 0], Drop(bytes, take))

\* The length in bits, its last byte last.
LengthField(total) == [i \in 1..LengthBytes |-> ((8 * total) \div 256 ^ (LengthBytes - i)) % 256]

Zeros(n) == [i \in 1..n |-> 0]

\* tamga_sha256_final, tamga_sha512_final: mark, zeros and length, in one block
\* or two.  The context is erased afterwards.
Final(c) ==
  LET size == HashBlock[c.alg]
      marked == [Fill(c, c.blockLen, <<Mark>>) EXCEPT !.blockLen = @ + 1]
      wiped == Fill(marked, marked.blockLen, Zeros(size - marked.blockLen))
      room == IF marked.blockLen > size - LengthRoom[c.alg]
              THEN [Compress(wiped, wiped.block) EXCEPT !.blockLen = 0] ELSE marked
      last == Fill(Fill(room, room.blockLen, Zeros(size - LengthBytes - room.blockLen)),
                   size - LengthBytes, LengthField(c.total))
  IN Compress(last, last.block).done

=============================================================================
