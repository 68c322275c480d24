-------------------------------- MODULE Gcm --------------------------------
(* src/src/crypto/gcm.c.  A field element is the sequence of its bits, that   *)
(* of x^0 first, GcmBits of them instead of 128.  Data are sequences of bits  *)
(* in blocks of BlockLen; Cipher is the block cipher's output bit i for a     *)
(* counter, Tag an ideal keyed hash of what GHASH absorbs: external.          *)
EXTENDS Integers, Sequences

CONSTANTS
  GcmBits,          \* 128
  Polynomial,       \* the bits of the reduction polynomial below x^GcmBits
  BlockLen,         \* 16
  CounterMax,       \* 2^32
  Cipher(_, _, _)   \* of a key, a nonce and counter, and a bit of the block

ASSUME GcmAssumption ==
  /\ GcmBits \in Nat \ {0} /\ BlockLen \in Nat \ {0} /\ CounterMax \in Nat \ {0, 1}
  /\ Polynomial \in Seq(0..1) /\ Len(Polynomial) = GcmBits

XorBits(a, b) == [i \in DOMAIN a |-> (a[i] + b[i]) % 2]

\* v times x: a shift, and the polynomial when a bit falls out.
TimesX(v) ==
  LET shifted == [i \in 1..GcmBits |-> IF i = 1 THEN 0 ELSE v[i - 1]]
  IN IF v[GcmBits] = 1 THEN XorBits(shifted, Polynomial) ELSE shifted

\* tamga_gcm_gf_mul
GfMul(x, y) ==
  LET at[bit \in 0..GcmBits] ==
        IF bit = 0 THEN [z |-> [i \in 1..GcmBits |-> 0], v |-> y]
        ELSE LET s == at[bit - 1]
             IN [z |-> IF x[bit] = 1 THEN XorBits(s.z, s.v) ELSE s.z, v |-> TimesX(s.v)]
  IN at[GcmBits].z

-----------------------------------------------------------------------------
\* tamga_ghash_update: blocks, the last one filled up with zeros.
GhashBlocks(data) ==
  [k \in 1..(Len(data) + BlockLen - 1) \div BlockLen |->
     [i \in 1..BlockLen |->
        LET at == (k - 1) * BlockLen + i IN IF at <= Len(data) THEN data[at] ELSE 0]]

\* What the tag is computed from: key and counter block J0, the blocks GHASH
\* absorbs, and the block of the two lengths.
Tag(key, nonce, aad, ct) ==
  <<key, nonce, GhashBlocks(aad) \o GhashBlocks(ct), Len(aad), Len(ct)>>

\* tamga_gcm_inc32, from J0 whose counter is 1: that of block k.
Counter(k) == (1 + k) % CounterMax

\* The keystream walk of tamga_gcm_core, both ways.
Crypt(key, nonce, input) ==
  [i \in DOMAIN input |->
     LET block == (i - 1) \div BlockLen + 1
     IN (input[i] + Cipher(key, <<nonce, Counter(block)>>, ((i - 1) % BlockLen) + 1)) % 2]

\* tamga_gcm_seal
GcmSeal(key, nonce, aad, plaintext) ==
  LET ct == Crypt(key, nonce, plaintext)
  IN [ct |-> ct, tag |-> Tag(key, nonce, aad, ct)]

\* A bug to be caught: what was decrypted stays when the tag is wrong.
GcmOpenKeeps(key, nonce, aad, box) ==
  LET out == Crypt(key, nonce, box.ct)
  IN IF Tag(key, nonce, aad, box.ct) = box.tag
     THEN [ok |-> TRUE, out |-> out, len |-> Len(out)]
     ELSE [ok |-> FALSE, out |-> out, len |-> 0]

\* tamga_gcm_open: decrypted before it is checked, erased if the tag is wrong.
GcmOpen(key, nonce, aad, box) ==
  LET out == Crypt(key, nonce, box.ct)
      authentic == Tag(key, nonce, aad, box.ct) = box.tag
  IN IF authentic THEN [ok |-> TRUE, out |-> out, len |-> Len(out)]
     ELSE [ok |-> FALSE, out |-> [i \in DOMAIN out |-> 0], len |-> 0]
=============================================================================
