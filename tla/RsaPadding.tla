----------------------------- MODULE RsaPadding -----------------------------
(* What rsa.c makes of s^e mod n: the block of PKCS#1 v1.5 and that of PSS.   *)
(* Bytes have two bits, a digest and a salt are one byte each; Digest and     *)
(* Mask stand for SHA-256 and MGF1.                                           *)
EXTENDS Integers, Sequences

CONSTANTS
  MinPadding,     \* 8: bytes of 0xFF
  Digest(_, _),   \* SHA-256 of eight zeros, a digest and a salt
  Mask(_, _)      \* byte i of MGF1 of a digest

ASSUME PaddingAssumption == MinPadding \in Nat

ByteMax == 3
Trailer == 2
InfoPrefix == 2
Xor(a, b) == ((a + b) % 2) + 2 * (((a \div 2) + (b \div 2)) % 2)

\* tamga_rsa_verify_pkcs1_sha256: the expected block, whole.
Pkcs1Verify(em, digest) ==
  LET padding == Len(em) - 2 - 3
      expected == [i \in 1..Len(em) |->
                     CASE i = 1 -> 0 [] i = 2 -> 1
                       [] i > 2 /\ i <= padding + 2 -> ByteMax
                       [] i = padding + 3 -> 0
                       [] i = padding + 4 -> InfoPrefix
                       [] i = padding + 5 -> digest]
  IN Len(em) >= 2 + MinPadding + 3 /\ em = expected

\* tamga_rsa_verify_pss_sha256
PssVerify(em, digest) ==
  LET dbLen == Len(em) - 2
      h == em[dbLen + 1]
      unmasked == [i \in 1..dbLen |-> Xor(em[i], Mask(h, i))]
      db == [unmasked EXCEPT ![1] = @ % 2]
  IN /\ Len(em) >= 4
     /\ em[Len(em)] = Trailer
     /\ em[1] < 2
     /\ \A i \in 1..dbLen - 2 : db[i] = 0
     /\ db[dbLen - 1] = 1
     /\ Digest(digest, db[dbLen]) = h
=============================================================================
