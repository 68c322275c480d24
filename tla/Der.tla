-------------------------------- MODULE Der --------------------------------
(* src/src/crypto/der.c and the structures rsa.c and ecdsa.c read with it.    *)
(* A byte has DerBits bits instead of eight, so that long lengths are short:  *)
(* what the code compares with 0x80 is compared with High here, and a tag     *)
(* whose bits below High are all set is one of the long form.                 *)
EXTENDS Integers, Sequences

CONSTANTS
  DerBits,                   \* 8
  MaxLenBytes,               \* 4: bytes of a long length
  MinModulus, MaxModulus,    \* bytes of an RSA modulus: 256 and 1024
  MaxExponent,               \* 8
  ScalarLen                  \* bytes of a P-256 coordinate or scalar: 32

ASSUME DerAssumption ==
  /\ DerBits \in Nat \ {0} /\ MaxLenBytes \in Nat \ {0} /\ MaxExponent \in Nat
  /\ MinModulus \in Nat \ {0} /\ MaxModulus \in Nat /\ ScalarLen \in Nat \ {0}

High == 2 ^ (DerBits - 1)
INTEGER == 2
BIT_STRING == 3
NULL == 5
OID == 6
SEQUENCE == High + 1
RsaOid == <<1, 1>>
EcOid == <<1, 2>>
CurveOid == <<1, 3>>
Uncompressed == 4

Fail == [ok |-> FALSE]

Number(bytes) ==
  LET sum[i \in 0..Len(bytes)] ==
        IF i = 0 THEN 0 ELSE sum[i - 1] * 2 ^ DerBits + bytes[i]
  IN sum[Len(bytes)]

\* The last lines of tamga_der_read: `length` bytes from position `from`.
Take(data, from, length) ==
  IF Len(data) - from + 1 < length THEN Fail
  ELSE [ok |-> TRUE, tag |-> data[1], content |-> SubSeq(data, from, from + length - 1),
        rest |-> SubSeq(data, from + length, Len(data))]

\* tamga_der_read: the rest of the data is the reader's position.
DerRead(data) ==
  IF Len(data) < 2 \/ data[1] % High = High - 1 THEN Fail
  ELSE IF data[2] < High THEN Take(data, 3, data[2])
  ELSE LET count == data[2] - High
           length == Number(SubSeq(data, 3, 2 + count))
       IN IF count = 0 \/ count > MaxLenBytes \/ Len(data) - 2 < count THEN Fail
          ELSE IF data[3] = 0 \/ length < High THEN Fail
          ELSE Take(data, 3 + count, length)

\* A reader that fails makes its caller fail; otherwise the caller goes on
\* with what was read.  Whole: and nothing may follow it.
Then(read, Next(_)) == IF read.ok THEN Next(read) ELSE Fail
If(condition, read) == IF condition THEN read ELSE Fail
Whole(read) == Then(read, LAMBDA r : If(r.rest = <<>>, r))

\* tamga_der_expect
DerExpect(data, tag) == Then(DerRead(data), LAMBDA r : If(r.tag = tag, r))

\* tamga_der_read_unsigned: a zero in front only where a sign bit needs it.
DerReadUnsigned(data) ==
  Then(DerExpect(data, INTEGER), LAMBDA r :
    IF r.content = <<>> THEN Fail
    ELSE IF r.content[1] >= High THEN Fail
    ELSE IF r.content[1] # 0 \/ Len(r.content) = 1
         THEN [ok |-> TRUE, value |-> r.content, rest |-> r.rest]
    ELSE If(r.content[2] >= High,
            [ok |-> TRUE, value |-> Tail(r.content), rest |-> r.rest]))

\* tamga_der_read_bit_string: no unused bits.
DerReadBitString(data) ==
  Then(DerExpect(data, BIT_STRING), LAMBDA r :
    IF r.content = <<>> THEN Fail
    ELSE If(r.content[1] = 0, [ok |-> TRUE, value |-> Tail(r.content), rest |-> r.rest]))

\* tamga_der_expect_oid
DerExpectOid(data, oid) == Then(DerExpect(data, OID), LAMBDA r : If(r.content = oid, r))

-----------------------------------------------------------------------------
\* tamga_rsa_read_rsa_public_key
RsaPublicKey(der) ==
  Then(Whole(DerExpect(der, SEQUENCE)), LAMBDA seq :
    Then(DerReadUnsigned(seq.content), LAMBDA n :
      Then(Whole(DerReadUnsigned(n.rest)), LAMBDA e :
        If(/\ Len(n.value) >= MinModulus /\ Len(n.value) <= MaxModulus
           /\ n.value[1] >= High /\ Len(e.value) <= MaxExponent
           /\ e.value[Len(e.value)] % 2 = 1 /\ ~(Len(e.value) = 1 /\ e.value[1] <= 1),
           [ok |-> TRUE, modulus |-> n.value, exponent |-> e.value]))))

\* The parameters of rsaEncryption: an empty NULL or nothing.
RsaParameters(algorithm) ==
  \/ algorithm = <<>>
  \/ Then(Whole(DerExpect(algorithm, NULL)), LAMBDA r : If(r.content = <<>>, r)).ok

\* A bug to be caught: the algorithm of the key is not looked at.
RsaParseAnyAlgorithm(der) ==
  Then(Whole(DerExpect(der, SEQUENCE)), LAMBDA outer :
    IF outer.content # <<>> /\ outer.content[1] = INTEGER THEN RsaPublicKey(der)
    ELSE Then(DerExpect(outer.content, SEQUENCE), LAMBDA algorithm :
           Then(Whole(DerReadBitString(algorithm.rest)), LAMBDA bits :
             RsaPublicKey(bits.value))))

\* tamga_rsa_parse_public_key: PKCS#1, or the same inside a SubjectPublicKeyInfo.
RsaParsePublicKey(der) ==
  Then(Whole(DerExpect(der, SEQUENCE)), LAMBDA outer :
    IF outer.content # <<>> /\ outer.content[1] = INTEGER THEN RsaPublicKey(der)
    ELSE Then(DerExpect(outer.content, SEQUENCE), LAMBDA algorithm :
           Then(DerExpectOid(algorithm.content, RsaOid), LAMBDA oid :
             Then(Whole(DerReadBitString(algorithm.rest)), LAMBDA bits :
               IF RsaParameters(oid.rest) THEN RsaPublicKey(bits.value) ELSE Fail))))

-----------------------------------------------------------------------------
Point(p) ==
  IF Len(p) # 2 * ScalarLen + 1 THEN Fail
  ELSE IF p[1] # Uncompressed THEN Fail
  ELSE [ok |-> TRUE, x |-> Number(SubSeq(p, 2, ScalarLen + 1)),
        y |-> Number(SubSeq(p, ScalarLen + 2, Len(p)))]

\* tamga_ecdsa_extract_point: a bare point, or one whose algorithm and curve
\* are both named.
EcExtractPoint(key) ==
  IF Point(key).ok THEN Point(key)
  ELSE Then(Whole(DerExpect(key, SEQUENCE)), LAMBDA outer :
         Then(DerExpect(outer.content, SEQUENCE), LAMBDA algorithm :
           Then(DerExpectOid(algorithm.content, EcOid), LAMBDA oid :
             Then(Whole(DerExpectOid(oid.rest, CurveOid)), LAMBDA curve :
               Then(Whole(DerReadBitString(algorithm.rest)), LAMBDA bits :
                 Point(bits.value))))))

\* tamga_ecdsa_parse_signature with tamga_ecdsa_pad_scalar
EcParseSignature(signature) ==
  Then(Whole(DerExpect(signature, SEQUENCE)), LAMBDA outer :
    Then(DerReadUnsigned(outer.content), LAMBDA r :
      Then(Whole(DerReadUnsigned(r.rest)), LAMBDA s :
        If(Len(r.value) <= ScalarLen /\ Len(s.value) <= ScalarLen,
           [ok |-> TRUE, r |-> Number(r.value), s |-> Number(s.value)]))))
=============================================================================
