------------------------------- MODULE Crypto -------------------------------
(***************************************************************************)
(* The arithmetic and the parsers behind signature verification and file   *)
(* decryption, against reference definitions: the code's formulas on       *)
(* curves, fields and bytes small enough to try every operand.             *)
(***************************************************************************)
EXTENDS Inputs, Field25519, P256, Ed25519, Der, RsaPadding, Gcm, Hashing, FiniteSets

CONSTANTS
  MaxModLen,          \* bytes of a modulus given to Modexp
  Exponents, ExpLens, \* its exponents, and the bytes they are said to have
  FieldOperands,      \* right operands of field operations
  Scales,             \* z coordinates of projective points
  Digests, Scalars,   \* of ECDSA: digests, and what r and s are taken from
  Hashes,             \* numbers the hash of R, A and the message makes
  DerBytes, MaxHeader, Fillers,   \* bytes in front of a DER element, and after
  Integers4,          \* contents of DER integers
  MaxBlock,           \* bytes of a padded RSA block
  MaxChunk, MaxChunks,  \* bytes given to a hash at a time, and times
  MaxAad, MaxText     \* bits of additional data and of a plaintext

SeqOf(S, max) == UNION {[1..n -> S] : n \in 0..max}

-----------------------------------------------------------------------------
(* References for numbers modulo a prime and for the two groups, by search. *)

Over(a, b, m) == CHOOSE x \in 0..m - 1 : (x * b - a) % m = 0

Weierstrass == {<<x, y>> \in (0..Prime - 1) \X (0..Prime - 1) :
                  (y * y - (x * x * x - 3 * x + CurveB)) % Prime = 0}
Origin == <<>>
\* The chord and tangent law.
Chord(a, b) ==
  IF a = Origin THEN b ELSE IF b = Origin THEN a
  ELSE IF a[1] = b[1] /\ (a[2] + b[2]) % Prime = 0 THEN Origin
  ELSE LET slope == IF a = b THEN Over(3 * a[1] * a[1] - 3, 2 * a[2], Prime)
                    ELSE Over(b[2] - a[2], b[1] - a[1], Prime)
           x == (slope * slope - a[1] - b[1]) % Prime
       IN <<x, (slope * (a[1] - x) - a[2]) % Prime>>
Multiples ==
  LET times[k \in 0..Order] == IF k = 0 THEN Origin ELSE Chord(times[k - 1], <<Gx, Gy>>)
  IN times
\* The affine point a Jacobian one stands for.
Jacobian(a, z) == [x |-> (a[1] * z * z) % Prime, y |-> (a[2] * z * z * z) % Prime, z |-> z]
Affine(p) ==
  IF p.z = 0 THEN Origin
  ELSE <<Over(p.x, p.z * p.z, Prime), Over(p.y, p.z * p.z * p.z, Prime)>>
JacobianPoints == {Jacobian(a, z) : a \in Weierstrass, z \in Scales} \cup {Infinity}

Edwards == {<<x, y>> \in (0..Q - 1) \X (0..Q - 1) :
              (y * y - x * x - 1 - D * x * x * y * y) % Q = 0}
\* The affine law, complete because D is no square.
Sum(a, b) ==
  LET k == D * a[1] * b[1] * a[2] * b[2]
  IN <<Over(a[1] * b[2] + b[1] * a[2], 1 + k, Q), Over(a[2] * b[2] + a[1] * b[1], 1 - k, Q)>>
SumTable == [ab \in Edwards \X Edwards |-> Sum(ab[1], ab[2])]
TimesPoint(a, n) ==
  LET times[i \in 0..n] == IF i = 0 THEN <<0, 1>> ELSE LET t == times[i - 1] IN SumTable[<<t, a>>]
  IN times[n]
Extended(a, z) ==
  [x |-> (a[1] * z) % Q, y |-> (a[2] * z) % Q, z |-> z, t |-> (a[1] * a[2] * z) % Q]
Stands(p, a) == /\ p.z # 0 /\ (p.x - a[1] * p.z) % Q = 0 /\ (p.y - a[2] * p.z) % Q = 0
                /\ (p.t - a[1] * a[2] * p.z) % Q = 0
Encoding(a) == a[2] + 2 ^ YBits * (a[1] % 2)
Decodes(bytes, a) ==
  a[2] = (bytes % 2 ^ YBits) % Q /\ a[1] % 2 = bytes \div 2 ^ YBits
Generator == CHOOSE a \in Edwards : Encoding(a) = BaseY

-----------------------------------------------------------------------------
(* References for DER: the one encoding of an element, and what is built of *)
(* elements.  `stray` names the place where a byte too many is put.         *)

Header(tag, n) ==
  <<tag>> \o (CASE n < High -> <<n>>
                [] n >= High /\ n < 2 * High -> <<High + 1, n>>
                [] n >= 2 * High -> <<High + 2, n \div (2 * High), n % (2 * High)>>)
Tlv(tag, content) == Header(tag, Len(content)) \o content
At(place, stray) == IF place = stray THEN <<0>> ELSE <<>>
Places == {"none", "end", "inner", "algorithm", "bits", "key"}

AlgorithmPart(c) == Tlv(SEQUENCE, Tlv(OID, c.oid) \o c.params \o At("algorithm", c.stray))
BitsPart(c, content) ==
  Tlv(BIT_STRING, <<IF c.stray = "bits" THEN 1 ELSE 0>> \o content)
Wrapped(c, content) ==
  Tlv(SEQUENCE, AlgorithmPart(c) \o BitsPart(c, content) \o At("inner", c.stray))
    \o At("end", c.stray)
KeyPair(c) == Tlv(SEQUENCE, Tlv(INTEGER, c.n) \o Tlv(INTEGER, c.e) \o At("key", c.stray))

\* Contents of an INTEGER that are minimal and not negative, and their bytes.
Unsigned(c) ==
  c # <<>> /\ c[1] < High /\ (c[1] = 0 /\ Len(c) > 1 => c[2] >= High)
Magnitude(c) == IF Len(c) > 1 /\ c[1] = 0 THEN Tail(c) ELSE c
GoodModulus(c) ==
  /\ Unsigned(c) /\ Len(Magnitude(c)) \in MinModulus..MaxModulus /\ Magnitude(c)[1] >= High
GoodExponent(c) ==
  Unsigned(c) /\ Len(Magnitude(c)) <= MaxExponent /\ Number(c) % 2 = 1 /\ Number(c) > 1

ParamsOf == {<<>>, Tlv(NULL, <<>>), Tlv(NULL, <<0>>), Tlv(OID, CurveOid), Tlv(OID, EcOid)}
Cases ==
  [wrapped : BOOLEAN, oid : {RsaOid, EcOid}, params : ParamsOf, stray : Places,
   n : Integers4, e : Integers4]

-----------------------------------------------------------------------------
GiveMontgomery ==
  \E n \in 1..2 : \E m \in {x \in 2 ^ (W * n - 1)..2 ^ (W * n) - 1 : x % 2 = 1} :
    Start("montgomery", [n : {n}, m : {m}, a : 0..m - 1, b : 0..m - 1])
GiveModexp ==
  \E len \in 0..MaxModLen :
    Start("modexp", [len : {len}, m : 0..2 ^ len - 1, base : 0..2 ^ len - 1,
                    e : Exponents, expLen : ExpLens])
GiveField == Start("field", [a : 0..P - 1, b : FieldOperands])
GiveBytes == Start("bytes", 0..B ^ N - 1)
GivePoints == Start("points", JacobianPoints \X JacobianPoints)
GiveEcdsa ==
  \/ Start("ecdsa", [x : 0..2 ^ Bits - 1, y : 0..2 ^ Bits - 1, digest : {3}, r : {7}, s : {11}])
  \/ \E key \in Weierstrass :
       Start("ecdsa", [x : {key[1]}, y : {key[2]}, digest : Digests, r : Scalars, s : Scalars])
GiveEdwards == Start("edwards", Edwards \X Edwards \X Scales \X Scales)
GiveKey == Start("eddsa", [a : 0..2 ^ (YBits + 1) - 1, s : 0..2 ^ ScalarBits - 1, hash : Hashes])
GiveDer ==
  Start("der", {head \o [i \in 1..n |-> 0] : head \in SeqOf(DerBytes, MaxHeader), n \in Fillers})
GiveRsaKey == Start("rsa", {c \in Cases : c.stray # "none" => Unsigned(c.n) /\ Unsigned(c.e)})
GiveEcKey == Start("ec", {c \in Cases : c.e = <<1>>})
GiveSignature == Start("signature", {c \in Cases : ~c.wrapped /\ c.params = <<>> /\ c.oid = EcOid})
GiveBlock == Start("block", [em : SeqOf(0..ByteMax, MaxBlock), digest : {1, 2}])
GiveGf == Start("gf", [1..GcmBits -> 0..1] \X [1..GcmBits -> 0..1])
GiveText ==
  Start("gcm", [key : 0..1, nonce : 0..1, aad : SeqOf(0..1, MaxAad), text : SeqOf(0..1, MaxText)])
GiveChunks == Start("hash", [alg : DOMAIN HashBlock, chunks : SeqOf(0..MaxChunk, MaxChunks)])

Operands ==
  \/ GiveMontgomery \/ GiveModexp \/ GiveField \/ GiveBytes \/ GivePoints \/ GiveEcdsa
  \/ GiveEdwards \/ GiveKey \/ GiveDer \/ GiveRsaKey \/ GiveEcKey \/ GiveSignature
  \/ GiveBlock \/ GiveGf \/ GiveText \/ GiveChunks

-----------------------------------------------------------------------------
\* tamga_bn_mont_mul gives a * b / B^n modulo m, below m, for every odd modulus
\* that fills its limbs, whatever is carried out of the top limb on the way.
MontExact ==
  kind = "montgomery" =>
    LET r == Value(MontMul(ToLimbs(in.a, in.n), ToLimbs(in.b, in.n), ToLimbs(in.m, in.n)))
    IN r < in.m /\ (r * B ^ in.n - in.a * in.b) % in.m = 0

PowerMod(b, e, m) ==
  LET p[i \in 0..e] == IF i = 0 THEN 1 % m ELSE LET q == p[i - 1] IN (q * b) % m IN p[e]

\* What bn.h:38-40 and rsa.h:21-23 say: an odd modulus of any length in range
\* (RSA's are all longer than a limb) that has its top bit set is not refused,
\* whatever the base below it.  One whose bytes do not fill its limbs is: its
\* top bit is not that of the top limb, which bn.c:200 looks at.
ModexpTotal ==
  kind = "modexp" /\ in.len > LimbBytes /\ in.m >= 2 ^ (in.len - 1) /\ in.m % 2 = 1
    /\ in.base < in.m /\ in.e > 0 /\ in.expLen \in 1..in.len =>
      Modexp(in.base, in.m, in.len, in.e, in.expLen) # -1

\* tamga_bn_modexp computes the power, or refuses: what it refuses is an even
\* modulus, one whose top bit is clear, a base at or above it, an exponent of
\* zero or longer than it; and, which the headers do not say, a modulus whose
\* length is no multiple of a limb's.
ModexpExact ==
  kind = "modexp" =>
    LET good == /\ in.len > 0 /\ in.len % LimbBytes = 0 /\ in.m >= 2 ^ (in.len - 1)
                /\ in.m % 2 = 1 /\ in.base < in.m /\ in.e > 0
                /\ in.expLen > 0 /\ in.expLen <= in.len
    IN Modexp(in.base, in.m, in.len, in.e, in.expLen)
         = IF good THEN PowerMod(in.base, in.e, in.m) ELSE -1

\* Every result of fe25519.c is the right one and fully reduced, also where
\* folding a carry into the low limb carries out of the top one again.
FieldExact ==
  /\ kind = "field" =>
       LET a == ToLimbs(in.a, N)
           b == ToLimbs(in.b, N)
       IN /\ Value(FeAdd(a, b)) = (in.a + in.b) % P
          /\ Value(FeSub(a, b)) = (in.a - in.b) % P
          /\ Value(FeMul(a, b)) = (in.a * in.b) % P
  /\ kind = "bytes" =>
       Value(FeFromBytes(ToLimbs(in, N))) = (in % 2 ^ (W * N - 1)) % P

\* Adding in Jacobian coordinates is the chord and tangent law for every pair
\* of points in every representation: equal points, opposite ones, infinity.
JacobianExact ==
  kind = "points" =>
    /\ Affine(PointAdd(in[1], in[2])) = Chord(Affine(in[1]), Affine(in[2]))
    /\ Affine(PointDouble(in[1])) = Chord(Affine(in[1]), Affine(in[1]))

\* A signature is accepted exactly if whoever knows the key's logarithm could
\* have made it with some nonce.  The key must be a point of the curve with
\* reduced coordinates, r and s in range; the x of the nonce's point counts
\* modulo the order, which the largest x exceed.
EcdsaExact ==
  kind = "ecdsa" =>
    P256Verify(in.x, in.y, in.digest, in.r, in.s)
      = \E d \in 1..Order - 1 :
          /\ Multiples[d] = <<in.x, in.y>>
          /\ in.r \in 1..Order - 1 /\ in.s \in 1..Order - 1
          /\ \E k \in 1..Order - 1 : /\ Multiples[k][1] % Order = in.r
                                     /\ (in.s * k - in.digest - in.r * d) % Order = 0

\* tamga_ge_add is the Edwards law for every pair of points, doublings, the
\* identity and points of small order included: the code adds without looking.
EdwardsComplete ==
  kind = "edwards" =>
    Stands(GeAdd(Extended(in[1], in[3]), Extended(in[2], in[4])), SumTable[<<in[1], in[2]>>])

\* A key decodes to the point with that y and that parity of x, if there is
\* one; an encoding of y plus the prime is reduced, not refused.
DecodeExact ==
  kind = "eddsa" =>
    LET read == GeDecompress(in.a)
    IN /\ read.ok = \E a \in Edwards : Decodes(in.a, a)
       /\ read.ok => \E a \in Edwards : Decodes(in.a, a) /\ Stands(read.point, a)

\* For a key that decodes and a scalar below the order exactly one encoding of
\* R is accepted, the canonical one of S B - k A; for any other key or scalar
\* none is, so S + L never passes for S, nor an alias of R for R.
EddsaExact ==
  kind = "eddsa" =>
    \A r \in {Recomputed(in.a, in.s, in.hash), 0, 1, Q, Q + 1, 2 ^ YBits + 1} :
      Ed25519Verify(in.a, r, in.s, in.hash)
        = \E a \in Edwards :
            /\ Decodes(in.a, a) /\ in.s < L
            /\ r = Encoding(SumTable[<<TimesPoint(Generator, in.s),
                                       TimesPoint(<<(Q - a[1]) % Q, a[2]>>, in.hash % L)>>])

\* tamga_der_read accepts an element in its one shortest encoding, all of
\* whose content is there, and leaves the reader just behind it.
DerExact ==
  kind = "der" =>
    LET read == DerRead(in)
        fits(n) == LET h == Header(in[1], n)
                   IN Len(h) + n <= Len(in) /\ SubSeq(in, 1, Len(h)) = h
    IN IF in # <<>> /\ in[1] % High # High - 1 /\ \E n \in 0..Len(in) : fits(n)
       THEN LET n == CHOOSE k \in 0..Len(in) : fits(k)
                h == Len(Header(in[1], n))
            IN read = [ok |-> TRUE, tag |-> in[1], content |-> SubSeq(in, h + 1, h + n),
                       rest |-> SubSeq(in, h + n + 1, Len(in))]
       ELSE ~read.ok

\* Every RSA key has one PKCS#1 encoding and two wrapped ones (parameters NULL
\* or absent) and those are what is accepted; no byte may be left over at any
\* level, no integer be padded or negative, no other algorithm be named.
RsaKeyExact ==
  kind = "rsa" =>
    LET read == RsaParsePublicKey(IF in.wrapped THEN Wrapped(in, KeyPair(in))
                                  ELSE KeyPair(in) \o At("end", in.stray))
        sound == /\ GoodModulus(in.n) /\ GoodExponent(in.e)
                 /\ in.stray = "none" \/ (~in.wrapped /\ in.stray \notin {"end", "key"})
                 /\ in.wrapped => in.oid = RsaOid /\ in.params \in {<<>>, Tlv(NULL, <<>>)}
    IN /\ read.ok = sound
       /\ sound => read.modulus = Magnitude(in.n) /\ read.exponent = Magnitude(in.e)

\* A P-256 key is the bare uncompressed point, or that point in a wrapping that
\* names both the algorithm and the curve; the signature a pair of minimal
\* integers no wider than a scalar, and nothing around them.
EcKeyExact ==
  /\ kind = "ec" =>
       LET read == EcExtractPoint(IF in.wrapped THEN Wrapped(in, in.n)
                                  ELSE in.n \o At("end", in.stray))
           sound == /\ Len(in.n) = 2 * ScalarLen + 1 /\ in.n[1] = Uncompressed
                    /\ in.stray = IF in.wrapped /\ in.stray = "key" THEN "key"
                                  ELSE IF ~in.wrapped /\ in.stray # "end" THEN in.stray
                                  ELSE "none"
                    /\ in.wrapped => in.oid = EcOid /\ in.params = Tlv(OID, CurveOid)
       IN /\ read.ok = sound
          /\ sound => read.x = Number(SubSeq(in.n, 2, ScalarLen + 1))
                        /\ read.y = Number(SubSeq(in.n, ScalarLen + 2, Len(in.n)))
  /\ kind = "signature" =>
       LET read == EcParseSignature(KeyPair(in) \o At("end", in.stray))
           sound == /\ Unsigned(in.n) /\ Unsigned(in.e) /\ in.stray \notin {"end", "key"}
                    /\ Len(Magnitude(in.n)) <= ScalarLen /\ Len(Magnitude(in.e)) <= ScalarLen
       IN /\ read.ok = sound
          /\ sound => read.r = Number(in.n) /\ read.s = Number(in.e)

\* What PKCS#1 v2.2 has a signer encode for a digest and a salt.
PssEncoded(digest, salt, len) ==
  LET h == Digest(digest, salt)
      db == [i \in 1..len - 2 |-> IF i = len - 2 THEN salt ELSE IF i = len - 3 THEN 1 ELSE 0]
      masked == [i \in 1..len - 2 |-> Xor(db[i], Mask(h, i))]
  IN [masked EXCEPT ![1] = @ % 2] \o <<h, Trailer>>

\* A PSS block is accepted exactly if a signer could have encoded it with some
\* salt; a PKCS#1 v1.5 block if it is the one encoding of the digest, with all
\* of the padding its length leaves room for.
PaddingExact ==
  kind = "block" =>
    LET n == Len(in.em)
    IN /\ PssVerify(in.em, in.digest)
            = (n >= 4 /\ \E salt \in 0..ByteMax : in.em = PssEncoded(in.digest, salt, n))
       /\ Pkcs1Verify(in.em, in.digest)
            = \E k \in MinPadding..MaxBlock :
                in.em = <<0, 1>> \o [i \in 1..k |-> ByteMax] \o <<0, InfoPrefix, in.digest>>

\* However a message is cut into updates, the compression function sees the
\* message, the mark, as few zeros as fill the last block, and the length: no
\* byte twice, none lost, and nothing of an earlier block left in a later one.
StreamExact ==
  kind = "hash" =>
    LET size == HashBlock[in.alg]
        upto[k \in 0..Len(in.chunks)] == IF k = 0 THEN 0 ELSE upto[k - 1] + in.chunks[k]
        total == upto[Len(in.chunks)]
        context[k \in 0..Len(in.chunks)] ==
          IF k = 0 THEN HashInit(in.alg)
          ELSE LET before == context[k - 1]
               IN Update(before, [i \in 1..in.chunks[k] |-> upto[k - 1] + i])
        blocks == Final(context[Len(in.chunks)])
        count == (total + 1 + LengthRoom[in.alg] + size - 1) \div size
        seen(i) == blocks[((i - 1) \div size) + 1][((i - 1) % size) + 1]
    IN /\ Len(blocks) = count
       /\ \A i \in 1..count * size :
            seen(i) = CASE i <= total -> i
                        [] i = total + 1 -> Mark
                        [] i > total + 1 /\ i <= count * size - LengthBytes -> 0
                        [] i > count * size - LengthBytes ->
                             LengthField(total)[i - (count * size - LengthBytes)]

-----------------------------------------------------------------------------
\* The product of polynomials, reduced from the top.
Carryless(x, y) ==
  LET bit(i) == LET pairs == {<<j, k>> \in (1..GcmBits) \X (1..GcmBits) : j + k - 1 = i}
                    ones == {jk \in pairs : x[jk[1]] = 1 /\ y[jk[2]] = 1}
                IN Cardinality(ones) % 2
      product == [i \in 1..2 * GcmBits - 1 |-> bit(i)]
      reduced[top \in GcmBits..2 * GcmBits - 1] ==
        IF top = 2 * GcmBits - 1 THEN product
        ELSE LET above == reduced[top + 1]
             IN [i \in 1..2 * GcmBits - 1 |->
                   IF above[top + 1] = 1 /\ i \in top - GcmBits + 1..top
                   THEN (above[i] + Polynomial[i - (top - GcmBits)]) % 2 ELSE above[i]]
  IN SubSeq(reduced[GcmBits], 1, GcmBits)

\* tamga_gcm_gf_mul multiplies in the field of GCM, whose elements have their
\* bits the other way round.
GfExact == kind = "gf" => GfMul(in[1], in[2]) = Carryless(in[1], in[2])

\* What was sealed opens to itself, the last block being short or not; changed
\* in its additional data, its text or the split between the two it does not,
\* and then nothing that was decrypted is left for the caller.
GcmExact ==
  kind = "gcm" =>
    LET box == GcmSeal(in.key, in.nonce, in.aad, in.text)
    IN /\ GcmOpen(in.key, in.nonce, in.aad, box)
            = [ok |-> TRUE, out |-> in.text, len |-> Len(in.text)]
       /\ \A aad \in SeqOf(0..1, MaxAad), ct \in SeqOf(0..1, MaxText) :
            LET opened == GcmOpen(in.key, in.nonce, aad, [box EXCEPT !.ct = ct])
            IN aad # in.aad \/ ct # box.ct =>
                 /\ ~opened.ok /\ opened.len = 0
                 /\ \A i \in DOMAIN opened.out : opened.out[i] = 0

-----------------------------------------------------------------------------
\* Arithmetic on limbs and on field elements gives the number it stands for,
\* reduced, for every operand: no carry and no top bit is lost.
ArithmeticExact == MontExact /\ ModexpExact /\ FieldExact /\ GfExact

\* The point formulas are the group law, exceptional points included, and both
\* verifications accept exactly the signatures of their equation.
CurvesExact ==
  JacobianExact /\ EcdsaExact /\ EdwardsComplete /\ DecodeExact /\ EddsaExact

\* Keys, signatures and padded blocks have one encoding each, and nothing else
\* is accepted.
EncodingsExact == DerExact /\ RsaKeyExact /\ EcKeyExact /\ PaddingExact

\* Hashing sees each byte once however a message is cut up; what GCM sealed
\* opens to itself, and what was changed leaves nothing decrypted behind.
StreamsExact == StreamExact /\ GcmExact
=============================================================================
