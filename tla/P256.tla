-------------------------------- MODULE P256 --------------------------------
(* src/src/crypto/p256.c: ECDSA verification on y^2 = x^3 - 3x + b in         *)
(* Jacobian coordinates, z = 0 being the point at infinity.  Field values are *)
(* the numbers the code's Montgomery residues stand for.                      *)
EXTENDS Integers, Sequences

CONSTANTS
  Prime, Order,    \* p and n, both with the top bit of Bits bits set
  CurveB,          \* b
  Gx, Gy,          \* the base point
  Bits             \* 256

ASSUME P256Assumption ==
  /\ Prime \in 2 ^ (Bits - 1)..2 ^ Bits - 1 /\ Order \in 2 ^ (Bits - 1)..2 ^ Bits - 1
  /\ Gx \in 0..Prime - 1 /\ Gy \in 0..Prime - 1

Bit(k, i) == (k \div 2 ^ i) % 2

\* p256_mod_add, p256_mod_sub: one subtraction or addition of the modulus.
ModAdd(a, b) == IF a + b >= Prime THEN a + b - Prime ELSE a + b
ModSub(a, b) == IF a < b THEN a - b + Prime ELSE a - b
\* p256_mont_mul between field values
Mul(a, b) == (a * b) % Prime

\* p256_mont_inv: a^(m - 2), all bits from the top.
Inverse(a, m) ==
  LET power[i \in 0..Bits] ==
        IF i = Bits THEN 1
        ELSE LET above == power[i + 1]
                 square == (above * above) % m
             IN IF Bit(m - 2, i) = 1 THEN (square * a) % m ELSE square
  IN power[0]

Infinity == [x |-> 0, y |-> 0, z |-> 0]

\* p256_point_double, for a = -3
PointDouble(p) ==
  IF p.z = 0 THEN Infinity
  ELSE LET delta == Mul(p.z, p.z)
           gamma == Mul(p.y, p.y)
           beta == Mul(p.x, gamma)
           slope == Mul(ModSub(p.x, delta), ModAdd(p.x, delta))
           alpha == ModAdd(ModAdd(slope, slope), slope)
           beta2 == ModAdd(beta, beta)
           beta4 == ModAdd(beta2, beta2)
           x == ModSub(ModSub(Mul(alpha, alpha), beta4), beta4)
           yz == ModAdd(p.y, p.z)
           z == ModSub(ModSub(Mul(yz, yz), gamma), delta)
           twice(v) == ModAdd(v, v)
           y == ModSub(Mul(alpha, ModSub(beta4, x)), twice(twice(twice(Mul(gamma, gamma)))))
       IN [x |-> x, y |-> y, z |-> z]

\* The general case of p256_point_add: different x.
ChordAdd(p, q, u1, s1, h, slope) ==
  LET twice(v) == ModAdd(v, v)
      i == Mul(twice(h), twice(h))
      j == Mul(h, i)
      rr == twice(slope)
      v == Mul(u1, i)
      x == ModSub(ModSub(ModSub(Mul(rr, rr), j), v), v)
      y == ModSub(Mul(rr, ModSub(v, x)), twice(Mul(s1, j)))
      zz == ModAdd(p.z, q.z)
      z == Mul(ModSub(ModSub(Mul(zz, zz), Mul(p.z, p.z)), Mul(q.z, q.z)), h)
  IN [x |-> x, y |-> y, z |-> z]

\* A bug to be caught: the sum of a point and itself is not told apart.
PointAddChordOnly(p, q) ==
  IF p.z = 0 THEN q ELSE IF q.z = 0 THEN p
  ELSE LET u1 == Mul(p.x, Mul(q.z, q.z))
           s1 == Mul(Mul(p.y, q.z), Mul(q.z, q.z))
       IN ChordAdd(p, q, u1, s1, ModSub(Mul(q.x, Mul(p.z, p.z)), u1),
                   ModSub(Mul(Mul(q.y, p.z), Mul(p.z, p.z)), s1))

\* p256_point_add
PointAdd(p, q) ==
  IF p.z = 0 THEN q ELSE IF q.z = 0 THEN p
  ELSE LET z1z1 == Mul(p.z, p.z)
           z2z2 == Mul(q.z, q.z)
           u1 == Mul(p.x, z2z2)
           s1 == Mul(Mul(p.y, q.z), z2z2)
           h == ModSub(Mul(q.x, z1z1), u1)
           slope == ModSub(Mul(Mul(q.y, p.z), z1z1), s1)
       IN IF h # 0 THEN ChordAdd(p, q, u1, s1, h, slope)
          ELSE IF slope = 0 THEN PointDouble(p) ELSE Infinity

\* p256_double_scalar_mul: both scalars at once, from the top bit.
DoubleScalarMul(k1, p1, k2, p2) ==
  LET both == PointAdd(p1, p2)
      acc[i \in 0..Bits] ==
        IF i = Bits THEN Infinity
        ELSE LET doubled == PointDouble(acc[i + 1])
             IN CASE Bit(k1, i) = 1 /\ Bit(k2, i) = 1 -> PointAdd(doubled, both)
                  [] Bit(k1, i) = 1 /\ Bit(k2, i) = 0 -> PointAdd(doubled, p1)
                  [] Bit(k1, i) = 0 /\ Bit(k2, i) = 1 -> PointAdd(doubled, p2)
                  [] OTHER -> doubled
  IN acc[0]

\* p256_point_is_on_curve
IsOnCurve(x, y) ==
  Mul(y, y) = ModAdd(ModSub(Mul(Mul(x, x), x), ModAdd(ModAdd(x, x), x)), CurveB)

\* The comparison with r, after one subtraction of n.
MatchesR(x, r) == (IF x >= Order THEN x - Order ELSE x) = r

\* tamga_p256_verify
P256Verify(x, y, digest, r, s) ==
  /\ x < Prime /\ y < Prime /\ IsOnCurve(x, y) /\ ~(x = 0 /\ y = 0)
  /\ r \in 1..Order - 1 /\ s \in 1..Order - 1
  /\ LET e == IF digest >= Order THEN digest - Order ELSE digest
         w == Inverse(s, Order)
         point == DoubleScalarMul((e * w) % Order, [x |-> Gx, y |-> Gy, z |-> 1],
                                  (r * w) % Order, [x |-> x, y |-> y, z |-> 1])
     IN /\ point.z # 0
        /\ MatchesR(Mul(point.x, Inverse(Mul(point.z, point.z), Prime)), r)
=============================================================================
