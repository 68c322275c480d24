------------------------------ MODULE Ed25519 ------------------------------
(* src/src/crypto/ed25519.c: verification on -x^2 + y^2 = 1 + d x^2 y^2 in    *)
(* extended coordinates.  Field values are numbers below the prime            *)
(* (Field25519 has their arithmetic); an encoding is y with the sign of x in  *)
(* the bit above, and `hash` the number SHA-512 of R, A and the message makes.*)
EXTENDS Integers, Sequences

CONSTANTS
  Q,          \* the prime 2^255 - 19
  YBits,      \* 255
  D,          \* the curve constant
  SqrtM1,     \* the square root of -1
  L,          \* the order of the base point
  BaseY,      \* the y of the base point, whose x is even
  ScalarBits  \* 256: of S

ASSUME EdAssumption ==
  /\ Q \in 2 ^ (YBits - 1)..2 ^ YBits - 1 /\ Q % 8 = 5 /\ (SqrtM1 * SqrtM1 + 1) % Q = 0
  /\ L \in 2..2 ^ ScalarBits - 1 /\ D \in 0..Q - 1 /\ BaseY \in 0..Q - 1

Plus(a, b) == (a + b) % Q
Minus(a, b) == (a - b) % Q
Times(a, b) == (a * b) % Q

\* tamga_fe_pow, from the top bit of the exponent.
Power(a, e) ==
  LET power[i \in 0..YBits] ==
        IF i = YBits THEN 1
        ELSE LET above == power[i + 1]
                 square == Times(above, above)
             IN IF (e \div 2 ^ i) % 2 = 1 THEN Times(square, a) ELSE square
  IN power[0]
\* tamga_fe_invert, tamga_fe_pow_p58
Invert(a) == Power(a, Q - 2)
PowP58(a) == Power(a, (Q - 5) \div 8)

\* tamga_sc_is_canonical
IsCanonical(s) == s < L

\* tamga_sc_reduce512: long division, a bit at a time, of 2 * ScalarBits bits.
ScReduce(in) ==
  LET rem[i \in 0..2 * ScalarBits] ==
        IF i = 2 * ScalarBits THEN 0
        ELSE LET shifted == (2 * rem[i + 1] + ((in \div 2 ^ i) % 2)) % 2 ^ ScalarBits
             IN IF shifted >= L THEN shifted - L ELSE shifted
  IN rem[0]

GeIdentity == [x |-> 0, y |-> 1, z |-> 1, t |-> 0]
GeNeg(a) == [a EXCEPT !.x = Minus(0, a.x), !.t = Minus(0, a.t)]

\* tamga_ge_add, which is also tamga_ge_double
GeAdd(p, q) ==
  LET a == Times(Minus(p.y, p.x), Minus(q.y, q.x))
      b == Times(Plus(p.y, p.x), Plus(q.y, q.x))
      c == Times(Times(p.t, q.t), Plus(D, D))
      d == Plus(Times(p.z, q.z), Times(p.z, q.z))
      e == Minus(b, a)
      f == Minus(d, c)
      g == Plus(d, c)
      h == Plus(b, a)
  IN [x |-> Times(e, f), y |-> Times(g, h), t |-> Times(e, h), z |-> Times(f, g)]

\* tamga_ge_compress
GeCompress(p) ==
  LET inverse == Invert(p.z)
  IN Times(p.y, inverse) + 2 ^ YBits * (Times(p.x, inverse) % 2)

NoPoint == [ok |-> FALSE, point |-> GeIdentity]

\* tamga_ge_decompress; tamga_fe_from_bytes reduces y.
GeDecompress(in) ==
  LET sign == in \div 2 ^ YBits
      y == (in % 2 ^ YBits) % Q
      u == Minus(Times(y, y), 1)
      v == Plus(Times(Times(y, y), D), 1)
      v3 == Times(Times(v, v), v)
      root == Times(Times(PowP58(Times(Times(Times(v3, v3), v), u)), v3), u)
      vxx == Times(Times(root, root), v)
      x == IF vxx = u THEN root ELSE Times(root, SqrtM1)
      signed == IF x % 2 # sign THEN Minus(0, x) ELSE x
  IN IF (vxx # u /\ Plus(vxx, u) # 0) \/ (x = 0 /\ sign = 1) THEN NoPoint
     ELSE [ok |-> TRUE, point |-> [x |-> signed, y |-> y, z |-> 1, t |-> Times(signed, y)]]

\* tamga_ge_scalarmul
GeScalarMul(p, scalar) ==
  LET acc[i \in 0..ScalarBits] ==
        IF i = ScalarBits THEN GeIdentity
        ELSE LET above == acc[i + 1]
                 doubled == GeAdd(above, above)
             IN IF (scalar \div 2 ^ i) % 2 = 1 THEN GeAdd(doubled, p) ELSE doubled
  IN acc[0]

\* R' = [S]B - [k]A, compressed
Recomputed(a, s, hash) ==
  GeCompress(GeAdd(GeScalarMul(GeDecompress(BaseY).point, s),
                   GeScalarMul(GeNeg(GeDecompress(a).point), ScReduce(hash))))

\* tamga_ed25519_verify
Ed25519Verify(a, r, s, hash) ==
  /\ IsCanonical(s) /\ GeDecompress(a).ok /\ GeDecompress(BaseY).ok
  /\ Recomputed(a, s, hash) = r
=============================================================================
