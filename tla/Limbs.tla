------------------------------- MODULE Limbs -------------------------------
(***************************************************************************)
(* Multi-precision arithmetic as src/src/crypto/bn.c does it (and p256.c,  *)
(* which repeats it for 256 bits): a number is a sequence of limbs of W    *)
(* bits, the least significant one first.  The code has W = 32; sums and   *)
(* products are 64 bits wide there and fit, as they do here.               *)
(***************************************************************************)
EXTENDS Integers, Sequences

CONSTANTS
  W,             \* bits of a limb
  LimbBytes,     \* bytes of a limb: 4
  NewtonSteps    \* 5, which is enough for 32 bits

ASSUME LimbsAssumption ==
  /\ W \in Nat \ {0} /\ LimbBytes \in Nat \ {0} /\ NewtonSteps \in Nat
  /\ W % LimbBytes = 0 /\ 2 ^ NewtonSteps >= W

B == 2 ^ W

Value(x) ==
  LET sum[i \in 0..Len(x)] == IF i = 0 THEN 0 ELSE sum[i - 1] + x[i] * B ^ (i - 1)
  IN sum[Len(x)]

\* tamga_bn_from_be and tamga_bn_to_be, of a number below B^n.
ToLimbs(v, n) == [i \in 1..n |-> (v \div B ^ (i - 1)) % B]

\* tamga_bn_limbs_for
LimbsFor(bytes) == (bytes + LimbBytes - 1) \div LimbBytes

\* tamga_bn_cmp, from the top: a >= b.
AtLeast(a, b) ==
  LET differ == {i \in 1..Len(b) : a[i] # b[i]}
  IN \/ differ = {}
     \/ \E i \in differ : a[i] > b[i] /\ \A j \in differ : j <= i

\* tamga_bn_sub: the borrow runs up the limbs.
SubRaw(a, b) ==
  LET upto[i \in 0..Len(b)] ==
        IF i = 0 THEN [r |-> <<>>, borrow |-> 0]
        ELSE LET below == upto[i - 1]
                 diff == a[i] - b[i] - below.borrow
             IN [r |-> Append(below.r, diff % B), borrow |-> IF diff < 0 THEN 1 ELSE 0]
  IN upto[Len(b)]

\* p256_add_raw
AddRaw(a, b) ==
  LET upto[i \in 0..Len(b)] ==
        IF i = 0 THEN [r |-> <<>>, carry |-> 0]
        ELSE LET below == upto[i - 1]
                 sum == a[i] + b[i] + below.carry
             IN [r |-> Append(below.r, sum % B), carry |-> sum \div B]
  IN upto[Len(b)]

\* tamga_bn_double_mod: one bit to the left, then at most one subtraction.
DoubleMod(v, m) ==
  LET n == Len(m)
      high(i) == v[i] \div (B \div 2)
      shifted == [i \in 1..n |-> ((2 * v[i]) % B) + (IF i = 1 THEN 0 ELSE high(i - 1))]
  IN IF high(n) # 0 \/ AtLeast(shifted, m) THEN SubRaw(shifted, m).r ELSE shifted

\* tamga_bn_n0inv: every step doubles the number of bits that are right.
N0inv(m0) ==
  LET inverse[i \in 0..NewtonSteps] ==
        IF i = 0 THEN 1
        ELSE LET before == inverse[i - 1] IN (before * (2 - m0 * before)) % B
  IN (-inverse[NewtonSteps]) % B

\* t + x * k, limb by limb: both inner loops of tamga_bn_mont_mul.
MulAdd(t, x, k) ==
  LET upto[j \in 0..Len(x)] ==
        IF j = 0 THEN [r |-> <<>>, carry |-> 0]
        ELSE LET below == upto[j - 1]
                 product == t[j] + x[j] * k + below.carry
             IN [r |-> Append(below.r, product % B), carry |-> product \div B]
  IN upto[Len(x)]

\* One round of the outer loop: t + a * b[i], made divisible by B and shifted
\* down a limb.  The limb t[n + 1] of the code does not outlive the round.
MontStep(t, a, bi, m, n0inv) ==
  LET n == Len(m)
      first == MulAdd(t, a, bi)
      sum == t[n + 1] + first.carry
      second == MulAdd(first.r, m, (first.r[1] * n0inv) % B)
      top == (sum % B) + second.carry
  IN [j \in 1..n + 1 |->
        CASE j < n -> second.r[j + 1]
          [] j = n -> top % B
          [] j > n -> ((sum \div B) + (top \div B)) % B]

\* tamga_bn_mont_mul: a * b / B^n mod m.
MontMul(a, b, m) ==
  LET n == Len(m)
      t[i \in 0..n] == IF i = 0 THEN [j \in 1..n + 1 |-> 0]
                       ELSE MontStep(t[i - 1], a, b[i], m, N0inv(m[1]))
      done == t[n]
  IN IF done[n + 1] # 0 \/ AtLeast(done, m) THEN SubRaw(done, m).r ELSE SubSeq(done, 1, n)

Zero(n) == [i \in 1..n |-> 0]
\* B^n mod m, as zero less m.
MontOne(m) == SubRaw(Zero(Len(m)), m).r
\* B^2n mod m
MontSquare(m) ==
  LET doubled[i \in 0..Len(m) * W] ==
        IF i = 0 THEN MontOne(m) ELSE DoubleMod(doubled[i - 1], m)
  IN doubled[Len(m) * W]

\* tamga_bn_modexp: -1 when it returns false.
Modexp(base, modulus, modLen, exponent, expLen) ==
  LET n == LimbsFor(modLen)
      m == ToLimbs(modulus, n)
      b == ToLimbs(base, n)
      baseMont == MontMul(b, MontSquare(m), m)
      power[e \in Nat] ==
        IF e = 0 THEN MontOne(m)
        ELSE LET half == power[e \div 2]
                 square == MontMul(half, half, m)
             IN IF e % 2 = 1 THEN MontMul(square, baseMont, m) ELSE square
  IN IF modLen = 0 \/ expLen = 0 \/ expLen > modLen THEN -1
     ELSE IF m[1] % 2 = 0 \/ m[n] < B \div 2 \/ AtLeast(b, m) \/ exponent = 0 THEN -1
     ELSE Value(MontMul(power[exponent], ToLimbs(1, n), m))
=============================================================================
