----------------------------- MODULE Field25519 -----------------------------
(* src/src/crypto/fe25519.c: the field modulo 2^255 - 19 in eight limbs, here *)
(* 2^(W * N - 1) - C in N of them.  Operands are reduced, as the code keeps   *)
(* them; from_bytes takes any bytes.                                          *)
EXTENDS Limbs

CONSTANTS
  N,   \* limbs of a field element
  C    \* 19

ASSUME FieldAssumption == N \in Nat \ {0} /\ C \in Nat \ {0} /\ 2 * C < 2 ^ W

Half == B \div 2
P == 2 ^ (W * N - 1) - C
PLimbs == ToLimbs(P, N)

\* v + c with the carry running up, as long as there is one.
Ripple(v, c) ==
  LET upto[i \in 0..N] ==
        IF i = 0 THEN [r |-> <<>>, carry |-> c]
        ELSE LET below == upto[i - 1]
                 t == v[i] + below.carry
             IN [r |-> Append(below.r, t % B), carry |-> t \div B]
  IN upto[N]

\* A bug to be caught, and the one the code once had: what is carried out when
\* the carry is folded in is dropped.
FoldCarryOnce(v, carry) == Ripple(v, 2 * C * carry).r

\* tamga_fe_fold_carry: 2^256 is 38.
FoldCarry(v, carry) ==
  LET fold[s \in [r : Seq(Nat), carry : Nat]] ==
        IF s.carry = 0 THEN s.r ELSE fold[Ripple(s.r, 2 * C * s.carry)]
  IN fold[[r |-> v, carry |-> carry]]

\* tamga_fe_conditional_sub_p
ConditionalSubP(v) == LET less == SubRaw(v, PLimbs) IN IF less.borrow = 0 THEN less.r ELSE v

\* tamga_fe_reduce: three passes for what is at or above 2^255.
Reduce(v) ==
  LET low(x) == [x EXCEPT ![N] = @ % Half]
      pass(x) == IF x[N] < Half THEN x ELSE Ripple(low(x), C).r
  IN ConditionalSubP(low(pass(pass(pass(v)))))

FeFromBytes(v) == Reduce([v EXCEPT ![N] = @ % Half])

FeAdd(a, b) == LET sum == AddRaw(a, b) IN Reduce(FoldCarry(sum.r, sum.carry))

FeSub(a, b) ==
  LET diff == SubRaw(a, b)
  IN Reduce(IF diff.borrow # 0 THEN AddRaw(diff.r, PLimbs).r ELSE diff.r)

\* Schoolbook product, row by row, then its upper half times 38 on the lower.
FeMul(a, b) ==
  LET row[i \in 0..N] ==
        IF i = 0 THEN Zero(2 * N)
        ELSE LET before == row[i - 1]
                 sum == MulAdd(SubSeq(before, i, i + N - 1), b, a[i])
             IN [k \in 1..2 * N |-> CASE k < i \/ k > i + N -> before[k]
                                      [] k >= i /\ k < i + N -> sum.r[k - i + 1]
                                      [] k = i + N -> sum.carry]
      product == row[N]
      folded == MulAdd(SubSeq(product, 1, N), SubSeq(product, N + 1, 2 * N), 2 * C)
  IN Reduce(FoldCarry(folded.r, folded.carry))
=============================================================================
