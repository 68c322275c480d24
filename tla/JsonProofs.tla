----------------------------- MODULE JsonProofs -----------------------------
(***************************************************************************)
(* Proofs about Json: for texts of any length, any limit on the depth and  *)
(* any failure of an allocation.                                           *)
(***************************************************************************)
EXTENDS Json, WellFoundedInduction, SequenceTheorems, FiniteSetTheorems, TLAPS

-----------------------------------------------------------------------------
(* Induction on the natural numbers and definitions by recursion, stated     *)
(* about sets and functions.                                                 *)

\* Numbers are well-founded.
LEMMA LeastExists == ASSUME NEW T \in SUBSET Nat, T # {} PROVE \E x \in T : \A y \in T : x <= y
<1> DEFINE R == {ss \in Nat \X Nat : ss[1] < ss[2]}
<1>1. IsWellFoundedOn(R, Nat)
  BY NatLessThanWellFounded DEF OpToRel
<1>2. PICK x \in T : \A y \in T : ~(<<y, x>> \in R)
  BY <1>1, WFMin
<1>3. \A y \in T : ~(y < x)
  BY <1>2
<1> QED BY <1>3

\* A set that holds 0 and with a number the next holds them all.
LEMMA Induction ==
  ASSUME NEW T, 0 \in T, \A n \in Nat : n \in T => n + 1 \in T
  PROVE  Nat \subseteq T
<1> SUFFICES ASSUME NEW n \in Nat, n \notin T PROVE FALSE
  OBVIOUS
<1> DEFINE C == {k \in Nat : k \notin T}
<1>1. C \in SUBSET Nat /\ C # {}
  OBVIOUS
<1>2. PICK x \in C : \A y \in C : x <= y
  BY <1>1, LeastExists
<1>3. x # 0 /\ x - 1 \in Nat
  BY <1>2
<1>4. x - 1 \in T
  BY <1>2, <1>3
<1> QED BY <1>2, <1>3, <1>4

\* The same up to n.
LEMMA IntervalInduction ==
  ASSUME NEW n \in Nat, NEW T, 0 \in T, \A i \in 1..n : i - 1 \in T => i \in T
  PROVE  0..n \subseteq T
<1> DEFINE C == {k \in Nat : k \in 0..n => k \in T}
<1>1. 0 \in C
  OBVIOUS
<1>2. ASSUME NEW k \in Nat, k \in C PROVE k + 1 \in C
  <2>1. k + 1 \in 0..n => k + 1 \in 1..n /\ k \in T /\ k = (k + 1) - 1
    BY <1>2
  <2> QED BY <2>1
<1>3. Nat \subseteq C
  BY <1>1, <1>2, Induction
<1> QED BY <1>3

\* f = G[f] gives a function on D by its values at smaller arguments.
Defines(G, D, V, m, n) ==
  /\ V # {} /\ n \in Nat /\ m \in [D -> 0..n] /\ G \in [[D -> V] -> [D -> V]]
  /\ \A g, h \in [D -> V], x \in D :
       (\A y \in D : m[y] < m[x] => g[y] = h[y]) => G[g][x] = G[h][x]

\* Such an equation has a solution.
LEMMA Recursion ==
  ASSUME NEW D, NEW V, NEW n, NEW m, NEW G, Defines(G, D, V, m, n)
  PROVE  \E f \in [D -> V] : f = G[f]
<1>0. /\ V # {} /\ n \in Nat /\ m \in [D -> 0..n] /\ G \in [[D -> V] -> [D -> V]]
      /\ \A g, h \in [D -> V], x \in D :
           (\A y \in D : m[y] < m[x] => g[y] = h[y]) => G[g][x] = G[h][x]
  BY DEF Defines
<1> DEFINE F == [D -> V]
           T == {k \in Nat : \E g \in F : \A x \in D : m[x] < k => g[x] = G[g][x]}
<1>1. 0 \in T
  <2>1. PICK v : v \in V
    BY <1>0
  <2>2. [x \in D |-> v] \in F
    BY <2>1
  <2>3. \A x \in D : ~(m[x] < 0)
    BY <1>0
  <2> QED BY <2>2, <2>3
<1>2. ASSUME NEW k \in Nat, k \in T PROVE k + 1 \in T
  <2>1. PICK g \in F : \A x \in D : m[x] < k => g[x] = G[g][x]
    BY <1>2
  <2>2. PICK h \in F : h = G[g]
    BY <1>0
  <2>3. ASSUME NEW x \in D, m[x] < k + 1 PROVE h[x] = G[h][x]
    <3>1. \A y \in D : m[y] < m[x] => m[y] < k
      BY <1>0, <2>3
    <3>2. \A y \in D : m[y] < m[x] => g[y] = h[y]
      BY <3>1, <2>1, <2>2
    <3>3. G[g][x] = G[h][x]
      BY <1>0, <3>2
    <3> QED BY <3>3, <2>2
  <2> QED BY <2>3
<1>3. n + 1 \in T
  BY <1>0, <1>1, <1>2, Induction
<1>4. PICK g \in F : \A x \in D : m[x] < n + 1 => g[x] = G[g][x]
  BY <1>3
<1>5. \A x \in D : g[x] = G[g][x]
  BY <1>0, <1>4
<1>6. G[g] \in F
  BY <1>0
<1>7. g = G[g]
  BY <1>5, <1>6
<1> QED BY <1>7

-----------------------------------------------------------------------------
(* Totals.                                                                   *)

\* The partial sums of a list of numbers.
SumsOf(s, w) ==
  s \in [0..Len(w) -> Nat] /\ s[0] = 0 /\ \A i \in 1..Len(w) : s[i] = s[i - 1] + w[i]

LEMMA TotalSums == ASSUME NEW w \in Seq(Nat) PROVE \E s : SumsOf(s, w) /\ Total(w) = s[Len(w)]
<1> DEFINE n == Len(w)
           D == 0..n
           sum[i \in D] == IF i = 0 THEN 0 ELSE sum[i - 1] + w[i]
<1>1. n \in Nat /\ \A i \in 1..n : w[i] \in Nat
  BY LenProperties, ElementOfSeq
<1>2. \E f : f = [i \in D |-> IF i = 0 THEN 0 ELSE f[i - 1] + w[i]]
  <2> DEFINE m == [i \in D |-> i]
             G == [g \in [D -> Nat] |-> [i \in D |-> IF i = 0 THEN 0 ELSE g[i - 1] + w[i]]]
  <2>1. m \in [D -> 0..n]
    OBVIOUS
  <2>2. ASSUME NEW g \in [D -> Nat], NEW i \in D
        PROVE  (IF i = 0 THEN 0 ELSE g[i - 1] + w[i]) \in Nat
    <3>1. i = 0 \/ (i \in 1..n /\ i - 1 \in D)
      BY <1>1
    <3> QED BY <1>1, <3>1, SMTT(30)
  <2>3. G \in [[D -> Nat] -> [D -> Nat]]
    BY <2>2
  <2>4. ASSUME NEW g \in [D -> Nat], NEW h \in [D -> Nat], NEW i \in D,
               \A j \in D : m[j] < m[i] => g[j] = h[j]
        PROVE  G[g][i] = G[h][i]
    <3>1. i # 0 => i - 1 \in D /\ m[i - 1] < m[i]
      BY <1>1
    <3> QED BY <3>1, <2>4
  <2>5. \A g, h \in [D -> Nat], i \in D :
          (\A j \in D : m[j] < m[i] => g[j] = h[j]) => G[g][i] = G[h][i]
    BY <2>4
  <2>6. Nat # {} /\ n \in Nat
    BY <1>1
  <2> HIDE DEF m, G, D, n
  <2>7. Defines(G, D, Nat, m, n)
    BY <2>1, <2>3, <2>5, <2>6 DEF Defines
  <2>8. \E f \in [D -> Nat] : f = G[f]
    BY <2>7, Recursion
  <2> QED BY <2>8 DEF G
<1>3. sum = [i \in D |-> IF i = 0 THEN 0 ELSE sum[i - 1] + w[i]]
  BY <1>2 DEF sum
<1>4. Total(w) = sum[n]
  BY DEF Total
<1> HIDE DEF sum
<1>5. sum[0] = 0 /\ \A i \in 1..n : sum[i] = sum[i - 1] + w[i]
  BY <1>1, <1>3
<1>6. \A i \in D : sum[i] \in Nat
  <2> DEFINE T == {i \in D : sum[i] \in Nat}
  <2>1. 0 \in T
    BY <1>1, <1>5
  <2>2. ASSUME NEW i \in 1..n, i - 1 \in T PROVE i \in T
    BY <1>1, <1>5, <2>2, SMTT(30)
  <2>3. D \subseteq T
    BY <1>1, <2>1, <2>2, IntervalInduction
  <2> QED BY <2>3
<1>7. sum \in [0..n -> Nat]
  BY <1>3, <1>6
<1> QED BY <1>4, <1>5, <1>7 DEF SumsOf

\* Two lists that begin alike have the same sums so far.
LEMMA SumsAgree ==
  ASSUME NEW u \in Seq(Nat), NEW v \in Seq(Nat), NEW s, NEW t, SumsOf(s, u), SumsOf(t, v),
         NEW n \in Nat, n <= Len(u), n <= Len(v), \A i \in 1..n : u[i] = v[i]
  PROVE  \A i \in 0..n : s[i] = t[i]
<1> DEFINE T == {i \in 0..n : s[i] = t[i]}
<1>1. 0 \in T
  BY DEF SumsOf
<1>2. ASSUME NEW i \in 1..n, i - 1 \in T PROVE i \in T
  <2>1. i \in 1..Len(u) /\ i \in 1..Len(v)
    BY LenProperties
  <2> QED BY <1>2, <2>1 DEF SumsOf
<1>3. 0..n \subseteq T
  BY <1>1, <1>2, IntervalInduction
<1> QED BY <1>3

LEMMA TotalNat == ASSUME NEW w \in Seq(Nat) PROVE Total(w) \in Nat
<1>1. PICK s : SumsOf(s, w) /\ Total(w) = s[Len(w)]
  BY TotalSums
<1>2. Len(w) \in Nat /\ Len(w) \in 0..Len(w)
  BY LenProperties
<1> QED BY <1>1, <1>2 DEF SumsOf

LEMMA TotalEmpty == Total(<<>>) = 0
<1>1. <<>> \in Seq(Nat) /\ Len(<<>>) = 0
  OBVIOUS
<1>2. PICK s : SumsOf(s, <<>>) /\ Total(<<>>) = s[Len(<<>>)]
  BY <1>1, TotalSums
<1> QED BY <1>1, <1>2 DEF SumsOf

\* The last number of a list.
LEMMA TotalLast ==
  ASSUME NEW u \in Seq(Nat), NEW v \in Seq(Nat), Len(v) = Len(u) + 1,
         \A i \in 1..Len(u) : u[i] = v[i]
  PROVE  Total(v) = Total(u) + v[Len(v)]
<1>1. PICK s : SumsOf(s, u) /\ Total(u) = s[Len(u)]
  BY TotalSums
<1>2. PICK t : SumsOf(t, v) /\ Total(v) = t[Len(v)]
  BY TotalSums
<1>3. Len(u) \in Nat /\ Len(u) \in 0..Len(u) /\ Len(u) <= Len(v) /\ Len(u) <= Len(u)
      /\ Len(v) \in 1..Len(v) /\ Len(v) - 1 = Len(u)
  BY LenProperties
<1>4. s[Len(u)] = t[Len(u)]
  BY <1>1, <1>2, <1>3, SumsAgree, SMTT(30)
<1>5. t[Len(v)] = t[Len(v) - 1] + v[Len(v)]
  BY <1>2, <1>3 DEF SumsOf
<1> QED BY <1>1, <1>2, <1>3, <1>4, <1>5

LEMMA TotalAppend ==
  ASSUME NEW w \in Seq(Nat), NEW x \in Nat PROVE Total(Append(w, x)) = Total(w) + x
<1> DEFINE v == Append(w, x)
<1>1. v \in Seq(Nat) /\ Len(v) = Len(w) + 1 /\ v[Len(w) + 1] = x
      /\ \A i \in 1..Len(w) : v[i] = w[i]
  BY AppendProperties
<1> HIDE DEF v
<1>2. Total(v) = Total(w) + v[Len(v)]
  BY <1>1, TotalLast
<1> QED BY <1>1, <1>2 DEF v

LEMMA Reorder == ASSUME NEW a \in Int, NEW b \in Int, NEW d \in Int PROVE (a + d) + b = (a + b) + d
  OBVIOUS

\* One number of a list changes.
LEMMA TotalExcept ==
  ASSUME NEW w \in Seq(Nat), NEW k \in 1..Len(w), NEW x \in Nat
  PROVE  /\ Total([w EXCEPT ![k] = x]) = Total(w) + x - w[k]
         /\ w[k] \in Nat /\ w[k] <= Total(w)
<1>1. Len(w) \in Nat /\ DOMAIN w = 1..Len(w) /\ w[k] \in Nat
  BY LenProperties, ElementOfSeq
<1>2. ASSUME NEW y \in Nat PROVE Total([w EXCEPT ![k] = y]) = Total(w) + y - w[k]
  <2> DEFINE v == [w EXCEPT ![k] = y]
  <2>1. v \in Seq(Nat) /\ Len(v) = Len(w)
    BY <1>1, ExceptSeq
  <2>2. v[k] = y /\ \A i \in 1..Len(w) : i # k => v[i] = w[i]
    BY <1>1
  <2>3. PICK s : SumsOf(s, w) /\ Total(w) = s[Len(w)]
    BY TotalSums
  <2> HIDE DEF v
  <2>4. PICK t : SumsOf(t, v) /\ Total(v) = t[Len(v)]
    BY <2>1, TotalSums
  <2>5. /\ \A i \in 0..Len(w) : s[i] \in Nat /\ t[i] \in Nat
        /\ s[0] = 0 /\ t[0] = 0
        /\ \A i \in 1..Len(w) : s[i] = s[i - 1] + w[i] /\ t[i] = t[i - 1] + v[i]
    BY <2>1, <2>3, <2>4 DEF SumsOf
  <2> DEFINE T == {i \in 0..Len(w) : t[i] = s[i] + (IF i < k THEN 0 ELSE y - w[k])}
  <2>6. 0 \in T
    BY <1>1, <2>5
  <2>7. ASSUME NEW i \in 1..Len(w), i - 1 \in T PROVE i \in T
    <3>1. /\ i - 1 \in 0..Len(w) /\ i \in 0..Len(w) /\ w[i] \in Nat
          /\ s[i] = s[i - 1] + w[i] /\ t[i] = t[i - 1] + v[i]
          /\ s[i - 1] \in Nat /\ t[i - 1] \in Nat
      BY <1>1, <2>5, ElementOfSeq
    <3>2. t[i - 1] = s[i - 1] + (IF i - 1 < k THEN 0 ELSE y - w[k])
      BY <2>7
    <3>3. CASE i < k
      BY <1>1, <2>2, <3>1, <3>2, <3>3
    <3>4. CASE i = k
      BY <1>1, <2>2, <3>1, <3>2, <3>4, SMTT(30)
    <3>5. CASE i > k
      <4>1. v[i] = w[i] /\ ~(i - 1 < k) /\ ~(i < k) /\ k \in Nat
        BY <1>1, <2>2, <3>5
      <4>2. t[i - 1] = s[i - 1] + (y - w[k])
        BY <3>2, <4>1
      <4>3. t[i] = s[i] + (y - w[k])
        <5>1. PICK d \in Int : d = y - w[k]
          BY <1>1
        <5>2. t[i] = (s[i - 1] + d) + w[i] /\ s[i] = s[i - 1] + w[i]
          BY <3>1, <4>1, <4>2, <5>1
        <5>3. (s[i - 1] + d) + w[i] = (s[i - 1] + w[i]) + d
          BY <3>1, Reorder
        <5> QED BY <5>1, <5>2, <5>3
      <4> QED BY <3>1, <4>1, <4>3
    <3> QED BY <3>3, <3>4, <3>5
  <2>8. 0..Len(w) \subseteq T
    BY <1>1, <2>6, <2>7, IntervalInduction
  <2>9. Len(w) \in T /\ ~(Len(w) < k)
    BY <1>1, <2>8
  <2>10. t[Len(w)] = s[Len(w)] + (y - w[k]) /\ s[Len(w)] \in Nat /\ t[Len(w)] \in Nat
    BY <1>1, <2>5, <2>9
  <2>11. Total(v) = Total(w) + y - w[k]
    BY <1>1, <2>1, <2>3, <2>4, <2>10
  <2> QED BY <2>11 DEF v
<1>3. [w EXCEPT ![k] = 0] \in Seq(Nat)
  BY <1>1, ExceptSeq
<1>4. Total([w EXCEPT ![k] = 0]) \in Nat /\ Total(w) \in Nat
  BY <1>3, TotalNat
<1>5. Total([w EXCEPT ![k] = 0]) = Total(w) + 0 - w[k]
  BY <1>2
<1>6. w[k] <= Total(w)
  BY <1>1, <1>4, <1>5
<1> QED BY <1>1, <1>2, <1>6

-----------------------------------------------------------------------------
(* Sorting.                                                                  *)

\* Keys can be compared.
Comparable(M) ==
  \A a, b, c \in M : /\ AtMost(a, a) /\ (AtMost(a, b) \/ AtMost(b, a))
                     /\ AtMost(a, b) /\ AtMost(b, c) => AtMost(a, c)

Ordered(s) == \A i, j \in 1..Len(s) : i <= j => AtMost(s[i], s[j])
Elements(s) == {s[i] : i \in 1..Len(s)}

\* f counts the members taken from the left run.
MergeLoop(f, left, right) ==
  /\ f \in [0..Len(left) + Len(right) -> Nat] /\ f[0] = 0
  /\ \A at \in 1..Len(left) + Len(right) :
       f[at] = IF TakeLeft(left, right, f[at - 1], at - 1 - f[at - 1])
               THEN f[at - 1] + 1 ELSE f[at - 1]

MergedBy(f, left, right) ==
  [at \in 1..Len(left) + Len(right) |->
     IF f[at] > f[at - 1] THEN left[f[at]] ELSE right[at - f[at]]]

LEMMA MergeRuns ==
  ASSUME NEW M, NEW left \in Seq(M), NEW right \in Seq(M)
  PROVE  \E f : MergeLoop(f, left, right) /\ Merge(left, right) = MergedBy(f, left, right)
<1> DEFINE n == Len(left) + Len(right)
           D == 0..n
           Next1(at, l) == IF TakeLeft(left, right, l, at - 1 - l) THEN l + 1 ELSE l
           lefts[at \in D] ==
             IF at = 0 THEN 0
             ELSE IF TakeLeft(left, right, lefts[at - 1], at - 1 - lefts[at - 1])
                  THEN lefts[at - 1] + 1 ELSE lefts[at - 1]
<1>1. n \in Nat
  BY LenProperties
<1>2. \E f : f = [at \in D |->
                    IF at = 0 THEN 0
                    ELSE IF TakeLeft(left, right, f[at - 1], at - 1 - f[at - 1])
                         THEN f[at - 1] + 1 ELSE f[at - 1]]
  <2> DEFINE m == [i \in D |-> i]
             G == [g \in [D -> Nat] |-> [at \in D |->
                    IF at = 0 THEN 0
                    ELSE IF TakeLeft(left, right, g[at - 1], at - 1 - g[at - 1])
                         THEN g[at - 1] + 1 ELSE g[at - 1]]]
  <2>1. m \in [D -> 0..n]
    OBVIOUS
  <2>2. G \in [[D -> Nat] -> [D -> Nat]]
    <3>1. \A at \in D : at = 0 \/ at - 1 \in D
      BY <1>1
    <3>2. ASSUME NEW g \in [D -> Nat], NEW at \in D, at # 0
          PROVE  (IF TakeLeft(left, right, g[at - 1], at - 1 - g[at - 1])
                  THEN g[at - 1] + 1 ELSE g[at - 1]) \in Nat
      <4>1. PICK l \in Nat : l = g[at - 1]
        BY <3>1, <3>2
      <4> QED BY <4>1
    <3> HIDE DEF D, n
    <3> QED BY <3>2
  <2>3. ASSUME NEW g \in [D -> Nat], NEW h \in [D -> Nat], NEW i \in D,
               \A j \in D : m[j] < m[i] => g[j] = h[j]
        PROVE  G[g][i] = G[h][i]
    <3>1. i # 0 => i - 1 \in D /\ m[i - 1] < m[i]
      BY <1>1
    <3>2. i # 0 => g[i - 1] = h[i - 1]
      BY <2>3, <3>1
    <3> QED BY <3>2
  <2>4. Nat # {} /\ n \in Nat
    BY <1>1
  <2>5. \A g, h \in [D -> Nat], i \in D :
          (\A j \in D : m[j] < m[i] => g[j] = h[j]) => G[g][i] = G[h][i]
    BY <2>3
  <2> HIDE DEF m, G, D, n
  <2>6. Defines(G, D, Nat, m, n)
    BY <2>1, <2>2, <2>4, <2>5 DEF Defines
  <2>7. \E f \in [D -> Nat] : f = G[f]
    BY <2>6, Recursion
  <2> QED BY <2>7 DEF G
<1>3. lefts = [at \in D |->
                 IF at = 0 THEN 0
                 ELSE IF TakeLeft(left, right, lefts[at - 1], at - 1 - lefts[at - 1])
                      THEN lefts[at - 1] + 1 ELSE lefts[at - 1]]
  BY <1>2 DEF lefts
<1>4. Merge(left, right) =
        [at \in 1..n |-> IF lefts[at] > lefts[at - 1] THEN left[lefts[at]]
                         ELSE right[at - lefts[at]]]
  BY DEF Merge
<1>9. Merge(left, right) = MergedBy(lefts, left, right)
  BY <1>4 DEF MergedBy
<1> HIDE DEF lefts
<1>5. /\ lefts[0] = 0
      /\ \A at \in 1..n :
           lefts[at] = IF TakeLeft(left, right, lefts[at - 1], at - 1 - lefts[at - 1])
                       THEN lefts[at - 1] + 1 ELSE lefts[at - 1]
  BY <1>1, <1>3
<1>6. \A i \in D : lefts[i] \in Nat
  <2> DEFINE T == {i \in D : lefts[i] \in Nat}
  <2>1. 0 \in T
    BY <1>1, <1>5
  <2>2. ASSUME NEW i \in 1..n, i - 1 \in T PROVE i \in T
    BY <1>1, <1>5, <2>2
  <2>3. D \subseteq T
    BY <1>1, <2>1, <2>2, IntervalInduction
  <2> QED BY <2>3
<1>7. lefts \in [D -> Nat]
  BY <1>3, <1>6
<1>8. MergeLoop(lefts, left, right)
  BY <1>5, <1>7 DEF MergeLoop
<1> QED BY <1>8, <1>9

\* At every turn of the loop there is something left to take.
LEMMA LoopBounds ==
  ASSUME NEW M, NEW left \in Seq(M), NEW right \in Seq(M), NEW f, MergeLoop(f, left, right)
  PROVE  \A at \in 0..Len(left) + Len(right) :
           f[at] \in 0..Len(left) /\ at - f[at] \in 0..Len(right)
<1> DEFINE L == Len(left)
           R == Len(right)
           T == {at \in 0..L + R : f[at] \in 0..L /\ at - f[at] \in 0..R}
<1>1. L \in Nat /\ R \in Nat /\ L + R \in Nat
  BY LenProperties
<1>2. 0 \in T
  BY <1>1 DEF MergeLoop
<1>3. ASSUME NEW at \in 1..L + R, at - 1 \in T PROVE at \in T
  <2>1. PICK l \in 0..L : l = f[at - 1] /\ at - 1 - l \in 0..R
    BY <1>3
  <2>2. f[at] = IF TakeLeft(left, right, l, at - 1 - l) THEN l + 1 ELSE l
    BY <2>1 DEF MergeLoop
  <2>3. TakeLeft(left, right, l, at - 1 - l) => l < L
    BY DEF TakeLeft
  <2>4. ~TakeLeft(left, right, l, at - 1 - l) => ~(l < L) \/ at - 1 - l < R
    BY DEF TakeLeft
  <2> HIDE DEF L, R
  <2>5. CASE TakeLeft(left, right, l, at - 1 - l)
    BY <1>1, <2>1, <2>2, <2>3, <2>5, SMTT(30)
  <2>6. CASE ~TakeLeft(left, right, l, at - 1 - l)
    <3>1. f[at] = l /\ at - 1 - l < R
      BY <1>1, <2>1, <2>2, <2>4, <2>6
    <3> QED BY <1>1, <2>1, <3>1
  <2> QED BY <2>5, <2>6
<1>4. 0..L + R \subseteq T
  BY <1>1, <1>2, <1>3, IntervalInduction
<1> QED BY <1>4

\* One turn: the member taken is the first left of its run.
LEMMA LoopStep ==
  ASSUME NEW M, NEW left \in Seq(M), NEW right \in Seq(M), NEW f, MergeLoop(f, left, right),
         NEW at \in 1..Len(left) + Len(right)
  PROVE  LET l == f[at - 1]
             r == at - 1 - l
             taken == IF f[at] > f[at - 1] THEN left[f[at]] ELSE right[at - f[at]]
         IN /\ l \in 0..Len(left) /\ r \in 0..Len(right)
            /\ \/ /\ TakeLeft(left, right, l, r) /\ f[at] = l + 1 /\ l < Len(left)
                  /\ taken = left[l + 1]
               \/ /\ ~TakeLeft(left, right, l, r) /\ f[at] = l /\ r < Len(right)
                  /\ taken = right[r + 1]
<1>1. Len(left) \in Nat /\ Len(right) \in Nat
  BY LenProperties
<1>2. PICK l : l = f[at - 1]
  OBVIOUS
<1>3. at - 1 \in 0..Len(left) + Len(right) /\ at \in 0..Len(left) + Len(right)
  BY <1>1
<1>4. l \in 0..Len(left) /\ at - 1 - l \in 0..Len(right)
  BY <1>2, <1>3, LoopBounds
<1>5. f[at] \in 0..Len(left) /\ at - f[at] \in 0..Len(right)
  BY <1>3, LoopBounds
<1>6. f[at] = IF TakeLeft(left, right, l, at - 1 - l) THEN l + 1 ELSE l
  BY <1>2 DEF MergeLoop
<1>7. CASE TakeLeft(left, right, l, at - 1 - l)
  <2>1. f[at] = l + 1 /\ f[at] > l /\ l < Len(left)
    BY <1>1, <1>4, <1>5, <1>6, <1>7
  <2> QED BY <1>2, <1>4, <1>7, <2>1
<1>8. CASE ~TakeLeft(left, right, l, at - 1 - l)
  <2>1. f[at] = l /\ ~(f[at] > l) /\ at - f[at] = (at - 1 - l) + 1 /\ at - 1 - l < Len(right)
    BY <1>1, <1>4, <1>5, <1>6, <1>8
  <2> QED BY <1>2, <1>4, <1>8, <2>1
<1> QED BY <1>7, <1>8

\* The merge of two runs holds their members and no other.
Joins(M, s, left, right) ==
  /\ s \in Seq(M) /\ Len(s) = Len(left) + Len(right)
  /\ Elements(s) = Elements(left) \cup Elements(right)

LEMMA MergeElements ==
  ASSUME NEW M, NEW left \in Seq(M), NEW right \in Seq(M)
  PROVE  Joins(M, Merge(left, right), left, right)
<1>a. PICK s : s = Merge(left, right)
  OBVIOUS
<1> DEFINE L == Len(left)
           R == Len(right)
           n == L + R
<1>1. L \in Nat /\ R \in Nat /\ n \in Nat
  BY LenProperties
<1>0. PICK f : MergeLoop(f, left, right) /\ s = MergedBy(f, left, right)
  BY <1>a, MergeRuns
<1>2. /\ MergeLoop(f, left, right)
      /\ s = [at \in 1..n |-> IF f[at] > f[at - 1] THEN left[f[at]] ELSE right[at - f[at]]]
  BY <1>0 DEF MergedBy
<1>3. ASSUME NEW at \in 1..n
      PROVE  /\ f[at - 1] \in 0..L /\ at - 1 - f[at - 1] \in 0..R
             /\ \/ f[at] = f[at - 1] + 1 /\ f[at - 1] < L /\ s[at] = left[f[at - 1] + 1]
                \/ /\ f[at] = f[at - 1] /\ at - 1 - f[at - 1] < R
                   /\ s[at] = right[at - 1 - f[at - 1] + 1]
  BY <1>2, LoopStep
<1>4. \A i \in 1..L : left[i] \in M
  BY ElementOfSeq
<1>5. \A i \in 1..R : right[i] \in M
  BY ElementOfSeq
<1> HIDE DEF L, R
<1>6. ASSUME NEW at \in 1..n
      PROVE  \/ \E i \in 1..L : s[at] = left[i]
             \/ \E i \in 1..R : s[at] = right[i]
  <2>1. PICK l \in 0..L, r \in 0..R : l = f[at - 1] /\ r = at - 1 - l
    BY <1>3
  <2>2. (l < L => l + 1 \in 1..L) /\ (r < R => r + 1 \in 1..R)
    BY <1>1
  <2> QED BY <1>3, <2>1, <2>2
<1>7. s \in Seq(M) /\ Len(s) = n
  <2>1. \A at \in 1..n : s[at] \in M
    BY <1>4, <1>5, <1>6
  <2>2. s = [at \in 1..n |-> s[at]]
    BY <1>2
  <2> HIDE DEF n
  <2> QED BY <1>1, <2>1, <2>2, SMTT(30)
\* The first members of the runs are among the first of the merge.
<1> DEFINE T == {at \in 0..n : /\ \A k \in 1..f[at] : \E i \in 1..n : s[i] = left[k]
                               /\ \A k \in 1..at - f[at] : \E i \in 1..n : s[i] = right[k]}
<1>8. 0 \in T
  BY <1>1, <1>2 DEF MergeLoop
<1>9. ASSUME NEW at \in 1..n, at - 1 \in T PROVE at \in T
  <2>1. PICK l \in 0..L, r \in 0..R : l = f[at - 1] /\ r = at - 1 - l
    BY <1>3
  <2>2. /\ \A k \in 1..l : \E i \in 1..n : s[i] = left[k]
        /\ \A k \in 1..r : \E i \in 1..n : s[i] = right[k]
    BY <1>9, <2>1
  <2>3. CASE f[at] = l + 1 /\ s[at] = left[l + 1]
    <3>1. at - f[at] = r
      BY <1>1, <2>1, <2>3
    <3>2. \A k \in 1..f[at] : k \in 1..l \/ k = l + 1
      BY <1>1, <2>3
    <3> QED BY <1>1, <2>2, <2>3, <3>1, <3>2, SMTT(30)
  <2>4. CASE f[at] = l /\ s[at] = right[r + 1]
    <3>1. at - f[at] = r + 1
      BY <1>1, <2>1, <2>4
    <3>2. \A k \in 1..r + 1 : k \in 1..r \/ k = r + 1
      BY <1>1
    <3> QED BY <1>1, <2>2, <2>4, <3>1, <3>2
  <2> QED BY <1>3, <2>1, <2>3, <2>4
<1>10. n \in T
  <2>1. 0..n \subseteq T
    BY <1>1, <1>8, <1>9, IntervalInduction
  <2> QED BY <1>1, <2>1
<1>11. f[n] = L /\ n - f[n] = R
  <2>1. f[n] \in 0..L /\ n - f[n] \in 0..R
    BY <1>1, <1>2, LoopBounds DEF L, R
  <2> QED BY <1>1, <2>1
<1>12. /\ \A k \in 1..L : \E i \in 1..n : s[i] = left[k]
       /\ \A k \in 1..R : \E i \in 1..n : s[i] = right[k]
  BY <1>10, <1>11
<1> HIDE DEF T, n
<1>13. Elements(s) = Elements(left) \cup Elements(right)
  <2>1. ASSUME NEW x \in Elements(s) PROVE x \in Elements(left) \cup Elements(right)
    BY <1>6, <1>7 DEF Elements, L, R
  <2>2. ASSUME NEW x \in Elements(left) PROVE x \in Elements(s)
    BY <1>7, <1>12 DEF Elements, L
  <2>3. ASSUME NEW x \in Elements(right) PROVE x \in Elements(s)
    BY <1>7, <1>12 DEF Elements, R
  <2> QED BY <2>1, <2>2, <2>3
<1> QED BY <1>a, <1>7, <1>13 DEF Joins, n, L, R

\* Two runs in order are merged in order.
LEMMA MergeOrdered ==
  ASSUME NEW M, Comparable(M), NEW left \in Seq(M), NEW right \in Seq(M),
         Ordered(left), Ordered(right), NEW s, s = Merge(left, right)
  PROVE  Ordered(s)
<1> DEFINE L == Len(left)
           R == Len(right)
           n == L + R
<1>1. L \in Nat /\ R \in Nat /\ n \in Nat
  BY LenProperties
<1>0. PICK f : MergeLoop(f, left, right) /\ s = MergedBy(f, left, right)
  BY MergeRuns
<1>2. /\ MergeLoop(f, left, right)
      /\ s = [at \in 1..n |-> IF f[at] > f[at - 1] THEN left[f[at]] ELSE right[at - f[at]]]
  BY <1>0 DEF MergedBy
<1>3. ASSUME NEW at \in 1..n
      PROVE  /\ f[at - 1] \in 0..L /\ at - 1 - f[at - 1] \in 0..R
             /\ \/ /\ TakeLeft(left, right, f[at - 1], at - 1 - f[at - 1])
                   /\ f[at] = f[at - 1] + 1 /\ f[at - 1] < L /\ s[at] = left[f[at - 1] + 1]
                \/ /\ ~TakeLeft(left, right, f[at - 1], at - 1 - f[at - 1])
                   /\ f[at] = f[at - 1] /\ at - 1 - f[at - 1] < R
                   /\ s[at] = right[at - 1 - f[at - 1] + 1]
  BY <1>2, LoopStep
<1>4. /\ \A i \in 1..L : left[i] \in M
      /\ \A i \in 1..R : right[i] \in M
      /\ \A i, j \in 1..L : i <= j => AtMost(left[i], left[j])
      /\ \A i, j \in 1..R : i <= j => AtMost(right[i], right[j])
  BY ElementOfSeq DEF Ordered
<1>5. /\ \A a \in M : AtMost(a, a)
      /\ \A a, b \in M : AtMost(a, b) \/ AtMost(b, a)
      /\ \A a, b, c \in M : AtMost(a, b) /\ AtMost(b, c) => AtMost(a, c)
  BY DEF Comparable
<1>6. ASSUME NEW l, NEW r
      PROVE  TakeLeft(left, right, l, r) <=>
               l < L /\ (r < R => AtMost(left[l + 1], right[r + 1]))
  BY DEF TakeLeft
<1>7. s \in Seq(M) /\ Len(s) = n
  BY MergeElements DEF Joins
<1> HIDE DEF L, R
\* What has been taken comes before what is left.
<1> DEFINE Before(at, l, r) ==
             \A i \in 1..at : /\ \A k \in l + 1..L : AtMost(s[i], left[k])
                              /\ \A k \in r + 1..R : AtMost(s[i], right[k])
           T == {at \in 0..n : Before(at, f[at], at - f[at])}
<1>8. 0 \in T
  BY <1>1
<1>9. ASSUME NEW at \in 1..n, at - 1 \in T PROVE at \in T
  <2>1. PICK l \in 0..L, r \in 0..R : l = f[at - 1] /\ r = at - 1 - l
    BY <1>3
  <2>2. Before(at - 1, l, r)
    BY <1>9, <2>1
  <2>3. \A i \in 1..at : i \in 1..at - 1 \/ i = at
    BY <1>1
  <2>4. CASE /\ TakeLeft(left, right, l, r) /\ f[at] = l + 1 /\ l < L
             /\ s[at] = left[l + 1]
    <3>0. at - f[at] = r /\ l + 1 \in 1..L
      <4>1. f[at] = l + 1 /\ l < L
        BY <2>4
      <4>2. at \in Int /\ r = at - 1 - l
        BY <1>1, <2>1
      <4>3. at - f[at] = r
        BY <4>1, <4>2
      <4> QED BY <1>1, <4>1, <4>3
    <3>1. /\ at - f[at] = r /\ l + 1 \in 1..L
          /\ \A k \in l + 1 + 1..L : k \in l + 1..L /\ k \in 1..L /\ l + 1 <= k
          /\ \A k \in r + 1..R : k \in 1..R /\ r < R /\ r + 1 \in 1..R /\ r + 1 <= k
      <4>1. ASSUME NEW k \in l + 1 + 1..L PROVE k \in l + 1..L /\ k \in 1..L /\ l + 1 <= k
        BY <1>1
      <4>2. ASSUME NEW k \in r + 1..R
            PROVE  k \in 1..R /\ r < R /\ r + 1 \in 1..R /\ r + 1 <= k
        BY <1>1
      <4> QED BY <3>0, <4>1, <4>2
    <3>2. \A k \in l + 1 + 1..L : AtMost(s[at], left[k])
      BY <1>4, <2>4, <3>1
    <3>3. ASSUME NEW k \in r + 1..R PROVE AtMost(s[at], right[k])
      <4>1. AtMost(left[l + 1], right[r + 1]) /\ AtMost(right[r + 1], right[k])
        BY <1>4, <1>6, <2>4, <3>1
      <4>2. left[l + 1] \in M /\ right[r + 1] \in M /\ right[k] \in M
        BY <1>4, <3>1
      <4> QED BY <1>5, <2>4, <4>1, <4>2
    <3>4. Before(at, l + 1, r)
      BY <2>2, <2>3, <3>1, <3>2, <3>3
    <3> QED BY <1>1, <2>4, <3>1, <3>4
  <2>5. CASE /\ ~TakeLeft(left, right, l, r) /\ f[at] = l /\ r < R
             /\ s[at] = right[r + 1]
    <3>0. at - f[at] = r + 1 /\ r + 1 \in 1..R
      <4>1. f[at] = l /\ r < R
        BY <2>5
      <4>2. at \in Int /\ r = at - 1 - l
        BY <1>1, <2>1
      <4>3. at - f[at] = r + 1
        BY <4>1, <4>2
      <4> QED BY <1>1, <4>1, <4>3
    <3>1. /\ at - f[at] = r + 1 /\ r + 1 \in 1..R
          /\ \A k \in r + 1 + 1..R : k \in r + 1..R /\ k \in 1..R /\ r + 1 <= k
          /\ \A k \in l + 1..L : k \in 1..L /\ l < L /\ l + 1 \in 1..L /\ l + 1 <= k
      <4>1. ASSUME NEW k \in r + 1 + 1..R PROVE k \in r + 1..R /\ k \in 1..R /\ r + 1 <= k
        BY <1>1
      <4>2. ASSUME NEW k \in l + 1..L
            PROVE  k \in 1..L /\ l < L /\ l + 1 \in 1..L /\ l + 1 <= k
        BY <1>1
      <4> QED BY <3>0, <4>1, <4>2
    <3>2. \A k \in r + 1 + 1..R : AtMost(s[at], right[k])
      BY <1>4, <2>5, <3>1
    <3>3. ASSUME NEW k \in l + 1..L PROVE AtMost(s[at], left[k])
      <4>1. left[l + 1] \in M /\ right[r + 1] \in M /\ left[k] \in M
        BY <1>4, <3>1
      <4>2. ~AtMost(left[l + 1], right[r + 1]) /\ AtMost(left[l + 1], left[k])
        BY <1>4, <1>6, <2>5, <3>1
      <4>3. AtMost(right[r + 1], left[l + 1])
        BY <1>5, <4>1, <4>2
      <4> QED BY <1>5, <2>5, <4>1, <4>2, <4>3
    <3>4. Before(at, l, r + 1)
      BY <2>2, <2>3, <3>1, <3>2, <3>3
    <3> QED BY <1>1, <2>5, <3>1, <3>4
  <2> QED BY <1>3, <2>1, <2>4, <2>5
<1>10. \A at \in 0..n : Before(at, f[at], at - f[at])
  <2> HIDE DEF Before
  <2>1. 0..n \subseteq T
    BY <1>1, <1>8, <1>9, IntervalInduction
  <2> QED BY <2>1
<1>11. ASSUME NEW i \in 1..n, NEW j \in 1..n, i <= j PROVE AtMost(s[i], s[j])
  <2>1. CASE i = j
    BY <1>5, <1>7, <2>1, ElementOfSeq
  <2>2. CASE i # j
    <3>1. i \in 1..j - 1 /\ j - 1 \in 0..n
      BY <1>1, <1>11, <2>2
    <3>2. Before(j - 1, f[j - 1], j - 1 - f[j - 1])
      BY <1>10, <3>1
    <3>3. PICK l \in 0..L, r \in 0..R : l = f[j - 1] /\ r = j - 1 - l
      BY <1>3
    <3>4. (l < L => l + 1 \in l + 1..L) /\ (r < R => r + 1 \in r + 1..R)
      BY <1>1
    <3>5. \/ l < L /\ s[j] = left[l + 1]
          \/ r < R /\ s[j] = right[r + 1]
      BY <1>3, <3>3
    <3> QED BY <3>1, <3>2, <3>3, <3>4, <3>5
  <2> QED BY <2>1, <2>2
<1> QED BY <1>7, <1>11 DEF Ordered

\* Blocks of a width: each position is in one of them.
LEMMA Block ==
  ASSUME NEW x \in Nat, NEW W \in Nat \ {0}
  PROVE  x \div W \in Nat /\ W * (x \div W) <= x /\ x < W * (x \div W) + W
         /\ W * (x \div W) \in Nat
  OBVIOUS

LEMMA BlockStep ==
  ASSUME NEW a \in Nat, NEW b \in Nat, NEW W \in Nat, a < b PROVE W * a + W <= W * b
<1>1. b - a - 1 \in Nat
  OBVIOUS
<1>2. W * (b - a - 1) \in Nat
  BY <1>1
<1>3. W * (b - a - 1) = W * b - W * a - W
  OBVIOUS
<1> QED BY <1>2, <1>3

LEMMA BlockUnique ==
  ASSUME NEW x \in Nat, NEW W \in Nat \ {0}, NEW k \in Nat, W * k <= x, x < W * k + W
  PROVE  x \div W = k
<1>1. PICK q \in Nat : q = x \div W /\ W * q <= x /\ x < W * q + W
  BY Block
<1>2. W * k \in Nat /\ W * q \in Nat
  OBVIOUS
<1>3. ~(q < k)
  <2>1. q < k => W * q + W <= W * k
    BY BlockStep
  <2> QED BY <1>1, <1>2, <2>1
<1>4. ~(k < q)
  <2>1. k < q => W * k + W <= W * q
    BY BlockStep
  <2> QED BY <1>1, <1>2, <2>1
<1> QED BY <1>1, <1>3, <1>4

\* The list is in order within each block.
Runs(s, width) ==
  \A k \in Nat : \A i, j \in 1..Len(s) :
    width * k < i /\ i <= j /\ j <= width * k + width => AtMost(s[i], s[j])

LEMMA SubRun ==
  ASSUME NEW M, NEW s \in Seq(M), NEW a \in 0..Len(s), NEW b \in a..Len(s)
  PROVE  LET u == SubSeq(s, a + 1, b)
         IN /\ u \in Seq(M) /\ Len(u) = b - a /\ \A i \in 1..b - a : u[i] = s[a + i]
            /\ Elements(u) = {s[i] : i \in a + 1..b}
<1> DEFINE u == SubSeq(s, a + 1, b)
<1>0. Len(s) \in Nat /\ a \in Nat /\ b \in Nat /\ a <= b
  BY LenProperties
<1>1. u \in Seq(M) /\ Len(u) = b - a /\ \A i \in 1..b - a : u[i] = s[a + i]
  <2>1. a + 1 \in 1..Len(s) + 1 /\ b \in a + 1 - 1..Len(s)
    BY <1>0
  <2>2. \A i \in 1..Len(s) : s[i] \in M
    BY ElementOfSeq
  <2>3. Len(u) = b - a
    BY <1>0, <2>1, SubSeqProperties
  <2>4. \A i \in 1..b - a : u[i] = s[a + i]
    <3>1. \A i \in 1..b - a : (a + 1) + i - 1 = a + i
      BY <1>0
    <3> QED BY <1>0, <2>1, <3>1, SubSeqProperties
  <2>5. u \in Seq(M)
    BY <1>0, <2>1, SubSeqProperties
  <2> QED BY <2>3, <2>4, <2>5
<1> HIDE DEF u
<1>2. \A i \in a + 1..b : i - a \in 1..b - a /\ a + (i - a) = i
  BY <1>0
<1>3. \A i \in 1..b - a : a + i \in a + 1..b
  BY <1>0
<1>4. Elements(u) = {s[i] : i \in a + 1..b}
  <2>1. ASSUME NEW x \in Elements(u) PROVE x \in {s[i] : i \in a + 1..b}
    BY <1>1, <1>3 DEF Elements
  <2>2. ASSUME NEW x \in {s[i] : i \in a + 1..b} PROVE x \in Elements(u)
    <3>1. PICK i \in a + 1..b : x = s[i]
      OBVIOUS
    <3>2. i - a \in 1..b - a /\ u[i - a] = x
      BY <1>1, <1>2, <3>1
    <3> QED BY <1>1, <3>2 DEF Elements
  <2> QED BY <2>1, <2>2
<1> QED BY <1>1, <1>4 DEF u

Least2(a, b) == IF a > b THEN b ELSE a
PairAt(s, width, start) ==
  Merge(SubSeq(s, start + 1, Least2(start + width, Len(s))),
        SubSeq(s, Least2(start + width, Len(s)) + 1, Least2(start + 2 * width, Len(s))))

\* One pair of neighbouring runs.
PairSound(M, s, width, start) ==
  LET end == Least2(start + 2 * width, Len(s))
      pair == PairAt(s, width, start)
  IN /\ pair \in Seq(M) /\ Len(pair) = end - start
     /\ Elements(pair) = {s[i] : i \in start + 1..end}
     /\ Runs(s, width) => Ordered(pair)
Aligned(width, start) == \E q \in Nat : start = 2 * width * q

LEMMA PairFacts ==
  ASSUME NEW M, Comparable(M), NEW s \in Seq(M), NEW width \in Nat \ {0},
         NEW start, Aligned(width, start), start < Len(s)
  PROVE  PairSound(M, s, width, start)
<1>0. PICK q \in Nat : start = 2 * width * q
  BY DEF Aligned
<1> DEFINE n == Len(s)
           mid == Least2(start + width, n)
           end == Least2(start + 2 * width, n)
           left == SubSeq(s, start + 1, mid)
           right == SubSeq(s, mid + 1, end)
           pair == Merge(left, right)
<1>1. n \in Nat /\ start \in Nat /\ start \in 0..n
  BY <1>0, LenProperties
<1>2. /\ mid \in start..n /\ end \in mid..n /\ mid \in 0..n /\ mid \in Nat /\ end \in Nat
      /\ mid <= start + width /\ end <= start + 2 * width
      /\ mid < end => mid = start + width
  BY <1>1 DEF Least2
<1> HIDE DEF mid, end, n
<1>3. /\ left \in Seq(M) /\ Len(left) = mid - start
      /\ \A i \in 1..mid - start : left[i] = s[start + i]
      /\ Elements(left) = {s[i] : i \in start + 1..mid}
  <2>1. start \in 0..Len(s) /\ mid \in start..Len(s)
    BY <1>1, <1>2 DEF n
  <2> QED BY <2>1, SubRun, SMTT(30)
<1>4. /\ right \in Seq(M) /\ Len(right) = end - mid
      /\ \A i \in 1..end - mid : right[i] = s[mid + i]
      /\ Elements(right) = {s[i] : i \in mid + 1..end}
  <2>1. mid \in 0..Len(s) /\ end \in mid..Len(s)
    BY <1>1, <1>2 DEF n
  <2> QED BY <2>1, SubRun, SMTT(30)
<1>7. pair = Merge(left, right)
  OBVIOUS
<1> HIDE DEF left, right, pair
<1>5. /\ pair \in Seq(M) /\ Len(pair) = end - start
      /\ Elements(pair) = {s[i] : i \in start + 1..end}
  <2>1. /\ pair \in Seq(M) /\ Len(pair) = Len(left) + Len(right)
        /\ Elements(pair) = Elements(left) \cup Elements(right)
    <3>1. left \in Seq(M) /\ right \in Seq(M)
      BY <1>3, <1>4
    <3>2. Joins(M, pair, left, right)
      BY <1>7, <3>1, MergeElements
    <3> QED BY <3>2 DEF Joins
  <2>2. \A i : i \in start + 1..end <=> i \in start + 1..mid \/ i \in mid + 1..end
    BY <1>1, <1>2
  <2>3. Elements(pair) = {s[i] : i \in start + 1..end}
    BY <1>3, <1>4, <2>1, <2>2
  <2>4. Len(pair) = end - start
    BY <1>1, <1>2, <1>3, <1>4, <2>1
  <2> QED BY <2>1, <2>3, <2>4
<1>6. ASSUME Runs(s, width) PROVE Ordered(pair)
  <2>1. 2 * q \in Nat /\ 2 * q + 1 \in Nat /\ width * (2 * q) = start
        /\ width * (2 * q + 1) = start + width
    BY <1>0
  <2>2. Ordered(left)
    <3> SUFFICES ASSUME NEW i \in 1..mid - start, NEW j \in 1..mid - start, i <= j
                 PROVE  AtMost(s[start + i], s[start + j])
      BY <1>3 DEF Ordered
    <3>1. /\ start + i \in 1..n /\ start + j \in 1..n
          /\ start < start + i /\ start + i <= start + j /\ start + j <= start + width
      BY <1>1, <1>2
    <3> QED BY <1>6, <2>1, <3>1 DEF Runs, n
  <2>3. Ordered(right)
    <3> SUFFICES ASSUME NEW i \in 1..end - mid, NEW j \in 1..end - mid, i <= j
                 PROVE  AtMost(s[mid + i], s[mid + j])
      BY <1>4 DEF Ordered
    <3>1. mid = start + width
      BY <1>1, <1>2
    <3>2. /\ mid + i \in 1..n /\ mid + j \in 1..n
          /\ mid < mid + i /\ mid + i <= mid + j /\ mid + j <= mid + width
      BY <1>1, <1>2, <3>1
    <3> QED BY <1>6, <2>1, <3>1, <3>2 DEF Runs, n
  <2>4. left \in Seq(M) /\ right \in Seq(M)
    BY <1>3, <1>4
  <2> QED BY <1>7, <2>2, <2>3, <2>4, MergeOrdered
<1> QED BY <1>5, <1>6 DEF pair, left, right, mid, end, n, PairAt, PairSound

\* A sweep keeps the members and doubles the length of the runs in order.
LEMMA PassFacts ==
  ASSUME NEW M, Comparable(M), NEW s \in Seq(M), NEW width \in Nat \ {0},
         NEW t, t = MergePass(s, width)
  PROVE  /\ t \in Seq(M) /\ Len(t) = Len(s) /\ Elements(t) = Elements(s)
         /\ Runs(s, width) => Runs(t, 2 * width)
<1> DEFINE n == Len(s)
           W == 2 * width
           Start(at) == W * ((at - 1) \div W)
           end(start) == Least2(start + W, n)
<1>1. n \in Nat /\ W \in Nat \ {0} /\ \A i \in 1..n : s[i] \in M
  BY LenProperties, ElementOfSeq
<1>2. t = [at \in 1..n |-> PairAt(s, width, Start(at))[at - Start(at)]]
  BY DEF MergePass, PairAt, Least2
<1>3. ASSUME NEW at \in 1..n
      PROVE  /\ Start(at) \in Nat /\ (at - 1) \div W \in Nat
             /\ Start(at) < at /\ at <= Start(at) + W
  <2>1. at - 1 \in Nat
    BY <1>1
  <2> HIDE DEF W
  <2>2. /\ (at - 1) \div W \in Nat /\ Start(at) \in Nat
        /\ Start(at) <= at - 1 /\ at - 1 < Start(at) + W
    BY <1>1, <2>1, Block
  <2> HIDE DEF Start
  <2> QED BY <1>1, <2>2
<1>4. ASSUME NEW at \in 1..n, NEW k \in Nat, W * k < at, at <= W * k + W PROVE Start(at) = W * k
  <2>1. at - 1 \in Nat /\ W * k <= at - 1 /\ at - 1 < W * k + W
    BY <1>1, <1>4
  <2> HIDE DEF W
  <2> QED BY <1>1, <2>1, BlockUnique
<1>5. ASSUME NEW at \in 1..n, NEW st, st = Start(at), NEW pair, pair = PairAt(s, width, st)
      PROVE  /\ pair \in Seq(M) /\ Len(pair) = end(st) - st
             /\ Elements(pair) = {s[i] : i \in st + 1..end(st)}
             /\ Runs(s, width) => Ordered(pair)
  <2>1. PICK q \in Nat : q = (at - 1) \div W
    BY <1>3
  <2>2. Aligned(width, st) /\ st < Len(s)
    <3>1. st = 2 * width * q
      BY <1>5, <2>1
    <3>2. Start(at) < at /\ Start(at) \in Nat
      BY <1>3
    <3> HIDE DEF Start
    <3>3. st < Len(s)
      BY <1>1, <1>5, <3>2
    <3> QED BY <3>1, <3>3 DEF Aligned
  <2>3. PairSound(M, s, width, st)
    BY <2>2, PairFacts
  <2> QED BY <1>5, <2>3 DEF PairSound
<1>6. ASSUME NEW at \in 1..n
      PROVE  /\ end(Start(at)) \in Nat /\ end(Start(at)) <= n /\ end(Start(at)) <= Start(at) + W
             /\ at \in Start(at) + 1..end(Start(at))
             /\ at - Start(at) \in 1..end(Start(at)) - Start(at)
  <2>1. PICK st \in Nat : st = Start(at) /\ st < at /\ at <= st + W
    BY <1>3
  <2>2. end(st) \in Nat /\ end(st) <= n /\ end(st) <= st + W /\ at <= end(st)
    BY <1>1, <2>1 DEF Least2
  <2> HIDE DEF end, Start
  <2> QED BY <1>1, <2>1, <2>2
<1> HIDE DEF W, Start, end
<1>7. ASSUME NEW at \in 1..n PROVE \E i \in 1..n : t[at] = s[i]
  <2>1. PICK st : st = Start(at)
    OBVIOUS
  <2>2. PICK pair : pair = PairAt(s, width, st)
    OBVIOUS
  <2>3. t[at] = pair[at - st] /\ at - st \in 1..Len(pair)
    BY <1>2, <1>5, <1>6, <2>1, <2>2
  <2>4. t[at] \in {s[i] : i \in st + 1..end(st)}
    <3>1. t[at] \in Elements(pair)
      BY <2>3 DEF Elements
    <3> QED BY <1>5, <2>1, <2>2, <3>1
  <2>5. \A i \in st + 1..end(st) : i \in 1..n
    BY <1>1, <1>3, <1>6, <2>1
  <2> QED BY <2>4, <2>5
<1>8. ASSUME NEW i \in 1..n PROVE \E at \in 1..n : t[at] = s[i]
  <2>1. PICK st \in Nat : st = Start(i) /\ st < i /\ i <= st + W
    BY <1>3
  <2>2. PICK pair : pair = PairAt(s, width, st)
    OBVIOUS
  <2>3. s[i] \in Elements(pair) /\ Len(pair) = end(st) - st
    <3>1. i \in st + 1..end(st)
      BY <1>6, <2>1
    <3>2. Len(pair) = end(st) - st /\ Elements(pair) = {s[j] : j \in st + 1..end(st)}
      BY <1>5, <2>1, <2>2
    <3> QED BY <3>1, <3>2
  <2>4. PICK d \in 1..end(st) - st : pair[d] = s[i]
    <3>1. \E d \in 1..Len(pair) : s[i] = pair[d]
      BY <2>3 DEF Elements
    <3>2. Len(pair) = end(st) - st
      BY <2>3
    <3> QED BY <3>1, <3>2
  <2>5. /\ st + d \in 1..n /\ st < st + d /\ st + d <= st + W /\ (st + d) - st = d
    <3>1. PICK e \in Nat : e = end(st) /\ e <= n /\ e <= st + W
      BY <1>6, <2>1
    <3>2. d \in 1..e - st
      BY <3>1
    <3> QED BY <1>1, <3>1, <3>2
  <2>6. Start(st + d) = st
    <3>1. PICK q \in Nat : st = W * q
      BY <1>3, <2>1 DEF Start
    <3> QED BY <1>4, <2>5, <3>1
  <2> QED BY <1>2, <2>2, <2>4, <2>5, <2>6
<1>9. t \in Seq(M) /\ Len(t) = n
  <2>1. \A at \in 1..n : t[at] \in M
    BY <1>1, <1>7
  <2>2. t = [at \in 1..n |-> t[at]]
    BY <1>2
  <2> HIDE DEF n
  <2> QED BY <1>1, <2>1, <2>2
<1>10. Elements(t) = Elements(s)
  <2>1. ASSUME NEW x \in Elements(t) PROVE x \in Elements(s)
    BY <1>7, <1>9 DEF Elements
  <2>2. ASSUME NEW x \in Elements(s) PROVE x \in Elements(t)
    BY <1>8, <1>9 DEF Elements
  <2> QED BY <2>1, <2>2
<1>11. ASSUME Runs(s, width), NEW k \in Nat, NEW i \in 1..n, NEW j \in 1..n,
              W * k < i, i <= j, j <= W * k + W
       PROVE  AtMost(t[i], t[j])
  <2>1. PICK st \in Nat : st = W * k
    BY <1>1
  <2>2. Start(i) = st /\ Start(j) = st
    <3>1. i <= W * k + W /\ W * k < j
      BY <1>1, <1>11, <2>1
    <3> QED BY <1>4, <1>11, <2>1, <3>1
  <2>3. PICK pair : pair = PairAt(s, width, st)
    OBVIOUS
  <2>4. Ordered(pair) /\ i - st \in 1..Len(pair) /\ j - st \in 1..Len(pair)
    BY <1>5, <1>6, <1>11, <2>2, <2>3
  <2>5. i - st <= j - st
    BY <1>1, <1>11, <2>1
  <2> QED BY <1>2, <2>2, <2>3, <2>4, <2>5 DEF Ordered
<1> QED BY <1>9, <1>10, <1>11 DEF Runs, W

\* The outer loop.
SweepLoop(f, members) ==
  /\ f[0] = [order |-> members, width |-> 1]
  /\ \A i \in 1..Len(members) :
       f[i] = IF f[i - 1].width >= Len(members) THEN f[i - 1]
              ELSE [order |-> MergePass(f[i - 1].order, f[i - 1].width),
                    width |-> 2 * f[i - 1].width]

LEMMA SortSweeps ==
  ASSUME NEW M, Comparable(M), NEW members \in Seq(M)
  PROVE  \E f : SweepLoop(f, members) /\ SortKeys(members) = f[Len(members)].order
<1> DEFINE n == Len(members)
           D == 0..n
           V == [order : Seq(M), width : Nat \ {0}]
           Start == [order |-> members, width |-> 1]
           Sweep(r) == IF r.width >= n THEN r
                       ELSE [order |-> MergePass(r.order, r.width), width |-> 2 * r.width]
           swept[i \in D] ==
             IF i = 0 THEN [order |-> members, width |-> 1]
             ELSE IF swept[i - 1].width >= n THEN swept[i - 1]
             ELSE [order |-> MergePass(swept[i - 1].order, swept[i - 1].width),
                   width |-> 2 * swept[i - 1].width]
<1>1. n \in Nat
  BY LenProperties
<1>2. Start \in V
  OBVIOUS
<1>3. ASSUME NEW r \in V PROVE Sweep(r) \in V
  <2>1. r.order \in Seq(M) /\ r.width \in Nat \ {0}
    OBVIOUS
  <2>2. MergePass(r.order, r.width) \in Seq(M)
    BY <2>1, PassFacts
  <2>3. 2 * r.width \in Nat \ {0}
    BY <2>1
  <2> QED BY <2>2, <2>3
<1>4. \E f : f = [i \in D |-> IF i = 0 THEN Start ELSE Sweep(f[i - 1])]
  <2> HIDE DEF V, Start, Sweep
  <2> DEFINE m == [i \in D |-> i]
             G == [g \in [D -> V] |-> [i \in D |-> IF i = 0 THEN Start ELSE Sweep(g[i - 1])]]
  <2>1. m \in [D -> 0..n]
    OBVIOUS
  <2>2. G \in [[D -> V] -> [D -> V]]
    <3>1. \A i \in D : i = 0 \/ i - 1 \in D
      BY <1>1
    <3>2. ASSUME NEW g \in [D -> V], NEW i \in D
          PROVE  (IF i = 0 THEN Start ELSE Sweep(g[i - 1])) \in V
      BY <1>2, <1>3, <3>1
    <3> QED BY <3>2
  <2>3. ASSUME NEW g \in [D -> V], NEW h \in [D -> V], NEW i \in D,
               \A j \in D : m[j] < m[i] => g[j] = h[j]
        PROVE  G[g][i] = G[h][i]
    <3>1. i # 0 => i - 1 \in D /\ m[i - 1] < m[i]
      BY <1>1
    <3>2. i # 0 => g[i - 1] = h[i - 1]
      BY <2>3, <3>1
    <3> QED BY <3>2
  <2>4. V # {} /\ n \in Nat
    BY <1>1, <1>2
  <2>5. \A g, h \in [D -> V], i \in D :
          (\A j \in D : m[j] < m[i] => g[j] = h[j]) => G[g][i] = G[h][i]
    BY <2>3
  <2> HIDE DEF m, G, D, n
  <2>6. Defines(G, D, V, m, n)
    BY <2>1, <2>2, <2>4, <2>5 DEF Defines
  <2>7. \E f \in [D -> V] : f = G[f]
    BY <2>6, Recursion
  <2> QED BY <2>7 DEF G
<1>5. \E f : f = [i \in D |->
             IF i = 0 THEN [order |-> members, width |-> 1]
             ELSE IF f[i - 1].width >= n THEN f[i - 1]
             ELSE [order |-> MergePass(f[i - 1].order, f[i - 1].width),
                   width |-> 2 * f[i - 1].width]]
  BY <1>4
<1>6. swept = [i \in D |->
             IF i = 0 THEN [order |-> members, width |-> 1]
             ELSE IF swept[i - 1].width >= n THEN swept[i - 1]
             ELSE [order |-> MergePass(swept[i - 1].order, swept[i - 1].width),
                   width |-> 2 * swept[i - 1].width]]
  BY <1>5 DEF swept
<1>7. SortKeys(members) = swept[n].order
  BY DEF SortKeys
<1> HIDE DEF swept
<1>8. SweepLoop(swept, members)
  <2>1. 0 \in D /\ \A i \in 1..n : i \in D /\ i # 0
    BY <1>1
  <2>2. swept[0] = [order |-> members, width |-> 1]
    BY <1>6, <2>1
  <2>3. ASSUME NEW i \in 1..n
        PROVE swept[i] = IF swept[i - 1].width >= n THEN swept[i - 1]
             ELSE [order |-> MergePass(swept[i - 1].order, swept[i - 1].width),
                   width |-> 2 * swept[i - 1].width]
    BY <1>6, <2>1
  <2> QED BY <2>2, <2>3 DEF SweepLoop
<1> QED BY <1>7, <1>8

Sorts(M, t, members) ==
  /\ t \in Seq(M) /\ Len(t) = Len(members) /\ Elements(t) = Elements(members)
  /\ Ordered(t)

\* The bottom-up merge sort: whatever the number of members, the runs in order
\* double in length until there is one.
LEMMA SortFacts ==
  ASSUME NEW M, Comparable(M), NEW members \in Seq(M)
  PROVE  Sorts(M, SortKeys(members), members)
<1> DEFINE n == Len(members)
<1>1. n \in Nat
  BY LenProperties
<1>2. PICK f : SweepLoop(f, members) /\ SortKeys(members) = f[n].order
  BY SortSweeps
<1> DEFINE Held(r, i) ==
             /\ r = [order |-> r.order, width |-> r.width]
             /\ r.order \in Seq(M) /\ Len(r.order) = n
             /\ Elements(r.order) = Elements(members)
             /\ r.width \in Nat \ {0} /\ Runs(r.order, r.width)
             /\ r.width >= n \/ r.width > i
           T == {i \in 0..n : Held(f[i], i)}
<1>3. 0 \in T
  <2>1. f[0].order = members /\ f[0].width = 1
        /\ f[0] = [order |-> f[0].order, width |-> f[0].width]
    BY <1>2 DEF SweepLoop
  <2>2. Runs(members, 1)
    <3> SUFFICES ASSUME NEW k \in Nat, NEW i \in 1..n, NEW j \in 1..n,
                        1 * k < i, i <= j, j <= 1 * k + 1
                 PROVE  AtMost(members[i], members[j])
      BY DEF Runs
    <3>1. i = j
      BY <1>1
    <3>2. members[i] \in M
      BY ElementOfSeq
    <3> QED BY <3>1, <3>2 DEF Comparable
  <2> QED BY <1>1, <2>1, <2>2
<1>4. ASSUME NEW i \in 1..n, i - 1 \in T PROVE i \in T
  <2>1. PICK r : r = f[i - 1] /\ Held(r, i - 1)
    BY <1>4
  <2>2. f[i] = IF r.width >= n THEN r
               ELSE [order |-> MergePass(r.order, r.width), width |-> 2 * r.width]
    BY <1>2, <2>1 DEF SweepLoop
  <2>3. CASE r.width >= n
    <3>1. Held(r, i) /\ f[i] = r
      BY <2>1, <2>2, <2>3
    <3> HIDE DEF Held
    <3> QED BY <1>1, <3>1
  <2>4. CASE ~(r.width >= n)
    <3>1. PICK t : t = MergePass(r.order, r.width)
      OBVIOUS
    <3>2. /\ t \in Seq(M) /\ Len(t) = n /\ Elements(t) = Elements(members)
          /\ Runs(t, 2 * r.width)
      <4>1. r.order \in Seq(M) /\ r.width \in Nat \ {0} /\ Runs(r.order, r.width)
            /\ Len(r.order) = n /\ Elements(r.order) = Elements(members)
        BY <2>1
      <4> HIDE DEF Held, n
      <4> QED BY <3>1, <4>1, PassFacts
    <3>3. f[i].order = t /\ f[i].width = 2 * r.width
          /\ f[i] = [order |-> f[i].order, width |-> f[i].width]
      BY <2>2, <2>4, <3>1
    <3>4. 2 * r.width \in Nat \ {0} /\ 2 * r.width > i
      <4>1. r.width \in Nat \ {0} /\ r.width > i - 1
        BY <2>1, <2>4
      <4> QED BY <1>1, <4>1
    <3>5. Held(f[i], i)
      BY <3>2, <3>3, <3>4
    <3> HIDE DEF Held
    <3> QED BY <1>1, <3>5
  <2> QED BY <2>3, <2>4
<1>5. Held(f[n], n)
  <2> HIDE DEF Held
  <2>1. 0..n \subseteq T
    BY <1>1, <1>3, <1>4, IntervalInduction
  <2> QED BY <1>1, <2>1
<1>6. PICK t : t = f[n].order
  OBVIOUS
<1>7. Ordered(t)
  <2>1. PICK w \in Nat \ {0} : w >= n /\ Runs(t, w) /\ Len(t) = n
    BY <1>1, <1>5, <1>6
  <2> SUFFICES ASSUME NEW i \in 1..n, NEW j \in 1..n, i <= j PROVE AtMost(t[i], t[j])
    BY <2>1 DEF Ordered
  <2>2. 0 \in Nat /\ w * 0 < i /\ j <= w * 0 + w
    BY <1>1, <2>1
  <2> QED BY <2>1, <2>2 DEF Runs
<1> QED BY <1>2, <1>5, <1>6, <1>7 DEF Sorts

LEMMA KeysComparable == ASSUME NEW S PROVE Comparable(StringSet \X S)
<1>1. ASSUME NEW k \in StringSet PROVE Rank(k) \in Int
  <2>1. Len(Strings) \in Nat
    BY JsonAssumption, LenProperties
  <2>2. \E i \in 1..Len(Strings) : Strings[i] = k
    BY DEF StringSet
  <2>3. Rank(k) \in 1..Len(Strings)
    BY <2>2 DEF Rank
  <2> QED BY <2>1, <2>3
<1>2. \A m \in StringSet \X S : Rank(m[1]) \in Int
  BY <1>1
<1> QED BY <1>2 DEF Comparable, AtMost

\* No two members have the same key.
KeysOnce(members) ==
  \A i, j \in 1..Len(members) : members[i][1] = members[j][1] => i = j

\* tamga_json_sort_keys, for objects of any size: the members of the object,
\* each once, in the byte order of their keys.
THEOREM KeysAreSorted ==
  ASSUME NEW S, NEW members \in Seq(StringSet \X S), KeysOnce(members)
  PROVE  LET sorted == SortKeys(members)
         IN /\ sorted \in Seq(StringSet \X S) /\ Len(sorted) = Len(members)
            /\ Elements(sorted) = Elements(members)
            /\ \A i, j \in 1..Len(sorted) : i < j => Rank(sorted[i][1]) < Rank(sorted[j][1])
<1> DEFINE M == StringSet \X S
           n == Len(members)
           E == Elements(members)
<1>1. PICK t : t = SortKeys(members)
  OBVIOUS
<1>2. t \in Seq(M) /\ Len(t) = n /\ Elements(t) = E /\ Ordered(t)
  <2>1. Sorts(M, t, members)
    BY <1>1, KeysComparable, SortFacts
  <2> QED BY <2>1 DEF Sorts
<1>3. n \in Nat /\ IsFiniteSet(1..n) /\ Cardinality(1..n) = n
  <2>1. n \in Nat
    BY LenProperties
  <2> HIDE DEF n
  <2>2. IsFiniteSet(1..n) /\ Cardinality(1..n) = IF 1 > n THEN 0 ELSE n - 1 + 1
    BY <2>1, FS_Interval
  <2> QED BY <2>1, <2>2
\* As many members as positions, so none is there twice.
<1>4. IsFiniteSet(E) /\ Cardinality(E) = n
  <2> DEFINE g == [i \in 1..n |-> members[i]]
  <2>1. g \in [1..n -> E]
    BY DEF Elements
  <2>2. \A i, j \in 1..n : g[i] = g[j] => i = j
    BY DEF KeysOnce
  <2>3. \A x \in E : \E i \in 1..n : g[i] = x
    BY DEF Elements
  <2>4. g \in Surjection(1..n, E) /\ g \in Injection(1..n, E)
    BY <2>1, <2>2, <2>3 DEF Surjection, Injection, IsInjective
  <2> HIDE DEF g, n, E
  <2>5. IsFiniteSet(E) /\ (Cardinality(E) = Cardinality(1..n) <=> g \in Injection(1..n, E))
    BY <1>3, <2>4, FS_Surjection
  <2> QED BY <1>3, <2>4, <2>5
<1>5. \A i, j \in 1..n : t[i] = t[j] => i = j
  <2> DEFINE g == [i \in 1..n |-> t[i]]
  <2>1. g \in [1..n -> E] /\ \A x \in E : \E i \in 1..n : g[i] = x
    <3>1. E = {t[i] : i \in 1..n}
      BY <1>2 DEF Elements
    <3> HIDE DEF E, n
    <3> QED BY <3>1
  <2>2. g \in Surjection(1..n, E)
    BY <2>1 DEF Surjection
  <2> HIDE DEF n, E
  <2>3. g \in Injection(1..n, E)
    <3> HIDE DEF g
    <3> QED BY <1>3, <1>4, <2>2, FS_Surjection
  <2> QED BY <2>3 DEF Injection, IsInjective
<1>6. ASSUME NEW k \in StringSet PROVE Rank(k) \in Int /\ Strings[Rank(k)] = k
  <2>1. Len(Strings) \in Nat
    BY JsonAssumption, LenProperties
  <2>2. \E i \in 1..Len(Strings) : Strings[i] = k
    BY DEF StringSet
  <2>3. Rank(k) \in 1..Len(Strings) /\ Strings[Rank(k)] = k
    BY <2>2 DEF Rank
  <2> QED BY <2>1, <2>3
<1>7. ASSUME NEW i \in 1..n, NEW j \in 1..n, i < j PROVE Rank(t[i][1]) < Rank(t[j][1])
  <2>1. t[i] \in M /\ t[j] \in M /\ t[i] \in E /\ t[j] \in E
    BY <1>2, ElementOfSeq DEF Elements
  <2>2. Rank(t[i][1]) \in Int /\ Rank(t[j][1]) \in Int
    BY <1>6, <2>1
  <2>3. Rank(t[i][1]) <= Rank(t[j][1])
    <3>1. i <= j
      BY <1>3, <1>7
    <3> QED BY <1>2, <3>1 DEF Ordered, AtMost
  <2>4. ASSUME Rank(t[i][1]) = Rank(t[j][1]) PROVE FALSE
    <3>1. t[i][1] = t[j][1]
      BY <1>6, <2>1, <2>4
    <3>2. PICK a \in 1..n : t[i] = members[a]
      BY <2>1 DEF Elements
    <3>3. PICK b \in 1..n : t[j] = members[b]
      BY <2>1 DEF Elements
    <3>4. a = b
      BY <3>1, <3>2, <3>3 DEF KeysOnce
    <3> QED BY <1>3, <1>5, <1>7, <3>2, <3>3, <3>4
  <2> QED BY <2>2, <2>3, <2>4
<1> QED BY <1>1, <1>2, <1>7

-----------------------------------------------------------------------------
(* Trees and the containers being read.                                      *)

Arrays(S) == [kind : {"array"}, body : Seq(S), blocks : Nat, key : {"none"}]
Objects(S) ==
  [kind : {"object"}, body : {b \in Seq(StringSet \X S) : KeysOnce(b)}, blocks : Nat,
   key : StringSet \cup {"none"}]
Frames(S) == Arrays(S) \cup Objects(S)
Sized(f) == f.blocks = 1 + Total(Counts(f.kind, f.body))

\* S holds the values it is built from: leaves, and containers of values of S
\* that are counted as they should be.
Closed(S) ==
  \A v \in S : /\ Blocks(v) \in Nat
               /\ \/ \E t \in Leaves : v = Leaf(t)
                  \/ \E f \in Frames(S) : Sized(f) /\ v = ValueOf(f)

Weight(s) == Total([i \in 1..Len(s) |-> FrameBlocks(s[i])])

LEMMA FrameNat ==
  ASSUME NEW S, NEW f \in Frames(S)
  PROVE  /\ FrameBlocks(f) \in Nat /\ f.blocks \in Nat /\ f.kind \in {"array", "object"}
         /\ f.key \in StringSet \cup {"none"}
         /\ FrameBlocks(f) = f.blocks + (IF f.key # "none" THEN 1 ELSE 0)
         /\ f.kind = "array" => f \in Arrays(S) /\ f.key = "none" /\ f.body \in Seq(S)
         /\ f.kind = "object" =>
              f \in Objects(S) /\ f.body \in Seq(StringSet \X S) /\ KeysOnce(f.body)
  BY DEF FrameBlocks, Frames, Arrays, Objects

LEMMA NoneApart == \A k \in StringSet : k # "none"
  BY TokensAssumption

LEMMA Weights ==
  ASSUME NEW S, NEW s \in Seq(Frames(S))
  PROVE  /\ [i \in 1..Len(s) |-> FrameBlocks(s[i])] \in Seq(Nat)
         /\ Len([i \in 1..Len(s) |-> FrameBlocks(s[i])]) = Len(s)
         /\ Weight(s) \in Nat
<1> DEFINE w == [i \in 1..Len(s) |-> FrameBlocks(s[i])]
<1>1. Len(s) \in Nat /\ \A i \in 1..Len(s) : FrameBlocks(s[i]) \in Nat
  BY LenProperties, ElementOfSeq, FrameNat
<1>2. w \in Seq(Nat) /\ Len(w) = Len(s)
  BY <1>1, IsASeq, LenProperties
<1> HIDE DEF w
<1>3. Total(w) \in Nat
  BY <1>2, TotalNat
<1> QED BY <1>2, <1>3 DEF w, Weight

\* Opening a container.
Pushed(S, s, f, t) ==
  /\ t \in Seq(Frames(S)) /\ Len(t) = Len(s) + 1 /\ t[Len(t)] = f /\ t # <<>>
  /\ \A i \in 1..Len(s) : t[i] = s[i]
  /\ Weight(t) = Weight(s) + FrameBlocks(f)

LEMMA PushFacts ==
  ASSUME NEW S, NEW s \in Seq(Frames(S)), NEW f \in Frames(S), NEW t, t = Append(s, f)
  PROVE  Pushed(S, s, f, t)
<1>1. /\ t \in Seq(Frames(S)) /\ Len(t) = Len(s) + 1 /\ t[Len(s) + 1] = f
      /\ \A i \in 1..Len(s) : t[i] = s[i]
  BY AppendProperties
<1>2. Len(s) \in Nat
  BY LenProperties
<1> DEFINE u == [i \in 1..Len(s) |-> FrameBlocks(s[i])]
           v == [i \in 1..Len(t) |-> FrameBlocks(t[i])]
<1>3. u \in Seq(Nat) /\ v \in Seq(Nat) /\ Len(u) = Len(s) /\ Len(v) = Len(t)
  BY <1>1, Weights
<1>4. (\A i \in 1..Len(s) : u[i] = v[i]) /\ v[Len(t)] = FrameBlocks(f)
  BY <1>1, <1>2
<1>5. Weight(s) = Total(u) /\ Weight(t) = Total(v)
  BY DEF Weight
<1> HIDE DEF u, v
<1>6. Total(v) = Total(u) + v[Len(v)]
  BY <1>1, <1>3, <1>4, TotalLast
<1>7. t # <<>>
  BY <1>1, <1>2
<1> QED BY <1>1, <1>3, <1>4, <1>5, <1>6, <1>7 DEF Pushed

\* Leaving one.
Popped(S, s, t) ==
  /\ t \in Seq(Frames(S)) /\ Len(s) \in Nat \ {0} /\ Len(t) = Len(s) - 1
  /\ s[Len(s)] \in Frames(S)
  /\ \A i \in 1..Len(s) - 1 : t[i] = s[i]
  /\ Weight(s) = Weight(t) + FrameBlocks(s[Len(s)])

LEMMA PopFacts ==
  ASSUME NEW S, NEW s \in Seq(Frames(S)), s # <<>>, NEW t, t = SubSeq(s, 1, Len(s) - 1)
  PROVE  Popped(S, s, t)
<1>1. Len(s) \in Nat \ {0}
  BY LenProperties, EmptySeq
<1>2. /\ t \in Seq(Frames(S)) /\ Len(t) = Len(s) - 1
      /\ \A i \in 1..Len(s) - 1 : t[i] = s[i]
  <2> DEFINE n == Len(s) - 1
  <2>1. n \in Int /\ (\A i \in 1..n : s[i] \in Frames(S)) /\ t = SubSeq(s, 1, n)
        /\ (n \in Nat) /\ \A i \in 1..n : 1 + i - 1 = i
    BY <1>1, ElementOfSeq
  <2> HIDE DEF n
  <2>2. /\ t \in Seq(Frames(S)) /\ Len(t) = IF 1 <= n THEN n - 1 + 1 ELSE 0
        /\ \A i \in 1..n - 1 + 1 : t[i] = s[1 + i - 1]
    BY <2>1, SubSeqProperties
  <2>3. Len(t) = n /\ \A i \in 1..n : t[i] = s[i]
    <3>1. n - 1 + 1 = n
      BY <2>1
    <3> QED BY <2>1, <2>2, <3>1
  <2> QED BY <2>2, <2>3 DEF n
<1> DEFINE u == [i \in 1..Len(t) |-> FrameBlocks(t[i])]
           v == [i \in 1..Len(s) |-> FrameBlocks(s[i])]
<1>3. u \in Seq(Nat) /\ v \in Seq(Nat) /\ Len(u) = Len(t) /\ Len(v) = Len(s)
  BY <1>2, Weights
<1>4. (\A i \in 1..Len(t) : u[i] = v[i]) /\ v[Len(s)] = FrameBlocks(s[Len(s)])
  BY <1>1, <1>2
<1>5. Weight(s) = Total(v) /\ Weight(t) = Total(u)
  BY DEF Weight
<1>6. s[Len(s)] \in Frames(S)
  BY <1>1, ElementOfSeq
<1>7. Len(v) = Len(u) + 1
  BY <1>1, <1>2, <1>3
<1> HIDE DEF u, v
<1>8. Total(v) = Total(u) + v[Len(v)]
  BY <1>2, <1>3, <1>4, <1>7, TotalLast
<1> QED BY <1>1, <1>2, <1>3, <1>4, <1>5, <1>6, <1>8 DEF Popped

\* Adding to the innermost one.
Topped(S, s, f, t) ==
  /\ t \in Seq(Frames(S)) /\ Len(s) \in Nat \ {0} /\ Len(t) = Len(s)
  /\ t[Len(t)] = f /\ s[Len(s)] \in Frames(S) /\ t # <<>>
  /\ \A i \in 1..Len(s) - 1 : t[i] = s[i]
  /\ Weight(t) = Weight(s) + FrameBlocks(f) - FrameBlocks(s[Len(s)])
  /\ FrameBlocks(s[Len(s)]) <= Weight(s)

LEMMA SetFacts ==
  ASSUME NEW S, NEW s \in Seq(Frames(S)), s # <<>>, NEW f \in Frames(S), NEW t,
         t = [s EXCEPT ![Len(s)] = f]
  PROVE  Topped(S, s, f, t)
<1>1. Len(s) \in Nat \ {0} /\ DOMAIN s = 1..Len(s)
  BY LenProperties, EmptySeq
<1>0. Len(s) \in 1..Len(s)
  BY <1>1
<1>2. t \in Seq(Frames(S)) /\ Len(t) = Len(s)
  BY <1>0, ExceptSeq
<1>3. t[Len(s)] = f /\ \A i \in 1..Len(s) : i # Len(s) => t[i] = s[i]
  BY <1>0, ExceptSeq
<1> DEFINE u == [i \in 1..Len(t) |-> FrameBlocks(t[i])]
           v == [i \in 1..Len(s) |-> FrameBlocks(s[i])]
<1>4. v \in Seq(Nat) /\ Len(v) = Len(s)
  BY <1>2, Weights
<1>5. u = [v EXCEPT ![Len(s)] = FrameBlocks(f)] /\ v[Len(s)] = FrameBlocks(s[Len(s)])
  <2> DEFINE n == Len(s)
             z == [v EXCEPT ![n] = FrameBlocks(f)]
  <2>1. DOMAIN z = 1..n /\ DOMAIN u = 1..n
    BY <1>2
  <2>2. ASSUME NEW i \in 1..n PROVE u[i] = z[i]
    <3>1. u[i] = FrameBlocks(t[i]) /\ v[i] = FrameBlocks(s[i]) /\ DOMAIN v = 1..n
      BY <1>2
    <3>2. i = n => u[i] = FrameBlocks(f) /\ z[i] = FrameBlocks(f)
      BY <1>3, <3>1
    <3>3. i # n => u[i] = v[i] /\ z[i] = v[i]
      BY <1>3, <3>1
    <3> QED BY <3>2, <3>3
  <2>3. u = [i \in 1..n |-> u[i]] /\ z = [i \in 1..n |-> z[i]]
    <3>1. v = [i \in 1..n |-> v[i]] /\ u = [i \in 1..n |-> u[i]]
      BY <1>2
    <3> HIDE DEF u, v, n
    <3> QED BY <3>1
  <2>4. u = z
    <3> HIDE DEF u, z, n
    <3> QED BY <2>2, <2>3
  <2> QED BY <1>0, <2>4
<1>6. FrameBlocks(f) \in Nat /\ s[Len(s)] \in Frames(S)
  BY <1>0, FrameNat, ElementOfSeq
<1>7. Weight(s) = Total(v) /\ Weight(t) = Total(u)
  BY DEF Weight
<1>8. Len(s) \in 1..Len(v)
  BY <1>1, <1>4
<1> HIDE DEF u, v
<1>9. Total(u) = Total(v) + FrameBlocks(f) - v[Len(s)] /\ v[Len(s)] <= Total(v)
  BY <1>4, <1>5, <1>6, <1>8, TotalExcept
<1>10. t # <<>>
  BY <1>1, <1>2
<1>11. \A i \in 1..Len(s) - 1 : t[i] = s[i]
  <2>1. ASSUME NEW n \in Nat PROVE \A i \in 1..n - 1 : i \in 1..n /\ i # n
    OBVIOUS
  <2> QED BY <1>1, <1>3, <2>1
<1>12. Weight(t) = Weight(s) + FrameBlocks(f) - FrameBlocks(s[Len(s)])
       /\ FrameBlocks(s[Len(s)]) <= Weight(s)
  BY <1>5, <1>7, <1>9
<1> QED BY <1>1, <1>2, <1>3, <1>6, <1>10, <1>11, <1>12 DEF Topped

Countable(S) == \A v \in S : Blocks(v) \in Nat

LEMMA ArrayCounts ==
  ASSUME NEW S, Countable(S), NEW b \in Seq(S)
  PROVE  Counts("array", b) \in Seq(Nat) /\ Len(Counts("array", b)) = Len(b)
<1>1. Len(b) \in Nat /\ DOMAIN b = 1..Len(b) /\ \A i \in 1..Len(b) : Blocks(b[i]) \in Nat
  BY LenProperties, ElementOfSeq DEF Countable
<1>2. Counts("array", b) = [i \in 1..Len(b) |-> Blocks(b[i])]
  BY <1>1 DEF Counts
<1> QED BY <1>1, <1>2

LEMMA ObjectCounts ==
  ASSUME NEW S, Countable(S), NEW b \in Seq(StringSet \X S)
  PROVE  /\ Counts("object", b) \in Seq(Nat) /\ Len(Counts("object", b)) = Len(b)
         /\ \A i \in 1..Len(b) : /\ Counts("object", b)[i] = 1 + Blocks(b[i][2])
                                 /\ b[i][2] \in S /\ b[i][1] \in StringSet
<1>1. Len(b) \in Nat /\ DOMAIN b = 1..Len(b)
      /\ \A i \in 1..Len(b) : b[i][2] \in S /\ b[i][1] \in StringSet
  BY LenProperties, ElementOfSeq
<1>2. Counts("object", b) = [i \in 1..Len(b) |-> 1 + Blocks(b[i][2])]
  BY <1>1 DEF Counts
<1>3. \A i \in 1..Len(b) : 1 + Blocks(b[i][2]) \in Nat
  BY <1>1 DEF Countable
<1> DEFINE c == [i \in 1..Len(b) |-> 1 + Blocks(b[i][2])]
<1>4. c \in Seq(Nat) /\ Len(c) = Len(b)
  BY <1>1, <1>3
<1> QED BY <1>1, <1>2, <1>4

\* A container when it is opened.
LEMMA FrameFacts ==
  ASSUME NEW S, NEW kind \in {"array", "object"}, NEW f, f = Frame(kind)
  PROVE  /\ f \in Frames(S) /\ Sized(f) /\ f.kind = kind /\ f.key = "none"
         /\ FrameBlocks(f) = 1
<1>1. f.kind = kind /\ f.body = <<>> /\ f.blocks = 1 /\ f.key = "none"
  BY DEF Frame
<1>2. f \in Frames(S)
  <2>1. <<>> \in Seq(S) /\ <<>> \in Seq(StringSet \X S) /\ KeysOnce(<<>>)
    BY DEF KeysOnce
  <2> QED BY <2>1 DEF Frame, Frames, Arrays, Objects
<1>3. Counts(kind, <<>>) = <<>>
  BY DEF Counts
<1> QED BY <1>1, <1>2, <1>3, TotalEmpty DEF Sized, FrameBlocks

\* A key read.
LEMMA KeyFacts ==
  ASSUME NEW S, NEW f \in Frames(S), Sized(f), f.kind = "object", f.key = "none",
         NEW k \in StringSet, NEW g, g = [f EXCEPT !.key = k]
  PROVE  /\ g \in Frames(S) /\ Sized(g) /\ g.kind = "object" /\ g.key # "none"
         /\ FrameBlocks(g) = FrameBlocks(f) + 1
<1>1. f \in Objects(S) /\ f.blocks \in Nat
  BY FrameNat
<1>2. g \in Objects(S) /\ g.key = k /\ g.blocks = f.blocks /\ g.kind = f.kind /\ g.body = f.body
  BY <1>1 DEF Objects
<1>3. g.key # "none"
  BY <1>2, NoneApart
<1> QED BY <1>1, <1>2, <1>3 DEF Frames, Sized, FrameBlocks

\* tamga_json_array_append.
WithElement(f, v) == [f EXCEPT !.body = Append(@, v), !.blocks = @ + Blocks(v)]

LEMMA ElementFacts ==
  ASSUME NEW S, Countable(S), NEW f \in Frames(S), Sized(f), f.kind = "array", NEW v \in S,
         NEW g, g = WithElement(f, v)
  PROVE  /\ g \in Frames(S) /\ Sized(g) /\ g.kind = "array" /\ g.key = "none"
         /\ FrameBlocks(g) = FrameBlocks(f) + Blocks(v)
<1>1. f \in Arrays(S) /\ f.blocks \in Nat /\ f.body \in Seq(S) /\ f.key = "none"
  BY FrameNat
<1>2. Append(f.body, v) \in Seq(S) /\ Blocks(v) \in Nat
  BY <1>1, AppendProperties DEF Countable
<1>3. /\ g \in Arrays(S) /\ g.blocks = f.blocks + Blocks(v) /\ g.kind = "array"
      /\ g.key = "none" /\ g.body = Append(f.body, v)
  <2>1. PICK c : c = Append(f.body, v)
    OBVIOUS
  <2>2. PICK n : n = f.blocks + Blocks(v)
    OBVIOUS
  <2>3. c \in Seq(S) /\ n \in Nat
    BY <1>1, <1>2, <2>1, <2>2
  <2>4. g = [f EXCEPT !.body = c, !.blocks = n]
    BY <2>1, <2>2 DEF WithElement
  <2>5. g \in Arrays(S) /\ g.body = c /\ g.blocks = n /\ g.kind = "array" /\ g.key = "none"
    BY <1>1, <2>3, <2>4 DEF Arrays
  <2> QED BY <2>1, <2>2, <2>5
<1> DEFINE b == f.body
           c == Counts("array", b)
           d == Counts("array", Append(b, v))
<1>4. c \in Seq(Nat) /\ Len(c) = Len(b) /\ d \in Seq(Nat) /\ Len(d) = Len(Append(b, v))
  BY <1>1, <1>2, ArrayCounts
<1>5. /\ Len(b) \in Nat /\ DOMAIN b = 1..Len(b) /\ Len(Append(b, v)) = Len(b) + 1
      /\ DOMAIN Append(b, v) = 1..Len(b) + 1
      /\ Append(b, v)[Len(b) + 1] = v /\ \A i \in 1..Len(b) : Append(b, v)[i] = b[i]
  BY <1>1, <1>2, LenProperties, AppendProperties
<1>6. d[Len(b) + 1] = Blocks(v) /\ \A i \in 1..Len(b) : c[i] = d[i]
  <2>1. /\ c = [i \in 1..Len(b) |-> Blocks(b[i])]
        /\ d = [i \in 1..Len(b) + 1 |-> Blocks(Append(b, v)[i])]
    BY <1>5 DEF Counts
  <2> QED BY <1>5, <2>1
<1>7. Total(d) = Total(c) + Blocks(v) /\ Total(c) \in Nat
  <2> HIDE DEF c, d, b
  <2> QED BY <1>4, <1>5, <1>6, TotalLast, TotalNat, SMTT(30)
<1>8. f.blocks = 1 + Total(c)
  BY DEF Sized
<1>9. g.blocks = 1 + Total(d)
  <2> HIDE DEF c, d, b
  <2> QED BY <1>2, <1>3, <1>7, <1>8
<1> QED BY <1>1, <1>2, <1>3, <1>9 DEF Frames, Sized, FrameBlocks

\* tamga_json_object_set, with a key that is new.
WithMember(f, v) ==
  [f EXCEPT !.body = Append(@, <<f.key, v>>), !.blocks = @ + 1 + Blocks(v), !.key = "none"]

LEMMA MemberFacts ==
  ASSUME NEW S, Countable(S), NEW f \in Frames(S), Sized(f),
         f.kind = "object", f.key # "none", Holds(f) = {}, NEW v \in S,
         NEW g, g = WithMember(f, v)
  PROVE  /\ g \in Frames(S) /\ Sized(g) /\ g.kind = "object" /\ g.key = "none"
         /\ FrameBlocks(g) = FrameBlocks(f) + Blocks(v)
<1>1. /\ f \in Objects(S) /\ f.blocks \in Nat /\ f.body \in Seq(StringSet \X S)
      /\ KeysOnce(f.body) /\ f.key \in StringSet /\ <<f.key, v>> \in StringSet \X S
      /\ Blocks(v) \in Nat
  BY FrameNat DEF Countable
<1>2. PICK b : b = f.body
  OBVIOUS
<1>3. PICK e : e = Append(b, <<f.key, v>>)
  OBVIOUS
<1>4. /\ e \in Seq(StringSet \X S) /\ Len(b) \in Nat /\ Len(e) = Len(b) + 1
      /\ e[Len(b) + 1] = <<f.key, v>> /\ \A i \in 1..Len(b) : e[i] = b[i]
  BY <1>1, <1>2, <1>3, LenProperties, AppendProperties
<1>5. KeysOnce(e)
  <2>1. \A i \in 1..Len(b) : b[i][1] # f.key
    BY <1>2 DEF Holds
  <2>2. \A i, j \in 1..Len(b) : b[i][1] = b[j][1] => i = j
    BY <1>1, <1>2 DEF KeysOnce
  <2>3. \A i \in 1..Len(e) : i \in 1..Len(b) \/ i = Len(b) + 1
    BY <1>4
  <2>4. e[Len(b) + 1][1] = f.key
    BY <1>4
  <2>5. \A i \in 1..Len(b) : e[i][1] = b[i][1]
    BY <1>4
  <2> SUFFICES ASSUME NEW i \in 1..Len(e), NEW j \in 1..Len(e), e[i][1] = e[j][1] PROVE i = j
    BY DEF KeysOnce
  <2>6. CASE i \in 1..Len(b) /\ j \in 1..Len(b)
    BY <2>2, <2>5, <2>6
  <2>7. CASE i \in 1..Len(b) /\ j = Len(b) + 1
    BY <2>1, <2>4, <2>5, <2>7
  <2>8. CASE i = Len(b) + 1 /\ j \in 1..Len(b)
    BY <2>1, <2>4, <2>5, <2>8
  <2> QED BY <2>3, <2>6, <2>7, <2>8
<1>6. PICK n : n = f.blocks + 1 + Blocks(v)
  OBVIOUS
<1>7. /\ g \in Objects(S) /\ g.body = e /\ g.blocks = n /\ g.kind = "object"
      /\ g.key = "none"
  <2>1. g = [f EXCEPT !.body = e, !.blocks = n, !.key = "none"]
    BY <1>2, <1>3, <1>6 DEF WithMember
  <2>2. n \in Nat
    BY <1>1, <1>6
  <2> QED BY <1>1, <1>4, <1>5, <2>1, <2>2 DEF Objects
<1>8. PICK c : c = Counts("object", b)
  OBVIOUS
<1>9. PICK d : d = Counts("object", e)
  OBVIOUS
<1>10. /\ c \in Seq(Nat) /\ Len(c) = Len(b) /\ d \in Seq(Nat) /\ Len(d) = Len(b) + 1
       /\ \A i \in 1..Len(b) : c[i] = 1 + Blocks(b[i][2])
       /\ \A i \in 1..Len(b) + 1 : d[i] = 1 + Blocks(e[i][2])
  <2>1. b \in Seq(StringSet \X S)
    BY <1>1, <1>2
  <2>2. /\ c \in Seq(Nat) /\ Len(c) = Len(b)
        /\ \A i \in 1..Len(b) : c[i] = 1 + Blocks(b[i][2])
    BY <1>8, <2>1, ObjectCounts
  <2>3. /\ d \in Seq(Nat) /\ Len(d) = Len(e)
        /\ \A i \in 1..Len(e) : d[i] = 1 + Blocks(e[i][2])
    BY <1>4, <1>9, ObjectCounts
  <2> QED BY <1>4, <2>2, <2>3
<1>11. (\A i \in 1..Len(b) : c[i] = d[i]) /\ d[Len(b) + 1] = 1 + Blocks(v)
  <2>1. Len(b) + 1 \in 1..Len(b) + 1 /\ \A i \in 1..Len(b) : i \in 1..Len(b) + 1
    BY <1>4
  <2>2. d[Len(b) + 1] = 1 + Blocks(v)
    <3>1. d[Len(b) + 1] = 1 + Blocks(e[Len(b) + 1][2])
      BY <1>10, <2>1
    <3>2. e[Len(b) + 1][2] = v
      BY <1>4
    <3> QED BY <3>1, <3>2
  <2> QED BY <1>4, <1>10, <2>1, <2>2
<1>12. Total(d) = Total(c) + (1 + Blocks(v)) /\ Total(c) \in Nat
  BY <1>10, <1>11, TotalLast, TotalNat
<1>13. f.blocks = 1 + Total(c)
  BY <1>2, <1>8 DEF Sized
<1>14. g.blocks = 1 + Total(d) /\ g.blocks = f.blocks + 1 + Blocks(v)
  BY <1>1, <1>6, <1>7, <1>12, <1>13
<1>15. FrameBlocks(f) = f.blocks + 1 /\ FrameBlocks(g) = g.blocks
  <2>1. f.key # "none" /\ g.key = "none" /\ g.blocks \in Nat
    BY <1>7 DEF Objects
  <2> QED BY <2>1 DEF FrameBlocks
<1>16. g \in Frames(S) /\ Sized(g)
  BY <1>7, <1>9, <1>14 DEF Frames, Sized
<1>17. FrameBlocks(g) = FrameBlocks(f) + Blocks(v)
  BY <1>1, <1>14, <1>15
<1> QED BY <1>7, <1>16, <1>17

\* The same, with a key the object has.
WithValue(f, k, v) ==
  [f EXCEPT !.body[k][2] = v, !.key = "none", !.blocks = @ + Blocks(v) - Blocks(f.body[k][2])]

LEMMA ReplaceFacts ==
  ASSUME NEW S, Countable(S), NEW f \in Frames(S), Sized(f),
         f.kind = "object", f.key # "none", NEW k \in Holds(f), NEW v \in S,
         NEW g, g = WithValue(f, k, v)
  PROVE  /\ g \in Frames(S) /\ Sized(g) /\ g.kind = "object" /\ g.key = "none"
         /\ Blocks(f.body[k][2]) \in Nat
         /\ FrameBlocks(g) = FrameBlocks(f) - 1 + Blocks(v) - Blocks(f.body[k][2])
<1>1. /\ f \in Objects(S) /\ f.blocks \in Nat /\ f.body \in Seq(StringSet \X S)
      /\ KeysOnce(f.body) /\ Blocks(v) \in Nat
  BY FrameNat DEF Countable
<1>2. PICK b : b = f.body
  OBVIOUS
<1>3. /\ k \in 1..Len(b) /\ Len(b) \in Nat /\ DOMAIN b = 1..Len(b)
      /\ b[k] \in StringSet \X S
  BY <1>1, <1>2, LenProperties, ElementOfSeq DEF Holds
<1>4. PICK p : p = <<b[k][1], v>>
  OBVIOUS
<1>5. p \in StringSet \X S /\ p[1] = b[k][1] /\ p[2] = v
  BY <1>3, <1>4
<1>6. PICK e : e = [b EXCEPT ![k] = p]
  OBVIOUS
<1>7. /\ e \in Seq(StringSet \X S) /\ Len(e) = Len(b) /\ e[k] = p
      /\ \A i \in 1..Len(b) : i # k => e[i] = b[i]
  BY <1>1, <1>2, <1>3, <1>5, <1>6, ExceptSeq
<1>8. KeysOnce(e)
  <2>1. \A i \in 1..Len(b) : e[i][1] = b[i][1]
    BY <1>5, <1>7
  <2> QED BY <1>1, <1>2, <1>7, <2>1 DEF KeysOnce
<1>9. PICK old : old = Blocks(b[k][2])
  OBVIOUS
<1>10. PICK c : c = Counts("object", b)
  OBVIOUS
<1>11. PICK d : d = Counts("object", e)
  OBVIOUS
<1>12. /\ c \in Seq(Nat) /\ Len(c) = Len(b) /\ d \in Seq(Nat) /\ Len(d) = Len(b)
       /\ \A i \in 1..Len(b) : c[i] = 1 + Blocks(b[i][2])
       /\ \A i \in 1..Len(b) : d[i] = 1 + Blocks(e[i][2])
       /\ b[k][2] \in S
  <2>1. b \in Seq(StringSet \X S)
    BY <1>1, <1>2
  <2>2. /\ c \in Seq(Nat) /\ Len(c) = Len(b)
        /\ \A i \in 1..Len(b) : c[i] = 1 + Blocks(b[i][2]) /\ b[i][2] \in S
    BY <1>10, <2>1, ObjectCounts
  <2>3. /\ d \in Seq(Nat) /\ Len(d) = Len(e)
        /\ \A i \in 1..Len(e) : d[i] = 1 + Blocks(e[i][2])
    BY <1>7, <1>11, ObjectCounts
  <2> QED BY <1>3, <1>7, <2>2, <2>3
<1>13. old \in Nat
  BY <1>9, <1>12 DEF Countable
<1>14. d = [c EXCEPT ![k] = 1 + Blocks(v)]
  <2>1. d[k] = 1 + Blocks(v) /\ \A i \in 1..Len(b) : i # k => d[i] = c[i]
    BY <1>3, <1>5, <1>7, <1>12
  <2>2. c \in [1..Len(b) -> Nat] /\ d \in [1..Len(b) -> Nat]
    BY <1>12, LenProperties
  <2> QED BY <1>3, <2>1, <2>2
<1>15. Total(d) = Total(c) + (1 + Blocks(v)) - (1 + old) /\ 1 + old <= Total(c)
       /\ Total(c) \in Nat
  <2>1. 1 + Blocks(v) \in Nat /\ k \in 1..Len(c) /\ c[k] = 1 + old
    BY <1>1, <1>3, <1>9, <1>12
  <2>2. Total(d) = Total(c) + (1 + Blocks(v)) - c[k] /\ c[k] <= Total(c)
    BY <1>12, <1>14, <2>1, TotalExcept
  <2>3. Total(c) \in Nat
    BY <1>12, TotalNat
  <2> QED BY <2>1, <2>2, <2>3
<1>16. f.blocks = 1 + Total(c)
  BY <1>2, <1>10 DEF Sized
<1>17. PICK n : n = f.blocks + Blocks(v) - old
  OBVIOUS
<1>18. n \in Nat /\ n = 1 + Total(d)
  <2>1. Total(d) \in Nat
    BY <1>12, TotalNat
  <2> QED BY <1>1, <1>13, <1>15, <1>16, <1>17, <2>1
<1>19. /\ g \in Objects(S) /\ g.body = e /\ g.blocks = n /\ g.kind = "object"
       /\ g.key = "none"
  <2>1. [b[k] EXCEPT ![2] = v] = p
    BY <1>3, <1>4
  <2>2. [b EXCEPT ![k][2] = v] = e
    BY <1>3, <1>6, <2>1
  <2>3. [f EXCEPT !.body[k][2] = v].body = [b EXCEPT ![k][2] = v]
    BY <1>1, <1>2 DEF Objects
  <2>4. g = [f EXCEPT !.body = e, !.blocks = n, !.key = "none"]
    BY <1>1, <1>2, <1>9, <1>17, <2>2 DEF Objects, WithValue
  <2> QED BY <1>1, <1>7, <1>8, <1>18, <2>4, ZenonT(40) DEF Objects
<1>20. FrameBlocks(f) = f.blocks + 1 /\ FrameBlocks(g) = n
  <2>1. f.key # "none" /\ g.key = "none" /\ g.blocks = n
    BY <1>19
  <2> QED BY <1>18, <2>1 DEF FrameBlocks
<1>21. g \in Frames(S) /\ Sized(g)
  BY <1>11, <1>18, <1>19 DEF Frames, Sized
<1>22. FrameBlocks(g) = FrameBlocks(f) - 1 + Blocks(v) - old
  BY <1>1, <1>13, <1>17, <1>20
<1> QED BY <1>2, <1>9, <1>13, <1>19, <1>21, <1>22

-----------------------------------------------------------------------------
(* What is left to be written.                                               *)

Marks == {Token(t) : t \in Tokens}
Items(S) == S \cup Marks

LEMMA SeparatedFacts ==
  ASSUME NEW V, Token("comma") \in V, NEW groups \in Seq(Seq(V))
  PROVE  Separated(groups) \in Seq(V)
<1> DEFINE n == Len(groups)
           D == 1..n + 1
           Step(i, rest) == (IF i > 1 THEN <<Token("comma")>> ELSE <<>>) \o groups[i] \o rest
           from[i \in D] ==
             IF i > n THEN <<>>
             ELSE (IF i > 1 THEN <<Token("comma")>> ELSE <<>>) \o groups[i] \o from[i + 1]
<1>1. n \in Nat /\ \A i \in 1..n : groups[i] \in Seq(V)
  BY LenProperties, ElementOfSeq
<1>2. ASSUME NEW i \in 1..n, NEW rest \in Seq(V) PROVE Step(i, rest) \in Seq(V)
  <2>1. PICK c : c = IF i > 1 THEN <<Token("comma")>> ELSE <<>>
    OBVIOUS
  <2>2. c \in Seq(V) /\ groups[i] \in Seq(V)
    BY <1>1, <2>1
  <2>3. c \o groups[i] \in Seq(V)
    BY <2>2, ConcatProperties
  <2>4. (c \o groups[i]) \o rest \in Seq(V)
    BY <2>3, ConcatProperties
  <2> QED BY <2>1, <2>4
<1>3. \E f : f = [i \in D |-> IF i > n THEN <<>>
                              ELSE (IF i > 1 THEN <<Token("comma")>> ELSE <<>>) \o groups[i] \o f[i + 1]]
  <2> DEFINE m == [i \in D |-> n + 1 - i]
             G == [g \in [D -> Seq(V)] |->
                    [i \in D |-> IF i > n THEN <<>> ELSE Step(i, g[i + 1])]]
  <2>1. m \in [D -> 0..n]
    BY <1>1
  <2>2. ASSUME NEW i \in D PROVE i > n \/ (i \in 1..n /\ i + 1 \in D /\ m[i + 1] < m[i])
    BY <1>1
  <2>3. ASSUME NEW g \in [D -> Seq(V)], NEW i \in D
        PROVE  (IF i > n THEN <<>> ELSE Step(i, g[i + 1])) \in Seq(V)
    <3>1. CASE i > n
      BY <3>1
    <3>2. CASE ~(i > n)
      <4>1. i \in 1..n /\ g[i + 1] \in Seq(V)
        BY <2>2, <3>2
      <4> HIDE DEF Step
      <4> QED BY <1>2, <3>2, <4>1
    <3> QED BY <3>1, <3>2
  <2>4. G \in [[D -> Seq(V)] -> [D -> Seq(V)]]
    <3> HIDE DEF Step, D, n
    <3> QED BY <2>3
  <2>5. \A g, h \in [D -> Seq(V)], i \in D :
          (\A j \in D : m[j] < m[i] => g[j] = h[j]) => G[g][i] = G[h][i]
    <3> HIDE DEF Step, m, D, n
    <3> QED BY <2>2
  <2>6. Seq(V) # {} /\ n \in Nat
    BY <1>1, EmptySeq
  <2> HIDE DEF m, G, D, n
  <2>7. Defines(G, D, Seq(V), m, n)
    BY <2>1, <2>4, <2>5, <2>6 DEF Defines
  <2>8. \E f \in [D -> Seq(V)] : f = G[f]
    BY <2>7, Recursion
  <2> QED BY <2>8 DEF G
<1>4. from = [i \in D |-> IF i > n THEN <<>>
                          ELSE (IF i > 1 THEN <<Token("comma")>> ELSE <<>>) \o groups[i] \o from[i + 1]]
  BY <1>3 DEF from
<1>5. Separated(groups) = from[1]
  BY DEF Separated
<1> HIDE DEF from
<1>6. from[n + 1] = <<>> /\ \A i \in 1..n : from[i] = Step(i, from[i + 1])
  <2>1. n + 1 \in D /\ n + 1 > n /\ \A i \in 1..n : i \in D /\ ~(i > n)
    BY <1>1
  <2> HIDE DEF D, n
  <2> QED BY <1>4, <2>1
<1> DEFINE T == {k \in 0..n : from[n + 1 - k] \in Seq(V)}
<1>7. 0 \in T
  <2>1. 0 \in 0..n /\ n + 1 - 0 = n + 1
    BY <1>1
  <2>2. <<>> \in Seq(V)
    BY EmptySeq
  <2> HIDE DEF n
  <2> QED BY <1>6, <2>1, <2>2
<1>8. ASSUME NEW k \in 1..n, k - 1 \in T PROVE k \in T
  <2>1. /\ n + 1 - k \in 1..n /\ (n + 1 - k) + 1 = n + 1 - (k - 1) /\ k \in 0..n
    BY <1>1
  <2>2. from[n + 1 - (k - 1)] \in Seq(V)
    BY <1>8
  <2> HIDE DEF n, Step
  <2>3. from[n + 1 - k] \in Seq(V)
    BY <1>2, <1>6, <2>1, <2>2
  <2> QED BY <2>1, <2>3
<1>9. 0..n \subseteq T
  <2> HIDE DEF T
  <2> QED BY <1>1, <1>7, <1>8, IntervalInduction
<1>10. n \in T /\ n + 1 - n = 1
  BY <1>1, <1>9
<1> QED BY <1>5, <1>10

LEMMA Marked == \A t \in Tokens : Token(t) \in Marks
  BY DEF Marks

\* The children of a container are values too.
LEMMA ExpandedFacts ==
  ASSUME NEW S, NEW f \in Frames(S), NEW v, v = ValueOf(f), canonical \in BOOLEAN
  PROVE  Expanded(v) \in Seq(Items(S))
<1> DEFINE V == Items(S)
<1>1. v[1] = f.kind /\ v[2] = f.body
  BY DEF ValueOf
<1>2. /\ Token("comma") \in V /\ Token("[") \in V /\ Token("]") \in V /\ Token("{") \in V
      /\ Token("}") \in V /\ Token(":") \in V /\ \A k \in StringSet : Token(k) \in V
  BY Marked DEF Items, Tokens, Leaves
<1>3. S \subseteq V
  BY DEF Items
<1>4. ASSUME NEW groups, groups \in Seq(Seq(V)), NEW a, a \in V, NEW b, b \in V
      PROVE  (<<a>> \o Separated(groups)) \o <<b>> \in Seq(V)
  <2>1. Separated(groups) \in Seq(V)
    BY <1>2, <1>4, SeparatedFacts
  <2>2. <<a>> \in Seq(V) /\ <<b>> \in Seq(V)
    BY <1>4
  <2>3. <<a>> \o Separated(groups) \in Seq(V)
    BY <2>1, <2>2, ConcatProperties
  <2> QED BY <2>2, <2>3, ConcatProperties
<1>5. CASE f.kind = "array"
  <2>1. f.body \in Seq(S)
    BY <1>5, FrameNat
  <2> DEFINE groups == [i \in DOMAIN f.body |-> <<f.body[i]>>]
  <2>2. Len(f.body) \in Nat /\ DOMAIN f.body = 1..Len(f.body)
        /\ \A i \in 1..Len(f.body) : f.body[i] \in V
    BY <1>3, <2>1, LenProperties, ElementOfSeq
  <2>3. \A i \in 1..Len(f.body) : <<f.body[i]>> \in Seq(V)
    <3> HIDE DEF V
    <3> QED BY <2>2
  <2>4. groups \in Seq(Seq(V))
    BY <2>2, <2>3
  <2>5. Expanded(v) = <<Token("[")>> \o Separated(groups) \o <<Token("]")>>
    BY <1>1, <1>5 DEF Expanded
  <2>6. PICK a : a \in V /\ a = Token("[")
    BY <1>2
  <2>7. PICK b : b \in V /\ b = Token("]")
    BY <1>2
  <2>8. Expanded(v) = (<<a>> \o Separated(groups)) \o <<b>>
    BY <2>5, <2>6, <2>7
  <2> HIDE DEF V, groups
  <2>9. a \in V /\ b \in V
    BY <2>6, <2>7
  <2>10. Expanded(v) \in Seq(V)
    BY <1>4, <2>4, <2>8, <2>9
  <2> QED BY <2>10 DEF V
<1>6. CASE f.kind = "object"
  <2>1. PICK members : members = IF canonical THEN SortKeys(v[2]) ELSE v[2]
    OBVIOUS
  <2>2. f.body \in Seq(StringSet \X S) /\ KeysOnce(f.body)
    BY <1>6, FrameNat
  <2>3. members \in Seq(StringSet \X S)
    <3>1. SortKeys(f.body) \in Seq(StringSet \X S)
      BY <2>2, KeysAreSorted
    <3> QED BY <1>1, <2>1, <2>2, <3>1
  <2> DEFINE groups == [i \in DOMAIN members |->
                          <<Token(members[i][1]), Token(":"), members[i][2]>>]
  <2>4. /\ Len(members) \in Nat /\ DOMAIN members = 1..Len(members)
        /\ \A i \in 1..Len(members) : members[i] \in StringSet \X S
    BY <2>3, LenProperties, ElementOfSeq
  <2>5. \A i \in 1..Len(members) : Token(members[i][1]) \in V /\ members[i][2] \in V
    <3>1. \A i \in 1..Len(members) : members[i][1] \in StringSet /\ members[i][2] \in S
      BY <2>4
    <3> HIDE DEF V
    <3> QED BY <1>2, <1>3, <3>1
  <2>6. \A i \in 1..Len(members) :
          <<Token(members[i][1]), Token(":"), members[i][2]>> \in Seq(V)
    <3>1. ASSUME NEW x \in V, NEW y \in V, NEW z \in V PROVE <<x, y, z>> \in Seq(V)
      OBVIOUS
    <3>2. Token(":") \in V
      BY <1>2
    <3> HIDE DEF V
    <3> QED BY <2>5, <3>1, <3>2
  <2>7. groups \in Seq(Seq(V))
    BY <2>4, <2>6
  <2>8. Expanded(v) = <<Token("{")>> \o Separated(groups) \o <<Token("}")>>
    BY <1>1, <1>6, <2>1 DEF Expanded
  <2>9. PICK a : a \in V /\ a = Token("{")
    BY <1>2
  <2>10. PICK b : b \in V /\ b = Token("}")
    BY <1>2
  <2>11. Expanded(v) = (<<a>> \o Separated(groups)) \o <<b>>
    BY <2>8, <2>9, <2>10
  <2> HIDE DEF V, groups
  <2>12. a \in V /\ b \in V
    BY <2>9, <2>10
  <2>13. Expanded(v) \in Seq(V)
    BY <1>4, <2>7, <2>11, <2>12
  <2> QED BY <2>13 DEF V
<1> QED BY <1>5, <1>6, FrameNat

-----------------------------------------------------------------------------
(* The trees the parser holds, and what they weigh.                          *)

Held(S) ==
  /\ item \in S \cup {None} /\ result \in S \cup {None}
  /\ stack \in Seq(Frames(S)) /\ \A i \in 1..Len(stack) : Sized(stack[i])
  /\ todo \in Seq(Items(S)) /\ out \in Seq(Tokens)

\* Values all the way down.
Trees == \E S : Closed(S) /\ Held(S)

LEMMA NoneFacts == Blocks(None) = 0 /\ \A t : Blocks(Leaf(t)) = 1 /\ Leaf(t) # None
  BY DEF Blocks, None, Leaf

LEMMA HeldNat ==
  ASSUME NEW S, Closed(S), Held(S)
  PROVE  /\ Blocks(item) \in Nat /\ Blocks(result) \in Nat /\ Weight(stack) \in Nat
         /\ Owned = Blocks(item) + Blocks(result) + Weight(stack)
         /\ \A v \in S : Blocks(v) \in Nat
<1>1. \A v \in S : Blocks(v) \in Nat
  BY DEF Closed
<1>2. Blocks(item) \in Nat /\ Blocks(result) \in Nat
  BY <1>1, NoneFacts DEF Held
<1>3. Weight(stack) \in Nat
  BY Weights DEF Held
<1>4. Owned = Blocks(item) + Blocks(result) + Weight(stack)
  BY DEF Owned, Weight
<1> QED BY <1>1, <1>2, <1>3, <1>4

LEMMA FramesGrow == ASSUME NEW S, NEW R, S \subseteq R PROVE Frames(S) \subseteq Frames(R)
<1>1. \A b \in Seq(S) : b \in Seq(R)
  BY SeqMonotonic
<1>2. StringSet \X S \subseteq StringSet \X R
  OBVIOUS
<1>3. \A b \in Seq(StringSet \X S) : b \in Seq(StringSet \X R)
  BY <1>2, SeqMonotonic
<1>4. Arrays(S) \subseteq Arrays(R)
  BY <1>1 DEF Arrays
<1>5. {b \in Seq(StringSet \X S) : KeysOnce(b)} \subseteq {b \in Seq(StringSet \X R) : KeysOnce(b)}
  BY <1>3
<1>6. Objects(S) \subseteq Objects(R)
  BY <1>5 DEF Objects
<1> QED BY <1>4, <1>6 DEF Frames

\* A value is built from values that are there.
Built(S, v) ==
  /\ Blocks(v) \in Nat
  /\ \/ \E t \in Leaves : v = Leaf(t)
     \/ \E f \in Frames(S) : Sized(f) /\ v = ValueOf(f)

LEMMA ClosedGrow ==
  ASSUME NEW S, Closed(S), NEW v, Built(S, v) PROVE Closed(S \cup {v})
<1> DEFINE R == S \cup {v}
<1>1. Frames(S) \subseteq Frames(R)
  BY FramesGrow
<1>2. \A x \in R : Built(S, x)
  BY DEF Closed, Built
<1> HIDE DEF R
<1>3. Closed(R)
  BY <1>1, <1>2 DEF Closed, Built
<1> QED BY <1>3 DEF R

LEMMA HeldGrow ==
  ASSUME NEW S, NEW R, S \subseteq R
  PROVE  /\ \A s \in Seq(Frames(S)) : s \in Seq(Frames(R))
         /\ \A s \in Seq(Items(S)) : s \in Seq(Items(R))
<1>1. Frames(S) \subseteq Frames(R)
  BY FramesGrow
<1>2. Items(S) \subseteq Items(R)
  BY DEF Items
<1> QED BY <1>1, <1>2, SeqMonotonic

LEMMA TreesAfter ==
  ASSUME NEW S, Closed(S), Held(S)', heap' = Blocks(item') + Blocks(result') + Weight(stack')
  PROVE  Trees' /\ Accounted'
  BY DEF Trees, Accounted, Owned, Weight

LEMMA TreesKept ==
  ASSUME Trees, Accounted, UNCHANGED <<stack, item, result, heap, todo, out>>
  PROVE  Trees' /\ Accounted'
  BY DEF Trees, Held, Accounted, Owned, Weight

LEMMA TreesOpen ==
  ASSUME Accounted, NEW S, Closed(S), Held(S), NEW kind \in {"array", "object"},
         stack' = Append(stack, Frame(kind)), heap' = heap + 1,
         UNCHANGED <<item, result, todo, out>>
  PROVE  Trees' /\ Accounted'
<1>1. PICK f : f = Frame(kind)
  OBVIOUS
<1>2. f \in Frames(S) /\ Sized(f) /\ FrameBlocks(f) = 1
  BY <1>1, FrameFacts
<1>3. stack \in Seq(Frames(S)) /\ \A i \in 1..Len(stack) : Sized(stack[i])
  BY DEF Held
<1>4. /\ stack' \in Seq(Frames(S)) /\ Len(stack') = Len(stack) + 1
      /\ stack'[Len(stack')] = f /\ \A i \in 1..Len(stack) : stack'[i] = stack[i]
      /\ Weight(stack') = Weight(stack) + 1
  <2>1. Pushed(S, stack, f, stack')
    BY <1>1, <1>2, <1>3, PushFacts
  <2> QED BY <1>2, <2>1 DEF Pushed
<1>5. Len(stack) \in Nat
  BY <1>3, LenProperties
<1>6. \A i \in 1..Len(stack') : Sized(stack'[i])
  <2>1. \A i \in 1..Len(stack') : i \in 1..Len(stack) \/ i = Len(stack')
    BY <1>4, <1>5
  <2> QED BY <1>2, <1>3, <1>4, <2>1
<1>7. Held(S)'
  BY <1>4, <1>6 DEF Held
<1>8. heap' = Blocks(item') + Blocks(result') + Weight(stack')
  BY <1>4, HeldNat DEF Accounted
<1> QED BY <1>7, <1>8, TreesAfter

LEMMA TreesLeaf ==
  ASSUME Accounted, NEW S, Closed(S), Held(S), item = None, NEW t \in Leaves,
         item' = Leaf(t), heap' = heap + 1, UNCHANGED <<stack, result, todo, out>>
  PROVE  Trees' /\ Accounted'
<1>1. PICK R : R = S \cup {Leaf(t)}
  OBVIOUS
<1>2. Closed(R)
  <2>1. Built(S, Leaf(t))
    BY NoneFacts DEF Built
  <2> QED BY <1>1, <2>1, ClosedGrow
<1>3. Held(R)'
  <2>1. stack \in Seq(Frames(R)) /\ todo \in Seq(Items(R)) /\ S \subseteq R
    BY <1>1, HeldGrow DEF Held
  <2>2. item' \in R
    BY <1>1
  <2> QED BY <2>1, <2>2 DEF Held
<1>4. Blocks(item) = 0 /\ Blocks(item') = 1
  BY NoneFacts
<1>5. heap' = Blocks(item') + Blocks(result') + Weight(stack')
  BY <1>4, HeldNat DEF Accounted
<1> QED BY <1>2, <1>3, <1>5, TreesAfter

LEMMA TreesClose ==
  ASSUME Accounted, NEW S, Closed(S), Held(S), item = None, stack # <<>>,
         Top.key = "none", item' = ValueOf(Top), stack' = Pop,
         UNCHANGED <<heap, result, todo, out>>
  PROVE  Trees' /\ Accounted'
<1>1. PICK f : f = stack[Len(stack)]
  OBVIOUS
<1>2. stack \in Seq(Frames(S)) /\ \A i \in 1..Len(stack) : Sized(stack[i])
  BY DEF Held
<1>3. /\ stack' \in Seq(Frames(S)) /\ Len(stack) \in Nat \ {0}
      /\ Len(stack') = Len(stack) - 1 /\ f \in Frames(S)
      /\ \A i \in 1..Len(stack) - 1 : stack'[i] = stack[i]
      /\ Weight(stack) = Weight(stack') + FrameBlocks(f)
  <2>1. stack' = SubSeq(stack, 1, Len(stack) - 1)
    BY DEF Pop
  <2>2. Popped(S, stack, stack')
    BY <1>2, <2>1, PopFacts
  <2> QED BY <1>1, <2>2 DEF Popped
<1>4. Sized(f) /\ f.key = "none" /\ item' = ValueOf(f)
  <2>1. Len(stack) \in 1..Len(stack)
    BY <1>3
  <2>2. Sized(stack[Len(stack)])
    BY <1>2, <2>1
  <2> QED BY <1>1, <2>2 DEF Top
<1>5. f.blocks \in Nat /\ FrameBlocks(f) = f.blocks
  <2>1. f.blocks \in Nat
    BY <1>3, FrameNat
  <2> QED BY <1>4, <2>1 DEF FrameBlocks
<1>6. Blocks(item') = f.blocks
  BY <1>4 DEF Blocks, ValueOf
<1>7. PICK R : R = S \cup {ValueOf(f)}
  OBVIOUS
<1>8. Closed(R)
  <2>1. Built(S, ValueOf(f))
    BY <1>3, <1>4, <1>5, <1>6 DEF Built
  <2> QED BY <1>7, <2>1, ClosedGrow
<1>9. Held(R)'
  <2>1. stack' \in Seq(Frames(R)) /\ todo \in Seq(Items(R)) /\ S \subseteq R
    BY <1>3, <1>7, HeldGrow DEF Held
  <2>2. item' \in R
    BY <1>4, <1>7
  <2>3. \A i \in 1..Len(stack') : Sized(stack'[i])
    <3>1. \A i \in 1..Len(stack') : i \in 1..Len(stack) - 1 /\ i \in 1..Len(stack)
      BY <1>3
    <3> QED BY <1>2, <1>3, <3>1
  <2> QED BY <2>1, <2>2, <2>3 DEF Held
<1>10. heap' = Blocks(item') + Blocks(result') + Weight(stack')
  <2>1. Weight(stack') \in Nat
    BY <1>3, Weights
  <2>2. heap = 0 + Blocks(result) + Weight(stack) /\ Blocks(result) \in Nat
    BY HeldNat, NoneFacts DEF Accounted
  <2> QED BY <1>3, <1>5, <1>6, <2>1, <2>2
<1> QED BY <1>8, <1>9, <1>10, TreesAfter

\* The innermost container changes, and the value in hand is given up.
LEMMA TreesSet ==
  ASSUME Accounted, NEW S, Closed(S), Held(S), stack # <<>>,
         NEW g \in Frames(S), Sized(g), stack' = SetTop(g), item' \in {item, None},
         heap' = heap + FrameBlocks(g) - FrameBlocks(Top) - Blocks(item) + Blocks(item'),
         UNCHANGED <<result, todo, out>>
  PROVE  Trees' /\ Accounted'
<1>1. PICK f : f = stack[Len(stack)]
  OBVIOUS
<1>2. stack \in Seq(Frames(S)) /\ \A i \in 1..Len(stack) : Sized(stack[i])
  BY DEF Held
<1>3. /\ stack' \in Seq(Frames(S)) /\ Len(stack) \in Nat \ {0} /\ Len(stack') = Len(stack)
      /\ f \in Frames(S) /\ stack'[Len(stack')] = g
      /\ \A i \in 1..Len(stack) - 1 : stack'[i] = stack[i]
      /\ Weight(stack') = Weight(stack) + FrameBlocks(g) - FrameBlocks(f)
  <2>1. stack' = [stack EXCEPT ![Len(stack)] = g]
    BY DEF SetTop
  <2>2. Topped(S, stack, g, stack')
    BY <1>2, <2>1, SetFacts
  <2> QED BY <1>1, <2>2 DEF Topped
<1>4. \A i \in 1..Len(stack') : Sized(stack'[i])
  <2>1. \A i \in 1..Len(stack') : i \in 1..Len(stack) /\ (i \in 1..Len(stack) - 1 \/ i = Len(stack'))
    BY <1>3
  <2> QED BY <1>2, <1>3, <2>1
<1>5. Held(S)'
  <2>1. item' \in S \cup {None}
    BY DEF Held
  <2> QED BY <1>3, <1>4, <2>1 DEF Held
<1>6. heap' = Blocks(item') + Blocks(result') + Weight(stack')
  <2>1. FrameBlocks(f) \in Nat /\ FrameBlocks(g) \in Nat
    BY <1>3, FrameNat
  <2>2. heap' = heap + FrameBlocks(g) - FrameBlocks(f) - Blocks(item) + Blocks(item')
    BY <1>1 DEF Top
  <2>3. /\ heap = Blocks(item) + Blocks(result) + Weight(stack)
        /\ Blocks(item) \in Nat /\ Blocks(result) \in Nat /\ Weight(stack) \in Nat
    BY HeldNat DEF Accounted
  <2>4. Blocks(item') \in Nat
    BY <2>3, NoneFacts
  <2>5. Blocks(result') = Blocks(result)
    OBVIOUS
  <2>6. heap' = Blocks(item') + Blocks(result) + Weight(stack')
    BY <1>3, <2>1, <2>2, <2>3, <2>4
  <2> QED BY <2>5, <2>6
<1> QED BY <1>5, <1>6, TreesAfter

\* A container is freed with its key string.
LEMMA TreesUnwind ==
  ASSUME Accounted, NEW S, Closed(S), Held(S), Unwind
  PROVE  Trees' /\ Accounted'
<1>0. /\ stack # <<>> /\ stack' = Pop /\ UNCHANGED <<item, result, todo, out>>
      /\ heap' = heap - Top.blocks - (IF Top.key # "none" THEN 1 ELSE 0)
  BY DEF Unwind, Stay, writer
<1>1. PICK f : f = stack[Len(stack)]
  OBVIOUS
<1>2. stack \in Seq(Frames(S)) /\ \A i \in 1..Len(stack) : Sized(stack[i])
  BY DEF Held
<1>3. /\ stack' \in Seq(Frames(S)) /\ Len(stack) \in Nat \ {0}
      /\ Len(stack') = Len(stack) - 1 /\ f \in Frames(S)
      /\ \A i \in 1..Len(stack) - 1 : stack'[i] = stack[i]
      /\ Weight(stack) = Weight(stack') + FrameBlocks(f)
  <2>1. stack' = SubSeq(stack, 1, Len(stack) - 1)
    BY <1>0 DEF Pop
  <2>2. Popped(S, stack, stack')
    BY <1>0, <1>2, <2>1, PopFacts
  <2> QED BY <1>1, <2>2 DEF Popped
<1>4. \A i \in 1..Len(stack') : Sized(stack'[i])
  <2>1. \A i \in 1..Len(stack') : i \in 1..Len(stack) - 1 /\ i \in 1..Len(stack)
    BY <1>3
  <2> QED BY <1>2, <1>3, <2>1
<1>5. Held(S)'
  BY <1>0, <1>3, <1>4 DEF Held
<1>6. heap' = Blocks(item') + Blocks(result') + Weight(stack')
  <2>1. /\ f.blocks \in Nat
        /\ FrameBlocks(f) = f.blocks + (IF f.key # "none" THEN 1 ELSE 0)
    BY <1>3, FrameNat
  <2>2. heap' = heap - f.blocks - (IF f.key # "none" THEN 1 ELSE 0)
    BY <1>0, <1>1 DEF Top
  <2>3. /\ heap = Blocks(item) + Blocks(result) + Weight(stack)
        /\ Blocks(item) \in Nat /\ Blocks(result) \in Nat /\ Weight(stack) \in Nat
    BY HeldNat DEF Accounted
  <2>4. Weight(stack') \in Nat
    BY <1>3, Weights
  <2>5. Weight(stack) = Weight(stack') + FrameBlocks(f)
    BY <1>3
  <2>6. PICK k \in Nat : k = IF f.key # "none" THEN 1 ELSE 0
    OBVIOUS
  <2>7. FrameBlocks(f) = f.blocks + k /\ heap' = heap - f.blocks - k
    BY <2>1, <2>2, <2>6
  <2>8. heap' = Blocks(item) + Blocks(result) + Weight(stack')
    BY <2>1, <2>3, <2>4, <2>5, <2>7
  <2> QED BY <1>0, <2>8
<1> QED BY <1>5, <1>6, TreesAfter

\* What is in hand becomes the result, or is freed; the result is freed.
LEMMA TreesHand ==
  ASSUME Accounted, NEW S, Closed(S), Held(S), item' \in {item, None},
         result' \in {item, result, None}, todo' \in Seq(Items(S)), out' \in Seq(Tokens),
         heap' = heap - Blocks(item) - Blocks(result) + Blocks(item') + Blocks(result'),
         UNCHANGED stack
  PROVE  Trees' /\ Accounted'
<1>1. Held(S)'
  BY DEF Held
<1>2. /\ heap = Blocks(item) + Blocks(result) + Weight(stack)
      /\ Blocks(item) \in Nat /\ Blocks(result) \in Nat /\ Weight(stack) \in Nat
  BY HeldNat DEF Accounted
<1>3. Blocks(item') \in Nat /\ Blocks(result') \in Nat /\ Weight(stack') = Weight(stack)
  <2>1. Blocks(None) \in Nat
    BY NoneFacts
  <2>2. Blocks(item') \in Nat
    BY <1>2, <2>1, Zenon
  <2>3. Blocks(result') \in Nat
    BY <1>2, <2>1, Zenon
  <2>4. Weight(stack') = Weight(stack)
    BY Zenon
  <2> QED BY <2>2, <2>3, <2>4, Zenon
<1>4. heap' = Blocks(item') + Blocks(result') + Weight(stack')
  BY <1>2, <1>3, SMTT(30)
<1> QED BY <1>1, <1>4, TreesAfter

-----------------------------------------------------------------------------
(* The invariant: what is said in Json, and that the trees are trees.        *)

IInv == ParserInv /\ Trees

Control == Placed /\ KeysHeld /\ Blamed /\ OomDistinct
Reading == {"value", "first", "key", "colon", "item", "after", "top"}

\* Outside the innermost container, or in all of them, an object that awaits a
\* value holds its key.
KeyFits(f) == f.key # "none" <=> f.kind = "object"
Inner(s) == \A i \in 1..Len(s) - 1 : KeyFits(s[i])
Whole(s) == \A i \in 1..Len(s) : KeyFits(s[i])

LEMMA KeysPushed ==
  ASSUME NEW S, NEW s \in Seq(Frames(S)), NEW f, NEW t, Pushed(S, s, f, t), Whole(s)
  PROVE  Inner(t)
<1>1. Len(s) \in Nat /\ Len(t) = Len(s) + 1 /\ \A i \in 1..Len(s) : t[i] = s[i]
  BY LenProperties DEF Pushed
<1>2. \A i \in 1..Len(t) - 1 : i \in 1..Len(s)
  BY <1>1
<1> QED BY <1>1, <1>2 DEF Inner, Whole

LEMMA KeysPopped ==
  ASSUME NEW S, NEW s, NEW t, Popped(S, s, t), Inner(s)
  PROVE  Whole(t)
<1>1. Len(s) \in Nat /\ Len(t) = Len(s) - 1 /\ \A i \in 1..Len(s) - 1 : t[i] = s[i]
  BY DEF Popped
<1>2. \A i \in 1..Len(t) : i \in 1..Len(s) - 1
  BY <1>1
<1> QED BY <1>1, <1>2 DEF Inner, Whole

LEMMA KeysTopped ==
  ASSUME NEW S, NEW s, NEW f, NEW t, Topped(S, s, f, t), Inner(s)
  PROVE  Inner(t)
<1>1. Len(t) = Len(s) /\ \A i \in 1..Len(s) - 1 : t[i] = s[i]
  BY DEF Topped
<1> QED BY <1>1 DEF Inner

LEMMA KeysWhole ==
  ASSUME NEW S, NEW s \in Seq(Frames(S)), s # <<>> PROVE Whole(s) <=> Inner(s) /\ KeyFits(s[Len(s)])
<1>1. Len(s) \in Nat \ {0}
  BY EmptySeq
<1>2. Len(s) \in 1..Len(s) /\ \A i \in 1..Len(s) : i \in 1..Len(s) - 1 \/ i = Len(s)
  BY <1>1
<1>3. \A i \in 1..Len(s) - 1 : i \in 1..Len(s)
  BY <1>1
<1> QED BY <1>2, <1>3 DEF Inner, Whole

LEMMA KeysNone == ASSUME NEW s, s = <<>> PROVE Whole(s) /\ Inner(s)
  BY DEF Whole, Inner

LEMMA KeysHeldAs ==
  KeysHeld <=> /\ Inner(stack)
               /\ mode \in {"first", "key", "after"} => Top.key = "none"
               /\ mode = "colon" => Top.key # "none"
               /\ mode \in {"value", "item"} /\ stack # <<>> => KeyFits(Top)
  BY DEF KeysHeld, Inner, KeyFits

\* While a text is read nothing has gone wrong.
LEMMA Quiet ==
  ASSUME ParserInv, mode \in Reading
  PROVE  error = "none" /\ exhausted = FALSE /\ broken = FALSE /\ result = None
<1>1. exhausted \in BOOLEAN /\ broken \in BOOLEAN
  BY DEF ParserInv, ParserSound, TypeOK
<1> QED BY <1>1 DEF ParserInv, Reading, Placed, Blamed

\* A step that goes on reading.
LEMMA Moving ==
  ASSUME ParserInv, mode \in Reading, mode' \in Reading,
         UNCHANGED <<error, exhausted, broken, result>>
  PROVE  Blamed' /\ OomDistinct'
<1>1. error' = "none" /\ exhausted' = FALSE /\ broken' = FALSE
  BY Quiet
<1> QED BY <1>1 DEF Reading, Blamed, OomDistinct

\* A step that fails, with a message that says why, or inside a container.
LEMMA Failing ==
  ASSUME ParserInv, mode \in Reading, mode' = "fail", item' = None,
         UNCHANGED <<stack, broken, result>>,
         \/ error' \notin {"none", "out of memory"} /\ UNCHANGED exhausted
         \/ error' \in {"out of memory", "key"} /\ exhausted' = TRUE
         \/ error' = "none" /\ exhausted' = TRUE /\ stack # <<>>
  PROVE  Control'
<1>1. error = "none" /\ exhausted = FALSE /\ broken = FALSE /\ result = None
  BY Quiet
<1>2. Inner(stack)
  BY KeysHeldAs DEF ParserInv
<1>3. Placed'
  BY <1>1 DEF Placed
<1>4. KeysHeld'
  BY <1>2 DEF KeysHeld, Inner, KeyFits
<1>5. Blamed' /\ OomDistinct'
  BY <1>1 DEF Blamed, OomDistinct
<1> QED BY <1>3, <1>4, <1>5 DEF Control

LEMMA TreesTyped ==
  Trees /\ Accounted =>
    /\ heap \in Nat /\ \A i \in 1..Len(stack) : stack[i].kind \in {"array", "object"}
    /\ \A i \in 1..Len(stack) :
         stack[i].blocks = 1 + Total(Counts(stack[i].kind, stack[i].body))
<1> SUFFICES ASSUME NEW S, Closed(S), Held(S), Accounted
             PROVE  /\ heap \in Nat
                    /\ \A i \in 1..Len(stack) : stack[i].kind \in {"array", "object"}
                    /\ \A i \in 1..Len(stack) : Sized(stack[i])
  BY DEF Trees, Sized
<1>1. heap \in Nat
  BY HeldNat DEF Accounted
<1>2. \A i \in 1..Len(stack) : stack[i].kind \in {"array", "object"}
  BY ElementOfSeq, FrameNat DEF Held
<1> QED BY <1>1, <1>2 DEF Held

Typed ==
  /\ text \in Seq(Tokens) /\ ended \in BOOLEAN /\ pos \in 1..Len(text) + 1
  /\ mode \in Reading \cup {"fail", "parsed", "write", "nothing"}
  /\ Len(stack) <= MaxDepth
  /\ exhausted \in BOOLEAN /\ canonical \in BOOLEAN /\ broken \in BOOLEAN /\ pass \in {1, 2}

LEMMA Conclude == ASSUME Trees', Accounted', Control', Typed' PROVE IInv'
<1>1. /\ heap' \in Nat /\ \A i \in 1..Len(stack') : stack'[i].kind \in {"array", "object"}
      /\ \A i \in 1..Len(stack') :
           stack'[i].blocks = 1 + Total(Counts(stack'[i].kind, stack'[i].body))
  <2>1. (Trees /\ Accounted =>
          /\ heap \in Nat /\ \A i \in 1..Len(stack) : stack[i].kind \in {"array", "object"}
          /\ \A i \in 1..Len(stack) :
               stack[i].blocks = 1 + Total(Counts(stack[i].kind, stack[i].body)))'
    BY TreesTyped, PTL
  <2> QED BY <2>1
<1>2. TypeOK'
  BY <1>1 DEF TypeOK, Typed, Reading
<1> QED BY <1>1, <1>2 DEF IInv, ParserInv, ParserSound, Control

LEMMA Unpack ==
  ASSUME IInv
  PROVE  /\ ParserInv /\ Trees /\ Accounted /\ Typed /\ Placed /\ KeysHeld /\ Blamed
         /\ OomDistinct
  BY DEF IInv, ParserInv, ParserSound, TypeOK, Typed, Reading

LEMMA StringTokens ==
  /\ "end" \notin Leaves /\ StringSet \subseteq Leaves /\ Leaves \subseteq Tokens
  /\ "end" \notin StringSet
  BY TokensAssumption DEF Leaves, Tokens

LEMMA Consumed ==
  ASSUME Typed, Peek # "end" PROVE pos + 1 \in 1..Len(text) + 1 /\ Peek \in Tokens
<1>1. text \in Seq(Tokens) /\ pos \in 1..Len(text) + 1 /\ Len(text) \in Nat
  BY LenProperties DEF Typed
<1>2. pos <= Len(text)
  BY DEF Peek
<1>3. pos \in 1..Len(text)
  BY <1>1, <1>2
<1>4. Peek = text[pos]
  BY <1>2 DEF Peek
<1> QED BY <1>1, <1>3, <1>4, ElementOfSeq

LEMMA RevealStep == ASSUME IInv, Reveal PROVE IInv'
<1>1. UNCHANGED <<pos, mode, stack, item, error, heap, exhausted, result, pass, original,
                  canonical, todo, out, broken>>
  BY DEF Reveal, writer
<1>2. Trees' /\ Accounted'
  BY <1>1, Unpack, TreesKept
<1>3. Control'
  BY <1>1, Unpack DEF Control, Placed, KeysHeld, Blamed, OomDistinct, Top
<1>4. text' \in Seq(Tokens) /\ ended' \in BOOLEAN /\ pos \in 1..Len(text') + 1
  <2>1. text \in Seq(Tokens) /\ ended \in BOOLEAN /\ pos \in 1..Len(text) + 1
        /\ Len(text) \in Nat
    BY Unpack, LenProperties DEF Typed
  <2>2. CASE \E t \in Tokens : text' = Append(text, t) /\ ended' = ended
    <3>1. PICK t \in Tokens : text' = Append(text, t) /\ ended' = ended
      BY <2>2
    <3>2. text' \in Seq(Tokens) /\ Len(text') = Len(text) + 1
      BY <2>1, <3>1, AppendProperties
    <3> QED BY <2>1, <3>1, <3>2
  <2>3. CASE ended' = TRUE /\ text' = text
    BY <2>1, <2>3
  <2> QED BY <2>2, <2>3 DEF Reveal
<1>5. Typed'
  BY <1>1, <1>4, Unpack DEF Typed
<1> QED BY <1>2, <1>3, <1>5, Conclude

LEMMA SkipWsStep == ASSUME IInv, SkipWs PROVE IInv'
<1>1. /\ UNCHANGED <<text, ended, mode, stack, item, error, heap, exhausted, result, pass,
                     original, canonical, todo, out, broken>>
      /\ pos' = pos + 1 /\ Peek = "ws"
  BY DEF SkipWs, Stay, input, writer, Consume
<1>2. Trees' /\ Accounted'
  BY <1>1, Unpack, TreesKept
<1>3. Control'
  BY <1>1, Unpack DEF Control, Placed, KeysHeld, Blamed, OomDistinct, Top
<1>4. Typed'
  BY <1>1, Unpack, Consumed DEF Typed
<1> QED BY <1>2, <1>3, <1>4, Conclude

\* What a step of the parser leaves alone.
LEMMA Stays ==
  ASSUME IInv, Stay, pos' \in 1..Len(text) + 1, Len(stack') <= MaxDepth,
         mode' \in Reading \cup {"fail", "parsed"}, exhausted' \in BOOLEAN
  PROVE  Typed' /\ UNCHANGED <<result, todo, out, broken>>
<1>1. UNCHANGED <<text, ended, result, pass, original, canonical, todo, out, broken>>
  BY DEF Stay, input, writer
<1> QED BY <1>1, Unpack DEF Typed

LEMMA ParseValueStep == ASSUME IInv, ParseValue PROVE IInv'
<1>1. /\ mode = "value" /\ Stay /\ ParserInv /\ Trees /\ Accounted /\ mode \in Reading
      /\ item = None /\ error = "none" /\ exhausted = FALSE /\ broken = FALSE
  <2>1. mode = "value" /\ Stay
    BY DEF ParseValue, At
  <2>2. mode \in Reading
    BY <2>1 DEF Reading
  <2> QED BY <2>1, <2>2, Unpack, Quiet DEF Placed
<1>2. PICK S : Closed(S) /\ Held(S)
  BY <1>1 DEF Trees
<1>3. /\ pos \in 1..Len(text) + 1 /\ Len(stack) <= MaxDepth /\ stack \in Seq(Frames(S))
      /\ Len(stack) \in Nat
  BY <1>2, Unpack, LenProperties DEF Typed, Held
<1>4. ASSUME UNCHANGED <<stack, item, heap>>, mode' = "fail", pos' \in 1..Len(text) + 1,
             \/ error' = "depth" /\ UNCHANGED exhausted
             \/ error' = "token" /\ UNCHANGED exhausted
             \/ error' = "out of memory" /\ exhausted' = TRUE
      PROVE  IInv'
  <2>1. exhausted' \in BOOLEAN
    BY <1>1, <1>4
  <2>2. Typed' /\ UNCHANGED <<result, todo, out, broken>>
    BY <1>1, <1>3, <1>4, <2>1, Stays
  <2>3. Trees' /\ Accounted'
    BY <1>1, <1>4, <2>2, TreesKept
  <2>4. Control'
    BY <1>1, <1>4, <2>2, Failing
  <2> QED BY <2>2, <2>3, <2>4, Conclude
<1>5. ASSUME ~TooDeep, Peek \in {"[", "{"}, Consume, mode' = "first", heap' = heap + 1,
             stack' = Append(stack, Frame(IF Peek = "[" THEN "array" ELSE "object")),
             UNCHANGED <<item, error, exhausted>>
      PROVE  IInv'
  <2>1. PICK kind \in {"array", "object"} : stack' = Append(stack, Frame(kind))
    BY <1>5
  <2>2. PICK f : f = Frame(kind)
    OBVIOUS
  <2>3. f \in Frames(S) /\ f.key = "none"
    BY <2>2, FrameFacts
  <2>4. Pushed(S, stack, f, stack')
    BY <1>3, <2>1, <2>2, <2>3, PushFacts
  <2>5. Len(stack') = Len(stack) + 1 /\ stack' # <<>> /\ stack'[Len(stack')] = f
    BY <2>4 DEF Pushed
  <2>6. Len(stack') <= MaxDepth
    <3>1. MaxDepth \in Nat /\ ~(Len(stack) >= MaxDepth)
      BY <1>5, JsonAssumption DEF TooDeep
    <3>2. Len(stack) \in Nat
      BY <1>3
    <3> QED BY <2>5, <3>1, <3>2
  <2>7. pos' \in 1..Len(text) + 1
    BY <1>5, Unpack, Consumed DEF Consume
  <2>8. Typed' /\ UNCHANGED <<result, todo, out, broken>>
    BY <1>1, <1>5, <2>6, <2>7, Stays DEF Reading
  <2>9. Trees' /\ Accounted'
    BY <1>1, <1>2, <1>5, <2>1, <2>8, TreesOpen
  <2>10. Whole(stack)
    <3>1. CASE stack = <<>>
      BY <3>1, KeysNone
    <3>2. CASE stack # <<>>
      <4>1. Inner(stack) /\ KeyFits(stack[Len(stack)])
        BY <1>1, <3>2, Unpack, KeysHeldAs DEF Top
      <4> QED BY <1>3, <3>2, <4>1, KeysWhole
    <3> QED BY <3>1, <3>2
  <2>11. Inner(stack')
    BY <1>3, <2>4, <2>10, KeysPushed
  <2>12. KeysHeld'
    BY <1>5, <2>3, <2>5, <2>11 DEF KeysHeld, Inner, KeyFits, Top
  <2>13. Placed'
    BY <1>1, <1>5, <2>5, <2>8, Quiet DEF Placed
  <2>14. Blamed' /\ OomDistinct'
    BY <1>1, <1>5, <2>8, Moving DEF Reading
  <2> QED BY <2>8, <2>9, <2>12, <2>13, <2>14, Conclude DEF Control
<1>6. ASSUME Peek \in Leaves, Consume, item' = Leaf(Peek), heap' = heap + 1, mode' = "item",
             UNCHANGED <<stack, error, exhausted>>
      PROVE  IInv'
  <2>1. Peek # "end"
    BY <1>6, StringTokens
  <2>2. pos' \in 1..Len(text) + 1
    BY <1>6, <2>1, Unpack, Consumed DEF Consume
  <2>3. Typed' /\ UNCHANGED <<result, todo, out, broken>>
    BY <1>1, <1>3, <1>6, <2>2, Stays DEF Reading
  <2>4. Trees' /\ Accounted'
    BY <1>1, <1>2, <1>6, <2>3, TreesLeaf
  <2>5. item' # None
    BY <1>6, NoneFacts
  <2>6. Placed'
    BY <1>1, <1>6, <2>3, <2>5, Quiet DEF Placed
  <2>7. KeysHeld'
    BY <1>1, <1>6, Unpack DEF KeysHeld, Top
  <2>8. Blamed' /\ OomDistinct'
    BY <1>1, <1>6, <2>3, Moving DEF Reading
  <2> QED BY <2>3, <2>4, <2>6, <2>7, <2>8, Conclude DEF Control
<1>7. CASE TooDeep /\ Fail("depth") /\ UNCHANGED <<pos, stack, item, heap, exhausted>>
  BY <1>1, <1>3, <1>4, <1>7 DEF Fail
<1>8. CASE /\ Peek \in {"[", "{"} /\ OutOfMemory("out of memory")
           /\ UNCHANGED <<pos, stack, item, heap>>
  BY <1>1, <1>3, <1>4, <1>8 DEF Fail, OutOfMemory
<1>9. CASE /\ Peek \in Leaves /\ Consume /\ UNCHANGED stack
           /\ OutOfMemory("out of memory") /\ UNCHANGED <<item, heap>>
  <2>1. Peek # "end"
    BY <1>9, StringTokens
  <2>2. pos' \in 1..Len(text) + 1
    BY <1>9, <2>1, Unpack, Consumed DEF Consume
  <2> QED BY <1>1, <1>4, <1>9, <2>2 DEF Fail, OutOfMemory
<1>10. CASE Fail("token") /\ UNCHANGED <<pos, stack, item, heap, exhausted>>
  BY <1>1, <1>3, <1>4, <1>10 DEF Fail
<1> QED BY <1>5, <1>6, <1>7, <1>8, <1>9, <1>10 DEF ParseValue

\* What is known inside a container.
LEMMA InContainer ==
  ASSUME IInv, mode \in {"first", "key", "colon", "after"} \/ (mode = "item" /\ stack # <<>>)
  PROVE  /\ ParserInv /\ Accounted /\ mode \in Reading /\ stack # <<>>
         /\ error = "none" /\ exhausted = FALSE /\ broken = FALSE /\ result = None
         /\ mode # "item" => item = None
         /\ Inner(stack) /\ pos \in 1..Len(text) + 1 /\ Len(stack) <= MaxDepth
         /\ \E S : /\ Closed(S) /\ Held(S) /\ stack \in Seq(Frames(S)) /\ Top \in Frames(S)
                   /\ Sized(Top)
<1>1. mode \in Reading /\ stack # <<>>
  BY Unpack DEF Reading, Placed
<1>2. PICK S : Closed(S) /\ Held(S)
  BY Unpack DEF Trees
<1>3. stack \in Seq(Frames(S)) /\ Top \in Frames(S) /\ Sized(Top)
  <2>1. stack \in Seq(Frames(S)) /\ \A i \in 1..Len(stack) : Sized(stack[i])
    BY <1>2 DEF Held
  <2>2. Len(stack) \in Nat \ {0}
    BY <1>1, <2>1, EmptySeq
  <2>3. Len(stack) \in 1..Len(stack)
    BY <2>2
  <2> QED BY <2>1, <2>3, ElementOfSeq DEF Top
<1>4. mode # "item" => item = None
  BY Unpack DEF Placed
<1>5. Inner(stack) /\ pos \in 1..Len(text) + 1 /\ Len(stack) <= MaxDepth
  BY Unpack, KeysHeldAs DEF Typed
<1> QED BY <1>1, <1>2, <1>3, <1>4, <1>5, Unpack, Quiet

\* A step inside a container that only moves on.
LEMMA Passing ==
  ASSUME IInv, mode \in {"first", "colon", "after"}, Stay, pos' \in 1..Len(text) + 1,
         UNCHANGED <<stack, item, error, heap, exhausted>>,
         \/ mode \in {"first", "after"} /\ mode' = Element
         \/ mode = "colon" /\ mode' = "value"
  PROVE  IInv'
<1>1. /\ ParserInv /\ Accounted /\ mode \in Reading /\ stack # <<>> /\ result = None
      /\ item = None /\ Inner(stack) /\ Len(stack) <= MaxDepth /\ exhausted = FALSE
  BY InContainer
<1>2. PICK S : Top \in Frames(S)
  BY InContainer
<1>3. Top.kind \in {"array", "object"} /\ (Top.kind = "array" => Top.key = "none")
  BY <1>2, FrameNat
<1>4. /\ mode \in {"first", "after"} => Top.key = "none"
      /\ mode = "colon" => Top.key # "none" /\ Top.kind = "object"
  BY Unpack DEF KeysHeld, Placed
<1>5. mode' = "value" \/ (mode' = "key" /\ Top.kind = "object" /\ Top.key = "none")
  BY <1>3, <1>4 DEF Element
<1>6. mode' = "value" => KeyFits(Top)
  BY <1>3, <1>4 DEF Element, KeyFits
<1>7. mode' \in Reading
  BY <1>5 DEF Reading
<1>8. Typed' /\ UNCHANGED <<result, todo, out, broken>>
  BY <1>1, <1>7, Stays
<1>9. Trees' /\ Accounted'
  BY <1>8, Unpack, TreesKept
<1>10. Placed'
  BY <1>1, <1>5, <1>8 DEF Placed, Top
<1>11. KeysHeld'
  BY <1>1, <1>5, <1>6 DEF KeysHeld, Inner, KeyFits, Top
<1>12. Blamed' /\ OomDistinct'
  BY <1>1, <1>7, <1>8, Moving
<1> QED BY <1>8, <1>9, <1>10, <1>11, <1>12, Conclude DEF Control

\* A step inside a container that fails.
LEMMA Breaking ==
  ASSUME IInv, mode \in {"first", "key", "colon", "after"}, Stay, pos' \in 1..Len(text) + 1,
         UNCHANGED <<stack, item, heap>>, mode' = "fail",
         \/ error' \notin {"none", "out of memory"} /\ UNCHANGED exhausted
         \/ error' \in {"none", "out of memory", "key"} /\ exhausted' = TRUE
  PROVE  IInv'
<1>1. /\ ParserInv /\ Accounted /\ mode \in Reading /\ stack # <<>> /\ item = None
      /\ Len(stack) <= MaxDepth /\ exhausted = FALSE
  BY InContainer
<1>2. exhausted' \in BOOLEAN
  BY <1>1
<1>3. Typed' /\ UNCHANGED <<result, todo, out, broken>>
  BY <1>1, <1>2, Stays
<1>4. Trees' /\ Accounted'
  BY <1>3, Unpack, TreesKept
<1>5. Control'
  BY <1>1, <1>3, Failing
<1> QED BY <1>3, <1>4, <1>5, Conclude

LEMMA CloseStep ==
  ASSUME IInv, mode \in {"first", "after"}, Peek = Closer, Close, Stay PROVE IInv'
<1>1. /\ pos' = pos + 1 /\ item' = ValueOf(Top) /\ stack' = Pop /\ mode' = "item"
      /\ UNCHANGED <<error, heap, exhausted>>
  BY DEF Close, Consume
<1>2. /\ ParserInv /\ Accounted /\ mode \in Reading /\ stack # <<>> /\ result = None
      /\ item = None /\ Inner(stack) /\ Len(stack) <= MaxDepth /\ exhausted = FALSE
  BY InContainer
<1>3. PICK S : /\ Closed(S) /\ Held(S) /\ stack \in Seq(Frames(S)) /\ Top \in Frames(S)
               /\ Sized(Top)
  BY InContainer
<1>4. Top.key = "none" /\ Top.kind \in {"array", "object"}
  BY <1>3, Unpack, FrameNat DEF KeysHeld
<1>5. Popped(S, stack, stack')
  <2>1. stack' = SubSeq(stack, 1, Len(stack) - 1)
    BY <1>1 DEF Pop
  <2> QED BY <1>2, <1>3, <2>1, PopFacts
<1>6. Len(stack') <= MaxDepth /\ stack' \in Seq(Frames(S))
  <2>1. Len(stack) \in Nat /\ Len(stack') = Len(stack) - 1 /\ stack' \in Seq(Frames(S))
    BY <1>5 DEF Popped
  <2> QED BY <1>2, <2>1, JsonAssumption
<1>7. pos' \in 1..Len(text) + 1
  <2>1. Peek # "end"
    BY DEF Closer
  <2> QED BY <1>1, <2>1, Unpack, Consumed
<1>8. Typed' /\ UNCHANGED <<result, todo, out, broken>>
  BY <1>1, <1>2, <1>6, <1>7, Stays DEF Reading
<1>9. Trees' /\ Accounted'
  BY <1>1, <1>2, <1>3, <1>4, <1>8, TreesClose
<1>10. Whole(stack')
  BY <1>2, <1>5, KeysPopped
<1>11. stack' # <<>> => Inner(stack') /\ KeyFits(stack'[Len(stack')])
  BY <1>6, <1>10, KeysWhole
<1>12. KeysHeld'
  <2>1. stack' = <<>> => Inner(stack')
    BY KeysNone
  <2> QED BY <1>1, <1>11, <2>1 DEF KeysHeld, Inner, KeyFits, Top
<1>13. item' # None
  <2>1. item'[1] = Top.kind /\ None[1] = "none"
    BY <1>1 DEF ValueOf, None
  <2> QED BY <1>4, <2>1
<1>14. Placed'
  BY <1>1, <1>2, <1>8, <1>13 DEF Placed
<1>15. Blamed' /\ OomDistinct'
  BY <1>1, <1>2, <1>8, Moving DEF Reading
<1> QED BY <1>8, <1>9, <1>12, <1>14, <1>15, Conclude DEF Control

LEMMA FirstElementStep == ASSUME IInv, FirstElement PROVE IInv'
<1>1. mode = "first" /\ Stay
  BY DEF FirstElement, At
<1>2. CASE Peek = Closer /\ Close
  BY <1>1, <1>2, CloseStep
<1>3. CASE mode' = Element /\ UNCHANGED <<pos, stack, item, error, heap, exhausted>>
  <2>1. pos' \in 1..Len(text) + 1
    BY <1>3, Unpack DEF Typed
  <2> QED BY <1>1, <1>3, <2>1, Passing
<1> QED BY <1>2, <1>3 DEF FirstElement

LEMMA AfterElementStep == ASSUME IInv, AfterElement PROVE IInv'
<1>1. mode = "after" /\ Stay /\ error = "none"
  BY InContainer DEF AfterElement, At
<1>2. CASE /\ Peek = "comma" /\ Consume /\ mode' = Element
           /\ UNCHANGED <<stack, item, error, heap, exhausted>>
  <2>1. pos' \in 1..Len(text) + 1
    BY <1>2, Unpack, Consumed DEF Consume
  <2> QED BY <1>1, <1>2, <2>1, Passing
<1>3. CASE Peek = Closer /\ Close
  BY <1>1, <1>3, CloseStep
<1>4. CASE Fail("comma") /\ UNCHANGED <<pos, stack, item, heap, exhausted>>
  <2>1. pos' \in 1..Len(text) + 1
    BY <1>4, Unpack DEF Typed
  <2> QED BY <1>1, <1>4, <2>1, Breaking DEF Fail
<1> QED BY <1>2, <1>3, <1>4 DEF AfterElement

LEMMA ParseColonStep == ASSUME IInv, ParseColon PROVE IInv'
<1>1. mode = "colon" /\ Stay /\ error = "none" /\ UNCHANGED <<stack, item, heap, exhausted>>
  BY InContainer DEF ParseColon, At
<1>2. CASE Peek = ":" /\ Consume /\ mode' = "value" /\ UNCHANGED error
  <2>1. pos' \in 1..Len(text) + 1
    BY <1>2, Unpack, Consumed DEF Consume
  <2> QED BY <1>1, <1>2, <2>1, Passing
<1>3. CASE Fail("colon") /\ UNCHANGED pos
  <2>1. pos' \in 1..Len(text) + 1
    BY <1>3, Unpack DEF Typed
  <2> QED BY <1>1, <1>3, <2>1, Breaking DEF Fail
<1> QED BY <1>2, <1>3 DEF ParseColon

\* The innermost container changes and its element is complete, or its key read.
LEMMA Growing ==
  ASSUME IInv, mode \in {"key", "item"}, stack # <<>>, Stay, NEW S, Closed(S), Held(S),
         stack \in Seq(Frames(S)), NEW g \in Frames(S), Sized(g), stack' = SetTop(g),
         pos' \in 1..Len(text) + 1, item' = None, UNCHANGED <<error, exhausted>>,
         heap' = heap + FrameBlocks(g) - FrameBlocks(Top) - Blocks(item) + Blocks(item'),
         \/ mode' = "after" /\ g.key = "none"
         \/ mode' = "colon" /\ g.key # "none" /\ g.kind = "object"
  PROVE  IInv'
<1>1. /\ ParserInv /\ Accounted /\ mode \in Reading /\ result = None /\ Inner(stack)
      /\ Len(stack) <= MaxDepth /\ exhausted = FALSE
  BY InContainer
<1>2. Topped(S, stack, g, stack')
  <2>1. stack' = [stack EXCEPT ![Len(stack)] = g]
    BY DEF SetTop
  <2> QED BY <2>1, SetFacts
<1>3. stack' # <<>> /\ Len(stack') = Len(stack) /\ stack'[Len(stack')] = g
  BY <1>2 DEF Topped
<1>4. mode' \in Reading
  BY DEF Reading
<1>5. Typed' /\ UNCHANGED <<result, todo, out, broken>>
  BY <1>1, <1>3, <1>4, Stays
<1>6. Trees' /\ Accounted'
  BY <1>1, <1>5, TreesSet
<1>7. Inner(stack')
  BY <1>1, <1>2, KeysTopped
<1>8. KeysHeld'
  BY <1>3, <1>7 DEF KeysHeld, Inner, KeyFits, Top
<1>9. Placed'
  BY <1>1, <1>3, <1>5 DEF Placed, Top
<1>10. Blamed' /\ OomDistinct'
  BY <1>1, <1>4, <1>5, Moving
<1> QED BY <1>5, <1>6, <1>8, <1>9, <1>10, Conclude DEF Control

LEMMA ParseKeyStep == ASSUME IInv, ParseKey PROVE IInv'
<1>1. /\ mode = "key" /\ Stay /\ stack # <<>> /\ error = "none" /\ item = None
      /\ Accounted
  BY InContainer DEF ParseKey, At
<1>2. PICK S : /\ Closed(S) /\ Held(S) /\ stack \in Seq(Frames(S)) /\ Top \in Frames(S)
               /\ Sized(Top)
  BY <1>1, InContainer
<1>3. Peek \in StringSet \cup {"nul"} => pos + 1 \in 1..Len(text) + 1
  <2>1. Peek \in StringSet \cup {"nul"} => Peek # "end"
    BY StringTokens
  <2> QED BY <2>1, Unpack, Consumed
<1>4. pos \in 1..Len(text) + 1
  BY Unpack DEF Typed
<1>5. CASE /\ Peek \in StringSet /\ heap' = heap + 1 /\ Consume /\ mode' = "colon"
           /\ stack' = SetTop([Top EXCEPT !.key = Peek]) /\ UNCHANGED <<item, error, exhausted>>
  <2>1. PICK g : g = [Top EXCEPT !.key = Peek]
    OBVIOUS
  <2>2. Top.kind = "object" /\ Top.key = "none"
    BY <1>1, Unpack DEF Placed, KeysHeld
  <2>3. PICK f : f = Top
    OBVIOUS
  <2>4. PICK k : k = Peek
    OBVIOUS
  <2>5. /\ g \in Frames(S) /\ Sized(g) /\ g.kind = "object" /\ g.key # "none"
        /\ FrameBlocks(g) = FrameBlocks(f) + 1
    <3>1. f \in Frames(S) /\ Sized(f) /\ f.kind = "object" /\ f.key = "none" /\ k \in StringSet
          /\ g = [f EXCEPT !.key = k]
      BY <1>2, <1>5, <2>1, <2>2, <2>3, <2>4
    <3> QED BY <3>1, KeyFacts
  <2>6. FrameBlocks(f) \in Nat /\ heap \in Nat
    BY <1>2, <2>3, FrameNat, Unpack, TreesTyped
  <2>7. heap' = heap + FrameBlocks(g) - FrameBlocks(Top) - Blocks(item) + Blocks(item')
    <3>1. Blocks(item) = 0 /\ Blocks(item') = 0
      BY <1>1, <1>5, NoneFacts
    <3>2. heap' = heap + 1 /\ FrameBlocks(Top) = FrameBlocks(f)
      BY <1>5, <2>3
    <3> QED BY <2>5, <2>6, <3>1, <3>2
  <2>8. pos' \in 1..Len(text) + 1 /\ stack' = SetTop(g) /\ item' = None
    BY <1>1, <1>3, <1>5, <2>1 DEF Consume
  <2> QED BY <1>1, <1>2, <1>5, <2>5, <2>7, <2>8, Growing
<1>6. CASE /\ Peek \in StringSet \cup {"nul"} /\ mode' = "fail" /\ exhausted' = TRUE
           /\ Consume /\ UNCHANGED <<stack, item, error, heap>>
  <2>1. pos' \in 1..Len(text) + 1 /\ error' = "none"
    BY <1>1, <1>3, <1>6 DEF Consume
  <2> QED BY <1>1, <1>6, <2>1, Breaking
<1>7. CASE /\ Peek \in StringSet /\ OutOfMemory("key") /\ Consume
           /\ UNCHANGED <<stack, item, heap>>
  <2>1. pos' \in 1..Len(text) + 1 /\ error' = "key" /\ exhausted' = TRUE /\ mode' = "fail"
    BY <1>1, <1>3, <1>7 DEF Consume, OutOfMemory, Fail
  <2> QED BY <1>1, <1>7, <2>1, Breaking
<1>8. CASE /\ Peek = "nul" /\ Fail("key") /\ Consume
           /\ UNCHANGED <<stack, item, heap, exhausted>>
  <2>1. pos' \in 1..Len(text) + 1 /\ error' = "key" /\ mode' = "fail"
    BY <1>1, <1>3, <1>8 DEF Consume, Fail
  <2> QED BY <1>1, <1>8, <2>1, Breaking
<1>9. CASE Fail("string") /\ UNCHANGED <<pos, stack, item, heap, exhausted>>
  <2>1. pos' \in 1..Len(text) + 1 /\ error' = "string" /\ mode' = "fail"
    BY <1>1, <1>4, <1>9 DEF Fail
  <2> QED BY <1>1, <1>9, <2>1, Breaking
<1> QED BY <1>5, <1>6, <1>7, <1>8, <1>9 DEF ParseKey

LEMMA Freed ==
  ASSUME NEW h \in Nat, NEW a \in Nat, NEW b \in Nat PROVE h - a = h - a - b + 0 + b
  OBVIOUS

\* The container cannot take the value: it is freed.
LEMMA Dropping ==
  ASSUME IInv, mode = "item", stack # <<>>, item' = None, mode' = "fail",
         error' = "out of memory", exhausted' = TRUE,
         heap' = heap - Blocks(item), UNCHANGED <<stack, pos>>, Stay
  PROVE  IInv'
<1>1. /\ ParserInv /\ Accounted /\ mode \in Reading /\ error = "none" /\ exhausted = FALSE
      /\ pos \in 1..Len(text) + 1 /\ Len(stack) <= MaxDepth
  BY InContainer
<1>2. PICK S : Closed(S) /\ Held(S)
  BY InContainer
<1>4. Typed' /\ UNCHANGED <<result, todo, out, broken>>
  BY <1>1, Stays
<1>5. Control'
  BY <1>1, <1>4, Failing
<1>6. heap' = heap - Blocks(item) - Blocks(result) + Blocks(item') + Blocks(result')
  <2>1. heap \in Nat /\ Blocks(item) \in Nat /\ Blocks(result) \in Nat
    BY <1>2, HeldNat, Unpack, TreesTyped
  <2>2. PICK a \in Nat : a = Blocks(item)
    BY <2>1
  <2>3. PICK b \in Nat : b = Blocks(result)
    BY <2>1
  <2>4. Blocks(item') = 0 /\ Blocks(result') = b
    BY <1>4, <2>3, NoneFacts
  <2>5. heap' = heap - a
    BY <2>2
  <2>6. heap - a = heap - a - b + 0 + b
    BY <2>1, Freed
  <2> QED BY <2>2, <2>3, <2>4, <2>5, <2>6
<1>7. todo' \in Seq(Items(S)) /\ out' \in Seq(Tokens)
  BY <1>2, <1>4 DEF Held
<1>8. Trees' /\ Accounted'
  BY <1>1, <1>2, <1>4, <1>6, <1>7, TreesHand
<1> QED BY <1>4, <1>5, <1>8, Conclude

\* The value in hand.
LEMMA InHand ==
  ASSUME IInv, NEW S, Held(S), mode = "item" PROVE item \in S
  BY Unpack DEF Placed, Held

LEMMA ArrayAppendStep == ASSUME IInv, ArrayAppend PROVE IInv'
<1>1. /\ mode = "item" /\ Stay /\ stack # <<>> /\ item' = None /\ Top.kind = "array"
      /\ UNCHANGED pos
  BY DEF ArrayAppend
<1>2. PICK S : /\ Closed(S) /\ Held(S) /\ stack \in Seq(Frames(S)) /\ Top \in Frames(S)
               /\ Sized(Top)
  BY <1>1, InContainer
<1>3. CASE /\ stack' = SetTop([Top EXCEPT !.body = Append(@, item), !.blocks = @ + Blocks(item)])
           /\ mode' = "after" /\ UNCHANGED <<error, heap, exhausted>>
  <2>1. PICK f : f = Top
    OBVIOUS
  <2>2. PICK v : v = item
    OBVIOUS
  <2>3. PICK g : g = WithElement(f, v)
    OBVIOUS
  <2>4. /\ g \in Frames(S) /\ Sized(g) /\ g.kind = "array" /\ g.key = "none"
        /\ FrameBlocks(g) = FrameBlocks(f) + Blocks(v)
    <3>1. f \in Frames(S) /\ Sized(f) /\ f.kind = "array" /\ v \in S /\ Countable(S)
      BY <1>1, <1>2, <2>1, <2>2, InHand, HeldNat DEF Countable
    <3> QED BY <2>3, <3>1, ElementFacts
  <2>5. FrameBlocks(f) \in Nat /\ heap \in Nat /\ Blocks(v) \in Nat
    BY <1>2, <2>1, <2>2, FrameNat, HeldNat, Unpack, TreesTyped
  <2>6. heap' = heap + FrameBlocks(g) - FrameBlocks(Top) - Blocks(item) + Blocks(item')
    <3>1. Blocks(item') = 0 /\ heap' = heap
      BY <1>1, <1>3, NoneFacts
    <3> QED BY <2>1, <2>2, <2>4, <2>5, <3>1
  <2>7. stack' = SetTop(g)
    BY <1>3, <2>1, <2>2, <2>3 DEF WithElement
  <2>8. pos' \in 1..Len(text) + 1
    BY <1>1, Unpack DEF Typed
  <2> QED BY <1>1, <1>2, <1>3, <2>4, <2>6, <2>7, <2>8, Growing
<1>4. CASE /\ OutOfMemory("out of memory") /\ heap' = heap - Blocks(item)
           /\ UNCHANGED stack
  <2>1. mode' = "fail" /\ error' = "out of memory" /\ exhausted' = TRUE
    BY <1>1, <1>4, InContainer DEF OutOfMemory, Fail
  <2>2. heap' = heap - Blocks(item) /\ UNCHANGED stack
    BY <1>4
  <2> QED BY <1>1, <2>1, <2>2, Dropping
<1> QED BY <1>3, <1>4 DEF ArrayAppend

LEMMA ObjectSetStep == ASSUME IInv, ObjectSet PROVE IInv'
<1>1. /\ mode = "item" /\ Stay /\ stack # <<>> /\ item' = None /\ Top.kind = "object"
      /\ UNCHANGED pos
  BY DEF ObjectSet
<1>2. PICK S : /\ Closed(S) /\ Held(S) /\ stack \in Seq(Frames(S)) /\ Top \in Frames(S)
               /\ Sized(Top)
  BY <1>1, InContainer
<1>3. PICK f : f = Top
  OBVIOUS
<1>4. PICK v : v = item
  OBVIOUS
<1>5. /\ f \in Frames(S) /\ Sized(f) /\ f.kind = "object" /\ f.key # "none" /\ v \in S
      /\ Countable(S) /\ Blocks(v) \in Nat
  <2>1. Top.key # "none"
    BY <1>1, Unpack DEF KeysHeld
  <2> QED BY <1>1, <1>2, <1>3, <1>4, <2>1, InHand, HeldNat DEF Countable
<1>6. /\ FrameBlocks(f) \in Nat /\ heap \in Nat /\ Blocks(v) \in Nat /\ Blocks(item') = 0
      /\ Blocks(item) = Blocks(v) /\ FrameBlocks(Top) = FrameBlocks(f)
  BY <1>1, <1>2, <1>3, <1>4, <1>5, FrameNat, Unpack, TreesTyped, NoneFacts
<1>7. pos' \in 1..Len(text) + 1
  BY <1>1, Unpack DEF Typed
<1>8. ASSUME NEW i \in Holds(Top), Replace(i), mode' = "after", UNCHANGED <<error, exhausted>>
      PROVE  IInv'
  <2>1. PICK g : g = WithValue(f, i, v)
    OBVIOUS
  <2>2. i \in Holds(f)
    BY <1>3, <1>8
  <2>3. /\ g \in Frames(S) /\ Sized(g) /\ g.kind = "object" /\ g.key = "none"
        /\ Blocks(f.body[i][2]) \in Nat
        /\ FrameBlocks(g) = FrameBlocks(f) - 1 + Blocks(v) - Blocks(f.body[i][2])
    BY <1>5, <2>1, <2>2, ReplaceFacts
  <2>4. stack' = SetTop(g) /\ heap' = heap - 1 - Blocks(f.body[i][2])
    BY <1>3, <1>4, <1>8, <2>1 DEF Replace, WithValue
  <2>5. heap' = heap + FrameBlocks(g) - FrameBlocks(Top) - Blocks(item) + Blocks(item')
    <3>1. PICK n \in Nat : n = Blocks(f.body[i][2])
      BY <2>3
    <3> QED BY <1>6, <2>3, <2>4, <3>1
  <2> QED BY <1>1, <1>2, <1>7, <1>8, <2>3, <2>4, <2>5, Growing
<1>9. CASE /\ Holds(Top) = {}
           /\ stack' = SetTop([Top EXCEPT !.body = Append(@, <<Top.key, item>>),
                                 !.blocks = @ + 1 + Blocks(item), !.key = "none"])
           /\ mode' = "after" /\ UNCHANGED <<error, heap, exhausted>>
  <2>1. PICK g : g = WithMember(f, v)
    OBVIOUS
  <2>2. Holds(f) = {}
    BY <1>3, <1>9
  <2>3. /\ g \in Frames(S) /\ Sized(g) /\ g.kind = "object" /\ g.key = "none"
        /\ FrameBlocks(g) = FrameBlocks(f) + Blocks(v)
    BY <1>5, <2>1, <2>2, MemberFacts
  <2>4. stack' = SetTop(g) /\ heap' = heap
    BY <1>3, <1>4, <1>9, <2>1 DEF WithMember
  <2>5. heap' = heap + FrameBlocks(g) - FrameBlocks(Top) - Blocks(item) + Blocks(item')
    BY <1>6, <2>3, <2>4
  <2> QED BY <1>1, <1>2, <1>7, <1>9, <2>3, <2>4, <2>5, Growing
<1>10. CASE /\ OutOfMemory("out of memory") /\ heap' = heap - Blocks(item)
            /\ UNCHANGED stack
  <2>1. mode' = "fail" /\ error' = "out of memory" /\ exhausted' = TRUE
    BY <1>1, <1>10, InContainer DEF OutOfMemory, Fail
  <2>2. heap' = heap - Blocks(item) /\ UNCHANGED stack
    BY <1>10
  <2> QED BY <1>1, <2>1, <2>2, Dropping
<1> QED BY <1>8, <1>9, <1>10 DEF ObjectSet

LEMMA UnwindStep == ASSUME IInv, Unwind PROVE IInv'
<1>1. /\ mode = "fail" /\ stack # <<>> /\ stack' = Pop /\ Stay
      /\ error' = (IF error = "none" THEN "out of memory" ELSE error)
      /\ UNCHANGED <<pos, mode, item, exhausted>>
  BY DEF Unwind
<1>2. /\ ParserInv /\ Trees /\ Accounted /\ Typed /\ Placed /\ KeysHeld /\ Blamed
  BY Unpack
<1>3. PICK S : Closed(S) /\ Held(S)
  BY <1>2 DEF Trees
<1>4. Popped(S, stack, stack')
  <2>1. stack' = SubSeq(stack, 1, Len(stack) - 1) /\ stack \in Seq(Frames(S))
    BY <1>1, <1>3 DEF Pop, Held
  <2> QED BY <1>1, <2>1, PopFacts
<1>5. /\ Len(stack') <= MaxDepth /\ stack' \in Seq(Frames(S)) /\ pos \in 1..Len(text) + 1
      /\ exhausted \in BOOLEAN
  <2>1. Len(stack) \in Nat /\ Len(stack') = Len(stack) - 1 /\ stack' \in Seq(Frames(S))
    BY <1>4 DEF Popped
  <2>2. Len(stack) <= MaxDepth /\ MaxDepth \in Nat
    BY <1>2, JsonAssumption DEF Typed
  <2>3. Len(stack') <= MaxDepth
    BY <2>1, <2>2
  <2> QED BY <1>2, <2>1, <2>3 DEF Typed
<1>6. Typed' /\ UNCHANGED <<result, todo, out, broken>>
  BY <1>1, <1>5, Stays
<1>7. Trees' /\ Accounted'
  BY <1>2, <1>3, TreesUnwind
<1>8. Whole(stack')
  <2>1. Inner(stack)
    BY <1>2, KeysHeldAs
  <2> QED BY <1>4, <2>1, KeysPopped
<1>9. Inner(stack')
  <2>1. CASE stack' = <<>>
    BY <2>1, KeysNone
  <2>2. CASE stack' # <<>>
    BY <1>5, <1>8, <2>2, KeysWhole
  <2> QED BY <2>1, <2>2
<1>10. KeysHeld'
  BY <1>1, <1>9 DEF KeysHeld, Inner, KeyFits, Top
<1>11. Placed'
  BY <1>1, <1>2, <1>6 DEF Placed
<1>12. Blamed' /\ OomDistinct'
  BY <1>1, <1>2, <1>6 DEF Blamed, OomDistinct
<1> QED BY <1>6, <1>7, <1>10, <1>11, <1>12, Conclude DEF Control

LEMMA ParseFailedStep == ASSUME IInv, ParseFailed PROVE IInv'
<1>1. /\ mode = "fail" /\ stack = <<>> /\ mode' = "parsed" /\ Stay
      /\ UNCHANGED <<pos, stack, item, error, heap, exhausted>>
  BY DEF ParseFailed
<1>2. /\ Trees /\ Accounted /\ Typed /\ Placed /\ KeysHeld /\ Blamed
  BY Unpack
<1>3. pos' \in 1..Len(text) + 1 /\ Len(stack') <= MaxDepth /\ exhausted' \in BOOLEAN
  BY <1>1, <1>2 DEF Typed
<1>4. Typed' /\ UNCHANGED <<result, todo, out, broken>>
  BY <1>1, <1>3, Stays
<1>5. Trees' /\ Accounted'
  BY <1>1, <1>2, <1>4, TreesKept
<1>6. result = None /\ error # "none" /\ item = None
  BY <1>1, <1>2 DEF Placed, Blamed
<1>7. Placed'
  BY <1>1, <1>4, <1>6 DEF Placed
<1>8. KeysHeld'
  BY <1>1, <1>2 DEF KeysHeld
<1>9. Blamed' /\ OomDistinct'
  BY <1>1, <1>2, <1>4, <1>6 DEF Blamed, OomDistinct
<1> QED BY <1>4, <1>5, <1>7, <1>8, <1>9, Conclude DEF Control

LEMMA TopLevelStep == ASSUME IInv, TopLevel PROVE IInv'
<1>1. /\ mode = "item" /\ stack = <<>> /\ mode' = "top" /\ Stay
      /\ UNCHANGED <<pos, stack, item, error, heap, exhausted>>
  BY DEF TopLevel
<1>2. /\ ParserInv /\ Trees /\ Accounted /\ Typed /\ Placed /\ KeysHeld
  BY Unpack
<1>3. /\ pos' \in 1..Len(text) + 1 /\ Len(stack') <= MaxDepth /\ exhausted' \in BOOLEAN
      /\ mode \in Reading /\ mode' \in Reading
  BY <1>1, <1>2 DEF Typed, Reading
<1>4. Typed' /\ UNCHANGED <<result, todo, out, broken>>
  BY <1>1, <1>3, Stays
<1>5. Trees' /\ Accounted'
  BY <1>1, <1>2, <1>4, TreesKept
<1>6. Placed'
  BY <1>1, <1>2, <1>4 DEF Placed
<1>7. KeysHeld'
  BY <1>1, <1>2 DEF KeysHeld
<1>8. Blamed' /\ OomDistinct'
  BY <1>1, <1>2, <1>3, <1>4, Moving
<1> QED BY <1>4, <1>5, <1>6, <1>7, <1>8, Conclude DEF Control

LEMMA TrailingCheckStep == ASSUME IInv, TrailingCheck PROVE IInv'
<1>1. /\ mode = "top" /\ mode' = "parsed" /\ item' = None
      /\ UNCHANGED <<pos, stack, exhausted, text, ended, pass, original, canonical, todo, out,
                     broken>>
      /\ \/ result' = item /\ error' = error /\ heap' = heap
         \/ error' = "trailing" /\ heap' = heap - Blocks(item) /\ result' = result
  BY DEF TrailingCheck, At, input, writer
<1>2. /\ ParserInv /\ Trees /\ Accounted /\ Typed /\ Placed /\ KeysHeld
  BY Unpack
<1>3. /\ error = "none" /\ exhausted = FALSE /\ broken = FALSE /\ result = None
      /\ stack = <<>> /\ item # None
  BY <1>1, <1>2, Quiet DEF Reading, Placed
<1>4. PICK S : Closed(S) /\ Held(S)
  BY <1>2 DEF Trees
<1>5. heap' = heap - Blocks(item) - Blocks(result) + Blocks(item') + Blocks(result')
  <2>1. heap \in Nat /\ Blocks(item) \in Nat /\ Blocks(result) = 0 /\ Blocks(item') = 0
    BY <1>1, <1>2, <1>3, <1>4, HeldNat, TreesTyped, NoneFacts
  <2>2. CASE result' = item /\ heap' = heap
    BY <2>1, <2>2
  <2>3. CASE heap' = heap - Blocks(item) /\ result' = result
    BY <2>1, <2>3
  <2> QED BY <1>1, <2>2, <2>3
<1>6. Trees' /\ Accounted'
  <2>1. todo' \in Seq(Items(S)) /\ out' \in Seq(Tokens)
    BY <1>1, <1>4 DEF Held
  <2>2. item' \in {item, None} /\ result' \in {item, result, None} /\ UNCHANGED stack
    BY <1>1
  <2> QED BY <1>2, <1>4, <1>5, <2>1, <2>2, TreesHand
<1>7. Typed'
  BY <1>1, <1>2 DEF Typed
<1>8. Placed'
  BY <1>1, <1>3 DEF Placed
<1>9. KeysHeld'
  BY <1>1, <1>2 DEF KeysHeld
<1>10. Blamed' /\ OomDistinct'
  BY <1>1, <1>3 DEF Blamed, OomDistinct
<1> QED BY <1>6, <1>7, <1>8, <1>9, <1>10, Conclude DEF Control

LEMMA StartWriteStep == ASSUME IInv, StartWrite PROVE IInv'
<1>1. /\ mode = "parsed" /\ result # None /\ canonical' \in BOOLEAN /\ todo' = <<result>>
      /\ out' = <<>> /\ broken' = FALSE /\ mode' = "write"
      /\ UNCHANGED <<text, ended, pos, stack, item, error, heap, exhausted, result, pass>>
  BY DEF StartWrite, input
<1>2. /\ Trees /\ Accounted /\ Typed /\ Placed /\ KeysHeld /\ Blamed /\ OomDistinct
  BY Unpack
<1>3. PICK S : Closed(S) /\ Held(S)
  BY <1>2 DEF Trees
<1>4. todo' \in Seq(Items(S)) /\ out' \in Seq(Tokens)
  <2>1. result \in Items(S)
    BY <1>1, <1>3 DEF Held, Items
  <2> QED BY <1>1, <2>1
<1>5. heap' = heap - Blocks(item) - Blocks(result) + Blocks(item') + Blocks(result')
  <2>1. heap \in Nat /\ Blocks(item) \in Nat /\ Blocks(result) \in Nat
    BY <1>2, <1>3, HeldNat, TreesTyped
  <2> QED BY <1>1, <2>1
<1>6. Trees' /\ Accounted'
  BY <1>1, <1>2, <1>3, <1>4, <1>5, TreesHand
<1>7. Typed'
  BY <1>1, <1>2 DEF Typed
<1>8. error = "none" /\ exhausted = FALSE
  <2>1. exhausted \in BOOLEAN
    BY <1>2 DEF Typed
  <2> QED BY <1>1, <1>2, <2>1 DEF OomDistinct
<1>9. Placed'
  BY <1>1, <1>2 DEF Placed
<1>10. KeysHeld'
  BY <1>1, <1>2 DEF KeysHeld
<1>11. Blamed' /\ OomDistinct'
  BY <1>1, <1>8 DEF Blamed, OomDistinct
<1> QED BY <1>6, <1>7, <1>9, <1>10, <1>11, Conclude DEF Control

\* What is to be written is a token, a leaf, or a container.
LEMMA ItemKinds ==
  ASSUME NEW S, Closed(S), NEW v \in Items(S)
  PROVE  /\ v[1] \in {"leaf", "token"} => v[2] \in Tokens
         /\ v[1] \in {"array", "object"} => \E f \in Frames(S) : v = ValueOf(f)
<1>1. CASE v \in Marks
  BY <1>1 DEF Marks, Token
<1>2. CASE \E t \in Leaves : v = Leaf(t)
  BY <1>2, StringTokens DEF Leaf
<1>3. CASE \E f \in Frames(S) : v = ValueOf(f)
  <2>1. PICK f \in Frames(S) : v = ValueOf(f)
    BY <1>3
  <2>2. v[1] \in {"array", "object"}
    BY <2>1, FrameNat DEF ValueOf
  <2> QED BY <2>1, <2>2
<1> QED BY <1>1, <1>2, <1>3 DEF Items, Closed

LEMMA WriteNextStep == ASSUME IInv, WriteNext PROVE IInv'
<1>1. /\ mode = "write" /\ todo # <<>>
      /\ UNCHANGED <<text, ended, pos, mode, stack, item, error, heap, result, pass,
                     original, canonical>>
  BY DEF WriteNext, input
<1>2. /\ Trees /\ Accounted /\ Typed /\ Placed /\ KeysHeld /\ Blamed
  BY Unpack
<1>3. PICK S : Closed(S) /\ Held(S)
  BY <1>2 DEF Trees
<1>4. PICK v : v = Head(todo)
  OBVIOUS
<1>5. /\ v \in Items(S) /\ Tail(todo) \in Seq(Items(S)) /\ out \in Seq(Tokens)
  BY <1>1, <1>3, <1>4, HeadTailProperties DEF Held
<1>6. /\ v[1] \in {"leaf", "token"} => v[2] \in Tokens
      /\ v[1] \in {"array", "object"} => Expanded(v) \in Seq(Items(S))
  <2>1. canonical \in BOOLEAN
    BY <1>2 DEF Typed
  <2> QED BY <1>3, <1>5, <2>1, ItemKinds, ExpandedFacts
<1>7. /\ todo' \in Seq(Items(S)) /\ out' \in Seq(Tokens)
      /\ \/ broken' = broken /\ exhausted' = exhausted
         \/ broken' = TRUE /\ exhausted' = TRUE
  <2>1. CASE /\ v[1] \in {"leaf", "token"} /\ todo' = Tail(todo)
             /\ out' = (IF broken THEN out ELSE Append(out, v[2]))
             /\ UNCHANGED <<broken, exhausted>>
    <3>1. Append(out, v[2]) \in Seq(Tokens)
      BY <1>5, <1>6, <2>1, AppendProperties
    <3> QED BY <1>5, <2>1, <3>1
  <2>2. CASE todo' = Tail(todo) /\ broken' = TRUE /\ exhausted' = TRUE /\ UNCHANGED out
    BY <1>5, <2>2
  <2>3. CASE /\ v[1] \in {"array", "object"} /\ todo' = Expanded(v) \o Tail(todo)
             /\ UNCHANGED <<out, broken, exhausted>>
    BY <1>5, <1>6, <2>3, ConcatProperties
  <2> QED BY <1>4, <2>1, <2>2, <2>3 DEF WriteNext
<1>8. heap' = heap - Blocks(item) - Blocks(result) + Blocks(item') + Blocks(result')
  <2>1. heap \in Nat /\ Blocks(item) \in Nat /\ Blocks(result) \in Nat
    BY <1>2, <1>3, HeldNat, TreesTyped
  <2> QED BY <1>1, <2>1
<1>9. Trees' /\ Accounted'
  BY <1>1, <1>2, <1>3, <1>7, <1>8, TreesHand
<1>10. Typed'
  BY <1>1, <1>2, <1>7 DEF Typed
<1>11. Placed' /\ KeysHeld'
  BY <1>1, <1>2 DEF Placed, KeysHeld
<1>12. Blamed' /\ OomDistinct'
  <2>1. error = "none" /\ (exhausted => broken) /\ (broken => exhausted)
    BY <1>1, <1>2 DEF Blamed
  <2>2. (exhausted' => broken') /\ (broken' => exhausted')
    BY <1>7, <2>1
  <2> QED BY <1>1, <2>1, <2>2 DEF Blamed, OomDistinct
<1> QED BY <1>9, <1>10, <1>11, <1>12, Conclude DEF Control

LEMMA DetachStep == ASSUME IInv, Detach PROVE IInv'
<1>1. /\ mode = "write" /\ heap' = heap - Blocks(result) /\ result' = None
      /\ UNCHANGED <<stack, item, error, original, canonical, todo, out, broken>>
      /\ \/ /\ ~broken /\ text' = out /\ ended' = TRUE /\ pos' = 1 /\ mode' = "value"
            /\ pass' = 2 /\ exhausted' = exhausted
         \/ /\ mode' = "nothing" /\ exhausted' = TRUE
            /\ UNCHANGED <<text, ended, pos, pass>>
  BY DEF Detach, input
<1>2. /\ Trees /\ Accounted /\ Typed /\ Placed /\ KeysHeld /\ Blamed
  BY Unpack
<1>3. PICK S : Closed(S) /\ Held(S)
  BY <1>2 DEF Trees
<1>4. /\ stack = <<>> /\ item = None /\ error = "none" /\ (exhausted => broken)
      /\ (broken => exhausted)
  BY <1>1, <1>2 DEF Placed, Blamed
<1>5. heap' = heap - Blocks(item) - Blocks(result) + Blocks(item') + Blocks(result')
  <2>1. /\ heap \in Nat /\ Blocks(item) = 0 /\ Blocks(item') = 0 /\ Blocks(result) \in Nat
        /\ Blocks(result') = 0
    BY <1>1, <1>2, <1>3, <1>4, HeldNat, TreesTyped, NoneFacts
  <2>2. heap' = heap - Blocks(result)
    BY <1>1
  <2> QED BY <2>1, <2>2
<1>6. Trees' /\ Accounted'
  <2>1. todo' \in Seq(Items(S)) /\ out' \in Seq(Tokens)
    BY <1>1, <1>3 DEF Held
  <2>2. item' \in {item, None} /\ result' \in {item, result, None} /\ UNCHANGED stack
    BY <1>1
  <2> QED BY <1>2, <1>3, <1>5, <2>1, <2>2, TreesHand
<1>7. Typed'
  <2>1. out \in Seq(Tokens) /\ Len(out) \in Nat
    BY <1>3, LenProperties DEF Held
  <2>2. 1 \in 1..Len(out) + 1
    BY <2>1
  <2>3. /\ text' \in Seq(Tokens) /\ ended' \in BOOLEAN /\ pos' \in 1..Len(text') + 1
        /\ pass' \in {1, 2} /\ exhausted' \in BOOLEAN
        /\ mode' \in Reading \cup {"fail", "parsed", "write", "nothing"}
    <3>1. CASE text' = out /\ ended' = TRUE /\ pos' = 1 /\ mode' = "value" /\ pass' = 2
               /\ exhausted' = exhausted
      BY <1>2, <2>1, <2>2, <3>1 DEF Typed, Reading
    <3>2. CASE /\ mode' = "nothing" /\ exhausted' = TRUE
               /\ UNCHANGED <<text, ended, pos, pass>>
      BY <1>2, <3>2 DEF Typed
    <3> QED BY <1>1, <3>1, <3>2
  <2> QED BY <1>1, <1>2, <2>3 DEF Typed
<1>8. Placed'
  BY <1>1, <1>4 DEF Placed
<1>9. KeysHeld'
  BY <1>1, <1>2, <1>4 DEF KeysHeld
<1>10. Blamed' /\ OomDistinct'
  BY <1>1, <1>4 DEF Blamed, OomDistinct
<1> QED BY <1>6, <1>7, <1>8, <1>9, <1>10, Conclude DEF Control

LEMMA StutterStep == ASSUME IInv, UNCHANGED vars PROVE IInv'
<1>1. UNCHANGED <<text, ended, pos, mode, stack, item, error, heap, exhausted, result,
                  pass, original, canonical, todo, out, broken>>
  BY DEF vars
<1>2. Trees' /\ Accounted'
  BY <1>1, Unpack, TreesKept
<1>3. Control'
  BY <1>1, Unpack DEF Control, Placed, KeysHeld, Blamed, OomDistinct, Top
<1>4. Typed'
  BY <1>1, Unpack DEF Typed
<1> QED BY <1>2, <1>3, <1>4, Conclude

LEMMA InitInv == Init => IInv
<1> SUFFICES ASSUME Init PROVE IInv
  OBVIOUS
<1>1. Closed({})
  BY DEF Closed
<1>2. Held({})
  <2>1. <<>> \in Seq(Frames({})) /\ <<>> \in Seq(Items({})) /\ <<>> \in Seq(Tokens)
    OBVIOUS
  <2> QED BY <2>1 DEF Init, Held
<1>3. Trees
  BY <1>1, <1>2 DEF Trees
<1>4. Weight(<<>>) = 0
  <2>1. PICK s : s = <<>>
    OBVIOUS
  <2>2. Len(s) = 0
    BY <2>1
  <2>3. [i \in 1..Len(s) |-> FrameBlocks(s[i])] = <<>>
    BY <2>2
  <2> QED BY <2>1, <2>3, TotalEmpty DEF Weight
<1>5. Accounted
  <2>1. Blocks(item) = 0 /\ Blocks(result) = 0 /\ heap = 0 /\ stack = <<>>
    BY NoneFacts DEF Init
  <2>2. Owned = Blocks(item) + Blocks(result) + Weight(stack)
    BY DEF Owned, Weight
  <2> QED BY <1>4, <2>1, <2>2 DEF Accounted
<1>6. Typed /\ Control
  <2>1. Typed
    <3>1. text \in Seq(Tokens) /\ pos \in 1..Len(text) + 1
      BY DEF Init
    <3>2. Len(stack) <= MaxDepth
      BY JsonAssumption DEF Init
    <3> QED BY <3>1, <3>2 DEF Init, Typed, Reading
  <2>2. Placed /\ KeysHeld /\ Blamed /\ OomDistinct
    BY DEF Init, Placed, KeysHeld, Blamed, OomDistinct
  <2> QED BY <2>1, <2>2 DEF Control
<1>7. /\ heap \in Nat /\ \A i \in 1..Len(stack) : stack[i].kind \in {"array", "object"}
      /\ \A i \in 1..Len(stack) :
           stack[i].blocks = 1 + Total(Counts(stack[i].kind, stack[i].body))
  BY <1>3, <1>5, TreesTyped
<1>8. TypeOK
  BY <1>6, <1>7 DEF TypeOK, Typed, Reading
<1> QED BY <1>3, <1>5, <1>6, <1>7, <1>8 DEF IInv, ParserInv, ParserSound, Control

LEMMA StepInv == IInv /\ [Next]_vars => IInv'
<1> SUFFICES ASSUME IInv, [Next]_vars PROVE IInv'
  OBVIOUS
<1>1. CASE Reveal \/ SkipWs \/ ParseValue \/ FirstElement \/ ParseKey \/ ParseColon
  BY <1>1, RevealStep, SkipWsStep, ParseValueStep, FirstElementStep, ParseKeyStep,
     ParseColonStep
<1>2. CASE ArrayAppend \/ ObjectSet \/ AfterElement \/ Unwind \/ ParseFailed
  BY <1>2, ArrayAppendStep, ObjectSetStep, AfterElementStep, UnwindStep, ParseFailedStep
<1>3. CASE TopLevel \/ TrailingCheck \/ StartWrite \/ WriteNext \/ Detach
  BY <1>3, TopLevelStep, TrailingCheckStep, StartWriteStep, WriteNextStep, DetachStep
<1>4. CASE Stop \/ UNCHANGED vars
  BY <1>4, StutterStep DEF Stop
<1> QED BY <1>1, <1>2, <1>3, <1>4 DEF Next

\* The parser and the writers, for a text of any length, any limit on the depth
\* and any failure of an allocation: what is in hand, on the stack and returned
\* are trees, counted as they are built, in which no object has a key twice.
THEOREM ParserInvariance == Spec => [](ParserInv /\ Trees)
<1>1. Spec => []IInv
  BY InitInv, StepInv, PTL DEF Spec
<1>2. IInv => ParserInv /\ Trees
  BY DEF IInv
<1> QED BY <1>1, <1>2, PTL

\* tamga_json_parse and what it calls: every block allocated has one owner at
\* every step, from any depth and whatever fails; and a parse that failed says
\* whether the text or the memory was it, save for an object key that could not
\* be detached, whose message the two share (json_parse.c:467).
THEOREM ParserIsSound == Spec => []ParserSound
<1>1. ParserInv /\ Trees => ParserSound
  BY DEF ParserInv
<1> QED BY <1>1, ParserInvariance, PTL
=============================================================================
