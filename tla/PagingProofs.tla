---------------------------- MODULE PagingProofs ----------------------------
(***************************************************************************)
(* Proofs about Paging: for listings of any length, pages of any size,     *)
(* rows that come and go at any time, and documents of any shape.          *)
(***************************************************************************)
EXTENDS Paging, SequenceTheorems, FiniteSetTheorems, TLAPS

-----------------------------------------------------------------------------
(* The server's pages.                                                       *)

LEMMA RowsFinite ==
  ASSUME rows \subseteq Ids, NEW S \in SUBSET rows
  PROVE  IsFiniteSet(S) /\ Cardinality(S) \in Nat
<1>1. IsFiniteSet(Ids)
  BY FS_Interval, PagingAssumption DEF Ids
<1>2. IsFiniteSet(S)
  BY <1>1, FS_Subset
<1> QED BY <1>2, FS_CardinalityType

Later(cursor) == {i \in rows : i > cursor}

\* The place of a row among those after the cursor: each place is taken, and
\* by one row.
LEMMA PlaceFacts ==
  ASSUME rows \subseteq Ids, NEW c \in Nat
  PROVE  /\ Cardinality(Later(c)) \in Nat
         /\ \A i \in Later(c) : Place(c, i) \in 1..Cardinality(Later(c))
         /\ \A i, j \in Later(c) : i < j => Place(c, i) < Place(c, j)
         /\ \A k \in 1..Cardinality(Later(c)) : \E i \in Later(c) : Place(c, i) = k
<1> DEFINE R == Later(c)
           Upto(i) == {j \in rows : c < j /\ j <= i}
<1>1. R \in SUBSET rows /\ R \subseteq Nat /\ IsFiniteSet(R) /\ Cardinality(R) \in Nat
  <2>1. ASSUME NEW i \in R PROVE i \in rows /\ i \in Nat
    BY PagingAssumption DEF Later, Ids
  <2> HIDE DEF R
  <2>2. R \in SUBSET rows /\ R \subseteq Nat
    BY <2>1
  <2> QED BY <2>2, RowsFinite
<1>2. ASSUME NEW i \in R
      PROVE  /\ Upto(i) \in SUBSET R /\ i \in Upto(i)
             /\ IsFiniteSet(Upto(i)) /\ Cardinality(Upto(i)) \in Nat
             /\ Cardinality(Upto(i)) <= Cardinality(R)
             /\ Place(c, i) = Cardinality(Upto(i))
  <2>1. Upto(i) \in SUBSET R /\ Upto(i) \in SUBSET rows /\ i \in Upto(i)
    BY <1>1 DEF Later, Ids
  <2>2. IsFiniteSet(Upto(i)) /\ Cardinality(Upto(i)) \in Nat
    BY <2>1, RowsFinite
  <2>3. Cardinality(Upto(i)) <= Cardinality(R)
    BY <1>1, <2>1, FS_Subset
  <2> QED BY <2>1, <2>2, <2>3 DEF Place
<1> HIDE DEF R
<1>3. ASSUME NEW i \in R PROVE Place(c, i) \in 1..Cardinality(R)
  <2>1. Cardinality(Upto(i)) # 0
    BY <1>2, FS_EmptySet
  <2> QED BY <1>1, <1>2, <2>1
<1>4. ASSUME NEW i \in R, NEW j \in R, i < j PROVE Place(c, i) < Place(c, j)
  <2>1. i \in Nat /\ j \in Nat
    BY <1>1
  <2>2. Upto(i) \in SUBSET Upto(j)
    <3>1. \A n \in rows : n \in Nat
      BY DEF Ids
    <3> QED BY <2>1, <3>1, <1>4
  <2>3. j \in Upto(j) /\ j \notin Upto(i)
    <3>1. j \in Upto(j)
      BY <1>2
    <3>2. ~(j <= i)
      BY <1>4, <2>1
    <3> QED BY <3>1, <3>2
  <2>4. /\ Cardinality(Upto(i)) <= Cardinality(Upto(j))
        /\ Cardinality(Upto(i)) # Cardinality(Upto(j))
    BY <1>2, <2>2, <2>3, FS_Subset
  <2> HIDE DEF Upto
  <2> QED BY <1>2, <2>4
<1>5. ASSUME NEW k \in 1..Cardinality(R) PROVE \E i \in R : Place(c, i) = k
  <2> DEFINE T == 1..Cardinality(R)
             f == [i \in R |-> Place(c, i)]
  <2>1. IsFiniteSet(T) /\ Cardinality(T) = Cardinality(R)
    BY <1>1, FS_Interval
  <2>2. f \in [R -> T]
    BY <1>3
  <2>3. ASSUME NEW a \in R, NEW b \in R, Place(c, a) = Place(c, b) PROVE a = b
    <3>1. a \in Nat /\ b \in Nat /\ Place(c, a) \in Nat
      BY <1>1, <1>3
    <3>2. ~(a < b) /\ ~(b < a)
      BY <3>1, <2>3, <1>3, <1>4
    <3> QED BY <3>1, <3>2
  <2>4. f \in Injection(R, T)
    BY <2>2, <2>3 DEF Injection, IsInjective
  <2>5. f \in Surjection(R, T)
    BY <2>1, <2>4, FS_Injection
  <2> QED BY <2>5 DEF Surjection
<1> QED BY <1>1, <1>3, <1>4, <1>5 DEF R

LEMMA SizeFacts ==
  ASSUME NEW n \in Nat
  PROVE  PageSize(n) \in 1..Cap /\ (n \in 1..Cap => PageSize(n) = n)
  BY PagingAssumption DEF PageSize

\* A page holds the rows after the cursor in order, all of them or as many as
\* fit.
LEMMA PageFacts ==
  ASSUME rows \subseteq Ids, NEW c \in Nat, NEW n \in Nat, NEW p, p = PageIds(n, c)
  PROVE  /\ p \in Seq(Ids) /\ Len(p) <= PageSize(n) /\ DOMAIN p = 1..Len(p)
         /\ \A k \in DOMAIN p : c < p[k] /\ p[k] \in rows
         /\ \A j, k \in DOMAIN p : j < k => p[j] < p[k]
         /\ \A i \in rows : i > c =>
              \/ \E k \in DOMAIN p : p[k] = i
              \/ Len(p) = PageSize(n) /\ \A k \in DOMAIN p : p[k] < i
<1> DEFINE R == Later(c)
           S == PageAfter(n, c)
           size == PageSize(n)
<1>1. size \in Nat \ {0}
  BY SizeFacts
<1>2. /\ Cardinality(R) \in Nat
      /\ \A i \in R : Place(c, i) \in 1..Cardinality(R)
      /\ \A i, j \in R : i < j => Place(c, i) < Place(c, j)
      /\ \A k \in 1..Cardinality(R) : \E i \in R : Place(c, i) = k
  BY PlaceFacts
<1>3. R \in SUBSET rows /\ R \subseteq Nat /\ R \subseteq Ids /\ IsFiniteSet(R)
  <2>1. ASSUME NEW i \in R PROVE i \in rows /\ i \in Nat /\ i \in Ids
    BY PagingAssumption DEF Later, Ids
  <2> HIDE DEF R
  <2>2. R \in SUBSET rows /\ R \subseteq Nat /\ R \subseteq Ids
    BY <2>1
  <2> QED BY <2>2, RowsFinite
<1>4. S = {i \in R : Place(c, i) <= size}
  BY DEF Later, PageAfter
<1>5. S \in SUBSET R /\ IsFiniteSet(S) /\ Cardinality(S) \in Nat
  BY <1>3, <1>4, RowsFinite
<1>6. p = [k \in 1..Cardinality(S) |-> CHOOSE i \in S : Place(c, i) = k]
  BY DEF PageIds
<1>7. \A i \in R : i > c
  BY DEF Later
<1>8. \A i \in rows : i > c => i \in R
  BY DEF Later
<1> HIDE DEF R, S, size
\* The page is everything, or it is full and ends before the rest.
<1>9. \/ S = R /\ Cardinality(R) <= size
      \/ /\ Cardinality(S) = size /\ size < Cardinality(R)
         /\ \A i \in R \ S, j \in S : j < i
  <2>1. CASE Cardinality(R) <= size
    <3>1. \A i \in R : Place(c, i) <= size
      BY <2>1, <1>1, <1>2
    <3>2. S = R
      BY <3>1, <1>4
    <3> QED BY <3>2, <2>1
  <2>2. CASE size < Cardinality(R)
    <3>1. PICK e \in R : Place(c, e) = size
      BY <2>2, <1>1, <1>2
    <3>2. ASSUME NEW i \in R PROVE i \in S <=> i <= e
      <4>1. i \in Nat /\ e \in Nat /\ Place(c, i) \in Nat
        BY <3>1, <1>2, <1>3
      <4>2. CASE i < e
        <5>1. Place(c, i) < Place(c, e)
          BY <4>2, <3>1, <1>2
        <5> QED BY <5>1, <4>1, <4>2, <3>1, <1>1, <1>4
      <4>3. CASE i = e
        BY <4>3, <4>1, <3>1, <1>1, <1>4
      <4>4. CASE e < i
        <5>1. Place(c, e) < Place(c, i)
          BY <4>4, <3>1, <1>2
        <5> QED BY <5>1, <4>1, <4>4, <3>1, <1>1, <1>4
      <4> QED BY <4>1, <4>2, <4>3, <4>4
    <3>3. S = {j \in rows : c < j /\ j <= e}
      <4>1. ASSUME NEW j \in S PROVE j \in rows /\ c < j /\ j <= e
        BY <3>2, <1>5, <1>3, <1>7
      <4>2. ASSUME NEW j \in rows, c < j, j <= e PROVE j \in S
        <5>1. j \in R
          BY <4>2, <1>8
        <5> QED BY <5>1, <3>2, <4>2
      <4> QED BY <4>1, <4>2
    <3>4. Cardinality(S) = size
      BY <3>1, <3>3 DEF Place
    <3>5. \A i \in R \ S, j \in S : j < i
      <4> SUFFICES ASSUME NEW i \in R \ S, NEW j \in S PROVE j < i
        OBVIOUS
      <4>1. i \in Nat /\ j \in Nat /\ e \in Nat /\ ~(i <= e) /\ j <= e
        BY <3>1, <3>2, <1>3, <1>5
      <4> QED BY <4>1
    <3> QED BY <2>2, <3>4, <3>5
  <2> QED BY <2>1, <2>2, <1>1, <1>2
<1>10. ASSUME NEW k \in 1..Cardinality(S)
       PROVE  p[k] \in S /\ Place(c, p[k]) = k
  <2>1. k \in 1..Cardinality(R) /\ k <= size
    BY <1>1, <1>2, <1>5, <1>9
  <2>2. PICK i \in R : Place(c, i) = k
    BY <2>1, <1>2
  <2>3. i \in S
    BY <2>1, <2>2, <1>4
  <2>4. p[k] = CHOOSE j \in S : Place(c, j) = k
    BY <1>6
  <2> QED BY <2>2, <2>3, <2>4
<1>11. p \in Seq(Ids) /\ Len(p) = Cardinality(S) /\ DOMAIN p = 1..Cardinality(S)
  <2>1. \A k \in 1..Cardinality(S) : p[k] \in Ids
    BY <1>3, <1>5, <1>10
  <2>2. DOMAIN p = 1..Cardinality(S) /\ p = [k \in 1..Cardinality(S) |-> p[k]]
    BY <1>6
  <2>3. p \in [1..Cardinality(S) -> Ids]
    BY <2>1, <2>2
  <2> QED BY <2>2, <2>3, <1>5
<1>12. Len(p) <= size
  BY <1>1, <1>2, <1>5, <1>9, <1>11
<1>13. \A k \in DOMAIN p : c < p[k] /\ p[k] \in rows
  BY <1>3, <1>5, <1>7, <1>10, <1>11
<1>14. ASSUME NEW j \in DOMAIN p, NEW k \in DOMAIN p, j < k PROVE p[j] < p[k]
  <2>1. /\ p[j] \in R /\ p[k] \in R /\ p[j] \in Nat /\ p[k] \in Nat
        /\ Place(c, p[j]) = j /\ Place(c, p[k]) = k
    BY <1>3, <1>5, <1>10, <1>11
  <2>2. ~(p[k] < p[j]) /\ p[j] # p[k]
    BY <2>1, <1>2, <1>11, <1>14
  <2> QED BY <2>1, <2>2
<1>15. ASSUME NEW i \in rows, i > c
       PROVE  \/ \E k \in DOMAIN p : p[k] = i
              \/ Len(p) = size /\ \A k \in DOMAIN p : p[k] < i
  <2>1. i \in R
    BY <1>8, <1>15
  <2>2. CASE i \in S
    <3>0. PICK k : k = Place(c, i)
      OBVIOUS
    <3>1. k \in 1..Cardinality(S)
      <4>1. k \in 1..Cardinality(R) /\ k <= size
        BY <3>0, <2>1, <2>2, <1>2, <1>4
      <4> QED BY <4>1, <1>1, <1>2, <1>9
    <3>2. p[k] \in R /\ Place(c, p[k]) = k
      BY <3>1, <1>5, <1>10
    <3>3. ~(p[k] < i) /\ ~(i < p[k]) /\ p[k] \in Nat /\ i \in Nat
      <4>0. k \in Nat
        BY <3>1, <1>5
      <4>1. k \in Nat /\ p[k] \in Nat /\ i \in Nat
        BY <4>0, <2>1, <3>2, <1>3, Zenon
      <4>2. \A a, b \in R : Place(c, a) = k /\ Place(c, b) = k => ~(a < b)
        BY <4>1, <1>2
      <4> QED BY <2>1, <3>0, <3>2, <4>1, <4>2
    <3>4. p[k] = i
      BY <3>3
    <3> QED BY <3>1, <3>4, <1>11
  <2>3. CASE i \notin S
    <3>1. Cardinality(S) = size /\ \A j \in S : j < i
      BY <2>1, <2>3, <1>9
    <3> QED BY <3>1, <1>10, <1>11
  <2> QED BY <2>2, <2>3
<1> QED BY <1>11, <1>12, <1>13, <1>14, <1>15 DEF size

-----------------------------------------------------------------------------
(* What the readers say of a document.                                       *)

\* What a row is, whoever asks for it.
LEMMA RowFacts ==
  ASSUME Shaped(doc), NEW i \in Nat, NEW type
  PROVE  LET data == Data(doc)
             row == ResourceAt(doc, i, type)
         IN /\ \/ row = Missing
               \/ Is(data, "array") /\ i < Len(Rows(data)) /\ row = Rows(data)[i + 1]
               \/ Is(data, "object") /\ i = 0 /\ row = data
            /\ row = Missing \/ Is(row, "object")
            /\ row # Missing => Get(row, "type") = Str(type)
            /\ Is(data, "array") /\ i < Len(Rows(data)) =>
                 (row # Missing <=> Get(Rows(data)[i + 1], "type") = Str(type))
            /\ ~Is(data, "array") /\ i = 0 =>
                 (row # Missing <=> Get(data, "type") = Str(type))
            /\ Is(data, "array") /\ i >= Len(Rows(data)) => row = Missing
            /\ ~Is(data, "array") /\ i > 0 => row = Missing
<1> DEFINE data == Data(doc)
           found == CASE i < Len(Rows(data)) -> Rows(data)[i + 1]
                      [] Is(data, "object") /\ i = 0 -> data
                      [] OTHER -> Missing
           row == ResourceAt(doc, i, type)
<1>1. row = IF Get(found, "type") = Str(type) THEN found ELSE Missing
  BY DEF ResourceAt
<1>2. ~Is(data, "array") => Rows(data) = <<>> /\ Len(Rows(data)) = 0
  BY DEF Rows
<1>3. Len(Rows(data)) \in Nat
  <2>1. CASE Is(data, "array")
    <3>1. PICK T : Rows(data) \in Seq(T)
      BY <2>1 DEF Shaped
    <3> QED BY <3>1, LenProperties
  <2>2. CASE ~Is(data, "array")
    BY <2>2, <1>2
  <2> QED BY <2>1, <2>2
<1>4. i < Len(Rows(data)) => found = Rows(data)[i + 1] /\ Is(data, "array")
  <2> SUFFICES ASSUME i < Len(Rows(data))
               PROVE  found = Rows(data)[i + 1] /\ Is(data, "array")
    OBVIOUS
  <2>1. Is(data, "array")
    BY <1>2
  <2>2. ~Is(data, "object")
    BY <2>1 DEF Is
  <2> HIDE DEF data
  <2>3. found = Rows(data)[i + 1]
    BY <2>2
  <2> QED BY <2>1, <2>3
<1>5. ~(i < Len(Rows(data))) =>
        found = IF Is(data, "object") /\ i = 0 THEN data ELSE Missing
  OBVIOUS
<1>6. ASSUME NEW v, Get(v, "type") = Str(type) PROVE Is(v, "object")
  BY <1>6 DEF Get, Str, Missing
<1>7. ~Is(Missing, "object") /\ Get(Missing, "type") # Str(type)
  BY DEF Get, Str, Missing, Is
<1>8. Is(data, "object") => ~Is(data, "array")
  BY DEF Is
<1> HIDE DEF found, row, data
<1> USE <1>1, <1>2, <1>3, <1>4, <1>5, <1>6, <1>7, <1>8
<1>9. \/ row = Missing
      \/ Is(data, "array") /\ i < Len(Rows(data)) /\ row = Rows(data)[i + 1]
      \/ Is(data, "object") /\ i = 0 /\ row = data
  OBVIOUS
<1>10. /\ row = Missing \/ Is(row, "object")
       /\ row # Missing => Get(row, "type") = Str(type)
  OBVIOUS
<1>11. Is(data, "array") /\ i < Len(Rows(data)) =>
         (row # Missing <=> Get(Rows(data)[i + 1], "type") = Str(type))
  OBVIOUS
<1>12. ~Is(data, "array") /\ i = 0 => (row # Missing <=> Get(data, "type") = Str(type))
  OBVIOUS
<1>13. /\ Is(data, "array") /\ i >= Len(Rows(data)) => row = Missing
       /\ ~Is(data, "array") /\ i > 0 => row = Missing
  OBVIOUS
<1> QED BY <1>9, <1>10, <1>11, <1>12, <1>13 DEF row, data

LEMMA EachRowInPlace == ASSUME Shaped(doc) PROVE RowsInPlace
<1> SUFFICES ASSUME NEW type
             PROVE  LET data == Data(doc)
                        all == IF Is(data, "array") THEN Rows(data) ELSE <<data>>
                        places == {i \in 0..Len(all) - 1 :
                                     Get(all[i + 1], "type") = Str(type)}
                        count == ResourceCount(doc, type)
                    IN /\ {i \in 0..Len(all) + 1 : ~Is(ResourceAt(doc, i, type), "missing")}
                            = places
                       /\ \A i \in places : i < count
  BY DEF RowsInPlace
<1> DEFINE data == Data(doc)
           all == IF Is(data, "array") THEN Rows(data) ELSE <<data>>
           places == {i \in 0..Len(all) - 1 : Get(all[i + 1], "type") = Str(type)}
           count == ResourceCount(doc, type)
<1>1. Len(all) \in Nat
  <2>1. CASE Is(data, "array")
    <3>1. PICK T : Rows(data) \in Seq(T)
      BY <2>1 DEF Shaped
    <3> QED BY <2>1, <3>1, LenProperties
  <2>2. CASE ~Is(data, "array")
    BY <2>2
  <2> QED BY <2>1, <2>2
<1>2. ASSUME NEW i \in Nat
      PROVE  ~Is(ResourceAt(doc, i, type), "missing") <=> ResourceAt(doc, i, type) # Missing
  <2>1. ResourceAt(doc, i, type) = Missing \/ Is(ResourceAt(doc, i, type), "object")
    BY RowFacts
  <2> QED BY <2>1 DEF Is, Missing
<1>3. ~Is(data, "array") => Len(all) = 1 /\ all[1] = data
  OBVIOUS
<1>4. Is(data, "array") => all = Rows(data)
  OBVIOUS
<1>5. ASSUME NEW i \in Nat
      PROVE  ResourceAt(doc, i, type) # Missing <=>
               i < Len(all) /\ Get(all[i + 1], "type") = Str(type)
  <2>1. CASE Is(data, "array")
    <3>1. i < Len(Rows(data)) \/ i >= Len(Rows(data))
      BY <2>1, <1>1
    <3> QED BY <3>1, <2>1, <1>1, <1>4, RowFacts
  <2>2. CASE ~Is(data, "array")
    <3>1. CASE i = 0
      BY <2>2, <3>1, <1>3, RowFacts
    <3>2. CASE i > 0
      BY <2>2, <3>2, <1>3, RowFacts
    <3> QED BY <3>1, <3>2
  <2> QED BY <2>1, <2>2
<1>6. ASSUME NEW i \in places PROVE i < count
  <2>1. CASE Is(data, "array")
    BY <2>1, <1>1, <1>4 DEF ResourceCount
  <2>2. CASE ~Is(data, "array")
    <3>1. i = 0 /\ ResourceAt(doc, 0, type) # Missing
      BY <2>2, <1>3, <1>5
    <3>2. count = 1
      BY <2>2, <3>1, <1>2 DEF ResourceCount
    <3> QED BY <3>1, <3>2
  <2> QED BY <2>1, <2>2
<1> HIDE DEF all, data
<1>7. {i \in 0..Len(all) + 1 : ~Is(ResourceAt(doc, i, type), "missing")} = places
  <2>1. \A i \in 0..Len(all) + 1 : i \in Nat
    BY <1>1
  <2>2. \A i \in 0..Len(all) + 1 : i < Len(all) <=> i \in 0..Len(all) - 1
    BY <1>1
  <2>3. \A i \in 0..Len(all) - 1 : i \in 0..Len(all) + 1
    BY <1>1
  <2> QED BY <2>1, <2>2, <2>3, <1>2, <1>5, Zenon
<1> QED BY <1>6, <1>7 DEF all, data

\* The flag of a verdict is the truth value it says, or false.
LEMMA FlagFacts ==
  ASSUME Shaped(doc)
  PROVE  ValidationIsValid(doc) = (MetaField(doc, "valid") = Bool(TRUE))
<1>0. PICK x : x = MetaField(doc, "valid")
  OBVIOUS
<1>1. ValidationIsValid(doc) <=> (x[1] = "bool" /\ x[2])
  BY <1>0 DEF ValidationIsValid, Is
<1>2. x[1] = "bool" => x = <<"bool", TRUE>> \/ x = <<"bool", FALSE>>
  BY <1>0 DEF Shaped, Is, Bool
<1>3. x = <<"bool", TRUE>> => x[1] = "bool" /\ x[2]
  OBVIOUS
<1>4. x = <<"bool", FALSE>> => ~x[2]
  OBVIOUS
<1>5. ValidationIsValid(doc) <=> x = <<"bool", TRUE>>
  BY <1>1, <1>2, <1>3, <1>4, Zenon
<1>6. ValidationIsValid(doc) \in BOOLEAN
  BY DEF ValidationIsValid
<1> QED BY <1>0, <1>5, <1>6, Zenon DEF Bool

LEMMA VerdictFromOne == ASSUME Shaped(doc) PROVE VerdictOneSource
<1> SUFFICES \E source \in {1, 2} :
               LET v == IF source = 1 THEN doc ELSE Get(doc, "meta")
               IN /\ ValidationIsValid(doc) = (Get(v, "valid") = Bool(TRUE))
                  /\ ValidationCode(doc) = AsString(Get(v, "code"))
                  /\ ValidationDetail(doc) = AsString(Get(v, "detail"))
  BY DEF VerdictOneSource
<1>1. CASE Is(Get(doc, "meta"), "missing")
  <2> WITNESS 1 \in {1, 2}
  <2>1. \A f : MetaField(doc, f) = Get(doc, f)
    BY <1>1 DEF MetaField
  <2> QED BY <2>1, FlagFacts DEF ValidationCode, ValidationDetail
<1>2. CASE ~Is(Get(doc, "meta"), "missing")
  <2> WITNESS 2 \in {1, 2}
  <2>1. \A f : MetaField(doc, f) = Get(Get(doc, "meta"), f)
    BY <1>2 DEF MetaField
  <2>2. /\ ValidationIsValid(doc) = (Get(Get(doc, "meta"), "valid") = Bool(TRUE))
        /\ ValidationCode(doc) = AsString(Get(Get(doc, "meta"), "code"))
        /\ ValidationDetail(doc) = AsString(Get(Get(doc, "meta"), "detail"))
    BY <2>1, FlagFacts DEF ValidationCode, ValidationDetail
  <2> QED BY <2>2
<1> QED BY <1>1, <1>2

LEMMA OverageSame == OverageEitherWay
<1> DEFINE code == CodeParse(ValidationCode(doc))
<1>1. code \in ValidationCodes \cup {"UNKNOWN"}
  BY DEF CodeParse
<1> HIDE DEF code
<1>2. \A e : CodeFromError(e) \in
               {"TOO_MANY_MACHINES", "TOO_MANY_CORES", "TOO_MUCH_MEMORY",
                "TOO_MUCH_DISK", "TOO_MANY_PROCESSES", "UNKNOWN"}
  BY DEF CodeFromError
<1>3. /\ CodeFromError("MACHINE_LIMIT_EXCEEDED") = "TOO_MANY_MACHINES"
      /\ CodeFromError("CORE_LIMIT_EXCEEDED") = "TOO_MANY_CORES"
      /\ CodeFromError("MEMORY_LIMIT_EXCEEDED") = "TOO_MUCH_MEMORY"
      /\ CodeFromError("DISK_LIMIT_EXCEEDED") = "TOO_MUCH_DISK"
      /\ CodeFromError("TOO_MANY_PROCESSES") = "TOO_MANY_PROCESSES"
  BY DEF CodeFromError
<1>4. IsOverage(code) = (code # "UNKNOWN" /\ \E e \in Errors : CodeFromError(e) = code)
  <2>1. CASE IsOverage(code)
    <3>1. \E e \in Errors : CodeFromError(e) = code
      BY <2>1, <1>3, ReadersAssumption DEF IsOverage
    <3>2. code # "UNKNOWN"
      BY <2>1 DEF IsOverage
    <3> QED BY <2>1, <3>1, <3>2 DEF IsOverage
  <2>2. CASE ~IsOverage(code)
    <3>1. ASSUME code # "UNKNOWN", NEW e \in Errors, CodeFromError(e) = code PROVE FALSE
      BY <2>2, <3>1, <1>2 DEF IsOverage
    <3> QED BY <2>2, <3>1 DEF IsOverage
  <2> QED BY <2>1, <2>2
<1>5. ASSUME NEW e \in Errors, CodeFromError(e) \in ValidationCodes
      PROVE  IsOverage(CodeFromError(e))
  BY <1>2, <1>5 DEF IsOverage, ValidationCodes
<1> QED BY <1>4, <1>5 DEF OverageEitherWay, code

\* A number or a string read is one of the row it is read from.
LEMMA NumbersAreHonest == ASSUME Shaped(doc) PROVE NumbersHonest
<1> DEFINE Own(read, i, field) ==
             Is(read, "missing")
               \/ read = Get(Attributes(IF Is(Data(doc), "array") THEN Rows(Data(doc))[i + 1]
                                        ELSE Data(doc)), field)
<1>1. ~Is(Missing, "object") /\ Is(Missing, "missing")
  BY DEF Is, Missing
<1>2. \A f : Get(Missing, f) = Missing
  BY <1>1 DEF Get
<1>3. ASSUME NEW i \in Nat, NEW type, NEW f
      PROVE  LET read == Get(Attributes(ResourceAt(doc, i, type)), f)
             IN Own(AsInt(read), i, f) /\ Own(AsString(read), i, f)
  <2> DEFINE row == ResourceAt(doc, i, type)
             read == Get(Attributes(row), f)
             src == IF Is(Data(doc), "array") THEN Rows(Data(doc))[i + 1] ELSE Data(doc)
  <2>1. row = Missing \/ row = src
    <3>1. \/ row = Missing
          \/ Is(Data(doc), "array") /\ row = Rows(Data(doc))[i + 1]
          \/ Is(Data(doc), "object") /\ row = Data(doc)
      BY RowFacts
    <3>2. Is(Data(doc), "object") => ~Is(Data(doc), "array")
      BY DEF Is
    <3> QED BY <3>1, <3>2
  <2>2. row = Missing => read = Missing
    BY <1>2 DEF Attributes
  <2>3. AsInt(read) \in {read, Missing} /\ AsString(read) \in {read, Missing}
    BY DEF AsInt, AsString
  <2>4. read = Missing \/ read = Get(Attributes(src), f)
    BY <2>1, <2>2
  <2> HIDE DEF read, row, src
  <2>5. /\ AsInt(read) = Missing \/ AsInt(read) = Get(Attributes(src), f)
        /\ AsString(read) = Missing \/ AsString(read) = Get(Attributes(src), f)
    BY <2>3, <2>4
  <2>6. Own(AsInt(read), i, f) /\ Own(AsString(read), i, f)
    BY <2>5, <1>1 DEF src
  <2> QED BY <2>6 DEF read, row
<1>4. ASSUME NEW i \in 0..2
      PROVE  /\ Own(FilesizeAt(doc, i), i, "filesize")
             /\ Own(MaxValueAt(doc, i), i, "max_value")
             /\ Own(CurrentValueAt(doc, i), i, "current_value")
             /\ Own(EntitlementKindAt(doc, i), i, "kind")
  <2>1. i \in Nat
    OBVIOUS
  <2> HIDE DEF Own
  <2> QED BY <2>1, <1>3 DEF FilesizeAt, MaxValueAt, CurrentValueAt, EntitlementKindAt
<1>5. Own(RedirectUrl(doc), 0, "redirectUrl")
  <2> HIDE DEF Own
  <2> QED BY <1>3 DEF RedirectUrl
<1>6. LET window == HeartbeatWindow(doc)
          said == Get(Attributes(Data(doc)), "heartbeat_duration")
      IN \/ Is(window, "missing")
         \/ window[2] > 0 /\ (window = said \/ Is(said, "null"))
  <2> DEFINE said == Get(Attributes(Data(doc)), "heartbeat_duration")
             window == HeartbeatWindow(doc)
  <2>1. window = IF Is(said, "null") THEN <<"int", 600>>
                 ELSE IF Is(said, "int") /\ said[2] > 0 THEN said ELSE Missing
    BY DEF HeartbeatWindow, Num, DefaultWindow
  <2> HIDE DEF said, window
  <2>2. \/ Is(window, "missing")
        \/ window[2] > 0 /\ (window = said \/ Is(said, "null"))
    BY <2>1, <1>1
  <2> QED BY <2>2 DEF said, window
<1> QED BY <1>4, <1>5, <1>6 DEF NumbersHonest

-----------------------------------------------------------------------------
(* What they leave in the caller's variables.                                *)

Sources(reader) ==
  IF reader = "page" THEN <<Get(Get(doc, "meta"), "page")>>
  ELSE Rows(IF Is(Data(doc), "array") THEN Data(doc) ELSE Arr(<<Data(doc)>>))

FieldIn(reader, v, n) == Get(IF reader = "page" \/ n = "id" THEN v ELSE Attributes(v), n)

\* One object of the document, as a reader hands it out.
FromOne(reader, required, out) ==
  \E k \in 1..Len(Sources(reader)) : \A n \in DOMAIN out :
    IF n \in required
       \/ Is(FieldIn(reader, Sources(reader)[k], n), IF reader = "page" THEN "int" ELSE "string")
    THEN out[n] = FieldIn(reader, Sources(reader)[k], n)
    ELSE Is(out[n], "missing")

LEMMA WholeMeans ==
  ASSUME NEW reader, NEW required
  PROVE  Whole(reader, required) <=>
           outs[reader] = Fresh[reader] \/ FromOne(reader, required, outs[reader])
  BY DEF Whole, FromOne, Sources, FieldIn

\* TakeAll leaves what was there, or hands over one row's fields.
LEMMA TakenFromOne ==
  ASSUME NEW reader, NEW names, NEW required \in SUBSET names, NEW before,
         NEW k \in 1..Len(Sources(reader)), NEW values,
         values = [n \in names |->
                     LET x == FieldIn(reader, Sources(reader)[k], n)
                     IN IF Is(x, IF reader = "page" THEN "int" ELSE "string")
                        THEN x ELSE Missing]
  PROVE  LET taken == TakeAll(values, required, before)
         IN taken.outs = before \/ FromOne(reader, required, taken.outs)
<1> DEFINE taken == TakeAll(values, required, before)
           src == Sources(reader)[k]
           kind == IF reader = "page" THEN "int" ELSE "string"
<1>1. CASE \E n \in required : Is(values[n], "missing")
  BY <1>1 DEF TakeAll
<1>2. CASE ~\E n \in required : Is(values[n], "missing")
  <2>1. taken.outs = values
    BY <1>2 DEF TakeAll
  <2>2. Is(Missing, "missing")
    BY DEF Is, Missing
  <2>3. ASSUME NEW n \in names
        PROVE  IF n \in required \/ Is(FieldIn(reader, src, n), kind)
               THEN values[n] = FieldIn(reader, src, n)
               ELSE Is(values[n], "missing")
    <3>1. values[n] = IF Is(FieldIn(reader, src, n), kind)
                      THEN FieldIn(reader, src, n) ELSE Missing
      OBVIOUS
    <3> QED BY <3>1, <2>2, <1>2
  <2>4. DOMAIN values = names
    OBVIOUS
  <2>5. FromOne(reader, required, values)
    BY <2>3, <2>4 DEF FromOne
  <2> QED BY <2>1, <2>5
<1> QED BY <1>1, <1>2

LEMMA WholeMeansNext ==
  ASSUME NEW reader, NEW required, doc' = doc
  PROVE  Whole(reader, required)' <=>
           outs'[reader] = Fresh[reader] \/ FromOne(reader, required, outs'[reader])
  BY DEF Whole, FromOne, Sources, FieldIn

\* A row read by its index, or none.
LEMMA RowTaken ==
  ASSUME NEW reader, reader # "page", NEW names, NEW required \in SUBSET names,
         required # {}, NEW before, NEW row,
         row = Missing \/ \E k \in 1..Len(Sources(reader)) : row = Sources(reader)[k]
  PROVE  LET taken == TakeAll(FieldsOf(row, names), required, before)
         IN taken.outs = before \/ FromOne(reader, required, taken.outs)
<1>1. ~Is(Missing, "object") /\ Is(Missing, "missing") /\ ~Is(Missing, "string")
  BY DEF Is, Missing
<1>2. \A f : Get(Missing, f) = Missing
  BY <1>1 DEF Get
<1>3. CASE row = Missing
  <2>1. ASSUME NEW n \in names PROVE FieldsOf(row, names)[n] = Missing
    BY <1>1, <1>2, <1>3 DEF FieldsOf, Attributes, AsString
  <2>2. PICK n \in required : Is(FieldsOf(row, names)[n], "missing")
    BY <1>1, <2>1
  <2> QED BY <2>2 DEF TakeAll
<1>4. CASE \E k \in 1..Len(Sources(reader)) : row = Sources(reader)[k]
  <2>1. PICK k \in 1..Len(Sources(reader)) : row = Sources(reader)[k]
    BY <1>4
  <2>2. FieldsOf(row, names) =
          [n \in names |->
             LET x == FieldIn(reader, Sources(reader)[k], n)
             IN IF Is(x, IF reader = "page" THEN "int" ELSE "string") THEN x ELSE Missing]
    BY <2>1 DEF FieldsOf, FieldIn, AsString
  <2> QED BY <2>1, <2>2, TakenFromOne
<1> QED BY <1>3, <1>4

\* Where the rows readers find come from.
LEMMA RowSource ==
  ASSUME Shaped(doc), NEW i \in 0..2, NEW reader, reader # "page", NEW type
  PROVE  LET row == ResourceAt(doc, i, type)
             key == IF i < SigningKeyCount(doc) THEN Rows(Data(doc))[i + 1] ELSE Missing
         IN /\ row = Missing \/ \E k \in 1..Len(Sources(reader)) : row = Sources(reader)[k]
            /\ key = Missing \/ \E k \in 1..Len(Sources(reader)) : key = Sources(reader)[k]
<1> DEFINE row == ResourceAt(doc, i, type)
           data == Data(doc)
           key == IF i < SigningKeyCount(doc) THEN Rows(data)[i + 1] ELSE Missing
<1>1. i \in Nat
  OBVIOUS
<1>2. \/ row = Missing
      \/ Is(data, "array") /\ i < Len(Rows(data)) /\ row = Rows(data)[i + 1]
      \/ Is(data, "object") /\ i = 0 /\ row = data
  BY <1>1, RowFacts
<1>3. Is(data, "array") => Sources(reader) = Rows(data) /\ Len(Rows(data)) \in Nat
  <2> SUFFICES ASSUME Is(data, "array")
               PROVE  Sources(reader) = Rows(data) /\ Len(Rows(data)) \in Nat
    OBVIOUS
  <2>1. PICK T : Rows(data) \in Seq(T)
    BY DEF Shaped
  <2>2. Len(Rows(data)) \in Nat
    BY <2>1, LenProperties
  <2> QED BY <2>2 DEF Sources
<1>4. ~Is(data, "array") => /\ Sources(reader) = <<data>>
                            /\ Rows(data) = <<>>
  BY DEF Sources, Rows, Arr, Is
<1>5. Is(data, "object") => ~Is(data, "array")
  BY DEF Is
<1> HIDE DEF data, row
<1>6. row = Missing \/ \E k \in 1..Len(Sources(reader)) : row = Sources(reader)[k]
  <2>1. CASE Is(data, "array") /\ i < Len(Rows(data)) /\ row = Rows(data)[i + 1]
    <3>1. i + 1 \in 1..Len(Sources(reader)) /\ row = Sources(reader)[i + 1]
      BY <2>1, <1>1, <1>3
    <3> QED BY <3>1
  <2>2. CASE Is(data, "object") /\ i = 0 /\ row = data
    <3>1. 1 \in 1..Len(Sources(reader)) /\ row = Sources(reader)[1]
      BY <2>2, <1>4, <1>5
    <3> QED BY <3>1
  <2> QED BY <2>1, <2>2, <1>2
<1>7. key = Missing \/ \E k \in 1..Len(Sources(reader)) : key = Sources(reader)[k]
  <2>1. CASE Is(data, "array") /\ i < Len(Rows(data))
    <3>1. i + 1 \in 1..Len(Sources(reader)) /\ key = Sources(reader)[i + 1]
      BY <2>1, <1>1, <1>3 DEF SigningKeyCount, data
    <3> QED BY <3>1
  <2>2. CASE ~Is(data, "array")
    <3>1. ~(i < SigningKeyCount(doc))
      BY <2>2, <1>1, <1>4 DEF SigningKeyCount, data
    <3> QED BY <3>1
  <2>3. CASE ~(i < Len(Rows(data)))
    BY <2>3 DEF SigningKeyCount, data
  <2> QED BY <2>1, <2>2, <2>3
<1> QED BY <1>6, <1>7 DEF row, data

\* A reader changes its own variables, whole or not at all.
LEMMA ReadWhole ==
  ASSUME Shaped(doc), OutsWhole, phase = "given",
         outs = [r \in Readers |-> outs[r]], Read
  PROVE  OutsWhole' /\ outs' = [r \in Readers |-> outs'[r]]
<1>1. doc' = doc /\ phase' = phase
  BY DEF Read
<1>2. DOMAIN outs = Readers
  OBVIOUS
\* What is to be shown, once for each reader.
<1>3. ASSUME NEW reader \in Readers, NEW taken,
             outs' = [outs EXCEPT ![reader] = taken],
             \/ taken = outs[reader]
             \/ reader = "page" /\ FromOne("page", PageFields, taken)
             \/ reader = "signing_key"
                  /\ FromOne("signing_key", SigningKeyFields \ {"retired"}, taken)
             \/ reader = "artifact"
                  /\ FromOne("artifact", {"id", "filename", "status"}, taken)
             \/ reader = "integrity"
                  /\ FromOne("integrity", {"created", "updated"}, taken)
      PROVE  OutsWhole' /\ outs' = [r \in Readers |-> outs'[r]]
  <2>1. outs'[reader] = taken /\ \A r \in Readers \ {reader} : outs'[r] = outs[r]
    BY <1>2, <1>3
  <2>2. outs' = [r \in Readers |-> outs'[r]]
    BY <1>2, <1>3
  <2>3. /\ outs["page"] = Fresh["page"] \/ FromOne("page", PageFields, outs["page"])
        /\ outs["signing_key"] = Fresh["signing_key"]
             \/ FromOne("signing_key", SigningKeyFields \ {"retired"}, outs["signing_key"])
        /\ outs["artifact"] = Fresh["artifact"]
             \/ FromOne("artifact", {"id", "filename", "status"}, outs["artifact"])
        /\ outs["integrity"] = Fresh["integrity"]
             \/ FromOne("integrity", {"created", "updated"}, outs["integrity"])
    BY WholeMeans DEF OutsWhole
  <2>4. /\ outs'["page"] = Fresh["page"] \/ FromOne("page", PageFields, outs'["page"])
        /\ outs'["signing_key"] = Fresh["signing_key"]
             \/ FromOne("signing_key", SigningKeyFields \ {"retired"}, outs'["signing_key"])
        /\ outs'["artifact"] = Fresh["artifact"]
             \/ FromOne("artifact", {"id", "filename", "status"}, outs'["artifact"])
        /\ outs'["integrity"] = Fresh["integrity"]
             \/ FromOne("integrity", {"created", "updated"}, outs'["integrity"])
    BY <2>1, <2>3, <1>3 DEF Readers
  <2>5. OutsWhole'
    BY <2>4, <1>1, WholeMeansNext DEF OutsWhole
  <2> QED BY <2>2, <2>5
<1>4. CASE outs' = [outs EXCEPT !.page = Page(doc, @).outs]
  <2>1. PICK taken : taken = Page(doc, outs["page"]).outs
    OBVIOUS
  <2>2. outs' = [outs EXCEPT !["page"] = taken]
    BY <1>4, <2>1
  <2>3. taken = outs["page"] \/ FromOne("page", PageFields, taken)
    <3> DEFINE page == Get(Get(doc, "meta"), "page")
               values == [n \in PageFields |-> AsInt(Get(page, n))]
    <3>1. 1 \in 1..Len(Sources("page")) /\ Sources("page")[1] = page
      BY DEF Sources
    <3>2. values = [n \in PageFields |->
                      LET x == FieldIn("page", Sources("page")[1], n)
                      IN IF Is(x, IF "page" = "page" THEN "int" ELSE "string")
                         THEN x ELSE Missing]
      BY <3>1 DEF FieldIn, AsInt
    <3>3. taken = TakeAll(values, PageFields, outs["page"]).outs
      BY <2>1 DEF Page
    <3> HIDE DEF values, page
    <3> QED BY <3>1, <3>2, <3>3, TakenFromOne
  <2> QED BY <2>2, <2>3, <1>3 DEF Readers
<1>5. ASSUME NEW i \in 0..2, outs' = [outs EXCEPT !.signing_key = SigningKeyAt(doc, i, @).outs]
      PROVE  OutsWhole' /\ outs' = [r \in Readers |-> outs'[r]]
  <2>1. PICK taken : taken = SigningKeyAt(doc, i, outs["signing_key"]).outs
    OBVIOUS
  <2>2. outs' = [outs EXCEPT !["signing_key"] = taken]
    BY <1>5, <2>1
  <2>3. PICK row : row = IF i < SigningKeyCount(doc) THEN Rows(Data(doc))[i + 1] ELSE Missing
    OBVIOUS
  <2>4. row = Missing
          \/ \E k \in 1..Len(Sources("signing_key")) : row = Sources("signing_key")[k]
    BY <2>3, RowSource
  <2>5. taken = TakeAll(FieldsOf(row, SigningKeyFields),
                        SigningKeyFields \ {"retired"}, outs["signing_key"]).outs
    BY <2>1, <2>3 DEF SigningKeyAt
  <2>6. SigningKeyFields \ {"retired"} # {}
    BY DEF SigningKeyFields
  <2>7. taken = outs["signing_key"]
          \/ FromOne("signing_key", SigningKeyFields \ {"retired"}, taken)
    BY <2>4, <2>5, <2>6, RowTaken
  <2> QED BY <2>2, <2>7, <1>3 DEF Readers
<1>6. ASSUME NEW i \in 0..2, outs' = [outs EXCEPT !.artifact = ArtifactAt(doc, i, @).outs]
      PROVE  OutsWhole' /\ outs' = [r \in Readers |-> outs'[r]]
  <2>1. PICK taken : taken = ArtifactAt(doc, i, outs["artifact"]).outs
    OBVIOUS
  <2>2. outs' = [outs EXCEPT !["artifact"] = taken]
    BY <1>6, <2>1
  <2>3. PICK row : row = ResourceAt(doc, i, "artifacts")
    OBVIOUS
  <2>4. row = Missing \/ \E k \in 1..Len(Sources("artifact")) : row = Sources("artifact")[k]
    BY <2>3, RowSource, SMTT(30)
  <2>5. taken = TakeAll(FieldsOf(row, ArtifactFields), {"id", "filename", "status"},
                        outs["artifact"]).outs
    BY <2>1, <2>3 DEF ArtifactAt
  <2>6. {"id", "filename", "status"} \in SUBSET ArtifactFields
    BY DEF ArtifactFields
  <2>7. taken = outs["artifact"] \/ FromOne("artifact", {"id", "filename", "status"}, taken)
    BY <2>4, <2>5, <2>6, RowTaken
  <2> QED BY <2>2, <2>7, <1>3 DEF Readers
<1>7. ASSUME NEW i \in 0..2, outs' = [outs EXCEPT !.integrity = IntegrityAt(doc, i, @).outs]
      PROVE  OutsWhole' /\ outs' = [r \in Readers |-> outs'[r]]
  <2>1. PICK taken : taken = IntegrityAt(doc, i, outs["integrity"]).outs
    OBVIOUS
  <2>2. outs' = [outs EXCEPT !["integrity"] = taken]
    BY <1>7, <2>1
  <2>3. PICK row : row = ResourceAt(doc, i, "artifacts")
    OBVIOUS
  <2>4. row = Missing \/ \E k \in 1..Len(Sources("integrity")) : row = Sources("integrity")[k]
    BY <2>3, RowSource
  <2>5. taken = TakeAll(FieldsOf(row, IntegrityFields), {"created", "updated"},
                        outs["integrity"]).outs
    BY <2>1, <2>3 DEF IntegrityAt
  <2>6. {"created", "updated"} \in SUBSET IntegrityFields
    BY DEF IntegrityFields
  <2>7. taken = outs["integrity"] \/ FromOne("integrity", {"created", "updated"}, taken)
    BY <2>4, <2>5, <2>6, RowTaken
  <2> QED BY <2>2, <2>7, <1>3 DEF Readers
<1> QED BY <1>4, <1>5, <1>6, <1>7 DEF Read

-----------------------------------------------------------------------------
(* Walking through a listing.                                                *)

LEMMA IdOfName == ASSUME NEW i \in Ids PROVE IdOf(NameOf(i)) = i
<1>1. ~Is(NameOf(i), "missing")
  BY DEF Is, NameOf, Str
<1>2. \A j \in Ids : NameOf(j) = NameOf(i) <=> j = i
  BY DEF NameOf, Str
<1> QED BY <1>1, <1>2 DEF IdOf

\* The fields of a row as the server lists it.
LEMMA ArtifactFacts ==
  ASSUME NEW i
  PROVE  /\ Get(Artifact(i), "id") = NameOf(i) /\ AsString(NameOf(i)) = NameOf(i)
         /\ Get(Artifact(i), "type") = Str("artifacts")
         /\ Get(Attributes(Artifact(i)), "status") = Str("UPLOADED")
         /\ Get(Attributes(Artifact(i)), "filename") =
              IF i \in Faulty THEN Null ELSE Str("f")
<1>1. /\ Get(Artifact(i), "id") = NameOf(i)
      /\ Get(Artifact(i), "type") = Str("artifacts")
      /\ Get(Artifact(i), "attributes") =
           Obj([status |-> Str("UPLOADED"), platform |-> Null,
                filename |-> IF i \in Faulty THEN Null ELSE Str("f")])
  BY DEF Artifact, Get, Is, Obj
<1>2. AsString(NameOf(i)) = NameOf(i)
  BY DEF AsString, NameOf, Str, Is
<1>3. /\ Get(Attributes(Artifact(i)), "status") = Str("UPLOADED")
      /\ Get(Attributes(Artifact(i)), "filename") =
           IF i \in Faulty THEN Null ELSE Str("f")
  BY <1>1 DEF Attributes, Get, Is, Obj
<1> QED BY <1>1, <1>2, <1>3

\* A page, as the readers see it.
LEMMA ListedFacts ==
  ASSUME NEW p \in Seq(Ids)
  PROVE  /\ Is(Data(Listed(p)), "array")
         /\ Rows(Data(Listed(p))) = [k \in 1..Len(p) |-> Artifact(p[k])]
         /\ Len(Rows(Data(Listed(p)))) = Len(p)
         /\ ResourceCount(Listed(p), "artifacts") = Len(p)
         /\ Shaped(Listed(p))
<1> DEFINE list == [k \in 1..Len(p) |-> Artifact(p[k])]
<1>1. DOMAIN p = 1..Len(p) /\ Len(p) \in Nat
  BY LenProperties
<1>2. Listed(p) = Obj([data |-> Arr(list)])
  BY <1>1 DEF Listed
<1>3. DOMAIN list = 1..Len(p)
  OBVIOUS
<1>4. list \in Seq({list[i] : i \in DOMAIN list}) /\ Len(list) = Len(p)
  BY <1>1
<1> HIDE DEF list
<1>5. /\ Data(Listed(p)) = Arr(list)
      /\ Get(Listed(p), "meta") = Missing /\ Get(Listed(p), "valid") = Missing
  BY <1>2 DEF Data, Get, Is, Obj
<1>6. Is(Arr(list), "array") /\ Rows(Arr(list)) = list
  BY DEF Is, Arr, Rows
<1>7. MetaField(Listed(p), "valid") = Missing /\ ~Is(Missing, "bool")
  BY <1>5 DEF MetaField, Is, Missing
<1>8. Shaped(Listed(p))
  BY <1>4, <1>5, <1>6, <1>7 DEF Shaped
<1>9. ResourceCount(Listed(p), "artifacts") = Len(p)
  BY <1>4, <1>5, <1>6 DEF ResourceCount
<1> QED BY <1>4, <1>5, <1>6, <1>8, <1>9 DEF list

IdsOn(d) == [k \in DOMAIN Rows(Data(d)) |-> IdOf(Get(Rows(Data(d))[k], "id"))]

LEMMA IdsListed ==
  ASSUME NEW p \in Seq(Ids), NEW d, d = Listed(p)
  PROVE  IdsOn(d) = p
<1>1. /\ Rows(Data(d)) = [k \in 1..Len(p) |-> Artifact(p[k])]
      /\ DOMAIN p = 1..Len(p) /\ p = [k \in 1..Len(p) |-> p[k]]
      /\ \A k \in 1..Len(p) : p[k] \in Ids
  BY ListedFacts, LenProperties, ElementOfSeq
<1>2. \A k \in 1..Len(p) : IdOf(Get(Rows(Data(d))[k], "id")) = p[k]
  BY <1>1, ArtifactFacts, IdOfName
<1>3. DOMAIN Rows(Data(d)) = 1..Len(p)
  BY <1>1
<1>4. IdsOn(d) = [k \in 1..Len(p) |-> p[k]]
  BY <1>2, <1>3, Zenon DEF IdsOn
<1> QED BY <1>1, <1>4

\* Reading a row of a page: its id, or nothing when it has no filename.
LEMMA RowOfPage ==
  ASSUME NEW p \in Seq(Ids), NEW i \in 0..Len(p) - 1, NEW before
  PROVE  LET read == ArtifactAt(Listed(p), i, before)
         IN /\ read.ok <=> p[i + 1] \notin Faulty
            /\ read.ok => IdOf(read.outs["id"]) = p[i + 1]
<1> DEFINE d == Listed(p)
           id == p[i + 1]
           values == FieldsOf(Artifact(id), ArtifactFields)
           read == ArtifactAt(d, i, before)
<1>1. /\ Rows(Data(d)) = [k \in 1..Len(p) |-> Artifact(p[k])]
      /\ Len(Rows(Data(d))) = Len(p) /\ Is(Data(d), "array")
      /\ Len(p) \in Nat /\ DOMAIN p = 1..Len(p)
  BY ListedFacts, LenProperties
<1>2. i + 1 \in 1..Len(p) /\ i < Len(p) /\ i \in Nat
  BY <1>1
<1>3. id \in Ids
  BY <1>1, <1>2, ElementOfSeq
<1>4. Rows(Data(d))[i + 1] = Artifact(id)
  BY <1>1, <1>2
<1>5. ResourceAt(d, i, "artifacts") = Artifact(id)
  <2>1. ~Is(Data(d), "object")
    BY <1>1 DEF Is
  <2> HIDE DEF d, id
  <2> QED BY <2>1, <1>1, <1>2, <1>4, ArtifactFacts DEF ResourceAt
<1>6. read = TakeAll(values, {"id", "filename", "status"}, before)
  BY <1>5 DEF ArtifactAt
<1>7. /\ values["id"] = NameOf(id) /\ values["status"] = Str("UPLOADED")
      /\ values["filename"] = IF id \in Faulty THEN Missing ELSE Str("f")
  <2>1. {"id", "filename", "status"} \subseteq ArtifactFields
    BY DEF ArtifactFields
  <2>2. values["id"] = AsString(Get(Artifact(id), "id"))
    BY <2>1 DEF FieldsOf
  <2>3. values["status"] = AsString(Get(Attributes(Artifact(id)), "status"))
    BY <2>1 DEF FieldsOf
  <2>4. values["filename"] = AsString(Get(Attributes(Artifact(id)), "filename"))
    BY <2>1 DEF FieldsOf
  <2>5. /\ AsString(NameOf(id)) = NameOf(id) /\ AsString(Str("UPLOADED")) = Str("UPLOADED")
        /\ AsString(Str("f")) = Str("f") /\ AsString(Null) = Missing
    BY DEF AsString, Is, Str, Null, NameOf
  <2> HIDE DEF values, id
  <2> QED BY <2>2, <2>3, <2>4, <2>5, <1>3, ArtifactFacts
<1>8. /\ ~Is(NameOf(id), "missing") /\ ~Is(Str("UPLOADED"), "missing")
      /\ ~Is(Str("f"), "missing") /\ Is(Missing, "missing")
  BY DEF Is, NameOf, Str, Missing
<1> HIDE DEF values, id, d, read
<1>9. CASE id \in Faulty
  <2>1. read = [ok |-> FALSE, outs |-> before]
    BY <1>6, <1>7, <1>8, <1>9 DEF TakeAll
  <2> QED BY <2>1, <1>9 DEF id, read, d
<1>10. CASE id \notin Faulty
  <2>1. read = [ok |-> TRUE, outs |-> values]
    BY <1>6, <1>7, <1>8, <1>10 DEF TakeAll
  <2>2. IdOf(read.outs["id"]) = id
    BY <2>1, <1>3, <1>7, IdOfName
  <2> QED BY <2>1, <2>2, <1>10 DEF id, read, d
<1> QED BY <1>9, <1>10

\* The cursor after a page.
LEMMA CursorOfPage ==
  ASSUME NEW p \in Seq(Ids), NEW n \in Nat
  PROVE  LET cursor == NextCursor(Listed(p), n)
         IN IF n = 0 \/ Len(p) # n THEN cursor = Missing /\ IdOf(cursor) = 0
            ELSE ~Is(cursor, "missing") /\ IdOf(cursor) = p[Len(p)] /\ Len(p) \in DOMAIN p
<1>1. /\ Rows(Data(Listed(p))) = [k \in 1..Len(p) |-> Artifact(p[k])]
      /\ Len(Rows(Data(Listed(p)))) = Len(p)
      /\ Len(p) \in Nat /\ DOMAIN p = 1..Len(p)
  BY ListedFacts, LenProperties
<1>2. CASE n = 0 \/ Len(p) # n
  <2>1. NextCursor(Listed(p), n) = Missing
    BY <1>1, <1>2 DEF NextCursor
  <2>2. IdOf(Missing) = 0
    BY DEF IdOf, Is, Missing
  <2> QED BY <1>2, <2>1, <2>2
<1>3. CASE ~(n = 0 \/ Len(p) # n)
  <2>1. Len(p) \in DOMAIN p /\ p[Len(p)] \in Ids
    <3>1. Len(p) \in 1..Len(p)
      <4>1. Len(p) \in Nat /\ Len(p) # 0
        BY <1>1, <1>3
      <4> QED BY <4>1
    <3> QED BY <1>1, <3>1, ElementOfSeq
  <2>2. NextCursor(Listed(p), n) = NameOf(p[Len(p)])
    BY <1>1, <1>3, <2>1, ArtifactFacts DEF NextCursor
  <2>3. ~Is(NameOf(p[Len(p)]), "missing")
    BY DEF Is, NameOf, Str
  <2> QED BY <1>3, <2>1, <2>2, <2>3, IdOfName
<1> QED BY <1>2, <1>3

\* What the walk relies on, at each step: nothing but the page and the cursor.
LEMMA StartKeeps == ASSUME PagingInv, StartPaging PROVE PagingInv'
<1>1. /\ phase = "idle" /\ phase' = "ask" /\ limit' \in Limits /\ rows' \subseteq Ids
      /\ stayed' = rows' /\ UNCHANGED <<doc, index, after, got, outs, slot>>
  BY DEF StartPaging
<1>2. after = 0 /\ got = <<>> /\ index = 0 /\ Len(got) = 0
  BY <1>1, EmptySeq DEF PagingInv, ReadSoFar
<1>3. ReaderTypeOK'
  BY <1>1, <1>2 DEF PagingInv, WalkSound, ReaderTypeOK
<1>4. ReadOnce' /\ PagedWhole'
  BY <1>1, <1>2 DEF ReadOnce, PagedWhole
<1>5. PageHeld'
  BY <1>1 DEF PageHeld
<1>6. ReadSoFar'
  <2>1. ASSUME NEW i \in stayed' PROVE ~(i <= 0)
    BY <1>1, PagingAssumption DEF Ids
  <2> QED BY <1>1, <1>2, <2>1 DEF ReadSoFar
<1>7. Shaped(doc)' /\ OutsWhole' /\ (outs = [r \in Readers |-> outs[r]])' /\ (got \in Seq(Ids))'
  BY <1>1 DEF PagingInv, OutsWhole, Shaped
<1> QED BY <1>1, <1>3, <1>4, <1>5, <1>6, <1>7 DEF PagingInv, WalkSound

LEMMA HeldSame == ASSUME doc' = doc PROVE HeldIds' = HeldIds /\ (Shaped(doc) <=> Shaped(doc)')
  BY DEF HeldIds, Shaped

\* Rows come and go: a walk is about the rows that stay.
LEMMA RowsChangeKeeps ==
  ASSUME PagingInv, rows' \subseteq Ids, stayed' \subseteq stayed, stayed' \subseteq rows',
         phase \in {"ask", "reading"},
         UNCHANGED <<phase, doc, index, limit, after, got, outs, slot>>
  PROVE  PagingInv'
<1>1. HeldIds' = HeldIds /\ Shaped(doc)'
  BY HeldSame DEF PagingInv
<1> HIDE DEF HeldIds
<1>2. ReaderTypeOK' /\ ReadOnce' /\ PagedWhole'
  BY DEF PagingInv, WalkSound, ReaderTypeOK, ReadOnce, PagedWhole
<1>3. PageHeld'
  <2> SUFFICES ASSUME phase' = "reading" PROVE PageHeld'
    BY DEF PageHeld
  <2>1. (doc = Listed(HeldIds))'
    BY <1>1 DEF PagingInv, PageHeld, Listed, Artifact
  <2> QED BY <1>1, <2>1 DEF PagingInv, PageHeld, PageSize
<1>4. ReadSoFar'
  BY <1>1 DEF PagingInv, ReadSoFar
<1>5. OutsWhole' /\ (outs = [r \in Readers |-> outs[r]])' /\ (got \in Seq(Ids))'
  BY DEF PagingInv, OutsWhole
<1> QED BY <1>1, <1>2, <1>3, <1>4, <1>5 DEF PagingInv, WalkSound

LEMMA InsertKeeps == ASSUME PagingInv, InsertRow PROVE PagingInv'
<1>1. PICK i \in Ids \ rows : rows' = rows \cup {i}
  BY DEF InsertRow
<1>2. rows' \subseteq Ids /\ stayed' = stayed /\ stayed \subseteq rows'
  BY <1>1 DEF InsertRow, PagingInv, WalkSound, ReaderTypeOK
<1> QED BY <1>2, RowsChangeKeeps DEF InsertRow

LEMMA RemoveKeeps == ASSUME PagingInv, RemoveRow PROVE PagingInv'
<1>1. PICK i \in rows : rows' = rows \ {i} /\ stayed' = stayed \ {i}
  BY DEF RemoveRow
<1>2. rows' \subseteq Ids /\ stayed' \subseteq stayed /\ stayed' \subseteq rows'
  BY <1>1 DEF PagingInv, WalkSound, ReaderTypeOK
<1> QED BY <1>2, RowsChangeKeeps DEF RemoveRow

LEMMA MissingFacts == ASSUME NEW v, v = Missing PROVE Shaped(v)
<1>1. Get(v, "data") = Missing /\ Get(v, "meta") = Missing /\ Get(v, "valid") = Missing
  BY DEF Get, Is, Missing
<1>2. ~Is(Missing, "array") /\ ~Is(Missing, "bool")
  BY DEF Is, Missing
<1> QED BY <1>1, <1>2 DEF Shaped, Data, MetaField

\* The page that comes is the one after the cursor.
LEMMA AskKeeps == ASSUME PagingInv, Ask PROVE PagingInv'
<1>1. /\ phase = "ask" /\ index' = 0
      /\ UNCHANGED <<limit, after, got, rows, stayed, outs>>
  BY DEF Ask
<1>2. /\ after \in Nat /\ limit \in Nat /\ rows \subseteq Ids /\ stayed \subseteq rows
      /\ got \in Seq(Ids)
  BY PagingAssumption DEF PagingInv, WalkSound, ReaderTypeOK
<1>3. ASSUME phase' \in {"reading", "failed"}, slot' \in BOOLEAN PROVE ReaderTypeOK' /\ ReadOnce'
  BY <1>1, <1>3, PagingAssumption DEF PagingInv, WalkSound, ReaderTypeOK, ReadOnce
<1>4. /\ (outs = [r \in Readers |-> outs[r]])' /\ (got \in Seq(Ids))'
  BY <1>1 DEF PagingInv
<1>5. CASE doc' = Answer(limit, after) /\ phase' = "reading" /\ slot' = FALSE
  <2>1. PICK p : p = PageIds(limit, after)
    OBVIOUS
  <2>2. /\ p \in Seq(Ids) /\ Len(p) <= PageSize(limit) /\ DOMAIN p = 1..Len(p)
        /\ \A k \in DOMAIN p : after < p[k] /\ p[k] \in rows
        /\ \A j, k \in DOMAIN p : j < k => p[j] < p[k]
        /\ \A i \in rows : i > after =>
             \/ \E k \in DOMAIN p : p[k] = i
             \/ Len(p) = PageSize(limit) /\ \A k \in DOMAIN p : p[k] < i
    BY <1>2, <2>1, PageFacts
  <2>3. doc' = Listed(p) /\ Shaped(Listed(p))
    BY <1>5, <2>1, <2>2, ListedFacts DEF Answer
  <2>4. (HeldIds = p)'
    <3>1. IdsOn(doc') = p
      BY <2>2, <2>3, IdsListed
    <3> QED BY <3>1 DEF HeldIds, IdsOn
  <2>5. PageHeld'
    <3>1. (doc = Listed(HeldIds))'
      BY <2>3, <2>4
    <3>2. /\ (HeldIds \in Seq(Ids))' /\ (index <= Len(HeldIds))'
          /\ (Len(HeldIds) <= PageSize(limit))'
      BY <1>1, <2>2, <2>4, LenProperties DEF PageSize
    <3>3. \A i \in stayed' : i > after' =>
            \/ \E k \in DOMAIN p : p[k] = i
            \/ Len(p) = PageSize(limit) /\ \A k \in DOMAIN p : p[k] < i
      BY <1>1, <1>2, <2>2
    <3>4. PageSize(limit)' = PageSize(limit)
      BY <1>1 DEF PageSize
    <3> HIDE DEF HeldIds, Listed
    <3> QED BY <1>1, <2>2, <2>4, <3>1, <3>2, <3>3, <3>4 DEF PageHeld
  <2>6. ReadSoFar'
    <3>1. /\ \A i \in stayed \ Faulty : i <= after => \E k \in 1..Len(got) : got[k] = i
          /\ \A k \in 1..Len(got) : got[k] <= after
      BY <1>1 DEF PagingInv, ReadSoFar
    <3>2. 1..0 = {}
      OBVIOUS
    <3> QED BY <1>1, <1>5, <3>1, <3>2 DEF ReadSoFar
  <2>7. Shaped(doc)' /\ PagedWhole' /\ OutsWhole'
    BY <1>5, <2>3 DEF PagedWhole, OutsWhole, Shaped
  <2> QED BY <1>3, <1>4, <1>5, <2>5, <2>6, <2>7 DEF PagingInv, WalkSound
<1>6. CASE doc' = Missing /\ phase' = "failed" /\ slot' = TRUE
  <2>1. Shaped(doc)'
    BY <1>6, MissingFacts
  <2>2. PageHeld' /\ ReadSoFar' /\ PagedWhole' /\ OutsWhole'
    BY <1>6 DEF PageHeld, ReadSoFar, PagedWhole, OutsWhole
  <2> QED BY <1>3, <1>4, <1>6, <2>1, <2>2 DEF PagingInv, WalkSound
<1> QED BY <1>5, <1>6 DEF Ask

\* The page held, as one sequence.
LEMMA HeldFacts ==
  ASSUME PagingInv, phase = "reading", NEW p, p = HeldIds
  PROVE  /\ doc = Listed(p) /\ p \in Seq(Ids) /\ DOMAIN p = 1..Len(p) /\ Len(p) \in Nat
         /\ index \in 0..Len(p) /\ Len(p) <= PageSize(limit) /\ PageSize(limit) \in 1..Cap
         /\ limit \in Nat /\ after \in Nat
         /\ \A k \in 1..Len(p) : p[k] \in Ids /\ p[k] \in Nat /\ after < p[k]
         /\ \A j, k \in 1..Len(p) : j < k => p[j] < p[k]
         /\ \A i \in stayed : i > after =>
              \/ \E k \in 1..Len(p) : p[k] = i
              \/ Len(p) = PageSize(limit) /\ \A k \in 1..Len(p) : p[k] < i
         /\ got \in Seq(Ids) /\ Len(got) \in Nat
         /\ \A k \in 1..Len(got) : got[k] \in Ids /\ got[k] \in Nat
         /\ \A i \in stayed \ Faulty : i <= after => \E k \in 1..Len(got) : got[k] = i
         /\ \A k \in 1..Len(got) : got[k] <= after \/ \E j \in 1..index : got[k] = p[j]
         /\ \A j \in 1..index : p[j] \notin Faulty => \E k \in 1..Len(got) : got[k] = p[j]
<1> HIDE DEF HeldIds
<1>1. doc = Listed(p) /\ p \in Seq(Ids) /\ index <= Len(p) /\ Len(p) <= PageSize(limit)
  BY DEF PagingInv, PageHeld
<1>2. DOMAIN p = 1..Len(p) /\ Len(p) \in Nat /\ got \in Seq(Ids) /\ Len(got) \in Nat
  BY <1>1, LenProperties DEF PagingInv
<1>3. /\ limit \in Nat /\ after \in Nat /\ index \in Nat
      /\ \A i \in Ids : i \in Nat /\ \A k \in 1..Len(got) : got[k] \in Ids
  BY PagingAssumption DEF PagingInv, WalkSound, ReaderTypeOK, Ids
<1>4. PageSize(limit) \in 1..Cap
  BY <1>3, SizeFacts
<1>5. \A k \in 1..Len(p) : p[k] \in Ids
  BY <1>1, <1>2, ElementOfSeq
<1>6. /\ \A k \in 1..Len(p) : after < p[k]
      /\ \A j, k \in 1..Len(p) : j < k => p[j] < p[k]
      /\ \A i \in stayed : i > after =>
           \/ \E k \in 1..Len(p) : p[k] = i
           \/ Len(p) = PageSize(limit) /\ \A k \in 1..Len(p) : p[k] < i
  BY <1>2 DEF PagingInv, PageHeld
<1>7. /\ \A i \in stayed \ Faulty : i <= after => \E k \in 1..Len(got) : got[k] = i
      /\ \A k \in 1..Len(got) : got[k] <= after \/ \E j \in 1..index : got[k] = p[j]
      /\ \A j \in 1..index : p[j] \notin Faulty => \E k \in 1..Len(got) : got[k] = p[j]
  BY DEF PagingInv, ReadSoFar
<1>8. \A k \in 1..Len(got) : got[k] \in Ids /\ got[k] \in Nat
  BY PagingAssumption DEF PagingInv, WalkSound, ReaderTypeOK, Ids
<1>9. index \in 0..Len(p) /\ \A k \in 1..Len(p) : p[k] \in Nat
  BY <1>1, <1>2, <1>3, <1>5
<1> QED BY <1>1, <1>2, <1>3, <1>4, <1>5, <1>6, <1>7, <1>8, <1>9

\* The rows are read in the order of the page.
LEMMA ReadRowKeeps == ASSUME PagingInv, ReadRow PROVE PagingInv'
<1>1. /\ phase = "reading" /\ index < ResourceCount(doc, "artifacts")
      /\ index' = index + 1 /\ slot' = FALSE
      /\ UNCHANGED <<phase, doc, limit, after, rows, stayed>>
  BY DEF ReadRow
<1>2. PICK p : p = HeldIds
  OBVIOUS
<1>3. /\ doc = Listed(p) /\ p \in Seq(Ids) /\ DOMAIN p = 1..Len(p) /\ Len(p) \in Nat
      /\ index \in 0..Len(p) /\ Len(p) <= PageSize(limit) /\ PageSize(limit) \in 1..Cap
      /\ limit \in Nat /\ after \in Nat
      /\ \A k \in 1..Len(p) : p[k] \in Ids /\ p[k] \in Nat /\ after < p[k]
      /\ \A j, k \in 1..Len(p) : j < k => p[j] < p[k]
      /\ got \in Seq(Ids) /\ Len(got) \in Nat
      /\ \A k \in 1..Len(got) : got[k] \in Ids /\ got[k] \in Nat
      /\ \A i \in stayed \ Faulty : i <= after => \E k \in 1..Len(got) : got[k] = i
      /\ \A k \in 1..Len(got) : got[k] <= after \/ \E j \in 1..index : got[k] = p[j]
      /\ \A j \in 1..index : p[j] \notin Faulty => \E k \in 1..Len(got) : got[k] = p[j]
  BY <1>1, <1>2, HeldFacts
<1>4. (HeldIds = p)' /\ Shaped(doc)'
  BY <1>1, <1>2, HeldSame DEF PagingInv
<1> HIDE DEF HeldIds
<1>5. index \in 0..Len(p) - 1 /\ index + 1 \in 1..Len(p) /\ index + 1 <= Cap
  <2>1. index < Len(p) /\ index \in Nat /\ Len(p) \in Nat
    BY <1>1, <1>3, ListedFacts
  <2>2. Len(p) <= PageSize(limit) /\ PageSize(limit) <= Cap /\ PageSize(limit) \in Nat
        /\ Cap \in Nat
    BY <1>3, PagingAssumption
  <2> QED BY <2>1, <2>2
<1>6. PICK id : id = p[index + 1]
  OBVIOUS
<1>7. id \in Ids /\ id \in Nat /\ after < id
  BY <1>3, <1>5, <1>6
<1>8. PICK read : /\ read = ArtifactAt(doc, index, outs.artifact)
                  /\ outs' = [outs EXCEPT !.artifact = read.outs]
                  /\ got' = IF read.ok THEN Append(got, IdOf(read.outs["id"])) ELSE got
  BY DEF ReadRow
<1>9. (read.ok <=> id \notin Faulty) /\ (read.ok => IdOf(read.outs["id"]) = id)
  BY <1>3, <1>5, <1>6, <1>8, RowOfPage
<1>10. got' = IF id \in Faulty THEN got ELSE Append(got, id)
  BY <1>8, <1>9
\* What has been read, one row further.
<1>11. ASSUME NEW k \in 1..Len(got) PROVE got[k] < id
  <2>1. CASE got[k] <= after
    BY <1>3, <1>7, <2>1
  <2>2. CASE \E j \in 1..index : got[k] = p[j]
    <3>1. PICK j \in 1..index : got[k] = p[j]
      BY <2>2
    <3>2. j \in 1..Len(p) /\ j < index + 1
      BY <1>5
    <3> QED BY <1>3, <1>5, <1>6, <3>1, <3>2
  <2> QED BY <1>3, <2>1, <2>2
<1>12. /\ got' \in Seq(Ids) /\ Len(got') \in Nat
       /\ \A k \in 1..Len(got') : got'[k] \in Ids
       /\ \A k \in 1..Len(got) : k \in 1..Len(got') /\ got'[k] = got[k]
       /\ \A k \in 1..Len(got') : k \in 1..Len(got) \/ (k = Len(got) + 1 /\ got'[k] = id)
       /\ id \notin Faulty => \E k \in 1..Len(got') : got'[k] = id
  <2>1. CASE id \in Faulty
    BY <1>3, <1>10, <2>1
  <2>2. CASE id \notin Faulty
    <3>1. /\ got' = Append(got, id) /\ got' \in Seq(Ids) /\ Len(got') = Len(got) + 1
          /\ \A k \in 1..Len(got) : got'[k] = got[k]
          /\ got'[Len(got) + 1] = id
      BY <1>3, <1>7, <1>10, <2>2, AppendProperties
    <3>2. \A k \in 1..Len(got') : k \in 1..Len(got) \/ k = Len(got) + 1
      BY <1>3, <3>1
    <3>3. \A k \in 1..Len(got) : k \in 1..Len(got')
      BY <1>3, <3>1
    <3>4. Len(got) + 1 \in 1..Len(got')
      BY <1>3, <3>1
    <3>5. \A k \in 1..Len(got') : got'[k] \in Ids
      BY <1>3, <1>7, <3>1, <3>2
    <3> QED BY <1>3, <3>1, <3>2, <3>3, <3>4, <3>5
  <2> QED BY <2>1, <2>2
<1>13. ReaderTypeOK'
  <2>1. (index \in 0..Cap)'
    BY <1>1, <1>3, <1>5, PagingAssumption
  <2>2. ReaderTypeOK /\ slot' \in BOOLEAN
    BY <1>1 DEF PagingInv, WalkSound
  <2> QED BY <1>1, <1>12, <2>1, <2>2 DEF ReaderTypeOK
<1>14. ReadOnce'
  <2> SUFFICES ASSUME NEW j \in 1..Len(got'), NEW k \in 1..Len(got'), j < k
               PROVE  got'[j] < got'[k]
    BY DEF ReadOnce
  <2>1. j \in 1..Len(got) /\ got'[j] = got[j]
    BY <1>3, <1>12
  <2>2. CASE k \in 1..Len(got)
    BY <1>12, <2>1, <2>2 DEF PagingInv, WalkSound, ReadOnce
  <2>3. CASE k = Len(got) + 1 /\ got'[k] = id
    BY <1>11, <2>1, <2>3
  <2> QED BY <1>12, <2>2, <2>3
<1>15. PagedWhole' /\ OutsWhole'
  BY <1>1 DEF PagedWhole, OutsWhole
<1>16. PageHeld'
  <2>1. (doc = Listed(HeldIds))' /\ (index <= Len(HeldIds))'
    BY <1>1, <1>3, <1>4, <1>5
  <2>2. PageSize(limit)' = PageSize(limit)
    BY <1>1 DEF PageSize
  <2>3. PageHeld
    BY DEF PagingInv
  <2> QED BY <1>1, <1>2, <1>4, <2>1, <2>2, <2>3 DEF PageHeld
<1>17. ReadSoFar'
  <2>1. ASSUME NEW i \in stayed' \ Faulty, i <= after'
        PROVE  \E k \in 1..Len(got') : got'[k] = i
    <3>1. PICK k \in 1..Len(got) : got[k] = i
      BY <1>1, <1>3, <2>1
    <3> QED BY <1>12, <3>1
  <2>2. ASSUME NEW k \in 1..Len(got')
        PROVE  got'[k] <= after' \/ \E j \in 1..index' : got'[k] = p[j]
    <3>1. \A j \in 1..index : j \in 1..index'
      BY <1>1, <1>3
    <3>2. index + 1 \in 1..index'
      BY <1>1, <1>3
    <3>3. CASE k \in 1..Len(got)
      BY <1>1, <1>3, <1>12, <3>1, <3>3, SMTT(30)
    <3>4. CASE got'[k] = id
      BY <1>6, <3>2, <3>4
    <3> QED BY <1>12, <3>3, <3>4
  <2>3. ASSUME NEW j \in 1..index', p[j] \notin Faulty
        PROVE  \E k \in 1..Len(got') : got'[k] = p[j]
    <3>1. j \in 1..index \/ j = index + 1
      BY <1>1, <1>3
    <3>2. CASE j \in 1..index
      <4>1. PICK k \in 1..Len(got) : got[k] = p[j]
        BY <1>3, <2>3, <3>2
      <4> QED BY <1>12, <4>1
    <3>3. CASE j = index + 1
      BY <1>6, <1>12, <2>3, <3>3
    <3> QED BY <3>1, <3>2, <3>3
  <2> QED BY <1>1, <1>4, <2>1, <2>2, <2>3 DEF ReadSoFar
<1>18. (outs = [r \in Readers |-> outs[r]])'
  <2>1. outs = [r \in Readers |-> outs[r]]
    BY DEF PagingInv
  <2> QED BY <1>8, <2>1
<1> QED BY <1>1, <1>4, <1>12, <1>13, <1>14, <1>15, <1>16, <1>17, <1>18 DEF PagingInv, WalkSound

\* A page that is not full is the last; a full one ends at the next cursor.
LEMMA TurnKeeps == ASSUME PagingInv, TurnPage PROVE PagingInv'
<1>1. PICK cursor : cursor = NextCursor(doc, limit)
  OBVIOUS
<1>2. /\ phase = "reading" /\ index = ResourceCount(doc, "artifacts")
      /\ after' = IdOf(cursor) /\ slot' = FALSE /\ doc' = Missing
      /\ phase' = IF Is(cursor, "missing") THEN "done" ELSE "ask"
      /\ UNCHANGED <<index, limit, got, rows, stayed, outs>>
  BY <1>1 DEF TurnPage
<1>3. PICK p : p = HeldIds
  OBVIOUS
<1>4. /\ doc = Listed(p) /\ p \in Seq(Ids) /\ DOMAIN p = 1..Len(p) /\ Len(p) \in Nat
      /\ index \in 0..Len(p) /\ Len(p) <= PageSize(limit) /\ PageSize(limit) \in 1..Cap
      /\ limit \in Nat /\ after \in Nat
      /\ \A k \in 1..Len(p) : p[k] \in Ids /\ p[k] \in Nat /\ after < p[k]
      /\ \A j, k \in 1..Len(p) : j < k => p[j] < p[k]
      /\ \A i \in stayed : i > after =>
           \/ \E k \in 1..Len(p) : p[k] = i
           \/ Len(p) = PageSize(limit) /\ \A k \in 1..Len(p) : p[k] < i
      /\ got \in Seq(Ids) /\ Len(got) \in Nat
      /\ \A k \in 1..Len(got) : got[k] \in Ids /\ got[k] \in Nat
      /\ \A i \in stayed \ Faulty : i <= after => \E k \in 1..Len(got) : got[k] = i
      /\ \A k \in 1..Len(got) : got[k] <= after \/ \E j \in 1..index : got[k] = p[j]
      /\ \A j \in 1..index : p[j] \notin Faulty => \E k \in 1..Len(got) : got[k] = p[j]
  BY <1>2, <1>3, HeldFacts
<1>5. index = Len(p)
  BY <1>2, <1>4, ListedFacts
<1>6. \A i \in stayed : i \in Nat
  BY PagingAssumption DEF PagingInv, WalkSound, ReaderTypeOK, Ids
<1>7. IF limit = 0 \/ Len(p) # limit THEN cursor = Missing /\ IdOf(cursor) = 0
      ELSE ~Is(cursor, "missing") /\ IdOf(cursor) = p[Len(p)] /\ Len(p) \in DOMAIN p
  BY <1>1, <1>4, CursorOfPage
\* The rows read now: all that stayed, up to the end of the page.
<1>8. ASSUME NEW i \in stayed \ Faulty, NEW k \in 1..Len(p), p[k] = i
      PROVE  \E n \in 1..Len(got) : got[n] = i
  BY <1>4, <1>5, <1>8
<1>9. Is(Missing, "missing")
  BY DEF Is, Missing
<1>10. after' \in 0..MaxId
  <2>1. \A i \in Ids : i \in 0..MaxId
    BY PagingAssumption DEF Ids
  <2>2. 0 \in 0..MaxId
    BY PagingAssumption
  <2> QED BY <1>2, <1>4, <1>7, <2>1, <2>2
<1>11. ReaderTypeOK' /\ ReadOnce'
  <2>1. ReaderTypeOK /\ ReadOnce /\ slot' \in BOOLEAN /\ phase' \in {"done", "ask"}
    BY <1>2 DEF PagingInv, WalkSound
  <2> QED BY <1>2, <1>10, <2>1 DEF ReaderTypeOK, ReadOnce
<1>12. PagedWhole'
  <2>1. ASSUME phase' = "done", limit \in 1..Cap, NEW i \in stayed \ Faulty
        PROVE  \E n \in 1..Len(got) : got[n] = i
    <3>1. limit = 0 \/ Len(p) # limit
      BY <1>2, <1>7, <2>1
    <3>2. PageSize(limit) = limit /\ Len(p) # PageSize(limit)
      <4>1. limit \in Nat /\ limit # 0
        BY <1>4, <2>1
      <4>2. PageSize(limit) = limit
        BY <2>1, <4>1, SizeFacts
      <4> QED BY <3>1, <4>1, <4>2
    <3>3. CASE i <= after
      BY <1>4, <3>3
    <3>4. CASE i > after
      BY <1>4, <1>8, <3>2, <3>4
    <3> QED BY <1>4, <1>6, <3>3, <3>4
  <2>2. phase' # "failed"
    BY <1>2
  <2> QED BY <1>2, <2>1, <2>2 DEF PagedWhole
<1>13. ReadSoFar'
  <2> SUFFICES ASSUME phase' = "ask" PROVE ReadSoFar'
    BY <1>2 DEF ReadSoFar
  <2>1. after' = p[Len(p)] /\ Len(p) \in 1..Len(p) /\ after' \in Nat /\ after < after'
    <3>1. after' = p[Len(p)] /\ Len(p) \in DOMAIN p
      BY <1>2, <1>7, <1>9
    <3>2. Len(p) \in 1..Len(p)
      BY <1>4, <3>1
    <3> QED BY <1>4, <3>1, <3>2
  <2>2. ASSUME NEW i \in stayed \ Faulty, i <= after'
        PROVE  \E n \in 1..Len(got) : got[n] = i
    <3>1. CASE i <= after
      BY <1>4, <3>1
    <3>2. CASE i > after
      <4>1. ~(p[Len(p)] < i)
        BY <1>6, <2>1, <2>2
      <4>2. \E k \in 1..Len(p) : p[k] = i
        BY <1>4, <2>1, <3>2, <4>1
      <4> QED BY <1>8, <4>2
    <3> QED BY <1>4, <1>6, <3>1, <3>2
  <2>3. ASSUME NEW k \in 1..Len(got) PROVE got[k] <= after'
    <3>1. CASE got[k] <= after
      BY <1>4, <2>1, <3>1
    <3>2. CASE \E j \in 1..index : got[k] = p[j]
      <4>1. PICK j \in 1..Len(p) : got[k] = p[j]
        BY <1>5, <3>2
      <4>2. j = Len(p) \/ j < Len(p)
        <5>1. Len(p) \in Nat
          BY <1>4
        <5> QED BY <5>1
      <4>3. p[j] \in Nat /\ (j < Len(p) => p[j] < after')
        BY <1>4, <2>1
      <4> QED BY <2>1, <4>1, <4>2, <4>3
    <3> QED BY <1>4, <3>1, <3>2
  <2> QED BY <1>2, <2>2, <2>3 DEF ReadSoFar
<1>14. PageHeld' /\ OutsWhole' /\ (phase # "idle")'
  BY <1>2 DEF PageHeld, OutsWhole
<1>15. Shaped(doc)'
  BY <1>2, MissingFacts
<1>16. (outs = [r \in Readers |-> outs[r]])' /\ (got \in Seq(Ids))'
  BY <1>2 DEF PagingInv
<1> QED BY <1>11, <1>12, <1>13, <1>14, <1>15, <1>16 DEF PagingInv, WalkSound

-----------------------------------------------------------------------------
(* The invariant.                                                            *)

LEMMA GivenKeeps == ASSUME PagingInv, Given PROVE PagingInv'
<1>1. /\ phase = "idle" /\ phase' = "given" /\ doc' \in Documents /\ slot' \in BOOLEAN
      /\ UNCHANGED <<index, limit, after, got, rows, stayed, outs>> /\ outs = Fresh
  BY DEF Given, loop, PagingInv
<1>2. Shaped(doc)'
  BY <1>1, ReadersAssumption DEF Shaped
<1>3. ReaderTypeOK' /\ ReadOnce' /\ PagedWhole'
  BY <1>1 DEF PagingInv, WalkSound, ReaderTypeOK, ReadOnce, PagedWhole
<1>4. PageHeld' /\ ReadSoFar'
  BY <1>1 DEF PageHeld, ReadSoFar
<1>5. OutsWhole'
  BY <1>1 DEF OutsWhole, Whole
<1>6. (outs = [r \in Readers |-> outs[r]])' /\ (got \in Seq(Ids))'
  BY <1>1 DEF PagingInv
<1> QED BY <1>1, <1>2, <1>3, <1>4, <1>5, <1>6 DEF PagingInv, WalkSound

LEMMA ReadKeeps == ASSUME PagingInv, Read PROVE PagingInv'
<1>1. /\ phase = "given" /\ slot' = FALSE
      /\ UNCHANGED <<phase, doc, index, limit, after, got, rows, stayed>>
  BY DEF Read, loop
<1>2. OutsWhole' /\ (outs = [r \in Readers |-> outs[r]])'
  BY <1>1, ReadWhole DEF PagingInv
<1>3. Shaped(doc)'
  BY <1>1, HeldSame DEF PagingInv
<1>4. ReaderTypeOK' /\ ReadOnce' /\ PagedWhole'
  BY <1>1 DEF PagingInv, WalkSound, ReaderTypeOK, ReadOnce, PagedWhole
<1>5. PageHeld' /\ ReadSoFar' /\ (got \in Seq(Ids))'
  BY <1>1 DEF PageHeld, ReadSoFar, PagingInv
<1> QED BY <1>1, <1>2, <1>3, <1>4, <1>5 DEF PagingInv, WalkSound

LEMMA PagingStutter == ASSUME PagingInv, UNCHANGED readerVars PROVE PagingInv'
<1>1. HeldIds' = HeldIds /\ Shaped(doc)'
  BY HeldSame DEF PagingInv, readerVars
<1>2. ReaderTypeOK' /\ ReadOnce' /\ PagedWhole'
  BY DEF PagingInv, WalkSound, ReaderTypeOK, ReadOnce, PagedWhole, readerVars
<1> HIDE DEF HeldIds
<1>3. PageHeld' /\ ReadSoFar' /\ (got \in Seq(Ids))'
  BY <1>1 DEF PageHeld, ReadSoFar, PagingInv, readerVars, PageSize, Listed, Artifact
<1>4. OutsWhole'
  BY ZenonT(40) DEF PagingInv, OutsWhole, Whole, readerVars
<1>5. (outs = [r \in Readers |-> outs[r]])' /\ (phase = "idle" => outs = Fresh)'
  BY DEF PagingInv, readerVars
<1> QED BY <1>1, <1>2, <1>3, <1>4, <1>5 DEF PagingInv, WalkSound

LEMMA PagingInit == ASSUME ReaderInit PROVE PagingInv
<1>1. got = <<>> /\ Len(got) = 0 /\ got \in Seq(Ids)
  BY DEF ReaderInit
<1>2. ReaderTypeOK
  <2>1. index \in 0..Cap /\ after \in 0..MaxId /\ 1..Len(got) = {}
    BY <1>1, PagingAssumption DEF ReaderInit
  <2> QED BY <2>1 DEF ReaderInit, ReaderTypeOK
<1>3. ReadOnce /\ PagedWhole /\ PageHeld /\ OutsWhole
  BY <1>1 DEF ReaderInit, ReadOnce, PagedWhole, PageHeld, OutsWhole
<1>4. ReadSoFar
  BY DEF ReaderInit, ReadSoFar
<1>5. Shaped(doc)
  BY MissingFacts DEF ReaderInit
<1>6. outs = [r \in Readers |-> outs[r]] /\ outs = Fresh
  BY DEF ReaderInit, Fresh, Readers
<1> QED BY <1>1, <1>2, <1>3, <1>4, <1>5, <1>6 DEF PagingInv, WalkSound

\* The page held is the one after the cursor, and what has been read is what
\* lies before the next row: for every size of page and however rows come and
\* go while the caller of tamga_response_next_cursor goes on.
THEOREM PagingInvariance == ReaderSpec => []PagingInv
<1>1. ReaderInit => PagingInv
  BY PagingInit
<1>2. PagingInv /\ [ReaderNext]_readerVars => PagingInv'
  <2> SUFFICES ASSUME PagingInv, [ReaderNext]_readerVars PROVE PagingInv'
    OBVIOUS
  <2>1. CASE StartPaging
    BY <2>1, StartKeeps
  <2>2. CASE InsertRow
    BY <2>2, InsertKeeps
  <2>3. CASE RemoveRow
    BY <2>3, RemoveKeeps
  <2>4. CASE Ask
    BY <2>4, AskKeeps
  <2>5. CASE ReadRow
    BY <2>5, ReadRowKeeps
  <2>6. CASE TurnPage
    BY <2>6, TurnKeeps
  <2>7. CASE Given
    BY <2>7, GivenKeeps
  <2>8. CASE Read
    BY <2>8, ReadKeeps
  <2>9. CASE UNCHANGED readerVars
    BY <2>9, PagingStutter
  <2> QED BY <2>1, <2>2, <2>3, <2>4, <2>5, <2>6, <2>7, <2>8, <2>9 DEF ReaderNext
<1> QED BY <1>1, <1>2, PTL DEF ReaderSpec

\* A walk with tamga_response_next_cursor reads no row twice, and when it ends
\* without an error has read every readable row that stayed, whatever the
\* length of the listing and the size of its pages.
THEOREM WalkIsSound == ReaderSpec => []WalkSound
<1>1. PagingInv => WalkSound
  BY DEF PagingInv
<1> QED BY <1>1, PagingInvariance, PTL

\* The readers of a response tell what a document says, for documents of any
\* shape and size: no mixture of rows, every row in its place, one source of a
\* verdict, one idea of an overage, no number made up.
THEOREM ReadersAreSound == ReaderSpec => []ReadersSound
<1>1. PagingInv => ReadersSound
  BY EachRowInPlace, VerdictFromOne, OverageSame, NumbersAreHonest
     DEF PagingInv, ReadersSound
<1> QED BY <1>1, PagingInvariance, PTL
=============================================================================
