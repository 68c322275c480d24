---------------------------- MODULE CodecsProofs ----------------------------
(***************************************************************************)
(* The text codecs agree with their reference definitions on every input.  *)
(***************************************************************************)
EXTENDS Codecs, WellFoundedInduction, SequenceTheorems, FiniteSetTheorems, TLAPS

-----------------------------------------------------------------------------
(* Induction on the natural numbers and definitions by recursion, stated     *)
(* about sets and functions.                                                 *)

\* Numbers are well-founded.
LEMMA LeastExists == ASSUME NEW T \in SUBSET Nat, T # {} PROVE \E x \in T : \A y \in T : x <= y
<1> DEFINE R == {ss \in Nat \X Nat : ss[1] < ss[2]}
<1>1. IsWellFoundedOn(R, Nat)
  BY NatLessThanWellFounded DEF OpToRel
<1>2. PICK x \in T : \A y \in T : ~(<<y, x>> \in R)
  BY <1>1, WFMin
<1>3. \A y \in T : ~(y < x)
  BY <1>2
<1> QED BY <1>3

\* A set that holds 0 and with a number the next holds them all.
LEMMA Induction ==
  ASSUME NEW T, 0 \in T, \A n \in Nat : n \in T => n + 1 \in T
  PROVE  Nat \subseteq T
<1> SUFFICES ASSUME NEW n \in Nat, n \notin T PROVE FALSE
  OBVIOUS
<1> DEFINE C == {k \in Nat : k \notin T}
<1>1. C \in SUBSET Nat /\ C # {}
  OBVIOUS
<1>2. PICK x \in C : \A y \in C : x <= y
  BY <1>1, LeastExists
<1>3. x # 0 /\ x - 1 \in Nat
  BY <1>2
<1>4. x - 1 \in T
  BY <1>2, <1>3
<1> QED BY <1>2, <1>3, <1>4

\* The same up to n.
LEMMA IntervalInduction ==
  ASSUME NEW n \in Nat, NEW T, 0 \in T, \A i \in 1..n : i - 1 \in T => i \in T
  PROVE  0..n \subseteq T
<1> DEFINE C == {k \in Nat : k \in 0..n => k \in T}
<1>1. 0 \in C
  OBVIOUS
<1>2. ASSUME NEW k \in Nat, k \in C PROVE k + 1 \in C
  <2>1. k + 1 \in 0..n => k + 1 \in 1..n /\ k \in T /\ k = (k + 1) - 1
    BY <1>2
  <2> QED BY <2>1
<1>3. Nat \subseteq C
  BY <1>1, <1>2, Induction
<1> QED BY <1>3

\* f = G[f] gives a function on D by its values at smaller arguments.
Defines(G, D, V, m, n) ==
  /\ V # {} /\ n \in Nat /\ m \in [D -> 0..n] /\ G \in [[D -> V] -> [D -> V]]
  /\ \A g, h \in [D -> V], x \in D :
       (\A y \in D : m[y] < m[x] => g[y] = h[y]) => G[g][x] = G[h][x]

\* Such an equation has a solution.
LEMMA Recursion ==
  ASSUME NEW D, NEW V, NEW n, NEW m, NEW G, Defines(G, D, V, m, n)
  PROVE  \E f \in [D -> V] : f = G[f]
<1>0. /\ V # {} /\ n \in Nat /\ m \in [D -> 0..n] /\ G \in [[D -> V] -> [D -> V]]
      /\ \A g, h \in [D -> V], x \in D :
           (\A y \in D : m[y] < m[x] => g[y] = h[y]) => G[g][x] = G[h][x]
  BY DEF Defines
<1> DEFINE F == [D -> V]
           T == {k \in Nat : \E g \in F : \A x \in D : m[x] < k => g[x] = G[g][x]}
<1>1. 0 \in T
  <2>1. PICK v : v \in V
    BY <1>0
  <2>2. [x \in D |-> v] \in F
    BY <2>1
  <2>3. \A x \in D : ~(m[x] < 0)
    BY <1>0
  <2> QED BY <2>2, <2>3
<1>2. ASSUME NEW k \in Nat, k \in T PROVE k + 1 \in T
  <2>1. PICK g \in F : \A x \in D : m[x] < k => g[x] = G[g][x]
    BY <1>2
  <2>2. PICK h \in F : h = G[g]
    BY <1>0
  <2>3. ASSUME NEW x \in D, m[x] < k + 1 PROVE h[x] = G[h][x]
    <3>1. \A y \in D : m[y] < m[x] => m[y] < k
      BY <1>0, <2>3
    <3>2. \A y \in D : m[y] < m[x] => g[y] = h[y]
      BY <3>1, <2>1, <2>2
    <3>3. G[g][x] = G[h][x]
      BY <1>0, <3>2
    <3> QED BY <3>3, <2>2
  <2> QED BY <2>3
<1>3. n + 1 \in T
  BY <1>0, <1>1, <1>2, Induction
<1>4. PICK g \in F : \A x \in D : m[x] < n + 1 => g[x] = G[g][x]
  BY <1>3
<1>5. \A x \in D : g[x] = G[g][x]
  BY <1>0, <1>4
<1>6. G[g] \in F
  BY <1>0
<1>7. g = G[g]
  BY <1>5, <1>6
<1> QED BY <1>7

-----------------------------------------------------------------------------
(* The calendar.                                                             *)

\* Days before March of year y, from March of the year 0.
Until(y) == 365 * y + y \div 4 - y \div 100 + y \div 400

\* Days before the m-th month of a year that starts in March.
Months(m) == (153 * m + 2) \div 5

\* The division that C truncates, with the 399 taken off below zero, rounds
\* down after all.
LEMMA EraFloor ==
  ASSUME NEW y \in Int
  PROVE  Truncated(IF y >= 0 THEN y ELSE y - 399, 400) = y \div 400
BY SMT DEF Truncated

LEMMA EraDays ==
  ASSUME NEW y \in Int, NEW era \in Int, era = y \div 400, NEW doy \in Int
  PROVE  era * 146097
           + ((y - era * 400) * 365 + (y - era * 400) \div 4
                - (y - era * 400) \div 100 + doy) - 719468
           = Until(y) + doy - 719468
BY SMT DEF Until

\* tamga_days_from_civil without the eras.
LEMMA DaysPlain ==
  ASSUME NEW year \in Nat, NEW month \in 1..12, NEW day \in Nat
  PROVE  DaysFromCivil(year, month, day) =
           Until(IF month <= 2 THEN year - 1 ELSE year)
             + Months(IF month > 2 THEN month - 3 ELSE month + 9)
             + day - 1 - 719468
<1> DEFINE y == IF month <= 2 THEN year - 1 ELSE year
           era == Truncated(IF y >= 0 THEN y ELSE y - 399, 400)
           m == IF month > 2 THEN month - 3 ELSE month + 9
           doy == (153 * m + 2) \div 5 + day - 1
<1>1. DaysFromCivil(year, month, day) =
        era * 146097
           + ((y - era * 400) * 365 + (y - era * 400) \div 4
                - (y - era * 400) \div 100 + doy) - 719468
  BY SMT DEF DaysFromCivil
<1>2. y \in Int /\ m \in Int
  OBVIOUS
<1> HIDE DEF y, m
<1>3. era = y \div 400 /\ era \in Int
  BY <1>2, EraFloor
<1>4. doy \in Int
  BY <1>2
<1>5. Until(y) \in Int
  BY <1>2 DEF Until
<1> HIDE DEF era, doy
<1>6. DaysFromCivil(year, month, day) = Until(y) + doy - 719468
  <2>1. era * 146097
           + ((y - era * 400) * 365 + (y - era * 400) \div 4
                - (y - era * 400) \div 100 + doy) - 719468
          = Until(y) + doy - 719468
    BY <1>2, <1>3, <1>4, EraDays, SMT
  <2> QED BY <1>1, <2>1, SMT
<1>7. Until(y) + doy - 719468 = Until(y) + Months(m) + day - 1 - 719468
  BY <1>2, <1>5, SMT DEF Months, doy
<1> QED BY <1>6, <1>7 DEF y, m

\* A leap year ends, in February, with one day more.
LEMMA LeapDay ==
  ASSUME NEW y \in Int
  PROVE  Until(y) - Until(y - 1) = IF IsLeapYear(y) THEN 366 ELSE 365
BY SMT DEF Until, IsLeapYear

\* A month has the days of the calendar.
LEMMA MonthDays ==
  ASSUME NEW year \in Nat, NEW month \in 1..12
  PROVE  /\ DaysInMonth(year, month) = MonthLength(year, month)
         /\ MonthLength(year, month) \in 28..31
<1>1. IsLeapYear(year) <=> ~(year % 4 # 0 \/ (year % 100 = 0 /\ year % 400 # 0))
  BY SMT DEF IsLeapYear
<1> QED BY <1>1, SMT DEF DaysInMonth, MonthLength

LEMMA UntilInt == ASSUME NEW y \in Int PROVE Until(y) \in Int
BY SMT DEF Until

\* The first of a month comes one day after the last of the one before.
LEMMA NextMonth ==
  ASSUME NEW year \in Nat, NEW month \in 1..11
  PROVE  DaysFromCivil(year, month + 1, 1)
           = DaysFromCivil(year, month, MonthLength(year, month)) + 1
<1> DEFINE len == MonthLength(year, month)
           y1 == IF month <= 2 THEN year - 1 ELSE year
           y2 == IF month + 1 <= 2 THEN year - 1 ELSE year
           m1 == IF month > 2 THEN month - 3 ELSE month + 9
           m2 == IF month + 1 > 2 THEN month + 1 - 3 ELSE month + 1 + 9
<1>1. len \in Nat /\ month + 1 \in 1..12 /\ month \in 1..12
  BY MonthDays
<1>2. DaysFromCivil(year, month, len) = Until(y1) + Months(m1) + len - 1 - 719468
  BY <1>1, DaysPlain, SMT
<1>3. DaysFromCivil(year, month + 1, 1) = Until(y2) + Months(m2) + 1 - 1 - 719468
  BY <1>1, DaysPlain, SMT
<1>4. Until(y2) - Until(y1) + Months(m2) - Months(m1) = len
  <2>1. CASE month = 2
    <3>1. Until(year) - Until(year - 1) = IF IsLeapYear(year) THEN 366 ELSE 365
      BY LeapDay
    <3>2. len = IF IsLeapYear(year) THEN 29 ELSE 28
      BY <2>1, SMT DEF MonthLength, IsLeapYear
    <3>3. Months(m1) = 337 /\ Months(m2) = 0
      BY <2>1, SMT DEF Months
    <3>4. y1 = year - 1 /\ y2 = year
      BY <2>1
    <3>5. Until(year) \in Int /\ Until(year - 1) \in Int
      BY UntilInt
    <3> QED BY <3>1, <3>2, <3>3, <3>4, <3>5, SMT
  <2>2. CASE month # 2
    <3>1. y1 = y2
      BY <2>2
    <3>2. Months(m2) - Months(m1) = len
      BY <2>2, SMT DEF Months, MonthLength
    <3>3. Until(y1) \in Int /\ Months(m1) \in Int /\ Months(m2) \in Int
      BY UntilInt, SMT DEF Months
    <3> QED BY <3>1, <3>2, <3>3, SMT
  <2> QED BY <2>1, <2>2
<1>5. /\ Until(y1) \in Int /\ Until(y2) \in Int
      /\ Months(m1) \in Int /\ Months(m2) \in Int
  BY UntilInt, SMT DEF Months
<1> HIDE DEF len, y1, y2, m1, m2
<1>6. DaysFromCivil(year, month + 1, 1) = DaysFromCivil(year, month, len) + 1
  BY <1>1, <1>2, <1>3, <1>4, <1>5, SMT
<1> QED BY <1>6 DEF len

\* New Year's Day comes one day after the 31st of December.
LEMMA NextYear ==
  ASSUME NEW year \in Nat
  PROVE  DaysFromCivil(year + 1, 1, 1) = DaysFromCivil(year, 12, 31) + 1
<1>1. DaysFromCivil(year, 12, 31) = Until(year) + Months(9) + 31 - 1 - 719468
  BY DaysPlain, SMT
<1>2. DaysFromCivil(year + 1, 1, 1) = Until(year + 1 - 1) + Months(10) + 1 - 1 - 719468
  BY DaysPlain, SMT
<1>3. Months(9) = 275 /\ Months(10) = 306
  BY SMT DEF Months
<1>4. Until(year) \in Int /\ year + 1 - 1 = year
  BY UntilInt
<1> QED BY <1>1, <1>2, <1>3, <1>4, SMT

\* tamga_rfc3339_parse numbers the days one after the other.
LEMMA Calendar ==
  ASSUME NEW s \in Stamp, Accepted(s)
  PROVE  /\ Instant(NextDay(s)).day = Instant(s).day + 1
         /\ s.year = 1970 /\ s.month = 1 => Instant(s).day = s.day - 1
<1> DEFINE y == s.year
           m == s.month
           d == s.day
           len == MonthLength(y, m)
<1>1. y \in Nat /\ m \in 1..12 /\ d \in Nat /\ d >= 1 /\ d <= len /\ len \in 28..31
  BY MonthDays DEF Stamp, Accepted
<1>2. \A t : Instant(t).day = DaysFromCivil(t.year, t.month, t.day)
  BY DEF Instant
<1>3. Instant(NextDay(s)).day = Instant(s).day + 1
  <2>1. CASE d < len
    <3>1. NextDay(s) = [s EXCEPT !.day = d + 1]
      BY <2>1 DEF NextDay
    <3>2. NextDay(s).year = y /\ NextDay(s).month = m /\ NextDay(s).day = d + 1
      BY <3>1 DEF Stamp
    <3>3. DaysFromCivil(y, m, d + 1) = DaysFromCivil(y, m, d) + 1
      <4> DEFINE b == Until(IF m <= 2 THEN y - 1 ELSE y)
                 a == Months(IF m > 2 THEN m - 3 ELSE m + 9)
      <4>1. a \in Int /\ b \in Int
        BY <1>1, UntilInt, SMT DEF Months
      <4>2. DaysFromCivil(y, m, d) = b + a + d - 1 - 719468
        BY <1>1, DaysPlain, SMT
      <4>3. DaysFromCivil(y, m, d + 1) = b + a + (d + 1) - 1 - 719468
        BY <1>1, DaysPlain, SMT
      <4> HIDE DEF a, b
      <4> QED BY <1>1, <4>1, <4>2, <4>3, SMT
    <3> QED BY <1>2, <3>2, <3>3
  <2>2. CASE d = len /\ m < 12
    <3>1. NextDay(s) = [s EXCEPT !.month = m + 1, !.day = 1]
      BY <1>1, <2>2 DEF NextDay
    <3>2. NextDay(s).year = y /\ NextDay(s).month = m + 1 /\ NextDay(s).day = 1
      BY <3>1 DEF Stamp
    <3>3. DaysFromCivil(y, m + 1, 1) = DaysFromCivil(y, m, d) + 1
      BY <1>1, <2>2, NextMonth
    <3> QED BY <1>2, <3>2, <3>3
  <2>3. CASE d = len /\ m = 12
    <3>1. NextDay(s) = [s EXCEPT !.year = y + 1, !.month = 1, !.day = 1]
      BY <1>1, <2>3 DEF NextDay
    <3>2. NextDay(s).year = y + 1 /\ NextDay(s).month = 1 /\ NextDay(s).day = 1
      BY <3>1 DEF Stamp
    <3>3. d = 31
      BY <2>3 DEF MonthLength
    <3>4. DaysFromCivil(y + 1, 1, 1) = DaysFromCivil(y, m, d) + 1
      BY <1>1, <2>3, <3>3, NextYear
    <3> QED BY <1>2, <3>2, <3>4
  <2> QED BY <1>1, <2>1, <2>2, <2>3
<1>4. ASSUME y = 1970, m = 1 PROVE Instant(s).day = d - 1
  <2>1. DaysFromCivil(1970, 1, d) = Until(1969) + Months(10) + d - 1 - 719468
    BY <1>1, DaysPlain, SMT
  <2>2. Until(1969) = 719162 /\ Months(10) = 306
    BY SMT DEF Until, Months
  <2>3. DaysFromCivil(y, m, d) = d - 1
    BY <1>1, <1>4, <2>1, <2>2, SMT
  <2> QED BY <1>2, <2>3, SMT
<1> QED BY <1>1, <1>3, <1>4

\* A day is accepted exactly when its month has it.
LEMMA DaysAccepted ==
  ASSUME NEW s \in Stamp
  PROVE  Accepted(s) <=> /\ Clock(s) /\ s.month \in 1..12
                         /\ s.day \in 1..MonthLength(s.year, s.month)
<1>1. /\ s.year \in Nat /\ s.month \in Nat /\ s.day \in Nat /\ s.hour \in Nat
      /\ s.minute \in Nat /\ s.second \in Nat /\ s.offHour \in Nat
      /\ s.offMinute \in Nat
  BY DEF Stamp
<1>2. /\ s.hour <= 23 <=> s.hour \in 0..23
      /\ s.minute <= 59 <=> s.minute \in 0..59
      /\ s.second <= 60 <=> s.second \in 0..60
      /\ s.offHour <= 23 <=> s.offHour \in 0..23
      /\ s.offMinute <= 59 <=> s.offMinute \in 0..59
  BY <1>1, SMT
<1>3. ASSUME s.month \in 1..12
      PROVE  s.day >= 1 /\ s.day <= DaysInMonth(s.year, s.month)
               <=> s.day \in 1..MonthLength(s.year, s.month)
  BY <1>1, <1>3, MonthDays, SMT
<1> QED BY <1>2, <1>3, Zenon DEF Accepted, Clock

\* Seconds after the start of the day.
Seconds(h, m, s, g, oh, om) ==
  h * 3600 + m * 60 + (IF s = 60 THEN 59 ELSE s) - g * (oh * 3600 + om * 60)

\* One hour later with an offset of one hour more is no later.
LEMMA EastAgrees ==
  ASSUME NEW h \in Nat, NEW m \in Nat, NEW s \in Nat, NEW g \in Int, g \in {-1, 1},
         NEW oh \in Nat, NEW om \in Nat
  PROVE  Seconds(h + 1, m, s, g, oh + g, om) = Seconds(h, m, s, g, oh, om)
<1>1. CASE g = 1
  BY <1>1, SMT DEF Seconds
<1>2. CASE g = -1
  BY <1>2, SMT DEF Seconds
<1> QED BY <1>1, <1>2

\* ... and seconds of one time line.
LEMMA TimeLine ==
  ASSUME NEW s \in Stamp, Accepted(s)
  PROVE  LET east == [s EXCEPT !.hour = @ + 1, !.offHour = @ + s.sign]
         IN /\ east.hour < 24 /\ east.offHour \in 0..23 => Instant(east) = Instant(s)
            /\ Instant(s).second <= Instant([s EXCEPT !.second = 59]).second
<1> DEFINE east == [s EXCEPT !.hour = @ + 1, !.offHour = @ + s.sign]
           late == [s EXCEPT !.second = 59]
<1>1. /\ s.hour \in Nat /\ s.minute \in Nat /\ s.second \in Nat /\ s.sign \in {-1, 1}
      /\ s.offHour \in Nat /\ s.offMinute \in Nat /\ s.second <= 60
  BY DEF Stamp, Accepted
<1>2. /\ east.hour = s.hour + 1 /\ east.offHour = s.offHour + s.sign
      /\ east.year = s.year /\ east.month = s.month /\ east.day = s.day
      /\ east.minute = s.minute /\ east.second = s.second /\ east.sign = s.sign
      /\ east.offMinute = s.offMinute
  BY DEF Stamp
<1>3. /\ late.hour = s.hour /\ late.minute = s.minute /\ late.second = 59
      /\ late.sign = s.sign /\ late.offHour = s.offHour /\ late.offMinute = s.offMinute
  BY DEF Stamp
<1> HIDE DEF east, late
<1>4. Instant(east).second = Instant(s).second
  <2>1. \A t : Instant(t).second
               = Seconds(t.hour, t.minute, t.second, t.sign, t.offHour, t.offMinute)
    BY SMT DEF Instant, Seconds
  <2>2. /\ Instant(s).second
             = Seconds(s.hour, s.minute, s.second, s.sign, s.offHour, s.offMinute)
        /\ Instant(east).second = Seconds(s.hour + 1, s.minute, s.second, s.sign,
                                          s.offHour + s.sign, s.offMinute)
    BY <1>2, <2>1, Zenon
  <2>3. Seconds(s.hour + 1, s.minute, s.second, s.sign, s.offHour + s.sign, s.offMinute)
          = Seconds(s.hour, s.minute, s.second, s.sign, s.offHour, s.offMinute)
    <3>1. PICK h \in Nat, m \in Nat, c \in Nat, g \in {-1, 1}, oh \in Nat, om \in Nat :
            /\ h = s.hour /\ m = s.minute /\ c = s.second /\ g = s.sign
            /\ oh = s.offHour /\ om = s.offMinute
      BY <1>1
    <3>2. Seconds(h + 1, m, c, g, oh + g, om) = Seconds(h, m, c, g, oh, om)
      BY EastAgrees
    <3> QED BY <3>1, <3>2, Zenon
  <2> QED BY <2>2, <2>3, Zenon
<1>5. Instant(east) = Instant(s)
  <2>1. \A t : Instant(t) = [day |-> Instant(t).day, second |-> Instant(t).second]
    BY DEF Instant
  <2>2. Instant(east).day = Instant(s).day
    BY <1>2 DEF Instant
  <2> QED BY <1>4, <2>1, <2>2, Zenon
<1>6. Instant(s).second <= Instant(late).second
  BY <1>1, <1>3, SMT DEF Instant
<1> QED BY <1>5, <1>6 DEF east, late

-----------------------------------------------------------------------------
(* UTF-8.                                                                    *)

Octet == 0..255

\* The second byte keeps out what is too short, too large or a surrogate.
Two(a, b) == a \in 194..223 /\ b \in 128..191
Three(a, b, c) ==
  /\ a \in 224..239 /\ b \in 128..191 /\ c \in 128..191
  /\ (a = 224 => b >= 160) /\ (a = 237 => b <= 159)
Four(a, b, c, d) ==
  /\ a \in 240..244 /\ b \in 128..191 /\ c \in 128..191 /\ d \in 128..191
  /\ (a = 240 => b >= 144) /\ (a = 244 => b <= 143)

\* A byte, and whether it is there.
IsByte(s, i, a) ==
  /\ a = Byte(s, i) /\ a >= -1 /\ a <= 255
  /\ i <= Len(s) <=> a # -1
  /\ i <= Len(s) => s[i] = a

LEMMA ByteFacts ==
  ASSUME NEW s \in Seq(Octet), NEW i \in 1..4
  PROVE  \E a \in Int : IsByte(s, i, a)
<1>1. CASE i <= Len(s)
  <2>1. s[i] \in Octet
    BY <1>1, ElementOfSeq, LenProperties
  <2>2. PICK a \in Octet : a = s[i]
    BY <2>1
  <2>3. Byte(s, i) = a
    BY <1>1, <2>2 DEF Byte
  <2>4. a \in Int /\ a >= -1 /\ a <= 255 /\ a # -1
    BY DEF Octet
  <2> QED BY <1>1, <2>2, <2>3, <2>4 DEF IsByte
<1>2. CASE ~(i <= Len(s))
  BY <1>2 DEF IsByte, Byte
<1> QED BY <1>1, <1>2

\* What tamga_utf8_sequence_len decides, of the bytes themselves.
Scan(a, b, c, d) ==
  LET second(lead, low, last, high) ==
        (IF a = lead THEN low ELSE 128)..(IF a = last THEN high ELSE 191)
  IN CASE a \in 0..127 -> 1
       [] a \in 194..223 /\ Continues(b) -> 2
       [] /\ a \in 224..239 /\ b \in second(224, 160, 237, 159)
          /\ Continues(c) -> 3
       [] /\ a \in 240..244 /\ b \in second(240, 144, 244, 143)
          /\ Continues(c) /\ Continues(d) -> 4
       [] OTHER -> 0

LEMMA ScanCases ==
  ASSUME NEW a \in Int, NEW b \in Int, NEW c \in Int, NEW d \in Int
  PROVE  Scan(a, b, c, d) = IF a \in 0..127 THEN 1 ELSE IF Two(a, b) THEN 2
                            ELSE IF Three(a, b, c) THEN 3
                            ELSE IF Four(a, b, c, d) THEN 4 ELSE 0
<1>1. CASE a \in 0..127
  BY <1>1, SMT DEF Scan
<1>2. CASE a \in 194..223
  BY <1>2, SMT DEF Scan, Continues, Two, Three, Four
<1>3. CASE a \in 224..239
  BY <1>3, SMT DEF Scan, Continues, Two, Three, Four
<1>4. CASE a \in 240..244
  BY <1>4, SMT DEF Scan, Continues, Two, Three, Four
<1>5. CASE a \notin (0..127) \cup (194..223) \cup (224..239) \cup (240..244)
  BY <1>5, SMT DEF Scan, Continues, Two, Three, Four
<1> QED BY <1>1, <1>2, <1>3, <1>4, <1>5

LEMMA Utf8LenScan ==
  \A s : Utf8Len(s) = Scan(Byte(s, 1), Byte(s, 2), Byte(s, 3), Byte(s, 4))
BY DEF Scan, Utf8Len

\* The reference, of the bytes themselves.
Following == 128..191
Scalar(cp, least) == cp >= least /\ cp <= 1114111 /\ cp \notin 55296..57343

LEMMA EncodesScalar ==
  \A s, n : Encodes(s, n) <=>
            /\ n <= Len(s) /\ s[1] \in Leads[n] /\ \A i \in 2..n : s[i] \in Following
            /\ Scalar(CodePoint(s, n), Least[n])
BY SMT DEF Encodes, Scalar, Following

Point2(a, b) == (a - 192) * 64 + b - 128
Point3(a, b, c) == (a - 224) * 4096 + (b - 128) * 64 + c - 128
Point4(a, b, c, d) ==
  (a - 240) * 262144 + (b - 128) * 4096 + (c - 128) * 64 + d - 128

LEMMA CodePoints ==
  \A s : /\ CodePoint(s, 1) = s[1]
        /\ CodePoint(s, 2) = Point2(s[1], s[2])
        /\ CodePoint(s, 3) = Point3(s[1], s[2], s[3])
        /\ CodePoint(s, 4) = Point4(s[1], s[2], s[3], s[4])
BY SMT DEF CodePoint, Point2, Point3, Point4

LEMMA LeadsLeast ==
  /\ Leads[1] = 0..127 /\ Least[1] = 0 /\ 2..1 = {}
  /\ Leads[2] = 192..223 /\ Least[2] = 128 /\ 2..2 = {2}
  /\ Leads[3] = 224..239 /\ Least[3] = 2048 /\ 2..3 = {2, 3}
  /\ Leads[4] = 240..247 /\ Least[4] = 65536 /\ 2..4 = {2, 3, 4}
BY SMT DEF Leads, Least

LEMMA OneRange ==
  ASSUME NEW a \in Int
  PROVE  a \in 0..127 /\ Scalar(a, 0) <=> a \in 0..127
BY SMT DEF Scalar

LEMMA TwoRange ==
  ASSUME NEW a \in Int, NEW b \in Int
  PROVE  /\ a \in 192..223 /\ b \in Following
         /\ Scalar(Point2(a, b), 128)
         <=> Two(a, b)
BY SMT DEF Scalar, Point2, Two, Following

LEMMA ThreeRange ==
  ASSUME NEW a \in Int, NEW b \in Int, NEW c \in Int
  PROVE  /\ a \in 224..239 /\ b \in Following /\ c \in Following
         /\ Scalar(Point3(a, b, c), 2048)
         <=> Three(a, b, c)
BY SMT DEF Scalar, Point3, Three, Following

LEMMA FourRange ==
  ASSUME NEW a \in Int, NEW b \in Int, NEW c \in Int, NEW d \in Int
  PROVE  /\ a \in 240..247 /\ b \in Following /\ c \in Following /\ d \in Following
         /\ Scalar(Point4(a, b, c, d), 65536)
         <=> Four(a, b, c, d)
BY SMT DEF Scalar, Point4, Four, Following

LEMMA EachOf ==
  ASSUME NEW s
  PROVE  /\ (\A i \in 2..1 : s[i] \in Following) <=> TRUE
         /\ (\A i \in 2..2 : s[i] \in Following) <=> s[2] \in Following
         /\ (\A i \in 2..3 : s[i] \in Following) <=> s[2] \in Following /\ s[3] \in Following
         /\ (\A i \in 2..4 : s[i] \in Following) <=> s[2] \in Following /\ s[3] \in Following /\ s[4] \in Following
<1>1. 2..1 = {} /\ 2..2 = {2} /\ 2..3 = {2, 3} /\ 2..4 = {2, 3, 4}
  OBVIOUS
<1> QED BY <1>1, Zenon

LEMMA EncodesCases ==
  ASSUME NEW s \in Seq(Octet), NEW a \in Int, NEW b \in Int, NEW c \in Int, NEW d \in Int,
         IsByte(s, 1, a), IsByte(s, 2, b), IsByte(s, 3, c), IsByte(s, 4, d)
  PROVE  /\ Encodes(s, 1) <=> a \in 0..127
         /\ Encodes(s, 2) <=> Two(a, b)
         /\ Encodes(s, 3) <=> Three(a, b, c)
         /\ Encodes(s, 4) <=> Four(a, b, c, d)
<1>1. Len(s) \in Nat
  BY LenProperties
<1>2. /\ 1 <= Len(s) => s[1] = a
      /\ 2 <= Len(s) => s[1] = a /\ s[2] = b
      /\ 3 <= Len(s) => s[1] = a /\ s[2] = b /\ s[3] = c
      /\ 4 <= Len(s) => s[1] = a /\ s[2] = b /\ s[3] = c /\ s[4] = d
  BY <1>1 DEF IsByte
<1>3. /\ a \in 0..127 => 1 <= Len(s)
      /\ Two(a, b) => 2 <= Len(s)
      /\ Three(a, b, c) => 3 <= Len(s)
      /\ Four(a, b, c, d) => 4 <= Len(s)
  <2>1. /\ a # -1 => 1 <= Len(s)
        /\ b # -1 => 2 <= Len(s)
        /\ c # -1 => 3 <= Len(s)
        /\ d # -1 => 4 <= Len(s)
    BY DEF IsByte
  <2>2. /\ a \in 0..127 => a # -1
        /\ Two(a, b) => b # -1
        /\ Three(a, b, c) => c # -1
        /\ Four(a, b, c, d) => d # -1
    BY SMT DEF Two, Three, Four
  <2> QED BY <2>1, <2>2, Zenon
<1>4. Encodes(s, 1) <=> a \in 0..127
  <2>1. CASE 1 <= Len(s)
    <3>1. CodePoint(s, 1) = a
      BY <1>2, <2>1, CodePoints, Zenon
    <3>2. (\A i \in 2..1 : s[i] \in Following) <=> TRUE
      BY <1>2, <2>1, EachOf, Zenon
    <3>3. Encodes(s, 1) <=>
            /\ a \in Leads[1]
            /\ Scalar(a, Least[1])
      BY <1>2, <2>1, <3>1, <3>2, EncodesScalar, Zenon
    <3> QED BY <3>3, LeadsLeast, OneRange
  <2>2. CASE ~(1 <= Len(s))
    BY <1>3, <2>2, EncodesScalar, Zenon
  <2> QED BY <2>1, <2>2
<1>5. Encodes(s, 2) <=> Two(a, b)
  <2>1. CASE 2 <= Len(s)
    <3>1. CodePoint(s, 2) = Point2(a, b)
      BY <1>2, <2>1, CodePoints, Zenon
    <3>2. (\A i \in 2..2 : s[i] \in Following) <=> b \in Following
      BY <1>2, <2>1, EachOf, Zenon
    <3>3. Encodes(s, 2) <=>
            /\ a \in Leads[2] /\ b \in Following
            /\ Scalar(Point2(a, b), Least[2])
      BY <1>2, <2>1, <3>1, <3>2, EncodesScalar, Zenon
    <3> QED BY <3>3, LeadsLeast, TwoRange
  <2>2. CASE ~(2 <= Len(s))
    BY <1>3, <2>2, EncodesScalar, Zenon
  <2> QED BY <2>1, <2>2
<1>6. Encodes(s, 3) <=> Three(a, b, c)
  <2>1. CASE 3 <= Len(s)
    <3>1. CodePoint(s, 3) = Point3(a, b, c)
      BY <1>2, <2>1, CodePoints, Zenon
    <3>2. (\A i \in 2..3 : s[i] \in Following) <=> b \in Following /\ c \in Following
      BY <1>2, <2>1, EachOf, Zenon
    <3>3. Encodes(s, 3) <=>
            /\ a \in Leads[3] /\ b \in Following /\ c \in Following
            /\ Scalar(Point3(a, b, c), Least[3])
      BY <1>2, <2>1, <3>1, <3>2, EncodesScalar, Zenon
    <3> QED BY <3>3, LeadsLeast, ThreeRange
  <2>2. CASE ~(3 <= Len(s))
    BY <1>3, <2>2, EncodesScalar, Zenon
  <2> QED BY <2>1, <2>2
<1>7. Encodes(s, 4) <=> Four(a, b, c, d)
  <2>1. CASE 4 <= Len(s)
    <3>1. CodePoint(s, 4) = Point4(a, b, c, d)
      BY <1>2, <2>1, CodePoints, Zenon
    <3>2. (\A i \in 2..4 : s[i] \in Following) <=> b \in Following /\ c \in Following /\ d \in Following
      BY <1>2, <2>1, EachOf, Zenon
    <3>3. Encodes(s, 4) <=>
            /\ a \in Leads[4] /\ b \in Following /\ c \in Following /\ d \in Following
            /\ Scalar(Point4(a, b, c, d), Least[4])
      BY <1>2, <2>1, <3>1, <3>2, EncodesScalar, Zenon
    <3> QED BY <3>3, LeadsLeast, FourRange
  <2>2. CASE ~(4 <= Len(s))
    BY <1>3, <2>2, EncodesScalar, Zenon
  <2> QED BY <2>1, <2>2
<1> QED BY <1>4, <1>5, <1>6, <1>7, Zenon

\* tamga_utf8_encode takes the bytes apart again.
LEMMA Powers == 2 ^ 0 = 1 /\ 2 ^ 6 = 64 /\ 2 ^ 12 = 4096 /\ 2 ^ 18 = 262144
BY SMT

LEMMA EncodeArms1 ==
  ASSUME NEW cp \in Nat, cp < 128
  PROVE  Utf8Encode(cp) = <<cp>>
BY SMT DEF Utf8Encode

LEMMA EncodeArms2 ==
  ASSUME NEW cp \in Nat, cp >= 128, cp < 2048
  PROVE  Utf8Encode(cp) = <<192 + cp \div 64, 128 + (cp % 64)>>
<1>1. cp \div 2 ^ 0 = cp
  BY SMT
<1> QED BY <1>1, SMT DEF Utf8Encode

LEMMA EncodeArms3 ==
  ASSUME NEW cp \in Nat, cp >= 2048, cp < 65536
  PROVE  Utf8Encode(cp) =
           <<224 + cp \div 4096, 128 + ((cp \div 64) % 64), 128 + (cp % 64)>>
<1>1. cp \div 2 ^ 0 = cp /\ cp \div 2 ^ 6 = cp \div 64
  BY SMT
<1> QED BY <1>1, SMT DEF Utf8Encode

LEMMA EncodeArms4 ==
  ASSUME NEW cp \in Nat, cp >= 65536
  PROVE  Utf8Encode(cp) =
           <<240 + cp \div 262144, 128 + ((cp \div 4096) % 64),
             128 + ((cp \div 64) % 64), 128 + (cp % 64)>>
<1>1. cp \div 2 ^ 0 = cp /\ cp \div 2 ^ 6 = cp \div 64 /\ cp \div 2 ^ 12 = cp \div 4096
      /\ cp \div 2 ^ 18 = cp \div 262144
  BY SMT
<1> QED BY <1>1, SMT DEF Utf8Encode

LEMMA EncodeTwo ==
  ASSUME NEW a \in Int, NEW b \in Int, Two(a, b)
  PROVE  Utf8Encode(Point2(a, b)) = <<a, b>>
<1>1. PICK cp \in Nat : cp = Point2(a, b) /\ cp >= 128 /\ cp < 2048
  BY SMT DEF Point2, Two
<1>2. 192 + cp \div 64 = a /\ 128 + (cp % 64) = b
  BY <1>1, SMT DEF Point2, Two
<1> QED BY <1>1, <1>2, EncodeArms2, SMT

LEMMA EncodeThree ==
  ASSUME NEW a \in Int, NEW b \in Int, NEW c \in Int, Three(a, b, c)
  PROVE  Utf8Encode(Point3(a, b, c)) = <<a, b, c>>
<1>1. PICK cp \in Nat : cp = Point3(a, b, c) /\ cp >= 2048 /\ cp < 65536
  BY SMT DEF Point3, Three
<1>2. /\ 224 + cp \div 4096 = a /\ 128 + ((cp \div 64) % 64) = b
      /\ 128 + (cp % 64) = c
  BY <1>1, SMT DEF Point3, Three
<1>3. Utf8Encode(cp) =
        <<224 + cp \div 4096, 128 + ((cp \div 64) % 64), 128 + (cp % 64)>>
  BY <1>1, EncodeArms3, SMT
<1> QED BY <1>1, <1>2, <1>3, SMT

\* ... and the two halves of a surrogate pair stand for the character.
LEMMA EncodeFour ==
  ASSUME NEW a \in Int, NEW b \in Int, NEW c \in Int, NEW d \in Int, Four(a, b, c, d)
  PROVE  LET cp == Point4(a, b, c, d)
         IN /\ Utf8Encode(cp) = <<a, b, c, d>>
            /\ Pair(55296 + (cp - 65536) \div 1024, 56320 + (cp % 1024)) = cp
<1>1. PICK cp \in Nat : cp = Point4(a, b, c, d) /\ cp >= 65536
  BY SMT DEF Point4, Four
<1>2. /\ 240 + cp \div 262144 = a /\ 128 + ((cp \div 4096) % 64) = b
      /\ 128 + ((cp \div 64) % 64) = c /\ 128 + (cp % 64) = d
  <2>1. 128 + (cp % 64) = d /\ cp \div 64 = (a - 240) * 4096 + (b - 128) * 64 + (c - 128)
    BY <1>1, SMT DEF Point4, Four
  <2>2. PICK e \in Nat : e = cp \div 64
    BY <1>1, SMT
  <2>3. 128 + (e % 64) = c /\ e \div 64 = (a - 240) * 64 + (b - 128)
    BY <2>1, <2>2, SMT DEF Four
  <2>4. cp \div 4096 = e \div 64 /\ cp \div 262144 = (e \div 64) \div 64
    BY <1>1, <2>2, SMT
  <2>5. PICK g \in Nat : g = e \div 64
    BY <2>2, SMT
  <2>6. 128 + (g % 64) = b /\ 240 + g \div 64 = a
    BY <2>3, <2>5, SMT DEF Four
  <2> QED BY <2>1, <2>2, <2>3, <2>4, <2>5, <2>6, SMT
<1>3. Utf8Encode(cp) = <<a, b, c, d>>
  <2>1. Utf8Encode(cp) =
          <<240 + cp \div 262144, 128 + ((cp \div 4096) % 64),
            128 + ((cp \div 64) % 64), 128 + (cp % 64)>>
    BY <1>1, EncodeArms4, SMT
  <2> QED BY <1>2, <2>1, SMT
<1>4. Pair(55296 + (cp - 65536) \div 1024, 56320 + (cp % 1024)) = cp
  <2>1. PICK p, q \in Int : p = (cp - 65536) \div 1024 /\ q = cp % 1024
    OBVIOUS
  <2>2. 65536 + p * 1024 + q = cp
    BY <2>1, SMT
  <2>3. Pair(55296 + p, 56320 + q) = 65536 + p * 1024 + q
    BY SMT DEF Pair
  <2> QED BY <2>1, <2>2, <2>3, SMT
<1> QED BY <1>1, <1>3, <1>4, SMT

LEMMA Prefixes ==
  ASSUME NEW s \in Seq(Octet)
  PROVE  /\ 1 <= Len(s) => SubSeq(s, 1, 1) = <<s[1]>>
         /\ 2 <= Len(s) => SubSeq(s, 1, 2) = <<s[1], s[2]>>
         /\ 3 <= Len(s) => SubSeq(s, 1, 3) = <<s[1], s[2], s[3]>>
         /\ 4 <= Len(s) => SubSeq(s, 1, 4) = <<s[1], s[2], s[3], s[4]>>
<1>0. Len(s) \in Nat
  BY LenProperties
<1>1. ASSUME NEW n \in 1..4, n <= Len(s)
      PROVE  SubSeq(s, 1, n) \in Seq(Octet) /\ Len(SubSeq(s, 1, n)) = n
             /\ \A i \in 1..n : SubSeq(s, 1, n)[i] = s[i]
  BY <1>0, <1>1, SubSeqProperties
<1>2. ASSUME NEW t \in Seq(Octet), Len(t) = 1 PROVE t = <<t[1]>>
  BY <1>2
<1>3. ASSUME NEW t \in Seq(Octet), Len(t) = 2 PROVE t = <<t[1], t[2]>>
  BY <1>3
<1>4. ASSUME NEW t \in Seq(Octet), Len(t) = 3 PROVE t = <<t[1], t[2], t[3]>>
  BY <1>4
<1>5. ASSUME NEW t \in Seq(Octet), Len(t) = 4 PROVE t = <<t[1], t[2], t[3], t[4]>>
  BY <1>5
<1>6. 1 <= Len(s) => SubSeq(s, 1, 1) = <<s[1]>>
  <2>1. ASSUME 1 <= Len(s)
        PROVE  /\ SubSeq(s, 1, 1) \in Seq(Octet) /\ Len(SubSeq(s, 1, 1)) = 1
               /\ SubSeq(s, 1, 1)[1] = s[1]
    BY <1>1, <2>1, SMT
  <2> QED BY <1>2, <2>1, Zenon
<1>7. 2 <= Len(s) => SubSeq(s, 1, 2) = <<s[1], s[2]>>
  <2>1. ASSUME 2 <= Len(s)
        PROVE  /\ SubSeq(s, 1, 2) \in Seq(Octet) /\ Len(SubSeq(s, 1, 2)) = 2
               /\ SubSeq(s, 1, 2)[1] = s[1] /\ SubSeq(s, 1, 2)[2] = s[2]
    BY <1>1, <2>1, SMT
  <2> QED BY <1>3, <2>1, Zenon
<1>8. 3 <= Len(s) => SubSeq(s, 1, 3) = <<s[1], s[2], s[3]>>
  <2>1. ASSUME 3 <= Len(s)
        PROVE  /\ SubSeq(s, 1, 3) \in Seq(Octet) /\ Len(SubSeq(s, 1, 3)) = 3
               /\ SubSeq(s, 1, 3)[1] = s[1] /\ SubSeq(s, 1, 3)[2] = s[2] /\ SubSeq(s, 1, 3)[3] = s[3]
    BY <1>1, <2>1, SMT
  <2> QED BY <1>4, <2>1, Zenon
<1>9. 4 <= Len(s) => SubSeq(s, 1, 4) = <<s[1], s[2], s[3], s[4]>>
  <2>1. ASSUME 4 <= Len(s)
        PROVE  /\ SubSeq(s, 1, 4) \in Seq(Octet) /\ Len(SubSeq(s, 1, 4)) = 4
               /\ SubSeq(s, 1, 4)[1] = s[1] /\ SubSeq(s, 1, 4)[2] = s[2] /\ SubSeq(s, 1, 4)[3] = s[3] /\ SubSeq(s, 1, 4)[4] = s[4]
    BY <1>1, <2>1, SMT
  <2> QED BY <1>5, <2>1, Zenon
<1> QED BY <1>6, <1>7, <1>8, <1>9

\* tamga_utf8_sequence_len and tamga_utf8_encode, for any bytes.
Utf8Right(s) ==
  LET n == Utf8Len(s)
  IN IF n = 0 THEN \A k \in 1..4 : ~Encodes(s, k)
     ELSE LET cp == CodePoint(s, n)
          IN /\ Encodes(s, n) /\ Utf8Encode(cp) = SubSeq(s, 1, n)
             /\ n = 4 => Pair(55296 + (cp - 65536) \div 1024, 56320 + (cp % 1024)) = cp

PairBack(cp) == Pair(55296 + (cp - 65536) \div 1024, 56320 + (cp % 1024)) = cp

LEMMA Utf8RightAt ==
  ASSUME NEW s, NEW n \in 1..4, Utf8Len(s) = n, Encodes(s, n),
         Utf8Encode(CodePoint(s, n)) = SubSeq(s, 1, n), n = 4 => PairBack(CodePoint(s, n))
  PROVE  Utf8Right(s)
BY SMT DEF Utf8Right, PairBack

LEMMA Utf8IsRight == ASSUME NEW s \in Seq(Octet) PROVE Utf8Right(s)
<1>1. PICK a, b, c, d \in Int :
        IsByte(s, 1, a) /\ IsByte(s, 2, b) /\ IsByte(s, 3, c) /\ IsByte(s, 4, d)
  BY ByteFacts
<1>2. /\ Encodes(s, 1) <=> a \in 0..127
      /\ Encodes(s, 2) <=> Two(a, b)
      /\ Encodes(s, 3) <=> Three(a, b, c)
      /\ Encodes(s, 4) <=> Four(a, b, c, d)
  BY <1>1, EncodesCases, Zenon
<1>3. Utf8Len(s) = IF a \in 0..127 THEN 1 ELSE IF Two(a, b) THEN 2
                   ELSE IF Three(a, b, c) THEN 3 ELSE IF Four(a, b, c, d) THEN 4 ELSE 0
  <2>1. a = Byte(s, 1) /\ b = Byte(s, 2) /\ c = Byte(s, 3) /\ d = Byte(s, 4)
    BY <1>1, Zenon DEF IsByte
  <2>2. Utf8Len(s) = Scan(a, b, c, d)
    BY <2>1, Utf8LenScan, Zenon
  <2> QED BY <2>2, ScanCases
<1>4. /\ 1 <= Len(s) => s[1] = a
      /\ 2 <= Len(s) => s[1] = a /\ s[2] = b
      /\ 3 <= Len(s) => s[1] = a /\ s[2] = b /\ s[3] = c
      /\ 4 <= Len(s) => s[1] = a /\ s[2] = b /\ s[3] = c /\ s[4] = d
  <2>1. Len(s) \in Nat
    BY LenProperties
  <2> QED BY <1>1, <2>1 DEF IsByte
<1>5. CASE Utf8Len(s) = 0
  <2>1. ~Encodes(s, 1) /\ ~Encodes(s, 2) /\ ~Encodes(s, 3) /\ ~Encodes(s, 4)
    BY <1>2, <1>3, <1>5, SMT
  <2>2. \A k \in 1..4 : k = 1 \/ k = 2 \/ k = 3 \/ k = 4
    OBVIOUS
  <2>3. \A k \in 1..4 : ~Encodes(s, k)
    BY <2>1, <2>2, Zenon
  <2> QED BY <1>5, <2>3, SMT DEF Utf8Right
<1>6. \A n : Encodes(s, n) => n <= Len(s)
  BY EncodesScalar, Zenon
<1>7. CASE a \in 0..127
  <2>1. Utf8Len(s) = 1 /\ Encodes(s, 1) /\ CodePoint(s, 1) = a /\ SubSeq(s, 1, 1) = <<a>>
    BY <1>2, <1>3, <1>4, <1>6, <1>7, CodePoints, Prefixes, Zenon
  <2>2. Utf8Encode(a) = <<a>>
    BY <1>7, EncodeArms1, SMT
  <2>3. Utf8Encode(CodePoint(s, 1)) = SubSeq(s, 1, 1)
    BY <2>1, <2>2, Zenon
  <2>4. 1 \in 1..4 /\ ~(1 = 4)
    OBVIOUS
  <2> QED BY <2>1, <2>3, <2>4, Utf8RightAt, Zenon
<1>8. CASE a \notin 0..127 /\ Two(a, b)
  <2>1. /\ Utf8Len(s) = 2 /\ Encodes(s, 2) /\ CodePoint(s, 2) = Point2(a, b)
        /\ SubSeq(s, 1, 2) = <<a, b>>
    BY <1>2, <1>3, <1>4, <1>6, <1>8, CodePoints, Prefixes, Zenon
  <2>2. Utf8Encode(Point2(a, b)) = <<a, b>>
    BY <1>8, EncodeTwo
  <2>3. Utf8Encode(CodePoint(s, 2)) = SubSeq(s, 1, 2)
    BY <2>1, <2>2, Zenon
  <2>4. 2 \in 1..4 /\ ~(2 = 4)
    OBVIOUS
  <2> QED BY <2>1, <2>3, <2>4, Utf8RightAt, Zenon
<1>9. CASE a \notin 0..127 /\ ~Two(a, b) /\ Three(a, b, c)
  <2>1. /\ Utf8Len(s) = 3 /\ Encodes(s, 3) /\ CodePoint(s, 3) = Point3(a, b, c)
        /\ SubSeq(s, 1, 3) = <<a, b, c>>
    BY <1>2, <1>3, <1>4, <1>6, <1>9, CodePoints, Prefixes, Zenon
  <2>2. Utf8Encode(Point3(a, b, c)) = <<a, b, c>>
    BY <1>9, EncodeThree
  <2>3. Utf8Encode(CodePoint(s, 3)) = SubSeq(s, 1, 3)
    BY <2>1, <2>2, Zenon
  <2>4. 3 \in 1..4 /\ ~(3 = 4)
    OBVIOUS
  <2> QED BY <2>1, <2>3, <2>4, Utf8RightAt, Zenon
<1>10. CASE a \notin 0..127 /\ ~Two(a, b) /\ ~Three(a, b, c) /\ Four(a, b, c, d)
  <2>1. /\ Utf8Len(s) = 4 /\ Encodes(s, 4) /\ CodePoint(s, 4) = Point4(a, b, c, d)
        /\ SubSeq(s, 1, 4) = <<a, b, c, d>>
    BY <1>2, <1>3, <1>4, <1>6, <1>10, CodePoints, Prefixes, Zenon
  <2>2. PICK cp : cp = Point4(a, b, c, d)
    OBVIOUS
  <2>3. /\ Utf8Encode(cp) = <<a, b, c, d>>
        /\ PairBack(cp)
    BY <1>10, <2>2, EncodeFour, SMT DEF PairBack
  <2>4. Utf8Encode(CodePoint(s, 4)) = SubSeq(s, 1, 4) /\ PairBack(CodePoint(s, 4))
    BY <2>1, <2>2, <2>3, Zenon
  <2>5. 4 \in 1..4
    OBVIOUS
  <2> QED BY <2>1, <2>4, <2>5, Utf8RightAt, Zenon
<1> QED BY <1>3, <1>5, <1>7, <1>8, <1>9, <1>10, SMT

-----------------------------------------------------------------------------
(* Numbers.                                                                  *)

\* Where the run of members of D that starts at i ends.
RunsOf(f, n, D) == f = [i \in 1..n + 1 |-> IF i \in D THEN f[i + 1] ELSE i]

EndsAt(n, D, i, e) == e \in i..n + 1 /\ e \notin D /\ \A k \in i..e - 1 : k \in D

LEMMA RunsExist ==
  ASSUME NEW n \in Nat, NEW D \in SUBSET (1..n)
  PROVE  \E f : RunsOf(f, n, D)
<1> DEFINE f == [i \in 1..n + 1 |-> CHOOSE e \in Nat : EndsAt(n, D, i, e)]
<1>1. ASSUME NEW i \in 1..n + 1 PROVE \E e \in Nat : EndsAt(n, D, i, e)
  <2> DEFINE T == {k \in i..n + 1 : k \notin D}
  <2>1. T \in SUBSET Nat /\ n + 1 \in T
    BY <1>1
  <2>2. PICK e \in T : \A y \in T : e <= y
    BY <2>1, LeastExists
  <2>3. EndsAt(n, D, i, e)
    BY <2>2 DEF EndsAt
  <2> QED BY <2>1, <2>2, <2>3, Zenon
<1>2. ASSUME NEW i \in 1..n + 1, NEW e \in Nat, NEW g \in Nat,
             EndsAt(n, D, i, e), EndsAt(n, D, i, g)
      PROVE  e = g
  BY <1>2, SMT DEF EndsAt
<1>3. ASSUME NEW i \in 1..n + 1 PROVE f[i] \in Nat /\ EndsAt(n, D, i, f[i])
  BY <1>1, Zenon
<1> HIDE DEF f
<1>4. ASSUME NEW i \in 1..n + 1 PROVE f[i] = IF i \in D THEN f[i + 1] ELSE i
  <2>1. CASE i \in D
    <3>1. i + 1 \in 1..n + 1 /\ i \in Nat
      BY <2>1
    <3>2. PICK e \in Nat : e = f[i + 1] /\ EndsAt(n, D, i + 1, e)
      BY <1>3, <3>1, Zenon
    <3>3. EndsAt(n, D, i, e)
      BY <2>1, <3>1, <3>2, SMT DEF EndsAt
    <3>4. f[i] = e
      BY <1>2, <1>3, <3>2, <3>3, Zenon
    <3> QED BY <2>1, <3>2, <3>4, Zenon
  <2>2. CASE i \notin D
    <3>1. EndsAt(n, D, i, i) /\ i \in Nat
      BY <2>2 DEF EndsAt
    <3>2. f[i] = i
      BY <1>2, <1>3, <3>1, Zenon
    <3> QED BY <2>2, <3>2, Zenon
  <2> QED BY <2>1, <2>2, Zenon
<1>5. f = [i \in 1..n + 1 |-> f[i]]
  BY DEF f
<1>6. f = [i \in 1..n + 1 |-> IF i \in D THEN f[i + 1] ELSE i]
  BY <1>4, <1>5, Zenon
<1> QED BY <1>6, Zenon DEF RunsOf

LEMMA RunEnds ==
  ASSUME NEW n \in Nat, NEW D \in SUBSET (1..n), NEW f, RunsOf(f, n, D), NEW i \in 1..n + 1
  PROVE  f[i] \in Nat /\ EndsAt(n, D, i, f[i])
<1> DEFINE T == {m \in 0..n : f[n + 1 - m] \in Nat /\ EndsAt(n, D, n + 1 - m, f[n + 1 - m])}
<1>1. \A k \in 1..n + 1 : f[k] = IF k \in D THEN f[k + 1] ELSE k
  BY Zenon DEF RunsOf
<1>2. ASSUME NEW k \in 1..n + 1, k \notin D PROVE f[k] \in Nat /\ EndsAt(n, D, k, f[k])
  <2>1. f[k] = k /\ k \in Nat
    BY <1>1, <1>2
  <2>2. EndsAt(n, D, k, k)
    BY <1>2, SMT DEF EndsAt
  <2> QED BY <2>1, <2>2, Zenon
<1>3. ASSUME NEW k \in 1..n + 1, k \in D, f[k + 1] \in Nat, EndsAt(n, D, k + 1, f[k + 1])
      PROVE  f[k] \in Nat /\ EndsAt(n, D, k, f[k])
  <2>1. PICK e \in Nat : e = f[k + 1]
    BY <1>3
  <2>2. EndsAt(n, D, k + 1, e)
    BY <1>3, <2>1, Zenon
  <2>3. EndsAt(n, D, k, e)
    BY <1>3, <2>2, SMT DEF EndsAt
  <2>4. f[k] = e
    BY <1>1, <1>3, <2>1, Zenon
  <2> QED BY <2>3, <2>4, Zenon
<1>4. 0 \in T
  <2>1. n + 1 - 0 = n + 1 /\ n + 1 \in 1..n + 1 /\ n + 1 \notin D /\ 0 \in 0..n
    OBVIOUS
  <2> QED BY <1>2, <2>1, Zenon
<1>5. ASSUME NEW m \in 1..n, m - 1 \in T PROVE m \in T
  <2>1. PICK k \in 1..n + 1 : k = n + 1 - m
    OBVIOUS
  <2>2. n + 1 - (m - 1) = k + 1 /\ m \in 0..n
    BY <2>1
  <2>3. f[k + 1] \in Nat /\ EndsAt(n, D, k + 1, f[k + 1])
    BY <1>5, <2>2, Zenon
  <2>4. f[k] \in Nat /\ EndsAt(n, D, k, f[k])
    BY <1>2, <1>3, <2>3, Zenon
  <2> QED BY <2>1, <2>2, <2>4, Zenon
<1>6. 0..n \subseteq T
  <2> HIDE DEF T
  <2> QED BY <1>4, <1>5, IntervalInduction
<1>7. PICK m \in 0..n : i = n + 1 - m
  <2>1. n + 1 - i \in 0..n /\ i = n + 1 - (n + 1 - i)
    OBVIOUS
  <2> QED BY <2>1
<1> QED BY <1>6, <1>7, Zenon

\* The positions at which a text has one of the characters C.
PosOf(s, C) == {i \in 1..Len(s) : s[i] \in C}

Zeros(s) == PosOf(s, {"0"})
Ones(s) == PosOf(s, {"d"})
DigitsOf(s) == PosOf(s, {"0", "d"})
Points(s) == PosOf(s, {"."})
Exps(s) == PosOf(s, {"e"})
Minuses(s) == PosOf(s, {"-"})
Signs(s) == PosOf(s, {"+", "-"})

\* Classes of positions: what is needed of a text.
Classes(n, Z, O, D, P, E, M, G) ==
  /\ D \in SUBSET (1..n) /\ P \in SUBSET (1..n) /\ E \in SUBSET (1..n)
  /\ G \in SUBSET (1..n) /\ M \in SUBSET G
  /\ \A i \in 1..n : i \in D <=> i \in Z \/ i \in O
  /\ Z \in SUBSET D /\ O \in SUBSET D
  /\ \A i \in 1..n : ~(i \in Z /\ i \in O)
  /\ \A i \in 1..n : /\ i \in D => i \notin P /\ i \notin E /\ i \notin G
                     /\ i \in P => i \notin E /\ i \notin G
                     /\ i \in E => i \notin G

LEMMA TextClasses ==
  ASSUME NEW s
  PROVE  Classes(Len(s), Zeros(s), Ones(s), DigitsOf(s), Points(s), Exps(s), Minuses(s),
                 Signs(s))
BY Zenon DEF Classes, PosOf, Zeros, Ones, DigitsOf, Points, Exps, Minuses, Signs

\* tamga_json_parse_number, of the classes.
Begin(M) == IF 1 \in M THEN 2 ELSE 1
Int1(f, Z, O, x) == IF x \in Z THEN x + 1 ELSE IF x \in O THEN f[x] ELSE 0
Frac1(f, D, P, x) == IF x \notin P THEN x ELSE IF x + 1 \in D THEN f[x + 1] ELSE 0
Signed1(G, x) == IF x + 1 \in G THEN x + 2 ELSE x + 1
Exp1(f, D, E, G, x) ==
  IF x \notin E THEN x ELSE IF Signed1(G, x) \in D THEN f[Signed1(G, x)] ELSE 0
ScanOf(f, Z, O, D, P, E, M, G) ==
  LET int == Int1(f, Z, O, Begin(M))
      frac == Frac1(f, D, P, int)
      exp == Exp1(f, D, E, G, frac)
  IN IF int = 0 THEN 0 ELSE IF frac = 0 THEN 0
     ELSE IF exp - 1 > MaxNumberChars THEN 0 ELSE exp

\* The grammar, of the classes: from x to y.
WholeAt(Z, O, D, x, y) == \/ x = y /\ x \in Z
                          \/ x \in O /\ x <= y /\ \A k \in x..y : k \in D
DigitsAt(D, x, y) == x <= y /\ \A k \in x..y : k \in D
FracAt(D, P, x, y) == y = x - 1 \/ (x <= y /\ x \in P /\ DigitsAt(D, x + 1, y))
ExpAt(D, E, G, x, y) ==
  \/ y = x - 1
  \/ x <= y /\ x \in E /\ DigitsAt(D, x + 1, y)
  \/ x < y /\ x \in E /\ x + 1 \in G /\ DigitsAt(D, x + 2, y)
NumberAt(n, Z, O, D, P, E, M, G) ==
  \E i \in Begin(M) - 1..n : \E j \in i..n :
    /\ WholeAt(Z, O, D, Begin(M), i) /\ FracAt(D, P, i + 1, j) /\ ExpAt(D, E, G, j + 1, n)

LEMMA OneEnd ==
  ASSUME NEW n \in Nat, NEW D \in SUBSET (1..n), NEW f, RunsOf(f, n, D),
         NEW x \in 1..n + 1, NEW e \in Nat
  PROVE  f[x] = e <=> EndsAt(n, D, x, e)
<1>1. PICK g \in Nat : g = f[x] /\ EndsAt(n, D, x, g)
  BY RunEnds, Zenon
<1>2. EndsAt(n, D, x, e) => e = g
  BY <1>1, SMT DEF EndsAt
<1> QED BY <1>1, <1>2, Zenon

\* Where a whole number can end and not go on, the scanner ends it, ...
LEMMA WholeScan ==
  ASSUME NEW n \in Nat, NEW Z, NEW O, NEW D, NEW P, NEW E, NEW M, NEW G,
         Classes(n, Z, O, D, P, E, M, G), NEW f, RunsOf(f, n, D),
         NEW x \in 1..n + 1, NEW i \in x - 1..n
  PROVE  /\ WholeAt(Z, O, D, x, i) /\ i + 1 \notin D => Int1(f, Z, O, x) = i + 1 /\ i >= x
         /\ Int1(f, Z, O, x) = i + 1 => WholeAt(Z, O, D, x, i)
<1>1. /\ D \in SUBSET (1..n) /\ Z \in SUBSET D /\ O \in SUBSET D
      /\ \A k \in 1..n : ~(k \in Z /\ k \in O)
  BY DEF Classes
<1>2. f[x] = i + 1 <=> EndsAt(n, D, x, i + 1)
  <2>1. PICK e \in Nat : e = i + 1
    OBVIOUS
  <2>2. f[x] = e <=> EndsAt(n, D, x, e)
    BY <1>1, OneEnd
  <2> QED BY <2>1, <2>2, Zenon
<1>3. CASE x \in Z
  <2>1. Int1(f, Z, O, x) = x + 1 /\ x \notin O /\ x \in 1..n
    BY <1>1, <1>3 DEF Int1
  <2> QED BY <1>3, <2>1, SMT DEF WholeAt
<1>4. CASE x \notin Z /\ x \in O
  <2>1. Int1(f, Z, O, x) = f[x]
    BY <1>4, Zenon DEF Int1
  <2>2. WholeAt(Z, O, D, x, i) <=> x <= i /\ \A k \in x..i : k \in D
    BY <1>4, Zenon DEF WholeAt
  <2>3. EndsAt(n, D, x, i + 1) <=> i + 1 \notin D /\ \A k \in x..i : k \in D
    BY SMT DEF EndsAt
  <2>4. EndsAt(n, D, x, i + 1) => x <= i
    BY <1>1, <1>4, SMT DEF EndsAt
  <2> QED BY <1>2, <2>1, <2>2, <2>3, <2>4, SMT
<1>5. CASE x \notin Z /\ x \notin O
  <2>1. Int1(f, Z, O, x) = 0
    BY <1>5, Zenon DEF Int1
  <2>2. ~WholeAt(Z, O, D, x, i)
    BY <1>5, Zenon DEF WholeAt
  <2>3. i + 1 # 0
    OBVIOUS
  <2> QED BY <2>1, <2>2, <2>3, Zenon
<1> QED BY <1>3, <1>4, <1>5, Zenon

\* ... and so with the fraction ...
LEMMA FracScan ==
  ASSUME NEW n \in Nat, NEW Z, NEW O, NEW D, NEW P, NEW E, NEW M, NEW G,
         Classes(n, Z, O, D, P, E, M, G), NEW f, RunsOf(f, n, D),
         NEW i \in 0..n, NEW j \in i..n
  PROVE  /\ FracAt(D, P, i + 1, j) /\ j + 1 \notin D /\ j + 1 \notin P
              => Frac1(f, D, P, i + 1) = j + 1 /\ i + 1 \notin D
         /\ Frac1(f, D, P, i + 1) = j + 1 => FracAt(D, P, i + 1, j)
<1>1. /\ D \in SUBSET (1..n) /\ P \in SUBSET (1..n)
      /\ \A k \in 1..n : k \in D => k \notin P
  BY DEF Classes
<1>2. CASE i + 1 \notin P
  <2>1. Frac1(f, D, P, i + 1) = i + 1
    BY <1>2, Zenon DEF Frac1
  <2>2. FracAt(D, P, i + 1, j) <=> j = i
    BY <1>2, SMT DEF FracAt
  <2> QED BY <2>1, <2>2, SMT
<1>3. CASE i + 1 \in P
  <2>1. i + 1 \in 1..n /\ i + 1 \notin D /\ i + 1 + 1 = i + 2 /\ i + 2 \in 1..n + 1
    BY <1>1, <1>3
  <2>2. f[i + 2] = j + 1 <=> EndsAt(n, D, i + 2, j + 1)
    <3>1. PICK e \in Nat : e = j + 1
      OBVIOUS
    <3>2. PICK x \in 1..n + 1 : x = i + 2
      BY <2>1
    <3>3. f[x] = e <=> EndsAt(n, D, x, e)
      BY <1>1, OneEnd, ZenonT(40)
    <3> QED BY <3>1, <3>2, <3>3, Zenon
  <2>3. FracAt(D, P, i + 1, j) <=> j = i \/ (i + 2 <= j /\ \A k \in i + 2..j : k \in D)
    BY <1>3, <2>1, SMT DEF FracAt, DigitsAt
  <2>4. EndsAt(n, D, i + 2, j + 1) <=> i + 1 <= j /\ j + 1 \notin D /\ \A k \in i + 2..j : k \in D
    BY SMT DEF EndsAt
  <2>5. CASE i + 2 \in D
    <3>1. Frac1(f, D, P, i + 1) = f[i + 2]
      BY <1>3, <2>1, <2>5, Zenon DEF Frac1
    <3>2. j = i + 1 => j + 1 \in D
      BY <2>5
    <3> QED BY <1>3, <2>1, <2>2, <2>3, <2>4, <3>1, <3>2, SMT
  <2>6. CASE i + 2 \notin D
    <3>1. Frac1(f, D, P, i + 1) = 0
      BY <1>3, <2>1, <2>6, Zenon DEF Frac1
    <3>2. i + 2 <= j => i + 2 \in i + 2..j
      OBVIOUS
    <3> QED BY <1>3, <2>3, <2>6, <3>1, <3>2, SMT
  <2> QED BY <2>5, <2>6, Zenon
<1> QED BY <1>2, <1>3, Zenon

\* ... and the exponent.
LEMMA ExpScan ==
  ASSUME NEW n \in Nat, NEW Z, NEW O, NEW D, NEW P, NEW E, NEW M, NEW G,
         Classes(n, Z, O, D, P, E, M, G), NEW f, RunsOf(f, n, D), NEW j \in 0..n
  PROVE  /\ ExpAt(D, E, G, j + 1, n) <=> Exp1(f, D, E, G, j + 1) = n + 1
         /\ ExpAt(D, E, G, j + 1, n) => j + 1 \notin D /\ j + 1 \notin P
<1>1. /\ D \in SUBSET (1..n) /\ P \in SUBSET (1..n) /\ E \in SUBSET (1..n)
      /\ G \in SUBSET (1..n)
      /\ \A k \in 1..n : /\ k \in D => k \notin P /\ k \notin E /\ k \notin G
                         /\ k \in P => k \notin E
  BY DEF Classes
<1>2. ASSUME NEW x \in 1..n + 1, x \in D PROVE f[x] = n + 1 <=> \A k \in x..n : k \in D
  <2>1. n + 1 \in Nat /\ n + 1 \notin D
    BY <1>1
  <2>2. f[x] = n + 1 <=> EndsAt(n, D, x, n + 1)
    BY <1>1, <2>1, OneEnd
  <2> QED BY <2>1, <2>2, SMT DEF EndsAt
<1>3. CASE j + 1 \notin E
  <2>1. Exp1(f, D, E, G, j + 1) = j + 1
    BY <1>3, Zenon DEF Exp1
  <2>2. ExpAt(D, E, G, j + 1, n) <=> n = j
    BY <1>3, SMT DEF ExpAt
  <2>3. n = j => j + 1 \notin D /\ j + 1 \notin P
    BY <1>1
  <2> QED BY <2>1, <2>2, <2>3, SMT
<1>4. CASE j + 1 \in E
  <2>1. j + 1 \in 1..n /\ j + 1 \notin D /\ j + 1 \notin P
    BY <1>1, <1>4
  <2>2. ExpAt(D, E, G, j + 1, n) <=> \/ DigitsAt(D, j + 2, n)
                                     \/ j + 1 < n /\ j + 2 \in G /\ DigitsAt(D, j + 3, n)
    BY <1>4, <2>1, SMT DEF ExpAt
  <2>3. CASE j + 2 \in G
    <3>1. Signed1(G, j + 1) = j + 3 /\ j + 2 \in 1..n /\ j + 2 \notin D
      BY <1>1, <2>3, SMT DEF Signed1
    <3>2. ~DigitsAt(D, j + 2, n)
      BY <3>1, SMT DEF DigitsAt
    <3>3. Exp1(f, D, E, G, j + 1) = IF j + 3 \in D THEN f[j + 3] ELSE 0
      BY <1>4, <3>1, Zenon DEF Exp1
    <3>4. CASE j + 3 \in D
      <4>1. j + 3 \in 1..n
        BY <1>1, <3>4
      <4>2. f[j + 3] = n + 1 <=> DigitsAt(D, j + 3, n)
        BY <1>2, <3>4, <4>1, SMT DEF DigitsAt
      <4> QED BY <2>1, <2>2, <2>3, <3>1, <3>2, <3>3, <3>4, <4>2, SMT
    <3>5. CASE j + 3 \notin D
      <4>1. ~DigitsAt(D, j + 3, n)
        BY <3>5, SMT DEF DigitsAt
      <4> QED BY <2>1, <2>2, <3>2, <3>3, <3>5, <4>1, SMT
    <3> QED BY <3>4, <3>5, Zenon
  <2>4. CASE j + 2 \notin G
    <3>1. Signed1(G, j + 1) = j + 2
      BY <2>4, SMT DEF Signed1
    <3>2. Exp1(f, D, E, G, j + 1) = IF j + 2 \in D THEN f[j + 2] ELSE 0
      BY <1>4, <3>1, Zenon DEF Exp1
    <3>3. CASE j + 2 \in D
      <4>1. j + 2 \in 1..n
        BY <1>1, <3>3
      <4>2. f[j + 2] = n + 1 <=> DigitsAt(D, j + 2, n)
        BY <1>2, <3>3, <4>1, SMT DEF DigitsAt
      <4> QED BY <2>1, <2>2, <2>4, <3>2, <3>3, <4>2, SMT
    <3>4. CASE j + 2 \notin D
      <4>1. ~DigitsAt(D, j + 2, n)
        BY <3>4, SMT DEF DigitsAt
      <4> QED BY <2>1, <2>2, <2>4, <3>2, <3>4, <4>1, SMT
    <3> QED BY <3>3, <3>4, Zenon
  <2> QED BY <2>3, <2>4, Zenon
<1> QED BY <1>3, <1>4, Zenon

\* The scanner stays in the text.
Ranges(n, Z, O, D, P, M, f) ==
  /\ Begin(M) \in 1..n + 1
  /\ \A x \in 1..n + 1 : Int1(f, Z, O, x) # 0 =>
       \E i \in x - 1..n : Int1(f, Z, O, x) = i + 1
  /\ \A i \in 0..n : Frac1(f, D, P, i + 1) # 0 =>
       \E j \in i..n : Frac1(f, D, P, i + 1) = j + 1

LEMMA ScanRange ==
  ASSUME NEW n \in Nat, NEW Z, NEW O, NEW D, NEW P, NEW E, NEW M, NEW G,
         Classes(n, Z, O, D, P, E, M, G), NEW f, RunsOf(f, n, D)
  PROVE  Ranges(n, Z, O, D, P, M, f)
<1>1. /\ D \in SUBSET (1..n) /\ P \in SUBSET (1..n) /\ Z \in SUBSET D /\ O \in SUBSET D
      /\ G \in SUBSET (1..n) /\ M \in SUBSET G
  BY DEF Classes
<1>2. Begin(M) \in 1..n + 1
  BY <1>1 DEF Begin
<1>3. ASSUME NEW x \in 1..n + 1, x \in D PROVE \E i \in x - 1..n : f[x] = i + 1
  <2>1. PICK e \in Nat : e = f[x] /\ EndsAt(n, D, x, e)
    BY <1>1, <1>3, RunEnds
  <2>2. e - 1 \in x - 1..n /\ e = (e - 1) + 1
    BY <2>1, SMT DEF EndsAt
  <2> QED BY <2>1, <2>2, Zenon
<1>4. ASSUME NEW x \in 1..n + 1, Int1(f, Z, O, x) # 0
      PROVE  \E i \in x - 1..n : Int1(f, Z, O, x) = i + 1
  <2>1. CASE x \in Z
    <3>1. x \in x - 1..n
      BY <1>1, <2>1
    <3>2. Int1(f, Z, O, x) = x + 1
      BY <2>1, Zenon DEF Int1
    <3> QED BY <3>1, <3>2, Zenon
  <2>2. CASE x \notin Z
    <3>1. x \in O /\ Int1(f, Z, O, x) = f[x]
      BY <1>4, <2>2, Zenon DEF Int1
    <3>2. x \in D
      BY <1>1, <3>1
    <3> QED BY <1>3, <3>1, <3>2, Zenon
  <2> QED BY <2>1, <2>2, Zenon
<1>5. ASSUME NEW i \in 0..n, Frac1(f, D, P, i + 1) # 0
      PROVE  \E j \in i..n : Frac1(f, D, P, i + 1) = j + 1
  <2>1. CASE i + 1 \notin P
    <3>1. Frac1(f, D, P, i + 1) = i + 1
      BY <2>1, Zenon DEF Frac1
    <3>2. i \in i..n
      OBVIOUS
    <3> QED BY <3>1, <3>2, Zenon
  <2>2. CASE i + 1 \in P
    <3>1. PICK x : x = i + 1 + 1
      OBVIOUS
    <3>2. x \in D /\ Frac1(f, D, P, i + 1) = f[x]
      BY <1>5, <2>2, <3>1, Zenon DEF Frac1
    <3>3. x \in 1..n + 1
      BY <1>1, <3>2
    <3>4. PICK j \in x - 1..n : f[x] = j + 1
      BY <1>3, <3>2, <3>3, Zenon
    <3>5. j \in i..n
      BY <3>1, <3>4
    <3> QED BY <3>2, <3>4, <3>5, Zenon
  <2> QED BY <2>1, <2>2, Zenon
<1> QED BY <1>2, <1>4, <1>5, Zenon DEF Ranges

LEMMA ClassesScan ==
  ASSUME NEW n \in Nat, NEW Z, NEW O, NEW D, NEW P, NEW E, NEW M, NEW G,
         Classes(n, Z, O, D, P, E, M, G), NEW f, RunsOf(f, n, D)
  PROVE  ScanOf(f, Z, O, D, P, E, M, G) = n + 1
           <=> NumberAt(n, Z, O, D, P, E, M, G) /\ n <= MaxNumberChars
<1> DEFINE S == ScanOf(f, Z, O, D, P, E, M, G)
           N == NumberAt(n, Z, O, D, P, E, M, G)
<1>0. Ranges(n, Z, O, D, P, M, f)
  BY ScanRange, Zenon
<1>1. PICK x \in 1..n + 1 : x = Begin(M)
  BY <1>0, Zenon DEF Ranges
<1>2. PICK int, frac, exp : /\ int = Int1(f, Z, O, x)
                            /\ frac = Frac1(f, D, P, int)
                            /\ exp = Exp1(f, D, E, G, frac)
  OBVIOUS
<1>3. S = IF int = 0 THEN 0 ELSE IF frac = 0 THEN 0
          ELSE IF exp - 1 > MaxNumberChars THEN 0 ELSE exp
  BY <1>1, <1>2, Zenon DEF ScanOf
<1>4. MaxNumberChars \in Nat
  BY LexicalAssumption
<1>5. /\ \A y \in 1..n + 1 : Int1(f, Z, O, y) # 0 =>
           \E i \in y - 1..n : Int1(f, Z, O, y) = i + 1
      /\ \A i \in 0..n : Frac1(f, D, P, i + 1) # 0 =>
           \E j \in i..n : Frac1(f, D, P, i + 1) = j + 1
  BY <1>0, Zenon DEF Ranges
<1>6. \A i \in x - 1..n :
        /\ WholeAt(Z, O, D, x, i) /\ i + 1 \notin D => Int1(f, Z, O, x) = i + 1 /\ i >= x
        /\ Int1(f, Z, O, x) = i + 1 => WholeAt(Z, O, D, x, i)
  BY WholeScan, Zenon
<1>7. \A i \in 0..n : \A j \in i..n :
        /\ FracAt(D, P, i + 1, j) /\ j + 1 \notin D /\ j + 1 \notin P
             => Frac1(f, D, P, i + 1) = j + 1 /\ i + 1 \notin D
        /\ Frac1(f, D, P, i + 1) = j + 1 => FracAt(D, P, i + 1, j)
  <2> SUFFICES ASSUME NEW i \in 0..n, NEW j \in i..n
               PROVE  /\ FracAt(D, P, i + 1, j) /\ j + 1 \notin D /\ j + 1 \notin P
                           => Frac1(f, D, P, i + 1) = j + 1 /\ i + 1 \notin D
                      /\ Frac1(f, D, P, i + 1) = j + 1 => FracAt(D, P, i + 1, j)
    BY Zenon
  <2> QED BY FracScan
<1>8. \A j \in 0..n :
        /\ ExpAt(D, E, G, j + 1, n) <=> Exp1(f, D, E, G, j + 1) = n + 1
        /\ ExpAt(D, E, G, j + 1, n) => j + 1 \notin D /\ j + 1 \notin P
  BY ExpScan, Zenon
<1>9. ASSUME S = n + 1 PROVE N /\ n <= MaxNumberChars
  <2>1. int # 0 /\ frac # 0 /\ exp = n + 1 /\ n <= MaxNumberChars
    <3>1. n + 1 # 0
      OBVIOUS
    <3>2. int # 0 /\ frac # 0 /\ ~(exp - 1 > MaxNumberChars) /\ exp = n + 1
      BY <1>3, <1>9, <3>1, Zenon
    <3> QED BY <1>4, <3>2
  <2>2. PICK i \in x - 1..n : int = i + 1
    BY <1>2, <1>5, <2>1, Zenon
  <2>3. i \in 0..n
    BY <2>2
  <2>4. PICK j \in i..n : frac = j + 1
    <3>1. frac = Frac1(f, D, P, i + 1)
      BY <1>2, <2>2, Zenon
    <3> QED BY <1>5, <2>1, <2>3, <3>1, Zenon
  <2>5. j \in 0..n
    BY <2>3
  <2>6. WholeAt(Z, O, D, x, i)
    BY <1>2, <1>6, <2>2, Zenon
  <2>7. FracAt(D, P, i + 1, j)
    <3>1. Frac1(f, D, P, i + 1) = j + 1
      BY <1>2, <2>2, <2>4, Zenon
    <3> QED BY <1>7, <2>3, <3>1, Zenon
  <2>8. ExpAt(D, E, G, j + 1, n)
    <3>1. Exp1(f, D, E, G, j + 1) = n + 1
      BY <1>2, <2>1, <2>4, Zenon
    <3> QED BY <1>8, <2>5, <3>1, Zenon
  <2> QED BY <1>1, <2>1, <2>2, <2>4, <2>6, <2>7, <2>8, Zenon DEF NumberAt
<1>10. ASSUME N, n <= MaxNumberChars PROVE S = n + 1
  <2>1. PICK i \in x - 1..n : \E j \in i..n :
          /\ WholeAt(Z, O, D, x, i) /\ FracAt(D, P, i + 1, j) /\ ExpAt(D, E, G, j + 1, n)
    BY <1>1, <1>10, Zenon DEF NumberAt
  <2>2. PICK j \in i..n :
          /\ WholeAt(Z, O, D, x, i) /\ FracAt(D, P, i + 1, j) /\ ExpAt(D, E, G, j + 1, n)
    BY <2>1, Zenon
  <2>3. i \in 0..n
    OBVIOUS
  <2>4. j \in 0..n
    BY <2>3
  <2>5. Exp1(f, D, E, G, j + 1) = n + 1 /\ j + 1 \notin D /\ j + 1 \notin P
    BY <1>8, <2>2, <2>4, Zenon
  <2>6. Frac1(f, D, P, i + 1) = j + 1 /\ i + 1 \notin D
    BY <1>7, <2>2, <2>3, <2>5, Zenon
  <2>7. Int1(f, Z, O, x) = i + 1
    BY <1>6, <2>2, <2>6, Zenon
  <2>8. int = i + 1 /\ frac = j + 1 /\ exp = n + 1
    BY <1>2, <2>5, <2>6, <2>7, Zenon
  <2>9. i + 1 # 0 /\ j + 1 # 0 /\ ~(n + 1 - 1 > MaxNumberChars)
    BY <1>4, <1>10, <2>3, <2>4
  <2>10. int # 0 /\ frac # 0 /\ ~(exp - 1 > MaxNumberChars)
    BY <1>4, <1>10, <2>3, <2>4, <2>8
  <2> QED BY <1>3, <2>8, <2>10, Zenon
<1> QED BY <1>9, <1>10, Zenon

-----------------------------------------------------------------------------
CharAt(s, i) == IF i <= Len(s) THEN s[i] ELSE "end"

DigitRuns(s, d) == d = [i \in 1..Len(s) + 1 |-> IF IsDigit(CharAt(s, i)) THEN d[i + 1] ELSE i]

\* NumberEnd, with d for the function it defines.
NumberEndWith(s, d) ==
  LET start == IF CharAt(s, 1) = "-" THEN 2 ELSE 1
      int == CASE CharAt(s, start) = "0" -> start + 1
               [] CharAt(s, start) = "d" -> d[start]
               [] OTHER -> 0
      frac == IF CharAt(s, int) # "." THEN int
              ELSE IF IsDigit(CharAt(s, int + 1)) THEN d[int + 1] ELSE 0
      signed == IF CharAt(s, frac + 1) \in {"+", "-"} THEN frac + 2 ELSE frac + 1
      exp == IF CharAt(s, frac) # "e" THEN frac
             ELSE IF IsDigit(CharAt(s, signed)) THEN d[signed] ELSE 0
  IN IF int = 0 THEN 0 ELSE IF frac = 0 THEN 0
     ELSE IF exp - 1 > MaxNumberChars THEN 0 ELSE exp

LEMMA NumberEndDef == ASSUME NEW s PROVE NumberEnd(s) = NumberEndWith(s, CHOOSE d : DigitRuns(s, d))
BY Zenon DEF NumberEnd, NumberEndWith, DigitRuns, CharAt

LEMMA CharClasses ==
  ASSUME NEW s, Len(s) \in Nat, NEW i \in Nat \ {0}
  PROVE  /\ CharAt(s, i) = "0" <=> i \in Zeros(s)
         /\ CharAt(s, i) = "d" <=> i \in Ones(s)
         /\ IsDigit(CharAt(s, i)) <=> i \in DigitsOf(s)
         /\ CharAt(s, i) = "." <=> i \in Points(s)
         /\ CharAt(s, i) = "e" <=> i \in Exps(s)
         /\ CharAt(s, i) = "-" <=> i \in Minuses(s)
         /\ CharAt(s, i) \in {"+", "-"} <=> i \in Signs(s)
<1>1. CASE i <= Len(s)
  <2>1. i \in 1..Len(s)
    BY <1>1
  <2>2. CharAt(s, i) = s[i]
    BY <1>1, Zenon DEF CharAt
  <2> QED BY <2>1, <2>2, Zenon DEF PosOf, IsDigit, Zeros, Ones, DigitsOf, Points, Exps, Minuses, Signs
<1>2. CASE ~(i <= Len(s))
  <2>1. i \notin 1..Len(s)
    BY <1>2
  <2>2. CharAt(s, i) = "end"
    BY <1>2, Zenon DEF CharAt
  <2> QED BY <2>1, <2>2, Zenon DEF PosOf, IsDigit, Zeros, Ones, DigitsOf, Points, Exps, Minuses, Signs
<1> QED BY <1>1, <1>2, Zenon

LEMMA RunsAgree ==
  ASSUME NEW s, Len(s) \in Nat, NEW d
  PROVE  DigitRuns(s, d) <=> RunsOf(d, Len(s), DigitsOf(s))
<1>1. \A i \in 1..Len(s) + 1 : IsDigit(CharAt(s, i)) <=> i \in DigitsOf(s)
  <2> SUFFICES ASSUME NEW i \in 1..Len(s) + 1 PROVE IsDigit(CharAt(s, i)) <=> i \in DigitsOf(s)
    BY Zenon
  <2>1. i \in Nat \ {0}
    OBVIOUS
  <2> QED BY <2>1, CharClasses, Zenon
<1>2. [i \in 1..Len(s) + 1 |-> IF IsDigit(CharAt(s, i)) THEN d[i + 1] ELSE i]
        = [i \in 1..Len(s) + 1 |-> IF i \in DigitsOf(s) THEN d[i + 1] ELSE i]
  BY <1>1, Zenon
<1> QED BY <1>2, Zenon DEF DigitRuns, RunsOf

LEMMA NumberEndScans ==
  ASSUME NEW s, NEW n \in Nat, n = Len(s), NEW d, NEW Z, NEW O, NEW D, NEW P, NEW E, NEW M, NEW G,
         Z = Zeros(s), O = Ones(s), D = DigitsOf(s), P = Points(s), E = Exps(s),
         M = Minuses(s), G = Signs(s), RunsOf(d, n, D)
  PROVE  NumberEndWith(s, d) = ScanOf(d, Z, O, D, P, E, M, G)
<1>1. Classes(n, Z, O, D, P, E, M, G)
  BY TextClasses, Zenon
<1>0. Ranges(n, Z, O, D, P, M, d)
  BY <1>1, ScanRange, Zenon
<1>2. PICK start : start = IF CharAt(s, 1) = "-" THEN 2 ELSE 1
  OBVIOUS
<1>3. 1 \in Nat \ {0}
  OBVIOUS
<1>4. start = Begin(M)
  BY <1>2, <1>3, CharClasses, Zenon DEF Begin
<1>5. start \in Nat \ {0} /\ start \in 1..n + 1
  <2>1. start \in 1..n + 1
    BY <1>0, <1>4, Zenon DEF Ranges
  <2> QED BY <2>1
<1>6. PICK int : int = CASE CharAt(s, start) = "0" -> start + 1
                         [] CharAt(s, start) = "d" -> d[start]
                         [] OTHER -> 0
  OBVIOUS
<1>7. int = Int1(d, Z, O, start)
  <2>1. /\ CharAt(s, start) = "0" <=> start \in Z
        /\ CharAt(s, start) = "d" <=> start \in O
    BY <1>5, CharClasses, Zenon
  <2>2. CASE start \in Z
    <3>1. CharAt(s, start) = "0" /\ ~(CharAt(s, start) = "d")
      BY <2>1, <2>2, Zenon
    <3>2. int = start + 1
      BY <1>6, <3>1
    <3> QED BY <2>2, <3>2, Zenon DEF Int1
  <2>3. CASE start \notin Z /\ start \in O
    <3>1. ~(CharAt(s, start) = "0") /\ CharAt(s, start) = "d"
      BY <2>1, <2>3, Zenon
    <3>2. int = d[start]
      BY <1>6, <3>1
    <3> QED BY <2>3, <3>2, Zenon DEF Int1
  <2>4. CASE start \notin Z /\ start \notin O
    <3>1. ~(CharAt(s, start) = "0") /\ ~(CharAt(s, start) = "d")
      BY <2>1, <2>4, Zenon
    <3>2. int = 0
      BY <1>6, <3>1
    <3> QED BY <2>4, <3>2, Zenon DEF Int1
  <2> QED BY <2>2, <2>3, <2>4, Zenon
<1>8. PICK frac : frac = IF CharAt(s, int) # "." THEN int
                         ELSE IF IsDigit(CharAt(s, int + 1)) THEN d[int + 1] ELSE 0
  OBVIOUS
<1>9. int # 0 => int \in 1..n + 1
  <2> SUFFICES ASSUME int # 0 PROVE int \in 1..n + 1
    OBVIOUS
  <2>1. \A x \in 1..n + 1 : Int1(d, Z, O, x) # 0 => \E i \in x - 1..n : Int1(d, Z, O, x) = i + 1
    BY <1>0, Zenon DEF Ranges
  <2>2. PICK i \in start - 1..n : int = i + 1
    BY <1>5, <1>7, <2>1, Zenon
  <2> QED BY <1>5, <2>2
<1>10. int # 0 => frac = Frac1(d, D, P, int)
  <2> SUFFICES ASSUME int # 0 PROVE frac = Frac1(d, D, P, int)
    OBVIOUS
  <2>1. int \in Nat \ {0} /\ int + 1 \in Nat \ {0}
    BY <1>9
  <2>2. CharAt(s, int) = "." <=> int \in P
    BY <2>1, CharClasses, Zenon
  <2>3. IsDigit(CharAt(s, int + 1)) <=> int + 1 \in D
    BY <2>1, CharClasses, Zenon
  <2> QED BY <1>8, <2>2, <2>3, Zenon DEF Frac1
<1>11. int # 0 /\ frac # 0 => frac \in 1..n + 1
  <2> SUFFICES ASSUME int # 0, frac # 0 PROVE frac \in 1..n + 1
    OBVIOUS
  <2>1. \A i \in 0..n : Frac1(d, D, P, i + 1) # 0 => \E j \in i..n : Frac1(d, D, P, i + 1) = j + 1
    BY <1>0, Zenon DEF Ranges
  <2>2. PICK i \in 0..n : int = i + 1
    <3>1. int - 1 \in 0..n /\ int = (int - 1) + 1
      BY <1>9
    <3> QED BY <3>1
  <2>3. PICK j \in i..n : frac = j + 1
    BY <1>10, <2>1, <2>2, Zenon
  <2> QED BY <2>2, <2>3
<1>12. PICK signed : signed = IF CharAt(s, frac + 1) \in {"+", "-"} THEN frac + 2 ELSE frac + 1
  OBVIOUS
<1>13. PICK exp : exp = IF CharAt(s, frac) # "e" THEN frac
                        ELSE IF IsDigit(CharAt(s, signed)) THEN d[signed] ELSE 0
  OBVIOUS
<1>14. int # 0 /\ frac # 0 => exp = Exp1(d, D, E, G, frac)
  <2> SUFFICES ASSUME int # 0, frac # 0 PROVE exp = Exp1(d, D, E, G, frac)
    OBVIOUS
  <2>1. frac \in Nat \ {0} /\ frac + 1 \in Nat \ {0} /\ frac + 2 \in Nat \ {0}
    BY <1>11
  <2>2. CharAt(s, frac + 1) \in {"+", "-"} <=> frac + 1 \in G
    BY <2>1, CharClasses, Zenon
  <2>3. signed = Signed1(G, frac) /\ signed \in Nat \ {0}
    BY <1>12, <2>1, <2>2, Zenon DEF Signed1
  <2>4. IsDigit(CharAt(s, signed)) <=> signed \in D
    BY <2>3, CharClasses, Zenon
  <2>5. CharAt(s, frac) = "e" <=> frac \in E
    BY <2>1, CharClasses, Zenon
  <2> QED BY <1>13, <2>3, <2>4, <2>5, Zenon DEF Exp1
<1>15. NumberEndWith(s, d) = IF int = 0 THEN 0 ELSE IF frac = 0 THEN 0
                             ELSE IF exp - 1 > MaxNumberChars THEN 0 ELSE exp
  BY <1>2, <1>6, <1>8, <1>12, <1>13, ZenonT(60) DEF NumberEndWith
<1>16. CASE int = 0
  BY <1>4, <1>7, <1>15, <1>16, Zenon DEF ScanOf
<1>17. CASE int # 0
  <2>1. frac = Frac1(d, D, P, int) /\ int = Int1(d, Z, O, Begin(M))
    BY <1>4, <1>7, <1>10, <1>17, Zenon
  <2>2. CASE frac = 0
    BY <1>15, <1>17, <2>1, <2>2, Zenon DEF ScanOf
  <2>3. CASE frac # 0
    BY <1>14, <1>15, <1>17, <2>1, <2>3, Zenon DEF ScanOf
  <2> QED BY <2>2, <2>3, Zenon
<1> QED BY <1>16, <1>17, Zenon

-----------------------------------------------------------------------------
\* The parts of IsNumber.
DigitsText(x) == x # <<>> /\ \A i \in 1..Len(x) : IsDigit(x[i])
WholeText(x) == x = <<"0">> \/ (DigitsText(x) /\ x[1] = "d")
FracText(x) == x = <<>> \/ (x[1] = "." /\ DigitsText(Tail(x)))
ExpText(x) == \/ x = <<>>
              \/ x[1] = "e" /\ DigitsText(Tail(x))
              \/ /\ x[1] = "e" /\ Len(x) > 1 /\ x[2] \in {"+", "-"}
                 /\ DigitsText(SubSeq(x, 3, Len(x)))
BodyText(s) == IF s # <<>> /\ s[1] = "-" THEN Tail(s) ELSE s
PartsText(body) ==
  \E i \in 0..Len(body) : \E j \in i..Len(body) :
    /\ WholeText(SubSeq(body, 1, i)) /\ FracText(SubSeq(body, i + 1, j))
    /\ ExpText(SubSeq(body, j + 1, Len(body)))

LEMMA IsNumberDef == ASSUME NEW s PROVE IsNumber(s) <=> PartsText(BodyText(s))
BY Zenon DEF IsNumber, PartsText, BodyText, DigitsText, WholeText, FracText, ExpText

\* x is s from p to q.
Piece(x, s, p, q) ==
  /\ p \in Nat \ {0} /\ q \in Nat /\ p <= q + 1 /\ q <= Len(s)
  /\ x \in Seq(STRING) /\ Len(x) = q - p + 1
  /\ \A k \in 1..Len(x) : x[k] = s[p + k - 1]

LEMMA PieceOf ==
  ASSUME NEW s \in Seq(STRING), NEW x, NEW p, NEW q, Piece(x, s, p, q),
         NEW a \in Nat \ {0}, NEW b \in Nat, a <= b + 1, b <= Len(x)
  PROVE  Piece(SubSeq(x, a, b), s, p + a - 1, p + b - 1)
<1>1. /\ p \in Nat \ {0} /\ q \in Nat /\ p <= q + 1 /\ q <= Len(s)
      /\ x \in Seq(STRING) /\ Len(x) = q - p + 1
      /\ \A k \in 1..Len(x) : x[k] = s[p + k - 1]
  BY DEF Piece
<1>2. /\ SubSeq(x, a, b) \in Seq(STRING) /\ Len(SubSeq(x, a, b)) = b - a + 1
      /\ \A k \in 1..b - a + 1 : SubSeq(x, a, b)[k] = x[a + k - 1]
  BY <1>1
<1>3. \A k \in 1..b - a + 1 : SubSeq(x, a, b)[k] = s[(p + a - 1) + k - 1]
  <2> SUFFICES ASSUME NEW k \in 1..b - a + 1
               PROVE  SubSeq(x, a, b)[k] = s[(p + a - 1) + k - 1]
    BY Zenon
  <2>1. PICK m \in 1..Len(x) : m = a + k - 1
    BY <1>1
  <2>2. p + m - 1 = (p + a - 1) + k - 1
    BY <1>1, <2>1
  <2>3. x[m] = s[p + m - 1] /\ SubSeq(x, a, b)[k] = x[a + k - 1]
    BY <1>1, <1>2, Zenon
  <2> QED BY <2>1, <2>2, <2>3, Zenon
<1>4. /\ p + a - 1 \in Nat \ {0} /\ p + b - 1 \in Nat /\ p + a - 1 <= p + b - 1 + 1
      /\ p + b - 1 <= Len(s) /\ b - a + 1 = (p + b - 1) - (p + a - 1) + 1
  BY <1>1
<1>5. Len(SubSeq(x, a, b)) = (p + b - 1) - (p + a - 1) + 1
  BY <1>2, <1>4, Zenon
<1>6. \A k \in 1..Len(SubSeq(x, a, b)) : SubSeq(x, a, b)[k] = s[(p + a - 1) + k - 1]
  BY <1>2, <1>3, Zenon
<1> QED BY <1>2, <1>4, <1>5, <1>6, Zenon DEF Piece

LEMMA PieceTail ==
  ASSUME NEW s \in Seq(STRING), NEW x, NEW p, NEW q, Piece(x, s, p, q), Len(x) > 0
  PROVE  Piece(Tail(x), s, p + 1, q)
<1>1. x \in Seq(STRING) /\ Len(x) = q - p + 1 /\ p \in Nat /\ q \in Nat
  BY DEF Piece
<1>2. Tail(x) = SubSeq(x, 2, Len(x))
  BY <1>1, SMT
<1>3. Len(x) \in Nat /\ 2 \in Nat \ {0} /\ 2 <= Len(x) + 1 /\ Len(x) <= Len(x)
  BY <1>1
<1>4. Piece(SubSeq(x, 2, Len(x)), s, p + 2 - 1, p + Len(x) - 1)
  BY <1>3, PieceOf
<1>5. p + 2 - 1 = p + 1 /\ p + Len(x) - 1 = q
  BY <1>1
<1> QED BY <1>2, <1>4, <1>5, Zenon

LEMMA PieceChars ==
  ASSUME NEW s \in Seq(STRING), NEW x, NEW p, NEW q, Piece(x, s, p, q),
         NEW C, NEW k \in 1..Len(x)
  PROVE  x[k] \in C <=> p + k - 1 \in PosOf(s, C)
<1>1. x[k] = s[p + k - 1]
  BY Zenon DEF Piece
<1>2. p + k - 1 \in 1..Len(s)
  BY DEF Piece
<1> QED BY <1>1, <1>2, Zenon DEF PosOf

LEMMA PieceSize ==
  ASSUME NEW s, NEW x, NEW p, NEW q, Piece(x, s, p, q)
  PROVE  /\ p \in Nat \ {0} /\ q \in Nat /\ x \in Seq(STRING)
         /\ Len(x) \in Nat /\ Len(x) = q - p + 1
         /\ x = <<>> <=> q = p - 1
         /\ x # <<>> <=> p <= q /\ Len(x) > 0 /\ 1 \in 1..Len(x)
BY DEF Piece

LEMMA DigitsPiece ==
  ASSUME NEW s \in Seq(STRING), NEW x, NEW p, NEW q, Piece(x, s, p, q)
  PROVE  DigitsText(x) <=> DigitsAt(DigitsOf(s), p, q)
<1>1. /\ p \in Nat \ {0} /\ q \in Nat /\ Len(x) \in Nat /\ Len(x) = q - p + 1
      /\ x # <<>> <=> p <= q
  BY PieceSize
<1>2. \A k \in 1..Len(x) : IsDigit(x[k]) <=> p + k - 1 \in DigitsOf(s)
  BY PieceChars, Zenon DEF IsDigit, DigitsOf
<1>3. (\A k \in 1..Len(x) : p + k - 1 \in DigitsOf(s)) <=> \A m \in p..q : m \in DigitsOf(s)
  <2>1. ASSUME \A k \in 1..Len(x) : p + k - 1 \in DigitsOf(s), NEW m \in p..q
        PROVE  m \in DigitsOf(s)
    <3>1. PICK k \in 1..Len(x) : k = m - p + 1
      BY <1>1
    <3>2. p + k - 1 = m
      BY <1>1, <3>1
    <3> QED BY <2>1, <3>2, Zenon
  <2>2. ASSUME \A m \in p..q : m \in DigitsOf(s), NEW k \in 1..Len(x)
        PROVE  p + k - 1 \in DigitsOf(s)
    <3>1. p + k - 1 \in p..q
      BY <1>1
    <3> QED BY <2>2, <3>1, Zenon
  <2> QED BY <2>1, <2>2, Zenon
<1> QED BY <1>1, <1>2, <1>3, Zenon DEF DigitsText, DigitsAt

LEMMA FirstChar ==
  ASSUME NEW s \in Seq(STRING), NEW x, NEW p, NEW q, Piece(x, s, p, q), x # <<>>, NEW C
  PROVE  x[1] \in C <=> p \in PosOf(s, C)
<1>1. 1 \in 1..Len(x) /\ p + 1 - 1 = p
  BY PieceSize
<1>2. x[1] \in C <=> p + 1 - 1 \in PosOf(s, C)
  BY <1>1, PieceChars
<1> QED BY <1>1, <1>2, Zenon

LEMMA WholePiece ==
  ASSUME NEW s \in Seq(STRING), NEW x, NEW p, NEW q, Piece(x, s, p, q)
  PROVE  WholeText(x) <=> WholeAt(Zeros(s), Ones(s), DigitsOf(s), p, q)
<1>1. /\ p \in Nat \ {0} /\ q \in Nat /\ x \in Seq(STRING) /\ Len(x) = q - p + 1
      /\ x # <<>> <=> p <= q
  BY PieceSize
<1>2. CASE x = <<>>
  <2>1. ~(p <= q) /\ ~(p = q)
    BY <1>1, <1>2
  <2>2. x # <<"0">>
    BY <1>2
  <2> QED BY <1>2, <2>1, <2>2, Zenon DEF WholeText, WholeAt, DigitsText
<1>3. CASE x # <<>>
  <2>1. /\ x[1] \in {"0"} <=> p \in Zeros(s)
        /\ x[1] \in {"d"} <=> p \in Ones(s)
    BY <1>3, FirstChar, Zenon DEF Zeros, Ones
  <2>2. x = <<"0">> <=> p = q /\ x[1] = "0"
    <3>1. x = <<"0">> => p = q /\ x[1] = "0"
      BY <1>1
    <3>2. p = q => Len(x) = 1
      BY <1>1
    <3>3. Len(x) = 1 /\ x[1] = "0" => x = <<"0">>
      BY <1>1
    <3> QED BY <3>1, <3>2, <3>3, Zenon
  <2>3. DigitsText(x) <=> p <= q /\ \A k \in p..q : k \in DigitsOf(s)
    BY DigitsPiece, Zenon DEF DigitsAt
  <2> QED BY <2>1, <2>2, <2>3, Zenon DEF WholeText, WholeAt
<1> QED BY <1>2, <1>3, Zenon

LEMMA FracPiece ==
  ASSUME NEW s \in Seq(STRING), NEW x, NEW p, NEW q, Piece(x, s, p, q)
  PROVE  FracText(x) <=> FracAt(DigitsOf(s), Points(s), p, q)
<1>1. /\ p \in Nat \ {0} /\ q \in Nat
      /\ x = <<>> <=> q = p - 1
      /\ x # <<>> <=> p <= q /\ Len(x) > 0 /\ 1 \in 1..Len(x)
  BY PieceSize
<1>2. CASE x = <<>>
  BY <1>1, <1>2, Zenon DEF FracText, FracAt
<1>3. CASE x # <<>>
  <2>1. x[1] \in {"."} <=> p \in Points(s)
    BY <1>3, FirstChar, Zenon DEF Points
  <2>2. Piece(Tail(x), s, p + 1, q)
    BY <1>1, <1>3, PieceTail, Zenon
  <2>3. DigitsText(Tail(x)) <=> DigitsAt(DigitsOf(s), p + 1, q)
    BY <2>2, DigitsPiece, Zenon
  <2> QED BY <1>1, <1>3, <2>1, <2>3, Zenon DEF FracText, FracAt
<1> QED BY <1>2, <1>3, Zenon

LEMMA ExpPiece ==
  ASSUME NEW s \in Seq(STRING), NEW x, NEW p, NEW q, Piece(x, s, p, q)
  PROVE  ExpText(x) <=> ExpAt(DigitsOf(s), Exps(s), Signs(s), p, q)
<1>1. /\ p \in Nat \ {0} /\ q \in Nat
      /\ x = <<>> <=> q = p - 1
      /\ x # <<>> <=> p <= q /\ Len(x) > 0 /\ 1 \in 1..Len(x)
      /\ Len(x) \in Nat /\ Len(x) = q - p + 1
  BY PieceSize
<1>2. CASE x = <<>>
  BY <1>1, <1>2, Zenon DEF ExpText, ExpAt
<1>3. CASE x # <<>>
  <2>1. x[1] \in {"e"} <=> p \in Exps(s)
    BY <1>3, FirstChar, Zenon DEF Exps
  <2>2. Piece(Tail(x), s, p + 1, q)
    BY <1>1, <1>3, PieceTail, Zenon
  <2>3. DigitsText(Tail(x)) <=> DigitsAt(DigitsOf(s), p + 1, q)
    BY <2>2, DigitsPiece, Zenon
  <2>4. Len(x) > 1 <=> p < q
    BY <1>1
  <2>5. CASE ~(Len(x) > 1)
    BY <1>1, <1>3, <2>1, <2>3, <2>4, <2>5, Zenon DEF ExpText, ExpAt
  <2>6. CASE Len(x) > 1
    <3>1. 2 \in 1..Len(x) /\ p + 2 - 1 = p + 1
      BY <1>1, <2>6
    <3>2. x[2] \in {"+", "-"} <=> p + 2 - 1 \in Signs(s)
      BY <3>1, PieceChars, Zenon DEF Signs
    <3>3. 3 \in Nat \ {0} /\ 3 <= Len(x) + 1 /\ Len(x) <= Len(x)
      BY <1>1, <2>6
    <3>4. Piece(SubSeq(x, 3, Len(x)), s, p + 3 - 1, p + Len(x) - 1)
      BY <1>1, <3>3, PieceOf, Zenon
    <3>5. p + 3 - 1 = p + 2 /\ p + Len(x) - 1 = q
      BY <1>1
    <3>6. DigitsText(SubSeq(x, 3, Len(x))) <=> DigitsAt(DigitsOf(s), p + 2, q)
      BY <3>4, <3>5, DigitsPiece, Zenon
    <3>7. x[2] \in {"+", "-"} <=> p + 1 \in Signs(s)
      BY <3>1, <3>2, Zenon
    <3> QED BY <1>1, <1>3, <2>1, <2>3, <2>4, <2>6, <3>6, <3>7, Zenon DEF ExpText, ExpAt
  <2> QED BY <2>5, <2>6, Zenon
<1> QED BY <1>2, <1>3, Zenon

\* The text of a number without its sign.
LEMMA BodyPiece ==
  ASSUME NEW s \in Seq(STRING)
  PROVE  Piece(BodyText(s), s, Begin(Minuses(s)), Len(s))
<1>1. Len(s) \in Nat
  OBVIOUS
<1>2. Piece(s, s, 1, Len(s))
  <2>1. \A k \in 1..Len(s) : s[k] = s[1 + k - 1]
    OBVIOUS
  <2>2. 1 \in Nat \ {0} /\ 1 <= Len(s) + 1 /\ Len(s) <= Len(s) /\ Len(s) = Len(s) - 1 + 1
    BY <1>1
  <2> QED BY <1>1, <2>1, <2>2, Zenon DEF Piece
<1>3. s # <<>> /\ s[1] = "-" <=> 1 \in Minuses(s)
  <2>1. s # <<>> <=> 1 \in 1..Len(s)
    OBVIOUS
  <2> QED BY <2>1, Zenon DEF Minuses, PosOf
<1>4. CASE 1 \in Minuses(s)
  <2>1. BodyText(s) = Tail(s) /\ Begin(Minuses(s)) = 2
    BY <1>3, <1>4, Zenon DEF BodyText, Begin
  <2>2. Len(s) > 0 /\ 1 + 1 = 2
    BY <1>3, <1>4
  <2>3. Piece(Tail(s), s, 1 + 1, Len(s))
    BY <1>2, <2>2, PieceTail
  <2> QED BY <2>1, <2>2, <2>3, Zenon
<1>5. CASE 1 \notin Minuses(s)
  BY <1>2, <1>3, <1>5, Zenon DEF BodyText, Begin
<1> QED BY <1>4, <1>5, Zenon

\* The parts at i and j of the text without its sign.
LEMMA PartsAt ==
  ASSUME NEW s \in Seq(STRING), NEW body, NEW p, Piece(body, s, p, Len(s)),
         NEW i \in 0..Len(body), NEW j \in i..Len(body)
  PROVE  /\ WholeText(SubSeq(body, 1, i))
              <=> WholeAt(Zeros(s), Ones(s), DigitsOf(s), p, p + i - 1)
         /\ FracText(SubSeq(body, i + 1, j))
              <=> FracAt(DigitsOf(s), Points(s), (p + i - 1) + 1, p + j - 1)
         /\ ExpText(SubSeq(body, j + 1, Len(body)))
              <=> ExpAt(DigitsOf(s), Exps(s), Signs(s), (p + j - 1) + 1, Len(s))
<1>1. /\ p \in Nat \ {0} /\ Len(s) \in Nat /\ Len(body) \in Nat /\ Len(body) = Len(s) - p + 1
  BY PieceSize
<1>2. /\ i \in Nat /\ j \in Nat /\ 1 \in Nat \ {0} /\ 1 <= i + 1 /\ i <= Len(body)
      /\ j <= Len(body)
      /\ i + 1 \in Nat \ {0} /\ i + 1 <= j + 1 /\ j + 1 \in Nat \ {0} /\ j + 1 <= Len(body) + 1
      /\ Len(body) <= Len(body)
  BY <1>1
<1>3. /\ p + 1 - 1 = p /\ p + (i + 1) - 1 = (p + i - 1) + 1
      /\ p + (j + 1) - 1 = (p + j - 1) + 1 /\ p + Len(body) - 1 = Len(s)
  BY <1>1, <1>2
<1>4. Piece(SubSeq(body, 1, i), s, p, p + i - 1)
  <2>1. Piece(SubSeq(body, 1, i), s, p + 1 - 1, p + i - 1)
    BY <1>2, PieceOf, Zenon
  <2> QED BY <1>3, <2>1, Zenon
<1>5. Piece(SubSeq(body, i + 1, j), s, (p + i - 1) + 1, p + j - 1)
  <2>1. Piece(SubSeq(body, i + 1, j), s, p + (i + 1) - 1, p + j - 1)
    BY <1>2, PieceOf, Zenon
  <2> QED BY <1>3, <2>1, Zenon
<1>6. Piece(SubSeq(body, j + 1, Len(body)), s, (p + j - 1) + 1, Len(s))
  <2>1. Piece(SubSeq(body, j + 1, Len(body)), s, p + (j + 1) - 1, p + Len(body) - 1)
    BY <1>1, <1>2, PieceOf, Zenon
  <2> QED BY <1>3, <2>1, Zenon
<1>7. WholeText(SubSeq(body, 1, i)) <=> WholeAt(Zeros(s), Ones(s), DigitsOf(s), p, p + i - 1)
  BY <1>4, WholePiece, Zenon
<1>8. FracText(SubSeq(body, i + 1, j))
        <=> FracAt(DigitsOf(s), Points(s), (p + i - 1) + 1, p + j - 1)
  BY <1>5, FracPiece, Zenon
<1>9. ExpText(SubSeq(body, j + 1, Len(body)))
        <=> ExpAt(DigitsOf(s), Exps(s), Signs(s), (p + j - 1) + 1, Len(s))
  BY <1>6, ExpPiece, Zenon
<1> QED BY <1>7, <1>8, <1>9, Zenon

LEMMA IsNumberAt ==
  ASSUME NEW s \in Seq(STRING)
  PROVE  IsNumber(s) <=> NumberAt(Len(s), Zeros(s), Ones(s), DigitsOf(s), Points(s), Exps(s),
                                  Minuses(s), Signs(s))
<1>1. PICK body, p : body = BodyText(s) /\ p = Begin(Minuses(s))
  OBVIOUS
<1>2. Piece(body, s, p, Len(s))
  BY <1>1, BodyPiece, Zenon
<1>3. /\ p \in Nat \ {0} /\ Len(s) \in Nat /\ Len(body) \in Nat /\ Len(body) = Len(s) - p + 1
  BY <1>2, PieceSize
<1> DEFINE At(i, j) == /\ WholeAt(Zeros(s), Ones(s), DigitsOf(s), p, i)
                       /\ FracAt(DigitsOf(s), Points(s), i + 1, j)
                       /\ ExpAt(DigitsOf(s), Exps(s), Signs(s), j + 1, Len(s))
           Text(i, j) == /\ WholeText(SubSeq(body, 1, i)) /\ FracText(SubSeq(body, i + 1, j))
                         /\ ExpText(SubSeq(body, j + 1, Len(body)))
<1>4. ASSUME NEW i \in 0..Len(body), NEW j \in i..Len(body)
      PROVE  Text(i, j) <=> At(p + i - 1, p + j - 1)
  BY <1>2, PartsAt, Zenon
<1>5. IsNumber(s) <=> \E i \in 0..Len(body) : \E j \in i..Len(body) : Text(i, j)
  BY <1>1, IsNumberDef, Zenon DEF PartsText
<1>6. NumberAt(Len(s), Zeros(s), Ones(s), DigitsOf(s), Points(s), Exps(s), Minuses(s), Signs(s))
        <=> \E i \in p - 1..Len(s) : \E j \in i..Len(s) : At(i, j)
  BY <1>1, Zenon DEF NumberAt
<1> HIDE DEF At, Text
<1>7. ASSUME NEW i \in 0..Len(body), NEW j \in i..Len(body), Text(i, j)
      PROVE  \E a \in p - 1..Len(s) : \E b \in a..Len(s) : At(a, b)
  <2>1. p + i - 1 \in p - 1..Len(s) /\ p + j - 1 \in p + i - 1..Len(s)
    BY <1>3
  <2>2. At(p + i - 1, p + j - 1)
    BY <1>4, <1>7, Zenon
  <2> QED BY <2>1, <2>2, Zenon
<1>8. ASSUME NEW a \in p - 1..Len(s), NEW b \in a..Len(s), At(a, b)
      PROVE  \E i \in 0..Len(body) : \E j \in i..Len(body) : Text(i, j)
  <2>1. PICK i \in 0..Len(body), j \in 0..Len(body) : i = a - p + 1 /\ j = b - p + 1
    BY <1>3
  <2>2. j \in i..Len(body) /\ p + i - 1 = a /\ p + j - 1 = b
    BY <1>3, <2>1
  <2>3. Text(i, j)
    BY <1>4, <1>8, <2>2, Zenon
  <2> QED BY <2>2, <2>3, Zenon
<1> QED BY <1>5, <1>6, <1>7, <1>8, Zenon

\* For every text, however long.
LEMMA NumbersAgree ==
  ASSUME NEW s \in Seq(STRING)
  PROVE  NumberEnd(s) = Len(s) + 1 <=> IsNumber(s) /\ Len(s) <= MaxNumberChars
<1>1. PICK n \in Nat : n = Len(s)
  OBVIOUS
<1>2. PICK Z, O, D, P, E, M, G :
        /\ Z = Zeros(s) /\ O = Ones(s) /\ D = DigitsOf(s) /\ P = Points(s) /\ E = Exps(s)
        /\ M = Minuses(s) /\ G = Signs(s)
  OBVIOUS
<1>3. Classes(n, Z, O, D, P, E, M, G)
  BY <1>1, <1>2, TextClasses, Zenon
<1>4. D \in SUBSET (1..n)
  BY <1>3, Zenon DEF Classes
<1>5. PICK d : d = CHOOSE x : DigitRuns(s, x)
  OBVIOUS
<1>6. RunsOf(d, n, D)
  <2>1. \E f : RunsOf(f, n, D)
    BY <1>4, RunsExist, Zenon
  <2>2. \E f : DigitRuns(s, f)
    BY <1>1, <1>2, <2>1, RunsAgree, Zenon
  <2>3. DigitRuns(s, d)
    BY <1>5, <2>2, Zenon
  <2> QED BY <1>1, <1>2, <2>3, RunsAgree, Zenon
<1>7. NumberEnd(s) = ScanOf(d, Z, O, D, P, E, M, G)
  <2>1. NumberEnd(s) = NumberEndWith(s, d)
    BY <1>5, NumberEndDef, Zenon
  <2>2. NumberEndWith(s, d) = ScanOf(d, Z, O, D, P, E, M, G)
    BY <1>1, <1>2, <1>6, NumberEndScans
  <2> QED BY <2>1, <2>2, Zenon
<1>8. ScanOf(d, Z, O, D, P, E, M, G) = n + 1
        <=> NumberAt(n, Z, O, D, P, E, M, G) /\ n <= MaxNumberChars
  BY <1>3, <1>6, ClassesScan, Zenon
<1>9. IsNumber(s) <=> NumberAt(n, Z, O, D, P, E, M, G)
  BY <1>1, <1>2, IsNumberAt, Zenon
<1> QED BY <1>1, <1>7, <1>8, <1>9, Zenon

-----------------------------------------------------------------------------
(* Strings.                                                                  *)

EndStep(s, g, i) ==
  CASE CharAt(s, i) = "end" -> 0
    [] CharAt(s, i) = "quote" -> i + 1
    [] CharAt(s, i) \in {"control", "broken"} -> 0
    [] CharAt(s, i) = "slash" ->
         CASE CharAt(s, i + 1) \in {"quote", "slash", "n"} -> g[i + 2]
           [] CharAt(s, i + 1) = "u" /\ CharAt(s, i + 2) = "bmp" -> g[i + 3]
           [] /\ CharAt(s, i + 1) = "u" /\ CharAt(s, i + 2) = "high" /\ CharAt(s, i + 3) = "slash"
              /\ CharAt(s, i + 4) = "u" /\ CharAt(s, i + 5) = "low" -> g[i + 6]
           [] OTHER -> 0
    [] OTHER -> g[i + 1]
EndOf(s, f) == f = [i \in 1..Len(s) + 7 |-> EndStep(s, f, i)]

BodyStep(s, g, i) ==
  IF i = Len(s) THEN s[i] = "quote"
  ELSE \E item \in Items :
         /\ i + Len(item) <= Len(s) /\ SubSeq(s, i, i + Len(item) - 1) = item
         /\ g[i + Len(item)]
BodyOf(s, b) == b = [i \in 1..Len(s) |-> BodyStep(s, b, i)]

LEMMA StringEndDef ==
  ASSUME NEW s
  PROVE  StringEnd(s) = IF CharAt(s, 1) = "quote" THEN (CHOOSE f : EndOf(s, f))[2] ELSE 0
BY Zenon DEF StringEnd, EndOf, EndStep, CharAt

LEMMA MatchesDef ==
  ASSUME NEW s
  PROVE  Matches(s) <=> Len(s) > 1 /\ s[1] = "quote" /\ (CHOOSE b : BodyOf(s, b))[2]
BY Zenon DEF Matches, BodyOf, BodyStep

\* How much the scanner takes at i, 0 for a quote and for what is wrong.
Width(s, i) ==
  IF CharAt(s, i) \in {"n", "u", "high", "low", "bmp"} THEN 1
  ELSE IF CharAt(s, i) # "slash" THEN 0
  ELSE IF CharAt(s, i + 1) \in {"quote", "slash", "n"} THEN 2
  ELSE IF CharAt(s, i + 1) # "u" THEN 0
  ELSE IF CharAt(s, i + 2) = "bmp" THEN 3
  ELSE IF /\ CharAt(s, i + 2) = "high" /\ CharAt(s, i + 3) = "slash"
          /\ CharAt(s, i + 4) = "u" /\ CharAt(s, i + 5) = "low" THEN 6
  ELSE 0

LEMMA EndStepWidth ==
  ASSUME NEW s \in Seq(StringClasses), NEW i \in Nat \ {0}, NEW g
  PROVE  EndStep(s, g, i) = IF CharAt(s, i) = "quote" THEN i + 1
                            ELSE IF Width(s, i) = 0 THEN 0 ELSE g[i + Width(s, i)]
<1>1. CharAt(s, i) \in StringClasses \cup {"end"}
  <2>1. CASE i <= Len(s)
    <3>1. s[i] \in StringClasses
      BY <2>1
    <3> QED BY <2>1, <3>1, Zenon DEF CharAt
  <2>2. CASE ~(i <= Len(s))
    BY <2>2, Zenon DEF CharAt
  <2> QED BY <2>1, <2>2, Zenon
<1>2. 0 # 1 /\ 0 # 2 /\ 0 # 3 /\ 0 # 6
  OBVIOUS
<1>3. CASE CharAt(s, i) = "end"
  BY <1>3 DEF EndStep, Width
<1>4. CASE CharAt(s, i) = "quote"
  BY <1>4 DEF EndStep, Width
<1>5. CASE CharAt(s, i) \in {"control", "broken"}
  BY <1>5 DEF EndStep, Width
<1>6. CASE CharAt(s, i) \in {"n", "u", "high", "low", "bmp"}
  BY <1>6 DEF EndStep, Width
<1>7. CASE CharAt(s, i) = "slash"
  BY <1>7 DEF EndStep, Width
<1> QED BY <1>1, <1>3, <1>4, <1>5, <1>6, <1>7, Zenon DEF StringClasses

LEMMA WidthFits ==
  ASSUME NEW s \in Seq(StringClasses), NEW i \in Nat \ {0}
  PROVE  /\ Width(s, i) \in {0, 1, 2, 3, 6}
         /\ Width(s, i) > 0 => i + Width(s, i) - 1 <= Len(s) /\ CharAt(s, i) # "quote"
BY DEF Width, CharAt

LEMMA Slices ==
  ASSUME NEW s \in Seq(StringClasses), NEW i \in 1..Len(s)
  PROVE  /\ SubSeq(s, i, i + 1 - 1) = <<s[i]>>
         /\ i + 1 <= Len(s) => SubSeq(s, i, i + 2 - 1) = <<s[i], s[i + 1]>>
         /\ i + 2 <= Len(s) => SubSeq(s, i, i + 3 - 1) = <<s[i], s[i + 1], s[i + 2]>>
         /\ i + 5 <= Len(s) =>
              SubSeq(s, i, i + 6 - 1)
                = <<s[i], s[i + 1], s[i + 2], s[i + 3], s[i + 4], s[i + 5]>>
<1>1. ASSUME NEW k \in 1..6, i + k - 1 <= Len(s)
      PROVE  /\ SubSeq(s, i, i + k - 1) \in Seq(StringClasses) /\ Len(SubSeq(s, i, i + k - 1)) = k
             /\ \A j \in 1..k : SubSeq(s, i, i + k - 1)[j] = s[i + j - 1]
  BY <1>1
<1>2. /\ i + 1 - 1 = i /\ i + 2 - 1 = i + 1 /\ i + 3 - 1 = i + 2 /\ i + 4 - 1 = i + 3
      /\ i + 5 - 1 = i + 4 /\ i + 6 - 1 = i + 5
  OBVIOUS
<1>3. SubSeq(s, i, i + 1 - 1)
        = <<s[i]>>
  <2> SUFFICES ASSUME i + 1 - 1 <= Len(s) PROVE SubSeq(s, i, i + 1 - 1) = <<s[i]>>
    BY <1>2
  <2>1. 1 \in 1..6
    OBVIOUS
  <2>2. PICK t \in Seq(StringClasses) : t = SubSeq(s, i, i + 1 - 1)
    BY <1>1, <2>1, Zenon
  <2>3. Len(t) = 1 /\ \A j \in 1..1 : t[j] = s[i + j - 1]
    BY <1>1, <2>1, <2>2, Zenon
  <2>4. t[1] = s[i]
    BY <1>2, <2>3
  <2>5. t = <<t[1]>>
    BY <2>3
  <2> QED BY <2>2, <2>4, <2>5, Zenon
<1>4. i + 1 <= Len(s) => SubSeq(s, i, i + 2 - 1)
        = <<s[i], s[i + 1]>>
  <2> SUFFICES ASSUME i + 2 - 1 <= Len(s) PROVE SubSeq(s, i, i + 2 - 1) = <<s[i], s[i + 1]>>
    BY <1>2
  <2>1. 2 \in 1..6
    OBVIOUS
  <2>2. PICK t \in Seq(StringClasses) : t = SubSeq(s, i, i + 2 - 1)
    BY <1>1, <2>1, Zenon
  <2>3. Len(t) = 2 /\ \A j \in 1..2 : t[j] = s[i + j - 1]
    BY <1>1, <2>1, <2>2, Zenon
  <2>4. t[1] = s[i] /\ t[2] = s[i + 1]
    BY <1>2, <2>3
  <2>5. t = <<t[1], t[2]>>
    BY <2>3
  <2> QED BY <2>2, <2>4, <2>5, Zenon
<1>5. i + 2 <= Len(s) => SubSeq(s, i, i + 3 - 1)
        = <<s[i], s[i + 1], s[i + 2]>>
  <2> SUFFICES ASSUME i + 3 - 1 <= Len(s) PROVE SubSeq(s, i, i + 3 - 1) = <<s[i], s[i + 1], s[i + 2]>>
    BY <1>2
  <2>1. 3 \in 1..6
    OBVIOUS
  <2>2. PICK t \in Seq(StringClasses) : t = SubSeq(s, i, i + 3 - 1)
    BY <1>1, <2>1, Zenon
  <2>3. Len(t) = 3 /\ \A j \in 1..3 : t[j] = s[i + j - 1]
    BY <1>1, <2>1, <2>2, Zenon
  <2>4. t[1] = s[i] /\ t[2] = s[i + 1] /\ t[3] = s[i + 2]
    BY <1>2, <2>3
  <2>5. t = <<t[1], t[2], t[3]>>
    BY <2>3
  <2> QED BY <2>2, <2>4, <2>5, Zenon
<1>6. i + 5 <= Len(s) => SubSeq(s, i, i + 6 - 1)
        = <<s[i], s[i + 1], s[i + 2], s[i + 3], s[i + 4], s[i + 5]>>
  <2> SUFFICES ASSUME i + 6 - 1 <= Len(s) PROVE SubSeq(s, i, i + 6 - 1) = <<s[i], s[i + 1], s[i + 2], s[i + 3], s[i + 4], s[i + 5]>>
    BY <1>2
  <2>1. 6 \in 1..6
    OBVIOUS
  <2>2. PICK t \in Seq(StringClasses) : t = SubSeq(s, i, i + 6 - 1)
    BY <1>1, <2>1, Zenon
  <2>3. Len(t) = 6 /\ \A j \in 1..6 : t[j] = s[i + j - 1]
    BY <1>1, <2>1, <2>2, Zenon
  <2>4. t[1] = s[i] /\ t[2] = s[i + 1] /\ t[3] = s[i + 2] /\ t[4] = s[i + 3] /\ t[5] = s[i + 4] /\ t[6] = s[i + 5]
    BY <1>2, <2>3
  <2>5. t = <<t[1], t[2], t[3], t[4], t[5], t[6]>>
    BY <2>3
  <2> QED BY <2>2, <2>4, <2>5, Zenon
<1> QED BY <1>3, <1>4, <1>5, <1>6, Zenon

\* What is taken is an item, and an item is what is taken.
TakesItem(s, i, k, item) ==
  item \in Items /\ Len(item) = k /\ SubSeq(s, i, i + k - 1) = item

LEMMA ItemLengths ==
  ASSUME NEW item \in Items PROVE Len(item) \in {1, 2, 3, 6}
BY DEF Items

LEMMA WidthTaken ==
  ASSUME NEW s \in Seq(StringClasses), NEW i \in 1..Len(s), NEW k, k = Width(s, i), k > 0
  PROVE  \E item : TakesItem(s, i, k, item)
<1>1. i \in Nat \ {0} /\ k \in {1, 2, 3, 6} /\ i + k - 1 <= Len(s)
  BY WidthFits
<1>2. CharAt(s, i) = s[i]
  BY DEF CharAt
<1>3. CASE k = 1
  <2>1. s[i] \in {"n", "u", "high", "low", "bmp"}
    BY <1>2, <1>3 DEF Width
  <2>2. <<s[i]>> \in Items /\ Len(<<s[i]>>) = 1
    BY <2>1 DEF Items
  <2> QED BY <1>3, <2>2, Slices, Zenon DEF TakesItem
<1>4. CASE k = 2
  <2>1. i + 1 <= Len(s) /\ CharAt(s, i + 1) = s[i + 1]
    BY <1>1, <1>4 DEF CharAt
  <2>2. s[i] = "slash" /\ s[i + 1] \in {"n", "slash", "quote"}
    BY <1>2, <1>4, <2>1 DEF Width
  <2>3. <<s[i], s[i + 1]>> \in Items /\ Len(<<s[i], s[i + 1]>>) = 2
    BY <2>2 DEF Items
  <2> QED BY <1>4, <2>1, <2>3, Slices, Zenon DEF TakesItem
<1>5. CASE k = 3
  <2>1. /\ i + 2 <= Len(s) /\ CharAt(s, i + 1) = s[i + 1] /\ CharAt(s, i + 2) = s[i + 2]
    BY <1>1, <1>5 DEF CharAt
  <2>2. s[i] = "slash" /\ s[i + 1] = "u" /\ s[i + 2] = "bmp"
    BY <1>2, <1>5, <2>1 DEF Width
  <2>3. /\ <<s[i], s[i + 1], s[i + 2]>> \in Items
        /\ Len(<<s[i], s[i + 1], s[i + 2]>>) = 3
    BY <2>2 DEF Items
  <2> QED BY <1>5, <2>1, <2>3, Slices, Zenon DEF TakesItem
<1>6. CASE k = 6
  <2>1. /\ i + 5 <= Len(s) /\ CharAt(s, i + 1) = s[i + 1] /\ CharAt(s, i + 2) = s[i + 2]
        /\ CharAt(s, i + 3) = s[i + 3] /\ CharAt(s, i + 4) = s[i + 4]
        /\ CharAt(s, i + 5) = s[i + 5]
    BY <1>1, <1>6 DEF CharAt
  <2>2. /\ s[i] = "slash" /\ s[i + 1] = "u" /\ s[i + 2] = "high" /\ s[i + 3] = "slash"
        /\ s[i + 4] = "u" /\ s[i + 5] = "low"
    BY <1>2, <1>6, <2>1 DEF Width
  <2> DEFINE t == <<"slash", "u", "high", "slash", "u", "low">>
  <2>3. t \in Items
    BY Zenon DEF Items
  <2>4. Len(t) = 6
    OBVIOUS
  <2>5. SubSeq(s, i, i + 6 - 1) = t
    BY <2>1, <2>2, Slices, Zenon
  <2> QED BY <1>6, <2>3, <2>4, <2>5, Zenon DEF TakesItem
<1> QED BY <1>1, <1>3, <1>4, <1>5, <1>6, Zenon

LEMMA TakenWidth ==
  ASSUME NEW s \in Seq(StringClasses), NEW i \in 1..Len(s), NEW item \in Items,
         i + Len(item) - 1 <= Len(s), SubSeq(s, i, i + Len(item) - 1) = item
  PROVE  Len(item) = Width(s, i)
<1>1. CharAt(s, i) = s[i]
  BY DEF CharAt
<1>2. ASSUME NEW c \in {"n", "u", "high", "low", "bmp"}, item = <<c>> PROVE Len(item) = Width(s, i)
  <2>1. Len(item) = 1 /\ item[1] = c
    BY <1>2
  <2>2. SubSeq(s, i, i + 1 - 1) = item
    BY <2>1, Zenon
  <2>3. s[i] = c
    BY <1>2, <2>2, Slices
  <2> QED BY <1>1, <2>1, <2>3, Zenon DEF Width
<1>3. ASSUME NEW c \in {"n", "slash", "quote"}, item = <<"slash", c>> PROVE Len(item) = Width(s, i)
  <2>1. Len(item) = 2
    BY <1>3
  <2>2. i + 1 <= Len(s) /\ CharAt(s, i + 1) = s[i + 1]
    BY <2>1 DEF CharAt
  <2>3. SubSeq(s, i, i + 2 - 1) = <<"slash", c>>
    BY <1>3, <2>1, Zenon
  <2>4. s[i] = "slash" /\ s[i + 1] = c
    BY <2>2, <2>3, Slices
  <2> QED BY <1>1, <2>1, <2>2, <2>4, Zenon DEF Width
<1>4. ASSUME item = <<"slash", "u", "bmp">> PROVE Len(item) = Width(s, i)
  <2>1. Len(item) = 3
    BY <1>4
  <2>2. /\ i + 2 <= Len(s) /\ CharAt(s, i + 1) = s[i + 1] /\ CharAt(s, i + 2) = s[i + 2]
    BY <2>1 DEF CharAt
  <2>3. SubSeq(s, i, i + 3 - 1) = <<"slash", "u", "bmp">>
    BY <1>4, <2>1, Zenon
  <2>4. s[i] = "slash" /\ s[i + 1] = "u" /\ s[i + 2] = "bmp"
    BY <2>2, <2>3, Slices
  <2> QED BY <1>1, <2>1, <2>2, <2>4, Zenon DEF Width
<1>5. ASSUME item = <<"slash", "u", "high", "slash", "u", "low">> PROVE Len(item) = Width(s, i)
  <2>1. Len(item) = 6
    BY <1>5
  <2>2. /\ i + 5 <= Len(s) /\ CharAt(s, i + 1) = s[i + 1] /\ CharAt(s, i + 2) = s[i + 2]
        /\ CharAt(s, i + 3) = s[i + 3] /\ CharAt(s, i + 4) = s[i + 4]
        /\ CharAt(s, i + 5) = s[i + 5]
    BY <2>1 DEF CharAt
  <2>3. SubSeq(s, i, i + 6 - 1) = <<"slash", "u", "high", "slash", "u", "low">>
    BY <1>5, <2>1, Zenon
  <2>4. /\ s[i] = "slash" /\ s[i + 1] = "u" /\ s[i + 2] = "high" /\ s[i + 3] = "slash"
        /\ s[i + 4] = "u" /\ s[i + 5] = "low"
    BY <2>2, <2>3, Slices, SMTT(30)
  <2> QED BY <1>1, <2>1, <2>2, <2>4, Zenon DEF Width
<1>6. \/ \E c \in {"n", "u", "high", "low", "bmp"} : item = <<c>>
      \/ \E c \in {"n", "slash", "quote"} : item = <<"slash", c>>
      \/ item = <<"slash", "u", "bmp">>
      \/ item = <<"slash", "u", "high", "slash", "u", "low">>
  BY Zenon DEF Items
<1> QED BY <1>2, <1>3, <1>4, <1>5, <1>6, Zenon

LEMMA EndExists == ASSUME NEW s \in Seq(StringClasses) PROVE \E f : EndOf(s, f)
<1>1. PICK n \in Nat : n = Len(s)
  OBVIOUS
<1> DEFINE D == 1..n + 7
           V == 0..n + 8
           m == [i \in D |-> n + 7 - i]
           G == [g \in [D -> V] |-> [i \in D |-> EndStep(s, g, i)]]
<1>2. m \in [D -> 0..n + 7] /\ n + 7 \in Nat /\ V # {}
  <2>1. \A i \in D : n + 7 - i \in 0..n + 7
    OBVIOUS
  <2>2. n + 7 \in Nat /\ 0 \in V
    OBVIOUS
  <2> QED BY <2>1, <2>2, Zenon
<1>3. ASSUME NEW i \in D, Width(s, i) # 0
      PROVE  i + Width(s, i) \in D /\ m[i + Width(s, i)] < m[i]
  <2>1. PICK k \in {0, 1, 2, 3, 6} : k = Width(s, i) /\ i + k - 1 <= n
    BY <1>1, <1>3, WidthFits
  <2>2. k \in 1..6
    BY <1>3, <2>1
  <2>3. i + k \in D /\ m[i + k] < m[i]
    BY <1>1, <2>1, <2>2, SMTT(30)
  <2> QED BY <2>1, <2>3, Zenon
<1>4. ASSUME NEW g \in [D -> V], NEW i \in D PROVE EndStep(s, g, i) \in V
  <2>1. i \in Nat \ {0} /\ i + 1 \in V /\ 0 \in V
    OBVIOUS
  <2>2. EndStep(s, g, i) = IF CharAt(s, i) = "quote" THEN i + 1
                           ELSE IF Width(s, i) = 0 THEN 0 ELSE g[i + Width(s, i)]
    BY <2>1, EndStepWidth, Zenon
  <2>3. Width(s, i) # 0 => g[i + Width(s, i)] \in V
    BY <1>3
  <2> QED BY <2>1, <2>2, <2>3, Zenon
<1>5. G \in [[D -> V] -> [D -> V]]
  BY <1>4, Zenon
<1>6. ASSUME NEW g \in [D -> V], NEW h \in [D -> V], NEW i \in D,
             \A y \in D : m[y] < m[i] => g[y] = h[y]
      PROVE  G[g][i] = G[h][i]
  <2>1. i \in Nat \ {0}
    OBVIOUS
  <2>2. Width(s, i) # 0 => g[i + Width(s, i)] = h[i + Width(s, i)]
    BY <1>3, <1>6, Zenon
  <2>3. EndStep(s, g, i) = EndStep(s, h, i)
    BY <2>1, <2>2, EndStepWidth, Zenon
  <2> QED BY <2>3, Zenon
<1>7. \A g, h \in [D -> V], i \in D :
        (\A y \in D : m[y] < m[i] => g[y] = h[y]) => G[g][i] = G[h][i]
  <2> HIDE DEF m, G, D, V
  <2> QED BY <1>6, Zenon
<1>8. Defines(G, D, V, m, n + 7)
  <2> HIDE DEF m, G, D, V
  <2> QED BY <1>2, <1>5, <1>7, Zenon DEF Defines
<1>9. PICK f \in [D -> V] : f = G[f]
  <2> HIDE DEF m, G, D, V
  <2> QED BY <1>8, Recursion
<1>10. f = [i \in D |-> EndStep(s, f, i)]
  BY <1>9, Zenon
<1> QED BY <1>1, <1>10, Zenon DEF EndOf

\* The grammar takes what the scanner takes.
LEMMA BodyStepWidth ==
  ASSUME NEW s \in Seq(StringClasses), NEW i \in 1..Len(s), NEW g
  PROVE  BodyStep(s, g, i) <=> IF i = Len(s) THEN s[i] = "quote"
                               ELSE /\ Width(s, i) > 0 /\ i + Width(s, i) <= Len(s)
                                    /\ g[i + Width(s, i)]
<1>1. CASE i = Len(s)
  BY <1>1, Zenon DEF BodyStep
<1>2. CASE i # Len(s)
  <2>1. ASSUME NEW item \in Items, i + Len(item) <= Len(s),
               SubSeq(s, i, i + Len(item) - 1) = item, g[i + Len(item)]
        PROVE  Width(s, i) > 0 /\ i + Width(s, i) <= Len(s) /\ g[i + Width(s, i)]
    <3>1. Len(item) \in {1, 2, 3, 6}
      BY ItemLengths
    <3>2. i + Len(item) - 1 <= Len(s) /\ Len(item) > 0
      <4>1. PICK k \in {1, 2, 3, 6} : k = Len(item)
        BY <3>1
      <4>2. i + k <= Len(s)
        BY <2>1, <4>1, Zenon
      <4>3. i + k - 1 <= Len(s) /\ k > 0
        BY <4>2
      <4> QED BY <4>1, <4>3, Zenon
    <3>3. Len(item) = Width(s, i)
      BY <2>1, <3>2, TakenWidth, Zenon
    <3> QED BY <2>1, <3>2, <3>3, Zenon
  <2>2. ASSUME Width(s, i) > 0, i + Width(s, i) <= Len(s), g[i + Width(s, i)]
        PROVE  \E item \in Items :
                 /\ i + Len(item) <= Len(s) /\ SubSeq(s, i, i + Len(item) - 1) = item
                 /\ g[i + Len(item)]
    <3>1. PICK item : TakesItem(s, i, Width(s, i), item)
      BY <2>2, WidthTaken, Zenon
    <3> QED BY <2>2, <3>1, Zenon DEF TakesItem
  <2> QED BY <1>2, <2>1, <2>2, Zenon DEF BodyStep
<1> QED BY <1>1, <1>2, Zenon

LEMMA BodyStepBoolean == ASSUME NEW s, NEW g, NEW i PROVE BodyStep(s, g, i) \in BOOLEAN
BY Zenon DEF BodyStep

LEMMA BodyExists == ASSUME NEW s \in Seq(StringClasses) PROVE \E b : BodyOf(s, b)
<1>1. PICK n \in Nat : n = Len(s)
  OBVIOUS
<1> DEFINE D == 1..n
           m == [i \in D |-> n - i]
           G == [g \in [D -> BOOLEAN] |-> [i \in D |-> BodyStep(s, g, i)]]
<1>2. m \in [D -> 0..n]
  OBVIOUS
<1>4. BOOLEAN # {}
  BY Zenon
<1>3. ASSUME NEW i \in D, Width(s, i) > 0, i + Width(s, i) <= n
      PROVE  i + Width(s, i) \in D /\ m[i + Width(s, i)] < m[i]
  <2>1. PICK k \in {0, 1, 2, 3, 6} : k = Width(s, i)
    BY <1>1, WidthFits
  <2>2. i + k \in D /\ m[i + k] < m[i]
    BY <1>1, <1>3, <2>1
  <2> QED BY <2>1, <2>2, Zenon
<1>5. G \in [[D -> BOOLEAN] -> [D -> BOOLEAN]]
  BY BodyStepBoolean, Zenon
<1>6. ASSUME NEW g \in [D -> BOOLEAN], NEW h \in [D -> BOOLEAN], NEW i \in D,
             \A y \in D : m[y] < m[i] => g[y] = h[y]
      PROVE  G[g][i] = G[h][i]
  <2>1. Width(s, i) > 0 /\ i + Width(s, i) <= n => g[i + Width(s, i)] = h[i + Width(s, i)]
    BY <1>3, <1>6, Zenon
  <2>2. BodyStep(s, g, i) <=> BodyStep(s, h, i)
    BY <1>1, <2>1, BodyStepWidth, Zenon
  <2>3. BodyStep(s, g, i) = BodyStep(s, h, i)
    BY <2>2, BodyStepBoolean, Zenon
  <2> QED BY <2>3, Zenon
<1>7. \A g, h \in [D -> BOOLEAN], i \in D :
        (\A y \in D : m[y] < m[i] => g[y] = h[y]) => G[g][i] = G[h][i]
  <2> HIDE DEF m, G, D
  <2> QED BY <1>6, Zenon
<1>8. Defines(G, D, BOOLEAN, m, n)
  <2> HIDE DEF m, G, D
  <2> QED BY <1>2, <1>4, <1>5, <1>7, Zenon DEF Defines
<1>9. PICK b \in [D -> BOOLEAN] : b = G[b]
  <2> HIDE DEF m, G, D
  <2> QED BY <1>8, Recursion
<1>10. b = [i \in D |-> BodyStep(s, b, i)]
  BY <1>9, Zenon
<1> QED BY <1>1, <1>10, Zenon DEF BodyOf

\* From every position the scanner reaches the end where the grammar does.
LEMMA EndsAgree ==
  ASSUME NEW s \in Seq(StringClasses), NEW f, NEW b, EndOf(s, f), BodyOf(s, b), NEW i \in 1..Len(s)
  PROVE  f[i] = Len(s) + 1 <=> b[i]
<1>1. PICK n \in Nat : n = Len(s)
  OBVIOUS
<1>2. ASSUME NEW k \in 1..n + 7
      PROVE  f[k] = IF CharAt(s, k) = "quote" THEN k + 1
                    ELSE IF Width(s, k) = 0 THEN 0 ELSE f[k + Width(s, k)]
  <2>1. f[k] = EndStep(s, f, k)
    BY <1>1, Zenon DEF EndOf
  <2>2. k \in Nat \ {0}
    OBVIOUS
  <2> QED BY <2>1, <2>2, EndStepWidth, Zenon
<1>3. ASSUME NEW k \in 1..n
      PROVE  b[k] <=> IF k = n THEN s[k] = "quote"
                      ELSE Width(s, k) > 0 /\ k + Width(s, k) <= n /\ b[k + Width(s, k)]
  <2>1. b[k] = BodyStep(s, b, k)
    BY <1>1, Zenon DEF BodyOf
  <2> QED BY <1>1, <2>1, BodyStepWidth, Zenon
<1>4. f[n + 1] = 0 /\ 0 # n + 1
  <2>1. n + 1 \in 1..n + 7 /\ ~(n + 1 <= n) /\ 0 # n + 1
    OBVIOUS
  <2>2. CharAt(s, n + 1) = "end"
    BY <1>1, <2>1, Zenon DEF CharAt
  <2>3. Width(s, n + 1) = 0
    BY <2>2, Zenon DEF Width
  <2> QED BY <1>2, <2>1, <2>2, <2>3, Zenon
<1>5. ASSUME NEW k \in 1..n
      PROVE  /\ CharAt(s, k) = s[k]
             /\ Width(s, k) \in {0, 1, 2, 3, 6}
             /\ Width(s, k) # 0 => /\ Width(s, k) > 0 /\ k + Width(s, k) <= n + 1
                                   /\ CharAt(s, k) # "quote"
  <2>1. k \in Nat \ {0} /\ k <= n
    OBVIOUS
  <2>2. CharAt(s, k) = s[k]
    BY <1>1, <2>1, Zenon DEF CharAt
  <2>3. PICK w \in {0, 1, 2, 3, 6} :
          w = Width(s, k) /\ (w > 0 => k + w - 1 <= n /\ CharAt(s, k) # "quote")
    BY <1>1, <2>1, WidthFits
  <2>4. w # 0 => w > 0 /\ k + w <= n + 1 /\ CharAt(s, k) # "quote"
    BY <2>3
  <2> QED BY <2>2, <2>3, <2>4, Zenon
<1> DEFINE T == {m \in 0..n : \A k \in 1..n : k >= n + 1 - m => (f[k] = n + 1 <=> b[k])}
<1>6. 0 \in T
  OBVIOUS
<1>7. ASSUME NEW m \in 1..n, m - 1 \in T PROVE m \in T
  <2>1. PICK k \in 1..n : k = n + 1 - m
    OBVIOUS
  <2>2. \A j \in 1..n : j > k => (f[j] = n + 1 <=> b[j])
    <3>1. \A j \in 1..n : j >= n + 1 - (m - 1) => (f[j] = n + 1 <=> b[j])
      BY <1>7, Zenon
    <3>2. \A j \in 1..n : j > k => j >= n + 1 - (m - 1)
      BY <2>1
    <3> QED BY <3>1, <3>2, Zenon
  <2>3. k \in 1..n + 7 /\ k + 1 # 0 /\ (k + 1 = n + 1 <=> k = n)
    BY <2>1
  <2>4. ASSUME CharAt(s, k) = "quote" PROVE f[k] = n + 1 <=> b[k]
    <3>1. f[k] = k + 1
      BY <1>2, <2>3, <2>4, Zenon
    <3>2. ~(Width(s, k) > 0)
      BY <1>5, <2>4
    <3> QED BY <1>3, <1>5, <2>3, <2>4, <3>1, <3>2, Zenon
  <2>5. ASSUME CharAt(s, k) # "quote", Width(s, k) = 0 PROVE f[k] = n + 1 <=> b[k]
    <3>1. f[k] = 0 /\ ~(Width(s, k) > 0)
      BY <1>2, <2>3, <2>5
    <3> QED BY <1>3, <1>4, <1>5, <2>5, <3>1, Zenon
  <2>6. ASSUME CharAt(s, k) # "quote", Width(s, k) # 0 PROVE f[k] = n + 1 <=> b[k]
    <3>1. PICK w \in {0, 1, 2, 3, 6} : w = Width(s, k)
      BY <1>5
    <3>2. f[k] = f[k + w] /\ w > 0 /\ k + w <= n + 1
      BY <1>2, <1>5, <2>3, <2>6, <3>1, Zenon
    <3>3. CASE k + w = n + 1
      <4>1. f[k] = 0 /\ ~(k + w <= n)
        BY <1>4, <3>2, <3>3
      <4> QED BY <1>3, <1>4, <1>5, <2>6, <3>1, <4>1, Zenon
    <3>4. CASE k + w # n + 1
      <4>1. k + w \in 1..n /\ k + w > k /\ k + w <= n /\ k # n
        BY <3>2, <3>4
      <4>2. f[k + w] = n + 1 <=> b[k + w]
        BY <2>2, <4>1, Zenon
      <4> QED BY <1>3, <3>1, <3>2, <4>1, <4>2, Zenon
    <3> QED BY <3>3, <3>4, Zenon
  <2>7. f[k] = n + 1 <=> b[k]
    BY <2>4, <2>5, <2>6, Zenon
  <2>8. \A j \in 1..n : j >= n + 1 - m => j > k \/ j = k
    BY <2>1
  <2>9. \A j \in 1..n : j >= n + 1 - m => (f[j] = n + 1 <=> b[j])
    BY <2>2, <2>7, <2>8, Zenon
  <2>10. m \in 0..n
    OBVIOUS
  <2> QED BY <2>9, <2>10, Zenon
<1>8. 0..n \subseteq T
  <2> HIDE DEF T
  <2> QED BY <1>6, <1>7, IntervalInduction
<1>9. n \in 0..n /\ \A k \in 1..n : k >= n + 1 - n
  OBVIOUS
<1> QED BY <1>1, <1>8, <1>9, Zenon

\* For every text of these letters, however long.
LEMMA StringsAgree ==
  ASSUME NEW s \in Seq(StringClasses)
  PROVE  StringEnd(s) = Len(s) + 1 <=> Matches(s)
<1>1. PICK n \in Nat : n = Len(s)
  OBVIOUS
<1>2. PICK f, b : f = (CHOOSE x : EndOf(s, x)) /\ b = (CHOOSE x : BodyOf(s, x))
  OBVIOUS
<1>3. EndOf(s, f) /\ BodyOf(s, b)
  BY <1>2, EndExists, BodyExists
<1>4. StringEnd(s) = IF CharAt(s, 1) = "quote" THEN f[2] ELSE 0
  BY <1>2, StringEndDef
<1>5. Matches(s) <=> n > 1 /\ s[1] = "quote" /\ b[2]
  BY <1>1, <1>2, MatchesDef, Zenon
<1>6. CASE n > 1
  <2>1. 2 \in 1..n /\ 1 <= n /\ 0 # n + 1
    BY <1>6
  <2>2. CharAt(s, 1) = s[1]
    BY <1>1, <2>1, Zenon DEF CharAt
  <2>3. f[2] = n + 1 <=> b[2]
    BY <1>1, <1>3, <2>1, EndsAgree, Zenon
  <2> QED BY <1>1, <1>4, <1>5, <1>6, <2>1, <2>2, <2>3, Zenon
<1>7. CASE ~(n > 1)
  <2>1. 2 \in 1..n + 7 /\ ~(2 <= n) /\ 0 # n + 1 /\ 2 \in Nat \ {0}
    BY <1>7
  <2>2. CharAt(s, 2) = "end"
    BY <1>1, <2>1, Zenon DEF CharAt
  <2>3. Width(s, 2) = 0
    BY <2>2, Zenon DEF Width
  <2>4. f[2] = EndStep(s, f, 2)
    BY <1>1, <1>3, <2>1, Zenon DEF EndOf
  <2>5. f[2] = 0
    BY <2>1, <2>2, <2>3, <2>4, EndStepWidth, Zenon
  <2> QED BY <1>1, <1>4, <1>5, <1>7, <2>1, <2>5, Zenon
<1> QED BY <1>6, <1>7, Zenon

-----------------------------------------------------------------------------
(* Doubles.                                                                  *)

PowersTo(p, k) == p = [i \in 0..k |-> IF i = 0 THEN 1 ELSE 2 * p[i - 1]]

LEMMA TwoToDef == ASSUME NEW k PROVE TwoTo(k) = (CHOOSE p : PowersTo(p, k))[k]
BY Zenon DEF TwoTo, PowersTo

LEMMA PowersExist == ASSUME NEW k \in Nat PROVE \E p : PowersTo(p, k)
<1> DEFINE D == 0..k
           m == [i \in D |-> i]
           G == [g \in [D -> Nat] |-> [i \in D |-> IF i = 0 THEN 1 ELSE 2 * g[i - 1]]]
<1>1. m \in [D -> 0..k] /\ Nat # {}
  OBVIOUS
<1>2. ASSUME NEW i \in D, i # 0 PROVE i - 1 \in D /\ m[i - 1] < m[i]
  BY <1>2
<1>3. ASSUME NEW g \in [D -> Nat], NEW i \in D
      PROVE  (IF i = 0 THEN 1 ELSE 2 * g[i - 1]) \in Nat
  <2>1. i # 0 => g[i - 1] \in Nat
    BY <1>2
  <2> QED BY <2>1
<1>4. G \in [[D -> Nat] -> [D -> Nat]]
  BY <1>3, Zenon
<1>5. ASSUME NEW g \in [D -> Nat], NEW h \in [D -> Nat], NEW i \in D,
             \A y \in D : m[y] < m[i] => g[y] = h[y]
      PROVE  G[g][i] = G[h][i]
  <2>1. i # 0 => g[i - 1] = h[i - 1]
    BY <1>2, <1>5, Zenon
  <2> QED BY <2>1, Zenon
<1>6. \A g, h \in [D -> Nat], i \in D :
        (\A y \in D : m[y] < m[i] => g[y] = h[y]) => G[g][i] = G[h][i]
  <2> HIDE DEF m, G, D
  <2> QED BY <1>5, Zenon
<1>7. Defines(G, D, Nat, m, k)
  <2> HIDE DEF m, G, D
  <2>1. m \in [D -> 0..k] /\ Nat # {}
    BY <1>1
  <2> QED BY <2>1, <1>4, <1>6, Zenon DEF Defines
<1>8. PICK p \in [D -> Nat] : p = G[p]
  <2> HIDE DEF m, G, D
  <2> QED BY <1>7, Recursion
<1>9. p = [i \in D |-> IF i = 0 THEN 1 ELSE 2 * p[i - 1]]
  BY <1>8, Zenon
<1> QED BY <1>9, Zenon DEF PowersTo

\* The powers do not depend on how far they are taken.
LEMMA PowersMeet ==
  ASSUME NEW k \in Nat, NEW n \in Nat, NEW p, NEW q, PowersTo(p, k), PowersTo(q, n), k <= n
  PROVE  p[k] = q[k]
<1> DEFINE T == {i \in 0..k : p[i] = q[i]}
<1>1. /\ \A i \in 0..k : p[i] = IF i = 0 THEN 1 ELSE 2 * p[i - 1]
      /\ \A i \in 0..n : q[i] = IF i = 0 THEN 1 ELSE 2 * q[i - 1]
  BY Zenon DEF PowersTo
<1>2. 0 \in T
  BY <1>1
<1>3. ASSUME NEW i \in 1..k, i - 1 \in T PROVE i \in T
  <2>1. i \in 0..k /\ i \in 0..n /\ i # 0
    OBVIOUS
  <2>2. p[i] = 2 * p[i - 1] /\ q[i] = 2 * q[i - 1] /\ p[i - 1] = q[i - 1]
    BY <1>1, <1>3, <2>1, Zenon
  <2> QED BY <2>1, <2>2, Zenon
<1>4. 0..k \subseteq T
  <2> HIDE DEF T
  <2> QED BY <1>2, <1>3, IntervalInduction
<1>5. k \in 0..k
  OBVIOUS
<1> QED BY <1>4, <1>5, Zenon

LEMMA TwoToSteps ==
  /\ TwoTo(0) = 1
  /\ \A k \in Nat : TwoTo(k + 1) = 2 * TwoTo(k)
<1>1. ASSUME NEW k \in Nat PROVE \E p : PowersTo(p, k) /\ TwoTo(k) = p[k]
  <2>1. PICK p : p = CHOOSE x : PowersTo(x, k)
    OBVIOUS
  <2>2. PowersTo(p, k)
    BY <2>1, PowersExist
  <2>3. TwoTo(k) = p[k]
    BY <2>1, TwoToDef
  <2> QED BY <2>2, <2>3, Zenon
<1>2. TwoTo(0) = 1
  <2>1. PICK p : PowersTo(p, 0) /\ TwoTo(0) = p[0]
    BY <1>1
  <2>2. 0 \in 0..0
    OBVIOUS
  <2> QED BY <2>1, <2>2, Zenon DEF PowersTo
<1>3. ASSUME NEW k \in Nat PROVE TwoTo(k + 1) = 2 * TwoTo(k)
  <2>1. PICK n \in Nat : n = k + 1
    OBVIOUS
  <2>2. n \in 0..n /\ n # 0 /\ n - 1 = k /\ k <= n
    BY <2>1
  <2>3. PICK p : PowersTo(p, k) /\ TwoTo(k) = p[k]
    BY <1>1
  <2>4. PICK q : PowersTo(q, n) /\ TwoTo(n) = q[n]
    BY <1>1
  <2>5. p[k] = q[k]
    BY <2>2, <2>3, <2>4, PowersMeet
  <2>6. q[n] = 2 * q[n - 1]
    BY <2>2, <2>4, Zenon DEF PowersTo
  <2>7. q[n] = 2 * q[k]
    BY <2>2, <2>6, Zenon
  <2> QED BY <2>1, <2>3, <2>4, <2>5, <2>7, Zenon
<1> QED BY <1>2, <1>3, Zenon

LEMMA TwoToPositive == ASSUME NEW k \in Nat PROVE TwoTo(k) \in Nat \ {0}
<1> DEFINE T == {i \in Nat : TwoTo(i) \in Nat \ {0}}
<1>1. 0 \in T
  BY TwoToSteps
<1>2. ASSUME NEW i \in Nat, i \in T PROVE i + 1 \in T
  BY <1>2, TwoToSteps
<1>3. Nat \subseteq T
  <2> HIDE DEF T
  <2> QED BY <1>1, <1>2, Induction
<1> QED BY <1>3

LEMMA TwoToSum ==
  ASSUME NEW a \in Nat, NEW k \in Nat PROVE TwoTo(a + k) = TwoTo(a) * TwoTo(k)
<1> DEFINE T == {i \in Nat : TwoTo(a + i) = TwoTo(a) * TwoTo(i)}
<1>1. 0 \in T
  <2>1. PICK h \in Nat : h = TwoTo(a)
    BY TwoToPositive
  <2>2. a + 0 = a /\ h * 1 = h
    OBVIOUS
  <2>3. TwoTo(a + 0) = TwoTo(a) * TwoTo(0)
    BY <2>1, <2>2, TwoToSteps, Zenon
  <2>4. 0 \in Nat
    OBVIOUS
  <2> QED BY <2>3, <2>4, Zenon
<1>2. ASSUME NEW i \in Nat, i \in T PROVE i + 1 \in T
  <2>1. PICK h \in Nat, b \in Nat : h = TwoTo(a) /\ b = TwoTo(i)
    BY TwoToPositive
  <2>2. PICK e \in Nat : e = a + i
    OBVIOUS
  <2>3. a + (i + 1) = e + 1 /\ i + 1 \in Nat
    BY <2>2
  <2>4. TwoTo(e + 1) = 2 * TwoTo(e) /\ TwoTo(i + 1) = 2 * TwoTo(i)
    BY TwoToSteps, Zenon
  <2>5. TwoTo(e) = h * b
    BY <1>2, <2>1, <2>2, Zenon
  <2>6. 2 * (h * b) = h * (2 * b)
    OBVIOUS
  <2>7. TwoTo(a + (i + 1)) = TwoTo(a) * TwoTo(i + 1)
    BY <2>1, <2>3, <2>4, <2>5, <2>6, Zenon
  <2> QED BY <2>3, <2>7, Zenon
<1>3. Nat \subseteq T
  <2> HIDE DEF T
  <2> QED BY <1>1, <1>2, Induction
<1> QED BY <1>3, Zenon

\* Powers outgrow their exponents.
LEMMA TwoToGrows == ASSUME NEW k \in Nat PROVE k < TwoTo(k)
<1> DEFINE T == {i \in Nat : i < TwoTo(i)}
<1>1. 0 \in T
  BY TwoToSteps
<1>2. ASSUME NEW i \in Nat, i \in T PROVE i + 1 \in T
  <2>1. PICK b \in Nat : b = TwoTo(i) /\ i < b
    BY <1>2, TwoToPositive
  <2>2. i + 1 < 2 * b /\ i + 1 \in Nat
    BY <2>1
  <2>3. TwoTo(i + 1) = 2 * b
    BY <2>1, TwoToSteps, Zenon
  <2> QED BY <2>2, <2>3, Zenon
<1>3. Nat \subseteq T
  <2> HIDE DEF T
  <2> QED BY <1>1, <1>2, Induction
<1> QED BY <1>3, Zenon

\* The unit in the last place of a double as large as n, and n in whole units.
Fits(n, k) == /\ n < TwoTo(Mantissa + k)
              /\ k = 0 \/ n >= TwoTo(Mantissa + k - 1)
ScaleOf(n, k) == k \in 0..n /\ Fits(n, k)
Rounded(n, k, b) ==
  LET q == n \div b
      r == n % b
      up == \/ 2 * r > b
            \/ 2 * r = b /\ q % 2 = 1
  IN (q + IF up /\ k > 0 THEN 1 ELSE 0) * b

LEMMA ToDoubleUnfold ==
  ASSUME NEW n
  PROVE  ToDouble(n) = Rounded(n, CHOOSE k \in 0..n : Fits(n, k),
                               TwoTo(CHOOSE k \in 0..n : Fits(n, k)))
BY Zenon DEF ToDouble, Rounded, Fits

LEMMA ToDoubleDef ==
  ASSUME NEW n \in Nat
  PROVE  \E k : ScaleOf(n, k) /\ ToDouble(n) = Rounded(n, k, TwoTo(k))
<1>1. Mantissa \in Nat \ {0}
  BY LexicalAssumption
<1>2. \E k \in 0..n : Fits(n, k)
  <2> DEFINE T == {k \in Nat : n < TwoTo(Mantissa + k)}
  <2>1. n \in T
    <3>1. PICK h \in Nat \ {0}, b \in Nat \ {0} : h = TwoTo(Mantissa) /\ b = TwoTo(n) /\ n < b
      BY <1>1, TwoToPositive, TwoToGrows
    <3>2. n < h * b
      BY <3>1
    <3>3. TwoTo(Mantissa + n) = h * b
      BY <1>1, <3>1, TwoToSum
    <3> QED BY <3>2, <3>3, Zenon
  <2>2. T \in SUBSET Nat /\ T # {}
    BY <2>1
  <2>3. PICK k \in T : \A y \in T : k <= y
    BY <2>2, LeastExists
  <2>4. k \in 0..n /\ n < TwoTo(Mantissa + k)
    BY <2>1, <2>3
  <2>5. ASSUME k # 0 PROVE n >= TwoTo(Mantissa + k - 1)
    <3>1. PICK j \in Nat : j = k - 1
      BY <2>4, <2>5
    <3>2. ~(k <= j) /\ Mantissa + j = Mantissa + k - 1 /\ Mantissa + j \in Nat
      BY <1>1, <2>4, <3>1
    <3>3. ~(n < TwoTo(Mantissa + j))
      BY <2>3, <3>2, Zenon
    <3>4. PICK b \in Nat : b = TwoTo(Mantissa + j)
      BY <3>2, TwoToPositive
    <3>5. n >= b
      BY <3>3, <3>4
    <3> QED BY <3>2, <3>4, <3>5, Zenon
  <2> QED BY <2>4, <2>5, Zenon DEF Fits
<1>3. PICK k : k = CHOOSE x \in 0..n : Fits(n, x)
  OBVIOUS
<1>4. ScaleOf(n, k)
  BY <1>2, <1>3 DEF ScaleOf
<1>5. ToDouble(n) = Rounded(n, k, TwoTo(k))
  BY <1>3, ToDoubleUnfold
<1> QED BY <1>4, <1>5, Zenon

\* A value that fits is not rounded; one with a unit of more than 1 that is
\* rounded to the limit is the limit or the one above it.
LEMMA RoundsRight ==
  ASSUME NEW n \in Nat, NEW k \in Nat, NEW h \in Nat \ {0}, NEW b \in Nat \ {0},
         k = 0 => b = 1 /\ n < 2 * h,
         k # 0 => (\E c \in Nat \ {0} : b = 2 * c) /\ n >= h * b
  PROVE  /\ Rounded(n, k, b) \in Nat
         /\ n <= 2 * h => Rounded(n, k, b) <= 2 * h
         /\ Rounded(n, k, b) <= 2 * h => Rounded(n, k, b) = n \/ n = 2 * h + 1
<1>1. PICK q \in Nat, r \in Nat : /\ q = n \div b /\ r = n % b
                                  /\ n = b * q + r /\ r < b
  <2>1. n \div b \in Nat /\ n % b \in Nat
    OBVIOUS
  <2>2. n = b * (n \div b) + (n % b) /\ n % b < b
    OBVIOUS
  <2> QED BY <2>1, <2>2
<1>2. PICK u \in {0, 1} :
        u = IF (2 * r > b \/ (2 * r = b /\ q % 2 = 1)) /\ k > 0 THEN 1 ELSE 0
  OBVIOUS
<1>3. Rounded(n, k, b) = (q + u) * b
  BY <1>1, <1>2, Zenon DEF Rounded
<1>4. CASE k = 0
  <2>1. b = 1 /\ u = 0 /\ n < 2 * h
    BY <1>2, <1>4
  <2>2. r = 0 /\ q = n
    BY <1>1, <2>1
  <2>3. (q + u) * b = n
    BY <2>1, <2>2
  <2> QED BY <1>3, <2>1, <2>3
<1>5. CASE k # 0
  <2>1. PICK c \in Nat \ {0} : b = 2 * c
    BY <1>5
  <2>2. n >= h * b
    BY <1>5
  <2>3. q >= h
    <3>1. SUFFICES ASSUME q + 1 <= h PROVE FALSE
      OBVIOUS
    <3>2. PICK t \in Nat : h = q + 1 + t
      BY <3>1
    <3>3. h * b = b * q + b + t * b
      BY <3>2
    <3>4. t * b >= 0
      OBVIOUS
    <3> QED BY <1>1, <2>2, <3>3, <3>4
  <2>4. PICK v \in Nat : q + u = h + v
    BY <2>3
  <2>5. PICK w \in Nat : c = 1 + w
    BY <2>1
  <2>6. (q + u) * b = 2 * h + 2 * v + 2 * (h * w) + 2 * (v * w)
    BY <2>1, <2>4, <2>5
  <2>7. h * w >= w /\ v * w >= 0 /\ h * w \in Nat /\ v * w \in Nat
    OBVIOUS
  <2>8. (q + u) * b \in Nat
    BY <2>6, <2>7
  <2>9. ASSUME (q + u) * b <= 2 * h PROVE u = 0 /\ q = h /\ b = 2
    BY <2>1, <2>3, <2>4, <2>5, <2>6, <2>7, <2>9
  <2>10. ASSUME (q + u) * b <= 2 * h PROVE (q + u) * b = n \/ n = 2 * h + 1
    <3>1. u = 0 /\ q = h /\ b = 2
      BY <2>9, <2>10
    <3>2. n = 2 * h + r /\ r < 2 /\ (q + u) * b = 2 * h
      BY <1>1, <3>1
    <3> QED BY <3>2
  <2>11. ASSUME n <= 2 * h PROVE (q + u) * b <= 2 * h
    <3>1. h * b = 2 * h + 2 * (h * w)
      BY <2>1, <2>5
    <3>2. w = 0 /\ n = 2 * h
      BY <2>2, <2>7, <2>11, <3>1
    <3>3. b = 2
      BY <2>1, <2>5, <3>2
    <3>4. q = h /\ r = 0
      BY <1>1, <3>2, <3>3
    <3>5. u = 0
      BY <1>2, <3>3, <3>4
    <3> QED BY <3>3, <3>4, <3>5
  <2> QED BY <1>3, <2>8, <2>10, <2>11, Zenon
<1> QED BY <1>4, <1>5, Zenon

DoubleRight(n) ==
  LET read == AsInt(ToDouble(n))
  IN /\ n <= TwoTo(Mantissa) => read.ok
     /\ read.ok => read.value = n \/ n = TwoTo(Mantissa) + 1

LEMMA DoublesAgree == ASSUME NEW n \in Nat PROVE DoubleRight(n)
<1>1. PICK k : ScaleOf(n, k) /\ ToDouble(n) = Rounded(n, k, TwoTo(k))
  BY ToDoubleDef
<1>2. Mantissa \in Nat \ {0} /\ k \in Nat
  BY <1>1, LexicalAssumption DEF ScaleOf
<1>3. PICK e \in Nat : Mantissa = e + 1
  <2>1. Mantissa - 1 \in Nat /\ Mantissa = (Mantissa - 1) + 1
    BY <1>2
  <2> QED BY <2>1
<1>4. PICK h \in Nat \ {0}, b \in Nat \ {0} : h = TwoTo(e) /\ b = TwoTo(k)
  BY <1>2, TwoToPositive
<1>5. TwoTo(Mantissa) = 2 * h
  BY <1>3, <1>4, TwoToSteps, Zenon
<1>6. k = 0 => b = 1 /\ n < 2 * h
  <2> SUFFICES ASSUME k = 0 PROVE b = 1 /\ n < 2 * h
    OBVIOUS
  <2>1. b = 1
    BY <1>4, TwoToSteps, Zenon
  <2>2. Mantissa + k = Mantissa
    BY <1>2
  <2>3. n < 2 * h
    BY <1>1, <1>5, <2>2, Zenon DEF ScaleOf, Fits
  <2> QED BY <2>1, <2>3, Zenon
<1>7. k # 0 => (\E c \in Nat \ {0} : b = 2 * c) /\ n >= h * b
  <2> SUFFICES ASSUME k # 0 PROVE (\E c \in Nat \ {0} : b = 2 * c) /\ n >= h * b
    OBVIOUS
  <2>1. PICK j \in Nat : k = j + 1
    <3>1. k - 1 \in Nat /\ k = (k - 1) + 1
      BY <1>2
    <3> QED BY <3>1
  <2>2. PICK c \in Nat \ {0} : c = TwoTo(j)
    BY TwoToPositive
  <2>3. b = 2 * c
    BY <1>4, <2>1, <2>2, TwoToSteps, Zenon
  <2>4. Mantissa + k - 1 = e + k
    BY <1>2, <1>3
  <2>5. TwoTo(e + k) = h * b
    BY <1>2, <1>4, TwoToSum, Zenon
  <2>6. n >= h * b
    BY <1>1, <2>4, <2>5, Zenon DEF ScaleOf, Fits
  <2> QED BY <2>2, <2>3, <2>6, Zenon
<1>8. PICK x \in Nat : /\ x = ToDouble(n)
                       /\ n <= 2 * h => x <= 2 * h
                       /\ x <= 2 * h => x = n \/ n = 2 * h + 1
  <2>1. /\ Rounded(n, k, b) \in Nat
        /\ n <= 2 * h => Rounded(n, k, b) <= 2 * h
        /\ Rounded(n, k, b) <= 2 * h => Rounded(n, k, b) = n \/ n = 2 * h + 1
    BY <1>2, <1>6, <1>7, RoundsRight, Zenon
  <2> QED BY <1>1, <1>4, <2>1, Zenon
<1>9. AsInt(ToDouble(n)).ok = (x <= 2 * h) /\ AsInt(ToDouble(n)).value = x
  BY <1>5, <1>8 DEF AsInt
<1> QED BY <1>5, <1>8, <1>9, Zenon DEF DoubleRight

-----------------------------------------------------------------------------
(* White space at both ends.                                                 *)

LEMMA OctetText ==
  ASSUME NEW s \in Seq(Octet)
  PROVE  Len(s) \in Nat /\ \A i \in 1..Len(s) : s[i] \in Octet /\ s[i] \in Nat
<1>1. Len(s) \in Nat /\ \A i \in 1..Len(s) : s[i] \in Octet
  BY LenProperties
<1>2. \A c \in Octet : c \in Nat
  BY DEF Octet
<1> QED BY <1>1, <1>2

LEMMA GreatestExists ==
  ASSUME NEW n \in Nat, NEW T \in SUBSET (0..n), T # {}
  PROVE  \E x \in T : \A y \in T : y <= x
<1> DEFINE D == {n - y : y \in T}
<1>0. PICK z : z \in T
  OBVIOUS
<1>1. D \in SUBSET Nat /\ D # {}
  <2>1. \A y \in T : n - y \in Nat
    OBVIOUS
  <2>2. n - z \in D
    BY <1>0
  <2> QED BY <2>1, <2>2
<1>2. PICK d \in D : \A y \in D : d <= y
  BY <1>1, LeastExists
<1>3. PICK x \in T : d = n - x
  BY <1>2
<1>4. \A y \in T : n - x <= n - y
  BY <1>2, <1>3
<1> QED BY <1>3, <1>4

\* a characters taken off at the front and b at the end, all of them blank.
Strips(v, a, b) ==
  /\ a \in 0..Len(v) /\ b \in 0..Len(v) /\ a + b <= Len(v)
  /\ \A k \in 1..a : IsSpace(v[k])
  /\ \A k \in (Len(v) - b + 1)..Len(v) : IsSpace(v[k])

\* Nothing more to take off.
Tight(m) == m # <<>> => ~IsSpace(m[1]) /\ ~IsSpace(m[Len(m)])

LEMMA TrimmedDef ==
  ASSUME NEW v \in Seq(Octet), NEW t,
         \E a, b \in Nat : Strips(v, a, b) /\ t = SubSeq(v, a + 1, Len(v) - b),
         Tight(t),
         \A a, b \in Nat : Strips(v, a, b) /\ Tight(SubSeq(v, a + 1, Len(v) - b))
                             => SubSeq(v, a + 1, Len(v) - b) = t
  PROVE  Trimmed(v) = t
<1> DEFINE X == {x \in (0..Len(v)) \X (0..Len(v)) :
                   /\ x[1] + x[2] <= Len(v)
                   /\ \A k \in 1..x[1] : IsSpace(v[k])
                   /\ \A k \in (Len(v) - x[2] + 1)..Len(v) : IsSpace(v[k])}
           C == {SubSeq(v, x[1] + 1, Len(v) - x[2]) : x \in X}
<1>0. Len(v) \in Nat
  BY LenProperties
<1>1. Trimmed(v) = CHOOSE m \in C : Tight(m)
  BY Zenon DEF Trimmed, Tight
<1>2. \A a, b \in Nat : Strips(v, a, b) => <<a, b>> \in X
  BY DEF Strips
<1>3. \A x \in X : x[1] \in Nat /\ x[2] \in Nat /\ Strips(v, x[1], x[2])
  BY <1>0 DEF Strips
<1>4. t \in C
  <2>1. PICK a, b \in Nat : Strips(v, a, b) /\ t = SubSeq(v, a + 1, Len(v) - b)
    OBVIOUS
  <2>2. <<a, b>> \in X /\ <<a, b>>[1] = a /\ <<a, b>>[2] = b
    BY <1>2, <2>1
  <2> HIDE DEF X
  <2> QED BY <2>1, <2>2
<1>5. \A m \in C : Tight(m) => m = t
  <2> SUFFICES ASSUME NEW x \in X, Tight(SubSeq(v, x[1] + 1, Len(v) - x[2]))
               PROVE  SubSeq(v, x[1] + 1, Len(v) - x[2]) = t
    OBVIOUS
  <2> QED BY <1>3, Zenon
<1> HIDE DEF C
<1> QED BY <1>1, <1>4, <1>5, Zenon

\* What tamga_fp_trim keeps is what is left without the white space.
LEMMA TrimAgrees == ASSUME NEW v \in Seq(Octet) PROVE Trimmed(v) = Trim(v) /\ Trim(v) \in Seq(Octet)
<1> DEFINE n == Len(v)
           kept == {i \in 1..n : ~IsSpace(v[i])}
           first == CHOOSE i \in kept : \A j \in kept : i <= j
           last == CHOOSE i \in kept : \A j \in kept : j <= i
<1>0. n \in Nat /\ \A i \in 1..n : v[i] \in Octet
  BY LenProperties
<1>1. Trim(v) = IF kept = {} THEN <<>> ELSE SubSeq(v, first, last)
  BY Zenon DEF Trim
<1> HIDE DEF n
<1>2. ASSUME NEW a \in Nat, NEW b \in Nat, Strips(v, a, b)
      PROVE  /\ a + b <= n
             /\ \A k \in kept : a < k /\ k <= n - b
             /\ LET m == SubSeq(v, a + 1, n - b)
                IN m \in Seq(Octet) /\ Len(m) = n - b - a /\ \A i \in 1..(n - b - a) : m[i] = v[a + i]
  <2>1. a + b <= n
    BY <1>2 DEF Strips, n
  <2>2. \A k \in kept : a < k /\ k <= n - b
    BY <1>0, <1>2 DEF Strips, n
  <2>3. \A i \in (a + 1)..(n - b) : v[i] \in Octet
    BY <1>0, <2>1
  <2>4. /\ SubSeq(v, a + 1, n - b) \in Seq(Octet)
        /\ Len(SubSeq(v, a + 1, n - b)) = IF a + 1 <= n - b THEN (n - b) - (a + 1) + 1 ELSE 0
        /\ \A i \in 1..((n - b) - (a + 1) + 1) : SubSeq(v, a + 1, n - b)[i] = v[(a + 1) + i - 1]
    BY <1>0, <2>3, SubSeqProperties
  <2>5. Len(SubSeq(v, a + 1, n - b)) = n - b - a
    BY <1>0, <2>1, <2>4
  <2>6. ASSUME NEW i \in 1..(n - b - a) PROVE SubSeq(v, a + 1, n - b)[i] = v[a + i]
    <3>1. i \in 1..((n - b) - (a + 1) + 1) /\ (a + 1) + i - 1 = a + i
      BY <1>0, <2>6
    <3> QED BY <2>4, <3>1
  <2> QED BY <2>1, <2>2, <2>4, <2>5, <2>6
<1>3. CASE kept = {}
  <2>1. Strips(v, n, 0)
    BY <1>0, <1>3 DEF Strips, n
  <2>2. SubSeq(v, n + 1, n - 0) = <<>>
    BY <1>0, SubSeqEmpty
  <2>3. ASSUME NEW a \in Nat, NEW b \in Nat, Strips(v, a, b), Tight(SubSeq(v, a + 1, n - b))
        PROVE  SubSeq(v, a + 1, n - b) = <<>>
    <3> DEFINE m == SubSeq(v, a + 1, n - b)
    <3>1. m \in Seq(Octet) /\ Len(m) = n - b - a /\ (\A i \in 1..(n - b - a) : m[i] = v[a + i])
          /\ a + b <= n
      BY <2>3, <1>2
    <3> HIDE DEF m
    <3>2. ASSUME m # <<>> PROVE FALSE
      <4>1. Len(m) >= 1
        BY <3>1, <3>2
      <4>2. m[1] = v[a + 1] /\ a + 1 \in 1..n
        BY <1>0, <3>1, <4>1
      <4>3. ~IsSpace(m[1])
        BY <2>3, <3>2 DEF Tight, m
      <4> QED BY <1>3, <4>2, <4>3
    <3> QED BY <3>2 DEF m
  <2>4. Trim(v) = <<>>
    BY <1>1, <1>3
  <2>5. Tight(<<>>) /\ <<>> \in Seq(Octet)
    BY DEF Tight
  <2>6. Trimmed(v) = <<>>
    <3>1. \E a, b \in Nat : Strips(v, a, b) /\ <<>> = SubSeq(v, a + 1, Len(v) - b)
      BY <1>0, <2>1, <2>2 DEF n
    <3> QED BY <2>3, <2>5, <3>1, TrimmedDef, Zenon DEF n
  <2> QED BY <2>4, <2>5, <2>6
<1>4. CASE kept # {}
  <2>1. kept \in SUBSET Nat /\ kept \in SUBSET (0..n)
    BY <1>0
  <2>2. first \in kept /\ \A j \in kept : first <= j
    BY <2>1, <1>4, LeastExists, Zenon
  <2>3. last \in kept /\ \A j \in kept : j <= last
    BY <1>0, <2>1, <1>4, GreatestExists, Zenon
  <2> HIDE DEF first, last
  <2>4. first \in 1..n /\ last \in 1..n /\ first <= last
    BY <2>2, <2>3
  <2> DEFINE t == SubSeq(v, first, last)
             a0 == first - 1
             b0 == n - last
  <2>5. a0 \in Nat /\ b0 \in Nat /\ a0 + 1 = first /\ n - b0 = last
    BY <1>0, <2>4
  <2>6. Strips(v, a0, b0)
    <3>1. a0 \in 0..n /\ b0 \in 0..n /\ a0 + b0 <= n
      BY <1>0, <2>4
    <3>2. \A k \in 1..a0 : IsSpace(v[k])
      BY <1>0, <2>2, <2>4
    <3>3. \A k \in (n - b0 + 1)..n : IsSpace(v[k])
      BY <1>0, <2>3, <2>4
    <3> QED BY <3>1, <3>2, <3>3 DEF Strips, n
  <2>7. t \in Seq(Octet) /\ Len(t) = last - first + 1 /\ \A i \in 1..Len(t) : t[i] = v[first - 1 + i]
    <3>1. /\ t \in Seq(Octet) /\ Len(t) = n - b0 - a0
          /\ \A i \in 1..(n - b0 - a0) : t[i] = v[a0 + i]
      BY <1>2, <2>5, <2>6, ZenonT(60)
    <3> QED BY <1>0, <2>4, <3>1
  <2> HIDE DEF t
  <2>8. Tight(t)
    <3>1. t[1] = v[first] /\ t[Len(t)] = v[last]
      BY <2>4, <2>7
    <3> QED BY <2>2, <2>3, <3>1 DEF Tight
  <2>9. ASSUME NEW a \in Nat, NEW b \in Nat, Strips(v, a, b), Tight(SubSeq(v, a + 1, n - b))
        PROVE  SubSeq(v, a + 1, n - b) = t
    <3> DEFINE m == SubSeq(v, a + 1, n - b)
    <3>1. m \in Seq(Octet) /\ Len(m) = n - b - a /\ (\A i \in 1..(n - b - a) : m[i] = v[a + i])
          /\ a < first /\ last <= n - b
      BY <2>9, <1>2, <2>2, <2>3
    <3>2. Tight(m)
      BY <2>9
    <3> HIDE DEF m
    <3>3. Len(m) >= 1 /\ m # <<>>
      BY <1>0, <2>4, <3>1
    <3>4. m[1] = v[a + 1] /\ m[Len(m)] = v[n - b]
      <4>1. m[Len(m)] = v[a + Len(m)] /\ a + Len(m) = n - b
        BY <1>0, <3>1, <3>3
      <4> QED BY <3>1, <3>3, <4>1
    <3>5. a + 1 \in kept /\ n - b \in kept
      BY <1>0, <2>4, <3>1, <3>2, <3>3, <3>4 DEF Tight
    <3>6. a + 1 = first /\ n - b = last
      BY <1>0, <2>2, <2>3, <2>4, <3>1, <3>5
    <3> QED BY <3>6 DEF m, t
  <2>10. \E a, b \in Nat : Strips(v, a, b) /\ t = SubSeq(v, a + 1, Len(v) - b)
    BY <2>5, <2>6, Zenon DEF t, n
  <2>11. Trimmed(v) = t
    BY <2>8, <2>9, <2>10, TrimmedDef, Zenon DEF n
  <2>12. Trim(v) = t
    BY <1>1, <1>4, Zenon DEF t
  <2> QED BY <2>7, <2>11, <2>12
<1> QED BY <1>3, <1>4

-----------------------------------------------------------------------------
(* The order of the components' texts.                                       *)

\* They differ first at i, and x is the lesser there.
LessAt(x, y, i) ==
  i \in 1..Len(x) /\ i <= Len(y) /\ x[i] < y[i] /\ \A j \in 1..(i - 1) : x[j] = y[j]

\* y goes on where x ends.
Extends(x, y) == Len(x) < Len(y) /\ \A j \in 1..Len(x) : x[j] = y[j]

LEMMA BeforeMeans ==
  ASSUME NEW x \in Seq(Octet), NEW y \in Seq(Octet)
  PROVE  Before(x, y) <=> Extends(x, y) \/ \E i \in Nat : LessAt(x, y, i)
<1> DEFINE differ == {i \in 1..Len(x) : i <= Len(y) /\ x[i] # y[i]}
           first == CHOOSE i \in differ : \A j \in differ : i <= j
<1>0. /\ Len(x) \in Nat /\ Len(y) \in Nat
      /\ \A i \in 1..Len(x) : x[i] \in Nat
      /\ \A i \in 1..Len(y) : y[i] \in Nat
  BY OctetText
<1>1. Before(x, y) <=> IF differ # {} THEN x[first] < y[first] ELSE Len(x) < Len(y)
  BY Zenon DEF Before
<1>2. CASE differ = {}
  <2>1. \A j \in 1..Len(x) : j <= Len(y) => x[j] = y[j]
    BY <1>2
  <2>2. \A i \in Nat : ~LessAt(x, y, i)
    BY <1>0, <2>1 DEF LessAt
  <2>3. Extends(x, y) <=> Len(x) < Len(y)
    BY <1>0, <2>1 DEF Extends
  <2> QED BY <1>1, <1>2, <2>2, <2>3
<1>3. CASE differ # {}
  <2>1. differ \in SUBSET Nat
    BY <1>0
  <2>2. first \in differ /\ \A j \in differ : first <= j
    BY <1>3, <2>1, LeastExists, Zenon
  <2> HIDE DEF first
  <2>3. /\ first \in Nat /\ first \in 1..Len(x) /\ first <= Len(y) /\ x[first] # y[first]
        /\ \A j \in 1..(first - 1) : x[j] = y[j]
    BY <1>0, <2>2
  <2>4. ~Extends(x, y)
    BY <1>0, <2>3 DEF Extends
  <2>5. x[first] < y[first] => LessAt(x, y, first)
    BY <2>3 DEF LessAt
  <2>6. ASSUME NEW i \in Nat, LessAt(x, y, i) PROVE x[first] < y[first]
    <3>1. i \in differ
      BY <1>0, <2>6 DEF LessAt
    <3>2. i = first
      BY <1>0, <2>2, <2>3, <2>6, <3>1 DEF LessAt
    <3> QED BY <2>6, <3>2 DEF LessAt
  <2> QED BY <1>1, <1>3, <2>3, <2>4, <2>5, <2>6
<1> QED BY <1>2, <1>3

LEMMA BeforeSelf == ASSUME NEW x \in Seq(Octet) PROVE ~Before(x, x)
<1>1. Len(x) \in Nat /\ \A i \in 1..Len(x) : x[i] \in Nat
  BY OctetText
<1> QED BY <1>1, BeforeMeans DEF Extends, LessAt

LEMMA BeforeTotal ==
  ASSUME NEW x \in Seq(Octet), NEW y \in Seq(Octet), x # y PROVE Before(x, y) \/ Before(y, x)
<1>0. /\ Len(x) \in Nat /\ Len(y) \in Nat
      /\ \A i \in 1..Len(x) : x[i] \in Nat
      /\ \A i \in 1..Len(y) : y[i] \in Nat
  BY OctetText
<1> DEFINE differ == {i \in 1..Len(x) : i <= Len(y) /\ x[i] # y[i]}
<1>1. CASE differ = {}
  <2>1. \A j \in 1..Len(x) : j <= Len(y) => x[j] = y[j]
    BY <1>1
  <2>2. Len(x) # Len(y)
    BY <1>0, <2>1, SeqEqual
  <2>3. Extends(x, y) \/ Extends(y, x)
    BY <1>0, <2>1, <2>2 DEF Extends
  <2> QED BY <2>3, BeforeMeans
<1>2. CASE differ # {}
  <2>1. differ \in SUBSET Nat
    BY <1>0
  <2>2. PICK i \in differ : \A j \in differ : i <= j
    BY <1>2, <2>1, LeastExists, Zenon
  <2>3. /\ i \in Nat /\ i \in 1..Len(x) /\ i \in 1..Len(y) /\ i <= Len(y) /\ i <= Len(x) /\ x[i] # y[i]
        /\ \A j \in 1..(i - 1) : x[j] = y[j]
    BY <1>0, <2>2
  <2>4. LessAt(x, y, i) \/ LessAt(y, x, i)
    BY <1>0, <2>3 DEF LessAt
  <2> QED BY <2>3, <2>4, BeforeMeans
<1> QED BY <1>1, <1>2

LEMMA BeforeTransitive ==
  ASSUME NEW x \in Seq(Octet), NEW y \in Seq(Octet), NEW z \in Seq(Octet),
         Before(x, y), Before(y, z)
  PROVE  Before(x, z)
<1>0. /\ Len(x) \in Nat /\ Len(y) \in Nat /\ Len(z) \in Nat
      /\ \A i \in 1..Len(x) : x[i] \in Nat
      /\ \A i \in 1..Len(y) : y[i] \in Nat
      /\ \A i \in 1..Len(z) : z[i] \in Nat
  BY OctetText
<1>1. CASE Extends(x, y) /\ Extends(y, z)
  <2>1. Extends(x, z)
    BY <1>0, <1>1 DEF Extends
  <2> QED BY <2>1, BeforeMeans
<1>2. CASE Extends(x, y) /\ \E i \in Nat : LessAt(y, z, i)
  <2>1. PICK i \in Nat : LessAt(y, z, i)
    BY <1>2
  <2>2. CASE i <= Len(x)
    <3>1. LessAt(x, z, i)
      BY <1>0, <1>2, <2>1, <2>2 DEF Extends, LessAt
    <3> QED BY <3>1, BeforeMeans
  <2>3. CASE ~(i <= Len(x))
    <3>1. Extends(x, z)
      BY <1>0, <1>2, <2>1, <2>3 DEF Extends, LessAt
    <3> QED BY <3>1, BeforeMeans
  <2> QED BY <2>2, <2>3
<1>3. CASE Extends(y, z) /\ \E i \in Nat : LessAt(x, y, i)
  <2>1. PICK i \in Nat : LessAt(x, y, i)
    BY <1>3
  <2>2. LessAt(x, z, i)
    BY <1>0, <1>3, <2>1 DEF Extends, LessAt
  <2> QED BY <2>2, BeforeMeans
<1>4. CASE (\E i \in Nat : LessAt(x, y, i)) /\ \E i \in Nat : LessAt(y, z, i)
  <2>1. PICK i \in Nat : LessAt(x, y, i)
    BY <1>4
  <2>2. PICK k \in Nat : LessAt(y, z, k)
    BY <1>4
  <2>3. CASE i <= k
    <3>1. LessAt(x, z, i)
      BY <1>0, <2>1, <2>2, <2>3 DEF LessAt
    <3> QED BY <3>1, BeforeMeans
  <2>4. CASE k < i
    <3>1. LessAt(x, z, k)
      BY <1>0, <2>1, <2>2, <2>4 DEF LessAt
    <3> QED BY <3>1, BeforeMeans
  <2> QED BY <2>3, <2>4
<1> QED BY <1>1, <1>2, <1>3, <1>4, BeforeMeans

\* What stands between two texts with a common beginning has it too.
LEMMA BeforeConvex ==
  ASSUME NEW x \in Seq(Octet), NEW y \in Seq(Octet), NEW z \in Seq(Octet),
         x = y \/ Before(x, y), y = z \/ Before(y, z),
         NEW n \in Nat, n <= Len(x), n <= Len(z), \A i \in 1..n : x[i] = z[i]
  PROVE  n <= Len(y) /\ \A i \in 1..n : y[i] = x[i]
<1>0. /\ Len(x) \in Nat /\ Len(y) \in Nat /\ Len(z) \in Nat
      /\ \A i \in 1..Len(x) : x[i] \in Nat
      /\ \A i \in 1..Len(y) : y[i] \in Nat
      /\ \A i \in 1..Len(z) : z[i] \in Nat
  BY OctetText
<1>1. CASE x = y \/ y = z
  BY <1>0, <1>1
<1>2. CASE Extends(x, y)
  BY <1>0, <1>2 DEF Extends
<1>3. CASE Before(y, z) /\ \E i \in Nat : LessAt(x, y, i)
  <2>1. PICK i \in Nat : LessAt(x, y, i)
    BY <1>3
  <2>2. CASE n < i
    BY <1>0, <2>1, <2>2 DEF LessAt
  <2>3. CASE i <= n
    <3>1. z[i] < y[i] /\ i \in 1..Len(y) /\ \A j \in 1..(i - 1) : y[j] = z[j]
      BY <1>0, <2>1, <2>3 DEF LessAt
    <3>2. ~Extends(y, z)
      BY <1>0, <3>1 DEF Extends
    <3>3. ASSUME NEW k \in Nat, LessAt(y, z, k) PROVE FALSE
      BY <1>0, <2>1, <2>3, <3>1, <3>3 DEF LessAt
    <3> QED BY <1>3, <3>2, <3>3, BeforeMeans
  <2> QED BY <2>2, <2>3
<1> QED BY <1>1, <1>2, <1>3, BeforeMeans

-----------------------------------------------------------------------------
(* Sorting by rank.                                                          *)

\* R orders the numbers from 1 to n.
Orders(R, n) ==
  /\ \A i \in 1..n : <<i, i>> \notin R
  /\ \A i, j \in 1..n : i # j => <<i, j>> \in R \/ <<j, i>> \in R
  /\ \A i, j, k \in 1..n : <<i, j>> \in R /\ <<j, k>> \in R => <<i, k>> \in R

RankIn(R, n, i) == Cardinality({j \in 1..n : <<j, i>> \in R})

\* Each rank below n is the rank of one number, and ranks are as the order is.
LEMMA RanksAreTaken ==
  ASSUME NEW n \in Nat, NEW R, Orders(R, n)
  PROVE  /\ \A i \in 1..n : RankIn(R, n, i) \in 0..(n - 1)
         /\ \A i, j \in 1..n : <<i, j>> \in R => RankIn(R, n, i) < RankIn(R, n, j)
         /\ \A k \in 1..n : \E i \in 1..n : RankIn(R, n, i) = k - 1
<1> DEFINE S == 1..n
           Lower(i) == {j \in S : <<j, i>> \in R}
<1>1. IsFiniteSet(S) /\ Cardinality(S) = n
  BY FS_Interval
<1>2. ASSUME NEW i \in S PROVE IsFiniteSet(Lower(i)) /\ Cardinality(Lower(i)) \in 0..(n - 1)
  <2>1. Lower(i) \in SUBSET (S \ {i})
    BY DEF Orders
  <2>2. IsFiniteSet(S \ {i}) /\ Cardinality(S \ {i}) = n - 1
    BY <1>1, FS_RemoveElement
  <2> HIDE DEF Lower, S
  <2>3. IsFiniteSet(Lower(i)) /\ Cardinality(Lower(i)) <= n - 1
    BY <2>1, <2>2, FS_Subset
  <2>4. Cardinality(Lower(i)) \in Nat
    BY <2>3, FS_CardinalityType
  <2> QED BY <2>3, <2>4
<1>3. ASSUME NEW i \in S, NEW j \in S, <<i, j>> \in R PROVE Cardinality(Lower(i)) < Cardinality(Lower(j))
  <2>1. Lower(i) \in SUBSET Lower(j) /\ i \in Lower(j) /\ i \notin Lower(i)
    BY <1>3 DEF Orders
  <2>2. Lower(i) # Lower(j)
    BY <2>1
  <2> HIDE DEF Lower
  <2>3. Cardinality(Lower(i)) <= Cardinality(Lower(j)) /\ Cardinality(Lower(j)) # Cardinality(Lower(i))
    BY <1>2, <2>1, <2>2, FS_Subset
  <2> QED BY <1>2, <2>3
<1>4. \A i \in S : RankIn(R, n, i) = Cardinality(Lower(i))
  BY DEF RankIn
<1> DEFINE f == [i \in S |-> Cardinality(Lower(i))]
<1>5. f \in Surjection(S, 0..(n - 1))
  <2> HIDE DEF Lower
  <2>1. f \in [S -> 0..(n - 1)]
    BY <1>2
  <2>2. \A i, j \in S : f[i] = f[j] => i = j
    <3> SUFFICES ASSUME NEW i \in S, NEW j \in S, f[i] = f[j], i # j PROVE FALSE
      OBVIOUS
    <3>1. <<i, j>> \in R \/ <<j, i>> \in R
      BY DEF Orders
    <3>2. Cardinality(Lower(i)) = Cardinality(Lower(j))
      OBVIOUS
    <3> QED BY <1>2, <1>3, <3>1, <3>2
  <2>3. f \in Injection(S, 0..(n - 1))
    BY <2>1, <2>2 DEF Injection, IsInjective
  <2>4. IsFiniteSet(0..(n - 1)) /\ Cardinality(0..(n - 1)) = n
    BY FS_Interval
  <2> HIDE DEF f
  <2> QED BY <1>1, <2>3, <2>4, FS_Injection
<1>6. ASSUME NEW k \in 1..n PROVE \E i \in S : Cardinality(Lower(i)) = k - 1
  <2>1. k - 1 \in 0..(n - 1)
    OBVIOUS
  <2>2. PICK i \in S : f[i] = k - 1
    BY <1>5, <2>1 DEF Surjection
  <2> QED BY <2>2
<1> HIDE DEF Lower
<1> QED BY <1>2, <1>3, <1>4, <1>6

\* The order tamga_fp_compare gives to the places of a list, the earlier of two
\* equal texts first.
Places(cs) ==
  {p \in (1..Len(cs)) \X (1..Len(cs)) :
     \/ Before(cs[p[1]].text, cs[p[2]].text)
     \/ cs[p[1]].text = cs[p[2]].text /\ p[1] < p[2]}

\* The place of the k-th component in the order.
PlaceOf(cs, k) == CHOOSE i \in 1..Len(cs) : RankIn(Places(cs), Len(cs), i) = k - 1

LEMMA PlacesOrdered ==
  ASSUME NEW cs, Len(cs) \in Nat, \A i \in 1..Len(cs) : cs[i].text \in Seq(Octet)
  PROVE  Orders(Places(cs), Len(cs))
<1> DEFINE S == 1..Len(cs)
<1>1. \A i, j \in S : <<i, j>> \in Places(cs) <=>
        \/ Before(cs[i].text, cs[j].text)
        \/ cs[i].text = cs[j].text /\ i < j
  BY DEF Places
<1>2. \A i \in S : <<i, i>> \notin Places(cs)
  BY <1>1, BeforeSelf
<1>3. ASSUME NEW i \in S, NEW j \in S, i # j PROVE <<i, j>> \in Places(cs) \/ <<j, i>> \in Places(cs)
  <2>1. CASE cs[i].text = cs[j].text
    BY <1>1, <1>3, <2>1
  <2>2. CASE cs[i].text # cs[j].text
    BY <1>1, <2>2, BeforeTotal
  <2> QED BY <2>1, <2>2
<1>4. ASSUME NEW i \in S, NEW j \in S, NEW k \in S, <<i, j>> \in Places(cs), <<j, k>> \in Places(cs)
      PROVE  <<i, k>> \in Places(cs)
  <2>1. CASE Before(cs[i].text, cs[j].text) /\ Before(cs[j].text, cs[k].text)
    BY <1>1, <2>1, BeforeTransitive
  <2>2. CASE cs[i].text = cs[j].text /\ i < j /\ Before(cs[j].text, cs[k].text)
    BY <1>1, <2>2
  <2>3. CASE cs[j].text = cs[k].text /\ j < k /\ Before(cs[i].text, cs[j].text)
    BY <1>1, <2>3
  <2>4. CASE cs[i].text = cs[j].text /\ i < j /\ cs[j].text = cs[k].text /\ j < k
    BY <1>1, <2>4
  <2> QED BY <1>1, <1>4, <2>1, <2>2, <2>3, <2>4
<1> QED BY <1>2, <1>3, <1>4, Zenon DEF Orders

\* Sorted returns every component once, in order.
LEMMA SortedIs ==
  ASSUME NEW cs, Len(cs) \in Nat, \A i \in 1..Len(cs) : cs[i].text \in Seq(Octet)
  PROVE  /\ Sorted(cs) = [k \in 1..Len(cs) |-> cs[PlaceOf(cs, k)]]
         /\ \A k \in 1..Len(cs) : PlaceOf(cs, k) \in 1..Len(cs)
         /\ \A i \in 1..Len(cs) : \E k \in 1..Len(cs) : PlaceOf(cs, k) = i
         /\ \A k, l \in 1..Len(cs) : k # l => PlaceOf(cs, k) # PlaceOf(cs, l)
         /\ \A k, l \in 1..Len(cs) : k < l =>
              \/ cs[PlaceOf(cs, k)].text = cs[PlaceOf(cs, l)].text
              \/ Before(cs[PlaceOf(cs, k)].text, cs[PlaceOf(cs, l)].text)
<1> DEFINE n == Len(cs)
           R == Places(cs)
           below(i) == Cardinality({j \in 1..n :
                         \/ Before(cs[j].text, cs[i].text)
                         \/ cs[j].text = cs[i].text /\ j < i})
<1>1. Orders(R, n)
  BY PlacesOrdered
<1>2. /\ \A i \in 1..n : RankIn(R, n, i) \in 0..(n - 1)
      /\ \A i, j \in 1..n : <<i, j>> \in R => RankIn(R, n, i) < RankIn(R, n, j)
      /\ \A k \in 1..n : \E i \in 1..n : RankIn(R, n, i) = k - 1
  BY <1>1, RanksAreTaken
<1>3. ASSUME NEW i \in 1..n PROVE below(i) = RankIn(R, n, i)
  <2>1. {j \in 1..n : \/ Before(cs[j].text, cs[i].text)
                      \/ cs[j].text = cs[i].text /\ j < i} = {j \in 1..n : <<j, i>> \in R}
    BY DEF Places
  <2> QED BY <2>1, Zenon DEF RankIn
<1>4. Sorted(cs) = [k \in 1..n |-> cs[CHOOSE i \in 1..n : below(i) = k - 1]]
  BY Zenon DEF Sorted
<1> HIDE DEF R, below
<1>5. ASSUME NEW k \in 1..n PROVE (CHOOSE i \in 1..n : below(i) = k - 1) = PlaceOf(cs, k)
  <2>1. \A i : (i \in 1..n /\ below(i) = k - 1) <=> (i \in 1..n /\ RankIn(R, n, i) = k - 1)
    BY <1>3
  <2> QED BY <2>1, Zenon DEF PlaceOf, R
<1>6. ASSUME NEW k \in 1..n PROVE PlaceOf(cs, k) \in 1..n /\ RankIn(R, n, PlaceOf(cs, k)) = k - 1
  BY <1>2, Zenon DEF PlaceOf, R
<1>7. Sorted(cs) = [k \in 1..n |-> cs[PlaceOf(cs, k)]]
  BY <1>4, <1>5, Zenon
<1>8. ASSUME NEW i \in 1..n PROVE \E k \in 1..n : PlaceOf(cs, k) = i
  <2>1. PICK k \in 1..n : RankIn(R, n, i) = k - 1
    <3>1. RankIn(R, n, i) \in 0..(n - 1)
      BY <1>2
    <3>2. RankIn(R, n, i) + 1 \in 1..n /\ RankIn(R, n, i) = (RankIn(R, n, i) + 1) - 1
      BY <3>1
    <3> QED BY <3>2
  <2>2. PICK a \in 1..n : a = PlaceOf(cs, k) /\ RankIn(R, n, a) = RankIn(R, n, i)
    BY <1>6, <2>1
  <2>3. ASSUME a # i PROVE FALSE
    <3>1. <<a, i>> \in R \/ <<i, a>> \in R
      BY <1>1, <2>3, Zenon DEF Orders
    <3>2. RankIn(R, n, i) < RankIn(R, n, i)
      BY <1>2, <2>2, <3>1, Zenon
    <3>3. RankIn(R, n, i) \in 0..(n - 1)
      BY <1>2, Zenon
    <3> QED BY <3>2, <3>3
  <2> QED BY <2>2, <2>3
<1>9. ASSUME NEW k \in 1..n, NEW l \in 1..n, k # l PROVE PlaceOf(cs, k) # PlaceOf(cs, l)
  <2>1. k - 1 # l - 1
    BY <1>9
  <2> QED BY <1>6, <2>1, Zenon
<1>10. ASSUME NEW k \in 1..n, NEW l \in 1..n, k < l
       PROVE  \/ cs[PlaceOf(cs, k)].text = cs[PlaceOf(cs, l)].text
              \/ Before(cs[PlaceOf(cs, k)].text, cs[PlaceOf(cs, l)].text)
  <2>1. PICK a \in 1..n : a = PlaceOf(cs, k) /\ RankIn(R, n, a) = k - 1
    BY <1>6
  <2>2. PICK b \in 1..n : b = PlaceOf(cs, l) /\ RankIn(R, n, b) = l - 1
    BY <1>6
  <2>3. a # b /\ <<b, a>> \notin R
    <3>1. ~(RankIn(R, n, b) < RankIn(R, n, a)) /\ RankIn(R, n, b) # RankIn(R, n, a)
      BY <1>10, <2>1, <2>2
    <3> QED BY <1>2, <3>1, Zenon
  <2>4. <<a, b>> \in R
    BY <1>1, <2>3, Zenon DEF Orders
  <2>5. Before(cs[a].text, cs[b].text) \/ cs[a].text = cs[b].text
    BY <2>4 DEF R, Places
  <2> QED BY <2>1, <2>2, <2>5
<1> QED BY <1>6, <1>7, <1>8, <1>9, <1>10

-----------------------------------------------------------------------------
(* What a component's text is made of.                                       *)

\* t is a label without '=', an '=' and a value, and no separator is in it.
ComponentText(t, label, value) ==
  /\ t \in Seq(Octet) /\ label \in Seq(Octet) /\ value \in Seq(Octet)
  /\ Len(t) = Len(label) + 1 + Len(value)
  /\ \A i \in 1..Len(label) : t[i] = label[i] /\ t[i] # Equals
  /\ t[Len(label) + 1] = Equals
  /\ \A i \in 1..Len(value) : t[Len(label) + 1 + i] = value[i]
  /\ \A i \in 1..Len(t) : t[i] # Separator

LEMMA Joins ==
  ASSUME NEW x \in Seq(Octet), NEW y \in Seq(Octet)
  PROVE  /\ x \o y \in Seq(Octet) /\ Len(x \o y) = Len(x) + Len(y)
         /\ \A i \in 1..Len(x) : (x \o y)[i] = x[i]
         /\ \A i \in 1..Len(y) : (x \o y)[Len(x) + i] = y[i]
<1>0. Len(x) \in Nat /\ Len(y) \in Nat
  BY OctetText
<1>1. /\ x \o y \in Seq(Octet) /\ Len(x \o y) = Len(x) + Len(y)
      /\ \A i \in 1..(Len(x) + Len(y)) : (x \o y)[i] = IF i <= Len(x) THEN x[i] ELSE y[i - Len(x)]
  BY ConcatProperties, Zenon
<1>2. ASSUME NEW i \in 1..Len(x) PROVE (x \o y)[i] = x[i]
  <2>1. i \in 1..(Len(x) + Len(y)) /\ i <= Len(x)
    BY <1>0
  <2> QED BY <1>1, <2>1, Zenon
<1>3. ASSUME NEW i \in 1..Len(y) PROVE (x \o y)[Len(x) + i] = y[i]
  <2>1. Len(x) + i \in 1..(Len(x) + Len(y)) /\ ~(Len(x) + i <= Len(x)) /\ (Len(x) + i) - Len(x) = i
    BY <1>0
  <2> QED BY <1>1, <2>1, Zenon
<1> QED BY <1>1, <1>2, <1>3

LEMMA PieceMade ==
  ASSUME NEW label \in Seq(Octet), NEW value \in Seq(Octet), LabelIsValid(label),
         \A i \in 1..Len(value) : ~IsControl(value[i])
  PROVE  ComponentText(label \o <<Equals>> \o value, label, value)
<1> DEFINE e == <<Equals>>
           a == label \o e
           t == a \o value
<1>0. /\ Len(label) \in Nat /\ Len(value) \in Nat
      /\ \A i \in 1..Len(label) : label[i] \in Nat
      /\ \A i \in 1..Len(value) : value[i] \in Nat
  BY OctetText
<1>1. e \in Seq(Octet) /\ Len(e) = 1 /\ e[1] = Equals
  BY DEF Equals, Octet
<1> HIDE DEF e
<1>2. /\ a \in Seq(Octet) /\ Len(a) = Len(label) + Len(e)
      /\ \A i \in 1..Len(label) : a[i] = label[i]
      /\ \A i \in 1..Len(e) : a[Len(label) + i] = e[i]
  BY <1>1, Joins, Zenon
<1>3. Len(a) = Len(label) + 1 /\ a[Len(label) + 1] = Equals
  BY <1>0, <1>1, <1>2
<1> HIDE DEF a
<1>4. /\ t \in Seq(Octet) /\ Len(t) = Len(a) + Len(value)
      /\ \A i \in 1..Len(a) : t[i] = a[i]
      /\ \A i \in 1..Len(value) : t[Len(a) + i] = value[i]
  BY <1>2, Joins, Zenon
<1> HIDE DEF t
<1>5. /\ Len(t) = Len(label) + 1 + Len(value)
      /\ \A i \in 1..Len(label) : t[i] = label[i]
      /\ t[Len(label) + 1] = Equals
  BY <1>0, <1>2, <1>3, <1>4
<1>6. ASSUME NEW i \in 1..Len(value) PROVE t[Len(label) + 1 + i] = value[i]
  BY <1>3, <1>4
<1>7. \A i \in 1..Len(label) : label[i] # Equals /\ label[i] # Separator
  <2>1. \A i \in 1..Len(label) : label[i] \in 33..126 /\ label[i] # Equals
    BY DEF LabelIsValid
  <2>2. \A c \in 33..126 : c # Separator
    BY DEF Separator
  <2> QED BY <2>1, <2>2
<1>8. \A i \in 1..Len(value) : value[i] # Separator
  BY <1>0 DEF IsControl, Separator
<1>9. ASSUME NEW i \in 1..Len(t) PROVE t[i] # Separator
  <2>1. CASE i <= Len(label)
    BY <1>0, <1>5, <1>7, <2>1
  <2>2. CASE i = Len(label) + 1
    BY <1>5, <2>2 DEF Separator, Equals
  <2>3. CASE i > Len(label) + 1
    <3>1. PICK j \in 1..Len(value) : i = Len(label) + 1 + j
      <4>1. i - Len(label) - 1 \in 1..Len(value) /\ i = Len(label) + 1 + (i - Len(label) - 1)
        BY <1>0, <1>5, <2>3
      <4> QED BY <4>1
    <3> QED BY <1>6, <1>8, <3>1
  <2> QED BY <1>0, <2>1, <2>2, <2>3
<1>10. ComponentText(t, label, value)
  BY <1>4, <1>5, <1>6, <1>7, <1>9 DEF ComponentText
<1> QED BY <1>10 DEF t, a, e

\* The label stands before the first '='.
Reads(t, label, value) ==
  /\ SubSeq(t, 1, Len(label)) = label
  /\ SubSeq(t, Len(label) + 2, Len(t)) = value
  /\ Len(label) + 1 \in 1..Len(t)
  /\ \A i \in 1..Len(t) : (t[i] = Equals /\ \A j \in 1..(i - 1) : t[j] # Equals) <=> i = Len(label) + 1

LEMMA PieceLabel ==
  ASSUME NEW t, NEW label, NEW value, ComponentText(t, label, value)
  PROVE  Reads(t, label, value)
<1>0. /\ Len(label) \in Nat /\ Len(value) \in Nat /\ Len(t) \in Nat
      /\ \A i \in 1..Len(t) : t[i] \in Octet
  BY OctetText DEF ComponentText
<1>1. Len(t) = Len(label) + 1 + Len(value)
  BY DEF ComponentText
<1>2. SubSeq(t, 1, Len(label)) = label
  <2>1. \A i \in 1..Len(label) : t[i] \in Octet
    BY <1>0, <1>1
  <2> DEFINE m == SubSeq(t, 1, Len(label))
  <2>2. /\ m \in Seq(Octet) /\ Len(m) = IF 1 <= Len(label) THEN Len(label) - 1 + 1 ELSE 0
        /\ \A i \in 1..(Len(label) - 1 + 1) : m[i] = t[1 + i - 1]
    BY <1>0, <2>1, SubSeqProperties
  <2> HIDE DEF m
  <2>3. Len(m) = Len(label) /\ \A i \in 1..Len(m) : m[i] = label[i]
    BY <1>0, <2>2 DEF ComponentText
  <2>4. m = label
    BY <2>2, <2>3, SeqEqual DEF ComponentText
  <2> QED BY <2>4 DEF m
<1>3. SubSeq(t, Len(label) + 2, Len(t)) = value
  <2>1. \A i \in (Len(label) + 2)..Len(t) : t[i] \in Octet
    BY <1>0, <1>1
  <2> DEFINE m == SubSeq(t, Len(label) + 2, Len(t))
             k == Len(label) + 2
  <2>2. /\ m \in Seq(Octet) /\ Len(m) = IF k <= Len(t) THEN Len(t) - k + 1 ELSE 0
        /\ \A i \in 1..(Len(t) - k + 1) : m[i] = t[k + i - 1]
    BY <1>0, <2>1, SubSeqProperties
  <2> HIDE DEF m
  <2>3. Len(m) = Len(value)
    BY <1>0, <1>1, <2>2
  <2>4. ASSUME NEW i \in 1..Len(m) PROVE m[i] = value[i]
    <3>1. i \in 1..(Len(t) - k + 1) /\ k + i - 1 = Len(label) + 1 + i
      BY <1>0, <1>1, <2>3
    <3> QED BY <2>2, <2>3, <3>1 DEF ComponentText
  <2>5. m = value
    BY <2>2, <2>3, <2>4, SeqEqual DEF ComponentText
  <2> QED BY <2>5 DEF m
<1>4. Len(label) + 1 \in 1..Len(t)
  BY <1>0, <1>1
<1>5. ASSUME NEW i \in 1..Len(t)
      PROVE  (t[i] = Equals /\ \A j \in 1..(i - 1) : t[j] # Equals) <=> i = Len(label) + 1
  BY <1>0, <1>1 DEF ComponentText
<1> QED BY <1>2, <1>3, <1>4, <1>5, Zenon DEF Reads

\* Two texts that agree up to the first '=' of one have the same label.
LEMMA SameLabel ==
  ASSUME NEW x, NEW y, NEW lx, NEW vx, NEW ly, NEW vy, ComponentText(x, lx, vx), ComponentText(y, ly, vy),
         Len(lx) + 1 <= Len(y), \A i \in 1..(Len(lx) + 1) : y[i] = x[i]
  PROVE  lx = ly
<1>0. /\ Len(lx) \in Nat /\ Len(ly) \in Nat /\ Len(x) \in Nat /\ Len(y) \in Nat
  BY OctetText DEF ComponentText
<1>1. Len(ly) = Len(lx)
  <2>1. Len(lx) + 1 \in 1..Len(y)
    BY <1>0
  <2>2. y[Len(lx) + 1] = Equals /\ \A j \in 1..((Len(lx) + 1) - 1) : y[j] # Equals
    <3>1. x[Len(lx) + 1] = Equals /\ \A j \in 1..Len(lx) : x[j] # Equals
      BY DEF ComponentText
    <3>2. Len(lx) + 1 \in 1..(Len(lx) + 1) /\ \A j \in 1..((Len(lx) + 1) - 1) : j \in 1..Len(lx) /\ j \in 1..(Len(lx) + 1)
      BY <1>0
    <3> QED BY <3>1, <3>2
  <2>3. Len(lx) + 1 = Len(ly) + 1
    BY <2>1, <2>2, PieceLabel DEF Reads
  <2> QED BY <1>0, <2>3
<1>2. \A i \in 1..Len(lx) : lx[i] = ly[i]
  BY <1>0, <1>1 DEF ComponentText
<1> QED BY <1>1, <1>2, SeqEqual DEF ComponentText

\* The components have texts of these labels and values.
BuiltOf(cs, n, L, V) ==
  Len(cs) = n /\ \A i \in 1..n : ComponentText(cs[i].text, L[i], V[i]) /\ cs[i].labelLen = Len(L[i])

\* tamga_fp_reject_duplicates looks at neighbours only, and that is enough: the
\* texts of one label stand together, whatever their values.
LEMMA RepeatsMeans ==
  ASSUME NEW n \in Nat, NEW cs, NEW L, NEW V, BuiltOf(cs, n, L, V)
  PROVE  Repeats(Sorted(cs)) <=> \E i, j \in 1..n : i # j /\ L[i] = L[j]
<1> USE DEF BuiltOf
<1> DEFINE P(k) == PlaceOf(cs, k)
           s == Sorted(cs)
<1>0. \A i \in 1..n : /\ cs[i].text \in Seq(Octet) /\ L[i] \in Seq(Octet)
                      /\ Len(L[i]) \in Nat /\ Len(cs[i].text) \in Nat
                      /\ Len(L[i]) + 1 <= Len(cs[i].text)
  <2>1. ASSUME NEW i \in 1..n PROVE /\ cs[i].text \in Seq(Octet) /\ L[i] \in Seq(Octet)
                      /\ Len(L[i]) \in Nat /\ Len(cs[i].text) \in Nat
                      /\ Len(L[i]) + 1 <= Len(cs[i].text)
    <3>1. ComponentText(cs[i].text, L[i], V[i])
      BY <2>1
    <3>2. /\ cs[i].text \in Seq(Octet) /\ L[i] \in Seq(Octet) /\ V[i] \in Seq(Octet)
          /\ Len(cs[i].text) = Len(L[i]) + 1 + Len(V[i])
      BY <3>1 DEF ComponentText
    <3>3. Len(L[i]) \in Nat /\ Len(V[i]) \in Nat /\ Len(cs[i].text) \in Nat
      BY <3>2, OctetText
    <3>4. Len(L[i]) + 1 <= Len(cs[i].text)
      <4>1. \A p, q \in Nat : p + 1 <= p + 1 + q
        OBVIOUS
      <4> QED BY <3>2, <3>3, <4>1, Zenon
    <3> QED BY <3>2, <3>3, <3>4, Zenon
  <2> QED BY <2>1, Zenon
<1>1. /\ s = [k \in 1..n |-> cs[P(k)]]
      /\ \A k \in 1..n : P(k) \in 1..n
      /\ \A i \in 1..n : \E k \in 1..n : P(k) = i
      /\ \A k, l \in 1..n : k # l => P(k) # P(l)
      /\ \A k, l \in 1..n : k < l =>
           cs[P(k)].text = cs[P(l)].text \/ Before(cs[P(k)].text, cs[P(l)].text)
  BY <1>0, SortedIs
<1> HIDE DEF P, s
<1>2. Len(s) = n /\ \A k \in 1..n : s[k] = cs[P(k)]
  BY <1>1
<1>3. ASSUME NEW k \in 1..n PROVE SubSeq(s[k].text, 1, Len(L[P(k)])) = L[P(k)] /\ s[k].labelLen = Len(L[P(k)])
  <2>1. PICK i \in 1..n : i = P(k)
    BY <1>1
  <2>2. ComponentText(cs[i].text, L[i], V[i]) /\ cs[i].labelLen = Len(L[i])
    BY <2>1
  <2>3. SubSeq(cs[i].text, 1, Len(L[i])) = L[i]
    BY <2>2, PieceLabel DEF Reads
  <2> QED BY <1>2, <2>1, <2>2, <2>3
<1>4. Repeats(s) <=> \E k \in 2..n : L[P(k - 1)] = L[P(k)]
  <2>1. Repeats(s) <=> \E k \in 2..n :
           /\ s[k - 1].labelLen = s[k].labelLen
           /\ SubSeq(s[k - 1].text, 1, s[k].labelLen) = SubSeq(s[k].text, 1, s[k].labelLen)
    BY <1>2, Zenon DEF Repeats
  <2>2. ASSUME NEW k \in 2..n
        PROVE  (/\ s[k - 1].labelLen = s[k].labelLen
                /\ SubSeq(s[k - 1].text, 1, s[k].labelLen) = SubSeq(s[k].text, 1, s[k].labelLen))
               <=> L[P(k - 1)] = L[P(k)]
    <3>1. k \in 1..n /\ k - 1 \in 1..n
      OBVIOUS
    <3>2. /\ SubSeq(s[k].text, 1, Len(L[P(k)])) = L[P(k)] /\ s[k].labelLen = Len(L[P(k)])
          /\ SubSeq(s[k - 1].text, 1, Len(L[P(k - 1)])) = L[P(k - 1)]
          /\ s[k - 1].labelLen = Len(L[P(k - 1)])
      BY <1>3, <3>1
    <3> QED BY <3>2, Zenon
  <2> QED BY <2>1, <2>2, Zenon
<1>5. ASSUME NEW k \in 2..n, L[P(k - 1)] = L[P(k)] PROVE \E i, j \in 1..n : i # j /\ L[i] = L[j]
  <2>1. k \in 1..n /\ k - 1 \in 1..n /\ k # k - 1
    OBVIOUS
  <2> QED BY <1>1, <1>5, <2>1
<1>6. ASSUME NEW k \in 1..n, NEW l \in 1..n, k < l, L[P(k)] = L[P(l)]
      PROVE  \E h \in 2..n : L[P(h - 1)] = L[P(h)]
  <2>1. k + 1 \in 1..n /\ k + 1 \in 2..n /\ (k + 1) - 1 = k /\ k < k + 1 /\ (k + 1 = l \/ k + 1 < l)
    BY <1>6
  <2>2. PICK a \in 1..n : a = P(k)
    BY <1>1
  <2>3. PICK b \in 1..n : b = P(k + 1)
    BY <1>1, <2>1
  <2>4. PICK c \in 1..n : c = P(l)
    BY <1>1
  <2>5. PICK x, y, z \in Seq(Octet) : x = cs[a].text /\ y = cs[b].text /\ z = cs[c].text
    BY <1>0
  <2>6. x = y \/ Before(x, y)
    BY <1>1, <2>1, <2>2, <2>3, <2>5
  <2>7. y = z \/ Before(y, z)
    BY <1>1, <2>1, <2>3, <2>4, <2>5
  <2>8. ComponentText(x, L[a], V[a]) /\ ComponentText(y, L[b], V[b]) /\ ComponentText(z, L[c], V[c]) /\ L[a] = L[c]
    BY <1>6, <2>2, <2>4, <2>5
  <2>9. PICK m \in Nat : m = Len(L[a]) + 1 /\ m <= Len(x) /\ m <= Len(z)
    BY <1>0, <2>5, <2>8
  <2>10. \A i \in 1..m : x[i] = z[i]
    <3>1. /\ \A i \in 1..Len(L[a]) : x[i] = L[a][i]
          /\ \A i \in 1..Len(L[a]) : z[i] = L[a][i]
          /\ x[Len(L[a]) + 1] = Equals /\ z[Len(L[a]) + 1] = Equals
      BY <2>8, Zenon DEF ComponentText
    <3>2. Len(L[a]) \in Nat
      BY <1>0
    <3> QED BY <2>9, <3>1, <3>2
  <2>11. m <= Len(y) /\ \A i \in 1..m : y[i] = x[i]
    BY <2>6, <2>7, <2>9, <2>10, BeforeConvex
  <2>12. L[a] = L[b]
    BY <2>8, <2>9, <2>11, SameLabel
  <2>13. L[P((k + 1) - 1)] = L[P(k + 1)]
    BY <2>1, <2>2, <2>3, <2>12
  <2> QED BY <2>1, <2>13
<1>7. ASSUME NEW i \in 1..n, NEW j \in 1..n, i # j, L[i] = L[j]
      PROVE  \E h \in 2..n : L[P(h - 1)] = L[P(h)]
  <2>1. PICK k \in 1..n : P(k) = i
    BY <1>1
  <2>2. PICK l \in 1..n : P(l) = j
    BY <1>1
  <2>3. k < l \/ l < k
    BY <1>7, <2>1, <2>2
  <2> QED BY <1>6, <1>7, <2>1, <2>2, <2>3, Zenon
<1> QED BY <1>4, <1>5, <1>7, Zenon DEF s

-----------------------------------------------------------------------------
(* The canonical text.                                                       *)

\* The text after i components.
JoinSteps(s, u) ==
  u = [i \in 0..Len(s) |-> IF i = 0 THEN Domain ELSE u[i - 1] \o <<Separator>> \o s[i].text]

LEMMA JoinedDef == ASSUME NEW s PROVE Joined(s) = (CHOOSE u : JoinSteps(s, u))[Len(s)]
BY Zenon DEF Joined, JoinSteps

LEMMA JoinSep == <<Separator>> \in Seq(Octet) /\ Len(<<Separator>>) = 1 /\ <<Separator>>[1] = Separator
BY DEF Separator, Octet

LEMMA JoinExists ==
  ASSUME NEW n \in Nat, NEW s, Len(s) = n, \A i \in 1..n : s[i].text \in Seq(Octet)
  PROVE  \E u \in [0..n -> Seq(Octet)] : JoinSteps(s, u)
<1> DEFINE D == 0..n
           W == Seq(Octet)
           m == [i \in D |-> i]
           E(g, i) == IF i = 0 THEN Domain ELSE g[i - 1] \o <<Separator>> \o s[i].text
           G == [g \in [D -> W] |-> [i \in D |-> E(g, i)]]
<1>1. m \in [D -> 0..n] /\ W # {} /\ Domain \in W
  <2>1. Domain \in W
    BY DEF Domain, Octet
  <2> QED BY <2>1
<1>2. ASSUME NEW i \in D, i # 0 PROVE i - 1 \in D /\ m[i - 1] < m[i] /\ i \in 1..n
  BY <1>2
<1>3. ASSUME NEW g \in [D -> W], NEW i \in D PROVE E(g, i) \in W
  <2>1. CASE i = 0
    BY <1>1, <2>1
  <2>2. CASE i # 0
    <3>1. g[i - 1] \in W /\ s[i].text \in W
      BY <1>2, <2>2
    <3>2. g[i - 1] \o <<Separator>> \in W
      BY <3>1, JoinSep, Joins, Zenon
    <3>3. g[i - 1] \o <<Separator>> \o s[i].text \in W
      BY <3>1, <3>2, Joins, Zenon
    <3> QED BY <2>2, <3>3
  <2> QED BY <2>1, <2>2
<1>4. G \in [[D -> W] -> [D -> W]]
  <2> HIDE DEF E
  <2> QED BY <1>3, Zenon
<1>5. ASSUME NEW g \in [D -> W], NEW h \in [D -> W], NEW i \in D,
             \A y \in D : m[y] < m[i] => g[y] = h[y]
      PROVE  G[g][i] = G[h][i]
  <2>1. i # 0 => g[i - 1] = h[i - 1]
    BY <1>2, <1>5, Zenon
  <2>2. E(g, i) = E(h, i)
    BY <2>1, Zenon
  <2> HIDE DEF E
  <2> QED BY <2>2, Zenon
<1>6. \A g, h \in [D -> W], i \in D :
        (\A y \in D : m[y] < m[i] => g[y] = h[y]) => G[g][i] = G[h][i]
  <2> HIDE DEF m, G, D, W
  <2> QED BY <1>5, Zenon
<1>7. Defines(G, D, W, m, n)
  <2> HIDE DEF m, G, D, W
  <2>1. m \in [D -> 0..n] /\ W # {}
    BY <1>1
  <2> QED BY <2>1, <1>4, <1>6, Zenon DEF Defines
<1>8. PICK p \in [D -> W] : p = G[p]
  <2> HIDE DEF m, G, D, W
  <2> QED BY <1>7, Recursion
<1>9. p = [i \in D |-> E(p, i)]
  <2> HIDE DEF E
  <2> QED BY <1>8, Zenon
<1> QED BY <1>8, <1>9, Zenon DEF JoinSteps

\* x is the domain string and n texts, each with a separator before it; the
\* i-th ends at o[i].
Laid(x, o, n, t) ==
  /\ x \in Seq(Octet) /\ o \in [0..n -> Nat] /\ Len(x) = o[n]
  /\ o[0] = 1 /\ x[1] # Separator
  /\ \A i \in 1..n :
       /\ o[i] = o[i - 1] + 1 + Len(t[i])
       /\ x[o[i - 1] + 1] = Separator
       /\ \A k \in 1..Len(t[i]) : x[o[i - 1] + 1 + k] = t[i][k]

LEMMA JoinedIsLaid ==
  ASSUME NEW n \in Nat, NEW s, Len(s) = n, \A i \in 1..n : s[i].text \in Seq(Octet)
  PROVE  \E o : Laid(Joined(s), o, n, [i \in 1..n |-> s[i].text])
<1>1. PICK u : u = CHOOSE w : JoinSteps(s, w)
  OBVIOUS
<1>2. JoinSteps(s, u) /\ Joined(s) = u[n]
  <2>1. \E w : JoinSteps(s, w)
    BY JoinExists
  <2> QED BY <1>1, <2>1, JoinedDef, Zenon
<1> DEFINE t == [i \in 1..n |-> s[i].text]
           o == [i \in 0..n |-> Len(u[i])]
<1>3. /\ u[0] = Domain
      /\ \A i \in 1..n : u[i] = u[i - 1] \o <<Separator>> \o t[i]
  <2>1. 0 \in 0..n /\ \A i \in 1..n : i \in 0..n /\ i # 0 /\ i \in 1..n
    OBVIOUS
  <2>2. \A i \in 0..n : u[i] = IF i = 0 THEN Domain ELSE u[i - 1] \o <<Separator>> \o s[i].text
    BY <1>2, Zenon DEF JoinSteps
  <2> QED BY <2>1, <2>2, Zenon
<1>4. \A i \in 1..n : t[i] \in Seq(Octet) /\ Len(t[i]) \in Nat
  BY OctetText
<1> HIDE DEF t
<1>5. ASSUME NEW i \in 1..n, u[i - 1] \in Seq(Octet)
      PROVE  /\ u[i] \in Seq(Octet) /\ Len(u[i]) = Len(u[i - 1]) + 1 + Len(t[i])
             /\ \A k \in 1..Len(u[i - 1]) : u[i][k] = u[i - 1][k]
             /\ u[i][Len(u[i - 1]) + 1] = Separator
             /\ \A k \in 1..Len(t[i]) : u[i][Len(u[i - 1]) + 1 + k] = t[i][k]
  <2> DEFINE v == u[i - 1]
             e == <<Separator>>
             a == v \o e
             w == a \o t[i]
  <2>1. v \in Seq(Octet) /\ Len(v) \in Nat /\ t[i] \in Seq(Octet) /\ Len(t[i]) \in Nat
    BY <1>4, <1>5, OctetText
  <2>2. e \in Seq(Octet) /\ Len(e) = 1 /\ e[1] = Separator
    BY JoinSep
  <2> HIDE DEF v, e
  <2>3. /\ a \in Seq(Octet) /\ Len(a) = Len(v) + Len(e)
        /\ \A k \in 1..Len(v) : a[k] = v[k]
        /\ \A k \in 1..Len(e) : a[Len(v) + k] = e[k]
    BY <2>1, <2>2, Joins, Zenon
  <2>4. Len(a) = Len(v) + 1 /\ a[Len(v) + 1] = Separator
    BY <2>1, <2>2, <2>3
  <2> HIDE DEF a
  <2>5. /\ w \in Seq(Octet) /\ Len(w) = Len(a) + Len(t[i])
        /\ \A k \in 1..Len(a) : w[k] = a[k]
        /\ \A k \in 1..Len(t[i]) : w[Len(a) + k] = t[i][k]
    BY <2>1, <2>3, Joins, Zenon
  <2> HIDE DEF w
  <2>6. /\ Len(w) = Len(v) + 1 + Len(t[i])
        /\ \A k \in 1..Len(v) : w[k] = v[k]
        /\ w[Len(v) + 1] = Separator
        /\ \A k \in 1..Len(t[i]) : w[Len(v) + 1 + k] = t[i][k]
    <3>1. PICK p \in Nat : p = Len(v)
      BY <2>1
    <3>2. p + 1 \in 1..(p + 1) /\ \A k \in 1..p : k \in 1..(p + 1)
      OBVIOUS
    <3>3. Len(a) = p + 1 /\ a[p + 1] = Separator /\ \A k \in 1..p : a[k] = v[k]
      BY <2>3, <2>4, <3>1, Zenon
    <3>4. w[p + 1] = Separator /\ \A k \in 1..p : w[k] = v[k]
      BY <2>5, <3>2, <3>3, Zenon
    <3> QED BY <2>5, <3>1, <3>3, <3>4, Zenon
  <2>7. u[i] = w
    BY <1>3, Zenon DEF w, a, v, e
  <2> QED BY <2>5, <2>6, <2>7 DEF v
<1> DEFINE Q == {j \in 0..n :
                   /\ u[j] \in Seq(Octet)
                   /\ \A i \in 0..j : \A k \in 1..Len(u[i]) : k <= Len(u[j]) /\ u[j][k] = u[i][k]}
<1>6. 0 \in Q
  <2>1. u[0] \in Seq(Octet)
    BY <1>3 DEF Domain, Octet
  <2>2. Len(u[0]) \in Nat
    BY <2>1, OctetText
  <2> QED BY <2>1, <2>2
<1>7. ASSUME NEW j \in 1..n, j - 1 \in Q PROVE j \in Q
  <2>1. u[j - 1] \in Seq(Octet) /\ Len(u[j - 1]) \in Nat
    BY <1>7, OctetText
  <2>2. /\ u[j] \in Seq(Octet) /\ Len(u[j]) = Len(u[j - 1]) + 1 + Len(t[j])
        /\ \A k \in 1..Len(u[j - 1]) : u[j][k] = u[j - 1][k]
    BY <1>5, <2>1
  <2>3. Len(u[j]) \in Nat /\ Len(u[j - 1]) <= Len(u[j])
    <3>1. \A p, q \in Nat : p + 1 + q \in Nat /\ p <= p + 1 + q
      OBVIOUS
    <3> QED BY <1>4, <2>1, <2>2, <3>1, Zenon
  <2>4. ASSUME NEW i \in 0..j, NEW k \in 1..Len(u[i]) PROVE k <= Len(u[j]) /\ u[j][k] = u[i][k]
    <3>1. CASE i = j
      BY <2>3, <2>4, <3>1
    <3>2. CASE i # j
      <4>1. i \in 0..(j - 1)
        BY <3>2
      <4>2. k <= Len(u[j - 1]) /\ u[j - 1][k] = u[i][k]
        BY <1>7, <2>4, <4>1
      <4>3. k \in Nat /\ k >= 1
        BY <2>4
      <4>4. k \in 1..Len(u[j - 1]) /\ k <= Len(u[j])
        BY <2>1, <2>3, <4>2, <4>3
      <4> QED BY <2>2, <4>2, <4>4
    <3> QED BY <3>1, <3>2
  <2>5. j \in 0..n
    OBVIOUS
  <2> QED BY <2>2, <2>4, <2>5
<1>8. 0..n \subseteq Q
  <2> HIDE DEF Q
  <2> QED BY <1>6, <1>7, IntervalInduction
<1>9. \A j \in 0..n : u[j] \in Seq(Octet) /\ Len(u[j]) \in Nat
  BY <1>8, OctetText
<1>10. ASSUME NEW i \in 0..n, NEW k \in 1..Len(u[i]) PROVE k <= Len(u[n]) /\ u[n][k] = u[i][k]
  BY <1>8
<1> HIDE DEF Q
<1> DEFINE x == u[n]
<1>11. /\ x \in Seq(Octet) /\ o \in [0..n -> Nat] /\ Len(x) = o[n] /\ o[0] = 1 /\ x[1] # Separator
  <2>1. Len(Domain) = 1 /\ Domain[1] # Separator
    BY DEF Domain, Separator
  <2>2. u[0] = Domain /\ 0 \in 0..n /\ n \in 0..n /\ 1 \in 1..1
    BY <1>3
  <2>3. u[n][1] = u[0][1]
    BY <1>10, <2>1, <2>2
  <2> QED BY <1>9, <2>1, <2>2, <2>3
<1>12. ASSUME NEW i \in 1..n
       PROVE  /\ o[i] = o[i - 1] + 1 + Len(t[i])
              /\ x[o[i - 1] + 1] = Separator
              /\ \A k \in 1..Len(t[i]) : x[o[i - 1] + 1 + k] = t[i][k]
  <2>1. i - 1 \in 0..n /\ i \in 0..n
    OBVIOUS
  <2>2. PICK p, q \in Nat : p = Len(u[i - 1]) /\ q = Len(u[i]) /\ o[i - 1] = p /\ o[i] = q
    BY <1>9, <2>1
  <2>3. /\ q = p + 1 + Len(t[i]) /\ u[i][p + 1] = Separator
        /\ \A k \in 1..Len(t[i]) : u[i][p + 1 + k] = t[i][k]
    BY <1>5, <1>9, <2>1, <2>2, ZenonT(60)
  <2>4. \A k \in 1..q : x[k] = u[i][k]
    BY <1>10, <2>1, <2>2
  <2>5. p + 1 \in 1..q /\ \A k \in 1..Len(t[i]) : p + 1 + k \in 1..q
    <3>1. PICK r \in Nat : r = Len(t[i])
      BY <1>4
    <3>2. q = p + 1 + r
      BY <2>3, <3>1, Zenon
    <3>3. p + 1 \in 1..q /\ \A k \in 1..r : p + 1 + k \in 1..q
      BY <3>2
    <3> QED BY <3>1, <3>3, Zenon
  <2> QED BY <2>2, <2>3, <2>4, <2>5
<1>13. Laid(x, o, n, t)
  <2> HIDE DEF x, o
  <2> QED BY <1>11, <1>12, Zenon DEF Laid
<1> QED BY <1>2, <1>13 DEF t, x

\* Each text ends after the one before, and nothing is outside them.
Spaced(o, n, t) ==
  /\ \A i, j \in 0..n : i < j => o[i] + 1 <= o[j]
  /\ \A p \in 1..o[n] :
       \/ p = 1
       \/ \E i \in 1..n : p = o[i - 1] + 1 \/ \E k \in 1..Len(t[i]) : p = o[i - 1] + 1 + k

LEMMA LaidGrows ==
  ASSUME NEW n \in Nat, NEW x, NEW o, NEW t, Laid(x, o, n, t), \A i \in 1..n : Len(t[i]) \in Nat
  PROVE  Spaced(o, n, t)
<1>0. /\ o \in [0..n -> Nat] /\ o[0] = 1
      /\ \A i \in 1..n : o[i] = o[i - 1] + 1 + Len(t[i])
  BY DEF Laid
<1>1. ASSUME NEW i \in 1..n
      PROVE  /\ o[i] \in Nat /\ o[i - 1] \in Nat /\ Len(t[i]) \in Nat
             /\ o[i] = o[i - 1] + 1 + Len(t[i]) /\ o[i - 1] + 1 <= o[i]
  <2>1. i \in 0..n /\ i - 1 \in 0..n
    OBVIOUS
  <2>2. PICK a, b, c \in Nat : a = o[i - 1] /\ b = o[i] /\ c = Len(t[i])
    BY <1>0, <2>1
  <2>3. b = a + 1 + c
    BY <1>0, <2>2, Zenon
  <2>4. a + 1 <= b
    BY <2>3
  <2> QED BY <2>2, <2>3, <2>4, Zenon
<1> DEFINE T == {j \in 0..n : \A i \in 0..n : i < j => o[i] + 1 <= o[j]}
<1>2. 0 \in T
  OBVIOUS
<1>3. ASSUME NEW j \in 1..n, j - 1 \in T PROVE j \in T
  <2>1. j \in 0..n /\ o[j] \in Nat /\ o[j - 1] \in Nat /\ o[j - 1] + 1 <= o[j]
    BY <1>1
  <2>2. ASSUME NEW i \in 0..n, i < j PROVE o[i] + 1 <= o[j]
    <3>1. i = j - 1 \/ i < j - 1
      BY <2>2
    <3>2. CASE i = j - 1
      BY <2>1, <3>2
    <3>3. CASE i < j - 1
      <4>1. o[i] + 1 <= o[j - 1] /\ o[i] \in Nat
        BY <1>0, <1>3, <3>3
      <4> QED BY <2>1, <4>1
    <3> QED BY <3>1, <3>2, <3>3
  <2> QED BY <2>1, <2>2
<1>4. 0..n \subseteq T
  <2> HIDE DEF T
  <2> QED BY <1>2, <1>3, IntervalInduction
<1> DEFINE In(p, i) == p = o[i - 1] + 1 \/ \E k \in 1..Len(t[i]) : p = o[i - 1] + 1 + k
           Covered == {j \in 0..n : \A p \in 1..o[j] : p = 1 \/ \E i \in 1..n : In(p, i)}
<1>5. 0 \in Covered
  BY <1>0
<1>6. ASSUME NEW j \in 1..n, j - 1 \in Covered PROVE j \in Covered
  <2>1. j \in 0..n
    OBVIOUS
  <2>2. ASSUME NEW p \in 1..o[j] PROVE p = 1 \/ \E i \in 1..n : In(p, i)
    <3>1. PICK a, b, c \in Nat : a = o[j - 1] /\ b = o[j] /\ c = Len(t[j]) /\ b = a + 1 + c
      BY <1>1
    <3>2. p \in 1..b
      BY <2>2, <3>1
    <3>3. CASE p <= a
      <4>1. p \in 1..o[j - 1]
        BY <3>1, <3>2, <3>3
      <4> HIDE DEF In
      <4> QED BY <1>6, <4>1
    <3>4. CASE p = a + 1
      BY <3>1, <3>4
    <3>5. CASE p > a + 1
      <4>0. b = a + 1 + c
        BY <3>1, Zenon
      <4>1. p - a - 1 \in 1..c /\ p = a + 1 + (p - a - 1)
        BY <3>2, <3>5, <4>0
      <4>2. In(p, j)
        BY <3>1, <4>1
      <4> QED BY <4>2
    <3> QED BY <3>2, <3>3, <3>4, <3>5
  <2> HIDE DEF In
  <2> QED BY <2>1, <2>2
<1>7. 0..n \subseteq Covered
  <2> HIDE DEF Covered
  <2> QED BY <1>5, <1>6, IntervalInduction
<1>8. n \in 0..n
  OBVIOUS
<1>9. \A i, j \in 0..n : i < j => o[i] + 1 <= o[j]
  BY <1>4
<1>10. \A p \in 1..o[n] : p = 1 \/ \E i \in 1..n : In(p, i)
  <2> HIDE DEF In
  <2> QED BY <1>7, <1>8
<1> QED BY <1>9, <1>10, Zenon DEF Spaced

\* The texts are those of these labels and values.
TextsOf(t, n, L, V) == \A i \in 1..n : ComponentText(t[i], L[i], V[i])
SplitsInto(x, n, L, V) == Split(x) = {<<L[i], V[i]>> : i \in 1..n}

\* Cut at its separators, and each part at its first '=', the text gives back
\* the labels and values.
LEMMA SplitIs ==
  ASSUME NEW n \in Nat, NEW x, NEW o, NEW t, Laid(x, o, n, t), NEW L, NEW V, TextsOf(t, n, L, V)
  PROVE  SplitsInto(x, n, L, V)
<1> USE DEF TextsOf
<1> DEFINE cuts == {i \in 1..Len(x) : x[i] = Separator}
           after(i) == {j \in cuts : j > i}
           end(i) == IF after(i) = {} THEN Len(x)
                     ELSE (CHOOSE j \in after(i) : \A k \in after(i) : j <= k) - 1
           part(i) == SubSeq(x, i + 1, end(i))
           eq(p) == CHOOSE i \in 1..Len(p) :
                      p[i] = Equals /\ \A j \in 1..i - 1 : p[j] # Equals
           pair(p) == <<SubSeq(p, 1, eq(p) - 1), SubSeq(p, eq(p) + 1, Len(p))>>
           Cut(i) == o[i - 1] + 1
<1>1. Split(x) = {pair(part(i)) : i \in cuts}
  BY Zenon DEF Split
<1>2. \A i \in 1..n : t[i] \in Seq(Octet) /\ Len(t[i]) \in Nat /\ \A k \in 1..Len(t[i]) : t[i][k] # Separator
  <2>1. ASSUME NEW i \in 1..n
        PROVE  t[i] \in Seq(Octet) /\ Len(t[i]) \in Nat /\ \A k \in 1..Len(t[i]) : t[i][k] # Separator
    <3>1. t[i] \in Seq(Octet) /\ \A k \in 1..Len(t[i]) : t[i][k] # Separator
      BY DEF ComponentText
    <3> QED BY <3>1, OctetText
  <2> QED BY <2>1
<1>3. /\ x \in Seq(Octet) /\ o \in [0..n -> Nat] /\ Len(x) = o[n] /\ Len(x) \in Nat
      /\ o[0] = 1 /\ x[1] # Separator
      /\ \A i \in 1..Len(x) : x[i] \in Octet
  BY OctetText DEF Laid
<1>4. /\ \A i, j \in 0..n : i < j => o[i] + 1 <= o[j]
      /\ \A p \in 1..o[n] : p = 1 \/ \E i \in 1..n : p = Cut(i) \/ \E k \in 1..Len(t[i]) : p = o[i - 1] + 1 + k
  <2>1. \A i \in 1..n : Len(t[i]) \in Nat
    BY <1>2
  <2>2. Spaced(o, n, t)
    BY <2>1, LaidGrows
  <2> QED BY <2>2, Zenon DEF Spaced
<1>5. ASSUME NEW i \in 1..n
      PROVE  /\ o[i - 1] \in Nat /\ o[i] \in Nat /\ o[i] = o[i - 1] + 1 + Len(t[i]) /\ o[i] <= Len(x)
             /\ x[Cut(i)] = Separator
             /\ \A k \in 1..Len(t[i]) : x[o[i - 1] + 1 + k] = t[i][k]
  <2>1. i \in 0..n /\ i - 1 \in 0..n /\ n \in 0..n /\ (i = n \/ i < n)
    OBVIOUS
  <2>2. o[i - 1] \in Nat /\ o[i] \in Nat /\ o[n] \in Nat
    BY <1>3, <2>1
  <2>3. o[i] <= o[n]
    BY <1>4, <2>1, <2>2
  <2> QED BY <1>3, <2>2, <2>3 DEF Laid
<1>6. \A i \in 1..n : Cut(i) \in cuts
  <2>1. ASSUME NEW i \in 1..n PROVE Cut(i) \in 1..Len(x)
    <3>1. PICK a, b, c, m \in Nat : a = o[i - 1] /\ b = o[i] /\ c = Len(t[i]) /\ m = Len(x)
      BY <1>2, <1>3, <1>5
    <3>2. b = a + 1 + c /\ b <= m
      BY <1>5, <3>1, Zenon
    <3>3. a + 1 \in 1..m
      BY <3>2
    <3> QED BY <3>1, <3>3, Zenon
  <2> QED BY <1>5, <2>1
<1>7. ASSUME NEW p \in cuts PROVE \E i \in 1..n : p = Cut(i)
  <2>1. p \in 1..o[n] /\ x[p] = Separator
    BY <1>3
  <2>2. PICK i \in 1..n : p = Cut(i) \/ \E k \in 1..Len(t[i]) : p = o[i - 1] + 1 + k
    BY <1>3, <1>4, <2>1
  <2>3. \A k \in 1..Len(t[i]) : p # o[i - 1] + 1 + k
    <3> SUFFICES ASSUME NEW k \in 1..Len(t[i]), p = o[i - 1] + 1 + k PROVE FALSE
      OBVIOUS
    <3>1. x[o[i - 1] + 1 + k] = t[i][k]
      BY <1>5
    <3>2. t[i][k] # Separator
      BY <1>2
    <3> QED BY <2>1, <3>1, <3>2, Zenon
  <2> QED BY <2>2, <2>3
<1>8. ASSUME NEW i \in 1..n PROVE end(Cut(i)) = o[i]
  <2> HIDE DEF cuts
  <2>0. i \in 0..n /\ i - 1 \in 0..n /\ n \in 0..n
    OBVIOUS
  <2>1. CASE i = n
    <3>1. ASSUME NEW q \in after(Cut(i)) PROVE FALSE
      <4>1. PICK j \in 1..n : q = Cut(j)
        BY <1>7
      <4>2. o[j - 1] + 1 > o[i - 1] + 1
        BY <4>1
      <4>3. j - 1 \in 0..n /\ j - 1 <= i - 1
        BY <2>1
      <4>4. o[j - 1] \in Nat /\ o[i - 1] \in Nat
        BY <1>5
      <4>5. o[j - 1] <= o[i - 1]
        <5>1. CASE j - 1 = i - 1
          BY <4>4, <5>1
        <5>2. CASE j - 1 < i - 1
          <6>1. o[j - 1] + 1 <= o[i - 1]
            BY <1>4, <2>0, <4>3, <5>2
          <6> QED BY <4>4, <6>1
        <5> QED BY <4>3, <5>1, <5>2
      <4> QED BY <4>2, <4>4, <4>5
    <3>2. after(Cut(i)) = {}
      BY <3>1
    <3> HIDE DEF after
    <3> QED BY <1>3, <2>1, <3>2
  <2>2. CASE i # n
    <3>0. i + 1 \in 1..n /\ (i + 1) - 1 = i
      BY <2>2
    <3> DEFINE c == o[i] + 1
    <3>1. c = Cut(i + 1)
      BY <3>0
    <3>2. c \in cuts /\ c \in Nat /\ o[i] \in Nat
      <4>1. o[i] \in Nat
        BY <1>5
      <4>2. c \in Nat
        BY <4>1
      <4> HIDE DEF c
      <4> QED BY <1>6, <3>0, <3>1, <4>1, <4>2, Zenon
    <3>3. c > Cut(i)
      <4>1. o[i - 1] + 1 <= o[i] /\ o[i - 1] \in Nat
        BY <1>4, <1>5, <2>0
      <4> QED BY <3>2, <4>1
    <3>4. c \in after(Cut(i))
      BY <3>2, <3>3
    <3>5. ASSUME NEW q \in after(Cut(i)) PROVE c <= q
      <4>1. PICK j \in 1..n : q = Cut(j)
        BY <1>7
      <4>2. o[j - 1] + 1 > o[i - 1] + 1 /\ o[j - 1] \in Nat /\ o[i - 1] \in Nat
        BY <1>5, <4>1
      <4>3. j - 1 \in 0..n
        OBVIOUS
      <4>4. ~(j - 1 <= i - 1)
        <5>1. CASE j - 1 = i - 1
          BY <4>2, <5>1
        <5>2. CASE j - 1 < i - 1
          <6>1. o[j - 1] + 1 <= o[i - 1]
            BY <1>4, <2>0, <4>3, <5>2
          <6> QED BY <4>2, <6>1
        <5> QED BY <5>1, <5>2
      <4>5. j - 1 = i \/ i < j - 1
        BY <4>4
      <4>6. o[i] <= o[j - 1]
        <5>1. CASE j - 1 = i
          BY <3>2, <5>1
        <5>2. CASE i < j - 1
          <6>1. o[i] + 1 <= o[j - 1]
            BY <1>4, <2>0, <4>3, <5>2
          <6> QED BY <3>2, <4>2, <6>1
        <5> QED BY <4>5, <5>1, <5>2
      <4> QED BY <3>2, <4>1, <4>2, <4>6
    <3>6. \A q \in after(Cut(i)) : q \in Nat
      <4>1. \A q \in cuts : q \in Nat
        BY DEF cuts
      <4> QED BY <4>1
    <3> HIDE DEF c, after, Cut
    <3>7. \A q \in after(Cut(i)) : (\A k \in after(Cut(i)) : q <= k) => q = c
      BY <3>2, <3>4, <3>5, <3>6
    <3>8. (CHOOSE j \in after(Cut(i)) : \A k \in after(Cut(i)) : j <= k) = c
      BY <3>4, <3>5, <3>7, Zenon
    <3>9. end(Cut(i)) = c - 1
      BY <3>4, <3>8, Zenon
    <3> QED BY <3>2, <3>9 DEF c
  <2> QED BY <2>1, <2>2
<1> HIDE DEF end, after
<1>9. ASSUME NEW i \in 1..n PROVE part(Cut(i)) = t[i]
  <2>1. PICK a, b, c, m \in Nat : a = o[i - 1] /\ b = o[i] /\ c = Len(t[i]) /\ m = Len(x)
    BY <1>2, <1>3, <1>5
  <2>2. b = a + 1 + c /\ b <= m
    BY <1>5, <2>1, Zenon
  <2>3. part(Cut(i)) = SubSeq(x, a + 2, b)
    <3>1. Cut(i) + 1 = a + 2
      BY <2>1
    <3> QED BY <1>8, <2>1, <3>1, Zenon
  <2>4. \A k \in (a + 2)..b : x[k] \in Octet
    BY <1>3, <2>1, <2>2
  <2> DEFINE s == SubSeq(x, a + 2, b)
  <2>5. /\ s \in Seq(Octet) /\ Len(s) = IF a + 2 <= b THEN b - (a + 2) + 1 ELSE 0
        /\ \A k \in 1..(b - (a + 2) + 1) : s[k] = x[(a + 2) + k - 1]
    <3>1. a + 2 \in Int /\ b \in Int
      OBVIOUS
    <3> QED BY <2>4, <3>1, SubSeqProperties
  <2> HIDE DEF s
  <2>6. Len(s) = c
    BY <2>2, <2>5
  <2>7. ASSUME NEW k \in 1..c PROVE s[k] = t[i][k]
    <3>1. k \in 1..(b - (a + 2) + 1) /\ (a + 2) + k - 1 = a + 1 + k
      BY <2>2
    <3>2. x[a + 1 + k] = t[i][k]
      BY <1>5, <2>1
    <3> QED BY <2>5, <3>1, <3>2, Zenon
  <2>8. s = t[i]
    BY <1>2, <2>1, <2>5, <2>6, <2>7, SeqEqual
  <2> QED BY <2>3, <2>8 DEF s
<1> HIDE DEF part
<1>10. ASSUME NEW i \in 1..n PROVE pair(t[i]) = <<L[i], V[i]>>
  <2>1. PICK p : p = t[i] /\ ComponentText(p, L[i], V[i])
    OBVIOUS
  <2>2. /\ SubSeq(p, 1, Len(L[i])) = L[i]
        /\ SubSeq(p, Len(L[i]) + 2, Len(p)) = V[i]
        /\ Len(L[i]) + 1 \in 1..Len(p)
        /\ \A k \in 1..Len(p) : (p[k] = Equals /\ \A j \in 1..(k - 1) : p[j] # Equals) <=> k = Len(L[i]) + 1
    <3>1. Reads(p, L[i], V[i])
      BY <2>1, PieceLabel
    <3> QED BY <3>1, Zenon DEF Reads
  <2>3. eq(p) = Len(L[i]) + 1
    BY <2>2, Zenon
  <2> HIDE DEF eq
  <2>4. Len(L[i]) \in Nat
    BY <2>1, OctetText DEF ComponentText
  <2>5. eq(p) - 1 = Len(L[i]) /\ eq(p) + 1 = Len(L[i]) + 2
    BY <2>3, <2>4
  <2> QED BY <2>1, <2>2, <2>5, Zenon
<1> HIDE DEF pair, Cut, cuts
<1>11. {pair(part(i)) : i \in cuts} = {<<L[i], V[i]>> : i \in 1..n}
  <2>1. ASSUME NEW p \in cuts PROVE \E i \in 1..n : pair(part(p)) = <<L[i], V[i]>>
    BY <1>7, <1>9, <1>10, Zenon
  <2>2. ASSUME NEW i \in 1..n PROVE \E p \in cuts : pair(part(p)) = <<L[i], V[i]>>
    BY <1>6, <1>9, <1>10, Zenon
  <2> QED BY <2>1, <2>2, Zenon
<1> QED BY <1>1, <1>11, Zenon DEF SplitsInto

-----------------------------------------------------------------------------
(* The fingerprint.                                                          *)

\* What is asked of cs, and what BuildCanonical then makes of it.
FingerprintRight(cs) ==
  LET made == BuildCanonical(cs)
      pairs == {<<cs[i].label, Trimmed(cs[i].value)>> : i \in DOMAIN cs}
      sound == /\ cs # <<>>
               /\ \A p \in pairs : /\ LabelIsValid(p[1])
                                   /\ \A k \in 1..Len(p[2]) : ~IsControl(p[2][k])
               /\ \A i, j \in DOMAIN cs : i # j => cs[i].label # cs[j].label
  IN /\ made.ok = sound
     /\ sound => Split(made.canonical) = pairs

\* A component whose label and trimmed value are in order.
FitFor(c) == LabelIsValid(c.label) /\ \A k \in 1..Len(Trim(c.value)) : ~IsControl(Trim(c.value)[k])

LEMMA ComponentMeans ==
  ASSUME NEW c, c.label \in Seq(Octet), c.value \in Seq(Octet)
  PROVE  /\ Component(c).ok <=> FitFor(c)
         /\ FitFor(c) => /\ ComponentText(Component(c).text, c.label, Trim(c.value))
                         /\ Component(c).labelLen = Len(c.label)
<1> DEFINE v == Trim(c.value)
<1>1. v \in Seq(Octet)
  BY TrimAgrees
<1> HIDE DEF v
<1>2. CASE FitFor(c)
  <2>1. LabelIsValid(c.label) /\ \A k \in 1..Len(v) : ~IsControl(v[k])
    BY <1>2, Zenon DEF FitFor, v
  <2>2. Component(c) = [ok |-> TRUE, text |-> c.label \o <<Equals>> \o v, labelLen |-> Len(c.label)]
    BY <2>1, Zenon DEF Component, v
  <2>3. ComponentText(c.label \o <<Equals>> \o v, c.label, v)
    BY <1>1, <2>1, PieceMade
  <2> QED BY <1>2, <2>2, <2>3 DEF v
<1>3. CASE ~FitFor(c)
  <2>1. ~LabelIsValid(c.label) \/ \E k \in 1..Len(v) : IsControl(v[k])
    BY <1>3, Zenon DEF FitFor, v
  <2>2. Component(c) = [ok |-> FALSE]
    BY <2>1, Zenon DEF Component, v
  <2> QED BY <1>3, <2>2
<1> QED BY <1>2, <1>3

LEMMA FingerprintsAgree ==
  ASSUME NEW cs \in Seq([label : Seq(Octet), value : Seq(Octet)])
  PROVE  FingerprintRight(cs)
<1> DEFINE n == Len(cs)
           built == [i \in DOMAIN cs |-> Component(cs[i])]
           L == [i \in 1..n |-> cs[i].label]
           V == [i \in 1..n |-> Trim(cs[i].value)]
           pairs == {<<cs[i].label, Trimmed(cs[i].value)>> : i \in DOMAIN cs}
           fine(a, b) == LabelIsValid(a) /\ \A k \in 1..Len(b) : ~IsControl(b[k])
           valid == \A p \in pairs : fine(p[1], p[2])
           apart == \A i, j \in DOMAIN cs : i # j => cs[i].label # cs[j].label
<1>0. n \in Nat /\ DOMAIN cs = 1..n /\ \A i \in 1..n : cs[i].label \in Seq(Octet) /\ cs[i].value \in Seq(Octet)
  <2>1. n \in Nat /\ DOMAIN cs = 1..n /\ cs \in [1..n -> [label : Seq(Octet), value : Seq(Octet)]]
    BY LenProperties
  <2> QED BY <2>1
<1>1. BuildCanonical(cs) =
        IF cs = <<>> \/ \E i \in DOMAIN cs : ~built[i].ok THEN [ok |-> FALSE]
        ELSE IF Repeats(Sorted(built)) THEN [ok |-> FALSE]
        ELSE [ok |-> TRUE, canonical |-> Joined(Sorted(built))]
  BY Zenon DEF BuildCanonical
<1>2. \A i \in 1..n : Trimmed(cs[i].value) = Trim(cs[i].value)
  BY <1>0, TrimAgrees
<1>3. pairs = {<<L[i], V[i]>> : i \in 1..n}
  BY <1>0, <1>2, Zenon
<1>4. valid <=> \A i \in 1..n : FitFor(cs[i])
  <2>1. valid <=> \A i \in 1..n : fine(L[i], V[i])
    <3>1. \A p \in pairs : \E i \in 1..n : p[1] = L[i] /\ p[2] = V[i]
      <4>1. ASSUME NEW p \in pairs PROVE \E i \in 1..n : p[1] = L[i] /\ p[2] = V[i]
        <5> HIDE DEF pairs, L, V
        <5>1. PICK i \in 1..n : p = <<L[i], V[i]>>
          BY <1>3
        <5> QED BY <5>1
      <4> QED BY <4>1
    <3>2. \A i \in 1..n : \E p \in pairs : p[1] = L[i] /\ p[2] = V[i]
      <4>1. ASSUME NEW i \in 1..n PROVE \E p \in pairs : p[1] = L[i] /\ p[2] = V[i]
        <5>1. <<L[i], V[i]>> \in pairs
          BY <1>3
        <5>2. <<L[i], V[i]>>[1] = L[i] /\ <<L[i], V[i]>>[2] = V[i]
          OBVIOUS
        <5> HIDE DEF pairs, L, V
        <5> QED BY <5>1, <5>2
      <4> QED BY <4>1
    <3> HIDE DEF pairs, L, V, fine
    <3> QED BY <3>1, <3>2, Zenon
  <2> QED BY <2>1, Zenon DEF FitFor
<1>5. \A i \in 1..n : built[i] = Component(cs[i])
  BY <1>0
<1>6. Len(built) = n
  BY <1>0
<1>7. FingerprintRight(cs) <=>
        /\ BuildCanonical(cs).ok = (cs # <<>> /\ valid /\ apart)
        /\ (cs # <<>> /\ valid /\ apart) => Split(BuildCanonical(cs).canonical) = pairs
  BY Zenon DEF FingerprintRight
<1>8. cs = <<>> => n = 0
  OBVIOUS
<1> HIDE DEF n, built, valid, pairs
<1>9. \A i \in 1..n : built[i].ok <=> FitFor(cs[i])
  BY <1>0, <1>5, ComponentMeans
<1>10. CASE cs = <<>> \/ ~valid
  <2>1. BuildCanonical(cs) = [ok |-> FALSE]
    BY <1>0, <1>1, <1>4, <1>9, <1>10, Zenon
  <2>2. BuildCanonical(cs).ok = FALSE
    BY <2>1
  <2> QED BY <1>7, <1>10, <2>2, Zenon
<1>11. CASE cs # <<>> /\ valid
  <2>1. \A i \in 1..n : ComponentText(built[i].text, L[i], V[i]) /\ built[i].labelLen = Len(L[i])
    <3>1. ASSUME NEW i \in 1..n PROVE ComponentText(built[i].text, L[i], V[i]) /\ built[i].labelLen = Len(L[i])
      <4>1. FitFor(cs[i])
        BY <1>4, <1>11
      <4>2. ComponentText(built[i].text, cs[i].label, Trim(cs[i].value)) /\ built[i].labelLen = Len(cs[i].label)
        BY <1>0, <1>5, <4>1, ComponentMeans
      <4> QED BY <4>2
    <3> QED BY <3>1
  <2> HIDE DEF L, V
  <2>2. Repeats(Sorted(built)) <=> \E i, j \in 1..n : i # j /\ L[i] = L[j]
    <3>1. BuiltOf(built, n, L, V)
      BY <1>6, <2>1, Zenon DEF BuiltOf
    <3> QED BY <1>0, <3>1, RepeatsMeans
  <2>3. Repeats(Sorted(built)) <=> ~apart
    BY <1>0, <2>2 DEF L
  <2>4. \A i \in DOMAIN cs : built[i].ok
    BY <1>0, <1>4, <1>9, <1>11, Zenon
  <2>5. BuildCanonical(cs) = IF apart THEN [ok |-> TRUE, canonical |-> Joined(Sorted(built))] ELSE [ok |-> FALSE]
    BY <1>1, <1>11, <2>3, <2>4, Zenon
  <2> HIDE DEF apart
  <2>6. CASE ~apart
    <3>1. BuildCanonical(cs).ok = FALSE
      BY <2>5, <2>6
    <3> QED BY <1>7, <2>6, <3>1, Zenon
  <2>7. CASE apart
    <3>1. BuildCanonical(cs).ok = TRUE /\ BuildCanonical(cs).canonical = Joined(Sorted(built))
      BY <2>5, <2>7
    <3> DEFINE s == Sorted(built)
               P == [k \in 1..n |-> PlaceOf(built, k)]
               t == [k \in 1..n |-> s[k].text]
    <3>2. \A i \in 1..n : built[i].text \in Seq(Octet)
      BY <2>1, Zenon DEF ComponentText
    <3>3. /\ s = [k \in 1..n |-> built[P[k]]]
          /\ \A k \in 1..n : P[k] \in 1..n
          /\ \A i \in 1..n : \E k \in 1..n : P[k] = i
      <4>1. /\ s = [k \in 1..n |-> built[PlaceOf(built, k)]]
            /\ \A k \in 1..n : PlaceOf(built, k) \in 1..n
            /\ \A i \in 1..n : \E k \in 1..n : PlaceOf(built, k) = i
        BY <1>0, <1>6, <3>2, SortedIs, Zenon
      <4> QED BY <4>1, Zenon
    <3> HIDE DEF s, P
    <3>4. Len(s) = n /\ \A k \in 1..n : s[k] = built[P[k]]
      BY <1>0, <3>3
    <3>5. \A k \in 1..n : s[k].text \in Seq(Octet)
      BY <3>2, <3>3, <3>4, Zenon
    <3>6. PICK o : Laid(Joined(s), o, n, t)
      BY <1>0, <3>4, <3>5, JoinedIsLaid, Zenon
    <3> DEFINE LS == [k \in 1..n |-> L[P[k]]]
               VS == [k \in 1..n |-> V[P[k]]]
    <3>7. TextsOf(t, n, LS, VS)
      <4>1. ASSUME NEW k \in 1..n PROVE ComponentText(t[k], LS[k], VS[k])
        <5>1. t[k] = built[P[k]].text /\ LS[k] = L[P[k]] /\ VS[k] = V[P[k]] /\ P[k] \in 1..n
          BY <3>3, <3>4, Zenon
        <5> QED BY <2>1, <5>1, Zenon
      <4> QED BY <4>1, Zenon DEF TextsOf
    <3> HIDE DEF LS, VS, t
    <3>8. SplitsInto(Joined(s), n, LS, VS)
      BY <1>0, <3>6, <3>7, SplitIs
    <3>9. {<<LS[k], VS[k]>> : k \in 1..n} = {<<L[i], V[i]>> : i \in 1..n}
      <4>1. \A k \in 1..n : LS[k] = L[P[k]] /\ VS[k] = V[P[k]]
        BY Zenon DEF LS, VS
      <4>2. ASSUME NEW k \in 1..n PROVE \E i \in 1..n : <<LS[k], VS[k]>> = <<L[i], V[i]>>
        BY <3>3, <4>1, Zenon
      <4>3. ASSUME NEW i \in 1..n PROVE \E k \in 1..n : <<LS[k], VS[k]>> = <<L[i], V[i]>>
        <5>1. PICK k \in 1..n : P[k] = i
          BY <3>3
        <5>2. <<LS[k], VS[k]>> = <<L[i], V[i]>>
          BY <4>1, <5>1, Zenon
        <5> QED BY <5>2
      <4> DEFINE A == {<<LS[k], VS[k]>> : k \in 1..n}
                 B == {<<L[i], V[i]>> : i \in 1..n}
      <4>4. ASSUME NEW p \in A PROVE p \in B
        <5>1. PICK k \in 1..n : p = <<LS[k], VS[k]>>
          OBVIOUS
        <5> QED BY <4>2, <5>1
      <4>5. ASSUME NEW p \in B PROVE p \in A
        <5>1. PICK i \in 1..n : p = <<L[i], V[i]>>
          OBVIOUS
        <5> QED BY <4>3, <5>1
      <4> HIDE DEF A, B
      <4>6. A = B
        BY <4>4, <4>5
      <4> QED BY <4>6 DEF A, B
    <3> QED BY <1>3, <1>7, <1>11, <2>7, <3>1, <3>8, <3>9, Zenon DEF s, SplitsInto
  <2> QED BY <2>6, <2>7
<1> QED BY <1>10, <1>11

-----------------------------------------------------------------------------
(* UUIDs.                                                                    *)

\* The first m elements of a are those of y.
Follows(a, m, y, S) == a \in Seq(S) /\ Len(a) = m /\ \A i \in 1..m : a[i] = y[i]

LEMMA FollowsOn ==
  ASSUME NEW S, NEW y, NEW a, NEW m \in Nat, Follows(a, m, y, S),
         NEW c \in Seq(S), NEW r \in Nat, Len(c) = r, \A k \in 1..r : c[k] = y[m + k]
  PROVE  Follows(a \o c, m + r, y, S)
<1>1. a \in Seq(S) /\ Len(a) = m /\ \A i \in 1..m : a[i] = y[i]
  BY DEF Follows
<1>2. /\ a \o c \in Seq(S) /\ Len(a \o c) = Len(a) + Len(c)
      /\ \A i \in 1..(Len(a) + Len(c)) : (a \o c)[i] = IF i <= Len(a) THEN a[i] ELSE c[i - Len(a)]
  BY <1>1, ConcatProperties
<1>3. /\ Len(a \o c) = m + r
      /\ \A i \in 1..(m + r) : (a \o c)[i] = IF i <= m THEN a[i] ELSE c[i - m]
  BY <1>1, <1>2, Zenon
<1>4. ASSUME NEW i \in 1..(m + r) PROVE (a \o c)[i] = y[i]
  <2>1. CASE i <= m
    BY <1>1, <1>3, <2>1
  <2>2. CASE ~(i <= m)
    <3>1. i - m \in 1..r /\ m + (i - m) = i
      BY <2>2
    <3>2. c[i - m] = y[i]
      BY <3>1
    <3> QED BY <1>3, <2>2, <3>2, Zenon
  <2> QED BY <2>1, <2>2
<1> QED BY <1>2, <1>3, <1>4, Zenon DEF Follows

\* A piece of a text.
PieceAt(p, x, a, r, S) == p \in Seq(S) /\ Len(p) = r /\ \A i \in 1..r : p[i] = x[a + i - 1]

LEMMA PieceOfText ==
  ASSUME NEW S, NEW x \in Seq(S), NEW a \in 1..Len(x), NEW b \in 1..Len(x), NEW r \in Nat, r = b - a + 1
  PROVE  PieceAt(SubSeq(x, a, b), x, a, r, S)
<1>1. Len(x) \in Nat /\ \A i \in 1..Len(x) : x[i] \in S
  BY LenProperties
<1>2. a \in Int /\ b \in Int /\ \A i \in a..b : x[i] \in S
  BY <1>1
<1>3. /\ SubSeq(x, a, b) \in Seq(S)
      /\ Len(SubSeq(x, a, b)) = IF a <= b THEN b - a + 1 ELSE 0
      /\ \A i \in 1..(b - a + 1) : SubSeq(x, a, b)[i] = x[a + i - 1]
  BY <1>2, SubSeqProperties
<1>4. (IF a <= b THEN b - a + 1 ELSE 0) = r
  BY <1>2
<1> QED BY <1>3, <1>4, Zenon DEF PieceAt

\* Where a text of 32 digits has hyphens put in.
Hyphens4 == {9, 14, 19, 24}
\* The digit at place i of 36, and the place of digit j.
DigitAt(i) == IF i <= 8 THEN i ELSE IF i <= 13 THEN i - 1 ELSE IF i <= 18 THEN i - 2
              ELSE IF i <= 23 THEN i - 3 ELSE i - 4
PlaceAt(j) == IF j <= 8 THEN j ELSE IF j <= 12 THEN j + 1 ELSE IF j <= 16 THEN j + 2
              ELSE IF j <= 20 THEN j + 3 ELSE j + 4

LEMMA PlacesMeet ==
  /\ \A j \in 1..32 : PlaceAt(j) \in 1..36 \ Hyphens4 /\ DigitAt(PlaceAt(j)) = j
  /\ \A i \in 1..36 \ Hyphens4 : DigitAt(i) \in 1..32 /\ PlaceAt(DigitAt(i)) = i
<1>1. ASSUME NEW j \in 1..32 PROVE PlaceAt(j) \in 1..36 \ Hyphens4 /\ DigitAt(PlaceAt(j)) = j
  BY DEF PlaceAt, DigitAt, Hyphens4
<1>2. ASSUME NEW i \in 1..36 \ Hyphens4 PROVE DigitAt(i) \in 1..32 /\ PlaceAt(DigitAt(i)) = i
  BY DEF PlaceAt, DigitAt, Hyphens4
<1> QED BY <1>1, <1>2

WithHyphens(x) ==
  SubSeq(x, 1, 8) \o <<"-">> \o SubSeq(x, 9, 12) \o <<"-">> \o SubSeq(x, 13, 16) \o <<"-">>
    \o SubSeq(x, 17, 20) \o <<"-">> \o SubSeq(x, 21, 32)

LEMMA HyphensPutIn ==
  ASSUME NEW S, NEW x \in Seq(S), Len(x) = 32, "-" \in S
  PROVE  Follows(WithHyphens(x), 36, [i \in 1..36 |-> IF i \in Hyphens4 THEN "-" ELSE x[DigitAt(i)]], S)
<1> DEFINE y == [i \in 1..36 |-> IF i \in Hyphens4 THEN "-" ELSE x[DigitAt(i)]]
           h == <<"-">>
           p1 == SubSeq(x, 1, 8)
           p2 == SubSeq(x, 9, 12)
           p3 == SubSeq(x, 13, 16)
           p4 == SubSeq(x, 17, 20)
           p5 == SubSeq(x, 21, 32)
<1>0. h \in Seq(S) /\ Len(h) = 1 /\ h[1] = "-"
  OBVIOUS
<1>1. y[9] = "-" /\ y[14] = "-" /\ y[19] = "-" /\ y[24] = "-"
  BY DEF Hyphens4
<1>2. \A i \in 1..36 \ Hyphens4 : y[i] = x[DigitAt(i)]
  OBVIOUS
<1> HIDE DEF y, h
<1>3. Follows(p1, 8, y, S)
  <2>1. PieceAt(p1, x, 1, 8, S)
    <3>1. 1 \in 1..Len(x) /\ 8 \in 1..Len(x) /\ 8 \in Nat /\ 8 = 8 - 1 + 1
      OBVIOUS
    <3> QED BY <3>1, PieceOfText
  <2>2. \A i \in 1..8 : i \in 1..36 \ Hyphens4 /\ DigitAt(i) = i
    BY DEF Hyphens4, DigitAt
  <2> HIDE DEF p1
  <2> QED BY <1>2, <2>1, <2>2 DEF Follows, PieceAt
<1>4. p2 \in Seq(S) /\ Len(p2) = 4 /\ \A k \in 1..4 : p2[k] = y[9 + k]
  <2>1. PieceAt(p2, x, 9, 4, S)
    <3>1. 9 \in 1..Len(x) /\ 12 \in 1..Len(x) /\ 4 \in Nat /\ 4 = 12 - 9 + 1
      OBVIOUS
    <3> QED BY <3>1, PieceOfText
  <2>2. \A k \in 1..4 : 9 + k \in 1..36 \ Hyphens4 /\ DigitAt(9 + k) = 9 + k - 1
    BY DEF Hyphens4, DigitAt
  <2> HIDE DEF p2
  <2>3. \A k \in 1..4 : p2[k] = x[9 + k - 1]
    BY <2>1 DEF PieceAt
  <2>4. \A k \in 1..4 : p2[k] = y[9 + k]
    BY <1>2, <2>2, <2>3, Zenon
  <2> QED BY <2>1, <2>4, Zenon DEF PieceAt
<1>5. p3 \in Seq(S) /\ Len(p3) = 4 /\ \A k \in 1..4 : p3[k] = y[14 + k]
  <2>1. PieceAt(p3, x, 13, 4, S)
    <3>1. 13 \in 1..Len(x) /\ 16 \in 1..Len(x) /\ 4 \in Nat /\ 4 = 16 - 13 + 1
      OBVIOUS
    <3> QED BY <3>1, PieceOfText
  <2>2. \A k \in 1..4 : 14 + k \in 1..36 \ Hyphens4 /\ DigitAt(14 + k) = 13 + k - 1
    BY DEF Hyphens4, DigitAt
  <2> HIDE DEF p3
  <2>3. \A k \in 1..4 : p3[k] = x[13 + k - 1]
    BY <2>1 DEF PieceAt
  <2>4. \A k \in 1..4 : p3[k] = y[14 + k]
    BY <1>2, <2>2, <2>3, Zenon
  <2> QED BY <2>1, <2>4, Zenon DEF PieceAt
<1>6. p4 \in Seq(S) /\ Len(p4) = 4 /\ \A k \in 1..4 : p4[k] = y[19 + k]
  <2>1. PieceAt(p4, x, 17, 4, S)
    <3>1. 17 \in 1..Len(x) /\ 20 \in 1..Len(x) /\ 4 \in Nat /\ 4 = 20 - 17 + 1
      OBVIOUS
    <3> QED BY <3>1, PieceOfText
  <2>2. \A k \in 1..4 : 19 + k \in 1..36 \ Hyphens4 /\ DigitAt(19 + k) = 17 + k - 1
    BY DEF Hyphens4, DigitAt
  <2> HIDE DEF p4
  <2>3. \A k \in 1..4 : p4[k] = x[17 + k - 1]
    BY <2>1 DEF PieceAt
  <2>4. \A k \in 1..4 : p4[k] = y[19 + k]
    BY <1>2, <2>2, <2>3, Zenon
  <2> QED BY <2>1, <2>4, Zenon DEF PieceAt
<1>7. p5 \in Seq(S) /\ Len(p5) = 12 /\ \A k \in 1..12 : p5[k] = y[24 + k]
  <2>1. PieceAt(p5, x, 21, 12, S)
    <3>1. 21 \in 1..Len(x) /\ 32 \in 1..Len(x) /\ 12 \in Nat /\ 12 = 32 - 21 + 1
      OBVIOUS
    <3> QED BY <3>1, PieceOfText
  <2>2. \A k \in 1..12 : 24 + k \in 1..36 \ Hyphens4 /\ DigitAt(24 + k) = 21 + k - 1
    BY DEF Hyphens4, DigitAt
  <2> HIDE DEF p5
  <2>3. \A k \in 1..12 : p5[k] = x[21 + k - 1]
    BY <2>1 DEF PieceAt
  <2>4. \A k \in 1..12 : p5[k] = y[24 + k]
    BY <1>2, <2>2, <2>3, Zenon
  <2> QED BY <2>1, <2>4, Zenon DEF PieceAt
<1> HIDE DEF p1, p2, p3, p4, p5
<1>8. ASSUME NEW a, NEW m \in Nat, Follows(a, m, y, S), y[m + 1] = "-" PROVE Follows(a \o h, m + 1, y, S)
  <2>1. \A k \in 1..1 : h[k] = y[m + k]
    BY <1>0, <1>8
  <2> QED BY <1>0, <1>8, <2>1, FollowsOn
<1> DEFINE a1 == p1 \o h
           a2 == a1 \o p2
           a3 == a2 \o h
           a4 == a3 \o p3
           a5 == a4 \o h
           a6 == a5 \o p4
           a7 == a6 \o h
           a8 == a7 \o p5
<1>11. Follows(a1, 9, y, S)
  BY <1>1, <1>3, <1>8
<1> HIDE DEF a1
<1>12. Follows(a2, 13, y, S)
  <2>1. Follows(a2, 9 + 4, y, S)
    BY <1>4, <1>11, FollowsOn
  <2> QED BY <2>1
<1> HIDE DEF a2
<1>13. Follows(a3, 14, y, S)
  BY <1>1, <1>8, <1>12
<1> HIDE DEF a3
<1>14. Follows(a4, 18, y, S)
  <2>1. Follows(a4, 14 + 4, y, S)
    BY <1>5, <1>13, FollowsOn
  <2> QED BY <2>1
<1> HIDE DEF a4
<1>15. Follows(a5, 19, y, S)
  BY <1>1, <1>8, <1>14
<1> HIDE DEF a5
<1>16. Follows(a6, 23, y, S)
  <2>1. Follows(a6, 19 + 4, y, S)
    BY <1>6, <1>15, FollowsOn
  <2> QED BY <2>1
<1> HIDE DEF a6
<1>17. Follows(a7, 24, y, S)
  BY <1>1, <1>8, <1>16
<1> HIDE DEF a7
<1>18. Follows(a8, 36, y, S)
  <2>1. Follows(a8, 24 + 12, y, S)
    BY <1>7, <1>17, FollowsOn
  <2> QED BY <2>1
<1>19. WithHyphens(x) = a8
  BY Zenon DEF WithHyphens, a1, a2, a3, a4, a5, a6, a7, p1, p2, p3, p4, p5, h
<1> HIDE DEF a8
<1> QED BY <1>18, <1>19, Zenon DEF y

-----------------------------------------------------------------------------
\* tamga_hex_value knows the digits of both cases, and no other character.
LEMMA LowerOfDigit == ASSUME NEW c PROVE (\E v \in 1..16 : U!LowerDigits[v] = U!Lower(c)) <=> c \in Digits16
<1> DEFINE Small == {"0", "1", "2", "3", "4", "5", "6", "7", "8", "9", "a", "b", "c", "d", "e", "f"}
<1>1. \A d : (\E v \in 1..16 : U!LowerDigits[v] = d) <=> d \in Small
  <2>1. \A v \in 1..16 : U!LowerDigits[v] \in Small
    BY DEF U!LowerDigits
  <2>2. ASSUME NEW d \in Small PROVE \E v \in 1..16 : U!LowerDigits[v] = d
    <3>1. /\ U!LowerDigits[1] = "0" /\ U!LowerDigits[2] = "1" /\ U!LowerDigits[3] = "2" /\ U!LowerDigits[4] = "3"
          /\ U!LowerDigits[5] = "4" /\ U!LowerDigits[6] = "5" /\ U!LowerDigits[7] = "6" /\ U!LowerDigits[8] = "7"
          /\ U!LowerDigits[9] = "8" /\ U!LowerDigits[10] = "9" /\ U!LowerDigits[11] = "a" /\ U!LowerDigits[12] = "b"
          /\ U!LowerDigits[13] = "c" /\ U!LowerDigits[14] = "d" /\ U!LowerDigits[15] = "e" /\ U!LowerDigits[16] = "f"
      BY DEF U!LowerDigits
    <3>2. {1, 2, 3, 4, 5, 6, 7, 8, 9, 10, 11, 12, 13, 14, 15, 16} \subseteq 1..16
      OBVIOUS
    <3> QED BY <3>1, <3>2
  <2> HIDE DEF Small
  <2> QED BY <2>1, <2>2
<1>2. U!Lower(c) \in Small <=> c \in Digits16
  BY DEF U!Lower, Digits16
<1> HIDE DEF Small
<1> QED BY <1>1, <1>2

LEMMA HexMeans ==
  ASSUME NEW c
  PROVE  /\ U!HexValue(c) < 0 <=> c \notin Digits16
         /\ c \in Digits16 => U!HexValue(c) \in 0..15 /\ U!LowerDigits[U!HexValue(c) + 1] = U!Lower(c)
<1> DEFINE v == CHOOSE w \in 1..16 : U!LowerDigits[w] = U!Lower(c)
<1>1. CASE c \in Digits16
  <2>1. v \in 1..16 /\ U!LowerDigits[v] = U!Lower(c)
    BY <1>1, LowerOfDigit, Zenon
  <2>2. U!HexValue(c) = v - 1
    BY <1>1, LowerOfDigit, Zenon DEF U!HexValue
  <2> HIDE DEF v
  <2>3. U!HexValue(c) \in 0..15 /\ U!HexValue(c) + 1 = v
    BY <2>1, <2>2
  <2>4. ~(U!HexValue(c) < 0)
    BY <2>3
  <2> QED BY <1>1, <2>1, <2>3, <2>4, Zenon
<1>2. CASE c \notin Digits16
  <2>1. U!HexValue(c) = -1
    BY <1>2, LowerOfDigit, Zenon DEF U!HexValue
  <2> QED BY <1>2, <2>1
<1> QED BY <1>1, <1>2

LEMMA LowerTwice == ASSUME NEW c PROVE /\ U!Lower(U!Lower(c)) = U!Lower(c)
                                       /\ c \in Digits16 => U!Lower(c) \in Digits16
                                       /\ U!Lower("-") = "-"
<1>1. U!Lower(U!Lower(c)) = U!Lower(c) /\ U!Lower("-") = "-"
  BY DEF U!Lower
<1>2. c \in Digits16 => U!Lower(c) \in Digits16
  BY DEF U!Lower, Digits16
<1> QED BY <1>1, <1>2

\* The byte two digits stand for.
ByteOf(x, y) == U!HexValue(x) * 16 + U!HexValue(y)

LEMMA ByteParts ==
  ASSUME NEW x \in Digits16, NEW y \in Digits16
  PROVE  /\ ByteOf(x, y) \in 0..255
         /\ U!LowerDigits[(ByteOf(x, y) \div 16) + 1] = U!Lower(x)
         /\ U!LowerDigits[(ByteOf(x, y) % 16) + 1] = U!Lower(y)
<1>1. PICK h \in 0..15 : h = U!HexValue(x) /\ U!LowerDigits[h + 1] = U!Lower(x)
  BY HexMeans
<1>2. PICK l \in 0..15 : l = U!HexValue(y) /\ U!LowerDigits[l + 1] = U!Lower(y)
  BY HexMeans
<1>3. h * 16 + l \in 0..255 /\ (h * 16 + l) \div 16 = h /\ (h * 16 + l) % 16 = l
  OBVIOUS
<1>4. ByteOf(x, y) = h * 16 + l
  BY <1>1, <1>2, Zenon DEF ByteOf
<1> QED BY <1>1, <1>2, <1>3, <1>4, Zenon

LEMMA NotFailed ==
  ASSUME NEW a, NEW m \in Nat \ {0}, NEW y, Follows(a, m, y, 0..255) PROVE a # U!Failed
<1>1. a[1] \in 0..255
  <2>1. a \in Seq(0..255) /\ 1 \in 1..Len(a)
    BY DEF Follows
  <2> QED BY <2>1, ElementOfSeq
<1>2. U!Failed[1] = -1
  BY DEF U!Failed
<1> QED BY <1>1, <1>2

\* tamga_hex_decode
LEMMA HexDecodes ==
  ASSUME NEW S, NEW s \in Seq(S), NEW m \in Nat, Len(s) = 2 * m
  PROVE  IF \A i \in 1..(2 * m) : s[i] \in Digits16
         THEN Follows(U!HexDecode(s), m, [k \in 1..m |-> ByteOf(s[2 * k - 1], s[2 * k])], 0..255)
         ELSE U!HexDecode(s) = U!Failed
<1> DEFINE y == [k \in 1..m |-> ByteOf(s[2 * k - 1], s[2 * k])]
<1>1. Len(s) % 2 = 0 /\ Len(s) \div 2 = m
  OBVIOUS
<1>2. CASE \A i \in 1..(2 * m) : s[i] \in Digits16
  <2>1. \A i \in 1..Len(s) : ~(U!HexValue(s[i]) < 0)
    BY <1>2, HexMeans
  <2>2. U!HexDecode(s) = [i \in 1..Len(s) \div 2 |-> U!HexValue(s[2 * i - 1]) * 16 + U!HexValue(s[2 * i])]
    BY <1>1, <2>1, Zenon DEF U!HexDecode
  <2>3. U!HexDecode(s) = y
    BY <1>1, <2>2, Zenon DEF ByteOf
  <2>4. ASSUME NEW k \in 1..m PROVE y[k] \in 0..255
    <3>1. 2 * k - 1 \in 1..(2 * m) /\ 2 * k \in 1..(2 * m)
      OBVIOUS
    <3>2. s[2 * k - 1] \in Digits16 /\ s[2 * k] \in Digits16
      BY <1>2, <3>1
    <3> QED BY <3>2, ByteParts
  <2>5. y \in [1..m -> 0..255]
    BY <2>4
  <2> HIDE DEF y
  <2>6. y \in Seq(0..255) /\ Len(y) = m
    BY <2>5
  <2>7. Follows(U!HexDecode(s), m, y, 0..255)
    BY <2>3, <2>6 DEF Follows
  <2> QED BY <1>2, <2>7 DEF y
<1>3. CASE ~\A i \in 1..(2 * m) : s[i] \in Digits16
  <2>1. \E i \in 1..Len(s) : U!HexValue(s[i]) < 0
    BY <1>3, HexMeans
  <2> QED BY <1>3, <2>1, Zenon DEF U!HexDecode
<1> QED BY <1>2, <1>3

-----------------------------------------------------------------------------
\* Where the groups begin.
LEMMA GroupsBegin ==
  /\ U!CharsBefore(1) = 0 /\ U!CharsBefore(2) = 9 /\ U!CharsBefore(3) = 14
  /\ U!CharsBefore(4) = 19 /\ U!CharsBefore(5) = 24
  /\ U!Groups[1] = 4 /\ U!Groups[2] = 2 /\ U!Groups[3] = 2 /\ U!Groups[4] = 2 /\ U!Groups[5] = 6
<1> DEFINE Sums(f) == f = [k \in 1..5 |-> IF k = 1 THEN 0 ELSE f[k - 1] + U!Groups[k - 1]]
           f0 == [k \in 1..5 |-> IF k = 1 THEN 0 ELSE IF k = 2 THEN 4 ELSE IF k = 3 THEN 6 ELSE IF k = 4 THEN 8 ELSE 10]
<1>1. U!Groups[1] = 4 /\ U!Groups[2] = 2 /\ U!Groups[3] = 2 /\ U!Groups[4] = 2 /\ U!Groups[5] = 6
  BY DEF U!Groups
<1>2. Sums(f0)
  <2>1. ASSUME NEW k \in 1..5 PROVE f0[k] = IF k = 1 THEN 0 ELSE f0[k - 1] + U!Groups[k - 1]
    <3>1. f0[1] = 0 /\ f0[2] = 4 /\ f0[3] = 6 /\ f0[4] = 8 /\ f0[5] = 10
      OBVIOUS
    <3>2. k = 1 \/ k = 2 \/ k = 3 \/ k = 4 \/ k = 5
      OBVIOUS
    <3> HIDE DEF f0
    <3> QED BY <1>1, <3>1, <3>2
  <2> QED BY <2>1, Zenon
<1>3. \A g : U!BytesBefore(g) = (CHOOSE f : Sums(f))[g]
  BY Zenon DEF U!BytesBefore
<1>4. PICK f : Sums(f) /\ \A g : U!BytesBefore(g) = f[g]
  <2>1. Sums(CHOOSE f : Sums(f))
    BY <1>2, Zenon
  <2> HIDE DEF Sums
  <2> QED BY <1>3, <2>1, Zenon
<1>5. \A k \in 1..5 : f[k] = IF k = 1 THEN 0 ELSE f[k - 1] + U!Groups[k - 1]
  BY <1>4, Zenon
<1>6. f[1] = 0
  <2>1. 1 \in 1..5
    OBVIOUS
  <2> QED BY <1>5, <2>1, Zenon
<1>7. f[2] = 4
  <2>1. 2 \in 1..5 /\ 2 # 1 /\ 2 - 1 = 1
    OBVIOUS
  <2>2. f[2] = f[1] + U!Groups[1]
    BY <1>5, <2>1, Zenon
  <2> QED BY <1>1, <1>6, <2>2
<1>8. f[3] = 6
  <2>1. 3 \in 1..5 /\ 3 # 1 /\ 3 - 1 = 2
    OBVIOUS
  <2>2. f[3] = f[2] + U!Groups[2]
    BY <1>5, <2>1, Zenon
  <2> QED BY <1>1, <1>7, <2>2
<1>9. f[4] = 8
  <2>1. 4 \in 1..5 /\ 4 # 1 /\ 4 - 1 = 3
    OBVIOUS
  <2>2. f[4] = f[3] + U!Groups[3]
    BY <1>5, <2>1, Zenon
  <2> QED BY <1>1, <1>8, <2>2
<1>10. f[5] = 10
  <2>1. 5 \in 1..5 /\ 5 # 1 /\ 5 - 1 = 4
    OBVIOUS
  <2>2. f[5] = f[4] + U!Groups[4]
    BY <1>5, <2>1, Zenon
  <2> QED BY <1>1, <1>9, <2>2
<1>11. /\ U!BytesBefore(1) = 0 /\ U!BytesBefore(2) = 4 /\ U!BytesBefore(3) = 6
       /\ U!BytesBefore(4) = 8 /\ U!BytesBefore(5) = 10
  BY <1>4, <1>6, <1>7, <1>8, <1>9, <1>10, Zenon
<1> QED BY <1>1, <1>11 DEF U!CharsBefore

\* Digits and hyphens at their places.
Hyphenated(s) ==
  \A i \in 1..36 : IF i \in {9, 14, 19, 24} THEN s[i] = "-" ELSE s[i] \in Digits16

BytesIn(s) == [k \in 1..16 |-> ByteOf(s[PlaceAt(2 * k - 1)], s[PlaceAt(2 * k)])]

\* A group of 2 * m digits from place a on, whose bytes are those from n + 1 on.
Gives(g, s, m, n, a, b) ==
  IF \A i \in a..b : s[i] \in Digits16
  THEN g \in Seq(0..255) /\ Len(g) = m /\ (\A k \in 1..m : g[k] = BytesIn(s)[n + k]) /\ g # U!Failed
  ELSE g = U!Failed

LEMMA GroupDecodes ==
  ASSUME NEW S, NEW s \in Seq(S), Len(s) = 36,
         NEW a \in 1..36, NEW b \in 1..36, NEW m \in Nat \ {0}, NEW n \in Nat,
         2 * m = b - a + 1, n + m <= 16,
         \A k \in 1..(2 * m) : PlaceAt(2 * n + k) = a + k - 1
  PROVE  Gives(U!HexDecode(SubSeq(s, a, b)), s, m, n, a, b)
<1> DEFINE p == SubSeq(s, a, b)
<1>1. p \in Seq(S) /\ Len(p) = 2 * m /\ \A i \in 1..(2 * m) : p[i] = s[a + i - 1]
  <2>1. a \in 1..Len(s) /\ b \in 1..Len(s) /\ 2 * m \in Nat
    OBVIOUS
  <2>2. PieceAt(p, s, a, 2 * m, S)
    BY <2>1, PieceOfText
  <2> QED BY <2>2, Zenon DEF PieceAt
<1> HIDE DEF p
<1>2. (\A i \in a..b : s[i] \in Digits16) <=> \A i \in 1..(2 * m) : p[i] \in Digits16
  <2>1. ASSUME \A i \in a..b : s[i] \in Digits16, NEW i \in 1..(2 * m) PROVE p[i] \in Digits16
    <3>1. a + i - 1 \in a..b
      OBVIOUS
    <3> QED BY <1>1, <2>1, <3>1
  <2>2. ASSUME \A i \in 1..(2 * m) : p[i] \in Digits16, NEW i \in a..b PROVE s[i] \in Digits16
    <3>1. i - a + 1 \in 1..(2 * m) /\ a + (i - a + 1) - 1 = i
      OBVIOUS
    <3>2. p[i - a + 1] = s[a + (i - a + 1) - 1]
      BY <1>1, <3>1, Zenon
    <3>3. p[i - a + 1] = s[i]
      BY <3>1, <3>2, Zenon
    <3> QED BY <2>2, <3>1, <3>3, Zenon
  <2> QED BY <2>1, <2>2, Zenon
<1> DEFINE y == [k \in 1..m |-> ByteOf(p[2 * k - 1], p[2 * k])]
<1>3. IF \A i \in 1..(2 * m) : p[i] \in Digits16
      THEN Follows(U!HexDecode(p), m, y, 0..255) ELSE U!HexDecode(p) = U!Failed
  BY <1>1, HexDecodes
<1>4. ASSUME NEW k \in 1..m PROVE y[k] = BytesIn(s)[n + k]
  <2>1. /\ 2 * k - 1 \in 1..(2 * m) /\ 2 * k \in 1..(2 * m) /\ n + k \in 1..16
        /\ 2 * (n + k) - 1 = 2 * n + (2 * k - 1) /\ 2 * (n + k) = 2 * n + 2 * k
    OBVIOUS
  <2>2. BytesIn(s)[n + k] = ByteOf(s[PlaceAt(2 * n + (2 * k - 1))], s[PlaceAt(2 * n + 2 * k)])
    BY <2>1, Zenon DEF BytesIn
  <2>3. PlaceAt(2 * n + (2 * k - 1)) = a + (2 * k - 1) - 1 /\ PlaceAt(2 * n + 2 * k) = a + 2 * k - 1
    BY <2>1, Zenon
  <2>4. p[2 * k - 1] = s[a + (2 * k - 1) - 1] /\ p[2 * k] = s[a + 2 * k - 1]
    BY <1>1, <2>1, Zenon
  <2>5. y[k] = ByteOf(p[2 * k - 1], p[2 * k])
    BY Zenon
  <2> QED BY <2>2, <2>3, <2>4, <2>5, Zenon
<1> HIDE DEF y
<1>5. CASE \A i \in a..b : s[i] \in Digits16
  <2>1. Follows(U!HexDecode(p), m, y, 0..255)
    BY <1>2, <1>3, <1>5, Zenon
  <2>2. U!HexDecode(p) # U!Failed
    BY <2>1, NotFailed
  <2>3. U!HexDecode(p) \in Seq(0..255) /\ Len(U!HexDecode(p)) = m
    BY <2>1, Zenon DEF Follows
  <2>4. \A k \in 1..m : U!HexDecode(p)[k] = BytesIn(s)[n + k]
    BY <1>4, <2>1, Zenon DEF Follows
  <2> QED BY <1>5, <2>2, <2>3, <2>4, Zenon DEF p, Gives
<1>6. CASE ~\A i \in a..b : s[i] \in Digits16
  BY <1>2, <1>3, <1>6, Zenon DEF p, Gives
<1> QED BY <1>5, <1>6

\* tamga_uuid_parse_hyphenated
LEMMA ParsesHyphenated ==
  ASSUME NEW S, NEW s \in Seq(S), Len(s) = 36
  PROVE  IF Hyphenated(s) THEN Follows(U!ParseHyphenated(s), 16, BytesIn(s), 0..255)
         ELSE U!ParseHyphenated(s) = U!Failed
<1> DEFINE g1 == U!HexDecode(SubSeq(s, 1, 8))
           g2 == U!HexDecode(SubSeq(s, 10, 13))
           g3 == U!HexDecode(SubSeq(s, 15, 18))
           g4 == U!HexDecode(SubSeq(s, 20, 23))
           g5 == U!HexDecode(SubSeq(s, 25, 36))
           y == BytesIn(s)
           dashes == s[9] = "-" /\ s[14] = "-" /\ s[19] = "-" /\ s[24] = "-"
<1>1. Gives(g1, s, 4, 0, 1, 8)
  <2>1. \A k \in 1..(2 * 4) : PlaceAt(2 * 0 + k) = 1 + k - 1
    BY DEF PlaceAt
  <2>2. 1 \in 1..36 /\ 8 \in 1..36 /\ 4 \in Nat \ {0} /\ 0 \in Nat /\ 2 * 4 = 8 - 1 + 1 /\ 0 + 4 <= 16
    OBVIOUS
  <2> QED BY <2>1, <2>2, GroupDecodes
<1>2. Gives(g2, s, 2, 4, 10, 13)
  <2>1. \A k \in 1..(2 * 2) : PlaceAt(2 * 4 + k) = 10 + k - 1
    BY DEF PlaceAt
  <2>2. 10 \in 1..36 /\ 13 \in 1..36 /\ 2 \in Nat \ {0} /\ 4 \in Nat /\ 2 * 2 = 13 - 10 + 1 /\ 4 + 2 <= 16
    OBVIOUS
  <2> QED BY <2>1, <2>2, GroupDecodes
<1>3. Gives(g3, s, 2, 6, 15, 18)
  <2>1. \A k \in 1..(2 * 2) : PlaceAt(2 * 6 + k) = 15 + k - 1
    BY DEF PlaceAt
  <2>2. 15 \in 1..36 /\ 18 \in 1..36 /\ 2 \in Nat \ {0} /\ 6 \in Nat /\ 2 * 2 = 18 - 15 + 1 /\ 6 + 2 <= 16
    OBVIOUS
  <2> QED BY <2>1, <2>2, GroupDecodes
<1>4. Gives(g4, s, 2, 8, 20, 23)
  <2>1. \A k \in 1..(2 * 2) : PlaceAt(2 * 8 + k) = 20 + k - 1
    BY DEF PlaceAt
  <2>2. 20 \in 1..36 /\ 23 \in 1..36 /\ 2 \in Nat \ {0} /\ 8 \in Nat /\ 2 * 2 = 23 - 20 + 1 /\ 8 + 2 <= 16
    OBVIOUS
  <2> QED BY <2>1, <2>2, GroupDecodes
<1>5. Gives(g5, s, 6, 10, 25, 36)
  <2>1. \A k \in 1..(2 * 6) : PlaceAt(2 * 10 + k) = 25 + k - 1
    BY DEF PlaceAt
  <2>2. 25 \in 1..36 /\ 36 \in 1..36 /\ 6 \in Nat \ {0} /\ 10 \in Nat /\ 2 * 6 = 36 - 25 + 1 /\ 10 + 6 <= 16
    OBVIOUS
  <2> QED BY <2>1, <2>2, GroupDecodes
<1> DEFINE digits(g) == U!HexDecode(SubSeq(s, U!CharsBefore(g) + 1, U!CharsBefore(g) + 2 * U!Groups[g]))
<1>6. digits(1) = g1 /\ digits(2) = g2 /\ digits(3) = g3 /\ digits(4) = g4 /\ digits(5) = g5
  <2>1. U!CharsBefore(1) + 1 = 1 /\ U!CharsBefore(1) + 2 * U!Groups[1] = 8
    BY GroupsBegin
  <2>2. U!CharsBefore(2) + 1 = 10 /\ U!CharsBefore(2) + 2 * U!Groups[2] = 13
    BY GroupsBegin
  <2>3. U!CharsBefore(3) + 1 = 15 /\ U!CharsBefore(3) + 2 * U!Groups[3] = 18
    BY GroupsBegin
  <2>4. U!CharsBefore(4) + 1 = 20 /\ U!CharsBefore(4) + 2 * U!Groups[4] = 23
    BY GroupsBegin
  <2>5. U!CharsBefore(5) + 1 = 25 /\ U!CharsBefore(5) + 2 * U!Groups[5] = 36
    BY GroupsBegin
  <2> QED BY <2>1, <2>2, <2>3, <2>4, <2>5, Zenon
<1>7. U!ParseHyphenated(s) =
        IF (\E g \in 2..5 : s[U!CharsBefore(g)] # "-") \/ \E g \in 1..5 : digits(g) = U!Failed
        THEN U!Failed ELSE digits(1) \o digits(2) \o digits(3) \o digits(4) \o digits(5)
  BY Zenon DEF U!ParseHyphenated
<1> HIDE DEF digits
<1>8. (\E g \in 2..5 : s[U!CharsBefore(g)] # "-") <=> ~dashes
  <2>1. \A g : g \in 2..5 <=> g = 2 \/ g = 3 \/ g = 4 \/ g = 5
    OBVIOUS
  <2>2. /\ s[U!CharsBefore(2)] = s[9] /\ s[U!CharsBefore(3)] = s[14]
        /\ s[U!CharsBefore(4)] = s[19] /\ s[U!CharsBefore(5)] = s[24]
    BY GroupsBegin
  <2> QED BY <2>1, <2>2, ZenonT(60)
<1>9. (\E g \in 1..5 : digits(g) = U!Failed) <=>
        g1 = U!Failed \/ g2 = U!Failed \/ g3 = U!Failed \/ g4 = U!Failed \/ g5 = U!Failed
  <2>1. \A g : g \in 1..5 <=> g = 1 \/ g = 2 \/ g = 3 \/ g = 4 \/ g = 5
    OBVIOUS
  <2> HIDE DEF g1, g2, g3, g4, g5
  <2> QED BY <1>6, <2>1, Zenon
<1> HIDE DEF g1, g2, g3, g4, g5
<1>10. U!ParseHyphenated(s) =
         IF ~dashes \/ g1 = U!Failed \/ g2 = U!Failed \/ g3 = U!Failed \/ g4 = U!Failed \/ g5 = U!Failed
         THEN U!Failed ELSE g1 \o g2 \o g3 \o g4 \o g5
  BY <1>6, <1>7, <1>8, <1>9, Zenon
<1> DEFINE All(a, b) == \A i \in a..b : s[i] \in Digits16
<1>11. Hyphenated(s) <=> dashes /\ All(1, 8) /\ All(10, 13) /\ All(15, 18) /\ All(20, 23) /\ All(25, 36)
  <2>1. ASSUME Hyphenated(s) PROVE dashes /\ All(1, 8) /\ All(10, 13) /\ All(15, 18) /\ All(20, 23) /\ All(25, 36)
    BY <2>1 DEF Hyphenated
  <2>2. ASSUME dashes, All(1, 8), All(10, 13), All(15, 18), All(20, 23), All(25, 36) PROVE Hyphenated(s)
    <3>1. ASSUME NEW i \in 1..36, i \notin {9, 14, 19, 24}
          PROVE  i \in 1..8 \/ i \in 10..13 \/ i \in 15..18 \/ i \in 20..23 \/ i \in 25..36
      BY <3>1
    <3> QED BY <2>2, <3>1 DEF Hyphenated
  <2> HIDE DEF dashes, All
  <2> QED BY <2>1, <2>2, Zenon
<1>12. /\ All(1, 8) <=> g1 # U!Failed
       /\ All(10, 13) <=> g2 # U!Failed
       /\ All(15, 18) <=> g3 # U!Failed
       /\ All(20, 23) <=> g4 # U!Failed
       /\ All(25, 36) <=> g5 # U!Failed
  BY <1>1, <1>2, <1>3, <1>4, <1>5, Zenon DEF Gives
<1>13. CASE ~Hyphenated(s)
  <2> HIDE DEF dashes, All
  <2> QED BY <1>10, <1>11, <1>12, <1>13, Zenon
<1>14. CASE Hyphenated(s)
  <2>1. dashes /\ All(1, 8) /\ All(10, 13) /\ All(15, 18) /\ All(20, 23) /\ All(25, 36)
    BY <1>11, <1>14, Zenon
  <2>2. U!ParseHyphenated(s) = g1 \o g2 \o g3 \o g4 \o g5
    <3> HIDE DEF dashes, All
    <3> QED BY <1>10, <1>12, <2>1, Zenon
  <2> HIDE DEF dashes, y
  <2>3. /\ g1 \in Seq(0..255) /\ Len(g1) = 4 /\ \A k \in 1..4 : g1[k] = y[0 + k]
        /\ g2 \in Seq(0..255) /\ Len(g2) = 2 /\ \A k \in 1..2 : g2[k] = y[4 + k]
        /\ g3 \in Seq(0..255) /\ Len(g3) = 2 /\ \A k \in 1..2 : g3[k] = y[6 + k]
        /\ g4 \in Seq(0..255) /\ Len(g4) = 2 /\ \A k \in 1..2 : g4[k] = y[8 + k]
        /\ g5 \in Seq(0..255) /\ Len(g5) = 6 /\ \A k \in 1..6 : g5[k] = y[10 + k]
    BY <1>1, <1>2, <1>3, <1>4, <1>5, <2>1, ZenonT(60) DEF Gives, y
  <2>4. Follows(g1, 4, y, 0..255)
    BY <2>3 DEF Follows
  <2>5. Follows(g1 \o g2, 6, y, 0..255)
    <3>1. Follows(g1 \o g2, 4 + 2, y, 0..255)
      BY <2>3, <2>4, FollowsOn, ZenonT(60)
    <3> QED BY <3>1
  <2>6. Follows(g1 \o g2 \o g3, 8, y, 0..255)
    <3> DEFINE a == g1 \o g2
    <3> HIDE DEF a
    <3>1. Follows(a \o g3, 6 + 2, y, 0..255)
      BY <2>3, <2>5, FollowsOn, ZenonT(60) DEF a
    <3> QED BY <3>1 DEF a
  <2>7. Follows(g1 \o g2 \o g3 \o g4, 10, y, 0..255)
    <3> DEFINE a == g1 \o g2 \o g3
    <3>0. Follows(a, 8, y, 0..255)
      BY <2>6
    <3> HIDE DEF a
    <3>1. Follows(a \o g4, 8 + 2, y, 0..255)
      BY <2>3, <3>0, FollowsOn, ZenonT(60)
    <3> QED BY <3>1 DEF a
  <2>8. Follows(g1 \o g2 \o g3 \o g4 \o g5, 16, y, 0..255)
    <3> DEFINE a == g1 \o g2 \o g3 \o g4
    <3>0. Follows(a, 10, y, 0..255)
      BY <2>7
    <3> HIDE DEF a
    <3>1. Follows(a \o g5, 10 + 6, y, 0..255)
      BY <2>3, <3>0, FollowsOn, ZenonT(60)
    <3> QED BY <3>1 DEF a
  <2> QED BY <1>14, <2>2, <2>8, Zenon DEF y
<1> QED BY <1>13, <1>14

-----------------------------------------------------------------------------
\* What a spelling without its wrapping has to be.
LEMMA SchemeSpelled ==
  ASSUME NEW s PROVE ([i \in 1..9 |-> U!Lower(s[i])] = U!Scheme) <=> ~\E i \in 1..9 : U!Lower(s[i]) # U!Scheme[i]
<1> DEFINE f == [i \in 1..9 |-> U!Lower(s[i])]
<1>1. U!Scheme = [i \in 1..9 |-> U!Scheme[i]]
  BY DEF U!Scheme
<1>2. \A i \in 1..9 : f[i] = U!Lower(s[i])
  OBVIOUS
<1>3. ASSUME f = U!Scheme PROVE ~\E i \in 1..9 : U!Lower(s[i]) # U!Scheme[i]
  BY <1>2, <1>3, Zenon
<1>4. ASSUME ~\E i \in 1..9 : U!Lower(s[i]) # U!Scheme[i] PROVE f = U!Scheme
  BY <1>1, <1>4, Zenon
<1> QED BY <1>3, <1>4, Zenon

\* The whole of a longer text is no piece of it: what is left inside it.
LEMMA Inside ==
  ASSUME NEW S, NEW s \in Seq(S), NEW a \in 1..Len(s), NEW b \in 1..Len(s), b - a + 1 = 36
  PROVE  SubSeq(s, a, b) \in Seq(S) /\ Len(SubSeq(s, a, b)) = 36
<1>1. 36 \in Nat /\ 36 = b - a + 1
  OBVIOUS
<1>2. PieceAt(SubSeq(s, a, b), s, a, 36, S)
  BY <1>1, PieceOfText
<1> QED BY <1>2, Zenon DEF PieceAt

Parsed(r, s) ==
  IF Spelled(s) THEN Follows(r, 16, BytesIn(Bare(s)), 0..255) ELSE r = U!Failed

\* tamga_uuid_parse reads exactly the spellings, and of each its 16 bytes.
LEMMA ParseMeans == ASSUME NEW S, NEW s \in Seq(S) PROVE Parsed(U!Parse(s), s)
<1>0. Len(s) \in Nat
  OBVIOUS
<1>1. CASE Len(s) = 45
  <2> DEFINE b == SubSeq(s, 10, 45)
  <2>1. Bare(s) = b
    BY <1>1 DEF Bare
  <2>2. b \in Seq(S) /\ Len(b) = 36
    <3>1. 10 \in 1..Len(s) /\ 45 \in 1..Len(s) /\ 45 - 10 + 1 = 36
      BY <1>1
    <3> QED BY <3>1, Inside
  <2>3. U!Parse(s) = IF \E i \in 1..9 : U!Lower(s[i]) # U!Scheme[i] THEN U!Failed ELSE U!ParseHyphenated(b)
    BY <1>1 DEF U!Parse
  <2> HIDE DEF b
  <2>4. Len(s) \in {32, 36, 38, 45} /\ Len(s) # 38
    BY <1>1
  <2>5. Spelled(s) <=> [i \in 1..9 |-> U!Lower(s[i])] = U!Scheme /\ Hyphenated(b)
    BY <1>1, <2>1, <2>4, Zenon DEF Spelled, Hyphenated
  <2>6. IF Hyphenated(b) THEN Follows(U!ParseHyphenated(b), 16, BytesIn(b), 0..255)
        ELSE U!ParseHyphenated(b) = U!Failed
    BY <2>2, ParsesHyphenated
  <2> QED BY <2>1, <2>3, <2>5, <2>6, SchemeSpelled, Zenon DEF Parsed
<1>2. CASE Len(s) = 38
  <2> DEFINE b == SubSeq(s, 2, 37)
  <2>1. Bare(s) = b
    BY <1>2 DEF Bare
  <2>2. b \in Seq(S) /\ Len(b) = 36
    <3>1. 2 \in 1..Len(s) /\ 37 \in 1..Len(s) /\ 37 - 2 + 1 = 36
      BY <1>2
    <3> QED BY <3>1, Inside
  <2>3. U!Parse(s) = IF s[1] # "{" \/ s[38] # "}" THEN U!Failed ELSE U!ParseHyphenated(b)
    BY <1>2 DEF U!Parse
  <2> HIDE DEF b
  <2>4. Len(s) \in {32, 36, 38, 45} /\ Len(s) # 45
    BY <1>2
  <2>5. Spelled(s) <=> s[1] = "{" /\ s[38] = "}" /\ Hyphenated(b)
    BY <1>2, <2>1, <2>4, Zenon DEF Spelled, Hyphenated
  <2>6. IF Hyphenated(b) THEN Follows(U!ParseHyphenated(b), 16, BytesIn(b), 0..255)
        ELSE U!ParseHyphenated(b) = U!Failed
    BY <2>2, ParsesHyphenated
  <2> QED BY <2>1, <2>3, <2>5, <2>6, Zenon DEF Parsed
<1>3. CASE Len(s) = 36
  <2>1. Bare(s) = s
    BY <1>3 DEF Bare
  <2>3. U!Parse(s) = U!ParseHyphenated(s)
    BY <1>3 DEF U!Parse
  <2>4. Len(s) \in {32, 36, 38, 45} /\ Len(s) # 45 /\ Len(s) # 38
    BY <1>3
  <2>5. Spelled(s) <=> Hyphenated(s)
    BY <2>1, <2>4, Zenon DEF Spelled, Hyphenated
  <2>6. IF Hyphenated(s) THEN Follows(U!ParseHyphenated(s), 16, BytesIn(s), 0..255)
        ELSE U!ParseHyphenated(s) = U!Failed
    BY <1>3, ParsesHyphenated
  <2> QED BY <2>1, <2>3, <2>5, <2>6, Zenon DEF Parsed
<1>4. CASE Len(s) = 32
  <2> DEFINE T == S \cup {"-"}
             y == [i \in 1..36 |-> IF i \in Hyphens4 THEN "-" ELSE s[DigitAt(i)]]
             b == Bare(s)
             z == [k \in 1..16 |-> ByteOf(s[2 * k - 1], s[2 * k])]
  <2>1. b = WithHyphens(s)
    BY <1>4 DEF Bare, WithHyphens
  <2>2. s \in Seq(T) /\ "-" \in T
    BY SeqMonotonic
  <2> HIDE DEF T
  <2>3. Follows(b, 36, y, T)
    BY <1>4, <2>1, <2>2, HyphensPutIn
  <2>4. U!Parse(s) = U!HexDecode(s)
    BY <1>4 DEF U!Parse
  <2>5. Len(s) \in {32, 36, 38, 45} /\ Len(s) # 45 /\ Len(s) # 38
    BY <1>4
  <2> HIDE DEF b
  <2>6. /\ \A i \in 1..36 : b[i] = IF i \in Hyphens4 THEN "-" ELSE s[DigitAt(i)]
        /\ \A j \in 1..32 : b[PlaceAt(j)] = s[j]
    <3>1. \A i \in 1..36 : b[i] = y[i]
      BY <2>3, Zenon DEF Follows
    <3>2. \A i \in 1..36 : b[i] = IF i \in Hyphens4 THEN "-" ELSE s[DigitAt(i)]
      BY <3>1, Zenon
    <3> QED BY <3>2, PlacesMeet, Zenon
  <2> HIDE DEF y
  <2>7. Hyphenated(b) <=> \A j \in 1..32 : s[j] \in Digits16
    <3>1. ASSUME Hyphenated(b), NEW j \in 1..32 PROVE s[j] \in Digits16
      BY <2>6, <3>1, PlacesMeet, Zenon DEF Hyphenated, Hyphens4
    <3>2. ASSUME \A j \in 1..32 : s[j] \in Digits16 PROVE Hyphenated(b)
      BY <2>6, <3>2, PlacesMeet, ZenonT(60) DEF Hyphenated, Hyphens4
    <3> QED BY <3>1, <3>2, Zenon
  <2>8. Spelled(s) <=> Hyphenated(b)
    BY <2>5, Zenon DEF Spelled, Hyphenated, b
  <2>9. IF \A j \in 1..32 : s[j] \in Digits16
        THEN Follows(U!HexDecode(s), 16, z, 0..255) ELSE U!HexDecode(s) = U!Failed
    <3>1. 16 \in Nat /\ Len(s) = 2 * 16 /\ 2 * 16 = 32
      BY <1>4
    <3>2. IF \A i \in 1..(2 * 16) : s[i] \in Digits16
          THEN Follows(U!HexDecode(s), 16, z, 0..255) ELSE U!HexDecode(s) = U!Failed
      BY <3>1, HexDecodes
    <3> QED BY <3>1, <3>2, Zenon
  <2>10. z = BytesIn(b)
    <3>1. \A k \in 1..16 : 2 * k - 1 \in 1..32 /\ 2 * k \in 1..32
      OBVIOUS
    <3>2. \A k \in 1..16 : s[2 * k - 1] = b[PlaceAt(2 * k - 1)] /\ s[2 * k] = b[PlaceAt(2 * k)]
      BY <2>6, <3>1, Zenon
    <3> QED BY <3>2, Zenon DEF BytesIn
  <2> HIDE DEF z
  <2> QED BY <2>4, <2>7, <2>8, <2>9, <2>10, Zenon DEF Parsed, b
<1>5. CASE Len(s) \notin {32, 36, 38, 45}
  <2>1. U!Parse(s) = U!Failed
    BY <1>5 DEF U!Parse
  <2> QED BY <1>5, <2>1, Zenon DEF Parsed, Spelled
<1> QED BY <1>1, <1>2, <1>3, <1>4, <1>5

\* tamga_uuid_format writes those bytes as the text they were, in small letters.
LEMMA FormatMeans ==
  ASSUME NEW h, Hyphenated(h), NEW B, Follows(B, 16, BytesIn(h), 0..255)
  PROVE  U!Format(B) = [i \in 1..36 |-> U!Lower(h[i])]
<1> DEFINE hex == U!HexEncode(B)
           S == Digits16 \cup {"-"}
<1>1. \A j \in 1..32 : h[PlaceAt(j)] \in Digits16
  BY PlacesMeet, Zenon DEF Hyphenated, Hyphens4
<1>2. Len(B) = 16 /\ \A k \in 1..16 : B[k] = ByteOf(h[PlaceAt(2 * k - 1)], h[PlaceAt(2 * k)])
  <2>1. Len(B) = 16 /\ \A k \in 1..16 : B[k] = BytesIn(h)[k]
    BY Zenon DEF Follows
  <2> QED BY <2>1, Zenon DEF BytesIn
<1>3. hex = [j \in 1..32 |-> U!LowerDigits[(IF j % 2 = 1 THEN B[(j + 1) \div 2] \div 16
                                           ELSE B[(j + 1) \div 2] % 16) + 1]]
  <2>1. 2 * Len(B) = 32
    BY <1>2
  <2> QED BY <2>1, Zenon DEF U!HexEncode
<1>4. ASSUME NEW j \in 1..32 PROVE hex[j] = U!Lower(h[PlaceAt(j)])
  <2>1. hex[j] = U!LowerDigits[(IF j % 2 = 1 THEN B[(j + 1) \div 2] \div 16
                                ELSE B[(j + 1) \div 2] % 16) + 1]
    BY <1>3, Zenon
  <2>2. CASE j % 2 = 1
    <3>1. PICK k \in 1..16 : j = 2 * k - 1 /\ (j + 1) \div 2 = k /\ 2 * k \in 1..32
      BY <2>2
    <3>2. hex[j] = U!LowerDigits[(B[k] \div 16) + 1]
      BY <2>1, <2>2, <3>1, Zenon
    <3>3. B[k] = ByteOf(h[PlaceAt(j)], h[PlaceAt(2 * k)])
      BY <1>2, <3>1, Zenon
    <3>4. h[PlaceAt(j)] \in Digits16 /\ h[PlaceAt(2 * k)] \in Digits16
      BY <1>1, <3>1, Zenon
    <3>5. U!LowerDigits[(ByteOf(h[PlaceAt(j)], h[PlaceAt(2 * k)]) \div 16) + 1] = U!Lower(h[PlaceAt(j)])
      BY <3>4, ByteParts
    <3> QED BY <3>2, <3>3, <3>5, Zenon
  <2>3. CASE j % 2 # 1
    <3>1. PICK k \in 1..16 : j = 2 * k /\ (j + 1) \div 2 = k /\ 2 * k - 1 \in 1..32
      BY <2>3
    <3>2. hex[j] = U!LowerDigits[(B[k] % 16) + 1]
      BY <2>1, <2>3, <3>1, Zenon
    <3>3. B[k] = ByteOf(h[PlaceAt(2 * k - 1)], h[PlaceAt(j)])
      BY <1>2, <3>1, Zenon
    <3>4. h[PlaceAt(2 * k - 1)] \in Digits16 /\ h[PlaceAt(j)] \in Digits16
      BY <1>1, <3>1, Zenon
    <3>5. U!LowerDigits[(ByteOf(h[PlaceAt(2 * k - 1)], h[PlaceAt(j)]) % 16) + 1] = U!Lower(h[PlaceAt(j)])
      BY <3>4, ByteParts
    <3> QED BY <3>2, <3>3, <3>5, Zenon
  <2> QED BY <2>2, <2>3
<1>5. hex = [j \in 1..32 |-> hex[j]]
  BY <1>3, Zenon
<1> HIDE DEF hex
<1>6. \A j \in 1..32 : hex[j] \in S
  BY <1>1, <1>4, LowerTwice, Zenon
<1>7. hex \in Seq(S) /\ Len(hex) = 32
  BY <1>5, <1>6
<1>8. "-" \in S
  OBVIOUS
<1> HIDE DEF S
<1>9. Follows(WithHyphens(hex), 36, [i \in 1..36 |-> IF i \in Hyphens4 THEN "-" ELSE hex[DigitAt(i)]], S)
  BY <1>7, <1>8, HyphensPutIn
<1>10. U!Format(B) = WithHyphens(hex)
  BY Zenon DEF U!Format, WithHyphens, hex
<1> DEFINE w == WithHyphens(hex)
<1>11. w \in Seq(S) /\ Len(w) = 36
  BY <1>9, Zenon DEF Follows
<1>12. ASSUME NEW i \in 1..36 PROVE w[i] = U!Lower(h[i])
  <2>1. w[i] = IF i \in Hyphens4 THEN "-" ELSE hex[DigitAt(i)]
    BY <1>9, Zenon DEF Follows
  <2>2. CASE i \in Hyphens4
    BY <2>1, <2>2, LowerTwice, Zenon DEF Hyphenated, Hyphens4
  <2>3. CASE i \notin Hyphens4
    <3>1. DigitAt(i) \in 1..32 /\ PlaceAt(DigitAt(i)) = i
      BY <2>3, PlacesMeet, Zenon
    <3> QED BY <1>4, <2>1, <2>3, <3>1, Zenon
  <2> QED BY <2>2, <2>3
<1> HIDE DEF w
<1>13. w = [i \in 1..36 |-> w[i]]
  BY <1>11
<1>14. w = [i \in 1..36 |-> U!Lower(h[i])]
  BY <1>12, <1>13, Zenon
<1> QED BY <1>10, <1>14, Zenon DEF w

UuidRight(s) ==
  LET canonical == U!Normalize(s)
  IN IF Spelled(s)
     THEN /\ canonical = [i \in 1..36 |-> U!Lower(Bare(s)[i])]
          /\ U!Normalize(canonical) = canonical
     ELSE canonical = U!Failed

\* tamga_uuid_normalize gives one text for every spelling of a UUID, itself for
\* that text, and nothing for what is no UUID.
LEMMA UuidsAgree == ASSUME NEW S, NEW s \in Seq(S) PROVE UuidRight(s)
<1>1. Parsed(U!Parse(s), s)
  BY ParseMeans
<1>2. CASE ~Spelled(s)
  <2>1. U!Normalize(s) = U!Failed
    BY <1>1, <1>2, Zenon DEF Parsed, U!Normalize
  <2> QED BY <1>2, <2>1, Zenon DEF UuidRight
<1>3. ASSUME NEW R, NEW t \in Seq(R), Spelled(t)
      PROVE  Hyphenated(Bare(t)) /\ U!Normalize(t) = [i \in 1..36 |-> U!Lower(Bare(t)[i])]
  <2>1. Follows(U!Parse(t), 16, BytesIn(Bare(t)), 0..255)
    <3>1. Parsed(U!Parse(t), t)
      BY ParseMeans
    <3> QED BY <1>3, <3>1, Zenon DEF Parsed
  <2>2. U!Parse(t) # U!Failed
    <3>1. 16 \in Nat \ {0}
      OBVIOUS
    <3> QED BY <2>1, <3>1, NotFailed
  <2>3. Hyphenated(Bare(t))
    BY <1>3, Zenon DEF Spelled, Hyphenated
  <2>4. U!Format(U!Parse(t)) = [i \in 1..36 |-> U!Lower(Bare(t)[i])]
    BY <2>1, <2>3, FormatMeans
  <2> QED BY <2>2, <2>3, <2>4, Zenon DEF U!Normalize
<1>4. CASE Spelled(s)
  <2> DEFINE h == Bare(s)
             c == [i \in 1..36 |-> U!Lower(h[i])]
             S1 == Digits16 \cup {"-"}
  <2>1. Hyphenated(h) /\ U!Normalize(s) = c
    BY <1>3, <1>4
  <2> HIDE DEF h
  <2>2. \A i \in 1..36 : c[i] = U!Lower(h[i])
    BY Zenon
  <2>3. c = [i \in 1..36 |-> c[i]]
    BY Zenon
  <2> HIDE DEF c
  <2>4. Hyphenated(c)
    BY <2>1, <2>2, LowerTwice, Zenon DEF Hyphenated
  <2>5. \A i \in 1..36 : c[i] \in S1
    BY <2>4 DEF Hyphenated
  <2>6. c \in Seq(S1) /\ Len(c) = 36
    BY <2>3, <2>5
  <2>7. Bare(c) = c
    BY <2>6 DEF Bare
  <2>8. Len(c) \in {32, 36, 38, 45} /\ Len(c) # 38 /\ Len(c) # 45
    BY <2>6
  <2>9. Spelled(c)
    BY <2>4, <2>7, <2>8, Zenon DEF Spelled, Hyphenated
  <2> HIDE DEF S1
  <2>10. U!Normalize(c) = [i \in 1..36 |-> U!Lower(Bare(c)[i])]
    BY <1>3, <2>6, <2>9
  <2>11. \A i \in 1..36 : U!Lower(c[i]) = c[i]
    BY <2>2, LowerTwice, Zenon
  <2>12. U!Normalize(c) = c
    BY <2>3, <2>7, <2>10, <2>11, Zenon
  <2> QED BY <1>4, <2>1, <2>12, Zenon DEF UuidRight, c, h
<1> QED BY <1>2, <1>4

-----------------------------------------------------------------------------
(* base64.                                                                   *)

\* The sextet at place j, 0 where there is none.
Sextet(x, n, j) == IF j \in 1..n THEN x[j] ELSE 0
\* The byte number m that sextets stand for.
ByteFrom(x, n, m) ==
  LET k == (m - 1) \div 3
      v(j) == Sextet(x, n, 4 * k + j)
  IN IF m % 3 = 1 THEN v(1) * 4 + v(2) \div 16
     ELSE IF m % 3 = 2 THEN (v(2) % 16) * 16 + v(3) \div 4
     ELSE (v(3) % 4) * 64 + v(4)
\* What the accumulator still holds after i sextets.
Held(x, n, i) ==
  IF i = 0 THEN 0
  ELSE (Sextet(x, n, i - 2) % 4) * 4096 + Sextet(x, n, i - 1) * 64 + Sextet(x, n, i)
State64(x, n, i) ==
  [accum |-> Held(x, n, i), bits |-> (6 * i) % 8, out |-> [m \in 1..(6 * i) \div 8 |-> ByteFrom(x, n, m)]]

\* One round of the loop of tamga_base64_decode.
Round(s, c) ==
  LET accum == (s.accum * 64 + c) % 2 ^ 14
      bits == s.bits + 6
  IN IF bits < 8 THEN [s EXCEPT !.accum = accum, !.bits = bits]
     ELSE [accum |-> accum, bits |-> bits - 8,
           out |-> Append(s.out, (accum \div 2 ^ (bits - 8)) % 256)]
Rounds(f, x, n) ==
  f = [i \in 0..n |-> IF i = 0 THEN [accum |-> 0, bits |-> 0, out |-> <<>>] ELSE Round(f[i - 1], x[i])]

LEMMA LoopDef == ASSUME NEW x, NEW n PROVE Loop(x, n) = (CHOOSE f : Rounds(f, x, n))[n]
BY Zenon DEF Loop, Rounds, Round

LEMMA Powers64 ==
  /\ 2 ^ 0 = 1 /\ 2 ^ 2 = 4 /\ 2 ^ 4 = 16 /\ 2 ^ 14 = 16384
  /\ 64 ^ 0 = 1 /\ 64 ^ 1 = 64 /\ 64 ^ 2 = 4096 /\ 64 ^ 3 = 262144
BY SMT

LEMMA ByteCases ==
  ASSUME NEW x, NEW n, NEW m, NEW k, k = (m - 1) \div 3
  PROVE  /\ m % 3 = 1 => ByteFrom(x, n, m) = Sextet(x, n, 4 * k + 1) * 4 + Sextet(x, n, 4 * k + 2) \div 16
         /\ m % 3 = 2 => ByteFrom(x, n, m) = (Sextet(x, n, 4 * k + 2) % 16) * 16 + Sextet(x, n, 4 * k + 3) \div 4
         /\ m % 3 = 0 => ByteFrom(x, n, m) = (Sextet(x, n, 4 * k + 3) % 4) * 64 + Sextet(x, n, 4 * k + 4)
<1>1. ByteFrom(x, n, m) =
        IF m % 3 = 1 THEN Sextet(x, n, 4 * k + 1) * 4 + Sextet(x, n, 4 * k + 2) \div 16
        ELSE IF m % 3 = 2 THEN (Sextet(x, n, 4 * k + 2) % 16) * 16 + Sextet(x, n, 4 * k + 3) \div 4
        ELSE (Sextet(x, n, 4 * k + 3) % 4) * 64 + Sextet(x, n, 4 * k + 4)
  BY Zenon DEF ByteFrom
<1> HIDE DEF Sextet
<1> QED BY <1>1

LEMMA GroupBytes ==
  ASSUME NEW x, NEW n, NEW k \in Nat
  PROVE  /\ ByteFrom(x, n, 3 * k + 1) = Sextet(x, n, 4 * k + 1) * 4 + Sextet(x, n, 4 * k + 2) \div 16
         /\ ByteFrom(x, n, 3 * k + 2) = (Sextet(x, n, 4 * k + 2) % 16) * 16 + Sextet(x, n, 4 * k + 3) \div 4
         /\ ByteFrom(x, n, 3 * k + 3) = (Sextet(x, n, 4 * k + 3) % 4) * 64 + Sextet(x, n, 4 * k + 4)
<1>1. PICK p \in Nat : p = 3 * k + 1 /\ p % 3 = 1 /\ k = (p - 1) \div 3
  OBVIOUS
<1>2. PICK q \in Nat : q = 3 * k + 2 /\ q % 3 = 2 /\ k = (q - 1) \div 3
  OBVIOUS
<1>3. PICK r \in Nat : r = 3 * k + 3 /\ r % 3 = 0 /\ k = (r - 1) \div 3
  OBVIOUS
<1>4. ByteFrom(x, n, p) = Sextet(x, n, 4 * k + 1) * 4 + Sextet(x, n, 4 * k + 2) \div 16
  <2>1. p % 3 = 1 /\ k = (p - 1) \div 3
    BY <1>1, Zenon
  <2> QED BY <2>1, ByteCases, ZenonT(60)
<1>5. ByteFrom(x, n, q) = (Sextet(x, n, 4 * k + 2) % 16) * 16 + Sextet(x, n, 4 * k + 3) \div 4
  <2>1. q % 3 = 2 /\ k = (q - 1) \div 3
    BY <1>2, Zenon
  <2> QED BY <2>1, ByteCases, ZenonT(60)
<1>6. ByteFrom(x, n, r) = (Sextet(x, n, 4 * k + 3) % 4) * 64 + Sextet(x, n, 4 * k + 4)
  <2>1. r % 3 = 0 /\ k = (r - 1) \div 3
    BY <1>3, Zenon
  <2> QED BY <2>1, ByteCases, ZenonT(60)
<1> QED BY <1>1, <1>2, <1>3, <1>4, <1>5, <1>6, Zenon

Sextets(x, n) == n \in Nat /\ \A i \in 1..n : x[i] \in 0..63

LEMMA SextetRange == ASSUME NEW x, NEW n, Sextets(x, n), NEW j PROVE Sextet(x, n, j) \in 0..63
BY DEF Sextets, Sextet

LEMMA HeldRound ==
  ASSUME NEW x, NEW n, Sextets(x, n), NEW i \in 1..n
  PROVE  (Held(x, n, i - 1) * 64 + x[i]) % 2 ^ 14 = Held(x, n, i)
<1> DEFINE v(j) == Sextet(x, n, j)
<1>0. n \in Nat
  BY DEF Sextets
<1>1. \A j : v(j) \in 0..63
  BY SextetRange
<1>2. v(i) = x[i]
  BY DEF Sextet
<1>3. i # 0 /\ v(0) = 0 /\ v(0 - 1) = 0 /\ v(-1) = 0
  BY <1>0 DEF Sextet
<1>4. CASE i = 1
  <2>1. Held(x, n, i - 1) = 0
    BY <1>4 DEF Held
  <2>2. Held(x, n, i) = (v(-1) % 4) * 4096 + v(0) * 64 + v(1)
    BY <1>4 DEF Held
  <2> HIDE DEF v
  <2>3. PICK d \in 0..63 : d = v(1) /\ d = x[i]
    BY <1>1, <1>2, <1>4
  <2>4. Held(x, n, i) = d
    BY <1>3, <2>2, <2>3
  <2>5. (0 * 64 + d) % 2 ^ 14 = d
    BY Powers64
  <2> QED BY <2>1, <2>3, <2>4, <2>5, Zenon
<1>5. CASE i # 1
  <2>1. Held(x, n, i - 1) = (v(i - 3) % 4) * 4096 + v(i - 2) * 64 + v(i - 1)
    <3>1. i - 1 # 0 /\ i - 1 - 2 = i - 3 /\ i - 1 - 1 = i - 2
      BY <1>0, <1>5
    <3> QED BY <3>1 DEF Held
  <2>2. Held(x, n, i) = (v(i - 2) % 4) * 4096 + v(i - 1) * 64 + v(i)
    BY <1>3 DEF Held
  <2> HIDE DEF v
  <2>3. PICK a \in 0..63, b \in 0..63, c \in 0..63, d \in 0..63 :
          a = v(i - 3) /\ b = v(i - 2) /\ c = v(i - 1) /\ d = v(i)
    BY <1>1
  <2>4. Held(x, n, i - 1) = (a % 4) * 4096 + b * 64 + c /\ Held(x, n, i) = (b % 4) * 4096 + c * 64 + d
    BY <2>1, <2>2, <2>3
  <2>5. (((a % 4) * 4096 + b * 64 + c) * 64 + d) % 2 ^ 14 = (b % 4) * 4096 + c * 64 + d
    BY Powers64
  <2>6. d = x[i]
    BY <1>2, <2>3, Zenon
  <2> QED BY <2>4, <2>5, <2>6
<1> QED BY <1>4, <1>5

\* Each round is one step of the state.
LEMMA StateRound ==
  ASSUME NEW x, NEW n, Sextets(x, n), NEW i \in 1..n
  PROVE  Round(State64(x, n, i - 1), x[i]) = State64(x, n, i)
<1> DEFINE v(j) == Sextet(x, n, j)
           A == Held(x, n, i)
           out(j) == [m \in 1..(6 * j) \div 8 |-> ByteFrom(x, n, m)]
           s == State64(x, n, i - 1)
<1>0. n \in Nat /\ i \in Nat
  BY DEF Sextets
<1>1. \A j : v(j) \in 0..63
  BY SextetRange
<1>2. s = [accum |-> Held(x, n, i - 1), bits |-> (6 * (i - 1)) % 8, out |-> out(i - 1)]
  BY Zenon DEF State64
<1>3. State64(x, n, i) = [accum |-> A, bits |-> (6 * i) % 8, out |-> out(i)]
  BY Zenon DEF State64
<1>4. (s.accum * 64 + x[i]) % 2 ^ 14 = A
  <2>1. s.accum = Held(x, n, i - 1)
    BY <1>2
  <2> QED BY <2>1, HeldRound, Zenon
<1>5. A = (v(i - 2) % 4) * 4096 + v(i - 1) * 64 + v(i)
  BY <1>0 DEF Held
<1>6. s.bits = (6 * (i - 1)) % 8 /\ s.out = out(i - 1)
  BY <1>2
<1>61. \A p, q : [s EXCEPT !.accum = p, !.bits = q] = [accum |-> p, bits |-> q, out |-> out(i - 1)]
  <2> SUFFICES ASSUME NEW p, NEW q
               PROVE  [s EXCEPT !.accum = p, !.bits = q] = [accum |-> p, bits |-> q, out |-> out(i - 1)]
    BY Zenon
  <2> DEFINE a == Held(x, n, i - 1)
             b == (6 * (i - 1)) % 8
             o == out(i - 1)
  <2>0. s = [accum |-> a, bits |-> b, out |-> o]
    BY <1>2, Zenon
  <2> HIDE DEF a, b, o, s
  <2>2. [[accum |-> a, bits |-> b, out |-> o] EXCEPT !.accum = p] = [accum |-> p, bits |-> b, out |-> o]
    OBVIOUS
  <2>3. [[accum |-> p, bits |-> b, out |-> o] EXCEPT !.bits = q] = [accum |-> p, bits |-> q, out |-> o]
    OBVIOUS
  <2>4. [s EXCEPT !.accum = p] = [accum |-> p, bits |-> b, out |-> o]
    BY <2>0, <2>2, SMT
  <2>5. PICK t : t = [s EXCEPT !.accum = p]
    OBVIOUS
  <2>6. t = [accum |-> p, bits |-> b, out |-> o]
    BY <2>4, <2>5, Zenon
  <2>7. [t EXCEPT !.bits = q] = [accum |-> p, bits |-> q, out |-> o]
    BY <2>3, <2>6, SMT
  <2>8. [s EXCEPT !.accum = p, !.bits = q] = [t EXCEPT !.bits = q]
    BY <2>5
  <2> QED BY <2>7, <2>8, Zenon DEF o
<1> HIDE DEF A, s, out, v
<1>7. Round(s, x[i]) = IF s.bits + 6 < 8 THEN [accum |-> A, bits |-> s.bits + 6, out |-> s.out]
                       ELSE [accum |-> A, bits |-> (s.bits + 6) - 8,
                             out |-> Append(s.out, (A \div 2 ^ ((s.bits + 6) - 8)) % 256)]
  <2>1. [s EXCEPT !.accum = A, !.bits = s.bits + 6] = [accum |-> A, bits |-> s.bits + 6, out |-> s.out]
    BY <1>6, <1>61
  <2> DEFINE acc == (s.accum * 64 + x[i]) % 2 ^ 14
             bits == s.bits + 6
  <2>2. Round(s, x[i]) = IF bits < 8 THEN [s EXCEPT !.accum = acc, !.bits = bits]
                         ELSE [accum |-> acc, bits |-> bits - 8,
                               out |-> Append(s.out, (acc \div 2 ^ (bits - 8)) % 256)]
    BY Zenon DEF Round
  <2>3. acc = A
    BY <1>4, Zenon
  <2>4. [s EXCEPT !.accum = acc, !.bits = bits] = [accum |-> A, bits |-> bits, out |-> s.out]
    BY <2>1, <2>3, Zenon
  <2> HIDE DEF acc, bits
  <2>5. [accum |-> acc, bits |-> bits - 8, out |-> Append(s.out, (acc \div 2 ^ (bits - 8)) % 256)] =
        [accum |-> A, bits |-> bits - 8, out |-> Append(s.out, (A \div 2 ^ (bits - 8)) % 256)]
    BY <2>3, Zenon
  <2>6. Round(s, x[i]) = IF bits < 8 THEN [accum |-> A, bits |-> bits, out |-> s.out]
                         ELSE [accum |-> A, bits |-> bits - 8, out |-> Append(s.out, (A \div 2 ^ (bits - 8)) % 256)]
    BY <2>2, <2>4, <2>5, Zenon
  <2> QED BY <2>6, Zenon DEF bits
<1>8. PICK a \in 0..63, b \in 0..63, c \in 0..63 : a = v(i - 2) /\ b = v(i - 1) /\ c = v(i)
  BY <1>1
<1>9. A = (a % 4) * 4096 + b * 64 + c
  BY <1>5, <1>8
<1>10. CASE i % 4 = 1
  <2>1. s.bits = 0 /\ (6 * i) % 8 = 6 /\ (6 * i) \div 8 = (6 * (i - 1)) \div 8
    BY <1>0, <1>6, <1>10
  <2>2. out(i) = out(i - 1)
    BY <2>1, Zenon DEF out
  <2>3. Round(s, x[i]) = [accum |-> A, bits |-> 6, out |-> s.out]
    BY <1>7, <2>1
  <2> QED BY <1>3, <1>6, <2>1, <2>2, <2>3, Zenon DEF s
<1>11. ASSUME NEW m \in Nat, NEW w, m = (6 * (i - 1)) \div 8, m + 1 = (6 * i) \div 8,
              w = ByteFrom(x, n, m + 1)
       PROVE  Append(out(i - 1), w) = out(i)
  <2> DEFINE f == [k \in 1..m + 1 |-> ByteFrom(x, n, k)]
             g == [k \in 1..m |-> ByteFrom(x, n, k)]
  <2>1. f = out(i) /\ g = out(i - 1)
    BY <1>11, Zenon DEF out
  <2>2. Append(g, w) = f
    <3> DEFINE B(k) == ByteFrom(x, n, k)
    <3> HIDE DEF B
    <3>1. Append([k \in 1..m |-> B(k)], B(m + 1)) = [k \in 1..m + 1 |-> B(k)]
      OBVIOUS
    <3> QED BY <1>11, <3>1, Zenon DEF B
  <2> QED BY <2>1, <2>2, Zenon
<1>12. CASE i % 4 = 2
  <2>1. s.bits = 6 /\ (6 * i) % 8 = 4
    BY <1>0, <1>6, <1>12
  <2>2. PICK k \in Nat : i = 4 * k + 2
    BY <1>0, <1>12
  <2>3. 3 * k = (6 * (i - 1)) \div 8 /\ 3 * k + 1 = (6 * i) \div 8 /\ 3 * k \in Nat
    BY <2>2
  <2>4. (3 * k + 1) % 3 = 1 /\ (3 * k + 1 - 1) \div 3 = k /\ 4 * k + 1 = i - 1 /\ 4 * k + 2 = i
    BY <2>2
  <2>5. ByteFrom(x, n, 3 * k + 1) = b * 4 + c \div 16
    <3>1. ByteFrom(x, n, 3 * k + 1) = v(4 * k + 1) * 4 + v(4 * k + 2) \div 16
      BY <2>4, ByteCases DEF v
    <3> QED BY <1>8, <2>4, <3>1
  <2>6. (A \div 2 ^ 4) % 256 = b * 4 + c \div 16
    BY <1>9, Powers64
  <2>7. Append(out(i - 1), (A \div 2 ^ 4) % 256) = out(i)
    BY <1>11, <2>3, <2>5, <2>6, Zenon
  <2>8. Round(s, x[i]) = [accum |-> A, bits |-> 4, out |-> Append(s.out, (A \div 2 ^ 4) % 256)]
    <3>1. ~(s.bits + 6 < 8) /\ (s.bits + 6) - 8 = 4
      BY <2>1
    <3> QED BY <1>7, <3>1, Zenon
  <2> QED BY <1>3, <1>6, <2>1, <2>7, <2>8, Zenon DEF s
<1>13. CASE i % 4 = 3
  <2>1. s.bits = 4 /\ (6 * i) % 8 = 2
    BY <1>0, <1>6, <1>13
  <2>2. PICK k \in Nat : i = 4 * k + 3
    BY <1>0, <1>13
  <2>3. 3 * k + 1 = (6 * (i - 1)) \div 8 /\ (3 * k + 1) + 1 = (6 * i) \div 8 /\ 3 * k + 1 \in Nat
    BY <2>2
  <2>4. /\ ((3 * k + 1) + 1) % 3 = 2 /\ ((3 * k + 1) + 1 - 1) \div 3 = k
        /\ 4 * k + 2 = i - 1 /\ 4 * k + 3 = i
    BY <2>2
  <2>5. ByteFrom(x, n, (3 * k + 1) + 1) = (b % 16) * 16 + c \div 4
    <3>0. PICK m \in Nat : m = (3 * k + 1) + 1
      OBVIOUS
    <3>1. ByteFrom(x, n, m) = (v(4 * k + 2) % 16) * 16 + v(4 * k + 3) \div 4
      BY <2>4, <3>0, ByteCases DEF v
    <3> QED BY <1>8, <2>4, <3>0, <3>1
  <2>6. (A \div 2 ^ 2) % 256 = (b % 16) * 16 + c \div 4
    BY <1>9, Powers64
  <2>7. Append(out(i - 1), (A \div 2 ^ 2) % 256) = out(i)
    BY <1>11, <2>3, <2>5, <2>6, ZenonT(60)
  <2>8. Round(s, x[i]) = [accum |-> A, bits |-> 2, out |-> Append(s.out, (A \div 2 ^ 2) % 256)]
    <3>1. ~(s.bits + 6 < 8) /\ (s.bits + 6) - 8 = 2
      BY <2>1
    <3> QED BY <1>7, <3>1, Zenon
  <2> QED BY <1>3, <1>6, <2>1, <2>7, <2>8, Zenon DEF s
<1>14. CASE i % 4 = 0
  <2>1. s.bits = 2 /\ (6 * i) % 8 = 0
    BY <1>0, <1>6, <1>14
  <2>0. i = 4 * (i \div 4 - 1) + 4 /\ i \div 4 - 1 \in Nat
    BY <1>0, <1>14
  <2>2. PICK k \in Nat : i = 4 * k + 4
    BY <2>0
  <2>3. 3 * k + 2 = (6 * (i - 1)) \div 8 /\ (3 * k + 2) + 1 = (6 * i) \div 8 /\ 3 * k + 2 \in Nat
    BY <2>2
  <2>4. /\ ((3 * k + 2) + 1) % 3 = 0 /\ ((3 * k + 2) + 1 - 1) \div 3 = k
        /\ 4 * k + 3 = i - 1 /\ 4 * k + 4 = i
    BY <2>2
  <2>5. ByteFrom(x, n, (3 * k + 2) + 1) = (b % 4) * 64 + c
    <3>0. PICK m \in Nat : m = (3 * k + 2) + 1
      OBVIOUS
    <3>2. m % 3 = 0 /\ k = (m - 1) \div 3
      BY <3>0
    <3>1. ByteFrom(x, n, m) = (v(4 * k + 3) % 4) * 64 + v(4 * k + 4)
      BY <3>2, ByteCases, ZenonT(60) DEF v
    <3> QED BY <1>8, <2>4, <3>0, <3>1
  <2>6. (A \div 2 ^ 0) % 256 = (b % 4) * 64 + c
    BY <1>9, Powers64
  <2>7. Append(out(i - 1), (A \div 2 ^ 0) % 256) = out(i)
    BY <1>11, <2>3, <2>5, <2>6, ZenonT(60)
  <2>8. Round(s, x[i]) = [accum |-> A, bits |-> 0, out |-> Append(s.out, (A \div 2 ^ 0) % 256)]
    <3>1. ~(s.bits + 6 < 8) /\ (s.bits + 6) - 8 = 0
      BY <2>1
    <3> QED BY <1>7, <3>1, Zenon
  <2> QED BY <1>3, <1>6, <2>1, <2>7, <2>8, Zenon DEF s
<1> QED BY <1>0, <1>10, <1>12, <1>13, <1>14

\* What the loop leaves behind.
LEMMA LoopLeaves == ASSUME NEW x, NEW n, Sextets(x, n) PROVE Loop(x, n) = State64(x, n, n)
<1> DEFINE z == [accum |-> 0, bits |-> 0, out |-> <<>>]
           g == [i \in 0..n |-> State64(x, n, i)]
<1>0. n \in Nat
  BY DEF Sextets
<1>1. State64(x, n, 0) = z
  <2>1. (6 * 0) % 8 = 0 /\ 1..(6 * 0) \div 8 = {}
    OBVIOUS
  <2>2. Held(x, n, 0) = 0
    BY DEF Held
  <2>3. [m \in {} |-> ByteFrom(x, n, m)] = <<>>
    OBVIOUS
  <2> QED BY <2>1, <2>2, <2>3, Zenon DEF State64
<1> HIDE DEF z
<1>2. Rounds(g, x, n)
  <2>1. ASSUME NEW i \in 0..n PROVE g[i] = IF i = 0 THEN z ELSE Round(g[i - 1], x[i])
    <3>1. CASE i = 0
      BY <1>1, <3>1
    <3>2. CASE i # 0
      <4>1. i \in 1..n /\ i - 1 \in 0..n
        BY <1>0, <3>2
      <4>2. g[i - 1] = State64(x, n, i - 1) /\ g[i] = State64(x, n, i)
        BY <4>1, Zenon
      <4> QED BY <3>2, <4>1, <4>2, StateRound, Zenon
    <3> QED BY <3>1, <3>2
  <2>2. g = [i \in 0..n |-> g[i]]
    BY Zenon
  <2> HIDE DEF g
  <2> QED BY <2>1, <2>2, Zenon DEF Rounds, z
<1>3. PICK f : Rounds(f, x, n) /\ Loop(x, n) = f[n]
  <2> HIDE DEF g
  <2>1. Rounds(CHOOSE f : Rounds(f, x, n), x, n)
    BY <1>2, Zenon
  <2> QED BY <2>1, LoopDef, Zenon
<1> DEFINE T == {i \in 0..n : f[i] = State64(x, n, i)}
<1>4. \A i \in 0..n : f[i] = IF i = 0 THEN z ELSE Round(f[i - 1], x[i])
  BY <1>3, Zenon DEF Rounds, z
<1>5. 0 \in T
  <2>1. 0 \in 0..n
    BY <1>0
  <2> QED BY <1>1, <1>4, <2>1, Zenon
<1>6. ASSUME NEW i \in 1..n, i - 1 \in T PROVE i \in T
  <2>1. i \in 0..n /\ i # 0 /\ f[i - 1] = State64(x, n, i - 1)
    BY <1>0, <1>6
  <2> QED BY <1>4, <2>1, StateRound, Zenon
<1>7. 0..n \subseteq T
  <2> HIDE DEF T
  <2> QED BY <1>0, <1>5, <1>6, IntervalInduction
<1>8. n \in 0..n
  BY <1>0
<1> QED BY <1>3, <1>7, <1>8, Zenon

-----------------------------------------------------------------------------
\* How many '=' a text ends in, as far as they count.
PadOf(x, L, p) ==
  /\ p \in {0, 1, 2} /\ p <= L /\ \A i \in L - p + 1..L : x[i] = Pad
  /\ p = 0 /\ L >= 1 => x[L] # Pad
  /\ p = 1 /\ L >= 2 => x[L - 1] # Pad

LEMMA PaddingMeans == ASSUME NEW x, NEW L \in Nat, Len(x) = L PROVE PadOf(x, L, Padding(x))
<1>1. L + 1 - 1 = L /\ L + 1 - 2 = L - 1
  OBVIOUS
<1>2. Padding(x) = IF L >= 1 /\ x[L] = Pad THEN IF L >= 2 /\ x[L - 1] = Pad THEN 2 ELSE 1 ELSE 0
  BY <1>1 DEF Padding
<1>3. CASE L >= 1 /\ x[L] = Pad /\ L >= 2 /\ x[L - 1] = Pad
  <2>1. Padding(x) = 2
    BY <1>2, <1>3
  <2>2. \A i \in L - 2 + 1..L : i = L \/ i = L - 1
    OBVIOUS
  <2> QED BY <1>3, <2>1, <2>2 DEF PadOf
<1>4. CASE L >= 1 /\ x[L] = Pad /\ ~(L >= 2 /\ x[L - 1] = Pad)
  <2>1. Padding(x) = 1
    BY <1>2, <1>4
  <2>2. \A i \in L - 1 + 1..L : i = L
    OBVIOUS
  <2> QED BY <1>4, <2>1, <2>2 DEF PadOf
<1>5. CASE ~(L >= 1 /\ x[L] = Pad)
  <2>1. Padding(x) = 0
    BY <1>2, <1>5
  <2> QED BY <1>5, <2>1 DEF PadOf
<1> QED BY <1>3, <1>4, <1>5

\* Where the padding is known, so is it counted.
LEMMA PadIs ==
  ASSUME NEW x, NEW L \in Nat, Len(x) = L, NEW p, PadOf(x, L, p) PROVE Padding(x) = p
<1> DEFINE q == Padding(x)
<1>1. PadOf(x, L, q)
  BY PaddingMeans
<1> HIDE DEF q
<1>2. /\ q \in {0, 1, 2} /\ q <= L /\ (\A i \in L - q + 1..L : x[i] = Pad)
      /\ (q = 0 /\ L >= 1 => x[L] # Pad) /\ (q = 1 /\ L >= 2 => x[L - 1] # Pad)
  BY <1>1 DEF PadOf
<1>3. /\ p \in {0, 1, 2} /\ p <= L /\ (\A i \in L - p + 1..L : x[i] = Pad)
      /\ (p = 0 /\ L >= 1 => x[L] # Pad) /\ (p = 1 /\ L >= 2 => x[L - 1] # Pad)
  BY DEF PadOf
<1>4. /\ q >= 1 => x[L] = Pad /\ L >= 1
      /\ q = 2 => x[L - 1] = Pad /\ L >= 2
  BY <1>2
<1>5. /\ p >= 1 => x[L] = Pad /\ L >= 1
      /\ p = 2 => x[L - 1] = Pad /\ L >= 2
  BY <1>3
<1>6. p = q
  BY <1>2, <1>3, <1>4, <1>5
<1> QED BY <1>6 DEF q

\* The whole text, with the padding its length wants.
Whole(x, n) == [i \in 1..EncodedLen((6 * n) \div 8) |-> IF i <= n THEN x[i] ELSE Pad]
Canonical(x, n) ==
  n % 4 # 1 /\ (\A i \in 1..n : IsSextet(x[i])) /\ x \in {Whole(x, n), SubSeq(Whole(x, n), 1, n)}

LEMMA WholeLength ==
  ASSUME NEW n \in Nat, n % 4 # 1, NEW e, e = EncodedLen((6 * n) \div 8)
  PROVE  /\ e \in Nat
         /\ n % 4 = 0 => e = n
         /\ n % 4 = 2 => e = n + 2
         /\ n % 4 = 3 => e = n + 1
         /\ n % 4 = 0 \/ n % 4 = 2 \/ n % 4 = 3
<1>1. e = (((6 * n) \div 8 + 2) \div 3) * 4
  BY DEF EncodedLen
<1>3. n % 4 = 0 \/ n % 4 = 2 \/ n % 4 = 3
  OBVIOUS
<1>4. CASE n % 4 = 0
  <2>1. PICK q \in Nat : n = 4 * q
    BY <1>4
  <2>2. (6 * n) \div 8 = 3 * q
    BY <2>1
  <2>3. e = 4 * q
    BY <1>1, <2>2
  <2> QED BY <1>4, <2>1, <2>3
<1>5. CASE n % 4 = 2
  <2>1. PICK q \in Nat : n = 4 * q + 2
    BY <1>5
  <2>2. (6 * n) \div 8 = 3 * q + 1
    BY <2>1
  <2>3. e = 4 * q + 4
    BY <1>1, <2>2
  <2> QED BY <1>5, <2>1, <2>3
<1>6. CASE n % 4 = 3
  <2>1. PICK q \in Nat : n = 4 * q + 3
    BY <1>6
  <2>2. (6 * n) \div 8 = 3 * q + 2
    BY <2>1
  <2>3. e = 4 * q + 4
    BY <1>1, <2>2
  <2> QED BY <1>6, <2>1, <2>3
<1> QED BY <1>3, <1>4, <1>5, <1>6

LEMMA SextetNoPad == ASSUME NEW c, IsSextet(c) PROVE c # Pad
BY DEF IsSextet, Pad

\* The parts of a text that counts as whole.
LEMMA WholeParts ==
  ASSUME NEW x \in Seq(Octet), NEW n \in Nat, n % 4 # 1, n <= Len(x)
  PROVE  /\ Whole(x, n) \in Seq(Octet) /\ Len(Whole(x, n)) = EncodedLen((6 * n) \div 8)
         /\ \A i \in 1..EncodedLen((6 * n) \div 8) : Whole(x, n)[i] = IF i <= n THEN x[i] ELSE Pad
         /\ SubSeq(Whole(x, n), 1, n) = [i \in 1..n |-> x[i]]
<1> DEFINE e == EncodedLen((6 * n) \div 8)
           w == Whole(x, n)
<1>0. e = EncodedLen((6 * n) \div 8)
  OBVIOUS
<1>1. e \in Nat /\ n <= e
  <2> HIDE DEF e
  <2>1. /\ e \in Nat
        /\ (n % 4 = 0 => e = n) /\ (n % 4 = 2 => e = n + 2) /\ (n % 4 = 3 => e = n + 1)
        /\ n % 4 = 0 \/ n % 4 = 2 \/ n % 4 = 3
    BY <1>0, WholeLength
  <2> QED BY <2>1
<1>2. w = [i \in 1..e |-> IF i <= n THEN x[i] ELSE Pad]
  BY Zenon DEF Whole
<1> HIDE DEF e, w
<1>3. \A i \in 1..e : w[i] = IF i <= n THEN x[i] ELSE Pad
  BY <1>2
<1>4. \A i \in 1..e : w[i] \in Octet
  <2>1. \A i \in 1..n : i \in 1..Len(x)
    OBVIOUS
  <2>2. \A i \in 1..n : x[i] \in Octet
    BY <2>1, ElementOfSeq
  <2>3. Pad \in Octet
    BY DEF Pad, Octet
  <2>4. \A i \in 1..e : i <= n => i \in 1..n
    BY <1>1
  <2> QED BY <1>3, <2>2, <2>3, <2>4, Zenon
<1>5. w = [i \in 1..e |-> w[i]]
  BY <1>2
<1>6. w \in Seq(Octet) /\ Len(w) = e
  BY <1>1, <1>4, <1>5
<1>7. SubSeq(w, 1, n) = [i \in 1..n |-> x[i]]
  <2>1. SubSeq(w, 1, n) = [i \in 1..n |-> w[i]]
    BY <1>1, <1>6
  <2>2. \A i \in 1..n : w[i] = x[i]
    BY <1>1, <1>3
  <2> QED BY <2>1, <2>2, Zenon
<1> QED BY <1>3, <1>6, <1>7 DEF e, w

\* The checks before the loop pass exactly the texts that are whole.
LEMMA ShapesWhole ==
  ASSUME NEW x \in Seq(Octet), NEW L \in Nat, Len(x) = L, NEW n, n = L - Padding(x),
         Shape(x), \A i \in 1..n : IsSextet(x[i])
  PROVE  /\ n \in Nat /\ Canonical(x, n)
         /\ Cardinality({i \in DOMAIN x : x[i] # Pad}) = n
<1> DEFINE p == Padding(x)
           e == EncodedLen((6 * n) \div 8)
<1>1. PadOf(x, L, p)
  BY PaddingMeans
<1>2. /\ n > 0 => x[n] # Pad
      /\ p > 0 => (n + p) % 4 = 0
      /\ n % 4 # 1
      /\ p = 1 => n % 4 = 3
      /\ p = 2 => n % 4 = 2
  BY Zenon DEF Shape
<1> HIDE DEF p
<1>3. p \in {0, 1, 2} /\ p <= L /\ n = L - p /\ \A i \in L - p + 1..L : x[i] = Pad
  BY <1>1 DEF PadOf, p
<1>4. n \in Nat /\ n <= L
  BY <1>3
<1>5. {i \in DOMAIN x : x[i] # Pad} = 1..n
  <2>1. DOMAIN x = 1..L
    OBVIOUS
  <2>2. \A i \in 1..n : x[i] # Pad
    BY SextetNoPad
  <2>3. \A i \in 1..L : i \in 1..n \/ i \in L - p + 1..L
    BY <1>3, <1>4
  <2> QED BY <1>3, <1>4, <2>1, <2>2, <2>3
<1>6. Cardinality({i \in DOMAIN x : x[i] # Pad}) = n
  <2>1. Cardinality(1..n) = n
    BY <1>4, FS_Interval
  <2> QED BY <1>5, <2>1, Zenon
<1>7. /\ Whole(x, n) \in Seq(Octet) /\ Len(Whole(x, n)) = e
      /\ \A i \in 1..e : Whole(x, n)[i] = IF i <= n THEN x[i] ELSE Pad
      /\ SubSeq(Whole(x, n), 1, n) = [i \in 1..n |-> x[i]]
  BY <1>2, <1>4, WholeParts
<1>8. x \in {Whole(x, n), SubSeq(Whole(x, n), 1, n)}
  <2>1. CASE p = 0
    <3>1. x = [i \in 1..n |-> x[i]]
      BY <1>3, <2>1
    <3> QED BY <1>7, <3>1, Zenon
  <2>2. CASE p # 0
    <3>0. e = EncodedLen((6 * n) \div 8)
      OBVIOUS
    <3>1. e = L
      <4> HIDE DEF e
      <4>1. (n % 4 = 2 => e = n + 2) /\ (n % 4 = 3 => e = n + 1)
        BY <1>2, <1>4, <3>0, WholeLength
      <4> QED BY <1>2, <1>3, <1>4, <2>2, <4>1
    <3> HIDE DEF e
    <3>2. ASSUME NEW i \in 1..L PROVE x[i] = Whole(x, n)[i]
      <4>1. ~(i <= n) => x[i] = Pad
        BY <1>3, <1>4
      <4> QED BY <1>7, <3>1, <4>1, Zenon
    <3>3. x = Whole(x, n)
      BY <1>7, <3>1, <3>2, SeqEqual
    <3> QED BY <3>3, Zenon
  <2> QED BY <2>1, <2>2
<1> QED BY <1>2, <1>4, <1>6, <1>8, Zenon DEF Canonical

LEMMA WholeShapes ==
  ASSUME NEW x \in Seq(Octet), NEW L \in Nat, Len(x) = L, NEW n \in Nat, n <= L, Canonical(x, n)
  PROVE  Shape(x) /\ L - Padding(x) = n
<1> DEFINE e == EncodedLen((6 * n) \div 8)
<1>0. n % 4 # 1 /\ (\A i \in 1..n : IsSextet(x[i])) /\ x \in {Whole(x, n), SubSeq(Whole(x, n), 1, n)}
  BY Zenon DEF Canonical
<1>1. /\ Len(Whole(x, n)) = e /\ \A i \in 1..e : Whole(x, n)[i] = IF i <= n THEN x[i] ELSE Pad
      /\ SubSeq(Whole(x, n), 1, n) = [i \in 1..n |-> x[i]]
  BY <1>0, WholeParts
<1>2. \A i \in 1..n : x[i] # Pad
  BY <1>0, SextetNoPad
<1>3. /\ n % 4 = 0 => e = n
      /\ n % 4 = 2 => e = n + 2
      /\ n % 4 = 3 => e = n + 1
      /\ n % 4 = 0 \/ n % 4 = 2 \/ n % 4 = 3
  BY <1>0, WholeLength
<1> HIDE DEF e
<1>4. (L = n \/ L = e) /\ (L # n => \A i \in n + 1..L : x[i] = Pad)
  <2>1. CASE x = Whole(x, n)
    BY <1>1, <1>3, <2>1
  <2>2. CASE x = SubSeq(Whole(x, n), 1, n)
    <3>1. x = [i \in 1..n |-> x[i]]
      BY <1>1, <2>2, Zenon
    <3>2. DOMAIN x = 1..n /\ DOMAIN x = 1..L
      BY <3>1
    <3>3. L = n
      BY <3>2
    <3> QED BY <3>3
  <2> QED BY <1>0, <2>1, <2>2, Zenon
<1>5. CASE L = n
  <2>1. PadOf(x, L, 0)
    BY <1>2, <1>5 DEF PadOf
  <2>2. Padding(x) = 0
    BY <2>1, PadIs
  <2> QED BY <1>0, <1>2, <1>5, <2>2 DEF Shape
<1>6. CASE L # n /\ n % 4 = 2
  <2>1. L = n + 2
    BY <1>3, <1>4, <1>6
  <2>2. PadOf(x, L, 2)
    BY <1>4, <2>1 DEF PadOf
  <2>3. Padding(x) = 2
    BY <2>2, PadIs
  <2> QED BY <1>2, <1>6, <2>1, <2>3 DEF Shape
<1>7. CASE L # n /\ n % 4 = 3
  <2>1. L = n + 1
    BY <1>3, <1>4, <1>7
  <2>2. PadOf(x, L, 1)
    BY <1>2, <1>4, <1>7, <2>1 DEF PadOf
  <2>3. Padding(x) = 1
    BY <2>2, PadIs
  <2> QED BY <1>2, <1>7, <2>1, <2>3 DEF Shape
<1> QED BY <1>3, <1>4, <1>5, <1>6, <1>7

-----------------------------------------------------------------------------
\* The bits that are left over are the last ones of the last sextet.
Spare(n) == (6 * n) % 8
Clean(x, n) == n > 0 => x[n] % 2 ^ Spare(n) = 0

LEMMA SpareIs ==
  ASSUME NEW n \in Nat, n % 4 # 1
  PROVE  /\ n % 4 = 0 => Spare(n) = 0
         /\ n % 4 = 2 => Spare(n) = 4
         /\ n % 4 = 3 => Spare(n) = 2
         /\ n % 4 = 0 \/ n % 4 = 2 \/ n % 4 = 3
BY DEF Spare

LEMMA LeftOver ==
  ASSUME NEW x, NEW n, Sextets(x, n), n % 4 # 1
  PROVE  (Held(x, n, n) % 2 ^ Spare(n) = 0) <=> Clean(x, n)
<1>0. n \in Nat
  BY DEF Sextets
<1>1. CASE n = 0
  <2>1. Held(x, n, n) = 0 /\ Spare(n) = 0 /\ ~(n > 0)
    BY <1>1 DEF Held, Spare
  <2>2. 0 % 2 ^ 0 = 0
    BY Powers64
  <2> QED BY <2>1, <2>2, Zenon DEF Clean
<1>2. CASE n # 0
  <2>0. \A j : Sextet(x, n, j) \in 0..63
    BY SextetRange
  <2>1. PICK a \in 0..63, b \in 0..63, c \in 0..63 :
          a = Sextet(x, n, n - 2) /\ b = Sextet(x, n, n - 1) /\ c = Sextet(x, n, n)
    BY <2>0
  <2>2. PICK h \in Nat : h = Held(x, n, n) /\ h = (a % 4) * 4096 + b * 64 + c
    BY <1>2, <2>1, SMT DEF Held
  <2>3. c = x[n]
    BY <1>0, <1>2, <2>1 DEF Sextet
  <2>4. h % 1 = c % 1 /\ h % 4 = c % 4 /\ h % 16 = c % 16
    BY <2>2, SMT
  <2>5. h % 2 ^ 0 = c % 2 ^ 0 /\ h % 2 ^ 2 = c % 2 ^ 2 /\ h % 2 ^ 4 = c % 2 ^ 4
    BY <2>4, Powers64, SMT
  <2>6. Spare(n) = 0 \/ Spare(n) = 2 \/ Spare(n) = 4
    BY <1>0, SpareIs
  <2>7. h % 2 ^ Spare(n) = c % 2 ^ Spare(n)
    BY <2>5, <2>6, Zenon
  <2>8. n > 0 /\ h = Held(x, n, n)
    BY <1>0, <1>2, <2>2, SMT
  <2> QED BY <2>3, <2>7, <2>8, Zenon DEF Clean
<1> QED BY <1>1, <1>2

\* Three bytes and the four sextets they came from.
Returns(t, a, b, c, d) ==
  /\ (t \div 64 ^ 3) % 64 = a /\ (t \div 64 ^ 2) % 64 = b
  /\ (t \div 64 ^ 1) % 64 = c /\ (t \div 64 ^ 0) % 64 = d

LEMMA TripleBack ==
  ASSUME NEW a \in 0..63, NEW b \in 0..63, NEW c \in 0..63, NEW d \in 0..63,
         NEW t, t = Triple(a * 4 + b \div 16, (b % 16) * 16 + c \div 4, (c % 4) * 64 + d)
  PROVE  Returns(t, a, b, c, d)
<1>1. t = a * 262144 + b * 4096 + c * 64 + d
  BY SMT DEF Triple
<1>2. t \div 262144 = a /\ a % 64 = a
  BY <1>1, SMT
<1>3. t \div 4096 = a * 64 + b /\ (a * 64 + b) % 64 = b
  BY <1>1, SMT
<1>4. t \div 64 = a * 4096 + b * 64 + c /\ (a * 4096 + b * 64 + c) % 64 = c
  BY <1>1, SMT
<1>5. t \div 1 = t /\ t % 64 = d
  BY <1>1, SMT
<1> QED BY <1>2, <1>3, <1>4, <1>5, Powers64, SMT DEF Returns

\* Beyond the last byte there is nothing left to write.
LEMMA NothingMore ==
  ASSUME NEW x, NEW n, Sextets(x, n), n % 4 # 1, Clean(x, n),
         NEW k \in Nat, 4 * k < n, NEW m \in 3 * k + 1..3 * k + 3, m > (6 * n) \div 8
  PROVE  ByteFrom(x, n, m) = 0
<1> DEFINE v(j) == Sextet(x, n, 4 * k + j)
<1>0. n \in Nat /\ m \in Nat
  BY DEF Sextets
<1>1. \A j : v(j) \in 0..63
  BY SextetRange
<1>2. /\ n % 4 = 0 => FALSE
      /\ n % 4 = 2 => n = 4 * k + 2 /\ m # 3 * k + 1
      /\ n % 4 = 3 => n = 4 * k + 3 /\ m = 3 * k + 3
      /\ n % 4 = 0 \/ n % 4 = 2 \/ n % 4 = 3
  <2>1. CASE n % 4 = 0
    <3>1. PICK q \in Nat : n = 4 * q
      BY <1>0, <2>1
    <3>2. (6 * n) \div 8 = 3 * q /\ k < q
      BY <3>1
    <3> QED BY <3>1, <3>2
  <2>2. CASE n % 4 = 2
    <3>1. PICK q \in Nat : n = 4 * q + 2
      BY <1>0, <2>2
    <3>2. (6 * n) \div 8 = 3 * q + 1 /\ k <= q
      BY <3>1
    <3> QED BY <2>2, <3>1, <3>2
  <2>3. CASE n % 4 = 3
    <3>1. PICK q \in Nat : n = 4 * q + 3
      BY <1>0, <2>3
    <3>2. (6 * n) \div 8 = 3 * q + 2 /\ k <= q
      BY <3>1
    <3> QED BY <2>3, <3>1, <3>2
  <2> QED BY <1>0, <2>1, <2>2, <2>3
<1>3. k = (m - 1) \div 3
  BY <1>0
<1>4. /\ m % 3 = 1 => ByteFrom(x, n, m) = v(1) * 4 + v(2) \div 16
      /\ m % 3 = 2 => ByteFrom(x, n, m) = (v(2) % 16) * 16 + v(3) \div 4
      /\ m % 3 = 0 => ByteFrom(x, n, m) = (v(3) % 4) * 64 + v(4)
  <2>1. ASSUME m % 3 = 1 PROVE ByteFrom(x, n, m) = v(1) * 4 + v(2) \div 16
    BY <1>3, <2>1, ByteCases, ZenonT(60)
  <2>2. ASSUME m % 3 = 2 PROVE ByteFrom(x, n, m) = (v(2) % 16) * 16 + v(3) \div 4
    BY <1>3, <2>2, ByteCases, ZenonT(60)
  <2>3. ASSUME m % 3 = 0 PROVE ByteFrom(x, n, m) = (v(3) % 4) * 64 + v(4)
    BY <1>3, <2>3, ByteCases, ZenonT(60)
  <2> HIDE DEF v
  <2> QED BY <2>1, <2>2, <2>3, Zenon
<1>5. CASE n % 4 = 2
  <2>1. v(2) = x[n] /\ v(3) = 0 /\ v(4) = 0 /\ n > 0
    BY <1>0, <1>2, <1>5 DEF Sextet
  <2>2. x[n] % 16 = 0
    <3>1. Spare(n) = 4
      BY <1>0, <1>5, SpareIs
    <3>2. x[n] % 2 ^ 4 = 0
      BY <2>1, <3>1, Zenon DEF Clean
    <3> QED BY <3>2, Powers64, SMT
  <2>3. m % 3 = 2 \/ m % 3 = 0
    BY <1>0, <1>2, <1>5
  <2> HIDE DEF v
  <2> QED BY <1>4, <2>1, <2>2, <2>3
<1>6. CASE n % 4 = 3
  <2>1. v(3) = x[n] /\ v(4) = 0 /\ n > 0
    BY <1>0, <1>2, <1>6 DEF Sextet
  <2>2. x[n] % 4 = 0
    <3>1. Spare(n) = 2
      BY <1>0, <1>6, SpareIs
    <3>2. x[n] % 2 ^ 2 = 0
      BY <2>1, <3>1, Zenon DEF Clean
    <3> QED BY <3>2, Powers64, SMT
  <2>3. m % 3 = 0
    BY <1>0, <1>2, <1>6
  <2> HIDE DEF v
  <2> QED BY <1>4, <2>1, <2>2, <2>3
<1> QED BY <1>2, <1>5, <1>6

\* tamga_base64_encode gives the text again that the bytes were read from.
LEMMA EncodesBack ==
  ASSUME NEW x, NEW n, Sextets(x, n), n % 4 # 1, Clean(x, n)
  PROVE  Encode([m \in 1..(6 * n) \div 8 |-> ByteFrom(x, n, m)]) = Whole(x, n)
<1> DEFINE u == (6 * n) \div 8
           e == EncodedLen(u)
           B == [m \in 1..u |-> ByteFrom(x, n, m)]
           y(m) == IF m <= u THEN B[m] ELSE 0
           K(i) == (i - 1) \div 4
           J(i) == (i - 1) % 4
           t(k) == Triple(y(3 * k + 1), y(3 * k + 2), y(3 * k + 3))
           char(i) == IF 3 * K(i) + J(i) > u THEN Pad ELSE (t(K(i)) \div 64 ^ (3 - J(i))) % 64
<1> HIDE DEF e, B, y, K, J, t, char
<1>0. n \in Nat /\ u \in Nat
  BY DEF Sextets
<1>1. Len(B) = u
  <2> DEFINE F(m) == ByteFrom(x, n, m)
  <2> HIDE DEF F, u
  <2>1. Len([m \in 1..u |-> F(m)]) = u
    BY <1>0
  <2> QED BY <2>1, Zenon DEF F, B
<1>2. Encode(B) = [i \in 1..e |-> char(i)]
  <2> HIDE DEF u
  <2> QED BY <1>1, Zenon DEF Encode, e, char, t, K, J, y
<1>3. /\ n % 4 = 0 => e = n
      /\ n % 4 = 2 => e = n + 2
      /\ n % 4 = 3 => e = n + 1
      /\ n % 4 = 0 \/ n % 4 = 2 \/ n % 4 = 3
  BY <1>0, WholeLength DEF e
<1>4. ASSUME NEW i \in 1..e PROVE char(i) = IF i <= n THEN x[i] ELSE Pad
  <2>1. PICK k \in Nat, j \in 0..3 : k = K(i) /\ j = J(i) /\ i = 4 * k + j + 1
    <3>1. i \in Nat \ {0}
      BY <1>0, <1>3
    <3>2. K(i) \in Nat /\ J(i) \in 0..3 /\ i = 4 * K(i) + J(i) + 1
      BY <3>1 DEF K, J
    <3> QED BY <3>2, Zenon
  <2>2. char(i) = IF 3 * k + j > u THEN Pad ELSE (t(k) \div 64 ^ (3 - j)) % 64
    <3> HIDE DEF u
    <3> QED BY <2>1, Zenon DEF char
  <2>3. 4 * k < n /\ (3 * k + j > u <=> ~(i <= n))
    <3>1. CASE n % 4 = 0
      <4>1. PICK q \in Nat : n = 4 * q
        BY <1>0, <3>1
      <4>2. u = 3 * q /\ e = 4 * q /\ i \in 1..4 * q
        BY <1>3, <3>1, <4>1
      <4> HIDE DEF u
      <4> QED BY <2>1, <4>1, <4>2
    <3>2. CASE n % 4 = 2
      <4>1. PICK q \in Nat : n = 4 * q + 2
        BY <1>0, <3>2
      <4>2. u = 3 * q + 1 /\ e = 4 * q + 4 /\ i \in 1..4 * q + 4
        BY <1>3, <3>2, <4>1
      <4> HIDE DEF u
      <4> QED BY <2>1, <4>1, <4>2
    <3>3. CASE n % 4 = 3
      <4>1. PICK q \in Nat : n = 4 * q + 3
        BY <1>0, <3>3
      <4>2. u = 3 * q + 2 /\ e = 4 * q + 4 /\ i \in 1..4 * q + 4
        BY <1>3, <3>3, <4>1
      <4> HIDE DEF u
      <4> QED BY <2>1, <4>1, <4>2
    <3> QED BY <1>3, <3>1, <3>2, <3>3
  <2>4. CASE ~(i <= n)
    <3> HIDE DEF u
    <3> QED BY <2>2, <2>3, <2>4, Zenon
  <2>5. CASE i <= n
    <3> DEFINE v(h) == Sextet(x, n, 4 * k + h)
    <3>1. ASSUME NEW m \in 3 * k + 1..3 * k + 3 PROVE y(m) = ByteFrom(x, n, m)
      <4>1. CASE m <= u
        <5>1. m \in 1..u
          BY <4>1
        <5> HIDE DEF u
        <5> QED BY <4>1, <5>1, Zenon DEF y, B
      <4>2. CASE ~(m <= u)
        <5>1. m > u
          BY <1>0, <4>2
        <5>2. ByteFrom(x, n, m) = 0
          BY <2>3, <5>1, NothingMore
        <5> HIDE DEF u
        <5> QED BY <4>2, <5>2, Zenon DEF y
      <4> QED BY <4>1, <4>2
    <3>2. \A h : v(h) \in 0..63
      BY SextetRange
    <3>3. PICK a \in 0..63, b \in 0..63, c \in 0..63, d \in 0..63 : a = v(1) /\ b = v(2) /\ c = v(3) /\ d = v(4)
      BY <3>2
    <3> HIDE DEF u
    <3>4. /\ y(3 * k + 1) = a * 4 + b \div 16 /\ y(3 * k + 2) = (b % 16) * 16 + c \div 4
          /\ y(3 * k + 3) = (c % 4) * 64 + d
      <4>1. {3 * k + 1, 3 * k + 2, 3 * k + 3} \subseteq 3 * k + 1..3 * k + 3
        OBVIOUS
      <4>2. /\ ByteFrom(x, n, 3 * k + 1) = v(1) * 4 + v(2) \div 16
            /\ ByteFrom(x, n, 3 * k + 2) = (v(2) % 16) * 16 + v(3) \div 4
            /\ ByteFrom(x, n, 3 * k + 3) = (v(3) % 4) * 64 + v(4)
        BY GroupBytes
      <4> HIDE DEF v
      <4> QED BY <3>1, <3>3, <4>1, <4>2
    <3>5. t(k) = Triple(a * 4 + b \div 16, (b % 16) * 16 + c \div 4, (c % 4) * 64 + d)
      BY <3>4, Zenon DEF t
    <3>6. Returns(t(k), a, b, c, d)
      BY <3>5, TripleBack
    <3>7. x[i] = v(j + 1)
      <4>1. 4 * k + (j + 1) = i /\ i \in 1..n
        BY <1>0, <1>3, <2>1, <2>5
      <4> QED BY <4>1, Zenon DEF Sextet
    <3> HIDE DEF v
    <3>8. (t(k) \div 64 ^ (3 - j)) % 64 = x[i]
      <4>1. j = 0 \/ j = 1 \/ j = 2 \/ j = 3
        OBVIOUS
      <4>2. CASE j = 0
        <5>1. 3 - j = 3 /\ j + 1 = 1
          BY <4>2
        <5> QED BY <3>3, <3>6, <3>7, <5>1, Zenon DEF Returns
      <4>3. CASE j = 1
        <5>1. 3 - j = 2 /\ j + 1 = 2
          BY <4>3
        <5> QED BY <3>3, <3>6, <3>7, <5>1, Zenon DEF Returns
      <4>4. CASE j = 2
        <5>1. 3 - j = 1 /\ j + 1 = 3
          BY <4>4
        <5> QED BY <3>3, <3>6, <3>7, <5>1, Zenon DEF Returns
      <4>5. CASE j = 3
        <5>1. 3 - j = 0 /\ j + 1 = 4
          BY <4>5
        <5> QED BY <3>3, <3>6, <3>7, <5>1, Zenon DEF Returns
      <4> QED BY <4>1, <4>2, <4>3, <4>4, <4>5
    <3> QED BY <2>2, <2>3, <2>5, <3>8, Zenon
  <2> QED BY <2>4, <2>5
<1>5. [i \in 1..e |-> char(i)] = [i \in 1..e |-> IF i <= n THEN x[i] ELSE Pad]
  BY <1>4, Zenon
<1> QED BY <1>2, <1>5, Zenon DEF Whole, B, e


Base64Right(x) ==
  LET n == Cardinality({i \in DOMAIN x : x[i] # Pad})
      spare == (6 * n) % 8
      padded == [i \in 1..EncodedLen((6 * n) \div 8) |-> IF i <= n THEN x[i] ELSE Pad]
      read == Decode(x)
  IN /\ read.ok = /\ n % 4 # 1 /\ \A i \in 1..n : IsSextet(x[i])
                  /\ x \in {padded, SubSeq(padded, 1, n)}
                  /\ n > 0 => x[n] % 2 ^ spare = 0
     /\ read.ok => /\ Len(read.bytes) <= DecodedCap(Len(x))
                   /\ Encode(read.bytes) = padded

\* tamga_base64_decode reads exactly the canonical texts, and what it read is
\* written as the same text.
LEMMA Base64Agrees == ASSUME NEW x \in Seq(Octet) PROVE Base64Right(x)
<1> DEFINE N == {i \in DOMAIN x : x[i] # Pad}
           n == Cardinality(N)
           L == Len(x)
           body == L - Padding(x)
           done == Loop(x, body)
           fits == Shape(x) /\ \A i \in 1..body : IsSextet(x[i])
           good == Canonical(x, n) /\ Clean(x, n)
           read == Decode(x)
<1>0. L \in Nat /\ Len(x) = L /\ DOMAIN x = 1..L
  OBVIOUS
<1>1. n \in Nat /\ n <= L
  <2>1. IsFiniteSet(1..L) /\ Cardinality(1..L) = L
    BY <1>0, FS_Interval
  <2>2. N \subseteq 1..L
    BY <1>0
  <2> HIDE DEF N, L
  <2>3. IsFiniteSet(N) /\ Cardinality(N) <= L
    BY <2>1, <2>2, FS_Subset
  <2> QED BY <2>3, FS_CardinalityType
<1>2. read = IF ~Shape(x) \/ (\E i \in 1..body : ~IsSextet(x[i])) THEN Refused
             ELSE IF done.accum % 2 ^ done.bits # 0 THEN Refused ELSE [ok |-> TRUE, bytes |-> done.out]
  BY Zenon DEF Decode
<1>3. Base64Right(x) <=> /\ read.ok = good
                         /\ read.ok => /\ Len(read.bytes) <= DecodedCap(L)
                                       /\ Encode(read.bytes) = Whole(x, n)
  <2> DEFINE w == [i \in 1..EncodedLen((6 * n) \div 8) |-> IF i <= n THEN x[i] ELSE Pad]
             all == n % 4 # 1 /\ \A i \in 1..n : IsSextet(x[i])
             some == x \in {w, SubSeq(w, 1, n)}
             clean == n > 0 => x[n] % 2 ^ ((6 * n) % 8) = 0
  <2>1. Base64Right(x) <=> /\ read.ok = (all /\ some /\ clean)
                           /\ read.ok => Len(read.bytes) <= DecodedCap(L) /\ Encode(read.bytes) = w
    BY Zenon DEF Base64Right
  <2>2. w = Whole(x, n)
    BY Zenon DEF Whole
  <2> HIDE DEF w, n
  <2>3. (all /\ some /\ clean) = good
    BY <2>2, Zenon DEF Canonical, Clean, Spare
  <2> HIDE DEF all, some, clean, good, read
  <2> QED BY <2>1, <2>2, <2>3, Zenon
<1> HIDE DEF N, n, L, read, Base64Right
<1>4. Refused.ok = FALSE
  BY DEF Refused
<1>5. CASE ~fits
  <2>1. read.ok = FALSE
    <3> HIDE DEF body, done
    <3> QED BY <1>2, <1>4, <1>5, Zenon
  <2>2. ~good
    <3>1. ASSUME Canonical(x, n) PROVE fits
      <4>1. Shape(x) /\ body = n
        BY <1>0, <1>1, <3>1, WholeShapes
      <4> HIDE DEF body
      <4> QED BY <3>1, <4>1, Zenon DEF Canonical
    <3> HIDE DEF fits
    <3> QED BY <1>5, <3>1, Zenon
  <2>3. good = FALSE
    BY <2>2, Zenon
  <2> HIDE DEF good
  <2> QED BY <1>3, <2>1, <2>3, Zenon
<1>6. CASE fits
  <2>1. body \in Nat /\ Canonical(x, body) /\ n = body
    BY <1>0, <1>6, ShapesWhole DEF n, N
  <2>2. done = Loop(x, n)
    BY <2>1, Zenon
  <2>3. read = IF done.accum % 2 ^ done.bits # 0 THEN Refused ELSE [ok |-> TRUE, bytes |-> done.out]
    <3> HIDE DEF done, body
    <3> QED BY <1>2, <1>6, Zenon
  <2>4. Canonical(x, n)
    BY <2>1, Zenon
  <2> HIDE DEF done, body
  <2>5. Sextets(x, n) /\ n % 4 # 1
    BY <1>1, <2>4 DEF Canonical, Sextets, IsSextet
  <2> DEFINE B == [m \in 1..(6 * n) \div 8 |-> ByteFrom(x, n, m)]
  <2>6. done = [accum |-> Held(x, n, n), bits |-> (6 * n) % 8, out |-> B]
    BY <2>2, <2>5, LoopLeaves, Zenon DEF State64
  <2>7. Len(B) = (6 * n) \div 8
    <3> DEFINE F(m) == ByteFrom(x, n, m)
               u == (6 * n) \div 8
    <3>1. u \in Nat
      BY <1>1
    <3> HIDE DEF F, u
    <3>2. Len([m \in 1..u |-> F(m)]) = u
      BY <3>1
    <3> QED BY <3>2, Zenon DEF F, u
  <2> HIDE DEF B
  <2>8. done.accum = Held(x, n, n) /\ done.bits = Spare(n) /\ done.out = B
    BY <2>6 DEF Spare
  <2>9. (done.accum % 2 ^ done.bits = 0) <=> Clean(x, n)
    BY <2>5, <2>8, LeftOver, Zenon
  <2>10. CASE ~Clean(x, n)
    <3>1. read = Refused
      BY <2>3, <2>9, <2>10, Zenon
    <3> QED BY <1>3, <1>4, <2>10, <3>1, Zenon
  <2>11. CASE Clean(x, n)
    <3>1. read = [ok |-> TRUE, bytes |-> B]
      BY <2>3, <2>8, <2>9, <2>11, Zenon
    <3>2. read.ok = TRUE /\ read.bytes = B
      BY <3>1
    <3>3. Encode(B) = Whole(x, n)
      BY <2>5, <2>11, EncodesBack, Zenon DEF B
    <3>4. Len(B) <= DecodedCap(L)
      BY <1>0, <1>1, <2>7 DEF DecodedCap
    <3> QED BY <1>3, <2>4, <2>11, <3>2, <3>3, <3>4, Zenon
  <2> QED BY <2>10, <2>11
<1> QED BY <1>5, <1>6

-----------------------------------------------------------------------------
(* The theorems.                                                             *)

\* What is under way is an input of its kind.
Inputs ==
  /\ kind = "utf8" => in \in Seq(Octet)
  /\ kind = "number" => in \in Seq(STRING)
  /\ kind = "string" => in \in Seq(StringClasses)
  /\ kind = "stamp" => in \in Stamps
  /\ kind = "double" => in \in Nat
  /\ kind = "base64" => in \in Seq(Octet)
  /\ kind = "fingerprint" => in \in Seq([label : Seq(Octet), value : Seq(Octet)])
  /\ kind = "uuid" => in \in Seq(STRING)

LEMMA Grows ==
  ASSUME NEW k, NEW pieces, NEW max, NEW S, pieces \subseteq S, in \in Seq(S),
         Extend(k, pieces, max)
  PROVE  in' \in Seq(S)
<1>1. PICK c \in S : in' = Append(in, c)
  BY DEF Extend
<1> QED BY <1>1, AppendProperties

\* A spelling with a character wrong or missing is a text still.
LEMMA OneWrong ==
  ASSUME NEW S, NEW s \in Seq(S), NEW i \in 1..Len(s)
  PROVE  /\ \A c \in S : [s EXCEPT ![i] = c] \in Seq(S)
         /\ SubSeq(s, 1, i - 1) \o SubSeq(s, i + 1, Len(s)) \in Seq(S)
<1>1. \A c \in S : [s EXCEPT ![i] = c] \in Seq(S)
  BY ExceptSeq
<1>2. Len(s) \in Nat /\ \A k \in 1..Len(s) : s[k] \in S
  BY LenProperties
<1>3. SubSeq(s, 1, i - 1) \in Seq(S)
  <2>1. 1 \in Int /\ i - 1 \in Int /\ \A k \in 1..i - 1 : s[k] \in S
    BY <1>2
  <2> QED BY <2>1, SubSeqProperties
<1>4. SubSeq(s, i + 1, Len(s)) \in Seq(S)
  <2>1. i + 1 \in Int /\ Len(s) \in Int /\ \A k \in i + 1..Len(s) : s[k] \in S
    BY <1>2
  <2> QED BY <2>1, SubSeqProperties
<1> QED BY <1>1, <1>3, <1>4, ConcatProperties

LEMMA InputsAlways == Spec => []Inputs
<1>1. Init => Inputs
  BY DEF Init, Inputs
<1>2. Inputs /\ [Next]_vars => Inputs'
  <2> SUFFICES ASSUME Inputs, [Next]_vars PROVE Inputs'
    OBVIOUS
  <2> USE DEF Inputs
  <2>1. CASE Utf8Bytes
    <3>1. CASE Start("utf8", {<<>>})
      BY <3>1 DEF Start
    <3>2. CASE Extend("utf8", Bytes, 4)
      <4>1. kind = "utf8" /\ kind' = "utf8" /\ in \in Seq(Octet)
        BY <3>2 DEF Extend
      <4>2. in' \in Seq(Octet)
        BY <3>2, <4>1, Grows, CodecsAssumption DEF Octet
      <4> QED BY <4>1, <4>2
    <3> QED BY <2>1, <3>1, <3>2 DEF Utf8Bytes
  <2>2. CASE NumberText
    <3>1. CASE Start("number", {<<>>})
      BY <3>1 DEF Start
    <3>2. CASE Extend("number", NumberChars, MaxNumber)
      <4>1. kind = "number" /\ kind' = "number" /\ in \in Seq(STRING)
        BY <3>2 DEF Extend
      <4>2. in' \in Seq(STRING)
        BY <3>2, <4>1, Grows, CodecsAssumption
      <4> QED BY <4>1, <4>2
    <3> QED BY <2>2, <3>1, <3>2 DEF NumberText
  <2>3. CASE StringText
    <3>1. CASE Start("string", {<<"quote">>})
      <4>1. kind' = "string" /\ in' = <<"quote">>
        BY <3>1 DEF Start
      <4>2. "quote" \in StringClasses
        BY Zenon DEF StringClasses
      <4> QED BY <4>1, <4>2
    <3>2. CASE Extend("string", StringChars, MaxString)
      <4>1. kind = "string" /\ kind' = "string" /\ in \in Seq(StringClasses)
        BY <3>2 DEF Extend
      <4>2. in' \in Seq(StringClasses)
        BY <3>2, <4>1, Grows, CodecsAssumption
      <4> QED BY <4>1, <4>2
    <3> QED BY <2>3, <3>1, <3>2 DEF StringText
  <2>4. CASE StampText
    BY <2>4 DEF StampText, Start
  <2>5. CASE DoubleText
    BY <2>5, CodecsAssumption DEF DoubleText, Start
  <2>6. CASE Base64Chars
    <3>1. CASE Start("base64", {<<>>})
      BY <3>1 DEF Start
    <3>2. CASE Extend("base64", Chars64, MaxChars64)
      <4>1. kind = "base64" /\ kind' = "base64" /\ in \in Seq(Octet)
        BY <3>2 DEF Extend
      <4>2. in' \in Seq(Octet)
        BY <3>2, <4>1, Grows, CodecsAssumption, ZenonT(60) DEF Octet
      <4> QED BY <4>1, <4>2
    <3> QED BY <2>6, <3>1, <3>2 DEF Base64Chars
  <2>7. CASE Components
    <3> DEFINE C == [label : Seq(Octet), value : Seq(Octet)]
    <3>1. CASE Start("fingerprint", {<<>>})
      BY <3>1 DEF Start
    <3>2. CASE Extend("fingerprint", [label : Labels, value : Values], MaxComponents)
      <4>1. kind = "fingerprint" /\ kind' = "fingerprint" /\ in \in Seq(C)
        BY <3>2 DEF Extend
      <4>2. [label : Labels, value : Values] \subseteq C
        BY CodecsAssumption DEF Octet
      <4> HIDE DEF C
      <4>3. in' \in Seq(C)
        BY <3>2, <4>1, <4>2, Grows
      <4> QED BY <4>1, <4>3 DEF C
    <3> QED BY <2>7, <3>1, <3>2 DEF Components
  <2>8. CASE UuidText
    <3>1. CASE Start("uuid", Spellings)
      BY <3>1, CodecsAssumption DEF Start
    <3>2. CASE /\ kind = "uuid" /\ in \in Spellings /\ UNCHANGED kind
               /\ \E i \in 1..Len(in) :
                    \/ \E c \in Wrong : in' = [in EXCEPT ![i] = c]
                    \/ in' = SubSeq(in, 1, i - 1) \o SubSeq(in, i + 1, Len(in))
      <4>1. kind' = "uuid" /\ in \in Seq(STRING)
        BY <3>2
      <4>2. in' \in Seq(STRING)
        <5>1. PICK i \in 1..Len(in) : \/ \E c \in Wrong : in' = [in EXCEPT ![i] = c]
                                     \/ in' = SubSeq(in, 1, i - 1) \o SubSeq(in, i + 1, Len(in))
          BY <3>2, Zenon
        <5>2. /\ \A c \in STRING : [in EXCEPT ![i] = c] \in Seq(STRING)
              /\ SubSeq(in, 1, i - 1) \o SubSeq(in, i + 1, Len(in)) \in Seq(STRING)
          BY <4>1, OneWrong, Zenon
        <5>3. \A c \in Wrong : c \in STRING
          BY CodecsAssumption, Zenon
        <5> QED BY <5>1, <5>2, <5>3, Zenon
      <4> QED BY <4>1, <4>2
    <3> QED BY <2>8, <3>1, <3>2 DEF UuidText
  <2>9. CASE Again
    BY <2>9 DEF Again
  <2>10. CASE UNCHANGED vars
    BY <2>10 DEF vars
  <2> QED BY <2>1, <2>2, <2>3, <2>4, <2>5, <2>6, <2>7, <2>8, <2>9, <2>10 DEF Next
<1> QED BY <1>1, <1>2, PTL DEF Spec

\* Bytes, texts and integers of any length and size: the JSON tokenizer reads
\* exactly the well-formed UTF-8 (tamga_utf8_sequence_len), strings with paired
\* surrogates (tamga_json_parse_string_into) and numbers short enough to be
\* copied (tamga_json_parse_number), tamga_utf8_encode gives back the bytes,
\* and tamga_json_as_int the integer, or the limit for the one just above it.
THEOREM TokensAreExact == Spec => []TokensExact
<1>1. Inputs => TokensExact
  <2> SUFFICES ASSUME Inputs PROVE TokensExact
    OBVIOUS
  <2>1. Utf8Exact
    BY Utf8IsRight DEF Inputs, Utf8Exact, Utf8Right
  <2>2. StringExact
    <3> SUFFICES ASSUME kind = "string", NEW s \in {in, Append(in, "quote")}
                 PROVE  (StringEnd(s) = Len(s) + 1) = Matches(s)
      BY Zenon DEF StringExact
    <3>1. in \in Seq(StringClasses) /\ "quote" \in StringClasses
      BY Zenon DEF Inputs, StringClasses
    <3>2. s \in Seq(StringClasses)
      BY <3>1, AppendProperties
    <3>3. StringEnd(s) = Len(s) + 1 <=> Matches(s)
      BY <3>2, StringsAgree
    <3>4. Matches(s) \in BOOLEAN
      BY Zenon DEF Matches
    <3> QED BY <3>3, <3>4, Zenon
  <2>3. NumberExact
    BY NumbersAgree, Zenon DEF Inputs, NumberExact
  <2>4. DoubleExact
    BY DoublesAgree, Zenon DEF Inputs, DoubleExact, DoubleRight
  <2> QED BY <2>1, <2>2, <2>3, <2>4 DEF TokensExact
<1> QED BY <1>1, InputsAlways, PTL

\* Texts of any length: tamga_base64_decode takes exactly the canonical texts,
\* never writes past tamga_base64_decoded_cap and is undone by
\* tamga_base64_encode; tamga_uuid_normalize gives one text for every spelling
\* of a UUID and none for anything else; and the canonical text that
\* tamga_fingerprint_build_canonical builds is made exactly of sound components of different
\* labels and can be taken apart into them again.
THEOREM TextsAreExact == Spec => []TextsExact
<1>1. Inputs => TextsExact
  <2> SUFFICES ASSUME Inputs PROVE TextsExact
    OBVIOUS
  <2>1. Base64Exact
    <3>1. kind = "base64" => Base64Right(in)
      BY Base64Agrees DEF Inputs
    <3> QED BY <3>1, Zenon DEF Base64Exact, Base64Right
  <2>2. UuidExact
    <3>1. kind = "uuid" => UuidRight(in)
      BY UuidsAgree DEF Inputs
    <3> QED BY <3>1, Zenon DEF UuidExact, UuidRight
  <2>3. FingerprintFaithful
    <3>1. kind = "fingerprint" => FingerprintRight(in)
      BY FingerprintsAgree DEF Inputs
    <3> QED BY <3>1, Zenon DEF FingerprintFaithful, FingerprintRight
  <2> QED BY <2>1, <2>2, <2>3, Zenon DEF TextsExact
<1> QED BY <1>1, InputsAlways, PTL

\* Stamps of any year: exactly the days of the calendar are accepted by
\* tamga_rfc3339_parse, tamga_days_from_civil numbers them one after the other
\* from 1970, and an offset moves the clock and not the instant.
THEOREM StampsAreExact == Spec => []StampsExact
<1>1. Inputs => StampsExact
  <2> SUFFICES ASSUME kind = "stamp", in \in Stamp
               PROVE  CalendarExact /\ InstantExact
    BY CodecsAssumption DEF Inputs, StampsExact, CalendarExact, InstantExact
  <2>1. CalendarExact
    <3>1. Accepted(in) <=> /\ Clock(in) /\ in.month \in 1..12
                           /\ in.day \in 1..MonthLength(in.year, in.month)
      BY DaysAccepted
    <3>2. ASSUME Accepted(in)
          PROVE  /\ Instant(NextDay(in)).day = Instant(in).day + 1
                 /\ in.year = 1970 /\ in.month = 1 => Instant(in).day = in.day - 1
      BY <3>2, Calendar
    <3> QED BY <3>1, <3>2, Zenon DEF CalendarExact
  <2>2. InstantExact
    BY TimeLine, Zenon DEF InstantExact
  <2> QED BY <2>1, <2>2
<1> QED BY <1>1, InputsAlways, PTL
=============================================================================
