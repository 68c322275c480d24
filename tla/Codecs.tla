------------------------------- MODULE Codecs -------------------------------
(***************************************************************************)
(* The text codecs against reference definitions, over every input that    *)
(* can be put together within the bounds.  An input grows by one piece at  *)
(* a time, so every prefix of an input is an input too.                    *)
(***************************************************************************)
EXTENDS Inputs, Lexical, Base64, Fingerprint, Rfc3339

\* Parse, Format and Failed are names of other things too.
U == INSTANCE Uuid

CONSTANTS
  Bytes,        \* bytes that UTF-8 sequences are made of
  Chars64, MaxChars64,        \* characters of base64 texts, and their number
  NumberChars, MaxNumber,     \* the same for numbers
  StringChars, MaxString,     \* and for strings
  Labels, Values, MaxComponents,  \* of fingerprint components
  Spellings,    \* UUIDs as they may be spelled
  Wrong,        \* characters a spelling may get by mistake
  Stamps,       \* RFC 3339 stamps
  MaxInteger    \* integral doubles up to here

\* The fields of a stamp, as its digits give them.
Stamp == [year : Nat, month : Nat, day : Nat, hour : Nat, minute : Nat,
          second : Nat, sign : {-1, 1}, offHour : Nat, offMinute : Nat,
          well : BOOLEAN, zone : BOOLEAN, point : BOOLEAN, fraction : BOOLEAN]

\* The classes of characters that strings are read by.
StringClasses == {"quote", "slash", "n", "u", "high", "low", "bmp", "control", "broken"}

ASSUME CodecsAssumption ==
  /\ Bytes \subseteq 0..255
  /\ NumberChars \subseteq STRING /\ StringChars \subseteq StringClasses
  /\ Stamps \subseteq Stamp /\ MaxInteger \in Nat
  /\ Chars64 \subseteq 0..255
  /\ Labels \subseteq Seq(0..255) /\ Values \subseteq Seq(0..255)
  /\ Spellings \subseteq Seq(STRING) /\ Wrong \subseteq STRING

\* A quoted string that can be completed.
Items == {<<c>> : c \in {"n", "u", "high", "low", "bmp"}}
           \cup {<<"slash", c>> : c \in {"n", "slash", "quote"}}
           \cup {<<"slash", "u", "bmp">>, <<"slash", "u", "high", "slash", "u", "low">>}
Matches(s) ==
  LET body[i \in 1..Len(s)] ==
        IF i = Len(s) THEN s[i] = "quote"
        ELSE \E item \in Items :
               /\ i + Len(item) <= Len(s) /\ SubSeq(s, i, i + Len(item) - 1) = item
               /\ body[i + Len(item)]
  IN Len(s) > 1 /\ s[1] = "quote" /\ body[2]
Tails == {<<>>, <<"n">>, <<"bmp">>, <<"low">>, <<"u", "low">>, <<"slash", "u", "low">>}
Hopeful(s) == \E t \in Tails : Matches(s \o t \o <<"quote">>)

Extend(k, pieces, max) ==
  kind = k /\ Len(in) < max /\ UNCHANGED kind /\ \E c \in pieces : in' = Append(in, c)

Utf8Bytes == Start("utf8", {<<>>}) \/ Extend("utf8", Bytes, 4)
Base64Chars == Start("base64", {<<>>}) \/ Extend("base64", Chars64, MaxChars64)
NumberText == Start("number", {<<>>}) \/ Extend("number", NumberChars, MaxNumber)
StringText ==
  \/ Start("string", {<<"quote">>})
  \/ kind = "string" /\ Hopeful(in) /\ Extend("string", StringChars, MaxString)
Components ==
  \/ Start("fingerprint", {<<>>})
  \/ Extend("fingerprint", [label : Labels, value : Values], MaxComponents)
UuidText ==
  \/ Start("uuid", Spellings)
  \/ /\ kind = "uuid" /\ in \in Spellings /\ UNCHANGED kind
     /\ \E i \in 1..Len(in) :
          \/ \E c \in Wrong : in' = [in EXCEPT ![i] = c]
          \/ in' = SubSeq(in, 1, i - 1) \o SubSeq(in, i + 1, Len(in))
StampText == Start("stamp", Stamps)
DoubleText == Start("double", 0..MaxInteger)

Next == \/ Utf8Bytes \/ Base64Chars \/ NumberText \/ StringText \/ Components
        \/ UuidText \/ StampText \/ DoubleText \/ Again

Spec == Init /\ [][Next]_vars

-----------------------------------------------------------------------------
\* The scalar value a sequence of n bytes of the right shape stands for.
CodePoint(s, n) ==
  CASE n = 1 -> s[1]
    [] n = 2 -> (s[1] - 192) * 64 + s[2] - 128
    [] n = 3 -> (s[1] - 224) * 4096 + (s[2] - 128) * 64 + s[3] - 128
    [] n = 4 -> (s[1] - 240) * 262144 + (s[2] - 128) * 4096 + (s[3] - 128) * 64 + s[4] - 128
Leads == <<0..127, 192..223, 224..239, 240..247>>
Least == <<0, 128, 2048, 65536>>
Encodes(s, n) ==
  /\ n <= Len(s) /\ s[1] \in Leads[n] /\ \A i \in 2..n : s[i] \in 128..191
  /\ CodePoint(s, n) >= Least[n] /\ CodePoint(s, n) <= 1114111
  /\ CodePoint(s, n) \notin 55296..57343

\* tamga_utf8_sequence_len accepts the shortest encoding of a Unicode scalar
\* value and nothing else, and tamga_utf8_encode writes those very bytes, from
\* one escape or from the two of a surrogate pair: an escaped character and a
\* raw one end up as the same string.
Utf8Exact ==
  kind = "utf8" =>
    LET n == Utf8Len(in)
    IN IF n = 0 THEN \A k \in 1..4 : ~Encodes(in, k)
       ELSE LET cp == CodePoint(in, n)
            IN /\ Encodes(in, n) /\ Utf8Encode(cp) = SubSeq(in, 1, n)
               /\ n = 4 => Pair(55296 + (cp - 65536) \div 1024, 56320 + (cp % 1024)) = cp

\* Escapes are read as RFC 8259 has them: a surrogate counts only as the high
\* half of a pair that follows at once, so no lone surrogate reaches the tree,
\* and no control character does unescaped.
StringExact ==
  kind = "string" =>
    \A s \in {in, Append(in, "quote")} : (StringEnd(s) = Len(s) + 1) = Matches(s)

IsNumber(s) ==
  LET Digits(x) == x # <<>> /\ \A i \in 1..Len(x) : IsDigit(x[i])
      Whole(x) == x = <<"0">> \/ (Digits(x) /\ x[1] = "d")
      Frac(x) == x = <<>> \/ (x[1] = "." /\ Digits(Tail(x)))
      Exp(x) == \/ x = <<>>
                \/ x[1] = "e" /\ Digits(Tail(x))
                \/ x[1] = "e" /\ Len(x) > 1 /\ x[2] \in {"+", "-"} /\ Digits(SubSeq(x, 3, Len(x)))
      body == IF s # <<>> /\ s[1] = "-" THEN Tail(s) ELSE s
  IN \E i \in 0..Len(body) : \E j \in i..Len(body) :
       /\ Whole(SubSeq(body, 1, i)) /\ Frac(SubSeq(body, i + 1, j))
       /\ Exp(SubSeq(body, j + 1, Len(body)))

\* The scanner takes a text whole exactly if it is a number of the grammar and
\* short enough to be copied into the token array.
NumberExact ==
  kind = "number" =>
    (NumberEnd(in) = Len(in) + 1) = (IsNumber(in) /\ Len(in) <= MaxNumberChars)

\* An integer read through a double is the one that was written, up to and
\* with 2^53; the single odd one just above it is rounded onto the limit and
\* passes for it.
DoubleExact ==
  kind = "double" =>
    LET read == AsInt(ToDouble(in))
    IN /\ in <= TwoTo(Mantissa) => read.ok
       /\ read.ok => read.value = in \/ in = TwoTo(Mantissa) + 1

\* Decoding accepts exactly the canonical texts, padded or not: whole quartets,
\* no bit set beyond the last byte, padding only as the length wants it.  It
\* never writes past the capacity its caller allocates, and encoding what was
\* read gives the text again.
Base64Exact ==
  kind = "base64" =>
    LET n == Cardinality({i \in DOMAIN in : in[i] # Pad})
        spare == (6 * n) % 8
        padded == [i \in 1..EncodedLen((6 * n) \div 8) |-> IF i <= n THEN in[i] ELSE Pad]
        read == Decode(in)
    IN /\ read.ok = /\ n % 4 # 1 /\ \A i \in 1..n : IsSextet(in[i])
                    /\ in \in {padded, SubSeq(padded, 1, n)}
                    /\ n > 0 => in[n] % 2 ^ spare = 0
       /\ read.ok => /\ Len(read.bytes) <= DecodedCap(Len(in))
                     /\ Encode(read.bytes) = padded

\* A spelling without what is around it, hyphens put in where there are none.
Bare(s) ==
  CASE Len(s) = 45 -> SubSeq(s, 10, 45)
    [] Len(s) = 38 -> SubSeq(s, 2, 37)
    [] Len(s) = 32 -> SubSeq(s, 1, 8) \o <<"-">> \o SubSeq(s, 9, 12) \o <<"-">>
                        \o SubSeq(s, 13, 16) \o <<"-">> \o SubSeq(s, 17, 20)
                        \o <<"-">> \o SubSeq(s, 21, 32)
    [] OTHER -> s
Digits16 == {"0", "1", "2", "3", "4", "5", "6", "7", "8", "9", "a", "b", "c", "d",
             "e", "f", "A", "B", "C", "D", "E", "F"}
Spelled(s) ==
  /\ Len(s) \in {32, 36, 38, 45}
  /\ Len(s) = 45 => [i \in 1..9 |-> U!Lower(s[i])] = U!Scheme
  /\ Len(s) = 38 => s[1] = "{" /\ s[38] = "}"
  /\ \A i \in 1..36 : IF i \in {9, 14, 19, 24} THEN Bare(s)[i] = "-"
                      ELSE Bare(s)[i] \in Digits16

\* One character wrong or missing and it is no UUID; every right spelling of
\* one value gives the same canonical text, which gives itself.
UuidExact ==
  kind = "uuid" =>
    LET canonical == U!Normalize(in)
    IN IF Spelled(in)
       THEN /\ canonical = [i \in 1..36 |-> U!Lower(Bare(in)[i])]
            /\ U!Normalize(canonical) = canonical
       ELSE canonical = U!Failed

\* Without the white space at both ends.
Trimmed(v) ==
  LET blank(from, to) == \A k \in from..to : IsSpace(v[k])
  IN CHOOSE m \in {SubSeq(v, x[1] + 1, Len(v) - x[2]) :
                     x \in {x \in (0..Len(v)) \X (0..Len(v)) :
                              /\ x[1] + x[2] <= Len(v)
                              /\ blank(1, x[1]) /\ blank(Len(v) - x[2] + 1, Len(v))}} :
       m # <<>> => ~IsSpace(m[1]) /\ ~IsSpace(m[Len(m)])

\* The components a canonical text can be split into again.
Split(text) ==
  LET cuts == {i \in 1..Len(text) : text[i] = Separator}
      part(i) == LET after == {j \in cuts : j > i}
                 IN SubSeq(text, i + 1,
                           IF after = {} THEN Len(text)
                           ELSE (CHOOSE j \in after : \A k \in after : j <= k) - 1)
      eq(p) == CHOOSE i \in 1..Len(p) :
                 p[i] = Equals /\ \A j \in 1..i - 1 : p[j] # Equals
  IN {LET p == part(i) IN <<SubSeq(p, 1, eq(p) - 1), SubSeq(p, eq(p) + 1, Len(p))>> : i \in cuts}

\* Different machines never share a canonical text and the order of the
\* components never makes two of one: the text can be taken apart into exactly
\* the labels and trimmed values it was made of, and no label comes twice,
\* however the components that share it sort.
FingerprintFaithful ==
  kind = "fingerprint" =>
    LET made == BuildCanonical(in)
        pairs == {<<in[i].label, Trimmed(in[i].value)>> : i \in DOMAIN in}
        sound == /\ in # <<>>
                 /\ \A p \in pairs : /\ LabelIsValid(p[1])
                                     /\ \A k \in 1..Len(p[2]) : ~IsControl(p[2][k])
                 /\ \A i, j \in DOMAIN in : i # j => in[i].label # in[j].label
    IN /\ made.ok = sound
       /\ sound => Split(made.canonical) = pairs

-----------------------------------------------------------------------------
MonthLength(y, m) ==
  IF m \in {4, 6, 9, 11} THEN 30 ELSE IF m # 2 THEN 31
  ELSE IF y % 4 # 0 \/ (y % 100 = 0 /\ y % 400 # 0) THEN 28 ELSE 29

NextDay(s) ==
  IF s.day < MonthLength(s.year, s.month) THEN [s EXCEPT !.day = @ + 1]
  ELSE IF s.month < 12 THEN [s EXCEPT !.month = @ + 1, !.day = 1]
  ELSE [s EXCEPT !.year = @ + 1, !.month = 1, !.day = 1]

\* What RFC 3339 asks of a stamp besides its date.
Clock(s) ==
  /\ s.well /\ s.zone /\ (s.point => s.fraction)
  /\ s.hour \in 0..23 /\ s.minute \in 0..59 /\ s.second \in 0..60
  /\ s.offHour \in 0..23 /\ s.offMinute \in 0..59

\* Exactly the days of the Gregorian calendar are accepted, with any time of
\* day; and the day after one is numbered one more, over leap days, year ends,
\* centuries and year 0.
CalendarExact ==
  kind = "stamp" =>
    /\ Accepted(in) <=> /\ Clock(in) /\ in.month \in 1..12
                        /\ in.day \in 1..MonthLength(in.year, in.month)
    /\ Accepted(in) =>
         /\ Instant(NextDay(in)).day = Instant(in).day + 1
         /\ in.year = 1970 /\ in.month = 1 => Instant(in).day = in.day - 1

\* The same instant told by a clock one hour further east is the same number,
\* and a leap second does not run into the next minute.
InstantExact ==
  kind = "stamp" /\ Accepted(in) =>
    LET east == [in EXCEPT !.hour = @ + 1, !.offHour = @ + in.sign]
    IN /\ east.hour < 24 /\ east.offHour \in 0..23 => Instant(east) = Instant(in)
       /\ Instant(in).second <= Instant([in EXCEPT !.second = 59]).second

-----------------------------------------------------------------------------
\* JSON tokens are read as RFC 8259 has them: exactly the well-formed UTF-8,
\* strings and numbers, and integers as they were written.
TokensExact == Utf8Exact /\ StringExact /\ NumberExact /\ DoubleExact

\* One value, one text: base64, UUIDs and the canonical text of a fingerprint
\* accept exactly what they should and can be taken back.
TextsExact == Base64Exact /\ UuidExact /\ FingerprintFaithful

\* RFC 3339 stamps are days of the calendar and seconds of one time line.
StampsExact == CalendarExact /\ InstantExact
=============================================================================
