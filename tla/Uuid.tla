-------------------------------- MODULE Uuid --------------------------------
(* src/src/util/uuid.c and hex.c.  A character is a string of length one;    *)
(* the scheme of a URN is spelled out.                                       *)
EXTENDS Integers, Sequences

Groups == <<4, 2, 2, 2, 6>>
Scheme == <<"u", "r", "n", ":", "u", "u", "i", "d", ":">>

LowerDigits == <<"0", "1", "2", "3", "4", "5", "6", "7", "8", "9",
                 "a", "b", "c", "d", "e", "f">>
Lower(c) == CASE c = "A" -> "a" [] c = "B" -> "b" [] c = "C" -> "c" [] c = "D" -> "d"
              [] c = "E" -> "e" [] c = "F" -> "f" [] c = "U" -> "u" [] c = "R" -> "r"
              [] c = "N" -> "n" [] c = "I" -> "i" [] OTHER -> c

Failed == <<-1>>

\* tamga_hex_value
HexValue(c) ==
  IF \E v \in 1..16 : LowerDigits[v] = Lower(c)
  THEN (CHOOSE v \in 1..16 : LowerDigits[v] = Lower(c)) - 1 ELSE -1

\* tamga_hex_decode
HexDecode(s) ==
  IF Len(s) % 2 # 0 \/ \E i \in 1..Len(s) : HexValue(s[i]) < 0 THEN Failed
  ELSE [i \in 1..Len(s) \div 2 |-> HexValue(s[2 * i - 1]) * 16 + HexValue(s[2 * i])]

\* tamga_hex_encode
HexEncode(bytes) ==
  [i \in 1..2 * Len(bytes) |->
     LET byte == bytes[(i + 1) \div 2]
     IN LowerDigits[(IF i % 2 = 1 THEN byte \div 16 ELSE byte % 16) + 1]]

\* Where each group starts, in characters and in bytes, both from 0.
BytesBefore(g) ==
  LET sum[k \in 1..5] == IF k = 1 THEN 0 ELSE sum[k - 1] + Groups[k - 1]
  IN sum[g]
CharsBefore(g) == 2 * BytesBefore(g) + (g - 1)

\* tamga_uuid_parse_hyphenated
ParseHyphenated(s) ==
  LET digits(g) == HexDecode(SubSeq(s, CharsBefore(g) + 1, CharsBefore(g) + 2 * Groups[g]))
  IN IF \/ \E g \in 2..5 : s[CharsBefore(g)] # "-"
        \/ \E g \in 1..5 : digits(g) = Failed
     THEN Failed
     ELSE digits(1) \o digits(2) \o digits(3) \o digits(4) \o digits(5)

\* tamga_uuid_parse: the length decides which spelling it must be.
Parse(s) ==
  CASE Len(s) = 45 ->
         IF \E i \in 1..9 : Lower(s[i]) # Scheme[i] THEN Failed
         ELSE ParseHyphenated(SubSeq(s, 10, 45))
    [] Len(s) = 38 ->
         IF s[1] # "{" \/ s[38] # "}" THEN Failed ELSE ParseHyphenated(SubSeq(s, 2, 37))
    [] Len(s) = 36 -> ParseHyphenated(s)
    [] Len(s) = 32 -> HexDecode(s)
    [] OTHER -> Failed

\* tamga_uuid_format
Format(bytes) ==
  LET hex == HexEncode(bytes)
  IN SubSeq(hex, 1, 8) \o <<"-">> \o SubSeq(hex, 9, 12) \o <<"-">>
       \o SubSeq(hex, 13, 16) \o <<"-">> \o SubSeq(hex, 17, 20) \o <<"-">>
       \o SubSeq(hex, 21, 32)

\* tamga_uuid_normalize
Normalize(s) == IF Parse(s) = Failed THEN Failed ELSE Format(Parse(s))
=============================================================================
