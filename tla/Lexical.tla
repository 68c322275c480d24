------------------------------ MODULE Lexical ------------------------------
(***************************************************************************)
(* What the tokens of a JSON text are made of: UTF-8 sequences, string     *)
(* escapes and numbers, as src/src/util/json_parse.c reads them, and       *)
(* integral doubles as tamga_json_as_int of json.c reads them.             *)
(*                                                                         *)
(* Bytes are numbers.  In strings and numbers a character stands for its   *)
(* class: "d" is a digit from 1 to 9, "high", "low" and "bmp" are four     *)
(* hexadecimal digits that name a surrogate or another character, which    *)
(* outside an escape are as plain as any other.                            *)
(***************************************************************************)
EXTENDS Integers, Sequences

CONSTANTS
  MaxNumberChars,   \* TAMGA_JSON_MAX_NUMBER_CHARS
  Mantissa          \* bits of a double's significand: 53

ASSUME LexicalAssumption == MaxNumberChars \in Nat /\ Mantissa \in Nat \ {0}

Byte(s, i) == IF i <= Len(s) THEN s[i] ELSE -1
Continues(b) == b \in 128..191

\* tamga_utf8_sequence_len: 0 is malformed.
Utf8Len(s) ==
  LET b0 == Byte(s, 1)
      second(lead, low, last, high) ==
        (IF b0 = lead THEN low ELSE 128)..(IF b0 = last THEN high ELSE 191)
  IN CASE b0 \in 0..127 -> 1
       [] b0 \in 194..223 /\ Continues(Byte(s, 2)) -> 2
       [] /\ b0 \in 224..239 /\ Byte(s, 2) \in second(224, 160, 237, 159)
          /\ Continues(Byte(s, 3)) -> 3
       [] /\ b0 \in 240..244 /\ Byte(s, 2) \in second(240, 144, 244, 143)
          /\ Continues(Byte(s, 3)) /\ Continues(Byte(s, 4)) -> 4
       [] OTHER -> 0

\* tamga_utf8_encode
Utf8Encode(cp) ==
  LET tail(shift) == 128 + ((cp \div 2 ^ shift) % 64)
  IN CASE cp < 128 -> <<cp>>
       [] cp >= 128 /\ cp < 2048 -> <<192 + cp \div 64, tail(0)>>
       [] cp >= 2048 /\ cp < 65536 -> <<224 + cp \div 4096, tail(6), tail(0)>>
       [] cp >= 65536 -> <<240 + cp \div 2 ^ 18, tail(12), tail(6), tail(0)>>

\* The character two surrogate escapes stand for.
Pair(high, low) == 65536 + (high - 55296) * 1024 + (low - 56320)

-----------------------------------------------------------------------------
\* A bug to be caught: a low surrogate by itself is let through.
StringEndLone(s) ==
  LET c(i) == IF i <= Len(s) THEN s[i] ELSE "end"
      from[i \in 1..Len(s) + 4] ==
        CASE c(i) = "end" -> 0
          [] c(i) = "quote" -> i + 1
          [] c(i) \in {"control", "broken"} -> 0
          [] c(i) = "slash" -> IF c(i + 1) = "u" THEN from[i + 3] ELSE from[i + 2]
          [] OTHER -> from[i + 1]
  IN IF c(1) = "quote" THEN from[2] ELSE 0

\* tamga_json_parse_string_into: the position after the closing quote, or 0.
StringEnd(s) ==
  LET c(i) == IF i <= Len(s) THEN s[i] ELSE "end"
      from[i \in 1..Len(s) + 7] ==
        CASE c(i) = "end" -> 0
          [] c(i) = "quote" -> i + 1
          [] c(i) \in {"control", "broken"} -> 0
          [] c(i) = "slash" ->
               CASE c(i + 1) \in {"quote", "slash", "n"} -> from[i + 2]
                 [] c(i + 1) = "u" /\ c(i + 2) = "bmp" -> from[i + 3]
                 [] /\ c(i + 1) = "u" /\ c(i + 2) = "high" /\ c(i + 3) = "slash"
                    /\ c(i + 4) = "u" /\ c(i + 5) = "low" -> from[i + 6]
                 [] OTHER -> 0
          [] OTHER -> from[i + 1]
  IN IF c(1) = "quote" THEN from[2] ELSE 0

-----------------------------------------------------------------------------
IsDigit(c) == c \in {"0", "d"}

\* tamga_json_parse_number: where the token ends, 0 if it is malformed.
NumberEnd(s) ==
  LET c(i) == IF i <= Len(s) THEN s[i] ELSE "end"
      digits[i \in 1..Len(s) + 1] == IF IsDigit(c(i)) THEN digits[i + 1] ELSE i
      start == IF c(1) = "-" THEN 2 ELSE 1
      int == CASE c(start) = "0" -> start + 1
               [] c(start) = "d" -> digits[start]
               [] OTHER -> 0
      frac == IF c(int) # "." THEN int
              ELSE IF IsDigit(c(int + 1)) THEN digits[int + 1] ELSE 0
      signed == IF c(frac + 1) \in {"+", "-"} THEN frac + 2 ELSE frac + 1
      exp == IF c(frac) # "e" THEN frac
             ELSE IF IsDigit(c(signed)) THEN digits[signed] ELSE 0
  IN IF int = 0 THEN 0 ELSE IF frac = 0 THEN 0
     ELSE IF exp - 1 > MaxNumberChars THEN 0 ELSE exp

-----------------------------------------------------------------------------
(* An integral value written with a fraction or an exponent is a double.     *)

\* 2 ^ k, by the recursion that a proof needs.
TwoTo(k) == LET power[i \in 0..k] == IF i = 0 THEN 1 ELSE 2 * power[i - 1]
            IN power[k]

\* strtod, to nearest and to even: external.
ToDouble(n) ==
  LET scale == CHOOSE k \in 0..n : /\ n < TwoTo(Mantissa + k)
                                   /\ k = 0 \/ n >= TwoTo(Mantissa + k - 1)
      unit == TwoTo(scale)
      q == n \div unit
      r == n % unit
      up == \/ 2 * r > unit
            \/ 2 * r = unit /\ q % 2 = 1
  IN (q + IF up /\ scale > 0 THEN 1 ELSE 0) * unit

\* tamga_json_as_int of a double that is not negative.
AsInt(real) == [ok |-> real <= TwoTo(Mantissa), value |-> real]
=============================================================================
