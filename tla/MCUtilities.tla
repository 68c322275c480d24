---------------------------- MODULE MCUtilities -----------------------------
(***************************************************************************)
(* The buffer and the pure functions of src/src/util and src/src/crypto,   *)
(* which share no state: either the buffer is used or a function is given  *)
(* an input.  For the codecs the bytes and characters at which they change *)
(* their minds.  For the cryptography numbers modulo 253 in limbs of three *)
(* bits, a curve of prime order 17 over 23, an Edwards curve of order      *)
(* 8 * 5 over 29, and bytes of four bits.  For the buffer sizes up to six: *)
(* blocks of two and of four, and no room to double again.                 *)
(***************************************************************************)
EXTENDS Codecs, Crypto, Buf

MCBytes == {0, 127, 128, 143, 144, 159, 160, 191, 192, 193, 194, 223, 224, 225,
            237, 238, 240, 241, 244, 245}
MCChars64 == {0, 1, 4, 16, 63, Pad, 255}
MCNumberChars == {"-", "0", "d", ".", "e", "+", "x"}
MCStringChars == {"quote", "slash", "n", "u", "high", "low", "bmp", "control", "broken"}

MCLabels == {<<97>>, <<97, 33>>, <<97, 98>>, <<97, 61>>, <<>>}
MCValues == {<<>>, <<98>>, <<32, 98>>, <<98, 10>>, <<61>>, <<98, 32, 200>>, <<31>>, <<98, 9, 98>>}

HexDigits == <<"0", "1", "8", "f", "A", "b", "9", "C", "d", "E", "F", "0", "1", "2", "3", "4",
           "5", "6", "7", "8", "9", "a", "B", "c", "D", "e", "f", "7", "a", "4", "0", "F">>
Hyphens(v) == SubSeq(v, 1, 8) \o <<"-">> \o SubSeq(v, 9, 12) \o <<"-">> \o SubSeq(v, 13, 16)
                \o <<"-">> \o SubSeq(v, 17, 20) \o <<"-">> \o SubSeq(v, 21, 32)
MCSpellings ==
  {HexDigits, Hyphens(HexDigits), <<"{">> \o Hyphens(HexDigits) \o <<"}">>,
   <<"u", "R", "n", ":", "U", "u", "i", "D", ":">> \o Hyphens(HexDigits)}
MCWrong == {"g", "-", "{", "}", ":", "F", "u"}

Base == [year |-> 2024, month |-> 2, day |-> 28, hour |-> 12, minute |-> 30,
         second |-> 30, sign |-> 1, offHour |-> 0, offMinute |-> 0,
         well |-> TRUE, zone |-> TRUE, point |-> FALSE, fraction |-> FALSE]
Years == {0, 1, 3, 4, 99, 100, 101, 399, 400, 401, 1900, 1969, 1970, 1999, 2000,
          2023, 2024, 2100, 9999}
MCStamps ==
  {[Base EXCEPT !.year = y, !.month = m, !.day = d] :
     y \in Years, m \in 0..13, d \in {0, 1, 2, 27, 28, 29, 30, 31, 32}}
  \cup {[Base EXCEPT !.hour = h, !.minute = m, !.second = s, !.sign = g,
                     !.offHour = o, !.offMinute = p] :
          h \in {0, 1, 22, 23, 24}, m \in {0, 59, 60}, s \in {0, 59, 60, 61},
          g \in {-1, 1}, o \in {0, 1, 22, 23, 24}, p \in {0, 59, 60}}
  \cup {[Base EXCEPT !.well = w, !.zone = z, !.point = p, !.fraction = f] :
          w, z, p, f \in BOOLEAN}

-----------------------------------------------------------------------------
MCFieldOperands == {0, 1, 2, 3, 4, 7, 8, 63, 64, 125, 126, 127, 128, 129, 200, 247, 248,
                    249, 250, 251, 252}
MCScales == {1, 2, 5, 22}
MCDigests == {0, 5, 17, 31}
MCScalars == {0, 1, 2, 4, 5, 8, 9, 16, 17, 18, 31}
MCHashes == {0, 1, 3, 4, 5, 14, 255}
MCDerBytes == {0, 1, 2, 7, 8, 9, 10, 11, 15}
MCIntegers4 == {<<>>, <<0>>, <<1>>, <<3>>, <<7>>, <<8>>, <<0, 7>>, <<0, 9>>, <<1, 1>>,
                <<4, 2, 3>>, <<2, 2, 3>>, <<0, 9, 1>>, <<0, 0, 9>>, <<0, 9, 1, 2>>,
                <<0, 9, 1, 2, 3>>, <<5, 1, 2>>}
MCHashBlock == [sha256 |-> 6, sha512 |-> 8]
MCLengthRoom == [sha256 |-> 2, sha512 |-> 4]
MCPolynomial == <<1, 1, 0, 0>>

MCDigest(digest, salt) == (2 * digest + salt + 1) % 4
MCMask(h, i) == (h * i + i) % 4
MCCipher(key, counter, bit) == (key + counter[1] + counter[2] * bit + bit) % 2

-----------------------------------------------------------------------------
MCPieces == UNION {[1..n -> Octets] : n \in {0, 1, 3}}

BufferUnused == cap = 0 /\ ~failed /\ ~out.given /\ asked = <<>>
NoFunction == kind = "none"

UseFunction ==
  BufferUnused /\ (Next \/ (NoFunction /\ Operands)) /\ UNCHANGED bufVars
UseBuffer == NoFunction /\ BufNext /\ UNCHANGED vars

UtilitiesInit == Init /\ BufInit

UtilitiesSpec == UtilitiesInit /\ [][UseFunction \/ UseBuffer]_<<vars, bufVars>>
=============================================================================
