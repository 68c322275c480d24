------------------------------- MODULE Base64 -------------------------------
(* src/src/util/base64.c.  A character is its value in TAMGA_B64_REVERSE: a  *)
(* sextet, or 255 for one that is not in the alphabet; Pad is the '='.       *)
EXTENDS Integers, Sequences

Pad == 64
IsSextet(c) == c \in 0..63

\* Trailing '=', at most two of them counted.
Padding(in) ==
  LET last(k) == Len(in) >= k /\ in[Len(in) + 1 - k] = Pad
  IN IF last(1) THEN IF last(2) THEN 2 ELSE 1 ELSE 0

\* The checks before the loop.
Shape(in) ==
  LET pad == Padding(in)
      body == Len(in) - pad
  IN /\ body > 0 => in[body] # Pad
     /\ pad > 0 => (body + pad) % 4 = 0
     /\ body % 4 # 1
     /\ pad = 1 => body % 4 = 3
     /\ pad = 2 => body % 4 = 2

\* The loop: sextets are shifted in, bytes taken out from the top.  Of the
\* accumulator only the bits below 2^14 are ever read.
Loop(in, n) ==
  LET at[i \in 0..n] ==
        IF i = 0 THEN [accum |-> 0, bits |-> 0, out |-> <<>>]
        ELSE LET s == at[i - 1]
                 accum == (s.accum * 64 + in[i]) % 2 ^ 14
                 bits == s.bits + 6
             IN IF bits < 8 THEN [s EXCEPT !.accum = accum, !.bits = bits]
                ELSE [accum |-> accum, bits |-> bits - 8,
                      out |-> Append(s.out, (accum \div 2 ^ (bits - 8)) % 256)]
  IN at[n]

Refused == [ok |-> FALSE, bytes |-> <<>>]

\* A bug to be caught: bits left over after the last byte are ignored.
DecodeLoose(in) ==
  LET body == Len(in) - Padding(in)
  IN IF ~Shape(in) \/ \E i \in 1..body : ~IsSextet(in[i]) THEN Refused
     ELSE [ok |-> TRUE, bytes |-> Loop(in, body).out]

\* tamga_base64_decode
Decode(in) ==
  LET body == Len(in) - Padding(in)
      done == Loop(in, body)
  IN IF ~Shape(in) \/ \E i \in 1..body : ~IsSextet(in[i]) THEN Refused
     ELSE IF done.accum % 2 ^ done.bits # 0 THEN Refused
     ELSE [ok |-> TRUE, bytes |-> done.out]

\* tamga_base64_decoded_cap, tamga_base64_encoded_len
DecodedCap(n) == ((n + 3) \div 4) * 3
EncodedLen(n) == ((n + 2) \div 3) * 4

\* Three bytes as one group of 24 bits.
Triple(a, b, c) == a * 65536 + b * 256 + c

\* tamga_base64_encode: whole triples, then one or two bytes and padding.
Encode(bytes) ==
  LET n == Len(bytes)
      b(i) == IF i <= n THEN bytes[i] ELSE 0
      triple(k) == Triple(b(3 * k + 1), b(3 * k + 2), b(3 * k + 3))
      char(i) == LET k == (i - 1) \div 4
                     j == (i - 1) % 4
                 IN IF 3 * k + j > n THEN Pad
                    ELSE (triple(k) \div 64 ^ (3 - j)) % 64
  IN [i \in 1..EncodedLen(n) |-> char(i)]
=============================================================================
