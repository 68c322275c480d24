---------------------------- MODULE Fingerprint ----------------------------
(* tamga_fingerprint_build_canonical of src/src/util/fingerprint.c, over     *)
(* bytes.  The domain string in front is one byte here.                      *)
EXTENDS Integers, Sequences, FiniteSets

Separator == 31
Equals == 61
Domain == <<116>>

IsSpace(c) == c \in {32, 9, 13, 10, 11, 12}
IsControl(c) == c <= 31 \/ c = 127
LabelIsValid(label) ==
  Len(label) > 0 /\ \A i \in 1..Len(label) : label[i] \in 33..126 /\ label[i] # Equals

Trim(value) ==
  LET kept == {i \in 1..Len(value) : ~IsSpace(value[i])}
      first == CHOOSE i \in kept : \A j \in kept : i <= j
      last == CHOOSE i \in kept : \A j \in kept : j <= i
  IN IF kept = {} THEN <<>> ELSE SubSeq(value, first, last)

\* tamga_fp_build_component: trimmed first, then checked.
Component(c) ==
  LET value == Trim(c.value)
  IN IF ~LabelIsValid(c.label) \/ \E i \in 1..Len(value) : IsControl(value[i])
     THEN [ok |-> FALSE]
     ELSE [ok |-> TRUE, text |-> c.label \o <<Equals>> \o value, labelLen |-> Len(c.label)]

\* tamga_fp_compare: bytes first, a prefix before what extends it.
Before(x, y) ==
  LET differ == {i \in 1..Len(x) : i <= Len(y) /\ x[i] # y[i]}
      first == CHOOSE i \in differ : \A j \in differ : i <= j
  IN IF differ # {} THEN x[first] < y[first] ELSE Len(x) < Len(y)

\* qsort: external.
Sorted(components) ==
  LET n == Len(components)
      below(i) == Cardinality({j \in 1..n :
                     \/ Before(components[j].text, components[i].text)
                     \/ components[j].text = components[i].text /\ j < i})
  IN [k \in 1..n |-> components[CHOOSE i \in 1..n : below(i) = k - 1]]

\* tamga_fp_reject_duplicates: one pass over neighbours.
Repeats(sorted) ==
  \E i \in 2..Len(sorted) :
    /\ sorted[i - 1].labelLen = sorted[i].labelLen
    /\ SubSeq(sorted[i - 1].text, 1, sorted[i].labelLen)
         = SubSeq(sorted[i].text, 1, sorted[i].labelLen)

Joined(sorted) ==
  LET upto[i \in 0..Len(sorted)] ==
        IF i = 0 THEN Domain ELSE upto[i - 1] \o <<Separator>> \o sorted[i].text
  IN upto[Len(sorted)]

\* tamga_fingerprint_build_canonical
BuildCanonical(cs) ==
  LET built == [i \in DOMAIN cs |-> Component(cs[i])]
  IN IF cs = <<>> \/ \E i \in DOMAIN cs : ~built[i].ok THEN [ok |-> FALSE]
     ELSE IF Repeats(Sorted(built)) THEN [ok |-> FALSE]
     ELSE [ok |-> TRUE, canonical |-> Joined(Sorted(built))]
=============================================================================
