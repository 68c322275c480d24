----------------------------- MODULE JsonGrammar -----------------------------
(* What a JSON document is and what it means, stated over the whole text and *)
(* without a parser; the parser and the writers of module Json against it.   *)
EXTENDS Json

Inside(s) == SubSeq(s, 2, Len(s) - 1)

\* Brackets opened before position i and not closed.
DepthAt(s, i) ==
  Cardinality({j \in 1..i - 1 : s[j] \in {"[", "{"}})
    - Cardinality({j \in 1..i - 1 : s[j] \in {"]", "}"}})

\* s cut at the commas that are in no inner bracket.
Pieces(s) ==
  LET cuts == {i \in 1..Len(s) : s[i] = "comma" /\ DepthAt(s, i) = 0} \cup {Len(s) + 1}
      cut[n \in 0..Cardinality(cuts)] ==
        IF n = 0 THEN 0
        ELSE CHOOSE i \in cuts : /\ i > cut[n - 1]
                                 /\ \A j \in cuts : j > cut[n - 1] => i <= j
  IN [n \in 1..Cardinality(cuts) |-> SubSeq(s, cut[n - 1] + 1, cut[n] - 1)]

RECURSIVE IsValue(_, _), Meaning(_), Plain(_), Canon(_)

\* s is a document of at most d levels.
IsValue(s, d) ==
  LET IsElement(e) == IsValue(e, d - 1)
      IsMember(e) == /\ Len(e) > 2 /\ e[1] \in StringSet /\ e[2] = ":"
                     /\ IsElement(SubSeq(e, 3, Len(e)))
      Wraps(open, close, Part(_)) ==
        /\ Len(s) > 1 /\ s[1] = open /\ s[Len(s)] = close
        /\ Len(s) = 2 \/ \A n \in DOMAIN Pieces(Inside(s)) : Part(Pieces(Inside(s))[n])
  IN /\ d > 0
     /\ \/ Len(s) = 1 /\ s[1] \in Leaves
        \/ Wraps("[", "]", IsElement)
        \/ Wraps("{", "}", IsMember)

\* A repeated key keeps its first place and its last value.
Members(pairs) ==
  LET firsts == SelectSeq([n \in DOMAIN pairs |-> n],
                          LAMBDA n : \A k \in 1..n - 1 : pairs[k][1] # pairs[n][1])
      last(n) == CHOOSE k \in DOMAIN pairs :
                   /\ pairs[k][1] = pairs[n][1]
                   /\ \A l \in DOMAIN pairs : pairs[l][1] = pairs[n][1] => l <= k
  IN [i \in DOMAIN firsts |-> <<pairs[firsts[i]][1], pairs[last(firsts[i])][2]>>]

Meaning(s) ==
  LET parts == IF Len(s) = 2 THEN <<>> ELSE Pieces(Inside(s))
  IN IF Len(s) = 1 THEN <<"leaf", s[1]>>
     ELSE IF s[1] = "[" THEN <<"array", [n \in DOMAIN parts |-> Meaning(parts[n])]>>
     ELSE <<"object",
            Members([n \in DOMAIN parts |->
                       <<parts[n][1], Meaning(SubSeq(parts[n], 3, Len(parts[n])))>>])>>

\* A value without its count of blocks, and with its keys in order.
Plain(v) ==
  CASE v[1] = "leaf" -> <<"leaf", v[2]>>
    [] v[1] = "array" -> <<"array", [n \in DOMAIN v[2] |-> Plain(v[2][n])]>>
    [] v[1] = "object" ->
         <<"object", [n \in DOMAIN v[2] |-> <<v[2][n][1], Plain(v[2][n][2])>>]>>

Canon(v) ==
  CASE v[1] = "leaf" -> v
    [] v[1] = "array" -> <<"array", [n \in DOMAIN v[2] |-> Canon(v[2][n])]>>
    [] v[1] = "object" ->
         LET keys == {v[2][n][1] : n \in DOMAIN v[2]}
             nth(n) == CHOOSE k \in keys :
                         Cardinality({l \in keys : Rank(l) <= Rank(k)}) = n
             of(k) == CHOOSE n \in DOMAIN v[2] : v[2][n][1] = k
         IN <<"object", [n \in 1..Cardinality(keys) |->
                           <<nth(n), Canon(v[2][of(nth(n))][2])>>]>>

-----------------------------------------------------------------------------
Significant == SelectSeq(text, LAMBDA t : t # "ws")

\* The brackets that close what s leaves open.
Closing(s) ==
  LET open == SelectSeq([i \in DOMAIN s |-> i],
        LAMBDA i : /\ s[i] \in {"[", "{"}
                   /\ \A j \in i + 1..Len(s) + 1 : DepthAt(s, j) > DepthAt(s, i))
  IN [n \in DOMAIN open |-> IF s[open[Len(open) + 1 - n]] = "[" THEN "]" ELSE "}"]

\* Some document starts with s.
Viable(s) ==
  \E k \in StringSet :
    \E filler \in {<<>>, <<k>>, <<":", k>>, <<k, ":", k>>} :
      IsValue(s \o filler \o Closing(s), MaxDepth)

\* With memory to spare the parser accepts the documents of the grammar no
\* deeper than the limit, whatever white space is between the tokens, gives
\* each its meaning, and rejects every other text no later than at the first
\* token that makes it hopeless.
AcceptsExactly ==
  mode = "parsed" /\ ~exhausted =>
    IF result # None
    THEN /\ ended /\ IsValue(Significant, MaxDepth)
         /\ Plain(result) = Meaning(Significant)
    ELSE IF ended THEN ~IsValue(Significant, MaxDepth) ELSE ~Viable(Significant)

\* What a writer hands out is the whole document it was given, and from the
\* canonical writer with every object's keys in byte order: no failed append
\* and no failed sort ends in a shorter or an unsorted text.
WrittenWhole ==
  pass = 2 =>
    /\ IsValue(text, MaxDepth)
    /\ Meaning(text) = IF canonical THEN Canon(Plain(original)) ELSE Plain(original)
=============================================================================
