--------------------------- MODULE MCActivation ---------------------------
(***************************************************************************)
(* Small instances of Activation: two licences, two fingerprints of which  *)
(* one is a substring of the other, one machine installed beforehand.      *)
(***************************************************************************)
EXTENDS Activation, TLC

CONSTANTS c1, c2, L1, L2

MCContains == [f \in Fingerprints |->
                 IF f = "f" THEN {"f", "ff"} ELSE {f}]

\* Machine 1 carries "ff" on L1: it matches a search for "f".
MCInstalled == [i \in {1} |-> [lic |-> L1, fp |-> "ff", by |-> NoCall]]

\* Both strategies, both uniqueness scopes, servers before and after the patch.
MCPolicies == {[strict |-> FALSE, account |-> FALSE, names |-> FALSE],
               [strict |-> FALSE, account |-> TRUE, names |-> TRUE],
               [strict |-> TRUE, account |-> TRUE, names |-> FALSE]}

Call(lic, idem, auto) ==
  [lic |-> lic, fp |-> "f", idem |-> idem, auto |-> auto, out |-> TRUE,
   scope |-> TRUE]

\* One machine activated on L1, by both variants, and on L2; with and without
\* rollback; without an out pointer; with a scope that is not JSON.
MCArgs == {Call(L1, FALSE, TRUE), Call(L1, TRUE, FALSE), Call(L2, TRUE, TRUE),
           [Call(L1, TRUE, TRUE) EXCEPT !.out = FALSE],
           [Call(L1, TRUE, TRUE) EXCEPT !.scope = FALSE]}

\* Fewer callers and policies, for the temporal properties.
FewPolicies == {[strict |-> FALSE, account |-> TRUE, names |-> FALSE]}

FewArgs == {Call(L1, FALSE, TRUE), Call(L1, TRUE, TRUE)}

Symmetry == Permutations(Calls)
=============================================================================
