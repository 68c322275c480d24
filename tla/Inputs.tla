------------------------------- MODULE Inputs -------------------------------
(***************************************************************************)
(* An input for one of the library's pure functions: `kind` says for which *)
(* of them, `in` is the input.  Codecs and Crypto supply the inputs.       *)
(***************************************************************************)
VARIABLES kind, in
vars == <<kind, in>>

Init == kind = "none" /\ in = <<>>

Start(k, from) == kind = "none" /\ kind' = k /\ in' \in from

Again == kind # "none" /\ kind' = "none" /\ in' = <<>>
=============================================================================
