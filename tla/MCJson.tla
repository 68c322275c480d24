------------------------------- MODULE MCJson -------------------------------
(* Texts of a few tokens, with two keys and nesting one beyond the limit.    *)
EXTENDS JsonGrammar

MCStrings == <<"a", "b">>
=============================================================================
