------------------------------ MODULE MCClient ------------------------------
(***************************************************************************)
(* Small instances of Client: a careful transport of the caller and one    *)
(* that does as it likes, a credential of two parts and one that needs no  *)
(* header, those that are refused, a request that may be repeated and one  *)
(* that may not, answers at every branch of the loop.                      *)
(***************************************************************************)
EXTENDS Client

CONSTANTS t1, t2

Cred(kind, second, clean) ==
  [kind |-> kind, second |-> second, clean |-> clean]

MCCredentials == {Cred("email", TRUE, TRUE),
                  Cred("query", FALSE, TRUE),
                  Cred("email", FALSE, TRUE),
                  Cred("stale", FALSE, TRUE),
                  Cred("token", FALSE, FALSE)}

MCRequests == {[kind |-> k, otpClean |-> TRUE] :
                 k \in {"get", "create"}}
              \cup {[kind |-> "get", otpClean |-> FALSE]}

Says(status, body, after) == [status |-> status, body |-> body, after |-> after]

\* A verdict, an empty 204, a redirect to HTML, an error with a code the SDK
\* knows, and rate limits with a Retry-After that is negative and absurd.
MCAnswers == {Says(200, "data", NoAfter), Says(204, "none", NoAfter),
              Says(302, "text", NoAfter), Says(422, "known", NoAfter),
              Says(429, "data", -1), Says(429, "data", 1000000)}
=============================================================================
