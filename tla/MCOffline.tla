----------------------------- MODULE MCOffline -----------------------------
(***************************************************************************)
(* A small instance of OfflineVerify: an account that rotates from k1 to   *)
(* k2 or back, a server whose id for k2 is not the one the SDK computes,   *)
(* and files that fail at every step of a verification.                    *)
(***************************************************************************)
EXTENDS OfflineVerify

CONSTANTS k1, k2

MCServed == [k \in Keys |-> IF k = k1 THEN "i1" ELSE "i2"]

MCComputed == [k \in Keys |-> IF k = k1 THEN "i1" ELSE "x2"]

\* A key of a later algorithm and one that does not decode.
MCLegacy == <<[form |-> "foreign", id |-> "x2", key |-> k2],
              [form |-> "broken", id |-> "i1", key |-> k1]>>

MCPins == {k1, k2, "text", "short"}

\* The account's licence file, plain, without an expiry.
Plain(k, kid) ==
  [kind |-> "license", shape |-> "ok", alg |-> "ed25519", encrypted |-> FALSE,
   sig |-> "ok", signer |-> k, body |-> "ok", kid |-> kid, claims |-> TRUE,
   exp |-> NoExpiry, data |-> TRUE]

Encrypted(f) == [f EXCEPT !.encrypted = TRUE]

Machine(f) == [f EXCEPT !.kind = "machine"]

\* What the account issues: under a published key and under one that is not.
Plains == {Plain(k1, "i1"), Plain(k1, "u"), Plain(k2, "i2"), Plain(k2, "u")}

Issued == Plains \cup {Encrypted(f) : f \in Plains}
                 \cup {Machine(Encrypted(f)) : f \in Plains}

\* Signed under another scheme; the claim names the Ed25519 key all the same.
OtherScheme == {[Machine(Plain(OtherKey, i)) EXCEPT !.alg = "other"] : i \in {"i1", "u"}}

Expiring == [Plain(k1, "i1") EXCEPT !.exp = 40]

Incomplete == {[Plain(k1, "i1") EXCEPT !.claims = FALSE],
               [Plain(k1, "i1") EXCEPT !.data = FALSE]}

\* Altered copies, which no key has signed, naming any kid; and for each step
\* a file that fails there.
Altered ==
  LET f == Plain(Nobody, "i1")
  IN  {Plain(Nobody, i) : i \in KeyIds \cup {NoKid}}
      \cup {Machine(Encrypted([f EXCEPT !.body = "cipher"])),
            [f EXCEPT !.body = "text"], [f EXCEPT !.body = "json"],
            [f EXCEPT !.sig = "text"], [f EXCEPT !.sig = "short"],
            Machine([f EXCEPT !.sig = "short"]),
            [f EXCEPT !.shape = "pem"], [f EXCEPT !.shape = "cert"],
            [f EXCEPT !.alg = "v1"]}

With(key, secret, scheme, now) ==
  [key |-> key, secret |-> secret, scheme |-> scheme, now |-> now]

CallsOf(files, args) == [file : files, arg : args]

\* Around the expiry at 40: a clock below the tolerance, at its edge, past it.
MCCalls ==
  CallsOf(Issued, {With("set", s, "ed25519", 101) : s \in {"right", "wrong", "none"}})
  \cup CallsOf(Altered, {With(k, "right", "ed25519", 101) : k \in {"set", k1}})
  \cup CallsOf({Expiring}, {With("set", "right", "ed25519", n) : n \in {59, 100, 101}})
  \cup CallsOf(Plains \cup Incomplete, {With(k1, "right", "ed25519", 101)})
  \cup CallsOf(OtherScheme,
               {With("set", "right", x, 101) : x \in {"ed25519", "other", "jwt"}}
               \cup {With(OtherKey, "right", "other", 101)})
=============================================================================
