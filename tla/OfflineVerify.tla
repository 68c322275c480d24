--------------------------- MODULE OfflineVerify ---------------------------
(***************************************************************************)
(* Offline verification of licence and machine files                       *)
(* (src/src/checkout/license_file.c, machine_file.c, claims.c and the      *)
(* entry points of tamga_api.c), with one key or with a key set.           *)
(*                                                                         *)
(* A file is what its reader can tell about it: which step of reading      *)
(* fails, who signed it, and the claims inside.  Signatures are ideal: a   *)
(* file verifies under a key exactly when that key signed it, and the      *)
(* account signs with nothing but its keys.  The steps are those of        *)
(* the two verify_core functions: open the envelope, check the signature,  *)
(* decode the payload, and then read the claims or, when no held key       *)
(* signed the file, label the failure.                                     *)
(***************************************************************************)
EXTENDS KeySet

CONSTANTS
  Calls,      \* the files applications meet, and the arguments they pass
  Nobody,     \* the signer of an altered or invented file
  OtherKey,   \* the account's key for the RSA and ECDSA schemes
  NoKid,
  NoExpiry,
  NoFile, NoArg

Skew == 60    \* TAMGA_CLOCK_SKEW_TOLERANCE_SECONDS

(***************************************************************************)
(* shape: the envelope is readable, has no markers, or holds no            *)
(* certificate.  alg: what the file says signed it, v1 for the formats     *)
(* that are refused.  sig and body: readable, not base64 (text), of the    *)
(* wrong length (short), not decryptable (cipher) or not JSON (json).      *)
(* exp: seconds since 1970, which no account sets before it.               *)
(***************************************************************************)
File == [kind : {"license", "machine"}, shape : {"ok", "pem", "cert"},
         alg : {"ed25519", "other", "v1"}, encrypted : BOOLEAN,
         sig : {"ok", "text", "short"}, signer : Keys \cup {OtherKey, Nobody},
         body : {"ok", "text", "cipher", "json"}, kid : KeyIds \cup {NoKid},
         claims : BOOLEAN, exp : Nat \cup {NoExpiry}, data : BOOLEAN]

(***************************************************************************)
(* key: the key passed, or "set" for the entry points with a key set.      *)
(* secret: the licence key (and, for a machine file, the fingerprint) is   *)
(* the right one, a wrong one or NULL.  scheme: of a machine file's        *)
(* licence; jwt stands for every scheme a machine file cannot have.        *)
(***************************************************************************)
Argument == [key : Keys \cup {OtherKey, "set"}, secret : {"right", "wrong", "none"},
             scheme : {"ed25519", "other", "jwt"}, now : Int]

ASSUME VerifyAssumption ==
  /\ Calls \subseteq [file : File, arg : Argument]
  /\ NoFile \notin File /\ NoArg \notin Argument
  /\ Nobody \notin Keys /\ OtherKey \notin Keys \cup {"set"}
  /\ "set" \notin Keys /\ Nobody # OtherKey /\ Nobody # "set"
  /\ NoKid \notin KeyIds /\ NoExpiry \notin Int

VARIABLES
  file, arg,
  verified,   \* a trusted key signed the file
  opened,     \* the payload has been decoded
  held        \* what the call holds: cert, payload, resource and handle

verifyVars == <<file, arg, verified, opened, held>>
vars == <<keySetVars, verifyVars>>

VerifyTypeOK ==
  /\ file \in File \cup {NoFile}
  /\ arg \in Argument \cup {NoArg}
  /\ verified \in BOOLEAN /\ opened \in BOOLEAN
  /\ held \subseteq {"cert", "payload", "resource", "handle"}

TypeOK == KeySetTypeOK /\ VerifyTypeOK

Init ==
  /\ KeySetInit
  /\ file = NoFile /\ arg = NoArg
  /\ verified = FALSE /\ opened = FALSE
  /\ held = {}

-----------------------------------------------------------------------------
(* Which files can exist.                                                  *)

\* The claim the account stamps into what it signs with its n-th key.
Stamped(n) == IF hidden /\ n = 1 THEN UnpublishedId ELSE Served[history[n]]

\* The account's own files: unaltered, whole, and signed with a key it had.
\* The claim names the Ed25519 key also when another scheme signed.
Genuine(f) ==
  /\ f.shape = "ok" /\ f.sig = "ok" /\ f.body = "ok"
  /\ f.claims /\ f.data /\ f.alg # "v1"
  /\ \E n \in DOMAIN history :
       /\ f.kid = Stamped(n)
       /\ f.signer = IF f.alg = "ed25519" THEN history[n] ELSE OtherKey

\* A key signs nothing before the account has it.  What it signed may still be
\* malformed, or carry a claim of another version of the server.
Possible(f) == f.signer \in {Nobody, OtherKey} \cup KeysOf(history)

-----------------------------------------------------------------------------
(* Verification.                                                           *)

Returns(s) ==
  /\ pc' = "idle" /\ ret' = s /\ failed' = (s = "OUT_OF_MEMORY")

Proceeds(point) == pc' = point /\ UNCHANGED <<ret, failed>>

\* What only the other steps change.
SetAside == <<accountVars, setVars, stageVars, told, ids, op, before, caught>>

\* The wrapper's own refusals: a machine file's scheme, and for a key set any
\* scheme but Ed25519.
SchemeRefusal(f, a) ==
  IF f.kind = "license" \/ a.scheme = "ed25519" THEN {}
  ELSE IF a.scheme = "jwt" THEN {"UNSUPPORTED_SCHEME"}
  ELSE IF a.key = "set" THEN {"KEY_ID_NOT_APPLICABLE"}
  ELSE {}

\* The checks of tamga_license_file_verify, tamga_machine_file_verify and their
\* key-set variants: a pointer is missing, a length absurd, the clock unreadable.
RefuseCall ==
  /\ Call("verify") /\ file = NoFile
  /\ \E s \in {"NULL_ARGUMENT", "LENGTH_INVALID", "UNKNOWN"} : Returns(s)
  /\ doc' = <<>>
  /\ UNCHANGED <<accountVars, setVars, staged, stagedCap, at, version,
                 skipped, mismatched, ids, caught, verifyVars>>

\* The same functions on their way to verify_core.
Verify(f, a) ==
  /\ Call("verify") /\ file = NoFile
  /\ Possible(f) /\ (a.key = "set" => exists)
  /\ file' = f /\ arg' = a /\ doc' = <<>>
  /\ \/ \E s \in SchemeRefusal(f, a) : Returns(s)
     \/ /\ SchemeRefusal(f, a) = {}
        /\ pc' = "open" /\ ret' = "none" /\ failed' = FALSE
  /\ UNCHANGED <<accountVars, setVars, staged, stagedCap, at, version,
                 skipped, mismatched, ids, caught, verified, opened, held>>

\* The algorithm the file must declare: for a machine file, the caller's.
Required(f, a) == IF f.kind = "license" THEN "ed25519" ELSE a.scheme

\* tamga_pem_extract
PemFailure(f) == IF f.shape = "pem" THEN {"INVALID_PEM"} ELSE {}

\* tamga_cert_parse
CertFailure(f) ==
  IF f.shape = "cert" THEN {"INVALID_BASE64", "INVALID_JSON"} ELSE {}

OpenFailure(f, a) ==
  IF f.shape # "ok" THEN PemFailure(f) \cup CertFailure(f)
  ELSE IF f.alg # Required(f, a) THEN {"UNSUPPORTED_SCHEME"}
  ELSE {}

\* tamga_license_open, tamga_machine_open
Open ==
  /\ pc = "open"
  /\ \/ \E s \in OpenFailure(file, arg) : Returns(s) /\ UNCHANGED held
     \/ /\ file.shape # "pem"
        /\ Returns("OUT_OF_MEMORY") /\ UNCHANGED held
     \/ /\ OpenFailure(file, arg) = {}
        /\ Proceeds("signature") /\ held' = {"cert"}
  /\ UNCHANGED <<SetAside, file, arg, verified, opened>>

SignedByKid(f, a) ==
  f.sig = "ok" /\ (IF a.key = "set" THEN f.kid \in HeldIds
                                    ELSE f.signer = a.key)

\* tamga_key_set_find_verifier tries every key held, whatever kid says; one
\* key is tried alone.
Signed(f, a) ==
  f.sig = "ok" /\ (IF a.key = "set" THEN f.signer \in HeldKeys
                                    ELSE f.signer = a.key)

\* A licence file's signature of the wrong length is refused at once; a
\* machine file's is a signature that does not verify.
SignatureFailure(f, a) ==
  IF f.sig = "text" THEN {"INVALID_BASE64"}
  ELSE IF f.sig = "short" /\ f.kind = "license" THEN {"SIGNATURE_INVALID"}
  ELSE IF ~Signed(f, a) /\ a.key # "set" THEN {"SIGNATURE_INVALID"}
  ELSE {}

CheckSignature ==
  /\ pc = "signature"
  /\ \/ /\ \E s \in SignatureFailure(file, arg) \cup {"OUT_OF_MEMORY"} : Returns(s)
        /\ held' = {} /\ UNCHANGED verified
     \/ /\ SignatureFailure(file, arg) = {}
        /\ Proceeds("payload")
        /\ verified' = Signed(file, arg) /\ UNCHANGED held
  /\ UNCHANGED <<SetAside, file, arg, opened>>

\* tamga_license_decode_payload decodes before it misses the licence key,
\* tamga_machine_open_encrypted after.
PayloadFailure(f, a) ==
  IF f.kind = "machine" /\ f.encrypted /\ a.secret = "none" THEN {"NULL_ARGUMENT"}
  ELSE IF f.body = "text" THEN {"INVALID_BASE64"}
  ELSE IF f.encrypted /\ a.secret = "none" THEN {"NULL_ARGUMENT"}
  ELSE IF f.encrypted /\ (a.secret = "wrong" \/ f.body = "cipher")
       THEN {"DECRYPTION_FAILED"}
  ELSE IF f.body \in {"json", "cipher"} THEN {"INVALID_JSON"}
  ELSE {}

\* What decoding and parsing the payload may return, but for success.
PayloadOutcomes(f, a) ==
  PayloadFailure(f, a) \cup
    (IF f.kind = "machine" /\ PayloadFailure(f, a) = {"NULL_ARGUMENT"}
     THEN {} ELSE {"OUT_OF_MEMORY"})

LabelStaleAsForged(status) ==
  IF status \in {"OUT_OF_MEMORY", "NULL_ARGUMENT"} THEN status
  ELSE "SIGNATURE_INVALID"

\* tamga_key_set_label_failure and tamga_key_set_select
LabelFailure(status) ==
  IF status \in {"OUT_OF_MEMORY", "NULL_ARGUMENT"} THEN status
  ELSE IF status # "OK" THEN "SIGNATURE_INVALID"
  ELSE IF file.kid = NoKid \/ file.kid \in HeldIds THEN "SIGNATURE_INVALID"
  ELSE IF file.kid = UnpublishedId THEN "SIGNING_KEY_NOT_PUBLISHED"
  ELSE "UNKNOWN_SIGNING_KEY"

\* Decode and parse.  The certificate goes here; a failure is final when the
\* file is signed and otherwise only a reason for a label.
DecodePayload ==
  /\ pc = "payload"
  /\ opened' = TRUE
  /\ \/ /\ \E s \in PayloadOutcomes(file, arg) :
             IF verified THEN Returns(s)
             ELSE /\ pc' = "idle" /\ ret' = LabelFailure(s)
                  /\ failed' = (s = "OUT_OF_MEMORY")
        /\ held' = {}
     \/ /\ PayloadFailure(file, arg) = {}
        /\ Proceeds(IF verified THEN "finish" ELSE "label")
        /\ held' = {"payload"}
  /\ UNCHANGED <<SetAside, file, arg, verified>>

LabelLeaks ==
  /\ pc = "label"
  /\ Returns(LabelFailure("OK"))
  /\ UNCHANGED <<SetAside, verifyVars>>

\* The readable payload of a file nobody held has signed gives a label.
Label ==
  /\ pc = "label"
  /\ Returns(LabelFailure("OK"))
  /\ held' = {}
  /\ UNCHANGED <<SetAside, file, arg, verified, opened>>

\* tamga_claims_are_expired
Expired(exp, now) == exp # NoExpiry /\ now >= Skew /\ now - Skew > exp

\* tamga_claims_read: no claims object, or an exp that is no integer.
ClaimsFailure(f) == IF f.claims THEN {} ELSE {"INVALID_JSON"}

\* tamga_license_finish, tamga_machine_finish: claims, expiry, data.
FinishFailure(f, a) ==
  IF ClaimsFailure(f) # {} THEN ClaimsFailure(f)
  ELSE IF Expired(f.exp, a.now) THEN {"EXPIRED"}
  ELSE IF ~f.data THEN {"INVALID_JSON"}
  ELSE {}

\* The copy of the resource and the handle for it may fail to be allocated.
Finish ==
  /\ pc = "finish"
  /\ \/ /\ \E s \in FinishFailure(file, arg) : Returns(s)
        /\ held' = {}
     \/ /\ FinishFailure(file, arg) = {}
        /\ Returns("OUT_OF_MEMORY") /\ held' = {}
     \/ /\ FinishFailure(file, arg) = {}
        /\ Returns("OK") /\ held' = {"resource", "handle"}
  /\ UNCHANGED <<SetAside, file, arg, verified, opened>>

\* tamga_license_file_free, tamga_machine_file_free: of the handle, or of the
\* NULL that a failed verification left.
FreeHandle ==
  /\ pc = "idle" /\ file # NoFile
  /\ held' = {}
  /\ file' = NoFile /\ arg' = NoArg /\ verified' = FALSE /\ opened' = FALSE
  /\ op' = "none" /\ before' = <<>> /\ ret' = "none" /\ failed' = FALSE
  /\ UNCHANGED <<accountVars, setVars, stageVars, told, ids, pc, caught>>

\* The account moves on at any time, the application's set between two
\* verifications.
KeySetStep ==
  /\ \/ \E k \in Keys : Rotate(k)
     \/ /\ file = NoFile
        /\ \/ NewSet \/ FreeSet \/ StageRow \/ Merge
           \/ \E p \in Pins : AddPublicKey(p)
           \/ \E v \in 0..Len(history) : AddJson(v)
  /\ UNCHANGED verifyVars

Next ==
  \/ KeySetStep
  \/ RefuseCall
  \/ \E c \in Calls : Verify(c.file, c.arg)
  \/ Open \/ CheckSignature \/ DecodePayload \/ Label \/ Finish
  \/ FreeHandle

Spec == Init /\ [][Next]_vars

-----------------------------------------------------------------------------
(* What must hold.                                                         *)

Ended == file # NoFile /\ pc = "idle"

\* The verdicts about a file's signature.
Refusals == {"SIGNATURE_INVALID", "UNKNOWN_SIGNING_KEY",
             "SIGNING_KEY_NOT_PUBLISHED"}

\* The caller can read the payload, if it is readable at all.
Readable(f, a) == f.encrypted => a.secret = "right"

(***************************************************************************)
(* TAMGA_OK means that a key the caller trusts signed the file and that it *)
(* has not expired by more than the tolerance.  The kid the file claims    *)
(* has no say in it, whatever the set holds under that id.                 *)
(***************************************************************************)
GenuineOnly ==
  Ended /\ ret = "OK" =>
    /\ file.signer \in IF arg.key = "set" THEN HeldKeys ELSE {arg.key}
    /\ file.exp = NoExpiry \/ arg.now <= file.exp + Skew

(***************************************************************************)
(* A rotation locks nobody out: once a document naming the signer's key    *)
(* has been merged, and whatever was pinned, merged or failed to be merged *)
(* before and after it, the account's file is not refused for its          *)
(* signature, even where the SDK computes other ids than the server.       *)
(***************************************************************************)
RotationSurvived ==
  /\ Ended /\ arg.key = "set" /\ Genuine(file) /\ file.alg = "ed25519"
  /\ file.signer \in KeysOf(Published(caught))
  => ret \notin Refusals

(***************************************************************************)
(* A file of the account is never called forged through a key set, however *)
(* stale the set is, as long as the caller can decrypt it.                 *)
(***************************************************************************)
GenuineNotForged ==
  Ended /\ arg.key = "set" /\ Genuine(file) /\ Readable(file, arg) =>
    ret # "SIGNATURE_INVALID"

(***************************************************************************)
(* The label names the cure.  An unknown signing key is one the account's  *)
(* present document publishes, so that fetching it helps; a key reported   *)
(* as not published is in none of its documents, so that it never does.    *)
(***************************************************************************)
LabelNamesTheCure ==
  Ended /\ arg.key = "set" /\ Genuine(file) =>
    /\ ret = "UNKNOWN_SIGNING_KEY" =>
         file.signer \in KeysOf(Published(Len(history)))
    /\ ret = "SIGNING_KEY_NOT_PUBLISHED" =>
         file.signer \notin KeysOf(Published(Len(history)))

(***************************************************************************)
(* Running out of memory is never a verdict about a file or a key, nor is  *)
(* a verdict ever called running out of memory.                            *)
(* Parsing is taken as ideal here: the one allocation the JSON parser      *)
(* mislabels, json_parse.c:467, is the subject of Json's OomSaid.          *)
(***************************************************************************)
OomIsNoVerdict == pc = "idle" => (failed <=> ret = "OUT_OF_MEMORY")

(***************************************************************************)
(* Nothing reads a payload that no trusted key has signed, except to label *)
(* the failure of a key set; and nothing of such a payload is handed out.  *)
(***************************************************************************)
VerifiedBeforeUse ==
  opened /\ ~verified => arg.key = "set" /\ "resource" \notin held

(***************************************************************************)
(* A claim made from the account's Ed25519 key says nothing about a file   *)
(* that another scheme signed, so no such file is labelled by it.          *)
(***************************************************************************)
KidOnlyForEd25519 ==
  Ended /\ ret \in {"UNKNOWN_SIGNING_KEY", "SIGNING_KEY_NOT_PUBLISHED"} =>
    file.alg = "ed25519"

(***************************************************************************)
(* The certificate, the payload and the resource are freed on every path   *)
(* but the one that hands the resource out.                                *)
(***************************************************************************)
NothingKept ==
  Ended => held = IF ret = "OK" THEN {"resource", "handle"} ELSE {}

(***************************************************************************)
(* Why they hold: what a call has and knows at each of its steps.          *)
(***************************************************************************)
Verifying == {"open", "signature", "payload", "label", "finish"}

\* A verification has a file and the set stays as it is; between two of them
\* nothing is left.
CallShape ==
  /\ file # NoFile => arg # NoArg
  /\ pc \in Verifying => file # NoFile
  /\ pc = "staging" => file = NoFile
  /\ file = NoFile => held = {} /\ ~verified /\ ~opened

Owned ==
  /\ pc = "open" => held = {}
  /\ pc \in {"signature", "payload"} => held = {"cert"}
  /\ pc \in {"label", "finish"} => held = {"payload"}

\* With a key set, the file is one that an Ed25519 key signs.
SchemeAgrees ==
  /\ pc \in Verifying /\ arg.key = "set" => Required(file, arg) = "ed25519"
  /\ pc \in Verifying \ {"open"} => file.alg = Required(file, arg)

\* The payload of an unsigned file is reached with a key set only, and never
\* gets past the label.
Trust ==
  /\ verified => Signed(file, arg)
  /\ pc \in {"payload", "label", "finish"} => (verified <=> Signed(file, arg))
  /\ pc = "label" => ~verified /\ PayloadFailure(file, arg) = {}
  /\ pc \in {"open", "signature"} => ~verified /\ ~opened
  /\ pc \in {"payload", "label"} => verified \/ arg.key = "set"
  /\ pc = "finish" => verified
  /\ opened /\ ~verified => arg.key = "set"
  /\ Ended /\ ret = "OK" => verified /\ FinishFailure(file, arg) = {}

\* What each refusal says about the file and the set.
Reasons ==
  Ended =>
    /\ ret \in Refusals =>
         ~Signed(file, arg) /\ (arg.key = "set" => file.alg = "ed25519")
    /\ ret = "SIGNATURE_INVALID" /\ arg.key = "set" =>
         \/ file.sig # "ok"
         \/ PayloadFailure(file, arg) # {}
         \/ file.kid \in HeldIds \cup {NoKid}
    /\ ret \in {"UNKNOWN_SIGNING_KEY", "SIGNING_KEY_NOT_PUBLISHED"} =>
         /\ arg.key = "set" /\ file.kid \notin HeldIds
         /\ ret = "SIGNING_KEY_NOT_PUBLISHED" <=> file.kid = UnpublishedId

VerifyInv ==
  /\ VerifyTypeOK
  /\ CallShape
  /\ Owned
  /\ SchemeAgrees
  /\ Trust
  /\ Reasons
  /\ OomIsNoVerdict
  /\ NothingKept

IInv == KeySetInv /\ VerifyInv

-----------------------------------------------------------------------------
(* What the callers rely on, in one piece each.                            *)

\* Memory: no entry lies outside its array, every id copy has one owner, and a
\* verification that ended holds its result and nothing else.
BlocksAccounted == SlotsFit /\ IdsOwned /\ NothingKept

\* TAMGA_OK means a file signed by a key the caller trusts and still within its
\* time, and until a key has verified nothing of the payload is used but its
\* label.
TrustsSignedOnly == GenuineOnly /\ VerifiedBeforeUse

\* A refusal says what is wrong: a genuine file is never called forged, the
\* label names what the caller has to do, running out of memory is no verdict,
\* and a kid is judged only where it names the signing key.
RefusalTrue ==
  GenuineNotForged /\ LabelNamesTheCure /\ OomIsNoVerdict /\ KidOnlyForEd25519
=============================================================================
