------------------------------- MODULE KeySet -------------------------------
(***************************************************************************)
(* A TamgaSigningKeySet (src/src/checkout/key_set.c) and the account whose *)
(* Ed25519 keys it follows.                                                *)
(*                                                                         *)
(* The account rotates its key; the application pins keys of its own and   *)
(* merges GET /signing-keys documents, which may be old: shipped with it,  *)
(* or cached on disk.  Merging is several allocations, any of which may    *)
(* fail, so it is staged: row by row into a second set, then moved.        *)
(***************************************************************************)
EXTENDS Integers, Sequences, FiniteSets

CONSTANTS
  Keys,             \* Ed25519 public keys
  KeyIds,
  Served,           \* Served[k]: the id the account publishes k under
  Computed,         \* Computed[k]: what tamga_signing_key_id says of k
  UnpublishedId,    \* TAMGA_UNPUBLISHED_KEY_ID
  Legacy,           \* rows of every document that this SDK cannot use
  Pins,             \* what applications pass to add_public_key
  InitialCapacity,  \* TAMGA_KEY_SET_INITIAL_CAPACITY
  MaxEntries        \* bound: the keys a set may come to hold

Malformed == {"text", "short"}   \* not base64; not 32 bytes

\* key: usable; broken: it does not decode; foreign: a field is missing or the
\* algorithm is not ed25519.
Row == [form : {"key", "broken", "foreign"}, id : KeyIds, key : Keys]

Entry == [id : KeyIds, key : Keys]

ASSUME KeySetAssumption ==
  /\ Served \in [Keys -> KeyIds] /\ Computed \in [Keys -> KeyIds]
  /\ UnpublishedId \in KeyIds
  /\ Legacy \in Seq(Row) /\ \A i \in DOMAIN Legacy : Legacy[i].form # "key"
  /\ Pins \subseteq Keys \cup Malformed
  /\ InitialCapacity \in Nat \ {0}
  /\ MaxEntries \in Nat

\* A kid is 64 bits of SHA-256: two keys do not share one, and no key has the
\* one of the empty string.
ASSUME NoCollision ==
  \A k, l \in Keys :
    /\ k # l => Served[k] # Served[l] /\ Served[k] # Computed[l]
    /\ Served[k] # UnpublishedId /\ Computed[k] # UnpublishedId

VARIABLES
  history,    \* the account's keys, the current one last
  hidden,     \* its first key was never published
  exists,     \* the application holds a set
  entries, cap,
  staged, stagedCap,
  doc, at,    \* the document being merged and the next row of it
  version,    \* how many keys the account had when it was fetched
  skipped, mismatched,
  told,       \* the three counters as the caller sees them
  ids,        \* copies of key ids alive
  pc,
  op,         \* the last call
  before,     \* what the set held when that call began
  failed,     \* an allocation failed during it
  caught,     \* the latest version of the account's document merged
  ret         \* what it returned

accountVars == <<history, hidden>>
setVars == <<exists, entries, cap>>
stageVars == <<staged, stagedCap, doc, at, version, skipped, mismatched>>
keySetVars == <<accountVars, setVars, stageVars, told, ids, pc, op, before,
                failed, caught, ret>>

NoCounts == [added |-> -1, skipped |-> -1, mismatched |-> -1]

\* The statuses of the offline functions.
Statuses == {"none", "OK", "NULL_ARGUMENT", "OUT_OF_MEMORY", "LENGTH_INVALID",
             "INVALID_BASE64", "INVALID_JSON", "INVALID_PEM", "UNKNOWN",
             "UNSUPPORTED_SCHEME", "KEY_ID_NOT_APPLICABLE",
             "SIGNATURE_INVALID", "DECRYPTION_FAILED", "EXPIRED",
             "UNKNOWN_SIGNING_KEY", "SIGNING_KEY_NOT_PUBLISHED"}

\* The control points: between calls, in add_json, in a verification.
Points == {"idle", "staging", "open", "signature", "payload", "label", "finish"}

KeySetTypeOK ==
  /\ history \in Seq(Keys) /\ hidden \in BOOLEAN
  /\ exists \in BOOLEAN
  /\ entries \in Seq(Entry) /\ cap \in Nat
  /\ staged \in Seq(Entry) /\ stagedCap \in Nat
  /\ doc \in Seq(Row) /\ at \in Nat \ {0} /\ version \in Nat
  /\ skipped \in Nat /\ mismatched \in Nat
  /\ told \in [added : Int, skipped : Int, mismatched : Int]
  /\ ids \in Nat
  /\ pc \in Points
  /\ op \in {"none", "add_public_key", "add_json", "verify"}
  /\ before \in Seq(Entry)
  /\ failed \in BOOLEAN
  /\ caught \in Nat
  /\ ret \in Statuses

KeySetInit ==
  /\ \E k \in Keys : history = <<k>>
  /\ hidden \in BOOLEAN
  /\ exists = FALSE
  /\ entries = <<>> /\ cap = 0
  /\ staged = <<>> /\ stagedCap = 0
  /\ doc = <<>> /\ at = 1 /\ version = 0 /\ skipped = 0 /\ mismatched = 0
  /\ told = NoCounts
  /\ ids = 0
  /\ pc = "idle" /\ op = "none" /\ before = <<>> /\ failed = FALSE
  /\ caught = 0
  /\ ret = "none"

-----------------------------------------------------------------------------
(* The account, on the server.                                             *)

KeysOf(s) == {s[i] : i \in DOMAIN s}

Rotate(k) ==
  /\ k \notin KeysOf(history)
  /\ history' = Append(history, k)
  /\ UNCHANGED <<hidden, setVars, stageVars, told, ids, pc, op, before, failed,
                 caught, ret>>

Published(v) == SubSeq(history, IF hidden THEN 2 ELSE 1, v)

\* GET /signing-keys when the account had v keys: the whole history.
Document(v) ==
  [i \in DOMAIN Published(v) |->
     [form |-> "key", id |-> Served[Published(v)[i]], key |-> Published(v)[i]]]
  \o Legacy

-----------------------------------------------------------------------------
(* Helpers.                                                                *)

\* What reserve makes of the capacity so that `needed` entries fit: it
\* doubles, from InitialCapacity, until they do.
Capacities(have, needed) ==
  LET base == IF have = 0 THEN InitialCapacity ELSE have
  IN  IF needed <= have THEN {have}
      ELSE {c \in needed..(2 * needed + base) :
              \E n \in 0..needed :
                c = base * 2^n /\ (n = 0 \/ base * 2^(n - 1) < needed)}

HeldKeys == {entries[i].key : i \in DOMAIN entries}

HeldIds == {entries[i].id : i \in DOMAIN entries}

IsUsable(row) == row.form = "key"

\* The usable rows among the first n.
UsableUpTo(d, n) == {i \in DOMAIN d : i <= n /\ IsUsable(d[i])}

Rank(d, n) == Cardinality(UsableUpTo(d, n))

\* Those of them whose id is not the computed one.
MismatchedUpTo(d, n) ==
  {i \in UsableUpTo(d, n) : Computed[d[i].key] # d[i].id}

EntryOf(row) == [id |-> row.id, key |-> row.key]

\* The entries a document adds, in its order, each under the id it was served
\* with.
Usable(d) ==
  [n \in 1..Rank(d, Len(d)) |->
     EntryOf(d[CHOOSE i \in DOMAIN d : IsUsable(d[i]) /\ Rank(d, i) = n])]

\* A call of the application begins.
Call(name) ==
  /\ pc = "idle"
  /\ op' = name
  /\ before' = entries
  /\ told' = NoCounts

-----------------------------------------------------------------------------
(* The set.                                                                *)

\* tamga_signing_key_set_new and tamga_signing_key_set_free
NewSet ==
  /\ ~exists /\ Call("none")
  /\ \/ exists' = TRUE /\ ret' = "OK" /\ failed' = FALSE
     \/ exists' = FALSE /\ ret' = "OUT_OF_MEMORY" /\ failed' = TRUE
  /\ UNCHANGED <<accountVars, entries, cap, stageVars, ids, pc, caught>>

FreeSet ==
  /\ pc = "idle" /\ exists
  /\ exists' = FALSE
  /\ entries' = <<>> /\ cap' = 0 /\ caught' = 0
  /\ ids' = ids - Len(entries)
  /\ op' = "none" /\ before' = <<>> /\ told' = NoCounts /\ doc' = <<>>
  /\ failed' = FALSE /\ ret' = "none"
  /\ UNCHANGED <<accountVars, staged, stagedCap, at, version, skipped, mismatched,
                 pc>>

\* tamga_key_set_add_public_key: strict.  The array may have grown before the
\* copy of the id fails.
AddPublicKey(input) ==
  /\ exists /\ Call("add_public_key")
  /\ Len(entries) < MaxEntries
  /\ doc' = <<>>
  /\ \/ /\ input \in Malformed
        /\ ret' = IF input = "text" THEN "INVALID_BASE64" ELSE "LENGTH_INVALID"
        /\ failed' = FALSE
        /\ UNCHANGED <<entries, cap, ids>>
     \/ /\ ret' = "OUT_OF_MEMORY" /\ failed' = TRUE
        /\ cap' \in {cap} \cup (IF input \in Malformed THEN {}
                                ELSE Capacities(cap, Len(entries) + 1))
        /\ UNCHANGED <<entries, ids>>
     \/ /\ input \in Keys
        /\ cap' \in Capacities(cap, Len(entries) + 1)
        /\ entries' = Append(entries, [id |-> Computed[input], key |-> input])
        /\ ids' = ids + 1
        /\ ret' = "OK" /\ failed' = FALSE
  /\ UNCHANGED <<accountVars, exists, staged, stagedCap, at, version, skipped,
                 mismatched, pc, caught>>

\* tamga_key_set_add_json up to the staging set.  `v` is the version of the
\* document; 0 is one without a data array.
AddJson(v) ==
  /\ exists /\ Call("add_json")
  /\ v \in 0..Len(history)
  /\ Len(entries) + Len(Usable(Document(v))) <= MaxEntries
  /\ doc' = IF v = 0 THEN <<>> ELSE Document(v)
  /\ \/ v = 0 /\ ret' = "INVALID_JSON" /\ failed' = FALSE /\ pc' = "idle"
     \/ ret' = "OUT_OF_MEMORY" /\ failed' = TRUE /\ pc' = "idle"
     \/ v # 0 /\ ret' = "none" /\ failed' = FALSE /\ pc' = "staging"
  /\ version' = IF pc' = "staging" THEN v ELSE version
  /\ UNCHANGED <<accountVars, setVars, staged, stagedCap, at, skipped,
                 mismatched, ids, caught>>

\* tamga_key_set_destroy of the staging set, on the way out of add_json.
Unstage ==
  /\ staged' = <<>> /\ stagedCap' = 0
  /\ at' = 1 /\ version' = 0 /\ skipped' = 0 /\ mismatched' = 0
  /\ pc' = "idle"

OutOfMemoryStaging ==
  /\ Unstage
  /\ ids' = ids - Len(staged)
  /\ ret' = "OUT_OF_MEMORY" /\ failed' = TRUE

StageRowOomSkips ==
  /\ pc = "staging" /\ at <= Len(doc)
  /\ \/ /\ at' = at + 1
        /\ skipped' = skipped + 1
        /\ UNCHANGED <<staged, stagedCap, mismatched, ids, pc, ret, failed>>
     \/ /\ doc[at].form = "key"
        /\ at' = at + 1
        /\ stagedCap' \in Capacities(stagedCap, Len(staged) + 1)
        /\ staged' = Append(staged, [id |-> doc[at].id, key |-> doc[at].key])
        /\ ids' = ids + 1
        /\ mismatched' = IF Computed[doc[at].key] # doc[at].id
                         THEN mismatched + 1 ELSE mismatched
        /\ UNCHANGED <<skipped, pc, ret, failed>>
  /\ UNCHANGED <<accountVars, setVars, doc, version, told, op, before, caught>>

StageRowDropsMismatched ==
  /\ pc = "staging" /\ at <= Len(doc)
  /\ at' = at + 1
  /\ IF doc[at].form = "key" /\ Computed[doc[at].key] = doc[at].id
     THEN /\ stagedCap' \in Capacities(stagedCap, Len(staged) + 1)
          /\ staged' = Append(staged, [id |-> doc[at].id, key |-> doc[at].key])
          /\ ids' = ids + 1
          /\ UNCHANGED skipped
     ELSE skipped' = skipped + 1 /\ UNCHANGED <<staged, stagedCap, ids>>
  /\ UNCHANGED <<accountVars, setVars, doc, version, told, op, before, caught, mismatched,
                 pc, ret, failed>>

\* tamga_key_set_stage_resource: an unusable row is skipped, an allocation
\* failure is not; a key whose id is not the computed one is kept and counted.
StageRow ==
  /\ pc = "staging" /\ at <= Len(doc)
  /\ \/ /\ doc[at].form # "foreign"
        /\ OutOfMemoryStaging
     \/ /\ doc[at].form # "key"
        /\ at' = at + 1
        /\ skipped' = skipped + 1
        /\ UNCHANGED <<staged, stagedCap, version, mismatched, ids, pc, ret,
                       failed>>
     \/ /\ doc[at].form = "key"
        /\ at' = at + 1
        /\ stagedCap' \in Capacities(stagedCap, Len(staged) + 1)
        /\ staged' = Append(staged, [id |-> doc[at].id, key |-> doc[at].key])
        /\ ids' = ids + 1
        /\ mismatched' = IF Computed[doc[at].key] # doc[at].id
                         THEN mismatched + 1 ELSE mismatched
        /\ UNCHANGED <<version, skipped, pc, ret, failed>>
  /\ UNCHANGED <<accountVars, setVars, doc, told, op, before, caught>>

MergeFreesMovedIds ==
  /\ pc = "staging" /\ at > Len(doc)
  /\ Unstage
  /\ cap' \in Capacities(cap, Len(entries) + Len(staged))
  /\ entries' = entries \o staged
  /\ ids' = ids - Len(staged)
  /\ told' = [added |-> Len(staged), skipped |-> skipped,
              mismatched |-> mismatched]
  /\ caught' = IF version > caught THEN version ELSE caught
  /\ ret' = "OK" /\ failed' = FALSE
  /\ UNCHANGED <<accountVars, exists, doc, op, before>>

\* The end of tamga_key_set_add_json: room first, then the entries move, and
\* the staging set goes without them.
Merge ==
  /\ pc = "staging" /\ at > Len(doc)
  /\ \/ /\ Len(entries) + Len(staged) > cap
        /\ OutOfMemoryStaging
        /\ UNCHANGED <<entries, cap, told, caught>>
     \/ /\ Unstage
        /\ cap' \in Capacities(cap, Len(entries) + Len(staged))
        /\ entries' = entries \o staged
        /\ told' = [added |-> Len(staged), skipped |-> skipped,
                    mismatched |-> mismatched]
        /\ caught' = IF version > caught THEN version ELSE caught
        /\ ret' = "OK" /\ failed' = FALSE
        /\ UNCHANGED ids
  /\ UNCHANGED <<accountVars, exists, doc, op, before>>

-----------------------------------------------------------------------------
(* What must hold.                                                         *)

(***************************************************************************)
(* Every entry written lies within its array, whatever grew when and       *)
(* whichever allocation failed in between: reserve, append and the move of *)
(* the staged entries agree about the capacity.                            *)
(***************************************************************************)
SlotsFit == Len(entries) <= cap /\ Len(staged) <= stagedCap

(***************************************************************************)
(* Every id copied is owned by exactly one of the two sets: the ids that   *)
(* moved are not freed with the staging set, and those of an abandoned     *)
(* merge are.                                                              *)
(***************************************************************************)
IdsOwned == ids = Len(entries) + Len(staged)

(***************************************************************************)
(* add_json is atomic: until it returns TAMGA_OK, and for ever when it     *)
(* fails, the set holds what it held before and no counter is written;     *)
(* then it holds every usable row as well, and the counters account for    *)
(* every row of the document.                                              *)
(***************************************************************************)
MergeAllOrNothing ==
  op = "add_json" =>
    IF pc = "idle" /\ ret = "OK"
    THEN /\ entries = before \o Usable(doc)
         /\ told.added = Len(Usable(doc))
         /\ told.added + told.skipped = Len(doc)
         /\ told.mismatched = Cardinality(MismatchedUpTo(doc, Len(doc)))
    ELSE entries = before /\ told = NoCounts

(***************************************************************************)
(* Why a verdict can rely on the set.  Both ways into it keep to the ids   *)
(* of the account and of the SDK; a document lists every key published     *)
(* when it was fetched, and every row read so far is staged.               *)
(***************************************************************************)
Honest(e) == e.id \in {Served[e.key], Computed[e.key]}

EntriesHonest ==
  /\ \A i \in DOMAIN entries : Honest(entries[i])
  /\ \A i \in DOMAIN staged : Honest(staged[i])

RowsHonest ==
  \A i \in DOMAIN doc : IsUsable(doc[i]) => doc[i].id = Served[doc[i].key]

NoKeyTwice ==
  \A i, j \in DOMAIN history : history[i] = history[j] => i = j

Covers ==
  pc = "staging" =>
    \A k \in KeysOf(Published(version)) :
      \E i \in DOMAIN doc : IsUsable(doc[i]) /\ doc[i].key = k

Staged ==
  pc = "staging" =>
    \A i \in DOMAIN doc : i < at /\ IsUsable(doc[i]) =>
      \E j \in DOMAIN staged : staged[j].key = doc[i].key

\* The staging set lives as long as a merge.
Unstaged == pc # "staging" => staged = <<>> /\ at = 1

CaughtUp ==
  /\ caught <= Len(history) /\ version <= Len(history)
  /\ KeysOf(Published(caught)) \subseteq HeldKeys

(***************************************************************************)
(* Why a merge is atomic.  While it stages, the caller's set and counters  *)
(* are as they were, the n-th entry staged is the n-th usable row, and     *)
(* every row read is staged or counted as skipped.                         *)
(***************************************************************************)
StagedInOrder ==
  \A n \in DOMAIN staged : \E i \in UsableUpTo(doc, at - 1) :
    Rank(doc, i) = n /\ staged[n] = EntryOf(doc[i])

Progress ==
  /\ op = "add_json" => pc \in {"idle", "staging"}
  /\ pc = "staging" =>
       /\ op = "add_json"
       /\ at <= Len(doc) + 1
       /\ Len(staged) = Rank(doc, at - 1)
       /\ Len(staged) + skipped = at - 1
       /\ mismatched = Cardinality(MismatchedUpTo(doc, at - 1))
       /\ StagedInOrder
  /\ pc # "staging" => skipped = 0 /\ mismatched = 0

MergeInv == Progress /\ MergeAllOrNothing

KeySetInv ==
  /\ KeySetTypeOK
  /\ SlotsFit
  /\ IdsOwned
  /\ EntriesHonest
  /\ RowsHonest
  /\ NoKeyTwice
  /\ Covers
  /\ Staged
  /\ Unstaged
  /\ CaughtUp
=============================================================================
