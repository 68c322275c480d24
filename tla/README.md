# tamga-c: TLA+ verification

`tamga-c` is the C client library of the Tamga licensing service. This
directory holds TLA+ models of its core, the TLC configurations that check
them on small instances, and proofs, checked by TLAPS, of what matters most
for every value of the parameters. Paths such as `src/src/http/client.c` are
paths of the repository, below `src/`.

    tlc -workers 2 -config MCActivation.cfg MCActivation
    tlapm ActivationProofs.tla

## 1. The system

| part | source | state it keeps | operations |
|---|---|---|---|
| activation | `src/src/http/endpoints.c` | none between calls; during one: the id read from the creation response, the responses it owns, the page of its lookup | `activate_machine`, `activate_machine_idempotent`; create, find by fingerprint, validate, delete |
| client handle | `src/src/http/client.c`, `client.h` | credential, transport, retry budget, timeout, API version | `new`, `free`, `set_auth`, `set_transport`, `set_max_retries`, `set_timeout_ms`, `set_api_version` |
| send loop | `src/src/http/client.c` | attempt, request strings, raw and parsed response | `tamga_client_send_scoped`, retry after 429, error mapping, `tamga_response_free` |
| transports | `src/src/http/transport*.c`, the callback bridge in `client.c` | connection, response under construction | perform; `tamga_http_result_set_status`, `_set_body`, `_add_header`; destroy |
| error slot | `src/src/tamga_error.c` | last error of the thread | clear, set, read |
| signing key set | `src/src/checkout/key_set.c` | growable array of (id, key) | `new`, `free`, `add_public_key`, `add_json`, lookup, try every key, label |
| licence and machine files | `src/src/checkout/license_file.c`, `machine_file.c`, `claims.c`, `cert.c`, `pem.c` | what one verification holds | verify with one key or with a set; accessors; `free` |
| public wrappers | `src/src/tamga_api.c` | none | argument checks of the offline functions |
| other endpoints | `src/src/http/endpoints.c` | during a call: a JSON tree in pieces, path, query, text | licences, machines, components, processes, check-outs, listings, entitlements, releases |
| offline proofs | `src/src/proof.c` | during a call: decoded text and signature | generate, verify |
| response accessors | `src/src/models/validation.c`, `client.c` | none; they fill the caller's variables | verdict, codes, cursor, page, rows by index |
| JSON | `src/src/util/json*.c` | parser position and depth, the tree, the output buffer | parse, set, append, write, write canonical |
| buffers, memory | `src/src/util/buf.c`, `src/src/tamga_mem.c` | a buffer and its sticky failure | reserve, append, detach, free, wipe |
| text codecs, fingerprint | `src/src/util/base64.c`, `hex.c`, `uuid.c`, `rfc3339.c`, `fingerprint.c` | none | pure |
| cryptography | `src/src/crypto/*.c` | hash contexts | verify, open, seal; pure |

How they interact. An application calls an endpoint; the endpoint builds a
request and goes through the one send loop; the loop calls a transport, which
may be the application's own and reports through setters; the answer becomes
a response the application owns. Activation is a sequence of four endpoints
with decisions in between. Handles are not shared between threads, so the
concurrency that matters is between *calls*, of several threads or
installations, on one server. Offline verification shares nothing with the
network except the `GET /signing-keys` document that applications fetch,
cache and merge into a key set, while the account rotates its key.

What is hard here, and hardly reached by tests: a reply lost or late after a
create; two activations racing, or one adopting what the other rolls back;
pages that shift between two requests; a 429 where a repeat would take a second
seat; an allocation that fails between two steps, of which there are
hundreds; a caller's transport whose setters and return value contradict each
other; a key set older than the file; rows that come and go under a caller that
pages; carries, boundaries and exceptional points that one operand in 2^32 or
2^250 meets. `PROJECT.json` lists them, each at its
line, with the properties that would catch them.

## 2. Modules

| module | what it is |
|---|---|
| `MachineServer` | the server, as `endpoints.c` relies on it (external) |
| `Activation` | both activation functions, any number of concurrent calls |
| `SeatContract` | what an activation promises about seats; `Activation` implements it |
| `Client` | a handle: configuration, send loop, transports, error slot, heap |
| `KeySet` | the key set and the rotating account |
| `OfflineVerify` | verification of licence and machine files; extends `KeySet` |
| `Endpoints` | every request builder and the two verdicts computed from an answer, under failing allocations |
| `Json`, `JsonGrammar` | parser, tree and writers; what a document is and means |
| `Lexical`, `Base64`, `Uuid`, `Rfc3339`, `Fingerprint` | the text algorithms as operators |
| `Inputs` | an input for one of the pure functions |
| `Codecs` | enumerates inputs for these and holds their reference definitions |
| `Limbs`, `Field25519`, `P256`, `Ed25519`, `Der`, `RsaPadding`, `Gcm`, `Hashing` | the cryptographic algorithms as operators |
| `Crypto` | enumerates operands for these and holds their reference definitions |
| `Buf` | the growable buffer |
| `Responses`, `Paging` | the accessors as operators; a caller that pages, and one that reads anything |
| `ActivationProofs` | theorems about `Activation`: rollback and seats, what the caller is told, and the refinement of `SeatContract` |
| `ClientProofs`, `OfflineProofs`, `EndpointsProofs`, `BufProofs`, `PagingProofs`, `JsonProofs`, `CodecsProofs` | theorems about `Client`, about `KeySet` and `OfflineVerify`, about `Endpoints`, `Buf`, `Paging`, `Json` and `Codecs`; the last two begin with what they need of induction on numbers |
| `MC...` | small instances |

A definition whose name says what is wrong with it (`RetryUncounted`,
`LabelLeaks`, `StageRowOomSkips`) stands before the one it is a faulty variant
of. It is used by no specification: each shows that a property would notice
such a fault.

### Activation

`pc[c]` is the endpoint a call is in (`create`, `lookup`, `validate`,
`rollback`), `link[c]` the request under way, `know[c]` the locals of the C
functions, `held[c]` the responses not yet freed, `slot[c]` the error slot of
the calling thread, `ret[c]` the returned code, its reason and
`*out_response`. Each endpoint clears the slot on entry (`Enter`) and sets it
when it fails (`SlotAfter`); each action ends with the set of responses that
are still alive after the frees the code makes on that path (`Alive`,
`CopyFails`, `HandOver`), so a free left out, or a slot that a later endpoint
overwrote, shows in what the call leaves behind. Each endpoint call can refuse
before it sends (`Refusals`), send, retry a 429 when
`tamga_request_is_retryable` allows it, and return; `CreateReturns`, `LookupReturns`, `ValidateReturns` and
`RollbackReturns` are what the activation does with that return: the code of
`tamga_activate_after_create`, `tamga_client_find_machine_by_fingerprint` and
the body of the idempotent variant. A request is in `net` from the time it is
sent until the server takes it, also when its sender has given up, so a create
or a DELETE can act after its call returned. Nothing is assumed of the order.

The server is external. What is assumed of it is what the comments of
`endpoints.c` say: uniqueness is checked before seats; a strict policy refuses
the create that is one too many and ALLOW_ACCESS lets it through for the
validation to report; `filter[q]` is a substring match; listings are
offset-paginated and carry `meta.page`; a patched server names the conflicting
machine. A listing it answers
can be read and has its `meta.page`. It may answer 429 or 5xx to anything, with
an unreadable creation body, and it may remove machines at any time (`Cull`).

### Client

`heap` counts the blocks alive of each kind; beside it stand the pointers to
them: the fields of the handle, `locals` of the running function, `http`, the
response being filled, and `out`, the one the caller holds. An allocation may
fail wherever the code makes one, each by itself, and every error branch frees
what it frees. A function of the API is a sequence of steps: `New` and then
`NewFails` or `NewSucceeds`, with as much of the built-in transport as could be
made; `SetAuth`, `CopyPrimary`, `CopySecondary`, `InstallAuth`; `SetTransport`,
`InstallTransport`. A send is `Begin`, `AuthHeader`, `BuildRequest`, the
transport, then `TransportFails`, `Retry` or `AnswerReturns`. `accepted` is
history: the credential of the last `set_auth` that returned TAMGA_OK.

The built-in transport is the libcurl one: `CurlStarts`, then `CurlHeader` and
`CurlBody` as libcurl calls back, and `CurlFails` or `CurlEnds`; when and how
libcurl calls is external. A caller's transport is `CallbackStarts`, the three
setters in any order, and `CallbackReturns`. `reply` is what the server said.
There are three kinds of callers' transports: one in `Careful` reports each
piece once and gives up when a setter fails; one in `Documented` reports each
piece once and returns true, as `tamga.h` and the example in the repository's
README have it; any other calls what it likes, as often as it likes, and
returns what it likes. Retry-After is the integer `strtoll` makes of
it, and the delay the code computes from it is computed with the same limits;
other headers are counted, up to `MaxHeaders`, which is 512 in the code.

### KeySet and OfflineVerify

The account has a `history` of keys; `hidden` says that the first was never
published. `AddJson`, `StageRow` (once per row) and `Merge` are
`tamga_key_set_add_json` with `tamga_key_set_stage_resource`; a merge is
interleaved with the account's rotations and any of its allocations may fail.
`cap` and `stagedCap` are the array capacities, grown as
`tamga_key_set_reserve` grows them; `ids` counts id copies alive. `caught` is
history, read by no action: the latest version of the document merged.

A file is what a reader can tell about it: the step at which reading fails, who
signed it, its claims. Signatures are ideal: a file verifies under a key iff
that key signed it, and the account's keys sign nothing before the account has
them. `Open`, `CheckSignature`, `DecodePayload`, `Label` and `Finish` are the
steps of the two `verify_core` functions, which run the same sequence; where
licence and machine files differ (order of a missing key and a bad payload, a
signature of the wrong length, the scheme) the model branches on `kind`. A definition
that covers both is mapped to one of the two sources.

Assumed: the server publishes the whole history with the ids of `Served`
(`NoCollision`: 64-bit ids of different keys differ; the computed id may
differ from the served one), stamps the kid of its current Ed25519 key
into what it signs, also under another scheme, and stamps the id of the empty
string where the key is not published.

### Endpoints

A function of `endpoints.c` is a *program*: a sequence of steps in the order
of its statements, each with the frees and the code of its error branch
(`CreateMachine`, `UpdateMachine`, `List`, ...). One action per kind of
statement runs it: `NewObject`, `SetMember` (`tamga_json_object_set` frees its
item when it fails), `SetLeaf`, `SetLateLeaf` (its failure is looked at later,
in `CheckNull`), `CopyFields`, `AddParam`, `DetachQuery`, `WriteText`,
`FreeLocals`, `SendRequest` and so on. `var` says of each local whether it is
NULL, alive or gone and `home` in which tree the object hangs, so a free
through a tree frees what hangs in it; `twice` is raised by a free or a use of
something gone. `failed` says that an allocation failed. Functions that differ
in the URL only share a program. What the send loop does with the request is
the subject of `Client`; here it succeeds or fails. `VerifyProof` is
`tamga_offline_proof_verify` of `proof.c`; the page that `has_entitlement`
searches is told apart by where the entitlement is.

### Json

The text is a sequence of tokens, revealed one by one as the parser asks for
them, so all texts within the bound are covered and a rejected one costs only
its prefix. The C recursion is `stack`, the containers open; `Unwind` frees
one of them per step. `heap` counts tree nodes and key strings. What was
parsed is written by one of the two writers and parsed again (`pass` 2); the
writers' recursion is the list `todo`, the canonical writer sorts the members
with the bottom-up merge of `tamga_json_sort_keys` (`SortKeys`, `MergePass`). `JsonGrammar`
defines documents and their meaning by cutting the text at its commas, without
a parser.

### Lexical, Base64, Uuid, Rfc3339, Fingerprint, Codecs

Each is the C function as an operator. Characters are bytes, sextets, or
classes where the code tells no more apart (a digit from 1 to 9; four
hexadecimal digits that name a high surrogate). `MaxNumberChars` and `Mantissa`
are 340 and 53 in the code. `Codecs` grows inputs a piece at a time and
states, for each, what the result has to be from a definition that shares
nothing with the algorithm: code points by arithmetic, numbers by the grammar,
calendar days by counting, components by splitting the canonical text.
Integers are read from numbers that are whole, not negative and in the range of
`strtoll`. With two components a repeated label always has its repetition next
to it; that it does among any number is proved (section 4).

### Cryptography

The code's formulas and loops are kept, the widths are CONSTANTS: limbs of W
bits (32 in the code), the modulus `2^(W*N-1) - C`, a Weierstrass
curve with a = -3 and an Edwards curve with a = -1 over small primes, bytes of
a few bits for DER, fields of 4 bits for GCM. `P256` and `Ed25519` compute with
field values; that the limb arithmetic computes those is what `MontExact`,
`ModexpExact` and `FieldExact` say. p256.c repeats the Montgomery
multiplication of bn.c for 256 bits, and both are mapped to `Limbs`. The hash
functions are the sequence of blocks they compress, whose rounds are not
interpreted; SHA-256 and MGF1 in the paddings, AES and GHASH in GCM are
operators supplied by the instance, so `GcmExact` is about what goes into the
tag and when it is compared, not about GHASH.
The references are by search: division, the chord and tangent law, the affine
Edwards law, the one DER encoding of a length, the carry-less product.

### Buf

`data`, `cap` and `failed` are the fields of `TamgaBuf`; `asked` is history:
all that the caller wanted since the last reset, with `Lost` for what could not
be named. `written` is how far into the block anything was written, which is
what the NUL of `vsnprintf` and of the detaching calls makes different from
the length; `spilled` records a block that an erasing release (growth,
`tamga_buf_free`, `tamga_string_free`) gave back with bytes in it. What was
detached goes back through such a release (`ReleaseErased`) or through plain
`tamga_free` (`ReleasePlain`), which `buf.h` allows and `fingerprint.c` uses and
which erases nothing: `Erased` makes no claim about it.
`tamga_buf_append_byte` and `_str` go through `tamga_buf_append`.

### Responses and Paging

A document is a tree of tagged values; `Get`, `AsString`, `AsInt` are the
accessors of json.c on it, the rest the functions of `client.c` and
`validation.c`. A reader with out-parameters returns them as a record, which
starts as what the caller's variables held (`TakeAll`: the code reads
everything into locals first and assigns at the end). In `Paging` a
caller either walks a listing (`Ask`, `ReadRow` for each index, `TurnPage`
with `tamga_response_next_cursor`) while `InsertRow` and `RemoveRow` change it,
or calls the readers one after the other on one of `Documents`. The server is
external: it lists the rows after the cursor in the order of their ids, with a
default and a cap on the limit.

## 3. Runs

| run | asks | bounds |
|---|---|---|
| `activation` | seats, adoption, responses, error slot, rollback of concurrent activations | 2 calls, 2 licences, 2 fingerprints of which one contains the other, 3 ids, one machine installed, 1 seat, pages of 1 row, 2 pages, 1 retry, three policies |
| `activation_fair` | every call returns; `Activation` implements `SeatContract` | the same, one policy, two kinds of call |
| `client` | heap, transports, credential, budget, waits, hand-over, answers, slot; every call returns | 2 transports, a careful one and one that does as it likes, 5 credentials, 3 requests, 6 answers, 2 headers, budgets 0 and 17 (refused), default 3 |
| `offline` | the array, the ids, atomic merges, every verdict | 2 keys, 4 entries, documents of at most 4 rows (two of them unusable), 31 files, nine kinds of arguments |
| `requests` | frees, leaks, requests, verdicts, codes of every builder; paging under change; every reader on every shape of document | all 26 programs, every argument that matters, 3 sets of optional fields; 5 rows, cap 2 (100), default 1 (25), limits 0 to 3, one unreadable row |
| `json` | grammar, meaning, memory, codes, both writers | texts of at most 9 tokens, depth 3, 2 keys, one odd token |
| `utilities` | nine codecs and fifteen cryptographic algorithms against references; the buffer: overruns, truncation, NULs, erasure | 4 bytes of UTF-8, 6 of base64, 6 of a number, strings of 8, 2 components, UUIDs with one character wrong, stamps around every boundary; limbs of 3 bits, moduli 253, 23 and 29, bytes of 2 and 4 bits, three chunks of up to 17 bytes in blocks of 6 and 8; SIZE_MAX 6, minimal capacity 2, 6 bytes asked for |
| `adopt_race`, `lost_answer`, `endpoint_unclean`, `json_oom`, `modexp_length` | a sentence of the repository each, which the code does not keep | as `activation`, smaller; as `client`, with one documented transport; as `requests`; as `json`; as `utilities` |

`MCRequests` and `MCUtilities` put systems side by side that share no state; a
behaviour is one of the first or one of the second, so that nothing is added to
either and the states are those of both together, not their product. The
theorems of section 4 are about the specification of each by itself.

Why the bounds are enough. Every hand-over in an activation is between one
call and another actor: two calls suffice for a row to be adopted by one and
rolled back by the other, and two licences for the "wrong licence" answer. With
one row per page and two pages, a lookup can miss, hit on the second page, be
shifted and meet the cap (10 pages in the code; the cap's value has no
other role). Three ids: one installed, one for each call. One retry gives both a
repeated and an exhausted request. In `client` a handle passes
through every order of configuration and sends, with every allocation failing
or not; answers sit at each branch of the loop and of the error mapping; with
room for two headers, a third is one too many. In `offline`, the initial capacity is 1
instead of 4 so that the array grows twice within four entries; a second key
is enough for a rotation and for an id that the SDK computes differently; the
clock readings sit below the tolerance of 60 s, on the last second that is still
accepted, and one past it. The theorems hold without bounds. `MaxEntries` is the
only bound the code does not have; it restricts how many keys a set may come to
hold, and the proofs hold for every value of it.

The builders in `requests` have no bound but the argument sets: programs are
finite. In `json` nine tokens hold every container inside every other, at the depth
limit and one past it, with a repeated key; the limit is 64 in the code and
its value has no other role. In `utilities` the buffer's capacity doubles from 2 to 4 and the
next doubling overflows; for the cryptography all operands of a field, and all pairs of
points of a curve in several projective representations, are tried; widths were
chosen so that the rare cases exist: a modulus that fills its limbs, a second
carry in a fold, an order below the prime (x between the two), points of
small order, lengths on both sides of each DER form, messages that end just
before, at and after the room for the length.

`CHECK_DEADLOCK FALSE` in the activation runs and in `requests`: the calls or the
walk of an instance end, and nothing need happen after that. The other systems
never stop.

### What each property says

The runs check the properties in the second column; most are conjunctions of
named parts, each with its own comment in the module.

| run | property | parts |
|---|---|---|
| `activation` | `RollbackOwnRow`: a DELETE names a row of its own call | |
| | `SeatKept`: no seat is lost without an overage | |
| | `LookupExact`: yes of our row only, no only when there is none | `AdoptedIsOurs`, `QuietLookupFindsOurs` |
| | `SeatsAsTold`: an error that says "no seat" is true for ever, nobody takes two | `RefusedTookNoSeat`, `CreateSentOnce` |
| | `CallerTold`: response, ownership and error slot agree with the code | `OutResponseTable`, `NoResponseLeaked`, `ErrorSlotAgrees` |
| | `RollbackComplete`: an overage was rolled back, or tried to be | |
| `activation_fair` | `CallsReturn`, `ImplementsContract` | |
| `client` | `BlocksAccounted`: no leak, no double free | `HeapReachable`, `TransportsReleased` |
| | `CredentialWhole`: every request carries the last credential accepted, whole | |
| | `RetriesBounded` | `RetryBudget`, `WaitBounded` |
| | `Handover`: which codes come with a response, of which status, and which with none | |
| | `AnswerTold`: what is handed over is what the server said, unless the transport ignores a failed setter; the slot agrees | `AnswerHeard`, `SlotAgrees` |
| | `SendReturns` | |
| `offline` | `BlocksAccounted` | `SlotsFit`, `IdsOwned`, `NothingKept` |
| | `MergeAllOrNothing` | |
| | `TrustsSignedOnly`: what TAMGA_OK means | `GenuineOnly`, `VerifiedBeforeUse` |
| | `RotationSurvived`: a set that caught up refuses no genuine file | |
| | `RefusalTrue`: a refusal says what is wrong | `GenuineNotForged`, `LabelNamesTheCure`, `OomIsNoVerdict`, `KidOnlyForEd25519` |
| `requests` | `Ownership`: every object freed once; two creates lose their metadata | `NoDoubleFree`, `OnlyMetadataLeaks` |
| | `RequestWhole`: a failed allocation never makes a request smaller | |
| | `OutcomeSound`: lack of memory is no verdict, and another error only where an entitlement's usage is acted on | `OomNamed`, `VerdictSound` |
| | `WalkSound`: no row twice; every row that stayed, when the limit is one the server keeps | `ReadOnce`, `PagedWhole` |
| | `ReadersSound`: no mixture, nothing out of place, nothing made up | `OutsWhole`, `RowsInPlace`, `VerdictOneSource`, `OverageEitherWay`, `NumbersHonest` |
| | `PagingEnds` | |
| `json` | `ParserSound`: blocks allocated are blocks owned, at every step; memory is told from malformed text, save for an object key that could not be detached | `Accounted`, `OomDistinct` |
| | `AcceptsExactly`: the documents of the grammar, with their meaning | |
| | `WrittenWhole`: what a writer hands out is the whole document, sorted if canonical | |
| `utilities` | `TokensExact` | `Utf8Exact`, `StringExact`, `NumberExact`, `DoubleExact` |
| | `TextsExact` | `Base64Exact`, `UuidExact`, `FingerprintFaithful` |
| | `StampsExact` | `CalendarExact` (accepted exactly when the day exists), `InstantExact` |
| | `ArithmeticExact` | `MontExact`, `ModexpExact`, `FieldExact`, `GfExact` |
| | `CurvesExact` | `JacobianExact`, `EcdsaExact`, `EdwardsComplete`, `DecodeExact`, `EddsaExact` |
| | `EncodingsExact` | `DerExact`, `RsaKeyExact`, `EcKeyExact`, `PaddingExact` |
| | `StreamsExact` | `StreamExact`, `GcmExact` |
| | `BufferSound`: no overrun, no overflow; growth, `tamga_buf_free` and `tamga_string_free` leave nothing behind | `NoOverrun`, `Erased` |
| | `DetachedWhole`: nothing truncated, no NUL in a string | `NothingTruncated`, `StringHonest` |

Type invariants are checked alone in the first three systems and as a part of
`Ownership`, `ParserSound`, `BufferSound` and `WalkSound` in the others.

### What the documentation says otherwise

Five runs end in a counterexample, each against one sentence of the repository
(quoted in `PROJECT.json`):

- `adopt_race`: a rollback can delete a row another call has meanwhile adopted
  and reported valid; creating the row does not keep the rollback away from it.
- `lost_answer`: a transport that reports and returns true, as `tamga.h`, the
  example of the README and the mock transport of the tests have it, turns a
  body that `tamga_http_result_set_body` could not copy into TAMGA_OK without a
  body (`AnswerNotLost`; `AnswerHeard` is about the others).
- `endpoint_unclean`: `create_component` and `create_process` lose the parsed
  metadata when an allocation of an earlier member fails; and a path of an
  entitlement action that cannot be allocated is `TAMGA_ERR_NULL_ARGUMENT`,
  blamed on the ids. TLC stops at the first; without those two functions in
  `Calls` it finds the second.
- `json_oom`: the parser calls a key that could not be detached "an invalid
  object key". A send then takes the answer for text that is no JSON and
  returns TAMGA_OK without a tree, which every accessor reads as "not valid".
- `modexp_length`: an odd modulus with its top bit set is refused when its
  length is not a multiple of four bytes.

Modelling met more places where the code does something a reader of the docs
would not expect. The passing properties are stated so that they hold with them:

- with `out_response` NULL, a machine that is already activated *is* an error,
  `TAMGA_ERR_NULL_ARGUMENT` (`OutResponseTable`);
- two machines racing for the last seat are both rolled back;
- a machine removed between two pages makes the lookup miss
  (`QuietLookupFindsOurs` assumes that none is);
- `TAMGA_ERR_NO_TRANSPORT` also in a build that has one, when creating it fails;
- `TAMGA_ERR_SIGNATURE_INVALID` for a genuine file whose kid was never looked
  up, because a wrong licence key made it unreadable;
- `tamga_response_next_cursor` answers NULL before the last page when the limit
  exceeds the server's cap, or is 0 (`PagedWhole` is about limits the server keeps);
- `has_entitlement` looks at the first page only;
- 2^53 + 1 is read as 2^53 (`DoubleExact`).

`OnlyMetadataLeaks`, `OomNamed`, `OomDistinct` and `ModexpExact`, which pass,
name the exceptions of `endpoint_unclean`, `json_oom` and `modexp_length` and
say that there is no other.

### Fairness

`FairSpec` of `Activation` and of `Client` is weak fairness of the calling
thread alone. In `Client` that is of the steps of a configuration call
(`Proceed`), of the send loop, of a caller's callback, which goes on and comes
back, and of the built-in transport as long as the timeout is not 0. A thread
inside a call keeps running, and a request it waits for ends at the latest with
the timeout of the transport, which `tamga_client_set_timeout_ms` does not let
be 0 (a built-in transport passes it on; a caller's own transport is assumed to
return). Neither the server nor the network owes anything: the server may
answer 429 for ever or never answer.

`ReaderSpec` of `Paging` has weak fairness of the caller's own loop; rows may come and
go or not. `PagingEnds` relies on the ids of a listing being finitely many.

## 4. Proofs

All theorems hold for any sets of calls, licences, keys, files, answers,
documents and so on, and for any bounds, under the named assumptions of the
modules, which state the types of the constants and, for `KeySet`,
`NoCollision`. TLC evaluates them on every instance. Each invariant below was
first checked by TLC on the instance of its run.

- `ActivationProofs`. `RollbackOwnRow` is not inductive: the id in a DELETE
  comes from `know`, which came from a reply. `IInv` follows the id:
  `ReplyOwned` (a creation reply names a row of the call it is for),
  `MineOwned` (so does what the call remembers, and the row is alive or
  culled until an overage is known), `VerdictLate`, `RollbackReady` (a
  rollback starts only with an id, the caller's wish and an overage) and
  `RollbackLast` (after its DELETE a call sends nothing else, so the facts
  about it stay). Theorems: `Invariance`, `TypeCorrect`, `RollbackOnlyOwnRow`,
  `SeatsKept`.
- In its second part, `CallInv` adds to `IInv` what one call and the server know
  of each other. A late create is what makes `RefusedTookNoSeat` hard: so
  `OneRequest` (a call has one request under way, the one it waits for or the
  one it gave up on when it returned) and `OneRow` (a create is in the network
  only while the call has no row, and after a refusal there is neither).
  `Ours` follows an adopted id from the conflict or the listing; `DeleteTrue`
  says that an acknowledged DELETE has left no row; `PathFits` and `ReplyFits`
  tie phase, path and answer together. `Ahead` is for the lookup: while
  nothing is removed, the row behind the conflict stands on no page already
  read and within the page count last reported, because ids are handed out in
  listing order (`RowsKept`, with `InstalledFirst` for the machines from
  before) and so a new row never moves an old one. The proof showed that
  `QuietLookupFindsOurs` needs the listing to have no more pages than the
  cap, which the instance had hidden and the property now says. Theorems:
  `CallInvariance`, `LookupIsExact`, `SeatsAreAsTold`, `CallerIsTold`,
  `RollbackIsComplete`, and `ContractIsImplemented`: the initial state maps to
  an initial state of `SeatContract` and each action to one of its steps or to
  a stutter, one lemma for each action.
- `ClientProofs`. The block count (`Balanced`: of each kind as many blocks as
  pointers) needs to know at each step what the handle holds (`HandleShape`:
  among others that the credential in it is the one accepted, both copies),
  what the running call has (`CallShape`, `LocalShape`: which locals point to a
  block) and how far it is (`Effort`: attempts, requests sent, and that only
  repeatable requests are repeated). There is a lemma for each action.
  Theorems: `Invariance`, `TypeCorrect`, `NoLeak` and `DestroyedOnce` (together
  `BlocksAlwaysAccounted`), `BudgetKept` and `WaitsBounded` (together
  `RetriesAlwaysBounded`), `CredentialAlwaysWhole`. `ReplyInv` adds `Filled`:
  nothing is reported before the call ends, and what libcurl or a careful
  callback has filled in so far is what the server said. Theorems:
  `ReplyInvariance`, `HandoverSound`, `AnswerAlwaysTold`, for any mixture of
  transports.
- `OfflineProofs`. `KeySetInv`: documents list every key published at their
  version (`Covers`), every usable row read so far is staged (`Staged`), so
  what was caught up with is held (`CaughtUp`), every entry's id is the served or
  computed one of its key (`EntriesHonest`, `RowsHonest`), no key comes twice
  in the history. `VerifyInv`: what a verification owns (`Owned`), that a key
  set implies Ed25519 (`SchemeAgrees`), that the payload of an unsigned file is
  reached with a set only and never gets past the label (`Trust`), and what
  each refusal says about the file (`Reasons`). `GenuineNotForged` then needs
  `NoCollision`: an id that resolves belongs to the signer. `MergeInv` is for
  `MergeAllOrNothing`: after n rows as many entries are staged as there are
  usable rows among them, each at its rank, and the others are counted;
  `Usable` says by rank which rows a document adds. Theorems: `Invariance`,
  `TypeCorrect`, `MergeIsAtomic`, and one for each other invariant of the
  `offline` run and for each of their parts.
- `EndpointsProofs`. The argument is about the text of a function, once for all
  its runs. A *view* says what is known before a statement if nothing failed so
  far: which variables were pointed at memory, checked, handed to a tree,
  freed; which members and parameters were added; whether a failure may still
  be waiting in a local status. `Allowed` says of each kind of statement what
  the view must have for it: the frees of an error branch are what is alive and
  in no tree, a member is set in an object already checked, nothing is sent
  while an allocation is unchecked, and what is sent is what the caller asked
  for. `CallInv` is inductive: a call inside a disciplined program agrees with
  the view at its statement (`MemoryAgrees`, `FailureShows`, `ContentAgrees`,
  `AnswerAgrees`), or has returned and kept its promises. One lemma for each
  action shows that a statement that is allowed keeps this, whichever
  allocation fails, and one for each function (`CreateMachineKeeps`, ...) gives
  its views and shows it disciplined, for all arguments. Finding these showed where
  the discipline has exceptions and why they do no harm: the two flat creates
  lose the metadata, and a path that could not be built is blamed on the ids by
  the two actions on usage. `EndpointsAssumption` says which functions there
  are and that sets of attributes consist of the optional ones. Theorems:
  `CallsKeepTheirPlan`, `ObjectsAreFreedOnce`, `RequestsAreWhole`,
  `OutcomesAreSound`.
- `BufProofs`. The five invariants of `Buf` and `Faithful` (a buffer that has
  not failed holds all it was asked to hold) are inductive together: what is
  detached is what is in the buffer, and erasing up to `cap`, or up to the NUL of
  a string, erases all that was written because nothing was written past it.
  Blocks given back with plain `tamga_free` are not claimed to be erased. The arithmetic is in
  `NewCapRoom`: the capacity arrived at has the room asked for. Theorems:
  `BufInvariant`, `BufTypes`, `BufNoOverrun`, `BufNothingTruncated`,
  `BufStringHonest`, `BufErased`; together `BufAlwaysSound` and
  `BufDetachedWhole`.
- `PagingProofs`. `PagingInv`: the page held lists rows after the cursor in
  order, and a row that stayed is on it or comes after a full page
  (`PageHeld`); what has been read is what lies before the index and the
  cursor (`ReadSoFar`). The lemmas count a page: the k-th row after a cursor is
  the one with k rows up to it. Documents are assumed to be what the parser
  builds (`ReadersAssumption`: an array is a list, a truth value is one of two).
  The proof found `Whole`, the reference for readers with out-parameters, too
  generous about which kind of field may be taken, which is corrected.
  Theorems: `PagingInvariance`, `WalkIsSound`, `ReadersAreSound`.
- `JsonProofs`. Two arguments. The sort of the canonical writer is a recursive
  function over passes, whose inner loop is another; that they exist and what
  they compute is shown by least counterexample on the naturals, and so
  `KeysAreSorted` holds for objects of any size. The parser's `Accounted` needs
  to know where containers are open (`Placed`), which of them holds a key
  (`KeysHeld`), why a step failed (`Blamed`) and that a container is counted
  with its members; and since replacing a repeated key frees what the old value
  owned, that every value held, at any depth, is a tree counted as it was
  built. A tree of any depth cannot be defined without recursion, so `Trees`
  says that a set of values exists that is closed under taking members, has all
  values held in it, and in which each is counted right and no object has a
  key twice. Theorems: `KeysAreSorted`, `ParserInvariance`, `ParserIsSound`.
  (The token of a comma is called `comma` because the prover cannot take
  the character.)
- `CodecsProofs`. `Inputs` says of what an input is a sequence, and the rest is
  about the operators, for inputs of any length. Stamps: the division that C
  truncates, corrected below zero, rounds down, so the day number is
  365y + y/4 - y/100 + y/400 of the year from March (`DaysPlain`), and the next
  day is one more at the end of a month, of February and of the year; a date is
  accepted if and only if its day exists. UTF-8:
  the code's byte ranges and the code points of the reference are both told as
  ranges of four bytes (`ScanCases`, `EncodesCases`). Numbers: scanner and
  grammar see of a text only at which positions which class of character is, and
  on these they agree (`ClassesScan`). Strings: the scanner takes an item of
  the grammar at each step (`EndStepWidth`, `BodyStepWidth`), and by induction
  from the end both get there or neither does. Doubles: `RoundsRight`, with
  `TwoTo` for powers of two, which the prover knows nothing of.
  Base64: the decoder's loop is put in closed form (`State64`: the bits held
  after i sextets, and byte m from the two or three sextets it lies in), each
  round of the loop is shown to take one such state to the next
  (`StateRound`), the checks before it to pass exactly the texts padded right
  or not at all (`ShapesWhole`, `WholeShapes`), and, with the bits left over
  zero, encoding gives each sextet again (`EncodesBack`). UUIDs: every text
  that is put together from pieces is told by its characters at each of the 36
  places (`HyphensPutIn`, `ParsesHyphenated`, `FormatMeans`). Fingerprints:
  sorting is told by ranks (`SortedIs`), texts that begin with the same label
  and '=' stand together in the order (`BeforeConvex`), so a repeated label is a
  repeated neighbour (`RepeatsMeans`), and the joined text has its separators exactly between the
  components, so that cutting there, and at the first '=', undoes it
  (`JoinedIsLaid`, `SplitIs`).
  `CodecsAssumption` types the inputs: bytes, texts, sequences of characters.
  Theorems: `TokensAreExact`, `TextsAreExact`, `StampsAreExact`.

Only model-checked, and why:

- liveness (`CallsReturn`, `SendReturns`, `PagingEnds`): fairness and ENABLED
  are out of the prover's reach;
- `AcceptsExactly`, `WrittenWhole`: their reference is the grammar, a RECURSIVE
  definition, in whose presence the prover has no arithmetic;
- `ArithmeticExact`, `CurvesExact`, `EncodingsExact`, `StreamsExact`: the
  references of `Crypto` speak of polynomials, group orders and residues of
  numbers of any length, in which the provers' arithmetic does not reach.

## 5. Not modelled

The AES rounds, the compression functions of SHA-256 and SHA-512, HMAC, HKDF
and the constant-time comparison: fixed sequences of word operations without a
smaller instance, which the repository tests against published vectors. In the
models of the protocols (`OfflineVerify`, `Endpoints`) signatures, digests and
ciphers are ideal; `Crypto` is about the algorithms themselves. Timing is not
modelled. `tamga_json_clone`, and how the writers spell numbers and escapes.
The options passed to libcurl, and the WinHTTP transport, including how each
treats very large timeouts. Readers that hand
out one field, header lookup, `get_json` and the key derivation helpers of
`tamga_api.c`. Tests, fuzzers, examples and build files are not part of the
library. Data races on a handle shared between threads, which the header
forbids, are not considered.

## 6. Plan

1. Done: `Activation` with its contract, `Client`, `KeySet`, `OfflineVerify`,
   `Endpoints`, `Json`, the codecs, the cryptography, `Buf`, `Responses` and
   `Paging`; the theorems of section 4.
2. Theorems next: the carry arithmetic of `Limbs`, the part of `Crypto` whose
   reference is the arithmetic of natural numbers alone.
