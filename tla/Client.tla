------------------------------- MODULE Client -------------------------------
(***************************************************************************)
(* A TamgaClient handle (src/src/http/client.c): its configuration, the    *)
(* send loop every endpoint goes through, and the transport beneath it,    *)
(* libcurl or a callback of the caller's.                                  *)
(*                                                                         *)
(* A handle belongs to one thread.  What can go wrong comes from outside:  *)
(* any allocation may fail, the server answers as it likes, and a caller's *)
(* transport reports through setters it may misuse.  `heap` counts the     *)
(* blocks alive of each kind; whoever points to them is held in separate   *)
(* variables, so a leak, a double free or a dangling pointer shows as a    *)
(* difference between the two.                                             *)
(***************************************************************************)
EXTENDS Integers, FiniteSets

CONSTANTS
  Transports,   \* the caller's own transports (their user_data)
  Careful,      \* those that give up when a setter returns false
  Documented,   \* those that ignore it, as the README's example does
  NoTransport, Builtin,
  Backend,      \* this build has a transport compiled in
  MaxHeaders,   \* the 512-header cap
  Budgets,      \* what callers pass to set_max_retries
  Timeouts,     \* what callers pass to set_timeout_ms
  Credentials,  \* what callers pass to set_auth
  Requests,     \* what endpoints ask send for
  Answers,      \* what the server may answer
  Jitters,      \* tamga_retry_jitter_ms
  NoAuth, NoRequest, NoReply, NoResponse, NoAfter

(***************************************************************************)
(* kind: email needs a second part, query travels in the URL, stale is a   *)
(* value outside the enum; clean: no line break.                           *)
(***************************************************************************)
AuthKinds == {"token", "email", "query", "stale"}

Credential == [kind : AuthKinds, second : BOOLEAN, clean : BOOLEAN]

\* action: one of the POST suffixes that may be repeated.
Request == [kind : {"get", "action", "create", "delete"}, otpClean : BOOLEAN]

\* JSON bodies, by errors[0].code: absent, one the SDK knows, another.
Json == {"data", "known", "other"}

\* No block at all, a block of length zero, HTML from a proxy, JSON.
Bodies == {"none", "empty", "text"} \cup Json

\* What strtoll makes of Retry-After.
Afters == Int \cup {NoAfter}

Answer == [status : 100..599, body : Bodies, after : Afters]

Failures == {"NETWORK", "OVERSIZED", "OUT_OF_MEMORY"}

\* TamgaHttpResponse.  list: the header array exists; headers: those in it.
Http == [status : 0..599, body : Bodies, list : BOOLEAN, headers : Nat,
         after : Afters, failure : Failures]

\* TamgaResponse.  parsed: the JSON tree; coded: api_error_code was copied.
Response == [status : 0..599, body : Bodies, list : BOOLEAN, headers : Nat,
             after : Afters, parsed : BOOLEAN, coded : BOOLEAN]

ASSUME ClientAssumption ==
  /\ Careful \subseteq Transports /\ Documented \subseteq Transports
  /\ NoTransport \notin Transports /\ Builtin \notin Transports
  /\ Builtin # NoTransport
  /\ Backend \in BOOLEAN
  /\ MaxHeaders \in Nat \ {0}
  /\ Budgets \subseteq Nat
  /\ Timeouts \subseteq Nat
  /\ Credentials \subseteq Credential /\ NoAuth \notin Credential
  /\ Requests \subseteq Request /\ NoRequest \notin Request
  /\ Answers \subseteq Answer /\ NoReply \notin Answer
  /\ Jitters \subseteq 0..999 /\ Jitters # {}
  /\ NoResponse \notin Response
  /\ NoAfter \notin Int

VARIABLES
  open,       \* the caller holds the handle
  fields,     \* the struct and its strings
  auth,       \* auth_kind, auth_primary, auth_secondary, auth_configured
  transport,
  retries,    \* max_retries
  timeout,    \* timeout_ms
  given,      \* the transports handed to the client
  destroys,   \* how often each transport's destroy ran
  accepted,   \* the credential of the last set_auth that said TAMGA_OK
  heap,       \* blocks alive, by kind
  pc,
  arg,        \* the argument of the setter that runs
  locals,     \* what the running function's own pointers hold
  req,        \* the request being made
  wire,       \* the credential the request carries
  attempt, sent, waited,
  via,        \* the transport asked
  reply,      \* what the server answered it
  http,       \* the TamgaHttpResponse being filled
  told,       \* what libcurl or an honest callback has reported
  out,        \* the response the caller holds
  result,     \* what the send that filled `out` returned
  ret, slot   \* what the last call returned, and the error slot

settings == <<retries, timeout>>
ownership == <<given, destroys>>
config == <<open, fields, auth, transport, settings, ownership, accepted>>
sending == <<req, wire, attempt, sent, waited, via, reply, http, told>>
outcome == <<out, result>>
report == <<ret, slot>>
vars == <<config, heap, pc, arg, locals, sending, outcome, report>>

Fields == {"client", "account_id", "host", "api_version", "origin", "base_url"}

\* What a request is built from, and what only libcurl's perform holds.
RequestParts == {"auth_name", "auth_value", "url", "version"}
CurlParts == {"slist", "buf"}

Kinds == Fields \cup RequestParts \cup CurlParts
         \cup {"primary", "secondary", "state", "handle", "bridge", "vtable",
               "body", "list", "header", "response", "json", "error_code"}

ServerErrors == {"RATE_LIMITED", "KNOWN_CODE", "UNAUTHORIZED", "FORBIDDEN",
                 "NOT_FOUND", "SERVER", "API"}

Codes == {"OK", "NULL_ARGUMENT", "OUT_OF_MEMORY", "UNSUPPORTED_SCHEME",
          "LENGTH_INVALID", "NO_TRANSPORT", "TRANSPORT"} \cup ServerErrors

Steps == {"idle", "fields", "primary", "secondary", "install",
          "vtable", "auth_header", "build", "perform", "callback", "curl",
          "failed", "answered"}

Copies == Credential \cup {NoAuth}

\* A credential copied into the handle, part by part.
Auth == [kind : AuthKinds, primary : Copies, secondary : Copies,
         configured : BOOLEAN]

\* tamga_calloc leaves kind 0.
Unset == [kind |-> "token", primary |-> NoAuth, secondary |-> NoAuth,
          configured |-> FALSE]

Wire == [kind : AuthKinds, primary : Copies, secondary : Copies]

\* tamga_http_response_init
EmptyHttp == [status |-> 0, body |-> "none", list |-> FALSE, headers |-> 0,
              after |-> NoAfter, failure |-> "NETWORK"]

TypeOK ==
  /\ open \in BOOLEAN
  /\ fields \subseteq Fields
  /\ auth \in Auth
  /\ transport \in Transports \cup {NoTransport, Builtin}
  /\ retries \in 0..16
  /\ timeout \in Nat
  /\ given \subseteq Transports
  /\ destroys \in [Transports -> Nat]
  /\ accepted \in Copies
  /\ heap \in [Kinds -> Int]
  /\ pc \in Steps
  /\ arg \in Copies \cup Transports
  /\ locals \subseteq Kinds
  /\ req \in Request \cup {NoRequest}
  /\ wire \in Wire \cup {NoAuth}
  /\ attempt \in 0..16
  /\ sent \in Nat
  /\ waited \in Nat
  /\ via \in Transports \cup {NoTransport, Builtin}
  /\ reply \in Answer \cup {NoReply}
  /\ http \in Http
  /\ told \subseteq {"status", "body", "header"}
  /\ out \in Response \cup {NoResponse}
  /\ result \in Codes \cup {"none"}
  /\ ret \in Codes \cup {"none"}
  /\ slot \in Codes \cup {"none"}

Init ==
  /\ open = FALSE /\ fields = {}
  /\ auth = Unset /\ accepted = NoAuth
  /\ transport = NoTransport
  /\ retries = 0 /\ timeout = 0
  /\ given = {} /\ destroys = [t \in Transports |-> 0]
  /\ heap = [k \in Kinds |-> 0]
  /\ pc = "idle" /\ arg = NoAuth /\ locals = {}
  /\ req = NoRequest /\ wire = NoAuth
  /\ attempt = 0 /\ sent = 0 /\ waited = 0
  /\ via = NoTransport /\ reply = NoReply /\ http = EmptyHttp /\ told = {}
  /\ out = NoResponse
  /\ result = "none" /\ ret = "none" /\ slot = "none"

-----------------------------------------------------------------------------
(* The heap and the error slot.                                            *)

Alloc(h, blocks) ==
  [k \in Kinds |-> h[k] + IF k \in blocks THEN 1 ELSE 0]

Dealloc(h, blocks) ==
  [k \in Kinds |-> h[k] - IF k \in blocks THEN 1 ELSE 0]

\* What a TamgaHttpResponse, or the response it became, holds of each kind.
HttpHolds(h, k) ==
  CASE k = "body" -> IF h.body = "none" THEN 0 ELSE 1
    [] k = "list" -> IF h.list THEN 1 ELSE 0
    [] k = "header" -> h.headers
    [] OTHER -> 0

ResponseHolds(r, k) ==
  IF r = NoResponse THEN 0
  ELSE CASE k = "response" -> 1
         [] k = "json" -> IF r.parsed THEN 1 ELSE 0
         [] k = "error_code" -> IF r.coded THEN 1 ELSE 0
         [] OTHER -> HttpHolds(r, k)

\* tamga_http_response_free
FreeHttp(h) == [k \in Kinds |-> h[k] - HttpHolds(http, k)]

\* tamga_response_release
Release(h, r) == [k \in Kinds |-> h[k] - ResponseHolds(r, k)]

\* The two parts of the credential a handle points to.
AuthBlocks(a) == (IF a.primary = NoAuth THEN {} ELSE {"primary"})
                 \cup (IF a.secondary = NoAuth THEN {} ELSE {"secondary"})

\* A transport of the caller's, and the one tamga_http_transport_create_curl
\* makes.
TransportBlocks(t) == IF t = NoTransport THEN {}
                      ELSE IF t = Builtin THEN {"state", "handle", "vtable"}
                      ELSE {"bridge", "vtable"}

\* tamga_error_clear, at the top of every entry point.
Clear == ret' = "none" /\ slot' = "none"

\* tamga_error_set
Fail(s) == ret' = s /\ slot' = s

\* TAMGA_OK says nothing to the slot.
Succeed == ret' = "OK" /\ slot' = slot

\* An entry point that clears the slot and returns in one step.
Done(s) == ret' = s /\ slot' = IF s = "OK" THEN "none" ELSE s

\* The running function returns and its own pointers are gone.
Leave == pc' = "idle" /\ locals' = {} /\ arg' = NoAuth

-----------------------------------------------------------------------------
(* Lifecycle and configuration.                                            *)

\* Any entry point called with a required pointer missing.
NullArgument ==
  /\ pc = "idle"
  /\ Done("NULL_ARGUMENT")
  /\ UNCHANGED <<config, heap, pc, arg, locals, sending, outcome>>

\* tamga_client_new: the struct, then five strings of which any may fail;
\* base_url is composed from origin.
New ==
  /\ pc = "idle" /\ ~open
  /\ \/ /\ Done("OUT_OF_MEMORY")
        /\ UNCHANGED <<fields, settings, heap, pc>>
     \/ \E made \in SUBSET (Fields \ {"client"}) :
          /\ "base_url" \in made => "origin" \in made
          /\ Clear
          /\ fields' = made \cup {"client"}
          /\ heap' = Alloc(heap, fields')
          /\ retries' = 3 /\ timeout' = 45000
          /\ pc' = "fields"
  /\ UNCHANGED <<open, auth, transport, ownership, accepted, arg, locals,
                 sending, outcome>>

\* What tamga_client_free leaves of the heap.
FreeClient(h) ==
  Dealloc(Dealloc(Dealloc(h, fields), AuthBlocks(auth)),
          TransportBlocks(transport))

NewFails ==
  /\ pc = "fields" /\ fields # Fields
  /\ heap' = FreeClient(heap)
  /\ fields' = {}
  /\ Fail("OUT_OF_MEMORY") /\ Leave
  /\ UNCHANGED <<open, auth, transport, settings, ownership, accepted,
                 sending, outcome>>

\* How far tamga_http_transport_create_curl may get.
CurlAttempts == {{}, {"state"}, {"state", "handle"}, TransportBlocks(Builtin)}

\* A default transport that cannot be created is no error here.
NewSucceeds ==
  /\ pc = "fields" /\ fields = Fields
  /\ \E made \in IF Backend THEN CurlAttempts ELSE {{}} :
       \/ /\ made = TransportBlocks(Builtin)
          /\ transport' = Builtin
          /\ heap' = Alloc(heap, made)
       \/ /\ made # TransportBlocks(Builtin)
          /\ transport' = NoTransport
          /\ heap' = Dealloc(Alloc(heap, made), made)
  /\ open' = TRUE
  /\ Succeed /\ Leave
  /\ UNCHANGED <<fields, auth, settings, ownership, accepted, sending, outcome>>

\* tamga_http_transport_destroy
Destroyed(t) ==
  IF t \in Transports THEN [destroys EXCEPT ![t] = @ + 1] ELSE destroys

\* tamga_client_free; the error slot is left alone.
Free ==
  /\ pc = "idle" /\ open
  /\ heap' = FreeClient(heap)
  /\ open' = FALSE /\ fields' = {}
  /\ auth' = Unset /\ accepted' = NoAuth
  /\ destroys' = Destroyed(transport)
  /\ transport' = NoTransport
  /\ UNCHANGED <<settings, given, pc, arg, locals, sending, outcome, report>>

\* The checks of tamga_client_set_auth, in order.
AuthRefusal(a) ==
  IF a.kind = "stale" THEN {"UNSUPPORTED_SCHEME"}
  ELSE IF (a.kind = "email" /\ ~a.second) \/ ~a.clean THEN {"NULL_ARGUMENT"}
  ELSE {}

SetAuthKindFirst(a) ==
  /\ pc = "idle" /\ open
  /\ \/ /\ \E s \in AuthRefusal(a) : Done(s)
        /\ UNCHANGED <<auth, pc, arg>>
     \/ /\ AuthRefusal(a) = {}
        /\ Clear
        /\ auth' = [auth EXCEPT !.kind = a.kind]
        /\ pc' = "primary" /\ arg' = a
  /\ UNCHANGED <<open, fields, transport, settings, ownership, accepted,
                 heap, locals, sending, outcome>>

\* tamga_client_set_auth up to the first copy.
SetAuth(a) ==
  /\ pc = "idle" /\ open
  /\ \/ /\ \E s \in AuthRefusal(a) : Done(s)
        /\ UNCHANGED <<pc, arg>>
     \/ /\ AuthRefusal(a) = {}
        /\ Clear
        /\ pc' = "primary" /\ arg' = a
  /\ UNCHANGED <<config, heap, locals, sending, outcome>>

CopyPrimary ==
  /\ pc = "primary"
  /\ \/ /\ Fail("OUT_OF_MEMORY") /\ Leave
        /\ UNCHANGED heap
     \/ /\ heap' = Alloc(heap, {"primary"})
        /\ locals' = {"primary"}
        /\ pc' = IF arg.second THEN "secondary" ELSE "install"
        /\ UNCHANGED <<arg, report>>
  /\ UNCHANGED <<config, sending, outcome>>

\* When the second copy fails the first is freed.
CopySecondary ==
  /\ pc = "secondary"
  /\ \/ /\ heap' = Dealloc(heap, {"primary"})
        /\ Fail("OUT_OF_MEMORY") /\ Leave
     \/ /\ heap' = Alloc(heap, {"secondary"})
        /\ locals' = locals \cup {"secondary"}
        /\ pc' = "install"
        /\ UNCHANGED <<arg, report>>
  /\ UNCHANGED <<config, sending, outcome>>

InstallAuth ==
  /\ pc = "install"
  /\ heap' = Dealloc(heap, AuthBlocks(auth))
  /\ auth' = [kind |-> arg.kind, primary |-> arg,
              secondary |-> IF "secondary" \in locals THEN arg ELSE NoAuth,
              configured |-> TRUE]
  /\ accepted' = arg
  /\ Succeed /\ Leave
  /\ UNCHANGED <<open, fields, transport, settings, ownership, sending, outcome>>

\* tamga_client_set_transport up to the bridge; the caller hands each of its
\* transports over once.
SetTransport(t) ==
  /\ pc = "idle" /\ open /\ t \notin given
  /\ \/ /\ Done("OUT_OF_MEMORY")
        /\ UNCHANGED <<heap, pc, arg, locals>>
     \/ /\ Clear
        /\ heap' = Alloc(heap, {"bridge"})
        /\ locals' = {"bridge"}
        /\ pc' = "vtable" /\ arg' = t
  /\ UNCHANGED <<config, sending, outcome>>

\* A transport that could not be registered stays the caller's.
InstallTransport ==
  /\ pc = "vtable"
  /\ \/ /\ heap' = Dealloc(heap, {"bridge"})
        /\ Fail("OUT_OF_MEMORY")
        /\ UNCHANGED <<transport, ownership>>
     \/ /\ heap' = Dealloc(Alloc(heap, {"vtable"}), TransportBlocks(transport))
        /\ destroys' = Destroyed(transport)
        /\ transport' = arg
        /\ given' = given \cup {arg}
        /\ Succeed
  /\ Leave
  /\ UNCHANGED <<open, fields, auth, settings, accepted, sending, outcome>>

SetMaxRetriesUnchecked(n) ==
  /\ pc = "idle" /\ open
  /\ Done("OK") /\ retries' = n
  /\ UNCHANGED <<open, fields, auth, transport, timeout, ownership, accepted,
                 heap, pc, arg, locals, sending, outcome>>

SetMaxRetries(n) ==
  /\ pc = "idle" /\ open
  /\ \/ n > 16 /\ Done("LENGTH_INVALID") /\ UNCHANGED retries
     \/ n <= 16 /\ Done("OK") /\ retries' = n
  /\ UNCHANGED <<open, fields, auth, transport, timeout, ownership, accepted,
                 heap, pc, arg, locals, sending, outcome>>

SetTimeoutUnchecked(n) ==
  /\ pc = "idle" /\ open
  /\ Done("OK") /\ timeout' = n
  /\ UNCHANGED <<open, fields, auth, transport, retries, ownership, accepted,
                 heap, pc, arg, locals, sending, outcome>>

SetTimeout(n) ==
  /\ pc = "idle" /\ open
  /\ \/ n = 0 /\ Done("LENGTH_INVALID") /\ UNCHANGED timeout
     \/ n > 0 /\ Done("OK") /\ timeout' = n
  /\ UNCHANGED <<open, fields, auth, transport, retries, ownership, accepted,
                 heap, pc, arg, locals, sending, outcome>>

\* The string is copied, then replaced; what it says is sanitised when sent.
SetApiVersion ==
  /\ pc = "idle" /\ open
  /\ \/ Done("OUT_OF_MEMORY") /\ UNCHANGED heap
     \/ /\ Done("OK")
        /\ heap' = Dealloc(Alloc(heap, {"api_version"}), {"api_version"})
  /\ UNCHANGED <<config, pc, arg, locals, sending, outcome>>

\* tamga_response_free
FreeResponse ==
  /\ pc = "idle" /\ out # NoResponse
  /\ heap' = Release(heap, out)
  /\ out' = NoResponse /\ result' = "none"
  /\ via' = NoTransport /\ reply' = NoReply
  /\ UNCHANGED <<config, pc, arg, locals, req, wire, attempt, sent, waited,
                 http, told, report>>

-----------------------------------------------------------------------------
(* tamga_client_send_scoped under an endpoint: the request.                *)

\* The checks before anything is built, in order.
SendRefusal(r) ==
  IF transport = NoTransport THEN {"NO_TRANSPORT"}
  ELSE IF ~auth.configured \/ ~r.otpClean THEN {"NULL_ARGUMENT"}
  ELSE {}

\* The caller of this model holds one response at a time.
Begin(r) ==
  /\ pc = "idle" /\ open /\ out = NoResponse
  /\ \/ /\ \E s \in SendRefusal(r) : Done(s) /\ result' = s
        /\ UNCHANGED <<pc, req>>
     \/ /\ SendRefusal(r) = {}
        /\ Clear /\ result' = "none"
        /\ pc' = "auth_header" /\ req' = r
  /\ UNCHANGED <<config, heap, arg, locals, wire, attempt, sent, waited, via,
                 reply, http, told, out>>

\* tamga_client_auth_header; a query token needs no header.  It fails before
\* the value is there, or at the name, and then frees the value.
AuthHeader ==
  /\ pc = "auth_header"
  /\ \/ /\ auth.kind # "query"
        /\ \E made \in {{}, {"auth_value"}} :
             heap' = Dealloc(Alloc(heap, made), made)
        /\ Fail("OUT_OF_MEMORY") /\ result' = "OUT_OF_MEMORY"
        /\ req' = NoRequest
        /\ Leave
     \/ /\ locals' = IF auth.kind = "query" THEN {}
                     ELSE {"auth_name", "auth_value"}
        /\ heap' = Alloc(heap, locals')
        /\ pc' = "build"
        /\ UNCHANGED <<arg, req, result, report>>
  /\ UNCHANGED <<config, wire, attempt, sent, waited, via, reply, http, told,
                 out>>

\* What the header, or the token in the URL, is made of.
Carried == [kind |-> auth.kind, primary |-> auth.primary,
            secondary |-> IF auth.kind = "email" THEN auth.secondary ELSE NoAuth]

\* cleanup: what the request was built from is freed.
Finish(s, r, h, built) ==
  /\ heap' = Dealloc(h, built)
  /\ IF s = "OK" THEN Succeed ELSE Fail(s)
  /\ out' = r /\ result' = s
  /\ req' = NoRequest /\ wire' = NoAuth
  /\ attempt' = 0 /\ sent' = 0 /\ waited' = 0
  /\ http' = EmptyHttp /\ told' = {}
  /\ via' = IF r = NoResponse THEN NoTransport ELSE via
  /\ reply' = IF r = NoResponse THEN NoReply ELSE reply
  /\ Leave
  /\ UNCHANGED config

\* The url and the version are both tried before either is looked at.
BuildRequest ==
  /\ pc = "build"
  /\ \E made \in SUBSET {"url", "version"} :
       \/ /\ made # {"url", "version"}
          /\ Finish("OUT_OF_MEMORY", NoResponse, Alloc(heap, made),
                    locals \cup made)
       \/ /\ made = {"url", "version"}
          /\ heap' = Alloc(heap, made)
          /\ locals' = locals \cup made
          /\ wire' = Carried
          /\ pc' = "perform"
          /\ UNCHANGED <<config, arg, req, attempt, sent, waited, via, reply,
                         http, told, outcome, report>>

-----------------------------------------------------------------------------
(* The transports.                                                         *)

\* tamga_http_response_add_header: the list may have grown for a header that
\* then could not be copied.
StoreHeader(after) ==
  /\ http.headers < MaxHeaders
  /\ http' = [http EXCEPT !.list = TRUE, !.headers = http.headers + 1,
                          !.after = IF http.after = NoAfter THEN after
                                    ELSE http.after]
  /\ heap' = Alloc(heap, {"header"} \cup IF http.list THEN {} ELSE {"list"})

LoseHeader(failure) ==
  \E grown \in BOOLEAN :
    /\ http.list => grown
    /\ http' = [http EXCEPT !.list = grown, !.failure = failure]
    /\ heap' = Alloc(heap, IF grown /\ ~http.list THEN {"list"} ELSE {})

\* tamga_curl_perform.
CurlStarts ==
  /\ pc = "perform" /\ transport = Builtin
  /\ pc' = "curl"
  /\ sent' = sent + 1
  /\ via' = transport
  /\ reply' \in Answers \cup {NoReply}
  /\ heap' = Alloc(heap, {"slist"})
  /\ locals' = locals \cup {"slist"}
  /\ UNCHANGED <<config, arg, req, wire, attempt, waited, http, told, outcome,
                 report>>

\* tamga_curl_write_header: a header that is dropped is no failure.
CurlHeader ==
  /\ pc = "curl" /\ reply # NoReply /\ told = {}
  /\ told' = {"header"}
  /\ \/ StoreHeader(reply.after)
     \/ LoseHeader(http.failure)
  /\ UNCHANGED <<config, pc, arg, locals, req, wire, attempt, sent, waited,
                 via, reply, outcome, report>>

\* tamga_curl_write_body
CurlBody ==
  /\ pc = "curl" /\ reply # NoReply /\ told = {"header"}
  /\ reply.body \notin {"none", "empty"}
  /\ told' = {"header", "body"}
  /\ heap' = Alloc(heap, {"buf"})
  /\ locals' = locals \cup {"buf"}
  /\ UNCHANGED <<config, pc, arg, req, wire, attempt, sent, waited, via, reply,
                 http, outcome, report>>

\* done: the request's header lines and the buffer go.
CurlDone(h) ==
  /\ heap' = Dealloc(h, locals \cap CurlParts)
  /\ locals' = locals \ CurlParts
  /\ UNCHANGED <<config, arg, req, wire, attempt, sent, waited, via, reply,
                 told, outcome, report>>

\* A header line that could not be joined, an option refused, a network error
\* or timeout, a body too large or one memory cannot hold.
CurlFails ==
  /\ pc = "curl"
  /\ \E f \in Failures : http' = [http EXCEPT !.failure = f]
  /\ pc' = "failed"
  /\ CurlDone(heap)

CurlEndsUnchecked ==
  /\ pc = "curl" /\ reply # NoReply
  /\ told = {"header"} \cup IF reply.body \in {"none", "empty"} THEN {}
                            ELSE {"body"}
  /\ pc' = "answered"
  /\ \/ /\ http' = [http EXCEPT !.status = reply.status]
        /\ CurlDone(heap)
     \/ /\ http' = [http EXCEPT !.status = reply.status,
                                !.body = IF reply.body = "none" THEN "empty"
                                         ELSE reply.body]
        /\ CurlDone(Alloc(heap, {"body"}))

\* The buffer becomes the body, with its terminator; an empty one is made.
CurlEnds ==
  /\ pc = "curl" /\ reply # NoReply
  /\ told = {"header"} \cup IF reply.body \in {"none", "empty"} THEN {}
                            ELSE {"body"}
  /\ \/ /\ http' = [http EXCEPT !.status = reply.status,
                                !.failure = "OUT_OF_MEMORY"]
        /\ pc' = "failed"
        /\ CurlDone(heap)
     \/ /\ http' = [http EXCEPT !.status = reply.status,
                                !.body = IF reply.body = "none" THEN "empty"
                                         ELSE reply.body]
        /\ pc' = "answered"
        /\ CurlDone(Alloc(heap, {"body"}))

\* A transport of the caller's that reports what the server answered, each
\* thing once.
Honest(t) == t \in Careful \cup Documented

\* tamga_custom_perform
CallbackStarts ==
  /\ pc = "perform" /\ transport \in Transports
  /\ pc' = "callback"
  /\ sent' = sent + 1
  /\ via' = transport
  /\ reply' \in IF Honest(transport) THEN Answers \cup {NoReply} ELSE {NoReply}
  /\ UNCHANGED <<config, heap, arg, locals, req, wire, attempt, waited, http,
                 told, outcome, report>>

\* What the callback passes to its setters.
Said == IF Honest(transport) THEN {reply} \ {NoReply} ELSE Answers

SetterFailed == http.failure # "NETWORK"

MayCall(setter) ==
  /\ pc = "callback"
  /\ Honest(transport) => setter \notin told
  /\ transport \in Careful => ~SetterFailed
  /\ told' = IF Honest(transport) THEN told \cup {setter} ELSE told
  /\ UNCHANGED <<config, pc, arg, locals, req, wire, attempt, sent, waited,
                 via, reply, outcome, report>>

\* tamga_http_result_set_status
SetsStatus ==
  /\ MayCall("status")
  /\ \E a \in Said : http' = [http EXCEPT !.status = a.status]
  /\ UNCHANGED heap

\* tamga_http_result_set_body: the reason of a failure is recorded, and an
\* earlier body is replaced.
SetsBody ==
  /\ MayCall("body")
  /\ \E a \in Said :
       \/ /\ \E f \in {"OVERSIZED", "OUT_OF_MEMORY"} :
               http' = [http EXCEPT !.failure = f]
          /\ UNCHANGED heap
       \/ /\ http' = [http EXCEPT !.body = IF a.body = "none" THEN "empty"
                                           ELSE a.body]
          /\ heap' = Dealloc(Alloc(heap, {"body"}),
                             IF http.body = "none" THEN {} ELSE {"body"})

\* tamga_http_result_add_header
AddsHeader ==
  /\ MayCall("header")
  /\ \E a \in Said : \/ StoreHeader(a.after)
                     \/ LoseHeader("OUT_OF_MEMORY")

\* What the callback returns: a careful one false when a setter failed, the
\* documented one true once it has called them all, any other what it likes.
Answered(t) ==
  /\ Honest(t) => told = {"status", "body", "header"}
  /\ t \in Careful => ~SetterFailed

GivesUp(t) ==
  Honest(t) => reply = NoReply \/ (t \in Careful /\ SetterFailed)

CallbackReturns ==
  /\ pc = "callback"
  /\ \/ Answered(transport) /\ pc' = "answered"
     \/ GivesUp(transport) /\ pc' = "failed"
  /\ UNCHANGED <<config, heap, arg, locals, sending, outcome, report>>

-----------------------------------------------------------------------------
(* tamga_client_send_scoped: what becomes of the answer.                   *)

TransportError(f) ==
  IF f = "OUT_OF_MEMORY" THEN "OUT_OF_MEMORY" ELSE "TRANSPORT"

TransportFails ==
  /\ pc = "failed"
  /\ Finish(TransportError(http.failure), NoResponse, FreeHttp(heap), locals)

\* tamga_request_is_retryable
Retryable(kind) == kind \in {"get", "action"}

MayRetry ==
  http.status = 429 /\ attempt < retries /\ Retryable(req.kind)

\* 1, 2, 4, 8, 16, 32 seconds, then flat.
Backoff == <<1, 2, 4, 8, 16, 32>>

DelayUncapped(n, after, jitter) ==
  IF after > 0 THEN 1000 * after
  ELSE 1000 * Backoff[1 + IF n > 5 THEN 5 ELSE n] + jitter

\* tamga_retry_delay_ms: the server's wish wins, up to a minute.
Delay(n, after, jitter) ==
  IF after > 0 THEN 1000 * (IF after > 60 THEN 60 ELSE after)
  ELSE 1000 * Backoff[1 + IF n > 5 THEN 5 ELSE n] + jitter

\* seconds, 0 without a Retry-After.
Wished == IF http.after = NoAfter THEN 0 ELSE http.after

RetryKeepsBody ==
  /\ pc = "answered" /\ MayRetry
  /\ \E j \in Jitters : waited' = waited + Delay(attempt, Wished, j)
  /\ attempt' = attempt + 1
  /\ pc' = "perform"
  /\ http' = EmptyHttp /\ told' = {} /\ via' = NoTransport /\ reply' = NoReply
  /\ UNCHANGED <<config, heap, arg, locals, req, wire, sent, outcome, report>>

Retry ==
  /\ pc = "answered" /\ MayRetry
  /\ heap' = FreeHttp(heap)
  /\ \E j \in Jitters : waited' = waited + Delay(attempt, Wished, j)
  /\ attempt' = attempt + 1
  /\ pc' = "perform"
  /\ http' = EmptyHttp /\ told' = {} /\ via' = NoTransport /\ reply' = NoReply
  /\ UNCHANGED <<config, arg, locals, req, wire, sent, outcome, report>>

\* tamga_map_api_error: 429 first, then a code the SDK knows, then the status.
MapApiError(status, known) ==
  IF status = 429 THEN "RATE_LIMITED"
  ELSE IF known THEN "KNOWN_CODE"
  ELSE IF status = 401 THEN "UNAUTHORIZED"
  ELSE IF status = 403 THEN "FORBIDDEN"
  ELSE IF status = 404 THEN "NOT_FOUND"
  ELSE IF status \in {500, 502, 503, 504} THEN "SERVER"
  ELSE "API"

StatusNotAnError(status, known) ==
  IF status \in 200..399 THEN "OK" ELSE MapApiError(status, known)

StatusOf(status, known) ==
  IF status \in 200..299 THEN "OK" ELSE MapApiError(status, known)

\* tamga_response_from_http takes over what the transport received.
Received(parsed, coded) ==
  [status |-> http.status, body |-> http.body, list |-> http.list,
   headers |-> http.headers, after |-> http.after, parsed |-> parsed,
   coded |-> coded]

\* The blocks a response has beyond those.
Built(parsed, coded) == {"response"} \cup (IF parsed THEN {"json"} ELSE {})
                        \cup (IF coded THEN {"error_code"} ELSE {})

\* The server's code for an error is copied; a copy that fails is not missed.
MayCopy(parsed) ==
  parsed /\ http.status \notin 200..299 /\ http.body \in {"known", "other"}

\* An answer that memory cannot hold, or whose tree it cannot hold, is
\* reported as such; except that the parser calls a key it had no memory to
\* detach malformed (Json, OomSaid), and then the answer counts as no JSON.
AnswerReturns ==
  /\ pc = "answered" /\ ~MayRetry
  /\ \/ Finish("OUT_OF_MEMORY", NoResponse, FreeHttp(heap), locals)
     \/ /\ http.body \notin {"none", "empty"}
        /\ Finish("OUT_OF_MEMORY", NoResponse,
                  Release(Alloc(heap, {"response"}), Received(FALSE, FALSE)),
                  locals)
     \/ \E parsed, coded \in BOOLEAN :
          /\ parsed => http.body \in Json
          /\ coded => MayCopy(parsed)
          /\ Finish(StatusOf(http.status, parsed /\ http.body = "known"),
                    Received(parsed, coded), Alloc(heap, Built(parsed, coded)),
                    locals)

-----------------------------------------------------------------------------
Configure ==
  \/ NullArgument \/ New \/ Free \/ SetApiVersion \/ FreeResponse
  \/ \E a \in Credentials : SetAuth(a)
  \/ \E t \in Transports : SetTransport(t)
  \/ \E n \in Budgets : SetMaxRetries(n)
  \/ \E n \in Timeouts : SetTimeout(n)

\* The rest of a call that configures the handle.
Proceed ==
  NewFails \/ NewSucceeds \/ CopyPrimary \/ CopySecondary \/ InstallAuth
  \/ InstallTransport

Curl == CurlStarts \/ CurlHeader \/ CurlBody \/ CurlFails \/ CurlEnds

Callback ==
  CallbackStarts \/ SetsStatus \/ SetsBody \/ AddsHeader \/ CallbackReturns

SendLoop ==
  AuthHeader \/ BuildRequest \/ TransportFails \/ Retry \/ AnswerReturns

Next ==
  \/ Configure \/ Proceed
  \/ \E r \in Requests : Begin(r)
  \/ Curl \/ Callback \/ SendLoop

Spec == Init /\ [][Next]_vars

(***************************************************************************)
(* The client's own code runs on, and a caller's transport comes back.     *)
(* The built-in transport ends when its timeout does; with a timeout of 0  *)
(* libcurl would wait for ever.                                            *)
(***************************************************************************)
FairSpec ==
  /\ Spec
  /\ WF_vars(Proceed)
  /\ WF_vars(SendLoop)
  /\ WF_vars(Callback) /\ WF_vars(CallbackReturns)
  /\ WF_vars(timeout # 0 /\ Curl)

-----------------------------------------------------------------------------
(* What must hold.                                                         *)

\* The blocks the handle points to.
Handle == fields \cup AuthBlocks(auth) \cup TransportBlocks(transport)

\* The pointers to blocks of kind k: the handle's, the running function's,
\* those of the response being filled and of the one the caller holds.
Pointers(k) ==
  (IF k \in Handle THEN 1 ELSE 0) + (IF k \in locals THEN 1 ELSE 0)
  + HttpHolds(http, k) + ResponseHolds(out, k)

(***************************************************************************)
(* No path leaks, frees twice or keeps a freed block: at every step of     *)
(* every call the blocks alive are exactly those pointed to.  Between      *)
(* calls these are the handle's and the caller's response.                 *)
(***************************************************************************)
HeapReachable ==
  /\ \A k \in Kinds : heap[k] = Pointers(k)
  /\ pc = "idle" => locals = {} /\ http = EmptyHttp
  /\ ~open /\ pc = "idle" => Handle = {}

(***************************************************************************)
(* A transport handed to the client is destroyed exactly once, when it is  *)
(* replaced or the client is freed; one that could not be registered is    *)
(* never destroyed: it is still the caller's.                              *)
(***************************************************************************)
TransportsReleased ==
  \A t \in Transports :
    destroys[t] = IF t \in given /\ ~(open /\ transport = t) THEN 1 ELSE 0

\* What a request made with the credential a carries.
Signed(a) == [kind |-> a.kind, primary |-> a,
              secondary |-> IF a.kind = "email" THEN a ELSE NoAuth]

(***************************************************************************)
(* Every request carries the last credential set_auth accepted, whole: a   *)
(* set_auth that fails between its copies leaves neither a new kind with   *)
(* an old secret nor one half of each.                                     *)
(***************************************************************************)
CredentialWhole == wire # NoAuth => accepted # NoAuth /\ wire = Signed(accepted)

(***************************************************************************)
(* One call asks its transport at most max_retries + 1 times, and for a    *)
(* request that is not safe to repeat (a create could take a second seat)  *)
(* only once.                                                              *)
(***************************************************************************)
RetryBudget ==
  /\ sent <= retries + 1
  /\ sent > 1 => req.kind \in {"get", "action"}

(***************************************************************************)
(* Whatever Retry-After says (negative, absurdly large, no number), a      *)
(* retry waits between one second and one minute, so that a call neither   *)
(* spins on 429 nor sleeps for an hour.                                    *)
(***************************************************************************)
WaitBounded ==
  /\ 1000 * attempt <= waited
  /\ waited <= 60000 * attempt
  /\ waited < 3600000

(***************************************************************************)
(* What a send hands back: TAMGA_OK comes with a 2xx response, an error of *)
(* the server with its own response, and every other error (transport,     *)
(* memory, a refused argument) with none.                                  *)
(***************************************************************************)
Handover ==
  /\ result = "OK" => out # NoResponse /\ out.status \in 200..299
  /\ result \in ServerErrors => out # NoResponse /\ out.status \notin 200..299
  /\ result \notin ServerErrors \cup {"OK"} => out = NoResponse

\* The body a transport makes of the server's.
Stored(body) == IF body = "none" THEN "empty" ELSE body

(***************************************************************************)
(* TAMGA_OK carries the answer: a callback that does as tamga.h:1178-1180  *)
(* says, reporting through the setters and returning true, has its body    *)
(* handed on.  It fails when tamga_http_result_set_body ran out of memory: *)
(* the client does not look at the recorded failure (client.c:1289).       *)
(***************************************************************************)
AnswerNotLost ==
  result = "OK" /\ reply # NoReply => out.body = Stored(reply.body)

(***************************************************************************)
(* Through the built-in transport, and through one that gives up when a    *)
(* setter fails, the status and the body handed over are the server's own, *)
(* whichever of its pieces could not be held, and a tree is one of them.   *)
(***************************************************************************)
AnswerHeard ==
  result \in ServerErrors \cup {"OK"} /\ via \in Careful \cup {Builtin} =>
    /\ reply # NoReply
    /\ out.status = reply.status
    /\ out.body = Stored(reply.body)
    /\ out.parsed => reply.body \in Json

(***************************************************************************)
(* TAMGA_OK leaves the error slot empty, a failing call sets it: no error  *)
(* of an earlier call or attempt shows through.                            *)
(***************************************************************************)
SlotAgrees ==
  ret # "none" => slot = IF ret = "OK" THEN "none" ELSE ret

(***************************************************************************)
(* Every call returns.                                                     *)
(***************************************************************************)
SendReturns == pc # "idle" ~> pc = "idle"

(***************************************************************************)
(* Why they hold: what the handle and the running call look like.          *)
(***************************************************************************)
Asked == {"callback", "curl", "failed", "answered"}
InFlight == Asked \cup {"perform"}
Sending == InFlight \cup {"auth_header", "build"}

\* The handle after set_auth accepted a, or before it accepted any.
Held(a) == IF a = NoAuth THEN Unset
           ELSE [kind |-> a.kind, primary |-> a,
                 secondary |-> IF a.second THEN a ELSE NoAuth,
                 configured |-> TRUE]

HandleShape ==
  /\ open => fields = Fields
  /\ ~open => accepted = NoAuth /\ transport = NoTransport
  /\ ~open /\ pc # "fields" => fields = {}
  /\ pc \notin {"idle", "fields"} => open
  /\ pc = "fields" => ~open
  /\ transport \in Transports => transport \in given
  /\ auth = Held(accepted)
  /\ accepted # NoAuth => AuthRefusal(accepted) = {}

CallShape ==
  /\ pc \in {"primary", "secondary", "install"} =>
       arg \in Credential /\ AuthRefusal(arg) = {}
  /\ pc = "secondary" => arg.second
  /\ pc = "vtable" => arg \in Transports \ given
  /\ pc \in Sending => /\ req \in Request /\ out = NoResponse
                      /\ accepted # NoAuth /\ transport # NoTransport
  /\ wire = IF pc \in InFlight THEN Carried ELSE NoAuth
  /\ pc \notin Asked => http = EmptyHttp /\ told = {}
  /\ pc = "callback" => transport \in Transports
  /\ pc = "curl" => transport = Builtin /\ http.body = "none"

AuthParts == IF auth.kind = "query" THEN {} ELSE {"auth_name", "auth_value"}

LocalShape ==
  /\ pc \in {"idle", "fields", "primary", "auth_header"} => locals = {}
  /\ pc = "secondary" => locals = {"primary"}
  /\ pc = "install" =>
       locals = {"primary"} \cup IF arg.second THEN {"secondary"} ELSE {}
  /\ pc = "vtable" => locals = {"bridge"}
  /\ pc = "build" => locals = AuthParts
  /\ pc \in InFlight \ {"curl"} => locals = AuthParts \cup {"url", "version"}
  /\ pc = "curl" => locals = AuthParts \cup {"url", "version", "slist"}
                             \cup IF "body" \in told THEN {"buf"} ELSE {}

\* A retry needs a budget and a request that may be repeated.
Effort ==
  /\ attempt <= retries
  /\ sent = IF pc \in Asked THEN attempt + 1 ELSE attempt
  /\ attempt > 0 => Retryable(req.kind)
  /\ pc \notin InFlight => attempt = 0

Balanced == \A k \in Kinds : heap[k] = Pointers(k)

IInv == /\ TypeOK
        /\ HandleShape
        /\ CallShape
        /\ LocalShape
        /\ Effort
        /\ Balanced
        /\ TransportsReleased
        /\ WaitBounded

\* Nothing is reported before the call returns, and what libcurl or a careful
\* callback has filled in is the answer, unless a setter failed.
Filled ==
  /\ pc # "idle" => ret = "none" /\ slot = "none"
  /\ pc \in Sending => result = "none"
  /\ pc \in Asked => via = transport
  /\ pc = "callback" /\ transport \in Careful =>
       /\ reply = NoReply => told = {}
       /\ ~SetterFailed /\ "status" \in told => http.status = reply.status
       /\ ~SetterFailed /\ "body" \in told => http.body = Stored(reply.body)
  /\ pc = "answered" /\ transport \in Careful \cup {Builtin} =>
       /\ reply # NoReply
       /\ http.status = reply.status
       /\ http.body = Stored(reply.body)

ReplyInv == /\ IInv
            /\ Filled
            /\ Handover
            /\ SlotAgrees
            /\ AnswerHeard

-----------------------------------------------------------------------------
(* What the callers rely on, in one piece each.                            *)

\* Nothing is leaked and nothing freed twice: every block alive is pointed to
\* from the handle, the call or its response, and a caller's transport is
\* destroyed exactly when it is given up.
BlocksAccounted == HeapReachable /\ TransportsReleased

\* One call asks no more than its budget, repeats only what may be repeated,
\* and waits between one second and one minute for each repetition.
RetriesBounded == RetryBudget /\ WaitBounded

\* Unless the caller's transport ignores a failed setter, the response handed
\* over is what the server said; and the error slot agrees with the code
\* returned.
AnswerTold == AnswerHeard /\ SlotAgrees
=============================================================================
