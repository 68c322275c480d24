------------------------------ MODULE Endpoints ------------------------------
(***************************************************************************)
(* The request builders of src/src/http/endpoints.c, and the proof payload *)
(* of src/src/proof.c which is built the same way: arguments are checked,  *)
(* a JSON tree is put together out of separately allocated objects, it is  *)
(* written to text, and the request is sent.  Any allocation may fail, and *)
(* what is still to be freed then differs from line to line.               *)
(*                                                                         *)
(* A function is a program, a sequence of steps in the order of its        *)
(* statements; one action per kind of statement runs it.  A local variable *)
(* that points at memory is a name: `var` says what it points at and       *)
(* `home` which tree holds the object, so that an object freed twice, used *)
(* after it was freed, or owned by nobody at the end can be seen.          *)
(***************************************************************************)
EXTENDS Integers, Sequences, FiniteSets

CONSTANTS
  Calls,      \* the functions callers call
  FieldSets   \* the sets of optional attributes callers give

Names == {"root", "data", "attributes", "relationships", "license",
          "license_data", "meta", "given", "account", "machine",
          "text", "path", "query", "signature", "response"}

\* optional_fields of create_machine, updatable_fields of update_machine.
OptionalFields == <<"name", "ip", "hostname", "platform", "cores", "memory",
                    "disk", "metadata">>

\* The members of request bodies.
Keys == Names \cup {OptionalFields[i] : i \in 1..Len(OptionalFields)} \cup
        {"key", "skip_touch", "encrypt", "ttl", "type", "fingerprint", "id",
         "machine_id", "name", "pid", "amount"}

(***************************************************************************)
(* ptrs: every required pointer is given; id, second: the ids are UUIDs;   *)
(* json: the caller's JSON text; num: a ttl, length or amount, none is 0;  *)
(* extra: the optional cursor, or channel and constraint; proof: how the   *)
(* proof string was made; held: where the licence holds the entitlement    *)
(* asked for: on the page listed, on a later one, or nowhere, though one   *)
(* on the page may have its code for a name.                               *)
(***************************************************************************)
Argument ==
  [ptrs : BOOLEAN, id : BOOLEAN, second : BOOLEAN,
   json : {"absent", "object", "other", "malformed"},
   fields : FieldSets, num : {"none", "good", "bad"}, extra : BOOLEAN,
   proof : {"genuine", "forged", "prefix", "garbled"},
   held : {"listed", "later", "named", "no"}]

Functions ==
  {"get_resource", "quick_validate", "check_in", "delete_machine",
   "machine_action", "ping_process", "delete_process", "list_signing_keys",
   "health", "validate_by_key", "validate_by_id", "check_out",
   "check_out_json", "create_machine", "update_machine",
   "generate_offline_proof", "create_component", "create_process", "list",
   "has_entitlement", "get_entitlement", "entitlement_usage",
   "reset_entitlement_usage", "check_upgrade", "get_artifact_download_url",
   "proof_verify"}

ASSUME EndpointsAssumption ==
  /\ Calls \subseteq Functions
  /\ FieldSets \subseteq SUBSET {OptionalFields[i] : i \in 1..Len(OptionalFields)}
  /\ {} \in FieldSets

-----------------------------------------------------------------------------
(* Statements.  frees is what the error branch of the statement frees, code  *)
(* what it returns.                                                          *)

Step(op, x, to, frees, code) ==
  [op |-> op, x |-> x, to |-> to, frees |-> frees, code |-> code,
   of |-> {}, if |-> "always"]

When(condition, step) == [step EXCEPT !.if = condition]

Need == Step("need", "", "", {}, "NULL_ARGUMENT")
Uuid(which, code) == Step("uuid", which, "", {}, code)
Bounds(code) == Step("bounds", "", "", {}, code)
Parse == Step("parse", "given", "", {}, "INVALID_JSON")
OrEmpty == Step("orempty", "given", "", {}, "OK")
New(x) == Step("new", x, "", {}, "OK")
Check(S, frees, code) == [Step("check", "", "", frees, code) EXCEPT !.of = S]
Put(x, to, frees) == Step("put", x, to, frees, "OUT_OF_MEMORY")
Leaf(key, to, frees) == Step("leaf", key, to, frees, "OUT_OF_MEMORY")
LateLeaf(key, to) == Step("late", key, to, {}, "OK")
Copy == Step("copy", "given", "attributes", {}, "OK")
Param(key) == Step("param", key, "", {}, "OK")
Plain(key) == Step("append", key, "", {}, "OK")
Detach == Step("detach", "query", "", {}, "OK")
Write(x) == Step("write", x, "", {}, "OK")
Free(S) == Step("free", "", "", S, "OK")
Send == Step("send", "response", "", {}, "OK")
Search == Step("search", "", "", {}, "OK")
Prefix == Step("prefix", "", "", {"text"}, "OK")
Verify == Step("verify", "", "", {}, "OK")

Oom == "OUT_OF_MEMORY"
Needed == <<Need, Uuid("id", "NULL_ARGUMENT")>>
\* path = tamga_path(...), and the request with nothing but a path.
BuildPath == <<New("path"), Check({"path"}, {}, Oom)>>
PathOnly == Needed \o BuildPath \o <<Send, Free({"path"})>>
\* text and path are checked together, after the tree is gone.
TextAndPath ==
  <<Write("text"), Free({"root"}), New("path"),
    Check({"text", "path"}, {"text", "path"}, Oom), Send, Free({"text", "path"})>>
TextOnly ==
  <<Write("text"), Free({"root"}), Check({"text"}, {}, Oom), Send, Free({"text"})>>

-----------------------------------------------------------------------------
(* The functions.                                                            *)

GetResource == PathOnly
QuickValidate == PathOnly
CheckIn == PathOnly
DeleteMachine == PathOnly
MachineAction == PathOnly
PingProcess == PathOnly
DeleteProcess == PathOnly
ListSigningKeys == <<Need, Send>>
Health == <<Need, Send>>

ValidateByKey ==
  <<Need, New("root"), Check({"root"}, {"root"}, Oom),
    Leaf("key", "root", {"root"})>> \o TextOnly

ValidateById ==
  Needed \o
  <<Parse, New("root"), New("meta"),
    Check({"root", "meta"}, {"root", "meta", "given"}, Oom),
    Put("meta", "root", {"root", "given"}),
    Leaf("skip_touch", "meta", {"root", "given"}),
    When("json", Put("given", "meta", {"root"}))>> \o TextAndPath

Checkout(raw) ==
  Needed \o <<Bounds("TTL_INVALID")>> \o BuildPath \o
  (IF raw
   THEN <<Plain("encrypt"), When("num", Plain("ttl")), Detach,
          Check({"query"}, {"path"}, Oom)>>
   ELSE <<New("root"), New("meta"),
          Check({"root", "meta"}, {"root", "meta", "path"}, Oom),
          Put("meta", "root", {"root", "path"}),
          Leaf("encrypt", "meta", {"root", "path"}),
          Leaf("ttl", "meta", {"root", "path"}),
          Write("text"), Free({"root"}), Check({"text"}, {"path"}, Oom)>>) \o
  <<Send, Free({"path", "query", "text"})>>

CreateMachine ==
  Needed \o
  <<Parse,
    New("root"), New("data"), New("attributes"), New("relationships"),
    New("license"), New("license_data"),
    Check({"root", "data", "attributes", "relationships", "license", "license_data"},
          {"root", "data", "attributes", "relationships", "license",
           "license_data", "given"}, Oom),
    Put("data", "root", {"root", "attributes", "relationships", "license",
                         "license_data", "given"}),
    Leaf("type", "data", {"root", "attributes", "relationships", "license",
                          "license_data", "given"}),
    Put("attributes", "data", {"root", "relationships", "license",
                               "license_data", "given"}),
    Put("relationships", "data", {"root", "license", "license_data", "given"}),
    Put("license", "relationships", {"root", "license_data", "given"}),
    Put("license_data", "license", {"root", "given"}),
    LateLeaf("fingerprint", "attributes"), Copy, Free({"given"}),
    LateLeaf("type", "license_data"), LateLeaf("id", "license_data"),
    Check({}, {"root"}, Oom)>> \o TextOnly

\* A bug to be caught: attributes is freed after the failed setter freed it.
UpdateMachineFreesTwice ==
  Needed \o
  <<Parse, New("root"), New("data"), New("attributes"),
    Check({"root", "data", "attributes"},
          {"root", "data", "attributes", "given"}, Oom),
    Put("data", "root", {"root", "attributes", "given"}),
    Leaf("type", "data", {"root", "attributes", "given"}),
    Put("attributes", "data", {"root", "attributes", "given"}),
    Copy, Free({"given"}), Check({}, {"root"}, Oom)>> \o TextAndPath

UpdateMachine ==
  Needed \o
  <<Parse, New("root"), New("data"), New("attributes"),
    Check({"root", "data", "attributes"},
          {"root", "data", "attributes", "given"}, Oom),
    Put("data", "root", {"root", "attributes", "given"}),
    Leaf("type", "data", {"root", "attributes", "given"}),
    Put("attributes", "data", {"root", "given"}),
    Copy, Free({"given"}), Check({}, {"root"}, Oom)>> \o TextAndPath

GenerateOfflineProof ==
  Needed \o
  <<Parse, OrEmpty, New("root"), New("meta"),
    Check({"root", "meta", "given"}, {"root", "meta", "given"}, Oom),
    Put("meta", "root", {"root", "given"}),
    Put("given", "meta", {"root"})>> \o TextAndPath

\* The flat creates free root alone: metadata is nobody's until it is set.
CreateComponent ==
  Needed \o
  <<Parse, OrEmpty, New("root"), Check({"root", "given"}, {"root"}, Oom),
    Leaf("machine_id", "root", {"root"}), Leaf("fingerprint", "root", {"root"}),
    Leaf("name", "root", {"root"}), Put("given", "root", {"root"})>> \o TextOnly

CreateProcess ==
  Needed \o
  <<Parse, OrEmpty, New("root"), Check({"root", "given"}, {"root"}, Oom),
    Leaf("machine_id", "root", {"root"}), Leaf("pid", "root", {"root"}),
    Put("given", "root", {"root"})>> \o TextOnly

\* A bug to be caught: a query that could not be built counts as no query.
ListUnchecked ==
  Needed \o
  <<When("extra", Uuid("second", "NULL_ARGUMENT")),
    When("num", Plain("limit")), When("extra", Plain("after")), Detach,
    New("path"), Check({"path"}, {"query"}, Oom), Send, Free({"path", "query"})>>

List ==
  Needed \o
  <<When("extra", Uuid("second", "NULL_ARGUMENT")),
    When("num", Plain("limit")), When("extra", Plain("after")), Detach,
    Check({"query"}, {}, Oom), New("path"), Check({"path"}, {"query"}, Oom),
    Send, Free({"path", "query"})>>

HasEntitlement == List \o <<Search, Free({"response"})>>

GetEntitlement ==
  Needed \o <<Uuid("second", "NULL_ARGUMENT")>> \o BuildPath \o
  <<Send, Free({"path"})>>

\* A path that could not be allocated is blamed on the ids.
EntitlementPath ==
  <<Uuid("second", "NULL_ARGUMENT"), New("path"),
    Check({"path"}, {}, "NULL_ARGUMENT")>>

EntitlementUsage ==
  Needed \o EntitlementPath \o
  <<When("num", New("root")), When("num", Check({"root"}, {"path"}, Oom)),
    When("num", Leaf("amount", "root", {"root", "path"})),
    When("num", Write("text")), When("num", Free({"root"})),
    When("num", Check({"text"}, {"path"}, Oom)),
    Send, Free({"path", "text"})>>

ResetEntitlement == Needed \o EntitlementPath \o <<Send, Free({"path"})>>

CheckUpgrade ==
  Needed \o
  <<Param("product"), Param("platform"), Param("filetype"), Param("version"),
    When("extra", Param("channel")), When("extra", Param("constraint")), Detach,
    Check({"query"}, {"query"}, Oom), Send, Free({"query"})>>

DownloadUrl ==
  Needed \o <<Bounds("TTL_INVALID")>> \o BuildPath \o
  <<Plain("redirect"), When("num", Plain("ttl")), Detach,
    Check({"query"}, {"path"}, Oom), Send, Free({"query", "path"})>>

\* A bug to be caught: no memory for the signature reads as a forged one.
VerifyProofBlames ==
  <<Need, Bounds("LENGTH_INVALID"),
    Uuid("id", "INVALID_JSON"), Uuid("second", "INVALID_JSON"), Parse,
    New("root"), Check({"root"}, {"root", "given"}, Oom),
    Put("given", "root", {"root"}),
    Write("text"), Free({"root"}), Check({"text"}, {}, Oom),
    Prefix, New("signature"), Check({"signature"}, {"text"}, "OK"), Verify,
    Free({"signature", "text"})>>

VerifyProof ==
  <<Need, Bounds("LENGTH_INVALID"),
    Uuid("id", "INVALID_JSON"), Uuid("second", "INVALID_JSON"), Parse,
    New("root"), New("account"), New("machine"),
    Check({"root", "account", "machine"}, {"root", "account", "machine", "given"}, Oom),
    Leaf("id", "account", {"root", "account", "machine", "given"}),
    Leaf("id", "machine", {"root", "account", "machine", "given"}),
    Leaf("fingerprint", "machine", {"root", "account", "machine", "given"}),
    Put("account", "root", {"root", "machine", "given"}),
    Put("machine", "root", {"root", "given"}),
    Put("given", "root", {"root"}),
    Write("text"), Free({"root"}), Check({"text"}, {}, Oom),
    Prefix, New("signature"), Check({"signature"}, {"text"}, Oom), Verify,
    Free({"signature", "text"})>>

Program(f) ==
  CASE f = "get_resource" -> GetResource
    [] f = "quick_validate" -> QuickValidate
    [] f = "check_in" -> CheckIn
    [] f = "delete_machine" -> DeleteMachine
    [] f = "machine_action" -> MachineAction
    [] f = "ping_process" -> PingProcess
    [] f = "delete_process" -> DeleteProcess
    [] f = "list_signing_keys" -> ListSigningKeys
    [] f = "health" -> Health
    [] f = "validate_by_key" -> ValidateByKey
    [] f = "validate_by_id" -> ValidateById
    [] f = "check_out" -> Checkout(TRUE)
    [] f = "check_out_json" -> Checkout(FALSE)
    [] f = "create_machine" -> CreateMachine
    [] f = "update_machine" -> UpdateMachine
    [] f = "generate_offline_proof" -> GenerateOfflineProof
    [] f = "create_component" -> CreateComponent
    [] f = "create_process" -> CreateProcess
    [] f = "list" -> List
    [] f = "has_entitlement" -> HasEntitlement
    [] f = "get_entitlement" -> GetEntitlement
    [] f = "entitlement_usage" -> EntitlementUsage
    [] f = "reset_entitlement_usage" -> ResetEntitlement
    [] f = "check_upgrade" -> CheckUpgrade
    [] f = "get_artifact_download_url" -> DownloadUrl
    [] f = "proof_verify" -> VerifyProof

\* The arguments that make a difference to f.
Asked(f) ==
  LET p == Program(f)
      Uses(op) == \E i \in 1..Len(p) : p[i].op = op
      Asks(c) == \E i \in 1..Len(p) : p[i].if = c
      Takes(id) == \E i \in 1..Len(p) : p[i].op = "uuid" /\ p[i].x = id
  IN {a \in Argument :
        /\ Takes("id") \/ a.id
        /\ Takes("second") \/ a.second
        /\ Uses("parse") \/ a.json = "absent"
        /\ f \in {"update_machine", "proof_verify"} => ((a.json = "absent") = ~a.ptrs)
        /\ (Uses("copy") /\ a.json = "object") \/ a.fields = {}
        /\ Uses("bounds") \/ a.num # "bad"
        /\ Uses("bounds") \/ Asks("num") \/ a.num = "none"
        /\ f = "has_entitlement" => a.num = "good" /\ ~a.extra
        /\ Asks("extra") \/ ~a.extra
        /\ Uses("verify") \/ a.proof = "genuine"
        /\ Uses("search") \/ a.held = "no"}

-----------------------------------------------------------------------------
VARIABLES
  call, arg,   \* the function running, or the last one, and its arguments
  pc,          \* the next statement, 0 when nothing runs
  var,         \* what each local variable points at
  home,        \* the object whose tree holds it
  tree,        \* the members set so far, as <<object, key>>
  status,      \* the local status (built, in check_upgrade)
  sticky,      \* the failed flag of query_buf
  params,      \* what query_buf holds
  written,     \* the members the text was written from
  wire,        \* the request sent
  code,        \* what tamga_client_send returned
  verdict,     \* *out_has, *out_valid
  out,         \* *out_response
  ret,         \* what the call returned
  failed,      \* an allocation of this function failed
  twice        \* something was freed twice, or used after it was freed

vars == <<call, arg, pc, var, home, tree, status, sticky, params, written, wire,
          code, verdict, out, ret, failed, twice>>
memory == <<var, home, twice>>
request == <<status, sticky, params, written, wire, code, verdict, out>>

NoRequest == [sent |-> FALSE, body |-> {}, query |-> {}]

Init ==
  /\ call = "none" /\ arg = [ptrs |-> TRUE] /\ pc = 0 /\ ret = "none"
  /\ var = [n \in Names |-> "null"] /\ home = [n \in Names |-> n]
  /\ tree = {} /\ status = "OK" /\ sticky = FALSE /\ params = {}
  /\ written = {} /\ wire = NoRequest /\ code = "OK" /\ verdict = FALSE
  /\ out = "untouched" /\ failed = FALSE /\ twice = FALSE

Begin ==
  /\ call = "none"
  /\ \E f \in Calls : call' = f /\ arg' \in Asked(f)
  /\ pc' = 1 /\ UNCHANGED <<memory, tree, request, ret, failed>>

\* The caller is done with what the call returned.
Forget ==
  /\ ret # "none"
  /\ call' = "none" /\ arg' = [ptrs |-> TRUE] /\ pc' = 0 /\ ret' = "none"
  /\ var' = [n \in Names |-> "null"] /\ home' = [n \in Names |-> n]
  /\ tree' = {} /\ status' = "OK" /\ sticky' = FALSE /\ params' = {}
  /\ written' = {} /\ wire' = NoRequest /\ code' = "OK" /\ verdict' = FALSE
  /\ out' = "untouched" /\ failed' = FALSE /\ twice' = FALSE

Statement == Program(call)[pc]

\* The statement is reached: its condition holds, and once the local status
\* is an error only the cleanup is.
Reached ==
  /\ CASE Statement.if = "json" -> var["given"] # "null"
       [] Statement.if = "num" -> arg.num # "none"
       [] Statement.if = "extra" -> arg.extra
       [] OTHER -> TRUE
  /\ Statement.op \in {"late", "copy", "param", "append"} => status = "OK"

Running == pc > 0 /\ pc <= Len(Program(call))
At(op) == Running /\ Reached /\ Statement.op = op
Advance == pc' = pc + 1 /\ UNCHANGED <<call, arg, ret>>

Owned(n) == var[n] = "live" /\ home[n] = n

\* tamga_json_free and tamga_string_free of every variable of S, after those
\* of `consumed` have been freed by a failed tamga_json_object_set.
Release(S, consumed) ==
  LET all == S \cup consumed
  IN /\ var' = [n \in Names |-> IF var[n] = "live" /\ home[n] \in all
                                  /\ Owned(home[n])
                                 THEN "gone" ELSE var[n]]
     /\ twice' = \/ twice
                 \/ \E n \in all : var[n] # "null" /\ ~Owned(n)
                 \/ S \cap consumed # {}
     /\ UNCHANGED home

Return(c, frees) ==
  /\ Release(frees, {})
  /\ ret' = c /\ pc' = 0
  /\ UNCHANGED <<call, arg, tree, request, failed>>

Skip ==
  /\ Running /\ ~Reached
  /\ Advance /\ UNCHANGED <<memory, tree, request, failed>>

-----------------------------------------------------------------------------
(* One action per kind of statement.                                         *)

\* A check that passes, or the early return it makes.
Guard(op, passes) ==
  /\ At(op)
  /\ \/ passes /\ Advance /\ UNCHANGED <<memory, tree, request, failed>>
     \/ ~passes /\ Return(Statement.code, {})

CheckPointers == Guard("need", arg.ptrs)
CheckBounds == Guard("bounds", arg.num # "bad")
RequireUuid == At("uuid") /\ Guard("uuid", IF Statement.x = "id" THEN arg.id ELSE arg.second)

Point(x) == var' = [var EXCEPT ![x] = "live"] /\ home' = [home EXCEPT ![x] = x]

Allocate(x) ==
  /\ Advance /\ UNCHANGED <<twice, tree, request>>
  /\ \/ Point(x) /\ UNCHANGED failed
     \/ UNCHANGED <<var, home>> /\ failed' = TRUE

NewObject == At("new") /\ Allocate(Statement.x)

ParseOptional ==
  /\ At("parse")
  /\ \/ arg.json = "absent" /\ Advance /\ UNCHANGED <<memory, tree, request, failed>>
     \/ /\ arg.json = "object" /\ Point("given")
        /\ Advance /\ UNCHANGED <<twice, tree, request, failed>>
     \/ arg.json \in {"other", "malformed"} /\ Return(Statement.code, {})
     \/ /\ arg.json # "absent" /\ failed' = TRUE /\ ret' = Oom /\ pc' = 0
        /\ UNCHANGED <<call, arg, memory, tree, request>>

DefaultEmpty ==
  /\ At("orempty")
  /\ \/ var["given"] = "null" /\ Allocate("given")
     \/ var["given"] # "null" /\ Advance /\ UNCHANGED <<memory, tree, request, failed>>

CheckNull ==
  LET bad == status # "OK" \/ \E n \in Statement.of : var[n] = "null"
  IN /\ At("check")
     /\ \/ ~bad /\ Advance /\ UNCHANGED <<memory, tree, request, failed>>
        \/ bad /\ Return(Statement.code, Statement.frees)

\* tamga_json_object_set: the child is the parent's, or freed.
SetMember ==
  LET x == Statement.x
      to == Statement.to
  IN /\ At("put")
     /\ \/ /\ var[x] # "null"
           /\ home' = [n \in Names |-> IF home[n] = x THEN home[to] ELSE home[n]]
           /\ twice' = (twice \/ ~Owned(x) \/ var[to] # "live")
           /\ tree' = tree \cup {<<to, x>>}
           /\ Advance /\ UNCHANGED <<var, request, failed>>
        \/ /\ Release(Statement.frees, {x})
           /\ failed' = TRUE /\ ret' = Statement.code /\ pc' = 0
           /\ UNCHANGED <<call, arg, tree, request>>

SetLeaf ==
  /\ At("leaf")
  /\ \/ /\ tree' = tree \cup {<<Statement.to, Statement.x>>}
        /\ twice' = (twice \/ var[Statement.to] # "live")
        /\ Advance /\ UNCHANGED <<var, home, request, failed>>
     \/ /\ Release(Statement.frees, {})
        /\ failed' = TRUE /\ ret' = Statement.code /\ pc' = 0
        /\ UNCHANGED <<call, arg, tree, request>>

\* The failures that only set status.
SetLateLeaf ==
  /\ At("late") /\ Advance
  /\ \/ /\ tree' = tree \cup {<<Statement.to, Statement.x>>}
        /\ UNCHANGED <<status, failed>>
     \/ status' = Oom /\ failed' = TRUE /\ UNCHANGED tree
  /\ UNCHANGED <<memory, sticky, params, written, wire, code, verdict, out>>

\* The loop over the optional fields stops after n of them when the copy of
\* the next one, which the caller gave, fails.
CopyFields ==
  LET last == Len(OptionalFields)
      given == IF var["given"] = "null" THEN {} ELSE arg.fields
  IN /\ At("copy") /\ Advance
     /\ \E n \in 0..last :
          /\ n < last => OptionalFields[n + 1] \in given
          /\ tree' = tree \cup {<<"attributes", k>> :
                                k \in given \cap {OptionalFields[i] : i \in 1..n}}
          /\ status' = IF n < last THEN Oom ELSE status
          /\ failed' = (failed \/ n < last)
     /\ UNCHANGED <<memory, sticky, params, written, wire, code, verdict, out>>

\* tamga_buf_append*: nothing more is taken once an append has failed.
AddParam ==
  /\ At("param") \/ At("append")
  /\ Advance
  /\ \/ /\ params' = IF sticky THEN params ELSE params \cup {Statement.x}
        /\ UNCHANGED <<status, sticky, failed>>
     \/ sticky' = TRUE /\ failed' = TRUE /\ UNCHANGED <<status, params>>
     \/ /\ Statement.op = "param"   \* tamga_url_encode
        /\ status' = Oom /\ failed' = TRUE /\ UNCHANGED <<sticky, params>>
  /\ UNCHANGED <<memory, tree, written, wire, code, verdict, out>>

DetachQuery ==
  /\ At("detach")
  /\ \/ sticky /\ Advance /\ UNCHANGED <<memory, tree, request, failed>>
     \/ ~sticky /\ Allocate("query")

WriteText ==
  /\ At("write") /\ Advance
  /\ written' = {m \in tree : var[m[1]] = "live" /\ home[m[1]] = "root"}
  /\ twice' = (twice \/ ~Owned("root"))
  /\ \/ Point("text") /\ UNCHANGED failed
     \/ UNCHANGED <<var, home>> /\ failed' = TRUE
  /\ UNCHANGED <<tree, status, sticky, params, wire, code, verdict, out>>

FreeLocals ==
  /\ At("free") /\ Release(Statement.frees, {})
  /\ Advance /\ UNCHANGED <<tree, request, failed>>

\* tamga_client_send: an answer with a response, or a failure without one.
SendRequest ==
  /\ At("send") /\ Advance
  /\ wire' = [sent |-> TRUE,
              body |-> IF var["text"] = "live" THEN written ELSE {},
              query |-> IF var["query"] = "live" THEN params ELSE {}]
  /\ \/ code' \in {"OK", "API"} /\ Point("response") /\ out' = "response"
     \/ code' = "FAILED" /\ out' = "null" /\ UNCHANGED <<var, home>>
  /\ UNCHANGED <<twice, tree, status, sticky, params, written, verdict, failed>>

SearchPage ==
  /\ At("search")
  /\ \/ code # "OK" /\ Return(code, {"response"})
     \/ /\ code = "OK" /\ verdict' = (arg.held = "listed")
        /\ Advance
        /\ UNCHANGED <<memory, tree, status, sticky, params, written, wire,
                       code, out, failed>>

CheckPrefix ==
  /\ At("prefix")
  /\ \/ arg.proof = "prefix" /\ Return("OK", Statement.frees)
     \/ /\ arg.proof # "prefix" /\ Advance
        /\ UNCHANGED <<memory, tree, request, failed>>

\* The signature is decoded into its buffer, then verified.
VerifySignature ==
  /\ At("verify")
  /\ \/ arg.proof = "garbled" /\ Return("OK", {"signature", "text"})
     \/ /\ arg.proof # "garbled" /\ verdict' = (arg.proof = "genuine")
        /\ Advance
        /\ UNCHANGED <<memory, tree, status, sticky, params, written, wire,
                       code, out, failed>>

\* return status: the response is the caller's from here on.
Finish ==
  /\ pc > 0 /\ ~Running
  /\ pc' = 0 /\ ret' = code
  /\ var' = IF out = "response" /\ call # "has_entitlement"
            THEN [var EXCEPT !["response"] = "null"] ELSE var
  /\ UNCHANGED <<call, arg, home, twice, tree, request, failed>>

Next ==
  \/ Begin \/ Forget \/ Skip \/ CheckPointers \/ CheckBounds \/ RequireUuid \/ NewObject
  \/ ParseOptional \/ DefaultEmpty \/ CheckNull \/ SetMember \/ SetLeaf
  \/ SetLateLeaf \/ CopyFields \/ AddParam \/ DetachQuery \/ WriteText
  \/ FreeLocals \/ SendRequest \/ SearchPage \/ CheckPrefix \/ VerifySignature
  \/ Finish

Spec == Init /\ [][Next]_vars

-----------------------------------------------------------------------------
(* What the calls promise.                                                   *)

TypeOK ==
  /\ call \in Calls \cup {"none"} /\ pc \in 0..50
  /\ var \in [Names -> {"null", "live", "gone"}] /\ home \in [Names -> Names]
  /\ tree \subseteq Names \X Keys /\ written \subseteq tree
  /\ status \in {"OK", Oom} /\ {sticky, verdict, failed, twice} \subseteq BOOLEAN
  /\ wire.sent \in BOOLEAN /\ out \in {"untouched", "null", "response"}
  /\ code \in {"OK", "API", "FAILED"}

\* Whatever allocation fails, the cleanup that follows frees nothing a failed
\* tamga_json_object_set has already freed, nothing a parent still holds, and
\* writes no tree that is gone.
NoDoubleFree == ~twice

Leaked == {n \in Names : Owned(n)}

\* The cleanup of each failure covers exactly what no tree holds yet, except
\* that the two flat creates lose the metadata, and only when an allocation
\* failed.
OnlyMetadataLeaks ==
  ret # "none" /\ Leaked # {} =>
    /\ call \in {"create_component", "create_process"} /\ failed
    /\ Leaked = {"given"}

\* The members the server's handlers declare, and the parameters.
Body(f, a) ==
  LET copied == {<<"attributes", k>> : k \in a.fields}
      meta == {<<"root", "meta">>}
  IN CASE f = "validate_by_key" -> {<<"root", "key">>}
       [] f = "validate_by_id" ->
            meta \cup {<<"meta", "skip_touch">>}
              \cup {<<"meta", k>> : k \in IF a.json = "object" THEN {"given"} ELSE {}}
       [] f = "check_out_json" -> meta \cup {<<"meta", "encrypt">>, <<"meta", "ttl">>}
       [] f = "create_machine" ->
            copied \cup
            {<<"root", "data">>, <<"data", "type">>, <<"data", "attributes">>,
             <<"data", "relationships">>, <<"relationships", "license">>,
             <<"license", "license_data">>, <<"license_data", "type">>,
             <<"license_data", "id">>, <<"attributes", "fingerprint">>}
       [] f = "update_machine" ->
            copied \cup {<<"root", "data">>, <<"data", "type">>, <<"data", "attributes">>}
       [] f = "generate_offline_proof" -> meta \cup {<<"meta", "given">>}
       [] f = "create_component" ->
            {<<"root", k>> : k \in {"machine_id", "fingerprint", "name", "given"}}
       [] f = "create_process" -> {<<"root", k>> : k \in {"machine_id", "pid", "given"}}
       [] f = "entitlement_usage" /\ a.num # "none" -> {<<"root", "amount">>}
       [] OTHER -> {}

Query(f, a) ==
  LET when(c, S) == IF c THEN S ELSE {}
      ttl == when(a.num # "none", {"ttl"})
  IN CASE f = "check_out" -> {"encrypt"} \cup ttl
       [] f = "get_artifact_download_url" -> {"redirect"} \cup ttl
       [] f \in {"list", "has_entitlement"} ->
            when(a.num # "none", {"limit"}) \cup when(a.extra, {"after"})
       [] f = "check_upgrade" ->
            {"product", "platform", "filetype", "version"}
              \cup when(a.extra, {"channel", "constraint"})
       [] OTHER -> {}

\* A request that leaves says all the caller asked for and nothing else: an
\* allocation that failed on the way never turns it into a smaller one, such
\* as a listing that has lost its cursor and answers with the first page.
RequestWhole ==
  wire.sent => /\ wire.body = Body(call, arg) /\ wire.query = Query(call, arg)
               /\ ~failed

\* What tests/unit/alloc_failure_test.c:11-14 demands of every call: it
\* succeeds or fails cleanly with TAMGA_ERR_OUT_OF_MEMORY, and never leaks.
\* The two flat creates leak the metadata they were given (endpoints.c:1329
\* and 1481), and the actions on an entitlement's usage report a lack of
\* memory as a null argument (endpoints.c:1735 and 1799).
FailsCleanly ==
  ret # "none" => /\ Leaked = {}
                  /\ failed => ret = Oom

\* A call that ran out of memory sends nothing, and says so, or says that an
\* argument is at fault: that only the actions on an entitlement's usage do,
\* which blame a path that could not be allocated on ids they have just found
\* to be UUIDs.
OomNamed ==
  failed /\ ret # "none" =>
    /\ ~wire.sent
    /\ \/ ret = Oom
       \/ /\ ret = "NULL_ARGUMENT" /\ arg.id /\ arg.second
          /\ call \in {"entitlement_usage", "reset_entitlement_usage"}

\* *out_has and *out_valid say yes only of what is so and only with
\* TAMGA_OK; a TAMGA_OK that says no is right about the page listed and about
\* the proof, so that running out of memory never passes for a forgery.
VerdictSound ==
  LET so == IF call = "proof_verify" THEN arg.proof = "genuine" ELSE arg.held = "listed"
  IN call \in {"proof_verify", "has_entitlement"} =>
       /\ verdict => so /\ ret \in {"none", "OK"}
       /\ ret = "OK" => verdict = so

\* Whatever allocation fails in whatever builder, each object is freed exactly
\* once, but for the metadata of the two flat creates.
Ownership == TypeOK /\ NoDoubleFree /\ OnlyMetadataLeaks

\* What a call reports: lack of memory is never a verdict, and another error
\* only where an entitlement's usage is acted on; a verdict is so.
OutcomeSound == OomNamed /\ VerdictSound
=============================================================================
