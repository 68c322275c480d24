------------------------------ MODULE Responses ------------------------------
(***************************************************************************)
(* The readers of a response: the accessors of src/src/http/client.c and   *)
(* the vocabulary of src/src/models/validation.c.                          *)
(*                                                                         *)
(* A JSON value is a pair of its kind and its content; Missing is the NULL *)
(* pointer.  Strings and numbers are what tamga_json_as_string and         *)
(* tamga_json_as_int return, "real" is a number the latter refuses.        *)
(***************************************************************************)
EXTENDS Integers, Sequences

Missing == <<"missing", 0>>
Null == <<"null", 0>>
Str(s) == <<"string", s>>
Num(n) == <<"int", n>>
Bool(b) == <<"bool", b>>
Arr(s) == <<"array", s>>
Obj(f) == <<"object", f>>

Kind(v) == v[1]
Is(v, kind) == v[1] = kind
Get(v, key) == IF Is(v, "object") /\ key \in DOMAIN v[2] THEN v[2][key] ELSE Missing
AsString(v) == IF Is(v, "string") THEN v ELSE Missing
AsInt(v) == IF Is(v, "int") THEN v ELSE Missing
Rows(v) == IF Is(v, "array") THEN v[2] ELSE <<>>
Data(doc) == Get(doc, "data")
Attributes(v) == Get(v, "attributes")

-----------------------------------------------------------------------------
(* Verdicts.                                                                 *)

\* quick-validate answers without an envelope.
MetaField(doc, field) ==
  IF Is(Get(doc, "meta"), "missing") THEN Get(doc, field)
  ELSE Get(Get(doc, "meta"), field)

ValidationIsValid(doc) ==
  Is(MetaField(doc, "valid"), "bool") /\ MetaField(doc, "valid")[2]
ValidationCode(doc) == AsString(MetaField(doc, "code"))
ValidationDetail(doc) == AsString(MetaField(doc, "detail"))

ValidationCodes ==
  {"VALID", "NOT_FOUND", "BANNED", "SUSPENDED", "EXPIRED", "OVERDUE",
   "ENTITLEMENTS_MISSING", "TOO_MANY_MACHINES", "TOO_MANY_CORES",
   "TOO_MUCH_MEMORY", "TOO_MUCH_DISK", "TOO_MANY_PROCESSES", "TOO_MANY_USERS",
   "HEARTBEAT_DEAD", "HEARTBEAT_NOT_STARTED", "PRODUCT_SCOPE_MISMATCH",
   "POLICY_SCOPE_MISMATCH", "USER_SCOPE_MISMATCH",
   "FINGERPRINT_SCOPE_MISMATCH", "COMPONENTS_SCOPE_MISMATCH",
   "CHECKSUM_SCOPE_MISMATCH", "VERSION_SCOPE_MISMATCH",
   "ENVIRONMENT_SCOPE_MISMATCH", "TOO_MANY_USES"}

CodeParse(v) ==
  IF Is(v, "string") /\ v[2] \in ValidationCodes THEN v[2] ELSE "UNKNOWN"

IsOverage(code) ==
  code \in {"TOO_MANY_MACHINES", "TOO_MANY_CORES", "TOO_MUCH_MEMORY",
            "TOO_MUCH_DISK", "TOO_MANY_PROCESSES"}

CodeFromError(error) ==
  CASE error = "MACHINE_LIMIT_EXCEEDED" -> "TOO_MANY_MACHINES"
    [] error = "CORE_LIMIT_EXCEEDED" -> "TOO_MANY_CORES"
    [] error = "MEMORY_LIMIT_EXCEEDED" -> "TOO_MUCH_MEMORY"
    [] error = "DISK_LIMIT_EXCEEDED" -> "TOO_MUCH_DISK"
    [] error = "TOO_MANY_PROCESSES" -> "TOO_MANY_PROCESSES"
    [] OTHER -> "UNKNOWN"

-----------------------------------------------------------------------------
(* Listings.                                                                 *)

\* A bug to be caught: a full page is taken for the last one.
NextCursorShort(doc, limit) ==
  IF limit = 0 \/ Len(Rows(Data(doc))) <= limit THEN Missing
  ELSE AsString(Get(Rows(Data(doc))[Len(Rows(Data(doc)))], "id"))

\* The last row's id, if the page is exactly full.
NextCursor(doc, limit) ==
  LET rows == Rows(Data(doc))
  IN IF limit = 0 \/ Len(rows) # limit THEN Missing
     ELSE AsString(Get(rows[Len(rows)], "id"))

\* tamga_response_artifact, tamga_response_entitlement.
ResourceAt(doc, index, type) ==
  LET data == Data(doc)
      row == CASE index < Len(Rows(data)) -> Rows(data)[index + 1]
               [] Is(data, "object") /\ index = 0 -> data
               [] OTHER -> Missing
  IN IF Get(row, "type") = Str(type) THEN row ELSE Missing

\* tamga_response_artifact_count, tamga_response_entitlement_count.
ResourceCount(doc, type) ==
  IF Is(Data(doc), "array") THEN Len(Rows(Data(doc)))
  ELSE IF Is(ResourceAt(doc, 0, type), "missing") THEN 0 ELSE 1

SigningKeyCount(doc) == Len(Rows(Data(doc)))

-----------------------------------------------------------------------------
(* Readers that fill several out-parameters.  `values` is what was read,     *)
(* `before` what the out-parameters hold.                                    *)

\* A bug to be caught: each value is stored as it is read.
TakeAllEagerly(values, required, before) ==
  [ok |-> \A n \in required : ~Is(values[n], "missing"),
   outs |-> [n \in DOMAIN values |->
               IF Is(values[n], "missing") THEN before[n] ELSE values[n]]]

TakeAll(values, required, before) ==
  IF \E n \in required : Is(values[n], "missing")
  THEN [ok |-> FALSE, outs |-> before]
  ELSE [ok |-> TRUE, outs |-> values]

PageFields == {"number", "size", "total", "totalPages"}
SigningKeyFields == {"id", "algorithm", "publicKey", "status", "created", "retired"}
ArtifactFields == {"id", "filename", "filetype", "platform", "arch", "status"}
IntegrityFields == {"checksum", "signature", "created", "updated"}

Page(doc, before) ==
  LET page == Get(Get(doc, "meta"), "page")
  IN TakeAll([n \in PageFields |-> AsInt(Get(page, n))], PageFields, before)

FieldsOf(row, names) ==
  [n \in names |-> AsString(Get(IF n = "id" THEN row ELSE Attributes(row), n))]

SigningKeyAt(doc, index, before) ==
  LET row == IF index < SigningKeyCount(doc) THEN Rows(Data(doc))[index + 1] ELSE Missing
  IN TakeAll(FieldsOf(row, SigningKeyFields), SigningKeyFields \ {"retired"}, before)

ArtifactAt(doc, index, before) ==
  TakeAll(FieldsOf(ResourceAt(doc, index, "artifacts"), ArtifactFields),
          {"id", "filename", "status"}, before)

IntegrityAt(doc, index, before) ==
  TakeAll(FieldsOf(ResourceAt(doc, index, "artifacts"), IntegrityFields),
          {"created", "updated"}, before)

-----------------------------------------------------------------------------
(* Readers of one value; Missing stands for a return of false or NULL.       *)

DefaultWindow == 600

HeartbeatWindow(doc) ==
  LET duration == Get(Attributes(Data(doc)), "heartbeat_duration")
  IN IF Is(duration, "null") THEN Num(DefaultWindow)
     ELSE IF Is(duration, "int") /\ duration[2] > 0 THEN duration ELSE Missing

FilesizeAt(doc, index) ==
  AsInt(Get(Attributes(ResourceAt(doc, index, "artifacts")), "filesize"))

RedirectUrl(doc) ==
  AsString(Get(Attributes(ResourceAt(doc, 0, "artifacts")), "redirectUrl"))

EntitlementKindAt(doc, index) ==
  AsString(Get(Attributes(ResourceAt(doc, index, "entitlements")), "kind"))

MaxValueAt(doc, index) ==
  AsInt(Get(Attributes(ResourceAt(doc, index, "entitlements")), "max_value"))

CurrentValueAt(doc, index) ==
  AsInt(Get(Attributes(ResourceAt(doc, index, "entitlements")), "current_value"))
=============================================================================
