----------------------------- MODULE MCRequests -----------------------------
(***************************************************************************)
(* What an application does with the API beside activation: it calls an    *)
(* endpoint, or it reads a response.  Every request builder, with every    *)
(* argument that makes a difference to it and every allocation that may    *)
(* fail; listings of up to five rows, and documents of every shape.        *)
(***************************************************************************)
EXTENDS Endpoints, Paging, TLC

MCCalls == Functions

\* Nothing, the first and the last field, and one in the middle alone.
MCFieldSets == {{}, {"name", "metadata"}, {"platform"}}

Fields == SigningKeyFields \cup ArtifactFields \cup IntegrityFields \cup {"kind", "redirectUrl"}
Numbers == {"filesize", "max_value", "current_value"}
Broken == {"none", "id", "filename", "status", "created", "publicKey", "platform", "arch"}

\* A resource whose strings carry the number of the row; one of them broken.
Resource(type, i, broken) ==
  LET text(n) == IF n = broken THEN IF n = "arch" THEN Num(i) ELSE Null
                 ELSE Str(n \o ToString(i))
  IN Obj([id |-> text("id"), type |-> Str(type),
          attributes |-> Obj([n \in (Fields \ {"id"}) \cup Numbers |->
             IF n \in Numbers THEN IF broken = "none" THEN Num(i) ELSE Null
             ELSE text(n)])])

Types == {"artifacts", "entitlements", "components"}
Singles == {Resource(type, 1, b) : type \in Types, b \in Broken}
Pairs == {Arr(<<Resource(s, 1, b), Resource(t, 2, c)>>) :
            s \in Types, t \in {"artifacts"}, b \in Broken, c \in Broken}

Policies == {Obj([type |-> Str("policies"),
                  attributes |-> Obj([heartbeat_duration |-> d])]) :
               d \in {Null, Num(0), Num(-1), Num(30), Str("30")}}

Pages == {Obj([n \in PageFields |-> IF n = b THEN Null ELSE Num(3)]) :
            b \in PageFields \cup {"none"}}

Some(key, value, there) == IF there THEN key :> value ELSE <<>>
Verdicts(codes) ==
  {Obj(Some("valid", Bool(TRUE), v) @@ Some("code", Str(c), c # "")) :
     v \in BOOLEAN, c \in codes}

Codes == {"", "VALID", "TOO_MANY_MACHINES", "TOO_MANY_CORES", "TOO_MUCH_MEMORY",
          "TOO_MUCH_DISK", "TOO_MANY_PROCESSES", "TOO_MANY_USERS", "BRAND_NEW"}

MCDocuments ==
  {Obj([data |-> d]) : d \in Singles \cup Pairs \cup Policies \cup {Arr(<<>>), Null}}
  \cup {Obj([meta |-> Obj([page |-> p])]) : p \in Pages}
  \cup Verdicts(Codes)
  \cup {Obj([meta |-> m] @@ top[2]) : m \in Verdicts(Codes), top \in Verdicts({"", "VALID"})}
  \cup {Missing}

MCErrors == {"MACHINE_LIMIT_EXCEEDED", "CORE_LIMIT_EXCEEDED", "MEMORY_LIMIT_EXCEEDED",
             "DISK_LIMIT_EXCEEDED", "TOO_MANY_PROCESSES", "OK", "LICENSE_EXPIRED"}

-----------------------------------------------------------------------------
UseEndpoint == phase = "idle" /\ Next /\ UNCHANGED readerVars
UseResponse == call = "none" /\ ReaderNext /\ UNCHANGED vars

RequestsInit == Init /\ ReaderInit

\* A caller that pages goes on; nothing else is owed.
RequestsSpec ==
  /\ RequestsInit
  /\ [][UseEndpoint \/ UseResponse]_<<vars, readerVars>>
  /\ WF_readerVars(Ask \/ ReadRow \/ TurnPage)
=============================================================================
