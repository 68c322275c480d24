----------------------------- MODULE Activation -----------------------------
(***************************************************************************)
(* tamga_client_activate_machine and                                       *)
(* tamga_client_activate_machine_idempotent (src/src/http/endpoints.c),    *)
(* run by several threads or installations against one server.             *)
(*                                                                         *)
(* A call is a sequence of requests: create the machine; on a conflict,    *)
(* when idempotent, look the machine up page by page; validate the         *)
(* licence; on an over-limit verdict delete the machine again.  A phase is *)
(* one endpoint function: it may refuse before sending, send, wait, retry  *)
(* a 429 when the request is safe to repeat, and ends with an outcome the  *)
(* caller of the endpoint handles.  Between two steps of a call the server *)
(* and every other call may act; a request whose sender has given up may   *)
(* still reach the server.                                                 *)
(***************************************************************************)
EXTENDS MachineServer

CONSTANTS
  Cullable,    \* the machines someone else may remove
  ArgSet,      \* the arguments callers pass
  MaxPages,    \* TAMGA_MACHINE_LOOKUP_MAX_PAGES
  MaxRetries   \* client->max_retries

(***************************************************************************)
(* idem: the idempotent variant; auto: auto_delete_on_overage; out: the    *)
(* caller passed a non-NULL out_response; scope: scope_json is NULL or a   *)
(* JSON object.                                                            *)
(***************************************************************************)
Args == [lic : Licenses, fp : Fingerprints, idem : BOOLEAN, auto : BOOLEAN,
         out : BOOLEAN, scope : BOOLEAN]

ASSUME BoundsAssumption ==
  /\ ArgSet \subseteq Args
  /\ MaxPages \in Nat \ {0}
  /\ MaxRetries \in Nat

VARIABLES
  arg,   \* the arguments of each call
  pc,    \* the phase of each call
  link,  \* the endpoint call under way: what it sent and got
  know,  \* what the call has learnt
  held,  \* the responses that are allocated and not freed
  slot,  \* the error slot of the calling thread
  ret,   \* what the call returned
  hist,  \* history, read by no action
  net    \* requests on their way to the server

vars == <<rec, live, culled, policy, arg, pc, link, know, held, slot, ret, hist,
          net>>

Phases == {"create", "lookup", "validate", "rollback"}

Statuses == {"OK", "FINGERPRINT_TAKEN", "LIMIT_EXCEEDED", "RATE_LIMITED",
             "SERVER", "NOT_FOUND", "TRANSPORT", "OUT_OF_MEMORY",
             "NULL_ARGUMENT", "INVALID_JSON"}

\* What the local variables created, response, validated and deleted point at.
Responses == {"created", "listed", "validated", "deleted"}

Verdicts == {"none", "VALID", "OVERAGE", "UNKNOWN"}

MaybeId == Ids \cup {0}

Request == [call : Calls, kind : Phases, target : MaybeId,
            page : 0..MaxPages]

\* What an endpoint returns: a status and, when `resp`, a response.  `own` is
\* not on the wire: the row of the licence itself behind a conflict.
Outcome == [status : Statuses, resp : BOOLEAN, id : MaybeId,
            hits : SUBSET Ids, pages : Nat, verdict : Verdicts,
            own : MaybeId]

Failure(s) == [status |-> s, resp |-> FALSE, id |-> 0, hits |-> {},
               pages |-> 0, verdict |-> "none", own |-> 0]

Answer(s) == [Failure(s) EXCEPT !.resp = TRUE]

\* No reply has arrived yet: no outcome has status OK without a response.
NoReply == Failure("OK")

\* Ready to send, or sent and waiting.
Link == [sent : BOOLEAN, attempt : 0..MaxRetries, reply : Outcome]

NewLink == [sent |-> FALSE, attempt |-> 0, reply |-> NoReply]

(***************************************************************************)
(* path: how the machine was come by; mine: the id read from the creation  *)
(* response, 0 when there is none; adopted: the id the conflict or the     *)
(* lookup gave; page: the page the lookup is at.                           *)
(***************************************************************************)
Knowledge == [path : {"none", "created", "adopted"}, mine : MaybeId,
              adopted : MaybeId, page : 0..MaxPages, verdict : Verdicts]

Learnt(path, mine, adopted, page) ==
  [path |-> path, mine |-> mine, adopted |-> adopted, page |-> page,
   verdict |-> "none"]

(***************************************************************************)
(* The returned status, for a conflict that stands the reason its message  *)
(* gives, and *out_response.                                               *)
(***************************************************************************)
Result == [status : Statuses \cup {"none"},
           why : {"none", "unresolved", "elsewhere"},
           out : {"null", "created", "validated"}]

Returned(s, resp) == [status |-> s, why |-> "none", out |-> resp]

NoResult == Returned("none", "null")

\* undone: what the rollback DELETE returned; creates: the create requests
\* sent; holder: the licence's own row at the conflict.
History == [undone : Statuses \cup {"none"}, creates : Nat, holder : MaybeId]

TypeOK ==
  /\ ServerTypeOK
  /\ arg \in [Calls -> Args]
  /\ pc \in [Calls -> Phases \cup {"idle", "done"}]
  /\ link \in [Calls -> Link]
  /\ know \in [Calls -> Knowledge]
  /\ held \in [Calls -> SUBSET Responses]
  /\ slot \in [Calls -> Statuses \cup {"none"}]
  /\ ret \in [Calls -> Result]
  /\ hist \in [Calls -> History]
  /\ net \subseteq Request

Init ==
  /\ ServerInit
  /\ arg \in [Calls -> ArgSet]
  /\ pc = [c \in Calls |-> "idle"]
  /\ link = [c \in Calls |-> NewLink]
  /\ know = [c \in Calls |-> Learnt("none", 0, 0, 0)]
  /\ held = [c \in Calls |-> {}]
  /\ slot = [c \in Calls |-> "SERVER"]   \* left by an earlier call
  /\ ret = [c \in Calls |-> NoResult]
  /\ hist = [c \in Calls |-> [undone |-> "none", creates |-> 0, holder |-> 0]]
  /\ net = {}

-----------------------------------------------------------------------------
(* One endpoint call: tamga_client_send under the endpoint's own checks.   *)

\* tamga_request_is_retryable: creates and deletes are never repeated.
Retryable(kind) == kind \in {"lookup", "validate"}

\* validate_by_id's own argument checks, made after the machine exists.
ValidateRefusal(c) ==
  IF know[c].path = "adopted" /\ ~arg[c].out THEN {"NULL_ARGUMENT"}
  ELSE IF ~arg[c].scope THEN {"INVALID_JSON"}
  ELSE {}

\* The endpoint can refuse before it sends: it must when an argument is bad,
\* and it may when an allocation fails.
Refusals(c) ==
  IF pc[c] = "validate" /\ ValidateRefusal(c) # {}
  THEN ValidateRefusal(c)
  ELSE {"OUT_OF_MEMORY"} \cup
       (CASE pc[c] = "create" -> {"NULL_ARGUMENT", "INVALID_JSON"}
          [] pc[c] = "rollback" -> {"NULL_ARGUMENT"}   \* the id is no UUID
          [] OTHER -> {})

MayRetryOnceMore(c) ==
  /\ link[c].reply.status = "RATE_LIMITED"
  /\ link[c].attempt <= MaxRetries
  /\ Retryable(pc[c])

MayRetry(c) ==
  /\ link[c].reply.status = "RATE_LIMITED"
  /\ link[c].attempt < MaxRetries
  /\ Retryable(pc[c])

\* Every way the current endpoint call can end now.
Outcomes(c) ==
  IF ~link[c].sent
  THEN {Failure(s) : s \in Refusals(c)}
  ELSE {Failure("TRANSPORT"), Failure("OUT_OF_MEMORY")} \cup
       (IF link[c].reply # NoReply /\ ~MayRetry(c) THEN {link[c].reply}
                                                   ELSE {})

\* Only a DELETE names a machine, only a listing names a page.
RequestOf(c) ==
  [call |-> c, kind |-> pc[c],
   target |-> IF pc[c] = "rollback" THEN know[c].mine ELSE 0,
   page |-> IF pc[c] = "lookup" THEN know[c].page ELSE 0]

Send(c) ==
  /\ pc[c] \in Phases
  /\ ~link[c].sent
  /\ pc[c] = "validate" => ValidateRefusal(c) = {}
  /\ net' = net \cup {RequestOf(c)}
  /\ link' = [link EXCEPT ![c].sent = TRUE]
  /\ hist' = [hist EXCEPT ![c].creates = IF pc[c] = "create" THEN @ + 1 ELSE @]
  /\ UNCHANGED <<rec, live, culled, policy, arg, pc, know, held, slot, ret>>

RetryUncounted(c) ==
  /\ pc[c] \in Phases
  /\ link[c].sent
  /\ MayRetry(c)
  /\ link' = [link EXCEPT ![c] = [NewLink EXCEPT !.attempt = link[c].attempt]]
  /\ UNCHANGED <<rec, live, culled, policy, arg, pc, know, held, slot, ret, hist,
                 net>>

RetryLost(c) ==
  /\ pc[c] \in Phases
  /\ link[c].sent
  /\ MayRetry(c) \/ link[c].attempt < MaxRetries
  /\ link' = [link EXCEPT ![c] = [NewLink EXCEPT !.attempt = link[c].attempt + 1]]
  /\ UNCHANGED <<rec, live, culled, policy, arg, pc, know, held, slot, ret, hist,
                 net>>

Retry(c) ==
  /\ pc[c] \in Phases
  /\ link[c].sent
  /\ MayRetry(c)
  /\ link' = [link EXCEPT ![c] = [NewLink EXCEPT !.attempt = link[c].attempt + 1]]
  /\ UNCHANGED <<rec, live, culled, policy, arg, pc, know, held, slot, ret, hist,
                 net>>

-----------------------------------------------------------------------------
(* The phases of an activation.                                            *)

\* The next endpoint is called: it clears the error slot and starts afresh.
Enter(c, phase) ==
  /\ pc' = [pc EXCEPT ![c] = phase]
  /\ link' = [link EXCEPT ![c] = NewLink]
  /\ slot' = [slot EXCEPT ![c] = "none"]
  /\ UNCHANGED ret

\* The responses alive once an endpoint has set *out_response.
Alive(c, o, name) == held[c] \cup (IF o.resp THEN {name} ELSE {})

\* The slot once an endpoint has returned: tamga_error_set when it failed.
SlotAfter(c, o) == IF o.status = "OK" THEN slot[c] ELSE o.status

\* Return r, with these responses alive and this in the slot.
Finish(c, r, alive, s) ==
  /\ pc' = [pc EXCEPT ![c] = "done"]
  /\ link' = [link EXCEPT ![c] = NewLink]
  /\ ret' = [ret EXCEPT ![c] = r]
  /\ held' = [held EXCEPT ![c] = alive]
  /\ slot' = [slot EXCEPT ![c] = s]

Begin(c) ==
  /\ pc[c] = "idle"
  /\ Enter(c, "create")
  /\ UNCHANGED <<rec, live, culled, policy, arg, know, held, hist, net>>

\* tamga_activate_create_failed: only a limit error hands its response back,
\* to a caller who asked for one; any other response is freed.
CreateFailed(c, o) ==
  LET given == o.resp /\ o.status = "LIMIT_EXCEEDED" /\ arg[c].out
      alive == Alive(c, o, "created")
  IN  /\ Finish(c, Returned(o.status, IF given THEN "created" ELSE "null"),
                IF given THEN alive ELSE alive \ {"created"}, SlotAfter(c, o))
      /\ UNCHANGED <<know, hist>>

CreateSucceeded(c, o) ==
  /\ Enter(c, "validate")
  /\ know' = [know EXCEPT ![c] = Learnt("created", o.id, 0, 0)]
  /\ held' = [held EXCEPT ![c] = Alive(c, o, "created")]
  /\ UNCHANGED hist

AdoptAsCreated(c, i, alive) ==
  /\ Enter(c, "validate")
  /\ know' = [know EXCEPT ![c] = Learnt("created", i, 0, 0)]
  /\ held' = [held EXCEPT ![c] = alive]
  /\ UNCHANGED hist

\* The machine is already on this licence: carry on without creating it.
Adopt(c, i, alive) ==
  /\ Enter(c, "validate")
  /\ know' = [know EXCEPT ![c] = Learnt("adopted", 0, i, 0)]
  /\ held' = [held EXCEPT ![c] = alive]
  /\ UNCHANGED hist

\* The copy of a machine id fails, and the slot is set.
CopyFails(c, alive) ==
  /\ Finish(c, Returned("OUT_OF_MEMORY", "null"), alive, "OUT_OF_MEMORY")
  /\ UNCHANGED <<know, hist>>

\* The conflict: the id is copied and the response freed; the machine it
\* names is adopted, otherwise it is looked up.
Conflict(c, o) ==
  LET alive == Alive(c, o, "created") \ {"created"}
  IN  \/ o.id # 0 /\ Adopt(c, o.id, alive)
      \/ o.id # 0 /\ CopyFails(c, alive)
      \/ /\ o.id = 0
         /\ Enter(c, "lookup")
         /\ know' = [know EXCEPT ![c] = Learnt("none", 0, 0, 1)]
         /\ hist' = [hist EXCEPT ![c].holder = o.own]
         /\ held' = [held EXCEPT ![c] = alive]

CreateReturns(c) ==
  /\ pc[c] = "create"
  /\ \E o \in Outcomes(c) :
       \/ o.status = "OK" /\ CreateSucceeded(c, o)
       \/ o.status = "FINGERPRINT_TAKEN" /\ arg[c].idem /\ Conflict(c, o)
       \/ /\ o.status # "OK"
          /\ ~(o.status = "FINGERPRINT_TAKEN" /\ arg[c].idem)
          /\ CreateFailed(c, o)
  /\ UNCHANGED <<rec, live, culled, policy, arg, net>>

\* tamga_machine_page_exact_match: filter[q] is a substring match, so every
\* row of the page is compared in full.
ExactMatch(hits, fp) == {i \in hits : rec[i].fp = fp}

LastPageEarly(page, pages) == page + 1 >= pages \/ page >= MaxPages

\* Stop at the server's page count, or at the cap.
LastPage(page, pages) == page >= pages \/ page >= MaxPages

\* The conflict stands, with the reason in the message.
Stands(c, reason, alive) ==
  /\ Finish(c, [Returned("FINGERPRINT_TAKEN", "null") EXCEPT !.why = reason],
            alive, "FINGERPRINT_TAKEN")
  /\ UNCHANGED <<know, hist>>

NextPage(c, alive) ==
  /\ Enter(c, "lookup")
  /\ know' = [know EXCEPT ![c].page = @ + 1]
  /\ held' = [held EXCEPT ![c] = alive]
  /\ UNCHANGED hist

\* One page of the walk: a failed listing is not a miss, and a failed copy of
\* the id is neither.
PageRead(c, o, alive) ==
  LET match == ExactMatch(o.hits, arg[c].fp)
  IN  \/ \E i \in match : Adopt(c, i, alive)
      \/ match # {} /\ CopyFails(c, alive)
      \/ /\ match = {} /\ LastPage(know[c].page, o.pages)
         /\ Stands(c, "elsewhere", alive)
      \/ /\ match = {} /\ ~LastPage(know[c].page, o.pages)
         /\ NextPage(c, alive)

\* The listing is freed whatever it said.  Out of memory is returned as it
\* is, with the slot the listing left.
LookupReturns(c) ==
  /\ pc[c] = "lookup"
  /\ \E o \in Outcomes(c) :
       LET alive == Alive(c, o, "listed") \ {"listed"}
       IN  \/ /\ o.status = "OUT_OF_MEMORY"
              /\ Finish(c, Returned(o.status, "null"), alive, SlotAfter(c, o))
              /\ UNCHANGED <<know, hist>>
           \/ /\ o.status \notin {"OK", "OUT_OF_MEMORY"}
              /\ Stands(c, "unresolved", alive)
           \/ o.status = "OK" /\ PageRead(c, o, alive)
  /\ UNCHANGED <<rec, live, culled, policy, arg, net>>

UndoesAnyVerdict(c, o) ==
  know[c].path = "created" /\ arg[c].auto /\ o.status = "OK"

UndoesPlainOnly(c, o) ==
  /\ know[c].path = "created" /\ arg[c].auto /\ ~arg[c].idem
  /\ o.status = "OK" /\ o.verdict = "OVERAGE"

\* The rollback is for a row this call created, on an over-limit verdict.
Undoes(c, o) ==
  /\ know[c].path = "created"
  /\ arg[c].auto
  /\ o.status = "OK"
  /\ o.verdict = "OVERAGE"

\* The end of tamga_activate_after_create: `created` is freed, `validated` is
\* handed out or freed.
HandOver(c, status, alive, s) ==
  LET rest == alive \ {"created"}
      out == IF arg[c].out /\ "validated" \in rest THEN "validated" ELSE "null"
  IN  Finish(c, Returned(status, out),
             IF arg[c].out THEN rest ELSE rest \ {"validated"}, s)

\* After an adoption the validation writes to the caller's pointer itself.
ValidateReturns(c) ==
  /\ pc[c] = "validate"
  /\ \E o \in Outcomes(c) :
       LET alive == Alive(c, o, "validated")
       IN  /\ know' = [know EXCEPT ![c].verdict = o.verdict]
           /\ \/ /\ Undoes(c, o) /\ know[c].mine # 0
                 /\ Enter(c, "rollback")
                 /\ held' = [held EXCEPT ![c] = alive]
              \/ /\ Undoes(c, o) /\ know[c].mine = 0
                 /\ HandOver(c, o.status, alive, "none")
              \/ /\ know[c].path = "created" /\ ~Undoes(c, o)
                 /\ HandOver(c, o.status, alive, SlotAfter(c, o))
              \/ /\ know[c].path = "adopted" /\ ~Undoes(c, o)
                 /\ Finish(c, Returned(o.status,
                                IF o.resp THEN "validated" ELSE "null"),
                           alive, SlotAfter(c, o))
  /\ UNCHANGED <<rec, live, culled, policy, arg, hist, net>>

RollbackKeepsError(c) ==
  /\ pc[c] = "rollback"
  /\ \E o \in Outcomes(c) :
       /\ HandOver(c, "OK", Alive(c, o, "deleted") \ {"deleted"}, SlotAfter(c, o))
       /\ hist' = [hist EXCEPT ![c].undone = o.status]
  /\ UNCHANGED <<rec, live, culled, policy, arg, know, net>>

\* A failed deletion is not surfaced: its response is freed, its error cleared.
RollbackReturns(c) ==
  /\ pc[c] = "rollback"
  /\ \E o \in Outcomes(c) :
       /\ HandOver(c, "OK", Alive(c, o, "deleted") \ {"deleted"}, "none")
       /\ hist' = [hist EXCEPT ![c].undone = o.status]
  /\ UNCHANGED <<rec, live, culled, policy, arg, know, net>>

-----------------------------------------------------------------------------
(* The server takes a request from the network and answers it.             *)

\* A reply reaches the call only if it still waits for that request.
Deliver(r, o) ==
  /\ net' = net \ {r}
  /\ \/ /\ pc[r.call] = r.kind /\ link[r.call].sent
        /\ link' = [link EXCEPT ![r.call].reply = o]
     \/ /\ ~(pc[r.call] = r.kind /\ link[r.call].sent)
        /\ link' = link
  /\ UNCHANGED <<arg, pc, know, held, slot, ret, hist>>

AtLimit(lic) == policy.strict /\ Used(lic) >= SeatLimit

\* Uniqueness is checked before the seats.
ServerCreates(r) ==
  /\ r.kind = "create"
  /\ LET a == arg[r.call]
         taken == Conflicts(a.lic, a.fp) # {}
     IN  \/ /\ taken
            /\ Deliver(r, [Answer("FINGERPRINT_TAKEN") EXCEPT
                             !.id = Named(a.lic, a.fp),
                             !.own = Holder(a.lic, a.fp)])
            /\ UNCHANGED serverVars
         \/ /\ ~taken /\ AtLimit(a.lic)
            /\ Deliver(r, Answer("LIMIT_EXCEEDED"))
            /\ UNCHANGED serverVars
         \/ /\ ~taken /\ ~AtLimit(a.lic)
            /\ \E i \in Ids, readable \in BOOLEAN :
                 /\ AddRow(i, a.lic, a.fp, r.call)
                 /\ Deliver(r, [Answer("OK") EXCEPT
                                  !.id = IF readable THEN i ELSE 0])

ServerLists(r) ==
  /\ r.kind = "lookup"
  /\ LET a == arg[r.call]
     IN  Deliver(r, [Answer("OK") EXCEPT
                       !.hits = PageOf(a.lic, a.fp, r.page),
                       !.pages = TotalPages(a.lic, a.fp)])
  /\ UNCHANGED serverVars

\* A 2xx body that is not JSON carries no verdict the SDK can read.
ServerValidates(r) ==
  /\ r.kind = "validate"
  /\ \E v \in {Verdict(arg[r.call].lic), "UNKNOWN"} :
       Deliver(r, [Answer("OK") EXCEPT !.verdict = v])
  /\ UNCHANGED serverVars

ServerDeletes(r) ==
  /\ r.kind = "rollback"
  /\ RemoveRow(r.target)
  /\ Deliver(r, Answer(IF r.target \in live THEN "OK" ELSE "NOT_FOUND"))

\* Rate limited, or failed before any change.
ServerRefuses(r) ==
  /\ \E s \in {"RATE_LIMITED", "SERVER"} : Deliver(r, Answer(s))
  /\ UNCHANGED serverVars

Cull(i) ==
  /\ i \in Cullable
  /\ CullRow(i)
  /\ UNCHANGED <<arg, pc, link, know, held, slot, ret, hist, net>>

Progress(c) ==
  \/ Send(c) \/ Retry(c)
  \/ CreateReturns(c) \/ LookupReturns(c)
  \/ ValidateReturns(c) \/ RollbackReturns(c)

ServerStep(r) ==
  \/ ServerCreates(r) \/ ServerLists(r) \/ ServerValidates(r)
  \/ ServerDeletes(r) \/ ServerRefuses(r)

Next ==
  \/ \E c \in Calls : Begin(c) \/ Progress(c)
  \/ \E r \in net : ServerStep(r)
  \/ \E i \in Ids : Cull(i)

Spec == Init /\ [][Next]_vars

(***************************************************************************)
(* A thread inside a call keeps running, and a request it waits for ends   *)
(* at the latest with the transport's timeout (set_timeout_ms rejects 0).  *)
(* Neither the server nor the network owes anything.                       *)
(***************************************************************************)
FairSpec == Spec /\ \A c \in Calls : WF_vars(Progress(c))

-----------------------------------------------------------------------------
(* What must hold.                                                         *)

Done(c) == pc[c] = "done"

(***************************************************************************)
(* A rollback DELETE, even one that reaches the server after its sender    *)
(* has returned, names a row that this very call created, for a caller who *)
(* asked for it and was told of an overage: never a machine another call   *)
(* created, one that was adopted, or one installed before.                 *)
(***************************************************************************)
RollbackOwnRow ==
  \A r \in net : r.kind = "rollback" =>
    /\ r.target \in Ids
    /\ rec[r.target] # NoRow
    /\ rec[r.target].by = r.call
    /\ arg[r.call].auto
    /\ know[r.call].verdict = "OVERAGE"

(***************************************************************************)
(* A call that returned TAMGA_OK with a verdict that is not an overage     *)
(* keeps the seat it created, whatever other calls do, until the server or *)
(* an operator removes the machine.                                        *)
(***************************************************************************)
SeatKept ==
  \A c \in Calls :
    Done(c) /\ know[c].path = "created" /\ know[c].mine # 0
            /\ know[c].verdict # "OVERAGE" => know[c].mine \in live \cup culled

(***************************************************************************)
(* An idempotent call carries on past a conflict only for a machine with   *)
(* exactly its fingerprint on exactly its licence: not a substring hit of  *)
(* filter[q], and not the other licence's machine.                         *)
(***************************************************************************)
AdoptedIsOurs(c) ==
  know[c].path = "adopted" =>
    /\ rec[know[c].adopted].lic = arg[c].lic
    /\ rec[know[c].adopted].fp = arg[c].fp

(***************************************************************************)
(* FINGERPRINT_TAKEN and a limit error tell the caller that it took no     *)
(* seat: no row of this call exists then, and none appears later, late     *)
(* requests included.  An unclear failure of the create (transport, out of *)
(* memory) makes no such promise.                                          *)
(***************************************************************************)
RefusedTookNoSeat(c) ==
  Done(c) /\ ret[c].status \in {"FINGERPRINT_TAKEN", "LIMIT_EXCEEDED"} =>
    /\ \A i \in Ids : rec[i] # NoRow => rec[i].by # c
    /\ \A r \in net : ~(r.call = c /\ r.kind = "create")

(***************************************************************************)
(* While no machine has been removed, by a rollback or by others, the      *)
(* licence-scoped lookup finds the row behind the conflict, on whichever   *)
(* page, as long as the listing has no more pages than the cap lets it     *)
(* read: a caller told "activated on a different licence" has none.        *)
(***************************************************************************)
Quiet == live = {i \in Ids : rec[i] # NoRow}

QuietLookupFindsOurs(c) ==
  /\ Quiet
  /\ ret[c].why = "elsewhere"
  /\ TotalPages(arg[c].lic, arg[c].fp) <= MaxPages
  => hist[c].holder \notin live

(***************************************************************************)
(* What *out_response holds on return (the table in tamga.h): the          *)
(* validation on TAMGA_OK, the creation response on a creation-time limit, *)
(* NULL on any other creation failure.                                     *)
(***************************************************************************)
OutResponseTable(c) ==
  /\ arg[c].out /\ ret[c].status = "OK" => ret[c].out = "validated"
  /\ arg[c].out /\ ret[c].status = "LIMIT_EXCEEDED" => ret[c].out = "created"
  /\ know[c].path = "none" /\ ret[c].status # "LIMIT_EXCEEDED"
       => ret[c].out = "null"

(***************************************************************************)
(* The calls free every response they do not hand out, on every path.      *)
(***************************************************************************)
NoResponseLeaked(c) ==
  held[c] = IF ret[c].out = "null" THEN {} ELSE {ret[c].out}

(***************************************************************************)
(* The error slot agrees with the return value: empty after TAMGA_OK, even *)
(* when the lookup or the rollback DELETE failed on the way, and otherwise *)
(* naming the code returned.                                               *)
(***************************************************************************)
ErrorSlotAgrees(c) ==
  slot[c] = IF ret[c].status = "OK" THEN "none" ELSE ret[c].status

(***************************************************************************)
(* "Reject over-limit activation": an over-limit call that could read its  *)
(* machine id called the deletion, and when the DELETE was answered with   *)
(* success the row is gone.                                                *)
(***************************************************************************)
RolledBack(c) ==
  Done(c) /\ know[c].path = "created" /\ know[c].mine # 0
          /\ arg[c].auto /\ know[c].verdict = "OVERAGE" =>
    /\ hist[c].undone # "none"
    /\ hist[c].undone = "OK" => know[c].mine \notin live

\* ... of every call, whatever the others do.
RollbackComplete == \A c \in Calls : RolledBack(c)

(***************************************************************************)
(* A create leaves the client at most once per call, whatever the server   *)
(* answers: repeating it could take a second seat.                         *)
(***************************************************************************)
CreateSentOnce(c) == hist[c].creates <= 1

(***************************************************************************)
(* Every activation returns: retries, pages and waiting are all bounded.   *)
(***************************************************************************)
CallsReturn == \A c \in Calls : pc[c] = "create" ~> Done(c)

(***************************************************************************)
(* Why RollbackOwnRow and SeatKept hold.  Each says something about one    *)
(* hand-over of a machine id: from the server's reply to the call, from    *)
(* the call to its DELETE, and from the DELETE back to the server.         *)
(***************************************************************************)
\* The id `i` is a row made by `c`, and is only gone if someone else's doing.
OwnRow(c, i) == i \in Ids /\ rec[i] # NoRow /\ rec[i].by = c

ReplyOwned ==
  \A c \in Calls :
    LET o == link[c].reply
    IN  pc[c] = "create" /\ o.status = "OK" /\ o.id # 0 =>
          OwnRow(c, o.id) /\ o.id \in live \cup culled

MineOwned ==
  \A c \in Calls :
    LET k == know[c]
    IN  k.mine # 0 =>
          /\ OwnRow(c, k.mine)
          /\ k.verdict # "OVERAGE" => k.mine \in live \cup culled

RollbackReady ==
  \A c \in Calls :
    pc[c] = "rollback" =>
      know[c].mine # 0 /\ arg[c].auto /\ know[c].verdict = "OVERAGE"

\* The verdict is not known before the validation has returned.
VerdictLate ==
  \A c \in Calls :
    pc[c] \in {"idle", "create", "lookup", "validate"} =>
      know[c].verdict = "none"

\* Once a DELETE is out, its call can only wait for it or be over.
RollbackLast ==
  \A r \in net : r.kind = "rollback" => pc[r.call] \in {"rollback", "done"}

IInv == /\ TypeOK
        /\ ReplyOwned
        /\ MineOwned
        /\ VerdictLate
        /\ RollbackReady
        /\ RollbackLast
        /\ RollbackOwnRow

(***************************************************************************)
(* Why the other properties hold.  What one call knows, has sent and has   *)
(* returned, against the rows of the server:                               *)
(***************************************************************************)
RowsOf(c) == {i \in Ids : rec[i] # NoRow /\ rec[i].by = c}

\* A machine with the call's own fingerprint on its own licence.
OurRow(c, i) ==
  /\ i \in Ids /\ rec[i] # NoRow
  /\ rec[i].lic = arg[c].lic /\ rec[i].fp = arg[c].fp

\* An answer always comes with a response, and fits the phase it answers.
ReplyFits(c) ==
  LET o == link[c].reply
  IN  /\ pc[c] \in {"idle", "done"} => ~link[c].sent
      /\ ~link[c].sent => o = NoReply
      /\ o # NoReply =>
           /\ o.resp
           /\ o.status \in {"FINGERPRINT_TAKEN", "LIMIT_EXCEEDED"}
                => pc[c] = "create"
           /\ o.status = "NOT_FOUND" => pc[c] = "rollback"
           /\ o.verdict # "none" <=> pc[c] = "validate" /\ o.status = "OK"

\* A call has at most one request under way: the one it waits for, or the one
\* it has given up on and returned.
OneRequest(c) ==
  \A r \in net : r.call = c =>
    /\ \/ pc[c] = "done"
       \/ pc[c] = r.kind /\ link[c].sent /\ link[c].reply = NoReply
    /\ r.kind = "lookup" => r.page = know[c].page
    /\ r.kind = "rollback" => r.target = know[c].mine
    /\ \A q \in net : q.call = c => q = r

\* A row of the call appears at most once, and not after a refusal.
OneRow(c) ==
  /\ \A i, j \in RowsOf(c) : i = j
  /\ hist[c].creates <= 1
  /\ pc[c] = "idle" \/ (pc[c] = "create" /\ ~link[c].sent) =>
       hist[c].creates = 0 /\ RowsOf(c) = {}
  /\ \A r \in net : r.call = c /\ r.kind = "create" =>
       /\ RowsOf(c) = {}
       /\ pc[c] = "done" => ret[c].status \in {"TRANSPORT", "OUT_OF_MEMORY"}
  /\ \/ pc[c] = "lookup"
     \/ /\ pc[c] = "create"
        /\ link[c].reply.status \in {"FINGERPRINT_TAKEN", "LIMIT_EXCEEDED"}
     \/ Done(c) /\ ret[c].status \in {"FINGERPRINT_TAKEN", "LIMIT_EXCEEDED"}
     => RowsOf(c) = {}

\* How the machine was come by, phase by phase, and what is allocated and in
\* the slot meanwhile; nothing is returned early.
PathFits(c) ==
  /\ pc[c] \in {"idle", "create", "lookup"} =>
       know[c].path = "none" /\ know[c].mine = 0
  /\ pc[c] = "validate" => know[c].path # "none"
  /\ pc[c] = "rollback" => know[c].path = "created"
  /\ ~Done(c) => ret[c] = NoResult
  /\ pc[c] \in Phases => slot[c] = "none"
  /\ pc[c] \in {"idle", "create", "lookup"} => held[c] = {}
  /\ pc[c] = "validate" =>
       held[c] = IF know[c].path = "created" THEN {"created"} ELSE {}
  /\ pc[c] = "rollback" => held[c] = {"created", "validated"}
  /\ Done(c) =>
       OutResponseTable(c) /\ NoResponseLeaked(c) /\ ErrorSlotAgrees(c)

\* An acknowledged DELETE has removed the row.
DeleteTrue(c) ==
  /\ pc[c] = "rollback" /\ link[c].reply # NoReply
       /\ link[c].reply.status = "OK" => know[c].mine \notin live
  /\ RolledBack(c)

\* Every machine id that reaches the call by way of a conflict is its own.
Ours(c) ==
  /\ pc[c] = "create" =>
       /\ link[c].reply.status = "FINGERPRINT_TAKEN" /\ link[c].reply.id # 0 =>
            OurRow(c, link[c].reply.id)
       /\ link[c].reply.own # 0 => OurRow(c, link[c].reply.own)
  /\ pc[c] = "lookup" =>
       \A i \in link[c].reply.hits : rec[i] # NoRow /\ rec[i].lic = arg[c].lic
  /\ know[c].path = "adopted" => OurRow(c, know[c].adopted)
  /\ hist[c].holder # 0 => OurRow(c, hist[c].holder)

\* Where the row behind the conflict stands in the listing of the call.
PlaceOf(c) == Position(hist[c].holder, Candidates(arg[c].lic, arg[c].fp))

\* While nothing is removed, the row behind the conflict is on no page already
\* read, and within the page count of the answer at hand.
Ahead(c) ==
  Quiet /\ hist[c].holder # 0 =>
    /\ pc[c] = "lookup" =>
         /\ PlaceOf(c) > (know[c].page - 1) * PageSize
         /\ link[c].reply # NoReply /\ link[c].reply.status = "OK" =>
              /\ \/ hist[c].holder \in link[c].reply.hits
                 \/ PlaceOf(c) > know[c].page * PageSize
              /\ PlaceOf(c) <= link[c].reply.pages * PageSize
    /\ ret[c].why = "elsewhere" => PlaceOf(c) > MaxPages * PageSize

\* Rows keep their creator, and the ids are handed out in listing order.
RowsKept ==
  /\ culled \subseteq {i \in Ids : rec[i] # NoRow}
  /\ live \cap culled = {}
  /\ \A i \in DOMAIN Installed : rec[i] = Installed[i]
  /\ \A i, j \in Ids : j < i /\ rec[i] # NoRow => rec[j] # NoRow

Good(c) ==
  /\ ReplyFits(c) /\ OneRequest(c) /\ OneRow(c) /\ PathFits(c)
  /\ DeleteTrue(c) /\ Ours(c) /\ Ahead(c)

CallInv == IInv /\ RowsKept /\ \A c \in Calls : Good(c)

-----------------------------------------------------------------------------
(* What comments of the repository say and the code does not guarantee.    *)

(***************************************************************************)
(* tamga_activate_after_create: only a row this call created gets there,   *)
(* "which is what keeps the rollback away from an adopted machine".        *)
(***************************************************************************)
RollbackSparesAdopted ==
  \A r \in net : r.kind = "rollback" /\ r.target \in live =>
    \A c \in Calls : ~(/\ Done(c) /\ know[c].path = "adopted"
                       /\ know[c].adopted = r.target
                       /\ ret[c].status = "OK" /\ know[c].verdict = "VALID")

-----------------------------------------------------------------------------
(* The calls implement the contract of SeatContract.                       *)

SeatOf(c) ==
  IF RowsOf(c) = {} THEN "none"
  ELSE IF RowsOf(c) \cap live # {} THEN "held"
  ELSE IF RowsOf(c) \cap culled # {} THEN "culled"
  ELSE "released"

PhaseOf(c) == IF pc[c] \in {"idle", "done"} THEN pc[c] ELSE "running"

\* The state of the contract, as functions on the calls.
phaseBar == [c \in Calls |-> PhaseOf(c)]
autoBar == [c \in Calls |-> arg[c].auto]
answerBar == [c \in Calls |-> know[c].verdict]
outcomeBar == [c \in Calls |-> ret[c].status]
seatBar == [c \in Calls |-> SeatOf(c)]
installedBar == (live \cup culled) \cap DOMAIN Installed

SC == INSTANCE SeatContract WITH
  phase <- phaseBar, auto <- autoBar, answer <- answerBar,
  outcome <- outcomeBar, seat <- seatBar, installed <- installedBar

\* Activation implements SeatContract.
ImplementsContract == SC!Contract

-----------------------------------------------------------------------------
(* What the callers rely on, in one piece each.                            *)

\* The lookup by fingerprint says yes of our own row only, and no only when
\* there is none: a substring hit is never adopted, a row on a later page
\* never missed while no machine is removed.
LookupExact == \A c \in Calls : AdoptedIsOurs(c) /\ QuietLookupFindsOurs(c)

\* What a call says of seats is so: an error that means "no seat taken" stays
\* true whatever arrives late, and no call can have taken two.
SeatsAsTold == \A c \in Calls : RefusedTookNoSeat(c) /\ CreateSentOnce(c)

\* What the caller holds on return is what the header promises for the code
\* returned: the response handed out, no other one alive, and an error slot
\* that agrees, after lookups and rollbacks that failed on the way too.
CallerTold ==
  \A c \in Calls : Done(c) =>
    OutResponseTable(c) /\ NoResponseLeaked(c) /\ ErrorSlotAgrees(c)
=============================================================================
