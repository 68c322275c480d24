------------------------------- MODULE Paging -------------------------------
(***************************************************************************)
(* A caller with a response.  Either it pages through a keyset listing, of *)
(* a release's artifacts say, the way include/tamga.h says to: list with a *)
(* limit, read every row by its index, ask tamga_response_next_cursor for  *)
(* the next page until there is none; rows come and go meanwhile.  Or it   *)
(* calls the readers of Responses on a document of any shape, one after    *)
(* the other into the same variables.                                      *)
(***************************************************************************)
EXTENDS Responses, FiniteSets

CONSTANTS
  MaxId,       \* bound: rows a listing may come to have
  Cap,         \* the server's cap on a page, 100
  Default,     \* the server's page for a limit of 0, 25
  Limits,      \* the limits callers ask for
  Faulty,      \* the rows without a filename
  Documents,   \* the documents read
  Errors       \* the errors of calls

ASSUME PagingAssumption ==
  /\ MaxId \in Nat /\ Cap \in Nat \ {0} /\ Default \in 1..Cap
  /\ Limits \subseteq Nat

\* What tamga_json_parse builds, where it matters: an array is a list, and
\* there are two truth values.
Shaped(d) ==
  /\ Is(Data(d), "array") =>
       LET list == Rows(Data(d)) IN list \in Seq({list[i] : i \in DOMAIN list})
  /\ Is(MetaField(d, "valid"), "bool") =>
       MetaField(d, "valid") \in {Bool(TRUE), Bool(FALSE)}

ASSUME ReadersAssumption ==
  /\ \A d \in Documents : Shaped(d)
  /\ {"MACHINE_LIMIT_EXCEEDED", "CORE_LIMIT_EXCEEDED", "MEMORY_LIMIT_EXCEEDED",
      "DISK_LIMIT_EXCEEDED", "TOO_MANY_PROCESSES"} \subseteq Errors

VARIABLES
  phase,       \* idle, ask, reading, done, failed, or given a document
  doc,         \* the response the caller holds
  index,       \* the row it reads next
  limit, after, \* what it asks for
  got,         \* the ids of the rows it has read, in order
  rows,        \* the rows on the server
  stayed,      \* those that are there since the loop began
  outs,        \* the caller's variables, for each reader
  slot         \* the thread's error slot holds an error

readerVars == <<phase, doc, index, limit, after, got, rows, stayed, outs, slot>>
loop == <<index, limit, after, got, rows, stayed>>

Ids == 1..MaxId

\* An id is a string, which the SDK only hands on; the server orders rows by it.
NameOf(i) == Str(i)
IdOf(name) == IF Is(name, "missing") THEN 0 ELSE CHOOSE i \in Ids : NameOf(i) = name

Untouched == <<"untouched", 0>>
Fresh == [page |-> [n \in PageFields |-> Untouched],
          signing_key |-> [n \in SigningKeyFields |-> Untouched],
          artifact |-> [n \in ArtifactFields |-> Untouched],
          integrity |-> [n \in IntegrityFields |-> Untouched]]

ReaderInit ==
  /\ phase = "idle" /\ doc = Missing /\ index = 0 /\ limit = 0 /\ after = 0
  /\ got = <<>> /\ rows = {} /\ stayed = {} /\ outs = Fresh /\ slot = FALSE

-----------------------------------------------------------------------------
(* The server.                                                               *)

Artifact(i) ==
  Obj([id |-> NameOf(i), type |-> Str("artifacts"),
       attributes |-> Obj([status |-> Str("UPLOADED"), platform |-> Null,
                           filename |-> IF i \in Faulty THEN Null ELSE Str("f")])])

Listed(ids) == Obj([data |-> Arr([k \in DOMAIN ids |-> Artifact(ids[k])])])

PageSize(asked) == IF asked = 0 THEN Default ELSE IF asked < Cap THEN asked ELSE Cap

\* How many rows after the cursor there are up to row i.
Place(cursor, i) == Cardinality({j \in rows : cursor < j /\ j <= i})

PageAfter(asked, cursor) ==
  {i \in rows : i > cursor /\ Place(cursor, i) <= PageSize(asked)}

PageIds(asked, cursor) ==
  [k \in 1..Cardinality(PageAfter(asked, cursor)) |->
     CHOOSE i \in PageAfter(asked, cursor) : Place(cursor, i) = k]

\* GET .../artifacts?limit=...&page[after]=...
Answer(asked, cursor) == Listed(PageIds(asked, cursor))

InsertRow ==
  /\ phase \in {"ask", "reading"}
  /\ \E i \in Ids \ rows : rows' = rows \cup {i}
  /\ UNCHANGED <<phase, doc, index, limit, after, got, stayed, outs, slot>>

RemoveRow ==
  /\ phase \in {"ask", "reading"}
  /\ \E i \in rows : rows' = rows \ {i} /\ stayed' = stayed \ {i}
  /\ UNCHANGED <<phase, doc, index, limit, after, got, outs, slot>>

-----------------------------------------------------------------------------
(* Paging through a listing.                                                 *)

StartPaging ==
  /\ phase = "idle" /\ phase' = "ask"
  /\ limit' \in Limits /\ rows' \in SUBSET Ids /\ stayed' = rows'
  /\ UNCHANGED <<doc, index, after, got, outs, slot>>

\* A bug to be caught: the cursor is left out of the request.
AskForgets ==
  /\ phase = "ask"
  /\ doc' = Answer(limit, 0) /\ phase' = "reading" /\ index' = 0 /\ slot' = FALSE
  /\ UNCHANGED <<limit, after, got, rows, stayed, outs>>

\* tamga_list: a page, or an error and no response.
Ask ==
  /\ phase = "ask"
  /\ \/ doc' = Answer(limit, after) /\ phase' = "reading" /\ slot' = FALSE
     \/ doc' = Missing /\ phase' = "failed" /\ slot' = TRUE
  /\ index' = 0
  /\ UNCHANGED <<limit, after, got, rows, stayed, outs>>

ReadRow ==
  /\ phase = "reading" /\ index < ResourceCount(doc, "artifacts")
  /\ \E read \in {ArtifactAt(doc, index, outs.artifact)} :
       /\ outs' = [outs EXCEPT !.artifact = read.outs]
       /\ got' = IF read.ok THEN Append(got, IdOf(read.outs["id"])) ELSE got
  /\ index' = index + 1 /\ slot' = FALSE
  /\ UNCHANGED <<phase, doc, limit, after, rows, stayed>>

TurnPage ==
  LET cursor == NextCursor(doc, limit)
  IN /\ phase = "reading" /\ index = ResourceCount(doc, "artifacts")
     /\ after' = IdOf(cursor) /\ slot' = FALSE /\ doc' = Missing
     /\ phase' = IF Is(cursor, "missing") THEN "done" ELSE "ask"
     /\ UNCHANGED <<index, limit, got, rows, stayed, outs>>

-----------------------------------------------------------------------------
(* Reading a document.                                                       *)

Given ==
  /\ phase = "idle" /\ phase' = "given" /\ doc' \in Documents
  /\ slot' \in BOOLEAN /\ UNCHANGED <<loop, outs>>

\* Out-parameters are the caller's; the reader clears the error slot.
Read ==
  /\ phase = "given" /\ slot' = FALSE
  /\ \/ outs' = [outs EXCEPT !.page = Page(doc, @).outs]
     \/ \E i \in 0..2 :
          \/ outs' = [outs EXCEPT !.signing_key = SigningKeyAt(doc, i, @).outs]
          \/ outs' = [outs EXCEPT !.artifact = ArtifactAt(doc, i, @).outs]
          \/ outs' = [outs EXCEPT !.integrity = IntegrityAt(doc, i, @).outs]
  /\ UNCHANGED <<phase, doc, loop>>

ReaderNext == StartPaging \/ InsertRow \/ RemoveRow \/ Ask \/ ReadRow \/ TurnPage \/ Given \/ Read

\* The caller goes on; rows may come and go or not.
ReaderSpec == ReaderInit /\ [][ReaderNext]_readerVars /\ WF_readerVars(Ask \/ ReadRow \/ TurnPage)

-----------------------------------------------------------------------------
(* What the readers promise.                                                 *)

ReaderTypeOK ==
  /\ phase \in {"idle", "ask", "reading", "done", "failed", "given"}
  /\ index \in 0..Cap /\ limit \in Limits \cup {0} /\ after \in 0..MaxId
  /\ stayed \subseteq rows /\ rows \subseteq Ids
  /\ \A k \in 1..Len(got) : got[k] \in Ids
  /\ slot \in BOOLEAN

\* A caller that pages with next_cursor reads no row twice, whatever comes and
\* goes between two pages.
ReadOnce == \A j, k \in 1..Len(got) : j < k => got[j] < got[k]

\* tamga_response_next_cursor answers NULL on the last page only: when the
\* loop ends without an error, every readable row that was there all along has
\* been read, provided the limit is one the server keeps (1 to its cap).
PagedWhole ==
  /\ phase = "done" /\ limit \in 1..Cap =>
       \A i \in stayed \ Faulty : \E k \in 1..Len(got) : got[k] = i
  /\ phase = "failed" => slot

\* The loop ends, full pages and empty ones included.
PagingEnds == phase = "ask" ~> phase \in {"done", "failed"}

\* A caller that ignores a reader's return value never sees a mixture: its
\* variables are untouched, or are one row or one page object of the document.
Whole(reader, required) ==
  LET rowsOf == Rows(IF Is(Data(doc), "array") THEN Data(doc) ELSE Arr(<<Data(doc)>>))
      sources == IF reader = "page" THEN <<Get(Get(doc, "meta"), "page")>> ELSE rowsOf
      Field(v, n) == Get(IF reader = "page" \/ n = "id" THEN v ELSE Attributes(v), n)
  IN \/ outs[reader] = Fresh[reader]
     \/ \E k \in 1..Len(sources) : \A n \in DOMAIN outs[reader] :
          IF n \in required \/ Is(Field(sources[k], n), IF reader = "page" THEN "int" ELSE "string")
          THEN outs[reader][n] = Field(sources[k], n)
          ELSE Is(outs[reader][n], "missing")

OutsWhole ==
  phase = "given" =>
    /\ Whole("page", PageFields)
    /\ Whole("signing_key", SigningKeyFields \ {"retired"})
    /\ Whole("artifact", {"id", "filename", "status"})
    /\ Whole("integrity", {"created", "updated"})

\* A loop over 0..count-1 meets every resource of the type asked for at its
\* own place, whatever rows it cannot read lie between, and no resource of
\* another type; past the count there is nothing.
RowsInPlace ==
  \A type \in {"artifacts", "entitlements"} :
    LET data == Data(doc)
        all == IF Is(data, "array") THEN Rows(data) ELSE <<data>>
        places == {i \in 0..Len(all) - 1 : Get(all[i + 1], "type") = Str(type)}
        count == ResourceCount(doc, type)
    IN /\ {i \in 0..Len(all) + 1 : ~Is(ResourceAt(doc, i, type), "missing")} = places
       /\ \A i \in places : i < count

\* The flag, the code and the detail of a verdict come from one object: a
\* `valid` outside the envelope never goes with a code inside it.
VerdictOneSource ==
  \E source \in {1, 2} :
    LET v == IF source = 1 THEN doc ELSE Get(doc, "meta")
    IN /\ ValidationIsValid(doc) = (Get(v, "valid") = Bool(TRUE))
       /\ ValidationCode(doc) = AsString(Get(v, "code"))
       /\ ValidationDetail(doc) = AsString(Get(v, "detail"))

\* A limit is told in two vocabularies, as the error of a strict policy and as
\* the code of a lenient one: what counts as an overage is the same in both,
\* and neither success nor an unknown code is one.
OverageEitherWay ==
  LET code == CodeParse(ValidationCode(doc))
  IN /\ IsOverage(code) = (code # "UNKNOWN" /\ \E e \in Errors : CodeFromError(e) = code)
     /\ \A e \in Errors : CodeFromError(e) \in ValidationCodes =>
                            IsOverage(CodeFromError(e))

\* A number that is not in the document is not made up: a null or a missing
\* size, cap or counter never reads as one, and the default window is that of
\* a policy that says null, never that of another document.
NumbersHonest ==
  LET window == HeartbeatWindow(doc)
      said == Get(Attributes(Data(doc)), "heartbeat_duration")
      Own(read, i, field) ==
        Is(read, "missing")
          \/ read = Get(Attributes(IF Is(Data(doc), "array") THEN Rows(Data(doc))[i + 1]
                                   ELSE Data(doc)), field)
  IN /\ \/ Is(window, "missing")
        \/ window[2] > 0 /\ (window = said \/ Is(said, "null"))
     /\ \A i \in 0..2 :
          /\ Own(FilesizeAt(doc, i), i, "filesize")
          /\ Own(MaxValueAt(doc, i), i, "max_value")
          /\ Own(CurrentValueAt(doc, i), i, "current_value")
          /\ Own(EntitlementKindAt(doc, i), i, "kind")
     /\ Own(RedirectUrl(doc), 0, "redirectUrl")

\* A walk with tamga_response_next_cursor over a listing that changes meanwhile
\* reads no row twice and, when it ends without an error, every row that
\* stayed; provided that the limit is one the server honours, neither 0 nor
\* above its cap (PagedWhole).
WalkSound == ReaderTypeOK /\ ReadOnce /\ PagedWhole

\* The readers tell what the document says, whatever its shape: no mixture of
\* two rows or two verdicts, no row out of place, no number made up, and one
\* idea of an overage.
ReadersSound ==
  OutsWhole /\ RowsInPlace /\ VerdictOneSource /\ OverageEitherWay /\ NumbersHonest

-----------------------------------------------------------------------------
(* Why they hold.                                                            *)

\* The rows of the page held.
HeldIds == [k \in DOMAIN Rows(Data(doc)) |-> IdOf(Get(Rows(Data(doc))[k], "id"))]

\* A page lists, in order, rows after the cursor; a row that stayed is on it,
\* or the page is full and the row comes later.
PageHeld ==
  phase = "reading" =>
    /\ doc = Listed(HeldIds)
    /\ HeldIds \in Seq(Ids) /\ index <= Len(HeldIds) /\ Len(HeldIds) <= PageSize(limit)
    /\ \A k \in DOMAIN HeldIds : after < HeldIds[k]
    /\ \A j, k \in DOMAIN HeldIds : j < k => HeldIds[j] < HeldIds[k]
    /\ \A i \in stayed : i > after =>
         \/ \E k \in DOMAIN HeldIds : HeldIds[k] = i
         \/ Len(HeldIds) = PageSize(limit) /\ \A k \in DOMAIN HeldIds : HeldIds[k] < i

\* What has been read: the rows up to the cursor, and those of the page up to
\* the index.
ReadSoFar ==
  /\ phase \in {"ask", "reading"} =>
       \A i \in stayed \ Faulty : i <= after => \E k \in 1..Len(got) : got[k] = i
  /\ phase = "ask" => \A k \in 1..Len(got) : got[k] <= after
  /\ phase = "reading" =>
       /\ \A k \in 1..Len(got) :
            got[k] <= after \/ \E j \in 1..index : got[k] = HeldIds[j]
       /\ \A j \in 1..index : HeldIds[j] \notin Faulty =>
            \E k \in 1..Len(got) : got[k] = HeldIds[j]
  /\ phase = "idle" => after = 0 /\ got = <<>> /\ index = 0

Readers == {"page", "signing_key", "artifact", "integrity"}

PagingInv ==
  /\ WalkSound /\ got \in Seq(Ids)
  /\ PageHeld /\ ReadSoFar
  /\ Shaped(doc)
  /\ outs = [r \in Readers |-> outs[r]] /\ (phase = "idle" => outs = Fresh)
  /\ OutsWhole
=============================================================================
