--------------------------- MODULE MachineServer ---------------------------
(***************************************************************************)
(* The licensing server as the SDK's activation code relies on it.         *)
(*                                                                         *)
(* The server is not part of this repository: every operator here states   *)
(* what src/src/http/endpoints.c expects of the /machines and /licenses    *)
(* routes (its comments on tamga_client_activate_machine_idempotent give   *)
(* the order of the checks, the uniqueness scopes and the two overage      *)
(* strategies).                                                            *)
(*                                                                         *)
(* A machine row is never re-written, so `rec` remembers every row ever    *)
(* created and `live` says which of them still hold a seat.                *)
(***************************************************************************)
EXTENDS Naturals, FiniteSets

CONSTANTS
  Calls,         \* activation calls, each on a thread of its own
  Licenses,
  Fingerprints,
  Ids,           \* machine ids; allocation order is listing order
  Contains,      \* Contains[q]: the fingerprints `filter[q]=q` matches
  Installed,     \* rows from before the first call: a function on ids
  Policies,      \* the policies the run considers
  SeatLimit,     \* seats per licence
  PageSize,      \* rows in one page of GET /machines
  NoCall,        \* the creator of an installed row
  NoRow          \* the record of an id not yet allocated

ASSUME IdsAssumption == Ids \subseteq Nat \ {0} /\ IsFiniteSet(Ids)
ASSUME NoCallAssumption == NoCall \notin Calls
ASSUME LimitAssumption == SeatLimit \in Nat /\ PageSize \in Nat \ {0}

(***************************************************************************)
(* strict: over-limit creates are refused; otherwise (ALLOW_ACCESS) they   *)
(* succeed and only the next validation reports the overage.               *)
(* account: the fingerprint is unique in the account, not in the licence.  *)
(* names: the patched server, which names the conflicting machine.         *)
(***************************************************************************)
Policy == [strict : BOOLEAN, account : BOOLEAN, names : BOOLEAN]

Row == [lic : Licenses, fp : Fingerprints, by : Calls \cup {NoCall}]

ASSUME RowAssumption ==
  /\ NoRow \notin Row
  /\ Policies \subseteq Policy
  /\ DOMAIN Installed \subseteq Ids
  /\ \A i \in DOMAIN Installed :
       Installed[i] \in Row /\ Installed[i].by = NoCall
  /\ Contains \in [Fingerprints -> SUBSET Fingerprints]
  /\ \A q \in Fingerprints : q \in Contains[q]

\* Ids are numbered in the order of the listing, so the rows from before the
\* first call have the lowest.
ASSUME InstalledFirst ==
  \A i \in DOMAIN Installed : \A j \in Ids : j < i => j \in DOMAIN Installed

VARIABLES
  rec,     \* every row ever created
  live,    \* the ids whose row exists
  culled,  \* rows removed by the server or an operator, not by this SDK
  policy

serverVars == <<rec, live, culled, policy>>

ServerTypeOK ==
  /\ rec \in [Ids -> Row \cup {NoRow}]
  /\ live \subseteq {i \in Ids : rec[i] # NoRow}
  /\ culled \subseteq Ids
  /\ policy \in Policy

ServerInit ==
  /\ rec = [i \in Ids |-> IF i \in DOMAIN Installed THEN Installed[i]
                                                    ELSE NoRow]
  /\ live = DOMAIN Installed
  /\ culled = {}
  /\ policy \in Policies

OnLicense(lic) == {i \in live : rec[i].lic = lic}

Used(lic) == Cardinality(OnLicense(lic))

\* The rows that make a fingerprint "taken" for a licence.
Conflicts(lic, fp) ==
  {i \in live : rec[i].fp = fp /\ (policy.account \/ rec[i].lic = lic)}

\* The machine on the requested licence that holds the fingerprint, if any.
Holder(lic, fp) ==
  IF \E i \in Conflicts(lic, fp) : rec[i].lic = lic
  THEN CHOOSE i \in Conflicts(lic, fp) : rec[i].lic = lic
  ELSE 0

\* errors[0].meta.machineId of the patched server.
Named(lic, fp) == IF policy.names THEN Holder(lic, fp) ELSE 0

Fresh(i) == rec[i] = NoRow /\ \A j \in Ids : j < i => rec[j] # NoRow

Verdict(lic) == IF Used(lic) > SeatLimit THEN "OVERAGE" ELSE "VALID"

\* GET /machines?filter[license]=lic&filter[q]=q, offset-paginated.
Candidates(lic, q) == {i \in OnLicense(lic) : rec[i].fp \in Contains[q]}

Position(i, S) == Cardinality({j \in S : j <= i})

PageOf(lic, q, page) ==
  LET S == Candidates(lic, q)
  IN  {i \in S : /\ Position(i, S) > (page - 1) * PageSize
                 /\ Position(i, S) <= page * PageSize}

TotalPages(lic, q) ==
  (Cardinality(Candidates(lic, q)) + PageSize - 1) \div PageSize

-----------------------------------------------------------------------------
(* Writes. *)

AddRow(i, lic, fp, c) ==
  /\ Fresh(i)
  /\ rec' = [rec EXCEPT ![i] = [lic |-> lic, fp |-> fp, by |-> c]]
  /\ live' = live \cup {i}
  /\ UNCHANGED <<culled, policy>>

RemoveRow(i) ==
  /\ live' = live \ {i}
  /\ UNCHANGED <<rec, culled, policy>>

\* The server culls a machine whose heartbeat stopped; an operator deletes one.
CullRow(i) ==
  /\ i \in live
  /\ live' = live \ {i}
  /\ culled' = culled \cup {i}
  /\ UNCHANGED <<rec, policy>>
=============================================================================
