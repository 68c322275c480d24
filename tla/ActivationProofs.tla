-------------------------- MODULE ActivationProofs --------------------------
(***************************************************************************)
(* Proofs about Activation, for any number of calls, machines, pages and   *)
(* retries and for every policy.                                           *)
(***************************************************************************)
EXTENDS Activation, FiniteSetTheorems, TLAPS

(***************************************************************************)
(* Facts about the records a call is made of.                              *)
(***************************************************************************)

\* A failure is a well-formed outcome that names no machine; so is a plain
\* answer of the server.
LEMMA FailureFacts ==
  ASSUME NEW s \in Statuses
  PROVE  /\ Failure(s) \in Outcome
         /\ Failure(s).status = s /\ Failure(s).id = 0
         /\ Answer(s) \in Outcome
         /\ Answer(s).status = s /\ Answer(s).id = 0
BY DEF Failure, Answer, Outcome, Verdicts, MaybeId

\* Before a reply arrives no machine is named.
LEMMA NewLinkFacts ==
  /\ NoReply \in Outcome
  /\ NoReply.id = 0
  /\ NewLink \in Link
  /\ NewLink.reply = NoReply
  /\ \A a \in 0..MaxRetries :
       /\ [NewLink EXCEPT !.attempt = a] \in Link
       /\ [NewLink EXCEPT !.attempt = a].reply = NoReply
<1>1. NoReply \in Outcome /\ NoReply.id = 0
  BY FailureFacts DEF NoReply, Statuses
<1>2. 0 \in 0..MaxRetries
  BY BoundsAssumption
<1>3. QED
  BY <1>1, <1>2 DEF NewLink, Link

\* Whatever ends an endpoint call, its status is a known one, and it names a
\* machine only if it is the reply the server gave.
LEMMA OutcomesFacts ==
  ASSUME TypeOK, NEW c \in Calls, NEW o \in Outcomes(c)
  PROVE  /\ o \in Outcome
         /\ o.id # 0 => o = link[c].reply
         /\ o.status = "OK" => o = link[c].reply
<1>1. \A s \in Refusals(c) : s \in Statuses /\ s # "OK"
  BY DEF Refusals, ValidateRefusal, Statuses
<1>2. link[c].reply \in Outcome
  BY DEF TypeOK, Link
<1>3. {"TRANSPORT", "OUT_OF_MEMORY"} \subseteq Statuses
  BY DEF Statuses
<1>4. CASE ~link[c].sent
  BY <1>1, <1>4, FailureFacts DEF Outcomes
<1>5. CASE link[c].sent
  BY <1>2, <1>3, <1>5, FailureFacts DEF Outcomes
<1>6. QED
  BY <1>4, <1>5 DEF TypeOK, Link

LEMMA LearntFacts ==
  ASSUME NEW path \in {"none", "created", "adopted"},
         NEW m \in MaybeId, NEW a \in MaybeId, NEW page \in 0..MaxPages
  PROVE  /\ Learnt(path, m, a, page) \in Knowledge
         /\ Learnt(path, m, a, page).mine = m
         /\ Learnt(path, m, a, page).verdict = "none"
BY DEF Learnt, Knowledge, Verdicts

LEMMA SmallFacts ==
  /\ 0 \in MaybeId /\ Ids \subseteq MaybeId
  /\ 0 \in 0..MaxPages /\ 1 \in 0..MaxPages
  /\ "validate" \in Phases /\ "lookup" \in Phases /\ "rollback" \in Phases
BY BoundsAssumption DEF MaybeId, Phases

\* What a call returns is a well-formed result.
LEMMA ReturnedFacts ==
  ASSUME NEW s \in Statuses, NEW resp \in {"null", "created", "validated"}
  PROVE  Returned(s, resp) \in Result
BY DEF Returned, Result

\* The types of what a call has allocated and of its thread's slot.
Memory ==
  /\ held \in [Calls -> SUBSET Responses]
  /\ slot \in [Calls -> Statuses \cup {"none"}]

\* What is alive and in the slot after an endpoint has returned.
LEMMA AliveFacts ==
  ASSUME NEW c \in Calls, NEW o \in Outcome, NEW name
  PROVE  /\ o.resp => Alive(c, o, name) = held[c] \cup {name}
         /\ ~o.resp => Alive(c, o, name) = held[c]
BY DEF Alive

LEMMA AliveType ==
  ASSUME TypeOK, NEW c \in Calls, NEW o \in Outcome, NEW name \in Responses
  PROVE  /\ Alive(c, o, name) \in SUBSET Responses
         /\ SlotAfter(c, o) \in Statuses \cup {"none"}
<1>1. held[c] \in SUBSET Responses /\ slot[c] \in Statuses \cup {"none"}
      /\ o.status \in Statuses
  BY DEF TypeOK, Outcome
<1>2. QED
  BY <1>1 DEF Alive, SlotAfter

\* The end of tamga_activate_after_create is a return.
LEMMA HandOverFinishes ==
  ASSUME NEW c \in Calls, NEW st \in Statuses, NEW alive \in SUBSET Responses,
         NEW s, HandOver(c, st, alive, s)
  PROVE  \E out \in {"null", "validated"}, a \in SUBSET Responses :
           Finish(c, Returned(st, out), a, s)
<1> DEFINE rest == alive \ {"created"}
           out == IF arg[c].out /\ "validated" \in rest THEN "validated" ELSE "null"
           a == IF arg[c].out THEN rest ELSE rest \ {"validated"}
<1>1. Finish(c, Returned(st, out), a, s)
  BY DEF HandOver
<1>2. out \in {"null", "validated"} /\ a \in SUBSET Responses
  OBVIOUS
<1> HIDE DEF rest, out, a
<1>3. QED
  BY <1>1, <1>2

\* ... and it hands out what it does not free.
LEMMA HandOverGives ==
  ASSUME NEW c \in Calls, NEW st, NEW alive, NEW s, HandOver(c, st, alive, s),
         alive \ {"created"} \subseteq {"validated"}
  PROVE  LET out == IF arg[c].out /\ "validated" \in alive THEN "validated" ELSE "null"
         IN  Finish(c, Returned(st, out), IF out = "null" THEN {} ELSE {out}, s)
<1> DEFINE rest == alive \ {"created"}
           out == IF arg[c].out /\ "validated" \in rest THEN "validated" ELSE "null"
           a == IF arg[c].out THEN rest ELSE rest \ {"validated"}
<1>1. Finish(c, Returned(st, out), a, s)
  BY DEF HandOver
<1>2. a = (IF out = "null" THEN {} ELSE {out})
  OBVIOUS
<1>3. "validated" \in rest <=> "validated" \in alive
  OBVIOUS
<1> HIDE DEF rest, a
<1>4. QED
  BY <1>1, <1>2, <1>3

-----------------------------------------------------------------------------
(***************************************************************************)
(* The two ways a call moves on, and the types they preserve.              *)
(***************************************************************************)

\* Entering a phase touches only the call's own phase and link.
LEMMA EnterType ==
  ASSUME TypeOK, NEW c \in Calls, NEW ph \in Phases, Enter(c, ph)
  PROVE  /\ pc' \in [Calls -> Phases \cup {"idle", "done"}]
         /\ link' \in [Calls -> Link]
         /\ ret' \in [Calls -> Result]
         /\ slot' \in [Calls -> Statuses \cup {"none"}]
BY NewLinkFacts DEF TypeOK, Enter

\* Returning keeps the types.
LEMMA FinishType ==
  ASSUME TypeOK, NEW c \in Calls, NEW r \in Result, NEW a \in SUBSET Responses,
         NEW s \in Statuses \cup {"none"}, Finish(c, r, a, s)
  PROVE  /\ pc' \in [Calls -> Phases \cup {"idle", "done"}]
         /\ link' \in [Calls -> Link]
         /\ ret' \in [Calls -> Result]
         /\ Memory'
BY NewLinkFacts DEF TypeOK, Finish, Memory

-----------------------------------------------------------------------------
(***************************************************************************)
(* Steps of a call.                                                        *)
(***************************************************************************)

\* What a call that goes on to phase `p` may claim to know.
Consistent(c, p, k) ==
  /\ k.mine # 0 => /\ OwnRow(c, k.mine)
                   /\ k.verdict # "OVERAGE" => k.mine \in live \cup culled
  /\ p = "rollback" => k.mine # 0 /\ arg[c].auto /\ k.verdict = "OVERAGE"
  /\ p \in {"create", "lookup", "validate"} => k.verdict = "none"
  /\ pc[c] \in {"rollback", "done"} =>
       p = "done" /\ k.verdict = know[c].verdict

\* A call that ends an endpoint call and goes on to phase `p` knowing `k`
\* preserves the invariant if what it now knows is true of its own row.
LEMMA LocalStep ==
  ASSUME IInv, NEW c \in Calls,
         UNCHANGED <<rec, live, culled, policy, arg, net>>,
         NEW p \in Phases \cup {"done"},
         pc' = [pc EXCEPT ![c] = p],
         link' = [link EXCEPT ![c] = NewLink],
         NEW k \in Knowledge, know' = [know EXCEPT ![c] = k],
         Memory',
         ret' \in [Calls -> Result],
         hist' \in [Calls -> History],
         Consistent(c, p, k)
  PROVE  IInv'
<1>1. TypeOK'
  BY NewLinkFacts DEF IInv, TypeOK, ServerTypeOK, Memory
<1>2. ReplyOwned'
  BY NewLinkFacts DEF IInv, TypeOK, ReplyOwned, OwnRow
<1>3. MineOwned'
  BY DEF IInv, TypeOK, MineOwned, OwnRow, Consistent
<1>4. RollbackReady'
  BY DEF IInv, TypeOK, RollbackReady, Consistent
<1>5. RollbackLast'
  BY DEF IInv, TypeOK, RollbackLast, Request, Consistent
<1>6. RollbackOwnRow'
  <2>1. \A r \in net : r.call = c /\ r.kind = "rollback" =>
          k.verdict = know[c].verdict
    BY DEF IInv, RollbackLast, Consistent
  <2>2. QED
    BY <2>1 DEF IInv, TypeOK, RollbackOwnRow, Request
<1>7. VerdictLate'
  BY DEF IInv, TypeOK, VerdictLate, Consistent, Phases
<1>8. QED
  BY <1>1, <1>2, <1>3, <1>4, <1>5, <1>6, <1>7 DEF IInv

\* Sending puts a request on the network; a DELETE names the call's own row.
LEMMA SendStep ==
  ASSUME IInv, NEW c \in Calls, Send(c)
  PROVE  IInv'
<1>1. RequestOf(c) \in Request
  BY BoundsAssumption DEF Send, RequestOf, Request, IInv, TypeOK, Knowledge, MaybeId
<1>2. TypeOK'
  <2>1. link' \in [Calls -> Link]
    BY DEF Send, IInv, TypeOK, Link
  <2>2. hist' \in [Calls -> History]
    <3>1. hist \in [Calls -> History]
      BY DEF IInv, TypeOK
    <3>2. \A n \in Nat : [hist[c] EXCEPT !.creates = n] \in History
      BY <3>1 DEF History
    <3>3. hist[c].creates \in Nat
      BY <3>1 DEF History
    <3>4. QED
      BY <3>1, <3>2, <3>3 DEF Send
  <2>3. QED
    BY <1>1, <2>1, <2>2 DEF Send, IInv, TypeOK, ServerTypeOK
<1>3. \A d \in Calls : link'[d].reply = link[d].reply
  BY DEF Send, IInv, TypeOK, Link
<1>4. ReplyOwned'
  BY <1>3 DEF Send, IInv, ReplyOwned, OwnRow
<1>5. MineOwned' /\ RollbackReady' /\ VerdictLate'
  BY DEF Send, IInv, MineOwned, RollbackReady, VerdictLate, OwnRow
<1>6. RollbackLast'
  BY DEF Send, IInv, RollbackLast, RequestOf
<1>7. RollbackOwnRow'
  <2>1. pc[c] = "rollback" =>
          /\ RequestOf(c).target = know[c].mine
          /\ OwnRow(c, know[c].mine)
          /\ arg[c].auto /\ know[c].verdict = "OVERAGE"
    BY DEF IInv, RollbackReady, MineOwned, RequestOf
  <2>2. RequestOf(c).call = c /\ RequestOf(c).kind = pc[c]
    BY DEF RequestOf
  <2>3. QED
    BY <2>1, <2>2 DEF Send, IInv, RollbackOwnRow, OwnRow
<1>8. QED
  BY <1>2, <1>4, <1>5, <1>6, <1>7 DEF IInv

\* A retry starts the endpoint's exchange over.
LEMMA RetryStep ==
  ASSUME IInv, NEW c \in Calls, Retry(c)
  PROVE  IInv'
<1>1. link[c].attempt + 1 \in 0..MaxRetries
  BY BoundsAssumption DEF Retry, MayRetry, IInv, TypeOK, Link
<1>2. /\ link' \in [Calls -> Link]
      /\ link'[c].reply = NoReply
      /\ \A d \in Calls : d # c => link'[d] = link[d]
  BY <1>1, NewLinkFacts DEF Retry, IInv, TypeOK
<1>3. TypeOK'
  BY <1>2 DEF Retry, IInv, TypeOK, ServerTypeOK
<1>4. ReplyOwned'
  BY <1>2, NewLinkFacts DEF Retry, IInv, ReplyOwned, OwnRow
<1>5. /\ MineOwned' /\ RollbackReady' /\ VerdictLate'
      /\ RollbackLast' /\ RollbackOwnRow'
  BY DEF Retry, IInv, MineOwned, RollbackReady, VerdictLate, RollbackLast,
         RollbackOwnRow, OwnRow
<1>6. QED
  BY <1>3, <1>4, <1>5 DEF IInv

\* Returning without learning anything: the four error exits.
LEMMA FinishStep ==
  ASSUME IInv, NEW c \in Calls, NEW r \in Result, NEW a \in SUBSET Responses,
         NEW s \in Statuses \cup {"none"}, Finish(c, r, a, s),
         UNCHANGED <<know, hist>>,
         UNCHANGED <<rec, live, culled, policy, arg, net>>
  PROVE  IInv'
<1>1. TypeOK
  BY DEF IInv
<1>2. pc' = [pc EXCEPT ![c] = "done"] /\ link' = [link EXCEPT ![c] = NewLink]
  BY DEF Finish
<1>3. /\ Memory'
      /\ ret' \in [Calls -> Result]
  BY <1>1, FinishType
<1>4. know[c] \in Knowledge /\ know' = [know EXCEPT ![c] = know[c]]
  BY <1>1 DEF TypeOK
<1>5. Consistent(c, "done", know[c])
  BY DEF IInv, MineOwned, Consistent
<1>6. hist' \in [Calls -> History]
  BY <1>1 DEF TypeOK
<1>7. QED
  BY <1>2, <1>3, <1>4, <1>5, <1>6, LocalStep

\* Adopting a machine: the call owns no row.
LEMMA AdoptStep ==
  ASSUME IInv, NEW c \in Calls, NEW i \in Ids, NEW a \in SUBSET Responses,
         Adopt(c, i, a),
         pc[c] \in {"create", "lookup"},
         UNCHANGED <<rec, live, culled, policy, arg, net>>
  PROVE  IInv'
<1> DEFINE k == Learnt("adopted", 0, i, 0)
<1>1. k \in Knowledge /\ k.mine = 0 /\ k.verdict = "none"
  BY SmallFacts, LearntFacts
<1>2. /\ know' = [know EXCEPT ![c] = k] /\ UNCHANGED <<hist, ret>>
      /\ held' = [held EXCEPT ![c] = a] /\ slot' = [slot EXCEPT ![c] = "none"]
  BY DEF Adopt, Enter
<1>3. pc' = [pc EXCEPT ![c] = "validate"] /\ link' = [link EXCEPT ![c] = NewLink]
  BY DEF Adopt, Enter
<1> HIDE DEF k
<1>4. /\ Memory'
      /\ ret' \in [Calls -> Result]
      /\ hist' \in [Calls -> History]
  BY <1>2 DEF IInv, TypeOK, Memory
<1>5. Consistent(c, "validate", k)
  BY <1>1 DEF Consistent
<1>6. QED
  BY <1>1, <1>2, <1>3, <1>4, <1>5, SmallFacts, LocalStep

\* The create endpoint returns.
LEMMA CreateStep ==
  ASSUME IInv, NEW c \in Calls, CreateReturns(c)
  PROVE  IInv'
<1>1. TypeOK /\ pc[c] = "create" /\ UNCHANGED <<rec, live, culled, policy, arg, net>>
  BY DEF IInv, CreateReturns
<1>2. PICK o \in Outcomes(c) :
        \/ o.status = "OK" /\ CreateSucceeded(c, o)
        \/ o.status = "FINGERPRINT_TAKEN" /\ arg[c].idem /\ Conflict(c, o)
        \/ o.status # "OK" /\ CreateFailed(c, o)
  BY DEF CreateReturns
<1>3. o \in Outcome /\ (o.status = "OK" => o = link[c].reply)
  BY <1>1, OutcomesFacts
<1>8. /\ Alive(c, o, "created") \in SUBSET Responses
      /\ Alive(c, o, "created") \ {"created"} \in SUBSET Responses
      /\ SlotAfter(c, o) \in Statuses \cup {"none"}
  BY <1>1, <1>3, AliveType DEF Responses
<1> DEFINE rest == Alive(c, o, "created") \ {"created"}
<1>4. CASE o.status = "OK" /\ CreateSucceeded(c, o)
  <2> DEFINE k == Learnt("created", o.id, 0, 0)
  <2>1. k \in Knowledge /\ k.mine = o.id /\ k.verdict = "none"
    BY <1>3, SmallFacts, LearntFacts DEF Outcome
  <2>2. /\ know' = [know EXCEPT ![c] = k]
        /\ held' = [held EXCEPT ![c] = Alive(c, o, "created")]
        /\ slot' = [slot EXCEPT ![c] = "none"]
        /\ UNCHANGED <<hist, ret>>
        /\ pc' = [pc EXCEPT ![c] = "validate"]
        /\ link' = [link EXCEPT ![c] = NewLink]
    BY <1>4 DEF CreateSucceeded, Enter
  <2> HIDE DEF k
  <2>3. /\ Memory'
        /\ ret' \in [Calls -> Result]
        /\ hist' \in [Calls -> History]
    BY <1>1, <1>8, <2>2 DEF TypeOK, Memory
  <2>4. o.id # 0 => OwnRow(c, o.id) /\ o.id \in live \cup culled
    BY <1>1, <1>3, <1>4 DEF IInv, ReplyOwned
  <2>5. Consistent(c, "validate", k)
    BY <1>1, <2>1, <2>4 DEF Consistent
  <2>6. QED
    BY <1>1, <2>1, <2>2, <2>3, <2>5, SmallFacts, LocalStep
<1>5. CASE Conflict(c, o)
  <2>1. CASE o.id # 0 /\ Adopt(c, o.id, rest)
    BY <1>1, <1>3, <1>8, <2>1, AdoptStep DEF Outcome, MaybeId
  <2>2. CASE CopyFails(c, rest)
    BY <1>1, <1>8, <2>2, FinishStep, ReturnedFacts DEF CopyFails, Statuses
  <2>3. CASE /\ Enter(c, "lookup")
             /\ know' = [know EXCEPT ![c] = Learnt("none", 0, 0, 1)]
             /\ hist' = [hist EXCEPT ![c].holder = o.own]
             /\ held' = [held EXCEPT ![c] = rest]
    <3> DEFINE k == Learnt("none", 0, 0, 1)
    <3>1. k \in Knowledge /\ k.mine = 0 /\ k.verdict = "none"
      BY SmallFacts, LearntFacts
    <3>2. hist' \in [Calls -> History]
      BY <1>1, <1>3, <2>3 DEF TypeOK, History, Outcome
    <3>3. /\ pc' = [pc EXCEPT ![c] = "lookup"]
          /\ link' = [link EXCEPT ![c] = NewLink]
          /\ know' = [know EXCEPT ![c] = k]
          /\ held' = [held EXCEPT ![c] = rest]
          /\ slot' = [slot EXCEPT ![c] = "none"]
          /\ UNCHANGED ret
      BY <2>3 DEF Enter
    <3> HIDE DEF k, rest
    <3>4. /\ Memory'
          /\ ret' \in [Calls -> Result]
      BY <1>1, <1>8, <3>3 DEF TypeOK, Memory, rest
    <3>5. Consistent(c, "lookup", k)
      BY <1>1, <3>1 DEF Consistent
    <3>6. QED
      BY <1>1, <3>1, <3>2, <3>3, <3>4, <3>5, SmallFacts, LocalStep
  <2>4. QED
    BY <1>5, <2>1, <2>2, <2>3 DEF Conflict
<1>6. CASE CreateFailed(c, o)
  <2>1. o.status \in Statuses
    BY <1>3 DEF Outcome
  <2>2. \E r \in Result, a \in SUBSET Responses : Finish(c, r, a, SlotAfter(c, o))
    BY <1>6, <1>8, <2>1, ReturnedFacts DEF CreateFailed
  <2>3. UNCHANGED <<know, hist>>
    BY <1>6 DEF CreateFailed
  <2>4. QED
    BY <1>1, <1>8, <2>2, <2>3, FinishStep
<1>7. QED
  BY <1>2, <1>4, <1>5, <1>6

\* A page of the lookup is read.
LEMMA LookupStep ==
  ASSUME IInv, NEW c \in Calls, LookupReturns(c)
  PROVE  IInv'
<1>1. TypeOK /\ pc[c] = "lookup" /\ UNCHANGED <<rec, live, culled, policy, arg, net>>
  BY DEF IInv, LookupReturns
<1>2. PICK o \in Outcomes(c) :
        LET rest == Alive(c, o, "listed") \ {"listed"}
        IN  \/ /\ Finish(c, Returned(o.status, "null"), rest, SlotAfter(c, o))
               /\ UNCHANGED <<know, hist>>
            \/ Stands(c, "unresolved", rest)
            \/ PageRead(c, o, rest)
  BY DEF LookupReturns
<1>3. o \in Outcome
  BY <1>1, OutcomesFacts
<1>8. /\ Alive(c, o, "listed") \ {"listed"} \in SUBSET Responses
      /\ SlotAfter(c, o) \in Statuses \cup {"none"}
  BY <1>1, <1>3, AliveType DEF Responses
<1> DEFINE rest == Alive(c, o, "listed") \ {"listed"}
<1>4. CASE /\ Finish(c, Returned(o.status, "null"), rest, SlotAfter(c, o))
           /\ UNCHANGED <<know, hist>>
  <2>1. Returned(o.status, "null") \in Result
    BY <1>3, ReturnedFacts DEF Outcome
  <2>2. QED
    BY <1>1, <1>4, <1>8, <2>1, FinishStep
<1>9. CASE CopyFails(c, rest)
  BY <1>1, <1>8, <1>9, FinishStep, ReturnedFacts DEF CopyFails, Statuses
<1>5. ASSUME NEW reason \in {"unresolved", "elsewhere"}, Stands(c, reason, rest)
      PROVE  IInv'
  <2>1. [Returned("FINGERPRINT_TAKEN", "null") EXCEPT !.why = reason] \in Result
    BY DEF Returned, Result, Statuses
  <2>2. "FINGERPRINT_TAKEN" \in Statuses
    BY DEF Statuses
  <2>3. QED
    BY <1>1, <1>5, <1>8, <2>1, <2>2, FinishStep DEF Stands
<1>6. CASE PageRead(c, o, rest)
  <2>1. \A i \in ExactMatch(o.hits, arg[c].fp) : i \in Ids
    BY <1>3 DEF ExactMatch, Outcome
  <2>2. CASE \E i \in ExactMatch(o.hits, arg[c].fp) : Adopt(c, i, rest)
    BY <1>1, <1>8, <2>1, <2>2, AdoptStep
  <2>3. CASE CopyFails(c, rest)
    BY <1>9, <2>3
  <2>4. CASE Stands(c, "elsewhere", rest)
    BY <1>5, <2>4
  <2>5. CASE NextPage(c, rest) /\ ~LastPage(know[c].page, o.pages)
    <3> DEFINE k == [know[c] EXCEPT !.page = know[c].page + 1]
    <3>1. know[c].page + 1 \in 0..MaxPages
      BY <1>1, <2>5, BoundsAssumption DEF TypeOK, Knowledge, LastPage
    <3>2. k \in Knowledge /\ k.mine = know[c].mine /\ k.verdict = know[c].verdict
      BY <1>1, <3>1 DEF TypeOK, Knowledge
    <3>3. /\ know' = [know EXCEPT ![c] = k]
          /\ held' = [held EXCEPT ![c] = rest]
          /\ slot' = [slot EXCEPT ![c] = "none"]
          /\ UNCHANGED <<hist, ret>>
          /\ pc' = [pc EXCEPT ![c] = "lookup"]
          /\ link' = [link EXCEPT ![c] = NewLink]
      BY <2>5 DEF NextPage, Enter
    <3> HIDE DEF k, rest
    <3>4. Consistent(c, "lookup", k)
      BY <1>1, <3>2 DEF IInv, MineOwned, VerdictLate, Consistent
    <3>5. /\ Memory'
          /\ ret' \in [Calls -> Result]
          /\ hist' \in [Calls -> History]
      BY <1>1, <1>8, <3>3 DEF TypeOK, Memory, rest
    <3>6. QED
      BY <1>1, <3>2, <3>3, <3>4, <3>5, SmallFacts, LocalStep
  <2>6. QED
    BY <1>6, <2>2, <2>3, <2>4, <2>5 DEF PageRead
<1>7. QED
  BY <1>2, <1>4, <1>5, <1>6

\* The validation returns: only an over-limit verdict on a row the call
\* created leads to the rollback.
LEMMA ValidateStep ==
  ASSUME IInv, NEW c \in Calls, ValidateReturns(c)
  PROVE  IInv'
<1>1. /\ TypeOK /\ pc[c] = "validate"
      /\ UNCHANGED <<rec, live, culled, policy, arg, net>> /\ UNCHANGED hist
  BY DEF IInv, ValidateReturns
<1>2. PICK o \in Outcomes(c) :
        LET alive == Alive(c, o, "validated")
        IN  /\ know' = [know EXCEPT ![c].verdict = o.verdict]
            /\ \/ /\ Undoes(c, o) /\ know[c].mine # 0
                  /\ Enter(c, "rollback")
                  /\ held' = [held EXCEPT ![c] = alive]
               \/ HandOver(c, o.status, alive, "none")
               \/ HandOver(c, o.status, alive, SlotAfter(c, o))
               \/ Finish(c, Returned(o.status,
                                     IF o.resp THEN "validated" ELSE "null"),
                         alive, SlotAfter(c, o))
  BY DEF ValidateReturns
<1>3. o \in Outcome
  BY <1>1, OutcomesFacts
<1>12. /\ Alive(c, o, "validated") \in SUBSET Responses
       /\ SlotAfter(c, o) \in Statuses \cup {"none"} /\ o.status \in Statuses
  BY <1>1, <1>3, AliveType DEF Responses, Outcome
<1>13. PICK alive \in SUBSET Responses : alive = Alive(c, o, "validated")
  BY <1>12
<1> DEFINE k == [know[c] EXCEPT !.verdict = o.verdict]
<1>4. /\ k \in Knowledge /\ k.mine = know[c].mine /\ k.verdict = o.verdict
      /\ know' = [know EXCEPT ![c] = k]
  BY <1>1, <1>2, <1>3 DEF TypeOK, Knowledge, Outcome
<1> HIDE DEF k
<1>5. hist' \in [Calls -> History]
  BY <1>1 DEF TypeOK
<1>6. know[c].mine # 0 /\ know[c].verdict # "OVERAGE" =>
        know[c].mine \in live \cup culled
  BY DEF IInv, MineOwned
<1>7. know[c].mine # 0 => OwnRow(c, know[c].mine)
  BY DEF IInv, MineOwned
<1>8. know[c].verdict = "none"
  BY <1>1 DEF IInv, VerdictLate
<1>9. CASE /\ Undoes(c, o) /\ know[c].mine # 0
           /\ Enter(c, "rollback")
           /\ held' = [held EXCEPT ![c] = alive]
  <2>1. Consistent(c, "rollback", k)
    BY <1>1, <1>4, <1>6, <1>7, <1>8, <1>9 DEF Consistent, Undoes
  <2>2. Memory'
    BY <1>1, <1>9, EnterType, SmallFacts DEF TypeOK, Memory
  <2>3. /\ pc' = [pc EXCEPT ![c] = "rollback"]
        /\ link' = [link EXCEPT ![c] = NewLink]
        /\ ret' \in [Calls -> Result]
    BY <1>1, <1>9 DEF Enter, TypeOK
  <2>4. QED
    BY <1>1, <1>4, <1>5, <2>1, <2>2, <2>3, SmallFacts, LocalStep
<1>10. ASSUME NEW r \in Result, NEW a \in SUBSET Responses,
              NEW s \in Statuses \cup {"none"}, Finish(c, r, a, s)
       PROVE  IInv'
  <2>1. Consistent(c, "done", k)
    BY <1>1, <1>4, <1>6, <1>7, <1>8 DEF Consistent
  <2>2. Memory' /\ ret' \in [Calls -> Result]
    BY <1>1, <1>10, FinishType
  <2>3. pc' = [pc EXCEPT ![c] = "done"] /\ link' = [link EXCEPT ![c] = NewLink]
    BY <1>10 DEF Finish
  <2>4. QED
    BY <1>1, <1>4, <1>5, <2>1, <2>2, <2>3, SmallFacts, LocalStep
<1>11. CASE \E s \in {"none", SlotAfter(c, o)} : HandOver(c, o.status, alive, s)
  <2>1. \A out \in {"null", "validated"} : Returned(o.status, out) \in Result
    BY <1>12, ReturnedFacts
  <2>2. PICK s \in Statuses \cup {"none"} : HandOver(c, o.status, alive, s)
    BY <1>11, <1>12
  <2>3. PICK out \in {"null", "validated"}, a \in SUBSET Responses :
          Finish(c, Returned(o.status, out), a, s)
    BY <1>12, <2>2, HandOverFinishes
  <2>4. QED
    BY <1>10, <2>1, <2>3
<1>14. CASE Finish(c, Returned(o.status, IF o.resp THEN "validated" ELSE "null"),
                   alive, SlotAfter(c, o))
  <2>1. Returned(o.status, IF o.resp THEN "validated" ELSE "null") \in Result
    BY <1>12, ReturnedFacts
  <2>2. QED
    BY <1>10, <1>12, <1>14, <2>1
<1>15. QED
  BY <1>2, <1>9, <1>11, <1>13, <1>14

\* The rollback returns, whatever the DELETE said.
LEMMA RollbackStep ==
  ASSUME IInv, NEW c \in Calls, RollbackReturns(c)
  PROVE  IInv'
<1>1. /\ TypeOK /\ pc[c] = "rollback"
      /\ UNCHANGED <<rec, live, culled, policy, arg, net>> /\ UNCHANGED know
  BY DEF IInv, RollbackReturns
<1>2. PICK o \in Outcomes(c) :
        /\ HandOver(c, "OK", Alive(c, o, "deleted") \ {"deleted"}, "none")
        /\ hist' = [hist EXCEPT ![c].undone = o.status]
  BY DEF RollbackReturns
<1>3. o \in Outcome /\ o.status \in Statuses
  BY <1>1, OutcomesFacts DEF Outcome
<1>4. hist' \in [Calls -> History]
  BY <1>1, <1>2, <1>3 DEF TypeOK, History
<1>5. Alive(c, o, "deleted") \ {"deleted"} \in SUBSET Responses
  BY <1>1, <1>3, AliveType DEF Responses
<1>11. "OK" \in Statuses
  BY DEF Statuses
<1>12. PICK out \in {"null", "validated"}, a \in SUBSET Responses :
         Finish(c, Returned("OK", out), a, "none")
  BY <1>2, <1>5, <1>11, HandOverFinishes
<1>6. /\ Memory'
      /\ ret' \in [Calls -> Result]
  BY <1>1, <1>11, <1>12, FinishType, ReturnedFacts
<1>7. pc' = [pc EXCEPT ![c] = "done"] /\ link' = [link EXCEPT ![c] = NewLink]
  BY <1>12 DEF Finish
<1>8. know[c] \in Knowledge /\ know' = [know EXCEPT ![c] = know[c]]
  BY <1>1 DEF TypeOK
<1>9. Consistent(c, "done", know[c])
  BY DEF IInv, MineOwned, Consistent
<1>10. QED
  BY <1>1, <1>4, <1>6, <1>7, <1>8, <1>9, SmallFacts, LocalStep

-----------------------------------------------------------------------------
(***************************************************************************)
(* Steps of the server.                                                    *)
(***************************************************************************)

\* A server step that keeps the rows' owners, and the rows of every call
\* but the one whose DELETE it serves, preserves the invariant.
LEMMA ServeStep ==
  ASSUME IInv, NEW r \in net, NEW o \in Outcome, Deliver(r, o),
         ServerTypeOK',
         \A c \in Calls, i \in Ids :
           rec[i] # NoRow => rec'[i] = rec[i],
         \A c \in Calls, i \in Ids :
           /\ OwnRow(c, i) /\ i \in live \cup culled
           /\ ~(r.kind = "rollback" /\ c = r.call)
           => i \in live' \cup culled',
         r.kind = "create" /\ o.status = "OK" /\ o.id # 0 =>
           OwnRow(r.call, o.id)' /\ o.id \in live' \cup culled'
  PROVE  IInv'
<1>1. /\ net' \subseteq net /\ UNCHANGED <<arg, pc, know, held, slot, ret, hist>>
      /\ r.call \in Calls /\ TypeOK
  BY DEF Deliver, IInv, TypeOK, Request
<1>2. /\ link' \in [Calls -> Link]
      /\ \A c \in Calls :
           \/ (link[c].reply)' = link[c].reply
           \/ c = r.call /\ pc[c] = r.kind /\ (link[c].reply)' = o
  BY <1>1 DEF Deliver, TypeOK, Link
<1>3. TypeOK'
  BY <1>1, <1>2 DEF TypeOK
<1>4. \A c \in Calls, i \in Ids : OwnRow(c, i) => OwnRow(c, i)'
  BY DEF OwnRow
<1>5. r.kind = "rollback" => /\ pc[r.call] \in {"rollback", "done"}
                            /\ know[r.call].verdict = "OVERAGE"
  BY DEF IInv, RollbackLast, RollbackOwnRow
<1>6. ReplyOwned'
  <2> SUFFICES ASSUME NEW c \in Calls, pc[c] = "create",
                      (link[c].reply.status = "OK")', (link[c].reply.id # 0)'
               PROVE  /\ OwnRow(c, link[c].reply.id)'
                      /\ (link[c].reply.id \in live \cup culled)'
    BY <1>1 DEF ReplyOwned
  <2>1. CASE (link[c].reply)' = link[c].reply
    <3>1. OwnRow(c, link[c].reply.id) /\ link[c].reply.id \in live \cup culled
      BY <2>1 DEF IInv, ReplyOwned
    <3>2. link[c].reply.id \in Ids
      BY <3>1 DEF OwnRow
    <3>3. link[c].reply.id \in live' \cup culled'
      BY <1>1, <1>5, <3>1, <3>2
    <3>4. QED
      BY <1>4, <2>1, <3>1, <3>2, <3>3 DEF OwnRow
  <2>2. CASE c = r.call /\ pc[c] = r.kind /\ (link[c].reply)' = o
    <3>1. OwnRow(r.call, o.id)' /\ o.id \in live' \cup culled'
      BY <2>2
    <3>2. QED
      BY <2>2, <3>1 DEF OwnRow
  <2>3. QED
    BY <1>2, <2>1, <2>2
<1>7. MineOwned'
  <2> SUFFICES ASSUME NEW c \in Calls, know[c].mine # 0
               PROVE  /\ OwnRow(c, know[c].mine)'
                      /\ know[c].verdict # "OVERAGE" =>
                           know[c].mine \in live' \cup culled'
    BY <1>1 DEF MineOwned, OwnRow
  <2>1. /\ OwnRow(c, know[c].mine)
        /\ know[c].verdict # "OVERAGE" => know[c].mine \in live \cup culled
    BY DEF IInv, MineOwned
  <2>2. know[c].mine \in Ids
    BY <2>1 DEF OwnRow
  <2>3. QED
    BY <1>1, <1>4, <1>5, <2>1, <2>2 DEF OwnRow
<1>8. RollbackReady' /\ VerdictLate' /\ RollbackLast'
  BY <1>1 DEF IInv, RollbackReady, VerdictLate, RollbackLast
<1>9. RollbackOwnRow'
  BY <1>1 DEF IInv, RollbackOwnRow
<1>10. QED
  BY <1>3, <1>6, <1>7, <1>8, <1>9 DEF IInv
\* A call begins.
LEMMA BeginStep ==
  ASSUME IInv, NEW c \in Calls, Begin(c)
  PROVE  IInv'
<1>1. /\ TypeOK /\ pc[c] = "idle"
      /\ UNCHANGED <<rec, live, culled, policy, arg, net>>
      /\ UNCHANGED <<know, held, hist, ret>>
      /\ slot' = [slot EXCEPT ![c] = "none"]
      /\ pc' = [pc EXCEPT ![c] = "create"]
      /\ link' = [link EXCEPT ![c] = NewLink]
  BY DEF IInv, Begin, Enter
<1>2. know[c] \in Knowledge /\ know' = [know EXCEPT ![c] = know[c]]
  BY <1>1 DEF TypeOK
<1>3. Consistent(c, "create", know[c])
  BY <1>1 DEF IInv, MineOwned, VerdictLate, Consistent
<1>4. /\ Memory'
      /\ ret' \in [Calls -> Result]
      /\ hist' \in [Calls -> History]
  BY <1>1 DEF TypeOK, Memory
<1>5. "create" \in Phases
  BY DEF Phases
<1>6. QED
  BY <1>1, <1>2, <1>3, <1>4, <1>5, LocalStep

\* A create that is refused changes nothing; one that succeeds adds a row of
\* the call whose request it is.
LEMMA ServerCreatesStep ==
  ASSUME IInv, NEW r \in net, ServerCreates(r)
  PROVE  IInv'
<1> DEFINE a == arg[r.call]
<1>1. /\ TypeOK /\ r.call \in Calls /\ r.kind = "create"
      /\ a.lic \in Licenses /\ a.fp \in Fingerprints
  BY DEF IInv, TypeOK, Request, Args, ServerCreates
<1>2. Holder(a.lic, a.fp) \in MaybeId /\ Named(a.lic, a.fp) \in MaybeId
  BY <1>1 DEF Holder, Named, Conflicts, MaybeId, TypeOK, ServerTypeOK
<1>3. {"OK", "FINGERPRINT_TAKEN", "LIMIT_EXCEEDED"} \subseteq Statuses
  BY DEF Statuses
<1>4. CASE \E o \in Outcome : /\ o.status # "OK" /\ Deliver(r, o)
                              /\ UNCHANGED serverVars
  <2>1. PICK o \in Outcome : /\ o.status # "OK" /\ Deliver(r, o)
                             /\ UNCHANGED serverVars
    BY <1>4
  <2>2. ServerTypeOK' /\ UNCHANGED <<rec, live, culled>>
    BY <1>1, <2>1 DEF TypeOK, ServerTypeOK, serverVars
  <2>3. QED
    BY <2>1, <2>2, ServeStep
<1>5. CASE \E i \in Ids, id \in MaybeId :
             /\ AddRow(i, a.lic, a.fp, r.call)
             /\ id \in {i, 0}
             /\ Deliver(r, [Answer("OK") EXCEPT !.id = id])
  <2>1. PICK i \in Ids, id \in MaybeId :
             /\ AddRow(i, a.lic, a.fp, r.call)
             /\ id \in {i, 0}
             /\ Deliver(r, [Answer("OK") EXCEPT !.id = id])
    BY <1>5
  <2> DEFINE o == [Answer("OK") EXCEPT !.id = id]
             row == [lic |-> a.lic, fp |-> a.fp, by |-> r.call]
  <2>2. o \in Outcome /\ o.id = id
    BY <1>3, FailureFacts DEF Outcome
  <2>3. row \in Row /\ row.by = r.call /\ row # NoRow
    <3>1. row \in Row
      BY <1>1 DEF Row
    <3>2. QED
      BY <3>1, RowAssumption
  <2>4. /\ rec' = [rec EXCEPT ![i] = row] /\ live' = live \cup {i}
        /\ UNCHANGED <<culled, policy>> /\ rec[i] = NoRow
    BY <2>1 DEF AddRow, Fresh
  <2>5. Deliver(r, o)
    BY <2>1
  <2> HIDE DEF o, row
  <2>6. ServerTypeOK'
    BY <1>1, <2>3, <2>4 DEF TypeOK, ServerTypeOK
  <2>7. \A j \in Ids : rec[j] # NoRow => rec'[j] = rec[j]
    BY <1>1, <2>4 DEF TypeOK, ServerTypeOK
  <2>8. o.id # 0 => OwnRow(r.call, o.id)' /\ o.id \in live' \cup culled'
    BY <1>1, <2>1, <2>2, <2>3, <2>4 DEF OwnRow, TypeOK, ServerTypeOK
  <2>9. QED
    BY <2>2, <2>4, <2>5, <2>6, <2>7, <2>8, ServeStep
<1>6. CASE Deliver(r, [Answer("FINGERPRINT_TAKEN") EXCEPT
                         !.id = Named(a.lic, a.fp), !.own = Holder(a.lic, a.fp)])
           /\ UNCHANGED serverVars
  <2>1. \A n, h \in MaybeId :
          [Answer("FINGERPRINT_TAKEN") EXCEPT !.id = n, !.own = h] \in
             {o \in Outcome : o.status # "OK"}
    BY DEF Answer, Failure, Outcome, Statuses, Verdicts
  <2>2. QED
    BY <1>2, <1>4, <1>6, <2>1
<1>7. CASE Deliver(r, Answer("LIMIT_EXCEEDED")) /\ UNCHANGED serverVars
  BY <1>3, <1>4, <1>7, FailureFacts
<1>8. CASE \E i \in Ids, readable \in BOOLEAN :
             /\ AddRow(i, a.lic, a.fp, r.call)
             /\ Deliver(r, [Answer("OK") EXCEPT
                              !.id = IF readable THEN i ELSE 0])
  <2>1. PICK i \in Ids, readable \in BOOLEAN :
             /\ AddRow(i, a.lic, a.fp, r.call)
             /\ Deliver(r, [Answer("OK") EXCEPT
                              !.id = IF readable THEN i ELSE 0])
    BY <1>8
  <2> DEFINE id == IF readable THEN i ELSE 0
  <2>2. id \in MaybeId /\ id \in {i, 0}
    BY DEF MaybeId
  <2>3. Deliver(r, [Answer("OK") EXCEPT !.id = id])
    BY <2>1
  <2> HIDE DEF id
  <2>4. QED
    BY <1>5, <2>1, <2>2, <2>3
<1>9. QED
  BY <1>6, <1>7, <1>8 DEF ServerCreates

\* A listing, a verdict and a refusal change nothing on the server.
LEMMA ServerReadsStep ==
  ASSUME IInv, NEW r \in net,
         ServerLists(r) \/ ServerValidates(r) \/ ServerRefuses(r)
  PROVE  IInv'
<1>1. /\ TypeOK /\ UNCHANGED serverVars
  BY DEF IInv, ServerLists, ServerValidates, ServerRefuses
<1>2. ServerTypeOK' /\ UNCHANGED <<rec, live, culled>>
  BY <1>1 DEF TypeOK, ServerTypeOK, serverVars
<1>3. ASSUME NEW o \in Outcome, Deliver(r, o), o.id = 0
      PROVE  IInv'
  BY <1>2, <1>3, ServeStep
<1>4. CASE ServerLists(r)
  <2> DEFINE a == arg[r.call]
             h == PageOf(a.lic, a.fp, r.page)
             n == TotalPages(a.lic, a.fp)
  <2>1. h \in SUBSET Ids
    BY <1>1 DEF PageOf, Candidates, OnLicense, TypeOK, ServerTypeOK
  <2>2. n \in Nat
    <3>1. Candidates(a.lic, a.fp) \subseteq Ids
      BY <1>1 DEF Candidates, OnLicense, TypeOK, ServerTypeOK
    <3>2. Cardinality(Candidates(a.lic, a.fp)) \in Nat
      BY <3>1, IdsAssumption, FS_Subset, FS_CardinalityType
    <3>3. QED
      BY <3>2, LimitAssumption DEF TotalPages
  <2>3. Deliver(r, [Answer("OK") EXCEPT !.hits = h, !.pages = n])
    BY <1>4 DEF ServerLists
  <2> HIDE DEF h, n
  <2>4. /\ [Answer("OK") EXCEPT !.hits = h, !.pages = n] \in Outcome
        /\ [Answer("OK") EXCEPT !.hits = h, !.pages = n].id = 0
    BY <2>1, <2>2 DEF Answer, Failure, Outcome, Statuses, Verdicts, MaybeId
  <2>5. QED
    BY <1>3, <2>3, <2>4
<1>5. CASE ServerValidates(r)
  <2>1. PICK v \in Verdicts : Deliver(r, [Answer("OK") EXCEPT !.verdict = v])
    BY <1>5 DEF ServerValidates, Verdict, Verdicts
  <2>2. /\ [Answer("OK") EXCEPT !.verdict = v] \in Outcome
        /\ [Answer("OK") EXCEPT !.verdict = v].id = 0
    BY DEF Answer, Failure, Outcome, Statuses, Verdicts, MaybeId
  <2>3. QED
    BY <1>3, <2>1, <2>2
<1>6. CASE ServerRefuses(r)
  <2>1. PICK s \in {"RATE_LIMITED", "SERVER"} : Deliver(r, Answer(s))
    BY <1>6 DEF ServerRefuses
  <2>2. Answer(s) \in Outcome /\ Answer(s).id = 0
    BY FailureFacts DEF Statuses
  <2>3. QED
    BY <1>3, <2>1, <2>2
<1>7. QED
  BY <1>4, <1>5, <1>6

\* A served DELETE takes a seat only from the call that asked for it.
LEMMA ServerDeletesStep ==
  ASSUME IInv, NEW r \in net, ServerDeletes(r)
  PROVE  IInv'
<1>1. /\ TypeOK /\ r.kind = "rollback"
      /\ live' = live \ {r.target} /\ UNCHANGED <<rec, culled, policy>>
  BY DEF IInv, ServerDeletes, RemoveRow
<1>2. PICK o \in Outcome : Deliver(r, o)
  BY FailureFacts DEF ServerDeletes, Statuses
<1>3. ServerTypeOK'
  BY <1>1 DEF TypeOK, ServerTypeOK
<1>4. rec[r.target].by = r.call
  BY <1>1 DEF IInv, RollbackOwnRow
<1>5. \A c \in Calls, i \in Ids :
        OwnRow(c, i) /\ i \in live \cup culled /\ c # r.call =>
          i \in live' \cup culled'
  BY <1>1, <1>4 DEF OwnRow
<1>6. QED
  BY <1>1, <1>2, <1>3, <1>5, ServeStep

\* A machine removed by someone else is remembered as such.
LEMMA CullStep ==
  ASSUME IInv, NEW i \in Ids, Cull(i)
  PROVE  IInv'
<1>1. /\ live \cup culled \subseteq live' \cup culled'
      /\ UNCHANGED <<rec, policy, arg, pc, link, know, held, slot, ret, hist, net>>
  BY DEF Cull, CullRow
<1>2. TypeOK'
  BY <1>1 DEF IInv, TypeOK, ServerTypeOK, Cull, CullRow
<1>3. /\ ReplyOwned' /\ MineOwned'
  BY <1>1 DEF IInv, ReplyOwned, MineOwned, OwnRow
<1>4. RollbackReady' /\ VerdictLate' /\ RollbackLast' /\ RollbackOwnRow'
  BY <1>1 DEF IInv, RollbackReady, VerdictLate, RollbackLast, RollbackOwnRow
<1>5. QED
  BY <1>2, <1>3, <1>4 DEF IInv

-----------------------------------------------------------------------------
(***************************************************************************)
(* The invariant and what it gives.                                        *)
(***************************************************************************)

\* The invariant holds before any call has begun.
LEMMA InitIInv == Init => IInv
<1> SUFFICES ASSUME Init PROVE IInv
  OBVIOUS
<1> DEFINE k == Learnt("none", 0, 0, 0)
<1>1. k \in Knowledge /\ k.mine = 0 /\ k.verdict = "none"
  BY SmallFacts, LearntFacts
<1>2. know = [c \in Calls |-> k]
  BY DEF Init
<1> HIDE DEF k
<1>3. ServerTypeOK
  <2>1. \A i \in DOMAIN Installed : Installed[i] \in Row /\ Installed[i] # NoRow
    BY RowAssumption
  <2>2. QED
    BY <2>1, RowAssumption DEF Init, ServerInit, ServerTypeOK
<1>4. TypeOK
  <2>1. [undone |-> "none", creates |-> 0, holder |-> 0] \in History
    BY SmallFacts DEF History
  <2>2. NoResult \in Result
    BY DEF NoResult, Returned, Result
  <2>3. "SERVER" \in Statuses
    BY DEF Statuses
  <2>4. QED
    BY <1>1, <1>2, <1>3, <2>1, <2>2, <2>3, NewLinkFacts, BoundsAssumption
    DEF Init, TypeOK
<1>5. ReplyOwned
  BY DEF Init, ReplyOwned
<1>6. MineOwned /\ VerdictLate /\ RollbackReady
  BY <1>1, <1>2 DEF Init, MineOwned, VerdictLate, RollbackReady
<1>7. RollbackLast /\ RollbackOwnRow
  BY DEF Init, RollbackLast, RollbackOwnRow
<1>8. QED
  BY <1>4, <1>5, <1>6, <1>7 DEF IInv

\* Every step, of a call, of the server or of someone else, preserves it.
LEMMA NextIInv == IInv /\ [Next]_vars => IInv'
<1> SUFFICES ASSUME IInv, [Next]_vars PROVE IInv'
  OBVIOUS
<1>1. ASSUME NEW c \in Calls, Begin(c) \/ Progress(c) PROVE IInv'
  BY <1>1, BeginStep, SendStep, RetryStep, CreateStep, LookupStep,
     ValidateStep, RollbackStep DEF Progress
<1>2. ASSUME NEW r \in net, ServerStep(r) PROVE IInv'
  BY <1>2, ServerCreatesStep, ServerReadsStep, ServerDeletesStep DEF ServerStep
<1>3. ASSUME NEW i \in Ids, Cull(i) PROVE IInv'
  BY <1>3, CullStep
<1>4. CASE UNCHANGED vars
  <2>1. TypeOK'
    BY <1>4 DEF vars, IInv, TypeOK, ServerTypeOK
  <2>2. ReplyOwned' /\ MineOwned' /\ VerdictLate'
    BY <1>4 DEF vars, IInv, ReplyOwned, MineOwned, VerdictLate, OwnRow
  <2>3. RollbackReady' /\ RollbackLast' /\ RollbackOwnRow'
    BY <1>4 DEF vars, IInv, RollbackReady, RollbackLast, RollbackOwnRow
  <2>4. QED
    BY <2>1, <2>2, <2>3 DEF IInv
<1>5. QED
  BY <1>1, <1>2, <1>3, <1>4 DEF Next

\* The inductive invariant: every machine id that travels from the server's
\* reply over the call to its DELETE is that of the call's own row.
THEOREM Invariance == Spec => []IInv
BY InitIInv, NextIInv, PTL DEF Spec

\* Every variable keeps its type; in particular the attempts of one endpoint
\* call never exceed max_retries and the lookup never passes its page cap.
THEOREM TypeCorrect == Spec => []TypeOK
<1>1. IInv => TypeOK
  BY DEF IInv
<1>2. QED
  BY <1>1, Invariance, PTL

\* A rollback DELETE, however late it arrives, names a row its own call made,
\* for a caller who asked for it and was told of an overage.
THEOREM RollbackOnlyOwnRow == Spec => []RollbackOwnRow
<1>1. IInv => RollbackOwnRow
  BY DEF IInv
<1>2. QED
  BY <1>1, Invariance, PTL

\* A created seat whose verdict is not an overage stays until the server or
\* an operator removes it, whatever other calls roll back.
THEOREM SeatsKept == Spec => []SeatKept
<1>1. IInv => SeatKept
  BY DEF IInv, MineOwned, SeatKept
<1>2. QED
  BY <1>1, Invariance, PTL

-----------------------------------------------------------------------------
(***************************************************************************)
(* What the caller is told is so, the lookup misses nothing, and the calls *)
(* implement SeatContract.                                                 *)
(***************************************************************************)

-----------------------------------------------------------------------------
(***************************************************************************)
(* What the server may do to the rows while a call waits.                  *)
(***************************************************************************)

\* Rows are never rewritten and never come back; a new one comes last.
Appends ==
  /\ \A i \in Ids : rec[i] # NoRow => rec'[i] = rec[i]
  /\ \A i \in Ids : rec[i] = NoRow /\ rec'[i] # NoRow =>
       \A j \in Ids : rec[j] # NoRow => j < i
  /\ \A i \in Ids : rec[i] # NoRow /\ i \in live' => i \in live

\* ... and is not one of the call d.
Moves(d) ==
  /\ Appends
  /\ \A i \in Ids : rec[i] = NoRow /\ rec'[i] # NoRow => rec'[i].by # d

LEMMA StillMoves ==
  ASSUME UNCHANGED <<rec, live>>, NEW d \in Calls
  PROVE  Moves(d)
BY DEF Moves, Appends

\* A removal is for ever: nothing has been removed only if nothing had been.
LEMMA QuietBefore ==
  ASSUME ServerTypeOK, ServerTypeOK', Appends, Quiet'
  PROVE  Quiet
<1>1. \A i \in Ids : rec[i] # NoRow => rec'[i] # NoRow
  BY DEF Appends
<1>2. \A i \in Ids : rec[i] # NoRow => i \in live
  BY <1>1 DEF Quiet, Appends
<1>3. QED
  BY <1>2 DEF Quiet, ServerTypeOK

\* The candidates of a listing are finitely many machine ids.
LEMMA CandidatesFinite ==
  ASSUME ServerTypeOK, NEW lic, NEW q
  PROVE  /\ Candidates(lic, q) \subseteq Ids
         /\ IsFiniteSet(Candidates(lic, q))
         /\ Cardinality(Candidates(lic, q)) \in Nat
<1>1. Candidates(lic, q) \subseteq Ids
  BY DEF Candidates, OnLicense, ServerTypeOK
<1>2. QED
  BY <1>1, IdsAssumption, FS_Subset, FS_CardinalityType

\* The place of a row in a listing is a number from 1 to the number of rows.
LEMMA PositionRange ==
  ASSUME ServerTypeOK, NEW lic, NEW q, NEW h \in Candidates(lic, q)
  PROVE  /\ Position(h, Candidates(lic, q)) \in Nat
         /\ Position(h, Candidates(lic, q)) >= 1
         /\ Position(h, Candidates(lic, q)) <= Cardinality(Candidates(lic, q))
<1> DEFINE S == Candidates(lic, q)
           T == {j \in S : j <= h}
<1>1. S \subseteq Ids /\ IsFiniteSet(S) /\ Cardinality(S) \in Nat
  BY CandidatesFinite
<1>2. T \subseteq S
  OBVIOUS
<1>3. IsFiniteSet(T) /\ Cardinality(T) <= Cardinality(S)
  BY <1>1, <1>2, FS_Subset
<1>4. Cardinality(T) \in Nat
  BY <1>3, FS_CardinalityType
<1>5. h \in T
  <2>1. h \in S /\ h \in Nat
    BY <1>1, IdsAssumption
  <2>2. h <= h
    BY <2>1
  <2>3. QED
    BY <2>1, <2>2
<1>6. Cardinality(T) # 0
  BY <1>3, <1>5, FS_EmptySet
<1>7. Position(h, S) = Cardinality(T)
  BY DEF Position
<1>8. QED
  BY <1>3, <1>4, <1>6, <1>7

\* While nothing is removed, rows are only appended to a listing: the place of
\* a row does not change.
LEMMA PositionKept ==
  ASSUME ServerTypeOK, ServerTypeOK', Appends, Quiet',
         NEW lic, NEW q, NEW h \in Ids, rec[h] # NoRow
  PROVE  Position(h, Candidates(lic, q)') = Position(h, Candidates(lic, q))
<1> DEFINE S == Candidates(lic, q)
           T == Candidates(lic, q)'
<1>1. Quiet
  BY QuietBefore
<1>2. \A j \in Ids : rec[j] # NoRow => (j \in S <=> j \in T)
  <2> SUFFICES ASSUME NEW j \in Ids, rec[j] # NoRow
               PROVE  j \in S <=> j \in T
    OBVIOUS
  <2>1. rec'[j] = rec[j] /\ j \in live /\ j \in live'
    BY <1>1 DEF Quiet, Appends
  <2>2. QED
    BY <2>1 DEF Candidates, OnLicense
<1>3. \A j \in Ids : rec[j] = NoRow /\ j \in T => h < j
  BY DEF Candidates, OnLicense, ServerTypeOK, Appends
<1>4. \A j \in Ids : rec[j] = NoRow => j \notin S
  BY DEF Candidates, OnLicense, ServerTypeOK
<1>5. S \subseteq Ids /\ T \subseteq Ids
  BY DEF Candidates, OnLicense, ServerTypeOK
<1>6. {j \in T : j <= h} = {j \in S : j <= h}
  <2>1. \A j \in Ids : h < j => ~(j <= h)
    BY IdsAssumption
  <2>2. \A j \in Ids : j <= h => (j \in T <=> j \in S)
    BY <1>2, <1>3, <1>4, <2>1
  <2> HIDE DEF S, T
  <2>3. QED
    BY <1>5, <2>2
<1>7. QED
  BY <1>6 DEF Position

-----------------------------------------------------------------------------
(***************************************************************************)
(* A call that does not move keeps what the invariant says of it, whatever *)
(* the server and the other calls do.                                      *)
(***************************************************************************)
SameCall(d) ==
  /\ arg'[d] = arg[d] /\ pc'[d] = pc[d] /\ link'[d] = link[d]
  /\ know'[d] = know[d] /\ held'[d] = held[d] /\ slot'[d] = slot[d]
  /\ ret'[d] = ret[d] /\ hist'[d] = hist[d]
  /\ \A r \in net' : r.call = d => r \in net

\* The rows of a call that gets no new one.
LEMMA RowsOfKept ==
  ASSUME TypeOK, TypeOK', NEW d \in Calls, Moves(d)
  PROVE  RowsOf(d)' = RowsOf(d)
BY DEF RowsOf, Moves, Appends, TypeOK, ServerTypeOK

\* A row that is the call's own stays so.
LEMMA OurRowKept ==
  ASSUME NEW d \in Calls, Appends, arg'[d] = arg[d], NEW i, OurRow(d, i)
  PROVE  OurRow(d, i)' /\ i \in Ids /\ rec[i] # NoRow
BY DEF OurRow, Appends

\* While nothing is removed, a row of the call's own fingerprint and licence
\* is in its listing, and its place there does not change.
LEMMA PlaceKept ==
  ASSUME TypeOK, TypeOK', NEW d \in Calls, Appends, Quiet',
         arg'[d] = arg[d], hist'[d] = hist[d], OurRow(d, hist[d].holder)
  PROVE  PlaceOf(d)' = PlaceOf(d)
<1>1. hist[d].holder \in Ids /\ rec[hist[d].holder] # NoRow
  BY DEF OurRow
<1>2. ServerTypeOK /\ ServerTypeOK'
  BY DEF TypeOK
<1>3. \A lic, q :
        Position(hist[d].holder, Candidates(lic, q)') =
          Position(hist[d].holder, Candidates(lic, q))
  BY <1>1, <1>2, PositionKept
<1>4. Position(hist[d].holder, Candidates(arg[d].lic, arg[d].fp)') =
        Position(hist[d].holder, Candidates(arg[d].lic, arg[d].fp))
  BY <1>3
<1>5. QED
  BY <1>4 DEF PlaceOf

LEMMA SameCallGood ==
  ASSUME CallInv, TypeOK', NEW d \in Calls, Appends, SameCall(d), OneRow(d)'
  PROVE  Good(d)'
<1>1. Good(d) /\ IInv /\ TypeOK
  BY DEF CallInv, IInv
<1>2. ReplyFits(d)'
  BY <1>1 DEF Good, ReplyFits, SameCall
<1>3. OneRequest(d)'
  BY <1>1 DEF Good, OneRequest, SameCall
<1>4. PathFits(d)'
  BY <1>1 DEF Good, PathFits, SameCall, Done, OutResponseTable,
              NoResponseLeaked, ErrorSlotAgrees
<1>5. DeleteTrue(d)'
  <2>1. know[d].mine # 0 /\ know[d].mine \notin live => know[d].mine \notin live'
    BY <1>1 DEF IInv, MineOwned, OwnRow, Appends
  <2>2. pc[d] = "rollback" => know[d].mine # 0
    BY <1>1 DEF IInv, RollbackReady
  <2>3. QED
    BY <1>1, <2>1, <2>2 DEF Good, DeleteTrue, RolledBack, SameCall, Done
<1>6. Ours(d)'
  <2>1. \A i : OurRow(d, i) => OurRow(d, i)'
    BY <1>1, OurRowKept DEF SameCall
  <2>2. link[d].reply.hits \subseteq Ids
    BY <1>1 DEF TypeOK, Link, Outcome
  <2>3. QED
    BY <1>1, <2>1, <2>2 DEF Good, Ours, SameCall, Appends, OurRow
<1>7. Ahead(d)'
  <2> SUFFICES ASSUME Quiet', hist[d].holder # 0
               PROVE  Ahead(d)'
    BY DEF Ahead, SameCall
  <2>1. Quiet
    BY <1>1, QuietBefore DEF TypeOK
  <2>2. PlaceOf(d)' = PlaceOf(d)
    BY <1>1, PlaceKept DEF Good, Ours, SameCall
  <2>3. QED
    BY <1>1, <2>1, <2>2 DEF Good, Ahead, SameCall
<1>8. QED
  BY <1>2, <1>3, <1>4, <1>5, <1>6, <1>7 DEF Good

LEMMA OtherCall ==
  ASSUME CallInv, TypeOK', NEW d \in Calls, Moves(d), SameCall(d)
  PROVE  Good(d)'
<1>1. Good(d) /\ TypeOK
  BY DEF CallInv, IInv
<1>2. RowsOf(d)' = RowsOf(d)
  BY <1>1, RowsOfKept
<1>3. OneRow(d)'
  BY <1>1, <1>2 DEF Good, OneRow, SameCall, Done
<1>4. QED
  BY <1>3, SameCallGood DEF Moves

-----------------------------------------------------------------------------
(***************************************************************************)
(* Steps of a call.                                                        *)
(***************************************************************************)

\* Such a step concerns one call only.
LEMMA CallStep ==
  ASSUME CallInv, IInv', NEW c \in Calls,
         UNCHANGED <<rec, live, culled, policy, arg>>,
         \A d \in Calls : d # c => SameCall(d),
         Good(c)'
  PROVE  CallInv'
<1>1. RowsKept'
  BY DEF CallInv, RowsKept
<1>2. TypeOK'
  BY DEF IInv
<1>3. \A d \in Calls : d # c => Good(d)'
  BY <1>2, StillMoves, OtherCall
<1>4. QED
  BY <1>1, <1>3 DEF CallInv

\* A call that waits for no answer, or has got it, has nothing on the network.
LEMMA NothingSent ==
  ASSUME CallInv, NEW c \in Calls, pc[c] # "done",
         ~link[c].sent \/ link[c].reply # NoReply
  PROVE  \A r \in net : r.call # c
BY DEF CallInv, Good, OneRequest

\* How an endpoint call can end: refused before it is sent, given up, or with
\* the answer that came.
LEMMA OutcomeKinds ==
  ASSUME NEW c \in Calls, NEW o \in Outcomes(c)
  PROVE  \/ ~link[c].sent /\ \E s \in Refusals(c) : o = Failure(s)
         \/ link[c].sent /\ \E s \in {"TRANSPORT", "OUT_OF_MEMORY"} : o = Failure(s)
         \/ link[c].sent /\ link[c].reply # NoReply /\ o = link[c].reply
BY DEF Outcomes

\* A refusal is no answer, and no status of the server.
LEMMA RefusalKinds ==
  ASSUME NEW c \in Calls
  PROVE  Refusals(c) \subseteq {"OUT_OF_MEMORY", "NULL_ARGUMENT", "INVALID_JSON"}
BY DEF Refusals, ValidateRefusal

\* What is certain of an outcome: a status of the server comes with its answer,
\* and a create still on its way means a failure that could not tell.
LEMMA OutcomeSure ==
  ASSUME CallInv, NEW c \in Calls, pc[c] \in Phases, NEW o \in Outcomes(c)
  PROVE  /\ o \in Outcome
         /\ o.status \in {"OK", "FINGERPRINT_TAKEN", "LIMIT_EXCEEDED", "NOT_FOUND"}
            \/ o.resp \/ o.verdict # "none" \/ o.id # 0 =>
              /\ o = link[c].reply /\ o # NoReply /\ o.resp
              /\ \A r \in net : r.call # c
         /\ (\E r \in net : r.call = c) => o.status \in {"TRANSPORT", "OUT_OF_MEMORY"}
<1>1. TypeOK /\ Good(c) /\ pc[c] # "done"
  BY DEF CallInv, IInv, Phases
<1>2. o \in Outcome
  BY <1>1, OutcomesFacts
<1>3. CASE o = link[c].reply /\ link[c].reply # NoReply
  <2>1. o.resp
    BY <1>1, <1>3 DEF Good, ReplyFits
  <2>2. \A r \in net : r.call # c
    BY <1>1, <1>3, NothingSent
  <2>3. QED
    BY <1>2, <1>3, <2>1, <2>2
<1>4. CASE \E s \in {"TRANSPORT", "OUT_OF_MEMORY", "NULL_ARGUMENT", "INVALID_JSON"} :
             /\ o = Failure(s)
             /\ ~link[c].sent \/ s \in {"TRANSPORT", "OUT_OF_MEMORY"}
  <2>1. PICK s \in {"TRANSPORT", "OUT_OF_MEMORY", "NULL_ARGUMENT", "INVALID_JSON"} :
             /\ o = Failure(s)
             /\ ~link[c].sent \/ s \in {"TRANSPORT", "OUT_OF_MEMORY"}
    BY <1>4
  <2>2. o.status = s /\ ~o.resp /\ o.verdict = "none" /\ o.id = 0
    BY <2>1 DEF Failure
  <2>3. (\E r \in net : r.call = c) => link[c].sent
    BY <1>1, NothingSent
  <2>4. QED
    BY <1>2, <2>1, <2>2, <2>3
<1>5. QED
  BY <1>3, <1>4, OutcomeKinds, RefusalKinds

\* A call begins: it has sent nothing and owns nothing.
LEMMA BeginGood == ASSUME CallInv, IInv', NEW c \in Calls, Begin(c) PROVE CallInv'
<1>1. /\ pc[c] = "idle" /\ pc' = [pc EXCEPT ![c] = "create"]
      /\ link' = [link EXCEPT ![c] = NewLink]
      /\ slot' = [slot EXCEPT ![c] = "none"]
      /\ UNCHANGED <<rec, live, culled, policy, arg, know, held, ret, hist, net>>
  BY DEF Begin, Enter
<1>2. TypeOK /\ Good(c)
  BY DEF CallInv, IInv
<1>3. /\ pc'[c] = "create" /\ link'[c] = NewLink /\ NewLink.reply = NoReply
      /\ ~NewLink.sent /\ slot'[c] = "none"
  BY <1>1, <1>2 DEF TypeOK, NewLink
<1>4. \A d \in Calls : d # c => SameCall(d)
  BY <1>1, <1>2 DEF SameCall, TypeOK
<1>5. \A r \in net : r.call # c
  BY <1>1, <1>2, NothingSent DEF Good, ReplyFits
<1>6. NoReply.status = "OK" /\ NoReply.own = 0
  BY DEF NoReply, Failure
<1>7. Good(c)'
  <2>1. ReplyFits(c)' /\ OneRequest(c)'
    BY <1>1, <1>3, <1>5 DEF ReplyFits, OneRequest
  <2>2. OneRow(c)' /\ PathFits(c)'
    BY <1>1, <1>2, <1>3, <1>5, <1>6 DEF Good, OneRow, PathFits, RowsOf, Done
  <2>3. DeleteTrue(c)' /\ Ours(c)'
    BY <1>1, <1>2, <1>3, <1>6 DEF Good, DeleteTrue, RolledBack, Ours, OurRow, Done
  <2>4. Ahead(c)'
    BY <1>1, <1>2, <1>3 DEF Good, Ahead, Quiet, PlaceOf, Position, Candidates, OnLicense
  <2>5. QED
    BY <2>1, <2>2, <2>3, <2>4 DEF Good
<1>8. QED
  BY <1>1, <1>4, <1>7, CallStep

\* A request is sent: the only one of its call, and the first create.
LEMMA SendGood == ASSUME CallInv, IInv', NEW c \in Calls, Send(c) PROVE CallInv'
<1>1. /\ pc[c] \in Phases /\ ~link[c].sent
      /\ net' = net \cup {RequestOf(c)}
      /\ link' = [link EXCEPT ![c].sent = TRUE]
      /\ UNCHANGED <<rec, live, culled, policy, arg, pc, know, held, slot, ret>>
  BY DEF Send
<1>2. TypeOK /\ TypeOK' /\ Good(c) /\ pc[c] \notin {"idle", "done"}
  BY <1>1 DEF CallInv, IInv, Phases
<1>3. link'[c].sent /\ link'[c].reply = link[c].reply /\ link[c].reply = NoReply
  BY <1>1, <1>2 DEF TypeOK, Link, Good, ReplyFits
<1>4. /\ \A d \in Calls : d # c => hist'[d] = hist[d]
      /\ hist'[c].holder = hist[c].holder /\ hist'[c].undone = hist[c].undone
      /\ hist'[c].creates = IF pc[c] = "create" THEN hist[c].creates + 1
                            ELSE hist[c].creates
  BY <1>2 DEF Send, TypeOK, History
<1>5. /\ RequestOf(c).call = c /\ RequestOf(c).kind = pc[c]
      /\ pc[c] = "lookup" => RequestOf(c).page = know[c].page
      /\ pc[c] = "rollback" => RequestOf(c).target = know[c].mine
  BY DEF RequestOf
<1>6. \A r \in net : r.call # c
  BY <1>1, <1>2, NothingSent
<1>7. \A d \in Calls : d # c => SameCall(d)
  BY <1>1, <1>2, <1>4, <1>5 DEF SameCall, TypeOK
<1>8. Good(c)'
  <2>1. ReplyFits(c)' /\ OneRequest(c)'
    BY <1>1, <1>2, <1>3, <1>5, <1>6 DEF Good, ReplyFits, OneRequest
  <2>2. OneRow(c)'
    <3>1. RowsOf(c)' = RowsOf(c)
      BY <1>1 DEF RowsOf
    <3>2. pc[c] = "create" => hist[c].creates = 0 /\ RowsOf(c) = {}
      BY <1>1, <1>2 DEF Good, OneRow
    <3>3. hist'[c].creates <= 1
      BY <1>2, <1>4, <3>2 DEF Good, OneRow
    <3>4. QED
      BY <1>1, <1>2, <1>3, <1>5, <1>6, <3>1, <3>2, <3>3 DEF Good, OneRow, Done
  <2>3. PathFits(c)'
    BY <1>1, <1>2 DEF Good, PathFits, Done
  <2>4. DeleteTrue(c)'
    BY <1>1, <1>2, <1>3, <1>4 DEF Good, DeleteTrue, RolledBack, Done
  <2>5. Ours(c)'
    BY <1>1, <1>2, <1>3, <1>4 DEF Good, Ours, OurRow
  <2>6. Ahead(c)'
    BY <1>1, <1>2, <1>3, <1>4 DEF Good, Ahead, Quiet, PlaceOf, Position, Candidates, OnLicense
  <2>7. QED
    BY <2>1, <2>2, <2>3, <2>4, <2>5, <2>6 DEF Good
<1>9. QED
  BY <1>1, <1>7, <1>8, CallStep

\* A rate-limited request is repeated: the answer to the first has come, and
\* it was no create.
LEMMA RetryGood == ASSUME CallInv, IInv', NEW c \in Calls, Retry(c) PROVE CallInv'
<1> DEFINE l == [NewLink EXCEPT !.attempt = link[c].attempt + 1]
<1>1. /\ pc[c] \in {"lookup", "validate"} /\ link[c].reply.status = "RATE_LIMITED"
      /\ link' = [link EXCEPT ![c] = l]
      /\ UNCHANGED <<rec, live, culled, policy, arg, pc, know, held, slot, ret, hist, net>>
  BY DEF Retry, MayRetry, Retryable
<1>2. TypeOK /\ Good(c)
  BY DEF CallInv, IInv
<1>3. ~l.sent /\ l.reply = NoReply
  BY DEF NewLink
<1> HIDE DEF l
<1>4. link'[c] = l /\ link[c].reply # NoReply
  BY <1>1, <1>2 DEF TypeOK, NoReply, Failure
<1>5. \A d \in Calls : d # c => SameCall(d)
  BY <1>1, <1>2 DEF SameCall, TypeOK
<1>6. \A r \in net : r.call # c
  BY <1>1, <1>4, NothingSent
<1>7. NoReply.status = "OK" /\ NoReply.own = 0 /\ NoReply.hits = {}
  BY DEF NoReply, Failure
<1>8. Good(c)'
  <2>1. ReplyFits(c)' /\ OneRequest(c)'
    BY <1>1, <1>3, <1>4, <1>6 DEF ReplyFits, OneRequest
  <2>2. OneRow(c)' /\ PathFits(c)'
    BY <1>1, <1>2, <1>3, <1>4, <1>6, <1>7 DEF Good, OneRow, PathFits, RowsOf, Done
  <2>3. DeleteTrue(c)' /\ Ours(c)'
    BY <1>1, <1>2, <1>3, <1>4, <1>7 DEF Good, DeleteTrue, RolledBack, Ours, OurRow, Done
  <2>4. Ahead(c)'
    BY <1>1, <1>2, <1>3, <1>4 DEF Good, Ahead, Quiet, PlaceOf, Position, Candidates, OnLicense
  <2>5. QED
    BY <2>1, <2>2, <2>3, <2>4 DEF Good
<1>9. QED
  BY <1>1, <1>5, <1>8, CallStep

\* What a result must be for the call to return it.
Returnable(c, r) ==
  /\ arg[c].out /\ r.status = "OK" => r.out = "validated"
  /\ arg[c].out /\ r.status = "LIMIT_EXCEEDED" => r.out = "created"
  /\ know[c].path = "none" /\ r.status # "LIMIT_EXCEEDED" => r.out = "null"
  /\ r.status \in {"FINGERPRINT_TAKEN", "LIMIT_EXCEEDED"} => RowsOf(c) = {}
  /\ (\E q \in net : q.call = c) => r.status \in {"TRANSPORT", "OUT_OF_MEMORY"}
                                    \/ pc[c] # "create"
  /\ r.why = "elsewhere" /\ Quiet /\ hist[c].holder # 0 =>
       PlaceOf(c) > MaxPages * PageSize

\* Returning: the call has learnt at most a verdict, and its history at most
\* how the rollback went.
LEMMA FinishGood ==
  ASSUME CallInv, IInv', NEW c \in Calls, pc[c] \in Phases,
         UNCHANGED <<rec, live, culled, policy, arg, net>>,
         NEW r \in Result, Returnable(c, r),
         NEW a, a = (IF r.out = "null" THEN {} ELSE {r.out}),
         NEW s, s = (IF r.status = "OK" THEN "none" ELSE r.status),
         Finish(c, r, a, s),
         NEW v \in Verdicts, know' = [know EXCEPT ![c].verdict = v],
         NEW u \in Statuses \cup {"none"}, hist' = [hist EXCEPT ![c].undone = u],
         (know[c].path = "created" /\ know[c].mine # 0 /\ arg[c].auto /\ v = "OVERAGE")
           => u # "none" /\ (u = "OK" => know[c].mine \notin live)
  PROVE  CallInv'
<1>1. TypeOK /\ Good(c) /\ pc[c] \notin {"idle", "done"}
  BY DEF CallInv, IInv, Phases
<1>2. /\ pc' = [pc EXCEPT ![c] = "done"] /\ link' = [link EXCEPT ![c] = NewLink]
      /\ ret' = [ret EXCEPT ![c] = r]
      /\ held' = [held EXCEPT ![c] = a] /\ slot' = [slot EXCEPT ![c] = s]
  BY DEF Finish
<1>4. /\ pc'[c] = "done" /\ link'[c] = NewLink /\ ret'[c] = r
      /\ held'[c] = a /\ slot'[c] = s
  BY <1>1, <1>2 DEF TypeOK
<1>5. /\ know'[c].path = know[c].path /\ know'[c].mine = know[c].mine
      /\ know'[c].adopted = know[c].adopted /\ know'[c].page = know[c].page
      /\ know'[c].verdict = v
  BY <1>1 DEF TypeOK, Knowledge
<1>6. /\ hist'[c].holder = hist[c].holder /\ hist'[c].creates = hist[c].creates
      /\ hist'[c].undone = u
  BY <1>1 DEF TypeOK, History
<1>7. \A d \in Calls : d # c => SameCall(d)
  BY <1>1, <1>2 DEF SameCall, TypeOK
<1>8. ~NewLink.sent /\ NewLink.reply = NoReply
  BY DEF NewLink
<1>9. Good(c)'
  <2>1. ReplyFits(c)'
    BY <1>4, <1>8 DEF ReplyFits
  <2>2. OneRequest(c)'
    BY <1>1, <1>4, <1>5 DEF Good, OneRequest
  <2>3. OneRow(c)'
    <3>1. RowsOf(c)' = RowsOf(c)
      BY DEF RowsOf
    <3>2. \A q \in net : q.call = c /\ q.kind = "create" => pc[c] = "create"
      BY <1>1 DEF Good, OneRequest
    <3>3. QED
      BY <1>1, <1>4, <1>6, <3>1, <3>2 DEF Good, OneRow, Done, Returnable
  <2>4. PathFits(c)'
    <3>1. OutResponseTable(c)' /\ ErrorSlotAgrees(c)'
      BY <1>4, <1>5 DEF OutResponseTable, ErrorSlotAgrees, Returnable
    <3>2. NoResponseLeaked(c)'
      BY <1>4 DEF NoResponseLeaked
    <3>3. QED
      BY <1>4, <3>1, <3>2 DEF PathFits, Done, Phases
  <2>5. DeleteTrue(c)'
    BY <1>4, <1>5, <1>6 DEF DeleteTrue, RolledBack
  <2>6. Ours(c)'
    BY <1>1, <1>4, <1>5, <1>6 DEF Good, Ours, OurRow
  <2>7. Ahead(c)'
    <3>1. PlaceOf(c)' = PlaceOf(c) /\ (Quiet <=> Quiet')
      BY <1>6 DEF Quiet, PlaceOf, Position, Candidates, OnLicense
    <3>2. QED
      BY <1>4, <1>6, <3>1 DEF Ahead, Returnable
  <2>8. QED
    BY <2>1, <2>2, <2>3, <2>4, <2>5, <2>6, <2>7 DEF Good
<1>10. QED
  BY <1>7, <1>9, CallStep

\* Going on to the next endpoint with nothing left on the network.
LEMMA EnterGood ==
  ASSUME CallInv, IInv', NEW c \in Calls, pc[c] \in Phases,
         UNCHANGED <<rec, live, culled, policy, arg, net>>,
         NEW ph \in {"lookup", "validate", "rollback"}, Enter(c, ph),
         \A r \in net : r.call # c,
         NEW k \in Knowledge, know' = [know EXCEPT ![c] = k],
         NEW h \in MaybeId, hist' = [hist EXCEPT ![c].holder = h],
         NEW a, held' = [held EXCEPT ![c] = a],
         a = CASE ph = "lookup" -> {}
               [] ph = "validate" -> IF k.path = "created" THEN {"created"} ELSE {}
               [] ph = "rollback" -> {"created", "validated"},
         ph = "lookup" => /\ k.path = "none" /\ k.mine = 0 /\ RowsOf(c) = {}
                          /\ Quiet /\ h # 0 =>
                               Position(h, Candidates(arg[c].lic, arg[c].fp))
                                 > (k.page - 1) * PageSize,
         ph = "validate" => k.path # "none",
         ph = "rollback" => k.path = "created",
         k.path = "adopted" => OurRow(c, k.adopted),
         h # 0 => OurRow(c, h)
  PROVE  CallInv'
<1>1. TypeOK /\ Good(c) /\ pc[c] \notin {"idle", "done"}
  BY DEF CallInv, IInv, Phases
<1>2. /\ pc' = [pc EXCEPT ![c] = ph] /\ link' = [link EXCEPT ![c] = NewLink]
      /\ slot' = [slot EXCEPT ![c] = "none"] /\ UNCHANGED ret
  BY DEF Enter
<1>3. /\ pc'[c] = ph /\ link'[c] = NewLink /\ know'[c] = k
      /\ held'[c] = a /\ slot'[c] = "none"
  BY <1>1, <1>2 DEF TypeOK
<1>4. /\ hist'[c].holder = h /\ hist'[c].creates = hist[c].creates
      /\ hist'[c].undone = hist[c].undone
  BY <1>1 DEF TypeOK, History
<1>5. \A d \in Calls : d # c => SameCall(d)
  BY <1>1, <1>2 DEF SameCall, TypeOK
<1>6. /\ ~NewLink.sent /\ NewLink.reply = NoReply
      /\ NoReply.status = "OK" /\ NoReply.own = 0 /\ NoReply.hits = {}
  BY DEF NewLink, NoReply, Failure
<1>7. Good(c)'
  <2>1. ReplyFits(c)' /\ OneRequest(c)'
    BY <1>3, <1>6 DEF ReplyFits, OneRequest
  <2>2. OneRow(c)'
    BY <1>1, <1>3, <1>4, <1>6 DEF Good, OneRow, RowsOf, Done
  <2>3. PathFits(c)'
    BY <1>1, <1>2, <1>3 DEF Good, PathFits, Done
  <2>4. DeleteTrue(c)'
    BY <1>3, <1>6 DEF DeleteTrue, RolledBack, Done
  <2>5. Ours(c)'
    BY <1>3, <1>4, <1>6 DEF Ours, OurRow
  <2>6. Ahead(c)'
    <3>1. Quiet <=> Quiet'
      BY DEF Quiet
    <3>2. PlaceOf(c)' = Position(h, Candidates(arg[c].lic, arg[c].fp))
      BY <1>4 DEF PlaceOf, Position, Candidates, OnLicense
    <3>3. ret'[c].why # "elsewhere"
      BY <1>1, <1>2 DEF Good, PathFits, Done, NoResult, Returned
    <3>4. QED
      BY <1>3, <1>4, <1>6, <3>1, <3>2, <3>3 DEF Ahead
  <2>7. QED
    BY <2>1, <2>2, <2>3, <2>4, <2>5, <2>6 DEF Good
<1>8. QED
  BY <1>5, <1>7, CallStep

\* While nothing is removed, the call's own row is in its listing.
LEMMA OurRowListed ==
  ASSUME TypeOK, NEW c \in Calls, NEW h, OurRow(c, h), Quiet
  PROVE  h \in Candidates(arg[c].lic, arg[c].fp)
<1>1. h \in live /\ rec[h].lic = arg[c].lic /\ rec[h].fp = arg[c].fp
  BY DEF OurRow, Quiet
<1>2. arg[c].fp \in Fingerprints
  BY DEF TypeOK, Args
<1>3. arg[c].fp \in Contains[arg[c].fp]
  BY <1>2, RowAssumption
<1>4. QED
  BY <1>1, <1>3 DEF Candidates, OnLicense

\* A plain return, that learns nothing and adds nothing to the history.
LEMMA PlainFinish ==
  ASSUME CallInv, IInv', NEW c \in Calls, pc[c] \in {"create", "lookup"},
         UNCHANGED <<rec, live, culled, policy, arg, net>>,
         NEW r \in Result, Returnable(c, r),
         NEW a, a = (IF r.out = "null" THEN {} ELSE {r.out}),
         NEW s, s = (IF r.status = "OK" THEN "none" ELSE r.status),
         Finish(c, r, a, s), UNCHANGED <<know, hist>>
  PROVE  CallInv'
<1>1. TypeOK /\ know[c].path = "none" /\ pc[c] \in Phases
  BY DEF CallInv, IInv, Good, PathFits, Phases
<1>2. know[c].verdict \in Verdicts /\ hist[c].undone \in Statuses \cup {"none"}
  BY <1>1 DEF TypeOK, Knowledge, History
<1>3. /\ know' = [know EXCEPT ![c].verdict = know[c].verdict]
      /\ hist' = [hist EXCEPT ![c].undone = hist[c].undone]
  BY <1>1 DEF TypeOK, Knowledge, History
<1>4. QED
  BY <1>1, <1>2, <1>3, FinishGood

\* Adopting a machine that is the call's own.
LEMMA AdoptGood ==
  ASSUME CallInv, IInv', NEW c \in Calls, pc[c] \in Phases,
         UNCHANGED <<rec, live, culled, policy, arg, net>>,
         NEW i, OurRow(c, i), NEW a, a = {}, Adopt(c, i, a),
         \A r \in net : r.call # c
  PROVE  CallInv'
<1> DEFINE k == Learnt("adopted", 0, i, 0)
<1>1. i \in MaybeId
  BY DEF OurRow, MaybeId
<1>2. k \in Knowledge /\ k.path = "adopted" /\ k.adopted = i
  BY <1>1, SmallFacts, LearntFacts DEF Learnt
<1>3. /\ Enter(c, "validate") /\ know' = [know EXCEPT ![c] = k]
      /\ held' = [held EXCEPT ![c] = a] /\ UNCHANGED hist
  BY DEF Adopt
<1> HIDE DEF k
<1>4. TypeOK /\ Good(c)
  BY DEF CallInv, IInv
<1>5. hist[c].holder \in MaybeId /\ hist' = [hist EXCEPT ![c].holder = hist[c].holder]
  BY <1>3, <1>4 DEF TypeOK, History
<1>6. hist[c].holder # 0 => OurRow(c, hist[c].holder)
  BY <1>4 DEF Good, Ours
<1>7. QED
  BY <1>2, <1>3, <1>5, <1>6, EnterGood

\* Running out of memory promises nothing.
LEMMA OutOfMemoryGood ==
  ASSUME CallInv, IInv', NEW c \in Calls, pc[c] \in {"create", "lookup"},
         UNCHANGED <<rec, live, culled, policy, arg, net>>, UNCHANGED <<know, hist>>,
         Finish(c, Returned("OUT_OF_MEMORY", "null"), {}, "OUT_OF_MEMORY")
  PROVE  CallInv'
<1> DEFINE r == Returned("OUT_OF_MEMORY", "null")
<1>1. r \in Result
  BY ReturnedFacts DEF Statuses
<1>2. Returnable(c, r) /\ r.out = "null" /\ r.status = "OUT_OF_MEMORY"
  BY DEF Returnable, Returned
<1>3. Finish(c, r, {}, "OUT_OF_MEMORY")
  OBVIOUS
<1> HIDE DEF r
<1>4. QED
  BY <1>1, <1>2, <1>3, PlainFinish

\* The create endpoint returns.
LEMMA CreateReturnsGood ==
  ASSUME CallInv, IInv', NEW c \in Calls, CreateReturns(c)
  PROVE  CallInv'
<1>1. /\ pc[c] = "create" /\ pc[c] \in Phases
      /\ UNCHANGED <<rec, live, culled, policy, arg, net>>
  BY DEF CreateReturns, Phases
<1>2. TypeOK /\ Good(c)
  BY DEF CallInv, IInv
<1>3. PICK o \in Outcomes(c) :
        \/ o.status = "OK" /\ CreateSucceeded(c, o)
        \/ o.status = "FINGERPRINT_TAKEN" /\ Conflict(c, o)
        \/ o.status # "OK" /\ CreateFailed(c, o)
  BY DEF CreateReturns
<1>4. /\ o \in Outcome
      /\ o.status \in {"OK", "FINGERPRINT_TAKEN", "LIMIT_EXCEEDED", "NOT_FOUND"}
         \/ o.resp \/ o.verdict # "none" \/ o.id # 0 =>
           /\ o = link[c].reply /\ o # NoReply /\ o.resp
           /\ \A r \in net : r.call # c
      /\ (\E r \in net : r.call = c) => o.status \in {"TRANSPORT", "OUT_OF_MEMORY"}
  BY <1>1, OutcomeSure
<1>5. hist[c].holder \in MaybeId /\ (hist[c].holder # 0 => OurRow(c, hist[c].holder))
  BY <1>2 DEF Good, Ours, TypeOK, History
<1>6. know[c].path = "none" /\ held[c] = {} /\ slot[c] = "none"
  BY <1>1, <1>2 DEF Good, PathFits
<1>11. /\ o.resp => Alive(c, o, "created") = {"created"}
       /\ ~o.resp => Alive(c, o, "created") = {}
       /\ o.status # "OK" => SlotAfter(c, o) = o.status
  BY <1>4, <1>6, AliveFacts DEF SlotAfter
<1>12. Alive(c, o, "created") \ {"created"} = {}
  BY <1>4, <1>11 DEF Outcome
<1>7. CASE o.status = "OK" /\ CreateSucceeded(c, o)
  <2> DEFINE k == Learnt("created", o.id, 0, 0)
  <2>1. k \in Knowledge /\ k.path = "created"
    BY <1>4, SmallFacts, LearntFacts DEF Outcome, Learnt
  <2>2. /\ know' = [know EXCEPT ![c] = k]
        /\ held' = [held EXCEPT ![c] = {"created"}]
        /\ UNCHANGED hist /\ Enter(c, "validate")
    BY <1>4, <1>7, <1>11 DEF CreateSucceeded
  <2> HIDE DEF k
  <2>3. hist' = [hist EXCEPT ![c].holder = hist[c].holder]
    BY <1>2, <2>2 DEF TypeOK, History
  <2>5. \A r \in net : r.call # c
    BY <1>4, <1>7
  <2>6. QED
    BY <1>1, <1>5, <2>1, <2>2, <2>3, <2>5, EnterGood
<1>8. CASE o.status = "FINGERPRINT_TAKEN" /\ Conflict(c, o)
  <2>1. /\ o = link[c].reply /\ o # NoReply /\ \A r \in net : r.call # c
        /\ RowsOf(c) = {}
        /\ o.id # 0 => OurRow(c, o.id)
        /\ o.own # 0 => OurRow(c, o.own)
    BY <1>1, <1>2, <1>4, <1>8 DEF Good, OneRow, Ours
  <2>2. CASE o.id # 0 /\ Adopt(c, o.id, {})
    BY <1>1, <2>1, <2>2, AdoptGood
  <2>3. CASE CopyFails(c, {})
    BY <1>1, <2>3, OutOfMemoryGood DEF CopyFails
  <2>4. CASE /\ Enter(c, "lookup")
             /\ know' = [know EXCEPT ![c] = Learnt("none", 0, 0, 1)]
             /\ hist' = [hist EXCEPT ![c].holder = o.own]
             /\ held' = [held EXCEPT ![c] = {}]
    <3> DEFINE k == Learnt("none", 0, 0, 1)
    <3>1. k \in Knowledge /\ k.path = "none" /\ k.mine = 0 /\ k.page = 1
      BY SmallFacts, LearntFacts DEF Learnt
    <3>2. know' = [know EXCEPT ![c] = k]
      BY <2>4
    <3> HIDE DEF k
    <3>3. o.own \in MaybeId
      BY <1>4 DEF Outcome
    <3>4. Quiet /\ o.own # 0 =>
            Position(o.own, Candidates(arg[c].lic, arg[c].fp))
              > (k.page - 1) * PageSize
      <4> SUFFICES ASSUME Quiet, o.own # 0
                   PROVE  Position(o.own, Candidates(arg[c].lic, arg[c].fp))
                            > (k.page - 1) * PageSize
        OBVIOUS
      <4>1. o.own \in Candidates(arg[c].lic, arg[c].fp)
        BY <1>2, <2>1, OurRowListed
      <4>2. /\ Position(o.own, Candidates(arg[c].lic, arg[c].fp)) \in Nat
            /\ Position(o.own, Candidates(arg[c].lic, arg[c].fp)) >= 1
        BY <1>2, <4>1, PositionRange DEF TypeOK
      <4>3. (k.page - 1) * PageSize = 0
        BY <3>1, LimitAssumption
      <4>4. QED
        BY <4>2, <4>3
    <3>5. QED
      BY <1>1, <2>1, <2>4, <3>1, <3>2, <3>3, <3>4, EnterGood
  <2>5. QED
    BY <1>8, <1>12, <2>2, <2>3, <2>4 DEF Conflict
<1>9. CASE o.status # "OK" /\ CreateFailed(c, o)
  <2> DEFINE given == o.resp /\ o.status = "LIMIT_EXCEEDED" /\ arg[c].out
             p == IF given THEN "created" ELSE "null"
             a == IF given THEN Alive(c, o, "created")
                           ELSE Alive(c, o, "created") \ {"created"}
             r == Returned(o.status, p)
  <2>1. r \in Result
    BY <1>4, ReturnedFacts DEF Outcome
  <2>2. r.status = o.status /\ r.why = "none" /\ r.out = p
    BY DEF Returned
  <2>3. Finish(c, r, a, SlotAfter(c, o)) /\ UNCHANGED <<know, hist>>
    BY <1>9 DEF CreateFailed
  <2>9. a = (IF p = "null" THEN {} ELSE {p})
    BY <1>11, <1>12
  <2>4. o.status \in {"FINGERPRINT_TAKEN", "LIMIT_EXCEEDED"} => RowsOf(c) = {}
    BY <1>1, <1>2, <1>4 DEF Good, OneRow
  <2>5. /\ p = "created" => o.status = "LIMIT_EXCEEDED"
        /\ arg[c].out /\ o.status = "LIMIT_EXCEEDED" => p = "created"
    BY <1>4
  <2>6. p \in {"created", "null"}
    OBVIOUS
  <2> HIDE DEF r, p, a, given
  <2>7. Returnable(c, r)
    BY <1>4, <1>6, <1>9, <2>2, <2>4, <2>5, <2>6 DEF Returnable
  <2>8. QED
    BY <1>1, <1>9, <1>11, <2>1, <2>2, <2>3, <2>7, <2>9, PlainFinish
<1>10. QED
  BY <1>3, <1>7, <1>8, <1>9

\* Rows and pages: more pages hold at least as many rows.
LEMMA MorePages ==
  ASSUME NEW m \in Nat, NEW n \in Nat, m <= n
  PROVE  m * PageSize <= n * PageSize
<1>1. PageSize \in Nat
  BY LimitAssumption
<1>2. PICK k \in Nat : n = m + k
  <2>1. n - m \in Nat /\ n = m + (n - m)
    OBVIOUS
  <2>2. QED
    BY <2>1
<1>3. n * PageSize = m * PageSize + k * PageSize
  BY <1>1, <1>2
<1>4. k * PageSize \in Nat /\ m * PageSize \in Nat
  BY <1>1
<1>5. QED
  BY <1>3, <1>4

\* The lookup returns a conflict that stands: the call has taken no seat.
LEMMA StandsGood ==
  ASSUME CallInv, IInv', NEW c \in Calls, pc[c] = "lookup",
         UNCHANGED <<rec, live, culled, policy, arg, net>>,
         NEW reason \in {"unresolved", "elsewhere"}, Stands(c, reason, {}),
         reason = "elsewhere" /\ Quiet /\ hist[c].holder # 0 =>
           PlaceOf(c) > MaxPages * PageSize
  PROVE  CallInv'
<1> DEFINE r == [Returned("FINGERPRINT_TAKEN", "null") EXCEPT !.why = reason]
<1>1. /\ r \in Result /\ r.status = "FINGERPRINT_TAKEN" /\ r.why = reason
      /\ r.out = "null"
  BY DEF Returned, Result, Statuses
<1>2. Finish(c, r, {}, "FINGERPRINT_TAKEN") /\ UNCHANGED <<know, hist>>
  BY DEF Stands
<1> HIDE DEF r
<1>3. RowsOf(c) = {}
  BY DEF CallInv, Good, OneRow
<1>4. Returnable(c, r)
  BY <1>1, <1>3 DEF Returnable
<1>5. QED
  BY <1>1, <1>2, <1>4, PlainFinish

\* A page of the lookup is read.
LEMMA LookupReturnsGood ==
  ASSUME CallInv, IInv', NEW c \in Calls, LookupReturns(c)
  PROVE  CallInv'
<1>1. /\ pc[c] = "lookup" /\ pc[c] \in Phases
      /\ UNCHANGED <<rec, live, culled, policy, arg, net>>
  BY DEF LookupReturns, Phases
<1>2. TypeOK /\ Good(c)
  BY DEF CallInv, IInv
<1>3. PICK o \in Outcomes(c) :
        LET rest == Alive(c, o, "listed") \ {"listed"}
        IN  \/ /\ o.status = "OUT_OF_MEMORY"
               /\ Finish(c, Returned(o.status, "null"), rest, SlotAfter(c, o))
               /\ UNCHANGED <<know, hist>>
            \/ Stands(c, "unresolved", rest)
            \/ o.status = "OK" /\ PageRead(c, o, rest)
  BY DEF LookupReturns
<1>8. o \in Outcome
  BY <1>2, OutcomesFacts
<1>9. held[c] = {}
  BY <1>1, <1>2 DEF Good, PathFits
<1>10. Alive(c, o, "listed") \ {"listed"} = {}
  BY <1>8, <1>9, AliveFacts DEF Outcome
<1>4. CASE /\ o.status = "OUT_OF_MEMORY"
           /\ Finish(c, Returned(o.status, "null"), {}, SlotAfter(c, o))
           /\ UNCHANGED <<know, hist>>
  BY <1>1, <1>4, OutOfMemoryGood DEF SlotAfter
<1>5. CASE Stands(c, "unresolved", {})
  BY <1>1, <1>5, StandsGood
<1>6. CASE o.status = "OK" /\ PageRead(c, o, {})
  <2> DEFINE match == ExactMatch(o.hits, arg[c].fp)
             h == hist[c].holder
             page == know[c].page
  <2>1. /\ o \in Outcome /\ o = link[c].reply /\ o # NoReply
        /\ \A r \in net : r.call # c
    BY <1>1, <1>6, OutcomeSure
  <2>2. o.hits \subseteq Ids /\ o.pages \in Nat /\ page \in Nat /\ page <= MaxPages
    BY <1>2, <2>1, BoundsAssumption DEF Outcome, TypeOK, Knowledge
  <2>3. \A i \in match : OurRow(c, i)
    BY <1>1, <1>2, <2>1, <2>2 DEF Good, Ours, OurRow, ExactMatch
  <2>4. h \in MaybeId /\ (h # 0 => OurRow(c, h))
    BY <1>2 DEF Good, Ours, TypeOK, History
  <2>5. Quiet /\ h # 0 /\ match = {} =>
          PlaceOf(c) > page * PageSize /\ PlaceOf(c) <= o.pages * PageSize
    <3>1. h # 0 /\ match = {} => h \notin o.hits
      BY <2>4 DEF ExactMatch, OurRow
    <3>2. QED
      BY <1>1, <1>2, <1>6, <2>1, <3>1 DEF Good, Ahead
  <2>6. Quiet /\ h # 0 => PlaceOf(c) \in Nat
    BY <1>2, <2>4, OurRowListed, PositionRange DEF PlaceOf, TypeOK
  <2>7. RowsOf(c) = {} /\ know[c].path = "none" /\ know[c].mine = 0
    BY <1>1, <1>2 DEF Good, OneRow, PathFits
  <2>8. CASE \E i \in match : Adopt(c, i, {})
    BY <1>1, <2>1, <2>3, <2>8, AdoptGood
  <2>9. CASE CopyFails(c, {})
    BY <1>1, <2>9, OutOfMemoryGood DEF CopyFails
  <2>10. CASE match = {} /\ LastPage(page, o.pages) /\ Stands(c, "elsewhere", {})
    <3>1. Quiet /\ h # 0 => PlaceOf(c) > MaxPages * PageSize
      <4> SUFFICES ASSUME Quiet, h # 0
                   PROVE  PlaceOf(c) > MaxPages * PageSize
        OBVIOUS
      <4>1. CASE page >= o.pages
        <5>1. o.pages * PageSize <= page * PageSize
          BY <2>2, <4>1, MorePages
        <5>2. o.pages * PageSize \in Nat /\ page * PageSize \in Nat
          BY <2>2, LimitAssumption
        <5>3. QED
          BY <2>5, <2>6, <2>10, <5>1, <5>2
      <4>2. CASE page >= MaxPages
        <5>1. page = MaxPages
          BY <2>2, <4>2, BoundsAssumption
        <5>2. QED
          BY <2>5, <2>10, <5>1
      <4>3. QED
        BY <2>10, <4>1, <4>2 DEF LastPage
    <3>2. QED
      BY <1>1, <2>10, <3>1, StandsGood
  <2>11. CASE match = {} /\ ~LastPage(page, o.pages) /\ NextPage(c, {})
    <3> DEFINE k == [know[c] EXCEPT !.page = page + 1]
    <3>1. page + 1 \in 0..MaxPages
      BY <2>2, <2>11, BoundsAssumption DEF LastPage
    <3>2. k \in Knowledge /\ k.path = "none" /\ k.mine = 0 /\ k.page - 1 = page
      <4>1. know[c] \in Knowledge
        BY <1>2 DEF TypeOK
      <4>2. /\ k \in Knowledge /\ k.page = page + 1
            /\ k.path = know[c].path /\ k.mine = know[c].mine
        BY <3>1, <4>1 DEF Knowledge
      <4>3. QED
        BY <2>2, <2>7, <4>2
    <3>3. /\ know' = [know EXCEPT ![c] = k] /\ UNCHANGED hist
          /\ held' = [held EXCEPT ![c] = {}] /\ Enter(c, "lookup")
      BY <2>11 DEF NextPage
    <3> HIDE DEF k
    <3>4. hist' = [hist EXCEPT ![c].holder = h]
      BY <1>2, <3>3 DEF TypeOK, History
    <3>5. Quiet /\ h # 0 =>
            Position(h, Candidates(arg[c].lic, arg[c].fp)) > (k.page - 1) * PageSize
      BY <2>5, <2>11, <3>2 DEF PlaceOf
    <3>6. QED
      BY <1>1, <2>1, <2>4, <2>7, <3>2, <3>3, <3>4, <3>5, EnterGood
  <2>12. QED
    BY <1>6, <2>8, <2>9, <2>10, <2>11 DEF PageRead
<1>7. QED
  BY <1>3, <1>4, <1>5, <1>6, <1>10

\* The validation returns, or the rollback begins.
LEMMA ValidateReturnsGood ==
  ASSUME CallInv, IInv', NEW c \in Calls, ValidateReturns(c)
  PROVE  CallInv'
<1>1. /\ pc[c] = "validate" /\ pc[c] \in Phases
      /\ UNCHANGED <<rec, live, culled, policy, arg, net>> /\ UNCHANGED hist
  BY DEF ValidateReturns, Phases
<1>2. TypeOK /\ Good(c)
  BY DEF CallInv, IInv
<1>3. PICK o \in Outcomes(c) :
        LET alive == Alive(c, o, "validated")
        IN  /\ know' = [know EXCEPT ![c].verdict = o.verdict]
            /\ \/ /\ Undoes(c, o) /\ know[c].mine # 0
                  /\ Enter(c, "rollback")
                  /\ held' = [held EXCEPT ![c] = alive]
               \/ /\ Undoes(c, o) /\ know[c].mine = 0
                  /\ HandOver(c, o.status, alive, "none")
               \/ /\ know[c].path = "created" /\ ~Undoes(c, o)
                  /\ HandOver(c, o.status, alive, SlotAfter(c, o))
               \/ /\ know[c].path = "adopted" /\ ~Undoes(c, o)
                  /\ Finish(c, Returned(o.status,
                                 IF o.resp THEN "validated" ELSE "null"),
                            alive, SlotAfter(c, o))
  BY DEF ValidateReturns
<1>4. /\ o \in Outcome
      /\ o.status \in {"OK", "FINGERPRINT_TAKEN", "LIMIT_EXCEEDED", "NOT_FOUND"}
         \/ o.resp \/ o.verdict # "none" \/ o.id # 0 =>
           /\ o = link[c].reply /\ o # NoReply /\ o.resp
           /\ \A r \in net : r.call # c
      /\ (\E r \in net : r.call = c) => o.status \in {"TRANSPORT", "OUT_OF_MEMORY"}
  BY <1>1, OutcomeSure
<1>5. /\ o.status \notin {"FINGERPRINT_TAKEN", "LIMIT_EXCEEDED"}
      /\ o.verdict # "none" => o.status = "OK"
  BY <1>1, <1>2, <1>4 DEF Good, ReplyFits
<1>6. /\ hist[c].holder \in MaybeId /\ (hist[c].holder # 0 => OurRow(c, hist[c].holder))
      /\ know[c].path # "none" /\ (know[c].path = "adopted" => OurRow(c, know[c].adopted))
  BY <1>1, <1>2 DEF Good, Ours, PathFits, TypeOK, History
<1>10. /\ slot[c] = "none"
       /\ know[c].path = "created" => held[c] = {"created"}
       /\ know[c].path = "adopted" => held[c] = {}
  BY <1>1, <1>2 DEF Good, PathFits
<1> DEFINE got == IF o.resp THEN {"validated"} ELSE {}
           s == IF o.status = "OK" THEN "none" ELSE o.status
<1>11. /\ Alive(c, o, "validated") = held[c] \cup got /\ SlotAfter(c, o) = s
       /\ "validated" \in got <=> o.resp
  BY <1>4, <1>10, AliveFacts DEF SlotAfter
<1>7. CASE /\ Undoes(c, o) /\ know[c].mine # 0
           /\ Enter(c, "rollback")
           /\ held' = [held EXCEPT ![c] = Alive(c, o, "validated")]
  <2> DEFINE k == [know[c] EXCEPT !.verdict = o.verdict]
  <2>1. k \in Knowledge /\ know' = [know EXCEPT ![c] = k] /\ k.path = "created"
    BY <1>2, <1>3, <1>4, <1>7 DEF TypeOK, Knowledge, Outcome, Undoes
  <2> HIDE DEF k
  <2>2. hist' = [hist EXCEPT ![c].holder = hist[c].holder]
    BY <1>1, <1>2 DEF TypeOK, History
  <2>3. Alive(c, o, "validated") = {"created", "validated"}
    BY <1>4, <1>7, <1>10, <1>11 DEF Undoes
  <2>4. \A r \in net : r.call # c
    BY <1>4, <1>7 DEF Undoes
  <2>5. QED
    BY <1>1, <1>6, <1>7, <2>1, <2>2, <2>3, <2>4, EnterGood
\* What is returned, and with it the responses alive.
<1>8. ASSUME ~(Undoes(c, o) /\ know[c].mine # 0),
             NEW out \in {"null", "validated"},
             arg[c].out /\ o.status = "OK" => out = "validated",
             Finish(c, Returned(o.status, out), IF out = "null" THEN {} ELSE {out}, s)
      PROVE  CallInv'
  <2> DEFINE r == Returned(o.status, out)
             a == IF out = "null" THEN {} ELSE {out}
  <2>1. r \in Result
    BY <1>4, ReturnedFacts DEF Outcome
  <2>2. r.status = o.status /\ r.why = "none" /\ r.out = out
    BY DEF Returned
  <2>3. Finish(c, r, a, s)
    BY <1>8
  <2> HIDE DEF r
  <2>5. Returnable(c, r)
    BY <1>1, <1>5, <1>6, <1>8, <2>2 DEF Returnable
  <2>6. hist[c].undone \in Statuses \cup {"none"}
        /\ hist' = [hist EXCEPT ![c].undone = hist[c].undone]
    BY <1>1, <1>2 DEF TypeOK, History
  <2>7. (know[c].path = "created" /\ know[c].mine # 0 /\ arg[c].auto
         /\ o.verdict = "OVERAGE") => FALSE
    BY <1>5, <1>8 DEF Undoes
  <2>8. o.verdict \in Verdicts
    BY <1>4 DEF Outcome
  <2>10. /\ a = (IF r.out = "null" THEN {} ELSE {r.out})
         /\ s = (IF r.status = "OK" THEN "none" ELSE r.status)
    BY <2>2
  <2> HIDE DEF a, s
  <2>9. QED
    BY <1>1, <1>3, <2>1, <2>3, <2>5, <2>6, <2>7, <2>8, <2>10, FinishGood
<1>12. CASE /\ know[c].path = "created" /\ ~(Undoes(c, o) /\ know[c].mine # 0)
            /\ HandOver(c, o.status, Alive(c, o, "validated"), s)
  <2> DEFINE out == IF arg[c].out /\ "validated" \in Alive(c, o, "validated")
                    THEN "validated" ELSE "null"
  <2>1. Alive(c, o, "validated") \ {"created"} \subseteq {"validated"}
    BY <1>10, <1>11, <1>12
  <2>2. Finish(c, Returned(o.status, out), IF out = "null" THEN {} ELSE {out}, s)
    BY <1>12, <2>1, HandOverGives
  <2>3. arg[c].out /\ o.status = "OK" => out = "validated"
    BY <1>4, <1>11
  <2>4. out \in {"null", "validated"}
    OBVIOUS
  <2> HIDE DEF out
  <2>5. QED
    BY <1>8, <1>12, <2>2, <2>3, <2>4
<1>13. CASE /\ know[c].path = "adopted" /\ ~Undoes(c, o)
            /\ Finish(c, Returned(o.status,
                           IF o.resp THEN "validated" ELSE "null"),
                      Alive(c, o, "validated"), SlotAfter(c, o))
  <2> DEFINE out == IF o.resp THEN "validated" ELSE "null"
  <2>1. Alive(c, o, "validated") = (IF out = "null" THEN {} ELSE {out})
    BY <1>10, <1>11, <1>13
  <2>2. Finish(c, Returned(o.status, out), IF out = "null" THEN {} ELSE {out}, s)
    BY <1>11, <1>13, <2>1
  <2>3. o.status = "OK" => out = "validated"
    BY <1>4
  <2>4. out \in {"null", "validated"}
    OBVIOUS
  <2> HIDE DEF out
  <2>5. QED
    BY <1>8, <1>13, <2>2, <2>3, <2>4
<1>14. Undoes(c, o) => know[c].path = "created" /\ s = "none"
  BY DEF Undoes
<1>9. QED
  <2> HIDE DEF s, got
  <2>1. QED
    BY <1>3, <1>7, <1>11, <1>12, <1>13, <1>14

\* The rollback returns, whatever the DELETE said.
LEMMA RollbackReturnsGood ==
  ASSUME CallInv, IInv', NEW c \in Calls, RollbackReturns(c)
  PROVE  CallInv'
<1>1. /\ pc[c] = "rollback" /\ pc[c] \in Phases
      /\ UNCHANGED <<rec, live, culled, policy, arg, net>> /\ UNCHANGED know
  BY DEF RollbackReturns, Phases
<1>2. TypeOK /\ Good(c)
  BY DEF CallInv, IInv
<1>3. PICK o \in Outcomes(c) :
        /\ HandOver(c, "OK", Alive(c, o, "deleted") \ {"deleted"}, "none")
        /\ hist' = [hist EXCEPT ![c].undone = o.status]
  BY DEF RollbackReturns
<1>4. /\ o \in Outcome
      /\ o.status = "OK" => o = link[c].reply /\ o # NoReply
  BY <1>1, OutcomeSure
<1>5. o.status \in Statuses /\ o.status # "none"
  BY <1>4 DEF Outcome, Statuses
<1>6. o.status = "OK" => know[c].mine \notin live
  BY <1>1, <1>2, <1>4 DEF Good, DeleteTrue
<1>9. know[c].path = "created" /\ held[c] = {"created", "validated"}
  BY <1>1, <1>2 DEF Good, PathFits
<1>13. Alive(c, o, "deleted") \ {"deleted"} = {"created", "validated"}
  BY <1>4, <1>9, AliveFacts DEF Outcome
<1> DEFINE out == IF arg[c].out THEN "validated" ELSE "null"
           r == Returned("OK", out)
           a == IF out = "null" THEN {} ELSE {out}
<1>8. Finish(c, r, a, "none")
  BY <1>3, <1>13, HandOverGives
<1>7. /\ r \in Result /\ r.status = "OK" /\ r.out = out /\ r.why = "none"
      /\ arg[c].out => out = "validated"
  BY DEF Returned, Result, Statuses
<1>14. a = (IF r.out = "null" THEN {} ELSE {r.out})
  BY <1>7
<1> HIDE DEF r, a, out
<1>10. Returnable(c, r)
  BY <1>1, <1>7, <1>9 DEF Returnable
<1>11. know[c].verdict \in Verdicts /\ know' = [know EXCEPT ![c].verdict = know[c].verdict]
  BY <1>1, <1>2 DEF TypeOK, Knowledge
<1>12. QED
  BY <1>1, <1>3, <1>5, <1>6, <1>7, <1>8, <1>10, <1>11, <1>14, FinishGood

-----------------------------------------------------------------------------
(***************************************************************************)
(* Steps of the server.                                                    *)
(***************************************************************************)

\* An answer with a response, that fits the phase kind.
Fits(kind, o) ==
  /\ o.resp
  /\ o.status \in {"FINGERPRINT_TAKEN", "LIMIT_EXCEEDED"} => kind = "create"
  /\ o.status = "NOT_FOUND" => kind = "rollback"
  /\ o.verdict # "none" <=> kind = "validate" /\ o.status = "OK"

\* An answer tells the call c the truth about the rows.
Truthful(c, kind, o) ==
  /\ kind = "create" =>
       /\ o.status = "FINGERPRINT_TAKEN" /\ o.id # 0 => OurRow(c, o.id)
       /\ o.own # 0 => OurRow(c, o.own)
  /\ kind = "lookup" =>
       /\ \A i \in o.hits : rec[i] # NoRow /\ rec[i].lic = arg[c].lic
       /\ o.status = "OK" /\ Quiet /\ hist[c].holder # 0 =>
            /\ \/ hist[c].holder \in o.hits
               \/ PlaceOf(c) > know[c].page * PageSize
            /\ PlaceOf(c) <= o.pages * PageSize
  /\ kind = "rollback" /\ o.status = "OK" => know[c].mine \notin live

\* What the delivery of an answer changes, for the call and for the others.
LEMMA Delivered ==
  ASSUME CallInv, NEW r \in net, NEW o, Deliver(r, o)
  PROVE  /\ r.call \in Calls
         /\ \A q \in net' : q.call # r.call /\ q \in net
         /\ UNCHANGED <<arg, pc, know, held, slot, ret, hist>>
         /\ \A d \in Calls : d # r.call => SameCall(d)
         /\ \/ pc[r.call] = r.kind /\ link'[r.call].sent /\ link'[r.call].reply = o
            \/ pc[r.call] = "done" /\ SameCall(r.call)
<1>1. TypeOK /\ r.call \in Calls
  BY DEF CallInv, IInv, TypeOK, Request
<1>2. Good(r.call)
  BY <1>1 DEF CallInv
<1>3. net' = net \ {r} /\ UNCHANGED <<arg, pc, know, held, slot, ret, hist>>
  BY DEF Deliver
<1>4. \A q \in net' : q.call # r.call /\ q \in net
  BY <1>2, <1>3 DEF Good, OneRequest
<1>5. \A d \in Calls : d # r.call => link'[d] = link[d]
  BY <1>1 DEF Deliver, TypeOK
<1>6. \A d \in Calls : d # r.call => SameCall(d)
  BY <1>3, <1>4, <1>5 DEF SameCall
<1>7. CASE /\ pc[r.call] = r.kind /\ link[r.call].sent
           /\ link' = [link EXCEPT ![r.call].reply = o]
  <2>1. link'[r.call].sent /\ link'[r.call].reply = o
    BY <1>1, <1>7 DEF TypeOK, Link
  <2>2. QED
    BY <1>1, <1>3, <1>4, <1>6, <1>7, <2>1
<1>8. CASE ~(pc[r.call] = r.kind /\ link[r.call].sent) /\ link' = link
  <2>1. pc[r.call] = "done"
    BY <1>2, <1>8 DEF Good, OneRequest
  <2>2. QED
    BY <1>1, <1>3, <1>4, <1>6, <1>8, <2>1 DEF SameCall
<1>9. QED
  BY <1>7, <1>8 DEF Deliver

\* The call that gets a truthful answer.
LEMMA AnswerGood ==
  ASSUME CallInv, TypeOK', NEW r \in net, NEW o, Deliver(r, o),
         pc[r.call] = r.kind, link'[r.call].sent, link'[r.call].reply = o,
         Appends, OneRow(r.call)', Fits(r.kind, o), Truthful(r.call, r.kind, o)'
  PROVE  Good(r.call)'
<1> DEFINE c == r.call
<1>1. /\ c \in Calls /\ UNCHANGED <<arg, pc, know, held, slot, ret, hist>>
      /\ \A q \in net' : q.call # c /\ q \in net
  BY Delivered
<1>2. Good(c) /\ IInv /\ TypeOK /\ r.kind \in Phases
  BY <1>1 DEF CallInv, IInv, TypeOK, Request
<1>3. pc'[c] = r.kind /\ r.kind \notin {"idle", "done"} /\ pc[c] = r.kind
  BY <1>1, <1>2 DEF Phases
<1>4. link'[c].sent /\ link'[c].reply = o
  OBVIOUS
<1> HIDE DEF c
<1>5. ReplyFits(c)'
  BY <1>3, <1>4 DEF ReplyFits, Fits
<1>6. OneRequest(c)'
  BY <1>1 DEF OneRequest
<1>7. PathFits(c)'
  BY <1>1, <1>2, <1>3 DEF Good, PathFits, Done
<1>8. Truthful(c, r.kind, o)' /\ OneRow(c)'
  BY DEF c
<1>9. DeleteTrue(c)'
  BY <1>3, <1>4, <1>8 DEF DeleteTrue, RolledBack, Done, Truthful
<1>10. Ours(c)'
  <2>1. \A i : OurRow(c, i) => OurRow(c, i)'
    BY <1>1, OurRowKept
  <2>2. /\ know[c].path = "adopted" => OurRow(c, know[c].adopted)
        /\ hist[c].holder # 0 => OurRow(c, hist[c].holder)
    BY <1>2 DEF Good, Ours
  <2>3. /\ know'[c].path = "adopted" => OurRow(c, know[c].adopted)'
        /\ hist'[c].holder # 0 => OurRow(c, hist[c].holder)'
    BY <1>1, <2>1, <2>2 DEF OurRow
  <2>4. QED
    BY <1>3, <1>4, <1>8, <2>3 DEF Ours, Truthful, OurRow
<1>11. Ahead(c)'
  <2> SUFFICES ASSUME Quiet', hist[c].holder # 0
               PROVE  Ahead(c)'
    BY <1>1 DEF Ahead
  <2>1. Quiet
    BY <1>2, QuietBefore DEF TypeOK
  <2>2. PlaceOf(c)' = PlaceOf(c)
    BY <1>1, <1>2, PlaceKept DEF Good, Ours
  <2>3. ret'[c].why # "elsewhere"
    BY <1>1, <1>2, <1>3 DEF Good, PathFits, Done, NoResult, Returned
  <2>4. pc'[c] = "lookup" => PlaceOf(c)' > (know'[c].page - 1) * PageSize
    BY <1>1, <1>2, <2>1, <2>2 DEF Good, Ahead
  <2>5. QED
    BY <1>1, <1>3, <1>4, <1>8, <2>3, <2>4 DEF Ahead, Truthful
<1>12. QED
  BY <1>5, <1>6, <1>7, <1>8, <1>9, <1>10, <1>11 DEF Good, c

\* A step of the server that adds no row.
LEMMA ServeGood ==
  ASSUME CallInv, IInv', NEW r \in net, NEW o, Deliver(r, o),
         UNCHANGED rec, live' \subseteq live, UNCHANGED culled,
         Fits(r.kind, o), pc[r.call] = r.kind => Truthful(r.call, r.kind, o)'
  PROVE  CallInv'
<1> DEFINE c == r.call
<1>1. /\ c \in Calls /\ TypeOK /\ TypeOK' /\ Good(c)
      /\ \A d \in Calls : Moves(d)
      /\ \A q \in net' : q.call # c /\ q \in net
      /\ UNCHANGED <<arg, pc, know, held, slot, ret, hist>>
      /\ \A d \in Calls : d # c => SameCall(d)
  BY Delivered DEF CallInv, IInv, Moves, Appends
<1>2. RowsKept'
  BY DEF CallInv, RowsKept
<1>3. \A d \in Calls : d # c => Good(d)'
  BY <1>1, OtherCall
<1>4. CASE pc[c] = "done" /\ SameCall(c)
  BY <1>1, <1>2, <1>3, <1>4, OtherCall DEF CallInv
<1>5. CASE pc[c] = r.kind /\ link'[c].sent /\ link'[c].reply = o
  <2>1. RowsOf(c)' = RowsOf(c)
    BY <1>1, RowsOfKept
  <2>2. r.kind = "create" => RowsOf(c) = {}
    BY <1>1 DEF Good, OneRow
  <2>3. pc'[c] = r.kind
    BY <1>1, <1>5
  <2>4. r.kind \notin {"idle", "done"}
    BY <1>1 DEF TypeOK, Request, Phases
  <2>5. OneRow(c)'
    BY <1>1, <1>5, <2>1, <2>2, <2>3, <2>4 DEF Good, OneRow, Done
  <2>6. Good(c)'
    BY <1>1, <1>5, <2>5, AnswerGood DEF Moves
  <2>7. QED
    BY <1>2, <1>3, <2>6 DEF CallInv
<1>6. QED
  BY <1>4, <1>5, Delivered

\* The rows of a listing fit on its pages.
LEMMA PagesHoldRows ==
  ASSUME NEW n \in Nat
  PROVE  /\ (n + PageSize - 1) \div PageSize \in Nat
         /\ n <= ((n + PageSize - 1) \div PageSize) * PageSize
         /\ \A k \in Nat : n <= k * PageSize => (n + PageSize - 1) \div PageSize <= k
<1> DEFINE m == n + PageSize - 1
           q == m \div PageSize
<1>1. PageSize \in Nat /\ PageSize > 0 /\ m \in Nat
  BY LimitAssumption
<1>2. q \in Nat /\ m % PageSize \in 0..(PageSize - 1) /\ m = PageSize * q + (m % PageSize)
  BY <1>1
<1>3. PageSize * q = q * PageSize /\ q * PageSize \in Nat
  BY <1>1, <1>2
<1>4. n <= q * PageSize
  BY <1>1, <1>2, <1>3
<1>5. ASSUME NEW k \in Nat, n <= k * PageSize
      PROVE  q <= k
  <2> SUFFICES ASSUME k + 1 <= q PROVE FALSE
    BY <1>2
  <2>1. (k + 1) * PageSize <= q * PageSize
    BY <1>2, MorePages
  <2>2. (k + 1) * PageSize = k * PageSize + PageSize /\ k * PageSize \in Nat
    BY <1>1
  <2>3. k * PageSize + PageSize <= n + PageSize - 1
    BY <1>1, <1>2, <1>3, <2>1, <2>2
  <2>4. QED
    BY <1>1, <1>5, <2>2, <2>3
<1>6. QED
  BY <1>2, <1>4, <1>5

\* A listing shows rows of the licence, and leaves out no row of its page.
LEMMA ServerListsGood ==
  ASSUME CallInv, IInv', NEW r \in net, ServerLists(r)
  PROVE  CallInv'
<1> DEFINE c == r.call
           a == arg[c]
           S == Candidates(a.lic, a.fp)
           hits == PageOf(a.lic, a.fp, r.page)
           pages == TotalPages(a.lic, a.fp)
<1> PICK o : o = [Answer("OK") EXCEPT !.hits = hits, !.pages = pages]
  OBVIOUS
<1>1. /\ Deliver(r, o) /\ UNCHANGED <<rec, live, culled, policy>> /\ r.kind = "lookup"
  BY DEF ServerLists, serverVars
<1>2. /\ o.resp /\ o.status = "OK" /\ o.verdict = "none"
      /\ o.hits = hits /\ o.pages = pages
  BY DEF Answer, Failure
<1>3. TypeOK /\ c \in Calls /\ ServerTypeOK
  BY DEF CallInv, IInv, TypeOK, Request
<1>4. Good(c) /\ UNCHANGED <<arg, know, hist, pc>>
  BY <1>1, <1>3 DEF CallInv, Deliver
<1>5. Fits(r.kind, o)
  BY <1>1, <1>2 DEF Fits
<1>6. \A i \in hits : rec[i] # NoRow /\ rec[i].lic = arg[c].lic
  BY <1>3 DEF PageOf, Candidates, OnLicense, ServerTypeOK
<1>7. ASSUME pc[c] = "lookup", Quiet, hist[c].holder # 0
      PROVE  /\ hist[c].holder \in hits \/ PlaceOf(c) > know[c].page * PageSize
             /\ PlaceOf(c) <= pages * PageSize
  <2> DEFINE h == hist[c].holder
  <2>1. h \in S /\ PlaceOf(c) = Position(h, S)
    BY <1>3, <1>4, <1>7, OurRowListed DEF Good, Ours, PlaceOf
  <2>2. Position(h, S) \in Nat /\ Position(h, S) <= Cardinality(S)
    BY <1>3, <2>1, PositionRange
  <2>3. Cardinality(S) \in Nat
    BY <1>3, CandidatesFinite
  <2>4. Cardinality(S) <= pages * PageSize /\ pages \in Nat
    BY <2>3, PagesHoldRows DEF TotalPages
  <2>5. PlaceOf(c) > (know[c].page - 1) * PageSize /\ r.page = know[c].page
    BY <1>1, <1>4, <1>7 DEF Good, Ahead, OneRequest
  <2>6. pages * PageSize \in Nat /\ know[c].page * PageSize \in Nat
    BY <1>3, <2>4, LimitAssumption DEF TypeOK, Knowledge
  <2>7. PlaceOf(c) <= know[c].page * PageSize => h \in hits
    BY <2>1, <2>5 DEF PageOf
  <2> HIDE DEF pages, hits, S
  <2>8. QED
    BY <2>1, <2>2, <2>3, <2>4, <2>6, <2>7
<1>8. pc[c] = "lookup" => Truthful(c, "lookup", o)'
  <2>1. /\ PlaceOf(c)' = PlaceOf(c) /\ (Quiet' <=> Quiet)
    BY <1>1, <1>4 DEF Quiet, PlaceOf, Position, Candidates, OnLicense
  <2> HIDE DEF hits, pages, S, a
  <2>2. QED
    BY <1>1, <1>2, <1>4, <1>6, <1>7, <2>1 DEF Truthful
<1>9. QED
  BY <1>1, <1>5, <1>8, ServeGood

\* A verdict is an answer to a validation only.
LEMMA ServerValidatesGood ==
  ASSUME CallInv, IInv', NEW r \in net, ServerValidates(r)
  PROVE  CallInv'
<1>1. PICK v \in {Verdict(arg[r.call].lic), "UNKNOWN"} :
        Deliver(r, [Answer("OK") EXCEPT !.verdict = v])
  BY DEF ServerValidates
<1>2. v # "none" /\ r.kind = "validate" /\ UNCHANGED <<rec, live, culled, policy>>
  BY DEF Verdict, ServerValidates, serverVars
<1> DEFINE o == [Answer("OK") EXCEPT !.verdict = v]
<1>3. o.resp /\ o.status = "OK" /\ o.verdict = v
  BY DEF Answer, Failure
<1>4. Deliver(r, o)
  BY <1>1
<1> HIDE DEF o
<1>5. Fits(r.kind, o) /\ Truthful(r.call, r.kind, o)'
  BY <1>2, <1>3 DEF Fits, Truthful
<1>6. QED
  BY <1>2, <1>4, <1>5, ServeGood

\* A refusal says nothing of the rows.
LEMMA ServerRefusesGood ==
  ASSUME CallInv, IInv', NEW r \in net, ServerRefuses(r)
  PROVE  CallInv'
<1>1. PICK s \in {"RATE_LIMITED", "SERVER"} : Deliver(r, Answer(s))
  BY DEF ServerRefuses
<1>2. UNCHANGED <<rec, live, culled, policy>>
  BY DEF ServerRefuses, serverVars
<1> DEFINE o == Answer(s)
<1>3. o.resp /\ o.status = s /\ o.verdict = "none" /\ o.hits = {} /\ o.own = 0
  BY DEF Answer, Failure
<1> HIDE DEF o
<1>4. Fits(r.kind, o) /\ Truthful(r.call, r.kind, o)'
  BY <1>3 DEF Fits, Truthful
<1>5. QED
  BY <1>1, <1>2, <1>4, ServeGood DEF o

\* The row of an acknowledged DELETE is gone.
LEMMA ServerDeletesGood ==
  ASSUME CallInv, IInv', NEW r \in net, ServerDeletes(r)
  PROVE  CallInv'
<1> PICK o : o = Answer(IF r.target \in live THEN "OK" ELSE "NOT_FOUND")
  OBVIOUS
<1>1. /\ r.kind = "rollback" /\ live' = live \ {r.target} /\ UNCHANGED <<rec, culled>>
      /\ Deliver(r, o)
  BY DEF ServerDeletes, RemoveRow
<1>2. o.resp /\ o.status \in {"OK", "NOT_FOUND"} /\ o.verdict = "none"
  BY DEF Answer, Failure
<1>3. r.call \in Calls
  BY DEF CallInv, IInv, TypeOK, Request
<1>4. r.target = know[r.call].mine /\ UNCHANGED know
  BY <1>1, <1>3 DEF CallInv, Good, OneRequest, Deliver
<1>5. Fits(r.kind, o) /\ Truthful(r.call, r.kind, o)'
  BY <1>1, <1>2, <1>4 DEF Fits, Truthful
<1>6. QED
  BY <1>1, <1>5, ServeGood

\* Someone else removes a machine: nothing is quiet any more.
LEMMA CullGood ==
  ASSUME CallInv, IInv', NEW i \in Ids, Cull(i)
  PROVE  CallInv'
<1>1. /\ i \in live /\ live' = live \ {i} /\ culled' = culled \cup {i}
      /\ UNCHANGED <<rec, policy, arg, pc, link, know, held, slot, ret, hist, net>>
  BY DEF Cull, CullRow
<1>2. \A d \in Calls : Moves(d) /\ SameCall(d)
  BY <1>1 DEF Moves, Appends, SameCall
<1>3. TypeOK' /\ TypeOK
  BY DEF IInv, CallInv
<1>4. \A d \in Calls : Good(d)'
  BY <1>2, <1>3, OtherCall
<1>5. RowsKept'
  BY <1>1, <1>3 DEF CallInv, RowsKept, TypeOK, ServerTypeOK
<1>6. QED
  BY <1>4, <1>5 DEF CallInv

\* The row the server names as the licence's own is that.
LEMMA HolderOurs ==
  ASSUME TypeOK, NEW c \in Calls, Holder(arg[c].lic, arg[c].fp) # 0
  PROVE  OurRow(c, Holder(arg[c].lic, arg[c].fp))
<1> DEFINE a == arg[c]
<1>1. \E i \in Conflicts(a.lic, a.fp) : rec[i].lic = a.lic
  BY DEF Holder
<1>2. /\ Holder(a.lic, a.fp) \in Conflicts(a.lic, a.fp)
      /\ rec[Holder(a.lic, a.fp)].lic = a.lic
  BY <1>1 DEF Holder
<1>3. QED
  BY <1>2 DEF Conflicts, OurRow, TypeOK, ServerTypeOK

\* A create adds the call's one row, or leaves the rows as they are.
LEMMA ServerCreatesGood ==
  ASSUME CallInv, IInv', NEW r \in net, ServerCreates(r)
  PROVE  CallInv'
<1> DEFINE c == r.call
           a == arg[c]
<1>1. TypeOK /\ TypeOK' /\ c \in Calls /\ r.kind = "create"
  BY DEF CallInv, IInv, TypeOK, Request, ServerCreates
<1>2. Good(c) /\ RowsKept
  BY <1>1 DEF CallInv
<1>3. CASE /\ Deliver(r, [Answer("FINGERPRINT_TAKEN") EXCEPT
                            !.id = Named(a.lic, a.fp),
                            !.own = Holder(a.lic, a.fp)])
           /\ UNCHANGED serverVars
  <2> PICK n, h : n = Named(a.lic, a.fp) /\ h = Holder(a.lic, a.fp)
    OBVIOUS
  <2> DEFINE o == [Answer("FINGERPRINT_TAKEN") EXCEPT !.id = n, !.own = h]
  <2>1. Deliver(r, o) /\ UNCHANGED <<rec, live, culled, policy, arg>>
    BY <1>3 DEF serverVars, Deliver
  <2>2. /\ o.resp /\ o.status = "FINGERPRINT_TAKEN" /\ o.verdict = "none"
        /\ o.id = n /\ o.own = h
    BY DEF Answer, Failure
  <2> HIDE DEF o
  <2>3. (n # 0 => OurRow(c, n)) /\ (h # 0 => OurRow(c, h))
    BY <1>1, HolderOurs DEF Named
  <2>4. (n # 0 => OurRow(c, n)') /\ (h # 0 => OurRow(c, h)')
    BY <2>1, <2>3 DEF OurRow
  <2>5. Fits(r.kind, o) /\ Truthful(c, r.kind, o)'
    BY <1>1, <2>2, <2>4 DEF Fits, Truthful
  <2>6. QED
    BY <2>1, <2>5, ServeGood
<1>4. CASE Deliver(r, Answer("LIMIT_EXCEEDED")) /\ UNCHANGED serverVars
  <2> DEFINE o == Answer("LIMIT_EXCEEDED")
  <2>1. Deliver(r, o) /\ UNCHANGED <<rec, live, culled, policy>>
    BY <1>4 DEF serverVars
  <2>2. o.resp /\ o.status = "LIMIT_EXCEEDED" /\ o.verdict = "none" /\ o.own = 0
    BY DEF Answer, Failure
  <2> HIDE DEF o
  <2>3. Fits(r.kind, o) /\ Truthful(c, r.kind, o)'
    BY <1>1, <2>2 DEF Fits, Truthful
  <2>4. QED
    BY <2>1, <2>3, ServeGood
<1>5. ASSUME NEW i \in Ids, NEW id, AddRow(i, a.lic, a.fp, c),
             Deliver(r, [Answer("OK") EXCEPT !.id = id])
      PROVE  CallInv'
  <2> DEFINE o == [Answer("OK") EXCEPT !.id = id]
             row == [lic |-> a.lic, fp |-> a.fp, by |-> c]
  <2>1. o.resp /\ o.status = "OK" /\ o.verdict = "none" /\ o.own = 0
    BY DEF Answer, Failure
  <2>2. Deliver(r, o)
    BY <1>5
  <2>3. /\ rec[i] = NoRow /\ \A j \in Ids : j < i => rec[j] # NoRow
        /\ rec' = [rec EXCEPT ![i] = row] /\ live' = live \cup {i}
        /\ UNCHANGED <<culled, policy>>
    BY <1>5 DEF AddRow, Fresh
  <2>4. row \in Row /\ row.by = c
    BY <1>1 DEF Row, TypeOK, Args
  <2>5. row # NoRow
    BY <2>4, RowAssumption
  <2> HIDE DEF o, row
  <2>6. rec'[i] = row /\ \A j \in Ids : j # i => rec'[j] = rec[j]
    BY <1>1, <2>3 DEF TypeOK, ServerTypeOK
  <2>7. Appends
    <3>1. \A j \in Ids : rec[j] # NoRow => j < i
      <4> SUFFICES ASSUME NEW j \in Ids, rec[j] # NoRow PROVE j < i
        OBVIOUS
      <4>1. j # i /\ ~(i < j)
        BY <1>2, <2>3 DEF RowsKept
      <4>2. i \in Nat /\ j \in Nat
        BY IdsAssumption
      <4>3. QED
        BY <4>1, <4>2
    <3>2. QED
      BY <2>3, <2>6, <3>1 DEF Appends
  <2>8. \A d \in Calls : d # c => Moves(d)
    BY <2>4, <2>6, <2>7 DEF Moves
  <2>9. RowsKept'
    <3>1. i \notin culled
      BY <1>2, <2>3 DEF RowsKept
    <3>2. i \notin DOMAIN Installed
      BY <1>2, <2>3, RowAssumption DEF RowsKept
    <3>3. culled' \subseteq {j \in Ids : rec'[j] # NoRow} /\ live' \cap culled' = {}
      BY <1>2, <2>3, <2>5, <2>6, <3>1 DEF RowsKept
    <3>4. \A j \in DOMAIN Installed : rec'[j] = Installed[j]
      BY <1>2, <2>6, <3>2, RowAssumption DEF RowsKept
    <3>5. \A k, j \in Ids : j < k /\ rec'[k] # NoRow => rec'[j] # NoRow
      BY <1>2, <2>3, <2>5, <2>6 DEF RowsKept
    <3>6. QED
      BY <3>3, <3>4, <3>5 DEF RowsKept
  <2>10. /\ \A q \in net' : q.call # c /\ q \in net
         /\ UNCHANGED <<arg, pc, know, held, slot, ret, hist>>
         /\ \A d \in Calls : d # c => SameCall(d)
         /\ \/ pc[c] = "create" /\ link'[c].sent /\ link'[c].reply = o
            \/ pc[c] = "done" /\ SameCall(c)
    BY <1>1, <2>2, Delivered
  <2>11. \A d \in Calls : d # c => Good(d)'
    BY <1>1, <2>8, <2>10, OtherCall
  <2>12. RowsOf(c) = {} /\ (Done(c) => ret[c].status \in {"TRANSPORT", "OUT_OF_MEMORY"})
    BY <1>1, <1>2 DEF Good, OneRow, Done
  <2>13. \A j \in RowsOf(c)' : j = i
    BY <2>6, <2>12 DEF RowsOf
  <2>14. OneRow(c)'
    BY <1>2, <2>1, <2>10, <2>12, <2>13 DEF Good, OneRow, Done
  <2>15. CASE pc[c] = "create" /\ link'[c].sent /\ link'[c].reply = o
    <3>1. Fits(r.kind, o) /\ Truthful(c, r.kind, o)'
      BY <1>1, <2>1 DEF Fits, Truthful
    <3>2. Good(c)'
      BY <1>1, <2>2, <2>7, <2>14, <2>15, <3>1, AnswerGood
    <3>3. QED
      BY <2>9, <2>11, <3>2 DEF CallInv
  <2>16. CASE SameCall(c)
    BY <1>1, <2>7, <2>9, <2>11, <2>14, <2>16, SameCallGood DEF CallInv
  <2>17. QED
    BY <2>10, <2>15, <2>16
<1>6. QED
  BY <1>3, <1>4, <1>5 DEF ServerCreates

-----------------------------------------------------------------------------
(***************************************************************************)
(* The invariant and what it gives.                                        *)
(***************************************************************************)

\* Before any call: only the installed rows, and nothing is sent or known.
LEMMA InitCallInv == Init => CallInv
<1> SUFFICES ASSUME Init PROVE CallInv
  OBVIOUS
<1>1. IInv /\ TypeOK
  BY InitIInv DEF IInv
<1>2. \A i \in Ids : rec[i] # NoRow <=> i \in DOMAIN Installed
  BY RowAssumption DEF Init, ServerInit
<1>3. \A i \in DOMAIN Installed : rec[i] = Installed[i] /\ i \in Ids
  BY RowAssumption DEF Init, ServerInit
<1>4. RowsKept
  BY <1>2, <1>3, InstalledFirst DEF RowsKept, Init, ServerInit
<1>5. ASSUME NEW c \in Calls PROVE Good(c)
  <2>1. /\ pc[c] = "idle" /\ link[c] = NewLink /\ ret[c] = NoResult /\ net = {}
        /\ know[c] = Learnt("none", 0, 0, 0)
        /\ hist[c] = [undone |-> "none", creates |-> 0, holder |-> 0]
        /\ held[c] = {}
    BY DEF Init
  <2>2. know[c].path = "none" /\ know[c].mine = 0
    BY <2>1 DEF Learnt
  <2>3. hist[c].creates = 0 /\ hist[c].holder = 0
    BY <2>1
  <2>4. ~link[c].sent /\ link[c].reply = NoReply
    BY <2>1 DEF NewLink
  <2>5. RowsOf(c) = {}
    BY <1>2, <1>3, RowAssumption, NoCallAssumption DEF RowsOf
  <2>6. ReplyFits(c) /\ OneRequest(c) /\ PathFits(c)
    BY <2>1, <2>2, <2>4 DEF ReplyFits, OneRequest, PathFits, Done, Phases
  <2>7. OneRow(c)
    BY <2>1, <2>3, <2>5 DEF OneRow
  <2>8. DeleteTrue(c) /\ Ours(c) /\ Ahead(c)
    BY <2>1, <2>2, <2>3 DEF DeleteTrue, RolledBack, Done, Ours, Ahead
  <2>9. QED
    BY <2>6, <2>7, <2>8 DEF Good
<1>6. QED
  BY <1>1, <1>4, <1>5 DEF CallInv

\* A step that changes nothing.
LEMMA StutterGood == ASSUME CallInv, IInv', UNCHANGED vars PROVE CallInv'
<1>1. /\ UNCHANGED <<rec, live, culled>>
      /\ \A d \in Calls : Moves(d) /\ SameCall(d)
  BY DEF vars, Moves, Appends, SameCall
<1>2. RowsKept' /\ TypeOK'
  BY <1>1 DEF CallInv, IInv, RowsKept
<1>3. QED
  BY <1>1, <1>2, OtherCall DEF CallInv

LEMMA NextCallInv == CallInv /\ [Next]_vars => CallInv'
<1> SUFFICES ASSUME CallInv, [Next]_vars PROVE CallInv'
  OBVIOUS
<1>1. IInv'
  BY NextIInv DEF CallInv
<1>2. ASSUME NEW c \in Calls, Begin(c) \/ Progress(c) PROVE CallInv'
  BY <1>1, <1>2, BeginGood, SendGood, RetryGood, CreateReturnsGood,
     LookupReturnsGood, ValidateReturnsGood, RollbackReturnsGood DEF Progress
<1>3. ASSUME NEW r \in net, ServerStep(r) PROVE CallInv'
  BY <1>1, <1>3, ServerCreatesGood, ServerListsGood, ServerValidatesGood,
     ServerDeletesGood, ServerRefusesGood DEF ServerStep
<1>4. ASSUME NEW i \in Ids, Cull(i) PROVE CallInv'
  BY <1>1, <1>4, CullGood
<1>5. CASE UNCHANGED vars
  BY <1>1, <1>5, StutterGood
<1>6. QED
  BY <1>2, <1>3, <1>4, <1>5 DEF Next

(***************************************************************************)
(* What each call knows, has sent and has returned agrees with the rows of *)
(* the server, whatever the other calls, the network and operators do.     *)
(***************************************************************************)
THEOREM CallInvariance == Spec => []CallInv
BY InitCallInv, NextCallInv, PTL DEF Spec

(***************************************************************************)
(* The idempotent activation adopts only a machine with its fingerprint on *)
(* its licence, and the lookup of tamga_machine_find_on_license misses the *)
(* row behind the conflict only when a machine was removed meanwhile or    *)
(* when the listing has more pages than the cap.                           *)
(***************************************************************************)
THEOREM LookupIsExact == Spec => []LookupExact
<1>1. CallInv => LookupExact
  <2> SUFFICES ASSUME CallInv, NEW c \in Calls
               PROVE  AdoptedIsOurs(c) /\ QuietLookupFindsOurs(c)
    BY DEF LookupExact
  <2>1. TypeOK /\ Good(c)
    BY DEF CallInv, IInv
  <2>2. AdoptedIsOurs(c)
    BY <2>1 DEF Good, Ours, AdoptedIsOurs, OurRow
  <2>3. QuietLookupFindsOurs(c)
    <3> DEFINE h == hist[c].holder
               S == Candidates(arg[c].lic, arg[c].fp)
               n == TotalPages(arg[c].lic, arg[c].fp)
    <3> SUFFICES ASSUME Quiet, ret[c].why = "elsewhere", n <= MaxPages, h \in live
                 PROVE  FALSE
      BY DEF QuietLookupFindsOurs
    <3>1. h # 0
      BY <2>1, IdsAssumption DEF TypeOK, ServerTypeOK
    <3>2. OurRow(c, h) /\ PlaceOf(c) > MaxPages * PageSize
      BY <2>1, <3>1 DEF Good, Ours, Ahead
    <3>3. h \in S /\ PlaceOf(c) = Position(h, S)
      BY <2>1, <3>2, OurRowListed DEF PlaceOf
    <3>4. Position(h, S) \in Nat /\ Position(h, S) <= Cardinality(S)
      BY <2>1, <3>3, PositionRange DEF TypeOK
    <3>5. Cardinality(S) \in Nat
      BY <2>1, CandidatesFinite DEF TypeOK
    <3>6. n \in Nat /\ Cardinality(S) <= n * PageSize
      BY <3>5, PagesHoldRows DEF TotalPages
    <3>7. n * PageSize <= MaxPages * PageSize
      BY <3>6, MorePages, BoundsAssumption
    <3>8. n * PageSize \in Nat /\ MaxPages * PageSize \in Nat
      BY <3>6, BoundsAssumption, LimitAssumption
    <3> HIDE DEF n, S, h
    <3>9. QED
      BY <3>2, <3>3, <3>4, <3>5, <3>6, <3>7, <3>8
  <2>4. QED
    BY <2>2, <2>3
<1>2. QED
  BY <1>1, CallInvariance, PTL

(***************************************************************************)
(* FINGERPRINT_TAKEN and a limit error mean that no seat was taken and     *)
(* none will be, late requests included; no call sends two creates.        *)
(***************************************************************************)
THEOREM SeatsAreAsTold == Spec => []SeatsAsTold
<1>1. CallInv => SeatsAsTold
  <2> SUFFICES ASSUME CallInv, NEW c \in Calls
               PROVE  RefusedTookNoSeat(c) /\ CreateSentOnce(c)
    BY DEF SeatsAsTold
  <2>1. OneRow(c)
    BY DEF CallInv, Good
  <2>2. CreateSentOnce(c)
    BY <2>1 DEF OneRow, CreateSentOnce
  <2>3. RefusedTookNoSeat(c)
    BY <2>1 DEF OneRow, RefusedTookNoSeat, RowsOf, Done
  <2>4. QED
    BY <2>2, <2>3
<1>2. QED
  BY <1>1, CallInvariance, PTL

(***************************************************************************)
(* *out_response, the responses still allocated and the error slot are     *)
(* what tamga.h promises for the code returned, on every path.             *)
(***************************************************************************)
THEOREM CallerIsTold == Spec => []CallerTold
<1>1. CallInv => CallerTold
  BY DEF CallInv, Good, PathFits, CallerTold
<1>2. QED
  BY <1>1, CallInvariance, PTL

(***************************************************************************)
(* An over-limit call that asked for it has tried to delete its row before *)
(* it returns, and after a DELETE acknowledged with success it is gone.    *)
(***************************************************************************)
THEOREM RollbackIsComplete == Spec => []RollbackComplete
<1>1. CallInv => RollbackComplete
  BY DEF CallInv, Good, DeleteTrue, RollbackComplete
<1>2. QED
  BY <1>1, CallInvariance, PTL

-----------------------------------------------------------------------------
(***************************************************************************)
(* The calls implement SeatContract: every step of Activation is a step of *)
(* the contract or leaves what the contract sees as it is.                 *)
(***************************************************************************)
\* What changes on a step of the contract is the part of one call.
LEMMA BarsKept ==
  /\ (\A d \in Calls : PhaseOf(d)' = PhaseOf(d)) => UNCHANGED phaseBar
  /\ UNCHANGED arg => UNCHANGED autoBar
  /\ (\A d \in Calls : know'[d].verdict = know[d].verdict) => UNCHANGED answerBar
  /\ (\A d \in Calls : ret'[d].status = ret[d].status) => UNCHANGED outcomeBar
  /\ (\A d \in Calls : SeatOf(d)' = SeatOf(d)) => UNCHANGED seatBar
  /\ UNCHANGED <<live, culled>> => UNCHANGED installedBar
BY DEF phaseBar, autoBar, answerBar, outcomeBar, seatBar, installedBar

LEMMA BarsOfCall ==
  ASSUME NEW c \in Calls, NEW x
  PROVE  /\ (\A d \in Calls : PhaseOf(d)' = IF d = c THEN x ELSE PhaseOf(d)) =>
              phaseBar' = [phaseBar EXCEPT ![c] = x]
         /\ (\A d \in Calls : know'[d].verdict = IF d = c THEN x ELSE know[d].verdict) =>
              answerBar' = [answerBar EXCEPT ![c] = x]
         /\ (\A d \in Calls : ret'[d].status = IF d = c THEN x ELSE ret[d].status) =>
              outcomeBar' = [outcomeBar EXCEPT ![c] = x]
         /\ (\A d \in Calls : SeatOf(d)' = IF d = c THEN x ELSE SeatOf(d)) =>
              seatBar' = [seatBar EXCEPT ![c] = x]
         /\ phaseBar[c] = PhaseOf(c) /\ answerBar[c] = know[c].verdict
         /\ outcomeBar[c] = ret[c].status /\ seatBar[c] = SeatOf(c)
         /\ autoBar = [autoBar EXCEPT ![c] = arg[c].auto]
BY DEF phaseBar, autoBar, answerBar, outcomeBar, seatBar

\* The seats depend on the rows only.
LEMMA SeatsStay ==
  ASSUME UNCHANGED <<rec, live, culled>>
  PROVE  (\A d \in Calls : SeatOf(d)' = SeatOf(d)) /\ UNCHANGED <<seatBar, installedBar>>
<1>1. \A d \in Calls : SeatOf(d)' = SeatOf(d)
  BY DEF SeatOf, RowsOf
<1>2. QED
  BY <1>1, BarsKept

\* A call begins.
LEMMA BeginStarts ==
  ASSUME CallInv, NEW c \in Calls, Begin(c) PROVE SC!ContractNext
<1>1. /\ pc[c] = "idle" /\ pc' = [pc EXCEPT ![c] = "create"]
      /\ UNCHANGED <<rec, live, culled, policy, arg, know, held, ret, hist>>
      /\ TypeOK
  BY DEF Begin, Enter, CallInv, IInv
<1>2. PICK a \in BOOLEAN : a = arg[c].auto
  BY <1>1 DEF TypeOK, Args
<1>3. /\ PhaseOf(c) = "idle"
      /\ \A d \in Calls : PhaseOf(d)' = IF d = c THEN "running" ELSE PhaseOf(d)
  BY <1>1 DEF TypeOK, PhaseOf
<1>4. UNCHANGED <<autoBar, answerBar, outcomeBar, seatBar, installedBar>>
  BY <1>1, BarsKept, SeatsStay
<1>5. SC!Start(c, a)
  BY <1>2, <1>3, <1>4, BarsOfCall DEF SC!Start
<1>6. QED
  BY <1>5 DEF SC!ContractNext

\* A call goes on to its next request: the contract sees nothing of it.
LEMMA RunningOn ==
  ASSUME CallInv, NEW c \in Calls, pc[c] \in Phases,
         UNCHANGED <<rec, live, culled, arg, ret>>,
         NEW p \in Phases, pc' = [pc EXCEPT ![c] = p],
         \A d \in Calls : know'[d].verdict = know[d].verdict
  PROVE  UNCHANGED SC!contractVars
<1>1. TypeOK
  BY DEF CallInv, IInv
<1>2. \A d \in Calls : PhaseOf(d)' = PhaseOf(d)
  BY <1>1 DEF TypeOK, PhaseOf, Phases
<1>3. QED
  BY <1>2, BarsKept, SeatsStay DEF SC!contractVars

\* A call returns.
LEMMA FinishReturns ==
  ASSUME CallInv, NEW c \in Calls, pc[c] \in Phases,
         UNCHANGED <<rec, live, culled, arg>>,
         NEW r \in Result, NEW a, NEW t, Finish(c, r, a, t),
         r.status \notin {"NOT_FOUND", "none"},
         NEW v \in Verdicts, know' = [know EXCEPT ![c].verdict = v],
         know[c].verdict \in {"none", v}, r.status = "OK" <=> v # "none",
         r.status \in {"FINGERPRINT_TAKEN", "LIMIT_EXCEEDED"} => RowsOf(c) = {}
  PROVE  SC!ContractNext
<1>1. TypeOK
  BY DEF CallInv, IInv
<1>2. PICK s : s = r.status
  OBVIOUS
<1>3. /\ s \in {"OK", "FINGERPRINT_TAKEN", "LIMIT_EXCEEDED", "RATE_LIMITED",
                "SERVER", "TRANSPORT", "OUT_OF_MEMORY", "NULL_ARGUMENT",
                "INVALID_JSON"}
      /\ v \in {"none", "VALID", "OVERAGE", "UNKNOWN"}
  BY <1>2 DEF Result, Statuses, Verdicts
<1>4. pc' = [pc EXCEPT ![c] = "done"] /\ ret' = [ret EXCEPT ![c] = r]
  BY DEF Finish
<1>6. /\ PhaseOf(c) = "running"
      /\ \A d \in Calls : PhaseOf(d)' = IF d = c THEN "done" ELSE PhaseOf(d)
  BY <1>1, <1>4 DEF TypeOK, PhaseOf, Phases
<1>7. \A d \in Calls : ret'[d].status = IF d = c THEN s ELSE ret[d].status
  BY <1>1, <1>2, <1>4 DEF TypeOK
<1>8. \A d \in Calls : know'[d].verdict = IF d = c THEN v ELSE know[d].verdict
  BY <1>1 DEF TypeOK, Knowledge
<1>9. s \in {"FINGERPRINT_TAKEN", "LIMIT_EXCEEDED"} => SeatOf(c) = "none"
  BY <1>2 DEF SeatOf
<1>10. UNCHANGED <<autoBar, seatBar, installedBar>>
  BY BarsKept, SeatsStay
<1>11. /\ phaseBar[c] = "running" /\ phaseBar' = [phaseBar EXCEPT ![c] = "done"]
       /\ outcomeBar' = [outcomeBar EXCEPT ![c] = s]
       /\ answerBar[c] = know[c].verdict /\ answerBar' = [answerBar EXCEPT ![c] = v]
       /\ seatBar[c] = SeatOf(c)
  BY <1>6, <1>7, <1>8, BarsOfCall
<1>12. SC!Return(c, s, v)
  BY <1>2, <1>3, <1>9, <1>10, <1>11 DEF SC!Return, SC!Refused
<1>13. QED
  BY <1>3, <1>12 DEF SC!ContractNext

\* A return from the create or the lookup, with no verdict.
LEMMA EarlyReturns ==
  ASSUME CallInv, NEW c \in Calls, pc[c] \in {"create", "lookup"},
         UNCHANGED <<rec, live, culled, arg>>,
         NEW s \in Statuses, s \notin {"OK", "NOT_FOUND"}, NEW r \in Result,
         r.status = s, NEW a, NEW t, Finish(c, r, a, t), UNCHANGED know,
         s \in {"FINGERPRINT_TAKEN", "LIMIT_EXCEEDED"} => RowsOf(c) = {}
  PROVE  SC!ContractNext
<1>1. TypeOK /\ pc[c] \in Phases
  BY DEF CallInv, IInv, Phases
<1>2. know[c].verdict = "none" /\ "none" \in Verdicts
  BY DEF CallInv, IInv, VerdictLate, Verdicts
<1>3. know' = [know EXCEPT ![c].verdict = "none"]
  BY <1>1, <1>2 DEF TypeOK, Knowledge
<1>4. s # "none"
  BY DEF Statuses
<1>5. QED
  BY <1>1, <1>2, <1>3, <1>4, FinishReturns

LEMMA OutOfMemoryReturns ==
  ASSUME CallInv, NEW c \in Calls, pc[c] \in {"create", "lookup"},
         UNCHANGED <<rec, live, culled, arg>>, UNCHANGED know, NEW a, NEW t,
         Finish(c, Returned("OUT_OF_MEMORY", "null"), a, t)
  PROVE  SC!ContractNext
<1> DEFINE r == Returned("OUT_OF_MEMORY", "null")
<1>1. r \in Result /\ r.status = "OUT_OF_MEMORY" /\ "OUT_OF_MEMORY" \in Statuses
  BY DEF Returned, Result, Statuses
<1>2. Finish(c, r, a, t)
  OBVIOUS
<1> HIDE DEF r
<1>3. QED
  BY <1>1, <1>2, EarlyReturns

\* Adopting, or going on, before there is a verdict.
LEMMA EntersOn ==
  ASSUME CallInv, NEW c \in Calls, pc[c] \in {"create", "lookup"},
         UNCHANGED <<rec, live, culled, arg>>,
         NEW p \in Phases, Enter(c, p),
         NEW k \in Knowledge, k.verdict = "none", know' = [know EXCEPT ![c] = k]
  PROVE  UNCHANGED SC!contractVars
<1>1. TypeOK /\ pc[c] \in Phases
  BY DEF CallInv, IInv, Phases
<1>2. know[c].verdict = "none"
  BY DEF CallInv, IInv, VerdictLate
<1>3. \A d \in Calls : know'[d].verdict = know[d].verdict
  BY <1>1, <1>2 DEF TypeOK
<1>4. QED
  BY <1>1, <1>3, RunningOn DEF Enter

\* The create endpoint returns.
LEMMA CreateReturnsContract ==
  ASSUME CallInv, NEW c \in Calls, CreateReturns(c)
  PROVE  [SC!ContractNext]_SC!contractVars
<1>1. /\ pc[c] = "create" /\ pc[c] \in Phases
      /\ UNCHANGED <<rec, live, culled, policy, arg, net>>
  BY DEF CreateReturns, Phases
<1>2. TypeOK /\ Good(c)
  BY DEF CallInv, IInv
<1>3. PICK o \in Outcomes(c) :
        \/ o.status = "OK" /\ CreateSucceeded(c, o)
        \/ o.status = "FINGERPRINT_TAKEN" /\ Conflict(c, o)
        \/ o.status # "OK" /\ CreateFailed(c, o)
  BY DEF CreateReturns
<1>4. /\ o \in Outcome
      /\ o.status \in {"FINGERPRINT_TAKEN", "LIMIT_EXCEEDED", "NOT_FOUND"} =>
           o = link[c].reply /\ o # NoReply
  BY <1>1, OutcomeSure
<1>5. o.id \in MaybeId /\ o.status \in Statuses
  BY <1>4 DEF Outcome
<1>6. \A path \in {"none", "created", "adopted"}, m, a \in MaybeId, page \in 0..MaxPages :
        /\ Learnt(path, m, a, page) \in Knowledge
        /\ Learnt(path, m, a, page).verdict = "none"
  BY LearntFacts
<1>7. CASE CreateSucceeded(c, o)
  BY <1>1, <1>5, <1>6, <1>7, EntersOn, SmallFacts DEF CreateSucceeded
<1>8. CASE Conflict(c, o)
  <2> DEFINE rest == Alive(c, o, "created") \ {"created"}
  <2>1. CASE Adopt(c, o.id, rest)
    BY <1>1, <1>5, <1>6, <2>1, EntersOn, SmallFacts DEF Adopt
  <2>2. CASE CopyFails(c, rest)
    BY <1>1, <2>2, OutOfMemoryReturns DEF CopyFails
  <2>3. CASE Enter(c, "lookup") /\ know' = [know EXCEPT ![c] = Learnt("none", 0, 0, 1)]
    BY <1>1, <1>6, <2>3, EntersOn, SmallFacts
  <2>4. QED
    BY <1>8, <2>1, <2>2, <2>3 DEF Conflict
<1>9. CASE o.status # "OK" /\ CreateFailed(c, o)
  <2> DEFINE given == o.resp /\ o.status = "LIMIT_EXCEEDED" /\ arg[c].out
             r == Returned(o.status, IF given THEN "created" ELSE "null")
             a == IF given THEN Alive(c, o, "created")
                           ELSE Alive(c, o, "created") \ {"created"}
  <2>1. r \in Result /\ r.status = o.status
    BY <1>5, ReturnedFacts DEF Returned
  <2>2. Finish(c, r, a, SlotAfter(c, o)) /\ UNCHANGED know
    BY <1>9 DEF CreateFailed
  <2> HIDE DEF r, a, given
  <2>3. o.status # "NOT_FOUND"
    BY <1>1, <1>2, <1>4 DEF Good, ReplyFits
  <2>4. o.status \in {"FINGERPRINT_TAKEN", "LIMIT_EXCEEDED"} => RowsOf(c) = {}
    BY <1>1, <1>2, <1>4 DEF Good, OneRow
  <2>5. QED
    BY <1>1, <1>5, <1>9, <2>1, <2>2, <2>3, <2>4, EarlyReturns
<1>10. QED
  BY <1>3, <1>7, <1>8, <1>9

\* A page of the lookup is read.
LEMMA LookupReturnsContract ==
  ASSUME CallInv, NEW c \in Calls, LookupReturns(c)
  PROVE  [SC!ContractNext]_SC!contractVars
<1>1. /\ pc[c] = "lookup" /\ UNCHANGED <<rec, live, culled, policy, arg, net>>
  BY DEF LookupReturns
<1>2. TypeOK /\ Good(c)
  BY DEF CallInv, IInv
<1>3. PICK o \in Outcomes(c) :
        LET rest == Alive(c, o, "listed") \ {"listed"}
        IN  \/ /\ o.status = "OUT_OF_MEMORY" /\ UNCHANGED know
               /\ Finish(c, Returned(o.status, "null"), rest, SlotAfter(c, o))
            \/ Stands(c, "unresolved", rest)
            \/ PageRead(c, o, rest)
  BY DEF LookupReturns
<1> DEFINE rest == Alive(c, o, "listed") \ {"listed"}
<1>4. o \in Outcome
  BY <1>2, OutcomesFacts
<1>5. CASE /\ o.status = "OUT_OF_MEMORY" /\ UNCHANGED know
           /\ Finish(c, Returned(o.status, "null"), rest, SlotAfter(c, o))
  BY <1>1, <1>5, OutOfMemoryReturns
<1>9. CASE CopyFails(c, rest)
  BY <1>1, <1>9, OutOfMemoryReturns DEF CopyFails
<1>6. ASSUME NEW why \in {"unresolved", "elsewhere"}, Stands(c, why, rest)
      PROVE  SC!ContractNext
  <2> DEFINE r == [Returned("FINGERPRINT_TAKEN", "null") EXCEPT !.why = why]
  <2>1. r \in Result /\ r.status = "FINGERPRINT_TAKEN" /\ "FINGERPRINT_TAKEN" \in Statuses
    BY DEF Returned, Result, Statuses
  <2>2. Finish(c, r, rest, "FINGERPRINT_TAKEN") /\ UNCHANGED know
    BY <1>6 DEF Stands
  <2> HIDE DEF r
  <2>3. RowsOf(c) = {}
    BY <1>1, <1>2 DEF Good, OneRow
  <2>4. QED
    BY <1>1, <2>1, <2>2, <2>3, EarlyReturns
<1>7. CASE PageRead(c, o, rest)
  <2>1. ASSUME NEW i \in ExactMatch(o.hits, arg[c].fp), Adopt(c, i, rest)
        PROVE  UNCHANGED SC!contractVars
    <3>1. i \in MaybeId
      BY <1>4 DEF ExactMatch, Outcome, MaybeId
    <3>2. /\ Learnt("adopted", 0, i, 0) \in Knowledge
          /\ Learnt("adopted", 0, i, 0).verdict = "none"
      BY <3>1, LearntFacts, SmallFacts
    <3>3. QED
      BY <1>1, <2>1, <3>2, EntersOn, SmallFacts DEF Adopt
  <2>2. CASE NextPage(c, rest) /\ ~LastPage(know[c].page, o.pages)
    <3>1. /\ Enter(c, "lookup") /\ "lookup" \in Phases
          /\ \A d \in Calls : know'[d].verdict = know[d].verdict
      BY <1>2, <2>2, SmallFacts DEF NextPage, TypeOK, Knowledge
    <3>2. QED
      BY <1>1, <3>1, RunningOn DEF Enter
  <2>3. QED
    BY <1>6, <1>7, <1>9, <2>1, <2>2 DEF PageRead
<1>8. QED
  BY <1>3, <1>5, <1>6, <1>7

\* The validation returns, or its over-limit verdict is learnt.
LEMMA ValidateReturnsContract ==
  ASSUME CallInv, NEW c \in Calls, ValidateReturns(c)
  PROVE  SC!ContractNext
<1>1. /\ pc[c] = "validate" /\ pc[c] \in Phases
      /\ UNCHANGED <<rec, live, culled, policy, arg, net>>
  BY DEF ValidateReturns, Phases
<1>2. TypeOK /\ Good(c) /\ know[c].verdict = "none"
  BY <1>1 DEF CallInv, IInv, VerdictLate
<1>3. PICK o \in Outcomes(c) :
        /\ know' = [know EXCEPT ![c].verdict = o.verdict]
        /\ \/ Undoes(c, o) /\ Enter(c, "rollback")
           \/ \E out \in {"null", "validated"}, a \in SUBSET Responses,
                   t \in Statuses \cup {"none"} :
                Finish(c, Returned(o.status, out), a, t)
  <2>1. PICK o \in Outcomes(c) :
          LET alive == Alive(c, o, "validated")
          IN  /\ know' = [know EXCEPT ![c].verdict = o.verdict]
              /\ \/ Undoes(c, o) /\ Enter(c, "rollback")
                 \/ HandOver(c, o.status, alive, "none")
                 \/ HandOver(c, o.status, alive, SlotAfter(c, o))
                 \/ Finish(c, Returned(o.status,
                                IF o.resp THEN "validated" ELSE "null"),
                           alive, SlotAfter(c, o))
    BY DEF ValidateReturns
  <2>2. /\ o.status \in Statuses
        /\ Alive(c, o, "validated") \in SUBSET Responses
        /\ SlotAfter(c, o) \in Statuses \cup {"none"}
    BY <1>2, OutcomesFacts, AliveType DEF Outcome, Responses
  <2>3. \A t : HandOver(c, o.status, Alive(c, o, "validated"), t) =>
          \E out \in {"null", "validated"}, a \in SUBSET Responses :
            Finish(c, Returned(o.status, out), a, t)
    BY <2>2, HandOverFinishes
  <2>4. (IF o.resp THEN "validated" ELSE "null") \in {"null", "validated"}
    OBVIOUS
  <2>5. QED
    BY <2>1, <2>2, <2>3, <2>4
<1>4. /\ o \in Outcome
      /\ o.status \in {"OK", "FINGERPRINT_TAKEN", "LIMIT_EXCEEDED", "NOT_FOUND"}
         \/ o.verdict # "none" => o = link[c].reply /\ o # NoReply
  BY <1>1, OutcomeSure
<1>5. /\ o.status \notin {"FINGERPRINT_TAKEN", "LIMIT_EXCEEDED", "NOT_FOUND"}
      /\ o.verdict # "none" <=> o.status = "OK"
  BY <1>1, <1>2, <1>4 DEF Good, ReplyFits
<1>6. CASE Undoes(c, o) /\ Enter(c, "rollback")
  <2>1. /\ pc' = [pc EXCEPT ![c] = "rollback"] /\ UNCHANGED ret
        /\ know' = [know EXCEPT ![c].verdict = "OVERAGE"]
    BY <1>3, <1>6 DEF Enter, Undoes
  <2>2. \A d \in Calls : know'[d].verdict = IF d = c THEN "OVERAGE" ELSE know[d].verdict
    BY <1>2, <2>1 DEF TypeOK, Knowledge
  <2>3. PhaseOf(c) = "running" /\ \A d \in Calls : PhaseOf(d)' = PhaseOf(d)
    BY <1>1, <1>2, <2>1 DEF TypeOK, PhaseOf
  <2>4. UNCHANGED <<phaseBar, autoBar, outcomeBar, seatBar, installedBar>>
    BY <1>1, <2>1, <2>3, BarsKept, SeatsStay
  <2>5. /\ phaseBar[c] = "running" /\ answerBar[c] = "none"
        /\ answerBar' = [answerBar EXCEPT ![c] = "OVERAGE"]
    BY <1>2, <2>2, <2>3, BarsOfCall
  <2>6. SC!Learn(c, "OVERAGE")
    BY <2>4, <2>5 DEF SC!Learn
  <2>7. QED
    BY <2>6 DEF SC!ContractNext
<1>7. CASE \E out \in {"null", "validated"}, a \in SUBSET Responses,
                   t \in Statuses \cup {"none"} :
             Finish(c, Returned(o.status, out), a, t)
  <2>5. PICK out \in {"null", "validated"}, a \in SUBSET Responses,
             t \in Statuses \cup {"none"} :
          Finish(c, Returned(o.status, out), a, t)
    BY <1>7
  <2> DEFINE r == Returned(o.status, out)
  <2>1. r \in Result /\ r.status = o.status /\ o.verdict \in Verdicts
    BY <1>4, ReturnedFacts DEF Returned, Outcome
  <2>2. Finish(c, r, a, t)
    BY <2>5
  <2> HIDE DEF r
  <2>3. o.status # "none"
    BY <1>4 DEF Outcome, Statuses
  <2>4. QED
    BY <1>1, <1>2, <1>3, <1>5, <2>1, <2>2, <2>3, FinishReturns
<1>8. QED
  BY <1>3, <1>6, <1>7

\* The rollback returns: the verdict is the one already learnt.
LEMMA RollbackReturnsContract ==
  ASSUME CallInv, NEW c \in Calls, RollbackReturns(c)
  PROVE  SC!ContractNext
<1>1. /\ pc[c] = "rollback" /\ pc[c] \in Phases
      /\ UNCHANGED <<rec, live, culled, policy, arg, net>> /\ UNCHANGED know
      /\ \E o \in Outcomes(c) :
           HandOver(c, "OK", Alive(c, o, "deleted") \ {"deleted"}, "none")
  BY DEF RollbackReturns, Phases
<1>2. TypeOK /\ know[c].verdict = "OVERAGE" /\ "OVERAGE" \in Verdicts
  BY <1>1 DEF CallInv, IInv, RollbackReady, Verdicts
<1>3. know' = [know EXCEPT ![c].verdict = "OVERAGE"]
  BY <1>1, <1>2 DEF TypeOK, Knowledge
<1>7. PICK o \in Outcomes(c) :
        HandOver(c, "OK", Alive(c, o, "deleted") \ {"deleted"}, "none")
  BY <1>1
<1>8. Alive(c, o, "deleted") \ {"deleted"} \in SUBSET Responses /\ "OK" \in Statuses
  BY <1>2, OutcomesFacts, AliveType DEF Responses, Statuses
<1>9. PICK out \in {"null", "validated"}, a \in SUBSET Responses :
        Finish(c, Returned("OK", out), a, "none")
  BY <1>7, <1>8, HandOverFinishes
<1> DEFINE r == Returned("OK", out)
<1>4. r \in Result /\ r.status = "OK"
  BY DEF Returned, Result, Statuses
<1>5. Finish(c, r, a, "none")
  BY <1>9
<1> HIDE DEF r
<1>6. QED
  BY <1>1, <1>2, <1>3, <1>4, <1>5, FinishReturns

\* The seat of a call with one row is where that row is.
LEMMA SeatOfOne ==
  ASSUME NEW c \in Calls, NEW i, RowsOf(c) = {i}
  PROVE  /\ i \in live => SeatOf(c) = "held"
         /\ i \notin live /\ i \in culled => SeatOf(c) = "culled"
         /\ i \notin live /\ i \notin culled => SeatOf(c) = "released"
BY DEF SeatOf

\* The seat of a call none of whose rows move.
LEMMA SeatOfKept ==
  ASSUME NEW d \in Calls, RowsOf(d)' = RowsOf(d),
         \A i \in RowsOf(d) : (i \in live' <=> i \in live) /\ (i \in culled' <=> i \in culled)
  PROVE  SeatOf(d)' = SeatOf(d)
<1>1. RowsOf(d) \cap live' = RowsOf(d) \cap live
  OBVIOUS
<1>2. RowsOf(d) \cap culled' = RowsOf(d) \cap culled
  OBVIOUS
<1>3. QED
  BY <1>1, <1>2 DEF SeatOf

\* A delivery shows the contract nothing.
LEMMA DeliverShowsNothing ==
  ASSUME NEW r, NEW o, Deliver(r, o)
  PROVE  UNCHANGED <<arg, phaseBar, autoBar, answerBar, outcomeBar>>
<1>1. UNCHANGED <<arg, pc, know, ret>>
  BY DEF Deliver
<1>2. \A d \in Calls : PhaseOf(d)' = PhaseOf(d)
  BY <1>1 DEF PhaseOf
<1>3. QED
  BY <1>1, <1>2, BarsKept

\* A create that is granted takes the seat of its call, late ones included.
LEMMA ServerCreatesContract ==
  ASSUME CallInv, TypeOK', NEW r \in net, ServerCreates(r)
  PROVE  [SC!ContractNext]_SC!contractVars
<1> DEFINE c == r.call
           a == arg[c]
<1>1. TypeOK /\ c \in Calls /\ r.kind = "create"
  BY DEF CallInv, IInv, TypeOK, Request, ServerCreates
<1>2. Good(c) /\ RowsKept
  BY <1>1 DEF CallInv
<1>3. ASSUME UNCHANGED serverVars, NEW o, Deliver(r, o)
      PROVE  UNCHANGED SC!contractVars
  BY <1>3, DeliverShowsNothing, SeatsStay DEF SC!contractVars, serverVars
<1>4. ASSUME NEW i \in Ids, NEW o, AddRow(i, a.lic, a.fp, c), Deliver(r, o)
      PROVE  SC!ContractNext
  <2> DEFINE row == [lic |-> a.lic, fp |-> a.fp, by |-> c]
  <2>1. /\ rec[i] = NoRow /\ rec' = [rec EXCEPT ![i] = row]
        /\ live' = live \cup {i} /\ UNCHANGED culled
    BY <1>4 DEF AddRow, Fresh
  <2>2. row \in Row /\ row.by = c
    BY <1>1 DEF Row, TypeOK, Args
  <2>3. row # NoRow
    BY <2>2, RowAssumption
  <2> HIDE DEF row
  <2>4. rec'[i] = row /\ \A j \in Ids : j # i => rec'[j] = rec[j]
    BY <1>1, <2>1 DEF TypeOK, ServerTypeOK
  <2>5. RowsOf(c) = {} /\ (pc[c] = "done" => ret[c].status \in {"TRANSPORT", "OUT_OF_MEMORY"})
    BY <1>1, <1>2 DEF Good, OneRow
  <2>6. RowsOf(c)' = {i}
    <3>1. i \in RowsOf(c)'
      BY <2>2, <2>3, <2>4 DEF RowsOf
    <3>2. \A j \in RowsOf(c)' : j = i
      BY <2>4, <2>5 DEF RowsOf
    <3>3. QED
      BY <3>1, <3>2
  <2>7. SeatOf(c)' = "held" /\ SeatOf(c) = "none"
    BY <2>1, <2>5, <2>6 DEF SeatOf
  <2>8. \A d \in Calls : d # c => SeatOf(d)' = SeatOf(d)
    <3> SUFFICES ASSUME NEW d \in Calls, d # c PROVE SeatOf(d)' = SeatOf(d)
      OBVIOUS
    <3>1. RowsOf(d)' = RowsOf(d) /\ i \notin RowsOf(d)
      BY <2>1, <2>2, <2>4 DEF RowsOf
    <3>2. QED
      BY <2>1, <3>1, SeatOfKept
  <2>9. i \notin DOMAIN Installed
    BY <1>2, <2>1, RowAssumption DEF RowsKept
  <2>10. UNCHANGED installedBar
    BY <2>1, <2>9 DEF installedBar
  <2>11. UNCHANGED <<phaseBar, autoBar, answerBar, outcomeBar>>
    BY <1>4, DeliverShowsNothing
  <2>12. PhaseOf(c) = "running" \/ (PhaseOf(c) = "done" /\ ret[c].status \in SC!Unsure)
    <3>1. pc[c] # "idle"
      BY <1>1, <1>2 DEF Good, OneRequest
    <3>2. QED
      BY <2>5, <3>1 DEF PhaseOf, SC!Unsure
  <2>13. /\ seatBar[c] = "none" /\ seatBar' = [seatBar EXCEPT ![c] = "held"]
         /\ phaseBar[c] = PhaseOf(c) /\ outcomeBar[c] = ret[c].status
    BY <1>1, <2>7, <2>8, BarsOfCall
  <2>14. SC!Take(c)
    BY <2>10, <2>11, <2>12, <2>13 DEF SC!Take
  <2>15. QED
    BY <1>1, <2>14 DEF SC!ContractNext
<1>5. QED
  BY <1>3, <1>4 DEF ServerCreates

\* A served DELETE gives up the seat of the call that sent it, and no other.
LEMMA ServerDeletesContract ==
  ASSUME CallInv, NEW r \in net, ServerDeletes(r)
  PROVE  [SC!ContractNext]_SC!contractVars
<1> DEFINE c == r.call
           t == r.target
<1>1. TypeOK /\ c \in Calls /\ r.kind = "rollback"
  BY DEF CallInv, IInv, TypeOK, Request, ServerDeletes
<1>2. Good(c) /\ RowsKept
  BY <1>1 DEF CallInv
<1>3. /\ live' = live \ {t} /\ UNCHANGED <<rec, culled>>
      /\ UNCHANGED <<phaseBar, autoBar, answerBar, outcomeBar>>
  BY DeliverShowsNothing DEF ServerDeletes, RemoveRow
<1>4. /\ t \in Ids /\ rec[t] # NoRow /\ rec[t].by = c
      /\ arg[c].auto /\ know[c].verdict = "OVERAGE"
  BY <1>1 DEF CallInv, IInv, RollbackOwnRow
<1>5. RowsOf(c) = {t}
  <2>1. t \in RowsOf(c)
    BY <1>4 DEF RowsOf
  <2>2. \A i \in RowsOf(c) : i = t
    BY <1>2, <2>1 DEF Good, OneRow
  <2>3. QED
    BY <2>1, <2>2
<1>6. \A d \in Calls : RowsOf(d)' = RowsOf(d)
  BY <1>3 DEF RowsOf
<1>7. \A d \in Calls : d # c => SeatOf(d)' = SeatOf(d)
  <2> SUFFICES ASSUME NEW d \in Calls, d # c PROVE SeatOf(d)' = SeatOf(d)
    OBVIOUS
  <2>1. t \notin RowsOf(d)
    BY <1>4 DEF RowsOf
  <2>2. QED
    BY <1>3, <1>6, <2>1, SeatOfKept
<1>8. UNCHANGED installedBar
  <2>1. t \notin DOMAIN Installed
    BY <1>1, <1>2, <1>4, RowAssumption, NoCallAssumption DEF RowsKept
  <2>2. QED
    BY <1>3, <2>1 DEF installedBar
<1>9. CASE t \in live
  <2>1. t \notin culled
    BY <1>2, <1>9 DEF RowsKept
  <2>2. SeatOf(c) = "held"
    BY <1>1, <1>5, <1>9, SeatOfOne
  <2>3. SeatOf(c)' = "released"
    BY <1>3, <1>5, <1>6, <1>1, <2>1 DEF SeatOf
  <2>4. /\ seatBar[c] = "held" /\ seatBar' = [seatBar EXCEPT ![c] = "released"]
        /\ answerBar[c] = "OVERAGE"
    BY <1>1, <1>4, <1>7, <2>2, <2>3, BarsOfCall, SMTT(30)
  <2>5. autoBar[c]
    BY <1>1, <1>4 DEF autoBar
  <2>6. SC!GiveUp(c)
    BY <1>3, <1>8, <2>4, <2>5 DEF SC!GiveUp
  <2>7. QED
    BY <1>1, <2>6 DEF SC!ContractNext
<1>10. CASE t \notin live
  <2>1. UNCHANGED <<rec, live, culled>>
    BY <1>3, <1>10
  <2>2. QED
    BY <1>3, <2>1, SeatsStay DEF SC!contractVars
<1>11. QED
  BY <1>9, <1>10

\* Reads and refusals show the contract nothing.
LEMMA ServerReadsContract ==
  ASSUME NEW r \in net,
         ServerLists(r) \/ ServerValidates(r) \/ ServerRefuses(r)
  PROVE  UNCHANGED SC!contractVars
<1>1. UNCHANGED <<rec, live, culled>>
  BY DEF ServerLists, ServerValidates, ServerRefuses, serverVars
<1>2. \E o : Deliver(r, o)
  BY DEF ServerLists, ServerValidates, ServerRefuses
<1>3. UNCHANGED <<phaseBar, autoBar, answerBar, outcomeBar>>
  BY <1>2, DeliverShowsNothing
<1>4. QED
  BY <1>1, <1>3, SeatsStay DEF SC!contractVars

\* Someone else's removal of a machine takes the seat of the call that made
\* it; a machine from before stays counted as one that was not given up.
LEMMA CullContract ==
  ASSUME CallInv, NEW i \in Ids, Cull(i)
  PROVE  [SC!ContractNext]_SC!contractVars
<1>1. /\ i \in live /\ live' = live \ {i} /\ culled' = culled \cup {i}
      /\ UNCHANGED <<rec, arg, pc, know, ret>>
  BY DEF Cull, CullRow
<1>2. TypeOK /\ RowsKept /\ rec[i] # NoRow /\ i \notin culled
  BY <1>1 DEF CallInv, IInv, TypeOK, ServerTypeOK, RowsKept
<1>3. \A d \in Calls : PhaseOf(d)' = PhaseOf(d)
  BY <1>1 DEF PhaseOf
<1>4. UNCHANGED <<phaseBar, autoBar, answerBar, outcomeBar>>
  BY <1>1, <1>3, BarsKept
<1>5. UNCHANGED installedBar
  BY <1>1 DEF installedBar
<1>6. \A d \in Calls : RowsOf(d)' = RowsOf(d)
  BY <1>1 DEF RowsOf
<1>7. \A d \in Calls : rec[i].by # d => SeatOf(d)' = SeatOf(d)
  <2> SUFFICES ASSUME NEW d \in Calls, rec[i].by # d PROVE SeatOf(d)' = SeatOf(d)
    OBVIOUS
  <2>1. i \notin RowsOf(d)
    BY DEF RowsOf
  <2>2. QED
    BY <1>1, <1>6, <2>1, SeatOfKept
<1>8. CASE rec[i].by \in Calls
  <2>1. PICK c \in Calls : c = rec[i].by
    BY <1>8
  <2>2. RowsOf(c) = {i}
    <3>1. i \in RowsOf(c)
      BY <1>2, <2>1 DEF RowsOf
    <3>2. \A j \in RowsOf(c) : j = i
      BY <2>1, <3>1 DEF CallInv, Good, OneRow
    <3>3. QED
      BY <3>1, <3>2
  <2>3. SeatOf(c) = "held"
    BY <1>1, <2>2, SeatOfOne
  <2>4. SeatOf(c)' = "culled"
    BY <1>1, <1>6, <2>2 DEF SeatOf
  <2>5. seatBar[c] = "held" /\ seatBar' = [seatBar EXCEPT ![c] = "culled"]
    BY <1>7, <2>1, <2>3, <2>4, BarsOfCall
  <2>6. SC!LoseSeat(c)
    BY <1>4, <1>5, <2>5 DEF SC!LoseSeat
  <2>7. QED
    BY <2>6 DEF SC!ContractNext
<1>9. CASE rec[i].by \notin Calls
  <2>1. \A d \in Calls : SeatOf(d)' = SeatOf(d)
    BY <1>7, <1>9
  <2>2. QED
    BY <1>4, <1>5, <2>1, BarsKept DEF SC!contractVars
<1>10. QED
  BY <1>8, <1>9

\* Sending and repeating a request show the contract nothing.
LEMMA SendContract ==
  ASSUME CallInv, NEW c \in Calls, Send(c) \/ Retry(c)
  PROVE  UNCHANGED SC!contractVars
<1>1. UNCHANGED <<rec, live, culled, policy, arg, pc, know, ret>>
  BY DEF Send, Retry
<1>2. \A d \in Calls : PhaseOf(d)' = PhaseOf(d)
  BY <1>1 DEF PhaseOf
<1>3. QED
  BY <1>1, <1>2, BarsKept, SeatsStay DEF SC!contractVars

\* Before any call, no seat is taken by one.
LEMMA InitContract == Init => SC!ContractInit
<1> SUFFICES ASSUME Init PROVE SC!ContractInit
  OBVIOUS
<1>1. CallInv /\ TypeOK
  BY InitCallInv DEF CallInv, IInv
<1>2. \A c \in Calls : PhaseOf(c) = "idle" /\ know[c].verdict = "none"
                       /\ ret[c].status = "none"
  BY DEF Init, PhaseOf, Learnt, NoResult, Returned
<1>3. \A c \in Calls : pc[c] = "idle"
  BY DEF Init
<1>4. \A c \in Calls : RowsOf(c) = {}
  BY <1>1, <1>3 DEF CallInv, Good, OneRow
<1>5. \A c \in Calls : SeatOf(c) = "none"
  BY <1>4 DEF SeatOf
<1>6. autoBar \in [Calls -> BOOLEAN]
  BY <1>1 DEF autoBar, TypeOK, Args
<1>7. QED
  BY <1>2, <1>5, <1>6 DEF SC!ContractInit, phaseBar, answerBar, outcomeBar, seatBar

LEMMA NextContract ==
  CallInv /\ CallInv' /\ [Next]_vars => [SC!ContractNext]_SC!contractVars
<1> SUFFICES ASSUME CallInv, CallInv', [Next]_vars
             PROVE  [SC!ContractNext]_SC!contractVars
  OBVIOUS
<1>1. TypeOK'
  BY DEF CallInv, IInv
<1>2. ASSUME NEW c \in Calls, Begin(c) \/ Progress(c)
      PROVE  [SC!ContractNext]_SC!contractVars
  BY <1>2, BeginStarts, SendContract, CreateReturnsContract, LookupReturnsContract,
     ValidateReturnsContract, RollbackReturnsContract DEF Progress
<1>3. ASSUME NEW r \in net, ServerStep(r)
      PROVE  [SC!ContractNext]_SC!contractVars
  BY <1>1, <1>3, ServerCreatesContract, ServerReadsContract, ServerDeletesContract
     DEF ServerStep
<1>4. ASSUME NEW i \in Ids, Cull(i)
      PROVE  [SC!ContractNext]_SC!contractVars
  BY <1>4, CullContract
<1>5. CASE UNCHANGED vars
  <2>1. UNCHANGED <<rec, live, culled, arg, pc, know, ret>>
    BY <1>5 DEF vars
  <2>2. \A d \in Calls : PhaseOf(d)' = PhaseOf(d)
    BY <2>1 DEF PhaseOf
  <2>3. QED
    BY <2>1, <2>2, BarsKept, SeatsStay DEF SC!contractVars
<1>6. QED
  BY <1>2, <1>3, <1>4, <1>5 DEF Next

(***************************************************************************)
(* The activation calls of tamga_client_activate_machine and its           *)
(* idempotent variant implement SeatContract: a call takes at most one     *)
(* seat, gives one up only if it is its own, asked for and over the limit, *)
(* and never touches the machines from before.                             *)
(***************************************************************************)
THEOREM ContractIsImplemented == Spec => ImplementsContract
<1>1. Init => SC!ContractInit
  BY InitContract
<1>2. CallInv /\ CallInv' /\ [Next]_vars => [SC!ContractNext]_SC!contractVars
  BY NextContract
<1>3. QED
  BY <1>1, <1>2, CallInvariance, PTL DEF Spec, ImplementsContract, SC!Contract
=============================================================================
