-------------------------- MODULE EndpointsProofs --------------------------
(***************************************************************************)
(* Proofs about Endpoints: for every set of optional attributes and every  *)
(* failure of an allocation.  A discipline on programs is stated, which    *)
(* looks at their text alone; a program that keeps it cannot lose an       *)
(* object, free one twice, send less than it was asked to or report lack   *)
(* of memory as anything else; and every function keeps it.                *)
(***************************************************************************)
EXTENDS Endpoints, TLAPS

-----------------------------------------------------------------------------
(* What the text of a program says of a run that has come to statement i     *)
(* without a failure on the way.                                             *)

\* The condition of a statement, as far as the arguments decide it.
Holds(s, a) ==
  /\ s.if = "json" => a.json = "object"
  /\ s.if = "num" => a.num # "none"
  /\ s.if = "extra" => a.extra

\* What the caller's JSON leaves in given.
Given(a) == IF a.json = "object" THEN {"given"} ELSE {}

\* The variables a statement points at memory, or leaves NULL.
Makes(s, a) ==
  CASE s.op = "new" -> {s.x}
    [] s.op = "parse" -> Given(a)
    [] s.op = "orempty" -> {"given"}
    [] s.op = "write" -> {"text"}
    [] s.op = "detach" -> {"query"}
    [] s.op = "send" -> {"response"}
    [] OTHER -> {}

\* The variables that are not NULL once it has passed.
Checks(s, a) ==
  CASE s.op = "check" -> s.of
    [] s.op = "parse" -> Given(a)
    [] OTHER -> {}

Puts(s) == IF s.op = "put" THEN {s.x} ELSE {}
Frees(s) == IF s.op = "free" THEN s.frees ELSE {}

\* The attributes the caller gave.
Copied(a) == {<<"attributes", k>> : k \in a.fields}

\* The members it sets, and the parameters it appends.
Adds(s, a) ==
  CASE s.op \in {"put", "leaf", "late"} -> {<<s.to, s.x>>}
    [] s.op = "copy" -> Copied(a)
    [] OTHER -> {}
Appends(s) == IF s.op \in {"param", "append"} THEN {s.x} ELSE {}

\* What else has to be known later.
Marks(s) ==
  CASE s.op = "uuid" -> {s.x}
    [] s.op = "append" -> {"appended"}
    [] s.op = "param" -> {"appended", "late"}
    [] s.op \in {"late", "copy"} -> {"late"}
    [] s.op = "send" -> {"sent"}
    [] s.op \in {"search", "verify"} -> {"decided"}
    [] OTHER -> {}

\* A failure that is in the local status is not past the next check.
Settles(s) == IF s.op = "check" THEN {"late"} ELSE {}

\* A view: the variables pointed at memory so far, checked, handed to a tree,
\* freed; the members and parameters; the marks.
V(m, c, u, r, t, q, k) ==
  [made |-> m, checked |-> c, put |-> u, freed |-> r, tree |-> t, params |-> q, marks |-> k]

\* What is known after statement s, when v was known before.
After(v, s, a) ==
  IF ~Holds(s, a) THEN v
  ELSE [made |-> v.made \cup Makes(s, a), checked |-> v.checked \cup Checks(s, a),
        put |-> v.put \cup Puts(s), freed |-> v.freed \cup Frees(s),
        tree |-> v.tree \cup Adds(s, a), params |-> v.params \cup Appends(s),
        marks |-> (v.marks \ Settles(s)) \cup Marks(s)]

-----------------------------------------------------------------------------
(* The discipline.                                                           *)

Spent(v) == v.put \cup v.freed

\* Every allocation and every delayed failure so far has been checked.
Clean(v) ==
  /\ v.made \ {"response"} \subseteq v.checked /\ "late" \notin v.marks
  /\ "appended" \in v.marks => "query" \in v.made

Flat == {"create_component", "create_process"}
Lost(f) == IF f \in Flat THEN {"given"} ELSE {}

\* A return here that frees S leaves nothing, frees nothing that is gone or a
\* tree's; but for the metadata of the two flat creates.
Leaves(v, S, lost) ==
  /\ (v.made \ Spent(v)) \ S \subseteq lost
  /\ S \cap Spent(v) = {} /\ S \subseteq Names

\* The variable a check that fails has found NULL, when it looks at one.
Found(v, s) == IF "late" \notin v.marks /\ \E n \in s.of : s.of = {n} THEN s.of ELSE {}

Nothing(v) == v.made = {} /\ Spent(v) = {} /\ v.marks \subseteq {"id", "second"}

Allowed(f, a, v, s) ==
  CASE s.op \in {"need", "bounds", "parse"} -> Nothing(v) /\ s.code \notin {"OK", "none"}
    [] s.op = "uuid" -> Nothing(v) /\ s.code \notin {"OK", "none"} /\ s.x \in {"id", "second"}
    [] s.op = "new" ->
         s.x \in Names \ (v.made \cup v.put \cup v.freed \cup {"given", "text", "query", "response"})
    [] s.op = "orempty" ->
         "given" \notin Spent(v) /\ ("given" \in v.made => "given" \in v.checked)
    [] s.op = "check" ->
         /\ Leaves(v, s.frees, Lost(f) \cup Found(v, s)) /\ s.of \subseteq Names
         /\ f \in Flat => s.of \subseteq v.made \ {"query", "response"}
         /\ \/ s.code = Oom
            \/ /\ s.code = "NULL_ARGUMENT" /\ {"id", "second"} \subseteq v.marks
               /\ f \in {"entitlement_usage", "reset_entitlement_usage"}
    [] s.op = "put" ->
         /\ Leaves(v, s.frees \cup {s.x}, Lost(f)) /\ s.x \notin s.frees
         /\ s.x \in Names \ {"root", "text", "query", "response"} /\ s.code = Oom
         /\ s.to \in v.checked /\ s.to \in {"root"} \cup v.put
         /\ v.freed = {} /\ "text" \notin v.made
    [] s.op = "leaf" ->
         /\ Leaves(v, s.frees, Lost(f)) /\ s.code = Oom
         /\ s.to \in v.checked /\ v.freed = {} /\ "text" \notin v.made /\ s.x \in Keys
    [] s.op = "late" -> s.to \in Names /\ s.x \in Keys /\ "text" \notin v.made
    [] s.op = "copy" ->
         "text" \notin v.made /\ (a.json = "object" => "given" \in v.checked)
    [] s.op \in {"param", "append", "detach"} -> "query" \notin v.made \cup v.freed
    [] s.op = "write" ->
         /\ "root" \in v.checked \ Spent(v) /\ "text" \notin v.made \cup Spent(v) /\ "late" \notin v.marks
         /\ \A m \in v.tree : m[1] \in v.checked \ v.freed /\ m[1] \in {"root"} \cup v.put
    [] s.op = "free" -> s.frees \cap Spent(v) = {} /\ s.frees \subseteq Names
    [] s.op = "send" ->
         /\ Clean(v) /\ "response" \notin v.made \cup Spent(v)
         /\ (IF "text" \in v.made \ Spent(v) THEN v.tree ELSE {}) = Body(f, a)
         /\ (IF "query" \in v.made \ Spent(v) THEN v.params ELSE {}) = Query(f, a)
    [] s.op = "search" ->
         /\ Clean(v) /\ "sent" \in v.marks /\ f = "has_entitlement"
         /\ Leaves(v, {"response"}, {})
    [] s.op = "prefix" ->
         Clean(v) /\ "sent" \notin v.marks /\ f = "proof_verify" /\ Leaves(v, s.frees, {})
    [] s.op = "verify" ->
         /\ Clean(v) /\ "sent" \notin v.marks /\ f = "proof_verify"
         /\ Leaves(v, {"signature", "text"}, {})
    [] OTHER -> FALSE

Fits(f, a, v, s) ==
  /\ s.if \in {"always", "num", "extra", "json"}
  /\ s.if = "json" => /\ (a.json = "object" <=> "given" \in v.checked)
                      /\ (a.json = "object" <=> "given" \in v.made)
  /\ Holds(s, a) => /\ Allowed(f, a, v, s)
                    /\ v.marks \cap {"sent", "decided"} # {} => s.op \in {"free", "search"}
                    /\ "decided" \in v.marks => s.op = "free"

\* At the end of the program.
Ends(f, v) ==
  /\ Clean(v)
  /\ v.made \ Spent(v) \subseteq (IF f = "has_entitlement" THEN {} ELSE {"response"})
  /\ f \in {"proof_verify", "has_entitlement"} => "decided" \in v.marks

Start == V({}, {}, {}, {}, {}, {}, {})

\* W is what is known before each statement of f, and each fits.
Outline(f, a, W) ==
  LET p == Program(f)
  IN /\ W[1] = Start /\ Ends(f, W[Len(p) + 1])
     /\ \A i \in 1..Len(p) :
          Fits(f, a, W[i], p[i]) /\ W[i + 1] = After(W[i], p[i], a)

Disciplined(f, a) == Len(Program(f)) \in 1..49 /\ \E W : Outline(f, a, W)

-----------------------------------------------------------------------------
(* What holds of a call that runs.                                           *)

\* The objects are where the statements so far have put them, and freed when
\* those have freed them.
MemoryAgrees(v) ==
  /\ v.made \cup v.checked \subseteq Names
  /\ v.put \subseteq Names \ {"root", "text", "query", "response"}
  /\ var \in [Names -> {"null", "live", "gone"}]
  /\ home = [n \in Names |-> IF n \in v.put THEN "root" ELSE n]
  /\ \A n \in Names :
       /\ var[n] = "gone" => n \in v.freed \/ (n \in v.put /\ "root" \in v.freed)
       /\ n \in v.freed => var[n] # "live"
       /\ var[n] # "null" => n \in v.made
       /\ n \in v.checked => var[n] # "null"
  /\ ~twice

\* A failure so far shows in a variable, in status or in the buffer.
FailureShows(v) ==
  /\ {failed, sticky} \subseteq BOOLEAN /\ status \in {"OK", Oom}
  /\ \A n \in v.made \ {"response"} : var[n] = "null" => failed
  /\ failed => \/ \E n \in v.made \ {"response"} : var[n] = "null"
               \/ status # "OK" \/ sticky
  /\ sticky => failed /\ "appended" \in v.marks /\ var["query"] = "null"
  /\ status # "OK" => failed /\ "late" \in v.marks

\* Without one, everything asked for so far is in the request.
ContentAgrees(v) ==
  /\ tree \subseteq Names \X Keys /\ written \subseteq tree
  /\ status = "OK" => tree = v.tree
  /\ status = "OK" /\ ~sticky => params = v.params
  /\ "text" \in v.made => written = v.tree

AnswerAgrees(v) ==
  /\ wire.sent = ("sent" \in v.marks)
  /\ RequestWhole
  /\ out \in {"untouched", "null", "response"}
  /\ var["response"] = "live" => out = "response"
  /\ code \in {"OK", "API", "FAILED"} /\ verdict \in BOOLEAN
  /\ "sent" \notin v.marks => code = "OK"
  /\ verdict => "decided" \in v.marks
  /\ "decided" \in v.marks =>
       /\ code = "OK"
       /\ verdict = (IF call = "proof_verify" THEN arg.proof = "genuine"
                     ELSE arg.held = "listed")
  /\ "id" \in v.marks => arg.id
  /\ "second" \in v.marks => arg.second

Agrees(v) == MemoryAgrees(v) /\ FailureShows(v) /\ ContentAgrees(v) /\ AnswerAgrees(v)

Inside ==
  /\ call \in Calls /\ arg \in Asked(call) /\ ret = "none"
  /\ pc \in 1..(Len(Program(call)) + 1)
  /\ \E W : Outline(call, arg, W) /\ Agrees(W[pc])

Returned ==
  /\ call \in Calls /\ pc = 0 /\ ret # "none"
  /\ Ownership /\ RequestWhole /\ OutcomeSound

\* Nothing runs, or a call is inside its program, or it has returned and kept
\* its promises.
CallInv == Init \/ Inside \/ Returned

-----------------------------------------------------------------------------
(* A statement that fits leaves what is known true, or the call returns and  *)
(* has kept its promises.                                                    *)

\* The call is about to run a statement that fits what is known, and w will be
\* known after it.
Ready(v, w) ==
  /\ call \in Calls /\ arg \in Asked(call) /\ ret = "none"
  /\ Running /\ pc \in Nat
  /\ Fits(call, arg, v, Statement) /\ w = After(v, Statement, arg)
  /\ Agrees(v)

Moves(w) == Advance /\ Agrees(w)'

\* The condition of a statement is what the arguments make it.
LEMMA ReachedHolds ==
  ASSUME NEW v, NEW w, Ready(v, w)
  PROVE  /\ Reached => Holds(Statement, arg)
         /\ Holds(Statement, arg) /\ ~Reached =>
              Statement.op \in {"late", "copy", "param", "append"} /\ status # "OK"
<1>1. /\ Statement.if \in {"always", "num", "extra", "json"}
      /\ Statement.if = "json" => /\ arg.json = "object" <=> "given" \in v.checked
                                  /\ arg.json = "object" <=> "given" \in v.made
  BY DEF Ready, Fits
<1>2. "given" \in Names
  BY DEF Names
<1>3. /\ var["given"] # "null" => "given" \in v.made
      /\ "given" \in v.checked => var["given"] # "null"
  BY <1>2 DEF Ready, Agrees, MemoryAgrees
<1> QED BY <1>1, <1>3 DEF Reached, Holds

\* What is known when a statement runs.
LEMMA AtIs ==
  ASSUME NEW v, NEW w, Ready(v, w), NEW op, At(op)
  PROVE  /\ Statement.op = op /\ Holds(Statement, arg)
         /\ op \in {"late", "copy", "param", "append"} => status = "OK"
         /\ Allowed(call, arg, v, Statement)
         /\ v.marks \cap {"sent", "decided"} # {} => op \in {"free", "search"}
         /\ "decided" \in v.marks => op = "free"
         /\ w = [made |-> v.made \cup Makes(Statement, arg),
                 checked |-> v.checked \cup Checks(Statement, arg),
                 put |-> v.put \cup Puts(Statement), freed |-> v.freed \cup Frees(Statement),
                 tree |-> v.tree \cup Adds(Statement, arg),
                 params |-> v.params \cup Appends(Statement),
                 marks |-> (v.marks \ Settles(Statement)) \cup Marks(Statement)]
<1>1. Reached /\ Statement.op = op
  BY DEF At
<1>2. Holds(Statement, arg)
  BY <1>1, ReachedHolds
<1>3. op \in {"late", "copy", "param", "append"} => status = "OK"
  BY <1>1 DEF Reached
<1> QED BY <1>1, <1>2, <1>3 DEF Ready, Fits, After

\* No failure is past the checks.
LEMMA CleanIs ==
  ASSUME NEW v, Agrees(v), Clean(v)
  PROVE  ~failed /\ status = "OK" /\ ~sticky
<1>1. v.made \subseteq Names /\ (\A n \in Names : n \in v.checked => var[n] # "null")
  BY DEF Agrees, MemoryAgrees
<1>2. \A n \in v.made \ {"response"} : var[n] # "null"
  BY <1>1 DEF Clean
<1>3. status = "OK"
  BY DEF Agrees, FailureShows, Clean
<1>4. ~sticky
  BY <1>2 DEF Agrees, FailureShows, Clean
<1> QED BY <1>2, <1>3, <1>4 DEF Agrees, FailureShows

\* Before anything is made, nothing can have failed.
LEMMA NothingIs ==
  ASSUME NEW v, Agrees(v), Nothing(v)
  PROVE  /\ ~failed /\ ~wire.sent /\ verdict = FALSE
         /\ \A n \in Names : var[n] = "null"
<1>1. \A n \in Names : var[n] = "null"
  BY DEF Agrees, MemoryAgrees, Nothing
<1>2. ~failed
  BY DEF Agrees, FailureShows, Nothing
<1> QED BY <1>1, <1>2 DEF Agrees, AnswerAgrees, Nothing

\* What is freed as it should be is owned.
LEMMA FreesOwned ==
  ASSUME NEW v, Agrees(v), NEW n \in Names, n \notin Spent(v), var[n] # "null"
  PROVE  Owned(n)
BY DEF Agrees, MemoryAgrees, Owned, Spent

\* What is owned at a return that frees S is what it may lose.
LEMMA ReleaseLeaves ==
  ASSUME NEW v, Agrees(v), NEW S, NEW x, Release(S, x), NEW lost,
         Leaves(v, S \cup x, lost), S \cap x = {}
  PROVE  /\ ~twice' /\ home' = home /\ var' \in [Names -> {"null", "live", "gone"}]
         /\ \A n \in Names : n \in Leaked' => n \in lost /\ var[n] # "null"
<1>1. \A n \in S \cup x : n \in Names /\ (var[n] # "null" => Owned(n))
  BY FreesOwned DEF Leaves
<1>2. ~twice' /\ home' = home
  BY <1>1 DEF Release, Agrees, MemoryAgrees
<1>3. var' = [n \in Names |-> IF var[n] = "live" /\ home[n] \in S \cup x /\ Owned(home[n])
                              THEN "gone" ELSE var[n]]
  BY DEF Release
<1>4. var' \in [Names -> {"null", "live", "gone"}]
  BY <1>3 DEF Agrees, MemoryAgrees
<1>5. ASSUME NEW n \in Names, n \in Leaked' PROVE n \in lost /\ var[n] # "null"
  <2>1. var'[n] = "live" /\ home[n] = n
    BY <1>5, <1>2 DEF Leaked, Owned
  <2>2. var[n] = "live" /\ n \notin S \cup x
    BY <2>1, <1>3 DEF Owned
  <2>3. n \in v.made /\ n \notin v.freed
    BY <2>2 DEF Agrees, MemoryAgrees
  <2>4. n \notin v.put
    BY <2>1 DEF Agrees, MemoryAgrees
  <2> QED BY <2>2, <2>3, <2>4 DEF Leaves, Spent
<1> QED BY <1>2, <1>4, <1>5

LEMMA TypeKept ==
  ASSUME NEW v, Agrees(v), call \in Calls, UNCHANGED <<call, tree, request>>, pc' = 0,
         ~twice', failed' \in BOOLEAN, home' \in [Names -> Names],
         var' \in [Names -> {"null", "live", "gone"}]
  PROVE  TypeOK'
<1>1. UNCHANGED <<status, sticky, params, written, wire, code, verdict, out>>
  BY DEF request
<1>2. sticky' \in BOOLEAN /\ status' \in {"OK", Oom}
  BY <1>1 DEF Agrees, FailureShows
<1>3. verdict' \in BOOLEAN /\ out' \in {"untouched", "null", "response"}
  BY <1>1 DEF Agrees, AnswerAgrees
<1>4. wire'.sent \in BOOLEAN /\ code' \in {"OK", "API", "FAILED"}
  <2>1. /\ wire'.sent = ("sent" \in v.marks) /\ code' \in {"OK", "API", "FAILED"}
    BY <1>1 DEF Agrees, AnswerAgrees
  <2>2. ("sent" \in v.marks) \in BOOLEAN
    OBVIOUS
  <2> QED BY <2>1, <2>2, Zenon
<1>5. tree' \subseteq Names \X Keys /\ written' \subseteq tree'
  BY <1>1 DEF Agrees, ContentAgrees
<1>6. twice' = FALSE
  OBVIOUS
<1>7. {sticky', verdict', failed', twice'} \subseteq BOOLEAN
  BY <1>2, <1>3, <1>6
<1>8. call' \in Calls \cup {"none"} /\ pc' \in 0..50
  OBVIOUS
<1> QED BY <1>2, <1>3, <1>4, <1>5, <1>7, <1>8, Zenon DEF TypeOK

\* A call that returns early has freed what it should, and what it reports is so.
LEMMA EarlyReturn ==
  ASSUME NEW v, NEW w, Ready(v, w), NEW S, NEW x, NEW lost, Release(S, x),
         Leaves(v, S \cup x, lost), S \cap x = {}, pc' = 0, ret' # "none",
         UNCHANGED <<call, arg, tree, request>>, failed' \in BOOLEAN,
         \A n \in Names : n \in lost /\ var[n] # "null" =>
            n = "given" /\ call \in Flat /\ failed',
         OomNamed', VerdictSound'
  PROVE  Returned'
<1>1. Agrees(v) /\ call \in Calls
  BY DEF Ready
<1>2. /\ ~twice' /\ home' = home /\ var' \in [Names -> {"null", "live", "gone"}]
      /\ \A n \in Names : n \in Leaked' => n \in lost /\ var[n] # "null"
  BY <1>1, ReleaseLeaves
<1>3. home \in [Names -> Names]
  <2>1. "root" \in Names
    BY DEF Names
  <2> QED BY <1>1, <2>1 DEF Agrees, MemoryAgrees
<1>4. TypeOK'
  BY <1>1, <1>2, <1>3, TypeKept
<1>5. OnlyMetadataLeaks'
  BY <1>2 DEF OnlyMetadataLeaks, Leaked, Flat
<1>6. RequestWhole'
  BY <1>1 DEF Agrees, AnswerAgrees, RequestWhole, OomNamed, request
<1> QED BY <1>1, <1>2, <1>4, <1>5, <1>6 DEF Returned, Ownership, NoDoubleFree, OutcomeSound

\* A return with an error before the call has decided anything.
LEMMA ErrorReturn ==
  ASSUME NEW v, NEW w, Ready(v, w), "decided" \notin v.marks, ret' \notin {"OK", "none"},
         UNCHANGED <<call, arg, verdict>>
  PROVE  VerdictSound'
BY DEF VerdictSound, Ready, Agrees, AnswerAgrees

\* The next state of a call that goes on, part by part.
LEMMA MovesOn ==
  ASSUME NEW w, Advance, MemoryAgrees(w)', FailureShows(w)', ContentAgrees(w)', AnswerAgrees(w)'
  PROVE  Moves(w)
BY DEF Moves, Agrees

LEMMA SkipKeeps ==
  ASSUME NEW v, NEW w, Ready(v, w), Skip PROVE Moves(w)
<1>1. /\ Advance
      /\ UNCHANGED <<call, arg, var, home, twice, tree, status, sticky, params, written, wire,
                     code, verdict, out, failed>>
  BY DEF Skip, memory, request, Advance
<1>2. CASE ~Holds(Statement, arg)
  <2>1. w = v /\ Agrees(v)
    BY <1>2 DEF Ready, After
  <2>2. Agrees(v)'
    BY <1>1, <2>1 DEF Agrees, MemoryAgrees, FailureShows, ContentAgrees, AnswerAgrees, RequestWhole
  <2> QED BY <1>1, <2>1, <2>2 DEF Moves
<1>3. CASE Holds(Statement, arg)
  <2>1. /\ Statement.op \in {"late", "copy", "param", "append"} /\ status # "OK"
        /\ Fits(call, arg, v, Statement) /\ Agrees(v) /\ w = After(v, Statement, arg)
    BY <1>3, ReachedHolds DEF Skip, Ready
  <2>2. /\ w.made = v.made /\ w.checked = v.checked /\ w.put = v.put /\ w.freed = v.freed
        /\ w.marks = v.marks \cup Marks(Statement) /\ w.tree = v.tree \cup Adds(Statement, arg)
    BY <1>3, <2>1 DEF After, Makes, Checks, Puts, Frees, Settles
  <2>3. MemoryAgrees(w)'
    BY <1>1, <2>1, <2>2 DEF Agrees, MemoryAgrees
  <2>4. FailureShows(w)'
    BY <1>1, <2>1, <2>2 DEF Agrees, FailureShows
  <2>5. "text" \in v.made => w.tree = v.tree
    BY <1>3, <2>1, <2>2 DEF Fits, Allowed, Adds
  <2>6. ContentAgrees(w)'
    BY <1>1, <2>1, <2>2, <2>5 DEF Agrees, ContentAgrees
  <2>7. Marks(Statement) \subseteq {"appended", "late"}
    BY <2>1 DEF Marks
  <2>8. AnswerAgrees(w)'
    BY <1>1, <2>1, <2>2, <2>7 DEF Agrees, AnswerAgrees, RequestWhole
  <2> QED BY <1>1, <2>3, <2>4, <2>6, <2>8, MovesOn
<1> QED BY <1>2, <1>3

LEMMA GuardPasses ==
  ASSUME NEW v, NEW w, Ready(v, w), NEW op \in {"need", "bounds", "uuid"}, At(op),
         op = "uuid" => IF Statement.x = "id" THEN arg.id ELSE arg.second,
         Advance, UNCHANGED <<memory, tree, request, failed>>
  PROVE  Moves(w)
<1>1. /\ Statement.op = op /\ Allowed(call, arg, v, Statement)
      /\ w.made = v.made /\ w.checked = v.checked /\ w.put = v.put /\ w.freed = v.freed
      /\ w.tree = v.tree /\ w.params = v.params /\ w.marks = v.marks \cup Marks(Statement)
  <2>1. Statement.op = op
    BY AtIs
  <2>2. /\ Makes(Statement, arg) = {} /\ Checks(Statement, arg) = {} /\ Puts(Statement) = {}
        /\ Frees(Statement) = {} /\ Adds(Statement, arg) = {} /\ Appends(Statement) = {}
        /\ Settles(Statement) = {}
    BY <2>1 DEF Makes, Checks, Puts, Frees, Adds, Appends, Settles
  <2> QED BY <2>1, <2>2, AtIs
<1>2. /\ Agrees(v)
      /\ UNCHANGED <<call, arg, var, home, twice, tree, status, sticky, params, written, wire,
                     code, verdict, out, failed>>
  BY DEF Ready, memory, request, Advance
<1>3. Marks(Statement) = IF op = "uuid" THEN {Statement.x} ELSE {}
  BY <1>1 DEF Marks
<1>4. op = "uuid" => Statement.x \in {"id", "second"}
  BY <1>1 DEF Allowed
<1>5. MemoryAgrees(w)'
  BY <1>1, <1>2 DEF Agrees, MemoryAgrees
<1>6. FailureShows(w)'
  BY <1>1, <1>2, <1>3, <1>4 DEF Agrees, FailureShows
<1>7. ContentAgrees(w)'
  BY <1>1, <1>2 DEF Agrees, ContentAgrees
<1>8. AnswerAgrees(w)'
  BY <1>1, <1>2, <1>3, <1>4 DEF Agrees, AnswerAgrees, RequestWhole
<1> QED BY <1>5, <1>6, <1>7, <1>8, MovesOn

\* Nothing is there to be freed yet.
LEMMA NothingLeaves ==
  ASSUME NEW v, Nothing(v) PROVE Leaves(v, {} \cup {}, {})
BY DEF Leaves, Nothing, Spent

LEMMA GuardReturns ==
  ASSUME NEW v, NEW w, Ready(v, w), NEW op \in {"need", "bounds", "uuid", "parse"}, At(op),
         Return(Statement.code, {})
  PROVE  Returned'
<1>1. Nothing(v) /\ Statement.code \notin {"OK", "none"} /\ "decided" \notin v.marks
  BY AtIs DEF Allowed, Nothing
<1>2. /\ ~failed /\ ~wire.sent /\ verdict = FALSE
  BY <1>1, NothingIs DEF Ready
<1>3. /\ Release({}, {}) /\ ret' = Statement.code /\ pc' = 0
      /\ UNCHANGED <<call, arg, tree, request>> /\ failed' = FALSE
  BY <1>2 DEF Return, Ready, Agrees, FailureShows
<1>4. VerdictSound'
  BY <1>1, <1>3, ErrorReturn DEF request
<1>5. OomNamed'
  BY <1>3 DEF OomNamed
<1>6. Leaves(v, {} \cup {}, {})
  BY <1>1, NothingLeaves
<1> QED BY <1>1, <1>3, <1>4, <1>5, <1>6, EarlyReturn

LEMMA CheckPointersKeeps ==
  ASSUME NEW v, NEW w, Ready(v, w), CheckPointers PROVE Moves(w) \/ Returned'
BY GuardPasses, GuardReturns DEF CheckPointers, Guard

LEMMA CheckBoundsKeeps ==
  ASSUME NEW v, NEW w, Ready(v, w), CheckBounds PROVE Moves(w) \/ Returned'
BY GuardPasses, GuardReturns DEF CheckBounds, Guard

LEMMA RequireUuidKeeps ==
  ASSUME NEW v, NEW w, Ready(v, w), RequireUuid PROVE Moves(w) \/ Returned'
BY GuardPasses, GuardReturns DEF RequireUuid, Guard

\* An object that is allocated, or not.
LEMMA AllocateKeeps ==
  ASSUME NEW v, NEW w, Ready(v, w), NEW x \in Names \ {"text", "response"}, Allocate(x),
         x \notin v.made \cup Spent(v), x = "query" => ~sticky, "sent" \notin v.marks,
         w.made = v.made \cup {x}, w.checked = v.checked, w.put = v.put, w.freed = v.freed,
         w.tree = v.tree, w.params = v.params, w.marks = v.marks
  PROVE  Moves(w)
<1>1. /\ Agrees(v) /\ Advance
      /\ UNCHANGED <<call, arg, twice, tree, status, sticky, params, written, wire, code,
                     verdict, out>>
  BY DEF Ready, request, Advance, Allocate
<1>2. \/ var' = [var EXCEPT ![x] = "live"] /\ home' = [home EXCEPT ![x] = x] /\ failed' = failed
      \/ var' = var /\ home' = home /\ failed' = TRUE
  BY DEF Allocate, Point
<1>3. home' = home
  BY <1>1, <1>2 DEF Agrees, MemoryAgrees, Spent
<1>4. var' \in [Names -> {"null", "live", "gone"}]
  BY <1>1, <1>2 DEF Agrees, MemoryAgrees
<1>5. \A n \in Names : n # x => var'[n] = var[n]
  BY <1>1, <1>2 DEF Agrees, MemoryAgrees
<1>6. \/ var'[x] = "live" /\ failed' = failed
      \/ var'[x] = "null" /\ failed' = TRUE
  <2>1. var[x] = "null" /\ var \in [Names -> {"null", "live", "gone"}]
    BY <1>1 DEF Agrees, MemoryAgrees
  <2> QED BY <1>2, <2>1, Zenon
<1>7. MemoryAgrees(w)'
  <2>1. ASSUME NEW n \in Names
        PROVE  /\ var'[n] = "gone" => n \in w.freed \/ (n \in w.put /\ "root" \in w.freed)
               /\ n \in w.freed => var'[n] # "live"
               /\ var'[n] # "null" => n \in w.made
               /\ n \in w.checked => var'[n] # "null"
    BY <1>1, <1>5, <1>6 DEF Agrees, MemoryAgrees, Spent
  <2> QED BY <1>1, <1>3, <1>4, <2>1 DEF Agrees, MemoryAgrees
<1>8. FailureShows(w)'
  <2>1. v.made \subseteq Names /\ "query" \in Names
    BY <1>1 DEF Agrees, MemoryAgrees, Names
  <2>2. \A n \in w.made \ {"response"} : var'[n] = "null" => failed'
    BY <1>1, <1>5, <1>6, <2>1 DEF Agrees, FailureShows
  <2>3. failed' => \/ \E n \in w.made \ {"response"} : var'[n] = "null"
                   \/ status' # "OK" \/ sticky'
    <3>1. CASE var'[x] = "null"
      BY <3>1
    <3>2. CASE failed' = failed
      BY <1>1, <1>5, <2>1, <3>2 DEF Agrees, FailureShows
    <3> QED BY <1>6, <3>1, <3>2
  <2>4. {failed', sticky'} \subseteq BOOLEAN /\ status' \in {"OK", Oom} /\ (failed => failed')
    BY <1>1, <1>6 DEF Agrees, FailureShows
  <2>5. sticky' => failed' /\ "appended" \in w.marks /\ var'["query"] = "null"
    BY <1>1, <1>5, <2>1, <2>4 DEF Agrees, FailureShows
  <2>6. status' # "OK" => failed' /\ "late" \in w.marks
    BY <1>1, <2>4 DEF Agrees, FailureShows
  <2> QED BY <2>2, <2>3, <2>4, <2>5, <2>6 DEF FailureShows
<1>9. ContentAgrees(w)'
  BY <1>1 DEF Agrees, ContentAgrees
<1>10. AnswerAgrees(w)'
  <2>1. var'["response"] = var["response"]
    BY <1>5 DEF Names
  <2> QED BY <1>1, <2>1 DEF Agrees, AnswerAgrees, RequestWhole
<1> QED BY <1>1, <1>7, <1>8, <1>9, <1>10, MovesOn

\* What a statement leaves alone.
LEMMA Effects ==
  ASSUME NEW v, NEW w, Ready(v, w), NEW op, At(op)
  PROVE  /\ op \notin {"new", "parse", "orempty", "write", "detach", "send"} => w.made = v.made
         /\ op \notin {"check", "parse"} => w.checked = v.checked
         /\ op # "put" => w.put = v.put
         /\ op # "free" => w.freed = v.freed
         /\ op \notin {"put", "leaf", "late", "copy"} => w.tree = v.tree
         /\ op \notin {"param", "append"} => w.params = v.params
         /\ op \notin {"check", "uuid", "append", "param", "late", "copy", "send", "search", "verify"}
              => w.marks = v.marks
<1>1. Statement.op = op
  BY AtIs
<1>2. /\ op \notin {"new", "parse", "orempty", "write", "detach", "send"} => Makes(Statement, arg) = {}
      /\ op \notin {"check", "parse"} => Checks(Statement, arg) = {}
      /\ op # "put" => Puts(Statement) = {}
      /\ op # "free" => Frees(Statement) = {}
      /\ op \notin {"put", "leaf", "late", "copy"} => Adds(Statement, arg) = {}
      /\ op \notin {"param", "append"} => Appends(Statement) = {}
  BY <1>1 DEF Makes, Checks, Puts, Frees, Adds, Appends
<1>3. op # "check" => Settles(Statement) = {}
  BY <1>1 DEF Settles
<1>4. op \notin {"uuid", "append", "param", "late", "copy", "send", "search", "verify"} => Marks(Statement) = {}
  BY <1>1 DEF Marks
<1>5. /\ w.made = v.made \cup Makes(Statement, arg)
      /\ w.checked = v.checked \cup Checks(Statement, arg)
      /\ w.put = v.put \cup Puts(Statement) /\ w.freed = v.freed \cup Frees(Statement)
      /\ w.tree = v.tree \cup Adds(Statement, arg)
      /\ w.params = v.params \cup Appends(Statement)
      /\ w.marks = (v.marks \ Settles(Statement)) \cup Marks(Statement)
  BY AtIs
<1> QED BY <1>2, <1>3, <1>4, <1>5

\* What it adds.
LEMMA Gains ==
  ASSUME NEW v, NEW w, Ready(v, w), NEW op, At(op)
  PROVE  /\ w.made = v.made \cup Makes(Statement, arg)
         /\ w.checked = v.checked \cup Checks(Statement, arg)
         /\ w.put = v.put \cup Puts(Statement) /\ w.freed = v.freed \cup Frees(Statement)
         /\ w.tree = v.tree \cup Adds(Statement, arg)
         /\ w.params = v.params \cup Appends(Statement)
         /\ w.marks = (v.marks \ Settles(Statement)) \cup Marks(Statement)
BY AtIs

LEMMA NewObjectKeeps ==
  ASSUME NEW v, NEW w, Ready(v, w), NewObject PROVE Moves(w)
<1>1. At("new") /\ Allocate(Statement.x)
  BY DEF NewObject
<1>2. /\ Statement.op = "new" /\ Allowed(call, arg, v, Statement) /\ "sent" \notin v.marks
  BY <1>1, AtIs
<1>3. Makes(Statement, arg) = {Statement.x}
  BY <1>2 DEF Makes
<1>4. /\ w.made = v.made \cup {Statement.x} /\ w.checked = v.checked /\ w.put = v.put
      /\ w.freed = v.freed /\ w.tree = v.tree /\ w.params = v.params /\ w.marks = v.marks
  BY <1>1, <1>3, Effects, Gains
<1>5. /\ Statement.x \in Names \ {"text", "response"} /\ Statement.x # "query"
      /\ Statement.x \notin v.made \cup Spent(v)
  BY <1>2 DEF Allowed, Spent
<1>6. PICK x : x = Statement.x
  OBVIOUS
<1>7. /\ x \in Names \ {"text", "response"} /\ x # "query" /\ x \notin v.made \cup Spent(v)
      /\ Allocate(x) /\ w.made = v.made \cup {x}
  BY <1>1, <1>4, <1>5, <1>6 DEF Allocate, Point
<1> QED BY <1>2, <1>4, <1>7, AllocateKeeps

\* Nothing happens but that the next statement is reached.
LEMMA PassesBy ==
  ASSUME NEW v, NEW w, Agrees(v), Advance, UNCHANGED <<memory, tree, request, failed>>,
         w.made = v.made, w.checked \subseteq Names,
         \A n \in w.checked : n \in v.checked \/ var[n] # "null",
         w.put = v.put, w.freed = v.freed, w.tree = v.tree, w.params = v.params,
         w.marks = v.marks \/ (w.marks = v.marks \ {"late"} /\ status = "OK")
  PROVE  Moves(w)
<1>1. UNCHANGED <<call, arg, var, home, twice, tree, status, sticky, params, written, wire,
                  code, verdict, out, failed>>
  BY DEF memory, request, Advance
<1>2. MemoryAgrees(w)'
  BY <1>1 DEF Agrees, MemoryAgrees
<1>3. FailureShows(w)'
  BY <1>1 DEF Agrees, FailureShows
<1>4. ContentAgrees(w)'
  BY <1>1 DEF Agrees, ContentAgrees
<1>5. AnswerAgrees(w)'
  BY <1>1 DEF Agrees, AnswerAgrees, RequestWhole
<1> QED BY <1>2, <1>3, <1>4, <1>5, MovesOn

LEMMA DefaultEmptyKeeps ==
  ASSUME NEW v, NEW w, Ready(v, w), DefaultEmpty PROVE Moves(w)
<1>1. At("orempty") /\ Agrees(v)
  BY DEF DefaultEmpty, Ready
<1>2. /\ Statement.op = "orempty" /\ Allowed(call, arg, v, Statement) /\ "sent" \notin v.marks
  BY <1>1, AtIs
<1>3. Makes(Statement, arg) = {"given"}
  BY <1>2 DEF Makes
<1>4. /\ w.made = v.made \cup {"given"} /\ w.checked = v.checked /\ w.put = v.put
      /\ w.freed = v.freed /\ w.tree = v.tree /\ w.params = v.params /\ w.marks = v.marks
  BY <1>1, <1>3, Effects, Gains
<1>5. /\ "given" \in Names \ {"text", "response"} /\ "given" # "query" /\ "given" \notin Spent(v)
      /\ "given" \in v.made => "given" \in v.checked
  BY <1>2 DEF Allowed, Names
<1>6. CASE var["given"] = "null" /\ Allocate("given")
  <2>1. "given" \notin v.made
    BY <1>1, <1>5, <1>6 DEF Agrees, MemoryAgrees
  <2> QED BY <1>2, <1>4, <1>5, <1>6, <2>1, AllocateKeeps
<1>7. CASE var["given"] # "null" /\ Advance /\ UNCHANGED <<memory, tree, request, failed>>
  <2>1. "given" \in v.made /\ v.checked \subseteq Names
    BY <1>1, <1>5, <1>7 DEF Agrees, MemoryAgrees
  <2>2. w.made = v.made
    BY <1>4, <2>1
  <2> QED BY <1>1, <1>4, <1>7, <2>1, <2>2, PassesBy
<1> QED BY <1>6, <1>7 DEF DefaultEmpty

LEMMA DetachQueryKeeps ==
  ASSUME NEW v, NEW w, Ready(v, w), DetachQuery PROVE Moves(w)
<1>1. At("detach") /\ Agrees(v)
  BY DEF DetachQuery, Ready
<1>2. /\ Statement.op = "detach" /\ Allowed(call, arg, v, Statement) /\ "sent" \notin v.marks
  BY <1>1, AtIs
<1>3. Makes(Statement, arg) = {"query"}
  BY <1>2 DEF Makes
<1>4. /\ w.made = v.made \cup {"query"} /\ w.checked = v.checked /\ w.put = v.put
      /\ w.freed = v.freed /\ w.tree = v.tree /\ w.params = v.params /\ w.marks = v.marks
  BY <1>1, <1>3, Effects, Gains
<1>5. "query" \in Names \ {"text", "response"} /\ "query" \notin v.made \cup Spent(v)
  BY <1>1, <1>2 DEF Allowed, Names, Agrees, MemoryAgrees, Spent
<1>6. CASE ~sticky /\ Allocate("query")
  BY <1>2, <1>4, <1>5, <1>6, AllocateKeeps
<1>7. CASE sticky /\ Advance /\ UNCHANGED <<memory, tree, request, failed>>
  <2>1. UNCHANGED <<call, arg, var, home, twice, tree, status, sticky, params, written, wire,
                    code, verdict, out, failed>>
    BY <1>7 DEF memory, request, Advance
  <2>2. var["query"] = "null" /\ failed
    BY <1>1, <1>7 DEF Agrees, FailureShows
  <2>3. MemoryAgrees(w)'
    BY <1>1, <1>4, <1>5, <2>1 DEF Agrees, MemoryAgrees
  <2>4. FailureShows(w)'
    BY <1>1, <1>4, <2>1, <2>2 DEF Agrees, FailureShows
  <2>5. ContentAgrees(w)'
    BY <1>1, <1>4, <2>1 DEF Agrees, ContentAgrees
  <2>6. AnswerAgrees(w)'
    BY <1>1, <1>4, <2>1 DEF Agrees, AnswerAgrees, RequestWhole
  <2> QED BY <1>7, <2>3, <2>4, <2>5, <2>6, MovesOn
<1> QED BY <1>6, <1>7 DEF DetachQuery

LEMMA ParseOptionalKeeps ==
  ASSUME NEW v, NEW w, Ready(v, w), ParseOptional PROVE Moves(w) \/ Returned'
<1>1. At("parse") /\ Agrees(v)
  BY DEF ParseOptional, Ready
<1>2. /\ Statement.op = "parse" /\ Allowed(call, arg, v, Statement)
      /\ v.marks \cap {"sent", "decided"} = {}
  BY <1>1, AtIs
<1>3. Nothing(v)
  BY <1>2 DEF Allowed
<1>4. Makes(Statement, arg) = Given(arg) /\ Checks(Statement, arg) = Given(arg)
  BY <1>2 DEF Makes, Checks
<1>5. /\ w.made = v.made \cup Given(arg) /\ w.checked = v.checked \cup Given(arg)
      /\ w.put = v.put /\ w.freed = v.freed /\ w.tree = v.tree /\ w.params = v.params
      /\ w.marks = v.marks
  BY <1>1, <1>4, Effects, Gains
<1>6. CASE arg.json = "absent" /\ Advance /\ UNCHANGED <<memory, tree, request, failed>>
  <2>1. Given(arg) = {} /\ v.checked \subseteq Names
    BY <1>1, <1>6 DEF Given, Agrees, MemoryAgrees
  <2>2. w.made = v.made /\ w.checked = v.checked
    BY <1>5, <2>1
  <2> QED BY <1>1, <1>5, <1>6, <2>1, <2>2, PassesBy
<1>7. CASE /\ arg.json = "object" /\ Point("given")
           /\ Advance /\ UNCHANGED <<twice, tree, request, failed>>
  <2>1. Given(arg) = {"given"} /\ "given" \in Names /\ "query" \in Names /\ "response" \in Names
    BY <1>7 DEF Given, Names
  <2>2. UNCHANGED <<call, arg, twice, tree, status, sticky, params, written, wire,
                    code, verdict, out, failed>>
    BY <1>7 DEF request, Advance
  <2>3. home' = home /\ v.freed = {} /\ v.put = {}
    BY <1>1, <1>3, <1>7, <2>1 DEF Point, Agrees, MemoryAgrees, Nothing, Spent
  <2>4. /\ var' \in [Names -> {"null", "live", "gone"}] /\ var'["given"] = "live"
        /\ \A n \in Names : n # "given" => var'[n] = var[n]
    BY <1>1, <1>7, <2>1 DEF Point, Agrees, MemoryAgrees
  <2>5. MemoryAgrees(w)'
    BY <1>1, <1>5, <2>1, <2>2, <2>3, <2>4 DEF Agrees, MemoryAgrees
  <2>6. ~failed /\ ~sticky /\ status = "OK" /\ v.made = {}
    BY <1>1, <1>3 DEF Agrees, FailureShows, Nothing
  <2>7. FailureShows(w)'
    BY <1>1, <1>5, <2>1, <2>2, <2>4, <2>6 DEF Agrees, FailureShows
  <2>8. ContentAgrees(w)'
    BY <1>1, <1>5, <2>1, <2>2 DEF Agrees, ContentAgrees
  <2>9. AnswerAgrees(w)'
    BY <1>1, <1>5, <2>1, <2>2, <2>4 DEF Agrees, AnswerAgrees, RequestWhole
  <2> QED BY <1>7, <2>5, <2>7, <2>8, <2>9, MovesOn
<1>8. CASE arg.json \in {"other", "malformed"} /\ Return(Statement.code, {})
  BY <1>1, <1>8, GuardReturns
<1>9. CASE /\ arg.json # "absent" /\ failed' = TRUE /\ ret' = Oom /\ pc' = 0
           /\ UNCHANGED <<call, arg, memory, tree, request>>
  <2>1. ~wire.sent /\ \A n \in Names : var[n] = "null"
    BY <1>1, <1>3, NothingIs
  <2>2. Release({}, {})
    <3>1. UNCHANGED <<var, home, twice>>
      BY <1>9 DEF memory
    <3>2. var = [n \in Names |-> var[n]] /\ twice = FALSE
      BY <1>1 DEF Agrees, MemoryAgrees
    <3> QED BY <2>1, <3>1, <3>2 DEF Release
  <2>3. VerdictSound'
    BY <1>2, <1>9, ErrorReturn DEF request, Oom
  <2>4. OomNamed'
    BY <1>9, <2>1 DEF OomNamed, request
  <2>5. Leaves(v, {} \cup {}, {})
    BY <1>3, NothingLeaves
  <2>6. ret' # "none" /\ failed' \in BOOLEAN
    BY <1>9 DEF Oom
  <2> QED BY <1>9, <2>2, <2>3, <2>4, <2>5, <2>6, EarlyReturn
<1> QED BY <1>6, <1>7, <1>8, <1>9 DEF ParseOptional

LEMMA CheckNullKeeps ==
  ASSUME NEW v, NEW w, Ready(v, w), CheckNull PROVE Moves(w) \/ Returned'
<1> DEFINE bad == status # "OK" \/ \E n \in Statement.of : var[n] = "null"
<1>1. At("check") /\ Agrees(v)
  BY DEF CheckNull, Ready
<1>2. /\ Statement.op = "check" /\ Allowed(call, arg, v, Statement)
      /\ v.marks \cap {"sent", "decided"} = {}
  BY <1>1, AtIs
<1>3. Checks(Statement, arg) = Statement.of /\ Settles(Statement) = {"late"} /\ Marks(Statement) = {}
  BY <1>2 DEF Checks, Settles, Marks
<1>4. /\ w.made = v.made /\ w.checked = v.checked \cup Statement.of
      /\ w.put = v.put /\ w.freed = v.freed /\ w.tree = v.tree /\ w.params = v.params
      /\ w.marks = v.marks \ {"late"}
  BY <1>1, <1>3, Effects, Gains
<1>5. /\ Leaves(v, Statement.frees, Lost(call) \cup Found(v, Statement)) /\ Statement.of \subseteq Names
      /\ call \in Flat => Statement.of \subseteq v.made \ {"query", "response"}
      /\ \/ Statement.code = Oom
         \/ /\ Statement.code = "NULL_ARGUMENT" /\ {"id", "second"} \subseteq v.marks
            /\ call \in {"entitlement_usage", "reset_entitlement_usage"}
  BY <1>2 DEF Allowed
<1>6. CASE ~bad /\ Advance /\ UNCHANGED <<memory, tree, request, failed>>
  <2>1. v.checked \subseteq Names
    BY <1>1 DEF Agrees, MemoryAgrees
  <2>2. /\ w.checked \subseteq Names
        /\ \A n \in w.checked : n \in v.checked \/ var[n] # "null"
    BY <1>4, <1>5, <1>6, <2>1
  <2>3. status = "OK"
    BY <1>6
  <2> QED BY <1>1, <1>4, <1>6, <2>2, <2>3, PassesBy
<1>7. CASE bad /\ Return(Statement.code, Statement.frees)
  <2>1. PICK fr, lost : fr = Statement.frees /\ lost = Lost(call) \cup Found(v, Statement)
    OBVIOUS
  <2>2. /\ Release(fr, {}) /\ ret' = Statement.code /\ pc' = 0
        /\ UNCHANGED <<call, arg, tree, request, failed>>
    BY <1>7, <2>1 DEF Return, Release
  <2>3. Leaves(v, fr \cup {}, lost) /\ fr \cap {} = {}
    <3>1. fr \cup {} = fr
      OBVIOUS
    <3> QED BY <1>5, <2>1, <3>1
  <2>4. ret' \notin {"OK", "none"}
    BY <1>5, <2>2 DEF Oom
  <2>5. failed' \in BOOLEAN
    BY <1>1, <2>2 DEF Agrees, FailureShows
  <2>6. VerdictSound'
    BY <1>2, <2>2, <2>4, ErrorReturn DEF request
  <2>7. OomNamed'
    <3>1. ~wire.sent /\ ("id" \in v.marks => arg.id) /\ ("second" \in v.marks => arg.second)
      BY <1>1, <1>2 DEF Agrees, AnswerAgrees
    <3> QED BY <1>5, <2>2, <3>1 DEF OomNamed, request
  <2>8. ASSUME NEW n \in Names, n \in lost, var[n] # "null"
        PROVE  n = "given" /\ call \in Flat /\ failed'
    <3>1. n \notin Found(v, Statement)
      <4>1. SUFFICES ASSUME n \in Found(v, Statement) PROVE FALSE
        OBVIOUS
      <4>2. "late" \notin v.marks /\ Statement.of = {n}
        BY <4>1 DEF Found
      <4>3. status = "OK"
        BY <1>1, <4>2 DEF Agrees, FailureShows
      <4> QED BY <1>7, <2>8, <4>2, <4>3
    <3>2. n = "given" /\ call \in Flat
      BY <2>1, <2>8, <3>1 DEF Lost
    <3>3. status # "OK" => failed
      BY <1>1 DEF Agrees, FailureShows
    <3>4. (\E m \in Statement.of : var[m] = "null") => failed
      BY <1>1, <1>5, <3>2 DEF Agrees, FailureShows
    <3> QED BY <1>7, <2>2, <3>2, <3>3, <3>4
  <2> QED BY <2>2, <2>3, <2>4, <2>5, <2>6, <2>7, <2>8, EarlyReturn
<1> QED BY <1>6, <1>7 DEF CheckNull

\* The return of a setter that could not allocate.
LEMMA SetterReturns ==
  ASSUME NEW v, NEW w, Ready(v, w), v.marks \cap {"sent", "decided"} = {},
         NEW S, NEW x, Release(S, x), Leaves(v, S \cup x, Lost(call)), S \cap x = {},
         failed' = TRUE, ret' = Oom, pc' = 0, UNCHANGED <<call, arg, tree, request>>
  PROVE  Returned'
<1>1. ret' \notin {"OK", "none"} /\ failed' \in BOOLEAN
  BY DEF Oom
<1>2. VerdictSound'
  BY <1>1, ErrorReturn DEF request
<1>3. ~wire.sent
  BY DEF Ready, Agrees, AnswerAgrees
<1>4. OomNamed'
  BY <1>3 DEF OomNamed, request
<1>5. PICK lost : lost = Lost(call)
  OBVIOUS
<1>6. \A n \in Names : n \in lost /\ var[n] # "null" => n = "given" /\ call \in Flat /\ failed'
  BY <1>5 DEF Lost
<1>7. Leaves(v, S \cup x, lost)
  BY <1>5
<1> QED BY <1>1, <1>2, <1>4, <1>6, <1>7, EarlyReturn

LEMMA SetMemberKeeps ==
  ASSUME NEW v, NEW w, Ready(v, w), SetMember PROVE Moves(w) \/ Returned'
<1>0. PICK x, to, fr : x = Statement.x /\ to = Statement.to /\ fr = Statement.frees
  OBVIOUS
<1>1. At("put") /\ Agrees(v)
  BY DEF SetMember, Ready
<1>2. /\ Statement.op = "put" /\ Allowed(call, arg, v, Statement)
      /\ v.marks \cap {"sent", "decided"} = {}
  BY <1>1, AtIs
<1>3. Puts(Statement) = {x} /\ Adds(Statement, arg) = {<<to, x>>}
  BY <1>0, <1>2 DEF Puts, Adds
<1>4. /\ w.made = v.made /\ w.checked = v.checked /\ w.put = v.put \cup {x}
      /\ w.freed = v.freed /\ w.tree = v.tree \cup {<<to, x>>} /\ w.params = v.params
      /\ w.marks = v.marks
  BY <1>1, <1>3, Effects, Gains
<1>5. /\ Leaves(v, fr \cup {x}, Lost(call)) /\ x \notin fr
      /\ x \in Names \ {"root", "text", "query", "response"} /\ Statement.code = Oom
      /\ to \in v.checked /\ to \in {"root"} \cup v.put
      /\ v.freed = {} /\ "text" \notin v.made
  BY <1>0, <1>2 DEF Allowed
<1>6. CASE /\ var[x] # "null"
           /\ home' = [n \in Names |-> IF home[n] = x THEN home[to] ELSE home[n]]
           /\ twice' = (twice \/ ~Owned(x) \/ var[to] # "live")
           /\ tree' = tree \cup {<<to, x>>}
           /\ Advance /\ UNCHANGED <<var, request, failed>>
  <2>1. UNCHANGED <<call, arg, var, status, sticky, params, written, wire,
                    code, verdict, out, failed>>
    BY <1>6 DEF request, Advance
  <2>2. x \notin Spent(v) /\ to \in Names /\ x \in Keys /\ "root" \in Names
    BY <1>1, <1>5 DEF Leaves, Agrees, MemoryAgrees, Keys, Names
  <2>3. Owned(x)
    BY <1>1, <1>5, <1>6, <2>2, FreesOwned
  <2>4. var[to] = "live"
    BY <1>1, <1>5, <2>2 DEF Agrees, MemoryAgrees
  <2>5. home[to] = "root"
    BY <1>1, <1>5, <2>2 DEF Agrees, MemoryAgrees
  <2>6. home' = [n \in Names |-> IF n \in w.put THEN "root" ELSE n]
    <3>1. \A n \in Names : home[n] = x <=> n = x
      BY <1>1, <1>5, <2>2 DEF Agrees, MemoryAgrees, Spent
    <3> QED BY <1>1, <1>4, <1>6, <2>5, <3>1 DEF Agrees, MemoryAgrees
  <2>7. MemoryAgrees(w)'
    BY <1>1, <1>4, <1>5, <1>6, <2>1, <2>3, <2>4, <2>6 DEF Agrees, MemoryAgrees
  <2>8. FailureShows(w)'
    BY <1>1, <1>4, <2>1 DEF Agrees, FailureShows
  <2>9. ContentAgrees(w)'
    BY <1>1, <1>4, <1>5, <1>6, <2>1, <2>2 DEF Agrees, ContentAgrees
  <2>10. AnswerAgrees(w)'
    BY <1>1, <1>4, <2>1 DEF Agrees, AnswerAgrees, RequestWhole
  <2> QED BY <1>6, <2>7, <2>8, <2>9, <2>10, MovesOn
<1>7. CASE /\ Release(Statement.frees, {Statement.x})
           /\ failed' = TRUE /\ ret' = Statement.code /\ pc' = 0
           /\ UNCHANGED <<call, arg, tree, request>>
  <2>1. Release(fr, {x}) /\ ret' = Oom
    BY <1>0, <1>5, <1>7 DEF Release
  <2>2. fr \cap {x} = {}
    BY <1>5
  <2> QED BY <1>2, <1>5, <1>7, <2>1, <2>2, SetterReturns
<1> QED BY <1>0, <1>6, <1>7 DEF SetMember

LEMMA SetLeafKeeps ==
  ASSUME NEW v, NEW w, Ready(v, w), SetLeaf PROVE Moves(w) \/ Returned'
<1>0. PICK x, to, fr : x = Statement.x /\ to = Statement.to /\ fr = Statement.frees
  OBVIOUS
<1>1. At("leaf") /\ Agrees(v)
  BY DEF SetLeaf, Ready
<1>2. /\ Statement.op = "leaf" /\ Allowed(call, arg, v, Statement)
      /\ v.marks \cap {"sent", "decided"} = {}
  BY <1>1, AtIs
<1>3. Adds(Statement, arg) = {<<to, x>>}
  BY <1>0, <1>2 DEF Adds
<1>4. /\ w.made = v.made /\ w.checked = v.checked /\ w.put = v.put
      /\ w.freed = v.freed /\ w.tree = v.tree \cup {<<to, x>>} /\ w.params = v.params
      /\ w.marks = v.marks
  BY <1>1, <1>3, Effects, Gains
<1>5. /\ Leaves(v, fr, Lost(call)) /\ Statement.code = Oom
      /\ to \in v.checked /\ v.freed = {} /\ "text" \notin v.made /\ x \in Keys
  BY <1>0, <1>2 DEF Allowed
<1>6. CASE /\ tree' = tree \cup {<<to, x>>}
           /\ twice' = (twice \/ var[to] # "live")
           /\ Advance /\ UNCHANGED <<var, home, request, failed>>
  <2>1. UNCHANGED <<call, arg, var, home, status, sticky, params, written, wire,
                    code, verdict, out, failed>>
    BY <1>6 DEF request, Advance
  <2>2. to \in Names
    BY <1>1, <1>5 DEF Agrees, MemoryAgrees
  <2>3. var[to] = "live"
    BY <1>1, <1>5, <2>2 DEF Agrees, MemoryAgrees
  <2>4. MemoryAgrees(w)'
    BY <1>1, <1>4, <1>6, <2>1, <2>3 DEF Agrees, MemoryAgrees
  <2>5. FailureShows(w)'
    BY <1>1, <1>4, <2>1 DEF Agrees, FailureShows
  <2>6. ContentAgrees(w)'
    BY <1>1, <1>4, <1>5, <1>6, <2>1, <2>2 DEF Agrees, ContentAgrees
  <2>7. AnswerAgrees(w)'
    BY <1>1, <1>4, <2>1 DEF Agrees, AnswerAgrees, RequestWhole
  <2> QED BY <1>6, <2>4, <2>5, <2>6, <2>7, MovesOn
<1>7. CASE /\ Release(Statement.frees, {})
           /\ failed' = TRUE /\ ret' = Statement.code /\ pc' = 0
           /\ UNCHANGED <<call, arg, tree, request>>
  <2>1. Release(fr, {}) /\ ret' = Oom
    BY <1>0, <1>5, <1>7 DEF Release
  <2>2. fr \cap {} = {} /\ fr \cup {} = fr
    OBVIOUS
  <2>3. Leaves(v, fr \cup {}, Lost(call))
    BY <1>5, <2>2
  <2> QED BY <1>2, <1>7, <2>1, <2>2, <2>3, SetterReturns
<1> QED BY <1>0, <1>6, <1>7 DEF SetLeaf

\* A failure that only status or the buffer knows of.
LEMMA ShowsLater ==
  ASSUME NEW v, NEW w, Agrees(v), var' = var, w.made = v.made, status = "OK",
         failed' \in BOOLEAN, sticky' \in BOOLEAN, status' \in {"OK", Oom},
         failed => failed', sticky => sticky', failed' => failed \/ status' # "OK" \/ sticky',
         sticky' => failed' /\ "appended" \in w.marks /\ var["query"] = "null",
         status' # "OK" => failed' /\ "late" \in w.marks
  PROVE  FailureShows(w)'
<1>1. \A n \in w.made \ {"response"} : var'[n] = "null" => failed'
  BY DEF Agrees, FailureShows
<1>2. failed' => \/ \E n \in w.made \ {"response"} : var'[n] = "null"
                 \/ status' # "OK" \/ sticky'
  BY DEF Agrees, FailureShows
<1>3. {failed', sticky'} \subseteq BOOLEAN
  OBVIOUS
<1> QED BY <1>1, <1>2, <1>3 DEF FailureShows

\* A statement whose failure only sets status, and whose success adds to the tree.
LEMMA LateKeeps ==
  ASSUME NEW v, NEW w, Ready(v, w), NEW op \in {"late", "copy"}, At(op), Advance,
         UNCHANGED <<memory, sticky, params, written, wire, code, verdict, out>>,
         tree \subseteq tree', tree' \subseteq Names \X Keys,
         \/ status' = status /\ failed' = failed /\ tree' = tree \cup Adds(Statement, arg)
         \/ status' = Oom /\ failed' = TRUE
  PROVE  Moves(w)
<1>1. Agrees(v)
  BY DEF Ready
<1>2. /\ Statement.op = op /\ Allowed(call, arg, v, Statement) /\ status = "OK"
      /\ v.marks \cap {"sent", "decided"} = {}
  BY AtIs
<1>3. "text" \notin v.made /\ Marks(Statement) = {"late"} /\ Settles(Statement) = {}
  BY <1>2 DEF Allowed, Marks, Settles
<1>4. /\ w.made = v.made /\ w.checked = v.checked /\ w.put = v.put
      /\ w.freed = v.freed /\ w.tree = v.tree \cup Adds(Statement, arg) /\ w.params = v.params
      /\ w.marks = v.marks \cup {"late"}
  BY <1>3, Effects, Gains
<1>5. UNCHANGED <<call, arg, var, home, twice, sticky, params, written, wire, code, verdict, out>>
  BY DEF memory, Advance
<1>6. MemoryAgrees(w)'
  BY <1>1, <1>4, <1>5 DEF Agrees, MemoryAgrees
<1>7. FailureShows(w)'
  <2>1. /\ failed \in BOOLEAN /\ sticky \in BOOLEAN
        /\ sticky => failed /\ "appended" \in v.marks /\ var["query"] = "null"
    BY <1>1 DEF Agrees, FailureShows
  <2>2. failed' \in BOOLEAN /\ status' \in {"OK", Oom} /\ (failed => failed')
    BY <1>2, <2>1
  <2>3. failed' => failed \/ status' # "OK"
    BY <1>2 DEF Oom
  <2>4. status' # "OK" => failed'
    BY <1>2
  <2> QED BY <1>1, <1>2, <1>4, <1>5, <2>1, <2>2, <2>3, <2>4, ShowsLater
<1>8. ContentAgrees(w)'
  BY <1>1, <1>2, <1>3, <1>4, <1>5 DEF Agrees, ContentAgrees, Oom
<1>9. AnswerAgrees(w)'
  BY <1>1, <1>2, <1>4, <1>5 DEF Agrees, AnswerAgrees, RequestWhole
<1> QED BY <1>6, <1>7, <1>8, <1>9, MovesOn

LEMMA SetLateLeafKeeps ==
  ASSUME NEW v, NEW w, Ready(v, w), SetLateLeaf PROVE Moves(w)
<1>1. At("late") /\ Agrees(v)
  BY DEF SetLateLeaf, Ready
<1>2. Statement.op = "late" /\ Allowed(call, arg, v, Statement)
  BY <1>1, AtIs
<1>3. /\ Adds(Statement, arg) = {<<Statement.to, Statement.x>>}
      /\ Statement.to \in Names /\ Statement.x \in Keys
  BY <1>2 DEF Adds, Allowed
<1>4. tree \subseteq Names \X Keys
  BY <1>1 DEF Agrees, ContentAgrees
<1>5. tree \subseteq tree' /\ tree' \subseteq Names \X Keys
  BY <1>3, <1>4 DEF SetLateLeaf
<1> QED BY <1>1, <1>3, <1>5, LateKeeps DEF SetLateLeaf

LEMMA CopyFieldsKeeps ==
  ASSUME NEW v, NEW w, Ready(v, w), CopyFields PROVE Moves(w)
<1> DEFINE given == IF var["given"] = "null" THEN {} ELSE arg.fields
           some(n) == {<<"attributes", k>> : k \in given \cap {OptionalFields[i] : i \in 1..n}}
<1>1. At("copy") /\ Agrees(v)
  BY DEF CopyFields, Ready
<1>2. Statement.op = "copy" /\ Allowed(call, arg, v, Statement)
  BY <1>1, AtIs
<1>3. Adds(Statement, arg) = Copied(arg) /\ (arg.json = "object" => "given" \in v.checked)
  BY <1>2 DEF Adds, Allowed
<1>4. tree \subseteq Names \X Keys
  BY <1>1 DEF Agrees, ContentAgrees
<1>5. PICK n \in 0..Len(OptionalFields) :
          /\ n < Len(OptionalFields) => OptionalFields[n + 1] \in given
          /\ tree' = tree \cup some(n)
          /\ status' = IF n < Len(OptionalFields) THEN Oom ELSE status
          /\ failed' = (failed \/ n < Len(OptionalFields))
  BY DEF CopyFields
<1>6. "attributes" \in Names /\ Len(OptionalFields) = 8
  BY DEF Names, OptionalFields
<1>7. {OptionalFields[i] : i \in 1..n} \subseteq Keys
  BY <1>5, <1>6 DEF Keys
<1>8. tree \subseteq tree' /\ tree' \subseteq Names \X Keys
  BY <1>4, <1>5, <1>6, <1>7
<1>9. failed \in BOOLEAN
  BY <1>1 DEF Agrees, FailureShows
<1>10. CASE n < Len(OptionalFields)
  <2>1. status' = Oom /\ failed' = TRUE
    BY <1>5, <1>10
  <2> QED BY <1>1, <1>8, <2>1, LateKeeps DEF CopyFields
<1>11. CASE ~(n < Len(OptionalFields))
  <2>1. status' = status /\ failed' = failed
    BY <1>5, <1>9, <1>11
  <2>2. n = Len(OptionalFields)
    BY <1>5, <1>6, <1>11
  <2>3. arg.fields \subseteq {OptionalFields[i] : i \in 1..n}
    <3>1. arg \in Argument
      BY DEF Ready, Asked
    <3>2. arg.fields \in FieldSets
      BY <3>1 DEF Argument
    <3> QED BY <2>2, <3>2, EndpointsAssumption
  <2>4. given = arg.fields
    <3>1. CASE arg.json = "object"
      <4>1. "given" \in Names /\ "given" \in v.checked
        BY <1>3, <3>1 DEF Names
      <4> QED BY <1>1, <4>1 DEF Agrees, MemoryAgrees
    <3>2. CASE arg.json # "object"
      BY <3>2 DEF Ready, Asked
    <3> QED BY <3>1, <3>2
  <2>5. some(n) = Copied(arg)
    BY <2>3, <2>4 DEF Copied
  <2> QED BY <1>1, <1>3, <1>5, <1>8, <2>1, <2>5, LateKeeps DEF CopyFields
<1> QED BY <1>10, <1>11

LEMMA AddParamKeeps ==
  ASSUME NEW v, NEW w, Ready(v, w), AddParam PROVE Moves(w)
<1>1. PICK op \in {"param", "append"} : At(op)
  BY DEF AddParam
<1>2. /\ Statement.op = op /\ Allowed(call, arg, v, Statement) /\ status = "OK"
      /\ v.marks \cap {"sent", "decided"} = {} /\ Agrees(v)
  BY <1>1, AtIs DEF Ready
<1>3. /\ "query" \notin v.made /\ Settles(Statement) = {} /\ Appends(Statement) = {Statement.x}
      /\ Marks(Statement) = IF op = "param" THEN {"appended", "late"} ELSE {"appended"}
  BY <1>2 DEF Allowed, Marks, Settles, Appends
<1>4. /\ w.made = v.made /\ w.checked = v.checked /\ w.put = v.put
      /\ w.freed = v.freed /\ w.tree = v.tree /\ w.params = v.params \cup {Statement.x}
      /\ w.marks = v.marks \cup (IF op = "param" THEN {"appended", "late"} ELSE {"appended"})
  BY <1>1, <1>3, Effects, Gains
<1>5. /\ Advance
      /\ UNCHANGED <<call, arg, var, home, twice, tree, written, wire, code, verdict, out>>
  BY DEF AddParam, memory, Advance
<1>6. \/ /\ params' = IF sticky THEN params ELSE params \cup {Statement.x}
         /\ UNCHANGED <<status, sticky, failed>>
      \/ sticky' = TRUE /\ failed' = TRUE /\ UNCHANGED <<status, params>>
      \/ op = "param" /\ status' = Oom /\ failed' = TRUE /\ UNCHANGED <<sticky, params>>
  BY <1>2 DEF AddParam
<1>7. var["query"] = "null"
  <2>1. "query" \in Names
    BY DEF Names
  <2> QED BY <1>2, <1>3, <2>1 DEF Agrees, MemoryAgrees
<1>8. MemoryAgrees(w)'
  BY <1>2, <1>4, <1>5 DEF Agrees, MemoryAgrees
<1>9. FailureShows(w)'
  <2>1. /\ failed \in BOOLEAN /\ sticky \in BOOLEAN /\ (sticky => failed)
    BY <1>2 DEF Agrees, FailureShows
  <2>2. /\ failed' \in BOOLEAN /\ sticky' \in BOOLEAN /\ status' \in {"OK", Oom}
        /\ (failed => failed') /\ (sticky => sticky')
    BY <1>2, <1>6, <2>1
  <2>3. /\ failed' => failed \/ status' # "OK" \/ sticky'
        /\ (sticky' => failed') /\ (status' # "OK" => failed' /\ op = "param")
    BY <1>2, <1>6, <2>1 DEF Oom
  <2>4. "appended" \in w.marks /\ (op = "param" => "late" \in w.marks)
    BY <1>4
  <2> QED BY <1>2, <1>4, <1>5, <1>7, <2>2, <2>3, <2>4, ShowsLater
<1>10. ContentAgrees(w)'
  BY <1>2, <1>4, <1>5, <1>6 DEF Agrees, ContentAgrees, Oom
<1>11. AnswerAgrees(w)'
  BY <1>2, <1>4, <1>5 DEF Agrees, AnswerAgrees, RequestWhole
<1> QED BY <1>5, <1>8, <1>9, <1>10, <1>11, MovesOn

LEMMA WriteTextKeeps ==
  ASSUME NEW v, NEW w, Ready(v, w), WriteText PROVE Moves(w)
<1>1. At("write") /\ Agrees(v) /\ Advance
  BY DEF WriteText, Ready
<1>2. /\ Statement.op = "write" /\ Allowed(call, arg, v, Statement)
      /\ v.marks \cap {"sent", "decided"} = {}
  BY <1>1, AtIs
<1>3. /\ "root" \in v.checked \ Spent(v) /\ "text" \notin v.made \cup Spent(v) /\ "late" \notin v.marks
      /\ \A m \in v.tree : m[1] \in v.checked \ v.freed /\ m[1] \in {"root"} \cup v.put
  BY <1>2 DEF Allowed
<1>4. Makes(Statement, arg) = {"text"}
  BY <1>2 DEF Makes
<1>5. /\ w.made = v.made \cup {"text"} /\ w.checked = v.checked /\ w.put = v.put
      /\ w.freed = v.freed /\ w.tree = v.tree /\ w.params = v.params /\ w.marks = v.marks
  BY <1>1, <1>4, Effects, Gains
<1>6. /\ UNCHANGED <<call, arg, tree, status, sticky, params, wire, code, verdict, out>>
      /\ written' = {m \in tree : var[m[1]] = "live" /\ home[m[1]] = "root"}
      /\ twice' = (twice \/ ~Owned("root"))
      /\ \/ /\ var' = [var EXCEPT !["text"] = "live"] /\ home' = [home EXCEPT !["text"] = "text"]
            /\ failed' = failed
         \/ var' = var /\ home' = home /\ failed' = TRUE
  BY <1>1 DEF WriteText, Point, Advance
<1>7. {"root", "text", "query", "response"} \subseteq Names
  BY DEF Names
<1>8. Owned("root")
  BY <1>1, <1>3, <1>7, FreesOwned DEF Agrees, MemoryAgrees
<1>9. home' = home
  BY <1>1, <1>3, <1>6, <1>7 DEF Agrees, MemoryAgrees, Spent
<1>10. /\ var' \in [Names -> {"null", "live", "gone"}]
       /\ \A n \in Names : n # "text" => var'[n] = var[n]
  BY <1>1, <1>6, <1>7 DEF Agrees, MemoryAgrees
<1>11. /\ var["text"] = "null" /\ var \in [Names -> {"null", "live", "gone"}]
       /\ failed \in BOOLEAN /\ status = "OK"
  BY <1>1, <1>3, <1>7 DEF Agrees, MemoryAgrees, FailureShows
<1>12. \/ var'["text"] = "live" /\ failed' = failed
       \/ var'["text"] = "null" /\ failed' = TRUE
  BY <1>6, <1>7, <1>11, Zenon
<1>13. MemoryAgrees(w)'
  <2>1. ASSUME NEW n \in Names
        PROVE  /\ var'[n] = "gone" => n \in w.freed \/ (n \in w.put /\ "root" \in w.freed)
               /\ n \in w.freed => var'[n] # "live"
               /\ var'[n] # "null" => n \in w.made
               /\ n \in w.checked => var'[n] # "null"
    BY <1>1, <1>3, <1>5, <1>10, <1>11, <1>12 DEF Agrees, MemoryAgrees, Spent
  <2>2. ~twice'
    BY <1>1, <1>6, <1>8 DEF Agrees, MemoryAgrees
  <2> QED BY <1>1, <1>5, <1>7, <1>9, <1>10, <2>1, <2>2 DEF Agrees, MemoryAgrees
<1>14. FailureShows(w)'
  <2>1. v.made \subseteq Names
    BY <1>1 DEF Agrees, MemoryAgrees
  <2>2. \A n \in w.made \ {"response"} : var'[n] = "null" => failed'
    BY <1>1, <1>5, <1>10, <1>12, <2>1 DEF Agrees, FailureShows
  <2>3. failed' => \/ \E n \in w.made \ {"response"} : var'[n] = "null"
                   \/ status' # "OK" \/ sticky'
    <3>1. CASE var'["text"] = "null"
      BY <1>5, <3>1
    <3>2. CASE failed' = failed
      BY <1>1, <1>3, <1>5, <1>6, <1>10, <2>1, <3>2 DEF Agrees, FailureShows
    <3> QED BY <1>12, <3>1, <3>2
  <2>4. failed' \in BOOLEAN /\ (failed => failed') /\ sticky \in BOOLEAN
    BY <1>1, <1>11, <1>12 DEF Agrees, FailureShows
  <2>5. sticky' => failed' /\ "appended" \in w.marks /\ var'["query"] = "null"
    BY <1>1, <1>5, <1>6, <1>7, <1>10, <2>4 DEF Agrees, FailureShows
  <2>6. {failed', sticky'} \subseteq BOOLEAN /\ status' = "OK"
    BY <1>6, <1>11, <2>4
  <2> QED BY <2>2, <2>3, <2>5, <2>6 DEF FailureShows
<1>15. ContentAgrees(w)'
  <2>1. tree = v.tree
    BY <1>1, <1>11 DEF Agrees, ContentAgrees
  <2>2. ASSUME NEW m \in tree PROVE var[m[1]] = "live" /\ home[m[1]] = "root"
    <3>1. /\ m[1] \in v.checked \ v.freed /\ m[1] \in {"root"} \cup v.put /\ m[1] \in Names
          /\ "root" \notin v.freed
      BY <1>1, <1>3, <2>1, <2>2 DEF Agrees, MemoryAgrees, Spent
    <3> QED BY <1>1, <3>1 DEF Agrees, MemoryAgrees
  <2>3. written' = v.tree
    BY <1>6, <2>1, <2>2
  <2> QED BY <1>1, <1>5, <1>6, <2>1, <2>3 DEF Agrees, ContentAgrees
<1>16. AnswerAgrees(w)'
  <2>1. var'["response"] = var["response"]
    BY <1>7, <1>10
  <2> QED BY <1>1, <1>2, <1>5, <1>6, <2>1 DEF Agrees, AnswerAgrees, RequestWhole
<1> QED BY <1>1, <1>13, <1>14, <1>15, <1>16, MovesOn

LEMMA FreeLocalsKeeps ==
  ASSUME NEW v, NEW w, Ready(v, w), FreeLocals PROVE Moves(w)
<1>0. PICK S : S = Statement.frees
  OBVIOUS
<1>1. At("free") /\ Agrees(v) /\ Advance
  BY DEF FreeLocals, Ready
<1>2. /\ Statement.op = "free" /\ Allowed(call, arg, v, Statement)
  BY <1>1, AtIs
<1>3. S \cap Spent(v) = {} /\ S \subseteq Names
  BY <1>0, <1>2 DEF Allowed
<1>4. Frees(Statement) = S
  BY <1>0, <1>2 DEF Frees
<1>5. /\ w.made = v.made /\ w.checked = v.checked /\ w.put = v.put
      /\ w.freed = v.freed \cup S /\ w.tree = v.tree /\ w.params = v.params /\ w.marks = v.marks
  BY <1>1, <1>4, Effects, Gains
<1>6. /\ UNCHANGED <<call, arg, home, tree, status, sticky, params, written, wire, code, verdict,
                     out, failed>>
      /\ var' = [n \in Names |-> IF var[n] = "live" /\ home[n] \in S \cup {} /\ Owned(home[n])
                                 THEN "gone" ELSE var[n]]
      /\ twice' = (twice \/ (\E n \in S \cup {} : var[n] # "null" /\ ~Owned(n)) \/ S \cap {} # {})
  BY <1>0, <1>1 DEF FreeLocals, Release, request, Advance
<1>7. \A n \in S : var[n] # "null" => Owned(n)
  BY <1>1, <1>3, FreesOwned
<1>8. ~twice'
  BY <1>1, <1>6, <1>7 DEF Agrees, MemoryAgrees
<1>9. \A n \in Names : /\ var'[n] = "null" <=> var[n] = "null"
                       /\ var'[n] = "live" => var[n] = "live"
  BY <1>1, <1>6 DEF Agrees, MemoryAgrees
<1>10. MemoryAgrees(w)'
  <2>1. ASSUME NEW n \in Names
        PROVE  /\ var'[n] = "gone" => n \in w.freed \/ (n \in w.put /\ "root" \in w.freed)
               /\ n \in w.freed => var'[n] # "live"
               /\ var'[n] # "null" => n \in w.made
               /\ n \in w.checked => var'[n] # "null"
    <3>1. home[n] = IF n \in v.put THEN "root" ELSE n
      BY <1>1 DEF Agrees, MemoryAgrees
    <3>2. var'[n] = "gone" => n \in w.freed \/ (n \in w.put /\ "root" \in w.freed)
      BY <1>1, <1>5, <1>6, <3>1 DEF Agrees, MemoryAgrees
    <3>3. n \in w.freed => var'[n] # "live"
      <4>1. CASE n \in v.freed
        BY <1>1, <1>9, <4>1 DEF Agrees, MemoryAgrees
      <4>2. CASE n \in S
        <5>1. home[n] = n
          BY <1>3, <3>1, <4>2 DEF Spent
        <5>2. var[n] = "live" => var'[n] = "gone"
          BY <1>6, <1>7, <4>2, <5>1
        <5> QED BY <1>9, <5>2
      <4> QED BY <1>5, <4>1, <4>2
    <3> QED BY <1>1, <1>5, <1>9, <3>2, <3>3 DEF Agrees, MemoryAgrees
  <2>2. var' \in [Names -> {"null", "live", "gone"}]
    BY <1>1, <1>6 DEF Agrees, MemoryAgrees
  <2> QED BY <1>1, <1>5, <1>6, <1>8, <2>1, <2>2 DEF Agrees, MemoryAgrees
<1>11. FailureShows(w)'
  <2>1. v.made \subseteq Names /\ "query" \in Names
    BY <1>1 DEF Agrees, MemoryAgrees, Names
  <2> QED BY <1>1, <1>5, <1>6, <1>9, <2>1 DEF Agrees, FailureShows
<1>12. ContentAgrees(w)'
  BY <1>1, <1>5, <1>6 DEF Agrees, ContentAgrees
<1>13. AnswerAgrees(w)'
  <2>1. var'["response"] = "live" => var["response"] = "live"
    BY <1>9 DEF Names
  <2> QED BY <1>1, <1>5, <1>6, <2>1 DEF Agrees, AnswerAgrees, RequestWhole
<1> QED BY <1>1, <1>10, <1>11, <1>12, <1>13, MovesOn

LEMMA SendRequestKeeps ==
  ASSUME NEW v, NEW w, Ready(v, w), SendRequest PROVE Moves(w)
<1>1. At("send") /\ Agrees(v) /\ Advance
  BY DEF SendRequest, Ready
<1>2. /\ Statement.op = "send" /\ Allowed(call, arg, v, Statement)
      /\ v.marks \cap {"sent", "decided"} = {}
  BY <1>1, AtIs
<1>3. /\ Clean(v) /\ "response" \notin v.made \cup Spent(v)
      /\ (IF "text" \in v.made \ Spent(v) THEN v.tree ELSE {}) = Body(call, arg)
      /\ (IF "query" \in v.made \ Spent(v) THEN v.params ELSE {}) = Query(call, arg)
  BY <1>2 DEF Allowed
<1>4. /\ Makes(Statement, arg) = {"response"} /\ Settles(Statement) = {}
      /\ Marks(Statement) = {"sent"}
  BY <1>2 DEF Makes, Marks, Settles
<1>5. /\ w.made = v.made \cup {"response"} /\ w.checked = v.checked /\ w.put = v.put
      /\ w.freed = v.freed /\ w.tree = v.tree /\ w.params = v.params
      /\ w.marks = v.marks \cup {"sent"}
  BY <1>1, <1>4, Effects, Gains
<1>6. /\ UNCHANGED <<call, arg, twice, tree, status, sticky, params, written, verdict, failed>>
      /\ wire' = [sent |-> TRUE,
                  body |-> IF var["text"] = "live" THEN written ELSE {},
                  query |-> IF var["query"] = "live" THEN params ELSE {}]
      /\ \/ /\ code' \in {"OK", "API"} /\ out' = "response"
            /\ var' = [var EXCEPT !["response"] = "live"]
            /\ home' = [home EXCEPT !["response"] = "response"]
         \/ code' = "FAILED" /\ out' = "null" /\ var' = var /\ home' = home
  BY <1>1 DEF SendRequest, Point, Advance
<1>7. {"text", "query", "response"} \subseteq Names
  BY DEF Names
<1>8. ~failed /\ status = "OK" /\ ~sticky
  BY <1>1, <1>3, CleanIs
<1>9. \A n \in {"text", "query"} : var[n] = "live" <=> n \in v.made \ Spent(v)
  <2>1. ASSUME NEW n \in {"text", "query"}, n \in v.made \ Spent(v) PROVE var[n] = "live"
    BY <1>1, <1>3, <1>7, <2>1 DEF Agrees, MemoryAgrees, Clean, Spent
  <2>2. ASSUME NEW n \in {"text", "query"}, var[n] = "live" PROVE n \in v.made \ Spent(v)
    BY <1>1, <1>7, <2>2 DEF Agrees, MemoryAgrees, Spent
  <2> QED BY <2>1, <2>2
<1>10. wire'.body = Body(call, arg)
  <2>1. "text" \in v.made => written = v.tree
    BY <1>1 DEF Agrees, ContentAgrees
  <2> QED BY <1>3, <1>6, <1>9, <2>1
<1>11. wire'.query = Query(call, arg)
  <2>1. params = v.params
    BY <1>1, <1>8 DEF Agrees, ContentAgrees
  <2> QED BY <1>3, <1>6, <1>9, <2>1
<1>12. home' = home
  BY <1>1, <1>3, <1>6, <1>7 DEF Agrees, MemoryAgrees, Spent
<1>13. /\ var' \in [Names -> {"null", "live", "gone"}] /\ var'["response"] # "gone"
       /\ \A n \in Names : n # "response" => var'[n] = var[n]
  <2>1. var["response"] = "null" /\ var \in [Names -> {"null", "live", "gone"}]
    BY <1>1, <1>3, <1>7 DEF Agrees, MemoryAgrees
  <2> QED BY <1>6, <1>7, <2>1
<1>14. MemoryAgrees(w)'
  <2>1. ASSUME NEW n \in Names
        PROVE  /\ var'[n] = "gone" => n \in w.freed \/ (n \in w.put /\ "root" \in w.freed)
               /\ n \in w.freed => var'[n] # "live"
               /\ var'[n] # "null" => n \in w.made
               /\ n \in w.checked => var'[n] # "null"
    <3>1. CASE n = "response"
      <4>1. "response" \notin v.checked
        BY <1>1, <1>3, <1>7 DEF Agrees, MemoryAgrees
      <4> QED BY <1>3, <1>5, <1>13, <3>1, <4>1 DEF Spent
    <3>2. CASE n # "response"
      BY <1>1, <1>5, <1>13, <3>2 DEF Agrees, MemoryAgrees
    <3> QED BY <3>1, <3>2
  <2> QED BY <1>1, <1>5, <1>6, <1>7, <1>12, <1>13, <2>1 DEF Agrees, MemoryAgrees
<1>15. FailureShows(w)'
  <2>1. v.made \subseteq Names
    BY <1>1 DEF Agrees, MemoryAgrees
  <2>2. \A n \in w.made \ {"response"} : var'[n] = var[n] /\ n \in v.made \ {"response"}
    BY <1>5, <1>13, <2>1
  <2>3. failed' = FALSE /\ sticky' = FALSE /\ status' = "OK"
    BY <1>1, <1>6, <1>8 DEF Agrees, FailureShows
  <2>4. \A n \in v.made \ {"response"} : var[n] # "null"
    BY <1>1, <1>8 DEF Agrees, FailureShows
  <2>5. {failed', sticky'} \subseteq BOOLEAN
    BY <2>3
  <2> QED BY <2>2, <2>3, <2>4, <2>5 DEF FailureShows
<1>16. ContentAgrees(w)'
  BY <1>1, <1>5, <1>6 DEF Agrees, ContentAgrees
<1>17. AnswerAgrees(w)'
  <2>1. RequestWhole' /\ wire'.sent = TRUE /\ "sent" \in w.marks
    BY <1>5, <1>6, <1>8, <1>10, <1>11 DEF RequestWhole
  <2>2. /\ out' \in {"untouched", "null", "response"} /\ code' \in {"OK", "API", "FAILED"}
        /\ var'["response"] = "live" => out' = "response"
    <3>1. var["response"] = "null"
      BY <1>1, <1>3, <1>7 DEF Agrees, MemoryAgrees
    <3> QED BY <1>6, <3>1
  <2>3. verdict' = FALSE /\ "decided" \notin w.marks
    BY <1>1, <1>2, <1>5, <1>6 DEF Agrees, AnswerAgrees
  <2>4. ("id" \in w.marks => arg.id) /\ ("second" \in w.marks => arg.second)
    BY <1>1, <1>5 DEF Agrees, AnswerAgrees
  <2> QED BY <1>6, <2>1, <2>2, <2>3, <2>4 DEF AnswerAgrees
<1> QED BY <1>1, <1>14, <1>15, <1>16, <1>17, MovesOn

\* A return of a call that knows of no failure, and whose verdict stays as it is.
LEMMA CleanReturns ==
  ASSUME NEW v, NEW w, Ready(v, w), Clean(v), NEW S, Return(ret', S), Leaves(v, S, {}),
         ret' # "none", VerdictSound'
  PROVE  Returned'
<1>1. ~failed /\ Agrees(v)
  BY CleanIs DEF Ready
<1>2. /\ Release(S, {}) /\ pc' = 0 /\ UNCHANGED <<call, arg, tree, request, failed>>
  BY DEF Return
<1>3. failed' = FALSE
  BY <1>1, <1>2 DEF Agrees, FailureShows
<1>4. OomNamed'
  BY <1>3 DEF OomNamed
<1>5. S \cup {} = S /\ S \cap {} = {}
  OBVIOUS
<1>6. Leaves(v, S \cup {}, {}) /\ failed' \in BOOLEAN
  BY <1>3, <1>5
<1> QED BY <1>2, <1>4, <1>5, <1>6, EarlyReturn

\* The verdict is given.
LEMMA Decides ==
  ASSUME NEW v, NEW w, Ready(v, w), Advance, code = "OK",
         UNCHANGED <<memory, tree, status, sticky, params, written, wire, code, out, failed>>,
         verdict' = (IF call = "proof_verify" THEN arg.proof = "genuine" ELSE arg.held = "listed"),
         w.made = v.made, w.checked = v.checked, w.put = v.put, w.freed = v.freed,
         w.tree = v.tree, w.params = v.params, w.marks = v.marks \cup {"decided"}
  PROVE  Moves(w)
<1>1. /\ Agrees(v)
      /\ UNCHANGED <<call, arg, var, home, twice, tree, status, sticky, params, written, wire,
                     code, out, failed>>
  BY DEF Ready, memory, Advance
<1>2. MemoryAgrees(w)'
  BY <1>1 DEF Agrees, MemoryAgrees
<1>3. FailureShows(w)'
  BY <1>1 DEF Agrees, FailureShows
<1>4. ContentAgrees(w)'
  BY <1>1 DEF Agrees, ContentAgrees
<1>5. AnswerAgrees(w)'
  <2>1. verdict' \in BOOLEAN /\ "decided" \in w.marks
    OBVIOUS
  <2>2. /\ wire'.sent = ("sent" \in w.marks) /\ RequestWhole'
        /\ out' \in {"untouched", "null", "response"}
        /\ var'["response"] = "live" => out' = "response"
    BY <1>1 DEF Agrees, AnswerAgrees, RequestWhole
  <2>3. ("id" \in w.marks => arg'.id) /\ ("second" \in w.marks => arg'.second)
    BY <1>1 DEF Agrees, AnswerAgrees
  <2>4. verdict' = (IF call' = "proof_verify" THEN arg'.proof = "genuine"
                    ELSE arg'.held = "listed") /\ code' = "OK"
    BY <1>1
  <2> QED BY <2>1, <2>2, <2>3, <2>4 DEF AnswerAgrees
<1> QED BY <1>2, <1>3, <1>4, <1>5, MovesOn

LEMMA SearchPageKeeps ==
  ASSUME NEW v, NEW w, Ready(v, w), SearchPage PROVE Moves(w) \/ Returned'
<1>1. At("search") /\ Agrees(v)
  BY DEF SearchPage, Ready
<1>2. /\ Statement.op = "search" /\ Allowed(call, arg, v, Statement) /\ "decided" \notin v.marks
  BY <1>1, AtIs
<1>3. /\ Clean(v) /\ call = "has_entitlement" /\ Leaves(v, {"response"}, {})
  BY <1>2 DEF Allowed
<1>4. Marks(Statement) = {"decided"} /\ Settles(Statement) = {}
  BY <1>2 DEF Marks, Settles
<1>5. /\ w.made = v.made /\ w.checked = v.checked /\ w.put = v.put /\ w.freed = v.freed
      /\ w.tree = v.tree /\ w.params = v.params /\ w.marks = v.marks \cup {"decided"}
  BY <1>1, <1>4, Effects, Gains
<1>6. CASE code # "OK" /\ Return(code, {"response"})
  <2>1. /\ Return(ret', {"response"}) /\ ret' = code /\ UNCHANGED <<call, arg, verdict>>
    BY <1>6 DEF Return, request
  <2>2. ret' \notin {"OK", "none"}
    BY <1>1, <1>6, <2>1 DEF Agrees, AnswerAgrees
  <2>3. VerdictSound'
    BY <1>2, <2>1, <2>2, ErrorReturn
  <2> QED BY <1>3, <2>1, <2>2, <2>3, CleanReturns
<1>7. CASE /\ code = "OK" /\ verdict' = (arg.held = "listed") /\ Advance
           /\ UNCHANGED <<memory, tree, status, sticky, params, written, wire, code, out, failed>>
  <2>1. verdict' = (IF call = "proof_verify" THEN arg.proof = "genuine" ELSE arg.held = "listed")
    BY <1>3, <1>7
  <2> QED BY <1>5, <1>7, <2>1, Decides
<1> QED BY <1>6, <1>7 DEF SearchPage

\* A proof that is turned down early is not genuine.
LEMMA TurnedDown ==
  ASSUME NEW v, NEW w, Ready(v, w), call = "proof_verify", "decided" \notin v.marks,
         arg.proof # "genuine", UNCHANGED <<call, arg, verdict>>
  PROVE  VerdictSound'
BY DEF Ready, Agrees, AnswerAgrees, VerdictSound

LEMMA CheckPrefixKeeps ==
  ASSUME NEW v, NEW w, Ready(v, w), CheckPrefix PROVE Moves(w) \/ Returned'
<1>0. PICK S : S = Statement.frees
  OBVIOUS
<1>1. At("prefix") /\ Agrees(v)
  BY DEF CheckPrefix, Ready
<1>2. /\ Statement.op = "prefix" /\ Allowed(call, arg, v, Statement) /\ "decided" \notin v.marks
  BY <1>1, AtIs
<1>3. /\ Clean(v) /\ call = "proof_verify" /\ Leaves(v, S, {})
  BY <1>0, <1>2 DEF Allowed
<1>4. /\ w.made = v.made /\ w.checked = v.checked /\ w.put = v.put /\ w.freed = v.freed
      /\ w.tree = v.tree /\ w.params = v.params /\ w.marks = v.marks
  BY <1>1, Effects
<1>5. CASE arg.proof = "prefix" /\ Return("OK", Statement.frees)
  <2>1. Return(ret', S) /\ ret' = "OK" /\ UNCHANGED <<call, arg, verdict>>
    BY <1>0, <1>5 DEF Return, Release, request
  <2>2. VerdictSound'
    BY <1>2, <1>3, <1>5, <2>1, TurnedDown
  <2> QED BY <1>3, <2>1, <2>2, CleanReturns
<1>6. CASE arg.proof # "prefix" /\ Advance /\ UNCHANGED <<memory, tree, request, failed>>
  <2>1. v.checked \subseteq Names
    BY <1>1 DEF Agrees, MemoryAgrees
  <2> QED BY <1>1, <1>4, <1>6, <2>1, PassesBy
<1> QED BY <1>5, <1>6 DEF CheckPrefix

LEMMA VerifySignatureKeeps ==
  ASSUME NEW v, NEW w, Ready(v, w), VerifySignature PROVE Moves(w) \/ Returned'
<1>1. At("verify") /\ Agrees(v)
  BY DEF VerifySignature, Ready
<1>2. /\ Statement.op = "verify" /\ Allowed(call, arg, v, Statement) /\ "decided" \notin v.marks
  BY <1>1, AtIs
<1>3. /\ Clean(v) /\ call = "proof_verify" /\ Leaves(v, {"signature", "text"}, {})
      /\ "sent" \notin v.marks
  BY <1>2 DEF Allowed
<1>4. Marks(Statement) = {"decided"} /\ Settles(Statement) = {}
  BY <1>2 DEF Marks, Settles
<1>5. /\ w.made = v.made /\ w.checked = v.checked /\ w.put = v.put /\ w.freed = v.freed
      /\ w.tree = v.tree /\ w.params = v.params /\ w.marks = v.marks \cup {"decided"}
  BY <1>1, <1>4, Effects, Gains
<1>6. CASE arg.proof = "garbled" /\ Return("OK", {"signature", "text"})
  <2>1. Return(ret', {"signature", "text"}) /\ ret' = "OK" /\ UNCHANGED <<call, arg, verdict>>
    BY <1>6 DEF Return, request
  <2>2. VerdictSound'
    BY <1>2, <1>3, <1>6, <2>1, TurnedDown
  <2> QED BY <1>3, <2>1, <2>2, CleanReturns
<1>7. CASE /\ arg.proof # "garbled" /\ verdict' = (arg.proof = "genuine") /\ Advance
           /\ UNCHANGED <<memory, tree, status, sticky, params, written, wire, code, out, failed>>
  <2>1. verdict' = (IF call = "proof_verify" THEN arg.proof = "genuine" ELSE arg.held = "listed")
    BY <1>3, <1>7
  <2>2. code = "OK"
    BY <1>1, <1>3 DEF Agrees, AnswerAgrees
  <2> QED BY <1>5, <1>7, <2>1, <2>2, Decides
<1> QED BY <1>6, <1>7 DEF VerifySignature

\* The end of a program that ends as it should.
LEMMA FinishKeeps ==
  ASSUME NEW v, Agrees(v), Ends(call, v), call \in Calls, Finish
  PROVE  Returned'
<1>1. /\ pc' = 0 /\ ret' = code
      /\ var' = IF out = "response" /\ call # "has_entitlement"
                THEN [var EXCEPT !["response"] = "null"] ELSE var
      /\ UNCHANGED <<call, arg, home, twice, tree, request, failed>>
  BY DEF Finish
<1>2. ~failed /\ "response" \in Names /\ "root" \in Names
  BY CleanIs DEF Ends, Names
<1>3. failed' = FALSE /\ ret' # "none"
  BY <1>1, <1>2 DEF Agrees, FailureShows, AnswerAgrees
<1>4. ~twice' /\ var' \in [Names -> {"null", "live", "gone"}] /\ home' \in [Names -> Names]
  BY <1>1, <1>2 DEF Agrees, MemoryAgrees
<1>5. Leaked' = {}
  <2>1. SUFFICES ASSUME NEW n \in Names, var'[n] = "live", home[n] = n PROVE FALSE
    BY <1>1 DEF Leaked, Owned
  <2>2. var[n] = "live"
    BY <1>1, <1>2, <2>1 DEF Agrees, MemoryAgrees
  <2>3. n \in v.made \ Spent(v)
    BY <2>1, <2>2 DEF Agrees, MemoryAgrees, Spent
  <2>4. n = "response" /\ call # "has_entitlement"
    BY <2>3 DEF Ends
  <2>5. out = "response"
    BY <2>2, <2>4 DEF Agrees, AnswerAgrees
  <2> QED BY <1>1, <1>2, <2>1, <2>4, <2>5 DEF Agrees, MemoryAgrees
<1>6. TypeOK'
  BY <1>1, <1>3, <1>4, TypeKept
<1>7. RequestWhole'
  BY <1>1 DEF Agrees, AnswerAgrees, RequestWhole, request
<1>8. VerdictSound'
  BY <1>1 DEF VerdictSound, Ends, Agrees, AnswerAgrees, request
<1>9. Ownership' /\ OutcomeSound'
  BY <1>3, <1>4, <1>5, <1>6, <1>8 DEF Ownership, NoDoubleFree, OnlyMetadataLeaks, OutcomeSound, OomNamed
<1> QED BY <1>1, <1>3, <1>7, <1>9 DEF Returned

-----------------------------------------------------------------------------
(* What each kind of statement asks of what is known, and adds to it.        *)

Goes(f, a, v, s, w) == Fits(f, a, v, s) /\ After(v, s, a) = w

Shows(v, m, c, u, r, t, q, k) ==
  /\ v.made = m /\ v.checked = c /\ v.put = u /\ v.freed = r
  /\ v.tree = t /\ v.params = q /\ v.marks = k

LEMMA ViewFields ==
  ASSUME NEW m, NEW c, NEW u, NEW r, NEW t, NEW q, NEW k
  PROVE  Shows(V(m, c, u, r, t, q, k), m, c, u, r, t, q, k)
BY DEF V, Shows

\* A check of the arguments, before anything is made.
LEMMA NeedGoes ==
  ASSUME NEW f, NEW a, NEW m, NEW c, NEW u, NEW r, NEW t, NEW q, NEW k, m = {},
         u = {}, r = {}, k \subseteq {"id", "second"}
  PROVE  Goes(f, a, V(m, c, u, r, t, q, k), Need, V(m, c, u, r, t, q, k))
<1> DEFINE s == Need
           v == V(m, c, u, r, t, q, k)
<1>1. s.op = "need" /\ s.code = "NULL_ARGUMENT" /\ s.if = "always"
  BY DEF Step, Need
<1>2. Shows(v, m, c, u, r, t, q, k)
  BY ViewFields
<1> HIDE DEF s, v
<1>3. Holds(s, a)
  BY <1>1 DEF Holds
<1>4. Allowed(f, a, v, s)
  BY <1>1, <1>2 DEF Allowed, Shows, Nothing, Spent
<1>5. Fits(f, a, v, s)
  BY <1>1, <1>2, <1>4 DEF Fits, Shows
<1>6. After(v, s, a) = V(m, c, u, r, t, q, k)
  BY <1>1, <1>2, <1>3 DEF After, Shows, Makes, Checks, Puts, Frees, Adds, Appends, Marks, Settles, V
<1> QED BY <1>5, <1>6 DEF Goes, s, v

\* The same, of a number.
LEMMA BoundsGoes ==
  ASSUME NEW f, NEW a, NEW m, NEW c, NEW u, NEW r, NEW t, NEW q, NEW k, NEW e,
         m = {}, u = {}, r = {}, k \subseteq {"id", "second"},
         e \notin {"OK", "none"}
  PROVE  Goes(f, a, V(m, c, u, r, t, q, k), Bounds(e), V(m, c, u, r, t, q, k))
<1> DEFINE s == Bounds(e)
           v == V(m, c, u, r, t, q, k)
<1>1. s.op = "bounds" /\ s.code = e /\ s.if = "always"
  BY DEF Step, Bounds
<1>2. Shows(v, m, c, u, r, t, q, k)
  BY ViewFields
<1> HIDE DEF s, v
<1>3. Holds(s, a)
  BY <1>1 DEF Holds
<1>4. Allowed(f, a, v, s)
  BY <1>1, <1>2 DEF Allowed, Shows, Nothing, Spent
<1>5. Fits(f, a, v, s)
  BY <1>1, <1>2, <1>4 DEF Fits, Shows
<1>6. After(v, s, a) = V(m, c, u, r, t, q, k)
  BY <1>1, <1>2, <1>3 DEF After, Shows, Makes, Checks, Puts, Frees, Adds, Appends, Marks, Settles, V
<1> QED BY <1>5, <1>6 DEF Goes, s, v

\* The same, of an id, which is known to be one from here on.
LEMMA UuidGoes ==
  ASSUME NEW f, NEW a, NEW m, NEW c, NEW u, NEW r, NEW t, NEW q, NEW k, NEW x,
         NEW e, NEW k2, m = {}, u = {}, r = {}, k \subseteq {"id", "second"},
         x \in {"id", "second"}, e \notin {"OK", "none"}, k2 = k \cup {x}
  PROVE  Goes(f, a, V(m, c, u, r, t, q, k), Uuid(x, e), V(m, c, u, r, t, q, k2))
<1> DEFINE s == Uuid(x, e)
           v == V(m, c, u, r, t, q, k)
<1>1. s.op = "uuid" /\ s.x = x /\ s.code = e /\ s.if = "always"
  BY DEF Step, Uuid
<1>2. Shows(v, m, c, u, r, t, q, k)
  BY ViewFields
<1> HIDE DEF s, v
<1>3. Holds(s, a)
  BY <1>1 DEF Holds
<1>4. Allowed(f, a, v, s)
  BY <1>1, <1>2 DEF Allowed, Shows, Nothing, Spent
<1>5. Fits(f, a, v, s)
  BY <1>1, <1>2, <1>4 DEF Fits, Shows
<1>6. After(v, s, a) = V(m, c, u, r, t, q, k2)
  BY <1>1, <1>2, <1>3 DEF After, Shows, Makes, Checks, Puts, Frees, Adds, Appends, Marks, Settles, V
<1> QED BY <1>5, <1>6 DEF Goes, s, v

\* The caller's JSON.
LEMMA ParseGoes ==
  ASSUME NEW f, NEW a, NEW m, NEW c, NEW u, NEW r, NEW t, NEW q, NEW k, NEW g,
         NEW m2, NEW c2, m = {}, u = {}, r = {}, k \subseteq {"id", "second"},
         g = Given(a), m2 = m \cup g, c2 = c \cup g
  PROVE  Goes(f, a, V(m, c, u, r, t, q, k), Parse, V(m2, c2, u, r, t, q, k))
<1> DEFINE s == Parse
           v == V(m, c, u, r, t, q, k)
<1>1. s.op = "parse" /\ s.code = "INVALID_JSON" /\ s.if = "always"
  BY DEF Step, Parse, Given
<1>2. Shows(v, m, c, u, r, t, q, k)
  BY ViewFields
<1> HIDE DEF s, v
<1>3. Holds(s, a)
  BY <1>1 DEF Holds
<1>4. Allowed(f, a, v, s)
  BY <1>1, <1>2 DEF Allowed, Shows, Nothing, Spent
<1>5. Fits(f, a, v, s)
  BY <1>1, <1>2, <1>4 DEF Fits, Shows
<1>6. After(v, s, a) = V(m2, c2, u, r, t, q, k)
  BY <1>1, <1>2, <1>3 DEF After, Shows, Makes, Checks, Puts, Frees, Adds, Appends, Marks, Settles, V
<1> QED BY <1>5, <1>6 DEF Goes, s, v

\* An empty object in its place.
LEMMA OrEmptyGoes ==
  ASSUME NEW f, NEW a, NEW m, NEW c, NEW u, NEW r, NEW t, NEW q, NEW k, NEW m2,
         "given" \notin u \cup r, "given" \in m => "given" \in c,
         k \cap {"sent", "decided"} = {}, m2 = m \cup {"given"}
  PROVE  Goes(f, a, V(m, c, u, r, t, q, k), OrEmpty, V(m2, c, u, r, t, q, k))
<1> DEFINE s == OrEmpty
           v == V(m, c, u, r, t, q, k)
<1>1. s.op = "orempty" /\ s.if = "always"
  BY DEF Step, OrEmpty
<1>2. Shows(v, m, c, u, r, t, q, k)
  BY ViewFields
<1> HIDE DEF s, v
<1>3. Holds(s, a)
  BY <1>1 DEF Holds
<1>4. Allowed(f, a, v, s)
  BY <1>1, <1>2 DEF Allowed, Shows, Spent
<1>5. Fits(f, a, v, s)
  BY <1>1, <1>2, <1>4 DEF Fits, Shows
<1>6. After(v, s, a) = V(m2, c, u, r, t, q, k)
  BY <1>1, <1>2, <1>3 DEF After, Shows, Makes, Checks, Puts, Frees, Adds, Appends, Marks, Settles, V
<1> QED BY <1>5, <1>6 DEF Goes, s, v

\* An object.
LEMMA NewGoes ==
  ASSUME NEW f, NEW a, NEW m, NEW c, NEW u, NEW r, NEW t, NEW q, NEW k, NEW x,
         NEW m2, x \in Names \ {"given", "text", "query", "response"},
         x \notin m \cup u \cup r, k \cap {"sent", "decided"} = {}, m2 = m \cup {x}
  PROVE  Goes(f, a, V(m, c, u, r, t, q, k), New(x), V(m2, c, u, r, t, q, k))
<1> DEFINE s == New(x)
           v == V(m, c, u, r, t, q, k)
<1>1. s.op = "new" /\ s.x = x /\ s.if = "always"
  BY DEF Step, New
<1>2. Shows(v, m, c, u, r, t, q, k)
  BY ViewFields
<1> HIDE DEF s, v
<1>3. Holds(s, a)
  BY <1>1 DEF Holds
<1>4. Allowed(f, a, v, s)
  BY <1>1, <1>2 DEF Allowed, Shows
<1>5. Fits(f, a, v, s)
  BY <1>1, <1>2, <1>4 DEF Fits, Shows
<1>6. After(v, s, a) = V(m2, c, u, r, t, q, k)
  BY <1>1, <1>2, <1>3 DEF After, Shows, Makes, Checks, Puts, Frees, Adds, Appends, Marks, Settles, V
<1> QED BY <1>5, <1>6 DEF Goes, s, v

\* A check whose failure frees all that may be there.
LEMMA CheckGoes ==
  ASSUME NEW f, NEW a, NEW m, NEW c, NEW u, NEW r, NEW t, NEW q, NEW k, NEW S,
         NEW fr, NEW c2, NEW k2, (m \ (u \cup r)) \ fr \subseteq Lost(f),
         fr \cap (u \cup r) = {}, fr \subseteq Names, S \subseteq Names,
         f \in Flat => S \subseteq m \ {"query", "response"},
         k \cap {"sent", "decided"} = {}, c2 = c \cup S, k2 = k \ {"late"}
  PROVE  Goes(f, a, V(m, c, u, r, t, q, k), Check(S, fr, Oom), V(m, c2, u, r, t, q, k2))
<1> DEFINE s == Check(S, fr, Oom)
           v == V(m, c, u, r, t, q, k)
<1>1. s.op = "check" /\ s.of = S /\ s.frees = fr /\ s.code = Oom /\ s.if = "always"
  BY DEF Step, Check
<1>2. Shows(v, m, c, u, r, t, q, k)
  BY ViewFields
<1> HIDE DEF s, v
<1>3. Holds(s, a)
  BY <1>1 DEF Holds
<1>4. Allowed(f, a, v, s)
  BY <1>1, <1>2 DEF Allowed, Shows, Leaves, Spent
<1>5. Fits(f, a, v, s)
  BY <1>1, <1>2, <1>4 DEF Fits, Shows
<1>6. After(v, s, a) = V(m, c2, u, r, t, q, k2)
  BY <1>1, <1>2, <1>3 DEF After, Shows, Makes, Checks, Puts, Frees, Adds, Appends, Marks, Settles, V
<1> QED BY <1>5, <1>6 DEF Goes, s, v

\* A check of one variable, which is NULL when it fails.
LEMMA CheckOneGoes ==
  ASSUME NEW f, NEW a, NEW m, NEW c, NEW u, NEW r, NEW t, NEW q, NEW k, NEW x,
         NEW fr, NEW c2, NEW k2, "late" \notin k,
         (m \ (u \cup r)) \ fr \subseteq {x}, fr \cap (u \cup r) = {},
         fr \subseteq Names, x \in Names,
         f \in Flat => x \in m \ {"query", "response"},
         k \cap {"sent", "decided"} = {}, c2 = c \cup {x}, k2 = k \ {"late"}
  PROVE  Goes(f, a, V(m, c, u, r, t, q, k), Check({x}, fr, Oom), V(m, c2, u, r, t, q, k2))
<1> DEFINE s == Check({x}, fr, Oom)
           v == V(m, c, u, r, t, q, k)
<1>1. s.op = "check" /\ s.of = {x} /\ s.frees = fr /\ s.code = Oom /\ s.if = "always"
  BY DEF Step, Check
<1>2. Shows(v, m, c, u, r, t, q, k)
  BY ViewFields
<1> HIDE DEF s, v
<1>3. Holds(s, a)
  BY <1>1 DEF Holds
<1>4. Allowed(f, a, v, s)
  BY <1>1, <1>2 DEF Allowed, Shows, Leaves, Spent, Found
<1>5. Fits(f, a, v, s)
  BY <1>1, <1>2, <1>4 DEF Fits, Shows
<1>6. After(v, s, a) = V(m, c2, u, r, t, q, k2)
  BY <1>1, <1>2, <1>3 DEF After, Shows, Makes, Checks, Puts, Frees, Adds, Appends, Marks, Settles, V
<1> QED BY <1>5, <1>6 DEF Goes, s, v

\* The same, where a path that could not be allocated is blamed on the ids.
LEMMA BlameGoes ==
  ASSUME NEW f, NEW a, NEW m, NEW c, NEW u, NEW r, NEW t, NEW q, NEW k, NEW x,
         NEW c2, NEW k2, "late" \notin k, m \ (u \cup r) \subseteq {x}, x \in Names,
         {"id", "second"} \subseteq k,
         f \in {"entitlement_usage", "reset_entitlement_usage"},
         k \cap {"sent", "decided"} = {}, c2 = c \cup {x}, k2 = k \ {"late"}
  PROVE  Goes(f, a, V(m, c, u, r, t, q, k), Check({x}, {}, "NULL_ARGUMENT"), V(m, c2, u, r, t, q, k2))
<1> DEFINE s == Check({x}, {}, "NULL_ARGUMENT")
           v == V(m, c, u, r, t, q, k)
<1>1. s.op = "check" /\ s.of = {x} /\ s.frees = {} /\ s.code = "NULL_ARGUMENT" /\ s.if = "always"
  BY DEF Step, Check
<1>2. Shows(v, m, c, u, r, t, q, k)
  BY ViewFields
<1> HIDE DEF s, v
<1>3. Holds(s, a)
  BY <1>1 DEF Holds
<1>4. Allowed(f, a, v, s)
  BY <1>1, <1>2 DEF Allowed, Shows, Leaves, Spent, Found, Flat
<1>5. Fits(f, a, v, s)
  BY <1>1, <1>2, <1>4 DEF Fits, Shows
<1>6. After(v, s, a) = V(m, c2, u, r, t, q, k2)
  BY <1>1, <1>2, <1>3 DEF After, Shows, Makes, Checks, Puts, Frees, Adds, Appends, Marks, Settles, V
<1> QED BY <1>5, <1>6 DEF Goes, s, v

\* An object becomes another's.
LEMMA PutGoes ==
  ASSUME NEW f, NEW a, NEW m, NEW c, NEW u, NEW r, NEW t, NEW q, NEW k, NEW x,
         NEW to, NEW fr, NEW u2, NEW t2,
         (m \ (u \cup r)) \ (fr \cup {x}) \subseteq Lost(f),
         (fr \cup {x}) \cap (u \cup r) = {}, (fr \cup {x}) \subseteq Names,
         x \notin fr, x \in Names \ {"root", "text", "query", "response"}, to \in c,
         to \in {"root"} \cup u, r = {}, "text" \notin m,
         k \cap {"sent", "decided"} = {}, u2 = u \cup {x}, t2 = t \cup {<<to, x>>}
  PROVE  Goes(f, a, V(m, c, u, r, t, q, k), Put(x, to, fr), V(m, c, u2, r, t2, q, k))
<1> DEFINE s == Put(x, to, fr)
           v == V(m, c, u, r, t, q, k)
<1>1. s.op = "put" /\ s.x = x /\ s.to = to /\ s.frees = fr /\ s.code = Oom /\ s.if = "always"
  BY DEF Step, Put, Oom
<1>2. Shows(v, m, c, u, r, t, q, k)
  BY ViewFields
<1> HIDE DEF s, v
<1>3. Holds(s, a)
  BY <1>1 DEF Holds
<1>4. Allowed(f, a, v, s)
  BY <1>1, <1>2 DEF Allowed, Shows, Leaves, Spent
<1>5. Fits(f, a, v, s)
  BY <1>1, <1>2, <1>4 DEF Fits, Shows
<1>6. After(v, s, a) = V(m, c, u2, r, t2, q, k)
  BY <1>1, <1>2, <1>3 DEF After, Shows, Makes, Checks, Puts, Frees, Adds, Appends, Marks, Settles, V
<1> QED BY <1>5, <1>6 DEF Goes, s, v

\* A member is set.
LEMMA LeafGoes ==
  ASSUME NEW f, NEW a, NEW m, NEW c, NEW u, NEW r, NEW t, NEW q, NEW k, NEW x,
         NEW to, NEW fr, NEW t2, (m \ (u \cup r)) \ fr \subseteq Lost(f),
         fr \cap (u \cup r) = {}, fr \subseteq Names, to \in c, r = {},
         "text" \notin m, x \in Keys, k \cap {"sent", "decided"} = {},
         t2 = t \cup {<<to, x>>}
  PROVE  Goes(f, a, V(m, c, u, r, t, q, k), Leaf(x, to, fr), V(m, c, u, r, t2, q, k))
<1> DEFINE s == Leaf(x, to, fr)
           v == V(m, c, u, r, t, q, k)
<1>1. s.op = "leaf" /\ s.x = x /\ s.to = to /\ s.frees = fr /\ s.code = Oom /\ s.if = "always"
  BY DEF Step, Leaf, Oom
<1>2. Shows(v, m, c, u, r, t, q, k)
  BY ViewFields
<1> HIDE DEF s, v
<1>3. Holds(s, a)
  BY <1>1 DEF Holds
<1>4. Allowed(f, a, v, s)
  BY <1>1, <1>2 DEF Allowed, Shows, Leaves, Spent
<1>5. Fits(f, a, v, s)
  BY <1>1, <1>2, <1>4 DEF Fits, Shows
<1>6. After(v, s, a) = V(m, c, u, r, t2, q, k)
  BY <1>1, <1>2, <1>3 DEF After, Shows, Makes, Checks, Puts, Frees, Adds, Appends, Marks, Settles, V
<1> QED BY <1>5, <1>6 DEF Goes, s, v

\* A member whose failure is reported later.
LEMMA LateLeafGoes ==
  ASSUME NEW f, NEW a, NEW m, NEW c, NEW u, NEW r, NEW t, NEW q, NEW k, NEW x,
         NEW to, NEW t2, NEW k2, to \in Names, "text" \notin m, x \in Keys,
         k \cap {"sent", "decided"} = {}, t2 = t \cup {<<to, x>>},
         k2 = k \cup {"late"}
  PROVE  Goes(f, a, V(m, c, u, r, t, q, k), LateLeaf(x, to), V(m, c, u, r, t2, q, k2))
<1> DEFINE s == LateLeaf(x, to)
           v == V(m, c, u, r, t, q, k)
<1>1. s.op = "late" /\ s.x = x /\ s.to = to /\ s.if = "always"
  BY DEF Step, LateLeaf
<1>2. Shows(v, m, c, u, r, t, q, k)
  BY ViewFields
<1> HIDE DEF s, v
<1>3. Holds(s, a)
  BY <1>1 DEF Holds
<1>4. Allowed(f, a, v, s)
  BY <1>1, <1>2 DEF Allowed, Shows
<1>5. Fits(f, a, v, s)
  BY <1>1, <1>2, <1>4 DEF Fits, Shows
<1>6. After(v, s, a) = V(m, c, u, r, t2, q, k2)
  BY <1>1, <1>2, <1>3 DEF After, Shows, Makes, Checks, Puts, Frees, Adds, Appends, Marks, Settles, V
<1> QED BY <1>5, <1>6 DEF Goes, s, v

\* The optional attributes.
LEMMA CopyGoes ==
  ASSUME NEW f, NEW a, NEW m, NEW c, NEW u, NEW r, NEW t, NEW q, NEW k, NEW t2,
         NEW k2, "text" \notin m, a.json = "object" => "given" \in c,
         k \cap {"sent", "decided"} = {}, t2 = t \cup Copied(a),
         k2 = k \cup {"late"}
  PROVE  Goes(f, a, V(m, c, u, r, t, q, k), Copy, V(m, c, u, r, t2, q, k2))
<1> DEFINE s == Copy
           v == V(m, c, u, r, t, q, k)
<1>1. s.op = "copy" /\ s.if = "always"
  BY DEF Step, Copy
<1>2. Shows(v, m, c, u, r, t, q, k)
  BY ViewFields
<1> HIDE DEF s, v
<1>3. Holds(s, a)
  BY <1>1 DEF Holds
<1>4. Allowed(f, a, v, s)
  BY <1>1, <1>2 DEF Allowed, Shows
<1>5. Fits(f, a, v, s)
  BY <1>1, <1>2, <1>4 DEF Fits, Shows
<1>6. After(v, s, a) = V(m, c, u, r, t2, q, k2)
  BY <1>1, <1>2, <1>3 DEF After, Shows, Makes, Checks, Puts, Frees, Adds, Appends, Marks, Settles, V
<1> QED BY <1>5, <1>6 DEF Goes, s, v

\* A parameter of the query.
LEMMA ParamGoes ==
  ASSUME NEW f, NEW a, NEW m, NEW c, NEW u, NEW r, NEW t, NEW q, NEW k, NEW x,
         NEW q2, NEW k2, "query" \notin m \cup r, k \cap {"sent", "decided"} = {},
         q2 = q \cup {x}, k2 = k \cup {"appended", "late"}
  PROVE  Goes(f, a, V(m, c, u, r, t, q, k), Param(x), V(m, c, u, r, t, q2, k2))
<1> DEFINE s == Param(x)
           v == V(m, c, u, r, t, q, k)
<1>1. s.op = "param" /\ s.x = x /\ s.if = "always"
  BY DEF Step, Param
<1>2. Shows(v, m, c, u, r, t, q, k)
  BY ViewFields
<1> HIDE DEF s, v
<1>3. Holds(s, a)
  BY <1>1 DEF Holds
<1>4. Allowed(f, a, v, s)
  BY <1>1, <1>2 DEF Allowed, Shows
<1>5. Fits(f, a, v, s)
  BY <1>1, <1>2, <1>4 DEF Fits, Shows
<1>6. After(v, s, a) = V(m, c, u, r, t, q2, k2)
  BY <1>1, <1>2, <1>3 DEF After, Shows, Makes, Checks, Puts, Frees, Adds, Appends, Marks, Settles, V
<1> QED BY <1>5, <1>6 DEF Goes, s, v

\* One that is not encoded.
LEMMA PlainGoes ==
  ASSUME NEW f, NEW a, NEW m, NEW c, NEW u, NEW r, NEW t, NEW q, NEW k, NEW x,
         NEW q2, NEW k2, "query" \notin m \cup r, k \cap {"sent", "decided"} = {},
         q2 = q \cup {x}, k2 = k \cup {"appended"}
  PROVE  Goes(f, a, V(m, c, u, r, t, q, k), Plain(x), V(m, c, u, r, t, q2, k2))
<1> DEFINE s == Plain(x)
           v == V(m, c, u, r, t, q, k)
<1>1. s.op = "append" /\ s.x = x /\ s.if = "always"
  BY DEF Step, Plain
<1>2. Shows(v, m, c, u, r, t, q, k)
  BY ViewFields
<1> HIDE DEF s, v
<1>3. Holds(s, a)
  BY <1>1 DEF Holds
<1>4. Allowed(f, a, v, s)
  BY <1>1, <1>2 DEF Allowed, Shows
<1>5. Fits(f, a, v, s)
  BY <1>1, <1>2, <1>4 DEF Fits, Shows
<1>6. After(v, s, a) = V(m, c, u, r, t, q2, k2)
  BY <1>1, <1>2, <1>3 DEF After, Shows, Makes, Checks, Puts, Frees, Adds, Appends, Marks, Settles, V
<1> QED BY <1>5, <1>6 DEF Goes, s, v

\* The query is taken from its buffer.
LEMMA DetachGoes ==
  ASSUME NEW f, NEW a, NEW m, NEW c, NEW u, NEW r, NEW t, NEW q, NEW k, NEW m2,
         "query" \notin m \cup r, k \cap {"sent", "decided"} = {},
         m2 = m \cup {"query"}
  PROVE  Goes(f, a, V(m, c, u, r, t, q, k), Detach, V(m2, c, u, r, t, q, k))
<1> DEFINE s == Detach
           v == V(m, c, u, r, t, q, k)
<1>1. s.op = "detach" /\ s.if = "always"
  BY DEF Step, Detach
<1>2. Shows(v, m, c, u, r, t, q, k)
  BY ViewFields
<1> HIDE DEF s, v
<1>3. Holds(s, a)
  BY <1>1 DEF Holds
<1>4. Allowed(f, a, v, s)
  BY <1>1, <1>2 DEF Allowed, Shows
<1>5. Fits(f, a, v, s)
  BY <1>1, <1>2, <1>4 DEF Fits, Shows
<1>6. After(v, s, a) = V(m2, c, u, r, t, q, k)
  BY <1>1, <1>2, <1>3 DEF After, Shows, Makes, Checks, Puts, Frees, Adds, Appends, Marks, Settles, V
<1> QED BY <1>5, <1>6 DEF Goes, s, v

\* The tree is written.
LEMMA WriteGoes ==
  ASSUME NEW f, NEW a, NEW m, NEW c, NEW u, NEW r, NEW t, NEW q, NEW k, NEW m2,
         "root" \in c \ (u \cup r), "text" \notin m \cup u \cup r, "late" \notin k,
         \A e \in t : e[1] \in c \ r /\ e[1] \in {"root"} \cup u,
         k \cap {"sent", "decided"} = {}, m2 = m \cup {"text"}
  PROVE  Goes(f, a, V(m, c, u, r, t, q, k), Write("text"), V(m2, c, u, r, t, q, k))
<1> DEFINE s == Write("text")
           v == V(m, c, u, r, t, q, k)
<1>1. s.op = "write" /\ s.if = "always"
  BY DEF Step, Write
<1>2. Shows(v, m, c, u, r, t, q, k)
  BY ViewFields
<1> HIDE DEF s, v
<1>3. Holds(s, a)
  BY <1>1 DEF Holds
<1>4. Allowed(f, a, v, s)
  BY <1>1, <1>2 DEF Allowed, Shows, Spent
<1>5. Fits(f, a, v, s)
  BY <1>1, <1>2, <1>4 DEF Fits, Shows
<1>6. After(v, s, a) = V(m2, c, u, r, t, q, k)
  BY <1>1, <1>2, <1>3 DEF After, Shows, Makes, Checks, Puts, Frees, Adds, Appends, Marks, Settles, V
<1> QED BY <1>5, <1>6 DEF Goes, s, v

\* Variables are freed.
LEMMA FreeGoes ==
  ASSUME NEW f, NEW a, NEW m, NEW c, NEW u, NEW r, NEW t, NEW q, NEW k, NEW S,
         NEW r2, S \cap (u \cup r) = {}, S \subseteq Names, r2 = r \cup S
  PROVE  Goes(f, a, V(m, c, u, r, t, q, k), Free(S), V(m, c, u, r2, t, q, k))
<1> DEFINE s == Free(S)
           v == V(m, c, u, r, t, q, k)
<1>1. s.op = "free" /\ s.frees = S /\ s.if = "always"
  BY DEF Step, Free
<1>2. Shows(v, m, c, u, r, t, q, k)
  BY ViewFields
<1> HIDE DEF s, v
<1>3. Holds(s, a)
  BY <1>1 DEF Holds
<1>4. Allowed(f, a, v, s)
  BY <1>1, <1>2 DEF Allowed, Shows, Spent
<1>5. Fits(f, a, v, s)
  BY <1>1, <1>2, <1>4 DEF Fits, Shows
<1>6. After(v, s, a) = V(m, c, u, r2, t, q, k)
  BY <1>1, <1>2, <1>3 DEF After, Shows, Makes, Checks, Puts, Frees, Adds, Appends, Marks, Settles, V
<1> QED BY <1>5, <1>6 DEF Goes, s, v

\* The request leaves.
LEMMA SendGoes ==
  ASSUME NEW f, NEW a, NEW m, NEW c, NEW u, NEW r, NEW t, NEW q, NEW k, NEW m2,
         NEW k2, m \ {"response"} \subseteq c, "late" \notin k,
         "appended" \in k => "query" \in m, "response" \notin m \cup u \cup r,
         (IF "text" \in m \ (u \cup r) THEN t ELSE {}) = Body(f, a),
         (IF "query" \in m \ (u \cup r) THEN q ELSE {}) = Query(f, a),
         k \cap {"sent", "decided"} = {}, m2 = m \cup {"response"},
         k2 = k \cup {"sent"}
  PROVE  Goes(f, a, V(m, c, u, r, t, q, k), Send, V(m2, c, u, r, t, q, k2))
<1> DEFINE s == Send
           v == V(m, c, u, r, t, q, k)
<1>1. s.op = "send" /\ s.if = "always"
  BY DEF Step, Send
<1>2. Shows(v, m, c, u, r, t, q, k)
  BY ViewFields
<1> HIDE DEF s, v
<1>3. Holds(s, a)
  BY <1>1 DEF Holds
<1>4. Allowed(f, a, v, s)
  BY <1>1, <1>2 DEF Allowed, Shows, Spent, Clean
<1>5. Fits(f, a, v, s)
  BY <1>1, <1>2, <1>4 DEF Fits, Shows
<1>6. After(v, s, a) = V(m2, c, u, r, t, q, k2)
  BY <1>1, <1>2, <1>3 DEF After, Shows, Makes, Checks, Puts, Frees, Adds, Appends, Marks, Settles, V
<1> QED BY <1>5, <1>6 DEF Goes, s, v

\* The page is searched.
LEMMA SearchGoes ==
  ASSUME NEW f, NEW a, NEW m, NEW c, NEW u, NEW r, NEW t, NEW q, NEW k, NEW k2,
         m \ {"response"} \subseteq c, "late" \notin k,
         "appended" \in k => "query" \in m, "sent" \in k, "decided" \notin k,
         f = "has_entitlement", (m \ (u \cup r)) \ {"response"} \subseteq {},
         {"response"} \cap (u \cup r) = {}, {"response"} \subseteq Names,
         k2 = k \cup {"decided"}
  PROVE  Goes(f, a, V(m, c, u, r, t, q, k), Search, V(m, c, u, r, t, q, k2))
<1> DEFINE s == Search
           v == V(m, c, u, r, t, q, k)
<1>1. s.op = "search" /\ s.if = "always"
  BY DEF Step, Search
<1>2. Shows(v, m, c, u, r, t, q, k)
  BY ViewFields
<1> HIDE DEF s, v
<1>3. Holds(s, a)
  BY <1>1 DEF Holds
<1>4. Allowed(f, a, v, s)
  BY <1>1, <1>2 DEF Allowed, Shows, Spent, Clean, Leaves
<1>5. Fits(f, a, v, s)
  BY <1>1, <1>2, <1>4 DEF Fits, Shows
<1>6. After(v, s, a) = V(m, c, u, r, t, q, k2)
  BY <1>1, <1>2, <1>3 DEF After, Shows, Makes, Checks, Puts, Frees, Adds, Appends, Marks, Settles, V
<1> QED BY <1>5, <1>6 DEF Goes, s, v

\* The proof does not begin as proofs do.
LEMMA PrefixGoes ==
  ASSUME NEW f, NEW a, NEW m, NEW c, NEW u, NEW r, NEW t, NEW q, NEW k,
         m \ {"response"} \subseteq c, "late" \notin k,
         "appended" \in k => "query" \in m, "sent" \notin k, f = "proof_verify",
         k \cap {"sent", "decided"} = {}, (m \ (u \cup r)) \ {"text"} \subseteq {},
         {"text"} \cap (u \cup r) = {}, {"text"} \subseteq Names
  PROVE  Goes(f, a, V(m, c, u, r, t, q, k), Prefix, V(m, c, u, r, t, q, k))
<1> DEFINE s == Prefix
           v == V(m, c, u, r, t, q, k)
<1>1. s.op = "prefix" /\ s.frees = {"text"} /\ s.if = "always"
  BY DEF Step, Prefix
<1>2. Shows(v, m, c, u, r, t, q, k)
  BY ViewFields
<1> HIDE DEF s, v
<1>3. Holds(s, a)
  BY <1>1 DEF Holds
<1>4. Allowed(f, a, v, s)
  BY <1>1, <1>2 DEF Allowed, Shows, Spent, Clean, Leaves
<1>5. Fits(f, a, v, s)
  BY <1>1, <1>2, <1>4 DEF Fits, Shows
<1>6. After(v, s, a) = V(m, c, u, r, t, q, k)
  BY <1>1, <1>2, <1>3 DEF After, Shows, Makes, Checks, Puts, Frees, Adds, Appends, Marks, Settles, V
<1> QED BY <1>5, <1>6 DEF Goes, s, v

\* The signature is verified.
LEMMA VerifyGoes ==
  ASSUME NEW f, NEW a, NEW m, NEW c, NEW u, NEW r, NEW t, NEW q, NEW k, NEW k2,
         m \ {"response"} \subseteq c, "late" \notin k,
         "appended" \in k => "query" \in m, "sent" \notin k, f = "proof_verify",
         k \cap {"sent", "decided"} = {},
         (m \ (u \cup r)) \ {"signature", "text"} \subseteq {},
         {"signature", "text"} \cap (u \cup r) = {},
         {"signature", "text"} \subseteq Names, k2 = k \cup {"decided"}
  PROVE  Goes(f, a, V(m, c, u, r, t, q, k), Verify, V(m, c, u, r, t, q, k2))
<1> DEFINE s == Verify
           v == V(m, c, u, r, t, q, k)
<1>1. s.op = "verify" /\ s.if = "always"
  BY DEF Step, Verify
<1>2. Shows(v, m, c, u, r, t, q, k)
  BY ViewFields
<1> HIDE DEF s, v
<1>3. Holds(s, a)
  BY <1>1 DEF Holds
<1>4. Allowed(f, a, v, s)
  BY <1>1, <1>2 DEF Allowed, Shows, Spent, Clean, Leaves
<1>5. Fits(f, a, v, s)
  BY <1>1, <1>2, <1>4 DEF Fits, Shows
<1>6. After(v, s, a) = V(m, c, u, r, t, q, k2)
  BY <1>1, <1>2, <1>3 DEF After, Shows, Makes, Checks, Puts, Frees, Adds, Appends, Marks, Settles, V
<1> QED BY <1>5, <1>6 DEF Goes, s, v

\* A statement without a condition, and the same under one.
Always(s) ==
  s = [op |-> s.op, x |-> s.x, to |-> s.to, frees |-> s.frees, code |-> s.code,
       of |-> s.of, if |-> "always"]

LEMMA StepIs ==
  ASSUME NEW op, NEW x, NEW to, NEW fr, NEW e PROVE Always(Step(op, x, to, fr, e))
BY DEF Always, Step

LEMMA ChangedIs ==
  ASSUME NEW op, NEW x, NEW to, NEW fr, NEW e, NEW S
  PROVE  Always([Step(op, x, to, fr, e) EXCEPT !.of = S])
<1>1. [Step(op, x, to, fr, e) EXCEPT !.of = S] =
        [op |-> op, x |-> x, to |-> to, frees |-> fr, code |-> e, of |-> S, if |-> "always"]
  BY DEF Step
<1> QED BY <1>1 DEF Always

LEMMA CheckIs == ASSUME NEW S, NEW fr, NEW e PROVE Always(Check(S, fr, e))
BY ChangedIs DEF Check

LEMMA WhenFields ==
  ASSUME NEW s, Always(s), NEW e
  PROVE  LET w == When(e, s)
         IN /\ w.op = s.op /\ w.x = s.x /\ w.to = s.to /\ w.frees = s.frees
            /\ w.code = s.code /\ w.of = s.of /\ w.if = e /\ s.if = "always"
BY DEF Always, When

LEMMA WhenSame ==
  ASSUME NEW f, NEW a, NEW v, NEW s, Always(s), NEW e
  PROVE  /\ Allowed(f, a, v, When(e, s)) = Allowed(f, a, v, s)
         /\ Holds(When(e, s), a) => After(v, When(e, s), a) = After(v, s, a)
<1> DEFINE w == When(e, s)
<1>1. /\ w.op = s.op /\ w.x = s.x /\ w.to = s.to /\ w.frees = s.frees
      /\ w.code = s.code /\ w.of = s.of /\ s.if = "always"
  BY WhenFields
<1>2. Holds(s, a)
  BY <1>1 DEF Holds
<1> HIDE DEF w
<1>3. Allowed(f, a, v, w) = Allowed(f, a, v, s)
  BY <1>1 DEF Allowed, Found
<1>4. Holds(w, a) => After(v, w, a) = After(v, s, a)
  BY <1>1, <1>2 DEF After, Makes, Checks, Puts, Frees, Adds, Appends, Marks, Settles
<1> QED BY <1>3, <1>4 DEF w

\* It goes under the condition as it does without, and is passed over otherwise.
LEMMA WhenGoes ==
  ASSUME NEW f, NEW a, NEW v, NEW w, NEW s, Always(s),
         NEW e \in {"num", "extra", "json"},
         Holds(When(e, s), a) => Goes(f, a, v, s, w),
         ~Holds(When(e, s), a) => w = v,
         e = "json" => /\ (a.json = "object" <=> "given" \in v.checked)
                       /\ (a.json = "object" <=> "given" \in v.made)
  PROVE  Goes(f, a, v, When(e, s), w)
<1> DEFINE z == When(e, s)
<1>1. z.op = s.op /\ z.if = e /\ s.if = "always"
  BY WhenFields
<1>2. Holds(s, a)
  BY <1>1 DEF Holds
<1>3. Allowed(f, a, v, z) = Allowed(f, a, v, s) /\ (Holds(z, a) => After(v, z, a) = After(v, s, a))
  BY WhenSame
<1> HIDE DEF z
<1>4. CASE Holds(z, a)
  <2>1. Fits(f, a, v, s) /\ After(v, s, a) = w
    BY <1>4 DEF Goes, z
  <2> QED BY <2>1, <1>1, <1>2, <1>3, <1>4 DEF Goes, Fits, z
<1>5. CASE ~Holds(z, a)
  <2>1. w = v
    BY <1>5 DEF z
  <2> QED BY <2>1, <1>1, <1>5 DEF Goes, Fits, After, z
<1> QED BY <1>4, <1>5

LEMMA WhenNum ==
  ASSUME NEW f, NEW a, NEW v, NEW w, NEW s, Always(s),
         a.num # "none" => Goes(f, a, v, s, w), a.num = "none" => w = v
  PROVE  Goes(f, a, v, When("num", s), w)
<1>1. Holds(When("num", s), a) <=> a.num # "none"
  BY WhenFields DEF Holds
<1> QED BY <1>1, WhenGoes

LEMMA WhenExtra ==
  ASSUME NEW f, NEW a, NEW v, NEW w, NEW s, Always(s),
         a.extra => Goes(f, a, v, s, w), ~a.extra => w = v
  PROVE  Goes(f, a, v, When("extra", s), w)
<1>1. Holds(When("extra", s), a) <=> a.extra
  BY WhenFields DEF Holds
<1> QED BY <1>1, WhenGoes

LEMMA WhenJson ==
  ASSUME NEW f, NEW a, NEW v, NEW w, NEW s, Always(s),
         a.json = "object" => Goes(f, a, v, s, w), a.json # "object" => w = v,
         (a.json = "object" <=> "given" \in v.checked),
         (a.json = "object" <=> "given" \in v.made)
  PROVE  Goes(f, a, v, When("json", s), w)
<1>1. Holds(When("json", s), a) <=> a.json = "object"
  BY WhenFields DEF Holds
<1> QED BY <1>1, WhenGoes

\* What a condition on the arguments adds.
OnNum(a, x) == IF a.num # "none" THEN {x} ELSE {}
OnExtra(a, x) == IF a.extra THEN {x} ELSE {}

\* A program that goes from one view to the next keeps the discipline.
LEMMA Outlined ==
  ASSUME NEW f, NEW a, NEW W, NEW n \in 1..49, NEW z, z = n + 1, Len(Program(f)) = n,
         W[1] = Start, Ends(f, W[z]),
         \A i \in 1..n : Goes(f, a, W[i], Program(f)[i], W[i + 1])
  PROVE  Disciplined(f, a)
<1>1. Outline(f, a, W)
  BY DEF Outline, Goes
<1> QED BY <1>1 DEF Disciplined

-----------------------------------------------------------------------------
(* The functions, one by one: what is known before each statement.  t1, t2   *)
(* and so on are the members set so far, g what the caller's JSON gives.     *)

LEMMA PathOnlyKeeps ==
  ASSUME NEW a \in Argument,
         NEW f \in {"get_resource", "quick_validate", "check_in", "delete_machine", "machine_action", "ping_process", "delete_process"}
  PROVE  Disciplined(f, a)
<1> DEFINE v1 == V({}, {}, {}, {}, {}, {}, {})
           v2 == v1
           v3 == V({}, {}, {}, {}, {}, {}, {"id"})
           v4 == V({"path"}, {}, {}, {}, {}, {}, {"id"})
           v5 == V({"path"}, {"path"}, {}, {}, {}, {}, {"id"})
           v6 == V({"path", "response"}, {"path"}, {}, {}, {}, {}, {"id", "sent"})
           v7 == V({"path", "response"}, {"path"}, {}, {"path"}, {}, {}, {"id",
                 "sent"})
<1>1. Goes(f, a, v1, Need, v2)
  BY NeedGoes DEF v1, v2
<1>2. Goes(f, a, v2, Uuid("id", "NULL_ARGUMENT"), v3)
  BY UuidGoes DEF v2, v1, v3
<1>3. Goes(f, a, v3, New("path"), v4)
  BY NewGoes DEF v3, v4, Names
<1>4. Goes(f, a, v4, Check({"path"}, {}, Oom), v5)
  BY CheckOneGoes DEF v4, v5, Names, Lost, Flat
<1>5. Goes(f, a, v5, Send, v6)
  <2>1. Body(f, a) = {}
    BY DEF Body
  <2>2. Query(f, a) = {}
    BY DEF Query
  <2> QED BY SendGoes, <2>1, <2>2 DEF v5, v6
<1>6. Goes(f, a, v6, Free({"path"}), v7)
  BY FreeGoes DEF v6, v7, Names
<1>7. Ends(f, v7)
  BY DEF Ends, Clean, Spent, V, v7
<1> DEFINE p == Program(f)
           W == <<v1, v2, v3, v4, v5, v6, v7>>
<1>p. p = PathOnly
  BY DEF Program, GetResource, QuickValidate, CheckIn, DeleteMachine, MachineAction,
    PingProcess, DeleteProcess
<1>8. /\ Len(p) = 6
      /\ p[1] = Need
      /\ p[2] = Uuid("id", "NULL_ARGUMENT")
      /\ p[3] = New("path")
      /\ p[4] = Check({"path"}, {}, Oom)
      /\ p[5] = Send
      /\ p[6] = Free({"path"})
  BY <1>p DEF PathOnly, Needed, BuildPath
<1> HIDE DEF p, v1, v2, v3, v4, v5, v6, v7
<1>9. \A i \in 1..6 : Goes(f, a, W[i], p[i], W[i + 1])
  BY <1>1, <1>2, <1>3, <1>4, <1>5, <1>6, <1>8
<1>10. Len(p) = 6 /\ W[1] = Start /\ Ends(f, W[7])
  BY <1>7, <1>8 DEF v1, Start
<1> HIDE DEF W
<1>11. 6 \in 1..49 /\ 7 = 6 + 1
  OBVIOUS
<1> QED BY <1>9, <1>10, <1>11, Outlined, Zenon DEF p

LEMMA ListSigningKeysKeeps ==
  ASSUME NEW a \in Argument,
         NEW f \in {"list_signing_keys", "health"}
  PROVE  Disciplined(f, a)
<1> DEFINE v1 == V({}, {}, {}, {}, {}, {}, {})
           v2 == v1
           v3 == V({"response"}, {}, {}, {}, {}, {}, {"sent"})
<1>1. Goes(f, a, v1, Need, v2)
  BY NeedGoes DEF v1, v2
<1>2. Goes(f, a, v2, Send, v3)
  <2>1. Body(f, a) = {}
    BY DEF Body
  <2>2. Query(f, a) = {}
    BY DEF Query
  <2> QED BY SendGoes, <2>1, <2>2 DEF v2, v1, v3
<1>3. Ends(f, v3)
  BY DEF Ends, Clean, Spent, V, v3
<1> DEFINE p == Program(f)
           W == <<v1, v2, v3>>
<1>p. p = <<Need, Send>>
  BY DEF Program, Health, ListSigningKeys
<1>4. /\ Len(p) = 2
      /\ p[1] = Need
      /\ p[2] = Send
  BY <1>p
<1> HIDE DEF p, v1, v2, v3
<1>5. \A i \in 1..2 : Goes(f, a, W[i], p[i], W[i + 1])
  BY <1>1, <1>2, <1>4
<1>6. Len(p) = 2 /\ W[1] = Start /\ Ends(f, W[3])
  BY <1>3, <1>4 DEF v1, Start
<1> HIDE DEF W
<1>7. 2 \in 1..49 /\ 3 = 2 + 1
  OBVIOUS
<1> QED BY <1>5, <1>6, <1>7, Outlined, Zenon DEF p

LEMMA ValidateByKeyKeeps == ASSUME NEW a \in Argument PROVE
  Disciplined("validate_by_key", a)
<1> DEFINE s1 == {"root", "text", "response"}
           t1 == {<<"root", "key">>}
           v1 == V({}, {}, {}, {}, {}, {}, {})
           v2 == v1
           v3 == V({"root"}, {}, {}, {}, {}, {}, {})
           v4 == V({"root"}, {"root"}, {}, {}, {}, {}, {})
           v5 == V({"root"}, {"root"}, {}, {}, t1, {}, {})
           v6 == V({"root", "text"}, {"root"}, {}, {}, t1, {}, {})
           v7 == V({"root", "text"}, {"root"}, {}, {"root"}, t1, {}, {})
           v8 == V({"root", "text"}, {"root", "text"}, {}, {"root"}, t1, {}, {})
           v9 == V(s1, {"root", "text"}, {}, {"root"}, t1, {}, {"sent"})
           v10 == V(s1, {"root", "text"}, {}, {"root", "text"}, t1, {}, {"sent"})
<1> HIDE DEF t1
<1>1. Goes("validate_by_key", a, v1, Need, v2)
  BY NeedGoes DEF v1, v2
<1>2. Goes("validate_by_key", a, v2, New("root"), v3)
  BY NewGoes DEF v2, v1, v3, Names
<1>3. Goes("validate_by_key", a, v3, Check({"root"}, {"root"}, Oom), v4)
  BY CheckOneGoes DEF v3, v4, Names, Lost, Flat
<1>4. Goes("validate_by_key", a, v4, Leaf("key", "root", {"root"}), v5)
  BY LeafGoes DEF v4, v5, Names, Lost, Flat, t1, Keys
<1>5. Goes("validate_by_key", a, v5, Write("text"), v6)
  <2>1. \A e \in t1 : e[1] \in {"root"} /\ e[1] \in {"root"}
    BY DEF t1
  <2> QED BY WriteGoes, <2>1 DEF v5, v6
<1>6. Goes("validate_by_key", a, v6, Free({"root"}), v7)
  BY FreeGoes DEF v6, v7, Names
<1>7. Goes("validate_by_key", a, v7, Check({"text"}, {}, Oom), v8)
  BY CheckOneGoes DEF v7, v8, Names, Lost, Flat
<1>8. Goes("validate_by_key", a, v8, Send, v9)
  <2>1. Body("validate_by_key", a) = t1
    BY DEF Body, t1
  <2>2. Query("validate_by_key", a) = {}
    BY DEF Query
  <2> QED BY SendGoes, <2>1, <2>2 DEF v8, v9
<1>9. Goes("validate_by_key", a, v9, Free({"text"}), v10)
  BY FreeGoes DEF v9, v10, Names
<1>10. Ends("validate_by_key", v10)
  BY DEF Ends, Clean, Spent, V, v10
<1> DEFINE p == Program("validate_by_key")
           W == <<v1, v2, v3, v4, v5, v6, v7, v8, v9, v10>>
<1>11. /\ Len(p) = 9
       /\ p[1] = Need
       /\ p[2] = New("root")
       /\ p[3] = Check({"root"}, {"root"}, Oom)
       /\ p[4] = Leaf("key", "root", {"root"})
       /\ p[5] = Write("text")
       /\ p[6] = Free({"root"})
       /\ p[7] = Check({"text"}, {}, Oom)
       /\ p[8] = Send
       /\ p[9] = Free({"text"})
  BY DEF Program, TextOnly, ValidateByKey
<1> HIDE DEF p, v1, v2, v3, v4, v5, v6, v7, v8, v9, v10
<1>12. \A i \in 1..9 : Goes("validate_by_key", a, W[i], p[i], W[i + 1])
  BY <1>1, <1>2, <1>3, <1>4, <1>5, <1>6, <1>7, <1>8, <1>9, <1>11
<1>13. Len(p) = 9 /\ W[1] = Start /\ Ends("validate_by_key", W[10])
  BY <1>10, <1>11 DEF v1, Start
<1> HIDE DEF W
<1>14. 9 \in 1..49 /\ 10 = 9 + 1
  OBVIOUS
<1> QED BY <1>12, <1>13, <1>14, Outlined, Zenon DEF p

LEMMA ValidateByIdKeeps == ASSUME NEW a \in Argument PROVE
  Disciplined("validate_by_id", a)
<1> DEFINE g == Given(a)
           s1 == g \cup {"root", "meta", "text"}
           s2 == g \cup {"root", "meta", "text", "path"}
           s3 == g \cup {"root", "meta", "text", "path", "response"}
           t1 == {<<"root", "meta">>}
           t2 == t1 \cup {<<"meta", "skip_touch">>}
           t3 == t2 \cup {<<"meta", k>> : k \in g}
           v1 == V({}, {}, {}, {}, {}, {}, {})
           v2 == v1
           v3 == V({}, {}, {}, {}, {}, {}, {"id"})
           v4 == V(g, g, {}, {}, {}, {}, {"id"})
           v5 == V(g \cup {"root"}, g, {}, {}, {}, {}, {"id"})
           v6 == V(g \cup {"root", "meta"}, g, {}, {}, {}, {}, {"id"})
           v7 == V(g \cup {"root", "meta"}, g \cup {"root", "meta"}, {}, {}, {}, {},
                 {"id"})
           v8 == V(g \cup {"root", "meta"}, g \cup {"root", "meta"}, {"meta"}, {}, t1,
                 {}, {"id"})
           v9 == V(g \cup {"root", "meta"}, g \cup {"root", "meta"}, {"meta"}, {}, t2,
                 {}, {"id"})
           v10 == V(g \cup {"root", "meta"}, g \cup {"root", "meta"}, g \cup {"meta"},
                 {}, t3, {}, {"id"})
           v11 == V(s1, g \cup {"root", "meta"}, g \cup {"meta"}, {}, t3, {}, {"id"})
           v12 == V(s1, g \cup {"root", "meta"}, g \cup {"meta"}, {"root"}, t3, {},
                 {"id"})
           v13 == V(s2, g \cup {"root", "meta"}, g \cup {"meta"}, {"root"}, t3, {},
                 {"id"})
           v14 == V(s2, s2, g \cup {"meta"}, {"root"}, t3, {}, {"id"})
           v15 == V(s3, s2, g \cup {"meta"}, {"root"}, t3, {}, {"id", "sent"})
           v16 == V(s3, s2, g \cup {"meta"}, {"root", "text", "path"}, t3, {}, {"id",
                 "sent"})
<1>0. g \subseteq {"given"} /\ (a.json = "object" <=> g = {"given"})
  BY DEF Given
<1> HIDE DEF g, t1, t2, t3
<1>1. Goes("validate_by_id", a, v1, Need, v2)
  BY <1>0, NeedGoes DEF v1, v2
<1>2. Goes("validate_by_id", a, v2, Uuid("id", "NULL_ARGUMENT"), v3)
  BY <1>0, UuidGoes DEF v2, v1, v3
<1>3. Goes("validate_by_id", a, v3, Parse, v4)
  BY <1>0, ParseGoes DEF v3, v4, g
<1>4. Goes("validate_by_id", a, v4, New("root"), v5)
  BY <1>0, NewGoes DEF v4, v5, Names
<1>5. Goes("validate_by_id", a, v5, New("meta"), v6)
  BY <1>0, NewGoes DEF v5, v6, Names
<1>6. Goes("validate_by_id", a, v6, Check({"root", "meta"}, {"root", "meta", "given"},
    Oom), v7)
  <2>1. /\ ((g \cup {"root", "meta"}) \ ({} \cup {})) \ {"root", "meta", "given"}
             \subseteq Lost("validate_by_id")
        /\ {"root", "meta", "given"} \cap ({} \cup {}) = {}
        /\ {"root", "meta", "given"} \subseteq Names
        /\ {"root", "meta"} \subseteq Names
        /\ "validate_by_id" \in Flat => {"root", "meta"} \subseteq (g \cup {"root",
             "meta"}) \ {"query", "response"}
        /\ {"id"} \cap {"sent", "decided"} = {}
        /\ {"id"} = {"id"} \ {"late"}
    BY <1>0 DEF Names, Lost, Flat
  <2> QED BY <2>1, CheckGoes, ZenonT(40) DEF v6, v7
<1>7. Goes("validate_by_id", a, v7, Put("meta", "root", {"root", "given"}), v8)
  <2>1. /\ ((g \cup {"root", "meta"}) \ ({} \cup {})) \ ({"root", "given"} \cup
             {"meta"}) \subseteq Lost("validate_by_id")
        /\ ({"root", "given"} \cup {"meta"}) \cap ({} \cup {}) = {}
        /\ ({"root", "given"} \cup {"meta"}) \subseteq Names
        /\ "meta" \notin {"root", "given"}
        /\ "meta" \in Names \ {"root", "text", "query", "response"}
        /\ "root" \in (g \cup {"root", "meta"})
        /\ "root" \in {"root"} \cup {}
        /\ "text" \notin (g \cup {"root", "meta"})
        /\ {"id"} \cap {"sent", "decided"} = {}
        /\ {"meta"} = {} \cup {"meta"}
        /\ t1 = {} \cup {<<"root", "meta">>}
    BY <1>0 DEF Names, Lost, Flat, t1
  <2> QED BY <2>1, PutGoes, ZenonT(40) DEF v7, v8
<1>8. Goes("validate_by_id", a, v8, Leaf("skip_touch", "meta", {"root", "given"}), v9)
  BY <1>0, LeafGoes DEF v8, v9, Names, Lost, Flat, t2, Keys
<1>9. Goes("validate_by_id", a, v9, When("json", Put("given", "meta", {"root"})), v10)
  <2>1. ASSUME a.json = "object" PROVE Goes("validate_by_id", a, v9, Put("given", "meta", {"root"}), v10)
    BY <2>1, <1>0, PutGoes DEF v9, v10, Names, Lost, Flat, t3
  <2>2. ASSUME ~(a.json = "object") PROVE v10 = v9
    BY <2>2, <1>0 DEF v9, v10, Names, Lost, Flat, t3, V
  <2>3. /\ a.json = "object" <=> "given" \in v9.checked
        /\ a.json = "object" <=> "given" \in v9.made
    <3>1. v9.checked = g \cup {"root", "meta"} /\ v9.made = g \cup {"root", "meta"}
      BY DEF v9, V
    <3> QED BY <1>0, <3>1
  <2> QED BY <2>1, <2>2, <2>3, WhenJson, StepIs, CheckIs DEF Put
<1>10. Goes("validate_by_id", a, v10, Write("text"), v11)
  <2>1. \A e \in t3 : e[1] \in {"root", "meta"} /\ e[1] \in {"root", "meta"}
    BY DEF t1, t2, t3
  <2> QED BY <1>0, WriteGoes, <2>1 DEF v10, v11
<1>11. Goes("validate_by_id", a, v11, Free({"root"}), v12)
  BY <1>0, FreeGoes DEF v11, v12, Names
<1>12. Goes("validate_by_id", a, v12, New("path"), v13)
  BY <1>0, NewGoes DEF v12, v13, Names
<1>13. Goes("validate_by_id", a, v13, Check({"text", "path"}, {"text", "path"}, Oom),
    v14)
  BY <1>0, CheckGoes DEF v13, v14, Names, Lost, Flat
<1>14. Goes("validate_by_id", a, v14, Send, v15)
  <2>1. Body("validate_by_id", a) = t3
    BY DEF Body, t1, t2, t3, Given, g
  <2>2. Query("validate_by_id", a) = {}
    BY DEF Query
  <2> QED BY <1>0, SendGoes, <2>1, <2>2 DEF v14, v15
<1>15. Goes("validate_by_id", a, v15, Free({"text", "path"}), v16)
  BY <1>0, FreeGoes DEF v15, v16, Names
<1>16. Ends("validate_by_id", v16)
  BY <1>0 DEF Ends, Clean, Spent, V, v16
<1> DEFINE p == Program("validate_by_id")
           W == <<v1, v2, v3, v4, v5, v6, v7, v8, v9, v10, v11, v12, v13, v14, v15, v16>>
<1>17. /\ Len(p) = 15
       /\ p[1] = Need
       /\ p[2] = Uuid("id", "NULL_ARGUMENT")
       /\ p[3] = Parse
       /\ p[4] = New("root")
       /\ p[5] = New("meta")
       /\ p[6] = Check({"root", "meta"}, {"root", "meta", "given"}, Oom)
       /\ p[7] = Put("meta", "root", {"root", "given"})
       /\ p[8] = Leaf("skip_touch", "meta", {"root", "given"})
       /\ p[9] = When("json", Put("given", "meta", {"root"}))
       /\ p[10] = Write("text")
       /\ p[11] = Free({"root"})
       /\ p[12] = New("path")
       /\ p[13] = Check({"text", "path"}, {"text", "path"}, Oom)
       /\ p[14] = Send
       /\ p[15] = Free({"text", "path"})
  BY DEF Program, Needed, TextAndPath, ValidateById
<1> HIDE DEF p, v1, v2, v3, v4, v5, v6, v7, v8, v9, v10, v11, v12, v13, v14, v15, v16
<1>18. \A i \in 1..15 : Goes("validate_by_id", a, W[i], p[i], W[i + 1])
  BY <1>1, <1>2, <1>3, <1>4, <1>5, <1>6, <1>7, <1>8, <1>9, <1>10, <1>11, <1>12, <1>13,
    <1>14, <1>15, <1>17
<1>19. Len(p) = 15 /\ W[1] = Start /\ Ends("validate_by_id", W[16])
  BY <1>16, <1>17 DEF v1, Start
<1> HIDE DEF W
<1>20. 15 \in 1..49 /\ 16 = 15 + 1
  OBVIOUS
<1> QED BY <1>18, <1>19, <1>20, Outlined, Zenon DEF p

LEMMA CheckoutRawKeeps == ASSUME NEW a \in Argument PROVE Disciplined("check_out", a)
<1> DEFINE s1 == {"path", "query", "response"}
           v1 == V({}, {}, {}, {}, {}, {}, {})
           v2 == v1
           v3 == V({}, {}, {}, {}, {}, {}, {"id"})
           v4 == v3
           v5 == V({"path"}, {}, {}, {}, {}, {}, {"id"})
           v6 == V({"path"}, {"path"}, {}, {}, {}, {}, {"id"})
           v7 == V({"path"}, {"path"}, {}, {}, {}, {"encrypt"}, {"id", "appended"})
           v8 == V({"path"}, {"path"}, {}, {}, {}, OnNum(a, "ttl") \cup {"encrypt"},
                 {"id", "appended"})
           v9 == V({"path", "query"}, {"path"}, {}, {}, {}, OnNum(a, "ttl") \cup
                 {"encrypt"}, {"id", "appended"})
           v10 == V({"path", "query"}, {"path", "query"}, {}, {}, {}, OnNum(a, "ttl")
                 \cup {"encrypt"}, {"id", "appended"})
           v11 == V(s1, {"path", "query"}, {}, {}, {}, OnNum(a, "ttl") \cup
                 {"encrypt"}, {"id", "appended", "sent"})
           v12 == V(s1, {"path", "query"}, {}, {"path", "query", "text"}, {}, OnNum(a,
                 "ttl") \cup {"encrypt"}, {"id", "appended", "sent"})
<1>1. Goes("check_out", a, v1, Need, v2)
  BY NeedGoes DEF v1, v2
<1>2. Goes("check_out", a, v2, Uuid("id", "NULL_ARGUMENT"), v3)
  BY UuidGoes DEF v2, v1, v3
<1>3. Goes("check_out", a, v3, Bounds("TTL_INVALID"), v4)
  BY BoundsGoes DEF v3, v4
<1>4. Goes("check_out", a, v4, New("path"), v5)
  BY NewGoes DEF v4, v3, v5, Names
<1>5. Goes("check_out", a, v5, Check({"path"}, {}, Oom), v6)
  BY CheckOneGoes DEF v5, v6, Names, Lost, Flat
<1>6. Goes("check_out", a, v6, Plain("encrypt"), v7)
  BY PlainGoes DEF v6, v7
<1>7. Goes("check_out", a, v7, When("num", Plain("ttl")), v8)
  <2>1. ASSUME a.num # "none" PROVE Goes("check_out", a, v7, Plain("ttl"), v8)
    BY <2>1, PlainGoes DEF v7, v8, OnNum
  <2>2. ASSUME ~(a.num # "none") PROVE v8 = v7
    BY <2>2 DEF v7, v8, OnNum, V
  <2> QED BY <2>1, <2>2, WhenNum, StepIs, CheckIs DEF Plain
<1>8. Goes("check_out", a, v8, Detach, v9)
  BY DetachGoes DEF v8, v9, OnNum
<1>9. Goes("check_out", a, v9, Check({"query"}, {"path"}, Oom), v10)
  BY CheckOneGoes DEF v9, v10, Names, Lost, Flat, OnNum
<1>10. Goes("check_out", a, v10, Send, v11)
  <2>1. Body("check_out", a) = {}
    BY DEF Body
  <2>2. Query("check_out", a) = OnNum(a, "ttl") \cup {"encrypt"}
    BY DEF Query, OnNum
  <2> QED BY SendGoes, <2>1, <2>2 DEF v10, v11, OnNum
<1>11. Goes("check_out", a, v11, Free({"path", "query", "text"}), v12)
  BY FreeGoes DEF v11, v12, Names, OnNum
<1>12. Ends("check_out", v12)
  BY DEF Ends, Clean, Spent, V, v12
<1> DEFINE p == Program("check_out")
           W == <<v1, v2, v3, v4, v5, v6, v7, v8, v9, v10, v11, v12>>
<1>13. /\ Len(p) = 11
       /\ p[1] = Need
       /\ p[2] = Uuid("id", "NULL_ARGUMENT")
       /\ p[3] = Bounds("TTL_INVALID")
       /\ p[4] = New("path")
       /\ p[5] = Check({"path"}, {}, Oom)
       /\ p[6] = Plain("encrypt")
       /\ p[7] = When("num", Plain("ttl"))
       /\ p[8] = Detach
       /\ p[9] = Check({"query"}, {"path"}, Oom)
       /\ p[10] = Send
       /\ p[11] = Free({"path", "query", "text"})
  BY DEF Program, Needed, BuildPath, Checkout
<1> HIDE DEF p, v1, v2, v3, v4, v5, v6, v7, v8, v9, v10, v11, v12
<1>14. \A i \in 1..11 : Goes("check_out", a, W[i], p[i], W[i + 1])
  BY <1>1, <1>2, <1>3, <1>4, <1>5, <1>6, <1>7, <1>8, <1>9, <1>10, <1>11, <1>13
<1>15. Len(p) = 11 /\ W[1] = Start /\ Ends("check_out", W[12])
  BY <1>12, <1>13 DEF v1, Start
<1> HIDE DEF W
<1>16. 11 \in 1..49 /\ 12 = 11 + 1
  OBVIOUS
<1> QED BY <1>14, <1>15, <1>16, Outlined, Zenon DEF p

LEMMA CheckoutJsonKeeps == ASSUME NEW a \in Argument PROVE
  Disciplined("check_out_json", a)
<1> DEFINE s1 == {"path", "root", "meta"}
           s2 == {"path", "root", "meta", "text"}
           s3 == {"path", "root", "meta", "text", "response"}
           t1 == {<<"root", "meta">>}
           t2 == t1 \cup {<<"meta", "encrypt">>}
           t3 == t2 \cup {<<"meta", "ttl">>}
           v1 == V({}, {}, {}, {}, {}, {}, {})
           v2 == v1
           v3 == V({}, {}, {}, {}, {}, {}, {"id"})
           v4 == v3
           v5 == V({"path"}, {}, {}, {}, {}, {}, {"id"})
           v6 == V({"path"}, {"path"}, {}, {}, {}, {}, {"id"})
           v7 == V({"path", "root"}, {"path"}, {}, {}, {}, {}, {"id"})
           v8 == V(s1, {"path"}, {}, {}, {}, {}, {"id"})
           v9 == V(s1, s1, {}, {}, {}, {}, {"id"})
           v10 == V(s1, s1, {"meta"}, {}, t1, {}, {"id"})
           v11 == V(s1, s1, {"meta"}, {}, t2, {}, {"id"})
           v12 == V(s1, s1, {"meta"}, {}, t3, {}, {"id"})
           v13 == V(s2, s1, {"meta"}, {}, t3, {}, {"id"})
           v14 == V(s2, s1, {"meta"}, {"root"}, t3, {}, {"id"})
           v15 == V(s2, s2, {"meta"}, {"root"}, t3, {}, {"id"})
           v16 == V(s3, s2, {"meta"}, {"root"}, t3, {}, {"id", "sent"})
           v17 == V(s3, s2, {"meta"}, {"root", "path", "query", "text"}, t3, {},
                 {"id", "sent"})
<1> HIDE DEF t1, t2, t3
<1>1. Goes("check_out_json", a, v1, Need, v2)
  BY NeedGoes DEF v1, v2
<1>2. Goes("check_out_json", a, v2, Uuid("id", "NULL_ARGUMENT"), v3)
  BY UuidGoes DEF v2, v1, v3
<1>3. Goes("check_out_json", a, v3, Bounds("TTL_INVALID"), v4)
  BY BoundsGoes DEF v3, v4
<1>4. Goes("check_out_json", a, v4, New("path"), v5)
  BY NewGoes DEF v4, v3, v5, Names
<1>5. Goes("check_out_json", a, v5, Check({"path"}, {}, Oom), v6)
  BY CheckOneGoes DEF v5, v6, Names, Lost, Flat
<1>6. Goes("check_out_json", a, v6, New("root"), v7)
  BY NewGoes DEF v6, v7, Names
<1>7. Goes("check_out_json", a, v7, New("meta"), v8)
  BY NewGoes DEF v7, v8, Names
<1>8. Goes("check_out_json", a, v8, Check({"root", "meta"}, {"root", "meta", "path"},
    Oom), v9)
  BY CheckGoes DEF v8, v9, Names, Lost, Flat
<1>9. Goes("check_out_json", a, v9, Put("meta", "root", {"root", "path"}), v10)
  BY PutGoes DEF v9, v10, Names, Lost, Flat, t1
<1>10. Goes("check_out_json", a, v10, Leaf("encrypt", "meta", {"root", "path"}), v11)
  BY LeafGoes DEF v10, v11, Names, Lost, Flat, t2, Keys
<1>11. Goes("check_out_json", a, v11, Leaf("ttl", "meta", {"root", "path"}), v12)
  BY LeafGoes DEF v11, v12, Names, Lost, Flat, t3, Keys
<1>12. Goes("check_out_json", a, v12, Write("text"), v13)
  <2>1. \A e \in t3 : e[1] \in {"path", "root", "meta"} /\ e[1] \in {"root", "meta"}
    BY DEF t1, t2, t3
  <2> QED BY WriteGoes, <2>1 DEF v12, v13
<1>13. Goes("check_out_json", a, v13, Free({"root"}), v14)
  BY FreeGoes DEF v13, v14, Names
<1>14. Goes("check_out_json", a, v14, Check({"text"}, {"path"}, Oom), v15)
  BY CheckOneGoes DEF v14, v15, Names, Lost, Flat
<1>15. Goes("check_out_json", a, v15, Send, v16)
  <2>1. Body("check_out_json", a) = t3
    BY DEF Body, t1, t2, t3
  <2>2. Query("check_out_json", a) = {}
    BY DEF Query
  <2> QED BY SendGoes, <2>1, <2>2 DEF v15, v16
<1>16. Goes("check_out_json", a, v16, Free({"path", "query", "text"}), v17)
  BY FreeGoes DEF v16, v17, Names
<1>17. Ends("check_out_json", v17)
  BY DEF Ends, Clean, Spent, V, v17
<1> DEFINE p == Program("check_out_json")
           W == <<v1, v2, v3, v4, v5, v6, v7, v8, v9, v10, v11, v12, v13, v14, v15, v16, v17>>
<1>18. /\ Len(p) = 16
       /\ p[1] = Need
       /\ p[2] = Uuid("id", "NULL_ARGUMENT")
       /\ p[3] = Bounds("TTL_INVALID")
       /\ p[4] = New("path")
       /\ p[5] = Check({"path"}, {}, Oom)
       /\ p[6] = New("root")
       /\ p[7] = New("meta")
       /\ p[8] = Check({"root", "meta"}, {"root", "meta", "path"}, Oom)
       /\ p[9] = Put("meta", "root", {"root", "path"})
       /\ p[10] = Leaf("encrypt", "meta", {"root", "path"})
       /\ p[11] = Leaf("ttl", "meta", {"root", "path"})
       /\ p[12] = Write("text")
       /\ p[13] = Free({"root"})
       /\ p[14] = Check({"text"}, {"path"}, Oom)
       /\ p[15] = Send
       /\ p[16] = Free({"path", "query", "text"})
  BY DEF Program, Needed, BuildPath, Checkout
<1> HIDE DEF p, v1, v2, v3, v4, v5, v6, v7, v8, v9, v10, v11, v12, v13, v14, v15, v16,
    v17
<1>19. \A i \in 1..16 : Goes("check_out_json", a, W[i], p[i], W[i + 1])
  BY <1>1, <1>2, <1>3, <1>4, <1>5, <1>6, <1>7, <1>8, <1>9, <1>10, <1>11, <1>12, <1>13,
    <1>14, <1>15, <1>16, <1>18
<1>20. Len(p) = 16 /\ W[1] = Start /\ Ends("check_out_json", W[17])
  BY <1>17, <1>18 DEF v1, Start
<1> HIDE DEF W
<1>21. 16 \in 1..49 /\ 17 = 16 + 1
  OBVIOUS
<1> QED BY <1>19, <1>20, <1>21, Outlined, Zenon DEF p

LEMMA CreateMachineKeeps == ASSUME NEW a \in Argument PROVE
  Disciplined("create_machine", a)
<1> DEFINE g == Given(a)
           s1 == g \cup {"root", "data", "attributes", "relationships", "license",
                 "license_data"}
           s2 == {"data", "attributes", "relationships", "license", "license_data"}
           s3 == g \cup {"root", "data", "attributes", "relationships", "license",
                 "license_data", "text"}
           s4 == g \cup {"root", "data", "attributes", "relationships", "license",
                 "license_data", "text", "response"}
           t1 == {<<"root", "data">>}
           t2 == t1 \cup {<<"data", "type">>}
           t3 == t2 \cup {<<"data", "attributes">>}
           t4 == t3 \cup {<<"data", "relationships">>}
           t5 == t4 \cup {<<"relationships", "license">>}
           t6 == t5 \cup {<<"license", "license_data">>}
           t7 == t6 \cup {<<"attributes", "fingerprint">>}
           t8 == t7 \cup Copied(a)
           t9 == t8 \cup {<<"license_data", "type">>}
           t10 == t9 \cup {<<"license_data", "id">>}
           v1 == V({}, {}, {}, {}, {}, {}, {})
           v2 == v1
           v3 == V({}, {}, {}, {}, {}, {}, {"id"})
           v4 == V(g, g, {}, {}, {}, {}, {"id"})
           v5 == V(g \cup {"root"}, g, {}, {}, {}, {}, {"id"})
           v6 == V(g \cup {"root", "data"}, g, {}, {}, {}, {}, {"id"})
           v7 == V(g \cup {"root", "data", "attributes"}, g, {}, {}, {}, {}, {"id"})
           v8 == V(g \cup {"root", "data", "attributes", "relationships"}, g, {}, {},
                 {}, {}, {"id"})
           v9 == V(g \cup {"root", "data", "attributes", "relationships", "license"},
                 g, {}, {}, {}, {}, {"id"})
           v10 == V(s1, g, {}, {}, {}, {}, {"id"})
           v11 == V(s1, s1, {}, {}, {}, {}, {"id"})
           v12 == V(s1, s1, {"data"}, {}, t1, {}, {"id"})
           v13 == V(s1, s1, {"data"}, {}, t2, {}, {"id"})
           v14 == V(s1, s1, {"data", "attributes"}, {}, t3, {}, {"id"})
           v15 == V(s1, s1, {"data", "attributes", "relationships"}, {}, t4, {},
                 {"id"})
           v16 == V(s1, s1, {"data", "attributes", "relationships", "license"}, {},
                 t5, {}, {"id"})
           v17 == V(s1, s1, s2, {}, t6, {}, {"id"})
           v18 == V(s1, s1, s2, {}, t7, {}, {"id", "late"})
           v19 == V(s1, s1, s2, {}, t8, {}, {"id", "late"})
           v20 == V(s1, s1, s2, {"given"}, t8, {}, {"id", "late"})
           v21 == V(s1, s1, s2, {"given"}, t9, {}, {"id", "late"})
           v22 == V(s1, s1, s2, {"given"}, t10, {}, {"id", "late"})
           v23 == V(s1, s1, s2, {"given"}, t10, {}, {"id"})
           v24 == V(s3, s1, s2, {"given"}, t10, {}, {"id"})
           v25 == V(s3, s1, s2, {"given", "root"}, t10, {}, {"id"})
           v26 == V(s3, s3, s2, {"given", "root"}, t10, {}, {"id"})
           v27 == V(s4, s3, s2, {"given", "root"}, t10, {}, {"id", "sent"})
           v28 == V(s4, s3, s2, {"given", "root", "text"}, t10, {}, {"id", "sent"})
<1>0. g \subseteq {"given"} /\ (a.json = "object" <=> g = {"given"})
  BY DEF Given
<1> HIDE DEF g, t1, t2, t3, t4, t5, t6, t7, t8, t9, t10
<1>1. Goes("create_machine", a, v1, Need, v2)
  BY <1>0, NeedGoes DEF v1, v2
<1>2. Goes("create_machine", a, v2, Uuid("id", "NULL_ARGUMENT"), v3)
  BY <1>0, UuidGoes DEF v2, v1, v3
<1>3. Goes("create_machine", a, v3, Parse, v4)
  BY <1>0, ParseGoes DEF v3, v4, g
<1>4. Goes("create_machine", a, v4, New("root"), v5)
  BY <1>0, NewGoes DEF v4, v5, Names
<1>5. Goes("create_machine", a, v5, New("data"), v6)
  BY <1>0, NewGoes DEF v5, v6, Names
<1>6. Goes("create_machine", a, v6, New("attributes"), v7)
  BY <1>0, NewGoes DEF v6, v7, Names
<1>7. Goes("create_machine", a, v7, New("relationships"), v8)
  BY <1>0, NewGoes DEF v7, v8, Names
<1>8. Goes("create_machine", a, v8, New("license"), v9)
  BY <1>0, NewGoes DEF v8, v9, Names
<1>9. Goes("create_machine", a, v9, New("license_data"), v10)
  BY <1>0, NewGoes DEF v9, v10, Names
<1>10. Goes("create_machine", a, v10, Check({"root", "data", "attributes",
    "relationships", "license", "license_data"}, {"root", "data", "attributes",
    "relationships", "license", "license_data", "given"}, Oom), v11)
  <2>1. /\ (s1 \ ({} \cup {})) \ {"root", "data", "attributes", "relationships",
             "license", "license_data", "given"} \subseteq Lost("create_machine")
        /\ {"root", "data", "attributes", "relationships", "license", "license_data",
             "given"} \cap ({} \cup {}) = {}
        /\ {"root", "data", "attributes", "relationships", "license", "license_data",
             "given"} \subseteq Names
        /\ {"root", "data", "attributes", "relationships", "license", "license_data"}
             \subseteq Names
        /\ "create_machine" \in Flat => {"root", "data", "attributes",
             "relationships", "license", "license_data"} \subseteq s1 \ {"query",
             "response"}
        /\ {"id"} \cap {"sent", "decided"} = {}
        /\ {"id"} = {"id"} \ {"late"}
    BY <1>0 DEF Names, Lost, Flat
  <2> QED BY <2>1, CheckGoes, ZenonT(40) DEF v10, v11
<1>11. Goes("create_machine", a, v11, Put("data", "root", {"root", "attributes",
    "relationships", "license", "license_data", "given"}), v12)
  <2>1. /\ (s1 \ ({} \cup {})) \ ({"root", "attributes", "relationships", "license",
             "license_data", "given"} \cup {"data"}) \subseteq Lost("create_machine")
        /\ ({"root", "attributes", "relationships", "license", "license_data",
             "given"} \cup {"data"}) \cap ({} \cup {}) = {}
        /\ ({"root", "attributes", "relationships", "license", "license_data",
             "given"} \cup {"data"}) \subseteq Names
        /\ "data" \notin {"root", "attributes", "relationships", "license",
             "license_data", "given"}
        /\ "data" \in Names \ {"root", "text", "query", "response"}
        /\ "root" \in s1
        /\ "root" \in {"root"} \cup {}
        /\ "text" \notin s1
        /\ {"id"} \cap {"sent", "decided"} = {}
        /\ {"data"} = {} \cup {"data"}
        /\ t1 = {} \cup {<<"root", "data">>}
    BY <1>0 DEF Names, Lost, Flat, t1
  <2> QED BY <2>1, PutGoes, ZenonT(40) DEF v11, v12
<1>12. Goes("create_machine", a, v12, Leaf("type", "data", {"root", "attributes",
    "relationships", "license", "license_data", "given"}), v13)
  BY <1>0, LeafGoes DEF v12, v13, Names, Lost, Flat, t2, Keys
<1>13. Goes("create_machine", a, v13, Put("attributes", "data", {"root",
    "relationships", "license", "license_data", "given"}), v14)
  <2>1. /\ (s1 \ ({"data"} \cup {})) \ ({"root", "relationships", "license",
             "license_data", "given"} \cup {"attributes"}) \subseteq
             Lost("create_machine")
        /\ ({"root", "relationships", "license", "license_data", "given"} \cup
             {"attributes"}) \cap ({"data"} \cup {}) = {}
        /\ ({"root", "relationships", "license", "license_data", "given"} \cup
             {"attributes"}) \subseteq Names
        /\ "attributes" \notin {"root", "relationships", "license", "license_data",
             "given"}
        /\ "attributes" \in Names \ {"root", "text", "query", "response"}
        /\ "data" \in s1
        /\ "data" \in {"root"} \cup {"data"}
        /\ "text" \notin s1
        /\ {"id"} \cap {"sent", "decided"} = {}
        /\ {"data", "attributes"} = {"data"} \cup {"attributes"}
        /\ t3 = t2 \cup {<<"data", "attributes">>}
    BY <1>0 DEF Names, Lost, Flat, t3
  <2> QED BY <2>1, PutGoes, ZenonT(40) DEF v13, v14
<1>14. Goes("create_machine", a, v14, Put("relationships", "data", {"root", "license",
    "license_data", "given"}), v15)
  <2>1. /\ (s1 \ ({"data", "attributes"} \cup {})) \ ({"root", "license",
             "license_data", "given"} \cup {"relationships"}) \subseteq
             Lost("create_machine")
        /\ ({"root", "license", "license_data", "given"} \cup {"relationships"}) \cap
             ({"data", "attributes"} \cup {}) = {}
        /\ ({"root", "license", "license_data", "given"} \cup {"relationships"})
             \subseteq Names
        /\ "relationships" \notin {"root", "license", "license_data", "given"}
        /\ "relationships" \in Names \ {"root", "text", "query", "response"}
        /\ "data" \in s1
        /\ "data" \in {"root"} \cup {"data", "attributes"}
        /\ "text" \notin s1
        /\ {"id"} \cap {"sent", "decided"} = {}
        /\ {"data", "attributes", "relationships"} = {"data", "attributes"} \cup
             {"relationships"}
        /\ t4 = t3 \cup {<<"data", "relationships">>}
    BY <1>0 DEF Names, Lost, Flat, t4
  <2> QED BY <2>1, PutGoes, ZenonT(40) DEF v14, v15
<1>15. Goes("create_machine", a, v15, Put("license", "relationships", {"root",
    "license_data", "given"}), v16)
  <2>1. /\ (s1 \ ({"data", "attributes", "relationships"} \cup {})) \ ({"root",
             "license_data", "given"} \cup {"license"}) \subseteq
             Lost("create_machine")
        /\ ({"root", "license_data", "given"} \cup {"license"}) \cap ({"data",
             "attributes", "relationships"} \cup {}) = {}
        /\ ({"root", "license_data", "given"} \cup {"license"}) \subseteq Names
        /\ "license" \notin {"root", "license_data", "given"}
        /\ "license" \in Names \ {"root", "text", "query", "response"}
        /\ "relationships" \in s1
        /\ "relationships" \in {"root"} \cup {"data", "attributes", "relationships"}
        /\ "text" \notin s1
        /\ {"id"} \cap {"sent", "decided"} = {}
        /\ {"data", "attributes", "relationships", "license"} = {"data", "attributes",
             "relationships"} \cup {"license"}
        /\ t5 = t4 \cup {<<"relationships", "license">>}
    BY <1>0 DEF Names, Lost, Flat, t5
  <2> QED BY <2>1, PutGoes, ZenonT(40) DEF v15, v16
<1>16. Goes("create_machine", a, v16, Put("license_data", "license", {"root",
    "given"}), v17)
  <2>1. /\ (s1 \ ({"data", "attributes", "relationships", "license"} \cup {})) \
             ({"root", "given"} \cup {"license_data"}) \subseteq
             Lost("create_machine")
        /\ ({"root", "given"} \cup {"license_data"}) \cap ({"data", "attributes",
             "relationships", "license"} \cup {}) = {}
        /\ ({"root", "given"} \cup {"license_data"}) \subseteq Names
        /\ "license_data" \notin {"root", "given"}
        /\ "license_data" \in Names \ {"root", "text", "query", "response"}
        /\ "license" \in s1
        /\ "license" \in {"root"} \cup {"data", "attributes", "relationships",
             "license"}
        /\ "text" \notin s1
        /\ {"id"} \cap {"sent", "decided"} = {}
        /\ s2 = {"data", "attributes", "relationships", "license"} \cup
             {"license_data"}
        /\ t6 = t5 \cup {<<"license", "license_data">>}
    BY <1>0 DEF Names, Lost, Flat, t6
  <2> QED BY <2>1, PutGoes, ZenonT(40) DEF v16, v17
<1>17. Goes("create_machine", a, v17, LateLeaf("fingerprint", "attributes"), v18)
  BY <1>0, LateLeafGoes DEF v17, v18, Names, t7, Keys
<1>18. Goes("create_machine", a, v18, Copy, v19)
  BY <1>0, CopyGoes DEF v18, v19, t8, Given
<1>19. Goes("create_machine", a, v19, Free({"given"}), v20)
  BY <1>0, FreeGoes DEF v19, v20, Names
<1>20. Goes("create_machine", a, v20, LateLeaf("type", "license_data"), v21)
  BY <1>0, LateLeafGoes DEF v20, v21, Names, t9, Keys
<1>21. Goes("create_machine", a, v21, LateLeaf("id", "license_data"), v22)
  BY <1>0, LateLeafGoes DEF v21, v22, Names, t10, Keys
<1>22. Goes("create_machine", a, v22, Check({}, {"root"}, Oom), v23)
  <2>1. /\ (s1 \ (s2 \cup {"given"})) \ {"root"} \subseteq Lost("create_machine")
        /\ {"root"} \cap (s2 \cup {"given"}) = {}
        /\ {"root"} \subseteq Names
        /\ {} \subseteq Names
        /\ "create_machine" \in Flat => {} \subseteq s1 \ {"query", "response"}
        /\ {"id", "late"} \cap {"sent", "decided"} = {}
        /\ s1 = s1 \cup {}
        /\ {"id"} = {"id", "late"} \ {"late"}
    BY <1>0 DEF Names, Lost, Flat
  <2> QED BY <2>1, CheckGoes, ZenonT(40) DEF v22, v23
<1>23. Goes("create_machine", a, v23, Write("text"), v24)
  <2>1. \A e \in t10 : e[1] \in {"root", "data", "attributes", "relationships", "license", "license_data"} /\ e[1] \in {"root", "data", "attributes", "relationships", "license", "license_data"}
    BY DEF t1, t2, t3, t4, t5, t6, t7, t8, t9, t10, Copied
  <2> QED BY <1>0, WriteGoes, <2>1 DEF v23, v24
<1>24. Goes("create_machine", a, v24, Free({"root"}), v25)
  BY <1>0, FreeGoes DEF v24, v25, Names
<1>25. Goes("create_machine", a, v25, Check({"text"}, {}, Oom), v26)
  <2>1. /\ "late" \notin {"id"}
        /\ (s3 \ (s2 \cup {"given", "root"})) \ {} \subseteq {"text"}
        /\ {} \cap (s2 \cup {"given", "root"}) = {}
        /\ {} \subseteq Names
        /\ "text" \in Names
        /\ "create_machine" \in Flat => "text" \in s3 \ {"query", "response"}
        /\ {"id"} \cap {"sent", "decided"} = {}
        /\ s3 = s1 \cup {"text"}
        /\ {"id"} = {"id"} \ {"late"}
    BY <1>0 DEF Names, Lost, Flat
  <2> QED BY <2>1, CheckOneGoes, ZenonT(40) DEF v25, v26
<1>26. Goes("create_machine", a, v26, Send, v27)
  <2>1. Body("create_machine", a) = t10
    BY DEF Body, t1, t2, t3, t4, t5, t6, t7, t8, t9, t10, Copied
  <2>2. Query("create_machine", a) = {}
    BY DEF Query
  <2> QED BY <1>0, SendGoes, <2>1, <2>2 DEF v26, v27
<1>27. Goes("create_machine", a, v27, Free({"text"}), v28)
  BY <1>0, FreeGoes DEF v27, v28, Names
<1>28. Ends("create_machine", v28)
  BY <1>0 DEF Ends, Clean, Spent, V, v28
<1> DEFINE p == Program("create_machine")
           W == <<v1, v2, v3, v4, v5, v6, v7, v8, v9, v10, v11, v12, v13, v14, v15, v16, v17, v18, v19,
                  v20, v21, v22, v23, v24, v25, v26, v27, v28>>
<1>29. /\ Len(p) = 27
       /\ p[1] = Need
       /\ p[2] = Uuid("id", "NULL_ARGUMENT")
       /\ p[3] = Parse
       /\ p[4] = New("root")
       /\ p[5] = New("data")
       /\ p[6] = New("attributes")
       /\ p[7] = New("relationships")
       /\ p[8] = New("license")
       /\ p[9] = New("license_data")
       /\ p[10] = Check({"root", "data", "attributes", "relationships", "license", "license_data"}, {"root", "data", "attributes", "relationships", "license", "license_data", "given"}, Oom)
       /\ p[11] = Put("data", "root", {"root", "attributes", "relationships", "license", "license_data", "given"})
       /\ p[12] = Leaf("type", "data", {"root", "attributes", "relationships", "license", "license_data", "given"})
       /\ p[13] = Put("attributes", "data", {"root", "relationships", "license", "license_data", "given"})
       /\ p[14] = Put("relationships", "data", {"root", "license", "license_data", "given"})
       /\ p[15] = Put("license", "relationships", {"root", "license_data", "given"})
       /\ p[16] = Put("license_data", "license", {"root", "given"})
       /\ p[17] = LateLeaf("fingerprint", "attributes")
       /\ p[18] = Copy
       /\ p[19] = Free({"given"})
       /\ p[20] = LateLeaf("type", "license_data")
       /\ p[21] = LateLeaf("id", "license_data")
       /\ p[22] = Check({}, {"root"}, Oom)
       /\ p[23] = Write("text")
       /\ p[24] = Free({"root"})
       /\ p[25] = Check({"text"}, {}, Oom)
       /\ p[26] = Send
       /\ p[27] = Free({"text"})
  BY DEF Program, Needed, TextOnly, CreateMachine
<1> HIDE DEF p, v1, v2, v3, v4, v5, v6, v7, v8, v9, v10, v11, v12, v13, v14, v15, v16,
    v17, v18, v19, v20, v21, v22, v23, v24, v25, v26, v27, v28
<1>30. \A i \in 1..27 : Goes("create_machine", a, W[i], p[i], W[i + 1])
  BY <1>1, <1>2, <1>3, <1>4, <1>5, <1>6, <1>7, <1>8, <1>9, <1>10, <1>11, <1>12, <1>13,
    <1>14, <1>15, <1>16, <1>17, <1>18, <1>19, <1>20, <1>21, <1>22, <1>23, <1>24,
    <1>25, <1>26, <1>27, <1>29
<1>31. Len(p) = 27 /\ W[1] = Start /\ Ends("create_machine", W[28])
  BY <1>28, <1>29 DEF v1, Start
<1> HIDE DEF W
<1>32. 27 \in 1..49 /\ 28 = 27 + 1
  OBVIOUS
<1> QED BY <1>30, <1>31, <1>32, Outlined, Zenon DEF p

LEMMA UpdateMachineKeeps == ASSUME NEW a \in Argument PROVE
  Disciplined("update_machine", a)
<1> DEFINE g == Given(a)
           s1 == g \cup {"root", "data", "attributes"}
           s2 == g \cup {"root", "data", "attributes", "text"}
           s3 == g \cup {"root", "data", "attributes", "text", "path"}
           s4 == g \cup {"root", "data", "attributes", "text", "path", "response"}
           t1 == {<<"root", "data">>}
           t2 == t1 \cup {<<"data", "type">>}
           t3 == t2 \cup {<<"data", "attributes">>}
           t4 == t3 \cup Copied(a)
           v1 == V({}, {}, {}, {}, {}, {}, {})
           v2 == v1
           v3 == V({}, {}, {}, {}, {}, {}, {"id"})
           v4 == V(g, g, {}, {}, {}, {}, {"id"})
           v5 == V(g \cup {"root"}, g, {}, {}, {}, {}, {"id"})
           v6 == V(g \cup {"root", "data"}, g, {}, {}, {}, {}, {"id"})
           v7 == V(s1, g, {}, {}, {}, {}, {"id"})
           v8 == V(s1, s1, {}, {}, {}, {}, {"id"})
           v9 == V(s1, s1, {"data"}, {}, t1, {}, {"id"})
           v10 == V(s1, s1, {"data"}, {}, t2, {}, {"id"})
           v11 == V(s1, s1, {"data", "attributes"}, {}, t3, {}, {"id"})
           v12 == V(s1, s1, {"data", "attributes"}, {}, t4, {}, {"id", "late"})
           v13 == V(s1, s1, {"data", "attributes"}, {"given"}, t4, {}, {"id", "late"})
           v14 == V(s1, s1, {"data", "attributes"}, {"given"}, t4, {}, {"id"})
           v15 == V(s2, s1, {"data", "attributes"}, {"given"}, t4, {}, {"id"})
           v16 == V(s2, s1, {"data", "attributes"}, {"given", "root"}, t4, {}, {"id"})
           v17 == V(s3, s1, {"data", "attributes"}, {"given", "root"}, t4, {}, {"id"})
           v18 == V(s3, s3, {"data", "attributes"}, {"given", "root"}, t4, {}, {"id"})
           v19 == V(s4, s3, {"data", "attributes"}, {"given", "root"}, t4, {}, {"id",
                 "sent"})
           v20 == V(s4, s3, {"data", "attributes"}, {"given", "root", "text", "path"},
                 t4, {}, {"id", "sent"})
<1>0. g \subseteq {"given"} /\ (a.json = "object" <=> g = {"given"})
  BY DEF Given
<1> HIDE DEF g, t1, t2, t3, t4
<1>1. Goes("update_machine", a, v1, Need, v2)
  BY <1>0, NeedGoes DEF v1, v2
<1>2. Goes("update_machine", a, v2, Uuid("id", "NULL_ARGUMENT"), v3)
  BY <1>0, UuidGoes DEF v2, v1, v3
<1>3. Goes("update_machine", a, v3, Parse, v4)
  BY <1>0, ParseGoes DEF v3, v4, g
<1>4. Goes("update_machine", a, v4, New("root"), v5)
  BY <1>0, NewGoes DEF v4, v5, Names
<1>5. Goes("update_machine", a, v5, New("data"), v6)
  BY <1>0, NewGoes DEF v5, v6, Names
<1>6. Goes("update_machine", a, v6, New("attributes"), v7)
  BY <1>0, NewGoes DEF v6, v7, Names
<1>7. Goes("update_machine", a, v7, Check({"root", "data", "attributes"}, {"root",
    "data", "attributes", "given"}, Oom), v8)
  <2>1. /\ (s1 \ ({} \cup {})) \ {"root", "data", "attributes", "given"} \subseteq
             Lost("update_machine")
        /\ {"root", "data", "attributes", "given"} \cap ({} \cup {}) = {}
        /\ {"root", "data", "attributes", "given"} \subseteq Names
        /\ {"root", "data", "attributes"} \subseteq Names
        /\ "update_machine" \in Flat => {"root", "data", "attributes"} \subseteq s1 \
             {"query", "response"}
        /\ {"id"} \cap {"sent", "decided"} = {}
        /\ {"id"} = {"id"} \ {"late"}
    BY <1>0 DEF Names, Lost, Flat
  <2> QED BY <2>1, CheckGoes, ZenonT(40) DEF v7, v8
<1>8. Goes("update_machine", a, v8, Put("data", "root", {"root", "attributes",
    "given"}), v9)
  <2>1. /\ (s1 \ ({} \cup {})) \ ({"root", "attributes", "given"} \cup {"data"})
             \subseteq Lost("update_machine")
        /\ ({"root", "attributes", "given"} \cup {"data"}) \cap ({} \cup {}) = {}
        /\ ({"root", "attributes", "given"} \cup {"data"}) \subseteq Names
        /\ "data" \notin {"root", "attributes", "given"}
        /\ "data" \in Names \ {"root", "text", "query", "response"}
        /\ "root" \in s1
        /\ "root" \in {"root"} \cup {}
        /\ "text" \notin s1
        /\ {"id"} \cap {"sent", "decided"} = {}
        /\ {"data"} = {} \cup {"data"}
        /\ t1 = {} \cup {<<"root", "data">>}
    BY <1>0 DEF Names, Lost, Flat, t1
  <2> QED BY <2>1, PutGoes, ZenonT(40) DEF v8, v9
<1>9. Goes("update_machine", a, v9, Leaf("type", "data", {"root", "attributes",
    "given"}), v10)
  BY <1>0, LeafGoes DEF v9, v10, Names, Lost, Flat, t2, Keys
<1>10. Goes("update_machine", a, v10, Put("attributes", "data", {"root", "given"}),
    v11)
  <2>1. /\ (s1 \ ({"data"} \cup {})) \ ({"root", "given"} \cup {"attributes"})
             \subseteq Lost("update_machine")
        /\ ({"root", "given"} \cup {"attributes"}) \cap ({"data"} \cup {}) = {}
        /\ ({"root", "given"} \cup {"attributes"}) \subseteq Names
        /\ "attributes" \notin {"root", "given"}
        /\ "attributes" \in Names \ {"root", "text", "query", "response"}
        /\ "data" \in s1
        /\ "data" \in {"root"} \cup {"data"}
        /\ "text" \notin s1
        /\ {"id"} \cap {"sent", "decided"} = {}
        /\ {"data", "attributes"} = {"data"} \cup {"attributes"}
        /\ t3 = t2 \cup {<<"data", "attributes">>}
    BY <1>0 DEF Names, Lost, Flat, t3
  <2> QED BY <2>1, PutGoes, ZenonT(40) DEF v10, v11
<1>11. Goes("update_machine", a, v11, Copy, v12)
  BY <1>0, CopyGoes DEF v11, v12, t4, Given
<1>12. Goes("update_machine", a, v12, Free({"given"}), v13)
  BY <1>0, FreeGoes DEF v12, v13, Names
<1>13. Goes("update_machine", a, v13, Check({}, {"root"}, Oom), v14)
  <2>1. /\ (s1 \ ({"data", "attributes"} \cup {"given"})) \ {"root"} \subseteq
             Lost("update_machine")
        /\ {"root"} \cap ({"data", "attributes"} \cup {"given"}) = {}
        /\ {"root"} \subseteq Names
        /\ {} \subseteq Names
        /\ "update_machine" \in Flat => {} \subseteq s1 \ {"query", "response"}
        /\ {"id", "late"} \cap {"sent", "decided"} = {}
        /\ s1 = s1 \cup {}
        /\ {"id"} = {"id", "late"} \ {"late"}
    BY <1>0 DEF Names, Lost, Flat
  <2> QED BY <2>1, CheckGoes, ZenonT(40) DEF v13, v14
<1>14. Goes("update_machine", a, v14, Write("text"), v15)
  <2>1. \A e \in t4 : e[1] \in {"root", "data", "attributes"} /\ e[1] \in {"root", "data", "attributes"}
    BY DEF t1, t2, t3, t4, Copied
  <2> QED BY <1>0, WriteGoes, <2>1 DEF v14, v15
<1>15. Goes("update_machine", a, v15, Free({"root"}), v16)
  BY <1>0, FreeGoes DEF v15, v16, Names
<1>16. Goes("update_machine", a, v16, New("path"), v17)
  BY <1>0, NewGoes DEF v16, v17, Names
<1>17. Goes("update_machine", a, v17, Check({"text", "path"}, {"text", "path"}, Oom),
    v18)
  <2>1. /\ (s3 \ ({"data", "attributes"} \cup {"given", "root"})) \ {"text", "path"}
             \subseteq Lost("update_machine")
        /\ {"text", "path"} \cap ({"data", "attributes"} \cup {"given", "root"}) = {}
        /\ {"text", "path"} \subseteq Names
        /\ {"text", "path"} \subseteq Names
        /\ "update_machine" \in Flat => {"text", "path"} \subseteq s3 \ {"query",
             "response"}
        /\ {"id"} \cap {"sent", "decided"} = {}
        /\ s3 = s1 \cup {"text", "path"}
        /\ {"id"} = {"id"} \ {"late"}
    BY <1>0 DEF Names, Lost, Flat
  <2> QED BY <2>1, CheckGoes, ZenonT(40) DEF v17, v18
<1>18. Goes("update_machine", a, v18, Send, v19)
  <2>1. Body("update_machine", a) = t4
    BY DEF Body, t1, t2, t3, t4, Copied
  <2>2. Query("update_machine", a) = {}
    BY DEF Query
  <2> QED BY <1>0, SendGoes, <2>1, <2>2 DEF v18, v19
<1>19. Goes("update_machine", a, v19, Free({"text", "path"}), v20)
  BY <1>0, FreeGoes DEF v19, v20, Names
<1>20. Ends("update_machine", v20)
  BY <1>0 DEF Ends, Clean, Spent, V, v20
<1> DEFINE p == Program("update_machine")
           W == <<v1, v2, v3, v4, v5, v6, v7, v8, v9, v10, v11, v12, v13, v14, v15, v16, v17, v18, v19,
                  v20>>
<1>21. /\ Len(p) = 19
       /\ p[1] = Need
       /\ p[2] = Uuid("id", "NULL_ARGUMENT")
       /\ p[3] = Parse
       /\ p[4] = New("root")
       /\ p[5] = New("data")
       /\ p[6] = New("attributes")
       /\ p[7] = Check({"root", "data", "attributes"}, {"root", "data", "attributes", "given"}, Oom)
       /\ p[8] = Put("data", "root", {"root", "attributes", "given"})
       /\ p[9] = Leaf("type", "data", {"root", "attributes", "given"})
       /\ p[10] = Put("attributes", "data", {"root", "given"})
       /\ p[11] = Copy
       /\ p[12] = Free({"given"})
       /\ p[13] = Check({}, {"root"}, Oom)
       /\ p[14] = Write("text")
       /\ p[15] = Free({"root"})
       /\ p[16] = New("path")
       /\ p[17] = Check({"text", "path"}, {"text", "path"}, Oom)
       /\ p[18] = Send
       /\ p[19] = Free({"text", "path"})
  BY DEF Program, Needed, TextAndPath, UpdateMachine
<1> HIDE DEF p, v1, v2, v3, v4, v5, v6, v7, v8, v9, v10, v11, v12, v13, v14, v15, v16,
    v17, v18, v19, v20
<1>22. \A i \in 1..19 : Goes("update_machine", a, W[i], p[i], W[i + 1])
  BY <1>1, <1>2, <1>3, <1>4, <1>5, <1>6, <1>7, <1>8, <1>9, <1>10, <1>11, <1>12, <1>13,
    <1>14, <1>15, <1>16, <1>17, <1>18, <1>19, <1>21
<1>23. Len(p) = 19 /\ W[1] = Start /\ Ends("update_machine", W[20])
  BY <1>20, <1>21 DEF v1, Start
<1> HIDE DEF W
<1>24. 19 \in 1..49 /\ 20 = 19 + 1
  OBVIOUS
<1> QED BY <1>22, <1>23, <1>24, Outlined, Zenon DEF p

LEMMA GenerateOfflineProofKeeps == ASSUME NEW a \in Argument PROVE
  Disciplined("generate_offline_proof", a)
<1> DEFINE g == Given(a)
           s1 == {"given", "root", "meta"}
           s2 == {"root", "meta", "given"}
           s3 == {"given", "root", "meta", "text"}
           s4 == {"given", "root", "meta", "text", "path"}
           s5 == {"root", "meta", "given", "text", "path"}
           s6 == {"given", "root", "meta", "text", "path", "response"}
           t1 == {<<"root", "meta">>}
           t2 == t1 \cup {<<"meta", "given">>}
           v1 == V({}, {}, {}, {}, {}, {}, {})
           v2 == v1
           v3 == V({}, {}, {}, {}, {}, {}, {"id"})
           v4 == V(g, g, {}, {}, {}, {}, {"id"})
           v5 == V({"given"}, g, {}, {}, {}, {}, {"id"})
           v6 == V({"given", "root"}, g, {}, {}, {}, {}, {"id"})
           v7 == V(s1, g, {}, {}, {}, {}, {"id"})
           v8 == V(s1, s2, {}, {}, {}, {}, {"id"})
           v9 == V(s1, s2, {"meta"}, {}, t1, {}, {"id"})
           v10 == V(s1, s2, {"meta", "given"}, {}, t2, {}, {"id"})
           v11 == V(s3, s2, {"meta", "given"}, {}, t2, {}, {"id"})
           v12 == V(s3, s2, {"meta", "given"}, {"root"}, t2, {}, {"id"})
           v13 == V(s4, s2, {"meta", "given"}, {"root"}, t2, {}, {"id"})
           v14 == V(s4, s5, {"meta", "given"}, {"root"}, t2, {}, {"id"})
           v15 == V(s6, s5, {"meta", "given"}, {"root"}, t2, {}, {"id", "sent"})
           v16 == V(s6, s5, {"meta", "given"}, {"root", "text", "path"}, t2, {},
                 {"id", "sent"})
<1>0. g \subseteq {"given"} /\ (a.json = "object" <=> g = {"given"})
  BY DEF Given
<1> HIDE DEF g, t1, t2
<1>1. Goes("generate_offline_proof", a, v1, Need, v2)
  BY <1>0, NeedGoes DEF v1, v2
<1>2. Goes("generate_offline_proof", a, v2, Uuid("id", "NULL_ARGUMENT"), v3)
  BY <1>0, UuidGoes DEF v2, v1, v3
<1>3. Goes("generate_offline_proof", a, v3, Parse, v4)
  BY <1>0, ParseGoes DEF v3, v4, g
<1>4. Goes("generate_offline_proof", a, v4, OrEmpty, v5)
  BY <1>0, OrEmptyGoes DEF v4, v5
<1>5. Goes("generate_offline_proof", a, v5, New("root"), v6)
  BY <1>0, NewGoes DEF v5, v6, Names
<1>6. Goes("generate_offline_proof", a, v6, New("meta"), v7)
  BY <1>0, NewGoes DEF v6, v7, Names
<1>7. Goes("generate_offline_proof", a, v7, Check({"root", "meta", "given"}, {"root",
    "meta", "given"}, Oom), v8)
  <2>1. /\ (s1 \ ({} \cup {})) \ s2 \subseteq Lost("generate_offline_proof")
        /\ s2 \cap ({} \cup {}) = {}
        /\ s2 \subseteq Names
        /\ s2 \subseteq Names
        /\ "generate_offline_proof" \in Flat => s2 \subseteq s1 \ {"query",
             "response"}
        /\ {"id"} \cap {"sent", "decided"} = {}
        /\ s2 = g \cup s2
        /\ {"id"} = {"id"} \ {"late"}
    BY <1>0 DEF Names, Lost, Flat
  <2> QED BY <2>1, CheckGoes, ZenonT(40) DEF v7, v8
<1>8. Goes("generate_offline_proof", a, v8, Put("meta", "root", {"root", "given"}),
    v9)
  BY <1>0, PutGoes DEF v8, v9, Names, Lost, Flat, t1
<1>9. Goes("generate_offline_proof", a, v9, Put("given", "meta", {"root"}), v10)
  BY <1>0, PutGoes DEF v9, v10, Names, Lost, Flat, t2
<1>10. Goes("generate_offline_proof", a, v10, Write("text"), v11)
  <2>1. \A e \in t2 : e[1] \in {"root", "meta", "given"} /\ e[1] \in {"root", "meta", "given"}
    BY DEF t1, t2
  <2> QED BY <1>0, WriteGoes, <2>1 DEF v10, v11
<1>11. Goes("generate_offline_proof", a, v11, Free({"root"}), v12)
  BY <1>0, FreeGoes DEF v11, v12, Names
<1>12. Goes("generate_offline_proof", a, v12, New("path"), v13)
  BY <1>0, NewGoes DEF v12, v13, Names
<1>13. Goes("generate_offline_proof", a, v13, Check({"text", "path"}, {"text",
    "path"}, Oom), v14)
  BY <1>0, CheckGoes DEF v13, v14, Names, Lost, Flat
<1>14. Goes("generate_offline_proof", a, v14, Send, v15)
  <2>1. Body("generate_offline_proof", a) = t2
    BY DEF Body, t1, t2
  <2>2. Query("generate_offline_proof", a) = {}
    BY DEF Query
  <2> QED BY <1>0, SendGoes, <2>1, <2>2 DEF v14, v15
<1>15. Goes("generate_offline_proof", a, v15, Free({"text", "path"}), v16)
  BY <1>0, FreeGoes DEF v15, v16, Names
<1>16. Ends("generate_offline_proof", v16)
  BY <1>0 DEF Ends, Clean, Spent, V, v16
<1> DEFINE p == Program("generate_offline_proof")
           W == <<v1, v2, v3, v4, v5, v6, v7, v8, v9, v10, v11, v12, v13, v14, v15, v16>>
<1>17. /\ Len(p) = 15
       /\ p[1] = Need
       /\ p[2] = Uuid("id", "NULL_ARGUMENT")
       /\ p[3] = Parse
       /\ p[4] = OrEmpty
       /\ p[5] = New("root")
       /\ p[6] = New("meta")
       /\ p[7] = Check({"root", "meta", "given"}, {"root", "meta", "given"}, Oom)
       /\ p[8] = Put("meta", "root", {"root", "given"})
       /\ p[9] = Put("given", "meta", {"root"})
       /\ p[10] = Write("text")
       /\ p[11] = Free({"root"})
       /\ p[12] = New("path")
       /\ p[13] = Check({"text", "path"}, {"text", "path"}, Oom)
       /\ p[14] = Send
       /\ p[15] = Free({"text", "path"})
  BY DEF Program, Needed, TextAndPath, GenerateOfflineProof
<1> HIDE DEF p, v1, v2, v3, v4, v5, v6, v7, v8, v9, v10, v11, v12, v13, v14, v15, v16
<1>18. \A i \in 1..15 : Goes("generate_offline_proof", a, W[i], p[i], W[i + 1])
  BY <1>1, <1>2, <1>3, <1>4, <1>5, <1>6, <1>7, <1>8, <1>9, <1>10, <1>11, <1>12, <1>13,
    <1>14, <1>15, <1>17
<1>19. Len(p) = 15 /\ W[1] = Start /\ Ends("generate_offline_proof", W[16])
  BY <1>16, <1>17 DEF v1, Start
<1> HIDE DEF W
<1>20. 15 \in 1..49 /\ 16 = 15 + 1
  OBVIOUS
<1> QED BY <1>18, <1>19, <1>20, Outlined, Zenon DEF p

LEMMA CreateComponentKeeps == ASSUME NEW a \in Argument PROVE
  Disciplined("create_component", a)
<1> DEFINE g == Given(a)
           s1 == {"given", "root", "text"}
           s2 == {"root", "given", "text"}
           s3 == {"given", "root", "text", "response"}
           t1 == {<<"root", "machine_id">>}
           t2 == t1 \cup {<<"root", "fingerprint">>}
           t3 == t2 \cup {<<"root", "name">>}
           t4 == t3 \cup {<<"root", "given">>}
           v1 == V({}, {}, {}, {}, {}, {}, {})
           v2 == v1
           v3 == V({}, {}, {}, {}, {}, {}, {"id"})
           v4 == V(g, g, {}, {}, {}, {}, {"id"})
           v5 == V({"given"}, g, {}, {}, {}, {}, {"id"})
           v6 == V({"given", "root"}, g, {}, {}, {}, {}, {"id"})
           v7 == V({"given", "root"}, {"root", "given"}, {}, {}, {}, {}, {"id"})
           v8 == V({"given", "root"}, {"root", "given"}, {}, {}, t1, {}, {"id"})
           v9 == V({"given", "root"}, {"root", "given"}, {}, {}, t2, {}, {"id"})
           v10 == V({"given", "root"}, {"root", "given"}, {}, {}, t3, {}, {"id"})
           v11 == V({"given", "root"}, {"root", "given"}, {"given"}, {}, t4, {},
                 {"id"})
           v12 == V(s1, {"root", "given"}, {"given"}, {}, t4, {}, {"id"})
           v13 == V(s1, {"root", "given"}, {"given"}, {"root"}, t4, {}, {"id"})
           v14 == V(s1, s2, {"given"}, {"root"}, t4, {}, {"id"})
           v15 == V(s3, s2, {"given"}, {"root"}, t4, {}, {"id", "sent"})
           v16 == V(s3, s2, {"given"}, {"root", "text"}, t4, {}, {"id", "sent"})
<1>0. g \subseteq {"given"} /\ (a.json = "object" <=> g = {"given"})
  BY DEF Given
<1> HIDE DEF g, t1, t2, t3, t4
<1>1. Goes("create_component", a, v1, Need, v2)
  BY <1>0, NeedGoes DEF v1, v2
<1>2. Goes("create_component", a, v2, Uuid("id", "NULL_ARGUMENT"), v3)
  BY <1>0, UuidGoes DEF v2, v1, v3
<1>3. Goes("create_component", a, v3, Parse, v4)
  BY <1>0, ParseGoes DEF v3, v4, g
<1>4. Goes("create_component", a, v4, OrEmpty, v5)
  BY <1>0, OrEmptyGoes DEF v4, v5
<1>5. Goes("create_component", a, v5, New("root"), v6)
  BY <1>0, NewGoes DEF v5, v6, Names
<1>6. Goes("create_component", a, v6, Check({"root", "given"}, {"root"}, Oom), v7)
  <2>1. /\ ({"given", "root"} \ ({} \cup {})) \ {"root"} \subseteq
             Lost("create_component")
        /\ {"root"} \cap ({} \cup {}) = {}
        /\ {"root"} \subseteq Names
        /\ {"root", "given"} \subseteq Names
        /\ "create_component" \in Flat => {"root", "given"} \subseteq {"given",
             "root"} \ {"query", "response"}
        /\ {"id"} \cap {"sent", "decided"} = {}
        /\ {"root", "given"} = g \cup {"root", "given"}
        /\ {"id"} = {"id"} \ {"late"}
    BY <1>0 DEF Names, Lost, Flat
  <2> QED BY <2>1, CheckGoes, ZenonT(40) DEF v6, v7
<1>7. Goes("create_component", a, v7, Leaf("machine_id", "root", {"root"}), v8)
  BY <1>0, LeafGoes DEF v7, v8, Names, Lost, Flat, t1, Keys
<1>8. Goes("create_component", a, v8, Leaf("fingerprint", "root", {"root"}), v9)
  BY <1>0, LeafGoes DEF v8, v9, Names, Lost, Flat, t2, Keys
<1>9. Goes("create_component", a, v9, Leaf("name", "root", {"root"}), v10)
  BY <1>0, LeafGoes DEF v9, v10, Names, Lost, Flat, t3, Keys
<1>10. Goes("create_component", a, v10, Put("given", "root", {"root"}), v11)
  BY <1>0, PutGoes DEF v10, v11, Names, Lost, Flat, t4
<1>11. Goes("create_component", a, v11, Write("text"), v12)
  <2>1. \A e \in t4 : e[1] \in {"root", "given"} /\ e[1] \in {"root", "given"}
    BY DEF t1, t2, t3, t4
  <2> QED BY <1>0, WriteGoes, <2>1 DEF v11, v12
<1>12. Goes("create_component", a, v12, Free({"root"}), v13)
  BY <1>0, FreeGoes DEF v12, v13, Names
<1>13. Goes("create_component", a, v13, Check({"text"}, {}, Oom), v14)
  BY <1>0, CheckOneGoes DEF v13, v14, Names, Lost, Flat
<1>14. Goes("create_component", a, v14, Send, v15)
  <2>1. Body("create_component", a) = t4
    BY DEF Body, t1, t2, t3, t4
  <2>2. Query("create_component", a) = {}
    BY DEF Query
  <2> QED BY <1>0, SendGoes, <2>1, <2>2 DEF v14, v15
<1>15. Goes("create_component", a, v15, Free({"text"}), v16)
  BY <1>0, FreeGoes DEF v15, v16, Names
<1>16. Ends("create_component", v16)
  BY <1>0 DEF Ends, Clean, Spent, V, v16
<1> DEFINE p == Program("create_component")
           W == <<v1, v2, v3, v4, v5, v6, v7, v8, v9, v10, v11, v12, v13, v14, v15, v16>>
<1>17. /\ Len(p) = 15
       /\ p[1] = Need
       /\ p[2] = Uuid("id", "NULL_ARGUMENT")
       /\ p[3] = Parse
       /\ p[4] = OrEmpty
       /\ p[5] = New("root")
       /\ p[6] = Check({"root", "given"}, {"root"}, Oom)
       /\ p[7] = Leaf("machine_id", "root", {"root"})
       /\ p[8] = Leaf("fingerprint", "root", {"root"})
       /\ p[9] = Leaf("name", "root", {"root"})
       /\ p[10] = Put("given", "root", {"root"})
       /\ p[11] = Write("text")
       /\ p[12] = Free({"root"})
       /\ p[13] = Check({"text"}, {}, Oom)
       /\ p[14] = Send
       /\ p[15] = Free({"text"})
  BY DEF Program, Needed, TextOnly, CreateComponent
<1> HIDE DEF p, v1, v2, v3, v4, v5, v6, v7, v8, v9, v10, v11, v12, v13, v14, v15, v16
<1>18. \A i \in 1..15 : Goes("create_component", a, W[i], p[i], W[i + 1])
  BY <1>1, <1>2, <1>3, <1>4, <1>5, <1>6, <1>7, <1>8, <1>9, <1>10, <1>11, <1>12, <1>13,
    <1>14, <1>15, <1>17
<1>19. Len(p) = 15 /\ W[1] = Start /\ Ends("create_component", W[16])
  BY <1>16, <1>17 DEF v1, Start
<1> HIDE DEF W
<1>20. 15 \in 1..49 /\ 16 = 15 + 1
  OBVIOUS
<1> QED BY <1>18, <1>19, <1>20, Outlined, Zenon DEF p

LEMMA CreateProcessKeeps == ASSUME NEW a \in Argument PROVE
  Disciplined("create_process", a)
<1> DEFINE g == Given(a)
           s1 == {"given", "root", "text"}
           s2 == {"root", "given", "text"}
           s3 == {"given", "root", "text", "response"}
           t1 == {<<"root", "machine_id">>}
           t2 == t1 \cup {<<"root", "pid">>}
           t3 == t2 \cup {<<"root", "given">>}
           v1 == V({}, {}, {}, {}, {}, {}, {})
           v2 == v1
           v3 == V({}, {}, {}, {}, {}, {}, {"id"})
           v4 == V(g, g, {}, {}, {}, {}, {"id"})
           v5 == V({"given"}, g, {}, {}, {}, {}, {"id"})
           v6 == V({"given", "root"}, g, {}, {}, {}, {}, {"id"})
           v7 == V({"given", "root"}, {"root", "given"}, {}, {}, {}, {}, {"id"})
           v8 == V({"given", "root"}, {"root", "given"}, {}, {}, t1, {}, {"id"})
           v9 == V({"given", "root"}, {"root", "given"}, {}, {}, t2, {}, {"id"})
           v10 == V({"given", "root"}, {"root", "given"}, {"given"}, {}, t3, {},
                 {"id"})
           v11 == V(s1, {"root", "given"}, {"given"}, {}, t3, {}, {"id"})
           v12 == V(s1, {"root", "given"}, {"given"}, {"root"}, t3, {}, {"id"})
           v13 == V(s1, s2, {"given"}, {"root"}, t3, {}, {"id"})
           v14 == V(s3, s2, {"given"}, {"root"}, t3, {}, {"id", "sent"})
           v15 == V(s3, s2, {"given"}, {"root", "text"}, t3, {}, {"id", "sent"})
<1>0. g \subseteq {"given"} /\ (a.json = "object" <=> g = {"given"})
  BY DEF Given
<1> HIDE DEF g, t1, t2, t3
<1>1. Goes("create_process", a, v1, Need, v2)
  BY <1>0, NeedGoes DEF v1, v2
<1>2. Goes("create_process", a, v2, Uuid("id", "NULL_ARGUMENT"), v3)
  BY <1>0, UuidGoes DEF v2, v1, v3
<1>3. Goes("create_process", a, v3, Parse, v4)
  BY <1>0, ParseGoes DEF v3, v4, g
<1>4. Goes("create_process", a, v4, OrEmpty, v5)
  BY <1>0, OrEmptyGoes DEF v4, v5
<1>5. Goes("create_process", a, v5, New("root"), v6)
  BY <1>0, NewGoes DEF v5, v6, Names
<1>6. Goes("create_process", a, v6, Check({"root", "given"}, {"root"}, Oom), v7)
  <2>1. /\ ({"given", "root"} \ ({} \cup {})) \ {"root"} \subseteq
             Lost("create_process")
        /\ {"root"} \cap ({} \cup {}) = {}
        /\ {"root"} \subseteq Names
        /\ {"root", "given"} \subseteq Names
        /\ "create_process" \in Flat => {"root", "given"} \subseteq {"given", "root"}
             \ {"query", "response"}
        /\ {"id"} \cap {"sent", "decided"} = {}
        /\ {"root", "given"} = g \cup {"root", "given"}
        /\ {"id"} = {"id"} \ {"late"}
    BY <1>0 DEF Names, Lost, Flat
  <2> QED BY <2>1, CheckGoes, ZenonT(40) DEF v6, v7
<1>7. Goes("create_process", a, v7, Leaf("machine_id", "root", {"root"}), v8)
  BY <1>0, LeafGoes DEF v7, v8, Names, Lost, Flat, t1, Keys
<1>8. Goes("create_process", a, v8, Leaf("pid", "root", {"root"}), v9)
  BY <1>0, LeafGoes DEF v8, v9, Names, Lost, Flat, t2, Keys
<1>9. Goes("create_process", a, v9, Put("given", "root", {"root"}), v10)
  BY <1>0, PutGoes DEF v9, v10, Names, Lost, Flat, t3
<1>10. Goes("create_process", a, v10, Write("text"), v11)
  <2>1. \A e \in t3 : e[1] \in {"root", "given"} /\ e[1] \in {"root", "given"}
    BY DEF t1, t2, t3
  <2> QED BY <1>0, WriteGoes, <2>1 DEF v10, v11
<1>11. Goes("create_process", a, v11, Free({"root"}), v12)
  BY <1>0, FreeGoes DEF v11, v12, Names
<1>12. Goes("create_process", a, v12, Check({"text"}, {}, Oom), v13)
  BY <1>0, CheckOneGoes DEF v12, v13, Names, Lost, Flat
<1>13. Goes("create_process", a, v13, Send, v14)
  <2>1. Body("create_process", a) = t3
    BY DEF Body, t1, t2, t3
  <2>2. Query("create_process", a) = {}
    BY DEF Query
  <2> QED BY <1>0, SendGoes, <2>1, <2>2 DEF v13, v14
<1>14. Goes("create_process", a, v14, Free({"text"}), v15)
  BY <1>0, FreeGoes DEF v14, v15, Names
<1>15. Ends("create_process", v15)
  BY <1>0 DEF Ends, Clean, Spent, V, v15
<1> DEFINE p == Program("create_process")
           W == <<v1, v2, v3, v4, v5, v6, v7, v8, v9, v10, v11, v12, v13, v14, v15>>
<1>16. /\ Len(p) = 14
       /\ p[1] = Need
       /\ p[2] = Uuid("id", "NULL_ARGUMENT")
       /\ p[3] = Parse
       /\ p[4] = OrEmpty
       /\ p[5] = New("root")
       /\ p[6] = Check({"root", "given"}, {"root"}, Oom)
       /\ p[7] = Leaf("machine_id", "root", {"root"})
       /\ p[8] = Leaf("pid", "root", {"root"})
       /\ p[9] = Put("given", "root", {"root"})
       /\ p[10] = Write("text")
       /\ p[11] = Free({"root"})
       /\ p[12] = Check({"text"}, {}, Oom)
       /\ p[13] = Send
       /\ p[14] = Free({"text"})
  BY DEF Program, Needed, TextOnly, CreateProcess
<1> HIDE DEF p, v1, v2, v3, v4, v5, v6, v7, v8, v9, v10, v11, v12, v13, v14, v15
<1>17. \A i \in 1..14 : Goes("create_process", a, W[i], p[i], W[i + 1])
  BY <1>1, <1>2, <1>3, <1>4, <1>5, <1>6, <1>7, <1>8, <1>9, <1>10, <1>11, <1>12, <1>13,
    <1>14, <1>16
<1>18. Len(p) = 14 /\ W[1] = Start /\ Ends("create_process", W[15])
  BY <1>15, <1>16 DEF v1, Start
<1> HIDE DEF W
<1>19. 14 \in 1..49 /\ 15 = 14 + 1
  OBVIOUS
<1> QED BY <1>17, <1>18, <1>19, Outlined, Zenon DEF p

LEMMA ListKeeps == ASSUME NEW a \in Argument PROVE Disciplined("list", a)
<1> DEFINE s1 == {"query", "path", "response"}
           v1 == V({}, {}, {}, {}, {}, {}, {})
           v2 == v1
           v3 == V({}, {}, {}, {}, {}, {}, {"id"})
           v4 == V({}, {}, {}, {}, {}, {}, OnExtra(a, "second") \cup {"id"})
           v5 == V({}, {}, {}, {}, {}, OnNum(a, "limit"), OnExtra(a, "second") \cup
                 OnNum(a, "appended") \cup {"id"})
           v6 == V({}, {}, {}, {}, {}, OnNum(a, "limit") \cup OnExtra(a, "after"),
                 OnExtra(a, "second") \cup OnNum(a, "appended") \cup OnExtra(a,
                 "appended") \cup {"id"})
           v7 == V({"query"}, {}, {}, {}, {}, OnNum(a, "limit") \cup OnExtra(a,
                 "after"), OnExtra(a, "second") \cup OnNum(a, "appended") \cup
                 OnExtra(a, "appended") \cup {"id"})
           v8 == V({"query"}, {"query"}, {}, {}, {}, OnNum(a, "limit") \cup OnExtra(a,
                 "after"), OnExtra(a, "second") \cup OnNum(a, "appended") \cup
                 OnExtra(a, "appended") \cup {"id"})
           v9 == V({"query", "path"}, {"query"}, {}, {}, {}, OnNum(a, "limit") \cup
                 OnExtra(a, "after"), OnExtra(a, "second") \cup OnNum(a, "appended")
                 \cup OnExtra(a, "appended") \cup {"id"})
           v10 == V({"query", "path"}, {"query", "path"}, {}, {}, {}, OnNum(a,
                 "limit") \cup OnExtra(a, "after"), OnExtra(a, "second") \cup OnNum(a,
                 "appended") \cup OnExtra(a, "appended") \cup {"id"})
           v11 == V(s1, {"query", "path"}, {}, {}, {}, OnNum(a, "limit") \cup
                 OnExtra(a, "after"), OnExtra(a, "second") \cup OnNum(a, "appended")
                 \cup OnExtra(a, "appended") \cup {"id", "sent"})
           v12 == V(s1, {"query", "path"}, {}, {"path", "query"}, {}, OnNum(a,
                 "limit") \cup OnExtra(a, "after"), OnExtra(a, "second") \cup OnNum(a,
                 "appended") \cup OnExtra(a, "appended") \cup {"id", "sent"})
<1>1. Goes("list", a, v1, Need, v2)
  BY NeedGoes DEF v1, v2
<1>2. Goes("list", a, v2, Uuid("id", "NULL_ARGUMENT"), v3)
  BY UuidGoes DEF v2, v1, v3
<1>3. Goes("list", a, v3, When("extra", Uuid("second", "NULL_ARGUMENT")), v4)
  <2>1. ASSUME a.extra PROVE Goes("list", a, v3, Uuid("second", "NULL_ARGUMENT"), v4)
    BY <2>1, UuidGoes DEF v3, v4, OnExtra
  <2>2. ASSUME ~(a.extra) PROVE v4 = v3
    BY <2>2 DEF v3, v4, OnExtra, V
  <2> QED BY <2>1, <2>2, WhenExtra, StepIs, CheckIs DEF Uuid
<1>4. Goes("list", a, v4, When("num", Plain("limit")), v5)
  <2>1. ASSUME a.num # "none" PROVE Goes("list", a, v4, Plain("limit"), v5)
    BY <2>1, PlainGoes DEF v4, v5, OnNum, OnExtra
  <2>2. ASSUME ~(a.num # "none") PROVE v5 = v4
    BY <2>2 DEF v4, v5, OnNum, OnExtra, V
  <2> QED BY <2>1, <2>2, WhenNum, StepIs, CheckIs DEF Plain
<1>5. Goes("list", a, v5, When("extra", Plain("after")), v6)
  <2>1. ASSUME a.extra PROVE Goes("list", a, v5, Plain("after"), v6)
    BY <2>1, PlainGoes DEF v5, v6, OnNum, OnExtra
  <2>2. ASSUME ~(a.extra) PROVE v6 = v5
    BY <2>2 DEF v5, v6, OnNum, OnExtra, V
  <2> QED BY <2>1, <2>2, WhenExtra, StepIs, CheckIs DEF Plain
<1>6. Goes("list", a, v6, Detach, v7)
  BY DetachGoes DEF v6, v7, OnNum, OnExtra
<1>7. Goes("list", a, v7, Check({"query"}, {}, Oom), v8)
  BY CheckOneGoes DEF v7, v8, Names, Lost, Flat, OnNum, OnExtra
<1>8. Goes("list", a, v8, New("path"), v9)
  BY NewGoes DEF v8, v9, Names, OnNum, OnExtra
<1>9. Goes("list", a, v9, Check({"path"}, {"query"}, Oom), v10)
  BY CheckOneGoes DEF v9, v10, Names, Lost, Flat, OnNum, OnExtra
<1>10. Goes("list", a, v10, Send, v11)
  <2>1. Body("list", a) = {}
    BY DEF Body
  <2>2. Query("list", a) = OnNum(a, "limit") \cup OnExtra(a, "after")
    BY DEF Query, OnNum, OnExtra
  <2> QED BY SendGoes, <2>1, <2>2 DEF v10, v11, OnNum, OnExtra
<1>11. Goes("list", a, v11, Free({"path", "query"}), v12)
  BY FreeGoes DEF v11, v12, Names, OnNum, OnExtra
<1>12. Ends("list", v12)
  BY DEF Ends, Clean, Spent, V, v12, OnNum, OnExtra
<1> DEFINE p == Program("list")
           W == <<v1, v2, v3, v4, v5, v6, v7, v8, v9, v10, v11, v12>>
<1>13. /\ Len(p) = 11
       /\ p[1] = Need
       /\ p[2] = Uuid("id", "NULL_ARGUMENT")
       /\ p[3] = When("extra", Uuid("second", "NULL_ARGUMENT"))
       /\ p[4] = When("num", Plain("limit"))
       /\ p[5] = When("extra", Plain("after"))
       /\ p[6] = Detach
       /\ p[7] = Check({"query"}, {}, Oom)
       /\ p[8] = New("path")
       /\ p[9] = Check({"path"}, {"query"}, Oom)
       /\ p[10] = Send
       /\ p[11] = Free({"path", "query"})
  BY DEF Program, Needed, List
<1> HIDE DEF p, v1, v2, v3, v4, v5, v6, v7, v8, v9, v10, v11, v12
<1>14. \A i \in 1..11 : Goes("list", a, W[i], p[i], W[i + 1])
  BY <1>1, <1>2, <1>3, <1>4, <1>5, <1>6, <1>7, <1>8, <1>9, <1>10, <1>11, <1>13
<1>15. Len(p) = 11 /\ W[1] = Start /\ Ends("list", W[12])
  BY <1>12, <1>13 DEF v1, Start
<1> HIDE DEF W
<1>16. 11 \in 1..49 /\ 12 = 11 + 1
  OBVIOUS
<1> QED BY <1>14, <1>15, <1>16, Outlined, Zenon DEF p

LEMMA HasEntitlementKeeps == ASSUME NEW a \in Argument PROVE
  Disciplined("has_entitlement", a)
<1> DEFINE s1 == {"query", "path", "response"}
           v1 == V({}, {}, {}, {}, {}, {}, {})
           v2 == v1
           v3 == V({}, {}, {}, {}, {}, {}, {"id"})
           v4 == V({}, {}, {}, {}, {}, {}, OnExtra(a, "second") \cup {"id"})
           v5 == V({}, {}, {}, {}, {}, OnNum(a, "limit"), OnExtra(a, "second") \cup
                 OnNum(a, "appended") \cup {"id"})
           v6 == V({}, {}, {}, {}, {}, OnNum(a, "limit") \cup OnExtra(a, "after"),
                 OnExtra(a, "second") \cup OnNum(a, "appended") \cup OnExtra(a,
                 "appended") \cup {"id"})
           v7 == V({"query"}, {}, {}, {}, {}, OnNum(a, "limit") \cup OnExtra(a,
                 "after"), OnExtra(a, "second") \cup OnNum(a, "appended") \cup
                 OnExtra(a, "appended") \cup {"id"})
           v8 == V({"query"}, {"query"}, {}, {}, {}, OnNum(a, "limit") \cup OnExtra(a,
                 "after"), OnExtra(a, "second") \cup OnNum(a, "appended") \cup
                 OnExtra(a, "appended") \cup {"id"})
           v9 == V({"query", "path"}, {"query"}, {}, {}, {}, OnNum(a, "limit") \cup
                 OnExtra(a, "after"), OnExtra(a, "second") \cup OnNum(a, "appended")
                 \cup OnExtra(a, "appended") \cup {"id"})
           v10 == V({"query", "path"}, {"query", "path"}, {}, {}, {}, OnNum(a,
                 "limit") \cup OnExtra(a, "after"), OnExtra(a, "second") \cup OnNum(a,
                 "appended") \cup OnExtra(a, "appended") \cup {"id"})
           v11 == V(s1, {"query", "path"}, {}, {}, {}, OnNum(a, "limit") \cup
                 OnExtra(a, "after"), OnExtra(a, "second") \cup OnNum(a, "appended")
                 \cup OnExtra(a, "appended") \cup {"id", "sent"})
           v12 == V(s1, {"query", "path"}, {}, {"path", "query"}, {}, OnNum(a,
                 "limit") \cup OnExtra(a, "after"), OnExtra(a, "second") \cup OnNum(a,
                 "appended") \cup OnExtra(a, "appended") \cup {"id", "sent"})
           v13 == V(s1, {"query", "path"}, {}, {"path", "query"}, {}, OnNum(a,
                 "limit") \cup OnExtra(a, "after"), OnExtra(a, "second") \cup OnNum(a,
                 "appended") \cup OnExtra(a, "appended") \cup {"id", "sent",
                 "decided"})
           v14 == V(s1, {"query", "path"}, {}, {"path", "query", "response"}, {},
                 OnNum(a, "limit") \cup OnExtra(a, "after"), OnExtra(a, "second") \cup
                 OnNum(a, "appended") \cup OnExtra(a, "appended") \cup {"id", "sent",
                 "decided"})
<1>1. Goes("has_entitlement", a, v1, Need, v2)
  BY NeedGoes DEF v1, v2
<1>2. Goes("has_entitlement", a, v2, Uuid("id", "NULL_ARGUMENT"), v3)
  BY UuidGoes DEF v2, v1, v3
<1>3. Goes("has_entitlement", a, v3, When("extra", Uuid("second", "NULL_ARGUMENT")), v4)
  <2>1. ASSUME a.extra PROVE Goes("has_entitlement", a, v3, Uuid("second", "NULL_ARGUMENT"), v4)
    BY <2>1, UuidGoes DEF v3, v4, OnExtra
  <2>2. ASSUME ~(a.extra) PROVE v4 = v3
    BY <2>2 DEF v3, v4, OnExtra, V
  <2> QED BY <2>1, <2>2, WhenExtra, StepIs, CheckIs DEF Uuid
<1>4. Goes("has_entitlement", a, v4, When("num", Plain("limit")), v5)
  <2>1. ASSUME a.num # "none" PROVE Goes("has_entitlement", a, v4, Plain("limit"), v5)
    BY <2>1, PlainGoes DEF v4, v5, OnNum, OnExtra
  <2>2. ASSUME ~(a.num # "none") PROVE v5 = v4
    BY <2>2 DEF v4, v5, OnNum, OnExtra, V
  <2> QED BY <2>1, <2>2, WhenNum, StepIs, CheckIs DEF Plain
<1>5. Goes("has_entitlement", a, v5, When("extra", Plain("after")), v6)
  <2>1. ASSUME a.extra PROVE Goes("has_entitlement", a, v5, Plain("after"), v6)
    BY <2>1, PlainGoes DEF v5, v6, OnNum, OnExtra
  <2>2. ASSUME ~(a.extra) PROVE v6 = v5
    BY <2>2 DEF v5, v6, OnNum, OnExtra, V
  <2> QED BY <2>1, <2>2, WhenExtra, StepIs, CheckIs DEF Plain
<1>6. Goes("has_entitlement", a, v6, Detach, v7)
  BY DetachGoes DEF v6, v7, OnNum, OnExtra
<1>7. Goes("has_entitlement", a, v7, Check({"query"}, {}, Oom), v8)
  BY CheckOneGoes DEF v7, v8, Names, Lost, Flat, OnNum, OnExtra
<1>8. Goes("has_entitlement", a, v8, New("path"), v9)
  BY NewGoes DEF v8, v9, Names, OnNum, OnExtra
<1>9. Goes("has_entitlement", a, v9, Check({"path"}, {"query"}, Oom), v10)
  BY CheckOneGoes DEF v9, v10, Names, Lost, Flat, OnNum, OnExtra
<1>10. Goes("has_entitlement", a, v10, Send, v11)
  <2>1. Body("has_entitlement", a) = {}
    BY DEF Body
  <2>2. Query("has_entitlement", a) = OnNum(a, "limit") \cup OnExtra(a, "after")
    BY DEF Query, OnNum, OnExtra
  <2> QED BY SendGoes, <2>1, <2>2 DEF v10, v11, OnNum, OnExtra
<1>11. Goes("has_entitlement", a, v11, Free({"path", "query"}), v12)
  BY FreeGoes DEF v11, v12, Names, OnNum, OnExtra
<1>12. Goes("has_entitlement", a, v12, Search, v13)
  BY SearchGoes DEF v12, v13, Names, OnNum, OnExtra
<1>13. Goes("has_entitlement", a, v13, Free({"response"}), v14)
  BY FreeGoes DEF v13, v14, Names, OnNum, OnExtra
<1>14. Ends("has_entitlement", v14)
  BY DEF Ends, Clean, Spent, V, v14, OnNum, OnExtra
<1> DEFINE p == Program("has_entitlement")
           W == <<v1, v2, v3, v4, v5, v6, v7, v8, v9, v10, v11, v12, v13, v14>>
<1>15. /\ Len(p) = 13
       /\ p[1] = Need
       /\ p[2] = Uuid("id", "NULL_ARGUMENT")
       /\ p[3] = When("extra", Uuid("second", "NULL_ARGUMENT"))
       /\ p[4] = When("num", Plain("limit"))
       /\ p[5] = When("extra", Plain("after"))
       /\ p[6] = Detach
       /\ p[7] = Check({"query"}, {}, Oom)
       /\ p[8] = New("path")
       /\ p[9] = Check({"path"}, {"query"}, Oom)
       /\ p[10] = Send
       /\ p[11] = Free({"path", "query"})
       /\ p[12] = Search
       /\ p[13] = Free({"response"})
  BY DEF Program, Needed, List, HasEntitlement
<1> HIDE DEF p, v1, v2, v3, v4, v5, v6, v7, v8, v9, v10, v11, v12, v13, v14
<1>16. \A i \in 1..13 : Goes("has_entitlement", a, W[i], p[i], W[i + 1])
  BY <1>1, <1>2, <1>3, <1>4, <1>5, <1>6, <1>7, <1>8, <1>9, <1>10, <1>11, <1>12, <1>13,
    <1>15
<1>17. Len(p) = 13 /\ W[1] = Start /\ Ends("has_entitlement", W[14])
  BY <1>14, <1>15 DEF v1, Start
<1> HIDE DEF W
<1>18. 13 \in 1..49 /\ 14 = 13 + 1
  OBVIOUS
<1> QED BY <1>16, <1>17, <1>18, Outlined, Zenon DEF p

LEMMA GetEntitlementKeeps == ASSUME NEW a \in Argument PROVE
  Disciplined("get_entitlement", a)
<1> DEFINE v1 == V({}, {}, {}, {}, {}, {}, {})
           v2 == v1
           v3 == V({}, {}, {}, {}, {}, {}, {"id"})
           v4 == V({}, {}, {}, {}, {}, {}, {"id", "second"})
           v5 == V({"path"}, {}, {}, {}, {}, {}, {"id", "second"})
           v6 == V({"path"}, {"path"}, {}, {}, {}, {}, {"id", "second"})
           v7 == V({"path", "response"}, {"path"}, {}, {}, {}, {}, {"id", "second",
                 "sent"})
           v8 == V({"path", "response"}, {"path"}, {}, {"path"}, {}, {}, {"id",
                 "second", "sent"})
<1>1. Goes("get_entitlement", a, v1, Need, v2)
  BY NeedGoes DEF v1, v2
<1>2. Goes("get_entitlement", a, v2, Uuid("id", "NULL_ARGUMENT"), v3)
  BY UuidGoes DEF v2, v1, v3
<1>3. Goes("get_entitlement", a, v3, Uuid("second", "NULL_ARGUMENT"), v4)
  BY UuidGoes DEF v3, v4
<1>4. Goes("get_entitlement", a, v4, New("path"), v5)
  BY NewGoes DEF v4, v5, Names
<1>5. Goes("get_entitlement", a, v5, Check({"path"}, {}, Oom), v6)
  BY CheckOneGoes DEF v5, v6, Names, Lost, Flat
<1>6. Goes("get_entitlement", a, v6, Send, v7)
  <2>1. Body("get_entitlement", a) = {}
    BY DEF Body
  <2>2. Query("get_entitlement", a) = {}
    BY DEF Query
  <2> QED BY SendGoes, <2>1, <2>2 DEF v6, v7
<1>7. Goes("get_entitlement", a, v7, Free({"path"}), v8)
  BY FreeGoes DEF v7, v8, Names
<1>8. Ends("get_entitlement", v8)
  BY DEF Ends, Clean, Spent, V, v8
<1> DEFINE p == Program("get_entitlement")
           W == <<v1, v2, v3, v4, v5, v6, v7, v8>>
<1>9. /\ Len(p) = 7
      /\ p[1] = Need
      /\ p[2] = Uuid("id", "NULL_ARGUMENT")
      /\ p[3] = Uuid("second", "NULL_ARGUMENT")
      /\ p[4] = New("path")
      /\ p[5] = Check({"path"}, {}, Oom)
      /\ p[6] = Send
      /\ p[7] = Free({"path"})
  BY DEF Program, Needed, BuildPath, GetEntitlement
<1> HIDE DEF p, v1, v2, v3, v4, v5, v6, v7, v8
<1>10. \A i \in 1..7 : Goes("get_entitlement", a, W[i], p[i], W[i + 1])
  BY <1>1, <1>2, <1>3, <1>4, <1>5, <1>6, <1>7, <1>9
<1>11. Len(p) = 7 /\ W[1] = Start /\ Ends("get_entitlement", W[8])
  BY <1>8, <1>9 DEF v1, Start
<1> HIDE DEF W
<1>12. 7 \in 1..49 /\ 8 = 7 + 1
  OBVIOUS
<1> QED BY <1>10, <1>11, <1>12, Outlined, Zenon DEF p

LEMMA EntitlementUsageKeeps == ASSUME NEW a \in Argument PROVE
  Disciplined("entitlement_usage", a)
<1>1. CASE a.num # "none"
  <2>a. a.num # "none"
    BY <1>1
  <2> DEFINE s1 == {"path", "root", "text"}
             s2 == {"path", "root", "text", "response"}
             t1 == {<<"root", "amount">>}
             v1 == V({}, {}, {}, {}, {}, {}, {})
             v2 == v1
             v3 == V({}, {}, {}, {}, {}, {}, {"id"})
             v4 == V({}, {}, {}, {}, {}, {}, {"id", "second"})
             v5 == V({"path"}, {}, {}, {}, {}, {}, {"id", "second"})
             v6 == V({"path"}, {"path"}, {}, {}, {}, {}, {"id", "second"})
             v7 == V({"path", "root"}, {"path"}, {}, {}, {}, {}, {"id", "second"})
             v8 == V({"path", "root"}, {"path", "root"}, {}, {}, {}, {}, {"id",
                   "second"})
             v9 == V({"path", "root"}, {"path", "root"}, {}, {}, t1, {}, {"id",
                   "second"})
             v10 == V(s1, {"path", "root"}, {}, {}, t1, {}, {"id", "second"})
             v11 == V(s1, {"path", "root"}, {}, {"root"}, t1, {}, {"id", "second"})
             v12 == V(s1, s1, {}, {"root"}, t1, {}, {"id", "second"})
             v13 == V(s2, s1, {}, {"root"}, t1, {}, {"id", "second", "sent"})
             v14 == V(s2, s1, {}, {"root", "path", "text"}, t1, {}, {"id", "second",
                   "sent"})
  <2> HIDE DEF t1
  <2>1. Goes("entitlement_usage", a, v1, Need, v2)
    BY NeedGoes DEF v1, v2
  <2>2. Goes("entitlement_usage", a, v2, Uuid("id", "NULL_ARGUMENT"), v3)
    BY UuidGoes DEF v2, v1, v3
  <2>3. Goes("entitlement_usage", a, v3, Uuid("second", "NULL_ARGUMENT"), v4)
    BY UuidGoes DEF v3, v4
  <2>4. Goes("entitlement_usage", a, v4, New("path"), v5)
    BY NewGoes DEF v4, v5, Names
  <2>5. Goes("entitlement_usage", a, v5, Check({"path"}, {}, "NULL_ARGUMENT"), v6)
    BY BlameGoes DEF v5, v6, Names, Lost, Flat
  <2>6. Goes("entitlement_usage", a, v6, When("num", New("root")), v7)
    <3>1. Goes("entitlement_usage", a, v6, New("root"), v7)
      BY NewGoes DEF v6, v7, Names
    <3> QED BY <2>a, <3>1, WhenNum, StepIs, CheckIs DEF New
  <2>7. Goes("entitlement_usage", a, v7, When("num", Check({"root"}, {"path"}, Oom)), v8)
    <3>1. Goes("entitlement_usage", a, v7, Check({"root"}, {"path"}, Oom), v8)
      BY CheckOneGoes DEF v7, v8, Names, Lost, Flat
    <3> QED BY <2>a, <3>1, WhenNum, StepIs, CheckIs DEF Check
  <2>8. Goes("entitlement_usage", a, v8, When("num", Leaf("amount", "root", {"root", "path"})), v9)
    <3>1. Goes("entitlement_usage", a, v8, Leaf("amount", "root", {"root", "path"}), v9)
      BY LeafGoes DEF v8, v9, Names, Lost, Flat, t1, Keys
    <3> QED BY <2>a, <3>1, WhenNum, StepIs, CheckIs DEF Leaf
  <2>9. Goes("entitlement_usage", a, v9, When("num", Write("text")), v10)
    <3>1. \A e \in t1 : e[1] \in {"path", "root"} /\ e[1] \in {"root"}
      BY DEF t1
    <3>2. Goes("entitlement_usage", a, v9, Write("text"), v10)
      BY WriteGoes, <3>1 DEF v9, v10
    <3> QED BY <2>a, <3>2, WhenNum, StepIs, CheckIs DEF Write
  <2>10. Goes("entitlement_usage", a, v10, When("num", Free({"root"})), v11)
    <3>1. Goes("entitlement_usage", a, v10, Free({"root"}), v11)
      BY FreeGoes DEF v10, v11, Names
    <3> QED BY <2>a, <3>1, WhenNum, StepIs, CheckIs DEF Free
  <2>11. Goes("entitlement_usage", a, v11, When("num", Check({"text"}, {"path"}, Oom)), v12)
    <3>1. Goes("entitlement_usage", a, v11, Check({"text"}, {"path"}, Oom), v12)
      BY CheckOneGoes DEF v11, v12, Names, Lost, Flat
    <3> QED BY <2>a, <3>1, WhenNum, StepIs, CheckIs DEF Check
  <2>12. Goes("entitlement_usage", a, v12, Send, v13)
    <3>1. Body("entitlement_usage", a) = t1
      BY <2>a DEF Body, t1
    <3>2. Query("entitlement_usage", a) = {}
      BY DEF Query
    <3> QED BY SendGoes, <3>1, <3>2 DEF v12, v13
  <2>13. Goes("entitlement_usage", a, v13, Free({"path", "text"}), v14)
    BY FreeGoes DEF v13, v14, Names
  <2>14. Ends("entitlement_usage", v14)
    BY DEF Ends, Clean, Spent, V, v14
  <2> DEFINE p == Program("entitlement_usage")
             W == <<v1, v2, v3, v4, v5, v6, v7, v8, v9, v10, v11, v12, v13, v14>>
  <2>15. /\ Len(p) = 13
         /\ p[1] = Need
         /\ p[2] = Uuid("id", "NULL_ARGUMENT")
         /\ p[3] = Uuid("second", "NULL_ARGUMENT")
         /\ p[4] = New("path")
         /\ p[5] = Check({"path"}, {}, "NULL_ARGUMENT")
         /\ p[6] = When("num", New("root"))
         /\ p[7] = When("num", Check({"root"}, {"path"}, Oom))
         /\ p[8] = When("num", Leaf("amount", "root", {"root", "path"}))
         /\ p[9] = When("num", Write("text"))
         /\ p[10] = When("num", Free({"root"}))
         /\ p[11] = When("num", Check({"text"}, {"path"}, Oom))
         /\ p[12] = Send
         /\ p[13] = Free({"path", "text"})
    BY DEF Program, Needed, EntitlementPath, EntitlementUsage
  <2> HIDE DEF p, v1, v2, v3, v4, v5, v6, v7, v8, v9, v10, v11, v12, v13, v14
  <2>16. \A i \in 1..13 : Goes("entitlement_usage", a, W[i], p[i], W[i + 1])
    BY <2>1, <2>2, <2>3, <2>4, <2>5, <2>6, <2>7, <2>8, <2>9, <2>10, <2>11, <2>12, <2>13,
      <2>15
  <2>17. Len(p) = 13 /\ W[1] = Start /\ Ends("entitlement_usage", W[14])
    BY <2>14, <2>15 DEF v1, Start
  <2> HIDE DEF W
  <2>18. 13 \in 1..49 /\ 14 = 13 + 1
    OBVIOUS
  <2> QED BY <2>16, <2>17, <2>18, Outlined, Zenon DEF p
<1>2. CASE a.num = "none"
  <2>a. a.num = "none"
    BY <1>2
  <2> DEFINE v1 == V({}, {}, {}, {}, {}, {}, {})
             v2 == v1
             v3 == V({}, {}, {}, {}, {}, {}, {"id"})
             v4 == V({}, {}, {}, {}, {}, {}, {"id", "second"})
             v5 == V({"path"}, {}, {}, {}, {}, {}, {"id", "second"})
             v6 == V({"path"}, {"path"}, {}, {}, {}, {}, {"id", "second"})
             v7 == v6
             v8 == v6
             v9 == v6
             v10 == v6
             v11 == v6
             v12 == v6
             v13 == V({"path", "response"}, {"path"}, {}, {}, {}, {}, {"id", "second",
                   "sent"})
             v14 == V({"path", "response"}, {"path"}, {}, {"path", "text"}, {}, {},
                   {"id", "second", "sent"})
  <2>1. Goes("entitlement_usage", a, v1, Need, v2)
    BY NeedGoes DEF v1, v2
  <2>2. Goes("entitlement_usage", a, v2, Uuid("id", "NULL_ARGUMENT"), v3)
    BY UuidGoes DEF v2, v1, v3
  <2>3. Goes("entitlement_usage", a, v3, Uuid("second", "NULL_ARGUMENT"), v4)
    BY UuidGoes DEF v3, v4
  <2>4. Goes("entitlement_usage", a, v4, New("path"), v5)
    BY NewGoes DEF v4, v5, Names
  <2>5. Goes("entitlement_usage", a, v5, Check({"path"}, {}, "NULL_ARGUMENT"), v6)
    BY BlameGoes DEF v5, v6, Names, Lost, Flat
  <2>6. Goes("entitlement_usage", a, v6, When("num", New("root")), v7)
    <3> QED BY <2>a, WhenNum, StepIs, CheckIs DEF New, v6, v7
  <2>7. Goes("entitlement_usage", a, v7, When("num", Check({"root"}, {"path"}, Oom)), v8)
    <3> QED BY <2>a, WhenNum, StepIs, CheckIs DEF Check, v7, v6, v8
  <2>8. Goes("entitlement_usage", a, v8, When("num", Leaf("amount", "root", {"root", "path"})), v9)
    <3> QED BY <2>a, WhenNum, StepIs, CheckIs DEF Leaf, v8, v6, v9
  <2>9. Goes("entitlement_usage", a, v9, When("num", Write("text")), v10)
    <3> QED BY <2>a, WhenNum, StepIs, CheckIs DEF Write, v9, v6, v10
  <2>10. Goes("entitlement_usage", a, v10, When("num", Free({"root"})), v11)
    <3> QED BY <2>a, WhenNum, StepIs, CheckIs DEF Free, v10, v6, v11
  <2>11. Goes("entitlement_usage", a, v11, When("num", Check({"text"}, {"path"}, Oom)), v12)
    <3> QED BY <2>a, WhenNum, StepIs, CheckIs DEF Check, v11, v6, v12
  <2>12. Goes("entitlement_usage", a, v12, Send, v13)
    <3>1. Body("entitlement_usage", a) = {}
      BY <2>a DEF Body
    <3>2. Query("entitlement_usage", a) = {}
      BY DEF Query
    <3> QED BY SendGoes, <3>1, <3>2 DEF v12, v6, v13
  <2>13. Goes("entitlement_usage", a, v13, Free({"path", "text"}), v14)
    BY FreeGoes DEF v13, v14, Names
  <2>14. Ends("entitlement_usage", v14)
    BY DEF Ends, Clean, Spent, V, v14
  <2> DEFINE p == Program("entitlement_usage")
             W == <<v1, v2, v3, v4, v5, v6, v7, v8, v9, v10, v11, v12, v13, v14>>
  <2>15. /\ Len(p) = 13
         /\ p[1] = Need
         /\ p[2] = Uuid("id", "NULL_ARGUMENT")
         /\ p[3] = Uuid("second", "NULL_ARGUMENT")
         /\ p[4] = New("path")
         /\ p[5] = Check({"path"}, {}, "NULL_ARGUMENT")
         /\ p[6] = When("num", New("root"))
         /\ p[7] = When("num", Check({"root"}, {"path"}, Oom))
         /\ p[8] = When("num", Leaf("amount", "root", {"root", "path"}))
         /\ p[9] = When("num", Write("text"))
         /\ p[10] = When("num", Free({"root"}))
         /\ p[11] = When("num", Check({"text"}, {"path"}, Oom))
         /\ p[12] = Send
         /\ p[13] = Free({"path", "text"})
    BY DEF Program, Needed, EntitlementPath, EntitlementUsage
  <2> HIDE DEF p, v1, v2, v3, v4, v5, v6, v7, v8, v9, v10, v11, v12, v13, v14
  <2>16. \A i \in 1..13 : Goes("entitlement_usage", a, W[i], p[i], W[i + 1])
    BY <2>1, <2>2, <2>3, <2>4, <2>5, <2>6, <2>7, <2>8, <2>9, <2>10, <2>11, <2>12, <2>13,
      <2>15
  <2>17. Len(p) = 13 /\ W[1] = Start /\ Ends("entitlement_usage", W[14])
    BY <2>14, <2>15 DEF v1, Start
  <2> HIDE DEF W
  <2>18. 13 \in 1..49 /\ 14 = 13 + 1
    OBVIOUS
  <2> QED BY <2>16, <2>17, <2>18, Outlined, Zenon DEF p
<1> QED BY <1>1, <1>2

LEMMA ResetEntitlementKeeps == ASSUME NEW a \in Argument PROVE
  Disciplined("reset_entitlement_usage", a)
<1> DEFINE v1 == V({}, {}, {}, {}, {}, {}, {})
           v2 == v1
           v3 == V({}, {}, {}, {}, {}, {}, {"id"})
           v4 == V({}, {}, {}, {}, {}, {}, {"id", "second"})
           v5 == V({"path"}, {}, {}, {}, {}, {}, {"id", "second"})
           v6 == V({"path"}, {"path"}, {}, {}, {}, {}, {"id", "second"})
           v7 == V({"path", "response"}, {"path"}, {}, {}, {}, {}, {"id", "second",
                 "sent"})
           v8 == V({"path", "response"}, {"path"}, {}, {"path"}, {}, {}, {"id",
                 "second", "sent"})
<1>1. Goes("reset_entitlement_usage", a, v1, Need, v2)
  BY NeedGoes DEF v1, v2
<1>2. Goes("reset_entitlement_usage", a, v2, Uuid("id", "NULL_ARGUMENT"), v3)
  BY UuidGoes DEF v2, v1, v3
<1>3. Goes("reset_entitlement_usage", a, v3, Uuid("second", "NULL_ARGUMENT"), v4)
  BY UuidGoes DEF v3, v4
<1>4. Goes("reset_entitlement_usage", a, v4, New("path"), v5)
  BY NewGoes DEF v4, v5, Names
<1>5. Goes("reset_entitlement_usage", a, v5, Check({"path"}, {}, "NULL_ARGUMENT"), v6)
  BY BlameGoes DEF v5, v6, Names, Lost, Flat
<1>6. Goes("reset_entitlement_usage", a, v6, Send, v7)
  <2>1. Body("reset_entitlement_usage", a) = {}
    BY DEF Body
  <2>2. Query("reset_entitlement_usage", a) = {}
    BY DEF Query
  <2> QED BY SendGoes, <2>1, <2>2 DEF v6, v7
<1>7. Goes("reset_entitlement_usage", a, v7, Free({"path"}), v8)
  BY FreeGoes DEF v7, v8, Names
<1>8. Ends("reset_entitlement_usage", v8)
  BY DEF Ends, Clean, Spent, V, v8
<1> DEFINE p == Program("reset_entitlement_usage")
           W == <<v1, v2, v3, v4, v5, v6, v7, v8>>
<1>9. /\ Len(p) = 7
      /\ p[1] = Need
      /\ p[2] = Uuid("id", "NULL_ARGUMENT")
      /\ p[3] = Uuid("second", "NULL_ARGUMENT")
      /\ p[4] = New("path")
      /\ p[5] = Check({"path"}, {}, "NULL_ARGUMENT")
      /\ p[6] = Send
      /\ p[7] = Free({"path"})
  BY DEF Program, Needed, EntitlementPath, ResetEntitlement
<1> HIDE DEF p, v1, v2, v3, v4, v5, v6, v7, v8
<1>10. \A i \in 1..7 : Goes("reset_entitlement_usage", a, W[i], p[i], W[i + 1])
  BY <1>1, <1>2, <1>3, <1>4, <1>5, <1>6, <1>7, <1>9
<1>11. Len(p) = 7 /\ W[1] = Start /\ Ends("reset_entitlement_usage", W[8])
  BY <1>8, <1>9 DEF v1, Start
<1> HIDE DEF W
<1>12. 7 \in 1..49 /\ 8 = 7 + 1
  OBVIOUS
<1> QED BY <1>10, <1>11, <1>12, Outlined, Zenon DEF p

LEMMA CheckUpgradeKeeps == ASSUME NEW a \in Argument PROVE
  Disciplined("check_upgrade", a)
<1> DEFINE v1 == V({}, {}, {}, {}, {}, {}, {})
           v2 == v1
           v3 == V({}, {}, {}, {}, {}, {}, {"id"})
           v4 == V({}, {}, {}, {}, {}, {"product"}, {"id", "appended", "late"})
           v5 == V({}, {}, {}, {}, {}, {"product", "platform"}, {"id", "appended",
                 "late"})
           v6 == V({}, {}, {}, {}, {}, {"product", "platform", "filetype"}, {"id",
                 "appended", "late"})
           v7 == V({}, {}, {}, {}, {}, {"product", "platform", "filetype", "version"},
                 {"id", "appended", "late"})
           v8 == V({}, {}, {}, {}, {}, OnExtra(a, "channel") \cup {"product",
                 "platform", "filetype", "version"}, {"id", "appended", "late"})
           v9 == V({}, {}, {}, {}, {}, OnExtra(a, "channel") \cup OnExtra(a,
                 "constraint") \cup {"product", "platform", "filetype", "version"},
                 {"id", "appended", "late"})
           v10 == V({"query"}, {}, {}, {}, {}, OnExtra(a, "channel") \cup OnExtra(a,
                 "constraint") \cup {"product", "platform", "filetype", "version"},
                 {"id", "appended", "late"})
           v11 == V({"query"}, {"query"}, {}, {}, {}, OnExtra(a, "channel") \cup
                 OnExtra(a, "constraint") \cup {"product", "platform", "filetype",
                 "version"}, {"id", "appended"})
           v12 == V({"query", "response"}, {"query"}, {}, {}, {}, OnExtra(a,
                 "channel") \cup OnExtra(a, "constraint") \cup {"product", "platform",
                 "filetype", "version"}, {"id", "appended", "sent"})
           v13 == V({"query", "response"}, {"query"}, {}, {"query"}, {}, OnExtra(a,
                 "channel") \cup OnExtra(a, "constraint") \cup {"product", "platform",
                 "filetype", "version"}, {"id", "appended", "sent"})
<1>1. Goes("check_upgrade", a, v1, Need, v2)
  BY NeedGoes DEF v1, v2
<1>2. Goes("check_upgrade", a, v2, Uuid("id", "NULL_ARGUMENT"), v3)
  BY UuidGoes DEF v2, v1, v3
<1>3. Goes("check_upgrade", a, v3, Param("product"), v4)
  BY ParamGoes DEF v3, v4
<1>4. Goes("check_upgrade", a, v4, Param("platform"), v5)
  BY ParamGoes DEF v4, v5
<1>5. Goes("check_upgrade", a, v5, Param("filetype"), v6)
  BY ParamGoes DEF v5, v6
<1>6. Goes("check_upgrade", a, v6, Param("version"), v7)
  BY ParamGoes DEF v6, v7
<1>7. Goes("check_upgrade", a, v7, When("extra", Param("channel")), v8)
  <2>1. ASSUME a.extra PROVE Goes("check_upgrade", a, v7, Param("channel"), v8)
    BY <2>1, ParamGoes DEF v7, v8, OnExtra
  <2>2. ASSUME ~(a.extra) PROVE v8 = v7
    BY <2>2 DEF v7, v8, OnExtra, V
  <2> QED BY <2>1, <2>2, WhenExtra, StepIs, CheckIs DEF Param
<1>8. Goes("check_upgrade", a, v8, When("extra", Param("constraint")), v9)
  <2>1. ASSUME a.extra PROVE Goes("check_upgrade", a, v8, Param("constraint"), v9)
    BY <2>1, ParamGoes DEF v8, v9, OnExtra
  <2>2. ASSUME ~(a.extra) PROVE v9 = v8
    BY <2>2 DEF v8, v9, OnExtra, V
  <2> QED BY <2>1, <2>2, WhenExtra, StepIs, CheckIs DEF Param
<1>9. Goes("check_upgrade", a, v9, Detach, v10)
  BY DetachGoes DEF v9, v10, OnExtra
<1>10. Goes("check_upgrade", a, v10, Check({"query"}, {"query"}, Oom), v11)
  BY CheckGoes DEF v10, v11, Names, Lost, Flat, OnExtra
<1>11. Goes("check_upgrade", a, v11, Send, v12)
  <2>1. Body("check_upgrade", a) = {}
    BY DEF Body
  <2>2. Query("check_upgrade", a) = OnExtra(a, "channel") \cup OnExtra(a, "constraint") \cup {"product", "platform", "filetype", "version"}
    BY DEF Query, OnExtra
  <2> QED BY SendGoes, <2>1, <2>2 DEF v11, v12, OnExtra
<1>12. Goes("check_upgrade", a, v12, Free({"query"}), v13)
  BY FreeGoes DEF v12, v13, Names, OnExtra
<1>13. Ends("check_upgrade", v13)
  BY DEF Ends, Clean, Spent, V, v13
<1> DEFINE p == Program("check_upgrade")
           W == <<v1, v2, v3, v4, v5, v6, v7, v8, v9, v10, v11, v12, v13>>
<1>14. /\ Len(p) = 12
       /\ p[1] = Need
       /\ p[2] = Uuid("id", "NULL_ARGUMENT")
       /\ p[3] = Param("product")
       /\ p[4] = Param("platform")
       /\ p[5] = Param("filetype")
       /\ p[6] = Param("version")
       /\ p[7] = When("extra", Param("channel"))
       /\ p[8] = When("extra", Param("constraint"))
       /\ p[9] = Detach
       /\ p[10] = Check({"query"}, {"query"}, Oom)
       /\ p[11] = Send
       /\ p[12] = Free({"query"})
  BY DEF Program, Needed, CheckUpgrade
<1> HIDE DEF p, v1, v2, v3, v4, v5, v6, v7, v8, v9, v10, v11, v12, v13
<1>15. \A i \in 1..12 : Goes("check_upgrade", a, W[i], p[i], W[i + 1])
  BY <1>1, <1>2, <1>3, <1>4, <1>5, <1>6, <1>7, <1>8, <1>9, <1>10, <1>11, <1>12, <1>14
<1>16. Len(p) = 12 /\ W[1] = Start /\ Ends("check_upgrade", W[13])
  BY <1>13, <1>14 DEF v1, Start
<1> HIDE DEF W
<1>17. 12 \in 1..49 /\ 13 = 12 + 1
  OBVIOUS
<1> QED BY <1>15, <1>16, <1>17, Outlined, Zenon DEF p

LEMMA DownloadUrlKeeps == ASSUME NEW a \in Argument PROVE
  Disciplined("get_artifact_download_url", a)
<1> DEFINE s1 == {"path", "query", "response"}
           v1 == V({}, {}, {}, {}, {}, {}, {})
           v2 == v1
           v3 == V({}, {}, {}, {}, {}, {}, {"id"})
           v4 == v3
           v5 == V({"path"}, {}, {}, {}, {}, {}, {"id"})
           v6 == V({"path"}, {"path"}, {}, {}, {}, {}, {"id"})
           v7 == V({"path"}, {"path"}, {}, {}, {}, {"redirect"}, {"id", "appended"})
           v8 == V({"path"}, {"path"}, {}, {}, {}, OnNum(a, "ttl") \cup {"redirect"},
                 {"id", "appended"})
           v9 == V({"path", "query"}, {"path"}, {}, {}, {}, OnNum(a, "ttl") \cup
                 {"redirect"}, {"id", "appended"})
           v10 == V({"path", "query"}, {"path", "query"}, {}, {}, {}, OnNum(a, "ttl")
                 \cup {"redirect"}, {"id", "appended"})
           v11 == V(s1, {"path", "query"}, {}, {}, {}, OnNum(a, "ttl") \cup
                 {"redirect"}, {"id", "appended", "sent"})
           v12 == V(s1, {"path", "query"}, {}, {"query", "path"}, {}, OnNum(a, "ttl")
                 \cup {"redirect"}, {"id", "appended", "sent"})
<1>1. Goes("get_artifact_download_url", a, v1, Need, v2)
  BY NeedGoes DEF v1, v2
<1>2. Goes("get_artifact_download_url", a, v2, Uuid("id", "NULL_ARGUMENT"), v3)
  BY UuidGoes DEF v2, v1, v3
<1>3. Goes("get_artifact_download_url", a, v3, Bounds("TTL_INVALID"), v4)
  BY BoundsGoes DEF v3, v4
<1>4. Goes("get_artifact_download_url", a, v4, New("path"), v5)
  BY NewGoes DEF v4, v3, v5, Names
<1>5. Goes("get_artifact_download_url", a, v5, Check({"path"}, {}, Oom), v6)
  BY CheckOneGoes DEF v5, v6, Names, Lost, Flat
<1>6. Goes("get_artifact_download_url", a, v6, Plain("redirect"), v7)
  BY PlainGoes DEF v6, v7
<1>7. Goes("get_artifact_download_url", a, v7, When("num", Plain("ttl")), v8)
  <2>1. ASSUME a.num # "none" PROVE Goes("get_artifact_download_url", a, v7, Plain("ttl"), v8)
    BY <2>1, PlainGoes DEF v7, v8, OnNum
  <2>2. ASSUME ~(a.num # "none") PROVE v8 = v7
    BY <2>2 DEF v7, v8, OnNum, V
  <2> QED BY <2>1, <2>2, WhenNum, StepIs, CheckIs DEF Plain
<1>8. Goes("get_artifact_download_url", a, v8, Detach, v9)
  BY DetachGoes DEF v8, v9, OnNum
<1>9. Goes("get_artifact_download_url", a, v9, Check({"query"}, {"path"}, Oom), v10)
  BY CheckOneGoes DEF v9, v10, Names, Lost, Flat, OnNum
<1>10. Goes("get_artifact_download_url", a, v10, Send, v11)
  <2>1. Body("get_artifact_download_url", a) = {}
    BY DEF Body
  <2>2. Query("get_artifact_download_url", a) = OnNum(a, "ttl") \cup {"redirect"}
    BY DEF Query, OnNum
  <2> QED BY SendGoes, <2>1, <2>2 DEF v10, v11, OnNum
<1>11. Goes("get_artifact_download_url", a, v11, Free({"query", "path"}), v12)
  BY FreeGoes DEF v11, v12, Names, OnNum
<1>12. Ends("get_artifact_download_url", v12)
  BY DEF Ends, Clean, Spent, V, v12
<1> DEFINE p == Program("get_artifact_download_url")
           W == <<v1, v2, v3, v4, v5, v6, v7, v8, v9, v10, v11, v12>>
<1>13. /\ Len(p) = 11
       /\ p[1] = Need
       /\ p[2] = Uuid("id", "NULL_ARGUMENT")
       /\ p[3] = Bounds("TTL_INVALID")
       /\ p[4] = New("path")
       /\ p[5] = Check({"path"}, {}, Oom)
       /\ p[6] = Plain("redirect")
       /\ p[7] = When("num", Plain("ttl"))
       /\ p[8] = Detach
       /\ p[9] = Check({"query"}, {"path"}, Oom)
       /\ p[10] = Send
       /\ p[11] = Free({"query", "path"})
  BY DEF Program, Needed, BuildPath, DownloadUrl
<1> HIDE DEF p, v1, v2, v3, v4, v5, v6, v7, v8, v9, v10, v11, v12
<1>14. \A i \in 1..11 : Goes("get_artifact_download_url", a, W[i], p[i], W[i + 1])
  BY <1>1, <1>2, <1>3, <1>4, <1>5, <1>6, <1>7, <1>8, <1>9, <1>10, <1>11, <1>13
<1>15. Len(p) = 11 /\ W[1] = Start /\ Ends("get_artifact_download_url", W[12])
  BY <1>12, <1>13 DEF v1, Start
<1> HIDE DEF W
<1>16. 11 \in 1..49 /\ 12 = 11 + 1
  OBVIOUS
<1> QED BY <1>14, <1>15, <1>16, Outlined, Zenon DEF p

LEMMA VerifyProofKeeps == ASSUME NEW a \in Argument PROVE Disciplined("proof_verify",
  a)
<1> DEFINE g == Given(a)
           s1 == g \cup {"root", "account", "machine"}
           s2 == {"account", "machine", "given"}
           s3 == g \cup {"root", "account", "machine", "text"}
           s4 == g \cup {"root", "account", "machine", "text", "signature"}
           t1 == {<<"account", "id">>}
           t2 == t1 \cup {<<"machine", "id">>}
           t3 == t2 \cup {<<"machine", "fingerprint">>}
           t4 == t3 \cup {<<"root", "account">>}
           t5 == t4 \cup {<<"root", "machine">>}
           t6 == t5 \cup {<<"root", "given">>}
           v1 == V({}, {}, {}, {}, {}, {}, {})
           v2 == v1
           v3 == v1
           v4 == V({}, {}, {}, {}, {}, {}, {"id"})
           v5 == V({}, {}, {}, {}, {}, {}, {"id", "second"})
           v6 == V(g, g, {}, {}, {}, {}, {"id", "second"})
           v7 == V(g \cup {"root"}, g, {}, {}, {}, {}, {"id", "second"})
           v8 == V(g \cup {"root", "account"}, g, {}, {}, {}, {}, {"id", "second"})
           v9 == V(s1, g, {}, {}, {}, {}, {"id", "second"})
           v10 == V(s1, s1, {}, {}, {}, {}, {"id", "second"})
           v11 == V(s1, s1, {}, {}, t1, {}, {"id", "second"})
           v12 == V(s1, s1, {}, {}, t2, {}, {"id", "second"})
           v13 == V(s1, s1, {}, {}, t3, {}, {"id", "second"})
           v14 == V(s1, s1, {"account"}, {}, t4, {}, {"id", "second"})
           v15 == V(s1, s1, {"account", "machine"}, {}, t5, {}, {"id", "second"})
           v16 == V(s1, s1, s2, {}, t6, {}, {"id", "second"})
           v17 == V(s3, s1, s2, {}, t6, {}, {"id", "second"})
           v18 == V(s3, s1, s2, {"root"}, t6, {}, {"id", "second"})
           v19 == V(s3, s3, s2, {"root"}, t6, {}, {"id", "second"})
           v20 == v19
           v21 == V(s4, s3, s2, {"root"}, t6, {}, {"id", "second"})
           v22 == V(s4, s4, s2, {"root"}, t6, {}, {"id", "second"})
           v23 == V(s4, s4, s2, {"root"}, t6, {}, {"id", "second", "decided"})
           v24 == V(s4, s4, s2, {"root", "signature", "text"}, t6, {}, {"id",
                 "second", "decided"})
<1>0. g \subseteq {"given"} /\ (a.json = "object" <=> g = {"given"})
  BY DEF Given
<1> HIDE DEF g, t1, t2, t3, t4, t5, t6
<1>1. Goes("proof_verify", a, v1, Need, v2)
  BY <1>0, NeedGoes DEF v1, v2
<1>2. Goes("proof_verify", a, v2, Bounds("LENGTH_INVALID"), v3)
  BY <1>0, BoundsGoes DEF v2, v1, v3
<1>3. Goes("proof_verify", a, v3, Uuid("id", "INVALID_JSON"), v4)
  BY <1>0, UuidGoes DEF v3, v1, v4
<1>4. Goes("proof_verify", a, v4, Uuid("second", "INVALID_JSON"), v5)
  BY <1>0, UuidGoes DEF v4, v5
<1>5. Goes("proof_verify", a, v5, Parse, v6)
  BY <1>0, ParseGoes DEF v5, v6, g
<1>6. Goes("proof_verify", a, v6, New("root"), v7)
  BY <1>0, NewGoes DEF v6, v7, Names
<1>7. Goes("proof_verify", a, v7, New("account"), v8)
  BY <1>0, NewGoes DEF v7, v8, Names
<1>8. Goes("proof_verify", a, v8, New("machine"), v9)
  BY <1>0, NewGoes DEF v8, v9, Names
<1>9. Goes("proof_verify", a, v9, Check({"root", "account", "machine"}, {"root",
    "account", "machine", "given"}, Oom), v10)
  <2>1. /\ (s1 \ ({} \cup {})) \ {"root", "account", "machine", "given"} \subseteq
             Lost("proof_verify")
        /\ {"root", "account", "machine", "given"} \cap ({} \cup {}) = {}
        /\ {"root", "account", "machine", "given"} \subseteq Names
        /\ {"root", "account", "machine"} \subseteq Names
        /\ "proof_verify" \in Flat => {"root", "account", "machine"} \subseteq s1 \
             {"query", "response"}
        /\ {"id", "second"} \cap {"sent", "decided"} = {}
        /\ {"id", "second"} = {"id", "second"} \ {"late"}
    BY <1>0 DEF Names, Lost, Flat
  <2> QED BY <2>1, CheckGoes, ZenonT(40) DEF v9, v10
<1>10. Goes("proof_verify", a, v10, Leaf("id", "account", {"root", "account",
    "machine", "given"}), v11)
  BY <1>0, LeafGoes DEF v10, v11, Names, Lost, Flat, t1, Keys
<1>11. Goes("proof_verify", a, v11, Leaf("id", "machine", {"root", "account",
    "machine", "given"}), v12)
  BY <1>0, LeafGoes DEF v11, v12, Names, Lost, Flat, t2, Keys
<1>12. Goes("proof_verify", a, v12, Leaf("fingerprint", "machine", {"root", "account",
    "machine", "given"}), v13)
  BY <1>0, LeafGoes DEF v12, v13, Names, Lost, Flat, t3, Keys
<1>13. Goes("proof_verify", a, v13, Put("account", "root", {"root", "machine",
    "given"}), v14)
  <2>1. /\ (s1 \ ({} \cup {})) \ ({"root", "machine", "given"} \cup {"account"})
             \subseteq Lost("proof_verify")
        /\ ({"root", "machine", "given"} \cup {"account"}) \cap ({} \cup {}) = {}
        /\ ({"root", "machine", "given"} \cup {"account"}) \subseteq Names
        /\ "account" \notin {"root", "machine", "given"}
        /\ "account" \in Names \ {"root", "text", "query", "response"}
        /\ "root" \in s1
        /\ "root" \in {"root"} \cup {}
        /\ "text" \notin s1
        /\ {"id", "second"} \cap {"sent", "decided"} = {}
        /\ {"account"} = {} \cup {"account"}
        /\ t4 = t3 \cup {<<"root", "account">>}
    BY <1>0 DEF Names, Lost, Flat, t4
  <2> QED BY <2>1, PutGoes, ZenonT(40) DEF v13, v14
<1>14. Goes("proof_verify", a, v14, Put("machine", "root", {"root", "given"}), v15)
  <2>1. /\ (s1 \ ({"account"} \cup {})) \ ({"root", "given"} \cup {"machine"})
             \subseteq Lost("proof_verify")
        /\ ({"root", "given"} \cup {"machine"}) \cap ({"account"} \cup {}) = {}
        /\ ({"root", "given"} \cup {"machine"}) \subseteq Names
        /\ "machine" \notin {"root", "given"}
        /\ "machine" \in Names \ {"root", "text", "query", "response"}
        /\ "root" \in s1
        /\ "root" \in {"root"} \cup {"account"}
        /\ "text" \notin s1
        /\ {"id", "second"} \cap {"sent", "decided"} = {}
        /\ {"account", "machine"} = {"account"} \cup {"machine"}
        /\ t5 = t4 \cup {<<"root", "machine">>}
    BY <1>0 DEF Names, Lost, Flat, t5
  <2> QED BY <2>1, PutGoes, ZenonT(40) DEF v14, v15
<1>15. Goes("proof_verify", a, v15, Put("given", "root", {"root"}), v16)
  <2>1. /\ (s1 \ ({"account", "machine"} \cup {})) \ ({"root"} \cup {"given"})
             \subseteq Lost("proof_verify")
        /\ ({"root"} \cup {"given"}) \cap ({"account", "machine"} \cup {}) = {}
        /\ ({"root"} \cup {"given"}) \subseteq Names
        /\ "given" \notin {"root"}
        /\ "given" \in Names \ {"root", "text", "query", "response"}
        /\ "root" \in s1
        /\ "root" \in {"root"} \cup {"account", "machine"}
        /\ "text" \notin s1
        /\ {"id", "second"} \cap {"sent", "decided"} = {}
        /\ s2 = {"account", "machine"} \cup {"given"}
        /\ t6 = t5 \cup {<<"root", "given">>}
    BY <1>0 DEF Names, Lost, Flat, t6
  <2> QED BY <2>1, PutGoes, ZenonT(40) DEF v15, v16
<1>16. Goes("proof_verify", a, v16, Write("text"), v17)
  <2>1. \A e \in t6 : e[1] \in {"root", "account", "machine"} /\ e[1] \in {"root", "account", "machine", "given"}
    BY DEF t1, t2, t3, t4, t5, t6
  <2> QED BY <1>0, WriteGoes, <2>1 DEF v16, v17
<1>17. Goes("proof_verify", a, v17, Free({"root"}), v18)
  BY <1>0, FreeGoes DEF v17, v18, Names
<1>18. Goes("proof_verify", a, v18, Check({"text"}, {}, Oom), v19)
  <2>1. /\ "late" \notin {"id", "second"}
        /\ (s3 \ (s2 \cup {"root"})) \ {} \subseteq {"text"}
        /\ {} \cap (s2 \cup {"root"}) = {}
        /\ {} \subseteq Names
        /\ "text" \in Names
        /\ "proof_verify" \in Flat => "text" \in s3 \ {"query", "response"}
        /\ {"id", "second"} \cap {"sent", "decided"} = {}
        /\ s3 = s1 \cup {"text"}
        /\ {"id", "second"} = {"id", "second"} \ {"late"}
    BY <1>0 DEF Names, Lost, Flat
  <2> QED BY <2>1, CheckOneGoes, ZenonT(40) DEF v18, v19
<1>19. Goes("proof_verify", a, v19, Prefix, v20)
  BY <1>0, PrefixGoes DEF v19, v20, Names
<1>20. Goes("proof_verify", a, v20, New("signature"), v21)
  BY <1>0, NewGoes DEF v20, v19, v21, Names
<1>21. Goes("proof_verify", a, v21, Check({"signature"}, {"text"}, Oom), v22)
  <2>1. /\ "late" \notin {"id", "second"}
        /\ (s4 \ (s2 \cup {"root"})) \ {"text"} \subseteq {"signature"}
        /\ {"text"} \cap (s2 \cup {"root"}) = {}
        /\ {"text"} \subseteq Names
        /\ "signature" \in Names
        /\ "proof_verify" \in Flat => "signature" \in s4 \ {"query", "response"}
        /\ {"id", "second"} \cap {"sent", "decided"} = {}
        /\ s4 = s3 \cup {"signature"}
        /\ {"id", "second"} = {"id", "second"} \ {"late"}
    BY <1>0 DEF Names, Lost, Flat
  <2> QED BY <2>1, CheckOneGoes, ZenonT(40) DEF v21, v22
<1>22. Goes("proof_verify", a, v22, Verify, v23)
  BY <1>0, VerifyGoes DEF v22, v23, Names
<1>23. Goes("proof_verify", a, v23, Free({"signature", "text"}), v24)
  BY <1>0, FreeGoes DEF v23, v24, Names
<1>24. Ends("proof_verify", v24)
  BY <1>0 DEF Ends, Clean, Spent, V, v24
<1> DEFINE p == Program("proof_verify")
           W == <<v1, v2, v3, v4, v5, v6, v7, v8, v9, v10, v11, v12, v13, v14, v15, v16, v17, v18, v19,
                  v20, v21, v22, v23, v24>>
<1>25. /\ Len(p) = 23
       /\ p[1] = Need
       /\ p[2] = Bounds("LENGTH_INVALID")
       /\ p[3] = Uuid("id", "INVALID_JSON")
       /\ p[4] = Uuid("second", "INVALID_JSON")
       /\ p[5] = Parse
       /\ p[6] = New("root")
       /\ p[7] = New("account")
       /\ p[8] = New("machine")
       /\ p[9] = Check({"root", "account", "machine"}, {"root", "account", "machine", "given"}, Oom)
       /\ p[10] = Leaf("id", "account", {"root", "account", "machine", "given"})
       /\ p[11] = Leaf("id", "machine", {"root", "account", "machine", "given"})
       /\ p[12] = Leaf("fingerprint", "machine", {"root", "account", "machine", "given"})
       /\ p[13] = Put("account", "root", {"root", "machine", "given"})
       /\ p[14] = Put("machine", "root", {"root", "given"})
       /\ p[15] = Put("given", "root", {"root"})
       /\ p[16] = Write("text")
       /\ p[17] = Free({"root"})
       /\ p[18] = Check({"text"}, {}, Oom)
       /\ p[19] = Prefix
       /\ p[20] = New("signature")
       /\ p[21] = Check({"signature"}, {"text"}, Oom)
       /\ p[22] = Verify
       /\ p[23] = Free({"signature", "text"})
  BY DEF Program, VerifyProof
<1> HIDE DEF p, v1, v2, v3, v4, v5, v6, v7, v8, v9, v10, v11, v12, v13, v14, v15, v16,
    v17, v18, v19, v20, v21, v22, v23, v24
<1>26. \A i \in 1..23 : Goes("proof_verify", a, W[i], p[i], W[i + 1])
  BY <1>1, <1>2, <1>3, <1>4, <1>5, <1>6, <1>7, <1>8, <1>9, <1>10, <1>11, <1>12, <1>13,
    <1>14, <1>15, <1>16, <1>17, <1>18, <1>19, <1>20, <1>21, <1>22, <1>23, <1>25
<1>27. Len(p) = 23 /\ W[1] = Start /\ Ends("proof_verify", W[24])
  BY <1>24, <1>25 DEF v1, Start
<1> HIDE DEF W
<1>28. 23 \in 1..49 /\ 24 = 23 + 1
  OBVIOUS
<1> QED BY <1>26, <1>27, <1>28, Outlined, Zenon DEF p

-----------------------------------------------------------------------------
(* The theorems.                                                             *)

\* Every function keeps the discipline, whatever it is given.
LEMMA AllKeep ==
  ASSUME NEW f \in Functions, NEW a \in Argument PROVE Disciplined(f, a)
<1>1. CASE f \in {"get_resource", "quick_validate", "check_in", "delete_machine",
                  "machine_action", "ping_process", "delete_process"}
  BY <1>1, PathOnlyKeeps
<1>2. CASE f \in {"list_signing_keys", "health"}
  BY <1>2, ListSigningKeysKeeps
<1>3. CASE f \in {"validate_by_key", "validate_by_id", "check_out", "check_out_json",
                  "create_machine", "update_machine"}
  BY <1>3, ValidateByKeyKeeps, ValidateByIdKeeps, CheckoutRawKeeps, CheckoutJsonKeeps,
     CreateMachineKeeps, UpdateMachineKeeps
<1>4. CASE f \in {"generate_offline_proof", "create_component", "create_process", "list",
                  "has_entitlement", "get_entitlement"}
  BY <1>4, GenerateOfflineProofKeeps, CreateComponentKeeps, CreateProcessKeeps, ListKeeps,
     HasEntitlementKeeps, GetEntitlementKeeps
<1>5. CASE f \in {"entitlement_usage", "reset_entitlement_usage", "check_upgrade",
                  "get_artifact_download_url", "proof_verify"}
  BY <1>5, EntitlementUsageKeeps, ResetEntitlementKeeps, CheckUpgradeKeeps, DownloadUrlKeeps,
     VerifyProofKeeps
<1> QED BY <1>1, <1>2, <1>3, <1>4, <1>5 DEF Functions

LEMMA CallsKeep ==
  ASSUME NEW f \in Calls, NEW a \in Asked(f)
  PROVE  f \in Functions /\ Len(Program(f)) \in 1..49 /\ \E W : Outline(f, a, W)
<1>1. f \in Functions /\ a \in Argument
  BY EndpointsAssumption DEF Asked
<1> QED BY <1>1, AllKeep DEF Disciplined

\* Nothing is known of a call that begins.
LEMMA BeginKeeps == ASSUME Init, Begin PROVE Inside'
<1>0. PICK f \in Calls : call' = f /\ arg' \in Asked(f)
  BY DEF Begin
<1>1. PICK a \in Asked(f) : arg' = a
  BY <1>0
<1>2. PICK W : Outline(f, a, W) /\ Len(Program(f)) \in 1..49
  BY CallsKeep
<1>3. W[1] = Start
  BY <1>2 DEF Outline
<1>4. /\ pc' = 1 /\ ret' = "none" /\ var' = [n \in Names |-> "null"] /\ home' = [n \in Names |-> n]
      /\ tree' = {} /\ status' = "OK" /\ sticky' = FALSE /\ params' = {} /\ written' = {}
      /\ wire' = NoRequest /\ code' = "OK" /\ verdict' = FALSE /\ out' = "untouched"
      /\ failed' = FALSE /\ twice' = FALSE
  BY DEF Begin, Init, memory, request
<1>5. PICK v : v = Start
  OBVIOUS
<1>6. /\ v.made = {} /\ v.checked = {} /\ v.put = {} /\ v.freed = {} /\ v.tree = {}
      /\ v.params = {} /\ v.marks = {}
  BY <1>5 DEF Start, V
<1>7. MemoryAgrees(v)'
  BY <1>4, <1>6 DEF MemoryAgrees
<1>8. FailureShows(v)'
  BY <1>4, <1>6 DEF FailureShows
<1>9. ContentAgrees(v)'
  BY <1>4, <1>6 DEF ContentAgrees
<1>10. AnswerAgrees(v)'
  <2>1. wire'.sent = FALSE /\ "response" \in Names
    BY <1>4 DEF NoRequest, Names
  <2>2. ("sent" \in v.marks) = FALSE
    BY <1>6
  <2>3. wire'.sent = ("sent" \in v.marks) /\ RequestWhole'
    BY <2>1, <2>2, Zenon DEF RequestWhole
  <2> QED BY <1>4, <1>6, <2>1, <2>3 DEF AnswerAgrees
<1>11. Outline(f, a, W) /\ v = W[1] /\ 1 \in 1..(Len(Program(f)) + 1)
  BY <1>2, <1>3, <1>5
<1> QED BY <1>0, <1>1, <1>4, <1>7, <1>8, <1>9, <1>10, <1>11 DEF Inside, Agrees

\* One step of a call that runs.
LEMMA InsideStep == ASSUME Inside, Next PROVE Inside' \/ Returned'
<1>1. PICK W : Outline(call, arg, W) /\ Agrees(W[pc])
  BY DEF Inside
<1>2. PICK v : v = W[pc]
  OBVIOUS
<1>3. /\ call \in Calls /\ arg \in Asked(call) /\ ret = "none" /\ Agrees(v)
      /\ pc \in 1..(Len(Program(call)) + 1) /\ Len(Program(call)) \in 1..49 /\ call # "none"
  <2>1. /\ call \in Calls /\ arg \in Asked(call) /\ ret = "none"
        /\ pc \in 1..(Len(Program(call)) + 1)
    BY DEF Inside
  <2>2. Agrees(v)
    BY <1>1, <1>2
  <2>3. Len(Program(call)) \in 1..49 /\ call # "none"
    BY <2>1, CallsKeep DEF Functions
  <2> QED BY <2>1, <2>2, <2>3
<1>4. CASE Running
  <2>1. PICK w : w = After(v, Statement, arg)
    OBVIOUS
  <2>2. pc \in 1..Len(Program(call)) /\ pc \in Nat
    BY <1>3, <1>4 DEF Running
  <2>3. Fits(call, arg, v, Statement) /\ W[pc + 1] = w
    BY <1>1, <1>2, <2>1, <2>2 DEF Outline, Statement
  <2>4. Ready(v, w)
    BY <1>3, <1>4, <2>1, <2>2, <2>3 DEF Ready
  <2>5. Moves(w) \/ Returned'
    <3>1. ~Begin /\ ~Forget /\ ~Finish
      BY <1>3, <1>4 DEF Begin, Forget, Finish
    <3> QED BY <2>4, <3>1, SkipKeeps, CheckPointersKeeps, CheckBoundsKeeps, RequireUuidKeeps,
               NewObjectKeeps, ParseOptionalKeeps, DefaultEmptyKeeps, CheckNullKeeps, SetMemberKeeps,
               SetLeafKeeps, SetLateLeafKeeps, CopyFieldsKeeps, AddParamKeeps, DetachQueryKeeps,
               WriteTextKeeps, FreeLocalsKeeps, SendRequestKeeps, SearchPageKeeps, CheckPrefixKeeps,
               VerifySignatureKeeps DEF Next
  <2>6. ASSUME Moves(w) PROVE Inside'
    <3>1. pc' = pc + 1 /\ call' = call /\ arg' = arg /\ ret' = ret /\ Agrees(w)'
      BY <2>6 DEF Moves, Advance
    <3>2. pc' \in 1..(Len(Program(call')) + 1) /\ W[pc'] = w
      BY <1>3, <2>2, <2>3, <3>1
    <3>3. Agrees(W[pc])'
      BY <3>1, <3>2 DEF Agrees, MemoryAgrees, FailureShows, ContentAgrees, AnswerAgrees
    <3> QED BY <1>1, <1>3, <3>1, <3>2, <3>3 DEF Inside
  <2> QED BY <2>5, <2>6
<1>5. CASE ~Running
  <2>1. pc = Len(Program(call)) + 1
    BY <1>3, <1>5 DEF Running
  <2>2. Ends(call, v)
    BY <1>1, <1>2, <2>1 DEF Outline
  <2>3. Finish
    BY <1>3, <1>5 DEF Next, Begin, Forget, Skip, CheckPointers, CheckBounds, RequireUuid, Guard,
      NewObject, ParseOptional, DefaultEmpty, CheckNull, SetMember, SetLeaf, SetLateLeaf,
      CopyFields, AddParam, DetachQuery, WriteText, FreeLocals, SendRequest, SearchPage,
      CheckPrefix, VerifySignature, At
  <2> QED BY <1>3, <2>2, <2>3, FinishKeeps
<1> QED BY <1>4, <1>5

\* Nothing runs before the first call and between two.
LEMMA IdleStep == ASSUME Init \/ Returned, Next PROVE CallInv'
<1>1. ~Running /\ pc = 0
  BY DEF Init, Returned, Running
<1>2. Begin \/ Forget
  BY <1>1 DEF Next, Finish, Skip, CheckPointers, CheckBounds, RequireUuid, Guard,
    NewObject, ParseOptional, DefaultEmpty, CheckNull, SetMember, SetLeaf, SetLateLeaf,
    CopyFields, AddParam, DetachQuery, WriteText, FreeLocals, SendRequest, SearchPage,
    CheckPrefix, VerifySignature, At
<1>3. CASE Forget
  BY <1>3 DEF Forget, Init, CallInv
<1>4. CASE Begin
  <2>1. Init
    <3>1. "none" \notin Calls
      BY EndpointsAssumption DEF Functions
    <3> QED BY <1>4, <3>1 DEF Begin, Returned
  <2> QED BY <1>4, <2>1, BeginKeeps DEF CallInv
<1> QED BY <1>2, <1>3, <1>4

\* What the invariant says of the promises.
LEMMA CallInvSays == ASSUME CallInv PROVE Ownership /\ RequestWhole /\ OutcomeSound
<1>1. CASE Init
  <2>1. {"root"} \subseteq Names /\ "none" \notin Calls
    BY EndpointsAssumption DEF Names, Functions
  <2>2. {sticky, verdict, failed, twice} \subseteq BOOLEAN
    BY <1>1 DEF Init
  <2>3. TypeOK
    BY <1>1, <2>2 DEF Init, TypeOK, NoRequest
  <2> QED BY <1>1, <2>1, <2>3 DEF Init, Ownership, NoDoubleFree, OnlyMetadataLeaks, RequestWhole,
             OutcomeSound, OomNamed, VerdictSound, NoRequest
<1>2. CASE Inside
  <2>1. PICK W : Outline(call, arg, W) /\ Agrees(W[pc])
    BY <1>2 DEF Inside
  <2>2. PICK v : v = W[pc]
    OBVIOUS
  <2>3. /\ call \in Calls /\ ret = "none" /\ pc \in 0..50 /\ Agrees(v)
    <3>1. /\ call \in Calls /\ arg \in Asked(call) /\ ret = "none"
          /\ pc \in 1..(Len(Program(call)) + 1)
      BY <1>2 DEF Inside
    <3>2. Len(Program(call)) \in 1..49
      BY <3>1, CallsKeep
    <3>3. Agrees(v)
      BY <2>1, <2>2
    <3>4. PICK m \in 1..49 : m = Len(Program(call))
      BY <3>2
    <3>5. pc \in 1..(m + 1)
      BY <3>1, <3>4
    <3>6. pc \in 0..50
      BY <3>5
    <3> QED BY <3>1, <3>3, <3>6
  <2>4. TypeOK
    <3>1. home \in [Names -> Names] /\ var \in [Names -> {"null", "live", "gone"}] /\ twice = FALSE
      <4>1. "root" \in Names
        BY DEF Names
      <4> QED BY <2>3, <4>1 DEF Agrees, MemoryAgrees
    <3>2. /\ sticky \in BOOLEAN /\ failed \in BOOLEAN /\ status \in {"OK", Oom}
      BY <2>3 DEF Agrees, FailureShows
    <3>3. /\ verdict \in BOOLEAN /\ out \in {"untouched", "null", "response"}
          /\ wire.sent = ("sent" \in v.marks) /\ code \in {"OK", "API", "FAILED"}
      BY <2>3 DEF Agrees, AnswerAgrees
    <3>4. {sticky, verdict, failed, twice} \subseteq BOOLEAN
      BY <3>1, <3>2, <3>3
    <3>5. wire.sent \in BOOLEAN
      <4>1. ("sent" \in v.marks) \in BOOLEAN
        OBVIOUS
      <4> QED BY <3>3, <4>1, Zenon
    <3>6. tree \subseteq Names \X Keys /\ written \subseteq tree
      BY <2>3 DEF Agrees, ContentAgrees
    <3> QED BY <2>3, <3>1, <3>2, <3>3, <3>4, <3>5, <3>6 DEF TypeOK
  <2>5. RequestWhole /\ ~twice
    BY <2>3 DEF Agrees, AnswerAgrees, MemoryAgrees
  <2>6. OutcomeSound
    BY <2>3 DEF OutcomeSound, OomNamed, VerdictSound, Agrees, AnswerAgrees
  <2> QED BY <2>3, <2>4, <2>5, <2>6 DEF Ownership, NoDoubleFree, OnlyMetadataLeaks
<1>3. CASE Returned
  BY <1>3 DEF Returned
<1> QED BY <1>1, <1>2, <1>3 DEF CallInv

LEMMA CallInvStutters == ASSUME CallInv, UNCHANGED vars PROVE CallInv'
<1>1. UNCHANGED <<call, arg, pc, var, home, tree, status, sticky, params, written, wire,
                  code, verdict, out, ret, failed, twice>>
  BY DEF vars
<1>2. CASE Init
  BY <1>1, <1>2 DEF Init, CallInv
<1>3. CASE Inside
  BY <1>1, <1>3 DEF Inside, CallInv, Agrees, MemoryAgrees, FailureShows, ContentAgrees, AnswerAgrees,
                    RequestWhole
<1>4. CASE Returned
  BY <1>1, <1>4 DEF Returned, CallInv, Ownership, TypeOK, NoDoubleFree, OnlyMetadataLeaks, Leaked,
                    Owned, RequestWhole, OutcomeSound, OomNamed, VerdictSound
<1> QED BY <1>2, <1>3, <1>4 DEF CallInv

\* Whatever sets of attributes callers give and wherever allocations fail, a
\* call of endpoints.c is always at a statement for which the objects, the
\* request and the failures so far are what the text of the function says, or
\* has returned and kept its promises.
THEOREM CallsKeepTheirPlan == Spec => []CallInv
<1>1. Init => CallInv
  BY DEF CallInv
<1>2. CallInv /\ [Next]_vars => CallInv'
  <2>1. SUFFICES ASSUME CallInv, Next PROVE CallInv'
    BY CallInvStutters
  <2> QED BY <2>1, InsideStep, IdleStep DEF CallInv
<1> QED BY <1>1, <1>2, PTL DEF Spec

\* Every object of every builder is freed exactly once, whichever allocation
\* fails; only the metadata of create_component and create_process is lost, and
\* only when one did.
THEOREM ObjectsAreFreedOnce == Spec => []Ownership
<1>1. CallInv => Ownership
  BY CallInvSays
<1> QED BY <1>1, CallsKeepTheirPlan, PTL

\* A request that leaves has every member and every parameter the caller asked
\* for and no other, and no allocation of its builder failed.
THEOREM RequestsAreWhole == Spec => []RequestWhole
<1>1. CallInv => RequestWhole
  BY CallInvSays
<1> QED BY <1>1, CallsKeepTheirPlan, PTL

\* A call that ran out of memory has sent nothing and says so, but for the
\* actions on an entitlement's usage, which blame the ids; and the verdicts of
\* has_entitlement and of the proof check are right whenever one is given.
THEOREM OutcomesAreSound == Spec => []OutcomeSound
<1>1. CallInv => OutcomeSound
  BY CallInvSays
<1> QED BY <1>1, CallsKeepTheirPlan, PTL

=============================================================================
