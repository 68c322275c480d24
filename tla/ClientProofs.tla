---------------------------- MODULE ClientProofs ----------------------------
(***************************************************************************)
(* Proofs about Client, for any transports, credentials, requests, answers *)
(* and retry budgets.                                                      *)
(***************************************************************************)
EXTENDS Client, TLAPS

\* A second to a minute, in milliseconds.
OneWait(d) == d \in Int /\ 1000 <= d /\ d <= 60000

\* Every retry waits between a second and a minute, whatever Retry-After says.
LEMMA DelayBounds ==
  ASSUME NEW n \in Nat, NEW after \in Int, NEW j \in Jitters
  PROVE  OneWait(Delay(n, after, j))
<1> DEFINE k == 1 + IF n > 5 THEN 5 ELSE n
           b == Backoff[k]
<1>1. k \in 1..6
  OBVIOUS
<1>2. Delay(n, after, j) =
        IF after > 0 THEN 1000 * (IF after > 60 THEN 60 ELSE after)
                     ELSE 1000 * b + j
  BY Zenon DEF Delay
<1> HIDE DEF k
<1>3. b \in Int /\ 1 <= b /\ b <= 32
  BY <1>1 DEF Backoff
<1> HIDE DEF b
<1>4. QED
  BY <1>2, <1>3, ClientAssumption DEF OneWait

Heaps == [Kinds -> Int]

\* What an allocation and a release make of a heap.
LEMMA HeapFacts ==
  ASSUME NEW h \in Heaps, NEW B
  PROVE  /\ Alloc(h, B) \in Heaps /\ Dealloc(h, B) \in Heaps
         /\ \A k \in Kinds :
              /\ Alloc(h, B)[k] = h[k] + IF k \in B THEN 1 ELSE 0
              /\ Dealloc(h, B)[k] = h[k] - IF k \in B THEN 1 ELSE 0
BY DEF Heaps, Alloc, Dealloc

\* What a TamgaHttpResponse holds, kind by kind.
LEMMA HttpHoldsFacts ==
  ASSUME NEW h, NEW k
  PROVE  HttpHolds(h, k) = IF k = "body" THEN IF h.body = "none" THEN 0 ELSE 1
                           ELSE IF k = "list" THEN IF h.list THEN 1 ELSE 0
                           ELSE IF k = "header" THEN h.headers ELSE 0
BY DEF HttpHolds

\* What a response holds beyond that.
LEMMA ResponseHoldsFacts ==
  ASSUME NEW r, NEW k, r # NoResponse
  PROVE  ResponseHolds(r, k) =
           IF k = "response" THEN 1
           ELSE IF k = "json" THEN IF r.parsed THEN 1 ELSE 0
           ELSE IF k = "error_code" THEN IF r.coded THEN 1 ELSE 0
           ELSE HttpHolds(r, k)
BY DEF ResponseHolds

LEMMA NothingHeld ==
  ASSUME NEW k
  PROVE  HttpHolds(EmptyHttp, k) = 0 /\ ResponseHolds(NoResponse, k) = 0
BY HttpHoldsFacts DEF EmptyHttp, ResponseHolds

\* Holdings are integers.
LEMMA HoldsInt ==
  /\ \A h \in Http : \A k : HttpHolds(h, k) \in Int
  /\ \A r \in Response \cup {NoResponse} : \A k : ResponseHolds(r, k) \in Int
<1>1. ASSUME NEW h \in Http, NEW k PROVE HttpHolds(h, k) \in Int
  BY HttpHoldsFacts DEF Http
<1>2. ASSUME NEW r \in Response, NEW k, r # NoResponse
      PROVE  ResponseHolds(r, k) \in Int
  <2>1. r.headers \in Int
    BY DEF Response
  <2>2. HttpHolds(r, k) \in Int
    BY <2>1, HttpHoldsFacts
  <2>3. QED
    BY <2>2, <1>2, ResponseHoldsFacts
<1>3. QED
  BY <1>1, <1>2, NothingHeld

\* A fresh TamgaHttpResponse is well formed.
LEMMA EmptyFacts == EmptyHttp \in Http
BY DEF EmptyHttp, Http, Bodies, Failures, Afters

\* What a setter leaves of the response being filled.
LEMMA HttpFailure ==
  ASSUME NEW h \in Http, NEW f \in Failures
  PROVE  [h EXCEPT !.failure = f] \in Http
BY DEF Http

LEMMA HttpStatus ==
  ASSUME NEW h \in Http, NEW s \in 0..599
  PROVE  [h EXCEPT !.status = s] \in Http
BY DEF Http

LEMMA HttpBody ==
  ASSUME NEW h \in Http, NEW b \in Bodies
  PROVE  [h EXCEPT !.body = b] \in Http
BY DEF Http

LEMMA HttpStatusFailure ==
  ASSUME NEW h \in Http, NEW s \in 0..599, NEW f \in Failures
  PROVE  [h EXCEPT !.status = s, !.failure = f] \in Http
BY DEF Http

LEMMA HttpStatusBody ==
  ASSUME NEW h \in Http, NEW s \in 0..599, NEW b \in Bodies
  PROVE  [h EXCEPT !.status = s, !.body = b] \in Http
BY DEF Http

LEMMA HttpListFailure ==
  ASSUME NEW h \in Http, NEW l \in BOOLEAN, NEW f \in Failures
  PROVE  [h EXCEPT !.list = l, !.failure = f] \in Http
BY DEF Http

LEMMA HttpHeader ==
  ASSUME NEW h \in Http, NEW n \in Nat, NEW a \in Afters
  PROVE  [h EXCEPT !.list = TRUE, !.headers = n, !.after = a] \in Http
BY DEF Http

\* The fields of an answer.
LEMMA AnswerFacts ==
  ASSUME NEW a \in Answer
  PROVE  /\ a.status \in 0..599 /\ a.body \in Bodies /\ a.after \in Afters
         /\ Stored(a.body) \in Bodies
BY DEF Answer, Bodies, Stored

\* The handle's blocks after a credential was accepted.
LEMMA HeldFacts ==
  ASSUME NEW a \in Copies
  PROVE  /\ Held(a) \in Auth
         /\ AuthBlocks(Held(a)) =
              IF a = NoAuth THEN {}
              ELSE {"primary"} \cup IF a.second THEN {"secondary"} ELSE {}
<1>1. CASE a = NoAuth
  BY <1>1 DEF Held, Unset, Auth, AuthKinds, Copies, AuthBlocks
<1>2. CASE a # NoAuth
  <2>1. a \in Credential
    BY <1>2 DEF Copies
  <2>2. Held(a) = [kind |-> a.kind, primary |-> a,
                   secondary |-> IF a.second THEN a ELSE NoAuth,
                   configured |-> TRUE]
    BY <1>2 DEF Held
  <2>3. Held(a) \in Auth
    BY <2>1, <2>2 DEF Auth, Copies, Credential
  <2>4. Held(a).primary = a /\ Held(a).secondary = IF a.second THEN a ELSE NoAuth
    BY <2>2
  <2>5. QED
    BY <2>3, <2>4, <1>2 DEF AuthBlocks
<1>3. QED
  BY <1>1, <1>2

\* Nothing allocated, nothing freed, no pointer changed.
LEMMA NextState ==
  ASSUME UNCHANGED <<fields, auth, transport, locals, http, out, heap>>, Balanced
  PROVE  Balanced'
BY DEF Balanced, Pointers, Handle

\* A call refused for a missing pointer touches nothing.
LEMMA NullArgumentStep ==
  ASSUME IInv, NullArgument PROVE IInv'
<1> USE ClientAssumption DEF IInv, NullArgument, config, settings, ownership, sending, outcome, report, Done
<1>1. TypeOK'
  BY DEF TypeOK, Codes, Steps
<1>2. HandleShape'
  BY DEF HandleShape, TypeOK, Steps
<1>3. CallShape'
  BY DEF CallShape, Carried, Sending, InFlight, Asked
<1>4. LocalShape'
  BY DEF LocalShape, AuthParts, InFlight, Asked
<1>5. Effort'
  BY DEF Effort, InFlight, Asked, Sending, CallShape
<1>6. Balanced'
  BY NextState
<1>7. TransportsReleased'
  BY DEF TransportsReleased
<1>8. WaitBounded'
  BY DEF WaitBounded
<1>9. QED
  BY <1>1, <1>2, <1>3, <1>4, <1>5, <1>6, <1>7, <1>8

\* tamga_client_set_max_retries
LEMMA SetMaxRetriesStep ==
  ASSUME NEW n \in Budgets, IInv, SetMaxRetries(n) PROVE IInv'
<1> USE ClientAssumption DEF IInv, SetMaxRetries, config, settings, ownership, sending, outcome, report, Done
<1>1. TypeOK'
  BY DEF TypeOK, Codes, Steps
<1>2. HandleShape'
  BY DEF HandleShape, TypeOK, Steps
<1>3. CallShape'
  BY DEF CallShape, Carried, Sending, InFlight, Asked
<1>4. LocalShape'
  BY DEF LocalShape, AuthParts, InFlight, Asked
<1>5. Effort'
  BY DEF Effort, InFlight, Asked, TypeOK
<1>6. Balanced'
  BY NextState
<1>7. TransportsReleased'
  BY DEF TransportsReleased
<1>8. WaitBounded'
  BY DEF WaitBounded
<1>9. QED
  BY <1>1, <1>2, <1>3, <1>4, <1>5, <1>6, <1>7, <1>8

\* tamga_client_set_timeout_ms
LEMMA SetTimeoutStep ==
  ASSUME NEW n \in Timeouts, IInv, SetTimeout(n) PROVE IInv'
<1> USE ClientAssumption DEF IInv, SetTimeout, config, settings, ownership, sending, outcome, report, Done
<1>1. TypeOK'
  BY DEF TypeOK, Codes, Steps
<1>2. HandleShape'
  BY DEF HandleShape, TypeOK, Steps
<1>3. CallShape'
  BY DEF CallShape, Carried, Sending, InFlight, Asked
<1>4. LocalShape'
  BY DEF LocalShape, AuthParts, InFlight, Asked
<1>5. Effort'
  BY DEF Effort, InFlight, Asked, Sending, CallShape
<1>6. Balanced'
  BY NextState
<1>7. TransportsReleased'
  BY DEF TransportsReleased
<1>8. WaitBounded'
  BY DEF WaitBounded
<1>9. QED
  BY <1>1, <1>2, <1>3, <1>4, <1>5, <1>6, <1>7, <1>8

\* tamga_client_set_auth, up to the first copy.
LEMMA SetAuthStep ==
  ASSUME NEW a \in Credentials, IInv, SetAuth(a) PROVE IInv'
<1> USE ClientAssumption DEF IInv, SetAuth, config, settings, ownership, sending, outcome, report, Done, Clear
<1>1. TypeOK'
  BY DEF TypeOK, Codes, Steps, Copies, AuthRefusal
<1>2. HandleShape'
  BY DEF HandleShape, TypeOK, Steps
<1>3. CallShape'
  BY DEF CallShape, Carried, Sending, InFlight, Asked, HandleShape
<1>4. LocalShape'
  BY DEF LocalShape, AuthParts, InFlight, Asked
<1>5. Effort'
  BY DEF Effort, InFlight, Asked
<1>6. Balanced'
  BY NextState
<1>7. TransportsReleased'
  BY DEF TransportsReleased
<1>8. WaitBounded'
  BY DEF WaitBounded
<1>9. QED
  BY <1>1, <1>2, <1>3, <1>4, <1>5, <1>6, <1>7, <1>8

\* A send is refused, or starts.
LEMMA BeginStep ==
  ASSUME NEW r \in Requests, IInv, Begin(r) PROVE IInv'
<1> USE ClientAssumption DEF IInv, Begin, config, settings, ownership, sending, outcome, report, Done, Clear
<1>1. TypeOK'
  BY DEF TypeOK, Codes, Steps, SendRefusal
<1>2. HandleShape'
  BY DEF HandleShape, TypeOK, Steps
<1>3. CallShape'
  BY DEF CallShape, Carried, Sending, InFlight, Asked, HandleShape, SendRefusal, Held, Unset
<1>4. LocalShape'
  BY DEF LocalShape, AuthParts, InFlight, Asked
<1>5. Effort'
  BY DEF Effort, InFlight, Asked
<1>6. Balanced'
  BY NextState
<1>7. TransportsReleased'
  BY DEF TransportsReleased
<1>8. WaitBounded'
  BY DEF WaitBounded
<1>9. QED
  BY <1>1, <1>2, <1>3, <1>4, <1>5, <1>6, <1>7, <1>8

\* tamga_client_new: the struct and those of its strings that fit.
LEMMA NewStep ==
  ASSUME IInv, New PROVE IInv'
<1> USE ClientAssumption DEF IInv, New, config, settings, ownership, sending, outcome, report, Done, Clear
<1>1. TypeOK'
  <2>1. heap \in Heaps
    BY DEF TypeOK, Heaps
  <2>2. heap' \in Heaps
    BY <2>1, HeapFacts
  <2>3. fields' \subseteq Fields
    <3>1. CASE UNCHANGED fields
      BY <3>1 DEF TypeOK
    <3>2. CASE \E made \in SUBSET (Fields \ {"client"}) : fields' = made \cup {"client"}
      BY <3>2 DEF Fields
    <3>3. QED
      BY <3>1, <3>2
  <2>4. retries' \in 0..16 /\ timeout' \in Nat
    BY DEF TypeOK
  <2>5. QED
    BY <2>2, <2>3, <2>4 DEF TypeOK, Codes, Steps, Heaps
<1>2. HandleShape'
  BY DEF HandleShape, TypeOK, Steps
<1>3. CallShape'
  BY DEF CallShape, Carried, Sending, InFlight, Asked
<1>4. LocalShape'
  BY DEF LocalShape, AuthParts, InFlight, Asked
<1>5. Effort'
  BY DEF Effort, InFlight, Asked, TypeOK
<1>6. Balanced'
  <2>1. CASE UNCHANGED <<fields, heap>>
    BY <2>1, NextState
  <2>2. CASE heap' = Alloc(heap, fields') /\ pc' = "fields"
    <3>1. fields = {} /\ UNCHANGED <<auth, transport, locals, http, out>>
      BY DEF HandleShape
    <3>4. AuthBlocks(auth) = {} /\ TransportBlocks(transport) = {}
      BY DEF HandleShape, Held, Unset, AuthBlocks, TransportBlocks
    <3>5. Handle = {} /\ Handle' = fields'
      BY <3>1, <3>4 DEF Handle
    <3>2. heap \in Heaps /\ http \in Http /\ out \in Response \cup {NoResponse}
      BY DEF TypeOK, Heaps
    <3> HIDE DEF New
    <3>3. QED
      BY <2>2, <3>1, <3>2, <3>5, HeapFacts, HoldsInt DEF Balanced, Pointers
  <2>3. QED
    BY <2>1, <2>2
<1>7. TransportsReleased'
  BY DEF TransportsReleased
<1>8. WaitBounded'
  BY DEF WaitBounded
<1>9. QED
  BY <1>1, <1>2, <1>3, <1>4, <1>5, <1>6, <1>7, <1>8

\* A string is missing: tamga_client_free.
LEMMA NewFailsStep ==
  ASSUME IInv, NewFails PROVE IInv'
<1> USE ClientAssumption DEF IInv, NewFails, config, settings, ownership, sending, outcome, report, Fail, Leave
<1>1. TypeOK'
  <2>1. heap \in Heaps
    BY DEF TypeOK, Heaps
  <2>2. heap' \in Heaps
    BY <2>1, HeapFacts DEF FreeClient
  <2>3. QED
    BY <2>2 DEF TypeOK, Codes, Steps, Heaps, Copies
<1>2. HandleShape'
  BY DEF HandleShape, TypeOK, Steps
<1>3. CallShape'
  BY DEF CallShape, Carried, Sending, InFlight, Asked
<1>4. LocalShape'
  BY DEF LocalShape, AuthParts, InFlight, Asked
<1>5. Effort'
  BY DEF Effort, InFlight, Asked, Sending, CallShape
<1>6. Balanced'
  <2> SUFFICES ASSUME NEW k \in Kinds PROVE heap'[k] = Pointers(k)'
    BY DEF Balanced
  <2>1. heap \in Heaps /\ http \in Http /\ out \in Response \cup {NoResponse}
    BY DEF TypeOK, Heaps
  <2>2. heap[k] = Pointers(k) /\ fields \subseteq Fields
    BY DEF Balanced, TypeOK
  <2>3. heap' = Dealloc(Dealloc(Dealloc(heap, fields), AuthBlocks(auth)),
                        TransportBlocks(transport))
    BY DEF FreeClient
  <2>4. AuthBlocks(auth) = {} /\ TransportBlocks(transport) = {}
    BY DEF HandleShape, Held, Unset, AuthBlocks, TransportBlocks
  <2>5. fields' = {} /\ locals = {} /\ locals' = {}
    BY DEF LocalShape
  <2>6. UNCHANGED <<auth, transport, http, out>>
    OBVIOUS
  <2> HIDE DEF NewFails
  <2>7. QED
    BY <2>1, <2>2, <2>3, <2>4, <2>5, <2>6, HeapFacts, NothingHeld, HoldsInt
    DEF Pointers, Handle
<1>7. TransportsReleased'
  BY DEF TransportsReleased
<1>8. WaitBounded'
  BY DEF WaitBounded
<1>9. QED
  BY <1>1, <1>2, <1>3, <1>4, <1>5, <1>6, <1>7, <1>8

\* The handle is handed over, with a transport or without.
LEMMA NewSucceedsStep ==
  ASSUME IInv, NewSucceeds PROVE IInv'
<1> USE ClientAssumption DEF IInv, NewSucceeds, config, settings, ownership, sending, outcome, report, Succeed, Leave
<1>1. TypeOK'
  <2>1. heap \in Heaps
    BY DEF TypeOK, Heaps
  <2>2. heap' \in Heaps
    BY <2>1, HeapFacts
  <2>3. QED
    BY <2>2 DEF TypeOK, Codes, Steps, Heaps, Copies, CallShape
<1>2. HandleShape'
  BY DEF HandleShape, TypeOK, Steps
<1>3. CallShape'
  BY DEF CallShape, Carried, Sending, InFlight, Asked
<1>4. LocalShape'
  BY DEF LocalShape, AuthParts, InFlight, Asked
<1>5. Effort'
  BY DEF Effort, InFlight, Asked, Sending, CallShape
<1>6. Balanced'
  <2> SUFFICES ASSUME NEW k \in Kinds PROVE heap'[k] = Pointers(k)'
    BY DEF Balanced
  <2>1. heap \in Heaps /\ http \in Http /\ out \in Response \cup {NoResponse}
    BY DEF TypeOK, Heaps
  <2>2. heap[k] = Pointers(k) /\ fields \subseteq Fields
    BY DEF Balanced, TypeOK
  <2>3. AuthBlocks(auth) = {} /\ TransportBlocks(transport) = {}
    BY DEF HandleShape, Held, Unset, AuthBlocks, TransportBlocks
  <2>4. locals = {} /\ locals' = {} /\ UNCHANGED <<fields, auth, http, out>>
    BY DEF LocalShape
  <2>5. \/ /\ transport' = Builtin
           /\ heap' = Alloc(heap, TransportBlocks(Builtin))
        \/ /\ transport' = NoTransport
           /\ \E made : heap' = Dealloc(Alloc(heap, made), made)
    OBVIOUS
  <2>6. TransportBlocks(NoTransport) = {}
    BY DEF TransportBlocks
  <2> HIDE DEF NewSucceeds
  <2>7. QED
    BY <2>1, <2>2, <2>3, <2>4, <2>5, <2>6, HeapFacts, NothingHeld, HoldsInt
    DEF Pointers, Handle, AuthBlocks, TransportBlocks, Fields
<1>7. TransportsReleased'
  BY DEF TransportsReleased, HandleShape
<1>8. WaitBounded'
  BY DEF WaitBounded
<1>9. QED
  BY <1>1, <1>2, <1>3, <1>4, <1>5, <1>6, <1>7, <1>8

\* tamga_client_free
LEMMA FreeStep ==
  ASSUME IInv, Free PROVE IInv'
<1> USE ClientAssumption DEF IInv, Free, config, settings, ownership, sending, outcome, report, FreeClient
<1>1. TypeOK'
  <2>1. heap \in Heaps
    BY DEF TypeOK, Heaps
  <2>2. heap' \in Heaps
    BY <2>1, HeapFacts
  <2>3. auth' \in Auth /\ accepted' \in Copies
    BY DEF Unset, Auth, AuthKinds, Copies
  <2>4. destroys' \in [Transports -> Nat]
    BY DEF TypeOK, Destroyed
  <2>5. QED
    BY <2>2, <2>3, <2>4 DEF TypeOK, Heaps
<1>2. HandleShape'
  BY DEF HandleShape, Held
<1>3. CallShape'
  BY DEF CallShape, Carried, Sending, InFlight, Asked
<1>4. LocalShape'
  BY DEF LocalShape, AuthParts, InFlight, Asked
<1>5. Effort'
  BY DEF Effort, InFlight, Asked, Sending, CallShape
<1>6. Balanced'
  <2> SUFFICES ASSUME NEW k \in Kinds PROVE heap'[k] = Pointers(k)'
    BY DEF Balanced
  <2>1. heap \in Heaps /\ http \in Http /\ out \in Response \cup {NoResponse}
    BY DEF TypeOK, Heaps
  <2>2. heap[k] = Pointers(k) /\ fields \subseteq Fields
    BY DEF Balanced, TypeOK
  <2>3. heap' = Dealloc(Dealloc(Dealloc(heap, fields), AuthBlocks(auth)),
                        TransportBlocks(transport))
    BY DEF FreeClient
  <2>4. fields' = {} /\ AuthBlocks(auth') = {} /\ TransportBlocks(transport') = {}
    BY DEF Unset, AuthBlocks, TransportBlocks
  <2>5. UNCHANGED <<locals, http, out>>
    OBVIOUS
  <2>6. heap'[k] = heap[k] - (IF k \in fields THEN 1 ELSE 0)
                           - (IF k \in AuthBlocks(auth) THEN 1 ELSE 0)
                           - (IF k \in TransportBlocks(transport) THEN 1 ELSE 0)
    BY <2>1, <2>3, HeapFacts
  <2>7. Handle' = {}
    BY <2>4 DEF Handle
  <2>8. (IF k \in fields THEN 1 ELSE 0) + (IF k \in AuthBlocks(auth) THEN 1 ELSE 0)
         + (IF k \in TransportBlocks(transport) THEN 1 ELSE 0)
         = IF k \in Handle THEN 1 ELSE 0
    BY <2>2 DEF Handle, AuthBlocks, TransportBlocks, Fields
  <2> HIDE DEF Free
  <2>9. QED
    BY <2>1, <2>2, <2>3, <2>4, <2>5, <2>6, <2>7, <2>8, HeapFacts, NothingHeld, HoldsInt
    DEF Pointers
<1>7. TransportsReleased'
  BY DEF TransportsReleased, HandleShape, TypeOK, Destroyed
<1>8. WaitBounded'
  BY DEF WaitBounded
<1>9. QED
  BY <1>1, <1>2, <1>3, <1>4, <1>5, <1>6, <1>7, <1>8

\* The first copy of a credential.
LEMMA CopyPrimaryStep ==
  ASSUME IInv, CopyPrimary PROVE IInv'
<1> USE ClientAssumption DEF IInv, CopyPrimary, config, settings, ownership, sending, outcome, report, Fail, Leave
<1>1. TypeOK'
  <2>1. heap \in Heaps
    BY DEF TypeOK, Heaps
  <2>2. heap' \in Heaps
    BY <2>1, HeapFacts
  <2>3. QED
    BY <2>2 DEF TypeOK, Codes, Steps, Heaps, Copies, Kinds
<1>2. HandleShape'
  BY DEF HandleShape, TypeOK, Steps
<1>3. CallShape'
  BY DEF CallShape, Carried, Sending, InFlight, Asked
<1>4. LocalShape'
  BY DEF LocalShape, AuthParts, InFlight, Asked
<1>5. Effort'
  BY DEF Effort, InFlight, Asked, Sending, CallShape
<1>6. Balanced'
  <2>1. CASE UNCHANGED heap /\ locals' = {}
    BY <2>1, NextState DEF LocalShape
  <2>2. CASE heap' = Alloc(heap, {"primary"}) /\ locals' = {"primary"}
    <3>1. locals = {} /\ UNCHANGED <<fields, auth, transport, http, out>>
      BY DEF LocalShape
    <3>2. heap \in Heaps /\ http \in Http /\ out \in Response \cup {NoResponse}
      BY DEF TypeOK, Heaps
    <3> HIDE DEF CopyPrimary
    <3>3. QED
      BY <2>2, <3>1, <3>2, HeapFacts, HoldsInt
      DEF Balanced, Pointers, Handle, AuthBlocks, TransportBlocks, HandleShape, Held, Unset
  <2>3. QED
    BY <2>1, <2>2
<1>7. TransportsReleased'
  BY DEF TransportsReleased
<1>8. WaitBounded'
  BY DEF WaitBounded
<1>9. QED
  BY <1>1, <1>2, <1>3, <1>4, <1>5, <1>6, <1>7, <1>8

\* The second copy, or the first is freed.
LEMMA CopySecondaryStep ==
  ASSUME IInv, CopySecondary PROVE IInv'
<1> USE ClientAssumption DEF IInv, CopySecondary, config, settings, ownership, sending, outcome, report, Fail, Leave
<1>1. TypeOK'
  <2>1. heap \in Heaps
    BY DEF TypeOK, Heaps
  <2>2. heap' \in Heaps
    BY <2>1, HeapFacts
  <2>3. QED
    BY <2>2 DEF TypeOK, Codes, Steps, Heaps, Copies, Kinds
<1>2. HandleShape'
  BY DEF HandleShape, TypeOK, Steps
<1>3. CallShape'
  BY DEF CallShape, Carried, Sending, InFlight, Asked
<1>4. LocalShape'
  <2>1. CASE pc' = "idle" /\ locals' = {}
    BY <2>1 DEF LocalShape, InFlight, Asked
  <2>2. CASE pc' = "install" /\ locals' = locals \cup {"secondary"} /\ arg' = arg
    <3>1. locals = {"primary"} /\ arg.second
      BY DEF LocalShape, CallShape
    <3> HIDE DEF CopySecondary
    <3>2. QED
      BY <2>2, <3>1 DEF LocalShape, InFlight, Asked
  <2>3. QED
    BY <2>1, <2>2
<1>5. Effort'
  BY DEF Effort, InFlight, Asked, Sending, CallShape
<1>6. Balanced'
  <2> SUFFICES ASSUME NEW k \in Kinds PROVE heap'[k] = Pointers(k)'
    BY DEF Balanced
  <2>1. heap \in Heaps /\ http \in Http /\ out \in Response \cup {NoResponse}
    BY DEF TypeOK, Heaps
  <2>2. heap[k] = Pointers(k) /\ fields \subseteq Fields
    BY DEF Balanced, TypeOK
  <2>3. locals = {"primary"} /\ UNCHANGED <<fields, auth, transport, http, out>>
    BY DEF LocalShape
  <2>4. \/ heap' = Dealloc(heap, {"primary"}) /\ locals' = {}
        \/ heap' = Alloc(heap, {"secondary"}) /\ locals' = locals \cup {"secondary"}
    OBVIOUS
  <2> HIDE DEF CopySecondary
  <2>5. QED
    BY <2>1, <2>2, <2>3, <2>4, HeapFacts, NothingHeld, HoldsInt
    DEF Pointers, Handle, AuthBlocks, TransportBlocks, Fields
<1>7. TransportsReleased'
  BY DEF TransportsReleased
<1>8. WaitBounded'
  BY DEF WaitBounded
<1>9. QED
  BY <1>1, <1>2, <1>3, <1>4, <1>5, <1>6, <1>7, <1>8

\* The copies replace the old credential.
LEMMA InstallAuthStep ==
  ASSUME IInv, InstallAuth PROVE IInv'
<1> USE ClientAssumption DEF IInv, InstallAuth, config, settings, ownership, sending, outcome, report, Succeed, Leave
<1>1. TypeOK'
  <2>1. heap \in Heaps
    BY DEF TypeOK, Heaps
  <2>2. heap' \in Heaps
    BY <2>1, HeapFacts
  <2>3. arg \in Credential /\ arg \in Copies
    BY DEF CallShape, Copies
  <2>4. auth' \in Auth
    BY <2>3 DEF Auth, Copies, Credential
  <2>5. QED
    BY <2>2, <2>3, <2>4 DEF TypeOK, Codes, Steps, Heaps, Copies
<1>2. HandleShape'
  <2>1. arg \in Credential /\ arg # NoAuth /\ AuthRefusal(arg) = {}
    BY DEF CallShape
  <2>2. "secondary" \in locals <=> arg.second
    BY DEF LocalShape
  <2>3. auth' = Held(arg)
    <3>1. (IF "secondary" \in locals THEN arg ELSE NoAuth)
            = (IF arg.second THEN arg ELSE NoAuth)
      BY <2>2
    <3>2. auth' = [kind |-> arg.kind, primary |-> arg,
                   secondary |-> IF arg.second THEN arg ELSE NoAuth,
                   configured |-> TRUE]
      BY <3>1
    <3>3. QED
      BY <2>1, <3>2 DEF Held
  <2>4. QED
    BY <2>1, <2>3 DEF HandleShape
<1>3. CallShape'
  BY DEF CallShape, Carried, Sending, InFlight, Asked
<1>4. LocalShape'
  BY DEF LocalShape, AuthParts, InFlight, Asked
<1>5. Effort'
  BY DEF Effort, InFlight, Asked, Sending, CallShape
<1>6. Balanced'
  <2> SUFFICES ASSUME NEW k \in Kinds PROVE heap'[k] = Pointers(k)'
    BY DEF Balanced
  <2>1. heap \in Heaps /\ http \in Http /\ out \in Response \cup {NoResponse}
    BY DEF TypeOK, Heaps
  <2>2. heap[k] = Pointers(k) /\ fields \subseteq Fields
    BY DEF Balanced, TypeOK
  <2>3. arg # NoAuth
    BY DEF CallShape
  <2>4. AuthBlocks(auth') = locals
    BY <2>3 DEF AuthBlocks, LocalShape
  <2>5. heap' = Dealloc(heap, AuthBlocks(auth))
    OBVIOUS
  <2>6. locals' = {} /\ UNCHANGED <<fields, transport, http, out>>
    OBVIOUS
  <2> HIDE DEF InstallAuth
  <2>7. QED
    BY <2>1, <2>2, <2>3, <2>4, <2>5, <2>6, HeapFacts, NothingHeld, HoldsInt
    DEF Pointers, Handle, AuthBlocks, TransportBlocks, Fields
<1>7. TransportsReleased'
  BY DEF TransportsReleased
<1>8. WaitBounded'
  BY DEF WaitBounded
<1>9. QED
  BY <1>1, <1>2, <1>3, <1>4, <1>5, <1>6, <1>7, <1>8

\* tamga_client_set_transport, up to the bridge.
LEMMA SetTransportStep ==
  ASSUME NEW t \in Transports, IInv, SetTransport(t) PROVE IInv'
<1> USE ClientAssumption DEF IInv, SetTransport, config, settings, ownership, sending, outcome, report, Done, Clear
<1>1. TypeOK'
  <2>1. heap \in Heaps
    BY DEF TypeOK, Heaps
  <2>2. heap' \in Heaps
    BY <2>1, HeapFacts
  <2>3. QED
    BY <2>2 DEF TypeOK, Codes, Steps, Heaps, Kinds
<1>2. HandleShape'
  BY DEF HandleShape, TypeOK, Steps
<1>3. CallShape'
  BY DEF CallShape, Carried, Sending, InFlight, Asked, HandleShape
<1>4. LocalShape'
  BY DEF LocalShape, AuthParts, InFlight, Asked
<1>5. Effort'
  BY DEF Effort, InFlight, Asked, Sending, CallShape
<1>6. Balanced'
  <2>1. CASE UNCHANGED <<heap, locals>>
    BY <2>1, NextState
  <2>2. CASE heap' = Alloc(heap, {"bridge"}) /\ locals' = {"bridge"}
    <3>1. locals = {} /\ UNCHANGED <<fields, auth, transport, http, out>>
      BY DEF LocalShape
    <3>2. heap \in Heaps /\ http \in Http /\ out \in Response \cup {NoResponse}
      BY DEF TypeOK, Heaps
    <3> HIDE DEF SetTransport
    <3>3. QED
      BY <2>2, <3>1, <3>2, HeapFacts, HoldsInt
      DEF Balanced, Pointers, Handle, AuthBlocks, TransportBlocks, HandleShape, Held, Unset
  <2>3. QED
    BY <2>1, <2>2
<1>7. TransportsReleased'
  BY DEF TransportsReleased
<1>8. WaitBounded'
  BY DEF WaitBounded
<1>9. QED
  BY <1>1, <1>2, <1>3, <1>4, <1>5, <1>6, <1>7, <1>8

\* The vtable, and the transport is handed over.
LEMMA InstallTransportStep ==
  ASSUME IInv, InstallTransport PROVE IInv'
<1> USE ClientAssumption DEF IInv, InstallTransport, config, settings, ownership, sending, outcome, report, Fail, Succeed, Leave
<1>1. TypeOK'
  <2>1. heap \in Heaps
    BY DEF TypeOK, Heaps
  <2>2. heap' \in Heaps
    BY <2>1, HeapFacts
  <2>3. arg \in Transports
    BY DEF CallShape
  <2>4. destroys' \in [Transports -> Nat]
    BY DEF TypeOK, Destroyed
  <2>5. QED
    BY <2>2, <2>3, <2>4 DEF TypeOK, Codes, Steps, Heaps, Copies
<1>2. HandleShape'
  BY DEF HandleShape, CallShape
<1>3. CallShape'
  BY DEF CallShape, Carried, Sending, InFlight, Asked
<1>4. LocalShape'
  BY DEF LocalShape, AuthParts, InFlight, Asked
<1>5. Effort'
  BY DEF Effort, InFlight, Asked, Sending, CallShape
<1>6. Balanced'
  <2> SUFFICES ASSUME NEW k \in Kinds PROVE heap'[k] = Pointers(k)'
    BY DEF Balanced
  <2>1. heap \in Heaps /\ http \in Http /\ out \in Response \cup {NoResponse}
    BY DEF TypeOK, Heaps
  <2>2. heap[k] = Pointers(k) /\ fields \subseteq Fields
    BY DEF Balanced, TypeOK
  <2>3. locals = {"bridge"} /\ locals' = {} /\ UNCHANGED <<fields, auth, http, out>>
    BY DEF LocalShape
  <2>4. TransportBlocks(arg) = {"bridge", "vtable"}
    BY DEF TransportBlocks, CallShape
  <2>5. \/ heap' = Dealloc(heap, {"bridge"}) /\ transport' = transport
        \/ /\ heap' = Dealloc(Alloc(heap, {"vtable"}), TransportBlocks(transport))
           /\ transport' = arg
    OBVIOUS
  <2> HIDE DEF InstallTransport
  <2>6. QED
    BY <2>1, <2>2, <2>3, <2>4, <2>5, HeapFacts, NothingHeld, HoldsInt
    DEF Pointers, Handle, AuthBlocks, TransportBlocks, Fields
<1>7. TransportsReleased'
  <2>1. arg \in Transports \ given
    BY DEF CallShape
  <2>2. open /\ open' = open /\ (transport \in Transports => transport \in given)
    BY DEF HandleShape
  <2>3. QED
    BY <2>1, <2>2 DEF TransportsReleased, TypeOK, Destroyed
<1>8. WaitBounded'
  BY DEF WaitBounded
<1>9. QED
  BY <1>1, <1>2, <1>3, <1>4, <1>5, <1>6, <1>7, <1>8

\* tamga_client_set_api_version
LEMMA SetApiVersionStep ==
  ASSUME IInv, SetApiVersion PROVE IInv'
<1> USE ClientAssumption DEF IInv, SetApiVersion, config, settings, ownership, sending, outcome, report, Done
<1>1. TypeOK'
  <2>1. heap \in Heaps
    BY DEF TypeOK, Heaps
  <2>2. heap' \in Heaps
    BY <2>1, HeapFacts
  <2>3. QED
    BY <2>2 DEF TypeOK, Codes, Steps, Heaps
<1>2. HandleShape'
  BY DEF HandleShape, TypeOK, Steps
<1>3. CallShape'
  BY DEF CallShape, Carried, Sending, InFlight, Asked
<1>4. LocalShape'
  BY DEF LocalShape, AuthParts, InFlight, Asked
<1>5. Effort'
  BY DEF Effort, InFlight, Asked, Sending, CallShape
<1>6. Balanced'
  <2> SUFFICES ASSUME NEW k \in Kinds PROVE heap'[k] = Pointers(k)'
    BY DEF Balanced
  <2>1. heap \in Heaps /\ http \in Http /\ out \in Response \cup {NoResponse}
    BY DEF TypeOK, Heaps
  <2>2. heap[k] = Pointers(k) /\ fields \subseteq Fields
    BY DEF Balanced, TypeOK
  <2>3. \/ heap' = heap
        \/ heap' = Dealloc(Alloc(heap, {"api_version"}), {"api_version"})
    OBVIOUS
  <2>4. UNCHANGED <<fields, auth, transport, locals, http, out>>
    OBVIOUS
  <2> HIDE DEF SetApiVersion
  <2>5. QED
    BY <2>1, <2>2, <2>3, <2>4, HeapFacts, NothingHeld, HoldsInt
    DEF Pointers, Handle, AuthBlocks, TransportBlocks, Fields
<1>7. TransportsReleased'
  BY DEF TransportsReleased
<1>8. WaitBounded'
  BY DEF WaitBounded
<1>9. QED
  BY <1>1, <1>2, <1>3, <1>4, <1>5, <1>6, <1>7, <1>8

\* tamga_response_free
LEMMA FreeResponseStep ==
  ASSUME IInv, FreeResponse PROVE IInv'
<1> USE ClientAssumption DEF IInv, FreeResponse, config, settings, ownership, sending, outcome, report, Release
<1>1. TypeOK'
  <2>1. heap \in [Kinds -> Int] /\ out \in Response
    BY DEF TypeOK
  <2>2. heap' \in [Kinds -> Int]
    BY <2>1, HoldsInt
  <2>3. QED
    BY <2>2 DEF TypeOK
<1>2. HandleShape'
  BY DEF HandleShape, TypeOK, Steps
<1>3. CallShape'
  BY DEF CallShape, Carried, Sending, InFlight, Asked
<1>4. LocalShape'
  BY DEF LocalShape, AuthParts, InFlight, Asked
<1>5. Effort'
  BY DEF Effort, InFlight, Asked, Sending, CallShape
<1>6. Balanced'
  <2> SUFFICES ASSUME NEW k \in Kinds PROVE heap'[k] = Pointers(k)'
    BY DEF Balanced
  <2>1. heap \in Heaps /\ http \in Http /\ out \in Response \cup {NoResponse}
    BY DEF TypeOK, Heaps
  <2>2. heap[k] = Pointers(k) /\ fields \subseteq Fields
    BY DEF Balanced, TypeOK
  <2>3. heap'[k] = heap[k] - ResponseHolds(out, k)
    OBVIOUS
  <2>4. out' = NoResponse /\ UNCHANGED <<fields, auth, transport, locals, http>>
    OBVIOUS
  <2> HIDE DEF FreeResponse
  <2>5. QED
    BY <2>1, <2>2, <2>3, <2>4, HeapFacts, NothingHeld, HoldsInt
    DEF Pointers, Handle, AuthBlocks, TransportBlocks, Fields
<1>7. TransportsReleased'
  BY DEF TransportsReleased
<1>8. WaitBounded'
  BY DEF WaitBounded
<1>9. QED
  BY <1>1, <1>2, <1>3, <1>4, <1>5, <1>6, <1>7, <1>8

\* tamga_client_auth_header
LEMMA AuthHeaderStep ==
  ASSUME IInv, AuthHeader PROVE IInv'
<1> USE ClientAssumption DEF IInv, AuthHeader, config, settings, ownership, sending, outcome, report, Fail, Leave
<1>1. TypeOK'
  <2>1. heap \in Heaps
    BY DEF TypeOK, Heaps
  <2>2. heap' \in Heaps
    BY <2>1, HeapFacts
  <2>3. QED
    BY <2>2 DEF TypeOK, Codes, Steps, Heaps, Copies, Kinds, RequestParts
<1>2. HandleShape'
  BY DEF HandleShape, TypeOK, Steps
<1>3. CallShape'
  BY DEF CallShape, Carried, Sending, InFlight, Asked
<1>4. LocalShape'
  BY DEF LocalShape, AuthParts, InFlight, Asked
<1>5. Effort'
  BY DEF Effort, InFlight, Asked, Sending, CallShape
<1>6. Balanced'
  <2> SUFFICES ASSUME NEW k \in Kinds PROVE heap'[k] = Pointers(k)'
    BY DEF Balanced
  <2>1. heap \in Heaps /\ http \in Http /\ out \in Response \cup {NoResponse}
    BY DEF TypeOK, Heaps
  <2>2. heap[k] = Pointers(k) /\ locals = {}
    BY DEF Balanced, LocalShape
  <2>3. Handle' = Handle /\ UNCHANGED <<http, out>>
    BY DEF Handle
  <2>4. \/ locals' = {} /\ \E made : heap' = Dealloc(Alloc(heap, made), made)
        \/ heap' = Alloc(heap, locals')
    OBVIOUS
  <2> HIDE DEF AuthHeader
  <2>5. QED
    BY <2>1, <2>2, <2>3, <2>4, HeapFacts, HoldsInt DEF Pointers
<1>7. TransportsReleased'
  BY DEF TransportsReleased
<1>8. WaitBounded'
  BY DEF WaitBounded
<1>9. QED
  BY <1>1, <1>2, <1>3, <1>4, <1>5, <1>6, <1>7, <1>8

\* The codes a send can end with.
LEMMA CodeFacts ==
  /\ "OUT_OF_MEMORY" \in Codes
  /\ \A f : TransportError(f) \in Codes
  /\ \A s, b : StatusOf(s, b) \in Codes
BY DEF Codes, ServerErrors, TransportError, StatusOf, MapApiError

\* cleanup: when what is left in h is the handle, the strings built and the
\* response handed over, the strings are freed and nothing else remains.
LEMMA FinishStep ==
  ASSUME IInv, pc \in Sending,
         NEW s \in Codes, NEW r \in Response \cup {NoResponse},
         NEW h \in Heaps, NEW built,
         \A k \in Kinds : h[k] = (IF k \in Handle THEN 1 ELSE 0)
                               + (IF k \in built THEN 1 ELSE 0)
                               + ResponseHolds(r, k),
         Finish(s, r, h, built)
  PROVE  IInv'
<1> USE ClientAssumption DEF IInv, Finish, config, settings, ownership, Leave
<1>1. TypeOK'
  <2>1. heap' \in Heaps
    BY HeapFacts
  <2>2. http' \in Http /\ arg' \in Copies
    BY EmptyFacts DEF Copies
  <2>3. ret' \in Codes \cup {"none"} /\ slot' \in Codes \cup {"none"}
    BY DEF TypeOK, Succeed, Fail
  <2>4. /\ via' \in Transports \cup {NoTransport, Builtin}
        /\ reply' \in Answer \cup {NoReply}
    BY DEF TypeOK
  <2>5. /\ UNCHANGED config /\ pc' = "idle" /\ locals' = {}
        /\ req' = NoRequest /\ wire' = NoAuth /\ attempt' = 0 /\ sent' = 0
        /\ waited' = 0 /\ told' = {} /\ out' = r /\ result' = s
    OBVIOUS
  <2>6. TypeOK
    OBVIOUS
  <2> HIDE DEF Finish, IInv
  <2>7. QED
    BY <2>1, <2>2, <2>3, <2>4, <2>5, <2>6 DEF TypeOK, Heaps, Steps
<1>2. HandleShape'
  BY DEF HandleShape, Sending, InFlight, Asked
<1>3. CallShape'
  BY DEF CallShape, Sending, InFlight, Asked
<1>4. LocalShape'
  BY DEF LocalShape, InFlight, Asked
<1>5. Effort'
  BY DEF Effort, TypeOK, Asked, InFlight
<1>6. Balanced'
  <2> SUFFICES ASSUME NEW k \in Kinds PROVE heap'[k] = Pointers(k)'
    BY DEF Balanced
  <2>1. /\ Handle' = Handle /\ locals' = {} /\ http' = EmptyHttp /\ out' = r
        /\ heap' = Dealloc(h, built)
    BY DEF Handle
  <2>2. h[k] = (IF k \in Handle THEN 1 ELSE 0) + (IF k \in built THEN 1 ELSE 0)
               + ResponseHolds(r, k)
    OBVIOUS
  <2> HIDE DEF Finish
  <2>3. ResponseHolds(r, k) \in Int
    BY HoldsInt
  <2>4. QED
    BY <2>1, <2>2, <2>3, HeapFacts, NothingHeld DEF Pointers
<1>7. TransportsReleased'
  BY DEF TransportsReleased
<1>8. WaitBounded'
  BY DEF WaitBounded
<1>9. QED
  BY <1>1, <1>2, <1>3, <1>4, <1>5, <1>6, <1>7, <1>8

\* During a send, blocks by who points to them.
LEMMA SendHeap ==
  ASSUME IInv, pc \in Sending, NEW k \in Kinds
  PROVE  /\ heap \in Heaps /\ http \in Http /\ out = NoResponse
         /\ heap[k] = (IF k \in Handle THEN 1 ELSE 0)
                      + (IF k \in locals THEN 1 ELSE 0) + HttpHolds(http, k)
<1>1. heap[k] = Pointers(k) /\ heap \in Heaps /\ http \in Http /\ out = NoResponse
  BY DEF IInv, Balanced, TypeOK, Heaps, CallShape
<1>2. QED
  BY <1>1, NothingHeld, HoldsInt DEF Pointers

\* The url and the version are built, or the call ends.
LEMMA BuildRequestStep == ASSUME IInv, BuildRequest PROVE IInv'
<1>1. pc = "build" /\ pc \in Sending /\ heap \in Heaps
  BY DEF BuildRequest, Sending, IInv, TypeOK, Heaps
<1>2. locals \cap {"url", "version"} = {} /\ locals = AuthParts
  BY <1>1 DEF IInv, LocalShape, AuthParts
<1>3. PICK made \in SUBSET {"url", "version"} :
        \/ Finish("OUT_OF_MEMORY", NoResponse, Alloc(heap, made), locals \cup made)
        \/ /\ made = {"url", "version"}
           /\ heap' = Alloc(heap, made) /\ locals' = locals \cup made
           /\ wire' = Carried /\ pc' = "perform"
           /\ UNCHANGED <<config, arg, req, attempt, sent, waited, via, reply,
                          http, told, outcome, report>>
  BY DEF BuildRequest
<1>4. \A k \in Kinds :
        Alloc(heap, made)[k] = (IF k \in Handle THEN 1 ELSE 0)
                               + (IF k \in locals \cup made THEN 1 ELSE 0)
                               + HttpHolds(http, k)
  <2> SUFFICES ASSUME NEW k \in Kinds
               PROVE  Alloc(heap, made)[k] =
                        (IF k \in Handle THEN 1 ELSE 0)
                        + (IF k \in locals \cup made THEN 1 ELSE 0)
                        + HttpHolds(http, k)
    OBVIOUS
  <2>1. PICK x \in Int : x = HttpHolds(http, k)
    BY HoldsInt DEF IInv, TypeOK
  <2>2. heap[k] = (IF k \in Handle THEN 1 ELSE 0)
                  + (IF k \in locals THEN 1 ELSE 0) + x
    BY <1>1, <2>1, SendHeap
  <2>3. Alloc(heap, made)[k] = heap[k] + IF k \in made THEN 1 ELSE 0
    BY <1>1, HeapFacts
  <2>4. k \in made => k \notin locals
    BY <1>2
  <2>5. QED
    BY <2>1, <2>2, <2>3, <2>4
<1>5. http = EmptyHttp /\ out = NoResponse
  BY <1>1 DEF IInv, CallShape, Asked, Sending, InFlight
<1>6. CASE Finish("OUT_OF_MEMORY", NoResponse, Alloc(heap, made), locals \cup made)
  <2>1. \A k \in Kinds :
          Alloc(heap, made)[k] = (IF k \in Handle THEN 1 ELSE 0)
                                 + (IF k \in locals \cup made THEN 1 ELSE 0)
                                 + ResponseHolds(NoResponse, k)
    BY <1>4, <1>5, NothingHeld
  <2>2. Alloc(heap, made) \in Heaps
    BY <1>1, HeapFacts
  <2>3. QED
    BY <1>1, <1>6, <2>1, <2>2, CodeFacts, FinishStep
<1>7. CASE /\ made = {"url", "version"}
           /\ heap' = Alloc(heap, made) /\ locals' = locals \cup made
           /\ wire' = Carried /\ pc' = "perform"
           /\ UNCHANGED <<config, arg, req, attempt, sent, waited, via, reply,
                          http, told, outcome, report>>
  <2> USE <1>7, ClientAssumption
      DEF IInv, config, settings, ownership, outcome, report
  <2>1. TypeOK'
    <3>1. heap' \in Heaps
      BY <1>1, HeapFacts
    <3>2. wire' \in Wire
      BY DEF TypeOK, Auth, Wire, Carried, Copies
    <3>3. locals' \subseteq Kinds
      BY DEF TypeOK, Kinds, RequestParts
    <3>4. QED
      BY <3>1, <3>2, <3>3 DEF TypeOK, Heaps, Steps
  <2>2. HandleShape'
    BY <1>1 DEF HandleShape
  <2>3. CallShape'
    BY <1>1 DEF CallShape, Sending, InFlight, Asked, Carried
  <2>4. LocalShape'
    BY <1>2 DEF LocalShape, InFlight, Asked, AuthParts
  <2>5. Effort'
    BY <1>1 DEF Effort, InFlight, Asked
  <2>6. Balanced'
    BY <1>4, <1>5, NothingHeld DEF Balanced, Pointers, Handle
  <2>7. TransportsReleased' /\ WaitBounded'
    BY DEF TransportsReleased, WaitBounded
  <2>8. QED
    BY <2>1, <2>2, <2>3, <2>4, <2>5, <2>6, <2>7
<1>8. QED
  BY <1>3, <1>6, <1>7

\* libcurl is asked.
LEMMA CurlStartsStep ==
  ASSUME IInv, CurlStarts PROVE IInv'
<1> USE ClientAssumption DEF IInv, CurlStarts, config, settings, ownership, sending, outcome, report
<1>1. TypeOK'
  <2>1. heap \in Heaps
    BY DEF TypeOK, Heaps
  <2>2. heap' \in Heaps
    BY <2>1, HeapFacts
  <2>3. QED
    BY <2>2 DEF TypeOK, Codes, Steps, Heaps, Kinds, CurlParts
<1>2. HandleShape'
  BY DEF HandleShape, TypeOK, Steps
<1>3. CallShape'
  <2>1. http = EmptyHttp /\ told = {} /\ wire = Carried /\ Carried' = Carried
    BY DEF CallShape, InFlight, Asked, Carried
  <2>2. http.body = "none"
    BY <2>1 DEF EmptyHttp
  <2>3. /\ pc' = "curl" /\ transport' = Builtin /\ http' = http /\ wire' = wire
        /\ req' = req /\ out' = out /\ accepted' = accepted
    OBVIOUS
  <2>4. /\ req \in Request /\ out = NoResponse /\ accepted # NoAuth
        /\ Builtin # NoTransport
    BY DEF CallShape, Sending, InFlight, Asked
  <2> HIDE DEF CurlStarts, IInv
  <2>5. QED
    BY <2>1, <2>2, <2>3, <2>4 DEF CallShape, Sending, InFlight, Asked
<1>4. LocalShape'
  BY DEF LocalShape, AuthParts, InFlight, Asked, CallShape
<1>5. Effort'
  BY DEF Effort, InFlight, Asked, TypeOK
<1>6. Balanced'
  <2> SUFFICES ASSUME NEW k \in Kinds PROVE heap'[k] = Pointers(k)'
    BY DEF Balanced
  <2>1. heap \in Heaps /\ http \in Http /\ out \in Response \cup {NoResponse}
    BY DEF TypeOK, Heaps
  <2>2. heap[k] = Pointers(k)
    BY DEF Balanced
  <2>3. Handle' = Handle /\ out' = out
    BY DEF Handle
  <2>4. UNCHANGED http /\ heap' = Alloc(heap, {"slist"}) /\ locals' = locals \cup {"slist"}
    OBVIOUS
  <2>5. "slist" \notin locals
    BY DEF LocalShape, AuthParts, InFlight, Asked
  <2> HIDE DEF CurlStarts
  <2>6. QED
    BY <2>1, <2>2, <2>3, <2>4, <2>5, HeapFacts, HoldsInt
    DEF Pointers
<1>7. TransportsReleased'
  BY DEF TransportsReleased
<1>8. WaitBounded'
  BY DEF WaitBounded
<1>9. QED
  BY <1>1, <1>2, <1>3, <1>4, <1>5, <1>6, <1>7, <1>8

\* A header is stored or lost: only the list and its entries change.
LEMMA HeaderFacts ==
  ASSUME TypeOK, NEW a \in Afters, NEW f \in Failures,
         StoreHeader(a) \/ LoseHeader(f)
  PROVE  /\ http' \in Http /\ heap' \in Heaps
         /\ http'.status = http.status /\ http'.body = http.body
         /\ \A k \in Kinds :
              heap'[k] - heap[k] = HttpHolds(http', k) - HttpHolds(http, k)
<1>1. http \in Http /\ heap \in Heaps
  BY DEF TypeOK, Heaps
<1>2. http.headers \in Nat /\ http.list \in BOOLEAN /\ http.after \in Afters
  BY <1>1 DEF Http
<1>3. CASE StoreHeader(a)
  <2> DEFINE b == IF http.after = NoAfter THEN a ELSE http.after
             B == {"header"} \cup IF http.list THEN {} ELSE {"list"}
  <2>1. http' = [http EXCEPT !.list = TRUE, !.headers = http.headers + 1,
                             !.after = b]
    BY <1>3 DEF StoreHeader
  <2>2. heap' = Alloc(heap, B)
    BY <1>3 DEF StoreHeader
  <2>3. b \in Afters
    BY <1>2
  <2> HIDE DEF b
  <2>4. http' \in Http
    <3>1. http.headers + 1 \in Nat
      BY <1>2
    <3>2. QED
      BY <1>1, <2>1, <2>3, <3>1, HttpHeader
  <2>5. /\ http'.status = http.status /\ http'.body = http.body
        /\ http'.list = TRUE /\ http'.headers = http.headers + 1
    BY <1>1, <2>1 DEF Http
  <2>6. heap' \in Heaps
    BY <1>1, <2>2, HeapFacts
  <2>7. ASSUME NEW k \in Kinds
        PROVE  heap'[k] - heap[k] = HttpHolds(http', k) - HttpHolds(http, k)
    <3>1. heap[k] \in Int
      BY <1>1 DEF Heaps
    <3>2. heap'[k] = heap[k] + IF k \in B THEN 1 ELSE 0
      BY <1>1, <2>2, HeapFacts
    <3>3. HttpHolds(http', k) =
            IF k = "body" THEN IF http.body = "none" THEN 0 ELSE 1
            ELSE IF k = "list" THEN 1
            ELSE IF k = "header" THEN http.headers + 1 ELSE 0
      BY <2>5, HttpHoldsFacts
    <3>4. HttpHolds(http, k) =
            IF k = "body" THEN IF http.body = "none" THEN 0 ELSE 1
            ELSE IF k = "list" THEN IF http.list THEN 1 ELSE 0
            ELSE IF k = "header" THEN http.headers ELSE 0
      BY HttpHoldsFacts
    <3>5. QED
      BY <1>2, <3>1, <3>2, <3>3, <3>4
  <2>8. QED
    BY <2>4, <2>5, <2>6, <2>7
<1>4. CASE LoseHeader(f)
  <2>1. PICK grown \in BOOLEAN :
          /\ http.list => grown
          /\ http' = [http EXCEPT !.list = grown, !.failure = f]
          /\ heap' = Alloc(heap, IF grown /\ ~http.list THEN {"list"} ELSE {})
    BY <1>4 DEF LoseHeader
  <2>2. http' \in Http
    BY <1>1, <2>1, HttpListFailure
  <2>3. /\ http'.status = http.status /\ http'.body = http.body
        /\ http'.list = grown /\ http'.headers = http.headers
    BY <1>1, <2>1 DEF Http
  <2>4. heap' \in Heaps
    BY <1>1, <2>1, HeapFacts
  <2>5. ASSUME NEW k \in Kinds
        PROVE  heap'[k] - heap[k] = HttpHolds(http', k) - HttpHolds(http, k)
    <3>1. heap[k] \in Int
      BY <1>1 DEF Heaps
    <3>2. heap'[k] = heap[k] + IF k \in (IF grown /\ ~http.list THEN {"list"}
                                        ELSE {}) THEN 1 ELSE 0
      BY <1>1, <2>1, HeapFacts
    <3>3. HttpHolds(http', k) =
            IF k = "body" THEN IF http.body = "none" THEN 0 ELSE 1
            ELSE IF k = "list" THEN IF grown THEN 1 ELSE 0
            ELSE IF k = "header" THEN http.headers ELSE 0
      BY <2>3, HttpHoldsFacts
    <3>4. HttpHolds(http, k) =
            IF k = "body" THEN IF http.body = "none" THEN 0 ELSE 1
            ELSE IF k = "list" THEN IF http.list THEN 1 ELSE 0
            ELSE IF k = "header" THEN http.headers ELSE 0
      BY HttpHoldsFacts
    <3>5. QED
      BY <1>2, <2>1, <3>1, <3>2, <3>3, <3>4
  <2>6. QED
    BY <2>2, <2>3, <2>4, <2>5
<1>5. QED
  BY <1>3, <1>4

\* Blocks and the response being filled move together, nothing else.
LEMMA Refilled ==
  ASSUME TypeOK, heap' \in Heaps, http' \in Http, Balanced,
         UNCHANGED <<fields, auth, transport, locals, out>>,
         \A k \in Kinds :
           heap'[k] - heap[k] = HttpHolds(http', k) - HttpHolds(http, k)
  PROVE  Balanced'
<1> SUFFICES ASSUME NEW k \in Kinds PROVE heap'[k] = Pointers(k)'
  BY DEF Balanced
<1>1. Handle' = Handle
  BY DEF Handle
<1>2. heap[k] \in Int /\ heap'[k] \in Int /\ heap[k] = Pointers(k)
  BY DEF Balanced, TypeOK, Heaps
<1>3. /\ HttpHolds(http, k) \in Int /\ HttpHolds(http', k) \in Int
      /\ ResponseHolds(out, k) \in Int
  BY HoldsInt DEF TypeOK
<1>4. PICK p \in Int, q \in Int, r \in Int :
        p = HttpHolds(http, k) /\ q = HttpHolds(http', k) /\ r = ResponseHolds(out, k)
  BY <1>3
<1>5. heap'[k] - heap[k] = q - p
  BY <1>4
<1>6. QED
  BY <1>1, <1>2, <1>4, <1>5 DEF Pointers

\* A step of a transport: of the call only what it has been told changes.
LEMMA AskedStep ==
  ASSUME IInv, pc \in Asked, pc' \in Asked,
         pc' = "callback" => pc = "callback",
         pc' = "curl" => pc = "curl" /\ http'.body = "none",
         UNCHANGED <<config, arg, req, wire, attempt, sent, waited, via, reply,
                     outcome, report>>,
         http' \in Http, told' \subseteq {"status", "body", "header"},
         heap' \in Heaps, locals' \subseteq Kinds, LocalShape', Balanced'
  PROVE  IInv'
<1> USE DEF config, settings, ownership, outcome, report
<1>1. TypeOK'
  BY DEF IInv, TypeOK, Asked, Steps, Heaps
<1>2. HandleShape'
  BY DEF IInv, HandleShape, Asked
<1>3. CallShape'
  <2>1. /\ pc \in Sending /\ pc' \in Sending /\ pc \in InFlight
        /\ pc' \in InFlight /\ Carried' = Carried
    BY DEF Sending, InFlight, Carried
  <2>2. CallShape
    BY DEF IInv
  <2>3. pc' \notin {"primary", "secondary", "install", "vtable"}
    BY DEF Asked
  <2>4. wire' = Carried'
    BY <2>1, <2>2 DEF CallShape
  <2>5. /\ req' \in Request /\ out' = NoResponse
        /\ accepted' # NoAuth /\ transport' # NoTransport
    BY <2>1, <2>2 DEF CallShape
  <2>6. /\ pc' = "callback" => transport' \in Transports
        /\ pc' = "curl" => transport' = Builtin /\ http'.body = "none"
    BY <2>2 DEF CallShape
  <2>7. QED
    BY <2>1, <2>3, <2>4, <2>5, <2>6 DEF CallShape
<1>4. Effort'
  BY DEF IInv, Effort, InFlight
<1>5. TransportsReleased' /\ WaitBounded'
  BY DEF IInv, TransportsReleased, WaitBounded
<1>6. QED
  BY <1>1, <1>2, <1>3, <1>4, <1>5 DEF IInv

\* The blocks of a request that is in flight keep their owners.
LEMMA AskedLocals ==
  ASSUME IInv, pc \in Asked, pc' = pc, UNCHANGED <<auth, locals, arg>>,
         pc = "curl" => ("body" \in told' <=> "body" \in told)
  PROVE  LocalShape' /\ locals' \subseteq Kinds
BY DEF IInv, LocalShape, TypeOK, AuthParts, InFlight, Asked

\* libcurl hands over a header line.
LEMMA CurlHeaderStep == ASSUME IInv, CurlHeader PROVE IInv'
<1> USE ClientAssumption
<1>1. /\ pc = "curl" /\ reply \in Answer /\ told = {} /\ told' = {"header"}
      /\ StoreHeader(reply.after) \/ LoseHeader(http.failure)
      /\ UNCHANGED <<config, pc, arg, locals, req, wire, attempt, sent, waited,
                     via, reply, outcome, report>>
  BY DEF CurlHeader, IInv, TypeOK
<1>2. TypeOK /\ Balanced /\ http.body = "none"
  BY <1>1 DEF IInv, CallShape
<1>3. http.failure \in Failures /\ reply.after \in Afters
  BY <1>1, <1>2, AnswerFacts DEF TypeOK, Http
<1>4. /\ http' \in Http /\ heap' \in Heaps
      /\ http'.status = http.status /\ http'.body = http.body
      /\ \A k \in Kinds :
           heap'[k] - heap[k] = HttpHolds(http', k) - HttpHolds(http, k)
  BY <1>1, <1>2, <1>3, HeaderFacts
<1>5. UNCHANGED <<fields, auth, transport, locals, arg, out>>
  BY <1>1 DEF config, outcome
<1>6. Balanced'
  BY <1>2, <1>4, <1>5, Refilled
<1>7. LocalShape' /\ locals' \subseteq Kinds
  BY <1>1, <1>5, AskedLocals DEF Asked
<1>8. QED
  BY <1>1, <1>2, <1>4, <1>6, <1>7, AskedStep DEF Asked

\* libcurl hands over the body.
LEMMA CurlBodyStep == ASSUME IInv, CurlBody PROVE IInv'
<1> USE ClientAssumption
<1>1. /\ pc = "curl" /\ told = {"header"} /\ told' = {"header", "body"}
      /\ heap' = Alloc(heap, {"buf"}) /\ locals' = locals \cup {"buf"}
      /\ UNCHANGED <<config, pc, arg, req, wire, attempt, sent, waited, via,
                     reply, http, outcome, report>>
  BY DEF CurlBody
<1>2. /\ http.body = "none" /\ http \in Http /\ heap \in Heaps
      /\ locals = AuthParts \cup {"url", "version", "slist"}
  BY <1>1 DEF IInv, CallShape, TypeOK, Heaps, LocalShape
<1>3. UNCHANGED <<fields, auth, transport, arg, out>>
  BY <1>1 DEF config, outcome
<1>4. heap' \in Heaps /\ "buf" \notin locals
  BY <1>1, <1>2, HeapFacts DEF AuthParts
<1>5. LocalShape' /\ locals' \subseteq Kinds
  <2>1. locals' = AuthParts' \cup {"url", "version", "slist", "buf"}
    BY <1>1, <1>2, <1>3 DEF AuthParts
  <2>2. locals' \subseteq Kinds
    BY <2>1 DEF AuthParts, Kinds, RequestParts, CurlParts
  <2>3. QED
    BY <1>1, <2>1, <2>2 DEF LocalShape, InFlight, Asked
<1>6. Balanced'
  <2> SUFFICES ASSUME NEW k \in Kinds PROVE heap'[k] = Pointers(k)'
    BY DEF Balanced
  <2>1. heap[k] = (IF k \in Handle THEN 1 ELSE 0)
                  + (IF k \in locals THEN 1 ELSE 0) + HttpHolds(http, k)
        /\ out = NoResponse
    BY <1>1, SendHeap DEF Sending, InFlight, Asked
  <2>2. heap'[k] = heap[k] + IF k \in {"buf"} THEN 1 ELSE 0
    BY <1>1, <1>2, HeapFacts
  <2>3. Handle' = Handle /\ http' = http /\ out' = out
    BY <1>1, <1>3 DEF Handle
  <2>4. PICK x \in Int : x = HttpHolds(http, k)
    BY <1>2, HoldsInt
  <2>5. QED
    BY <1>1, <1>4, <2>1, <2>2, <2>3, <2>4, NothingHeld DEF Pointers
<1>7. QED
  BY <1>1, <1>2, <1>4, <1>5, <1>6, AskedStep DEF Asked

\* done: what libcurl's perform allocated for itself is freed.  made: the body,
\* when there is one.
LEMMA CurlDoneStep ==
  ASSUME IInv, pc = "curl", pc' \in {"failed", "answered"},
         NEW made \in {{}, {"body"}}, CurlDone(Alloc(heap, made)),
         http' \in Http, http'.list = http.list, http'.headers = http.headers,
         http'.body = "none" <=> made = {}
  PROVE  IInv'
<1>1. /\ heap' = Dealloc(Alloc(heap, made), locals \cap CurlParts)
      /\ locals' = locals \ CurlParts
      /\ UNCHANGED <<config, arg, req, wire, attempt, sent, waited, via, reply,
                     told, outcome, report>>
  BY DEF CurlDone
<1>2. /\ http.body = "none" /\ http \in Http /\ heap \in Heaps
      /\ locals = AuthParts \cup {"url", "version", "slist"}
                  \cup IF "body" \in told THEN {"buf"} ELSE {}
  BY DEF IInv, CallShape, TypeOK, Heaps, LocalShape
<1>3. UNCHANGED <<fields, auth, transport, arg, out>>
  BY <1>1 DEF config, outcome
<1>4. heap' \in Heaps
  BY <1>1, <1>2, HeapFacts
<1>5. LocalShape' /\ locals' \subseteq Kinds
  <2>1. locals' = AuthParts' \cup {"url", "version"}
    BY <1>1, <1>2, <1>3 DEF AuthParts, CurlParts
  <2>2. locals' \subseteq Kinds
    BY <2>1 DEF AuthParts, Kinds, RequestParts
  <2>3. QED
    BY <1>1, <2>1, <2>2 DEF LocalShape, InFlight, Asked
<1>6. Balanced'
  <2> SUFFICES ASSUME NEW k \in Kinds PROVE heap'[k] = Pointers(k)'
    BY DEF Balanced
  <2>1. heap[k] = (IF k \in Handle THEN 1 ELSE 0)
                  + (IF k \in locals THEN 1 ELSE 0) + HttpHolds(http, k)
        /\ out = NoResponse
    BY SendHeap DEF Sending, InFlight, Asked
  <2>2. heap'[k] = heap[k] + (IF k \in made THEN 1 ELSE 0)
                   - IF k \in locals \cap CurlParts THEN 1 ELSE 0
    <3>1. Alloc(heap, made) \in Heaps
      BY <1>2, HeapFacts
    <3>2. Alloc(heap, made)[k] = heap[k] + IF k \in made THEN 1 ELSE 0
      BY <1>2, HeapFacts
    <3>3. heap'[k] = Alloc(heap, made)[k]
                     - IF k \in locals \cap CurlParts THEN 1 ELSE 0
      BY <1>1, <3>1, HeapFacts
    <3>4. heap[k] \in Int
      BY <1>2 DEF Heaps
    <3>5. QED
      BY <3>2, <3>3, <3>4
  <2>3. Handle' = Handle /\ out' = out
    BY <1>1, <1>3 DEF Handle
  <2>4. PICK x \in Int : x = HttpHolds(http, k)
    BY <1>2, HoldsInt
  <2>5. HttpHolds(http', k) = x + IF k \in made THEN 1 ELSE 0
    <3>1. http.headers \in Nat /\ http.list \in BOOLEAN
      BY <1>2 DEF Http
    <3>2. CASE k = "body"
      BY <1>2, <2>4, <3>2, HttpHoldsFacts
    <3>3. CASE k # "body"
      <4>1. k \notin made
        BY <3>3
      <4>2. HttpHolds(http', k) = HttpHolds(http, k)
        BY <3>3, HttpHoldsFacts
      <4>3. QED
        BY <2>4, <4>1, <4>2
    <3>4. heap[k] \in Int
      BY <1>2 DEF Heaps
    <3>5. QED
      BY <3>2, <3>3, <3>4
  <2>6. k \in locals' <=> k \in locals /\ k \notin locals \cap CurlParts
    BY <1>1
  <2>7. Pointers(k)' = (IF k \in Handle THEN 1 ELSE 0)
                       + (IF k \in locals' THEN 1 ELSE 0)
                       + (x + IF k \in made THEN 1 ELSE 0)
    BY <2>1, <2>3, <2>5, NothingHeld DEF Pointers
  <2>8. heap[k] = (IF k \in Handle THEN 1 ELSE 0)
                  + (IF k \in locals THEN 1 ELSE 0) + x
    BY <2>1, <2>4
  <2>9. QED
    BY <2>2, <2>4, <2>6, <2>7, <2>8
<1>7. told' \subseteq {"status", "body", "header"}
  BY <1>1 DEF IInv, TypeOK
<1>8. QED
  BY <1>1, <1>2, <1>4, <1>5, <1>6, <1>7, AskedStep DEF Asked

LEMMA NothingAllocated == ASSUME NEW h \in Heaps PROVE Alloc(h, {}) = h
BY DEF Heaps, Alloc

\* libcurl fails.
LEMMA CurlFailsStep == ASSUME IInv, CurlFails PROVE IInv'
<1>1. PICK f \in Failures : http' = [http EXCEPT !.failure = f]
  BY DEF CurlFails
<1>2. pc = "curl" /\ pc' = "failed" /\ CurlDone(heap)
  BY DEF CurlFails
<1>3. http \in Http /\ heap \in Heaps /\ http.body = "none"
  BY <1>2 DEF IInv, TypeOK, Heaps, CallShape
<1>4. /\ http' \in Http
      /\ http'.list = http.list /\ http'.headers = http.headers
      /\ http'.body = http.body
  BY <1>1, <1>3, HttpFailure DEF Http
<1>5. CurlDone(Alloc(heap, {}))
  BY <1>2, <1>3, NothingAllocated
<1>6. QED
  BY <1>2, <1>3, <1>4, <1>5, CurlDoneStep

\* libcurl has the whole answer.
LEMMA CurlEndsStep == ASSUME IInv, CurlEnds PROVE IInv'
<1>1. pc = "curl" /\ reply \in Answer
  BY ClientAssumption DEF CurlEnds, IInv, TypeOK
<1>2. http \in Http /\ heap \in Heaps /\ http.body = "none"
  BY <1>1 DEF IInv, TypeOK, Heaps, CallShape
<1>3. reply.status \in 0..599 /\ Stored(reply.body) \in Bodies
  BY <1>1, AnswerFacts
<1>4. CASE /\ http' = [http EXCEPT !.status = reply.status,
                                   !.failure = "OUT_OF_MEMORY"]
           /\ pc' = "failed" /\ CurlDone(heap)
  <2>1. http' \in Http
    BY <1>2, <1>3, <1>4, HttpStatusFailure DEF Failures
  <2>2. http'.list = http.list /\ http'.headers = http.headers
        /\ http'.body = http.body
    BY <1>2, <1>4 DEF Http
  <2>3. CurlDone(Alloc(heap, {}))
    BY <1>2, <1>4, NothingAllocated
  <2>4. QED
    BY <1>1, <1>2, <1>4, <2>1, <2>2, <2>3, CurlDoneStep
<1>5. CASE /\ http' = [http EXCEPT !.status = reply.status,
                                   !.body = Stored(reply.body)]
           /\ pc' = "answered" /\ CurlDone(Alloc(heap, {"body"}))
  <2>1. http' \in Http
    BY <1>2, <1>3, <1>5, HttpStatusBody
  <2>2. http'.list = http.list /\ http'.headers = http.headers
        /\ http'.body = Stored(reply.body)
    BY <1>2, <1>5 DEF Http
  <2>3. Stored(reply.body) # "none"
    BY DEF Stored
  <2>4. QED
    BY <1>1, <1>2, <1>5, <2>1, <2>2, <2>3, CurlDoneStep
<1>6. QED
  BY <1>4, <1>5 DEF CurlEnds, Stored

\* The caller's transport is asked.
LEMMA CallbackStartsStep == ASSUME IInv, CallbackStarts PROVE IInv'
<1> USE ClientAssumption DEF config, settings, ownership, outcome, report
<1>1. /\ pc = "perform" /\ pc' = "callback" /\ transport \in Transports
      /\ sent' = sent + 1 /\ via' = transport
      /\ reply' \in Answer \cup {NoReply}
      /\ UNCHANGED <<config, heap, arg, locals, req, wire, attempt, waited, http,
                     told, outcome, report>>
  BY DEF CallbackStarts
<1>2. TypeOK'
  BY <1>1 DEF IInv, TypeOK, Steps
<1>3. HandleShape'
  BY <1>1 DEF IInv, HandleShape
<1>4. CallShape'
  BY <1>1 DEF IInv, CallShape, Carried, Sending, InFlight, Asked
<1>5. LocalShape'
  BY <1>1 DEF IInv, LocalShape, AuthParts, InFlight, Asked
<1>6. Effort'
  BY <1>1 DEF IInv, Effort, InFlight, Asked, TypeOK
<1>7. Balanced'
  BY <1>1, NextState DEF IInv
<1>8. TransportsReleased' /\ WaitBounded'
  BY <1>1 DEF IInv, TransportsReleased, WaitBounded
<1>9. QED
  BY <1>2, <1>3, <1>4, <1>5, <1>6, <1>7, <1>8 DEF IInv

\* What holds in a callback whatever setter it calls.
LEMMA SetterFacts ==
  ASSUME IInv, NEW setter \in {"status", "body", "header"}, MayCall(setter)
  PROVE  /\ pc = "callback" /\ pc \in Asked /\ pc' = pc
         /\ UNCHANGED <<config, arg, locals, req, wire, attempt, sent, waited,
                        via, reply, outcome, report>>
         /\ UNCHANGED <<fields, auth, transport, locals, arg, out>>
         /\ told' \subseteq {"status", "body", "header"}
         /\ TypeOK /\ Balanced /\ http \in Http /\ heap \in Heaps
         /\ LocalShape' /\ locals' \subseteq Kinds
         /\ Said \subseteq Answer
<1>1. /\ pc = "callback" /\ pc \in Asked /\ pc' = pc
      /\ UNCHANGED <<config, arg, locals, req, wire, attempt, sent, waited, via,
                     reply, outcome, report>>
  BY DEF MayCall, Asked
<1>2. UNCHANGED <<fields, auth, transport, locals, arg, out>>
  BY <1>1 DEF config, outcome
<1>3. TypeOK /\ Balanced /\ http \in Http /\ heap \in Heaps
  BY DEF IInv, TypeOK, Heaps
<1>4. told' \subseteq {"status", "body", "header"}
  BY <1>3 DEF MayCall, TypeOK
<1>5. LocalShape' /\ locals' \subseteq Kinds
  BY <1>1, <1>2, AskedLocals
<1>6. Said \subseteq Answer
  BY <1>3, ClientAssumption DEF Said, TypeOK
<1>7. QED
  BY <1>1, <1>2, <1>3, <1>4, <1>5, <1>6

\* tamga_http_result_set_status
LEMMA SetsStatusStep == ASSUME IInv, SetsStatus PROVE IInv'
<1>1. PICK a \in Said : http' = [http EXCEPT !.status = a.status]
  BY DEF SetsStatus
<1>2. MayCall("status") /\ heap' = heap
  BY DEF SetsStatus
<1> HIDE DEF SetsStatus
<1>3. a.status \in 0..599
  BY <1>1, <1>2, SetterFacts, AnswerFacts
<1>4. http' \in Http
  BY <1>1, <1>2, <1>3, SetterFacts, HttpStatus
<1>5. \A k : HttpHolds(http', k) = HttpHolds(http, k)
  <2>1. http'.body = http.body /\ http'.list = http.list
        /\ http'.headers = http.headers
    BY <1>1, <1>2, SetterFacts DEF Http
  <2>2. QED
    BY <2>1, HttpHoldsFacts
<1>6. Balanced'
  BY <1>2, <1>5, SetterFacts DEF Balanced, Pointers, Handle
<1>7. QED
  BY <1>2, <1>4, <1>6, SetterFacts, AskedStep

\* tamga_http_result_set_body
LEMMA SetsBodyStep == ASSUME IInv, SetsBody PROVE IInv'
<1>1. MayCall("body")
  BY DEF SetsBody
<1>2. PICK a \in Said :
        \/ /\ \E f \in {"OVERSIZED", "OUT_OF_MEMORY"} :
                http' = [http EXCEPT !.failure = f]
           /\ heap' = heap
        \/ /\ http' = [http EXCEPT !.body = Stored(a.body)]
           /\ heap' = Dealloc(Alloc(heap, {"body"}),
                              IF http.body = "none" THEN {} ELSE {"body"})
  BY DEF SetsBody, Stored
<1>3. http \in Http /\ heap \in Heaps /\ a \in Answer
  BY <1>1, <1>2, SetterFacts
<1>4. CASE /\ \E f \in {"OVERSIZED", "OUT_OF_MEMORY"} :
                http' = [http EXCEPT !.failure = f]
           /\ heap' = heap
  <2>1. http' \in Http
    BY <1>3, <1>4, HttpFailure DEF Failures
  <2>2. \A k : HttpHolds(http', k) = HttpHolds(http, k)
    <3>1. http'.body = http.body /\ http'.list = http.list
          /\ http'.headers = http.headers
      BY <1>3, <1>4 DEF Http
    <3>2. QED
      BY <3>1, HttpHoldsFacts
  <2>3. Balanced'
    BY <1>1, <1>4, <2>2, SetterFacts DEF Balanced, Pointers, Handle
  <2>4. QED
    BY <1>1, <1>4, <2>1, <2>3, SetterFacts, AskedStep
<1>5. CASE /\ http' = [http EXCEPT !.body = Stored(a.body)]
           /\ heap' = Dealloc(Alloc(heap, {"body"}),
                              IF http.body = "none" THEN {} ELSE {"body"})
  <2>1. http' \in Http
    BY <1>3, <1>5, HttpBody, AnswerFacts
  <2>2. http'.body # "none" /\ http'.list = http.list
        /\ http'.headers = http.headers
    BY <1>3, <1>5 DEF Http, Stored
  <2>3. heap' \in Heaps
    BY <1>3, <1>5, HeapFacts
  <2>4. ASSUME NEW k \in Kinds
        PROVE  heap'[k] - heap[k] = HttpHolds(http', k) - HttpHolds(http, k)
    <3>1. heap[k] \in Int /\ Alloc(heap, {"body"}) \in Heaps
      BY <1>3, HeapFacts DEF Heaps
    <3>2. heap'[k] = Alloc(heap, {"body"})[k]
            - IF k \in (IF http.body = "none" THEN {} ELSE {"body"}) THEN 1 ELSE 0
      BY <1>5, <3>1, HeapFacts
    <3>3. Alloc(heap, {"body"})[k] = heap[k] + IF k \in {"body"} THEN 1 ELSE 0
      BY <1>3, HeapFacts
    <3>4. http.headers \in Nat /\ http.list \in BOOLEAN
      BY <1>3 DEF Http
    <3>5. HttpHolds(http', k) =
            IF k = "body" THEN 1
            ELSE IF k = "list" THEN IF http.list THEN 1 ELSE 0
            ELSE IF k = "header" THEN http.headers ELSE 0
      BY <2>2, HttpHoldsFacts
    <3>6. HttpHolds(http, k) =
            IF k = "body" THEN IF http.body = "none" THEN 0 ELSE 1
            ELSE IF k = "list" THEN IF http.list THEN 1 ELSE 0
            ELSE IF k = "header" THEN http.headers ELSE 0
      BY HttpHoldsFacts
    <3>7. QED
      BY <3>1, <3>2, <3>3, <3>4, <3>5, <3>6
  <2>5. Balanced'
    BY <1>1, <2>1, <2>3, <2>4, SetterFacts, Refilled
  <2>6. QED
    BY <1>1, <2>1, <2>3, <2>5, SetterFacts, AskedStep
<1>6. QED
  BY <1>2, <1>4, <1>5

\* tamga_http_result_add_header
LEMMA AddsHeaderStep == ASSUME IInv, AddsHeader PROVE IInv'
<1>1. MayCall("header")
  BY DEF AddsHeader
<1>2. PICK a \in Said : StoreHeader(a.after) \/ LoseHeader("OUT_OF_MEMORY")
  BY DEF AddsHeader
<1>3. a.after \in Afters /\ "OUT_OF_MEMORY" \in Failures
  BY <1>1, <1>2, SetterFacts, AnswerFacts DEF Failures
<1>4. /\ http' \in Http /\ heap' \in Heaps
      /\ \A k \in Kinds :
           heap'[k] - heap[k] = HttpHolds(http', k) - HttpHolds(http, k)
  BY <1>1, <1>2, <1>3, SetterFacts, HeaderFacts
<1>5. Balanced'
  BY <1>1, <1>4, SetterFacts, Refilled
<1>6. QED
  BY <1>1, <1>4, <1>5, SetterFacts, AskedStep

\* The callback comes back.
LEMMA CallbackReturnsStep == ASSUME IInv, CallbackReturns PROVE IInv'
<1>1. /\ pc = "callback" /\ pc' \in {"answered", "failed"}
      /\ UNCHANGED <<config, heap, arg, locals, sending, outcome, report>>
  BY DEF CallbackReturns
<1>2. UNCHANGED <<fields, auth, transport, locals, arg, out, http, told, heap,
                  req, wire, attempt, sent, waited, via, reply>>
  BY <1>1 DEF config, outcome, sending
<1>3. TypeOK /\ Balanced /\ LocalShape
  BY DEF IInv
<1>4. LocalShape'
  BY <1>1, <1>2, <1>3 DEF LocalShape, AuthParts, InFlight, Asked
<1>5. Balanced'
  BY <1>2, <1>3, NextState
<1>6. /\ http' \in Http /\ told' \subseteq {"status", "body", "header"}
      /\ heap' \in Heaps /\ locals' \subseteq Kinds
  BY <1>2, <1>3 DEF TypeOK, Heaps
<1>7. QED
  BY <1>1, <1>2, <1>4, <1>5, <1>6, AskedStep DEF Asked

\* tamga_http_response_free leaves what the handle and the call point to.
LEMMA FreeHttpFacts ==
  ASSUME IInv, pc \in Sending
  PROVE  /\ FreeHttp(heap) \in Heaps
         /\ \A k \in Kinds :
              FreeHttp(heap)[k] = (IF k \in Handle THEN 1 ELSE 0)
                                  + (IF k \in locals THEN 1 ELSE 0)
                                  + ResponseHolds(NoResponse, k)
<1>1. heap \in Heaps /\ http \in Http
  BY DEF IInv, TypeOK, Heaps
<1>2. \A k \in Kinds : FreeHttp(heap)[k] = heap[k] - HttpHolds(http, k)
  BY DEF FreeHttp
<1>3. FreeHttp(heap) \in Heaps
  BY <1>1, HoldsInt DEF FreeHttp, Heaps
<1>4. ASSUME NEW k \in Kinds
      PROVE  FreeHttp(heap)[k] = (IF k \in Handle THEN 1 ELSE 0)
                                 + (IF k \in locals THEN 1 ELSE 0)
                                 + ResponseHolds(NoResponse, k)
  <2>1. PICK x \in Int : x = HttpHolds(http, k)
    BY <1>1, HoldsInt
  <2>2. heap[k] = (IF k \in Handle THEN 1 ELSE 0)
                  + (IF k \in locals THEN 1 ELSE 0) + x
    BY <2>1, SendHeap
  <2>3. FreeHttp(heap)[k] = heap[k] - x
    BY <1>2, <2>1
  <2>4. ResponseHolds(NoResponse, k) = 0
    BY NothingHeld
  <2>5. QED
    BY <2>1, <2>2, <2>3, <2>4
<1>5. QED
  BY <1>3, <1>4

\* The transport failed: the call ends without a response.
LEMMA TransportFailsStep == ASSUME IInv, TransportFails PROVE IInv'
<1>1. /\ pc \in Sending
      /\ Finish(TransportError(http.failure), NoResponse, FreeHttp(heap), locals)
  BY DEF TransportFails, Sending, InFlight, Asked
<1>2. TransportError(http.failure) \in Codes
  BY CodeFacts
<1>3. QED
  BY <1>1, <1>2, FreeHttpFacts, FinishStep

\* A 429 is retried: its response is freed before the next attempt.
LEMMA RetryStep == ASSUME IInv, Retry PROVE IInv'
<1> USE ClientAssumption DEF config, settings, ownership, outcome, report
<1>1. /\ pc = "answered" /\ pc \in Sending /\ pc' = "perform"
      /\ attempt < retries /\ Retryable(req.kind)
      /\ heap' = FreeHttp(heap) /\ attempt' = attempt + 1
      /\ http' = EmptyHttp /\ told' = {} /\ via' = NoTransport
      /\ reply' = NoReply
      /\ UNCHANGED <<config, arg, locals, req, wire, sent, outcome, report>>
  BY DEF Retry, MayRetry, Sending, InFlight, Asked
<1>2. attempt \in 0..16 /\ retries \in 0..16 /\ waited \in Nat
  BY DEF IInv, TypeOK
<1>3. PICK d \in Int : /\ 1000 <= d /\ d <= 60000
                       /\ waited' = waited + d
  <2>1. PICK j \in Jitters : waited' = waited + Delay(attempt, Wished, j)
    BY DEF Retry
  <2>2. Wished \in Int
    BY DEF IInv, TypeOK, Http, Afters, Wished
  <2>3. OneWait(Delay(attempt, Wished, j))
    <3>1. attempt \in Nat /\ j \in Jitters
      BY <1>2, <2>1
    <3>2. QED
      BY <2>2, <3>1, DelayBounds
  <2>4. QED
    BY <2>1, <2>3 DEF OneWait
<1>4. TypeOK'
  <2>1. heap' \in Heaps /\ http' \in Http
    BY <1>1, FreeHttpFacts, EmptyFacts
  <2>2. attempt' \in 0..16 /\ waited' \in Nat
    BY <1>1, <1>2, <1>3
  <2>3. QED
    BY <1>1, <2>1, <2>2 DEF IInv, TypeOK, Heaps, Steps
<1>5. HandleShape'
  BY <1>1 DEF IInv, HandleShape
<1>6. CallShape'
  BY <1>1 DEF IInv, CallShape, Carried, Sending, InFlight, Asked
<1>7. LocalShape'
  BY <1>1 DEF IInv, LocalShape, AuthParts, InFlight, Asked
<1>8. Effort'
  BY <1>1, <1>2 DEF IInv, Effort, InFlight, Asked
<1>9. Balanced'
  <2> SUFFICES ASSUME NEW k \in Kinds PROVE heap'[k] = Pointers(k)'
    BY DEF Balanced
  <2>1. Handle' = Handle /\ out' = out /\ out = NoResponse
    BY <1>1 DEF Handle, IInv, CallShape
  <2>2. heap'[k] = (IF k \in Handle THEN 1 ELSE 0)
                   + (IF k \in locals THEN 1 ELSE 0) + 0
    BY <1>1, FreeHttpFacts, NothingHeld
  <2>3. QED
    BY <1>1, <2>1, <2>2, NothingHeld DEF Pointers
<1>10. WaitBounded'
  <2>1. 1000 * attempt <= waited /\ waited <= 60000 * attempt
    BY DEF IInv, WaitBounded
  <2>2. attempt' <= 16
    BY <1>1, <1>2
  <2>3. QED
    BY <1>1, <1>2, <1>3, <2>1, <2>2 DEF WaitBounded
<1>11. TransportsReleased'
  BY <1>1 DEF IInv, TransportsReleased
<1>12. QED
  BY <1>4, <1>5, <1>6, <1>7, <1>8, <1>9, <1>10, <1>11 DEF IInv

\* The response takes over what the transport received.
LEMMA ReceivedFacts ==
  ASSUME http \in Http, NEW p \in BOOLEAN, NEW c \in BOOLEAN
  PROVE  /\ Received(p, c) \in Response /\ Received(p, c) # NoResponse
         /\ \A k \in Kinds :
              ResponseHolds(Received(p, c), k) =
                HttpHolds(http, k) + IF k \in Built(p, c) THEN 1 ELSE 0
<1> DEFINE r == Received(p, c)
<1>1. r \in Response
  BY DEF Received, Response, Http
<1>2. r # NoResponse
  BY <1>1, ClientAssumption
<1>3. /\ r.body = http.body /\ r.list = http.list /\ r.headers = http.headers
      /\ r.parsed = p /\ r.coded = c
  BY DEF Received
<1> HIDE DEF r
<1>4. ASSUME NEW k \in Kinds
      PROVE  ResponseHolds(r, k) =
               HttpHolds(http, k) + IF k \in Built(p, c) THEN 1 ELSE 0
  <2>1. HttpHolds(r, k) = HttpHolds(http, k)
    BY <1>3, HttpHoldsFacts
  <2>2. PICK x \in Int : x = HttpHolds(http, k)
    BY HoldsInt
  <2>3. k \in {"response", "json", "error_code"} => x = 0
    BY <2>2, HttpHoldsFacts
  <2>4. ResponseHolds(r, k) =
          IF k = "response" THEN 1
          ELSE IF k = "json" THEN IF p THEN 1 ELSE 0
          ELSE IF k = "error_code" THEN IF c THEN 1 ELSE 0
          ELSE x
    BY <1>2, <1>3, <2>1, <2>2, ResponseHoldsFacts
  <2>5. k \in Built(p, c) <=> \/ k = "response"
                              \/ k = "json" /\ p
                              \/ k = "error_code" /\ c
    BY DEF Built
  <2>6. QED
    BY <2>2, <2>3, <2>4, <2>5
<1>5. QED
  BY <1>1, <1>2, <1>4 DEF r

\* The answer is handed over, or lost for want of memory.
LEMMA AnswerReturnsStep == ASSUME IInv, AnswerReturns PROVE IInv'
<1>1. pc \in Sending /\ http \in Http /\ heap \in Heaps
  BY DEF AnswerReturns, Sending, InFlight, Asked, IInv, TypeOK, Heaps
<1>2. CASE Finish("OUT_OF_MEMORY", NoResponse, FreeHttp(heap), locals)
  BY <1>1, <1>2, FreeHttpFacts, CodeFacts, FinishStep
<1>3. CASE Finish("OUT_OF_MEMORY", NoResponse,
                  Release(Alloc(heap, {"response"}), Received(FALSE, FALSE)),
                  locals)
  <2> DEFINE r == Received(FALSE, FALSE)
             h == Release(Alloc(heap, {"response"}), r)
  <2>1. Alloc(heap, {"response"}) \in Heaps /\ r \in Response
    BY <1>1, HeapFacts, ReceivedFacts
  <2>2. h \in Heaps
    <3>1. \A k \in Kinds : /\ ResponseHolds(r, k) \in Int
                           /\ Alloc(heap, {"response"})[k] \in Int
      BY <2>1, HoldsInt DEF Heaps
    <3> HIDE DEF r
    <3>2. QED
      BY <3>1 DEF Release, Heaps
  <2>3. ASSUME NEW k \in Kinds PROVE h[k] = FreeHttp(heap)[k]
    <3>1. PICK x \in Int : x = HttpHolds(http, k)
      BY <1>1, HoldsInt
    <3>2. ResponseHolds(r, k) = x + IF k = "response" THEN 1 ELSE 0
      BY <1>1, <3>1, ReceivedFacts DEF Built
    <3>3. h[k] = Alloc(heap, {"response"})[k] - ResponseHolds(r, k)
      BY DEF Release
    <3>4. Alloc(heap, {"response"})[k] = heap[k] + IF k = "response" THEN 1 ELSE 0
      BY <1>1, HeapFacts
    <3>5. FreeHttp(heap)[k] = heap[k] - x /\ heap[k] \in Int
      BY <1>1, <3>1 DEF FreeHttp, Heaps
    <3> HIDE DEF h, r
    <3>6. QED
      BY <3>1, <3>2, <3>3, <3>4, <3>5
  <2> HIDE DEF h
  <2>4. Finish("OUT_OF_MEMORY", NoResponse, h, locals)
    BY <1>3 DEF h
  <2>5. \A k \in Kinds : h[k] = (IF k \in Handle THEN 1 ELSE 0)
                                + (IF k \in locals THEN 1 ELSE 0)
                                + ResponseHolds(NoResponse, k)
    BY <1>1, <2>3, FreeHttpFacts
  <2>6. QED
    BY <1>1, <2>2, <2>4, <2>5, CodeFacts, FinishStep
<1>4. CASE \E p, coded \in BOOLEAN :
             Finish(StatusOf(http.status, p /\ http.body = "known"),
                    Received(p, coded), Alloc(heap, Built(p, coded)), locals)
  <2> DEFINE s(p) == StatusOf(http.status, p /\ http.body = "known")
  <2> HIDE DEF s
  <2>1. PICK p \in BOOLEAN, coded \in BOOLEAN :
          Finish(s(p), Received(p, coded), Alloc(heap, Built(p, coded)), locals)
    BY <1>4 DEF s
  <2>3. Alloc(heap, Built(p, coded)) \in Heaps
    BY <1>1, HeapFacts
  <2>4. s(p) \in Codes
    BY CodeFacts DEF s
  <2>5. Received(p, coded) \in Response
    BY <1>1, ReceivedFacts
  <2>6. ASSUME NEW k \in Kinds
        PROVE  Alloc(heap, Built(p, coded))[k] =
                 (IF k \in Handle THEN 1 ELSE 0)
                 + (IF k \in locals THEN 1 ELSE 0)
                 + ResponseHolds(Received(p, coded), k)
    <3>1. PICK x \in Int : x = HttpHolds(http, k)
      BY <1>1, HoldsInt
    <3>2. ResponseHolds(Received(p, coded), k) =
            x + IF k \in Built(p, coded) THEN 1 ELSE 0
      BY <1>1, <3>1, ReceivedFacts
    <3>3. Alloc(heap, Built(p, coded))[k] =
            heap[k] + IF k \in Built(p, coded) THEN 1 ELSE 0
      BY <1>1, HeapFacts
    <3>4. heap[k] = (IF k \in Handle THEN 1 ELSE 0)
                    + (IF k \in locals THEN 1 ELSE 0) + x
      BY <1>1, <3>1, SendHeap
    <3>5. QED
      BY <3>1, <3>2, <3>3, <3>4
  <2>7. QED
    BY <1>1, <2>1, <2>3, <2>4, <2>5, <2>6, FinishStep
<1>5. QED
  BY <1>2, <1>3, <1>4 DEF AnswerReturns

\* Before the first call nothing is allocated.
LEMMA InitInv == Init => IInv
<1> SUFFICES ASSUME Init PROVE IInv
  OBVIOUS
<1> USE ClientAssumption DEF Init
<1>1. TypeOK
  <2>1. http \in Http /\ auth \in Auth /\ accepted \in Copies
    BY EmptyFacts DEF Auth, Unset, AuthKinds, Copies
  <2>2. heap \in [Kinds -> Int] /\ destroys \in [Transports -> Nat]
    OBVIOUS
  <2>3. /\ open = FALSE /\ fields = {} /\ transport = NoTransport
        /\ retries = 0 /\ timeout = 0 /\ given = {}
        /\ pc = "idle" /\ arg = NoAuth /\ locals = {}
        /\ req = NoRequest /\ wire = NoAuth
        /\ attempt = 0 /\ sent = 0 /\ waited = 0
        /\ via = NoTransport /\ reply = NoReply /\ told = {}
        /\ out = NoResponse /\ result = "none" /\ ret = "none" /\ slot = "none"
    OBVIOUS
  <2> HIDE DEF Init
  <2>4. QED
    <3>1. /\ retries \in 0..16 /\ timeout \in Nat /\ attempt \in 0..16
          /\ sent \in Nat /\ waited \in Nat
      BY <2>3
    <3>2. pc \in Steps /\ open \in BOOLEAN /\ arg \in Copies \cup Transports
      BY <2>3 DEF Steps, Copies
    <3>3. QED
      BY <2>1, <2>2, <2>3, <3>1, <3>2, Zenon DEF TypeOK
<1>2. HandleShape
  BY DEF HandleShape, Held
<1>3. CallShape
  BY DEF CallShape, Sending, InFlight, Asked
<1>4. LocalShape
  BY DEF LocalShape, InFlight, Asked
<1>5. Effort
  BY DEF Effort, InFlight, Asked
<1>6. Balanced
  <2>1. Handle = {} /\ locals = {} /\ http = EmptyHttp /\ out = NoResponse
    BY DEF Handle, AuthBlocks, Unset, TransportBlocks
  <2>2. \A k \in Kinds : heap[k] = 0
    OBVIOUS
  <2> HIDE DEF Init
  <2>3. QED
    BY <2>1, <2>2, NothingHeld DEF Balanced, Pointers
<1>7. TransportsReleased /\ WaitBounded
  BY DEF TransportsReleased, WaitBounded
<1>8. QED
  BY <1>1, <1>2, <1>3, <1>4, <1>5, <1>6, <1>7 DEF IInv

\* Every step of every call keeps the invariant.
LEMMA StepInv == IInv /\ [Next]_vars => IInv'
<1> SUFFICES ASSUME IInv, [Next]_vars PROVE IInv'
  OBVIOUS
<1>1. CASE Configure
  BY <1>1, NullArgumentStep, NewStep, FreeStep, SetApiVersionStep,
     FreeResponseStep, SetAuthStep, SetTransportStep, SetMaxRetriesStep,
     SetTimeoutStep DEF Configure
<1>2. CASE Proceed
  BY <1>2, NewFailsStep, NewSucceedsStep, CopyPrimaryStep, CopySecondaryStep,
     InstallAuthStep, InstallTransportStep DEF Proceed
<1>3. CASE \E r \in Requests : Begin(r)
  BY <1>3, BeginStep
<1>4. CASE Curl
  BY <1>4, CurlStartsStep, CurlHeaderStep, CurlBodyStep, CurlFailsStep,
     CurlEndsStep DEF Curl
<1>5. CASE Callback
  BY <1>5, CallbackStartsStep, SetsStatusStep, SetsBodyStep, AddsHeaderStep,
     CallbackReturnsStep DEF Callback
<1>6. CASE SendLoop
  BY <1>6, AuthHeaderStep, BuildRequestStep, TransportFailsStep, RetryStep,
     AnswerReturnsStep DEF SendLoop
<1>7. CASE UNCHANGED vars
  <2> USE <1>7 DEF vars, config, settings, ownership, sending, outcome, report
  <2>1. TypeOK' /\ HandleShape' /\ CallShape' /\ LocalShape'
    BY DEF IInv, TypeOK, HandleShape, CallShape, Carried, LocalShape, AuthParts
  <2>2. Balanced'
    BY NextState DEF IInv
  <2>3. Effort' /\ TransportsReleased' /\ WaitBounded'
    BY DEF IInv, Effort, TransportsReleased, WaitBounded
  <2>4. QED
    BY <2>1, <2>2, <2>3 DEF IInv
<1>8. QED
  BY <1>1, <1>2, <1>3, <1>4, <1>5, <1>6, <1>7 DEF Next

\* What every reachable state has.
THEOREM Invariance == Spec => []IInv
BY InitInv, StepInv, PTL DEF Spec

\* The handle keeps its type; max_retries stays within 0..16 whatever the
\* caller passes to tamga_client_set_max_retries.
THEOREM TypeCorrect == Spec => []TypeOK
<1>1. IInv => TypeOK
  BY DEF IInv
<1>2. QED
  BY <1>1, Invariance, PTL

\* No path of tamga_client_new, of a setter or of a send, with any allocation
\* failing and any transport beneath, leaks a block or frees one twice.
THEOREM NoLeak == Spec => []HeapReachable
<1>1. IInv => HeapReachable
  <2> SUFFICES ASSUME IInv PROVE HeapReachable
    OBVIOUS
  <2>1. \A k \in Kinds : heap[k] = Pointers(k)
    BY DEF IInv, Balanced
  <2>2. pc = "idle" => locals = {} /\ http = EmptyHttp
    BY DEF IInv, LocalShape, CallShape, Asked
  <2>3. ASSUME ~open, pc = "idle" PROVE Handle = {}
    BY <2>3 DEF IInv, HandleShape, Handle, Held, Unset, AuthBlocks,
                TransportBlocks
  <2>4. QED
    BY <2>1, <2>2, <2>3 DEF HeapReachable
<1>2. QED
  BY <1>1, Invariance, PTL

\* A caller's transport is destroyed exactly once after it was handed over and
\* given up, and never when registering it failed.
THEOREM DestroyedOnce == Spec => []TransportsReleased
<1>1. IInv => TransportsReleased
  BY DEF IInv
<1>2. QED
  BY <1>1, Invariance, PTL

\* A call asks its transport at most max_retries + 1 times, and for a request
\* that may not be repeated only once.
THEOREM BudgetKept == Spec => []RetryBudget
<1>1. IInv => RetryBudget
  <2> SUFFICES ASSUME IInv PROVE RetryBudget
    OBVIOUS
  <2>1. attempt \in 0..16 /\ retries \in 0..16
    BY DEF IInv, TypeOK
  <2>2. /\ attempt <= retries /\ sent \in {attempt, attempt + 1}
        /\ attempt > 0 => Retryable(req.kind)
    BY DEF IInv, Effort
  <2>3. QED
    BY <2>1, <2>2 DEF RetryBudget, Retryable
<1>2. QED
  BY <1>1, Invariance, PTL

\* Whatever Retry-After the server sends, each retry waits between one second
\* and one minute.
THEOREM WaitsBounded == Spec => []WaitBounded
<1>1. IInv => WaitBounded
  BY DEF IInv
<1>2. QED
  BY <1>1, Invariance, PTL

\* No block and no transport is lost or released twice, for any transports,
\* credentials, requests and answers.
THEOREM BlocksAlwaysAccounted == Spec => []BlocksAccounted
<1>1. HeapReachable /\ TransportsReleased => BlocksAccounted
  BY DEF BlocksAccounted
<1>2. QED
  BY <1>1, NoLeak, DestroyedOnce, PTL

\* Requests and waits of one call are bounded for every budget and every
\* Retry-After.
THEOREM RetriesAlwaysBounded == Spec => []RetriesBounded
<1>1. RetryBudget /\ WaitBounded => RetriesBounded
  BY DEF RetriesBounded
<1>2. QED
  BY <1>1, BudgetKept, WaitsBounded, PTL

\* What a request carries was built, part by part, from the credential of the
\* last set_auth that said TAMGA_OK, however many failed since, and wherever.
THEOREM CredentialAlwaysWhole == Spec => []CredentialWhole
<1>1. IInv => CredentialWhole
  <2> SUFFICES ASSUME IInv PROVE CredentialWhole
    OBVIOUS
  <2> SUFFICES ASSUME wire # NoAuth
               PROVE  accepted # NoAuth /\ wire = Signed(accepted)
    BY DEF CredentialWhole
  <2>1. pc \in InFlight /\ wire = Carried
    BY DEF IInv, CallShape
  <2>2. accepted # NoAuth /\ auth = Held(accepted) /\ AuthRefusal(accepted) = {}
    BY <2>1 DEF IInv, CallShape, Sending, HandleShape
  <2>3. /\ auth.kind = accepted.kind /\ auth.primary = accepted
        /\ auth.secondary = IF accepted.second THEN accepted ELSE NoAuth
    BY <2>2 DEF Held
  <2>4. accepted.kind = "email" => accepted.second
    BY <2>2 DEF AuthRefusal
  <2>5. Carried = Signed(accepted)
    BY <2>3, <2>4 DEF Carried, Signed
  <2>6. QED
    BY <2>1, <2>2, <2>5
<1>2. QED
  BY <1>1, Invariance, PTL

\* What is said of the last answer, besides the invariant.
Told == Filled /\ Handover /\ SlotAgrees /\ AnswerHeard

\* A step between sends: the last answer stays as it is.
LEMMA QuietTold ==
  ASSUME ReplyInv, pc' \notin Sending,
         UNCHANGED <<out, result, via, reply>>,
         pc' # "idle" => ret' = "none" /\ slot' = "none",
         ret' # "none" => slot' = IF ret' = "OK" THEN "none" ELSE ret'
  PROVE  Told'
<1>1. Filled'
  BY DEF Filled, Sending, InFlight, Asked
<1>2. Handover' /\ SlotAgrees' /\ AnswerHeard'
  BY DEF ReplyInv, Handover, SlotAgrees, AnswerHeard
<1>3. QED
  BY <1>1, <1>2 DEF Told

\* A step of a send that goes on: nothing is reported yet.
LEMMA SendingTold ==
  ASSUME IInv', pc' \in Sending, ret' = "none", slot' = "none",
         result' = "none", Filled'
  PROVE  Told'
<1>1. out' = NoResponse
  BY DEF IInv, CallShape
<1>2. Handover' /\ SlotAgrees' /\ AnswerHeard'
  BY <1>1 DEF Handover, SlotAgrees, AnswerHeard, ServerErrors
<1>3. QED
  BY <1>2 DEF Told

\* Entry points that configure the handle, and what they go on to do.
LEMMA ConfigureTold == ASSUME ReplyInv, Configure PROVE Told'
<1> USE DEF config, settings, ownership, sending, outcome, report, Done, Clear
<1>1. pc = "idle"
  BY DEF Configure, NullArgument, New, Free, SetApiVersion, FreeResponse, SetAuth,
         SetTransport, SetMaxRetries, SetTimeout
<1>2. ASSUME UNCHANGED <<out, result, via, reply>>, pc' = pc,
             UNCHANGED <<ret, slot>> \/ \E s \in Codes : Done(s)
      PROVE  Told'
  <2>1. pc' = "idle" /\ pc' \notin Sending
    BY <1>1, <1>2 DEF Sending, InFlight, Asked
  <2>2. ret' # "none" => slot' = IF ret' = "OK" THEN "none" ELSE ret'
    BY <1>2 DEF ReplyInv, SlotAgrees
  <2>3. QED
    BY <1>2, <2>1, <2>2, QuietTold
<1>3. ASSUME UNCHANGED <<out, result, via, reply>>,
             pc' \in {"fields", "primary", "vtable"}, Clear
      PROVE  Told'
  BY <1>3, QuietTold DEF Sending, InFlight, Asked
<1>4. CASE NullArgument
  BY <1>2, <1>4 DEF NullArgument, Codes
<1>5. CASE New
  <2>1. CASE Done("OUT_OF_MEMORY") /\ pc' = pc
    BY <1>2, <1>5, <2>1 DEF New, Codes
  <2>2. CASE Clear /\ pc' = "fields"
    BY <1>3, <1>5, <2>2 DEF New
  <2>3. QED
    BY <1>5, <2>1, <2>2 DEF New
<1>6. CASE Free
  BY <1>2, <1>6 DEF Free
<1>7. CASE SetApiVersion
  BY <1>2, <1>7 DEF SetApiVersion, Codes
<1>8. CASE FreeResponse
  <2>1. /\ pc' = "idle" /\ out' = NoResponse /\ result' = "none"
        /\ UNCHANGED <<ret, slot>>
    BY <1>1, <1>8 DEF FreeResponse
  <2>2. Filled'
    BY <2>1 DEF Filled, Sending, InFlight, Asked
  <2>3. Handover' /\ SlotAgrees' /\ AnswerHeard'
    BY <2>1 DEF ReplyInv, Handover, SlotAgrees, AnswerHeard, ServerErrors
  <2>4. QED
    BY <2>2, <2>3 DEF Told
<1>9. CASE \E a \in Credentials : SetAuth(a)
  <2>1. CASE (\E s \in Codes : Done(s)) /\ pc' = pc
    BY <1>2, <1>9, <2>1 DEF SetAuth
  <2>2. CASE Clear /\ pc' = "primary"
    BY <1>3, <1>9, <2>2 DEF SetAuth
  <2>3. QED
    BY <1>9, <2>1, <2>2 DEF SetAuth, AuthRefusal, Codes
<1>10. CASE \E t \in Transports : SetTransport(t)
  <2>1. CASE Done("OUT_OF_MEMORY") /\ pc' = pc
    BY <1>2, <1>10, <2>1 DEF SetTransport, Codes
  <2>2. CASE Clear /\ pc' = "vtable"
    BY <1>3, <1>10, <2>2 DEF SetTransport
  <2>3. QED
    BY <1>10, <2>1, <2>2 DEF SetTransport
<1>11. CASE \E n \in Budgets : SetMaxRetries(n)
  BY <1>2, <1>11 DEF SetMaxRetries, Codes
<1>12. CASE \E n \in Timeouts : SetTimeout(n)
  BY <1>2, <1>12 DEF SetTimeout, Codes
<1>13. QED
  BY <1>4, <1>5, <1>6, <1>7, <1>8, <1>9, <1>10, <1>11, <1>12 DEF Configure

LEMMA ProceedTold == ASSUME ReplyInv, Proceed PROVE Told'
<1> USE DEF config, settings, ownership, sending, outcome, report
<1>1. pc # "idle" /\ UNCHANGED <<out, result, via, reply>>
  BY DEF Proceed, NewFails, NewSucceeds, CopyPrimary, CopySecondary, InstallAuth,
         InstallTransport
<1>2. ret = "none" /\ slot = "none"
  BY <1>1 DEF ReplyInv, Filled
<1>3. \/ pc' = "idle" /\ (Succeed \/ Fail("OUT_OF_MEMORY"))
      \/ pc' \in {"secondary", "install"} /\ UNCHANGED <<ret, slot>>
  BY DEF Proceed, NewFails, NewSucceeds, CopyPrimary, CopySecondary, InstallAuth,
         InstallTransport, Leave
<1>4. pc' \notin Sending
  BY <1>3 DEF Sending, InFlight, Asked
<1>5. /\ pc' # "idle" => ret' = "none" /\ slot' = "none"
      /\ ret' # "none" => slot' = IF ret' = "OK" THEN "none" ELSE ret'
  BY <1>2, <1>3 DEF Succeed, Fail
<1>6. QED
  BY <1>1, <1>4, <1>5, QuietTold

LEMMA BeginTold == ASSUME ReplyInv, NEW r \in Requests, Begin(r) PROVE Told'
<1>1. pc = "idle" /\ out = NoResponse /\ out' = out
  BY DEF Begin
<1>2. CASE /\ \E s \in {"NO_TRANSPORT", "NULL_ARGUMENT"} : Done(s) /\ result' = s
           /\ pc' = pc
  <2>1. Filled'
    BY <1>1, <1>2 DEF Filled, Sending, InFlight, Asked
  <2>2. Handover' /\ SlotAgrees' /\ AnswerHeard'
    BY <1>1, <1>2 DEF Handover, SlotAgrees, AnswerHeard, ServerErrors, Done
  <2>3. QED
    BY <2>1, <2>2 DEF Told
<1>3. CASE Clear /\ result' = "none" /\ pc' = "auth_header"
  <2>1. Filled'
    BY <1>3 DEF Filled, Asked, Clear
  <2>2. Handover' /\ SlotAgrees' /\ AnswerHeard'
    BY <1>1, <1>3 DEF Handover, SlotAgrees, AnswerHeard, ServerErrors, Clear
  <2>3. QED
    BY <2>1, <2>2 DEF Told
<1>4. QED
  BY <1>2, <1>3 DEF Begin, SendRefusal

\* During a send nothing has been reported.
LEMMA Unreported ==
  ASSUME ReplyInv, pc \in Sending
  PROVE  ret = "none" /\ slot = "none" /\ result = "none" /\ out = NoResponse
BY DEF ReplyInv, Filled, IInv, CallShape, Sending, InFlight, Asked

\* cleanup: code, response and slot belong together.
LEMMA FinishTold ==
  ASSUME ReplyInv, pc \in Sending, NEW s \in Codes, NEW r, NEW h, NEW built,
         Finish(s, r, h, built),
         s = "OK" => r # NoResponse /\ r.status \in 200..299,
         s \in ServerErrors => r # NoResponse /\ r.status \notin 200..299,
         s \notin ServerErrors \cup {"OK"} => r = NoResponse,
         s \in ServerErrors \cup {"OK"} /\ via \in Careful \cup {Builtin} =>
           /\ reply # NoReply /\ r.status = reply.status
           /\ r.body = Stored(reply.body)
           /\ r.parsed => reply.body \in Json
  PROVE  Told'
<1>1. /\ pc' = "idle" /\ out' = r /\ result' = s
      /\ IF s = "OK" THEN Succeed ELSE Fail(s)
      /\ r # NoResponse => via' = via /\ reply' = reply
  BY DEF Finish, Leave
<1>2. slot = "none"
  BY Unreported
<1>3. Filled'
  BY <1>1 DEF Filled, Sending, InFlight, Asked
<1>4. Handover'
  BY <1>1 DEF Handover
<1>5. SlotAgrees'
  BY <1>1, <1>2 DEF SlotAgrees, Succeed, Fail
<1>6. AnswerHeard'
  BY <1>1 DEF AnswerHeard
<1>7. QED
  BY <1>3, <1>4, <1>5, <1>6 DEF Told

\* A call that ends without a response.
LEMMA EmptyHanded ==
  ASSUME ReplyInv, pc \in Sending, NEW s \in {"OUT_OF_MEMORY", "TRANSPORT"},
         NEW h, NEW built, Finish(s, NoResponse, h, built)
  PROVE  Told'
<1>1. s \in Codes /\ s \notin ServerErrors \cup {"OK"}
  BY DEF Codes, ServerErrors
<1>2. QED
  BY <1>1, FinishTold

\* An answer handed over is what the transport was told.
LEMMA AnswerTells == ASSUME ReplyInv, AnswerReturns PROVE Told'
<1>1. pc = "answered" /\ pc \in Sending /\ pc \in Asked /\ http \in Http
  BY DEF AnswerReturns, Sending, InFlight, Asked, ReplyInv, IInv, TypeOK
<1>2. CASE \E h : Finish("OUT_OF_MEMORY", NoResponse, h, locals)
  BY <1>1, <1>2, EmptyHanded
<1>3. CASE \E p, coded \in BOOLEAN :
             /\ Finish(StatusOf(http.status, p /\ http.body = "known"),
                       Received(p, coded), Alloc(heap, Built(p, coded)), locals)
             /\ p => http.body \in Json
  <2> DEFINE s(p) == StatusOf(http.status, p /\ http.body = "known")
  <2>1. PICK p \in BOOLEAN, coded \in BOOLEAN :
          /\ Finish(s(p), Received(p, coded), Alloc(heap, Built(p, coded)), locals)
          /\ p => http.body \in Json
    BY <1>3
  <2>2. s(p) \in Codes
    BY CodeFacts
  <2>3. /\ s(p) = "OK" <=> http.status \in 200..299
        /\ s(p) \in ServerErrors <=> http.status \notin 200..299
    BY DEF StatusOf, MapApiError, ServerErrors
  <2>4. /\ Received(p, coded) # NoResponse
        /\ Received(p, coded).status = http.status
        /\ Received(p, coded).body = http.body
        /\ Received(p, coded).parsed = p
    <3>1. Received(p, coded) # NoResponse
      BY <1>1, ReceivedFacts
    <3>2. QED
      BY <3>1 DEF Received
  <2>5. ASSUME via \in Careful \cup {Builtin}
        PROVE  /\ reply # NoReply /\ http.status = reply.status
               /\ http.body = Stored(reply.body)
               /\ p => reply.body \in Json
    <3>1. /\ via = transport /\ reply # NoReply
          /\ http.status = reply.status /\ http.body = Stored(reply.body)
      BY <1>1, <2>5 DEF ReplyInv, Filled
    <3>2. Stored(reply.body) \in Json <=> reply.body \in Json
      BY DEF Stored, Json
    <3>3. QED
      BY <2>1, <3>1, <3>2
  <2> HIDE DEF s
  <2>6. QED
    BY <1>1, <2>1, <2>2, <2>3, <2>4, <2>5, FinishTold
<1>4. QED
  BY <1>2, <1>3 DEF AnswerReturns

LEMMA SendLoopTold == ASSUME ReplyInv, IInv', SendLoop PROVE Told'
<1> USE DEF config, sending, outcome, report
<1>1. CASE AuthHeader
  <2>1. pc = "auth_header" /\ pc \in Sending /\ out' = out
    BY <1>1 DEF AuthHeader, Sending
  <2>2. CASE Fail("OUT_OF_MEMORY") /\ result' = "OUT_OF_MEMORY" /\ Leave
    <3>1. out' = NoResponse
      BY <2>1, Unreported
    <3>2. Filled'
      BY <2>2 DEF Filled, Leave, Sending, InFlight, Asked
    <3>3. Handover' /\ SlotAgrees' /\ AnswerHeard'
      BY <2>2, <3>1 DEF Handover, SlotAgrees, AnswerHeard, ServerErrors, Fail
    <3>4. QED
      BY <3>2, <3>3 DEF Told
  <2>3. CASE pc' = "build" /\ UNCHANGED <<result, report>>
    <3>1. Filled'
      BY <2>1, <2>3, Unreported DEF Filled, Sending, InFlight, Asked
    <3>2. QED
      BY <2>1, <2>3, <3>1, Unreported, SendingTold DEF Sending
  <2>4. QED
    BY <1>1, <2>2, <2>3 DEF AuthHeader
<1>2. CASE BuildRequest
  <2>1. pc = "build" /\ pc \in Sending
    BY <1>2 DEF BuildRequest, Sending
  <2>2. CASE \E h, built : Finish("OUT_OF_MEMORY", NoResponse, h, built)
    BY <2>1, <2>2, EmptyHanded
  <2>3. CASE pc' = "perform" /\ UNCHANGED <<outcome, report>>
    <3>1. Filled'
      BY <2>1, <2>3, Unreported DEF Filled, Sending, InFlight, Asked
    <3>2. QED
      BY <2>1, <2>3, <3>1, Unreported, SendingTold DEF Sending, InFlight
  <2>4. QED
    BY <1>2, <2>2, <2>3 DEF BuildRequest
<1>3. CASE TransportFails
  <2>1. pc \in Sending
    BY <1>3 DEF TransportFails, Sending, InFlight, Asked
  <2>2. TransportError(http.failure) \in {"OUT_OF_MEMORY", "TRANSPORT"}
    BY DEF TransportError
  <2>3. QED
    BY <1>3, <2>1, <2>2, EmptyHanded DEF TransportFails
<1>4. CASE Retry
  <2>1. pc \in Sending /\ pc' = "perform" /\ UNCHANGED <<outcome, report>>
    BY <1>4 DEF Retry, Sending, InFlight, Asked
  <2>2. Filled'
    BY <2>1, Unreported DEF Filled, Sending, InFlight, Asked
  <2>3. QED
    BY <2>1, <2>2, Unreported, SendingTold DEF Sending, InFlight
<1>5. CASE AnswerReturns
  BY <1>5, AnswerTells
<1>6. QED
  BY <1>1, <1>2, <1>3, <1>4, <1>5 DEF SendLoop

\* A step of libcurl: once it ends, what it filled in is the answer.
LEMMA CurlTold == ASSUME ReplyInv, IInv', Curl PROVE Told'
<1> USE ClientAssumption DEF config, sending, outcome, report
<1>1. /\ pc \in Sending /\ transport = Builtin /\ UNCHANGED transport
      /\ UNCHANGED <<outcome, report>>
  BY DEF Curl, CurlStarts, CurlHeader, CurlBody, CurlFails, CurlEnds, CurlDone,
         ReplyInv, IInv, CallShape, Sending, InFlight, Asked
<1>2. /\ pc' \in Asked /\ pc' # "callback" /\ via' = transport
      /\ pc' = "answered" => CurlEnds
  <2>1. CASE CurlStarts
    BY <2>1 DEF CurlStarts, Asked
  <2>2. CASE pc = "curl" /\ UNCHANGED via /\ pc' \in {"curl", "failed"}
    BY <1>1, <2>2 DEF ReplyInv, Filled, Asked
  <2>3. CASE CurlEnds
    BY <1>1, <2>3 DEF CurlEnds, CurlDone, ReplyInv, Filled, Asked
  <2>4. QED
    BY <2>1, <2>2, <2>3 DEF Curl, CurlHeader, CurlBody, CurlFails, CurlDone
<1>3. ASSUME pc' = "answered"
      PROVE  /\ reply' # NoReply /\ http'.status = reply'.status
             /\ http'.body = Stored(reply'.body)
  <2>1. /\ reply # NoReply /\ reply' = reply
        /\ http' = [http EXCEPT !.status = reply.status,
                                !.body = Stored(reply.body)]
    BY <1>2, <1>3 DEF CurlEnds, CurlDone, Stored
  <2>2. http \in Http
    BY DEF ReplyInv, IInv, TypeOK
  <2>3. QED
    BY <2>1, <2>2 DEF Http
<1>4. pc' \in Sending
  BY <1>2 DEF Sending, InFlight
<1>5. ret' = "none" /\ slot' = "none" /\ result' = "none"
  BY <1>1, Unreported
<1>6. Filled'
  BY <1>1, <1>2, <1>3, <1>5 DEF Filled
<1>7. QED
  BY <1>4, <1>5, <1>6, SendingTold

\* What a setter of a careful callback may have changed.
LEMMA CallbackTold == ASSUME ReplyInv, IInv', Callback PROVE Told'
<1> USE ClientAssumption DEF config, sending, outcome, report
<1>1. /\ pc \in {"perform", "callback"} /\ pc \in Sending
      /\ transport \in Transports /\ transport # Builtin
      /\ UNCHANGED transport /\ UNCHANGED <<outcome, report>>
      /\ http \in Http /\ IInv
  BY DEF Callback, CallbackStarts, SetsStatus, SetsBody, AddsHeader, MayCall,
         CallbackReturns, ReplyInv, IInv, CallShape, TypeOK, Sending, InFlight,
         Asked
<1>2. ret' = "none" /\ slot' = "none" /\ result' = "none"
  BY <1>1, Unreported
<1>3. pc = "callback" => via = transport
  BY DEF ReplyInv, Filled, Asked
<1>4. pc' \in Asked /\ pc' \in Sending /\ via' = transport
  BY <1>1, <1>3 DEF Callback, CallbackStarts, SetsStatus, SetsBody, AddsHeader,
         MayCall, CallbackReturns, Sending, InFlight, Asked
<1> DEFINE Heard == /\ reply = NoReply => told = {}
                    /\ ~SetterFailed /\ "status" \in told =>
                         http.status = reply.status
                    /\ ~SetterFailed /\ "body" \in told =>
                         http.body = Stored(reply.body)
           Full == /\ reply # NoReply /\ http.status = reply.status
                   /\ http.body = Stored(reply.body)
<1>5. transport \in Careful /\ pc = "callback" => Heard
  BY DEF ReplyInv, Filled
<1>6. ASSUME transport \in Careful
      PROVE  /\ pc' = "callback" => Heard'
             /\ pc' = "answered" => Full'
  <2>1. CASE CallbackStarts
    <3>1. told' = {} /\ pc' = "callback"
      BY <1>1, <2>1 DEF CallbackStarts, IInv, CallShape, Asked
    <3>2. QED
      BY <3>1
  <2>2. ASSUME NEW setter \in {"status", "body", "header"}, MayCall(setter)
        PROVE  /\ pc = "callback" /\ pc' = pc /\ told' = told \cup {setter}
               /\ Said = {reply} \ {NoReply} /\ reply' = reply
               /\ ~SetterFailed
    BY <1>6, <2>2 DEF MayCall, Said, Honest
  <2>3. CASE SetsStatus
    <3>1. /\ reply # NoReply
          /\ http' = [http EXCEPT !.status = reply.status]
      BY <2>2, <2>3 DEF SetsStatus
    <3>2. /\ http'.status = reply.status /\ http'.body = http.body
          /\ http'.failure = http.failure
      BY <1>1, <3>1 DEF Http
    <3>3. /\ pc = "callback" /\ pc' = pc /\ told' = told \cup {"status"}
          /\ reply' = reply /\ ~SetterFailed
      BY <2>2, <2>3 DEF SetsStatus
    <3>4. QED
      BY <1>5, <1>6, <3>1, <3>2, <3>3
  <2>4. CASE SetsBody
    <3>1. /\ pc = "callback" /\ pc' = pc /\ told' = told \cup {"body"}
          /\ reply' = reply /\ ~SetterFailed /\ Said = {reply} \ {NoReply}
      BY <2>2, <2>4 DEF SetsBody
    <3>2. reply # NoReply
      BY <2>4, <3>1 DEF SetsBody
    <3>3. CASE \E f \in {"OVERSIZED", "OUT_OF_MEMORY"} :
                 http' = [http EXCEPT !.failure = f]
      <4>1. http'.failure # "NETWORK"
        BY <1>1, <3>3 DEF Http
      <4>2. QED
        BY <3>1, <3>2, <4>1 DEF SetterFailed
    <3>4. CASE http' = [http EXCEPT !.body = Stored(reply.body)]
      <4>1. /\ http'.status = http.status /\ http'.body = Stored(reply.body)
            /\ http'.failure = http.failure
        BY <1>1, <3>4 DEF Http
      <4>2. QED
        BY <1>5, <1>6, <3>1, <3>2, <4>1
    <3>5. QED
      BY <2>4, <3>1, <3>3, <3>4 DEF SetsBody, Stored
  <2>5. CASE AddsHeader
    <3>1. /\ pc = "callback" /\ pc' = pc /\ told' = told \cup {"header"}
          /\ reply' = reply /\ ~SetterFailed /\ Said = {reply} \ {NoReply}
      BY <2>2, <2>5 DEF AddsHeader
    <3>2. reply # NoReply
      BY <2>5, <3>1 DEF AddsHeader
    <3>3. CASE LoseHeader("OUT_OF_MEMORY")
      <4>1. http'.failure # "NETWORK"
        BY <1>1, <3>3 DEF Http, LoseHeader
      <4>2. QED
        BY <3>1, <3>2, <4>1 DEF SetterFailed
    <3>4. CASE \E a : StoreHeader(a)
      <4>1. /\ http'.status = http.status /\ http'.body = http.body
            /\ http'.failure = http.failure
        BY <1>1, <3>4 DEF Http, StoreHeader
      <4>2. QED
        BY <1>5, <1>6, <3>1, <3>2, <4>1
    <3>5. QED
      BY <2>5, <3>3, <3>4 DEF AddsHeader
  <2>6. CASE CallbackReturns
    <3>1. pc = "callback" /\ pc' # "callback" /\ UNCHANGED <<http, reply>>
      BY <2>6 DEF CallbackReturns
    <3>2. ASSUME pc' = "answered" PROVE Full
      <4>1. told = {"status", "body", "header"} /\ ~SetterFailed
        BY <1>6, <2>6, <3>2 DEF CallbackReturns, Answered, Honest
      <4>2. QED
        BY <1>5, <1>6, <3>1, <4>1
    <3>3. QED
      BY <3>1, <3>2
  <2>7. QED
    BY <2>1, <2>3, <2>4, <2>5, <2>6 DEF Callback
<1>7. Filled'
  BY <1>1, <1>2, <1>4, <1>6 DEF Filled
<1>8. QED
  BY <1>2, <1>4, <1>7, SendingTold

\* During a call nothing is reported, and what libcurl or a careful callback
\* filled in is the server's answer; afterwards code, response and error slot
\* belong together.
THEOREM ReplyInvariance == Spec => []ReplyInv
<1>1. Init => ReplyInv
  <2> SUFFICES ASSUME Init PROVE ReplyInv
    OBVIOUS
  <2>1. Filled /\ Handover /\ SlotAgrees /\ AnswerHeard
    BY DEF Init, Filled, Handover, SlotAgrees, AnswerHeard, ServerErrors, Sending,
           InFlight, Asked
  <2>2. QED
    BY <2>1, InitInv DEF ReplyInv
<1>2. ReplyInv /\ [Next]_vars => ReplyInv'
  <2> SUFFICES ASSUME ReplyInv, [Next]_vars PROVE ReplyInv'
    OBVIOUS
  <2>1. IInv'
    BY StepInv DEF ReplyInv
  <2>2. CASE UNCHANGED vars
    <3>1. Filled' /\ Handover' /\ SlotAgrees' /\ AnswerHeard'
      BY <2>2 DEF ReplyInv, vars, config, settings, ownership, sending, outcome,
                  report, Filled, Handover, SlotAgrees, AnswerHeard, SetterFailed
    <3>2. QED
      BY <2>1, <3>1 DEF ReplyInv
  <2>3. CASE Next
    <3>1. Told'
      BY <2>1, <2>3, ConfigureTold, ProceedTold, BeginTold, CurlTold,
         CallbackTold, SendLoopTold DEF Next
    <3>2. QED
      BY <2>1, <3>1 DEF ReplyInv, Told
  <2>4. QED
    BY <2>2, <2>3
<1>3. QED
  BY <1>1, <1>2, PTL DEF Spec

\* tamga_client_send_scoped returns TAMGA_OK exactly with a 2xx response, an
\* error of the server with its own, and every other code with none: for any
\* transport, answers and failing allocations.
THEOREM HandoverSound == Spec => []Handover
<1>1. ReplyInv => Handover
  BY DEF ReplyInv
<1>2. QED
  BY <1>1, ReplyInvariance, PTL

\* Through libcurl, and through a callback that gives up when a setter fails,
\* TAMGA_OK carries the server's status and its JSON parsed; through any
\* transport the error slot agrees with the code returned.
THEOREM AnswerAlwaysTold == Spec => []AnswerTold
<1>1. ReplyInv => AnswerTold
  BY DEF ReplyInv, AnswerTold
<1>2. QED
  BY <1>1, ReplyInvariance, PTL
=============================================================================
