--------------------------- MODULE OfflineProofs ---------------------------
(***************************************************************************)
(* Proofs about KeySet and OfflineVerify: for any keys, ids, documents,    *)
(* files and arguments, and whichever allocations fail.                    *)
(***************************************************************************)
EXTENDS OfflineVerify, SequenceTheorems, FiniteSetTheorems, TLAPS

-----------------------------------------------------------------------------
(* Operators.                                                              *)

\* What reserve returns is a capacity, and enough.
LEMMA CapacityFits ==
  ASSUME NEW have \in Nat, NEW needed \in Nat,
         NEW c \in Capacities(have, needed)
  PROVE  c \in Nat /\ c >= needed
  BY KeySetAssumption DEF Capacities

\* The keys in a part of a history.
LEMMA PartOfHistory ==
  ASSUME NEW s \in Seq(Keys), NEW m \in {1, 2}, NEW n \in Nat, n <= Len(s)
  PROVE  /\ SubSeq(s, m, n) \in Seq(Keys)
         /\ KeysOf(SubSeq(s, m, n)) = {s[i] : i \in m..n}
<1> DEFINE t == SubSeq(s, m, n)
<1>1. \A i \in m..n : s[i] \in Keys
  BY LenProperties, ElementOfSeq
<1>2. /\ t \in Seq(Keys)
      /\ Len(t) = IF m <= n THEN n - m + 1 ELSE 0
      /\ \A i \in 1..(n - m + 1) : t[i] = s[m + i - 1]
  BY <1>1, SubSeqProperties
<1>3. DOMAIN t = 1..Len(t)
  BY <1>2, LenProperties
<1> HIDE DEF t
<1>4. ASSUME NEW i \in DOMAIN t PROVE t[i] \in {s[j] : j \in m..n}
  <2>1. m <= n /\ i \in 1..(n - m + 1)
    BY <1>2, <1>3
  <2>2. t[i] = s[m + i - 1] /\ m + i - 1 \in m..n
    BY <1>2, <2>1
  <2> QED BY <2>2
<1>5. ASSUME NEW j \in m..n PROVE \E i \in DOMAIN t : t[i] = s[j]
  <2> DEFINE i == j - m + 1
  <2>1. m <= n /\ i \in 1..(n - m + 1) /\ m + i - 1 = j
    OBVIOUS
  <2> HIDE DEF i
  <2>2. i \in DOMAIN t
    BY <2>1, <1>2, <1>3
  <2>3. t[i] = s[m + i - 1]
    BY <2>1, <1>2
  <2> QED BY <2>1, <2>2, <2>3
<1>6. KeysOf(t) = {s[i] : i \in m..n}
  BY <1>4, <1>5 DEF KeysOf
<1> QED BY <1>2, <1>6 DEF t

LEMMA AppendFacts ==
  ASSUME NEW S, NEW s \in Seq(S), NEW e \in S
  PROVE  /\ Append(s, e) \in Seq(S)
         /\ Len(Append(s, e)) = Len(s) + 1
         /\ DOMAIN Append(s, e) = 1..(Len(s) + 1)
         /\ \A i \in 1..Len(s) : Append(s, e)[i] = s[i]
         /\ Append(s, e)[Len(s) + 1] = e
  OBVIOUS

\* The documents the account publishes: honest, and complete.
LEMMA DocumentFacts ==
  ASSUME KeySetInv, NEW v \in 0..Len(history)
  PROVE  /\ Document(v) \in Seq(Row)
         /\ \A i \in DOMAIN Document(v) : IsUsable(Document(v)[i]) =>
              Document(v)[i].id = Served[Document(v)[i].key]
         /\ \A k \in KeysOf(Published(v)) : \E i \in DOMAIN Document(v) :
              IsUsable(Document(v)[i]) /\ Document(v)[i].key = k
<1> DEFINE p == Published(v)
           own == [i \in DOMAIN p |->
                     [form |-> "key", id |-> Served[p[i]], key |-> p[i]]]
<1>1. p \in Seq(Keys)
  <2>1. history \in Seq(Keys) /\ hidden \in BOOLEAN /\ v \in Nat /\ v <= Len(history)
    BY LenProperties DEF KeySetInv, KeySetTypeOK
  <2> QED BY <2>1, PartOfHistory DEF Published
<1>2. DOMAIN p = 1..Len(p) /\ Len(p) \in Nat /\ \A i \in DOMAIN p : p[i] \in Keys
  BY <1>1, LenProperties, ElementOfSeq
<1>0. Document(v) = own \o Legacy
  BY DEF Document
<1> HIDE DEF p
<1>3. \A i \in 1..Len(p) : own[i] \in Row
  BY <1>2, KeySetAssumption DEF Row
<1>4. own \in Seq(Row) /\ Len(own) = Len(p)
  BY <1>2, <1>3
<1>5. Legacy \in Seq(Row) /\ \A i \in DOMAIN Legacy : Legacy[i].form # "key"
  BY KeySetAssumption
<1>6. /\ own \o Legacy \in Seq(Row)
      /\ Len(own \o Legacy) = Len(own) + Len(Legacy)
      /\ \A i \in 1..(Len(own) + Len(Legacy)) : (own \o Legacy)[i] =
           IF i <= Len(own) THEN own[i] ELSE Legacy[i - Len(own)]
  BY <1>4, <1>5, ConcatProperties
<1>7. Len(Legacy) \in Nat /\ DOMAIN Legacy = 1..Len(Legacy)
      /\ DOMAIN (own \o Legacy) = 1..(Len(own) + Len(Legacy))
  BY <1>5, <1>6, LenProperties
<1>8. \A i \in 1..Len(p) : /\ own[i].form = "key" /\ own[i].key = p[i]
                           /\ own[i].id = Served[p[i]]
  BY <1>2
<1> HIDE DEF own
<1>9. ASSUME NEW i \in 1..(Len(own) + Len(Legacy)), IsUsable((own \o Legacy)[i])
      PROVE  (own \o Legacy)[i].id = Served[(own \o Legacy)[i].key]
  <2>1. CASE i <= Len(own)
    BY <2>1, <1>4, <1>6, <1>8, <1>2
  <2>2. CASE i > Len(own)
    <3>1. i - Len(own) \in DOMAIN Legacy
      BY <2>2, <1>4, <1>2, <1>7
    <3>2. (own \o Legacy)[i] = Legacy[i - Len(own)]
      BY <2>2, <1>6, <1>4, <1>2
    <3> QED BY <3>1, <3>2, <1>5, <1>9 DEF IsUsable
  <2> QED BY <2>1, <2>2, <1>4, <1>2
<1>10. ASSUME NEW k \in KeysOf(p)
       PROVE  \E i \in 1..(Len(own) + Len(Legacy)) :
                IsUsable((own \o Legacy)[i]) /\ (own \o Legacy)[i].key = k
  <2>1. PICK i \in 1..Len(p) : p[i] = k
    BY <1>2 DEF KeysOf
  <2>2. i \in 1..(Len(own) + Len(Legacy)) /\ i <= Len(own)
    BY <1>2, <1>4, <1>7
  <2> QED BY <2>1, <2>2, <1>6, <1>8 DEF IsUsable
<1> QED BY <1>0, <1>6, <1>7, <1>9, <1>10 DEF p

LEMMA PublishedKeys ==
  ASSUME history \in Seq(Keys), hidden \in BOOLEAN, NEW v \in Nat, v <= Len(history)
  PROVE  KeysOf(Published(v)) = {history[i] : i \in (IF hidden THEN 2 ELSE 1)..v}
  BY PartOfHistory DEF Published

-----------------------------------------------------------------------------
(* The set's own steps.                                                    *)

\* What verification and the shorter calls leave alone.
LEMMA SetUntouched ==
  ASSUME KeySetInv,
         pc # "staging", pc' \in Points \ {"staging"},
         UNCHANGED <<accountVars, entries, cap, staged, stagedCap, at, version,
                     skipped, mismatched, ids, caught>>,
         exists' \in BOOLEAN, doc' \in {doc, <<>>}, told' \in {told, NoCounts},
         op' \in {"none", "verify", op}, before' \in {before, entries, <<>>},
         failed' \in BOOLEAN, ret' \in Statuses
  PROVE  KeySetInv'
<1>1. KeySetTypeOK'
  <2>0. <<>> \in Seq(Row) /\ <<>> \in Seq(Entry)
    BY EmptySeq
  <2> HIDE DEF Row, Entry
  <2>1. doc' \in Seq(Row) /\ before' \in Seq(Entry)
    BY <2>0 DEF KeySetInv, KeySetTypeOK
  <2>2. told' \in [added : Int, skipped : Int, mismatched : Int]
    BY DEF KeySetInv, KeySetTypeOK, NoCounts
  <2> QED BY <2>1, <2>2 DEF KeySetInv, KeySetTypeOK, accountVars
<1>2. SlotsFit' /\ IdsOwned' /\ EntriesHonest' /\ NoKeyTwice'
  BY DEF KeySetInv, SlotsFit, IdsOwned, EntriesHonest, Honest, NoKeyTwice,
         accountVars
<1>3. RowsHonest'
  <2>1. CASE doc' = doc
    BY <2>1 DEF KeySetInv, RowsHonest
  <2>2. CASE doc' = <<>>
    BY <2>2 DEF RowsHonest
  <2> QED BY <2>1, <2>2
<1>4. Covers' /\ Staged' /\ Unstaged'
  BY DEF KeySetInv, Covers, Staged, Unstaged
<1>5. CaughtUp'
  BY DEF KeySetInv, CaughtUp, Published, HeldKeys, accountVars
<1> QED BY <1>1, <1>2, <1>3, <1>4, <1>5 DEF KeySetInv

LEMMA RotateStep ==
  ASSUME KeySetInv, NEW k \in Keys, Rotate(k)
  PROVE  KeySetInv'
<1> DEFINE m == IF hidden THEN 2 ELSE 1
<1>1. /\ history \in Seq(Keys) /\ hidden \in BOOLEAN
      /\ caught \in Nat /\ version \in Nat
      /\ caught <= Len(history) /\ version <= Len(history)
  BY DEF KeySetInv, KeySetTypeOK, CaughtUp
<1>2. history' = Append(history, k) /\ hidden' = hidden /\ k \notin KeysOf(history)
  BY DEF Rotate
<1>3. /\ history' \in Seq(Keys)
      /\ Len(history') = Len(history) + 1
      /\ DOMAIN history' = 1..(Len(history) + 1)
      /\ \A i \in 1..Len(history) : history'[i] = history[i]
      /\ history'[Len(history) + 1] = k
  BY <1>1, <1>2, AppendFacts
<1>4. Len(history) \in Nat /\ DOMAIN history = 1..Len(history)
  BY <1>1, LenProperties
<1>5. UNCHANGED <<exists, entries, cap, staged, stagedCap, doc, at, version,
                  skipped, mismatched, told, ids, pc, op, before, failed,
                  caught, ret>>
  BY DEF Rotate, setVars, stageVars
<1>6. ASSUME NEW v \in Nat, v <= Len(history), v' = v
      PROVE  KeysOf(Published(v))' = KeysOf(Published(v))
  <2>1. KeysOf(Published(v)) = {history[i] : i \in m..v}
    BY <1>1, <1>6, PublishedKeys
  <2>2. KeysOf(SubSeq(history', m, v)) = {history'[i] : i \in m..v}
    BY <1>1, <1>3, <1>4, <1>6, PartOfHistory
  <2>3. Published(v)' = SubSeq(history', m, v)
    BY <1>2, <1>6 DEF Published
  <2>4. \A i \in m..v : history'[i] = history[i]
    BY <1>1, <1>3, <1>4, <1>6
  <2>5. KeysOf(Published(v))' = KeysOf(SubSeq(history', m, v))
    BY <2>3 DEF KeysOf
  <2> QED BY <2>1, <2>2, <2>4, <2>5
<1>7. KeySetTypeOK'
  BY <1>2, <1>3, <1>5 DEF KeySetInv, KeySetTypeOK
<1>8. SlotsFit' /\ IdsOwned' /\ EntriesHonest' /\ RowsHonest'
  BY <1>5 DEF KeySetInv, SlotsFit, IdsOwned, EntriesHonest, Honest, RowsHonest
<1>9. NoKeyTwice'
  <2>1. \A i \in 1..Len(history) : history[i] # k
    BY <1>2, <1>4 DEF KeysOf
  <2>2. \A i, j \in 1..Len(history) : history[i] = history[j] => i = j
    BY <1>4 DEF KeySetInv, NoKeyTwice
  <2> QED BY <2>1, <2>2, <1>3, <1>4 DEF NoKeyTwice
<1>10. Covers'
  <2>1. KeysOf(Published(version))' = KeysOf(Published(version))
    BY <1>1, <1>5, <1>6
  <2> QED BY <2>1, <1>5 DEF KeySetInv, Covers
<1>11. Staged' /\ Unstaged'
  BY <1>5 DEF KeySetInv, Staged, Unstaged
<1>12. CaughtUp'
  <2>1. KeysOf(Published(caught))' = KeysOf(Published(caught))
    BY <1>1, <1>5, <1>6
  <2> QED BY <2>1, <1>1, <1>3, <1>4, <1>5 DEF KeySetInv, CaughtUp, HeldKeys
<1> QED BY <1>7, <1>8, <1>9, <1>10, <1>11, <1>12 DEF KeySetInv

LEMMA NewSetStep == ASSUME KeySetInv, NewSet PROVE KeySetInv'
<1>1. failed' \in BOOLEAN /\ ret' \in Statuses /\ exists' \in BOOLEAN
  BY DEF NewSet, Statuses
<1>2. pc # "staging" /\ pc' \in Points \ {"staging"}
  BY DEF NewSet, Call, Points
<1> QED BY <1>1, <1>2, SetUntouched DEF NewSet, Call, stageVars

LEMMA FreeSetStep == ASSUME KeySetInv, FreeSet PROVE KeySetInv'
<1> USE DEF FreeSet
<1>1. /\ entries \in Seq(Entry) /\ staged \in Seq(Entry)
      /\ Len(entries) \in Nat /\ Len(staged) \in Nat
      /\ history \in Seq(Keys) /\ hidden \in BOOLEAN /\ Len(history) \in Nat
  BY LenProperties DEF KeySetInv, KeySetTypeOK
<1>2. <<>> \in Seq(Row) /\ <<>> \in Seq(Entry) /\ Len(<<>>) = 0 /\ DOMAIN <<>> = {}
  BY EmptySeq
<1>3. ids' = Len(staged)
  BY <1>1 DEF KeySetInv, IdsOwned
<1>4. KeySetTypeOK'
  <2>1. /\ exists' \in BOOLEAN /\ entries' \in Seq(Entry) /\ cap' \in Nat
        /\ doc' \in Seq(Row) /\ before' \in Seq(Entry) /\ ids' \in Nat
        /\ failed' \in BOOLEAN /\ caught' \in Nat /\ ret' \in Statuses
        /\ op' \in {"none", "add_public_key", "add_json", "verify"}
    BY <1>1, <1>2, <1>3 DEF Statuses
  <2>2. told' \in [added : Int, skipped : Int, mismatched : Int]
    BY DEF NoCounts
  <2> QED BY <2>1, <2>2 DEF KeySetInv, KeySetTypeOK, accountVars
<1>5. SlotsFit' /\ IdsOwned'
  BY <1>1, <1>2, <1>3 DEF KeySetInv, SlotsFit, IdsOwned
<1>6. EntriesHonest' /\ NoKeyTwice' /\ RowsHonest'
  BY <1>2 DEF KeySetInv, EntriesHonest, Honest, NoKeyTwice, RowsHonest, accountVars
<1>7. Covers' /\ Staged' /\ Unstaged'
  BY DEF KeySetInv, Covers, Staged, Unstaged
<1>8. CaughtUp'
  <2>1. KeysOf(Published(0)) = {}
    BY <1>1, PublishedKeys
  <2>2. KeysOf(Published(caught))' = KeysOf(Published(0))
    BY DEF Published, KeysOf, accountVars
  <2> QED BY <1>1, <2>1, <2>2 DEF KeySetInv, CaughtUp, accountVars
<1> QED BY <1>4, <1>5, <1>6, <1>7, <1>8 DEF KeySetInv

\* Entries only added, each with an honest id, keep what was caught up with.
LEMMA EntriesGrow ==
  ASSUME KeySetInv,
         NEW t \in Seq(Entry), \A i \in DOMAIN t : Honest(t[i]),
         entries' = entries \o t
  PROVE  /\ entries' \in Seq(Entry)
         /\ Len(entries') = Len(entries) + Len(t)
         /\ \A i \in DOMAIN entries' : Honest(entries'[i])
         /\ HeldKeys' = HeldKeys \cup {t[i].key : i \in DOMAIN t}
<1>1. entries \in Seq(Entry) /\ \A i \in DOMAIN entries : Honest(entries[i])
  BY DEF KeySetInv, KeySetTypeOK, EntriesHonest
<1>2. /\ Len(entries) \in Nat /\ DOMAIN entries = 1..Len(entries)
      /\ Len(t) \in Nat /\ DOMAIN t = 1..Len(t)
  BY <1>1, LenProperties
<1>3. /\ entries' \in Seq(Entry)
      /\ Len(entries') = Len(entries) + Len(t)
      /\ \A i \in 1..(Len(entries) + Len(t)) : entries'[i] =
           IF i <= Len(entries) THEN entries[i] ELSE t[i - Len(entries)]
  BY <1>1, ConcatProperties
<1>4. DOMAIN entries' = 1..(Len(entries) + Len(t))
  BY <1>3, LenProperties
<1>5. ASSUME NEW i \in 1..(Len(entries) + Len(t))
      PROVE  \/ i \in DOMAIN entries /\ entries'[i] = entries[i]
             \/ i - Len(entries) \in DOMAIN t /\ entries'[i] = t[i - Len(entries)]
  BY <1>2, <1>3
<1>6. ASSUME NEW i \in DOMAIN entries
      PROVE  i \in 1..(Len(entries) + Len(t)) /\ entries'[i] = entries[i]
  BY <1>2, <1>3
<1>7. ASSUME NEW i \in DOMAIN t
      PROVE  \E j \in 1..(Len(entries) + Len(t)) : entries'[j] = t[i]
  <2>1. /\ i + Len(entries) \in 1..(Len(entries) + Len(t))
        /\ ~(i + Len(entries) <= Len(entries))
        /\ (i + Len(entries)) - Len(entries) = i
    BY <1>2
  <2> QED BY <2>1, <1>3
<1>8. \A i \in DOMAIN entries' : Honest(entries'[i])
  BY <1>1, <1>4, <1>5
<1>9. HeldKeys' = HeldKeys \cup {t[i].key : i \in DOMAIN t}
  <2>1. HeldKeys' \subseteq HeldKeys \cup {t[i].key : i \in DOMAIN t}
    BY <1>4, <1>5 DEF HeldKeys
  <2>2. HeldKeys \subseteq HeldKeys'
    BY <1>4, <1>6 DEF HeldKeys
  <2>3. {t[i].key : i \in DOMAIN t} \subseteq HeldKeys'
    BY <1>4, <1>7 DEF HeldKeys
  <2> QED BY <2>1, <2>2, <2>3
<1> QED BY <1>3, <1>8, <1>9

LEMMA AddPublicKeyStep ==
  ASSUME KeySetInv, NEW p \in Pins, AddPublicKey(p)
  PROVE  KeySetInv'
<1>1. /\ entries \in Seq(Entry) /\ Len(entries) \in Nat
      /\ cap \in Nat /\ ids \in Nat /\ p \in Keys \cup Malformed
      /\ <<>> \in Seq(Row) /\ DOMAIN <<>> = {}
  BY LenProperties, EmptySeq, KeySetAssumption DEF KeySetInv, KeySetTypeOK
<1>2. /\ pc' = pc /\ pc = "idle" /\ doc' = <<>>
      /\ op' = "add_public_key" /\ before' = entries
      /\ told' = NoCounts
      /\ UNCHANGED <<history, hidden, exists, staged, stagedCap, at, version,
                     skipped, mismatched, caught>>
  BY DEF AddPublicKey, Call, accountVars
<1>3. /\ cap' \in Nat /\ Len(entries') <= cap' /\ entries' \in Seq(Entry)
      /\ \A i \in DOMAIN entries' : Honest(entries'[i])
      /\ HeldKeys \subseteq HeldKeys'
      /\ ids' = Len(entries') + Len(staged)
      /\ failed' \in BOOLEAN /\ ret' \in Statuses
  <2>1. CASE entries' = entries /\ ids' = ids
    <3>1. cap' \in {cap} \cup Capacities(cap, Len(entries) + 1)
      BY <2>1, <1>1 DEF AddPublicKey
    <3>2. cap' \in Nat /\ cap' >= cap
      <4>1. CASE cap' = cap
        BY <4>1, <1>1
      <4>2. CASE cap' \in Capacities(cap, Len(entries) + 1)
        <5>1. CASE Len(entries) + 1 <= cap
          BY <4>2, <5>1, <1>1 DEF Capacities
        <5>2. CASE ~(Len(entries) + 1 <= cap)
          BY <4>2, <5>2, <1>1, CapacityFits
        <5> QED BY <5>1, <5>2
      <4> QED BY <3>1, <4>1, <4>2
    <3>3. Len(entries) <= cap /\ ids = Len(entries) + Len(staged)
      BY DEF KeySetInv, SlotsFit, IdsOwned
    <3>4. \A i \in DOMAIN entries' : Honest(entries'[i])
      BY <2>1 DEF KeySetInv, EntriesHonest
    <3>5. HeldKeys' = HeldKeys
      BY <2>1 DEF HeldKeys
    <3>6. failed' \in BOOLEAN /\ ret' \in Statuses
      BY DEF AddPublicKey, Statuses
    <3> HIDE DEF HeldKeys, Statuses
    <3>7. Len(entries') <= cap' /\ ids' = Len(entries') + Len(staged)
      BY <1>1, <2>1, <3>2, <3>3
    <3>8. entries' \in Seq(Entry)
      BY <1>1, <2>1
    <3> QED BY <3>2, <3>4, <3>5, <3>6, <3>7, <3>8
  <2>2. CASE /\ p \in Keys
             /\ cap' \in Capacities(cap, Len(entries) + 1)
             /\ entries' = Append(entries, [id |-> Computed[p], key |-> p])
             /\ ids' = ids + 1 /\ ret' = "OK" /\ failed' = FALSE
    <3> DEFINE e == [id |-> Computed[p], key |-> p]
               t == <<e>>
    <3>1. e \in Entry /\ Honest(e)
      BY <2>2, KeySetAssumption DEF Entry, Honest
    <3> HIDE DEF e
    <3>2. t \in Seq(Entry) /\ Len(t) = 1 /\ DOMAIN t = {1} /\ t[1] = e
      BY <3>1
    <3>3. entries' = entries \o t
      BY <1>1, <2>2, <3>1 DEF e
    <3> HIDE DEF t
    <3>4. /\ entries' \in Seq(Entry) /\ Len(entries') = Len(entries) + 1
          /\ \A i \in DOMAIN entries' : Honest(entries'[i])
          /\ HeldKeys \subseteq HeldKeys'
      BY <3>1, <3>2, <3>3, EntriesGrow
    <3>5. cap' \in Nat /\ cap' >= Len(entries) + 1
      BY <1>1, <2>2, CapacityFits
    <3>6. ids' = Len(entries') + Len(staged)
      <4>1. ids = Len(entries) + Len(staged) /\ Len(staged) \in Nat
        BY LenProperties DEF KeySetInv, KeySetTypeOK, IdsOwned
      <4> QED BY <1>1, <2>2, <3>4, <4>1
    <3>7. failed' \in BOOLEAN /\ ret' \in Statuses
      BY <2>2 DEF Statuses
    <3>8. Len(entries') <= cap'
      BY <1>1, <3>4, <3>5
    <3> QED BY <3>4, <3>5, <3>6, <3>7, <3>8
  <2> QED BY <2>1, <2>2 DEF AddPublicKey
<1>4. KeySetTypeOK'
  <2>1. told' \in [added : Int, skipped : Int, mismatched : Int]
    BY <1>2 DEF NoCounts
  <2>2. ids' \in Nat
    <3>1. Len(entries') \in Nat /\ Len(staged) \in Nat
      BY <1>3, LenProperties DEF KeySetInv, KeySetTypeOK
    <3> QED BY <3>1, <1>1, <1>3 DEF KeySetInv, IdsOwned
  <2> QED BY <1>1, <1>2, <1>3, <2>1, <2>2 DEF KeySetInv, KeySetTypeOK
<1>5. SlotsFit' /\ IdsOwned'
  <2>1. Len(entries') \in Nat /\ Len(staged) \in Nat
    BY <1>3, LenProperties DEF KeySetInv, KeySetTypeOK
  <2> QED BY <2>1, <1>1, <1>2, <1>3 DEF KeySetInv, SlotsFit, IdsOwned
<1>6. EntriesHonest' /\ NoKeyTwice' /\ RowsHonest'
  BY <1>1, <1>2, <1>3 DEF KeySetInv, EntriesHonest, Honest, NoKeyTwice, RowsHonest
<1>7. Covers' /\ Staged' /\ Unstaged'
  BY <1>2 DEF KeySetInv, Covers, Staged, Unstaged
<1>8. CaughtUp'
  <2>1. KeysOf(Published(caught))' = KeysOf(Published(caught))
    BY <1>2 DEF Published, KeysOf
  <2> QED BY <1>2, <1>3, <2>1 DEF KeySetInv, CaughtUp
<1> QED BY <1>4, <1>5, <1>6, <1>7, <1>8 DEF KeySetInv

LEMMA AddJsonStep ==
  ASSUME KeySetInv, NEW v \in 0..Len(history), AddJson(v)
  PROVE  KeySetInv'
<1>1. /\ UNCHANGED <<history, hidden, exists, entries, cap, staged, stagedCap,
                     at, skipped, mismatched, ids, caught>>
      /\ pc = "idle" /\ op' = "add_json" /\ before' = entries /\ told' = NoCounts
      /\ failed' \in BOOLEAN /\ ret' \in Statuses /\ pc' \in {"idle", "staging"}
  BY DEF AddJson, Call, accountVars, setVars, Statuses
<1>2. /\ v \in Nat /\ v <= Len(history) /\ version \in Nat
      /\ version <= Len(history) /\ at \in Nat \ {0}
      /\ staged \in Seq(Entry)
  BY LenProperties DEF KeySetInv, KeySetTypeOK, CaughtUp
<1>3. version' \in {v, version} /\ (pc' = "staging" => version' = v /\ doc' = Document(v))
  BY DEF AddJson
<1>4. doc' \in {<<>>, Document(v)}
  BY DEF AddJson
<1>5. <<>> \in Seq(Row) /\ DOMAIN <<>> = {}
  BY EmptySeq
<1>6. KeySetTypeOK'
  <2>1. told' \in [added : Int, skipped : Int, mismatched : Int]
    BY <1>1 DEF NoCounts
  <2>2. doc' \in Seq(Row)
    BY <1>4, <1>5, DocumentFacts
  <2>3. version' \in Nat
    BY <1>2, <1>3
  <2> HIDE DEF Row, Entry, Statuses
  <2>4. pc' \in Points
    BY <1>1 DEF Points
  <2> QED BY <1>1, <2>1, <2>2, <2>3, <2>4 DEF KeySetInv, KeySetTypeOK
<1>7. SlotsFit' /\ IdsOwned' /\ EntriesHonest' /\ NoKeyTwice'
  BY <1>1 DEF KeySetInv, SlotsFit, IdsOwned, EntriesHonest, Honest, NoKeyTwice
<1>8. RowsHonest'
  <2>1. CASE doc' = <<>>
    BY <2>1, <1>5 DEF RowsHonest
  <2>2. CASE doc' = Document(v)
    BY <2>2, DocumentFacts DEF RowsHonest
  <2> QED BY <1>4, <2>1, <2>2
<1>9. Covers'
  <2> SUFFICES ASSUME pc' = "staging" PROVE Covers'
    BY DEF Covers
  <2>1. version' = v /\ doc' = Document(v)
    BY <1>3
  <2>2. KeysOf(Published(version))' = KeysOf(Published(v))
    BY <1>1, <2>1 DEF Published, KeysOf
  <2>3. \A k \in KeysOf(Published(v)) : \E i \in DOMAIN Document(v) :
          IsUsable(Document(v)[i]) /\ Document(v)[i].key = k
    BY DocumentFacts
  <2> QED BY <2>1, <2>2, <2>3 DEF Covers
<1>10. Staged' /\ Unstaged'
  <2>1. at' = 1 /\ staged' = <<>>
    BY <1>1 DEF KeySetInv, Unstaged
  <2>2. DOMAIN doc' \subseteq Nat \ {0}
    BY <1>4, <1>5, DocumentFacts, LenProperties
  <2> QED BY <2>1, <2>2 DEF Staged, Unstaged
<1>11. CaughtUp'
  <2>1. KeysOf(Published(caught))' = KeysOf(Published(caught))
    BY <1>1 DEF Published, KeysOf
  <2> QED BY <1>1, <1>2, <1>3, <2>1 DEF KeySetInv, CaughtUp, HeldKeys
<1> QED BY <1>6, <1>7, <1>8, <1>9, <1>10, <1>11 DEF KeySetInv

\* Every row read so far is staged, and stays so.
LEMMA StageRowStep == ASSUME KeySetInv, StageRow PROVE KeySetInv'
<1>1. /\ UNCHANGED <<history, hidden, exists, entries, cap, doc, told, op,
                     before, caught>>
      /\ pc = "staging" /\ at <= Len(doc)
  BY DEF StageRow, accountVars, setVars
<1>2. /\ staged \in Seq(Entry) /\ Len(staged) \in Nat /\ stagedCap \in Nat
      /\ DOMAIN staged = 1..Len(staged)
      /\ entries \in Seq(Entry) /\ Len(entries) \in Nat /\ ids \in Nat
      /\ doc \in Seq(Row) /\ DOMAIN doc = 1..Len(doc) /\ Len(doc) \in Nat
      /\ at \in Nat \ {0} /\ at \in DOMAIN doc /\ doc[at] \in Row
      /\ version \in Nat /\ skipped \in Nat /\ mismatched \in Nat
      /\ Len(history) \in Nat
  BY <1>1, LenProperties, ElementOfSeq DEF KeySetInv, KeySetTypeOK
<1>3. /\ Len(entries) <= cap /\ Len(staged) <= stagedCap
      /\ ids = Len(entries) + Len(staged)
      /\ \A i \in DOMAIN staged : Honest(staged[i])
  BY DEF KeySetInv, SlotsFit, IdsOwned, EntriesHonest
<1>4. <<>> \in Seq(Entry) /\ Len(<<>>) = 0 /\ DOMAIN <<>> = {}
  BY EmptySeq
\* What the three outcomes have in common.
<1>5. ASSUME staged' \in Seq(Entry), stagedCap' \in Nat, Len(staged') <= stagedCap',
             at' \in Nat \ {0}, version' \in {version, 0},
             skipped' \in Nat, mismatched' \in Nat,
             ids' = Len(entries) + Len(staged'),
             \A i \in DOMAIN staged' : Honest(staged'[i]),
             pc' \in {"idle", "staging"}, pc' = "staging" => version' = version,
             failed' \in BOOLEAN, ret' \in Statuses, Staged', Unstaged'
      PROVE  KeySetInv'
  <2>1. KeySetTypeOK'
    <3>1. ids' \in Nat /\ version' \in Nat
      BY <1>2, <1>5, LenProperties, SMTT(30)
    <3>2. pc' \in Points
      BY <1>5 DEF Points
    <3> QED BY <3>1, <3>2, <1>1, <1>5 DEF KeySetInv, KeySetTypeOK
  <2>2. SlotsFit' /\ IdsOwned'
    BY <1>1, <1>3, <1>5 DEF SlotsFit, IdsOwned
  <2>3. EntriesHonest' /\ RowsHonest' /\ NoKeyTwice'
    BY <1>1, <1>5 DEF KeySetInv, EntriesHonest, Honest, RowsHonest, NoKeyTwice
  <2>4. Covers'
    <3>1. pc' = "staging" =>
            KeysOf(Published(version))' = KeysOf(Published(version))
      BY <1>1, <1>5 DEF Published, KeysOf
    <3> QED BY <3>1, <1>1 DEF KeySetInv, Covers
  <2>5. CaughtUp'
    <3>1. KeysOf(Published(caught))' = KeysOf(Published(caught))
      BY <1>1 DEF Published, KeysOf
    <3>2. HeldKeys' = HeldKeys
      BY <1>1 DEF HeldKeys
    <3> QED BY <3>1, <3>2, <1>1, <1>2, <1>5, SMTT(30) DEF KeySetInv, CaughtUp
  <2> QED BY <2>1, <2>2, <2>3, <2>4, <2>5, <1>5 DEF KeySetInv
<1>6. CASE OutOfMemoryStaging
  <2>1. /\ staged' = <<>> /\ stagedCap' = 0 /\ at' = 1 /\ version' = 0
        /\ skipped' = 0 /\ mismatched' = 0 /\ pc' = "idle"
        /\ ids' = ids - Len(staged) /\ ret' = "OUT_OF_MEMORY" /\ failed' = TRUE
    BY <1>6 DEF OutOfMemoryStaging, Unstage
  <2>2. ids' = Len(entries) + Len(staged')
    BY <1>2, <1>3, <1>4, <2>1
  <2>3. Staged' /\ Unstaged' /\ ret' \in Statuses
    BY <2>1 DEF Staged, Unstaged, Statuses
  <2>4. Len(staged') <= stagedCap' /\ staged' \in Seq(Entry)
        /\ \A i \in DOMAIN staged' : Honest(staged'[i])
    BY <1>4, <2>1
  <2> QED BY <2>1, <2>2, <2>3, <2>4, <1>2, <1>5
<1>7. CASE /\ doc[at].form # "key" /\ at' = at + 1 /\ skipped' = skipped + 1
           /\ UNCHANGED <<staged, stagedCap, version, mismatched, ids, pc, ret,
                          failed>>
  <2>1. Staged'
    <3>1. \A i \in DOMAIN doc : i < at + 1 /\ IsUsable(doc[i]) => i < at
      BY <1>2, <1>7 DEF IsUsable
    <3> QED BY <3>1, <1>1, <1>7 DEF KeySetInv, Staged
  <2>2. Unstaged' /\ failed' \in BOOLEAN /\ ret' \in Statuses
    BY <1>1, <1>7 DEF Unstaged, KeySetInv, KeySetTypeOK
  <2>3. at' \in Nat \ {0} /\ skipped' \in Nat
    BY <1>2, <1>7
  <2> QED BY <2>1, <2>2, <2>3, <1>1, <1>2, <1>3, <1>5, <1>7
<1>8. CASE /\ doc[at].form = "key" /\ at' = at + 1
           /\ stagedCap' \in Capacities(stagedCap, Len(staged) + 1)
           /\ staged' = Append(staged, [id |-> doc[at].id, key |-> doc[at].key])
           /\ ids' = ids + 1
           /\ mismatched' = IF Computed[doc[at].key] # doc[at].id
                            THEN mismatched + 1 ELSE mismatched
           /\ UNCHANGED <<version, skipped, pc, ret, failed>>
  <2> DEFINE e == [id |-> doc[at].id, key |-> doc[at].key]
  <2>1. e \in Entry /\ e.key = doc[at].key
    BY <1>2 DEF Row, Entry
  <2>2. Honest(e)
    <3>1. doc[at].id = Served[doc[at].key]
      BY <1>2, <1>8 DEF KeySetInv, RowsHonest, IsUsable
    <3> QED BY <3>1 DEF Honest
  <2>3. staged' = Append(staged, e)
    BY <1>8
  <2> HIDE DEF e
  <2>4. /\ staged' \in Seq(Entry) /\ Len(staged') = Len(staged) + 1
        /\ DOMAIN staged' = 1..(Len(staged) + 1)
        /\ \A i \in 1..Len(staged) : staged'[i] = staged[i]
        /\ staged'[Len(staged) + 1] = e
    BY <1>2, <2>1, <2>3, AppendFacts
  <2>5. \A i \in DOMAIN staged' : Honest(staged'[i])
    <3>1. ASSUME NEW i \in 1..(Len(staged) + 1) PROVE Honest(staged'[i])
      <4>1. CASE i \in 1..Len(staged)
        BY <4>1, <1>2, <1>3, <2>4
      <4>2. CASE i = Len(staged) + 1
        BY <4>2, <2>2, <2>4
      <4> QED BY <4>1, <4>2, <1>2
    <3> QED BY <3>1, <2>4
  <2>6. Staged'
    <3> SUFFICES ASSUME NEW i \in DOMAIN doc, i < at + 1, IsUsable(doc[i])
                 PROVE  \E j \in DOMAIN staged' : staged'[j].key = doc[i].key
      BY <1>1, <1>8 DEF Staged
    <3>1. CASE i < at
      <4>1. PICK j \in DOMAIN staged : staged[j].key = doc[i].key
        BY <3>1, <1>1 DEF KeySetInv, Staged
      <4>2. j \in DOMAIN staged' /\ staged'[j] = staged[j]
        BY <4>1, <1>2, <2>4
      <4> QED BY <4>1, <4>2
    <3>2. CASE i = at
      <4>1. Len(staged) + 1 \in DOMAIN staged'
        BY <1>2, <2>4
      <4> QED BY <4>1, <3>2, <2>1, <2>4
    <3> QED BY <3>1, <3>2, <1>2
  <2>7. stagedCap' \in Nat /\ Len(staged') <= stagedCap'
    <3>1. Len(staged) + 1 \in Nat
      BY <1>2
    <3>2. stagedCap' \in Nat /\ stagedCap' >= Len(staged) + 1
      BY <3>1, <1>2, <1>8, CapacityFits
    <3> QED BY <3>2, <2>4, <1>2
  <2>8. ids' = Len(entries) + Len(staged')
    BY <1>2, <1>3, <1>8, <2>4
  <2>9. Unstaged' /\ failed' \in BOOLEAN /\ ret' \in Statuses
    BY <1>1, <1>8 DEF Unstaged, KeySetInv, KeySetTypeOK
  <2>10. at' \in Nat \ {0} /\ skipped' \in Nat /\ mismatched' \in Nat
    BY <1>2, <1>8
  <2> QED BY <2>4, <2>5, <2>6, <2>7, <2>8, <2>9, <2>10, <1>1, <1>5, <1>8
<1> QED BY <1>6, <1>7, <1>8 DEF StageRow

\* A document read to its end has every key of its version staged.
LEMMA MergeStep == ASSUME KeySetInv, Merge PROVE KeySetInv'
<1>1. /\ UNCHANGED <<history, hidden, exists, doc, op, before>>
      /\ pc = "staging" /\ at > Len(doc)
  BY DEF Merge, accountVars
<1>2. /\ staged \in Seq(Entry) /\ Len(staged) \in Nat
      /\ entries \in Seq(Entry) /\ Len(entries) \in Nat
      /\ cap \in Nat /\ ids \in Nat /\ at \in Nat
      /\ doc \in Seq(Row) /\ DOMAIN doc = 1..Len(doc) /\ Len(doc) \in Nat
      /\ version \in Nat /\ caught \in Nat /\ Len(history) \in Nat
      /\ skipped \in Nat /\ mismatched \in Nat
  BY LenProperties DEF KeySetInv, KeySetTypeOK
<1>3. /\ Len(entries) <= cap /\ ids = Len(entries) + Len(staged)
      /\ \A i \in DOMAIN entries : Honest(entries[i])
      /\ \A i \in DOMAIN staged : Honest(staged[i])
      /\ caught <= Len(history) /\ version <= Len(history)
      /\ KeysOf(Published(caught)) \subseteq HeldKeys
  BY DEF KeySetInv, SlotsFit, IdsOwned, EntriesHonest, CaughtUp
<1>4. <<>> \in Seq(Entry) /\ Len(<<>>) = 0 /\ DOMAIN <<>> = {}
  BY EmptySeq
<1>5. /\ staged' = <<>> /\ stagedCap' = 0 /\ at' = 1 /\ version' = 0
      /\ skipped' = 0 /\ mismatched' = 0 /\ pc' = "idle"
  BY DEF Merge, OutOfMemoryStaging, Unstage
\* What the two outcomes have in common.
<1>6. ASSUME entries' \in Seq(Entry), cap' \in Nat, Len(entries') <= cap',
             ids' = Len(entries'),
             \A i \in DOMAIN entries' : Honest(entries'[i]),
             told' \in [added : Int, skipped : Int, mismatched : Int],
             failed' \in BOOLEAN, ret' \in Statuses,
             caught' \in Nat, caught' <= Len(history),
             KeysOf(Published(caught))' \subseteq HeldKeys'
      PROVE  KeySetInv'
  <2>1. KeySetTypeOK'
    <3>1. /\ ids' \in Nat /\ staged' \in Seq(Entry) /\ stagedCap' \in Nat
          /\ at' \in Nat \ {0} /\ version' \in Nat
          /\ skipped' \in Nat /\ mismatched' \in Nat
      BY <1>4, <1>5, <1>6, LenProperties
    <3>2. pc' \in Points
      BY <1>5 DEF Points
    <3> QED BY <3>1, <3>2, <1>1, <1>6 DEF KeySetInv, KeySetTypeOK
  <2>2. SlotsFit' /\ IdsOwned'
    <3>1. Len(entries') \in Nat /\ Len(staged') = 0
      BY <1>4, <1>5, <1>6, LenProperties
    <3> QED BY <3>1, <1>5, <1>6 DEF SlotsFit, IdsOwned
  <2>3. EntriesHonest' /\ RowsHonest' /\ NoKeyTwice'
    BY <1>1, <1>4, <1>5, <1>6
       DEF KeySetInv, EntriesHonest, Honest, RowsHonest, NoKeyTwice
  <2>4. Covers' /\ Staged' /\ Unstaged'
    BY <1>5 DEF Covers, Staged, Unstaged
  <2>5. CaughtUp'
    BY <1>1, <1>2, <1>5, <1>6 DEF CaughtUp
  <2> QED BY <2>1, <2>2, <2>3, <2>4, <2>5 DEF KeySetInv
<1>7. CASE OutOfMemoryStaging /\ UNCHANGED <<entries, cap, told, caught>>
  <2>1. ids' = Len(entries') /\ Len(entries') <= cap'
    BY <1>2, <1>3, <1>7 DEF OutOfMemoryStaging
  <2>2. failed' \in BOOLEAN /\ ret' \in Statuses
    BY <1>7 DEF OutOfMemoryStaging, Statuses
  <2>3. KeysOf(Published(caught))' \subseteq HeldKeys'
    <3>1. KeysOf(Published(caught))' = KeysOf(Published(caught))
      BY <1>1, <1>7 DEF Published, KeysOf
    <3>2. HeldKeys' = HeldKeys
      BY <1>7 DEF HeldKeys
    <3> QED BY <3>1, <3>2, <1>3
  <2>4. told' \in [added : Int, skipped : Int, mismatched : Int]
    BY <1>7 DEF KeySetInv, KeySetTypeOK
  <2>5. \A i \in DOMAIN entries' : Honest(entries'[i])
    BY <1>3, <1>7
  <2> QED BY <2>1, <2>2, <2>3, <2>4, <2>5, <1>2, <1>3, <1>6, <1>7
<1>8. CASE /\ cap' \in Capacities(cap, Len(entries) + Len(staged))
           /\ entries' = entries \o staged
           /\ told' = [added |-> Len(staged), skipped |-> skipped,
                       mismatched |-> mismatched]
           /\ caught' = IF version > caught THEN version ELSE caught
           /\ ret' = "OK" /\ failed' = FALSE /\ ids' = ids
  <2>1. /\ entries' \in Seq(Entry)
        /\ Len(entries') = Len(entries) + Len(staged)
        /\ \A i \in DOMAIN entries' : Honest(entries'[i])
        /\ HeldKeys' = HeldKeys \cup {staged[i].key : i \in DOMAIN staged}
    BY <1>2, <1>3, <1>8, EntriesGrow
  <2>2. cap' \in Nat /\ Len(entries') <= cap'
    <3>1. Len(entries) + Len(staged) \in Nat
      BY <1>2
    <3>2. cap' \in Nat /\ cap' >= Len(entries) + Len(staged)
      BY <3>1, <1>2, <1>8, CapacityFits
    <3> QED BY <3>2, <2>1, <1>2
  <2>3. KeysOf(Published(version)) \subseteq HeldKeys'
    <3> SUFFICES ASSUME NEW k \in KeysOf(Published(version)) PROVE k \in HeldKeys'
      OBVIOUS
    <3>1. PICK i \in DOMAIN doc : IsUsable(doc[i]) /\ doc[i].key = k
      BY <1>1 DEF KeySetInv, Covers
    <3>2. i < at
      BY <1>1, <1>2
    <3>3. PICK j \in DOMAIN staged : staged[j].key = k
      BY <3>1, <3>2, <1>1 DEF KeySetInv, Staged
    <3> QED BY <3>3, <2>1
  <2>4. caught' \in {version, caught} /\ caught' \in Nat /\ caught' <= Len(history)
    BY <1>2, <1>3, <1>8
  <2>5. KeysOf(Published(caught))' \subseteq HeldKeys'
    <3>1. CASE caught' = version
      <4>1. KeysOf(Published(caught))' = KeysOf(Published(version))
        BY <3>1, <1>1 DEF Published, KeysOf
      <4> QED BY <4>1, <2>3
    <3>2. CASE caught' = caught
      <4>1. KeysOf(Published(caught))' = KeysOf(Published(caught))
        BY <3>2, <1>1 DEF Published, KeysOf
      <4> QED BY <4>1, <2>1, <1>3
    <3> QED BY <3>1, <3>2, <2>4
  <2>6. told' \in [added : Int, skipped : Int, mismatched : Int]
    BY <1>2, <1>8
  <2>7. failed' \in BOOLEAN /\ ret' \in Statuses
    BY <1>8 DEF Statuses
  <2>8. ids' = Len(entries')
    BY <1>2, <1>3, <1>8, <2>1
  <2> QED BY <2>1, <2>2, <2>4, <2>5, <2>6, <2>7, <2>8, <1>6
<1> QED BY <1>7, <1>8 DEF Merge

-----------------------------------------------------------------------------
(* Verification.                                                           *)

\* An unfinished verification, or none: what the steps of the set and of the
\* account leave as it was.
LEMMA NoVerification ==
  ASSUME VerifyInv, UNCHANGED verifyVars, file = NoFile,
         pc' \in {"idle", "staging"},
         pc' = "idle" => (failed' <=> ret' = "OUT_OF_MEMORY")
  PROVE  VerifyInv'
<1>1. /\ file' = NoFile /\ held' = held /\ verified' = verified /\ opened' = opened
      /\ arg' = arg
  BY DEF verifyVars
<1>2. VerifyTypeOK' /\ CallShape'
  BY <1>1 DEF VerifyInv, VerifyTypeOK, CallShape, Verifying
<1>3. Owned' /\ SchemeAgrees' /\ Reasons' /\ NothingKept' /\ OomIsNoVerdict'
  BY <1>1 DEF Owned, SchemeAgrees, Verifying, Reasons, NothingKept, Ended,
              OomIsNoVerdict
<1>4. ~verified' /\ ~opened'
  BY <1>1 DEF VerifyInv, CallShape
<1>5. Trust'
  BY <1>1, <1>4 DEF Trust, Ended
<1> QED BY <1>2, <1>3, <1>5 DEF VerifyInv

LEMMA RotateVerifyInv ==
  ASSUME VerifyInv, NEW k \in Keys, Rotate(k), UNCHANGED verifyVars
  PROVE  VerifyInv'
<1>1. UNCHANGED <<file, arg, verified, opened, held, entries, pc, ret, failed>>
  BY DEF Rotate, verifyVars, setVars
<1>2. VerifyTypeOK' /\ CallShape' /\ Owned' /\ NothingKept' /\ OomIsNoVerdict'
  BY <1>1 DEF VerifyInv, VerifyTypeOK, CallShape, Owned, NothingKept, Ended,
              OomIsNoVerdict, Verifying
<1>3. SchemeAgrees'
  BY <1>1 DEF VerifyInv, SchemeAgrees, Required, Verifying
<1>4. Trust'
  BY <1>1 DEF VerifyInv, Trust, Signed, HeldKeys, PayloadFailure, FinishFailure,
              ClaimsFailure, Expired, Ended
<1>5. Reasons'
  BY <1>1 DEF VerifyInv, Reasons, Signed, HeldKeys, HeldIds, PayloadFailure, Ended
<1> QED BY <1>2, <1>3, <1>4, <1>5 DEF VerifyInv

LEMMA KeySetStepInv == ASSUME IInv, KeySetStep PROVE IInv'
<1>1. CASE \E k \in Keys : Rotate(k)
  BY <1>1, RotateStep, RotateVerifyInv DEF IInv, KeySetStep
<1>2. CASE /\ file = NoFile
           /\ \/ NewSet \/ FreeSet \/ StageRow \/ Merge
              \/ \E p \in Pins : AddPublicKey(p)
              \/ \E v \in 0..Len(history) : AddJson(v)
  <2>1. KeySetInv'
    BY <1>2, NewSetStep, FreeSetStep, StageRowStep, MergeStep, AddPublicKeyStep,
       AddJsonStep DEF IInv
  <2>2. /\ pc' \in {"idle", "staging"}
        /\ pc' = "idle" => (failed' <=> ret' = "OUT_OF_MEMORY")
    <3>1. CASE NewSet
      BY <3>1 DEF NewSet, Call
    <3>2. CASE FreeSet
      BY <3>2 DEF FreeSet
    <3>3. CASE StageRow
      BY <3>3 DEF StageRow, OutOfMemoryStaging, Unstage
    <3>4. CASE Merge
      BY <3>4 DEF Merge, OutOfMemoryStaging, Unstage
    <3>5. CASE \E p \in Pins : AddPublicKey(p)
      BY <3>5 DEF AddPublicKey, Call
    <3>6. CASE \E v \in 0..Len(history) : AddJson(v)
      BY <3>6 DEF AddJson, Call
    <3> QED BY <1>2, <3>1, <3>2, <3>3, <3>4, <3>5, <3>6
  <2> QED BY <1>2, <2>1, <2>2, NoVerification DEF IInv, KeySetStep
<1> QED BY <1>1, <1>2 DEF KeySetStep

LEMMA RefuseCallInv == ASSUME IInv, RefuseCall PROVE IInv'
<1>1. /\ pc = "idle" /\ pc' = "idle" /\ file = NoFile /\ UNCHANGED verifyVars
      /\ failed' = FALSE /\ ret' \in {"NULL_ARGUMENT", "LENGTH_INVALID", "UNKNOWN"}
  BY DEF RefuseCall, Call, Returns
<1>2. VerifyInv'
  BY <1>1, NoVerification DEF IInv
<1>3. KeySetInv'
  <2>1. pc' \in Points \ {"staging"} /\ ret' \in Statuses /\ exists' \in BOOLEAN
    BY <1>1 DEF Points, Statuses, RefuseCall, setVars, IInv, KeySetInv, KeySetTypeOK
  <2> QED BY <1>1, <2>1, SetUntouched DEF IInv, RefuseCall, Call, setVars
<1> QED BY <1>2, <1>3 DEF IInv

LEMMA VerifyStepInv ==
  ASSUME IInv, NEW c \in Calls, Verify(c.file, c.arg)
  PROVE  IInv'
<1> DEFINE f == c.file
           a == c.arg
<1>1. f \in File /\ a \in Argument /\ f # NoFile /\ a # NoArg
  BY VerifyAssumption
<1>2. /\ pc = "idle" /\ file = NoFile /\ file' = f /\ arg' = a
      /\ UNCHANGED <<verified, opened, held, entries>>
  BY DEF Verify, Call, setVars
<1>3. held' = {} /\ verified' = FALSE /\ opened' = FALSE
  BY <1>2 DEF IInv, VerifyInv, CallShape, VerifyTypeOK
<1>4. \/ /\ pc' = "idle" /\ ret' \in {"UNSUPPORTED_SCHEME", "KEY_ID_NOT_APPLICABLE"}
         /\ failed' = FALSE
      \/ /\ pc' = "open" /\ ret' = "none" /\ failed' = FALSE
         /\ SchemeRefusal(f, a) = {}
  BY DEF Verify, Returns, SchemeRefusal
<1>5. KeySetInv'
  <2>1. /\ pc' \in Points \ {"staging"} /\ ret' \in Statuses /\ failed' \in BOOLEAN
        /\ exists' \in BOOLEAN
    BY <1>4 DEF Points, Statuses, Verify, setVars, IInv, KeySetInv, KeySetTypeOK
  <2> QED BY <1>2, <2>1, SetUntouched DEF IInv, Verify, Call, setVars
<1> HIDE DEF f, a
<1>6. VerifyTypeOK' /\ CallShape'
  BY <1>1, <1>2, <1>3, <1>4 DEF VerifyTypeOK, CallShape
<1>9. Owned' /\ OomIsNoVerdict' /\ NothingKept'
  BY <1>3, <1>4 DEF Owned, OomIsNoVerdict, NothingKept, Ended
<1>7. SchemeAgrees'
  BY <1>1, <1>2, <1>4 DEF SchemeAgrees, Verifying, Required, SchemeRefusal, Argument
<1>8. Trust' /\ Reasons'
  BY <1>3, <1>4 DEF Trust, Reasons, Refusals, Ended
<1> QED BY <1>5, <1>6, <1>7, <1>8, <1>9 DEF IInv, VerifyInv

\* The steps of a verification do not touch the set.
LEMMA SetAsideInv ==
  ASSUME IInv, UNCHANGED <<SetAside, file, arg>>, pc \in Verifying,
         pc' \in Verifying \cup {"idle"}, failed' \in BOOLEAN, ret' \in Statuses
  PROVE  /\ KeySetInv'
         /\ UNCHANGED <<file, arg>>
         /\ file \in File /\ arg \in Argument /\ file # NoFile /\ arg # NoArg
         /\ HeldKeys' = HeldKeys /\ HeldIds' = HeldIds
         /\ Signed(file, arg)' = Signed(file, arg)
         /\ PayloadFailure(file, arg)' = PayloadFailure(file, arg)
         /\ FinishFailure(file, arg)' = FinishFailure(file, arg)
         /\ Required(file, arg)' = Required(file, arg)
<1>1. /\ UNCHANGED <<accountVars, entries, cap, staged, stagedCap, at, version,
                     skipped, mismatched, ids, caught, exists, doc, told, op,
                     before, file, arg>>
  BY DEF SetAside, setVars, stageVars
<1>2. KeySetInv'
  <2>1. pc # "staging" /\ pc' \in Points \ {"staging"} /\ exists' \in BOOLEAN
    BY <1>1 DEF Verifying, Points, IInv, KeySetInv, KeySetTypeOK
  <2> QED BY <1>1, <2>1, SetUntouched DEF IInv
<1>3. HeldKeys' = HeldKeys /\ HeldIds' = HeldIds
  BY <1>1 DEF HeldKeys, HeldIds
<1>4. Signed(file, arg)' = Signed(file, arg)
  BY <1>1, <1>3 DEF Signed
<1>5. /\ PayloadFailure(file, arg)' = PayloadFailure(file, arg)
      /\ FinishFailure(file, arg)' = FinishFailure(file, arg)
      /\ Required(file, arg)' = Required(file, arg)
  BY <1>1 DEF PayloadFailure, FinishFailure, ClaimsFailure, Expired, Required
<1>6. file \in File /\ arg \in Argument /\ file # NoFile /\ arg # NoArg
  BY DEF IInv, VerifyInv, VerifyTypeOK, CallShape
<1> QED BY <1>1, <1>2, <1>3, <1>4, <1>5, <1>6

\* A verification that ends without a handle.
LEMMA FailureInv ==
  ASSUME IInv, UNCHANGED <<SetAside, file, arg>>, pc \in Verifying,
         pc' = "idle", ret' \in Statuses \ {"OK"},
         failed' = (ret' = "OUT_OF_MEMORY"), held' = {},
         verified' = verified, opened' \in BOOLEAN,
         opened' /\ ~verified => arg.key = "set",
         ret' \in Refusals =>
           ~Signed(file, arg) /\ (arg.key = "set" => file.alg = "ed25519"),
         ret' = "SIGNATURE_INVALID" /\ arg.key = "set" =>
           \/ file.sig # "ok"
           \/ PayloadFailure(file, arg) # {}
           \/ file.kid \in HeldIds \cup {NoKid},
         ret' \in {"UNKNOWN_SIGNING_KEY", "SIGNING_KEY_NOT_PUBLISHED"} =>
           /\ arg.key = "set" /\ file.kid \notin HeldIds
           /\ ret' = "SIGNING_KEY_NOT_PUBLISHED" <=> file.kid = UnpublishedId
  PROVE  IInv'
<1>1. /\ KeySetInv'
      /\ UNCHANGED <<file, arg>>
      /\ file \in File /\ arg \in Argument /\ file # NoFile /\ arg # NoArg
      /\ HeldIds' = HeldIds
      /\ Signed(file, arg)' = Signed(file, arg)
      /\ PayloadFailure(file, arg)' = PayloadFailure(file, arg)
  BY SetAsideInv
<1>2. VerifyTypeOK' /\ CallShape'
  BY <1>1 DEF IInv, VerifyInv, VerifyTypeOK, CallShape, Verifying
<1>3. Owned' /\ SchemeAgrees' /\ OomIsNoVerdict' /\ NothingKept'
  BY DEF Owned, SchemeAgrees, Verifying, OomIsNoVerdict, NothingKept, Ended
<1>4. Trust'
  <2>1. verified => Signed(file, arg)
    BY DEF IInv, VerifyInv, Trust
  <2> QED BY <1>1, <2>1 DEF Trust, Ended
<1>5. Reasons'
  BY <1>1 DEF Reasons
<1> QED BY <1>1, <1>2, <1>3, <1>4, <1>5 DEF IInv, VerifyInv

LEMMA OpenInv == ASSUME IInv, Open PROVE IInv'
<1>1. /\ pc = "open" /\ pc \in Verifying
      /\ UNCHANGED <<SetAside, file, arg, verified, opened>>
  BY DEF Open, Verifying
<1>2. /\ held = {} /\ verified = FALSE /\ opened = FALSE
      /\ file \in File /\ arg \in Argument /\ file # NoFile /\ arg # NoArg
      /\ arg.key = "set" => Required(file, arg) = "ed25519"
  BY <1>1 DEF IInv, VerifyInv, Owned, Trust, VerifyTypeOK, CallShape, SchemeAgrees,
              Verifying
<1>3. CASE \E s \in OpenFailure(file, arg) \cup {"OUT_OF_MEMORY"} :
             Returns(s) /\ UNCHANGED held
  <2>1. PICK s \in {"INVALID_PEM", "INVALID_BASE64", "INVALID_JSON",
                    "UNSUPPORTED_SCHEME", "OUT_OF_MEMORY"} :
               Returns(s) /\ UNCHANGED held
    BY <1>3 DEF OpenFailure, PemFailure, CertFailure
  <2>2. /\ ret' = s /\ pc' = "idle" /\ failed' = (s = "OUT_OF_MEMORY")
        /\ held' = {} /\ s \in Statuses \ {"OK"} /\ s \notin Refusals
    BY <1>2, <2>1 DEF Returns, Statuses, Refusals
  <2> QED BY <1>1, <1>2, <2>2, FailureInv DEF Refusals
<1>4. CASE OpenFailure(file, arg) = {} /\ Proceeds("signature") /\ held' = {"cert"}
  <2>1. pc' = "signature" /\ UNCHANGED <<ret, failed>>
    BY <1>4 DEF Proceeds
  <2>2. pc' \in Verifying \cup {"idle"} /\ failed' \in BOOLEAN /\ ret' \in Statuses
    BY <2>1 DEF Verifying, IInv, KeySetInv, KeySetTypeOK
  <2>3. /\ KeySetInv'
        /\ UNCHANGED <<file, arg>>
        /\ Required(file, arg)' = Required(file, arg)
    BY <1>1, <2>2, SetAsideInv
  <2>4. file.alg = Required(file, arg)
    <3>1. file.shape \in {"ok", "pem", "cert"}
      BY <1>2 DEF File
    <3> QED BY <1>4, <3>1 DEF OpenFailure, PemFailure, CertFailure
  <2>5. VerifyTypeOK' /\ CallShape'
    BY <1>1, <1>2, <1>4, <2>1, <2>3 DEF VerifyTypeOK, CallShape
  <2>6. Owned' /\ NothingKept' /\ OomIsNoVerdict' /\ Reasons'
    BY <1>4, <2>1 DEF Owned, NothingKept, OomIsNoVerdict, Reasons, Ended
  <2>7. SchemeAgrees'
    BY <1>2, <2>3, <2>4 DEF SchemeAgrees
  <2>8. Trust'
    BY <1>1, <1>2, <2>1 DEF Trust, Ended
  <2> QED BY <2>3, <2>5, <2>6, <2>7, <2>8 DEF IInv, VerifyInv
<1> QED BY <1>3, <1>4 DEF Open

LEMMA CheckSignatureInv == ASSUME IInv, CheckSignature PROVE IInv'
<1>1. /\ pc = "signature" /\ pc \in Verifying
      /\ UNCHANGED <<SetAside, file, arg, opened>>
  BY DEF CheckSignature, Verifying
<1>2. /\ held = {"cert"} /\ verified = FALSE /\ opened = FALSE
      /\ file \in File /\ arg \in Argument /\ file # NoFile /\ arg # NoArg
      /\ arg.key = "set" => Required(file, arg) = "ed25519"
      /\ file.alg = Required(file, arg)
  BY <1>1 DEF IInv, VerifyInv, Owned, Trust, VerifyTypeOK, CallShape, SchemeAgrees,
              Verifying
<1>3. CASE /\ \E s \in SignatureFailure(file, arg) \cup {"OUT_OF_MEMORY"} : Returns(s)
           /\ held' = {} /\ UNCHANGED verified
  <2>1. PICK s \in SignatureFailure(file, arg) \cup {"OUT_OF_MEMORY"} : Returns(s)
    BY <1>3
  <2>2. s \in {"INVALID_BASE64", "SIGNATURE_INVALID", "OUT_OF_MEMORY"}
    BY DEF SignatureFailure
  <2>3. /\ ret' = s /\ pc' = "idle" /\ failed' = (s = "OUT_OF_MEMORY")
        /\ s \in Statuses \ {"OK"}
    BY <2>1, <2>2 DEF Returns, Statuses
  <2>4. s = "SIGNATURE_INVALID" =>
          /\ ~Signed(file, arg)
          /\ arg.key = "set" => file.sig # "ok"
    BY DEF SignatureFailure, Signed
  <2>5. s \in Refusals => s = "SIGNATURE_INVALID"
    BY <2>2 DEF Refusals
  <2>6. s \notin {"UNKNOWN_SIGNING_KEY", "SIGNING_KEY_NOT_PUBLISHED"}
    BY <2>2
  <2> QED BY <1>1, <1>2, <1>3, <2>3, <2>4, <2>5, <2>6, FailureInv
<1>4. CASE /\ SignatureFailure(file, arg) = {} /\ Proceeds("payload")
           /\ verified' = Signed(file, arg) /\ UNCHANGED held
  <2>1. pc' = "payload" /\ UNCHANGED <<ret, failed>>
    BY <1>4 DEF Proceeds
  <2>2. pc' \in Verifying \cup {"idle"} /\ failed' \in BOOLEAN /\ ret' \in Statuses
    BY <2>1 DEF Verifying, IInv, KeySetInv, KeySetTypeOK
  <2>3. /\ KeySetInv'
        /\ UNCHANGED <<file, arg>>
        /\ Required(file, arg)' = Required(file, arg)
        /\ Signed(file, arg)' = Signed(file, arg)
    BY <1>1, <2>2, SetAsideInv
  <2>4. Signed(file, arg) \/ arg.key = "set"
    BY <1>4 DEF SignatureFailure
  <2>5. Signed(file, arg) \in BOOLEAN
    BY DEF Signed
  <2>6. VerifyTypeOK' /\ CallShape'
    BY <1>1, <1>2, <1>4, <2>1, <2>3, <2>5 DEF VerifyTypeOK, CallShape
  <2>7. Owned' /\ NothingKept' /\ OomIsNoVerdict' /\ Reasons'
    BY <1>2, <1>4, <2>1 DEF Owned, NothingKept, OomIsNoVerdict, Reasons, Ended
  <2>8. SchemeAgrees'
    BY <1>2, <2>3 DEF SchemeAgrees
  <2>9. Trust'
    BY <1>1, <1>2, <1>4, <2>1, <2>3, <2>4 DEF Trust, Ended
  <2> QED BY <2>3, <2>6, <2>7, <2>8, <2>9 DEF IInv, VerifyInv
<1> QED BY <1>3, <1>4 DEF CheckSignature

\* What a label says is so.
LEMMA LabelFacts ==
  ASSUME IInv, pc \in {"payload", "label"}, ~verified,
         NEW s \in PayloadOutcomes(file, arg) \cup {"OK"},
         s = "OK" => PayloadFailure(file, arg) = {}
  PROVE  /\ LabelFailure(s) \in Statuses \ {"OK"}
         /\ (s = "OUT_OF_MEMORY") = (LabelFailure(s) = "OUT_OF_MEMORY")
         /\ arg.key = "set" /\ ~Signed(file, arg) /\ file.alg = "ed25519"
         /\ LabelFailure(s) = "SIGNATURE_INVALID" =>
              \/ PayloadFailure(file, arg) # {}
              \/ file.kid \in HeldIds \cup {NoKid}
         /\ LabelFailure(s) \in {"UNKNOWN_SIGNING_KEY", "SIGNING_KEY_NOT_PUBLISHED"} =>
              /\ file.kid \notin HeldIds
              /\ LabelFailure(s) = "SIGNING_KEY_NOT_PUBLISHED" <=>
                   file.kid = UnpublishedId
<1>1. arg.key = "set" /\ ~Signed(file, arg)
  BY DEF IInv, VerifyInv, Trust
<1>2. file.alg = "ed25519"
  BY <1>1 DEF IInv, VerifyInv, SchemeAgrees, Verifying
<1>3. s \in {"NULL_ARGUMENT", "INVALID_BASE64", "DECRYPTION_FAILED", "INVALID_JSON",
             "OUT_OF_MEMORY", "OK"}
  BY DEF PayloadOutcomes, PayloadFailure
<1>4. s \notin {"OK", "OUT_OF_MEMORY"} => PayloadFailure(file, arg) # {}
  BY DEF PayloadOutcomes
<1> HIDE DEF PayloadFailure, PayloadOutcomes
<1>5. /\ LabelFailure(s) \in Statuses \ {"OK"}
      /\ (s = "OUT_OF_MEMORY") = (LabelFailure(s) = "OUT_OF_MEMORY")
  BY <1>3 DEF LabelFailure, Statuses
<1>6. LabelFailure(s) = "SIGNATURE_INVALID" =>
        \/ PayloadFailure(file, arg) # {}
        \/ file.kid \in HeldIds \cup {NoKid}
  BY <1>3, <1>4 DEF LabelFailure
<1>7. LabelFailure(s) \in {"UNKNOWN_SIGNING_KEY", "SIGNING_KEY_NOT_PUBLISHED"} =>
        /\ file.kid \notin HeldIds
        /\ LabelFailure(s) = "SIGNING_KEY_NOT_PUBLISHED" <=> file.kid = UnpublishedId
  BY <1>3 DEF LabelFailure
<1> QED BY <1>1, <1>2, <1>5, <1>6, <1>7

LEMMA DecodePayloadInv == ASSUME IInv, DecodePayload PROVE IInv'
<1>1. /\ pc = "payload" /\ pc \in Verifying /\ opened' = TRUE
      /\ UNCHANGED <<SetAside, file, arg, verified>>
  BY DEF DecodePayload, Verifying
<1>2. /\ verified \in BOOLEAN /\ (verified <=> Signed(file, arg))
      /\ verified \/ arg.key = "set"
      /\ file \in File /\ arg \in Argument /\ file # NoFile /\ arg # NoArg
      /\ arg.key = "set" => Required(file, arg) = "ed25519"
      /\ file.alg = Required(file, arg)
  BY <1>1 DEF IInv, VerifyInv, Trust, VerifyTypeOK, CallShape, SchemeAgrees,
              Verifying
<1>3. CASE /\ \E s \in PayloadOutcomes(file, arg) :
                IF verified THEN Returns(s)
                ELSE /\ pc' = "idle" /\ ret' = LabelFailure(s)
                     /\ failed' = (s = "OUT_OF_MEMORY")
           /\ held' = {}
  <2>1. PICK s \in PayloadOutcomes(file, arg) :
               IF verified THEN Returns(s)
               ELSE /\ pc' = "idle" /\ ret' = LabelFailure(s)
                    /\ failed' = (s = "OUT_OF_MEMORY")
    BY <1>3
  <2>2. s \in {"NULL_ARGUMENT", "INVALID_BASE64", "DECRYPTION_FAILED",
               "INVALID_JSON", "OUT_OF_MEMORY"}
    BY DEF PayloadOutcomes, PayloadFailure
  <2>3. CASE verified
    <3>1. /\ ret' = s /\ pc' = "idle" /\ failed' = (s = "OUT_OF_MEMORY")
          /\ s \in Statuses \ {"OK"} /\ s \notin Refusals
      BY <2>1, <2>2, <2>3 DEF Returns, Statuses, Refusals
    <3> QED BY <1>1, <1>3, <2>3, <3>1, FailureInv DEF Refusals
  <2>4. CASE ~verified
    <3>1. /\ pc' = "idle" /\ ret' = LabelFailure(s)
          /\ failed' = (s = "OUT_OF_MEMORY")
      BY <2>1, <2>4
    <3>2. s # "OK"
      BY <2>2
    <3> HIDE DEF LabelFailure, PayloadFailure, PayloadOutcomes
    <3>3. /\ LabelFailure(s) \in Statuses \ {"OK"}
          /\ (s = "OUT_OF_MEMORY") = (LabelFailure(s) = "OUT_OF_MEMORY")
          /\ arg.key = "set" /\ ~Signed(file, arg) /\ file.alg = "ed25519"
          /\ LabelFailure(s) = "SIGNATURE_INVALID" =>
               \/ PayloadFailure(file, arg) # {}
               \/ file.kid \in HeldIds \cup {NoKid}
          /\ LabelFailure(s) \in {"UNKNOWN_SIGNING_KEY", "SIGNING_KEY_NOT_PUBLISHED"} =>
               /\ file.kid \notin HeldIds
               /\ LabelFailure(s) = "SIGNING_KEY_NOT_PUBLISHED" <=>
                    file.kid = UnpublishedId
      BY <1>1, <2>4, <3>2, LabelFacts
    <3> HIDE DEF Statuses, Refusals
    <3> QED BY <1>1, <1>3, <3>1, <3>3, FailureInv
  <2> QED BY <1>2, <2>3, <2>4
<1>4. CASE /\ PayloadFailure(file, arg) = {}
           /\ Proceeds(IF verified THEN "finish" ELSE "label")
           /\ held' = {"payload"}
  <2>1. /\ pc' = (IF verified THEN "finish" ELSE "label")
        /\ UNCHANGED <<ret, failed>>
    BY <1>4 DEF Proceeds
  <2>2. pc' \in Verifying \cup {"idle"} /\ failed' \in BOOLEAN /\ ret' \in Statuses
    BY <2>1 DEF Verifying, IInv, KeySetInv, KeySetTypeOK
  <2>3. /\ KeySetInv'
        /\ UNCHANGED <<file, arg>>
        /\ Required(file, arg)' = Required(file, arg)
        /\ Signed(file, arg)' = Signed(file, arg)
        /\ PayloadFailure(file, arg)' = PayloadFailure(file, arg)
    BY <1>1, <2>2, SetAsideInv
  <2> HIDE DEF PayloadFailure, Signed
  <2>4. VerifyTypeOK' /\ CallShape'
    BY <1>1, <1>2, <1>4, <2>1, <2>3 DEF VerifyTypeOK, CallShape
  <2>5. Owned' /\ NothingKept' /\ OomIsNoVerdict' /\ Reasons'
    BY <1>4, <2>1 DEF Owned, NothingKept, OomIsNoVerdict, Reasons, Ended
  <2>6. SchemeAgrees'
    BY <1>2, <2>3 DEF SchemeAgrees
  <2>7. Trust'
    BY <1>1, <1>2, <1>4, <2>1, <2>3 DEF Trust, Ended
  <2> QED BY <2>3, <2>4, <2>5, <2>6, <2>7 DEF IInv, VerifyInv
<1> QED BY <1>3, <1>4 DEF DecodePayload

LEMMA LabelInv == ASSUME IInv, Label PROVE IInv'
<1>1. /\ pc = "label" /\ pc \in Verifying /\ held' = {}
      /\ UNCHANGED <<SetAside, file, arg, verified, opened>>
      /\ pc' = "idle" /\ ret' = LabelFailure("OK")
      /\ failed' = (ret' = "OUT_OF_MEMORY")
  BY DEF Label, Returns, Verifying
<1>2. ~verified /\ PayloadFailure(file, arg) = {} /\ opened \in BOOLEAN
  BY <1>1 DEF IInv, VerifyInv, Trust, VerifyTypeOK
<1> HIDE DEF LabelFailure, PayloadFailure, PayloadOutcomes, Statuses, Refusals
<1>3. /\ LabelFailure("OK") \in Statuses \ {"OK"}
      /\ arg.key = "set" /\ ~Signed(file, arg) /\ file.alg = "ed25519"
      /\ LabelFailure("OK") = "SIGNATURE_INVALID" =>
           \/ PayloadFailure(file, arg) # {}
           \/ file.kid \in HeldIds \cup {NoKid}
      /\ LabelFailure("OK") \in {"UNKNOWN_SIGNING_KEY", "SIGNING_KEY_NOT_PUBLISHED"} =>
           /\ file.kid \notin HeldIds
           /\ LabelFailure("OK") = "SIGNING_KEY_NOT_PUBLISHED" <=>
                file.kid = UnpublishedId
  BY <1>1, <1>2, LabelFacts
<1> QED BY <1>1, <1>2, <1>3, FailureInv

LEMMA FinishInv == ASSUME IInv, Finish PROVE IInv'
<1>1. /\ pc = "finish" /\ pc \in Verifying
      /\ UNCHANGED <<SetAside, file, arg, verified, opened>>
  BY DEF Finish, Verifying
<1>2. /\ verified = TRUE /\ opened \in BOOLEAN /\ Signed(file, arg)
      /\ file \in File /\ arg \in Argument /\ file # NoFile /\ arg # NoArg
  BY <1>1 DEF IInv, VerifyInv, Trust, VerifyTypeOK, CallShape, Verifying
<1>3. CASE /\ \E s \in FinishFailure(file, arg) \cup {"OUT_OF_MEMORY"} : Returns(s)
           /\ held' = {}
  <2>1. PICK s \in {"INVALID_JSON", "EXPIRED", "OUT_OF_MEMORY"} : Returns(s)
    BY <1>3 DEF FinishFailure, ClaimsFailure
  <2>2. /\ ret' = s /\ pc' = "idle" /\ failed' = (s = "OUT_OF_MEMORY")
        /\ s \in Statuses \ {"OK"} /\ s \notin Refusals
    BY <2>1 DEF Returns, Statuses, Refusals
  <2> QED BY <1>1, <1>2, <1>3, <2>2, FailureInv DEF Refusals
<1>4. CASE /\ FinishFailure(file, arg) = {}
           /\ Returns("OK") /\ held' = {"resource", "handle"}
  <2>1. pc' = "idle" /\ ret' = "OK" /\ failed' = FALSE
    BY <1>4 DEF Returns
  <2>2. pc' \in Verifying \cup {"idle"} /\ failed' \in BOOLEAN /\ ret' \in Statuses
    BY <2>1 DEF Statuses
  <2>3. /\ KeySetInv'
        /\ UNCHANGED <<file, arg>>
        /\ Signed(file, arg)' = Signed(file, arg)
        /\ FinishFailure(file, arg)' = FinishFailure(file, arg)
    BY <1>1, <2>2, SetAsideInv
  <2> HIDE DEF FinishFailure, Signed
  <2>4. VerifyTypeOK' /\ CallShape'
    BY <1>1, <1>2, <1>4, <2>1, <2>3 DEF VerifyTypeOK, CallShape, Verifying
  <2>5. Owned' /\ NothingKept' /\ OomIsNoVerdict' /\ Reasons' /\ SchemeAgrees'
    BY <1>4, <2>1 DEF Owned, NothingKept, OomIsNoVerdict, Reasons, Refusals, Ended,
                      SchemeAgrees, Verifying
  <2>6. Trust'
    BY <1>1, <1>2, <1>4, <2>1, <2>3 DEF Trust, Ended
  <2> QED BY <2>3, <2>4, <2>5, <2>6 DEF IInv, VerifyInv
<1> QED BY <1>3, <1>4 DEF Finish

LEMMA FreeHandleInv == ASSUME IInv, FreeHandle PROVE IInv'
<1>1. /\ pc = "idle" /\ pc' = "idle" /\ file' = NoFile /\ arg' = NoArg
      /\ held' = {} /\ verified' = FALSE /\ opened' = FALSE
      /\ ret' = "none" /\ failed' = FALSE
  BY DEF FreeHandle
<1>2. KeySetInv'
  <2>1. /\ pc' \in Points \ {"staging"} /\ ret' \in Statuses /\ exists' \in BOOLEAN
    BY <1>1 DEF Points, Statuses, FreeHandle, setVars, IInv, KeySetInv, KeySetTypeOK
  <2> QED BY <1>1, <2>1, SetUntouched DEF IInv, FreeHandle, setVars, stageVars
<1>3. VerifyInv'
  BY <1>1 DEF VerifyInv, VerifyTypeOK, CallShape, Owned, SchemeAgrees, Verifying,
              Trust, Reasons, OomIsNoVerdict, NothingKept, Ended
<1> QED BY <1>2, <1>3 DEF IInv

-----------------------------------------------------------------------------
(* The invariant.                                                          *)

LEMMA InitInv == Init => IInv
<1> SUFFICES ASSUME Init PROVE IInv
  OBVIOUS
<1>1. <<>> \in Seq(Row) /\ <<>> \in Seq(Entry) /\ Len(<<>>) = 0 /\ DOMAIN <<>> = {}
  BY EmptySeq
<1>2. PICK k \in Keys : history = <<k>>
  BY DEF Init, KeySetInit
<1>3. history \in Seq(Keys) /\ Len(history) = 1 /\ DOMAIN history = {1}
  BY <1>2
<1>4. KeySetTypeOK
  <2>1. told \in [added : Int, skipped : Int, mismatched : Int]
    BY DEF Init, KeySetInit, NoCounts
  <2>2. pc \in Points /\ ret \in Statuses
    BY DEF Init, KeySetInit, Points, Statuses
  <2> HIDE DEF Points, Statuses, Row, Entry
  <2>3. /\ entries \in Seq(Entry) /\ staged \in Seq(Entry) /\ before \in Seq(Entry)
        /\ doc \in Seq(Row)
    BY <1>1 DEF Init, KeySetInit
  <2>4. /\ hidden \in BOOLEAN /\ exists \in BOOLEAN /\ failed \in BOOLEAN
        /\ cap = 0 /\ stagedCap = 0 /\ at = 1 /\ version = 0 /\ skipped = 0
        /\ mismatched = 0 /\ ids = 0 /\ caught = 0 /\ op = "none"
    BY DEF Init, KeySetInit
  <2> QED BY <1>3, <2>1, <2>2, <2>3, <2>4 DEF KeySetTypeOK
<1>5. SlotsFit /\ IdsOwned /\ EntriesHonest /\ RowsHonest
  BY <1>1 DEF Init, KeySetInit, SlotsFit, IdsOwned, EntriesHonest, RowsHonest
<1>6. NoKeyTwice
  BY <1>3 DEF NoKeyTwice
<1>7. Covers /\ Staged /\ Unstaged
  BY DEF Init, KeySetInit, Covers, Staged, Unstaged
<1>8. CaughtUp
  <2>1. hidden \in BOOLEAN /\ caught = 0 /\ version = 0
    BY DEF Init, KeySetInit
  <2>2. KeysOf(Published(0)) = {}
    BY <1>3, <2>1, PublishedKeys
  <2> QED BY <1>3, <2>1, <2>2 DEF CaughtUp
<1>9. VerifyInv
  BY DEF Init, KeySetInit, VerifyInv, VerifyTypeOK, CallShape, Owned, SchemeAgrees,
         Verifying, Trust, Reasons, OomIsNoVerdict, NothingKept, Ended
<1> QED BY <1>4, <1>5, <1>6, <1>7, <1>8, <1>9 DEF IInv, KeySetInv

LEMMA StutterInv == ASSUME IInv, UNCHANGED vars PROVE IInv'
<1>1. UNCHANGED <<history, hidden, exists, entries, cap, staged, stagedCap, doc, at,
                  version, skipped, mismatched, told, ids, pc, op, before, failed,
                  caught, ret, file, arg, verified, opened, held>>
  BY DEF vars, keySetVars, verifyVars, accountVars, setVars, stageVars
<1>2. KeySetInv'
  <2>1. KeySetTypeOK' /\ SlotsFit' /\ IdsOwned' /\ EntriesHonest' /\ RowsHonest'
        /\ NoKeyTwice'
    BY <1>1 DEF IInv, KeySetInv, KeySetTypeOK, SlotsFit, IdsOwned, EntriesHonest,
                Honest, RowsHonest, NoKeyTwice
  <2>2. /\ KeysOf(Published(caught))' = KeysOf(Published(caught))
        /\ KeysOf(Published(version))' = KeysOf(Published(version))
        /\ HeldKeys' = HeldKeys
    BY <1>1 DEF Published, KeysOf, HeldKeys
  <2>3. Covers' /\ CaughtUp'
    BY <1>1, <2>2 DEF IInv, KeySetInv, Covers, CaughtUp
  <2>4. Staged' /\ Unstaged'
    BY <1>1 DEF IInv, KeySetInv, Staged, Unstaged
  <2> QED BY <2>1, <2>3, <2>4 DEF KeySetInv
<1>3. VerifyInv'
  <2>1. VerifyTypeOK' /\ CallShape' /\ Owned' /\ NothingKept' /\ OomIsNoVerdict'
    BY <1>1 DEF IInv, VerifyInv, VerifyTypeOK, CallShape, Owned, NothingKept, Ended,
                OomIsNoVerdict, Verifying
  <2>2. SchemeAgrees'
    BY <1>1 DEF IInv, VerifyInv, SchemeAgrees, Required, Verifying
  <2>3. Trust'
    BY <1>1 DEF IInv, VerifyInv, Trust, Signed, HeldKeys, PayloadFailure,
                FinishFailure, ClaimsFailure, Expired, Ended
  <2>4. Reasons'
    BY <1>1 DEF IInv, VerifyInv, Reasons, Signed, HeldKeys, HeldIds, PayloadFailure,
                Ended
  <2> QED BY <2>1, <2>2, <2>3, <2>4 DEF VerifyInv
<1> QED BY <1>2, <1>3 DEF IInv

\* The invariant of the key set and the verification: no interleaving of
\* rotations, pins, merges, failed allocations and verifications breaks it.
THEOREM Invariance == Spec => []IInv
<1>1. IInv /\ [Next]_vars => IInv'
  <2> SUFFICES ASSUME IInv, [Next]_vars PROVE IInv'
    OBVIOUS
  <2>1. CASE \E c \in Calls : Verify(c.file, c.arg)
    BY <2>1, VerifyStepInv
  <2> QED BY <2>1, KeySetStepInv, RefuseCallInv, OpenInv, CheckSignatureInv,
          DecodePayloadInv, LabelInv, FinishInv, FreeHandleInv, StutterInv DEF Next
<1> QED BY <1>1, InitInv, PTL DEF Spec

-----------------------------------------------------------------------------
(* What follows from it.                                                   *)

\* Every variable keeps its type, whatever documents and files are met.
THEOREM TypeCorrect == Spec => []TypeOK
<1>1. IInv => TypeOK
  BY DEF IInv, KeySetInv, VerifyInv, TypeOK
<1> QED BY <1>1, Invariance, PTL

\* No entry is written outside its array (tamga_key_set_reserve is called
\* before every write, with the right number).
THEOREM SlotsAlwaysFit == Spec => []SlotsFit
<1>1. IInv => SlotsFit
  BY DEF IInv, KeySetInv
<1> QED BY <1>1, Invariance, PTL

\* No copied id is leaked or freed twice, whichever allocation of a merge fails.
THEOREM IdsAlwaysOwned == Spec => []IdsOwned
<1>1. IInv => IdsOwned
  BY DEF IInv, KeySetInv
<1> QED BY <1>1, Invariance, PTL

\* What TAMGA_OK says of a verified file.
THEOREM OkIsGenuine == Spec => []GenuineOnly
<1>1. IInv => GenuineOnly
  <2> SUFFICES ASSUME IInv, Ended, ret = "OK"
               PROVE  /\ file.signer \in IF arg.key = "set" THEN HeldKeys ELSE {arg.key}
                      /\ file.exp = NoExpiry \/ arg.now <= file.exp + Skew
    BY DEF GenuineOnly
  <2>1. Signed(file, arg) /\ FinishFailure(file, arg) = {}
    BY DEF IInv, VerifyInv, Trust
  <2>2. file \in File /\ arg \in Argument
    BY DEF IInv, VerifyInv, VerifyTypeOK, CallShape, Ended
  <2>3. file.exp \in Nat \cup {NoExpiry} /\ arg.now \in Int
    BY <2>2 DEF File, Argument
  <2>4. ~Expired(file.exp, arg.now)
    BY <2>1 DEF FinishFailure
  <2>5. file.exp = NoExpiry \/ arg.now <= file.exp + Skew
    BY <2>3, <2>4 DEF Expired, Skew
  <2> QED BY <2>1, <2>5 DEF Signed
<1> QED BY <1>1, Invariance, PTL

\* A merged document lets the files of every key it names through, for ever.
THEOREM NobodyLockedOut == Spec => []RotationSurvived
<1>1. IInv => RotationSurvived
  <2> SUFFICES ASSUME IInv, Ended, arg.key = "set", Genuine(file),
                      file.signer \in KeysOf(Published(caught))
               PROVE  ret \notin Refusals
    BY DEF RotationSurvived
  <2>1. file.signer \in HeldKeys
    BY DEF IInv, KeySetInv, CaughtUp
  <2>2. Signed(file, arg)
    BY <2>1 DEF Signed, Genuine
  <2> QED BY <2>2 DEF IInv, VerifyInv, Reasons
<1> QED BY <1>1, Invariance, PTL

\* The key and the claim of a file the account signed with Ed25519.
LEMMA GenuineSigner ==
  ASSUME IInv, Genuine(file), file.alg = "ed25519"
  PROVE  \E n \in DOMAIN history :
           /\ n \in 1..Len(history) /\ Len(history) \in Nat
           /\ file.signer = history[n] /\ history[n] \in Keys
           /\ file.kid = IF hidden /\ n = 1 THEN UnpublishedId ELSE Served[history[n]]
<1>1. PICK n \in DOMAIN history : file.kid = Stamped(n) /\ file.signer = history[n]
  BY DEF Genuine
<1>2. history \in Seq(Keys)
  BY DEF IInv, KeySetInv, KeySetTypeOK
<1>3. n \in 1..Len(history) /\ Len(history) \in Nat /\ history[n] \in Keys
  BY <1>1, <1>2, LenProperties, ElementOfSeq
<1> QED BY <1>1, <1>3 DEF Stamped

\* Staleness is never called forgery: the ids of the keys held are honest and
\* no two keys share one, so a claim that resolves is the signer's.
THEOREM StaleIsNotForged == Spec => []GenuineNotForged
<1>1. IInv => GenuineNotForged
  <2> SUFFICES ASSUME IInv, Ended, arg.key = "set", Genuine(file),
                      Readable(file, arg), ret = "SIGNATURE_INVALID"
               PROVE  FALSE
    BY DEF GenuineNotForged
  <2>1. /\ ~Signed(file, arg) /\ file.alg = "ed25519"
        /\ \/ file.sig # "ok"
           \/ PayloadFailure(file, arg) # {}
           \/ file.kid \in HeldIds \cup {NoKid}
    BY DEF IInv, VerifyInv, Reasons, Refusals
  <2>2. PICK n \in DOMAIN history :
           /\ file.signer = history[n] /\ history[n] \in Keys
           /\ file.kid = IF hidden /\ n = 1 THEN UnpublishedId ELSE Served[history[n]]
    BY <2>1, GenuineSigner
  <2>3. file.sig = "ok" /\ PayloadFailure(file, arg) = {}
    BY DEF Genuine, Readable, PayloadFailure
  <2>4. file.kid # NoKid
    BY <2>2, KeySetAssumption, VerifyAssumption
  <2>5. PICK i \in DOMAIN entries : entries[i].id = file.kid
    BY <2>1, <2>3, <2>4 DEF HeldIds
  <2>6. entries[i] \in Entry /\ Honest(entries[i])
    BY ElementOfSeq, LenProperties
       DEF IInv, KeySetInv, KeySetTypeOK, EntriesHonest
  <2>7. entries[i].key \in Keys
        /\ entries[i].id \in {Served[entries[i].key], Computed[entries[i].key]}
    BY <2>6 DEF Entry, Honest
  <2>8. entries[i].key = history[n]
    BY <2>2, <2>5, <2>7, NoCollision
  <2>9. file.signer \in HeldKeys
    BY <2>2, <2>8 DEF HeldKeys
  <2> QED BY <2>1, <2>3, <2>9 DEF Signed
<1> QED BY <1>1, Invariance, PTL

\* The two labels of a file the account signed tell apart whether fetching the
\* account's keys would help.
THEOREM LabelIsRight == Spec => []LabelNamesTheCure
<1>1. IInv => LabelNamesTheCure
  <2> SUFFICES ASSUME IInv, Ended, arg.key = "set", Genuine(file)
               PROVE  /\ ret = "UNKNOWN_SIGNING_KEY" =>
                           file.signer \in KeysOf(Published(Len(history)))
                      /\ ret = "SIGNING_KEY_NOT_PUBLISHED" =>
                           file.signer \notin KeysOf(Published(Len(history)))
    BY DEF LabelNamesTheCure
  <2> DEFINE m == IF hidden THEN 2 ELSE 1
  <2>1. /\ history \in Seq(Keys) /\ hidden \in BOOLEAN /\ Len(history) \in Nat
        /\ DOMAIN history = 1..Len(history)
    BY LenProperties DEF IInv, KeySetInv, KeySetTypeOK
  <2>2. KeysOf(Published(Len(history))) = {history[i] : i \in m..Len(history)}
    BY <2>1, PublishedKeys
  <2>3. ASSUME ret \in {"UNKNOWN_SIGNING_KEY", "SIGNING_KEY_NOT_PUBLISHED"}
        PROVE  /\ file.alg = "ed25519"
               /\ ret = "SIGNING_KEY_NOT_PUBLISHED" <=> file.kid = UnpublishedId
    BY <2>3 DEF IInv, VerifyInv, Reasons, Refusals
  <2>4. CASE ret = "UNKNOWN_SIGNING_KEY"
    <3>1. file.alg = "ed25519" /\ file.kid # UnpublishedId
      BY <2>3, <2>4
    <3>2. PICK n \in DOMAIN history :
             /\ file.signer = history[n]
             /\ file.kid = IF hidden /\ n = 1 THEN UnpublishedId ELSE Served[history[n]]
      BY <3>1, GenuineSigner
    <3>3. n \in m..Len(history)
      BY <2>1, <3>1, <3>2
    <3> QED BY <2>2, <2>4, <3>2, <3>3
  <2>5. CASE ret = "SIGNING_KEY_NOT_PUBLISHED"
    <3>1. file.alg = "ed25519" /\ file.kid = UnpublishedId
      BY <2>3, <2>5
    <3>2. PICK n \in DOMAIN history :
             /\ file.signer = history[n] /\ history[n] \in Keys
             /\ file.kid = IF hidden /\ n = 1 THEN UnpublishedId ELSE Served[history[n]]
      BY <3>1, GenuineSigner
    <3>3. hidden /\ n = 1
      BY <3>1, <3>2, NoCollision
    <3>4. \A i \in 2..Len(history) : history[i] # history[n]
      BY <2>1, <3>2, <3>3 DEF IInv, KeySetInv, NoKeyTwice
    <3> QED BY <2>2, <2>5, <3>2, <3>3, <3>4
  <2> QED BY <2>4, <2>5
<1> QED BY <1>1, Invariance, PTL

\* A failed allocation is reported as what it is, in every call and at every
\* step of it.
THEOREM OutOfMemoryIsNoVerdict == Spec => []OomIsNoVerdict
<1>1. IInv => OomIsNoVerdict
  BY DEF IInv, VerifyInv
<1> QED BY <1>1, Invariance, PTL

\* An unsigned payload is read for its label only.
THEOREM SignedBeforeRead == Spec => []VerifiedBeforeUse
<1>1. IInv => VerifiedBeforeUse
  <2> SUFFICES ASSUME IInv, opened, ~verified
               PROVE  arg.key = "set" /\ "resource" \notin held
    BY DEF VerifiedBeforeUse
  <2>1. arg.key = "set" /\ file # NoFile
    BY DEF IInv, VerifyInv, Trust, CallShape
  <2>2. pc \in Verifying \cup {"idle"}
    BY <2>1 DEF IInv, VerifyInv, CallShape, KeySetInv, KeySetTypeOK, Points, Verifying
  <2>3. CASE pc = "idle"
    <3>1. held = IF ret = "OK" THEN {"resource", "handle"} ELSE {}
      BY <2>1, <2>3 DEF IInv, VerifyInv, NothingKept, Ended
    <3>2. ret # "OK"
      BY <2>1, <2>3 DEF IInv, VerifyInv, Trust, Ended
    <3> QED BY <2>1, <3>1, <3>2
  <2>4. CASE pc \in Verifying
    BY <2>1, <2>4 DEF IInv, VerifyInv, Owned, Verifying
  <2> QED BY <2>2, <2>3, <2>4
<1> QED BY <1>1, Invariance, PTL

\* No file of another scheme is labelled by its kid.
THEOREM KidForEd25519Only == Spec => []KidOnlyForEd25519
<1>1. IInv => KidOnlyForEd25519
  BY DEF IInv, VerifyInv, Reasons, Refusals, KidOnlyForEd25519
<1> QED BY <1>1, Invariance, PTL

\* Every path of a verification frees what it does not hand out.
THEOREM NothingLeftBehind == Spec => []NothingKept
<1>1. IInv => NothingKept
  BY DEF IInv, VerifyInv
<1> QED BY <1>1, Invariance, PTL

\* Arrays, ids and what a verification holds, for any keys, documents and files.
THEOREM BlocksAlwaysAccounted == Spec => []BlocksAccounted
<1>1. SlotsFit /\ IdsOwned /\ NothingKept => BlocksAccounted
  BY DEF BlocksAccounted
<1> QED BY <1>1, SlotsAlwaysFit, IdsAlwaysOwned, NothingLeftBehind, PTL

\* TAMGA_OK and the use of a payload rest on a signature by a trusted key.
THEOREM OnlySignedTrusted == Spec => []TrustsSignedOnly
<1>1. GenuineOnly /\ VerifiedBeforeUse => TrustsSignedOnly
  BY DEF TrustsSignedOnly
<1> QED BY <1>1, OkIsGenuine, SignedBeforeRead, PTL

\* Every refusal names what is wrong, however the account rotates its key.
THEOREM RefusalsTrue == Spec => []RefusalTrue
<1>1. GenuineNotForged /\ LabelNamesTheCure /\ OomIsNoVerdict /\ KidOnlyForEd25519
        => RefusalTrue
  BY DEF RefusalTrue
<1> QED BY <1>1, StaleIsNotForged, LabelIsRight, OutOfMemoryIsNoVerdict,
           KidForEd25519Only, PTL

-----------------------------------------------------------------------------
(* A merge is all or nothing.                                              *)

\* The usable rows of a part of a document, counted.
LEMMA RankFacts ==
  ASSUME NEW d \in Seq(Row), NEW n \in Nat
  PROVE  /\ IsFiniteSet(UsableUpTo(d, n)) /\ Rank(d, n) \in Nat
         /\ IsFiniteSet(MismatchedUpTo(d, n))
         /\ UsableUpTo(d, 0) = {} /\ MismatchedUpTo(d, 0) = {}
<1>1. DOMAIN d = 1..Len(d) /\ Len(d) \in Nat
  BY LenProperties
<1>2. IsFiniteSet(1..Len(d))
  BY <1>1, FS_Interval
<1>3. UsableUpTo(d, n) \in SUBSET (1..Len(d)) /\ UsableUpTo(d, 0) = {}
  BY <1>1 DEF UsableUpTo
<1>4. IsFiniteSet(UsableUpTo(d, n))
  BY <1>2, <1>3, FS_Subset
<1>5. MismatchedUpTo(d, n) \in SUBSET UsableUpTo(d, n)
      /\ MismatchedUpTo(d, 0) = {}
  BY <1>3 DEF MismatchedUpTo
<1>6. IsFiniteSet(MismatchedUpTo(d, n))
  BY <1>4, <1>5, FS_Subset
<1>7. Rank(d, n) \in Nat
  BY <1>4, FS_CardinalityType DEF Rank
<1> QED BY <1>3, <1>4, <1>5, <1>6, <1>7

\* The counts go up by one at a usable row and at a mismatched one.
LEMMA RankStep ==
  ASSUME NEW d \in Seq(Row), NEW n \in DOMAIN d
  PROVE  /\ n - 1 \in Nat
         /\ Rank(d, n) = Rank(d, n - 1) + (IF IsUsable(d[n]) THEN 1 ELSE 0)
         /\ Cardinality(MismatchedUpTo(d, n)) =
              Cardinality(MismatchedUpTo(d, n - 1))
                + (IF IsUsable(d[n]) /\ Computed[d[n].key] # d[n].id THEN 1 ELSE 0)
<1>1. DOMAIN d = 1..Len(d) /\ Len(d) \in Nat /\ n \in Nat /\ n - 1 \in Nat
  BY LenProperties
<1>2. /\ IsFiniteSet(UsableUpTo(d, n - 1)) /\ Rank(d, n - 1) \in Nat
      /\ IsFiniteSet(MismatchedUpTo(d, n - 1))
  BY <1>1, RankFacts
<1>3. n \notin UsableUpTo(d, n - 1) /\ n \notin MismatchedUpTo(d, n - 1)
  BY <1>1 DEF UsableUpTo, MismatchedUpTo
<1>4. \A i \in DOMAIN d : i <= n <=> i <= n - 1 \/ i = n
  BY <1>1
<1>5. UsableUpTo(d, n) =
        UsableUpTo(d, n - 1) \cup (IF IsUsable(d[n]) THEN {n} ELSE {})
  BY <1>4, Zenon DEF UsableUpTo
<1>6. MismatchedUpTo(d, n) =
        MismatchedUpTo(d, n - 1)
          \cup (IF IsUsable(d[n]) /\ Computed[d[n].key] # d[n].id THEN {n} ELSE {})
  BY <1>5, Zenon DEF MismatchedUpTo
<1>7. Rank(d, n) = Rank(d, n - 1) + (IF IsUsable(d[n]) THEN 1 ELSE 0)
  <2>1. CASE IsUsable(d[n])
    BY <2>1, <1>2, <1>3, <1>5, FS_AddElement DEF Rank
  <2>2. CASE ~IsUsable(d[n])
    BY <2>2, <1>2, <1>5 DEF Rank
  <2> QED BY <2>1, <2>2
<1>8. Cardinality(MismatchedUpTo(d, n - 1)) \in Nat
  BY <1>2, FS_CardinalityType
<1>9. Cardinality(MismatchedUpTo(d, n)) =
        Cardinality(MismatchedUpTo(d, n - 1))
          + (IF IsUsable(d[n]) /\ Computed[d[n].key] # d[n].id THEN 1 ELSE 0)
  <2>1. CASE IsUsable(d[n]) /\ Computed[d[n].key] # d[n].id
    BY <2>1, <1>2, <1>3, <1>6, FS_AddElement
  <2>2. CASE ~(IsUsable(d[n]) /\ Computed[d[n].key] # d[n].id)
    <3>1. MismatchedUpTo(d, n) = MismatchedUpTo(d, n - 1)
      BY <2>2, <1>6, Zenon
    <3> QED BY <3>1, <2>2, <1>8
  <2> QED BY <2>1, <2>2
<1> QED BY <1>1, <1>7, <1>9

\* No two usable rows have the same rank.
LEMMA RankInjective ==
  ASSUME NEW d \in Seq(Row), NEW i \in DOMAIN d, NEW j \in DOMAIN d,
         IsUsable(d[i]), IsUsable(d[j]), Rank(d, i) = Rank(d, j)
  PROVE  i = j
<1>1. DOMAIN d = 1..Len(d) /\ Len(d) \in Nat
  BY LenProperties
<1>2. ASSUME NEW a \in DOMAIN d, NEW b \in DOMAIN d, IsUsable(d[b]), a < b
      PROVE  Rank(d, a) # Rank(d, b)
  <2>1. a \in Nat /\ b \in Nat
    BY <1>1
  <2>2. IsFiniteSet(UsableUpTo(d, b))
    BY <2>1, RankFacts
  <2>3. UsableUpTo(d, a) \in SUBSET UsableUpTo(d, b)
    BY <2>1, <1>1, <1>2 DEF UsableUpTo
  <2>4. b \in UsableUpTo(d, b) /\ b \notin UsableUpTo(d, a)
    BY <2>1, <1>2 DEF UsableUpTo
  <2> QED BY <2>2, <2>3, <2>4, FS_Subset DEF Rank
<1> QED BY <1>1, <1>2

\* A document read to its end, staged in order, is the document's usable rows.
LEMMA StagedIsUsable ==
  ASSUME NEW d \in Seq(Row), NEW s \in Seq(Entry), Len(s) = Rank(d, Len(d)),
         \A n \in DOMAIN s : \E i \in UsableUpTo(d, Len(d)) :
           Rank(d, i) = n /\ s[n] = EntryOf(d[i])
  PROVE  s = Usable(d)
<1>1. DOMAIN s = 1..Rank(d, Len(d)) /\ s = [n \in DOMAIN s |-> s[n]]
  BY LenProperties
<1>2. ASSUME NEW n \in DOMAIN s
      PROVE  s[n] = EntryOf(d[CHOOSE i \in DOMAIN d : IsUsable(d[i]) /\ Rank(d, i) = n])
  <2> DEFINE j == CHOOSE i \in DOMAIN d : IsUsable(d[i]) /\ Rank(d, i) = n
  <2>1. PICK i \in DOMAIN d : IsUsable(d[i]) /\ Rank(d, i) = n /\ s[n] = EntryOf(d[i])
    BY DEF UsableUpTo
  <2>2. j \in DOMAIN d /\ IsUsable(d[j]) /\ Rank(d, j) = n
    BY <2>1
  <2> HIDE DEF j
  <2>3. i = j
    BY <2>1, <2>2, RankInjective
  <2> QED BY <2>1, <2>3 DEF j
<1> QED BY <1>1, <1>2, Zenon DEF Usable

\* Between two calls, and in a verification, nothing of a merge changes.
LEMMA MergeUntouched ==
  ASSUME IInv, MergeInv, pc # "staging", pc' # "staging",
         UNCHANGED <<skipped, mismatched>>, op' # "add_json"
  PROVE  MergeInv'
  BY DEF MergeInv, Progress, MergeAllOrNothing

LEMMA RotateMerge ==
  ASSUME IInv, MergeInv, NEW k \in Keys, Rotate(k)
  PROVE  MergeInv'
<1>1. UNCHANGED <<entries, staged, doc, at, skipped, mismatched, told, pc, op,
                  before, ret>>
  BY DEF Rotate, setVars, stageVars
<1>2. Progress'
  BY <1>1 DEF MergeInv, Progress, StagedInOrder
<1>3. MergeAllOrNothing'
  BY <1>1 DEF MergeInv, MergeAllOrNothing
<1> QED BY <1>2, <1>3 DEF MergeInv

LEMMA AddJsonMerge ==
  ASSUME IInv, MergeInv, NEW v \in 0..Len(history), AddJson(v)
  PROVE  MergeInv'
<1>1. /\ op' = "add_json" /\ before' = entries /\ told' = NoCounts
      /\ pc = "idle" /\ pc' \in {"idle", "staging"}
      /\ ret' # "OK"
      /\ UNCHANGED <<entries, staged, at, skipped, mismatched>>
      /\ doc' \in {<<>>, Document(v)}
  BY DEF AddJson, Call, setVars
<1>2. staged = <<>> /\ at = 1 /\ skipped = 0 /\ mismatched = 0
  BY <1>1 DEF IInv, KeySetInv, Unstaged, MergeInv, Progress
<1>3. doc' \in Seq(Row) /\ Len(doc') \in Nat
  BY <1>1, DocumentFacts, EmptySeq, LenProperties DEF IInv
<1>4. UsableUpTo(doc', 0) = {} /\ MismatchedUpTo(doc', 0) = {}
  BY <1>3, RankFacts
<1>5. Rank(doc', 0) = 0 /\ Cardinality(MismatchedUpTo(doc', 0)) = 0
  BY <1>4, FS_EmptySet DEF Rank
<1>6. at' - 1 = 0 /\ at' <= Len(doc') + 1 /\ Len(staged') = 0 /\ DOMAIN staged' = {}
  BY <1>1, <1>2, <1>3, EmptySeq
<1>7. StagedInOrder'
  BY <1>6 DEF StagedInOrder
<1>8. /\ Len(staged') = Rank(doc', at' - 1)
      /\ Len(staged') + skipped' = at' - 1
      /\ mismatched' = Cardinality(MismatchedUpTo(doc', at' - 1))
  BY <1>1, <1>2, <1>5, <1>6
<1>9. Progress'
  BY <1>1, <1>2, <1>6, <1>7, <1>8 DEF Progress
<1>10. MergeAllOrNothing'
  BY <1>1 DEF MergeAllOrNothing
<1> QED BY <1>9, <1>10 DEF MergeInv

LEMMA StageRowMerge == ASSUME IInv, MergeInv, StageRow PROVE MergeInv'
<1>1. /\ UNCHANGED <<entries, doc, told, op, before>>
      /\ pc = "staging" /\ at <= Len(doc) /\ op = "add_json"
      /\ entries = before /\ told = NoCounts
  BY DEF StageRow, setVars, MergeInv, Progress, MergeAllOrNothing
<1>2. /\ staged \in Seq(Entry) /\ Len(staged) \in Nat
      /\ DOMAIN staged = 1..Len(staged)
      /\ doc \in Seq(Row) /\ DOMAIN doc = 1..Len(doc) /\ Len(doc) \in Nat
      /\ at \in Nat \ {0} /\ at \in DOMAIN doc /\ doc[at] \in Row
      /\ skipped \in Nat /\ mismatched \in Nat
  BY <1>1, LenProperties, ElementOfSeq DEF IInv, KeySetInv, KeySetTypeOK
<1>3. /\ Len(staged) = Rank(doc, at - 1)
      /\ Len(staged) + skipped = at - 1
      /\ mismatched = Cardinality(MismatchedUpTo(doc, at - 1))
      /\ StagedInOrder
  BY <1>1 DEF MergeInv, Progress
<1>4. /\ Rank(doc, at) = Rank(doc, at - 1) + (IF IsUsable(doc[at]) THEN 1 ELSE 0)
      /\ Cardinality(MismatchedUpTo(doc, at)) =
           Cardinality(MismatchedUpTo(doc, at - 1))
             + (IF IsUsable(doc[at]) /\ Computed[doc[at].key] # doc[at].id
                THEN 1 ELSE 0)
  BY <1>2, RankStep
<1>5. UsableUpTo(doc, at - 1) \subseteq UsableUpTo(doc, at)
  BY <1>2 DEF UsableUpTo
<1>6. CASE OutOfMemoryStaging
  BY <1>1, <1>6 DEF OutOfMemoryStaging, Unstage, MergeInv, Progress, MergeAllOrNothing
\* What the other two outcomes have in common.
<1>7. ASSUME at' = at + 1, pc' = pc, ret' = ret,
             Len(staged') = Rank(doc, at), Len(staged') + skipped' = at,
             mismatched' = Cardinality(MismatchedUpTo(doc, at)),
             \A n \in DOMAIN staged' : \E i \in UsableUpTo(doc, at) :
               Rank(doc, i) = n /\ staged'[n] = EntryOf(doc[i])
      PROVE  MergeInv'
  <2>1. at' - 1 = at /\ at' <= Len(doc') + 1
    BY <1>1, <1>2, <1>7
  <2>2. StagedInOrder'
    BY <1>1, <1>7, <2>1, ZenonT(40) DEF StagedInOrder, UsableUpTo, Rank, EntryOf, IsUsable
  <2>3. Progress'
    <3>1. /\ Len(staged') = Rank(doc', at' - 1)
          /\ Len(staged') + skipped' = at' - 1
          /\ mismatched' = Cardinality(MismatchedUpTo(doc', at' - 1))
      BY <1>1, <1>7, <2>1
    <3> QED BY <1>1, <1>7, <2>1, <2>2, <3>1 DEF Progress
  <2>4. MergeAllOrNothing'
    BY <1>1, <1>7 DEF MergeAllOrNothing
  <2> QED BY <2>3, <2>4 DEF MergeInv
<1>8. CASE /\ doc[at].form # "key" /\ at' = at + 1 /\ skipped' = skipped + 1
           /\ UNCHANGED <<staged, mismatched, pc, ret>>
  <2>1. ~IsUsable(doc[at])
    BY <1>8 DEF IsUsable
  <2>2. Rank(doc, at) = Len(staged) /\ Cardinality(MismatchedUpTo(doc, at)) = mismatched
    BY <2>1, <1>2, <1>3, <1>4
  <2>3. \A n \in DOMAIN staged' : \E i \in UsableUpTo(doc, at) :
          Rank(doc, i) = n /\ staged'[n] = EntryOf(doc[i])
    BY <1>3, <1>5, <1>8 DEF StagedInOrder
  <2> QED BY <2>2, <2>3, <1>2, <1>3, <1>7, <1>8, SMTT(30)
<1>9. CASE /\ doc[at].form = "key" /\ at' = at + 1
           /\ staged' = Append(staged, [id |-> doc[at].id, key |-> doc[at].key])
           /\ mismatched' = IF Computed[doc[at].key] # doc[at].id
                            THEN mismatched + 1 ELSE mismatched
           /\ UNCHANGED <<skipped, pc, ret>>
  <2> DEFINE e == EntryOf(doc[at])
  <2>1. IsUsable(doc[at]) /\ e \in Entry /\ staged' = Append(staged, e)
    BY <1>2, <1>9 DEF IsUsable, EntryOf, Row, Entry
  <2>2. /\ Rank(doc, at) = Len(staged) + 1
        /\ Cardinality(MismatchedUpTo(doc, at)) = mismatched'
    BY <2>1, <1>2, <1>3, <1>4, <1>9
  <2> HIDE DEF e
  <2>3. /\ Len(staged') = Len(staged) + 1
        /\ DOMAIN staged' = 1..(Len(staged) + 1)
        /\ \A i \in 1..Len(staged) : staged'[i] = staged[i]
        /\ staged'[Len(staged) + 1] = e
    BY <1>2, <2>1, AppendFacts
  <2>4. ASSUME NEW n \in DOMAIN staged'
        PROVE  \E i \in UsableUpTo(doc, at) :
                 Rank(doc, i) = n /\ staged'[n] = EntryOf(doc[i])
    <3>1. CASE n \in 1..Len(staged)
      BY <3>1, <1>2, <1>3, <1>5, <2>3 DEF StagedInOrder
    <3>2. CASE n = Len(staged) + 1
      <4>1. at \in UsableUpTo(doc, at)
        BY <1>2, <2>1 DEF UsableUpTo
      <4> QED BY <3>2, <4>1, <2>2, <2>3 DEF e
    <3> QED BY <3>1, <3>2, <1>2, <2>3
  <2>5. Len(staged') = Rank(doc, at) /\ Len(staged') + skipped' = at
    BY <2>2, <2>3, <1>2, <1>3, <1>9
  <2> QED BY <2>2, <2>4, <2>5, <1>7, <1>9
<1> QED BY <1>6, <1>8, <1>9 DEF StageRow

LEMMA MergeMerge == ASSUME IInv, MergeInv, Merge PROVE MergeInv'
<1>1. /\ UNCHANGED <<doc, op, before>>
      /\ pc = "staging" /\ at > Len(doc) /\ op = "add_json"
      /\ entries = before /\ told = NoCounts
  BY DEF Merge, MergeInv, Progress, MergeAllOrNothing
<1>2. /\ staged \in Seq(Entry) /\ doc \in Seq(Row) /\ Len(doc) \in Nat
      /\ at \in Nat /\ Len(staged) \in Nat
      /\ skipped \in Nat
  BY LenProperties DEF IInv, KeySetInv, KeySetTypeOK
<1>3. at - 1 = Len(doc)
  BY <1>1, <1>2 DEF MergeInv, Progress
<1>4. pc' = "idle" /\ skipped' = 0 /\ mismatched' = 0
  BY DEF Merge, OutOfMemoryStaging, Unstage
<1>5. Progress'
  BY <1>4 DEF Progress
<1>6. CASE OutOfMemoryStaging /\ UNCHANGED <<entries, told>>
  BY <1>1, <1>5, <1>6 DEF OutOfMemoryStaging, MergeInv, MergeAllOrNothing
<1>7. CASE /\ entries' = entries \o staged
           /\ told' = [added |-> Len(staged), skipped |-> skipped,
                       mismatched |-> mismatched]
           /\ ret' = "OK"
  <2>1. /\ Len(staged) = Rank(doc, Len(doc))
        /\ Len(staged) + skipped = Len(doc)
        /\ mismatched = Cardinality(MismatchedUpTo(doc, Len(doc)))
        /\ StagedInOrder
    BY <1>1, <1>3 DEF MergeInv, Progress
  <2>2. staged = Usable(doc)
    BY <2>1, <1>2, <1>3, StagedIsUsable, SMTT(30) DEF StagedInOrder
  <2>3. /\ entries' = before' \o Usable(doc')
        /\ told'.added = Len(Usable(doc'))
        /\ told'.added + told'.skipped = Len(doc')
        /\ told'.mismatched = Cardinality(MismatchedUpTo(doc', Len(doc')))
    BY <1>1, <1>7, <2>1, <2>2
  <2>4. MergeAllOrNothing'
    BY <1>1, <1>4, <1>7, <2>3 DEF MergeAllOrNothing
  <2> QED BY <1>5, <2>4 DEF MergeInv
<1> QED BY <1>6, <1>7 DEF Merge

LEMMA MergeStutter == ASSUME MergeInv, UNCHANGED vars PROVE MergeInv'
<1>1. UNCHANGED <<entries, staged, doc, at, skipped, mismatched, told, pc, op,
                  before, ret>>
  BY DEF vars, keySetVars, setVars, stageVars
<1>2. Progress'
  BY <1>1 DEF MergeInv, Progress, StagedInOrder
<1>3. MergeAllOrNothing'
  BY <1>1 DEF MergeInv, MergeAllOrNothing
<1> QED BY <1>2, <1>3 DEF MergeInv

LEMMA MergeNext == ASSUME IInv, MergeInv, Next PROVE MergeInv'
<1>1. CASE KeySetStep
  <2>1. CASE \E k \in Keys : Rotate(k)
    BY <2>1, RotateMerge
  <2>2. CASE \E v \in 0..Len(history) : AddJson(v)
    BY <2>2, AddJsonMerge
  <2>3. CASE StageRow \/ Merge
    BY <2>3, StageRowMerge, MergeMerge
  <2>4. CASE NewSet \/ FreeSet \/ \E p \in Pins : AddPublicKey(p)
    <3>1. /\ pc # "staging" /\ pc' # "staging" /\ op' # "add_json"
          /\ UNCHANGED <<skipped, mismatched>>
      BY <2>4 DEF NewSet, FreeSet, AddPublicKey, Call, stageVars
    <3> QED BY <3>1, MergeUntouched
  <2> QED BY <1>1, <2>1, <2>2, <2>3, <2>4 DEF KeySetStep
<1>2. CASE RefuseCall \/ \E c \in Calls : Verify(c.file, c.arg)
  <2>1. /\ pc # "staging" /\ pc' # "staging" /\ op' # "add_json"
        /\ UNCHANGED <<skipped, mismatched>>
    BY <1>2 DEF RefuseCall, Verify, Call, Returns
  <2> QED BY <2>1, MergeUntouched
<1>3. CASE Open \/ CheckSignature \/ DecodePayload \/ Label \/ Finish
  <2>1. /\ pc \in Verifying /\ pc' # "staging" /\ op' = op
        /\ UNCHANGED <<skipped, mismatched>>
    BY <1>3 DEF Open, CheckSignature, DecodePayload, Label, Finish, Returns,
                Proceeds, SetAside, stageVars, Verifying
  <2>2. op # "add_json" /\ pc # "staging"
    BY <2>1 DEF MergeInv, Progress, Verifying
  <2> QED BY <2>1, <2>2, MergeUntouched
<1>4. CASE FreeHandle
  <2>1. /\ pc # "staging" /\ pc' # "staging" /\ op' # "add_json"
        /\ UNCHANGED <<skipped, mismatched>>
    BY <1>4 DEF FreeHandle, stageVars
  <2> QED BY <2>1, MergeUntouched
<1> QED BY <1>1, <1>2, <1>3, <1>4 DEF Next

LEMMA MergeInit == ASSUME Init PROVE MergeInv
  BY DEF Init, KeySetInit, MergeInv, Progress, MergeAllOrNothing

\* tamga_key_set_add_json is atomic, for every document and whichever of its
\* allocations fails: the set and the counters are as they were, or the set
\* has every usable row of the document, in its order, and the counters
\* account for every row.
THEOREM MergeIsAtomic == Spec => []MergeAllOrNothing
<1>1. Init => MergeInv
  BY MergeInit
<1>2. IInv /\ MergeInv /\ [Next]_vars => MergeInv'
  BY MergeNext, MergeStutter
<1>3. MergeInv => MergeAllOrNothing
  BY DEF MergeInv
<1> QED BY <1>1, <1>2, <1>3, Invariance, PTL DEF Spec
=============================================================================
