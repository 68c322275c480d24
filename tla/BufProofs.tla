----------------------------- MODULE BufProofs -----------------------------
(* The properties of the buffer for every size, byte set and set of pieces.  *)
EXTENDS Buf, TLAPS

\* A buffer that has not failed holds all it was asked to hold.
Faithful == ~failed => data = asked

\* The inductive invariant: the properties of Buf, and what a detached result
\* has to be made from.
BufInv ==
  /\ TypeOK /\ NoOverrun /\ NothingTruncated /\ StringHonest /\ Erased /\ Faithful

-----------------------------------------------------------------------------
\* A capacity tamga_buf_reserve arrives at has room for what was asked.
LEMMA NewCapRoom ==
  ASSUME TypeOK, NEW extra \in Nat, NEW c \in NewCaps(extra)
  PROVE  c \in 0..SizeMax /\ c >= Len(data) + extra
BY BufAssumption DEF NewCaps, Doublings, TypeOK

\* Growing the buffer leaves nothing behind in the old block.
LEMMA MovedErases ==
  ASSUME NoOverrun, Erased, TypeOK, NEW c, Moved(c)
  PROVE  ~spilled' /\ cap' = c
BY DEF NoOverrun, Erased, Moved, SpillsOn, TypeOK

\* What is written stays inside the new capacity.
LEMMA WroteInside ==
  ASSUME TypeOK, NoOverrun, NEW c \in Nat, NEW n \in Nat, n <= c, Wrote(c, n)
  PROVE  written' \in Nat /\ written' <= c
BY DEF TypeOK, NoOverrun, Wrote, Largest

\* A string without a NUL inside is erased to its end by tamga_string_free.
LEMMA StrLenWhole ==
  ASSUME NEW o, o.bytes \in Seq(Octets), ~HasNul(o.bytes)
  PROVE  StrLen(o) = Len(o.bytes)
<1> DEFINE Fits(n) == /\ \A i \in 1..n : o.bytes[i] # 0
                      /\ n < Len(o.bytes) => o.bytes[n + 1] = 0
<1>1. Len(o.bytes) \in 0..Len(o.bytes) /\ Fits(Len(o.bytes))
  BY DEF HasNul
<1>2. \A n \in 0..Len(o.bytes) : Fits(n) => n = Len(o.bytes)
  BY DEF HasNul
<1> QED
  BY <1>1, <1>2 DEF StrLen

-----------------------------------------------------------------------------
LEMMA EmptySeqs == <<>> \in Seq(Octets) /\ <<>> \in Seq(Octets \cup {Lost})
OBVIOUS

LEMMA NothingType ==
  Nothing \in [given : BOOLEAN, kind : {"none", "string", "terminated", "bytes"},
               bytes : Seq(Octets), wanted : Seq(Octets \cup {Lost}), room : Nat, written : Nat]
BY EmptySeqs DEF Nothing

LEMMA InitInv == BufInit => BufInv
<1> SUFFICES ASSUME BufInit PROVE BufInv
  OBVIOUS
<1>0. data \in Seq(Octets) /\ asked \in Seq(Octets \cup {Lost})
  BY EmptySeqs DEF BufInit
<1>a. cap \in 0..SizeMax /\ written \in Nat
  BY BufAssumption DEF BufInit
<1>b. failed \in BOOLEAN /\ spilled \in BOOLEAN
  BY DEF BufInit
<1>1. TypeOK
  BY <1>0, <1>a, <1>b, NothingType DEF BufInit, TypeOK
<1>2. NoOverrun /\ NothingTruncated /\ StringHonest /\ Erased /\ Faithful
  BY DEF BufInit, NoOverrun, NothingTruncated, StringHonest, Erased, Faithful, Nothing
<1> QED
  BY <1>1, <1>2 DEF BufInv

\* The parts about `out` hold on while nothing is detached or released.
LEMMA OutKept ==
  ASSUME BufInv, UNCHANGED out
  PROVE  /\ NothingTruncated' /\ StringHonest'
         /\ out'.given => /\ out'.written <= out'.room /\ out'.room > 0
                          /\ out'.kind # "bytes" => out'.room > Len(out'.bytes)
BY DEF BufInv, NothingTruncated, StringHonest, NoOverrun, HasNul

\* Growing and writing, as every append and tamga_buf_reserve does it.
LEMMA Grows ==
  ASSUME BufInv, NEW extra \in Nat, NEW n \in Nat, n <= Len(data) + extra,
         NEW c \in NewCaps(extra), Moved(c), Wrote(c, n)
  PROVE  /\ cap' \in 0..SizeMax /\ cap' >= Len(data) + extra /\ spilled' = FALSE
         /\ written' \in Nat /\ written' <= cap'
<1>1. c \in 0..SizeMax /\ c >= Len(data) + extra
  BY NewCapRoom DEF BufInv
<1>2. cap' = c /\ ~spilled'
  BY MovedErases DEF BufInv
<1>3. spilled' \in BOOLEAN
  BY DEF Moved, SpillsOn, BufInv, TypeOK
<1>4. n <= c /\ c \in Nat
  BY <1>1, BufAssumption DEF BufInv, TypeOK
<1>5. written' \in Nat /\ written' <= c
  BY <1>4, WroteInside DEF BufInv
<1> QED
  BY <1>1, <1>2, <1>3, <1>5

\* Adding s to a buffer that has not failed; what append and append_fmt share.
LEMMA Added ==
  ASSUME BufInv, ~failed, NEW s \in Seq(Octets), NEW extra \in Nat, extra >= Len(s),
         NEW n \in Nat, n <= Len(data) + extra,
         NEW c \in NewCaps(extra), Moved(c), Wrote(c, n),
         data' = data \o s, UNCHANGED <<failed, out>>, asked' = asked \o s
  PROVE  BufInv'
<1>1. /\ cap' \in 0..SizeMax /\ cap' >= Len(data) + extra /\ spilled' = FALSE
      /\ written' \in Nat /\ written' <= cap'
  BY Grows
<1>2. data' \in Seq(Octets) /\ Len(data') = Len(data) + Len(s) /\ data' = asked'
  BY DEF BufInv, TypeOK, Faithful
<1>3. asked' \in Seq(Octets \cup {Lost})
  BY DEF BufInv, TypeOK
<1>4. TypeOK'
  BY <1>1, <1>2, <1>3 DEF BufInv, TypeOK
<1>5. Len(data') <= cap'
  BY <1>1, <1>2, BufAssumption DEF BufInv, TypeOK
<1>6. NoOverrun'
  BY <1>1, <1>5, OutKept DEF NoOverrun
<1> QED
  BY <1>1, <1>2, <1>4, <1>6, OutKept DEF BufInv, Erased, Faithful

\* A call that changes nothing but to fail, or that finds the buffer failed.
LEMMA Failing ==
  ASSUME BufInv, failed', failed' \in BOOLEAN, UNCHANGED <<data, cap, out, written, spilled>>,
         asked' \in Seq(Octets \cup {Lost})
  PROVE  BufInv'
<1>1. TypeOK'
  BY DEF BufInv, TypeOK
<1>2. NoOverrun' /\ Erased' /\ Faithful'
  BY OutKept DEF BufInv, NoOverrun, Erased, Faithful
<1> QED
  BY <1>1, <1>2, OutKept DEF BufInv

LEMMA AskedMore ==
  ASSUME TypeOK
  PROVE  /\ Append(asked, Lost) \in Seq(Octets \cup {Lost})
         /\ \A s \in Seq(Octets) : asked \o s \in Seq(Octets \cup {Lost})
BY DEF TypeOK

\* After a reset the buffer is the initial one again; `out` is what it is.
LEMMA ResetInv ==
  ASSUME BufInv, Reset, spilled' = FALSE,
         out' \in [given : BOOLEAN, kind : {"none", "string", "terminated", "bytes"},
                   bytes : Seq(Octets), wanted : Seq(Octets \cup {Lost}), room : Nat, written : Nat],
         out'.given => /\ out'.written <= out'.room /\ out'.room > 0
                       /\ out'.kind # "bytes" => out'.room > Len(out'.bytes),
         NothingTruncated', StringHonest'
  PROVE  BufInv'
<1>0. data' \in Seq(Octets) /\ asked' \in Seq(Octets \cup {Lost})
  BY EmptySeqs DEF Reset
<1>a. cap' \in 0..SizeMax /\ written' \in Nat
  BY BufAssumption DEF Reset
<1>b. failed' \in BOOLEAN /\ spilled' \in BOOLEAN
  BY DEF Reset
<1>1. TypeOK'
  BY <1>0, <1>a, <1>b DEF TypeOK
<1>2. NoOverrun' /\ Erased' /\ Faithful'
  BY DEF Reset, NoOverrun, Erased, Faithful
<1> QED
  BY <1>1, <1>2 DEF BufInv

-----------------------------------------------------------------------------
LEMMA AppendBytesInv ==
  ASSUME BufInv, NEW s \in Pieces, AppendBytes(s)
  PROVE  BufInv'
<1>s. s \in Seq(Octets) /\ Len(s) \in Nat
  BY BufAssumption
<1>a. asked' \in Seq(Octets \cup {Lost})
  BY <1>s, AskedMore DEF AppendBytes, BufInv
<1>1. CASE failed /\ UNCHANGED <<data, cap, failed, written, spilled>>
  BY <1>1, <1>a, Failing DEF AppendBytes, BufInv, TypeOK
<1>2. CASE ~failed /\ s = <<>> /\ UNCHANGED <<data, cap, failed, written, spilled>>
  <2>1. asked' = asked
    BY <1>2 DEF AppendBytes, BufInv, TypeOK
  <2>2. UNCHANGED bufVars
    BY <1>2, <2>1 DEF AppendBytes, bufVars
  <2> QED
    BY <2>2 DEF bufVars, BufInv, TypeOK, NoOverrun, NothingTruncated, StringHonest, HasNul,
                Erased, Faithful
<1>3. CASE /\ ~failed /\ \E c \in NewCaps(Len(s)) : Moved(c) /\ Wrote(c, Len(data) + Len(s))
           /\ data' = data \o s /\ UNCHANGED failed
  <2> PICK c \in NewCaps(Len(s)) : Moved(c) /\ Wrote(c, Len(data) + Len(s))
    BY <1>3
  <2>1. /\ Len(s) >= Len(s) /\ Len(data) + Len(s) \in Nat
        /\ Len(data) + Len(s) <= Len(data) + Len(s)
    BY <1>s DEF BufInv, TypeOK
  <2>2. UNCHANGED <<failed, out>> /\ asked' = asked \o s
    BY <1>3 DEF AppendBytes
  <2> QED
    BY <1>3, <1>s, <2>1, <2>2, Added
<1>4. CASE failed' = TRUE /\ UNCHANGED <<data, cap, written, spilled>>
  BY <1>4, <1>a, Failing DEF AppendBytes
<1> QED
  BY <1>1, <1>2, <1>3, <1>4 DEF AppendBytes

LEMMA AppendFmtInv ==
  ASSUME BufInv, NEW s \in Pieces, AppendFmt(s)
  PROVE  BufInv'
<1>s. s \in Seq(Octets) /\ Len(s) \in Nat /\ Len(s) + 1 \in Nat
  BY BufAssumption
<1>a. asked' \in Seq(Octets \cup {Lost})
  BY <1>s, AskedMore DEF AppendFmt, BufInv
<1>1. CASE failed /\ UNCHANGED <<data, cap, failed, written, spilled>>
  BY <1>1, <1>a, Failing DEF AppendFmt, BufInv, TypeOK
<1>2. CASE /\ ~failed
           /\ \E c \in NewCaps(Len(s) + 1) : Moved(c) /\ Wrote(c, Len(data) + Len(s) + 1)
           /\ data' = data \o s /\ UNCHANGED failed
  <2> PICK c \in NewCaps(Len(s) + 1) : Moved(c) /\ Wrote(c, Len(data) + Len(s) + 1)
    BY <1>2
  <2>1. /\ Len(s) + 1 >= Len(s) /\ Len(data) + Len(s) + 1 \in Nat
        /\ Len(data) + Len(s) + 1 <= Len(data) + (Len(s) + 1)
    BY <1>s DEF BufInv, TypeOK
  <2>2. UNCHANGED <<failed, out>> /\ asked' = asked \o s
    BY <1>2 DEF AppendFmt
  <2> QED
    BY <1>2, <1>s, <2>1, <2>2, Added
<1>3. CASE failed' = TRUE /\ UNCHANGED <<data, cap, written, spilled>>
  BY <1>3, <1>a, Failing DEF AppendFmt
<1> QED
  BY <1>1, <1>2, <1>3 DEF AppendFmt

LEMMA ReserveInv ==
  ASSUME BufInv, NEW extra \in 0..SizeMax, Reserve(extra)
  PROVE  BufInv'
<1>e. extra \in Nat
  BY BufAssumption
<1>1. CASE /\ ~failed /\ \E c \in NewCaps(extra) : Moved(c) /\ Wrote(c, Len(data))
           /\ UNCHANGED <<failed, asked>>
  <2> PICK c \in NewCaps(extra) : Moved(c) /\ Wrote(c, Len(data))
    BY <1>1
  <2>1. Len(data) \in Nat /\ Len(data) <= Len(data) + extra
    BY <1>e DEF BufInv, TypeOK
  <2>2. /\ cap' \in 0..SizeMax /\ cap' >= Len(data) + extra /\ spilled' = FALSE
        /\ written' \in Nat /\ written' <= cap'
    BY <1>e, <2>1, Grows
  <2>3. TypeOK'
    BY <1>1, <2>2 DEF Reserve, BufInv, TypeOK
  <2>4. Len(data') <= cap'
    BY <2>2, <1>e, BufAssumption DEF Reserve, BufInv, TypeOK
  <2>5. NoOverrun' /\ Erased' /\ Faithful'
    BY <1>1, <2>2, <2>4, OutKept DEF Reserve, BufInv, NoOverrun, Erased, Faithful
  <2> QED
    BY <2>3, <2>5, OutKept DEF BufInv, Reserve
<1>2. CASE /\ failed' = TRUE /\ asked' = Append(asked, Lost)
           /\ UNCHANGED <<cap, written, spilled>>
  BY <1>2, AskedMore, Failing DEF Reserve, BufInv
<1> QED
  BY <1>1, <1>2 DEF Reserve

LEMMA RefusedInv ==
  ASSUME BufInv, NEW extra, NEW refuses, DetachRefused(extra, refuses)
  PROVE  BufInv'
<1>1. CASE UNCHANGED <<failed, asked>>
  BY <1>1 DEF DetachRefused, BufInv, TypeOK, NoOverrun, NothingTruncated, StringHonest, HasNul,
              Erased, Faithful
<1>2. CASE failed' = TRUE /\ asked' = Append(asked, Lost)
  BY <1>2, AskedMore, Failing DEF DetachRefused, BufInv
<1> QED
  BY <1>1, <1>2 DEF DetachRefused

\* Handing over is sound for any kind and room that fit the data.
LEMMA GivenInv ==
  ASSUME BufInv, ~failed, Reset, spilled' = FALSE, NEW c \in Nat, NEW n \in Nat,
         NEW kind \in {"string", "terminated", "bytes"}, out' = Given(kind, c, n),
         n <= c, c > 0, kind # "bytes" => c > Len(data), kind = "string" => ~HasNul(data)
  PROVE  BufInv'
<1>1. /\ out' \in [given : BOOLEAN, kind : {"none", "string", "terminated", "bytes"},
                   bytes : Seq(Octets), wanted : Seq(Octets \cup {Lost}), room : Nat, written : Nat]
      /\ out'.given /\ out'.kind = kind /\ out'.bytes = data /\ out'.wanted = asked
      /\ out'.room = c /\ out'.written = n
  BY DEF Given, BufInv, TypeOK
<1>2. NothingTruncated'
  BY <1>1 DEF BufInv, Faithful, NothingTruncated
<1>4. StringHonest'
  BY <1>1 DEF StringHonest, HasNul
<1>3. out'.given => /\ out'.written <= out'.room /\ out'.room > 0
                    /\ out'.kind # "bytes" => out'.room > Len(out'.bytes)
  BY <1>1
<1> QED
  BY <1>1, <1>2, <1>3, <1>4, ResetInv

LEMMA DetachImplInv ==
  ASSUME BufInv, NEW kind \in {"string", "terminated"}, DetachImpl(kind)
  PROVE  BufInv'
<1>1. CASE DetachRefused(1, kind = "string" /\ HasNul(data))
  BY <1>1, RefusedInv
<1>2. CASE /\ ~failed /\ ~(kind = "string" /\ HasNul(data)) /\ Reset
           /\ \E c \in NewCaps(1) :
                /\ out' = Given(kind, c, Len(data) + 1)
                /\ spilled' = IF c = cap THEN spilled ELSE SpillsOn(cap)
  <2> PICK c \in NewCaps(1) : /\ out' = Given(kind, c, Len(data) + 1)
                              /\ spilled' = IF c = cap THEN spilled ELSE SpillsOn(cap)
    BY <1>2
  <2>1. c \in 0..SizeMax /\ c >= Len(data) + 1
    BY NewCapRoom DEF BufInv
  <2>2. spilled' = FALSE
    BY DEF BufInv, TypeOK, NoOverrun, Erased, SpillsOn
  <2>3. c \in Nat /\ Len(data) + 1 \in Nat /\ Len(data) + 1 <= c /\ c > 0 /\ c > Len(data)
    BY <2>1, BufAssumption DEF BufInv, TypeOK
  <2> QED
    BY <1>2, <2>2, <2>3, GivenInv
<1> QED
  BY <1>1, <1>2 DEF DetachImpl

LEMMA DetachBytesInv ==
  ASSUME BufInv, DetachBytes
  PROVE  BufInv'
<1>1. CASE DetachRefused(1, FALSE)
  BY <1>1, RefusedInv
<1>2. CASE UNCHANGED bufVars
  BY <1>2 DEF bufVars, BufInv, TypeOK, NoOverrun, NothingTruncated, StringHonest, HasNul,
              Erased, Faithful
<1>3. CASE /\ ~failed /\ Reset /\ UNCHANGED spilled
           /\ \E c \in IF cap = 0 THEN NewCaps(1) ELSE {cap} :
                out' = Given("bytes", c, Len(data))
  <2> PICK c \in IF cap = 0 THEN NewCaps(1) ELSE {cap} : out' = Given("bytes", c, Len(data))
    BY <1>3
  <2>1. cap = 0 => c \in 0..SizeMax /\ c >= Len(data) + 1
    BY NewCapRoom DEF BufInv
  <2>2. c \in Nat /\ Len(data) \in Nat /\ Len(data) <= c /\ c > 0
    BY <2>1, BufAssumption DEF BufInv, TypeOK, NoOverrun
  <2>3. spilled' = FALSE
    BY <1>3 DEF BufInv, Erased, TypeOK
  <2> QED
    BY <1>3, <2>2, <2>3, GivenInv
<1> QED
  BY <1>1, <1>2, <1>3 DEF DetachBytes

LEMMA FreeInv ==
  ASSUME BufInv, Free
  PROVE  BufInv'
<1>1. spilled' = FALSE
  BY DEF Free, SpillsOn, BufInv, TypeOK, NoOverrun, Erased
<1>2. out' \in [given : BOOLEAN, kind : {"none", "string", "terminated", "bytes"},
                bytes : Seq(Octets), wanted : Seq(Octets \cup {Lost}), room : Nat, written : Nat]
  BY DEF Free, BufInv, TypeOK
<1> QED
  BY <1>1, <1>2, OutKept, ResetInv DEF Free

LEMMA ReleaseErasedInv ==
  ASSUME BufInv, ReleaseErased
  PROVE  BufInv'
<1>1. out.bytes \in Seq(Octets) /\ Len(out.bytes) \in Nat
  BY DEF BufInv, TypeOK
<1>2. out.kind = "string" => StrLen(out) = Len(out.bytes)
  BY <1>1, StrLenWhole DEF ReleaseErased, BufInv, StringHonest
<1>3. spilled' = FALSE
  BY <1>1, <1>2 DEF ReleaseErased, BufInv, Erased, TypeOK
<1>4. TypeOK'
  BY <1>3 DEF ReleaseErased, Nothing, BufInv, TypeOK
<1>5. NoOverrun' /\ NothingTruncated' /\ StringHonest' /\ Erased' /\ Faithful'
  BY <1>3 DEF ReleaseErased, Nothing, BufInv, NoOverrun, NothingTruncated, StringHonest, Erased, Faithful
<1> QED
  BY <1>4, <1>5 DEF BufInv

LEMMA ReleasePlainInv ==
  ASSUME BufInv, ReleasePlain
  PROVE  BufInv'
<1>1. TypeOK'
  BY NothingType DEF ReleasePlain, BufInv, TypeOK
<1>2. NoOverrun' /\ NothingTruncated' /\ StringHonest' /\ Erased' /\ Faithful'
  BY DEF ReleasePlain, Nothing, BufInv, NoOverrun, NothingTruncated, StringHonest, Erased, Faithful
<1> QED
  BY <1>1, <1>2 DEF BufInv

LEMMA NextInv == BufInv /\ [BufNext]_bufVars => BufInv'
<1> SUFFICES ASSUME BufInv, [BufNext]_bufVars PROVE BufInv'
  OBVIOUS
<1>1. ASSUME NEW s \in Pieces, AppendBytes(s) PROVE BufInv'
  BY <1>1, AppendBytesInv
<1>2. ASSUME NEW s \in Pieces, AppendFmt(s) PROVE BufInv'
  BY <1>2, AppendFmtInv
<1>3. ASSUME NEW extra \in 0..SizeMax, Reserve(extra) PROVE BufInv'
  BY <1>3, ReserveInv
<1>4. CASE MarkFailed
  BY <1>4, AskedMore, Failing DEF MarkFailed, BufInv
<1>5. ASSUME NEW kind \in {"string", "terminated"}, DetachImpl(kind) PROVE BufInv'
  BY <1>5, DetachImplInv
<1>6. CASE DetachBytes
  BY <1>6, DetachBytesInv
<1>7. CASE Free
  BY <1>7, FreeInv
<1>8. CASE ReleaseErased
  BY <1>8, ReleaseErasedInv
<1>10. CASE ReleasePlain
  BY <1>10, ReleasePlainInv
<1>9. CASE UNCHANGED bufVars
  BY <1>9 DEF bufVars, BufInv, TypeOK, NoOverrun, NothingTruncated, StringHonest, HasNul,
              Erased, Faithful
<1> QED
  BY <1>1, <1>2, <1>3, <1>4, <1>5, <1>6, <1>7, <1>8, <1>9, <1>10 DEF BufNext, Step

\* The inductive invariant holds in every reachable state.
THEOREM BufInvariant == BufSpec => []BufInv
BY InitInv, NextInv, PTL DEF BufSpec

\* Every field of the buffer and of what is detached keeps its type, and the
\* capacity never exceeds SIZE_MAX.
THEOREM BufTypes == BufSpec => []TypeOK
<1>1. BufInv => TypeOK
  BY DEF BufInv
<1> QED
  BY <1>1, BufInvariant, PTL

\* tamga_buf_append, append_fmt and the detaching calls never write behind the
\* end of a block, for any sizes.
THEOREM BufNoOverrun == BufSpec => []NoOverrun
<1>1. BufInv => NoOverrun
  BY DEF BufInv
<1> QED
  BY <1>1, BufInvariant, PTL

\* A detached result is all that was appended: failure is sticky.
THEOREM BufNothingTruncated == BufSpec => []NothingTruncated
<1>1. BufInv => NothingTruncated
  BY DEF BufInv
<1> QED
  BY <1>1, BufInvariant, PTL

\* tamga_buf_detach_string never gives a string with a NUL inside.
THEOREM BufStringHonest == BufSpec => []StringHonest
<1>1. BufInv => StringHonest
  BY DEF BufInv
<1> QED
  BY <1>1, BufInvariant, PTL

\* Growth, tamga_buf_free, tamga_string_free and tamga_secure_free leave none of
\* the caller's bytes in a block they give back; the strlen that
\* tamga_string_free goes by misses none.
THEOREM BufErased == BufSpec => []Erased
<1>1. BufInv => Erased
  BY DEF BufInv
<1> QED
  BY <1>1, BufInvariant, PTL

\* The memory of the buffer, for every size.
THEOREM BufAlwaysSound == BufSpec => []BufferSound
<1>1. TypeOK /\ NoOverrun /\ Erased => BufferSound
  BY DEF BufferSound
<1> QED BY <1>1, BufTypes, BufNoOverrun, BufErased, PTL

\* What is taken out of the buffer, for every sequence of calls.
THEOREM BufDetachedWhole == BufSpec => []DetachedWhole
<1>1. NothingTruncated /\ StringHonest => DetachedWhole
  BY DEF DetachedWhole
<1> QED BY <1>1, BufNothingTruncated, BufStringHonest, PTL
=============================================================================
