-------------------------------- MODULE Buf --------------------------------
(***************************************************************************)
(* The growable buffer of src/src/util/buf.c, through which every request, *)
(* path, payload and canonical text is put together: appends that fail     *)
(* quietly and for good, growth by doubling with checked arithmetic, and   *)
(* three ways to take the bytes away.  An allocation may fail whenever one *)
(* is made.  NUL is the byte 0.                                            *)
(***************************************************************************)
EXTENDS Integers, Sequences

CONSTANTS
  SizeMax,    \* SIZE_MAX
  MinCap,     \* TAMGA_BUF_MIN_CAP
  Octets,     \* the bytes appended
  Pieces,     \* what one append may add: sequences of Octets
  Lost,       \* stands in `asked` for what could not be appended
  MaxAsked    \* bound: bytes asked for between two resets

ASSUME BufAssumption ==
  /\ SizeMax \in Nat /\ MinCap \in 1..SizeMax /\ MaxAsked \in Nat
  /\ 0 \in Octets /\ Octets \subseteq Nat /\ Pieces \subseteq Seq(Octets)
  /\ Lost \in Nat \ Octets

VARIABLES
  data,      \* the bytes of the buffer; buf->len is their number
  cap,       \* buf->cap; zero exactly when buf->data is NULL
  failed,    \* buf->failed
  out,       \* what was detached and not yet released
  asked,     \* every byte the caller wanted since the last reset
  written,   \* how far into the current allocation anything was written
  spilled    \* a release that erases left bytes of the caller behind

bufVars == <<data, cap, failed, out, asked, written, spilled>>

Nothing == [given |-> FALSE, kind |-> "none", bytes |-> <<>>, wanted |-> <<>>,
            room |-> 0, written |-> 0]

\* tamga_buf_init
BufInit ==
  /\ data = <<>> /\ cap = 0 /\ failed = FALSE
  /\ out = Nothing /\ asked = <<>> /\ written = 0 /\ spilled = FALSE

Largest(a, b) == IF a > b THEN a ELSE b
HasNul(s) == \E i \in 1..Len(s) : s[i] = 0

-----------------------------------------------------------------------------
\* tamga_buf_reserve.  What doubling reaches before tamga_checked_mul refuses:
Doublings == {c \in 1..SizeMax :
                \E k \in 0..SizeMax : c = (IF cap < MinCap THEN MinCap ELSE cap) * 2 ^ k}

\* The capacity afterwards: there is none when a size overflows.
NewCaps(extra) ==
  LET needed == Len(data) + extra
  IN IF needed > SizeMax THEN {}
     ELSE IF needed <= cap THEN {cap}
     ELSE {c \in Doublings : c >= needed /\ \A d \in Doublings : d >= needed => c <= d}

\* It fails when a size overflows, and may fail when it has to allocate.
MayFail(extra) == Len(data) + extra > cap

\* tamga_secure_free of an allocation, `n` bytes of which are erased first.
SpillsOn(n) == spilled \/ written > n

\* The buffer with capacity c: a block it had before is erased whole.
Moved(c) ==
  /\ cap' = c
  /\ spilled' = IF c = cap THEN spilled ELSE SpillsOn(cap)

\* Bytes up to position n are now written; a new block starts with the data.
Wrote(c, n) == written' = IF c = cap THEN Largest(written, n) ELSE n

Reserve(extra) ==
  /\ UNCHANGED <<data, out>>
  /\ \/ /\ ~failed /\ \E c \in NewCaps(extra) : Moved(c) /\ Wrote(c, Len(data))
        /\ UNCHANGED <<failed, asked>>
     \/ /\ failed \/ MayFail(extra)
        /\ failed' = TRUE /\ asked' = Append(asked, Lost)
        /\ UNCHANGED <<cap, written, spilled>>

\* A bug to be caught: an append after one that failed is tried again.
AppendBytesAgain(s) ==
  /\ asked' = asked \o s /\ UNCHANGED out
  /\ \/ s = <<>> /\ UNCHANGED <<data, cap, failed, written, spilled>>
     \/ /\ s # <<>> /\ \E c \in NewCaps(Len(s)) : Moved(c) /\ Wrote(c, Len(data) + Len(s))
        /\ data' = data \o s /\ failed' = FALSE
     \/ /\ s # <<>> /\ MayFail(Len(s)) /\ failed' = TRUE
        /\ UNCHANGED <<data, cap, written, spilled>>

\* tamga_buf_append, and tamga_buf_append_byte and tamga_buf_append_str with it.
AppendBytes(s) ==
  /\ asked' = asked \o s /\ UNCHANGED out
  /\ \/ /\ failed \/ s = <<>>
        /\ UNCHANGED <<data, cap, failed, written, spilled>>
     \/ /\ ~failed /\ s # <<>>
        /\ \E c \in NewCaps(Len(s)) : Moved(c) /\ Wrote(c, Len(data) + Len(s))
        /\ data' = data \o s /\ UNCHANGED failed
     \/ /\ ~failed /\ s # <<>> /\ MayFail(Len(s)) /\ failed' = TRUE
        /\ UNCHANGED <<data, cap, written, spilled>>

\* A bug to be caught: no room is reserved for the NUL that vsnprintf writes.
AppendFmtTight(s) ==
  /\ asked' = asked \o s /\ UNCHANGED out
  /\ \/ failed /\ UNCHANGED <<data, cap, failed, written, spilled>>
     \/ /\ ~failed
        /\ \E c \in NewCaps(Len(s)) : Moved(c) /\ Wrote(c, Len(data) + Len(s) + 1)
        /\ data' = data \o s /\ UNCHANGED failed
     \/ /\ ~failed /\ MayFail(Len(s)) /\ failed' = TRUE
        /\ UNCHANGED <<data, cap, written, spilled>>

\* tamga_buf_append_fmt of a format that gives s.
AppendFmt(s) ==
  /\ asked' = asked \o s /\ UNCHANGED out
  /\ \/ failed /\ UNCHANGED <<data, cap, failed, written, spilled>>
     \/ /\ ~failed
        /\ \E c \in NewCaps(Len(s) + 1) : Moved(c) /\ Wrote(c, Len(data) + Len(s) + 1)
        /\ data' = data \o s /\ UNCHANGED failed
     \/ /\ ~failed /\ MayFail(Len(s) + 1) /\ failed' = TRUE
        /\ UNCHANGED <<data, cap, written, spilled>>

\* A NULL argument, a format that fails, tamga_buf_mark_failed.
MarkFailed ==
  /\ failed' = TRUE /\ asked' = Append(asked, Lost)
  /\ UNCHANGED <<data, cap, out, written, spilled>>

-----------------------------------------------------------------------------
Reset == data' = <<>> /\ cap' = 0 /\ failed' = FALSE /\ asked' = <<>> /\ written' = 0

Given(kind, room, n) ==
  [given |-> TRUE, kind |-> kind, bytes |-> data, wanted |-> asked, room |-> room, written |-> n]

\* The ways tamga_buf_detach_impl gives NULL: the buffer is as it was, or the
\* byte for the NUL could not be had.
DetachRefused(extra, refuses) ==
  /\ UNCHANGED <<data, cap, out, written, spilled>>
  /\ \/ (failed \/ refuses) /\ UNCHANGED <<failed, asked>>
     \/ /\ ~failed /\ ~refuses /\ MayFail(extra)
        /\ failed' = TRUE /\ asked' = Append(asked, Lost)

\* tamga_buf_detach_impl, of tamga_buf_detach_string ("string") and
\* tamga_buf_detach_terminated ("terminated")
DetachImpl(kind) ==
  \/ DetachRefused(1, kind = "string" /\ HasNul(data))
  \/ /\ ~failed /\ ~(kind = "string" /\ HasNul(data)) /\ Reset
     /\ \E c \in NewCaps(1) : /\ out' = Given(kind, c, Len(data) + 1)
                              /\ spilled' = IF c = cap THEN spilled ELSE SpillsOn(cap)

\* tamga_buf_detach: only a buffer that never had a block needs one.
DetachBytes ==
  \/ cap = 0 /\ DetachRefused(1, FALSE)
  \/ cap > 0 /\ failed /\ UNCHANGED bufVars
  \/ /\ ~failed /\ Reset /\ UNCHANGED spilled
     /\ \E c \in IF cap = 0 THEN NewCaps(1) ELSE {cap} : out' = Given("bytes", c, Len(data))

\* tamga_buf_free
Free == Reset /\ spilled' = SpillsOn(cap) /\ UNCHANGED out

\* The length up to the first NUL.
StrLen(o) ==
  CHOOSE n \in 0..Len(o.bytes) : /\ \A i \in 1..n : o.bytes[i] # 0
                                 /\ n < Len(o.bytes) => o.bytes[n + 1] = 0

\* Whoever took the bytes erases them: tamga_string_free as far as the string
\* goes, tamga_secure_free the length that came with them.
ReleaseErased ==
  /\ out.given /\ out' = Nothing
  /\ spilled' = \/ spilled
                \/ (IF out.kind = "string" THEN StrLen(out) ELSE Len(out.bytes)) < Len(out.bytes)
  /\ UNCHANGED <<data, cap, failed, asked, written>>

\* Or gives them back with plain tamga_free, which erases nothing and promises
\* nothing: raw bytes that are no key material, and the components of a
\* fingerprint.
ReleasePlain ==
  /\ out.given /\ out.kind \in {"bytes", "string"} /\ out' = Nothing
  /\ UNCHANGED <<data, cap, failed, asked, written, spilled>>

Step ==
  \/ \E s \in Pieces : Len(asked) + Len(s) <= MaxAsked /\ AppendBytes(s)
  \/ \E s \in Pieces : Len(asked) + Len(s) <= MaxAsked /\ ~HasNul(s) /\ AppendFmt(s)
  \/ \E extra \in 0..SizeMax : Len(asked) < MaxAsked /\ Reserve(extra)
  \/ Len(asked) < MaxAsked /\ MarkFailed

BufNext ==
  \/ Step
  \/ ~out.given /\ Len(asked) <= MaxAsked /\ \E kind \in {"string", "terminated"} : DetachImpl(kind)
  \/ ~out.given /\ Len(asked) <= MaxAsked /\ DetachBytes
  \/ Free
  \/ ReleaseErased
  \/ ReleasePlain

BufSpec == BufInit /\ [][BufNext]_bufVars

-----------------------------------------------------------------------------
TypeOK ==
  /\ data \in Seq(Octets) /\ cap \in 0..SizeMax /\ failed \in BOOLEAN
  /\ asked \in Seq(Octets \cup {Lost}) /\ written \in Nat /\ spilled \in BOOLEAN
  /\ out \in [given : BOOLEAN, kind : {"none", "string", "terminated", "bytes"},
              bytes : Seq(Octets), wanted : Seq(Octets \cup {Lost}), room : Nat, written : Nat]

\* Nothing is ever written behind the end of an allocation, the NULs that
\* vsnprintf and the detaching calls add included; what is handed over as a
\* string has its NUL inside the block it is in.
NoOverrun ==
  /\ Len(data) <= cap /\ written <= cap
  /\ out.given => /\ out.written <= out.room /\ out.room > 0
                  /\ out.kind # "bytes" => out.room > Len(out.bytes)

\* What comes out is everything that was ever asked to go in: an append that
\* failed, however early, makes every later detach give NULL.
NothingTruncated == out.given => out.bytes = out.wanted

\* strlen of a detached string is its length.
StringHonest == out.given /\ out.kind = "string" => ~HasNul(out.bytes)

\* What erases, erases all of it: the old block when the buffer grows, the
\* block of tamga_buf_free, and a detached string or body released by
\* tamga_string_free, which takes strlen for its length, or tamga_secure_free.
\* A caller that uses plain tamga_free has not asked for it.
Erased == ~spilled

\* The memory of a buffer: no write past a block, no block that overflows a
\* size, and no erasing release that misses bytes of the caller.
BufferSound == TypeOK /\ NoOverrun /\ Erased

\* What is taken out of a buffer is all that was put in, and a string is as
\* long as strlen says.
DetachedWhole == NothingTruncated /\ StringHonest
=============================================================================
