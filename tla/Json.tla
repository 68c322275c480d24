-------------------------------- MODULE Json --------------------------------
(***************************************************************************)
(* The JSON parser, tree and writers: src/src/util/json_parse.c, json.c    *)
(* and json_write.c.                                                       *)
(*                                                                         *)
(* The text is a sequence of tokens; what a string or a number token may   *)
(* be made of is the subject of module Lexical.  The recursion of the      *)
(* parser is a stack of the containers being read, that of the writer a    *)
(* list of what is still to be written.  Any allocation may fail.  A text  *)
(* is read, written back in one of the two forms, and the result read      *)
(* again.                                                                  *)
(***************************************************************************)
EXTENDS Integers, Sequences, FiniteSets

CONSTANTS
  MaxDepth,   \* TAMGA_JSON_MAX_DEPTH
  MaxText,    \* bound: tokens of a text
  MaxOdd,     \* bound: white space and strings with a NUL among them
  Strings,    \* the string tokens without a NUL, in unsigned byte order
  Scalars     \* literals and numbers

ASSUME JsonAssumption ==
  MaxDepth \in Nat \ {0} /\ MaxText \in Nat /\ Strings \in Seq(STRING)

StringSet == {Strings[i] : i \in 1..Len(Strings)}

\* No token has the name of the lack of one.
ASSUME TokensAssumption == {"none", "end"} \cap (StringSet \cup Scalars) = {}

\* "nul" is a string token with a NUL in it, "bad" a malformed string, number
\* or literal, or a byte that starts no token.
Leaves == StringSet \cup Scalars \cup {"nul"}
Odd == {"ws", "nul"}
Tokens == Leaves \cup {"{", "}", "[", "]", "comma", ":", "ws", "bad"}

VARIABLES
  text, ended,   \* what is known of the text, and whether that is all of it
  pos,           \* parser.pos: the next token is text[pos]
  mode,          \* where the parser or the writer is
  stack,         \* the containers open, outermost first
  item,          \* the value just read, to be given to its container
  error,         \* parser.error
  heap,          \* tree nodes, member keys and key strings allocated
  exhausted,     \* some allocation failed
  result,        \* what tamga_json_parse returned
  pass,          \* 1: the first text; 2: what was written of it
  original,      \* the tree the writer was given
  canonical,     \* which writer
  todo, out,     \* the writer: what is left to write, what is written
  broken         \* the failed flag of the writer's buffer

vars == <<text, ended, pos, mode, stack, item, error, heap, exhausted, result,
          pass, original, canonical, todo, out, broken>>
input == <<text, ended>>
writer == <<pass, original, canonical, todo, out, broken>>

\* A value is its kind, its content and how many blocks it is made of.
Leaf(t) == <<"leaf", t, 1>>
None == <<"none", "none", 0>>
Blocks(v) == v[3]
Frame(kind) == [kind |-> kind, body |-> <<>>, blocks |-> 1, key |-> "none"]
ValueOf(f) == <<f.kind, f.body, f.blocks>>

Top == stack[Len(stack)]
SetTop(f) == [stack EXCEPT ![Len(stack)] = f]
Pop == SubSeq(stack, 1, Len(stack) - 1)

Init ==
  /\ text = <<>> /\ ended = FALSE /\ pos = 1 /\ mode = "value" /\ stack = <<>>
  /\ item = None /\ error = "none" /\ heap = 0 /\ exhausted = FALSE
  /\ result = None /\ pass = 1 /\ original = None /\ canonical = FALSE
  /\ todo = <<>> /\ out = <<>> /\ broken = FALSE

-----------------------------------------------------------------------------
(* The parser.                                                               *)

Parsing == mode \in {"value", "first", "key", "colon", "after", "top"}
Seen == pos <= Len(text) \/ ended
Peek == IF pos <= Len(text) THEN text[pos] ELSE "end"

\* The caller's text, revealed as the parser looks at it.
Reveal ==
  /\ Parsing /\ ~Seen
  /\ \/ /\ Len(text) < MaxText /\ UNCHANGED ended
        /\ \E t \in Tokens :
             /\ t \in Odd => Cardinality({i \in DOMAIN text : text[i] \in Odd}) < MaxOdd
             /\ text' = Append(text, t)
     \/ ended' = TRUE /\ UNCHANGED text
  /\ UNCHANGED <<pos, mode, stack, item, error, heap, exhausted, result, writer>>

At(m) == mode = m /\ Seen /\ Peek # "ws"
Consume == pos' = pos + 1
Stay == UNCHANGED <<input, result, writer>>

\* tamga_json_fail: the first message is kept.
Fail(message) ==
  /\ error' = IF error = "none" THEN message ELSE error
  /\ mode' = "fail"

OutOfMemory(message) == Fail(message) /\ exhausted' = TRUE

SkipWs ==
  /\ Parsing /\ Seen /\ Peek = "ws" /\ Consume
  /\ UNCHANGED <<mode, stack, item, error, heap, exhausted>> /\ Stay

TooDeep == Len(stack) >= MaxDepth

ParseValue ==
  /\ At("value")
  /\ \/ TooDeep /\ Fail("depth") /\ UNCHANGED <<pos, stack, item, heap, exhausted>>
     \/ /\ ~TooDeep /\ Peek \in {"[", "{"}
        /\ \/ /\ stack' = Append(stack, Frame(IF Peek = "[" THEN "array" ELSE "object"))
              /\ heap' = heap + 1 /\ Consume /\ mode' = "first"
              /\ UNCHANGED <<item, error, exhausted>>
           \/ OutOfMemory("out of memory") /\ UNCHANGED <<pos, stack, item, heap>>
     \/ /\ ~TooDeep /\ Peek \in Leaves
        /\ Consume /\ UNCHANGED stack
        /\ \/ /\ item' = Leaf(Peek) /\ heap' = heap + 1 /\ mode' = "item"
              /\ UNCHANGED <<error, exhausted>>
           \/ OutOfMemory("out of memory") /\ UNCHANGED <<item, heap>>
     \/ /\ ~TooDeep /\ Peek \notin Leaves \cup {"[", "{"}
        /\ Fail("token") /\ UNCHANGED <<pos, stack, item, heap, exhausted>>
  /\ Stay

Closer == IF Top.kind = "array" THEN "]" ELSE "}"
Element == IF Top.kind = "array" THEN "value" ELSE "key"

Close ==
  /\ Consume /\ item' = ValueOf(Top) /\ stack' = Pop /\ mode' = "item"
  /\ UNCHANGED <<error, heap, exhausted>>

\* After the opening bracket: an empty container, or its first element.
FirstElement ==
  /\ At("first")
  /\ \/ Peek = Closer /\ Close
     \/ /\ Peek # Closer /\ mode' = Element
        /\ UNCHANGED <<pos, stack, item, error, heap, exhausted>>
  /\ Stay

\* tamga_json_parse_string_into and tamga_buf_detach_string.  A string that
\* does not fit in memory fails without a message; a key that cannot be
\* detached, for want of memory or for its NUL, with one of its own.
ParseKey ==
  /\ At("key")
  /\ \/ /\ Peek \in StringSet
        /\ stack' = SetTop([Top EXCEPT !.key = Peek]) /\ heap' = heap + 1
        /\ Consume /\ mode' = "colon" /\ UNCHANGED <<item, error, exhausted>>
     \/ /\ Peek \in StringSet \cup {"nul"}
        /\ mode' = "fail" /\ exhausted' = TRUE
        /\ Consume /\ UNCHANGED <<stack, item, error, heap>>
     \/ /\ Peek \in StringSet /\ OutOfMemory("key")
        /\ Consume /\ UNCHANGED <<stack, item, heap>>
     \/ /\ Peek = "nul" /\ Fail("key")
        /\ Consume /\ UNCHANGED <<stack, item, heap, exhausted>>
     \/ /\ Peek \notin StringSet \cup {"nul"} /\ Fail("string")
        /\ UNCHANGED <<pos, stack, item, heap, exhausted>>
  /\ Stay

ParseColon ==
  /\ At("colon")
  /\ \/ Peek = ":" /\ Consume /\ mode' = "value" /\ UNCHANGED error
     \/ Peek # ":" /\ Fail("colon") /\ UNCHANGED pos
  /\ UNCHANGED <<stack, item, heap, exhausted>> /\ Stay

\* tamga_json_array_append: the item is the array's, or freed.
ArrayAppend ==
  /\ mode = "item" /\ stack # <<>> /\ Top.kind = "array" /\ item' = None
  /\ \/ /\ stack' = SetTop([Top EXCEPT !.body = Append(@, item),
                                       !.blocks = @ + Blocks(item)])
        /\ mode' = "after" /\ UNCHANGED <<error, heap, exhausted>>
     \/ /\ OutOfMemory("out of memory") /\ heap' = heap - Blocks(item)
        /\ UNCHANGED stack
  /\ UNCHANGED pos /\ Stay

Holds(f) == {i \in 1..Len(f.body) : f.body[i][1] = f.key}

\* A bug to be caught: the value a repeated key had is not released.
ReplaceForgets(i) ==
  /\ stack' = SetTop([Top EXCEPT !.body[i][2] = item, !.key = "none",
                        !.blocks = @ + Blocks(item) - Blocks(Top.body[i][2])])
  /\ heap' = heap - 1

\* The value of a repeated key takes the place of the one before it.
Replace(i) ==
  /\ stack' = SetTop([Top EXCEPT !.body[i][2] = item, !.key = "none",
                        !.blocks = @ + Blocks(item) - Blocks(Top.body[i][2])])
  /\ heap' = heap - 1 - Blocks(Top.body[i][2])

\* tamga_json_object_set, with the key string freed after it.
ObjectSet ==
  /\ mode = "item" /\ stack # <<>> /\ Top.kind = "object" /\ item' = None
  /\ \/ \E i \in Holds(Top) :
          Replace(i) /\ mode' = "after" /\ UNCHANGED <<error, exhausted>>
     \/ /\ Holds(Top) = {}
        /\ stack' = SetTop([Top EXCEPT !.body = Append(@, <<Top.key, item>>),
                              !.blocks = @ + 1 + Blocks(item), !.key = "none"])
        /\ mode' = "after" /\ UNCHANGED <<error, heap, exhausted>>
     \/ /\ Holds(Top) = {} /\ OutOfMemory("out of memory")
        /\ heap' = heap - Blocks(item) /\ UNCHANGED stack
  /\ UNCHANGED pos /\ Stay

\* A bug to be caught: a comma may be followed by the closing bracket.
AfterElementLenient ==
  /\ At("after")
  /\ \/ Peek = "comma" /\ Consume /\ mode' = "first"
        /\ UNCHANGED <<stack, item, error, heap, exhausted>>
     \/ Peek = Closer /\ Close
     \/ /\ Peek \notin {"comma", Closer} /\ Fail("comma")
        /\ UNCHANGED <<pos, stack, item, heap, exhausted>>
  /\ Stay

AfterElement ==
  /\ At("after")
  /\ \/ Peek = "comma" /\ Consume /\ mode' = Element
        /\ UNCHANGED <<stack, item, error, heap, exhausted>>
     \/ Peek = Closer /\ Close
     \/ /\ Peek \notin {"comma", Closer} /\ Fail("comma")
        /\ UNCHANGED <<pos, stack, item, heap, exhausted>>
  /\ Stay

\* A failed element: its container and the key string are freed, and the
\* parse of the container fails in turn, for want of memory if nothing else
\* was said.
Unwind ==
  /\ mode = "fail" /\ stack # <<>>
  /\ error' = IF error = "none" THEN "out of memory" ELSE error
  /\ heap' = heap - Top.blocks - (IF Top.key # "none" THEN 1 ELSE 0)
  /\ stack' = Pop
  /\ UNCHANGED <<pos, mode, item, exhausted>> /\ Stay

ParseFailed ==
  /\ mode = "fail" /\ stack = <<>> /\ mode' = "parsed"
  /\ UNCHANGED <<pos, stack, item, error, heap, exhausted>> /\ Stay

TopLevel ==
  /\ mode = "item" /\ stack = <<>> /\ mode' = "top"
  /\ UNCHANGED <<pos, stack, item, error, heap, exhausted>> /\ Stay

\* tamga_json_parse, once it has a value.
TrailingCheck ==
  /\ At("top") /\ mode' = "parsed" /\ item' = None
  /\ \/ Peek = "end" /\ result' = item /\ UNCHANGED <<error, heap>>
     \/ /\ Peek # "end" /\ error' = "trailing" /\ heap' = heap - Blocks(item)
        /\ UNCHANGED result
  /\ UNCHANGED <<pos, stack, exhausted, input, writer>>

-----------------------------------------------------------------------------
(* Sorting the keys of an object: tamga_json_sort_keys, a bottom-up merge    *)
(* sort.                                                                     *)

Rank(k) == CHOOSE i \in 1..Len(Strings) : Strings[i] = k
AtMost(m, n) == Rank(m[1]) <= Rank(n[1])

\* The inner loop: which of two runs the next member comes from, when l and r
\* members of them have been taken.
TakeLeft(left, right, l, r) ==
  l < Len(left) /\ (r < Len(right) => AtMost(left[l + 1], right[r + 1]))

Merge(left, right) ==
  LET total == Len(left) + Len(right)
      lefts[at \in 0..total] ==  \* how many of the left run are among the first
        IF at = 0 THEN 0
        ELSE IF TakeLeft(left, right, lefts[at - 1], at - 1 - lefts[at - 1])
             THEN lefts[at - 1] + 1 ELSE lefts[at - 1]
  IN [at \in 1..total |-> IF lefts[at] > lefts[at - 1] THEN left[lefts[at]]
                          ELSE right[at - lefts[at]]]

\* One sweep over pairs of runs of a given width; the last may be short.
MergePass(s, width) ==
  LET Clamp(n) == IF n > Len(s) THEN Len(s) ELSE n
      Pair(start) == Merge(SubSeq(s, start + 1, Clamp(start + width)),
                           SubSeq(s, Clamp(start + width) + 1, Clamp(start + 2 * width)))
      Start(at) == 2 * width * ((at - 1) \div (2 * width))
  IN [at \in 1..Len(s) |-> Pair(Start(at))[at - Start(at)]]

\* The outer loop, once for each power of two below the count.
SortKeys(members) ==
  LET count == Len(members)
      swept[i \in 0..count] ==
        IF i = 0 THEN [order |-> members, width |-> 1]
        ELSE IF swept[i - 1].width >= count THEN swept[i - 1]
        ELSE [order |-> MergePass(swept[i - 1].order, swept[i - 1].width),
              width |-> 2 * swept[i - 1].width]
  IN swept[count].order

-----------------------------------------------------------------------------
(* The writers.                                                              *)

Token(t) == <<"token", t, 0>>

\* items with a comma between them.
Separated(groups) ==
  LET from[i \in 1..Len(groups) + 1] ==
        IF i > Len(groups) THEN <<>>
        ELSE (IF i > 1 THEN <<Token("comma")>> ELSE <<>>) \o groups[i] \o from[i + 1]
  IN from[1]

StartWrite ==
  /\ mode = "parsed" /\ result # None /\ pass = 1
  /\ canonical' \in BOOLEAN
  /\ original' = result /\ todo' = <<result>> /\ out' = <<>> /\ broken' = FALSE
  /\ mode' = "write"
  /\ UNCHANGED <<input, pos, stack, item, error, heap, exhausted, result, pass>>

\* What a value is written as, its own children left to be written.
Expanded(v) ==
  CASE v[1] = "array" ->
         <<Token("[")>> \o Separated([i \in DOMAIN v[2] |-> <<v[2][i]>>]) \o <<Token("]")>>
    [] v[1] = "object" ->
         LET members == IF canonical THEN SortKeys(v[2]) ELSE v[2]
         IN <<Token("{")>>
              \o Separated([i \in DOMAIN members |->
                              <<Token(members[i][1]), Token(":"), members[i][2]>>])
              \o <<Token("}")>>

\* tamga_json_write_value.  Nothing is appended to a buffer that has failed.
WriteNext ==
  /\ mode = "write" /\ todo # <<>>
  /\ LET v == Head(todo)
     IN \/ /\ v[1] \in {"leaf", "token"} /\ todo' = Tail(todo)
           /\ \/ out' = (IF broken THEN out ELSE Append(out, v[2])) /\ UNCHANGED <<broken, exhausted>>
              \/ broken' = TRUE /\ exhausted' = TRUE /\ UNCHANGED out
        \/ /\ v[1] \in {"array", "object"} /\ todo' = Expanded(v) \o Tail(todo)
           /\ UNCHANGED <<out, broken, exhausted>>
        \/ \* no memory to sort the keys
           /\ v[1] = "object" /\ canonical /\ Len(v[2]) > 1
           /\ todo' = Tail(todo) /\ broken' = TRUE /\ exhausted' = TRUE
           /\ UNCHANGED out
  /\ UNCHANGED <<input, pos, mode, stack, item, error, heap, result, pass,
                 original, canonical>>

\* A bug to be caught: what a failed buffer holds is handed out all the same.
DetachAnyway ==
  /\ mode = "write" /\ todo = <<>> /\ heap' = heap - Blocks(result) /\ result' = None
  /\ text' = out /\ ended' = TRUE /\ pos' = 1 /\ mode' = "value" /\ pass' = 2
  /\ UNCHANGED <<stack, item, error, exhausted, original, canonical, todo, out, broken>>

\* tamga_buf_detach_string: a failed buffer, or one that cannot be terminated,
\* gives nothing.  The tree is freed, and what was written is read again.
Detach ==
  /\ mode = "write" /\ todo = <<>> /\ heap' = heap - Blocks(result) /\ result' = None
  /\ \/ /\ ~broken
        /\ text' = out /\ ended' = TRUE /\ pos' = 1 /\ mode' = "value" /\ pass' = 2
        /\ UNCHANGED exhausted
     \/ /\ mode' = "nothing" /\ exhausted' = TRUE
        /\ UNCHANGED <<input, pos, pass>>
  /\ UNCHANGED <<stack, item, error, original, canonical, todo, out, broken>>

Done == (mode = "parsed" /\ (result = None \/ pass = 2)) \/ mode = "nothing"
Stop == Done /\ UNCHANGED vars

Next ==
  \/ Reveal \/ SkipWs \/ ParseValue \/ FirstElement \/ ParseKey \/ ParseColon
  \/ ArrayAppend \/ ObjectSet \/ AfterElement \/ Unwind \/ ParseFailed
  \/ TopLevel \/ TrailingCheck \/ StartWrite \/ WriteNext \/ Detach \/ Stop

Spec == Init /\ [][Next]_vars

-----------------------------------------------------------------------------
TypeOK ==
  /\ text \in Seq(Tokens) /\ ended \in BOOLEAN /\ pos \in 1..Len(text) + 1
  /\ mode \in {"value", "first", "key", "colon", "item", "after", "top", "fail",
              "parsed", "write", "nothing"}
  /\ Len(stack) <= MaxDepth /\ heap \in Nat
  /\ \A i \in 1..Len(stack) : stack[i].kind \in {"array", "object"}
  /\ {exhausted, canonical, broken} \subseteq BOOLEAN /\ pass \in {1, 2}

Total(counts) ==
  LET sum[i \in 0..Len(counts)] == IF i = 0 THEN 0 ELSE sum[i - 1] + counts[i]
  IN sum[Len(counts)]

FrameBlocks(f) == f.blocks + (IF f.key # "none" THEN 1 ELSE 0)

Owned ==
  Blocks(item) + Blocks(result)
    + Total([i \in 1..Len(stack) |-> FrameBlocks(stack[i])])

\* Every block allocated is reachable from exactly one owner at every step,
\* through repeated keys, setters that fail and unwinding from any depth; so a
\* parse that fails leaves nothing behind.
Accounted == heap = Owned

\* What json_parse.c:35-37 says: every allocation failure reports through
\* TAMGA_JSON_ERROR_OUT_OF_MEMORY, so that no caller takes it for a malformed
\* document.  A key that could not be detached does not (json_parse.c:467).
OomSaid == mode = "parsed" /\ exhausted => error = "out of memory"

\* A parse that ran out of memory gives no tree, and "out of memory" is never
\* said of anything else; but "invalid object key" is said of both, a key with
\* a NUL in it and one that memory could not hold.
OomDistinct ==
  mode = "parsed" =>
    /\ exhausted => result = None /\ error \in {"out of memory", "key"}
    /\ ~exhausted => error # "out of memory"
    /\ (result = None) = (error # "none")

\* Reading, replacing and unwinding lose no block and free none twice, from any
\* depth; and a parse that failed says whether the text or the memory was it,
\* save for an object key that could not be detached.
ParserSound == TypeOK /\ Accounted /\ OomDistinct

-----------------------------------------------------------------------------
(* Why it holds.                                                             *)

\* Where containers are open, and where a value is in hand.
Placed ==
  /\ mode \in {"first", "key", "colon", "after"} => stack # <<>>
  /\ mode \in {"top", "parsed", "write", "nothing"} => stack = <<>>
  /\ mode \in {"key", "colon"} => Top.kind = "object"
  /\ (item # None) <=> mode \in {"item", "top"}
  /\ result # None => mode \in {"parsed", "write"}
  /\ mode = "write" => result # None

\* An object holds a key string from the key to its value.
KeysHeld ==
  /\ \A i \in 1..Len(stack) - 1 : stack[i].key # "none" <=> stack[i].kind = "object"
  /\ mode \in {"first", "key", "after"} => Top.key = "none"
  /\ mode = "colon" => Top.key # "none"
  /\ mode \in {"value", "item"} /\ stack # <<>> =>
       (Top.key # "none" <=> Top.kind = "object")

\* What an error says, from the step that fails to the return; a failure
\* without a message happens inside a container.
Blamed ==
  /\ error # "none" => mode \in {"fail", "parsed"}
  /\ exhausted => mode \in {"fail", "parsed", "nothing"} \/ (mode = "write" /\ broken)
  /\ broken => exhausted /\ mode \in {"write", "nothing"}
  /\ exhausted => error \in {"none", "out of memory", "key"}
  /\ ~exhausted => error # "out of memory"
  /\ mode = "fail" /\ error = "none" => exhausted /\ stack # <<>>

\* A container is counted with its members: one block for itself, the blocks of
\* its elements, and one for each key.
Counts(kind, body) ==
  [i \in DOMAIN body |->
     IF kind = "array" THEN Blocks(body[i]) ELSE 1 + Blocks(body[i][2])]

ParserInv ==
  /\ ParserSound /\ Placed /\ KeysHeld /\ Blamed
  /\ \A i \in 1..Len(stack) :
       stack[i].blocks = 1 + Total(Counts(stack[i].kind, stack[i].body))
=============================================================================
