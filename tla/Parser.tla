-------------------------------- MODULE Parser --------------------------------
(***************************************************************************)
(* JSON:parse (lua_json_elm_parse) over the tokenizer of mongoose          *)
(* (includes/mongoose/json.c), token by token instead of character by      *)
(* character.  The parser asks the tokenizer how far the value at hand     *)
(* reaches, walks its items one by one, and for a nested one calls itself: *)
(* `frames` is the C stack.  A nested element is filled before it is       *)
(* stored in its container.                                                *)
(***************************************************************************)
EXTENDS Documents

CONSTANTS
  MaxNesting, \* MG_JSON_MAX_DEPTH: brackets the tokenizer can have open, 30
  Refused     \* the result of a text with no bracket: a message, and no element

VARIABLES
  frames,  \* activations of __lua_json_elm_parse, innermost last
  read     \* the result

ASSUME ParserAssumption ==
  /\ MaxNesting \in Nat \ {0}
  /\ Scalars \cap {"{", "}", "[", "]", ":", ","} = {} /\ Broken \notin Strings

parserVars == <<frames, read>>

Tokens == {"{", "}", "[", "]", ":", ","} \cup Scalars

-------------------------------------------------------------------------------
(***************************************************************************)
(* mg_json_get(s, "$", _), the loop over a text: what it expects next, and *)
(* the brackets that are open.  It is done behind the value s begins with. *)
(***************************************************************************)
Start == [expecting |-> "value", nesting |-> << >>]
Failed == [expecting |-> "error", nesting |-> << >>]
Fits == {<<"{", "}">>, <<"[", "]">>}

\* Mutant of Open: any number of brackets can be open.
OpenAnyDepth(st, c) ==
  [expecting |-> IF c = "{" THEN "key" ELSE "value", nesting |-> Append(st.nesting, c)]

Open(st, c) ==
  IF Len(st.nesting) >= MaxNesting THEN Failed
  ELSE [expecting |-> IF c = "{" THEN "key" ELSE "value", nesting |-> Append(st.nesting, c)]

\* Mutant of Close: a closing bracket need not fit the one it closes.
CloseAnyBracket(st, c) ==
  IF st.nesting = << >> THEN Failed
  ELSE [expecting |-> IF Len(st.nesting) = 1 THEN "done" ELSE "comma", nesting |-> Front(st.nesting)]

\* MG_EOO
Close(st, c) ==
  IF st.nesting = << >> \/ <<Last(st.nesting), c>> \notin Fits THEN Failed
  ELSE [expecting |-> IF Len(st.nesting) = 1 THEN "done" ELSE "comma", nesting |-> Front(st.nesting)]

\* A comma may be followed by a bracket.
After(st, c) ==
  LET On(next) == [expecting |-> next, nesting |-> st.nesting]
  IN CASE st.expecting = "value" /\ c \in {"{", "["} -> Open(st, c)
       [] st.expecting = "value" /\ c = "]" -> Close(st, c)
       [] st.expecting = "value" /\ c \in Scalars \ {Broken} ->
            On(IF st.nesting = << >> THEN "done" ELSE "comma")
       [] st.expecting = "key" /\ c \in Strings -> On("colon")
       [] st.expecting = "key" /\ c = "}" -> Close(st, c)
       [] st.expecting = "colon" /\ c = ":" -> On("value")
       [] st.expecting = "comma" /\ c = "," ->
            On(IF Last(st.nesting) = "{" THEN "key" ELSE "value")
       [] st.expecting = "comma" /\ c \in {"]", "}"} -> Close(st, c)
       [] OTHER -> Failed

\* The states behind the tokens of s, and how many of these the value takes up
\* that s begins with: 0 for any error.
Scan(s) ==
  LET st[n \in 0..Len(s)] == IF n = 0 THEN Start ELSE After(st[n - 1], s[n])
  IN  st
Reach(s) ==
  LET st == Scan(s)
      ends == {n \in 1..Len(s) : st[n].expecting = "done"}
  IN  IF ends = {} THEN 0 ELSE CHOOSE n \in ends : TRUE
From(s, i) == SubSeq(s, i, Len(s))

\* mg_json_next on what is left of a container: its next item and what is left
\* after it, the comma included.  In an object the scan to the colon is short
\* for a text that Reach has accepted.
HasNext(kind, s) ==
  IF kind = "array" THEN Reach(s) > 0
  ELSE Reach(s) > 0 /\ Reach(From(s, Reach(s) + 2)) > 0

\* Mutant of NextItem: the comma is not passed over.
NextItemAtComma(kind, s, count) ==
  LET start == IF kind = "array" THEN 1 ELSE Reach(s) + 2
      n == Reach(From(s, start))
  IN  [key |-> IF kind = "array" THEN count ELSE s[1],
       val |-> SubSeq(s, start, start + n - 1),
       rest |-> From(s, start + n)]

NextItem(kind, s, count) ==
  LET start == IF kind = "array" THEN 1 ELSE Reach(s) + 2
      n == Reach(From(s, start))
      rest == From(s, start + n)
  IN  [key |-> IF kind = "array" THEN count ELSE s[1],
       val |-> SubSeq(s, start, start + n - 1),
       rest |-> IF rest # << >> /\ rest[1] = "," THEN Tail(rest) ELSE rest]

-------------------------------------------------------------------------------
\* The activation for a text that begins with a bracket.  If the tokenizer
\* refuses the text no item is seen, and the element stays empty.
Activation(s, key) ==
  [doc |-> EmptyOf(IF s[1] = "[" THEN "array" ELSE "object"),
   key |-> key,
   rest |-> IF Reach(s) = 0 THEN << >> ELSE SubSeq(s, 2, Reach(s))]

\* Text that does not begin with a bracket is refused with a message.
Parse(text) ==
  /\ frames = << >> /\ read = Nothing
  /\ IF text # << >> /\ text[1] \in {"[", "{"}
       THEN frames' = <<Activation(text, 0)>> /\ UNCHANGED read
       ELSE read' = Refused /\ UNCHANGED frames

Raise == frames' = << >> /\ read' = Raised
Innermost == Last(frames)
Outer == Front(frames)
Goes(newFrames) == frames' = newFrames /\ UNCHANGED read

\* A value for the container f, whose counter idx is its length.
Store(outer, f, k, v) ==
  \/ Raises(f.doc, k) /\ Raise
  \/ ~Raises(f.doc, k) /\ Goes(Append(outer, [f EXCEPT !.doc = Put(@, k, v)]))

MoreItems == frames # << >> /\ HasNext(Innermost.doc.kind, Innermost.rest)

\* Mutant of ParseItem: the offset is kept while a nested value is filled.
ParseItemAgain ==
  /\ MoreItems
  /\ LET it == NextItem(Innermost.doc.kind, Innermost.rest, Size(Innermost.doc))
         f == [Innermost EXCEPT !.rest = it.rest]
         nested == it.val[1] \in {"[", "{"}
     IN  \/ nested /\ Goes(Append(frames, Activation(it.val, it.key)))
         \/ ~nested /\ Store(Outer, f, it.key, it.val[1])

\* One round of the loop of __lua_json_elm_parse.
ParseItem ==
  /\ MoreItems
  /\ LET it == NextItem(Innermost.doc.kind, Innermost.rest, Size(Innermost.doc))
         f == [Innermost EXCEPT !.rest = it.rest]
         nested == it.val[1] \in {"[", "{"}
     IN  \/ nested /\ Goes(Outer \o <<f, Activation(it.val, it.key)>>)
         \/ ~nested /\ Store(Outer, f, it.key, it.val[1])

\* Mutant of ParseReturn: an empty element is not stored.
ParseReturnNonEmpty ==
  /\ frames # << >> /\ ~MoreItems
  /\ IF Outer = << >> THEN frames' = << >> /\ read' = Innermost.doc
     ELSE IF Size(Innermost.doc) = 0 THEN Goes(Outer)
     ELSE Store(Front(Outer), Last(Outer), Innermost.key, Innermost.doc)

\* The loop has ended: the element goes into its container, or is the result.
ParseReturn ==
  /\ frames # << >> /\ ~MoreItems
  /\ IF Outer = << >> THEN frames' = << >> /\ read' = Innermost.doc
     ELSE Store(Front(Outer), Last(Outer), Innermost.key, Innermost.doc)
===============================================================================
