----------------------------- MODULE ParserProps ------------------------------
(***************************************************************************)
(* What the walk through a text promises, whatever the text.               *)
(***************************************************************************)
EXTENDS Parser

\* Reading ends on every text: no round of the loop, no call of it for a nested
\* value and no return gives back more text to walk than it uses up
\* (__lua_json_elm_parse).
TextLeft == Len(frames) + 2 * SumFunction([i \in DOMAIN frames |-> Len(frames[i].rest)])
ReadingUsesUpText ==
  [][frames # << >> /\ frames' # << >> => TextLeft' < TextLeft]_parserVars

\* The parser calls itself no deeper than the tokenizer goes, although it asks
\* the tokenizer again for each nested value, which begins to count anew
\* (MG_JSON_MAX_DEPTH).
NestingIsBounded == Len(frames) <= MaxNesting

\* No item is left out: the loop ends at the bracket that closes the element,
\* for no other reason - or the whole text has been refused, and the element is
\* empty (mg_json_next, which answers 0 at the end and for every error).
WalkedToTheEnd ==
  frames # << >> /\ ~MoreItems =>
    \/ Innermost.rest = <<IF Innermost.doc.kind = "array" THEN "]" ELSE "}">>
    \/ Len(frames) = 1 /\ Innermost.rest = << >> /\ Innermost.doc = EmptyOf(Innermost.doc.kind)
===============================================================================
