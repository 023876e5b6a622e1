---------------------------- MODULE RenderingProps ----------------------------
(***************************************************************************)
(* What a rendering promises, whichever way it takes.                      *)
(***************************************************************************)
EXTENDS Rendering

\* Where a rendering ends the counters are those of the text it returns, in one
\* try or in two: nothing of a try that is given up is counted
\* (lua_json_elm_stringify goes on with the counters of the first try).
CountsPrintedOnce ==
  run.pc = "done" =>
    /\ base = ToBase(TextLen(run.out, run.mode), run.mode,
                     SumFunction([i \in DOMAIN run.out |-> Keys(run.out[i])]),
                     SumFunction([i \in DOMAIN run.out |-> Quotes(run.out[i])]),
                     SumFunction([i \in DOMAIN run.out |-> Refs(run.out[i])]))
    /\ \A m \in Modes : FromBase(base, m) = TextLen(run.out, m)

\* A rendering of the whole element prints the whole element: no text is cut off
\* where the stack would be full, however wrong the length was (the routes of
\* lua_json_elm_stringify and the fuse in the two renderers).
WholeTextIsComplete ==
  run.pc = "done" /\ run.asked = <<1, Len(items)>> => run.out = items

\* The element cannot tell its length beforehand and was not long when last
\* rendered, but in the mode asked for it takes itself to be.
InTwoTries ==
  /\ ~KnowsItsLength /\ ~IsLarge /\ Reaches(FromBase(base, run.mode))
  /\ run.asked[1] <= run.asked[2]

\* A part of an element is printed as that part or, if it takes a second try, as
\* the whole element, where lua_json_array.h:34 says "print(a:tojson(0)) --> [1]":
\* the first try has cleared the range (lua_json_array.c:360,
\* lua_json_object.c:630).  Never is it less than the part, or something between.
PartOrWhole ==
  [][run.pc = "render" /\ run'.pc = "done" =>
       run'.out = IF InTwoTries THEN items ELSE SubSeq(items, run.asked[1], run.asked[2])]_vars
===============================================================================
