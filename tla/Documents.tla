------------------------------- MODULE Documents ------------------------------
(***************************************************************************)
(* What an element holds, as a value: the form in which elements go        *)
(* through the conversions of LuaJson, from Lua tables and JSON texts and  *)
(* back.  An array is [kind |-> "array", items |-> a sequence], an object  *)
(* [kind |-> "object", pairs |-> a sequence of <<key, value>>, count |->   *)
(* how many of them it has counted (nelms)]: it prints no more than these. *)
(* A Lua table is [kind |-> "table", list |-> its values at 1..#t, hash    *)
(* |-> its string keys, loose |-> how many other numbers it has as keys].  *)
(*                                                                         *)
(* A text is a sequence of tokens: brackets, colons, commas, and strings   *)
(* and other scalars as the renderer prints them.                          *)
(***************************************************************************)
EXTENDS Integers, Sequences, SequencesExt, FiniteSets

CONSTANTS
  Names,    \* strings that are keys like any other; as values, scalars too
  EnvKey,   \* the string "env"
  Digits,   \* a string that lua_isnumber takes for a number, like "1"
  Literals, \* scalars that print as the literals and numbers of JSON
  Broken,   \* a scalar whose text is no JSON: a string with a quote in it, nan
  Opaque,   \* a value that does not print: a function, a thread
  Nothing,  \* no result yet
  Raised    \* the result of a call that ends in an error

Strings == Names \cup {EnvKey, Digits}
Scalars == Strings \cup Literals \cup {Broken}

Array(items) == [kind |-> "array", items |-> items]
Listing(pairs, n) == [kind |-> "object", pairs |-> pairs, count |-> n]
Object(pairs) == Listing(pairs, Len(pairs))
EmptyOf(kind) == IF kind = "array" THEN Array(<< >>) ELSE Object(<< >>)
Size(d) == IF d.kind = "array" THEN Len(d.items) ELSE d.count
KeysOf(d) == {d.pairs[i][1] : i \in DOMAIN d.pairs}
Uncounted(d) == {d.pairs[i][1] : i \in (d.count + 1)..Len(d.pairs)}
Table(list, hash, loose) == [kind |-> "table", list |-> list, hash |-> hash, loose |-> loose]
IsNested(v) == v \notin Scalars \cup {Opaque}

\* A proper element: no key of an object is listed twice and none is a number.
\* All its pairs are counted, or all but the last if one has the key "env".
IsSeq(s) == s \in Seq(Range(s))
IsProper(d) ==
  \/ d.kind = "array" /\ d = Array(d.items) /\ IsSeq(d.items)
  \/ /\ d.kind = "object" /\ d = Listing(d.pairs, d.count) /\ IsSeq(d.pairs)
     /\ d.count \in {Len(d.pairs), Len(d.pairs) - 1}
     /\ EnvKey \notin KeysOf(d) => d.count = Len(d.pairs)
     /\ KeysOf(d) \subseteq Strings \ {Digits}
     /\ \A i \in DOMAIN d.pairs : d.pairs[i] = <<d.pairs[i][1], d.pairs[i][2]>>
     /\ \A i, j \in DOMAIN d.pairs : d.pairs[i][1] = d.pairs[j][1] => i = j

\* What is directly in a value: the values of a table, the parts of an element.
PartsOf(v) ==
  CASE ~IsNested(v) -> {}
    [] IsNested(v) /\ v.kind = "table" -> Range(v.list) \cup Range(v.hash)
    [] IsNested(v) /\ v.kind = "array" -> Range(v.items)
    [] OTHER -> {v.pairs[i][2] : i \in DOMAIN v.pairs}

-------------------------------------------------------------------------------
(***************************************************************************)
(* d[k] = v, as a conversion does it.  JsonObject and JsonArray have the   *)
(* handlers in full.                                                       *)
(***************************************************************************)

\* The handler raises: a position behind the end, or a key it takes for one.
Raises(d, k) == IF d.kind = "array" THEN k > Len(d.items) ELSE k = Digits

\* Positions count from 0.  A pair behind the count is a new one, whether it is
\* listed or not; the key "env" has no place yet when it is first given, which
\* is not behind the count, so it is listed without being counted.
Put(d, k, v) ==
  CASE d.kind = "array" /\ k = Len(d.items) -> Array(Append(d.items, v))
    [] d.kind = "array" /\ k < Len(d.items) -> Array([d.items EXCEPT ![k + 1] = v])
    [] d.kind = "object" /\ k \in KeysOf(d) ->
         Listing([i \in DOMAIN d.pairs |-> IF d.pairs[i][1] = k THEN <<k, v>> ELSE d.pairs[i]],
                 IF k \in Uncounted(d) THEN d.count + 1 ELSE d.count)
    [] OTHER -> Listing(Append(d.pairs, <<k, v>>), IF k = EnvKey THEN d.count ELSE d.count + 1)

===============================================================================
