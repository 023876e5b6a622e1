------------------------------ MODULE GrammarProps -----------------------------
(***************************************************************************)
(* What JSON:parse promises, against the grammar: the definitions recurse  *)
(* over a text, and are for TLC.                                           *)
(***************************************************************************)
EXTENDS ConversionProps, FiniteSetsExt

-------------------------------------------------------------------------------
\* Reference for the parser: every way to read s as a value, or as a list of
\* items, each a value or a pair.  A comma may follow the last item.
RECURSIVE Values(_, _), Items(_, _, _)
Values(s, depth) ==
  IF s = << >> THEN {}
  ELSE IF Len(s) = 1 THEN {s[1]} \cap (Scalars \ {Broken})
  ELSE IF depth = 0 THEN {}
  ELSE LET inner == SubSeq(s, 2, Len(s) - 1)
       IN CASE s[1] = "[" /\ Last(s) = "]" -> {Array(v) : v \in Items(inner, "array", depth - 1)}
            [] s[1] = "{" /\ Last(s) = "}" -> {Object(v) : v \in Items(inner, "object", depth - 1)}
            [] OTHER -> {}

Items(s, kind, depth) ==
  IF s = << >> THEN {<< >>}
  ELSE LET first(n) == CASE kind = "array" -> Values(SubSeq(s, 1, n), depth)
                         [] n < 3 \/ s[1] \notin Strings \/ s[2] # ":" -> {}
                         [] OTHER -> {<<s[1], v>> : v \in Values(SubSeq(s, 3, n), depth)}
           commas == {n \in 1..Len(s) - 1 : s[n + 1] = ","}
       IN  {<<v>> : v \in first(Len(s))} \cup
           UNION {{<<v>> \o rest : v \in first(n), rest \in Items(From(s, n + 2), kind, depth)} :
                    n \in commas}

\* What is left of the items of an object: a key given twice has the last value.
\* The key "env" leaves one pair uncounted, up to where the pair listed last is
\* given again.
RECURSIVE Settled(_)
Settled(v) ==
  CASE v \in Scalars -> v
    [] v \notin Scalars /\ v.kind = "array" -> Array([i \in DOMAIN v.items |-> Settled(v.items[i])])
    [] OTHER ->
       LET KeyAt(i) == v.pairs[i][1]
           at == {i \in DOMAIN v.pairs : \A j \in 1..i - 1 : KeyAt(j) # KeyAt(i)}
           lastOf(k) == Max({i \in DOMAIN v.pairs : KeyAt(i) = k})
           order == SetToSortSeq(at, <)
           madeUp == \E i \in DOMAIN v.pairs \ at :
                       /\ KeyAt(i) = KeyAt(Max({j \in at : j < i}))
                       /\ \E j \in 1..i : KeyAt(j) = EnvKey
           short == (\E i \in at : KeyAt(i) = EnvKey) /\ ~madeUp
       IN  Listing([n \in DOMAIN order |->
                     <<KeyAt(order[n]), Settled(v.pairs[lastOf(KeyAt(order[n]))][2])>>],
                   IF short THEN Len(order) - 1 ELSE Len(order))

\* A reading that is not refused gives the document of the grammar, for the
\* longest part the text begins with that is one; if there is none, an empty
\* element - never a part of one; and it raises for a numeric key only
\* (lua_json_elm_parse, mg_json_get, mg_json_next).
AllOrNothing ==
  read # Nothing =>
    LET ends == {n \in DOMAIN text : Values(SubSeq(text, 1, n), MaxNesting) # {}}
        whole == SubSeq(text, 1, Max(ends))
        hasNumericKey == \E i \in 1..Len(whole) - 1 : whole[i] = Digits /\ whole[i + 1] = ":"
    IN  CASE text = << >> \/ text[1] \notin {"[", "{"} -> read = Refused
          [] ends = {} -> read = EmptyOf(IF text[1] = "[" THEN "array" ELSE "object")
          [] hasNumericKey -> read = Raised
          [] OTHER -> read \in {Settled(d) : d \in Values(whole, MaxNesting)}
===============================================================================
