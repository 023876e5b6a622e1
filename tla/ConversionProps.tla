---------------------------- MODULE ConversionProps ---------------------------
(***************************************************************************)
(* What the conversions promise, against definitions that know nothing of  *)
(* loops, stacks and offsets.  What is said of an element and of all that  *)
(* is nested in it is said level by level.                                 *)
(***************************************************************************)
EXTENDS Conversion, ParserProps

-------------------------------------------------------------------------------
(***************************************************************************)
(* Reference for parse_table.                                              *)
(***************************************************************************)
\* The places in its list, and the keys, that a table hands on; numbers outside
\* the list and numeric strings are kept nowhere.
Kept(t) == {i \in DOMAIN t.list : t.list[i] # Opaque}
Shown(t) == {k \in DOMAIN t.hash : k # Digits /\ t.hash[k] # Opaque}

\* A table has two halves.  Of an object whose numbers are all outside the list
\* none is left, and none is looked for even if an array is asked for.
TwoHalves(t) == IsMixed(t) /\ (KindOf(t) = "object" => t.list # << >>)

\* The claim that `doc` stands for `table` as an element of the kind, with or
\* without its other half; of the element in the place of a nested table.
Claim(doc, table, kind, both, name) ==
  [doc |-> doc, table |-> table, kind |-> kind, both |-> both, name |-> name]
ClaimOf(d, t) == Claim(d, t, KindOf(t), TwoHalves(t), NoName)

\* The other half is an object behind the list, or an array under the name.  An
\* object with no key but "env" has counted nothing, and is dropped.
KeysBehind(c) == c.kind = "array" /\ c.both /\ Shown(c.table) \ {EnvKey} # {}
ListUnder(c) == c.kind = "object" /\ c.both /\ Kept(c.table) # {}

\* The parts of the element that are not the other half, each with the value of
\* the table it is in the place of; and the claim on the other half.
Matched(c) ==
  IF c.kind = "array" THEN {<<c.doc.items[i], c.table.list[i]>> : i \in Kept(c.table)}
  ELSE {<<c.doc.pairs[i][2], c.table.hash[c.doc.pairs[i][1]]>> :
          i \in {j \in DOMAIN c.doc.pairs : ListUnder(c) => c.doc.pairs[j][1] # c.name}}
OtherHalves(c) ==
  IF c.kind = "array"
    THEN {Claim(c.doc.items[i], c.table, "object", FALSE, c.name) :
            i \in IF KeysBehind(c) THEN {Len(c.table.list) + 1} ELSE {}}
    ELSE {Claim(c.doc.pairs[i][2], c.table, "array", FALSE, c.name) :
            i \in {j \in DOMAIN c.doc.pairs : ListUnder(c) /\ c.doc.pairs[j][1] = c.name}}

\* How many pairs the element has not counted: with the key "env" one, unless
\* the list was then stored under a key it had, which may count the pair after all.
PairsBack(c) ==
  CASE EnvKey \notin KeysOf(c.doc) -> {0}
    [] EnvKey \in KeysOf(c.doc) /\ ~(ListUnder(c) /\ c.name \in Shown(c.table)) -> {1}
    [] OTHER -> {0, 1}

\* A claim, as far as it is about the parts that are directly in the element ...
Holds(c) ==
  /\ IsNested(c.doc) /\ c.doc.kind = c.kind
  /\ c.kind = "array" =>
       DOMAIN c.doc.items =
         Kept(c.table) \cup (IF KeysBehind(c) THEN {Len(c.table.list) + 1} ELSE {})
  /\ c.kind = "object" =>
       /\ KeysOf(c.doc) = Shown(c.table) \cup (IF ListUnder(c) THEN {c.name} ELSE {})
       /\ \A i, j \in DOMAIN c.doc.pairs : c.doc.pairs[i][1] = c.doc.pairs[j][1] => i = j
       /\ Len(c.doc.pairs) - Size(c.doc) \in PairsBack(c)
  /\ \A m \in Matched(c) : m[2] \in Scalars => m[1] = m[2]

\* ... the claims it makes on them, and all of them.
Followers(c) == OtherHalves(c) \cup {ClaimOf(m[1], m[2]) : m \in {q \in Matched(c) : IsNested(q[2])}}

Claims(c) ==
  LET claims[n \in 0..MaxLevels] == IF n = 0 THEN {c} ELSE UNION {Followers(q) : q \in claims[n - 1]}
  IN  claims

StandsFor(c) == \A n \in 0..MaxLevels : \A q \in Claims(c)[n] : Holds(q)

\* The tables in a table, and it with them.
NestedTables(t) == {v \in UNION {Level(t)[n] : n \in 1..MaxLevels} : IsNested(v)}
Subtables(t) == {t} \cup NestedTables(t)

\* Every value of a table arrives in its element, in its place and under its
\* key, nested to any depth and with both halves of a mixed table - as long as
\* the other half has fewer parts than its counter can tell (parse_lua_array,
\* parse_lua_object and their detours over the other half).  And the element
\* prints all of them: only one with the key "env" keeps its last pair back.
ConvertedIsComplete ==
  given # Nothing /\ shown = Nothing /\ IsElement(made) =>
    LET t == given.table  o == given.opts
        kind == IF o.opt = "auto" THEN KindOf(t) ELSE o.opt
    IN  (\A u \in Subtables(t) : StringKeys(u) + NumberKeys(u) < MixedMod)
          => StandsFor(Claim(made, t, kind, o.mixed /\ TwoHalves(t), o.name))

\* A value that does not print stands before one that does, or before the place
\* of the other half.
HasGap(t) ==
  \E i \in DOMAIN t.list : t.list[i] = Opaque
    /\ ((\E j \in DOMAIN t.list : j > i /\ t.list[j] # Opaque) \/ Shown(t) \ {EnvKey} # {})

\* A conversion fails on nothing but a gap, a mixed name that is a number, or a
\* mixed object that is not the outermost table (of a second conversion, see
\* ToTableInverts).
FailsForReason ==
  given # Nothing /\ shown = Nothing =>
    /\ made = Raised => \/ \E t \in Subtables(given.table) : HasGap(t)
                        \/ given.opts.name = Digits
    /\ made = Crashed => \E t \in NestedTables(given.table) :
                           KindOf(t) = "object" /\ IsMixed(t) /\ Kept(t) # {}

-------------------------------------------------------------------------------
\* Nested to at most so many levels.
AtMostDeep(v, levels) ==
  \A n \in 0..MaxLevels : n >= levels => \A x \in Level(v)[n] : ~IsNested(x)

\* A copy of v, pair for pair in its order.  A pair that v has not counted is
\* lost, and the first one with the key "env" is not counted in the copy.
CopyFrom(v, copies) ==
  CASE ~IsNested(v) -> v
    [] IsNested(v) /\ v.kind = "array" -> Array([i \in DOMAIN v.items |-> copies[v.items[i]]])
    [] OTHER ->
         Listing([i \in 1..Size(v) |-> <<v.pairs[i][1], copies[v.pairs[i][2]]>>],
                 IF EnvKey \in KeysOf(v) \ Uncounted(v) THEN Size(v) - 1 ELSE Size(v))

CopyAt(v) ==
  LET copies[n \in 0..MaxLevels + 1] ==
        IF n = MaxLevels + 1 THEN << >>
        ELSE [x \in Level(v)[n] |-> CopyFrom(x, copies[n + 1])]
  IN  copies

CopyOf(v) == CopyAt(v)[0][v]

HasKeyEnv(v) == \E x \in Parts(v) : IsNested(x) /\ x.kind = "object" /\ EnvKey \in KeysOf(x)

\* unref gives a copy: what is read from the JSON text of an element is the
\* element, pair for pair in its order, but for what the key "env" costs it; if
\* all of it prints and it is not nested deeper than the tokenizer goes.
UnrefCopies ==
  read # Nothing /\ intact /\ mode = Json /\ Printable(made) /\ AtMostDeep(made, MaxNesting)
    => read = CopyOf(made)

\* lua_json_array.h:206, "Creates an unreferenced copy of an existing array",
\* whatever the element was rendered as before; without a key "env".
UnrefIsACopy ==
  read # Nothing /\ intact /\ Printable(made) /\ AtMostDeep(made, MaxNesting)
    /\ ~HasKeyEnv(made) => read = made

-------------------------------------------------------------------------------
\* Two elements with the same number of parts, and the same keys; and their
\* parts in the same places, or under the same keys.
Alike(d, e) ==
  IF ~IsNested(d) \/ ~IsNested(e) THEN d = e
  ELSE d.kind = e.kind /\ Size(d) = Size(e) /\ (d.kind = "object" => KeysOf(d) = KeysOf(e))

Partners(d, e) ==
  IF ~IsNested(d) \/ ~IsNested(e) THEN {}
  ELSE IF d.kind = "array" THEN {<<d.items[i], e.items[i]>> : i \in DOMAIN d.items}
  ELSE {<<d.pairs[p[1]][2], e.pairs[p[2]][2]>> :
          p \in {q \in (DOMAIN d.pairs) \X (DOMAIN e.pairs) : d.pairs[q[1]][1] = e.pairs[q[2]][1]}}

Couples(d, e) ==
  LET couples[n \in 0..MaxLevels] ==
        IF n = 0 THEN {<<d, e>>} ELSE UNION {Partners(p[1], p[2]) : p \in couples[n - 1]}
  IN  couples

\* The same document up to the order of the pairs.
Same(d, e) == \A n \in 0..MaxLevels : \A p \in Couples(d, e)[n] : Alike(p[1], p[2])

HasEmptyObject(v) == \E x \in Parts(v) : IsNested(x) /\ x.kind = "object" /\ Size(x) = 0

\* totable loses nothing but the order of the pairs and the kind of an empty
\* object: the element made of its table is a copy of the element it was called
\* on, and the way back never fails.
ToTableInverts ==
  shown # Nothing /\ made # Nothing =>
    IsElement(made) /\ (~HasEmptyObject(shown) => Same(made, CopyOf(shown)))
===============================================================================
