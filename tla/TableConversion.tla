---------------------------- MODULE TableConversion ---------------------------
(***************************************************************************)
(* JSON:parse_table and JSON:parse_lua (lua_json_lua.c): the element made  *)
(* of a Lua table.  A table's list becomes an array and its string keys an *)
(* object; of a mixed table one of the two, whichever there is more of,    *)
(* and the other half is added to it as its last part.  `work` is the C    *)
(* stack of parse_lua_array and parse_lua_object: a nested element, and    *)
(* the part, are filled before they are stored.                            *)
(***************************************************************************)
EXTENDS Documents

CONSTANTS
  MixedMod, \* size of the parser's counter of the other half: 2^16
  MixedKeys, \* the mixed name of a call that gives none
  NoName,   \* mixed_name of a nested table's parser, which nobody sets: NULL
  Crashed   \* lua_pushstring of NULL, then a store under a nil key

ASSUME MixedAssumption == MixedMod \in Nat \ {0} /\ MixedKeys \in Strings

VARIABLES
  work,  \* activations, innermost last
  made   \* the result

conversionVars == <<work, made>>

\* opt: the second argument, "-a", "-o" or none.  mixed: no trailing `true`,
\* which also keeps a name from being taken for one.
Options == [opt: {"auto", "array", "object"}, mixed: {TRUE}, name: Strings]
           \cup [opt: {"auto", "array", "object"}, mixed: {FALSE}, name: {MixedKeys}]

-------------------------------------------------------------------------------
\* lua_json_lua_table_len.  loose: numbers outside the list, 1.5 or 70.
StringKeys(t) == Cardinality(DOMAIN t.hash)
NumberKeys(t) == Len(t.list) + t.loose
IsMixed(t) == StringKeys(t) > 0 /\ NumberKeys(t) > 0

\* Mutant of KindOf: as many of both, or none of either, makes an object.
KindOfTie(t) == IF StringKeys(t) >= NumberKeys(t) THEN "object" ELSE "array"

KindOf(t) == IF StringKeys(t) > NumberKeys(t) THEN "object" ELSE "array"

\* init_lua_parser: does the other half of a mixed table count for anything?
HasOtherHalf(t) ==
  /\ IsMixed(t)
  /\ (IF KindOf(t) = "array" THEN StringKeys(t) + t.loose ELSE Len(t.list)) % MixedMod # 0

\* parse_lua_array or parse_lua_object is entered for table t.  The element is
\* stored under `key` when it is done, and dropped if it is an empty half.
Activity(t, kind, more, name, key, half) ==
  [table |-> t, doc |-> EmptyOf(kind), next |-> 1, left |-> DOMAIN t.hash,
   more |-> more, name |-> name, key |-> key, half |-> half]

Nested(t, key) == Activity(t, KindOf(t), HasOtherHalf(t), NoName, key, FALSE)

\* The outermost table: the options win over what init_lua_parser found.
Outermost(t, o) ==
  Activity(t, IF o.opt = "auto" THEN KindOf(t) ELSE o.opt,
           o.mixed /\ HasOtherHalf(t), o.name, 0, FALSE)

-------------------------------------------------------------------------------
Busy == work # << >>
Top == Last(work)
Below == Front(work)
SetTop(f) == work' = Append(Below, f) /\ UNCHANGED made
Finish(result) == work' = << >> /\ made' = result
With(f, k, v) == [f EXCEPT !.doc = Put(@, k, v)]

InList == Busy /\ Top.doc.kind = "array" /\ Top.next <= Len(Top.table.list)
InHash == Busy /\ Top.doc.kind = "object" /\ Top.left # {}
AtEnd == Busy /\ ~InList /\ ~InHash

\* A round of parse_lua_array: item i goes to position i - 1.  One that does
\* not print is passed over, but still counted.
ListItem ==
  /\ InList
  /\ LET v == Top.table.list[Top.next]
         k == Top.next - 1
         f == [Top EXCEPT !.next = @ + 1]
     IN  \/ v = Opaque /\ SetTop(f)
         \/ IsNested(v) /\ work' = Below \o <<f, Nested(v, k)>> /\ UNCHANGED made
         \/ v \in Scalars /\ ~Raises(f.doc, k) /\ SetTop(With(f, k, v))
         \/ v \in Scalars /\ Raises(f.doc, k) /\ Finish(Raised)

\* A round of parse_lua_object, in the order of lua_next: any.  A string that
\* lua_isnumber takes for a number is passed over with the numbers.
HashItem ==
  /\ InHash
  /\ \E k \in Top.left :
       LET v == Top.table.hash[k]
           f == [Top EXCEPT !.left = @ \ {k}]
       IN  \/ (k = Digits \/ v = Opaque) /\ SetTop(f)
           \/ k # Digits /\ IsNested(v) /\ work' = Below \o <<f, Nested(v, k)>>
              /\ UNCHANGED made
           \/ k # Digits /\ v \in Scalars /\ SetTop(With(f, k, v))

\* Mutant of OtherHalf: the object is stored over the last item of the list.
OtherHalfOverLast ==
  /\ AtEnd /\ Top.more
  /\ LET f == [Top EXCEPT !.more = FALSE]
         half == IF f.doc.kind = "array"
                   THEN Activity(f.table, "object", FALSE, f.name, Len(f.table.list) - 1, TRUE)
                   ELSE Activity(f.table, "array", FALSE, f.name, f.name, TRUE)
     IN  work' = Below \o <<f, half>> /\ UNCHANGED made

\* The other half: the keys as an object behind the list, or the list as an
\* array under the mixed name.
OtherHalf ==
  /\ AtEnd /\ Top.more
  /\ LET f == [Top EXCEPT !.more = FALSE]
         half == IF f.doc.kind = "array"
                   THEN Activity(f.table, "object", FALSE, f.name, Len(f.table.list), TRUE)
                   ELSE Activity(f.table, "array", FALSE, f.name, f.name, TRUE)
     IN  work' = Below \o <<f, half>> /\ UNCHANGED made

\* Mutant of Deliver: the half is stored even if it is empty.
DeliverAnyHalf ==
  /\ AtEnd /\ ~Top.more
  /\ IF Below = << >> THEN Finish(Top.doc)
     ELSE IF Top.key = NoName THEN Finish(Crashed)
     ELSE IF Raises(Last(Below).doc, Top.key) THEN Finish(Raised)
     ELSE /\ work' = Append(Front(Below), With(Last(Below), Top.key, Top.doc))
          /\ UNCHANGED made

\* The element is complete: it is stored in the one below, or is the result.
Deliver ==
  /\ AtEnd /\ ~Top.more
  /\ IF Below = << >> THEN Finish(Top.doc)
     ELSE IF Top.half /\ Size(Top.doc) = 0 THEN work' = Below /\ UNCHANGED made
     ELSE IF Top.key = NoName THEN Finish(Crashed)
     ELSE IF Raises(Last(Below).doc, Top.key) THEN Finish(Raised)
     ELSE /\ work' = Append(Front(Below), With(Last(Below), Top.key, Top.doc))
          /\ UNCHANGED made
===============================================================================
