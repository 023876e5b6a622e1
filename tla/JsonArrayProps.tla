---------------------------- MODULE JsonArrayProps ----------------------------
(***************************************************************************)
(* What should hold of an array, and for which callers.                    *)
(***************************************************************************)
EXTENDS JsonArray, FiniteSets

Tasks == [pc : {"idle"}]
           \cup [pc : {"unshift"}, left : Seq(AnyValue), given : Seq(AnyValue),
                 was : Seq(AnyValue)]
           \cup [pc : {"render"}, i : Nat, e : Int]

\* Slots hold values, elm->idx stays within its width, the count is an integer.
TypeOK ==
  /\ env \in [Slots -> AnyValue \ {Rejected}]
  /\ nelms \in -1..MaxElms
  /\ base \in {0, 1}
  /\ idx \in 0..(IdxMod - 1)
  /\ is_nil \in BOOLEAN
  /\ intact \in BOOLEAN
  /\ todo \in Tasks
  /\ out \in Seq(AnyValue \ {Rejected, Absent})

-------------------------------------------------------------------------------
\* Every counted slot holds an item, so no rendering has a hole to close.
NoHoles == \A i \in 1..nelms : env[i] # Absent

\* lua_json_array.h:183: unshift puts its values, in the order given, in front
\* of the items there were.  At every step on the way, hence also where a
\* refused value stops it, an end part of the values is in and the items behind
\* them are untouched.
UnshiftInOrder ==
  todo.pc = "unshift" =>
    Items = SubSeq(todo.given, Len(todo.left) + 1, Len(todo.given)) \o todo.was

\* The ends of a 0-based array are where push, pop and shift say: a value
\* pushed goes behind all items, pop takes the last and shift the first.
EndsAreEnds ==
  [][base = 1 =>
       /\ \A v \in Values : Push(v) => Items' = Append(Items, v)
       /\ Pop /\ nelms > 0 => Items' = SubSeq(Items, 1, nelms - 1)
       /\ Shift /\ nelms > 0 => Items' = SubSeq(Items, 2, nelms)]_vars

-------------------------------------------------------------------------------
Copies(f, v) == Cardinality({i \in DOMAIN f : f[i] = v})

\* README.md:16: reverse and move rearrange.  Whatever the slots hold, in
\* bounds or behind the last item, every value is there as often as before.
ReorderKeepsValues ==
  [][Rearrangements => \A v \in AnyValue : Copies(env', v) = Copies(env, v)]_vars

\* The value a hole is about to cost: the one in the slot of elm->idx, which need
\* not be the hole's.
AtStake(v) ==
  /\ todo.pc = "render" /\ Fetched(todo.i) = Absent
  /\ idx \in 1..nelms /\ env[idx] = v

\* A rendering closes holes, in the wrong place even.  That overwrites no value
\* but the one in the slot of elm->idx, where the rendering ends, and of that one
\* copy: with elm->idx at a hole, or behind the items, none at all.
RenderLosesOnlyAtStake ==
  [][Renderings =>
       \A v \in Values \cup {Opaque} :
         Copies(env', v) >= Copies(env, v) - (IF AtStake(v) THEN 1 ELSE 0)]_vars

-------------------------------------------------------------------------------
\* The array a caller sees who keeps away from the end position.
List == INSTANCE ItemList WITH
  Items <- Values \cup {Opaque},
  list <- Items,
  shown <- IF todo.pc = "render" THEN << >> ELSE out

ImplementsItemList == List!Spec
===============================================================================
