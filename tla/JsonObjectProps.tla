--------------------------- MODULE JsonObjectProps ----------------------------
(***************************************************************************)
(* What should hold of an object, and for which callers.                   *)
(***************************************************************************)
EXTENDS JsonObject

Items == [pc : {"idle"}]
           \cup [pc : {"place"}, key : Keys, slot : Int, want : Nat, was : Seq(Keys)]
           \cup [pc : {"write"}, left : Seq(Pairs), i : Nat, nargs : Int,
                 was : Seq(Keys), pairs : Seq(Pairs)]

\* The key list is a list of keys, the map holds slots, the count is an integer.
TypeOK ==
  /\ env \in [Keys -> AnyValue]
  /\ keys \in Seq(Keys \cup {Absent})
  /\ map \in [Keys -> Nat]
  /\ nelms \in Int
  /\ base \in {0, 1}
  /\ intact \in BOOLEAN
  /\ todo \in Items
  /\ out \in Seq(Keys \X AnyValue)

-------------------------------------------------------------------------------
\* The key list and the key -> slot map say the same thing: every key is in
\* the list at the slot the map gives it, once.  Each handler rewrites the two
\* separately, slot by slot.  For every caller, as long as keys[0] is a table;
\* of a slot that reverse has torn out, only the map still tells.
MapAgreesWithList ==
  intact =>
    /\ \A i \in DOMAIN keys : keys[i] # Absent => map[keys[i]] = i
    /\ \A k \in Keys : map[k] # 0 => /\ map[k] \in DOMAIN keys
                                    /\ keys[map[k]] \in {k, Absent}

\* The count never runs past the key list, so neither render nor pop reads a
\* slot that is not there.  For every caller.
CountWithinList == nelms <= Len(keys)

\* List, map and count fit together, for every caller.
ListIsSound == MapAgreesWithList /\ CountWithinList

\* Every slot is counted: no key is beyond the reach of positions, pop and
\* tojson.
CountIsLength == nelms = Len(keys)

\* A key has a slot exactly when it has a value.
StoredIffIndexed == \A k \in Keys : Stored(k) <=> Indexed(k)

\* keys[0], the map, is never overwritten, and no slot is torn out of the list.
MapIsKept == intact /\ ~Torn

\* The slots are all there: for a script without habits the map is in keys[0],
\* and behind it are the keys that are counted and no other ones, whatever
\* newindex, del_key and reverse did to the list and to nelms.
SlotsAreExact == MapIsKept /\ CountIsLength

-------------------------------------------------------------------------------
\* README.md:16: reverse and move only rearrange the lookup table.  No value
\* changes and no key is lost or gained, but for a count below zero: reverse
\* then takes one slot out of the list, its first or the one it was given.
ReorderKeepsData ==
  [][(Rearrangements \/ InsertPlace) /\ intact' =>
       /\ env' = env
       /\ Len(keys') = Len(keys)
       /\ \/ Listed(keys') = Listed(keys)
          \/ nelms < 0 /\ \E p \in DOMAIN keys : keys' = TornAt(keys, p, Absent)]_vars

\* The key can be found: it is in the list, and there is a map.
Kept(k) == intact /\ k \in Listed(keys)

\* The key the next round of unshift deletes, by assigning the nil it was given.
Deleting(k) ==
  /\ todo.pc = "write" /\ todo.i <= todo.nargs
  /\ todo.left[Len(todo.left)] = <<k, Absent>>

\* The two ways in which nil values lead an unshift over slot 0 or below it: it
\* deletes a value that has no slot, or it has emptied what it is to turn back.
LosesWay ==
  \/ \E o \in Keys : Deleting(o) /\ Stored(o) /\ ~Indexed(o)
  \/ todo.pc = "write" /\ todo.i > todo.nargs /\ nelms <= 0

\* Until it is complete a rearrangement in several steps, unshift or insert,
\* loses no key but those it was told to delete, and a failure in the middle of
\* it loses none either; unless nil values lead it astray.
UnderWayKeepsKeys ==
  [][todo # Idle /\ ~LosesWay => \A k \in Keys : Kept(k) => Kept(k)' \/ Deleting(k)]_vars

\* Those of the pairs an unshift was given whose keys are new to the object.
Fresh(pairs, was) == {j \in DOMAIN pairs : \A i \in DOMAIN was : was[i] # pairs[j][1]}

\* The pairs have different keys.
Distinct(pairs) == \A i, j \in DOMAIN pairs : i # j => pairs[i][1] # pairs[j][1]

\* The list is the old one, was, with the new ones of the pairs in front of it
\* and no other keys, in the order given, and every pair has its value.
InFront(pairs, was) ==
  LET fresh == Fresh(pairs, was)
      new == Len(keys') - Len(was)
  IN  /\ new \in Nat
      /\ \A i \in DOMAIN was : keys'[new + i] = was[i]
      /\ {keys'[i] : i \in 1..new} = {pairs[j][1] : j \in fresh}
      /\ \A i, j \in fresh : i < j => map'[pairs[i][1]] < map'[pairs[j][1]]
      /\ \A j \in DOMAIN pairs : env'[pairs[j][1]] = pairs[j][2]

\* lua_json_object.h:146-152: unshift adds its pairs, any number of them, at
\* the beginning of the object in the order given.  For pairs with distinct keys.
UnshiftPrepends ==
  [][(UnshiftRestore /\ Distinct(todo.pairs)) => InFront(todo.pairs, todo.was)]_vars

\* Of n pairs the loop of unshift, which counts up and down at once, comes to
\* the last 2n/3 + 1: all of up to three, three of four.
ComesTo(pairs) ==
  LET skipped == Len(pairs) - (2 * Len(pairs)) \div 3 - 1
  IN  [j \in 1..(Len(pairs) - skipped) |-> pairs[skipped + j]]

\* What unshift does do, for any number of pairs: those its loop comes to are
\* prepended, and none of the others enters a key.
UnshiftPrependsReached ==
  [][(UnshiftRestore /\ Distinct(todo.pairs)) => InFront(ComesTo(todo.pairs), todo.was)]_vars

\* lua_json_object.h:97: a pair with a new key ends up at the position it was
\* inserted at, given as an index or as an existing key, and the pairs from
\* there on move up by one.
InsertLandsAtTarget ==
  [][(InsertPlace /\ \A i \in DOMAIN todo.was : todo.was[i] # todo.key)
       => keys' = [i \in 1..(Len(todo.was) + 1) |->
                     IF i < todo.want THEN todo.was[i]
                     ELSE IF i = todo.want THEN todo.key
                     ELSE todo.was[i - 1]]]_vars

\* A rendering of the whole object prints every stored key, in order.
WholeRenderIsComplete ==
  [][Tojson(1, LastSlot) =>
       /\ {out'[i][1] : i \in DOMAIN out'} = {k \in Keys : Stored(k)}
       /\ \A i, j \in DOMAIN out' : i < j => map[out'[i][1]] < map[out'[j][1]]]_vars

-------------------------------------------------------------------------------
\* The object a well-behaved caller sees.
Map == INSTANCE OrderedMap WITH order <- keys, val <- env, shown <- out

ImplementsOrderedMap == Map!Spec
===============================================================================
