------------------------------ MODULE JsonObject ------------------------------
(***************************************************************************)
(* One JSON object of LuaJson (lua_json_object.c, with the index handling  *)
(* of lua_json.c): a Lua table `env` holds the values, a key list and a    *)
(* key -> slot map in the element's vtable hold the order, and a counter   *)
(* `nelms` says how many slots there are.  The three are kept together by  *)
(* hand in every handler; this module is about whether they stay together. *)
(*                                                                         *)
(* Values are abstract.  Lengths and events are in ElementTree; nesting    *)
(* appears here only as the value Rejected, an element that                *)
(* lua_json_elm_contains refuses.                                          *)
(***************************************************************************)
EXTENDS Integers, Sequences, KeyList

CONSTANTS
  Keys,       \* the strings a script uses as keys
  EnvKey,     \* the string "env", a key like any other in a JSON text
  Values,     \* printable values
  Opaque,     \* a value the renderer has no case for: a function, a thread
  Rejected,   \* an element whose nesting is refused as recursive
  Absent,     \* nil
  IdxMod,     \* elm->idx is a uint16_t: 65536
  MaxKeys,    \* bound: the key list is not grown past this
  MaxPairs,   \* bound: pairs passed to one unshift
  Habits      \* what the calling script may do, see HabitNames

HabitNames ==
  {"read_missing",   \* read a key that was never assigned
   "nil_missing",    \* assign nil to a key that is not there
   "nil_opaque",     \* assign nil to a key that holds an opaque value
   "opaque",         \* store a function under a key
   "rejected",       \* try to nest an element that is refused
   "env_key",        \* use "env" as a data key
   "raw_nil",        \* t = obj.env; t[k] = nil
   "reverse_empty",  \* reverse, or unshift onto, an object with no elements
   "reverse_negative", \* ... or whose count is below zero
   "unshift_nil",    \* unshift a key with nil
   "one_based"}      \* switch the element to 1-based positions

ASSUME ConstantsAreSound ==
  /\ Habits \subseteq HabitNames
  /\ IdxMod \in Nat \ {0}
  /\ MaxKeys \in Nat
  /\ MaxPairs \in Nat
  /\ Absent \notin Values \cup {Opaque, Rejected} \cup Keys
  /\ Opaque \notin Values
  /\ Rejected \notin Values

VARIABLES
  env,      \* key -> raw value in the env table
  keys,     \* keys[1..n]; Absent in a slot that reverse has torn out
  map,      \* keys[0]: key -> slot, 0 for no entry
  nelms,    \* elm->nelms; a size_t, read back as an int, so it may be negative
  base,     \* elm->index_json: 1 for 0-based positions, 0 for 1-based
  intact,   \* FALSE once keys[0] is no longer a table
  todo,     \* what is left of an insert or unshift that is under way
  out       \* the pairs the last tojson printed; << >> after any other call

data == <<env, keys, map, nelms>>
vars == <<env, keys, map, nelms, base, intact, todo, out>>

May(h) == h \in Habits
Stored(k) == env[k] # Absent
Indexed(k) == map[k] # 0
Idx16(i) == IF i \in 0..(IdxMod - 1) THEN i ELSE i % IdxMod
Slot(k) == Idx16(map[k])
InBounds(i) == i >= 1 /\ i <= nelms          \* lua_json_elm_check_idx
Idle == [pc |-> "idle"]
AnyValue == Values \cup {Opaque, Rejected, Absent}
Pairs == Keys \X AnyValue

Init ==
  /\ env = [k \in Keys |-> Absent]
  /\ keys = << >>
  /\ map = [k \in Keys |-> 0]
  /\ nelms = 0
  /\ base = 1
  /\ intact = TRUE
  /\ todo = Idle
  /\ out = << >>

-------------------------------------------------------------------------------
(***************************************************************************)
(* obj[k] = v.  lua_json_elm_index looks the key up, enters it in the list *)
(* when the value is printable, and only then looks for recursion;         *)
(* type_of_index takes a slot beyond nelms for a new element.  Assign is   *)
(* the handler's effect on `data`; ok says whether it returned or raised.  *)
(***************************************************************************)
Printable(v) == v \in Values \cup {Rejected}

EntersKey(k, v) == Printable(v) /\ k # EnvKey /\ ~Indexed(k)

EnterKey(k) ==
  /\ keys' = Append(keys, k)
  /\ map' = [map EXCEPT ![k] = Len(keys) + 1]

EnterIf(cond, k) == IF cond THEN EnterKey(k) ELSE UNCHANGED <<keys, map>>

\* elm->idx after lua_json_elm_index
IdxFor(k, v) == Idx16(IF EntersKey(k, v) THEN Len(keys) + 1 ELSE map[k])

\* Mutant of Refuse: the way out takes the key out of the list, new or not.
RefuseForgetting(k) ==
  LET p == map[k]
  IN  /\ IF p = 0 THEN UNCHANGED <<keys, map>>
         ELSE /\ keys' = Without(keys, p)
              /\ map' = Renumbered([map EXCEPT ![k] = 0], Without(keys, p), p, Len(keys) - 1)
      /\ UNCHANGED <<env, nelms, intact>>

\* The recursion check comes after the key has been entered.
Refuse(k) ==
  /\ EnterIf(EntersKey(k, Rejected), k)
  /\ UNCHANGED <<env, nelms, intact>>

\* NEW_INDEX: update_rlen counts one element more.
AssignNew(k, v) ==
  /\ IdxFor(k, v) > nelms
  /\ EnterIf(EntersKey(k, v), k)
  /\ env' = [env EXCEPT ![k] = v]
  /\ nelms' = nelms + 1
  /\ UNCHANGED intact

\* EXT_INDEX or NIL_INDEX: the old value is measured first, and a missing old
\* value enters the key as well (the LUA_TNIL case of get_val_length).
AssignOver(k, v) ==
  /\ IdxFor(k, v) <= nelms
  /\ EnterIf(EntersKey(k, v) \/ (~Stored(k) /\ ~Indexed(k)), k)
  /\ env' = [env EXCEPT ![k] = v]
  /\ UNCHANGED <<nelms, intact>>

\* No key is entered and nothing is counted for a value that cannot print.
AssignOpaque(k) ==
  /\ env' = [env EXCEPT ![k] = Opaque]
  /\ UNCHANGED <<keys, map, nelms, intact>>

\* Mutant of DropSlot: the deleted key keeps its slot in the map.
DropSlotOnly(ks, mp, p) ==
  IF p = 0
    THEN /\ intact' = FALSE
         /\ UNCHANGED <<keys, map>>
    ELSE /\ keys' = Without(ks, p)
         /\ map' = Renumbered(mp, Without(ks, p), p, Len(ks) - 1)
         /\ UNCHANGED intact

\* lua_json_object_del_key on slot p of the list ks with map mp.  For p = 0
\* the shift loop starts by writing keys[0], which was the map.
DropSlot(ks, mp, p) ==
  IF p = 0
    THEN /\ intact' = FALSE
         /\ UNCHANGED <<keys, map>>
    ELSE /\ keys' = Without(ks, p)
         /\ map' = Renumbered([mp EXCEPT ![ks[p]] = 0],
                              Without(ks, p), p, Len(ks) - 1)
         /\ UNCHANGED intact

\* Mutant of AssignNil: the handler forgets that update_rlen leaves the count
\* to it.
AssignNilUncounted(k) ==
  /\ Slot(k) <= nelms
  /\ DropSlot(keys, map, Slot(k))
  /\ env' = [env EXCEPT ![k] = Absent]
  /\ UNCHANGED nelms

\* nil for a slot within nelms deletes.  A key that is not there is entered
\* by the measurement first and is what is then deleted.
AssignNil(k) ==
  LET entered == ~Stored(k) /\ ~Indexed(k)
      ks == IF entered THEN Append(keys, k) ELSE keys
      mp == IF entered THEN [map EXCEPT ![k] = Len(keys) + 1] ELSE map
  IN  /\ Slot(k) <= nelms
      /\ DropSlot(ks, mp, Idx16(mp[k]))
      /\ nelms' = nelms - 1
      /\ env' = [env EXCEPT ![k] = Absent]

Assign(k, v, ok) ==
  \/ v \in Values /\ ok /\ (AssignNew(k, v) \/ AssignOver(k, v))
  \/ v = Opaque /\ ok /\ AssignOpaque(k)
  \/ v = Absent /\ ok /\ AssignNil(k)
  \/ v = Rejected /\ ~ok /\ Refuse(k)
  \* "Cannot assign 'nil' to a new key."
  \/ v = Absent /\ ~ok /\ Slot(k) > nelms /\ UNCHANGED <<env, keys, map, nelms, intact>>

-------------------------------------------------------------------------------
(***************************************************************************)
(* The methods.  A call starts when no other is under way; out is the      *)
(* result of tojson and is blank after anything else.                      *)
(***************************************************************************)
Torn == Absent \in Listed(keys)
Call == intact /\ ~Torn /\ todo = Idle
Quiet == todo' = Idle /\ out' = << >> /\ UNCHANGED base

NewIndex(k, v) ==
  /\ Call /\ Quiet
  /\ \E ok \in BOOLEAN : Assign(k, v, ok)

\* push(k, v) ignores nil and is an assignment otherwise.
Push(k, v) ==
  /\ Call /\ Quiet
  /\ IF v = Absent THEN UNCHANGED <<env, keys, map, nelms, intact>>
     ELSE \E ok \in BOOLEAN : Assign(k, v, ok)

\* Reading a key runs lua_json_elm_index too, with the key itself on top of
\* the stack: a string, hence printable, hence entered.
Index(k) ==
  /\ Call /\ Quiet
  /\ EnterIf(k # EnvKey /\ ~Indexed(k), k)
  /\ UNCHANGED <<env, nelms, intact>>

\* pop and shift assign nil to the key of the last counted, or first, slot.
DeleteAt(i) ==
  /\ Call /\ Quiet
  /\ IF i \in DOMAIN keys
       THEN \E ok \in BOOLEAN : Assign(keys[i], Absent, ok)
       ELSE UNCHANGED <<env, keys, map, nelms, intact>>
Pop == DeleteAt(Idx16(nelms))
Shift == DeleteAt(1)

\* Swap the slots a..b end for end, in either order.  Slot 0 is the map.  A
\* slot behind the list holds nil: it is written to the other end, and raises
\* when the map is given it as a key.
Outer(a, b) == IF a < b THEN b ELSE a
Inner(a, b) == IF a < b THEN a ELSE b

RaisesReversing(a, b) ==
  /\ 0 < Inner(a, b) /\ a # b
  /\ Outer(a, b) > Len(keys)

ReverseSlots(a, b) ==
  LET lo == Inner(a, b)
      hi == Outer(a, b)
  IN  /\ UNCHANGED <<env, nelms>>
      /\ IF a = b THEN UNCHANGED <<keys, map, intact>>
         ELSE IF lo = 0 THEN intact' = FALSE /\ UNCHANGED <<keys, map>>
         ELSE IF RaisesReversing(a, b)
           THEN keys' = TornAt(keys, lo, Absent) /\ UNCHANGED <<map, intact>>
         ELSE /\ keys' = Flipped(keys, lo, hi)
              /\ map' = Renumbered(map, Flipped(keys, lo, hi), lo, hi)
              /\ UNCHANGED intact

\* The positions an argument can name: an index within bounds, or the slot
\* of a key that has one.
Positions == {i \in DOMAIN keys : InBounds(i)} \cup ({Slot(k) : k \in Keys} \ {0})

\* The default range of reverse is 1..nelms, cut to 16 bits: a count of -1
\* reads as 65535.
DefaultEnd == Idx16(nelms)

Reverse(a, b) == Call /\ Quiet /\ ReverseSlots(a, b)

\* Mutant of MoveSlot: the two pairs change places.
MoveSlotSwapping(m, t, k) ==
  LET ks == [keys EXCEPT ![m] = keys[t], ![t] = k]
  IN  /\ keys' = ks
      /\ map' = Renumbered(map, ks, 1, Len(ks))
      /\ UNCHANGED <<env, nelms, intact>>

MoveSlot(m, t, k) ==
  LET lo == IF m < t THEN m ELSE t
      hi == IF m < t THEN t ELSE m
  IN  /\ IF m = t THEN UNCHANGED <<keys, map>>
         ELSE /\ keys' = Moved(keys, m, t, k)
              /\ map' = Renumbered(map, Moved(keys, m, t, k), lo, hi)
      /\ UNCHANGED <<env, nelms, intact>>

Move(m, t) == Call /\ Quiet /\ MoveSlot(m, t, keys[m])

\* insert(at, k, v) assigns and then moves the pair into place.  A position
\* given as a key is turned into "slot - 1" and later has index_json added.
\* want and was are history, for the properties.
NamedSlot(at) == IF at \in Keys THEN Slot(at) ELSE at

\* Mutant of InsertTarget: the slot of a key is taken for a position.
InsertTargetShifted(at) == IF at \in Keys THEN NamedSlot(at) - 1 ELSE at

InsertTarget(at) == IF at \in Keys THEN NamedSlot(at) - 1 + base ELSE at

InsertAssign(at, k, v) ==
  /\ Call
  /\ InBounds(NamedSlot(at))
  /\ \E ok \in BOOLEAN :
       /\ Assign(k, v, ok)
       /\ todo' = IF ok THEN [pc |-> "place", key |-> k, slot |-> InsertTarget(at),
                              want |-> NamedSlot(at), was |-> keys]
                  ELSE Idle
  /\ out' = << >>
  /\ UNCHANGED base

\* lua_json_object_move with align off uses the slot the assignment left in
\* elm->idx; either slot out of bounds raises, with the pair left where it is.
InsertPlace ==
  /\ intact /\ todo.pc = "place" /\ Quiet
  /\ LET m == Slot(todo.key)
     IN IF InBounds(m) /\ InBounds(todo.slot)
          THEN MoveSlot(m, todo.slot, keys[m])
          ELSE UNCHANGED <<env, keys, map, nelms, intact>>

\* unshift(k1, v1, ...): reverse, assign the pairs from the last one on the
\* stack, reverse again.  The loop counts i up and nargs down by two.
\* was and pairs are history, for the properties.
UnshiftReverse(pairs) ==
  /\ Call
  /\ pairs # << >>
  /\ ReverseSlots(1, DefaultEnd)
  /\ todo' = IF RaisesReversing(1, DefaultEnd) THEN Idle
             ELSE [pc |-> "write", left |-> pairs, i |-> 0, nargs |-> 2 * Len(pairs),
                   was |-> keys, pairs |-> pairs]
  /\ out' = << >>
  /\ UNCHANGED base

\* Mutant of UnshiftWrite: the pairs are taken from the first one on.
UnshiftWriteForwards ==
  /\ intact /\ todo.pc = "write"
  /\ todo.i <= todo.nargs
  /\ \E ok \in BOOLEAN :
       /\ Assign(todo.left[1][1], todo.left[1][2], ok)
       /\ todo' = IF ok THEN [todo EXCEPT !.left = Tail(@),
                                          !.i = @ + 1, !.nargs = @ - 2]
                  ELSE Idle
  /\ UNCHANGED <<base, out>>

UnshiftWrite ==
  /\ intact /\ todo.pc = "write"
  /\ todo.i <= todo.nargs
  /\ LET n == Len(todo.left)
     IN \E ok \in BOOLEAN :
          /\ Assign(todo.left[n][1], todo.left[n][2], ok)
          /\ todo' = IF ok THEN [todo EXCEPT !.left = SubSeq(@, 1, n - 1),
                                             !.i = @ + 1, !.nargs = @ - 2]
                     ELSE Idle
  /\ UNCHANGED <<base, out>>

UnshiftRestore ==
  /\ intact /\ todo.pc = "write" /\ Quiet
  /\ todo.i > todo.nargs
  /\ ReverseSlots(1, DefaultEnd)

\* t = obj.env; t[k] = v for a key that is there: Lua writes the table itself.
\* (For a key that is not there the env's metatable sends it to NewIndex.)
RawSet(k, v) ==
  /\ Call /\ Quiet
  /\ Stored(k)
  /\ env' = [env EXCEPT ![k] = v]
  /\ UNCHANGED <<keys, map, nelms, intact>>

\* Mutant of JsonBase: the flag is kept one too high.
JsonBaseHigh(b) ==
  /\ Call
  /\ base' = b + 1 /\ out' = << >>
  /\ UNCHANGED <<env, keys, map, nelms, intact, todo>>

JsonBase(b) ==
  /\ Call
  /\ base' = b /\ out' = << >>
  /\ UNCHANGED <<env, keys, map, nelms, intact, todo>>

-------------------------------------------------------------------------------
(***************************************************************************)
(* tojson(start, end).  The renderer walks the slots; at the first one     *)
(* whose value is gone it deletes the slot and, since that resets          *)
(* elm->idx, stops.  An opaque value prints nothing, but its comma has     *)
(* been written: it appears in out as itself.  One try of the renderer: of *)
(* a long text there may be a second one (Rendering), which is a Tojson of *)
(* its own and may take another hole.                                      *)
(***************************************************************************)
\* The default end is (uint16_t)nelms: a negative count reads as a large one.
LastSlot == IF nelms < 0 THEN Len(keys) ELSE nelms

Holes(s, e) == {i \in s..e : i \in DOMAIN keys /\ ~Stored(keys[i])}

FirstHole(s, e) == CHOOSE i \in Holes(s, e) : \A j \in Holes(s, e) : i <= j

\* Mutant of StopsAfter: the loop ends before its last slot.
StopsAfterShort(s, e) ==
  IF Holes(s, e) # {} THEN FirstHole(s, e) - 1
  ELSE IF e > Len(keys) THEN Len(keys) ELSE e - 1

\* The last slot printed.
StopsAfter(s, e) ==
  IF Holes(s, e) # {} THEN FirstHole(s, e) - 1
  ELSE IF e > Len(keys) THEN Len(keys) ELSE e

Printed(s, e) ==
  LET n == StopsAfter(s, e)
  IN  [p \in 1..(IF s <= n THEN n - s + 1 ELSE 0) |->
         <<keys[s + p - 1], env[keys[s + p - 1]]>>]

Tojson(s, e) ==
  /\ Call
  /\ out' = Printed(s, e)
  /\ IF Holes(s, e) = {} THEN UNCHANGED <<keys, map, nelms, intact>>
     ELSE /\ DropSlot(keys, map, FirstHole(s, e))
          /\ nelms' = nelms - 1
  /\ UNCHANGED <<env, base, todo>>

-------------------------------------------------------------------------------
\* Bound: a deletion that the key list does not pay for can be repeated for
\* ever; it is not once the count is below zero.
CountFloor == -1

\* The calls a script with the given habits makes.
Input(k, v) ==
  /\ k = EnvKey => May("env_key")
  /\ v = Opaque => May("opaque")
  /\ v = Rejected => May("rejected")
  /\ v = Absent => \/ Stored(k) /\ env[k] # Opaque
                   \/ ~Stored(k) /\ May("nil_missing") /\ nelms > CountFloor
                   \/ env[k] = Opaque /\ May("nil_opaque")
  /\ Len(keys) < MaxKeys \/ Indexed(k)

Assignments ==
  \E k \in Keys, v \in AnyValue :
    /\ Input(k, v)
    /\ \/ NewIndex(k, v)
       \/ Push(k, v)
       \/ \E at \in Keys \cup DOMAIN keys : InsertAssign(at, k, v)

\* reverse without an end, and so unshift, goes as far as the count says.
GoesToCount ==
  /\ nelms = 0 => May("reverse_empty")
  /\ nelms < 0 => May("reverse_negative")

Unshiftable ==
  {q \in Pairs : Input(q[1], q[2]) /\ (q[2] = Absent => May("unshift_nil"))}

Unshifts ==
  \E n \in 1..MaxPairs :
    /\ Len(keys) + n <= MaxKeys
    /\ GoesToCount
    /\ \E pairs \in [1..n -> Unshiftable] : UnshiftReverse(pairs)

Reads ==
  \E k \in Keys :
    /\ (k # EnvKey /\ ~Indexed(k)) => (May("read_missing") /\ Len(keys) < MaxKeys)
    /\ Index(k)

RawWrites ==
  \E k \in Keys, v \in AnyValue \ {Rejected} :
    /\ v = Absent => May("raw_nil")
    /\ v = Opaque => May("opaque")
    /\ env[k] = Opaque => May("opaque")
    /\ RawSet(k, v)

Rearrangements ==
  \/ \E a, b \in Positions : Reverse(a, b) \/ Move(a, b)
  \/ GoesToCount /\ \E a \in Positions \cup {1} : Reverse(a, DefaultEnd)

Renderings ==
  Call /\ \E s, e \in Positions \cup {1, LastSlot} :
    /\ Holes(s, e) # {} => nelms > CountFloor
    /\ <<s, e>> = <<1, LastSlot>> \/ {s, e} \subseteq Positions
    /\ Tojson(s, e)

\* Once keys[0] is lost the next lookup indexes something that is no table, and
\* with a nil in the list it is up to Lua how long the list is: the model ends.
Undefined == (~intact \/ Torn) /\ UNCHANGED vars

Next ==
  \/ Assignments \/ Unshifts \/ UnshiftWrite \/ UnshiftRestore \/ InsertPlace
  \/ Reads \/ RawWrites \/ Rearrangements \/ Renderings
  \/ Pop \/ Shift
  \/ May("one_based") /\ \E b \in {0, 1} : JsonBase(b)
  \/ Undefined

Spec == Init /\ [][Next]_vars
===============================================================================
