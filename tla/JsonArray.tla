------------------------------ MODULE JsonArray -------------------------------
(***************************************************************************)
(* One JSON array of LuaJson (lua_json_array.c, with the index handling of *)
(* lua_json.c): a Lua table `env` holds the items in slots 1..nelms, and   *)
(* every insertion and removal shifts the slots above it by hand.  The     *)
(* slot a call is about is kept in the element, in elm->idx, and stays     *)
(* there for the next call that does not set one.                          *)
(*                                                                         *)
(* A position p of a script is slot p + base; the actions are written with *)
(* slots.  Lengths and events are in ElementTree; nesting appears here     *)
(* only as the value Rejected, an element that lua_json_elm_contains       *)
(* refuses.                                                                *)
(***************************************************************************)
EXTENDS Integers, Sequences

CONSTANTS
  Values,    \* printable values
  Opaque,    \* a value the renderer has no case for: a function, a thread
  Rejected,  \* an element whose nesting is refused as recursive
  Absent,    \* nil
  IdxMod,    \* elm->idx is a uint16_t: 65536
  MaxElms,   \* bound: the array is not grown past this
  MaxArgs,   \* bound: values passed to one unshift
  Habits     \* what the calling script may do, see HabitNames

HabitNames ==
  {"end_position",  \* move, reverse, delete or print the place behind the last item
   "raw_nil",       \* t = arr.env; t[i] = nil for an item
   "opaque",        \* store a function
   "rejected",      \* try to nest an element that is refused
   "string_key",    \* assign to a key that is no number
   "env_append",    \* t = arr.env; t[i] = v where nothing is stored
   "one_based"}     \* switch the element to 1-based positions

ASSUME ConstantsAreSound ==
  /\ Habits \subseteq HabitNames
  /\ IdxMod \in Nat \ {0, 1}
  /\ MaxElms \in Nat
  /\ MaxArgs \in Nat
  /\ Absent \notin Values \cup {Opaque, Rejected}
  /\ Opaque \notin Values
  /\ Rejected \notin Values \cup {Opaque}

VARIABLES
  env,      \* slot -> raw value in the env table
  nelms,    \* elm->nelms; a size_t, read back as an int, so it may be negative
  base,     \* elm->index_json: 1 for 0-based positions, 0 for 1-based
  idx,      \* elm->idx, the slot of the last call that named one
  is_nil,   \* elm->is_nil as a rendering that raised leaves it
  intact,   \* FALSE once a rendering has taken values off the wrong stack places
  todo,     \* what is left of an unshift or a rendering that is under way
  out       \* the items the last tojson printed; << >> after any other call

vars == <<env, nelms, base, idx, is_nil, intact, todo, out>>

May(h) == h \in Habits
Slots == 0..(MaxElms + 1)
Idx16Wide(i) == i                            \* mutant of Idx16: a wider field
Idx16(i) == i % IdxMod
Named == {i \in Slots : i = Idx16(i)}        \* slots a position can name
InBounds(i) == i >= 1 /\ i <= nelms + 1       \* lua_json_elm_check_idx
Idle == [pc |-> "idle"]
AnyValue == Values \cup {Opaque, Rejected, Absent}
Items == [i \in 1..nelms |-> env[i]]

Init ==
  /\ env = [i \in Slots |-> Absent]
  /\ nelms = 0
  /\ base = 1
  /\ idx = 0
  /\ is_nil = FALSE
  /\ intact = TRUE
  /\ todo = Idle
  /\ out = << >>

-------------------------------------------------------------------------------
(***************************************************************************)
(* The four loops over the slots.                                          *)
(***************************************************************************)
\* Mutant of Closed: the last item is left where it was.
ClosedShort(f, i, n) ==
  [j \in DOMAIN f |-> IF i <= j /\ j < n - 1 THEN f[j + 1] ELSE f[j]]

\* Mutant of Closed: the loop starts one slot low.
ClosedLow(f, i, n) == [j \in DOMAIN f |-> IF i - 1 <= j /\ j < n THEN f[j + 1] ELSE f[j]]

\* array_del: f[j] = f[j + 1] from i up to n - 1; f[n] is not cleared.
Closed(f, i, n) == [j \in DOMAIN f |-> IF i <= j /\ j < n THEN f[j + 1] ELSE f[j]]

\* Mutant of Opened: the shift stops above i.
OpenedShort(f, i, n, v) ==
  [j \in DOMAIN f |-> IF j = i THEN v
                      ELSE IF i + 1 < j /\ j <= n + 1 THEN f[j - 1] ELSE f[j]]

\* insert, with n items after it: f[j + 1] = f[j] from n down to i, then v in i.
Opened(f, i, n, v) ==
  [j \in DOMAIN f |-> IF j = i THEN v
                      ELSE IF i < j /\ j <= n + 1 THEN f[j - 1] ELSE f[j]]

\* Mutant of Moved: the shift towards m starts one slot late.
MovedShort(f, m, t) ==
  [j \in DOMAIN f |-> IF j = t THEN f[m]
                      ELSE IF m < j /\ j < t THEN f[j + 1]
                      ELSE IF t < j /\ j <= m THEN f[j - 1] ELSE f[j]]

\* move: the slots between m and t one place towards m, and f[m] in t.
Moved(f, m, t) ==
  [j \in DOMAIN f |-> IF j = t THEN f[m]
                      ELSE IF m <= j /\ j < t THEN f[j + 1]
                      ELSE IF t < j /\ j <= m THEN f[j - 1] ELSE f[j]]

\* reverse: the slots a..b end for end, in either order.
Flipped(f, a, b) ==
  [j \in DOMAIN f |-> IF j \in a..b \cup b..a THEN f[a + b - j] ELSE f[j]]

-------------------------------------------------------------------------------
(***************************************************************************)
(* arr[p] = v for slot i, the whole of lua_json_array_newindex.  The slot  *)
(* is remembered whether or not the call goes through.                     *)
(***************************************************************************)
Refused == UNCHANGED <<env, nelms, is_nil>>

\* NEW_INDEX: update_rlen counts the item.
AssignNew(i, v) ==
  /\ v \in Values /\ i = nelms + 1
  /\ env' = [env EXCEPT ![i] = v]
  /\ nelms' = nelms + 1
  /\ UNCHANGED is_nil

\* EXT_INDEX measures the old value first.  Where there is none the
\* measurement leaves the stack one short and the value is written elsewhere.
\* NIL_INDEX, for an is_nil that is left over, does the same and clears it.
AssignOver(i, v) ==
  /\ v \in Values /\ i <= nelms
  /\ env' = IF env[i] = Absent THEN env ELSE [env EXCEPT ![i] = v]
  /\ is_nil' = FALSE
  /\ UNCHANGED nelms

\* Nothing is measured and nothing counted for a value that cannot print.
AssignOpaque(i, v) ==
  /\ v = Opaque
  /\ env' = [env EXCEPT ![i] = v]
  /\ UNCHANGED <<nelms, is_nil>>

\* array_del on slot i.  Unless is_nil says that it has been done already, the
\* old value is measured, and after the measurement of a hole the shift writes
\* to the wrong table.
Remove(i, measured) ==
  /\ env' = IF env[i] = Absent /\ measured THEN env ELSE Closed(env, i, nelms)
  /\ nelms' = nelms - 1
  /\ is_nil' = FALSE

\* Out of bounds, recursive, or nil for a new slot.
AssignRefused(i, v) ==
  /\ ~InBounds(i) \/ v = Rejected \/ (v = Absent /\ i > nelms)
  /\ Refused

Assign(i, v) ==
  /\ idx' = i
  /\ \/ AssignRefused(i, v)
     \/ /\ InBounds(i)
        /\ \/ AssignNew(i, v) \/ AssignOver(i, v) \/ AssignOpaque(i, v)
           \/ v = Absent /\ i <= nelms /\ Remove(i, TRUE)

-------------------------------------------------------------------------------
(***************************************************************************)
(* The methods.  A call starts when no other is under way; out is the      *)
(* result of tojson and is blank after anything else.                      *)
(***************************************************************************)
Call == intact /\ todo = Idle
Quiet == todo' = Idle /\ out' = << >> /\ UNCHANGED <<base, intact>>

NewIndex(i, v) == Call /\ Quiet /\ Assign(i, v)

\* A key that is no number leaves elm->idx as it was, and the value goes there.
StringKey(v) == Call /\ Quiet /\ Assign(idx, v)

\* arr[p]: the slot is checked and remembered.
Read(i) ==
  /\ Call /\ Quiet
  /\ idx' = i
  /\ Refused

\* Mutant of PushSlot: the position is taken for the slot.
PushSlotLow == Idx16(nelms)

\* push assigns to position nelms, pop nil to position nelms - 1.
PushSlot == Idx16(nelms + base)

Push(v) == Call /\ Quiet /\ Assign(PushSlot, v)

Pop == Call /\ Quiet /\ Assign(Idx16(nelms - 1 + base), Absent)

\* del(p), and shift as del(0).
Delete(i) ==
  /\ Call /\ Quiet
  /\ idx' = i
  /\ IF InBounds(i) THEN Remove(i, ~is_nil) ELSE Refused

Shift ==
  IF nelms = 0 THEN Call /\ Quiet /\ Refused /\ UNCHANGED idx ELSE Delete(base)

Move(m, t) ==
  /\ Call /\ Quiet
  /\ InBounds(m) /\ InBounds(t)
  /\ idx' = t
  /\ env' = Moved(env, m, t)
  /\ UNCHANGED <<nelms, is_nil>>

Reverse(a, b) ==
  /\ Call /\ Quiet
  /\ InBounds(a) /\ InBounds(b)
  /\ idx' = b
  /\ env' = Flipped(env, a, b)
  /\ UNCHANGED <<nelms, is_nil>>

\* reverse(): slots 1..nelms, which are 1 and 0 for an empty array.  Bound: not
\* called where a count below zero, cut to its width, is behind the model's slots.
ReverseAll ==
  /\ Call /\ Quiet
  /\ Idx16(nelms) \in Slots
  /\ env' = Flipped(env, 1, Idx16(nelms))
  /\ UNCHANGED <<nelms, is_nil, idx>>

\* lua_json_array_insert at slot i.  The count goes up first, then the slots.
Insertable(i, v) == InBounds(i) /\ v \notin {Rejected, Absent}

InsertAtSlot(i, v) ==
  /\ idx' = i
  /\ UNCHANGED is_nil
  /\ IF Insertable(i, v)
       THEN /\ nelms' = nelms + 1
            /\ env' = Opened(env, i, nelms + 1, v)
       ELSE UNCHANGED <<env, nelms>>

Insert(i, v) == Call /\ Quiet /\ InsertAtSlot(i, v)

\* unshift(v1, ...): insert at position 0, from the last value on the stack to
\* the first, until one of them is refused.  given and was are history, for
\* the properties.
Unshift(vs) ==
  /\ Call
  /\ todo' = [pc |-> "unshift", left |-> vs, given |-> vs, was |-> Items]
  /\ out' = << >>
  /\ UNCHANGED <<env, nelms, base, idx, is_nil, intact>>

\* Mutant of UnshiftNext: the values are taken from the first one on.
UnshiftNextForwards(left) == <<left[1], Tail(left)>>

\* The value to insert next, and the ones after it.
UnshiftNext(left) == <<left[Len(left)], SubSeq(left, 1, Len(left) - 1)>>

UnshiftInsert ==
  /\ intact /\ todo.pc = "unshift"
  /\ todo.left # << >>
  /\ LET v == UnshiftNext(todo.left)[1]
     IN /\ InsertAtSlot(base, v)
        /\ todo' = IF Insertable(base, v) THEN [todo EXCEPT !.left = UnshiftNext(@)[2]]
                   ELSE Idle
  /\ UNCHANGED <<base, intact, out>>

UnshiftDone ==
  /\ intact /\ todo.pc = "unshift" /\ Quiet
  /\ todo.left = << >>
  /\ UNCHANGED <<env, nelms, idx, is_nil>>

\* t = arr.env; t[i] = v: Lua writes a field that is there itself, and leaves
\* one that is not to the env's metatable, which is the array's.
EnvSet(i, v) ==
  /\ Call /\ Quiet
  /\ IF env[i] = Absent THEN Assign(Idx16(i), v)
     ELSE /\ env' = [env EXCEPT ![i] = v]
          /\ UNCHANGED <<nelms, is_nil, idx>>

JsonBase(b) ==
  /\ Call
  /\ base' = b /\ out' = << >>
  /\ UNCHANGED <<env, nelms, idx, is_nil, intact, todo>>

-------------------------------------------------------------------------------
(***************************************************************************)
(* tojson(from, to).  The renderer walks the slots up to an end that is    *)
(* fixed when it starts.  A slot whose value is gone it hands to array_del *)
(* with align off, which makes array_del take the slot in elm->idx.  An    *)
(* opaque value prints nothing, but its comma has been written: it appears *)
(* in out as itself.                                                       *)
(***************************************************************************)
Fetched(i) == IF i \in Slots THEN env[i] ELSE Absent

Render(s, e) ==
  /\ todo' = [pc |-> "render", i |-> s, e |-> e]
  /\ out' = << >>
  /\ UNCHANGED <<env, nelms, base, is_nil, intact>>

\* With no arguments, 1..(uint16_t)nelms; a 0 there means nelms.
TojsonAll ==
  /\ Call
  /\ Render(1, IF Idx16(nelms) = 0 THEN nelms ELSE Idx16(nelms))
  /\ UNCHANGED idx

Tojson(s, e) ==
  /\ Call
  /\ InBounds(s) /\ InBounds(e)
  /\ Render(s, e)
  /\ idx' = e

Rendering == intact /\ todo.pc = "render" /\ todo.i <= todo.e

RenderItem ==
  /\ Rendering
  /\ Fetched(todo.i) # Absent
  /\ out' = Append(out, env[todo.i])
  /\ todo' = [todo EXCEPT !.i = @ + 1]
  /\ UNCHANGED <<env, nelms, base, idx, is_nil, intact>>

\* array_del raises: the rendering is over, and is_nil stays set.
HoleRaises ==
  /\ Rendering /\ Quiet
  /\ Fetched(todo.i) = Absent
  /\ ~InBounds(idx)
  /\ is_nil' = TRUE
  /\ UNCHANGED <<env, nelms, idx>>

\* array_del closes the slot in elm->idx, whatever it holds.  If that is a value,
\* the way out of array_del puts it in a stack place of the renderer's.
HoleClosed ==
  /\ Rendering
  /\ Fetched(todo.i) = Absent
  /\ InBounds(idx)
  /\ Remove(idx, FALSE)
  /\ intact' = (env[idx] = Absent)
  /\ todo' = IF nelms' >= 0 /\ todo.i >= nelms' THEN [todo EXCEPT !.e = todo.i - 1]
             ELSE todo
  /\ UNCHANGED <<base, idx, out>>

RenderDone ==
  /\ intact /\ todo.pc = "render"
  /\ todo.i > todo.e
  /\ todo' = Idle
  /\ UNCHANGED <<env, nelms, base, idx, is_nil, intact, out>>

-------------------------------------------------------------------------------
\* The calls a script with the given habits makes.
Input(v) ==
  /\ v = Opaque => May("opaque")
  /\ v = Rejected => May("rejected")

Room(v) == nelms < MaxElms \/ v \notin Values

InReach(i) == i <= nelms \/ May("end_position")

Assignments ==
  \E v \in AnyValue :
    /\ Input(v) /\ Room(v)
    /\ \/ \E i \in Named : NewIndex(i, v)
       \/ May("string_key") /\ StringKey(v)
       \/ Push(v)

Insertions ==
  \/ \E v \in AnyValue, i \in Named : Input(v) /\ nelms < MaxElms /\ Insert(i, v)
  \/ \E n \in 1..MaxArgs : \E vs \in [1..n -> Values \cup {Rejected}] :
       /\ \A i \in 1..n : Input(vs[i])
       /\ nelms + n <= MaxElms
       /\ Unshift(vs)

Deletions == Pop \/ Shift \/ \E i \in Named : InReach(i) /\ Delete(i)

RawWrites ==
  \E i \in 1..(MaxElms + 1), v \in AnyValue \ {Rejected} :
    /\ Input(v) /\ Room(v)
    /\ env[i] = Absent => May("env_append")
    /\ v = Absent => May("raw_nil")
    /\ EnvSet(i, v)

Rearrangements ==
  \/ \E a, b \in Named : InReach(a) /\ InReach(b) /\ (Move(a, b) \/ Reverse(a, b))
  \/ ReverseAll

Renderings ==
  \/ TojsonAll
  \/ \E s, e \in Named : InReach(s) /\ InReach(e) /\ Tojson(s, e)
  \/ RenderItem \/ HoleRaises \/ HoleClosed \/ RenderDone

\* Nothing is known of the program after a rendering has lost its stack.
Undefined == ~intact /\ UNCHANGED vars

Next ==
  \/ Assignments \/ Insertions \/ UnshiftInsert \/ UnshiftDone \/ Deletions
  \/ RawWrites \/ Rearrangements \/ Renderings
  \/ \E i \in Named : Read(i)
  \/ May("one_based") /\ \E b \in {0, 1} : JsonBase(b)
  \/ Undefined

Spec == Init /\ [][Next]_vars
===============================================================================
