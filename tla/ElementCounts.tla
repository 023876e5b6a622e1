----------------------------- MODULE ElementCounts ----------------------------
(***************************************************************************)
(* The counters an element keeps of its text (base in lua_json.h): its     *)
(* length as JSON, its keys and quoted strings, from which the lengths in  *)
(* the other modes are computed, and the Lua tables among its values,      *)
(* whose text is not known before they are rendered.  All of them include  *)
(* what is nested.  Every store books the difference between the new value *)
(* and the old one, here and in the containers; every rendering counts     *)
(* again.                                                                  *)
(*                                                                         *)
(* ElementTree has the walk of an event through the containers call by     *)
(* call, and the ways in which it misses one; here a booking reaches all   *)
(* of them at once.  Bounds: an element has at most one container, and is  *)
(* stored in a vacant slot only; nothing more is stored while a counter is  *)
(* unsound, before the next rendering of its element.                      *)
(***************************************************************************)
EXTENDS Marshal, FiniteSets, Functions

CONSTANTS
  Elms, Objects,  \* the elements; those of them that are no arrays
  Slots,          \* places in an element
  Strings, Plain, \* values with and without quotes
  Width,          \* their length
  KeyLen,         \* length of every key
  Table,          \* a Lua table as a value: {k = "v"}
  Vacant,         \* nothing stored
  RenderModes,    \* the modes of the script's renderings
  MaxDeleted      \* bound: deletions between two renderings of an element

ASSUME ConstantsAreSound ==
  /\ IsFiniteSet(Elms) /\ IsFiniteSet(Slots)
  /\ Objects \subseteq Elms
  /\ Strings \cap Plain = {} /\ (Strings \cup Plain) \cap Elms = {}
  /\ {Table, Vacant} \cap (Strings \cup Plain \cup Elms) = {} /\ Table # Vacant
  /\ Width \in [Strings \cup Plain -> Nat]
  /\ RenderModes \subseteq Modes
  /\ KeyLen \in Nat /\ MaxDeleted \in Nat

VARIABLES
  store,    \* the env tables: element -> slot -> value
  base,     \* element -> its counters
  deleted,  \* history: pairs deleted in an object since its last rendering
  unread,   \* history: elements with a table booked by no rendering yet
  trusted   \* history: elements with no unsound booking since their rendering

vars == <<store, base, deleted, unread, trusted>>

Value == Strings \cup Plain \cup Elms \cup {Table, Vacant}
Children(e) == {store[e][s] : s \in Slots} \cap Elms
Containers(c) == {e \in Elms : c \in Children(e)}

\* e and everything nested in it.
Inside(e) ==
  LET Level[d \in 0..Cardinality(Elms)] ==
        IF d = 0 THEN {e}
        ELSE LET above == Level[d - 1] IN above \cup UNION {Children(x) : x \in above}
  IN  Level[Cardinality(Elms)]
WithContainers(e) == {x \in Elms : e \in Inside(x)}

\* The places in the text of e, and those among them where a value stands that
\* is of a kind, or of an object.
Parts(e) == {p \in Inside(e) \X Slots : store[p[1]][p[2]] # Vacant}
Holding(parts, kind) == {p \in parts : store[p[1]][p[2]] \in kind}
Keyed(parts) == {p \in parts : p[1] \in Objects}

-------------------------------------------------------------------------------
\* The text of e: lua_json_object_render and lua_json_array_render.  The parts of
\* a nested element are parts of the text themselves.
TableText(m) == Brackets + KeyText(m, 1) + StringText(m, 1)
ValueText(m, v) ==
  CASE v \in Strings -> StringText(m, Width[v])
    [] v \in Plain -> PlainText(Width[v])
    [] v \in Elms -> Brackets
    [] OTHER -> TableText(m)
PartText(m, p) ==
  (IF p[1] \in Objects THEN KeyText(m, KeyLen) ELSE 0) + ValueText(m, store[p[1]][p[2]])

\* Brackets around it, and a comma in front of every part but the first of each
\* element.
TextLen(parts, m) ==
  Brackets + Cardinality(parts) - Cardinality({p[1] : p \in parts})
    + SumFunctionOnSet([p \in parts |-> PartText(m, p)], parts)

\* What the printers count on the way: nkeys, quoted, has_refs.
TablesIn(parts) == Cardinality(Holding(parts, {Table}))
KeysIn(parts) == Cardinality(Keyed(parts)) + TablesIn(parts)
QuotedIn(parts) == Cardinality(Holding(parts, Strings \cup {Table}))

-------------------------------------------------------------------------------
Amount(r, k, q) == [rlen |-> r, nkeys |-> k, quoted |-> q]
Booked(b, d) == [b EXCEPT !.rlen = @ + d.rlen, !.nkeys = @ + d.nkeys, !.quoted = @ + d.quoted]
KeyBooked(e) == IF e \in Objects THEN KeyLen + 3 ELSE 0

\* Mutant of ValLength: the quotes of a string are not counted.
ValLengthUnquoted(e, v) ==
  CASE v \in Strings -> Amount(KeyBooked(e) + Width[v] + 3, 0, 0)
    [] v \in Plain -> Amount(KeyBooked(e) + Width[v] + 1, 0, 0)
    [] v \in Elms -> Amount(KeyBooked(e) + base[v].rlen, base[v].nkeys, base[v].quoted)
    [] v = Table -> Amount(KeyBooked(e) + base[e].rlen, base[e].nkeys, base[e].quoted)
    [] OTHER -> Amount(0, 0, 0)

\* lua_json_elm_get_val_length.  For a table lua_json_table_rlen reads the base
\* of the element at the bottom of the stack, which is the container's own.
ValLength(e, v) ==
  CASE v \in Strings -> Amount(KeyBooked(e) + Width[v] + 3, 0, 1)
    [] v \in Plain -> Amount(KeyBooked(e) + Width[v] + 1, 0, 0)
    [] v \in Elms -> Amount(KeyBooked(e) + base[v].rlen, base[v].nkeys, base[v].quoted)
    [] v = Table -> Amount(KeyBooked(e) + base[e].rlen, base[e].nkeys, base[e].quoted)
    [] OTHER -> Amount(0, 0, 0)

\* The key itself is booked with the first value and taken back with the last.
KeyChange(e, old, v) ==
  CASE e \notin Objects -> 0
    [] e \in Objects /\ old = Vacant -> 1
    [] e \in Objects /\ v = Vacant -> -1
    [] OTHER -> 0

Change(e, old, v) ==
  LET n == ValLength(e, v)  x == ValLength(e, old)
  IN  Amount(n.rlen - x.rlen, n.nkeys - x.nkeys + KeyChange(e, old, v), n.quoted - x.quoted)

\* A table is counted under a new index only, and taken back under any.
TableRefs(old, v) ==
  CASE old = Vacant /\ v = Table -> 1
    [] old = Table -> -1
    [] OTHER -> 0

\* Bookings that leave the counters right, apart from an own deletion.
Sound(e, old, v) ==
  /\ v = Table => old = Vacant /\ Containers(e) = {}
  /\ old # Table
  /\ \A c \in {old, v} \cap Elms :
       c \in trusted \ unread /\ deleted[c] = 0 /\ TablesIn(Parts(c)) = 0

\* e[s] = v: measure, commit, tell the containers.  lua_json_object_del_key
\* takes a deleted key back once more, from the object's own counter.
Store(e, s, v) ==
  LET old == store[e][s]
      reached == WithContainers(e)
      change == Change(e, old, v)
      again == IF e \in Objects /\ v = Vacant THEN 1 ELSE 0
      own == [Booked(base[e], change) EXCEPT !.nkeys = @ - again, !.trefs = @ + TableRefs(old, v)]
  IN  /\ <<old, v>> # <<Vacant, Vacant>>
      /\ store' = [store EXCEPT ![e][s] = v]
      /\ base' = [x \in Elms |-> CASE x = e -> own
                                   [] x # e /\ x \in reached -> Booked(base[x], change)
                                   [] OTHER -> base[x]]
      /\ deleted' = [deleted EXCEPT ![e] = @ + again]
      /\ unread' = IF Table \in {old, v} \/ {old, v} \cap unread # {}
                     THEN unread \cup reached ELSE unread
      /\ trusted' = IF Sound(e, old, v) THEN trusted ELSE trusted \ reached

\* The counters after a rendering.
Recount(parts, m) ==
  ToBase(TextLen(parts, m), m, KeysIn(parts), QuotedIn(parts), TablesIn(parts))

\* tojson and totable; parts is the text of e.
Stringify(e, parts, m) ==
  /\ base' = [base EXCEPT ![e] = Recount(parts, m)]
  /\ deleted' = [deleted EXCEPT ![e] = 0]
  /\ unread' = unread \ {e}
  /\ trusted' = trusted \cup {e}
  /\ UNCHANGED store

\* len() renders an element with tables first, as JSON, escaped or not.
Length(e, parts) ==
  base[e].trefs # 0 /\ \E esc \in BOOLEAN : Stringify(e, parts, [lua |-> FALSE, esc |-> esc])

-------------------------------------------------------------------------------
Init ==
  /\ store = [e \in Elms |-> [s \in Slots |-> Vacant]]
  /\ base = [e \in Elms |-> [rlen |-> 2, nkeys |-> 0, quoted |-> 0, trefs |-> 0]]
  /\ deleted = [e \in Elms |-> 0]
  /\ unread = {}
  /\ trusted = Elms

Stores ==
  \E e \in Elms, s \in Slots, v \in Value :
    /\ trusted = Elms
    /\ v \in Elms => store[e][s] = Vacant /\ Containers(v) = {} /\ e \notin Inside(v)
    /\ v = Vacant => deleted[e] < MaxDeleted
    /\ Store(e, s, v)

Renderings ==
  \E e \in Elms :
    LET parts == Parts(e)
    IN  (\E m \in RenderModes : Stringify(e, parts, m)) \/ Length(e, parts)

Next == Stores \/ Renderings

Spec == Init /\ [][Next]_vars
===============================================================================
