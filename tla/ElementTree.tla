----------------------------- MODULE ElementTree ------------------------------
(***************************************************************************)
(* Nested elements, their length ledger and the events that keep it        *)
(* (lua_json.c, lua_json_elm_event.c).  Every element keeps base->rlen,    *)
(* the length of its own text including everything nested in it.  A store  *)
(* measures the new and the old value, adds the difference to the          *)
(* element's ledger and fires an event; each container of the element has  *)
(* subscribed to it, adds the same difference and fires in turn.  Writes   *)
(* made through elm.env bypass all this; reading .env therefore marks the  *)
(* element, and through the same events its containers, as stale.          *)
(*                                                                         *)
(* The walk up is modelled call by call: `calls` is the C stack of         *)
(* subject_set_values activations.  Slots are the places of an array or    *)
(* the keys of an object; their order does not matter here.                *)
(***************************************************************************)
EXTENDS Integers, Sequences, FiniteSets, Functions

CONSTANTS
  Elms,      \* the elements, arrays or objects
  Slots,     \* places in an element
  Prims,     \* values without structure
  Width,     \* Prims -> characters in the text of the value
  KeyWidth,  \* Elms -> characters of "key":, 0 for an array
  Vacant,    \* nothing stored
  Roots,     \* the elements a careful script renders and never nests
  MaxDepth,  \* bound: activations on the C stack
  MaxLen,    \* bound: nothing is added once a ledger is further from 0 than this
  Habits     \* what the calling script may do, see HabitNames

HabitNames ==
  {"cycle",            \* nest a root, or an element in what is nested deep in it
   "child_over_prim",  \* replace a plain value by an element
   "raw",              \* t = e.env, then assign to a slot of t
   "deep_raw",         \* ... below a container that is itself nested
   "held",             \* ... using a table fetched before the last rendering
   "stale_child",      \* nest, take out or replace an element marked stale
   "render_part"}      \* render a nested element, or part of an element

ASSUME ConstantsAreSound ==
  /\ Habits \subseteq HabitNames
  /\ IsFiniteSet(Elms) /\ IsFiniteSet(Slots)
  /\ Roots \subseteq Elms
  /\ Width \in [Prims -> Nat]
  /\ KeyWidth \in [Elms -> Nat]
  /\ Elms \cap Prims = {}
  /\ Vacant \notin Elms \cup Prims
  /\ MaxDepth \in Nat
  /\ MaxLen \in Nat

VARIABLES
  store,   \* the env tables: element -> slot -> value
  rlen,    \* base->rlen
  stale,   \* elm->stale
  ids,     \* vtable.ids: the element itself and the elements it has subscribed to
  obs,     \* observers of an element's three subjects, in calling order
  calls,   \* activations of subject_set_values, innermost last
  ev,      \* the event being passed up
  slack,   \* history: ledger convention minus text length, at the last rendering
  fresh    \* history: elements whose env table was fetched since the last rendering

vars == <<store, rlen, stale, ids, obs, calls, ev, slack, fresh>>

May(h) == h \in Habits
Value == Prims \cup Elms \cup {Vacant}
Children(e) == {store[e][s] : s \in Slots} \cap Elms
Containers(c) == {e \in Elms : c \in Children(e)}
Used(e) == {s \in Slots : store[e][s] # Vacant}

\* Everything nested in e, at any depth.
Below(e) ==
  LET Level[d \in 0..Cardinality(Elms)] ==
        IF d = 0 THEN Children(e)
        ELSE Level[d - 1] \cup UNION {Children(x) : x \in Level[d - 1]}
  IN  Level[Cardinality(Elms)]

\* The text of e would contain itself.
Endless(e) == \E x \in {e} \cup Below(e) : x \in Below(x)

NoEvent == [type |-> "none", delta |-> 0]

Init ==
  /\ store = [e \in Elms |-> [s \in Slots |-> Vacant]]
  /\ rlen = [e \in Elms |-> 2]
  /\ stale = [e \in Elms |-> FALSE]
  /\ ids = [e \in Elms |-> {e}]
  /\ obs = [e \in Elms |-> << >>]
  /\ calls = << >>
  /\ ev = NoEvent
  /\ slack = [e \in Elms |-> 0]
  /\ fresh = {}

-------------------------------------------------------------------------------
(***************************************************************************)
(* Lengths.  The renderer writes two brackets, the items and a comma       *)
(* between them; the ledger books one comma per plain item and none for a  *)
(* nested element, which brings the one it has too many of its own.        *)
(* Nesting is finite wherever these are used.                              *)
(***************************************************************************)
Commas(n) == IF n = 0 THEN 0 ELSE n - 1

NoLengths == [x \in Elms |-> 0]

\* Length of the text of e, what is nested in it included.
Text(e) ==
  LET Level[d \in 0..Cardinality(Elms)] ==
        LET nested == IF d = 0 THEN NoLengths ELSE Level[d - 1]
            shown == [x \in Elms |-> [s \in Slots |->
                       KeyWidth[x] + (IF store[x][s] \in Prims THEN Width[store[x][s]]
                                      ELSE nested[store[x][s]])]]
        IN  [x \in Elms |->
               2 + Commas(Cardinality(Used(x))) + SumFunctionOnSet(shown[x], Used(x))]
  IN  Level[Cardinality(Elms)][e]

\* What the ledger of e should hold for a value, if len has the elements'.
Booking(e, v, len) ==
  IF v = Vacant THEN 0
  ELSE KeyWidth[e] + (IF v \in Prims THEN Width[v] + 1 ELSE len[v])

\* What the ledger of e holds if all bookings are right.
Ledger(e) ==
  LET Level[d \in 0..Cardinality(Elms)] ==
        LET nested == IF d = 0 THEN NoLengths ELSE Level[d - 1]
        IN  [x \in Elms |->
               2 + SumFunctionOnSet([s \in Slots |-> Booking(x, store[x][s], nested)], Slots)]
  IN  Level[Cardinality(Elms)][e]

\* Mutant of ValLength: no key is counted for a nested element.
ValLengthUnkeyed(e, v) ==
  IF v = Vacant THEN 0
  ELSE IF v \in Prims THEN KeyWidth[e] + Width[v] + 1 ELSE rlen[v]

\* lua_json_elm_get_val_length: what a value adds to the ledger of e.
ValLength(e, v) ==
  IF v = Vacant THEN 0
  ELSE KeyWidth[e] + (IF v \in Prims THEN Width[v] + 1 ELSE rlen[v])

-------------------------------------------------------------------------------
Settled == calls = << >>

\* Mutant of Fire: the activation starts in front of its first observer.
FireEarly(e, type, delta) ==
  /\ calls' = <<[at |-> e, next |-> 0]>>
  /\ ev' = [type |-> type, delta |-> delta]

\* subject_set_values on the subject of e that takes this type of event.
Fire(e, type, delta) ==
  /\ calls' = <<[at |-> e, next |-> 1]>>
  /\ ev' = [type |-> type, delta |-> delta]

\* Mutant of Contains: whether e is nested in c is not asked.
ContainsDownOnly(e, c) == c = e \/ c \in ids[e]

\* Mutant of Contains: whether c is nested in e already is not asked.
ContainsUpOnly(e, c) == c = e \/ e \in ids[c]

\* lua_json_elm_contains, which looks one level deep.
Contains(e, c) == c = e \/ e \in ids[c] \/ c \in ids[e]

Subscribed(e, c) == [obs EXCEPT ![c] = <<e>> \o @]

\* Take the first entry for e out of a list of observers.
FirstOf(e, s) == CHOOSE i \in DOMAIN s : s[i] = e /\ \A j \in 1..(i - 1) : s[j] # e
Unlist(e, s) ==
  IF \A i \in DOMAIN s : s[i] # e THEN s
  ELSE [i \in 1..(Len(s) - 1) |-> IF i < FirstOf(e, s) THEN s[i] ELSE s[i + 1]]

Unsubscribed(e, c) == [obs EXCEPT ![c] = Unlist(e, @)]

\* Mutant of Relink: nothing is subscribed when one element replaces another.
RelinkSwapLess(e, old, new) ==
  CASE old = Vacant /\ new \in Elms ->
         /\ obs' = Subscribed(e, new)
         /\ ids' = [ids EXCEPT ![e] = @ \cup {new}]
    [] old \in Elms ->
         /\ obs' = Unsubscribed(e, old)
         /\ ids' = [ids EXCEPT ![e] = @ \ {old}]
    [] OTHER -> UNCHANGED <<obs, ids>>

\* Mutant of Relink: an element that is deleted stays subscribed to.
RelinkKeeping(e, old, new) ==
  CASE old = Vacant /\ new \in Elms ->
         /\ obs' = Subscribed(e, new)
         /\ ids' = [ids EXCEPT ![e] = @ \cup {new}]
    [] old \in Elms /\ new \in Elms ->
         /\ obs' = [Unsubscribed(e, old) EXCEPT ![new] = <<e>> \o @]
         /\ ids' = [ids EXCEPT ![e] = (@ \ {old}) \cup {new}]
    [] OTHER -> UNCHANGED <<obs, ids>>

\* The first part of update_rlen: who listens to whom.  A plain value that is
\* replaced leaves nothing to unsubscribe, and then nothing is subscribed.
Relink(e, old, new) ==
  CASE old = Vacant /\ new \in Elms ->
         /\ obs' = Subscribed(e, new)
         /\ ids' = [ids EXCEPT ![e] = @ \cup {new}]
    [] old \in Elms /\ new \in Elms ->
         /\ obs' = [Unsubscribed(e, old) EXCEPT ![new] = <<e>> \o @]
         /\ ids' = [ids EXCEPT ![e] = (@ \ {old}) \cup {new}]
    [] old \in Elms /\ new \notin Elms ->
         /\ obs' = Unsubscribed(e, old)
         /\ ids' = [ids EXCEPT ![e] = @ \ {old}]
    [] OTHER -> UNCHANGED <<obs, ids>>

\* e[s] = v through the element: measure, relink, commit, fire.
Store(e, s, v) ==
  LET old == store[e][s]
      delta == ValLength(e, v) - ValLength(e, old)
  IN  /\ Settled
      /\ <<old, v>> # <<Vacant, Vacant>>
      /\ v \in Elms => ~Contains(e, v)
      /\ Relink(e, old, v)
      /\ rlen' = [rlen EXCEPT ![e] = @ + delta]
      /\ Fire(e, IF old = Vacant THEN "newindex" ELSE "change", delta)
      /\ store' = [store EXCEPT ![e][s] = v]
      /\ UNCHANGED <<stale, slack, fresh>>

\* Reading e.env marks e and tells its containers, whether or not it was
\* marked before.
ReadEnv(e) ==
  /\ Settled
  /\ stale' = [stale EXCEPT ![e] = TRUE]
  /\ Fire(e, "env", 0)
  /\ fresh' = fresh \cup {e}
  /\ UNCHANGED <<store, rlen, ids, obs, slack>>

\* Lua assigns to an existing field of the env table itself.  Bound: plain
\* values only.
RawWrite(e, s, v) ==
  /\ Settled
  /\ {store[e][s], v} \subseteq Prims
  /\ store' = [store EXCEPT ![e][s] = v]
  /\ UNCHANGED <<rlen, stale, ids, obs, calls, ev, slack, fresh>>

\* Mutant of Handle: a change is taken to be absolute.
HandleAbsolute(o) ==
  IF ev.type = "env"
    THEN /\ stale' = [stale EXCEPT ![o] = TRUE]
         /\ UNCHANGED rlen
    ELSE /\ rlen' = [rlen EXCEPT ![o] = IF ev.type = "change" THEN ev.delta
                                        ELSE @ + ev.delta]
         /\ UNCHANGED stale

\* Mutant of Handle: env_on_change marks nothing.
HandleUnmarked(o) ==
  IF ev.type = "env" THEN UNCHANGED <<stale, rlen>>
  ELSE /\ rlen' = [rlen EXCEPT ![o] = @ + ev.delta]
       /\ UNCHANGED stale

\* The handlers on_newindex, on_change and env_on_change of observer o: what
\* they do to o, and whether they pass the event on.
Handle(o) ==
  IF ev.type = "env"
    THEN /\ stale' = [stale EXCEPT ![o] = TRUE]
         /\ UNCHANGED rlen
    ELSE /\ rlen' = [rlen EXCEPT ![o] = @ + ev.delta]
         /\ UNCHANGED stale

PassesOn(o) == ev.type = "env" => ~stale[o]

\* The innermost activation calls its next observer.
Notify ==
  LET n == Len(calls)
      top == calls[n]
      o == obs[top.at][top.next]
      rest == [calls EXCEPT ![n].next = @ + 1]
  IN  /\ ~Settled /\ n < MaxDepth
      /\ top.next <= Len(obs[top.at])
      /\ Handle(o)
      /\ calls' = IF PassesOn(o) THEN Append(rest, [at |-> o, next |-> 1]) ELSE rest
      /\ UNCHANGED <<store, ids, obs, ev, slack, fresh>>

\* The innermost activation has called all its observers.
Return ==
  LET n == Len(calls)
  IN  /\ ~Settled
      /\ calls[n].next > Len(obs[calls[n].at])
      /\ calls' = SubSeq(calls, 1, n - 1)
      /\ ev' = IF n = 1 THEN NoEvent ELSE ev
      /\ UNCHANGED <<store, rlen, stale, ids, obs, slack, fresh>>

\* tojson(): the text is exact, and its length replaces the ledger's.
Stringify(e) ==
  /\ Settled
  /\ ~Endless(e)
  /\ rlen' = [rlen EXCEPT ![e] = Text(e)]
  /\ stale' = [stale EXCEPT ![e] = FALSE]
  /\ slack' = [slack EXCEPT ![e] = Ledger(e) - Text(e)]
  /\ fresh' = {}
  /\ UNCHANGED <<store, ids, obs, calls, ev>>

\* tojson(i): so does the length of a part.
StringifyOne(e, s) ==
  /\ Settled
  /\ store[e][s] # Vacant
  /\ store[e][s] \in Elms => ~Endless(store[e][s])
  /\ rlen' = [rlen EXCEPT ![e] = 2 + KeyWidth[e] +
                (IF store[e][s] \in Prims THEN Width[store[e][s]] ELSE Text(store[e][s]))]
  /\ stale' = [stale EXCEPT ![e] = FALSE]
  /\ fresh' = {}
  /\ UNCHANGED <<store, ids, obs, calls, ev, slack>>

\* len() renders a stale element and answers from the ledger otherwise.
Length(e) == stale[e] /\ Stringify(e)

-------------------------------------------------------------------------------
\* The calls a script with the given habits makes.
Stores ==
  \E e \in Elms, s \in Slots, v \in Value :
    /\ (v \in Elms /\ store[e][s] \in Prims) => May("child_over_prim")
    /\ (v \in Elms /\ (v \in Roots \/ e \in Below(v) \ Children(v))) => May("cycle")
    /\ \A x \in {v, store[e][s]} \cap Elms : stale[x] => May("stale_child")
    /\ v \in Elms => \A x \in Below(v) : stale[x] => May("stale_child")
    /\ v = Vacant \/ \A x \in Elms : rlen[x] \in -MaxLen..MaxLen
    /\ Store(e, s, v)

Deep(e) == \E p \in Containers(e) : Containers(p) # {}

EnvReads ==
  \E e \in Elms :
    /\ May("raw")
    /\ Deep(e) => May("deep_raw")
    /\ ReadEnv(e)

RawWrites ==
  \E e \in Elms, s \in Slots, v \in Prims :
    /\ IF e \in fresh THEN May("raw") ELSE May("held")
    /\ Deep(e) => May("deep_raw")
    /\ RawWrite(e, s, v)

Renderings ==
  \/ \E e \in Elms : (e \in Roots \/ May("render_part")) /\ (Stringify(e) \/ Length(e))
  \/ May("render_part") /\ \E e \in Elms, s \in Slots : StringifyOne(e, s)

\* The C stack has run out, in a walk up or in a rendering.
Overflow ==
  /\ \/ Len(calls) >= MaxDepth
     \/ Settled /\ \E e \in Roots : Endless(e)
  /\ UNCHANGED vars

Next == Stores \/ EnvReads \/ RawWrites \/ Renderings \/ Notify \/ Return \/ Overflow

\* One thread runs an event to its end before anything else.
Bubble == Notify \/ Return

Spec == Init /\ [][Next]_vars
FairSpec == Spec /\ WF_vars(Bubble)
===============================================================================
