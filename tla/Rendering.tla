------------------------------- MODULE Rendering ------------------------------
(***************************************************************************)
(* lua_json_elm_stringify, item by item.  A text that may outgrow the      *)
(* buffer on the Lua stack is built in a Lua state of its own: at once if  *)
(* the element knows that it is long, and in a second try if it cannot     *)
(* tell beforehand, because a script has had its env table or there are    *)
(* tables among its items.  The tries share their counters.                *)
(*                                                                         *)
(* One array or object whose items are all there; JsonArray and JsonObject *)
(* have the holes, for which the two tries are two renderings, and         *)
(* ElementCounts has what is nested, which is printed whole by the same    *)
(* counters.  Bound: MaxItems.                                             *)
(***************************************************************************)
EXTENDS Marshal, Sequences, Functions

CONSTANTS
  Strings, Plain, \* values with and without quotes
  Width,          \* their length
  KeyLen,         \* length of every key
  Table,          \* a Lua table as a value: {k = "v"}
  LMax,           \* seen.L_max: characters that fit the stack, 850
  MaxItems

ASSUME RenderingConstants ==
  /\ Width \in [Strings \cup Plain -> Nat]
  /\ {KeyLen, LMax, MaxItems} \subseteq Nat
  /\ Strings \cap Plain = {} /\ Table \notin Strings \cup Plain

VARIABLES
  isObject, \* arrays have no keys
  items,    \* the values, in their order
  base,     \* rlen, nkeys, quoted and trefs of the element
  stale,    \* a script has had the env table
  run       \* the rendering under way, or the last one if nothing came after

vars == <<isObject, items, base, stale, run>>

Value == Strings \cup Plain \cup {Table}
Idle == [pc |-> "idle"]
Ready == run.pc # "render"

-------------------------------------------------------------------------------
\* What the printers write for v, and count.
KeyPart(m) == IF isObject THEN KeyText(m, KeyLen) ELSE 0
ItemText(v, m) ==
  KeyPart(m) + (CASE v \in Strings -> StringText(m, Width[v])
                  [] v \in Plain -> PlainText(Width[v])
                  [] OTHER -> Brackets + KeyText(m, 1) + StringText(m, 1))

Keys(v) == (IF isObject THEN 1 ELSE 0) + (IF v = Table THEN 1 ELSE 0)
Quotes(v) == IF v \in Plain THEN 0 ELSE 1
Refs(v) == IF v = Table THEN 1 ELSE 0

TextLen(out, m) ==
  Brackets + (IF out = << >> THEN 0 ELSE Len(out) - 1)
    + SumFunction([i \in DOMAIN out |-> ItemText(out[i], m)])

-------------------------------------------------------------------------------
\* e[n] = v behind the last item.  ElementCounts has the bookings in full.
Push(v) ==
  LET keyed == IF isObject THEN KeyLen + 3 ELSE 0
      own == IF isObject THEN 1 ELSE 0
      amount == CASE v \in Strings -> [r |-> Width[v] + 3, k |-> 0, q |-> 1]
                  [] v \in Plain -> [r |-> Width[v] + 1, k |-> 0, q |-> 0]
                  [] OTHER -> [r |-> base.rlen, k |-> base.nkeys, q |-> base.quoted]
  IN  /\ Ready /\ Len(items) < MaxItems
      /\ items' = Append(items, v)
      /\ base' = [rlen |-> base.rlen + keyed + amount.r, nkeys |-> base.nkeys + own + amount.k,
                  quoted |-> base.quoted + amount.q, trefs |-> base.trefs + Refs(v)]
      /\ run' = Idle
      /\ UNCHANGED <<isObject, stale>>

\* t = e.env; t[i] = v
RawWrite(i, v) ==
  /\ Ready /\ i \in DOMAIN items
  /\ items' = [items EXCEPT ![i] = v]
  /\ stale' = TRUE
  /\ run' = Idle
  /\ UNCHANGED <<isObject, base>>

\* A length that wraps below zero is a large one, too.
Reaches(n) == n < 0 \/ n >= LMax
IsLarge == base.rlen < 0 \/ base.rlen > LMax
KnowsItsLength == ~stale /\ base.trefs = 0

\* Mutant of Trusted: a long text is given a state of its own, but keeps the fuse.
TrustedOnlyIfKnown == KnowsItsLength

\* No fuse: the renderer does not look at the length.
Trusted == KnowsItsLength \/ IsLarge

\* tojson or tolua of the items s..e, with all of them for s = 1, e = Len(items);
\* len(), stringify and totable come here as well, for all.
Stringify(s, e, m) ==
  /\ Ready
  /\ run' = [pc |-> "render", asked |-> <<s, e>>, mode |-> m, i |-> s, end |-> e,
             rlen |-> FromBase(base, m), trusted |-> Trusted,
             lastTry |-> KnowsItsLength \/ IsLarge,
             blown |-> FALSE, out |-> << >>, nkeys |-> 0, quoted |-> 0, refs |-> 0]
  /\ UNCHANGED <<isObject, items, base, stale>>

Printing == run.pc = "render" /\ ~run.blown /\ run.i <= run.end
Fused == ~run.trusted /\ Reaches(run.rlen)
Counting(v) == [run EXCEPT !.out = Append(@, v), !.i = @ + 1, !.nkeys = @ + Keys(v),
                           !.quoted = @ + Quotes(v), !.refs = @ + Refs(v)]

PrintItem ==
  /\ Printing /\ ~Fused
  /\ run' = Counting(items[run.i])
  /\ UNCHANGED <<isObject, items, base, stale>>

\* Mutant of BlowFuse: the item is printed before the fuse is looked at.
BlowFuseLate ==
  /\ Printing /\ Fused
  /\ run' = [Counting(items[run.i]) EXCEPT !.blown = TRUE]
  /\ UNCHANGED <<isObject, items, base, stale>>

\* The renderer leaves its loop.
BlowFuse ==
  /\ Printing /\ Fused
  /\ run' = [run EXCEPT !.blown = TRUE]
  /\ UNCHANGED <<isObject, items, base, stale>>

\* Mutant of Retry: of the range one end is cleared.
RetryFromFirst ==
  /\ run.pc = "render" /\ run.blown /\ ~run.lastTry
  /\ run' = [run EXCEPT !.i = 1, !.rlen = 0, !.trusted = TRUE,
                        !.lastTry = TRUE, !.blown = FALSE, !.out = << >>]
  /\ UNCHANGED <<isObject, items, base, stale>>

\* The second try.  The renderer has cleared the range.
Retry ==
  /\ run.pc = "render" /\ run.blown /\ ~run.lastTry
  /\ run' = [run EXCEPT !.i = 1, !.end = Len(items), !.rlen = 0, !.trusted = TRUE,
                        !.lastTry = TRUE, !.blown = FALSE, !.out = << >>]
  /\ UNCHANGED <<isObject, items, base, stale>>

Finish ==
  /\ run.pc = "render" /\ ~Printing
  /\ run.blown => run.lastTry
  /\ base' = ToBase(TextLen(run.out, run.mode), run.mode, run.nkeys, run.quoted, run.refs)
  /\ stale' = FALSE
  /\ run' = [run EXCEPT !.pc = "done"]
  /\ UNCHANGED <<isObject, items>>

-------------------------------------------------------------------------------
Init ==
  /\ isObject \in BOOLEAN
  /\ items = << >>
  /\ base = [rlen |-> Brackets, nkeys |-> 0, quoted |-> 0, trefs |-> 0]
  /\ stale = FALSE
  /\ run = Idle

Calls ==
  \/ \E v \in Value : Push(v)
  \/ \E i \in DOMAIN items, v \in Value : RawWrite(i, v)
  \/ \E s, e \in DOMAIN items, m \in Modes : Stringify(s, e, m)
  \/ \E m \in Modes : Stringify(1, Len(items), m)

Next == Calls \/ PrintItem \/ BlowFuse \/ Retry \/ Finish

Spec == Init /\ [][Next]_vars
===============================================================================
