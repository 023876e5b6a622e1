# LuaJson in TLA+

A verification project for LuaJson, a C module that gives Lua 5.1 native JSON
arrays and objects (`src/src/lua_json*.c`; `src/src/includes` is vendored).  It
consists of TLA+ modules translated from the C code, TLC configurations that
check them on small instances, and TLAPS proofs of what holds for every
instance.  Line numbers refer to the files under `src/src`: `json` is
`lua_json.c`, `object` is `lua_json_object.c`, `array` is `lua_json_array.c`,
`event` is `lua_json_elm_event.c`, `lua` is `lua_json_lua.c`.

## 1. The system

A script holds *elements*: userdata of type array or object.  All code runs in
the one thread of the Lua interpreter; a handler runs to its end or raises a Lua
error (`luaL_error`, a `longjmp`), which leaves whatever it has already done.

| Component | State | Operations | Talks to |
|---|---|---|---|
| JSON object (`object`) | `env` table key -> value; in the vtable `keys[1..n]` and `keys[0]`, a table key -> slot; `elm->nelms`; `elm->idx`; `elm->index_json` | `obj[k]`, `obj[k] = v`, push, pop, shift, unshift, insert, move, reverse, foreach, tojson, tolua, ref, unref, json_base | index handling; ledger on every assignment; renderer of nested elements |
| JSON array (`array`) | `env` table slot -> value, `elm->nelms`, `elm->idx`, `elm->align`, `elm->is_nil` | the same without keys, and del | the same |
| Index handling (`json:63-215, 424-445`) | `elm->idx` (16 bits), `elm->align` | `align_idx`, `push_key`, `check_idx`, `type_of_index`; a method called on an env table instead of its element | called by every handler |
| Length ledger and nesting (`json:526-865`) | `base->rlen`, `nkeys`, `quoted`, `trefs`; `elm->stale`; `vtable.ids` | `get_val_length`, `update_rlen`, `contains`, `len`, `stringify` | events |
| Event subjects (`event`) | per element three observer lists: `on_newindex`, `on_change`, `on_env` | subscribe, unsubscribe, set_values | calls the handlers `json:316-414` of the containers |
| Rendering (`json:1152-1278`, the renderers in `object` and `array`) | `seen`: the buffer, the range, the counters of this rendering, the fuse; `elm->mode`, `elm->escape` | tojson, tolua, len, totable, the first half of unref | marshal; renderers of nested elements; replaces the ledger |
| Marshal (`lua_json_marshal.c`) | none of its own; counts in `seen` | prints an item in one of four modes | called by the renderers |
| Table conversion (`lua_json_lua.c`, `json:981`) | the C stack of parse_lua_array and parse_lua_object | parse_table, parse_lua, stringify_lua, totable | assigns through the elements |
| Parser (`json:1340-1448`, `mongoose/json.c`) | the C stack of `__lua_json_elm_parse`, an offset in each | parse, the second half of unref | assigns through the elements |
| Lifecycle | registry entry by env pointer, `__gc` | create, ref, unref, collect | events (cleanup) |

What makes it hard:

* Three or four pieces of state say the same thing (`env`, the list, the map,
  the count; `store`, `ids`, observers, ledgers) and are kept together by hand
  in every handler.
* `elm->idx` is a register that outlives the call that set it, and several
  handlers read it without setting it.
* Handlers nest: a method assigns, an assignment measures, a measurement may
  enter a key; an error in the middle leaves the first half done.
* Events walk up through any number of containers and shared elements, one C
  activation per container.
* The env table is handed to the script, which can write to it behind all this.
* Four output modes share one set of counters, which are kept for JSON only and
  converted; the mode is a register of the element that outlives its call.
* A rendering that does not know its length tries, gives up and tries again.
* Conversions recurse over script data, keep half-built elements on the Lua
  stack, and raise in the middle.

What makes the components correct: the object is a map that remembers order; the
array is a list; between calls every ledger is what its bookings come to; nobody
listens to what it does not hold; every container listens to what it holds; an
element is never inside itself; an event ends.  What is converted arrives whole;
a text is read to the end or not at all; the copy is the original; the counters
are those of the text that was returned, in all four modes.

## 2. Habits

Much of that holds only as long as a script avoids certain calls.  Each of these
is a *habit* of the caller, a member of the constant `Habits`; the guards in the
last section of a module ("the calls a script with the given habits makes") are
the only place that reads it.  The handlers themselves are the same for every
caller.  The runs then come in pairs: what holds for a careful caller
(`Habits = {}` or nearly) and what survives every caller (all habits).

Every row below is behaviour of the code, reproduced with the built module.
Putting the habit into the set of a careful configuration (`Object_careful`,
`Array_sturdy`, `Tree_careful`) makes TLC show the property in the last column
violated (`CountIsLength` and `MapIsKept` are the two parts of `SlotsAreExact`); `nil_opaque` needs `opaque` beside it, and `held`, `deep_raw` and
`stale_child` need `raw`; for `env_key` give one of the keys as `EnvKey`.

| Habit | What happens | Line | Breaks |
|---|---|---|---|
| object `read_missing` | reading a key that is not there enters it in the list | object:765 | StoredIffIndexed, CountIsLength |
| object `nil_missing` | assigning nil to such a key enters and deletes it and counts one down | object:613 | CountIsLength |
| object `nil_opaque` | nil for a key that holds a function has no slot to delete and deletes slot 0, the map | object:586 | MapIsKept |
| object `opaque` | a function is stored but not listed | object:765 | StoredIffIndexed |
| object `rejected` | the recursion error comes after the key was entered; in an unshift the object stays reversed | object:771, 334 | StoredIffIndexed |
| object `env_key` | the key `env` is not looked up beforehand, so it passes for one that is there, and measuring its missing value enters it uncounted (json:285, 776): the last pair is not printed | object:763 | WholeRenderIsComplete |
| object `raw_nil` | an item set to nil in the env table is dropped at the next rendering, which stops there | object:657 | WholeRenderIsComplete |
| object `reverse_empty` | reverse and unshift on an empty object swap slots 0 and 1; slot 0 is the map | object:184 | MapIsKept |
| object `reverse_negative`, with `nil_missing` | a count of -1 is 65535 in 16 bits: reverse takes the first slot out of the list, writing the nil behind the last one over it, and raises when it gives the map a nil key | object:167, 193 | MapIsKept |
| object `unshift_nil` | a nil among the pairs of an unshift deletes; if it deletes the last key, the second reversal writes nil to slot 0 and raises | object:335 | MapIsKept |
| object `one_based` | insert before a key lands one place early, or raises at slot 0 after having assigned | object:294 | InsertLandsAtTarget |
| array `end_position` | a move to, or a deletion or printing of, the place behind the last item makes a hole or uncounts an item | json:439 | NoHoles |
| array `raw_nil` | the hole is closed by the next rendering, at the slot some earlier call left in `elm->idx`, over whatever value is in it | array:188, 380 | NoHoles |
| array `one_based` | push overwrites the last item, pop removes the one before it, shift and unshift raise | array:251, 274, 295, 314 | EndsAreEnds if its premise `base = 1` is dropped |
| tree `cycle` | recursion is looked for one level deep | json:831 | NoCycle |
| tree `child_over_prim` | an element stored over a plain value is not subscribed to | json:542 | ContainersSubscribe |
| tree `raw`; `held` | writes to the env table are not booked; the mark for that is cleared by a rendering while the script still holds the table | json:1261 | LedgerIsExact; TrustedLedgerIsExact |
| tree `deep_raw` | a container that is already marked does not pass the mark on | json:402 | StaleReachesRoot |
| tree `stale_child` | the ledger of a marked element is booked as it stands | json:723 | LedgerIsExact |
| tree `render_part` | the length of a part replaces the ledger of the whole | json:1260 | LedgerIsExact |

Also seen in the code, and reproduced with the built module:

* `len()` of a container that has not been rendered since is one more than its
  text, since a comma is booked per item (json:745; `lua_json_array.h:147`
  prints 23 for a text of 22).  `ElementCounts` shows that a rendering puts it
  right.
* Unshift of four pairs or more writes too few of them: the loop runs `i` up
  while `nargs` goes down by two (object:334), so it comes to the last
  `2n/3 + 1` of `n` pairs.  The run `object_unshift` shows it;
  `UnshiftPrependsReached` says what becomes of the others, which is nothing.
* `tojson(0, 0, true)` of a hundred short strings, 802 characters without escapes,
  prints all of them once a write to the env table has made the length unknown,
  where `lua_json_array.h:34` shows one item for a part: the first try clears the
  range (object:630, array:360) and gives up at the length that escapes add, and
  the second try (json:1230) prints everything.  `PartOrWhole` says when that is,
  and that otherwise a part is what is printed.
* A popped array item stays in the env table (array:188), where `pairs` finds it.
* `pop` of an empty array raises where `lua_json_array.h:144` promises nil; the
  method README.md:4 calls `json_index` is registered as `json_base`.
* A function in an element leaves `,,` in the text, which reads as an empty
  element (object:677, array:413).
* `JSON:parse`: text the tokenizer refuses gives an empty array or object, by its
  first bracket (json:1363: the error code is used as an offset, in front of the
  buffer); what follows a complete value is ignored; a comma may precede a
  closing bracket; `{"1":2}` raises; `{"env":1,"a":2}` becomes an object that prints
  `{"env":1}`, since it has two keys and counts one; of a key
  given twice the last value stays, in the first place; 31 brackets deep is
  refused, so a deep element prints a text that cannot be read back.
* `parse_table`: a function within a list raises "out of bounds" (lua:99); a mixed
  object that is nested, and a boolean key in a nested table, crash (lua:220: a
  NULL name; lua_tostring of the key).  An object that is read by `totable` comes back
  with its keys in any order, an empty one as an array.
* Strings are printed as they are: one with a quote in it does not read back.
* A table stored over another value is not counted in `trefs` (json:563) but is
  taken off when it goes (json:659): the counter, a size_t, goes below zero,
  and every `len()` renders until the next rendering has counted again.

## 3. Modules

| Module | Role |
|---|---|
| `OrderedMap` | abstract: a map that remembers the order of its keys |
| `KeyList` | the edits of a key list and its key -> slot map, as operators |
| `JsonObject` | one object: every handler that changes its state |
| `JsonObjectProps` | its properties; the refinement of `OrderedMap` |
| `MCJsonObject` | constants for TLC |
| `ItemList` | abstract: a list |
| `JsonArray`, `JsonArrayProps`, `MCJsonArray` | one array, its properties, the refinement of `ItemList` |
| `ElementTree`, `ElementTreeProps`, `MCElementTree` | nested elements: ledgers, subscriptions, the walk of an event |
| `Marshal` | lengths of keys and values in the four modes; from a printed length to the counters and back |
| `ElementCounts`, `ElementCountsProps`, `MCElementCounts` | nested elements: all four counters, tables as values, renderings in all modes |
| `Rendering`, `RenderingProps`, `MCRendering` | one rendering item by item: routes, fuse, second try |
| `Documents` | what an element holds as a value, a store into it |
| `TableConversion` | parse_table: a Lua table becomes an element |
| `Parser`, `ParserProps` | JSON:parse over mongoose's tokenizer, token by token; what the walk through a text promises |
| `Conversion`, `ConversionProps`, `MCConversion` | the three together: from a table, element or text to elements and back |
| `GrammarProps` | JSON:parse against the grammar; recursive, for TLC only |
| `DataLemmas` | lemmas the proofs share: least numbers, sums, insertion and removal, nesting, the four modes |
| `JsonObjectProofs` | the edits of list and map; the invariant of an object, for every caller; the stronger one for a caller without habits, for whom it is an `OrderedMap` |
| `JsonArrayProofs` | an array for every caller, and for a sturdy one; it is an `ItemList` |
| `ElementTreeProofs` | subscriptions, cycles, marks and ledgers of any number of elements |
| `CountsProofs` | the four counters of any number of elements |
| `RenderingProofs` | a rendering is whole and counts once, by any route |
| `ParserProofs` | JSON:parse on any text |
| `ConversionProofs` | parse_table on any table; totable and back on any element |

Definitions named `...` after a comment "Mutant of" are plausible wrong versions
of the definition that follows.  No specification uses them; they serve to see
that each property notices the mistake.

### JsonObject

`env`, `keys`, `map` (keys[0]), `nelms` and `base` are the code's.  Values are
abstract: a printable value, an opaque one (a function), an element that is
refused as recursive, nil.  An assignment is the handler `newindex` with all it
calls: the entry of the key, the branch taken by `type_of_index`, the entry a
second time by the measurement of a missing old value, the count, the deletion.
`todo` is the rest of a call that assigns more than once, insert and unshift:
each assignment in it may raise, and the model shows the object in between.
Unshift hands on whatever values it is given, nil included, and its loop keeps
both counters of the C loop.
Reading (`Index`) is an action because it changes the list.  `Tojson` is one
action: the renderer deletes at most one hole and then stops.  `intact` turns
FALSE when slot 0 is overwritten; what the program does after that is undefined
and the model only stutters.  It does so too when reverse has taken a slot out of
the list (`Torn`), which it does below a count of zero: the key in the slot is lost
to the list while the map still has it, and the handlers that come upon the gap
are not followed further.

A Tojson is one try of the renderer: when the text is long and the first try
gives up, the code renders again (`Rendering`), which is a second Tojson.

Slots are kept modulo `IdxMod` (65536 in C), `nelms` may go below zero as the
`size_t` read back as `int` does.

### JsonArray

`env` is a function on the slots 0..MaxElms+1, because slots outside 1..nelms
matter: array_del does not clear the last slot, reverse() of an empty array
touches slot 0.  `idx` is a variable because StringKey and the renderer read what
an earlier call left in it.  The rendering is a sequence of steps, since at a
hole it calls array_del, which may raise (`HoleRaises`, leaving `is_nil` set) or
close a slot that need not be the one it is at (`HoleClosed`): the items behind
that slot move down over what is in it and the count goes down.  If it held a value,
array_del then replaces a stack place of the renderer, and `intact` turns FALSE.
Unshift is a sequence of insertions.

`JsonObject` and `JsonArray` were compared with the built module by random
sequences of calls, several thousand each, with slots, counts, errors and texts
compared after every call.

### ElementTree

`store` is the env tables of all elements, `obs` the observer lists (the three
subjects of an element are subscribed to together, so one list stands for
them), `ids` the vtable's set, `calls` the C stack of set_values activations with
the observer each has got to, `ev` the event.  `Store` is an assignment
(measurement, relinking, commit, event), `Notify` one call of a handler,
`Return` the end of an activation.  `slack` and `fresh` are history: the
difference the last rendering made between ledger and text, and the env tables
fetched since.  Slots are unordered here and texts are lengths.  `Overflow` is
the C stack running out.

### ElementCounts

`base` is the four counters of every element.  A store books the difference of
the new and the old value here and in all containers at once; `ElementTree` has
the same bookings call by call, and what can go wrong with them, so here an
element has one container at most, is stored in a vacant place, and nothing more
is stored while a booking is unsound (`Stores`).  `deleted`, `unread` and `trusted` are
history: they say when a counter is promised to be right.  The text is computed
from scratch (`TextLen`) out of what `Marshal` says the printers write, the
counters from the code's formulas, and the properties compare the two.

A table as a value is booked with the length of the container (json:505), which
is why `trefs` makes the element render before it answers; `TablesAreRendered`
says that this is never forgotten.

### Rendering

`run` is `seen`: the range asked for, the position, the length believed in, the
route (`trusted`, `lastTry`), what has been printed and counted.  `Stringify`
chooses the route, `PrintItem` is a round of the renderer, `BlowFuse` its way
out, `Retry` the second try, which starts with the counters of the first
and without its range.  `RawWrite` makes lengths wrong.

### Documents, TableConversion, Parser, Conversion

An element is a value here: a sequence of items, or of key-value pairs in their
order with the number of them that are counted, which are the ones that print.
That is all of them, or all but the last one if there is a key `env` (`Put`,
`Uncounted`).  A text is a sequence of tokens.  `work` and `frames` are the two C
stacks: the conversion and the parser fill a nested element before they store
it, round by round, and an error drops all that is on the stack.  The parser asks
mongoose how far a value reaches, again for each part (`Reach`), and walks a
container from offset to offset (`NextItem`).  `Scan` is the loop of
`mg_json_get`: the states behind each token, of which `After` is one round.

`Conversion` starts from a table with options, an element, or a text, and goes
on from there: convert, render (which leaves its mode in the element), print,
damage the text, read, totable and convert back.  The references it is checked
against know nothing of stacks and offsets: `StandsFor` (what an element should
hold of a table), `Values` (all ways to read a text by the grammar), and the original.
What is said of a value and all that is nested in it is said level by level:
`Level(v)[n]` is what is nested `n` levels deep, `Text` and `TableOf` are built from
the innermost level outwards, and `StandsFor` and `Same` follow claims and couples
from one level to the next.  So these are functions on numbers, and theorems can be
proved about them; only `Values` recurses over its text.
The behaviour of these modules was compared with the built module on every case named
in section 2.

## 4. Runs

| Run | Question | Shows |
|---|---|---|
| `object_careful` | Is an object an ordered map for a careful script? | yes: implements OrderedMap, count = list = values, unshift prepends the pairs its loop comes to in the order given, insert lands where it should, a rendering is complete |
| `object_anycaller` | What survives any script? | list and map agree, the count stays within the list, rearranging loses no key or value but the slot that reverse takes out below zero, an insert or unshift loses no key in any of its steps or failures |
| `object_unshift` (violation) | Does unshift prepend any number of pairs? | no: of four the first is lost |
| `array_sturdy` | Is an array a list, even with functions, refused elements, string keys, raw appends and a switched base? | yes: implements ItemList, no holes, unshift in order at every step, the ends are the ends |
| `array_anycaller` | What survives any script? | reverse and move keep every value wherever it is; closing a hole overwrites none but the one in the slot of `elm->idx` |
| `tree_careful` | Are the ledgers exact? | yes, for all shapes of three elements, shared ones included; no cycles, all containers subscribed, every event ends |
| `tree_topology` | Do subscriptions follow the store? | nobody is subscribed twice or to what it does not hold, whatever the script does |
| `tree_raw` | Can the mark be trusted? | yes, if env tables are fetched anew and only the root is rendered |
| `counts` | Are keys, quotes and tables counted right in any mode, with deletions and nesting? | yes: between renderings but for the deleted keys, which are taken off twice; after a rendering in any mode, for all four |
| `rendering` | Can a rendering be cut off, or count twice? | no, by none of the three routes; of a part, it is that part that is printed, or the whole element if and only if it takes a second try |
| `conversion` | Does a document survive the ways in and out? | yes: tables of all kinds and options arrive whole or fail for one of three reasons; a key `env` costs an object the printing of its last pair, and nothing else; texts are read by the grammar, with no item left out and no deeper than the tokenizer counts, or give an empty element; unref and totable give the same document back; reading ends |
| `conversion_unref` (violation) | unref after tolua or an escaped tojson | the copy is empty |

### Bounds

* Object: `object_careful` has four keys, two values and up to four pairs per
  unshift, `object_anycaller` three keys, of which `env` is one, one value and
  up to two pairs.  With three slots every loop of `KeyList` runs over none, one
  and several of them; it takes four to tell a swap of two pairs from a move
  and a reversal.  Four pairs are the first number of which unshift loses one.
  `object_unshift` has one value and five keys.  `CountFloor`: the deletions that count down
  without a slot are not repeated below -1.  `IdxMod = 100` is out of reach in
  these runs; what it does is described at `IdxFor`, and the proofs assume
  `MaxKeys < IdxMod`.
* Array: three items, slots 0..4, up to two values per unshift.  In
  `array_anycaller` `IdxMod = 4`, so positions do wrap.  That run uses the view
  `WithoutText`, which leaves out `out`: no guard reads it, and of the
  properties only the type of its members.  Its values are symmetric.
  `ReverseAll` is not called with a negative count: the loop would then run over
  65535 slots.
* Tree: a root and two elements that can be nested in it and in each other, two
  slots each, two plain values of different length; an element can be reached
  two ways and twice from the same container's children.  `MaxDepth = 12`
  activations are not reached without a cycle (three levels need three);
  `MaxLen` bounds what a raw script can add up (60 in `tree_raw`, two elements;
  not reached in `tree_careful`).  `tree_topology` has no lengths
  (`Width = 0`), and the view `Topology` leaves out ledgers, `slack` and
  differences: no guard reads them as long as `MaxLen` is out of reach.
  The slots of an element are symmetric where no liveness is checked.  A raw write replaces a plain value by a plain value.

* Counts: two objects and an array, two slots each, nested in any shape without
  sharing; one string, one plain value, a table.  `MaxDeleted = 1` key deleted
  between two renderings of an object, the second decrement of which is then -1 in every
  counter above.  `RenderModes` are the two that differ most; the property asks
  about all four from any state.  The view `WithoutGarbage` leaves out lengths
  booked, and counters of elements that are not trusted: no guard reads them and
  no value a property reads is computed from them.  Slots are symmetric, and
  the two objects.
* Rendering: up to three items.  `LMax = 18` instead of 850, so that two strings
  reach it and one does not; every route is taken, with lengths too small and too
  large, and below zero.  Nested elements are printed whole by the same counters.
* Conversion: tables with up to two list items and up to three keys, nested up to two
  deep, mixed in both directions, with values that do not print; 2 tables whose
  other half overflows `MixedMod = 4` (65536 in C); all options.  Elements with
  up to two parts, up to five levels deep, so beyond `MaxNesting = 3` (30 in C).
  `MaxLevels = 5` is as deep as anything handed over is nested, so the guard
  `WithinLevels` of printing and totable is always met.  Every text of up to three tokens, and every text printed for an element, of up to
  `MaxDamaged = 12` tokens, with one token lost, doubled, replaced, or all after
  it cut off.

### Fairness

`FairSpec` adds weak fairness of `Bubble == Notify \/ Return` and nothing else.
`subject_set_values` is a C loop in the thread of the call that fired the event;
it is run to its end before the interpreter does anything else.  Nothing is
assumed of the script: it may stop at any time.  `BubbleEnds` then says that the
walk terminates, which it does because there is no cycle.

## 5. Proofs

All proofs are for every value of the constants that the `ASSUME`s of the modules
admit: any number of keys, values, elements, slots, any widths and limits.  The
`ASSUME`s name what the code takes for granted (sets of elements and slots are
finite, nil is no value, widths are numbers, the kinds of values are disjoint,
punctuation is no scalar) and TLC evaluates them in the runs.  What a theorem
needs of the script is a premise about `Habits`.  What it needs of `elm->idx` is
`Room` for objects and `Room16` for arrays: no more keys or items than 16 bits
count.  Every theorem about a property that a run checks is listed in
`PROJECT.json`.

### The object

The lemmas on `KeyList` say for each edit that a list and a map that agree before
agree afterwards: appending, taking a slot out and renumbering from there,
turning a range around, moving a slot.  `Agrees` says that every listed key has
its slot in the map and every slot in the map holds its key; it implies that no
key is listed twice.

For every caller, under `Room`, `IInv` is an invariant (`Invariance`), until reverse
takes a slot out of the list below a count of zero: `TornInv` says what holds from
then on, that list and map agree on all other slots, and `EitherInv` is the two.
`MapAgreesWithList` alone is not inductive: the lemma on taking a slot out needs
the slot to be within the list, which the count guarantees (`CountWithinList`),
and an unshift that is under way needs room for the pairs that are left.  So
`IInv` is `Shapes` (the types, no slot taken out), the two, `KeysFit` (the list and the pairs left fit
`MaxKeys`) and `LoopEnds` (the loop counters of unshift match the pairs left).
From it follow `TypeCorrect`, `ListAlwaysSound`, and the action properties
`ReorderingKeepsData` and `CallsKeepKeys`.

For a caller without habits `CInv` adds: the count is the length of the list, a
key is listed exactly when it has a value, the map is intact.  The three need
each other: the branch of `type_of_index` compares a slot with the count and is
the right one only if new keys are exactly the ones beyond it.  `CarefulSlots`
and `CarefulKeys` are parts of it, `WholeRenderAlwaysComplete` follows.

`ObjectIsAMap`: every such step is a step of `OrderedMap` or a stutter.  `OInv`
adds what an insert under way has left in `todo` (`PlaceOK`): the key it
appended, the slot it is in and the target computed before.  The C loops that
shift and swap slots are shown to be `InsertAt`, `RemoveAt` and a flip of the
sequence.  `InsertAlwaysLands` uses the same.  `UnshiftAlwaysPrepends` needs
`Progress`: what is left of the pairs, and that the list is the old one reversed
with the new keys behind it, last pair first (`Written`).  It is stated for any
number of pairs: those the loop comes to are in front, whatever `MaxPairs` is.

### The array

For any caller, with nothing assumed and `elm->idx` wrapping, `ArrInv` is
`TypeOK` with the order of what an unshift under way has inserted.  From it
follow `ArrayTypes`, `UnshiftAlwaysInOrder`, `ReorderAlwaysKeepsValues` and
`RenderAlwaysKeepsValues`.  The last two count copies of a value over all slots;
they are proved by giving a bijection between slots before and after, so that
cardinalities are equal.

`Sturdy` excludes the two habits that make a hole (`end_position`, `raw_nil`) and
assumes `Room16`.  `SturdyInv` then says that all counted slots are full and that
a rendering is within them; `NoHoles` alone is not inductive, since a rendering
under way deletes by its position.  `NeverAHole` and `EndsAlwaysEnds` follow, and
with what has been printed so far (`OutOK`) `ArrayIsAList`: every step is one of
`ItemList` or a stutter.

### The tree

Four invariants, one on the other, each with the habits it needs:

* `TopInv`, for any script: an element is listed among the observers of another
  exactly once or not at all, as `ids` says, and nobody listens to what it does
  not hold.  `AlwaysSubscribedOnce`, `ObserversAlwaysContain`.
* `SubInv`, for a script that stores no element over a plain value: all
  containers are among the observers, and no element is twice in the same one.
  `ContainersAlwaysSubscribe`.
* `TreeInv`, when nothing unfinished is nested: no cycles, though the code looks
  one level deep only.  `NeverACycle`.  What is nested is the least set closed
  under children (`Reached` in `DataLemmas`).
* `StaleInv`, when marked or written elements are not stored and raw writes go to
  roots: an element whose env table is out is marked, and so is everything above
  it, unless the event that tells it is under way.  `StaleAlwaysReachesRoot`.

The ledgers need one more idea.  `LedgerIsExact` speaks of the text of an
element, a sum over all that is nested in it, and a store changes it at any
distance.  `LedgerInv` is local instead: there are lengths `K` with
`K[x] + Owed(x) = Total(store, x, K)` for each element `x`, where `Total` looks
at the slots of `x` and the `K` of its children only and `Owed` counts the calls
of the event on the stack that have yet to reach `x`; and `K` is the ledger
wherever there is no mark.  A booking moves both sides by the same amount.  Where
nothing nests in itself the equations have one solution, the length of the
text.  `TrustedLedgerAlwaysExact` follows for `Habits \subseteq {"raw"}`, and
`LedgerAlwaysExact` for `Habits = {}`, shared elements included.

### The counters

`CountsInv` says that what is nested is a forest (`OnePlace`, `NoLoop`), that the
counters of elements in order are exact, and that `trefs` is not negative.  The
lemmas say how the sums over an element and all below it change when a subtree
is moved in or out: a store changes what counts in the elements above by what
the subtree counts and in no other.  `CountsStayExact`, `TablesAlwaysRendered`,
`RenderingsSync`; the last rests on `OneRenderingTellsAll`: for a text of any
length, printed in any mode, what `lua_json_elm_stringify` keeps of it gives the
length in any mode by the formula of `__lua_json_elm_get_rlen`.

### The rendering

`RInv` needs that a last try has no fuse, that a fuse that will blow does so at
the first item, since the length it looks at does not change, and that what is
passed is printed.  `WholeTextAlwaysComplete`, `GivenUpCountsNothing`.
`AlwaysPartOrWhole` adds what each try has printed up to its position: the first one
the part asked for (`FirstTry`), the second, which has lost the range, the element
from its first item (`SecondTry`).
`CountInv` adds that the counters of a rendering under way are the sums over what
it has printed: `CountsAlwaysPrintedOnce`.

### The parser

`ReadSpec` is JSON:parse alone, on any sequence of texts of any length.

* `ReadingEnds`: the text left to walk, with the number of activations, falls in
  each step of `__lua_json_elm_parse`.
* `NestingStaysBounded`, `NoItemIsLeftOut`: by `WalkInv`, activation number `i`
  stands at an item or the end of a text that the tokenizer accepts with
  `MaxNesting - i + 1` brackets at most (`Stacked`), or it is the only one, of a
  refused text (`Hollow`).  The parser gives parts of a text to the tokenizer
  again, which starts from nothing each time.  So the proof relates two scans:
  wherever a value begins in an accepted text, scanning on from there and
  scanning the rest afresh go through the same states, but for the brackets that
  were open before (`Lift`, `Within`).  A nested value is therefore
  accepted too, with one bracket less, and the walk stops only where the
  closing bracket is.
* For `UnrefCopies`, below: if a text tells an element (`Tells`), the parser makes
  that element of it.  `Tells` is a claim like `Stands` of the conversions: a text
  tells an array or object if there are places in it where each part begins and
  ends, and what stands there tells the part.  The tokenizer reaches the end of a
  text that tells a value, whatever follows (`ReachTold`), so the next item is the
  next part, under its key (`ItemTold`).  `Copying` says of the stack that the
  innermost activation holds the first `k` parts of an element and has the text
  of the others left (`FillsUp`), and that each activation below waits for the
  element above it as its next part (`Waits`).

### The conversions

`AtomsApart`, a premise of these theorems, says that no element and no table is at
the same time a scalar or a mark like `Raised`; TLC cannot evaluate it, since it
speaks of all values, so it is a premise and no `ASSUME`.

A conversion is a stack of activations, of any height.  `Converting(start, V)`, for
an outermost activation `start` and the tables `V` nested in its table, has three
parts.  `Chain`: each activation below another waits for it, either as the element
to be stored under the key just taken (`NestedAbove`) or as the other half of the
same table (`HalfAbove`), and what it needs to go on is still as it was when it was
left.  `TopOK`: the innermost one holds exactly what it has taken of its table so
far, with nothing missing in between (`ListDone`, `HashDone`), or already its other
half.  `Outcome`: a result is an element that stands for the outermost table, or an
error with its reason.  Each of the four actions keeps the three
(`ListItemConverts`, `HashItemConverts`, `OtherHalfConverts`, `DeliverConverts`).

What is stored was finished earlier, so the invariant must say of a part that it
stands for its table *all the way down*, and a step must never have to look into
it.  `Stands(c)` does that without an induction over data: the claim `c` is in some
set of claims each of which holds and makes its further claims within the set.
Such sets can be joined (`StandsUp`) and followed (`StandsDown`), and
`StandsForIt` turns the last one into the `StandsFor` that the run checks, level by
level.  `WellMade` says in the same way that an element has no key twice, at any
depth.

* `ConvertsAll` and `FailuresExplained` are `Outcome`, read for the table and options
  handed over.  Where a counter may have overflowed somewhere (`Exact` is false) the
  invariant still says that the result is well made, and why a conversion failed.
* `ThereAndBackAgain`: the table that totable makes, and every table in it, has a
  list only or string keys only, and no gap (`Plain`).  So its conversion neither
  raises nor crashes, nor goes on to another half.  What comes back stands for that
  table, and `BackDown` follows it with the element that was shown: a part that is
  back in the place of one of its parts has as many parts as that, under the same
  keys, each of which is back in its place.
* `UnrefGivesACopy`: what the renderers print for an element tells it, when all of it
  prints and it is nested no deeper than the tokenizer goes (`TextTells`).  The text
  of a container is its parts one behind the other with commas between them;
  `Layout` finds where each of them is, and `TextsIn`, `RestsIn` are the claims, one
  for each value and each place behind a part, that support one another.  From
  there `CopyMade` follows the stack: nothing is read yet, or what is read so far
  is `Copying`, or it is a copy.  `OnItsWay` gives that the element printed is well
  made, whether it was built by hand or came of a table.  It is stated for an
  element with no key `env` at any depth: with one, the copy has the pairs that
  print (`CopyOf`), which is left to TLC.

The key `env` is in all of these.  `Holds` says how many pairs an element has not
counted (`PairsBack`); in the chain, the pair is the last one, and every store after
it keeps the difference.  What such an element prints and what its table has are
its first `Size` pairs, so `ThereAndBackAgain` compares what comes back with
`CopyOf` the element.

### Form

`Spec => []Inv` is proved by an inductive invariant with one lemma for each action
or group of them.  The library's induction theorems take a predicate as a
parameter, which the provers cannot instantiate.  Where an induction over numbers
is needed - over the tokens of a text, the slots of an element, the rounds of
`Reached` - the proof takes the least counterexample (`DataLemmas`) and shows
that there is a smaller one or none.  Sums are those of the community modules,
with lemmas on taking an element out, on sums that agree and on sums that differ
in one place.

### Only model-checked

* `BubbleEnds`: liveness under fairness.
* `AllOrNothing`: it compares the parser with a grammar that recurses over the text,
  about which nothing can be proved without an induction over data.
  `NoItemIsLeftOut` is the part that can be stated without one.
* `TypeOK` of the tree beyond `Habits \subseteq {"raw"}`: that lengths are
  integers is proved with the ledgers, since an element that is inside itself has
  no length.  `ShapesOK`, the rest of it, is part of `TopInv` for any script.
* `UnrefCopies` of an element with a key `env` in it.

## 6. Not modelled

* foreach: runs a script's function on every pair while it walks the env table.
  It stores nothing; what lua_next does when the function adds a key is
  undefined.
* Collection: an element stays in the registry through `vtable.ctx` until
  lua_close, so `__gc` and the cleanup of the subjects never run beside anything
  else.  `ref` returns the element it is called on.
* Methods called on an env table (`arr.env:push(...)`), which go through the
  same handlers after a translation of the positions; only the assignment is
  modelled (`EnvSet`, and `RawSet` for objects).
* Below the tokens: white space, escapes in strings, the spelling of numbers,
  strings printed without escaping (one is modelled, as a scalar whose text is no
  JSON).
* Boolean keys of Lua tables, totable of an element with something in it that does not print, the
  options `-v`, which prints a report, and `-p` ("parse mode"), which takes its result from
  another place of the Lua stack (lua:341).
* Holes in the tree and in `ElementCounts`; there only plain values are written
  raw.  What a hole closed by a rendering books when `is_nil` is left over from
  an error (array:381).
* What the handlers of an object do once reverse has taken a slot out of its list.
* Mutexes of the subjects: no second thread exists.
* Lua 5.1 and the rest of mongoose: vendored, and most of the lines under
  `src/src`.  What LuaJson uses of Lua (tables, raw access, errors) is taken as
  its manual defines it.  The code of LuaJson itself is modelled but for what is
  listed here, the WASM build and the registration of methods.

## 7. Plan

Done: object, array, tree, counters, rendering, conversions; proofs of all
invariants and action properties of the runs but for those listed at the end of
section 5, and of both refinements.  Left, in this order:

1. foreach with a callback that deletes.
2. Holes in `ElementCounts`: what `is_nil` does to the ledger.
