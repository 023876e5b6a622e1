------------------------------ MODULE Conversion ------------------------------
(***************************************************************************)
(* The ways of a document through LuaJson: a Lua table becomes an element  *)
(* (TableConversion), an element becomes a text (tojson) and an element    *)
(* again (unref, JSON:parse), or a Lua table (totable) and an element      *)
(* again.  A text may also come from elsewhere, or be damaged on its way.  *)
(***************************************************************************)
EXTENDS TableConversion, Parser, Marshal

CONSTANTS
  Tables,     \* tables the script hands to JSON.parse_table,
  TableOpts,  \* and its other arguments: a subset of Options
  Elements,   \* elements it has built pair by pair
  Texts,      \* texts it hands to JSON:parse
  MaxLevels,  \* tables and elements are nested at most so deep
  MaxDamaged  \* only texts of at most so many tokens are damaged

VARIABLES
  given,  \* the table handed to parse_table and its options, or Nothing
  shown,  \* the element totable was called on, or Nothing
  mode,   \* elm->mode and elm->escape of `made`: set by tojson and tolua, and kept
  text,   \* the text printed or handed over, or Nothing
  intact  \* the text is what was printed for `made`

vars == <<work, made, frames, read, given, shown, mode, text, intact>>

Failures == {Nothing, Raised, Crashed}
IsElement(d) == d \notin Failures

\* Level(v)[n]: what is nested n levels deep in v, with v at level 0; all of it.
Level(v) ==
  LET level[n \in 0..MaxLevels + 1] ==
        IF n = 0 THEN {v} ELSE UNION {PartsOf(x) : x \in level[n - 1]}
  IN  level
Parts(v) == UNION {Level(v)[n] : n \in 0..MaxLevels}

\* A bound: only an element that is not nested deeper is printed, or made a table.
WithinLevels(v) == Level(v)[MaxLevels + 1] = {}

\* Nothing in the document that does not print as JSON.
Printable(v) == Parts(v) \cap {Opaque, Broken} = {}

-------------------------------------------------------------------------------
(***************************************************************************)
(* Assumptions on what the script hands over.                              *)
(***************************************************************************)
\* A Lua table: a list, string keys, and how many other numbers it has as keys.
IsTable(t) ==
  /\ t.kind = "table" /\ IsSeq(t.list) /\ t.loose \in Nat
  /\ DOMAIN t.hash \subseteq Strings /\ IsFiniteSet(DOMAIN t.hash)

ASSUME OptionsAssumption == TableOpts \subseteq Options

ASSUME ValuesAssumption ==
  /\ MaxLevels \in Nat
  /\ EnvKey \notin Names /\ Digits \notin Names \cup {EnvKey}
  /\ NoName \notin Strings \cup Nat
  /\ Opaque \notin Scalars
  /\ Nothing # Raised /\ Nothing # Crashed /\ Raised # Crashed

ASSUME TablesAssumption ==
  \A t \in Tables :
    /\ IsNested(t) /\ WithinLevels(t)
    /\ \A u \in Parts(t) : IsNested(u) => IsTable(u)

ASSUME ElementsAssumption ==
  \A d \in Elements :
    /\ IsNested(d) /\ IsElement(d)
    /\ \A u \in Parts(d) : IsNested(u) => IsProper(u)

-------------------------------------------------------------------------------
\* A comma in front of every part but the first, whether or not it prints.
Commas(parts) ==
  FlattenSeq([i \in DOMAIN parts |-> IF i = 1 THEN parts[i] ELSE <<",">> \o parts[i]])

\* What the renderers and the marshal print in mode m.  A key of Lua source, and
\* an escaped quote, is nothing that JSON knows.
Quoted(str, m) == IF m.esc THEN Broken ELSE str
KeyTokens(k, m) == IF m.lua THEN <<Broken>> ELSE <<Quoted(k, m), ":">>

\* The text of v, from the texts of what is directly in it.
TextFrom(v, texts, m) ==
  CASE v = Opaque -> << >>
    [] v \in Strings -> <<Quoted(v, m)>>
    [] v \in Scalars \ Strings -> <<v>>
    [] IsNested(v) /\ v.kind = "array" ->
         <<IF m.lua THEN "{" ELSE "[">> \o Commas([i \in DOMAIN v.items |-> texts[v.items[i]]])
           \o <<IF m.lua THEN "}" ELSE "]">>
    [] OTHER ->
         <<"{">> \o Commas([i \in 1..Size(v) |->
                             IF v.pairs[i][2] = Opaque THEN << >>
                             ELSE KeyTokens(v.pairs[i][1], m) \o texts[v.pairs[i][2]]])
                 \o <<"}">>

\* The texts of what is nested n levels deep in v.
Printings(v, m) ==
  LET texts[n \in 0..MaxLevels + 1] ==
        IF n = MaxLevels + 1 THEN << >>
        ELSE [x \in Level(v)[n] |-> TextFrom(x, texts[n + 1], m)]
  IN  texts

Text(v, m) == Printings(v, m)[0][v]

\* What Lua makes of the text in Lua mode, {v, ...} or {k=v, ...}.
TableFrom(v, tables) ==
  CASE ~IsNested(v) -> v
    [] IsNested(v) /\ v.kind = "array" ->
         Table([i \in DOMAIN v.items |-> tables[v.items[i]]], << >>, 0)
    [] OTHER ->
         Table(<< >>,
               [k \in KeysOf(v) \ Uncounted(v) |->
                  tables[v.pairs[CHOOSE i \in DOMAIN v.pairs : v.pairs[i][1] = k][2]]], 0)

\* The tables made of what is nested n levels deep in v.
Images(v) ==
  LET tables[n \in 0..MaxLevels + 1] ==
        IF n = MaxLevels + 1 THEN << >>
        ELSE [x \in Level(v)[n] |-> TableFrom(x, tables[n + 1])]
  IN  tables

TableOf(v) == Images(v)[0][v]

-------------------------------------------------------------------------------
FromTable(t, o) ==
  /\ given = [table |-> t, opts |-> o] /\ work = <<Outermost(t, o)>>
  /\ made = Nothing /\ text = Nothing /\ intact = TRUE

FromElement(d) ==
  /\ given = Nothing /\ work = << >>
  /\ made = d /\ text = Nothing /\ intact = TRUE

FromText(s) ==
  /\ given = Nothing /\ work = << >>
  /\ made = Nothing /\ text = s /\ intact = FALSE

Init ==
  /\ frames = << >> /\ read = Nothing /\ shown = Nothing /\ mode = Json
  /\ \/ \E t \in Tables, o \in TableOpts : FromTable(t, o)
     \/ \E d \in Elements : FromElement(d)
     \/ \E s \in Texts : FromText(s)

\* A round of the conversion; HashItem and the others keep the rest.
Converts ==
  /\ ListItem \/ HashItem \/ OtherHalf \/ Deliver
  /\ UNCHANGED <<frames, read, given, shown, mode, text, intact>>

\* tojson or tolua, escaped or not, as the last one before what follows.
Renders ==
  /\ IsElement(made) /\ text = Nothing /\ shown = Nothing /\ mode = Json
  /\ mode' \in Modes \ {Json}
  /\ UNCHANGED <<work, made, frames, read, given, shown, text, intact>>

\* The text of tojson or tolua, or of the first half of unref, which prints in
\* the mode it finds.
Prints ==
  /\ IsElement(made) /\ WithinLevels(made) /\ text = Nothing /\ shown = Nothing
  /\ text' = Text(made, mode)
  /\ UNCHANGED <<work, made, frames, read, given, shown, mode, intact>>

\* totable: the text in Lua mode is loaded.  One that holds something
\* unprintable may not even load, and is left out.  The table is then handed to
\* parse_table.  It puts the mode back, so only one mode need be looked at.
ToTable ==
  /\ IsElement(made) /\ WithinLevels(made) /\ Printable(made)
  /\ text = Nothing /\ shown = Nothing /\ mode = Json
  /\ shown' = made /\ made' = Nothing
  /\ work' = <<Nested(TableOf(made), 0)>>
  /\ UNCHANGED <<frames, read, given, mode, text, intact>>

\* One token of a JSON text is lost, doubled or replaced, or the rest cut off.
Damage ==
  /\ text # Nothing /\ intact /\ frames = << >> /\ read = Nothing /\ mode = Json
  /\ Len(text) <= MaxDamaged
  /\ \E i \in DOMAIN text :
       \/ text' = SubSeq(text, 1, i - 1)
       \/ \E part \in {<< >>, <<text[i], text[i]>>} \cup {<<c>> : c \in Tokens} :
            text' = SubSeq(text, 1, i - 1) \o part \o From(text, i + 1)
  /\ intact' = FALSE
  /\ UNCHANGED <<work, made, frames, read, given, shown, mode>>

\* JSON:parse, or the second half of unref.
Reads ==
  /\ text # Nothing
  /\ Parse(text) \/ ParseItem \/ ParseReturn
  /\ UNCHANGED <<work, made, given, shown, mode, text, intact>>

Done ==
  /\ read # Nothing \/ made \in {Raised, Crashed} \/ (shown # Nothing /\ made # Nothing)
  /\ UNCHANGED vars

Next == Converts \/ Renders \/ Prints \/ ToTable \/ Damage \/ Reads \/ Done

Spec == Init /\ [][Next]_vars
===============================================================================
