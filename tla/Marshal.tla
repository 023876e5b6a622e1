-------------------------------- MODULE Marshal -------------------------------
(***************************************************************************)
(* The printers of lua_json_marshal.c, by the number of characters their   *)
(* formats write, and how lua_json.c gets from a length in one mode to the *)
(* others.  A text is printed in one of four modes: as JSON or as the      *)
(* source of a Lua table, with the quotes escaped or not.                  *)
(***************************************************************************)
EXTENDS Integers

Modes == [lua : BOOLEAN, esc : BOOLEAN]
Json == [lua |-> FALSE, esc |-> FALSE]

\* The opening and the closing one.
Brackets == 2

\* "key": or \"key\": or key= - in Lua mode nothing is there to escape.
KeyText(m, klen) ==
  CASE m.lua -> klen + 1
    [] ~m.lua /\ m.esc -> klen + 5
    [] OTHER -> klen + 3

\* "val" or \"val\" in both modes.
StringText(m, vlen) == vlen + (IF m.esc THEN 4 ELSE 2)

\* Numbers, booleans and null.
PlainText(vlen) == vlen

-------------------------------------------------------------------------------
\* __lua_json_elm_get_rlen: the length in mode m, from the counters b of an
\* element, which are about its text as JSON.
FromBase(b, m) ==
  b.rlen + (IF m.esc THEN 2 * b.quoted ELSE 0)
         + (CASE m.lua -> -2 * b.nkeys
              [] ~m.lua /\ m.esc -> 2 * b.nkeys
              [] OTHER -> 0)

\* Mutant of ToBase: what escaping adds is taken off as in JSON mode.
ToBaseAsJson(printed, m, nkeys, quoted, trefs) ==
  [rlen |-> CASE m.esc -> printed - (2 * quoted + 2 * nkeys)
              [] ~m.esc /\ m.lua -> printed + 2 * nkeys
              [] OTHER -> printed,
   nkeys |-> nkeys, quoted |-> quoted, trefs |-> trefs]

\* Mutant of ToBase: the tables met on the way are not kept.
ToBaseForgetsTables(printed, m, nkeys, quoted, trefs) ==
  [rlen |-> CASE m.esc /\ m.lua -> printed - (2 * quoted - 2 * nkeys)
              [] m.esc /\ ~m.lua -> printed - (2 * quoted + 2 * nkeys)
              [] ~m.esc /\ m.lua -> printed + 2 * nkeys
              [] OTHER -> printed,
   nkeys |-> nkeys, quoted |-> quoted, trefs |-> 0]

\* The end of lua_json_elm_stringify: what has been counted on the way, and the
\* length of what has been printed in mode m brought back to JSON.
ToBase(printed, m, nkeys, quoted, trefs) ==
  [rlen |-> CASE m.esc /\ m.lua -> printed - (2 * quoted - 2 * nkeys)
              [] m.esc /\ ~m.lua -> printed - (2 * quoted + 2 * nkeys)
              [] ~m.esc /\ m.lua -> printed + 2 * nkeys
              [] OTHER -> printed,
   nkeys |-> nkeys, quoted |-> quoted, trefs |-> trefs]
===============================================================================
