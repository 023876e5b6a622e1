-------------------------- MODULE ElementCountsProps --------------------------
(***************************************************************************)
(* What the counters are good for, with any stores in any order.           *)
(***************************************************************************)
EXTENDS ElementCounts

\* Between two renderings the keys and the quoted strings of an element are
\* counted right, nested ones included, as long as its bookings are sound - but
\* for the keys deleted in the object itself, each of which is taken off twice,
\* by update_rlen and by lua_json_object_del_key.
CountsAreExact ==
  \A e \in trusted \ unread :
    /\ base[e].quoted = QuotedIn(Parts(e))
    /\ base[e].nkeys = KeysIn(Parts(e)) - deleted[e]

\* A rendering leaves the same counters in whatever mode it was, and from them
\* the lengths in all four come out right, whatever was stored before (the end of
\* lua_json_elm_stringify undoes the mode, __lua_json_elm_get_rlen applies one).
RenderSyncsAllModes ==
  \A e \in Elms :
    LET parts == Parts(e)  b == Recount(parts, Json)
    IN  \A m \in Modes : Recount(parts, m) = b /\ FromBase(b, m) = TextLen(parts, m)

\* While a table is among the values, or has been booked and not rendered, the
\* element knows and renders before it answers (trefs in update_rlen and len).
TablesAreRendered ==
  \A e \in trusted : TablesIn(Parts(e)) > 0 \/ e \in unread => base[e].trefs > 0
===============================================================================
