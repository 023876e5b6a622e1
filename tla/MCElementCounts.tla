--------------------------- MODULE MCElementCounts ----------------------------
(***************************************************************************)
(* ElementCounts for TLC: two objects and an array, each of which can be   *)
(* nested in the others.                                                   *)
(***************************************************************************)
EXTENDS ElementCountsProps, TLC

MCWidth == [v \in Strings \cup Plain |-> IF v \in Strings THEN 3 ELSE 2]

\* The two that differ most; RenderSyncsAllModes asks about all four.
MCRenderModes == {Json, [lua |-> TRUE, esc |-> TRUE]}

\* Slots are alike, and so are the objects.
PlaceSymmetry == {f @@ g : f \in Permutations(Slots), g \in Permutations(Objects)}

\* No guard and no property reads the lengths booked, nor the counters of an
\* element that is not trusted, nor, before it is rendered, those of one with an
\* unread table, but for trefs; and nothing that is read is computed from them.
WithoutGarbage ==
  <<store, unread, trusted,
    [e \in Elms |->
       CASE e \notin trusted -> << >>
         [] e \in trusted \cap unread -> <<base[e].trefs, deleted[e]>>
         [] OTHER -> <<base[e].trefs, base[e].nkeys, base[e].quoted, deleted[e]>>]>>
===============================================================================
