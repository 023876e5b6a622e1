----------------------------- MODULE MCJsonArray ------------------------------
(***************************************************************************)
(* JsonArray for TLC.  Values are model values, and no action tells one    *)
(* from another.                                                           *)
(***************************************************************************)
EXTENDS JsonArrayProps, TLC

\* All but "end_position" and "raw_nil", the two that make holes.
SturdyHabits == {"opaque", "rejected", "string_key", "env_append", "one_based"}
AllHabits == HabitNames

\* No guard and no property of the runs that use it reads the order of the
\* items printed so far.
WithoutText == <<env, nelms, base, idx, is_nil, intact, todo>>

ValueSymmetry == Permutations(Values)
===============================================================================
