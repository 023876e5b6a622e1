----------------------------- MODULE MCJsonObject -----------------------------
(***************************************************************************)
(* JsonObject for TLC.  Keys and values are model values; keys are not     *)
(* symmetric because insert and the key list tell them apart only by       *)
(* position, values are.                                                   *)
(***************************************************************************)
EXTENDS JsonObjectProps, TLC

ValueSymmetry == Permutations(Values)

NoHabits == {}
AllHabits == HabitNames
===============================================================================
