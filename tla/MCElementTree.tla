---------------------------- MODULE MCElementTree -----------------------------
(***************************************************************************)
(* ElementTree for TLC: a root r and elements p and q that may be nested   *)
(* in it and in one another, r and q objects and p an array, two slots     *)
(* each.  Slots are interchangeable.                                       *)
(***************************************************************************)
EXTENDS ElementTreeProps, TLC

CONSTANTS r, p, q, short, long

MCElms == {r, p, q}
MCPrims == {short, long}
OnePrim == {short}
TwoElms == {r, p}
MCWidth == (short :> 1 @@ long :> 7)
OneWidth == (short :> 1)
NoWidth == (short :> 0)
MCKeyWidth == (r :> 4 @@ p :> 0 @@ q :> 5)
NoKeyWidth == (r :> 0 @@ p :> 0 @@ q :> 0)
NoTwoKeyWidth == (r :> 0 @@ p :> 0)
TwoKeyWidth == (r :> 4 @@ p :> 0)

\* Without the property BubbleEnds, which is about behaviours, permuting the
\* slots changes nothing.
SlotSymmetry == Permutations(Slots)

\* Who holds, hears and calls whom.  As long as MaxLen is out of reach no guard
\* reads a length, so runs that are not about lengths may identify states that
\* differ in nothing else.
Topology == <<store, stale, ids, obs, calls, ev.type, fresh>>

NoHabits == {}
AllHabits == HabitNames
===============================================================================
