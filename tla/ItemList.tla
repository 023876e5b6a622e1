------------------------------- MODULE ItemList -------------------------------
(***************************************************************************)
(* What a script is told a JSON array is: a list that grows and shrinks at *)
(* any place, can be rearranged by position, and prints its items in       *)
(* order.  JsonArray is shown to implement this module for every caller    *)
(* that keeps away from the place behind the last item.                    *)
(***************************************************************************)
EXTENDS Integers, Sequences, SequencesExt

CONSTANT Items      \* what can be stored

VARIABLES list,     \* the items, first to last
          shown     \* the items the last rendering printed; << >> otherwise

ilVars == <<list, shown>>

Init == list = << >> /\ shown = << >>

Put(i, v) ==
  /\ list' = IF i \in DOMAIN list THEN [list EXCEPT ![i] = v] ELSE Append(list, v)
  /\ shown' = << >>

PutIn(i, v) == list' = InsertAt(list, i, v) /\ shown' = << >>

TakeOut(i) == list' = RemoveAt(list, i) /\ shown' = << >>

\* Take the item at position i out and put it back at position j.
Relocate(i, j) ==
  /\ list' = InsertAt(RemoveAt(list, i), j, list[i])
  /\ shown' = << >>

\* Turn the positions i..j around.
Flip(i, j) ==
  /\ list' = [p \in DOMAIN list |-> IF p \in i..j THEN list[i + j - p] ELSE list[p]]
  /\ shown' = << >>

Show(i, j) == shown' = SubSeq(list, i, j) /\ UNCHANGED list

\* A call that reads, is refused, or finds nothing to do.
Glance == shown' = << >> /\ UNCHANGED list

Next ==
  \/ \E i \in 1..(Len(list) + 1), v \in Items : Put(i, v) \/ PutIn(i, v)
  \/ \E i \in DOMAIN list : TakeOut(i)
  \/ \E i, j \in DOMAIN list : Relocate(i, j) \/ Flip(i, j) \/ Show(i, j)
  \/ Glance

Spec == Init /\ [][Next]_ilVars
===============================================================================
