------------------------------ MODULE OrderedMap ------------------------------
(***************************************************************************)
(* What a script is told a JSON object is: a map that remembers the order  *)
(* of its keys, can be rearranged by position, and prints itself in that   *)
(* order.  JsonObject is shown to implement this module for every caller   *)
(* that keeps to the habits the library can cope with.                     *)
(***************************************************************************)
EXTENDS Integers, Sequences, SequencesExt

CONSTANTS Keys,     \* the strings used as keys
          Values,   \* what can be stored and printed
          Absent    \* Lua's nil: the key is not there

VARIABLES order,    \* the keys, first to last
          val,      \* key -> value, Absent when the key is not in order
          shown     \* the pairs the last rendering printed; << >> otherwise

omVars == <<order, val, shown>>

Present(k) == val[k] # Absent

Init ==
  /\ order = << >>
  /\ val = [k \in Keys |-> Absent]
  /\ shown = << >>

\* A new key goes to the end; a known key keeps its place.
Put(k, v) ==
  /\ val' = [val EXCEPT ![k] = v]
  /\ order' = IF Present(k) THEN order ELSE Append(order, k)
  /\ shown' = << >>

Delete(k) ==
  /\ Present(k)
  /\ val' = [val EXCEPT ![k] = Absent]
  /\ \E i \in DOMAIN order : order[i] = k /\ order' = RemoveAt(order, i)
  /\ shown' = << >>

\* Take the pair at position i out and put it back at position j.
Relocate(i, j) ==
  /\ {i, j} \subseteq DOMAIN order
  /\ order' = InsertAt(RemoveAt(order, i), j, order[i])
  /\ shown' = << >>
  /\ UNCHANGED val

\* Turn the positions i..j around.
Flip(i, j) ==
  /\ order' = [p \in DOMAIN order |->
                 IF p \in i..j THEN order[i + j - p] ELSE order[p]]
  /\ shown' = << >>
  /\ UNCHANGED val

Show(i, j) ==
  /\ shown' = [p \in 1..(IF i <= j THEN j - i + 1 ELSE 0) |->
                 <<order[i + p - 1], val[order[i + p - 1]]>>]
  /\ UNCHANGED <<order, val>>

\* A call that reads, is refused, or finds nothing to do.
Glance == /\ shown' = << >>
          /\ UNCHANGED <<order, val>>

Next ==
  \/ \E k \in Keys, v \in Values : Put(k, v)
  \/ \E k \in Keys : Delete(k)
  \/ \E i, j \in DOMAIN order : Relocate(i, j)
  \/ \E i, j \in DOMAIN order : i <= j /\ Flip(i, j)
  \/ \E i, j \in 0..Len(order) : (i <= j => i > 0) /\ Show(i, j)
  \/ Show(1, Len(order))
  \/ Glance

Spec == Init /\ [][Next]_omVars
===============================================================================
