------------------------------- MODULE KeyList --------------------------------
(***************************************************************************)
(* The three edits lua_json_object.c makes to an object's key list, and    *)
(* the matching edit of its key -> slot map.  An object's vtable holds     *)
(* keys[1..n], the keys in order, and keys[0], a table from key to slot.   *)
(* Each C loop rewrites a range of slots and, slot by slot, the map entry  *)
(* of the key it has just put there.                                       *)
(***************************************************************************)
EXTENDS Integers, Sequences

\* The list with slot p taken out: keys[i] = keys[i + 1] from p upwards, and
\* keys[size] = nil.
Without(s, p) == [i \in 1..(Len(s) - 1) |-> IF i < p THEN s[i] ELSE s[i + 1]]

\* Mutant of Moved: the shift towards t starts one slot short of m.
MovedShort(s, m, t, k) ==
  [i \in 1..Len(s) |->
     IF i = t THEN k
     ELSE IF m <= i /\ i < t THEN s[i + 1]
     ELSE IF t < i /\ i < m THEN s[i - 1]
     ELSE s[i]]

\* The list with the slots between m and t moved one place towards m, and k
\* written to slot t.
Moved(s, m, t, k) ==
  [i \in 1..Len(s) |->
     IF i = t THEN k
     ELSE IF m <= i /\ i < t THEN s[i + 1]
     ELSE IF t < i /\ i <= m THEN s[i - 1]
     ELSE s[i]]

\* The list with the slots lo..hi turned around.
Flipped(s, lo, hi) ==
  [i \in 1..Len(s) |-> IF lo <= i /\ i <= hi THEN s[lo + hi - i] ELSE s[i]]

\* The list after keys[p] = nil; a slot that is not there stays so.
TornAt(s, p, nil) == [i \in DOMAIN s |-> IF i = p THEN nil ELSE s[i]]

\* Mutant of Renumbered: the loop leaves out its last slot.
RenumberedShort(mp, s, lo, hi) ==
  [k \in DOMAIN mp |->
     IF \E i \in lo..(hi - 1) : s[i] = k
       THEN CHOOSE i \in lo..(hi - 1) : s[i] = k
       ELSE mp[k]]

\* The map after map[s[i]] = i has been written for every slot i of lo..hi.
Renumbered(mp, s, lo, hi) ==
  [k \in DOMAIN mp |->
     IF \E i \in lo..hi : s[i] = k
       THEN CHOOSE i \in lo..hi : s[i] = k
       ELSE mp[k]]

\* The keys in the list.
Listed(s) == {s[i] : i \in DOMAIN s}

\* The list and the map say the same thing: every listed key has its slot in
\* the map, and every slot in the map holds its key.
Agrees(s, mp) ==
  /\ \A i \in DOMAIN s : mp[s[i]] = i
  /\ \A k \in DOMAIN mp : mp[k] # 0 => mp[k] \in DOMAIN s /\ s[mp[k]] = k
===============================================================================
