-------------------------- MODULE JsonObjectProofs ----------------------------
(***************************************************************************)
(* For any keys, values and bounds, as long as there is room for the keys  *)
(* in elm->idx: the key list and its map agree and the count stays within  *)
(* the list, whatever the calling script does; and what a script without   *)
(* any of the habits of JsonObject can rely on.                            *)
(***************************************************************************)
EXTENDS JsonObjectProps, DataLemmas, SequenceTheorems

-------------------------------------------------------------------------------
(***************************************************************************)
(* The edits of KeyList keep a key list and its map in agreement, for      *)
(* lists of any length over any set of keys K.                             *)
(***************************************************************************)
\* What a loop that renumbers the slots lo..hi of the new list s over the keys
\* K finds: outside the loop's slots the entries of mp are right already, and
\* no key is listed twice.
LoopStart(K, s, mp, lo, hi) ==
  /\ s \in Seq(K) /\ mp \in [K -> Nat]
  /\ lo \in Nat \ {0} /\ hi \in Int /\ hi <= Len(s)
  /\ \A i, j \in 1..Len(s) : s[i] = s[j] => i = j
  /\ \A i \in 1..Len(s) : i \notin lo..hi => mp[s[i]] = i
  /\ \A k \in K : \/ \E i \in lo..hi : s[i] = k
                  \/ mp[k] = 0
                  \/ mp[k] \in 1..Len(s) /\ s[mp[k]] = k

\* The loop leaves the list and the map in agreement.
THEOREM RenumberedAgrees ==
  ASSUME NEW K, NEW s, NEW mp, NEW lo, NEW hi, LoopStart(K, s, mp, lo, hi)
  PROVE  /\ Renumbered(mp, s, lo, hi) \in [K -> Nat]
         /\ Agrees(s, Renumbered(mp, s, lo, hi))
<1> USE DEF LoopStart
<1> DEFINE new == Renumbered(mp, s, lo, hi)
<1>1. ASSUME NEW i \in lo..hi
      PROVE  new[s[i]] = i
  BY <1>1 DEF Renumbered
<1>2. ASSUME NEW k \in K, ~ \E i \in lo..hi : s[i] = k
      PROVE  new[k] = mp[k]
  BY <1>2 DEF Renumbered
<1>3. new \in [K -> Nat]
  BY <1>1, <1>2, SMTT(30) DEF Renumbered
<1>4. ASSUME NEW i \in 1..Len(s)
      PROVE  new[s[i]] = i
  <2>1. CASE i \in lo..hi
    BY <1>1, <2>1
  <2>2. CASE i \notin lo..hi
    <3>1. ~ \E j \in lo..hi : s[j] = s[i]
      BY <2>2
    <3> QED BY <1>2, <2>2, <3>1
  <2> QED BY <2>1, <2>2
<1>5. ASSUME NEW k \in K, new[k] # 0
      PROVE  new[k] \in 1..Len(s) /\ s[new[k]] = k
  <2>1. CASE \E i \in lo..hi : s[i] = k
    BY <1>1, <2>1
  <2>2. CASE ~ \E i \in lo..hi : s[i] = k
    BY <1>2, <1>5, <2>2
  <2> QED BY <2>1, <2>2
<1> QED BY <1>3, <1>4, <1>5 DEF Agrees

\* No key is listed twice in a list that agrees with a map.
THEOREM AgreesDistinct ==
  ASSUME NEW K, NEW s \in Seq(K), NEW mp \in [K -> Nat], Agrees(s, mp)
  PROVE  \A i, j \in 1..Len(s) : s[i] = s[j] => i = j
  BY DEF Agrees

\* A key has a slot exactly when it is listed.
THEOREM AgreesListed ==
  ASSUME NEW K, NEW s \in Seq(K), NEW mp \in [K -> Nat], Agrees(s, mp), NEW k \in K
  PROVE  mp[k] # 0 <=> k \in Listed(s)
<1>1. ASSUME k \in Listed(s) PROVE mp[k] # 0
  <2>1. PICK i \in 1..Len(s) : s[i] = k
    BY <1>1 DEF Listed
  <2> QED BY <2>1 DEF Agrees
<1>2. ASSUME mp[k] # 0 PROVE k \in Listed(s)
  BY <1>2 DEF Agrees, Listed
<1> QED BY <1>1, <1>2

\* Taking a slot out takes its key, and no other, out of the list.
THEOREM WithoutListed ==
  ASSUME NEW K, NEW s \in Seq(K), NEW mp \in [K -> Nat], Agrees(s, mp),
         NEW p \in 1..Len(s)
  PROVE  Listed(Without(s, p)) = Listed(s) \ {s[p]}
<1> DEFINE t == Without(s, p)
<1>1. /\ DOMAIN t = 1..(Len(s) - 1) /\ DOMAIN s = 1..Len(s)
      /\ \A i \in 1..(Len(s) - 1) : t[i] = IF i < p THEN s[i] ELSE s[i + 1]
  BY DEF Without
<1>2. \A i, j \in 1..Len(s) : s[i] = s[j] => i = j
  BY AgreesDistinct
<1> HIDE DEF t
<1>3. ASSUME NEW i \in 1..(Len(s) - 1) PROVE t[i] \in Listed(s) \ {s[p]}
  <2>1. CASE i < p
    BY <1>1, <1>2, <2>1 DEF Listed
  <2>2. CASE ~ (i < p)
    BY <1>1, <1>2, <2>2 DEF Listed
  <2> QED BY <2>1, <2>2
<1>4. ASSUME NEW i \in 1..Len(s), s[i] # s[p] PROVE \E j \in 1..(Len(s) - 1) : t[j] = s[i]
  <2>1. CASE i < p
    BY <1>1, <2>1
  <2>2. CASE i > p
    <3>1. i - 1 \in 1..(Len(s) - 1) /\ t[i - 1] = s[i]
      BY <1>1, <2>2
    <3> QED BY <3>1
  <2>3. i # p
    BY <1>4
  <2> QED BY <2>1, <2>2, <2>3
<1>5. ASSUME NEW x \in Listed(t) PROVE x \in Listed(s) \ {s[p]}
  BY <1>1, <1>3 DEF Listed
<1>6. ASSUME NEW x \in Listed(s) \ {s[p]} PROVE x \in Listed(t)
  <2>1. PICK i \in 1..Len(s) : x = s[i] /\ s[i] # s[p]
    BY <1>1, <1>6 DEF Listed
  <2>2. PICK j \in 1..(Len(s) - 1) : t[j] = x
    BY <1>4, <2>1
  <2> QED BY <1>1, <2>2 DEF Listed
<1> QED BY <1>5, <1>6 DEF t

\* A key is added behind the last slot.
THEOREM AppendAgrees ==
  ASSUME NEW K, NEW s \in Seq(K), NEW mp \in [K -> Nat], Agrees(s, mp),
         NEW k \in K, mp[k] = 0
  PROVE  /\ Append(s, k) \in Seq(K)
         /\ [mp EXCEPT ![k] = Len(s) + 1] \in [K -> Nat]
         /\ Agrees(Append(s, k), [mp EXCEPT ![k] = Len(s) + 1])
<1> DEFINE t == Append(s, k)
           new == [mp EXCEPT ![k] = Len(s) + 1]
<1>1. t \in Seq(K) /\ new \in [K -> Nat] /\ DOMAIN t = 1..(Len(s) + 1)
  OBVIOUS
<1>2. ASSUME NEW i \in 1..(Len(s) + 1) PROVE new[t[i]] = i
  BY DEF Agrees
<1>3. ASSUME NEW x \in K, new[x] # 0
      PROVE  new[x] \in 1..(Len(s) + 1) /\ t[new[x]] = x
  BY <1>3 DEF Agrees
<1> QED BY <1>1, <1>2, <1>3 DEF Agrees

\* A slot is taken out: lua_json_object_del_key.
THEOREM WithoutAgrees ==
  ASSUME NEW K, NEW s \in Seq(K), NEW mp \in [K -> Nat], Agrees(s, mp),
         NEW p \in 1..Len(s)
  PROVE  LET t == Without(s, p)
             new == Renumbered([mp EXCEPT ![s[p]] = 0], t, p, Len(s) - 1)
         IN  /\ t \in Seq(K) /\ Len(t) = Len(s) - 1
             /\ new \in [K -> Nat]
             /\ Agrees(t, new)
<1> DEFINE t == Without(s, p)
           old == [mp EXCEPT ![s[p]] = 0]
<1>1. /\ t \in Seq(K) /\ Len(t) = Len(s) - 1
      /\ \A i \in 1..Len(t) : t[i] = IF i < p THEN s[i] ELSE s[i + 1]
  BY DEF Without
<1>2. old \in [K -> Nat]
  OBVIOUS
<1> HIDE DEF t
<1>3. ASSUME NEW i \in 1..Len(t), NEW j \in 1..Len(t), t[i] = t[j] PROVE i = j
  <2> DEFINE at(x) == IF x < p THEN x ELSE x + 1
  <2>1. \A x, y \in 1..Len(s) : s[x] = s[y] => x = y
    BY AgreesDistinct
  <2>2. ASSUME NEW x \in 1..Len(t) PROVE at(x) \in 1..Len(s) /\ t[x] = s[at(x)]
    <3>1. x \in Nat /\ p \in Nat /\ Len(s) \in Nat /\ Len(t) = Len(s) - 1
      BY <1>1
    <3>2. at(x) \in 1..Len(s)
      BY <3>1
    <3>3. t[x] = IF x < p THEN s[x] ELSE s[x + 1]
      BY <1>1
    <3> QED BY <3>2, <3>3
  <2>3. at(i) = at(j)
    BY <1>3, <2>1, <2>2
  <2> QED BY <2>3
<1>4. ASSUME NEW i \in 1..Len(t), i \notin p..(Len(s) - 1) PROVE old[t[i]] = i
  <2>1. i < p /\ i \in 1..Len(s) /\ t[i] = s[i]
    BY <1>1, <1>4
  <2>2. mp[s[i]] = i /\ mp[s[p]] = p
    BY <2>1 DEF Agrees
  <2>3. s[i] \in K /\ s[i] # s[p]
    BY <2>1, <2>2
  <2> QED BY <2>1, <2>2, <2>3
<1>5. ASSUME NEW k \in K, old[k] # 0, ~ \E i \in p..(Len(s) - 1) : t[i] = k
      PROVE  old[k] \in 1..Len(t) /\ t[old[k]] = k
  <2>1. k # s[p] /\ mp[k] # 0 /\ old[k] = mp[k]
    BY <1>5
  <2>2. mp[k] \in 1..Len(s) /\ s[mp[k]] = k
    BY <2>1 DEF Agrees
  <2>3. mp[k] < p
    <3>1. mp[k] # p
      BY <2>1, <2>2
    <3>2. SUFFICES ASSUME mp[k] > p PROVE FALSE
      BY <2>2, <3>1
    <3>3. mp[k] - 1 \in p..(Len(s) - 1) /\ t[mp[k] - 1] = k
      BY <1>1, <2>2, <3>2, SMTT(30)
    <3> QED BY <1>5, <3>3
  <2>4. mp[k] \in 1..Len(t)
    BY <1>1, <2>2, <2>3
  <2>5. t[mp[k]] = s[mp[k]]
    BY <1>1, <2>3, <2>4
  <2> HIDE DEF old
  <2> QED BY <2>1, <2>2, <2>4, <2>5
<1>6. LoopStart(K, t, old, p, Len(s) - 1)
  <2> HIDE DEF old
  <2>1. p \in Nat \ {0} /\ Len(s) - 1 \in Int /\ Len(s) - 1 <= Len(t)
    BY <1>1
  <2>2. \A i, j \in 1..Len(t) : t[i] = t[j] => i = j
    BY <1>3
  <2>3. \A i \in 1..Len(t) : i \notin p..(Len(s) - 1) => old[t[i]] = i
    BY <1>4
  <2>4. \A k \in K : \/ \E i \in p..(Len(s) - 1) : t[i] = k
                     \/ old[k] = 0
                     \/ old[k] \in 1..Len(t) /\ t[old[k]] = k
    BY <1>5
  <2> QED BY <1>1, <1>2, <2>1, <2>2, <2>3, <2>4 DEF LoopStart
<1> QED BY <1>1, <1>6, RenumberedAgrees DEF t

-------------------------------------------------------------------------------
\* The list t has the keys of s in the order given by a, which leaves the slots
\* outside lo..hi alone.
Rearranged(s, t, a, lo, hi) ==
  /\ DOMAIN t = DOMAIN s
  /\ lo \in Nat \ {0} /\ hi \in Int /\ hi <= Len(s)
  /\ a \in [1..Len(s) -> 1..Len(s)]
  /\ \A i \in 1..Len(s) : t[i] = s[a[i]]
  /\ \A i \in 1..Len(s) : i \notin lo..hi => a[i] = i
  /\ \A i, j \in 1..Len(s) : a[i] = a[j] => i = j
  /\ \A j \in 1..Len(s) : \E i \in 1..Len(s) : a[i] = j

\* Renumbering the slots lo..hi is enough after a rearrangement of them, and a
\* rearrangement keeps every key.
THEOREM RearrangedAgrees ==
  ASSUME NEW K, NEW s \in Seq(K), NEW mp \in [K -> Nat], Agrees(s, mp),
         NEW t \in Seq(K), NEW a, NEW lo, NEW hi, Rearranged(s, t, a, lo, hi)
  PROVE  /\ Len(t) = Len(s)
         /\ Listed(t) = Listed(s)
         /\ Renumbered(mp, t, lo, hi) \in [K -> Nat]
         /\ Agrees(t, Renumbered(mp, t, lo, hi))
<1>a. /\ DOMAIN t = 1..Len(s) /\ Len(t) = Len(s) /\ DOMAIN s = 1..Len(s)
      /\ lo \in Nat \ {0} /\ hi \in Int /\ hi <= Len(s)
  BY DEF Rearranged
<1>d. \A i \in 1..Len(s) : a[i] \in 1..Len(s)
  BY DEF Rearranged
<1>e. \A i \in 1..Len(s) : t[i] = s[a[i]]
  BY DEF Rearranged
<1>b. /\ \A i \in 1..Len(s) : i \notin lo..hi => a[i] = i
      /\ \A i, j \in 1..Len(s) : a[i] = a[j] => i = j
      /\ \A j \in 1..Len(s) : \E i \in 1..Len(s) : a[i] = j
  BY DEF Rearranged
<1>c. /\ \A i \in 1..Len(s) : s[i] \in K /\ mp[s[i]] = i
      /\ \A k \in K : mp[k] # 0 => mp[k] \in 1..Len(s) /\ s[mp[k]] = k
  BY DEF Agrees
<1>2. Listed(t) = Listed(s)
  <2>1. ASSUME NEW i \in 1..Len(s) PROVE \E j \in 1..Len(s) : t[i] = s[j]
    BY <1>d, <1>e
  <2>2. ASSUME NEW j \in 1..Len(s) PROVE \E i \in 1..Len(s) : t[i] = s[j]
    <3>1. PICK i \in 1..Len(s) : a[i] = j
      BY <1>b
    <3> QED BY <1>e, <3>1
  <2>3. ASSUME NEW x \in Listed(t) PROVE x \in Listed(s)
    BY <1>a, <2>1 DEF Listed
  <2>4. ASSUME NEW x \in Listed(s) PROVE x \in Listed(t)
    BY <1>a, <2>2 DEF Listed
  <2> QED BY <2>3, <2>4
<1>3. ASSUME NEW i \in 1..Len(s), NEW j \in 1..Len(s), t[i] = t[j] PROVE i = j
  <2>1. s[a[i]] = s[a[j]] /\ a[i] \in 1..Len(s) /\ a[j] \in 1..Len(s)
    BY <1>d, <1>e, <1>3
  <2>2. a[i] = a[j]
    BY <1>c, <2>1
  <2> QED BY <1>b, <2>2
<1>4. ASSUME NEW i \in 1..Len(s), i \notin lo..hi PROVE mp[t[i]] = i
  BY <1>b, <1>c, <1>e, <1>4, ZenonT(60)
<1>5. ASSUME NEW k \in K, mp[k] # 0, ~ (mp[k] \in 1..Len(s) /\ t[mp[k]] = k)
      PROVE  \E i \in lo..hi : t[i] = k
  <2>1. mp[k] \in 1..Len(s) /\ s[mp[k]] = k
    BY <1>5, <1>c
  <2>2. mp[k] \in lo..hi
    <3>1. SUFFICES ASSUME mp[k] \notin lo..hi PROVE FALSE
      OBVIOUS
    <3>2. t[mp[k]] = s[mp[k]]
      BY <1>b, <1>e, <2>1, <3>1
    <3> QED BY <1>5, <2>1, <3>2
  <2>3. PICK i \in 1..Len(s) : a[i] = mp[k]
    BY <1>b, <2>1
  <2>4. t[i] = k
    BY <1>e, <2>1, <2>3
  <2>5. i \in lo..hi
    BY <1>b, <2>2, <2>3
  <2> QED BY <2>4, <2>5
<1>6. LoopStart(K, t, mp, lo, hi)
  <2>1. \A k \in K : \/ \E i \in lo..hi : t[i] = k
                     \/ mp[k] = 0
                     \/ mp[k] \in 1..Len(t) /\ t[mp[k]] = k
    BY <1>a, <1>5
  <2>2. \A i, j \in 1..Len(t) : t[i] = t[j] => i = j
    BY <1>a, <1>3
  <2>3. \A i \in 1..Len(t) : i \notin lo..hi => mp[t[i]] = i
    BY <1>a, <1>4
  <2> QED BY <1>a, <2>1, <2>2, <2>3 DEF LoopStart
<1> QED BY <1>a, <1>2, <1>6, RenumberedAgrees

\* t is a list with the keys of s, and new a map that agrees with it.
InOrder(K, s, t, new) ==
  /\ t \in Seq(K) /\ Len(t) = Len(s) /\ Listed(t) = Listed(s)
  /\ new \in [K -> Nat]
  /\ Agrees(t, new)

\* A range of slots is turned around: lua_json_object_reverse.
THEOREM FlippedAgrees ==
  ASSUME NEW K, NEW s \in Seq(K), NEW mp \in [K -> Nat], Agrees(s, mp),
         NEW lo \in 1..Len(s), NEW hi \in 1..Len(s)
  PROVE  InOrder(K, s, Flipped(s, lo, hi), Renumbered(mp, Flipped(s, lo, hi), lo, hi))
<1> DEFINE t == Flipped(s, lo, hi)
           a == [i \in 1..Len(s) |-> IF lo <= i /\ i <= hi THEN lo + hi - i ELSE i]
<1>1. t \in Seq(K) /\ Len(t) = Len(s)
  BY DEF Flipped
<1>2. \A i \in 1..Len(s) : a[a[i]] = i
  OBVIOUS
<1>3. \A i \in 1..Len(s) : a[i] \in 1..Len(s) /\ t[i] = s[a[i]]
  BY DEF Flipped
<1>4. \A i \in 1..Len(s) : i \notin lo..hi => a[i] = i
  OBVIOUS
<1>5. Rearranged(s, t, a, lo, hi)
  <2> a \in [1..Len(s) -> 1..Len(s)]
    BY <1>3
  <2> HIDE DEF t, a
  <2>1. Len(s) \in Nat /\ DOMAIN t = DOMAIN s
    BY <1>1
  <2>2. lo \in Nat \ {0} /\ hi \in Int /\ hi <= Len(s)
    BY <2>1
  <2>3. \A i, j \in 1..Len(s) : a[i] = a[j] => i = j
    BY <1>2
  <2>4. \A j \in 1..Len(s) : \E i \in 1..Len(s) : a[i] = j
    BY <1>2, <1>3
  <2> QED BY <1>3, <1>4, <2>1, <2>2, <2>3, <2>4, Zenon DEF Rearranged
<1>6. /\ Listed(t) = Listed(s)
      /\ Renumbered(mp, t, lo, hi) \in [K -> Nat]
      /\ Agrees(t, Renumbered(mp, t, lo, hi))
  <2> HIDE DEF a, t
  <2>a. t \in Seq(K)
    BY <1>1
  <2>b. Listed(t) = Listed(s)
    BY <2>a, <1>5, RearrangedAgrees, ZenonT(30)
  <2>c. Renumbered(mp, t, lo, hi) \in [K -> Nat]
    BY <2>a, <1>5, RearrangedAgrees, ZenonT(30)
  <2>d. Agrees(t, Renumbered(mp, t, lo, hi))
    BY <2>a, <1>5, RearrangedAgrees, ZenonT(30)
  <2> QED BY <2>b, <2>c, <2>d
<1> QED BY <1>1, <1>6 DEF InOrder

\* A pair is taken out and put back elsewhere: lua_json_object_move.
THEOREM MovedAgrees ==
  ASSUME NEW K, NEW s \in Seq(K), NEW mp \in [K -> Nat], Agrees(s, mp),
         NEW m \in 1..Len(s), NEW u \in 1..Len(s)
  PROVE  InOrder(K, s, Moved(s, m, u, s[m]),
                 Renumbered(mp, Moved(s, m, u, s[m]),
                            IF m < u THEN m ELSE u, IF m < u THEN u ELSE m))
<1> DEFINE t == Moved(s, m, u, s[m])
           lo == IF m < u THEN m ELSE u
           hi == IF m < u THEN u ELSE m
           a == [i \in 1..Len(s) |-> IF i = u THEN m
                                     ELSE IF m <= i /\ i < u THEN i + 1
                                     ELSE IF u < i /\ i <= m THEN i - 1
                                     ELSE i]
           b == [j \in 1..Len(s) |-> IF j = m THEN u
                                     ELSE IF m < j /\ j <= u THEN j - 1
                                     ELSE IF u <= j /\ j < m THEN j + 1
                                     ELSE j]
<1>1. t \in Seq(K) /\ Len(t) = Len(s)
  BY DEF Moved
<1>2. /\ \A i \in 1..Len(s) : a[i] \in 1..Len(s) /\ b[a[i]] = i
      /\ \A j \in 1..Len(s) : b[j] \in 1..Len(s) /\ a[b[j]] = j
  OBVIOUS
<1>3. \A i \in 1..Len(s) : t[i] = s[a[i]]
  BY DEF Moved
<1>4. \A i \in 1..Len(s) : i \notin lo..hi => a[i] = i
  OBVIOUS
<1>5. Rearranged(s, t, a, lo, hi)
  <2>1. a \in [1..Len(s) -> 1..Len(s)]
    BY <1>2
  <2>2. lo \in Nat \ {0} /\ hi \in Int /\ hi <= Len(s)
    OBVIOUS
  <2> HIDE DEF t, a, b, lo, hi
  <2>3. DOMAIN t = DOMAIN s
    BY <1>1
  <2>4. \A i, j \in 1..Len(s) : a[i] = a[j] => i = j
    BY <1>2
  <2>5. \A j \in 1..Len(s) : \E i \in 1..Len(s) : a[i] = j
    BY <1>2
  <2> QED BY <1>3, <1>4, <2>1, <2>2, <2>3, <2>4, <2>5 DEF Rearranged
<1>6. /\ Listed(t) = Listed(s)
      /\ Renumbered(mp, t, lo, hi) \in [K -> Nat]
      /\ Agrees(t, Renumbered(mp, t, lo, hi))
  <2> HIDE DEF a, t, lo, hi
  <2>a. t \in Seq(K)
    BY <1>1
  <2>b. Listed(t) = Listed(s)
    BY <2>a, <1>5, RearrangedAgrees, ZenonT(30)
  <2>c. Renumbered(mp, t, lo, hi) \in [K -> Nat]
    BY <2>a, <1>5, RearrangedAgrees, ZenonT(30)
  <2>d. Agrees(t, Renumbered(mp, t, lo, hi))
    BY <2>a, <1>5, RearrangedAgrees, ZenonT(30)
  <2> QED BY <2>b, <2>c, <2>d
<1> QED BY <1>1, <1>6 DEF InOrder

-------------------------------------------------------------------------------
(***************************************************************************)
(* The object.                                                             *)
(***************************************************************************)
\* The types of an object whose list is whole.
Shapes ==
  /\ env \in [Keys -> AnyValue]
  /\ keys \in Seq(Keys)
  /\ map \in [Keys -> Nat]
  /\ nelms \in Int
  /\ base \in {0, 1}
  /\ intact \in BOOLEAN
  /\ todo \in Items
  /\ out \in Seq(Keys \X AnyValue)

\* As long as there is a map, it says what the list says.
ListMatches == intact => Agrees(keys, map)

\* Every slot number fits elm->idx.
Room == MaxKeys < IdxMod

\* The list, its map and the count, without the progress of a call.
DataOK ==
  /\ env \in [Keys -> AnyValue]
  /\ keys \in Seq(Keys)
  /\ map \in [Keys -> Nat]
  /\ nelms \in Int
  /\ intact \in BOOLEAN
  /\ ListMatches
  /\ CountWithinList

\* There is room for what an unshift has still to write, ...
KeysFit == Len(keys) + (IF todo.pc = "write" THEN Len(todo.left) ELSE 0) <= MaxKeys

\* ... and its loop ends no later than its arguments.
LoopEnds ==
  todo.pc = "write" => /\ todo.nargs = 2 * Len(todo.left)
                       /\ Len(todo.left) = 0 => todo.i > 0

\* An object whose list is whole is in order.
IInv == Shapes /\ ListMatches /\ CountWithinList /\ KeysFit /\ LoopEnds

\* One with a slot torn out is what reverse left of it, and is not called again.
TornInv == TypeOK /\ Torn /\ ListIsSound /\ todo = Idle

\* The two cases there are.
EitherInv == IInv \/ TornInv

\* A slot read back from the map is the slot that was written.
LEMMA SlotIsMap ==
  ASSUME Room, DataOK, intact, Len(keys) <= MaxKeys, NEW k \in Keys
  PROVE  Slot(k) = map[k] /\ map[k] \in 0..Len(keys)
  BY ConstantsAreSound DEF Room, DataOK, ListMatches, Agrees, Slot, Idx16

\* A key that has no slot is entered.
LEMMA EnterKeyOK ==
  ASSUME DataOK, intact, NEW k \in Keys, ~Indexed(k), EnterKey(k)
  PROVE  /\ keys' \in Seq(Keys) /\ Len(keys') = Len(keys) + 1
         /\ map' \in [Keys -> Nat]
         /\ Agrees(keys', map')
<1>1. keys \in Seq(Keys) /\ map \in [Keys -> Nat] /\ Agrees(keys, map) /\ map[k] = 0
  BY DEF DataOK, ListMatches, Indexed
<1>2. /\ Append(keys, k) \in Seq(Keys)
      /\ [map EXCEPT ![k] = Len(keys) + 1] \in [Keys -> Nat]
      /\ Agrees(Append(keys, k), [map EXCEPT ![k] = Len(keys) + 1])
  BY <1>1, AppendAgrees, ZenonT(30)
<1>3. Len(Append(keys, k)) = Len(keys) + 1
  BY <1>1
<1> QED BY <1>2, <1>3 DEF EnterKey

\* Deleting a slot of a list and a map that agree; slot 0 loses the map.
LEMMA DropSlotOK ==
  ASSUME keys \in Seq(Keys), map \in [Keys -> Nat], intact,
         NEW ks \in Seq(Keys), NEW mp \in [Keys -> Nat], Agrees(ks, mp),
         NEW p \in 0..Len(ks), DropSlot(ks, mp, p)
  PROVE  \/ p = 0 /\ ~intact' /\ keys' = keys /\ map' = map
         \/ /\ p # 0 /\ intact' = intact
            /\ keys' \in Seq(Keys) /\ Len(keys') = Len(ks) - 1
            /\ map' \in [Keys -> Nat]
            /\ Agrees(keys', map')
<1>1. CASE p = 0
  BY <1>1 DEF DropSlot
<1>2. CASE p # 0
  <2>1. p \in 1..Len(ks)
    BY <1>2
  <2>2. /\ keys' = Without(ks, p)
        /\ map' = Renumbered([mp EXCEPT ![ks[p]] = 0], Without(ks, p), p, Len(ks) - 1)
        /\ intact' = intact
    BY <1>2 DEF DropSlot
  <2>3. /\ Without(ks, p) \in Seq(Keys) /\ Len(Without(ks, p)) = Len(ks) - 1
        /\ Renumbered([mp EXCEPT ![ks[p]] = 0], Without(ks, p), p, Len(ks) - 1)
             \in [Keys -> Nat]
        /\ Agrees(Without(ks, p),
                  Renumbered([mp EXCEPT ![ks[p]] = 0], Without(ks, p), p, Len(ks) - 1))
    BY <2>1, WithoutAgrees, ZenonT(30)
  <2> QED BY <1>2, <2>2, <2>3
<1> QED BY <1>1, <1>2

-------------------------------------------------------------------------------
\* What every assignment, completed or refused, does to an object in order: it
\* is in order afterwards, unless the map is lost, and longer by one key at
\* most, a key that had no slot.
LEMMA AssignOK ==
  ASSUME Room, DataOK, intact, NEW k \in Keys, NEW v, NEW ok \in BOOLEAN,
         Len(keys) <= MaxKeys, Len(keys) < MaxKeys \/ Indexed(k),
         Assign(k, v, ok)
  PROVE  /\ DataOK'
         /\ \/ Len(keys') <= Len(keys)
            \/ ~Indexed(k) /\ Len(keys') = Len(keys) + 1
<1>1. /\ keys \in Seq(Keys) /\ map \in [Keys -> Nat] /\ nelms \in Int
      /\ env \in [Keys -> AnyValue] /\ intact = TRUE /\ Agrees(keys, map)
      /\ nelms <= Len(keys) /\ Len(keys) \in Nat
  BY DEF DataOK, ListMatches, CountWithinList
<1>2. Slot(k) = map[k] /\ map[k] \in 0..Len(keys)
  BY SlotIsMap
<1>3. \A w : w \in AnyValue => [env EXCEPT ![k] = w] \in [Keys -> AnyValue]
  BY <1>1
<1>a. Idx16(Len(keys) + 1) = Len(keys) + 1 \/ Indexed(k)
  BY <1>1, ConstantsAreSound DEF Idx16, Room
<1>4. CASE v \in Values /\ AssignNew(k, v)
  <2>1. env' \in [Keys -> AnyValue] /\ nelms' = nelms + 1 /\ intact' = intact
    BY <1>3, <1>4 DEF AssignNew, AnyValue
  <2>2. CASE EntersKey(k, v)
    <3>1. EnterKey(k) /\ ~Indexed(k)
      BY <1>4, <2>2 DEF AssignNew, EnterIf, EntersKey
    <3> QED BY <1>1, <2>1, <3>1, EnterKeyOK DEF DataOK, ListMatches, CountWithinList
  <2>3. CASE ~EntersKey(k, v)
    <3>1. keys' = keys /\ map' = map
      BY <1>4, <2>3 DEF AssignNew, EnterIf
    <3>2. map[k] > nelms
      BY <1>2, <1>4, <2>3 DEF AssignNew, IdxFor, Slot
    <3> QED BY <1>1, <1>2, <2>1, <3>1, <3>2 DEF DataOK, ListMatches, CountWithinList
  <2> QED BY <2>2, <2>3
<1>5. CASE v \in Values /\ AssignOver(k, v)
  <2>1. env' \in [Keys -> AnyValue] /\ nelms' = nelms /\ intact' = intact
    BY <1>3, <1>5 DEF AssignOver, AnyValue
  <2>2. \/ EnterKey(k) /\ ~Indexed(k)
        \/ keys' = keys /\ map' = map
    BY <1>5 DEF AssignOver, EnterIf, EntersKey
  <2>3. CASE EnterKey(k) /\ ~Indexed(k)
    BY <1>1, <2>1, <2>3, EnterKeyOK DEF DataOK, ListMatches, CountWithinList
  <2>4. CASE keys' = keys /\ map' = map
    BY <1>1, <2>1, <2>4 DEF DataOK, ListMatches, CountWithinList
  <2> QED BY <2>2, <2>3, <2>4
<1>6. CASE AssignOpaque(k)
  <2>1. env' \in [Keys -> AnyValue]
    BY <1>3, <1>6 DEF AssignOpaque, AnyValue
  <2> QED BY <1>1, <1>6, <2>1 DEF AssignOpaque, DataOK, ListMatches, CountWithinList
<1>7. CASE AssignNil(k)
  <2> DEFINE entered == ~Stored(k) /\ ~Indexed(k)
             ks == IF entered THEN Append(keys, k) ELSE keys
             mp == IF entered THEN [map EXCEPT ![k] = Len(keys) + 1] ELSE map
             p == Idx16(mp[k])
  <2>1. DropSlot(ks, mp, p) /\ nelms' = nelms - 1 /\ env' = [env EXCEPT ![k] = Absent]
    BY <1>7 DEF AssignNil
  <2>2. /\ ks \in Seq(Keys) /\ mp \in [Keys -> Nat] /\ Agrees(ks, mp)
        /\ p \in 0..Len(ks)
        /\ \/ Len(ks) = Len(keys)
           \/ p # 0 /\ ~Indexed(k) /\ Len(ks) = Len(keys) + 1
    <3>1. CASE entered
      <4>1. /\ Append(keys, k) \in Seq(Keys)
            /\ [map EXCEPT ![k] = Len(keys) + 1] \in [Keys -> Nat]
            /\ Agrees(Append(keys, k), [map EXCEPT ![k] = Len(keys) + 1])
        <5>1. map[k] = 0
          BY <3>1 DEF Indexed
        <5> QED BY <1>1, <5>1, AppendAgrees, ZenonT(30)
      <4>2. p = Len(keys) + 1
        BY <1>1, <1>a, <3>1
      <4> QED BY <1>1, <3>1, <4>1, <4>2
    <3>2. CASE ~entered
      BY <1>1, <1>2, <3>2 DEF Slot
    <3> QED BY <3>1, <3>2
  <2>3. env' \in [Keys -> AnyValue]
    BY <1>3, <2>1 DEF AnyValue
  <2> HIDE DEF ks, mp, p
  <2>4. \/ p = 0 /\ ~intact' /\ keys' = keys /\ map' = map
        \/ /\ p # 0 /\ intact' = intact
           /\ keys' \in Seq(Keys) /\ Len(keys') = Len(ks) - 1
           /\ map' \in [Keys -> Nat]
           /\ Agrees(keys', map')
    BY <1>1, <2>1, <2>2, DropSlotOK
  <2>5. intact' \in BOOLEAN
    BY <1>1, <2>1, <2>4 DEF DropSlot
  <2>6. /\ keys' \in Seq(Keys) /\ map' \in [Keys -> Nat]
        /\ intact' => Agrees(keys', map')
    BY <1>1, <2>4
  <2>7. Len(ks) \in Nat /\ Len(keys') \in Nat
    BY <2>2, <2>6
  <2>8. Len(keys') <= Len(keys) /\ nelms' <= Len(keys')
    <3>1. CASE p = 0
      BY <1>1, <2>1, <2>2, <2>4, <2>7, <3>1
    <3>2. CASE p # 0
      <4>1. Len(keys') = Len(ks) - 1 /\ nelms' = nelms - 1
        BY <2>1, <2>4, <3>2
      <4>2. Len(ks) = Len(keys) \/ Len(ks) = Len(keys) + 1
        BY <2>2
      <4> QED BY <1>1, <2>7, <4>1, <4>2
    <3> QED BY <3>1, <3>2
  <2>9. nelms' \in Int
    BY <1>1, <2>1
  <2> QED BY <2>3, <2>5, <2>6, <2>8, <2>9 DEF DataOK, ListMatches, CountWithinList
<1>8. CASE Refuse(k)
  <2>1. \/ EnterKey(k) /\ ~Indexed(k)
        \/ keys' = keys /\ map' = map
    BY <1>8 DEF Refuse, EnterIf, EntersKey
  <2>2. env' = env /\ nelms' = nelms /\ intact' = intact
    BY <1>8 DEF Refuse
  <2>3. CASE EnterKey(k) /\ ~Indexed(k)
    BY <1>1, <2>2, <2>3, EnterKeyOK DEF DataOK, ListMatches, CountWithinList
  <2>4. CASE keys' = keys /\ map' = map
    BY <1>1, <2>2, <2>4 DEF DataOK, ListMatches, CountWithinList
  <2> QED BY <2>1, <2>3, <2>4
<1>9. CASE UNCHANGED <<env, keys, map, nelms, intact>>
  BY <1>1, <1>9 DEF DataOK, ListMatches, CountWithinList
<1> QED BY <1>4, <1>5, <1>6, <1>7, <1>8, <1>9 DEF Assign

-------------------------------------------------------------------------------
\* The invariant taken apart, for citing.
LEMMA IInvParts ==
  ASSUME IInv
  PROVE  /\ DataOK /\ Len(keys) \in Nat /\ Len(keys) <= MaxKeys
         /\ base \in {0, 1} /\ todo \in Items /\ out \in Seq(Keys \X AnyValue)
<1>1. DataOK /\ Len(keys) \in Nat /\ base \in {0, 1} /\ todo \in Items
      /\ out \in Seq(Keys \X AnyValue)
  BY DEF IInv, Shapes, DataOK
<1>2. Len(keys) <= MaxKeys
  <2>1. CASE todo.pc = "write"
    <3>1. Len(todo.left) \in Nat
      BY <1>1, <2>1 DEF Items
    <3> QED BY <1>1, <2>1, <3>1, ConstantsAreSound DEF IInv, KeysFit
  <2>2. CASE todo.pc # "write"
    BY <1>1, <2>2, ConstantsAreSound DEF IInv, KeysFit
  <2> QED BY <2>1, <2>2
<1> QED BY <1>1, <1>2

\* A call that ends where it began has only the data to answer for.
LEMMA QuietStep ==
  ASSUME IInv, Quiet, DataOK', Len(keys') <= MaxKeys
  PROVE  IInv'
<1>1. todo' = [pc |-> "idle"] /\ out' = << >> /\ base' = base
  BY DEF Quiet, Idle
<1>2. todo' \in Items /\ todo'.pc # "write" /\ out' \in Seq(Keys \X AnyValue)
  BY <1>1 DEF Items
<1>3. base' \in {0, 1}
  BY <1>1, IInvParts
<1>4. Shapes' /\ ListMatches' /\ CountWithinList'
  BY <1>2, <1>3 DEF Shapes, DataOK
<1>5. KeysFit' /\ LoopEnds'
  BY <1>2, ConstantsAreSound DEF KeysFit, LoopEnds, DataOK
<1> QED BY <1>4, <1>5 DEF IInv

\* A call that ends with the data as it was.
LEMMA UnchangedStep ==
  ASSUME IInv, Quiet, UNCHANGED <<env, keys, map, nelms, intact>>
  PROVE  IInv'
<1>1. DataOK' /\ Len(keys') <= MaxKeys
  BY IInvParts DEF DataOK, ListMatches, CountWithinList
<1> QED BY <1>1, QuietStep

\* A position names a slot of the list.
LEMMA PositionsAreSlots ==
  ASSUME Room, IInv, intact
  PROVE  Positions \subseteq 1..Len(keys)
<1>1. ASSUME NEW k \in Keys, Slot(k) # 0 PROVE Slot(k) \in 1..Len(keys)
  <2>1. Slot(k) \in 0..Len(keys)
    BY IInvParts, SlotIsMap
  <2> QED BY <1>1, <2>1, IInvParts
<1>2. DOMAIN keys = 1..Len(keys)
  BY IInvParts DEF DataOK
<1> QED BY <1>1, <1>2 DEF Positions

\* A whole list has no slot torn out, and its types are those of the object.
LEMMA WholeIsWhole ==
  ASSUME IInv
  PROVE  TypeOK /\ ~Torn /\ ListIsSound
<1>1. Shapes /\ ListMatches /\ CountWithinList /\ DOMAIN keys = 1..Len(keys)
  BY DEF IInv, Shapes
<1>2. keys \in Seq(Keys \cup {Absent})
  BY <1>1 DEF Shapes
<1>3. \A i \in DOMAIN keys : keys[i] \in Keys /\ keys[i] # Absent
  BY <1>1, ConstantsAreSound DEF Shapes
<1>4. MapAgreesWithList
  BY <1>1, <1>3 DEF ListMatches, Agrees, MapAgreesWithList, Shapes
<1> QED BY <1>1, <1>2, <1>3, <1>4 DEF TypeOK, Shapes, Torn, Listed, ListIsSound

\* Turning slots around keeps everything in order, and every key, as long as
\* both ends are in the list; slot 0 loses the map.
LEMMA ReverseSlotsOK ==
  ASSUME IInv, intact, NEW a \in Nat, NEW b \in Nat, ReverseSlots(a, b),
         ~RaisesReversing(a, b)
  PROVE  /\ DataOK' /\ Len(keys') = Len(keys) /\ Listed(keys') = Listed(keys)
         /\ env' = env
<1> DEFINE lo == Inner(a, b)
           hi == Outer(a, b)
<1>1. DataOK /\ Len(keys) \in Nat /\ intact = TRUE
  BY IInvParts DEF DataOK
<1>2. env' = env /\ nelms' = nelms
  BY DEF ReverseSlots
<1>3. CASE a # b /\ lo = 0
  <2>1. keys' = keys /\ map' = map /\ intact' = FALSE
    BY <1>3 DEF ReverseSlots
  <2> QED BY <1>1, <1>2, <2>1 DEF DataOK, ListMatches, CountWithinList
<1>4. CASE a # b /\ lo # 0
  <2>1. /\ keys' = Flipped(keys, lo, hi)
        /\ map' = Renumbered(map, Flipped(keys, lo, hi), lo, hi)
        /\ intact' = intact
    BY <1>4 DEF ReverseSlots
  <2>2. lo \in 1..Len(keys) /\ hi \in 1..Len(keys)
    BY <1>1, <1>4 DEF RaisesReversing, Inner, Outer
  <2>3. keys \in Seq(Keys) /\ map \in [Keys -> Nat] /\ Agrees(keys, map)
    BY <1>1 DEF DataOK, ListMatches
  <2> HIDE DEF lo, hi
  <2>4. InOrder(Keys, keys, Flipped(keys, lo, hi),
                Renumbered(map, Flipped(keys, lo, hi), lo, hi))
    BY <2>2, <2>3, FlippedAgrees, ZenonT(30)
  <2> QED BY <1>1, <1>2, <2>1, <2>4 DEF InOrder, DataOK, ListMatches, CountWithinList
<1>5. CASE a = b
  <2>1. keys' = keys /\ map' = map /\ intact' = intact
    BY <1>5 DEF ReverseSlots
  <2> QED BY <1>1, <1>2, <2>1 DEF DataOK, ListMatches, CountWithinList
<1> QED BY <1>3, <1>4, <1>5

\* An end behind the list tears out the slot at the other end; of a list that
\* has no such slot it leaves everything as it was.
LEMMA TearingOK ==
  ASSUME IInv, intact, Quiet, NEW a \in Nat \ {0}, a = 1 \/ a <= Len(keys), NEW b \in Nat,
         ReverseSlots(a, b), RaisesReversing(a, b)
  PROVE  /\ EitherInv' /\ env' = env /\ Len(keys') = Len(keys)
         /\ \/ keys' = keys
            \/ a \in DOMAIN keys /\ keys' = TornAt(keys, a, Absent)
<1> DEFINE lo == Inner(a, b)
<1>1. /\ Shapes /\ keys \in Seq(Keys) /\ Len(keys) \in Nat /\ DOMAIN keys = 1..Len(keys)
      /\ map \in [Keys -> Nat] /\ nelms \in Int /\ nelms <= Len(keys)
      /\ Agrees(keys, map) /\ Len(keys) <= MaxKeys /\ DataOK
  BY IInvParts DEF IInv, Shapes, ListMatches, CountWithinList
<1>2. /\ keys' = TornAt(keys, lo, Absent)
      /\ env' = env /\ nelms' = nelms /\ map' = map /\ intact' = intact
  <2>1. a # b /\ lo # 0
    BY DEF RaisesReversing
  <2> QED BY <2>1, Zenon DEF ReverseSlots
<1>3. \/ Len(keys) = 0
      \/ lo = a /\ a \in 1..Len(keys)
  BY <1>1 DEF RaisesReversing, Inner, Outer
<1>4. CASE Len(keys) = 0
  <2>1. keys' = keys
    BY <1>1, <1>2, <1>4 DEF TornAt
  <2> QED BY <1>2, <2>1, UnchangedStep DEF EitherInv
<1>5. CASE lo = a /\ a \in 1..Len(keys)
  <2>1. keys' = [i \in 1..Len(keys) |-> IF i = a THEN Absent ELSE keys[i]]
    BY <1>1, <1>2, <1>5 DEF TornAt
  <2>2. /\ keys' \in Seq(Keys \cup {Absent}) /\ Len(keys') = Len(keys)
        /\ DOMAIN keys' = 1..Len(keys) /\ keys'[a] = Absent
        /\ \A i \in 1..Len(keys) : keys'[i] = IF i = a THEN Absent ELSE keys[i]
    BY <1>1, <1>5, <2>1
  <2>3. Torn'
    BY <1>5, <2>2 DEF Torn, Listed
  <2>4. \A k \in Keys : map[k] # 0 => map[k] \in 1..Len(keys) /\ keys[map[k]] = k
    BY <1>1 DEF Agrees
  <2>5. MapAgreesWithList'
    BY <1>1, <1>2, <2>2, <2>4 DEF MapAgreesWithList, Agrees
  <2>6. CountWithinList'
    BY <1>1, <1>2, <2>2 DEF CountWithinList
  <2>7. todo' = Idle /\ out' = << >> /\ base' = base
    BY DEF Quiet
  <2>8. todo' \in Items /\ out' \in Seq(Keys \X AnyValue)
    BY <2>7 DEF Items, Idle
  <2>9. TypeOK'
    BY <1>1, <1>2, <2>2, <2>7, <2>8 DEF TypeOK, Shapes
  <2> QED BY <1>1, <1>2, <1>5, <2>2, <2>3, <2>5, <2>6, <2>7, <2>9 DEF EitherInv, TornInv, ListIsSound
<1> QED BY <1>3, <1>4, <1>5

\* Moving a pair keeps everything in order, and every key:
\* lua_json_object_move between two slots of the list.
LEMMA MoveSlotOK ==
  ASSUME IInv, intact, NEW m \in 1..Len(keys), NEW t \in 1..Len(keys),
         MoveSlot(m, t, keys[m])
  PROVE  /\ DataOK' /\ Len(keys') = Len(keys) /\ Listed(keys') = Listed(keys)
         /\ env' = env
<1> DEFINE lo == IF m < t THEN m ELSE t
           hi == IF m < t THEN t ELSE m
<1>1. DataOK /\ Len(keys) \in Nat /\ intact = TRUE
  BY IInvParts DEF DataOK
<1>2. env' = env /\ nelms' = nelms /\ intact' = intact
  BY DEF MoveSlot
<1>3. CASE m = t
  <2>1. keys' = keys /\ map' = map
    BY <1>3 DEF MoveSlot
  <2> QED BY <1>1, <1>2, <2>1 DEF DataOK, ListMatches, CountWithinList
<1>4. CASE m # t
  <2>1. /\ keys' = Moved(keys, m, t, keys[m])
        /\ map' = Renumbered(map, Moved(keys, m, t, keys[m]), lo, hi)
    BY <1>4 DEF MoveSlot
  <2>3. keys \in Seq(Keys) /\ map \in [Keys -> Nat] /\ Agrees(keys, map)
    BY <1>1 DEF DataOK, ListMatches
  <2>4. InOrder(Keys, keys, Moved(keys, m, t, keys[m]),
                Renumbered(map, Moved(keys, m, t, keys[m]), lo, hi))
    BY <2>3, MovedAgrees, ZenonT(30)
  <2> HIDE DEF lo, hi
  <2> QED BY <1>1, <1>2, <2>1, <2>4 DEF InOrder, DataOK, ListMatches, CountWithinList
<1> QED BY <1>3, <1>4

-------------------------------------------------------------------------------
\* A set of numbers has a least one.
LEMMA LeastNumber ==
  ASSUME NEW S \in SUBSET Nat, S # {}
  PROVE  \E i \in S : \A j \in S : i <= j
<1>1. PICK i \in S : \A j \in S : <<j, i>> \notin OpToRel(<, Nat)
  BY WFMin, NatLessThanWellFounded, ZenonT(20)
<1>2. \A j \in S : ~ (j < i)
  BY <1>1 DEF OpToRel
<1> QED BY <1>2

\* The first hole is a slot without a value, and a rendering stops before it.
LEMMA FirstHoleOK ==
  ASSUME IInv, NEW s, NEW e, Holes(s, e) # {}
  PROVE  FirstHole(s, e) \in 1..Len(keys) /\ FirstHole(s, e) \in Holes(s, e)
<1>1. Holes(s, e) \subseteq 1..Len(keys)
  BY IInvParts DEF Holes, DataOK
<1>2. \E i \in Holes(s, e) : \A j \in Holes(s, e) : i <= j
  BY <1>1, LeastNumber, IInvParts
<1>3. FirstHole(s, e) \in Holes(s, e)
  BY <1>2 DEF FirstHole
<1> QED BY <1>1, <1>3

\* What is printed are keys and what is stored under them.
LEMMA PrintedOK ==
  ASSUME IInv, NEW s \in Nat \ {0}, NEW e \in 0..Len(keys)
  PROVE  Printed(s, e) \in Seq(Keys \X AnyValue)
<1> DEFINE n == StopsAfter(s, e)
           l == IF s <= n THEN n - s + 1 ELSE 0
<1>1. keys \in Seq(Keys) /\ Len(keys) \in Nat /\ env \in [Keys -> AnyValue]
  BY IInvParts DEF DataOK
<1>2. n \in Int /\ n <= Len(keys)
  <2>1. CASE Holes(s, e) # {}
    BY <1>1, <2>1, FirstHoleOK DEF StopsAfter
  <2>2. CASE Holes(s, e) = {}
    BY <1>1, <2>2 DEF StopsAfter
  <2> QED BY <2>1, <2>2
<1> HIDE DEF n
<1>3. l \in Nat
  BY <1>2
<1> DEFINE X == Keys \X AnyValue
           pair(p) == <<keys[s + p - 1], env[keys[s + p - 1]]>>
<1>4. ASSUME NEW p \in 1..l
      PROVE  pair(p) \in X
  <2>1. s + p - 1 \in 1..Len(keys)
    BY <1>1, <1>2
  <2> QED BY <1>1, <2>1
<1> HIDE DEF l, X, pair
<1>5. [p \in 1..l |-> pair(p)] \in Seq(X)
  BY <1>3, <1>4
<1> QED BY <1>5 DEF Printed, l, n, X, pair

\* A rendering takes a hole out of the list, or leaves it as it is.
LEMMA TojsonOK ==
  ASSUME Room, IInv, NEW s \in Nat \ {0}, NEW e \in 0..Len(keys), Tojson(s, e)
  PROVE  IInv'
<1>1. /\ keys \in Seq(Keys) /\ map \in [Keys -> Nat] /\ nelms \in Int
      /\ env \in [Keys -> AnyValue] /\ intact = TRUE /\ Agrees(keys, map)
      /\ nelms <= Len(keys) /\ Len(keys) \in Nat /\ Len(keys) <= MaxKeys
      /\ base \in {0, 1}
  BY IInvParts DEF DataOK, ListMatches, CountWithinList, Tojson, Call
<1>2. todo' = [pc |-> "idle"] /\ base' = base /\ env' = env
  BY DEF Tojson, Call, Idle
<1>3. out' \in Seq(Keys \X AnyValue)
  BY PrintedOK DEF Tojson
<1>4. DataOK' /\ Len(keys') <= MaxKeys
  <2>1. CASE Holes(s, e) = {}
    <3>1. UNCHANGED <<keys, map, nelms, intact>>
      BY <2>1 DEF Tojson
    <3> QED BY <1>1, <1>2, <3>1 DEF DataOK, ListMatches, CountWithinList
  <2>2. CASE Holes(s, e) # {}
    <3>1. DropSlot(keys, map, FirstHole(s, e)) /\ nelms' = nelms - 1
      BY <2>2 DEF Tojson
    <3>2. FirstHole(s, e) \in 1..Len(keys)
      BY <2>2, FirstHoleOK
    <3>3. /\ intact' = intact
          /\ keys' \in Seq(Keys) /\ Len(keys') = Len(keys) - 1
          /\ map' \in [Keys -> Nat]
          /\ Agrees(keys', map')
      <4>1. FirstHole(s, e) \in 0..Len(keys) /\ FirstHole(s, e) # 0
        BY <3>2
      <4> QED BY <1>1, <3>1, <4>1, DropSlotOK
    <3>4. nelms' \in Int /\ nelms' <= Len(keys') /\ Len(keys') <= MaxKeys
      BY <1>1, <3>1, <3>3, ConstantsAreSound
    <3> QED BY <1>1, <1>2, <3>3, <3>4 DEF DataOK, ListMatches, CountWithinList
  <2> QED BY <2>1, <2>2
<1>5. todo' \in Items /\ todo'.pc # "write"
  BY <1>2 DEF Items
<1>6. Shapes' /\ ListMatches' /\ CountWithinList'
  BY <1>1, <1>2, <1>3, <1>4, <1>5 DEF Shapes, DataOK
<1>7. KeysFit' /\ LoopEnds'
  BY <1>4, <1>5, ConstantsAreSound DEF KeysFit, LoopEnds, DataOK
<1> QED BY <1>6, <1>7 DEF IInv

-------------------------------------------------------------------------------
\* A handler that is one assignment, for a key there is room for.
LEMMA AssigningStep ==
  ASSUME Room, IInv, intact, Quiet, NEW k \in Keys, NEW v, NEW ok \in BOOLEAN,
         Len(keys) < MaxKeys \/ Indexed(k), Assign(k, v, ok)
  PROVE  IInv'
<1>1. DataOK /\ Len(keys) \in Nat /\ Len(keys) <= MaxKeys
  BY IInvParts
<1>2. /\ DataOK'
      /\ \/ Len(keys') <= Len(keys)
         \/ ~Indexed(k) /\ Len(keys') = Len(keys) + 1
  BY <1>1, AssignOK
<1>3. Len(keys') <= MaxKeys
  <2>1. Len(keys') \in Nat
    BY <1>2 DEF DataOK
  <2> QED BY <1>1, <1>2, <2>1, ConstantsAreSound
<1> QED BY <1>2, <1>3, QuietStep

\* Pop and shift: the key at a slot of the list has a slot.
LEMMA DeleteAtOK ==
  ASSUME Room, IInv, NEW i, DeleteAt(i)
  PROVE  IInv'
<1>1. CASE i \in DOMAIN keys
  <2>1. intact /\ Quiet
    BY DEF DeleteAt, Call
  <2>2. PICK ok \in BOOLEAN : Assign(keys[i], Absent, ok)
    BY <1>1 DEF DeleteAt
  <2>3. keys[i] \in Keys /\ Indexed(keys[i])
    BY <1>1, <2>1, IInvParts DEF DataOK, ListMatches, Agrees, Indexed
  <2> QED BY <2>1, <2>2, <2>3, AssigningStep
<1>2. CASE i \notin DOMAIN keys
  BY <1>2, UnchangedStep DEF DeleteAt
<1> QED BY <1>1, <1>2

\* The first half of insert.
LEMMA InsertAssignOK ==
  ASSUME Room, IInv, NEW k \in Keys, NEW v, Len(keys) < MaxKeys \/ Indexed(k),
         NEW at \in Keys \cup DOMAIN keys, InsertAssign(at, k, v)
  PROVE  IInv'
<1>1. /\ DataOK /\ Len(keys) \in Nat /\ Len(keys) <= MaxKeys /\ intact
      /\ keys \in Seq(Keys) /\ base \in {0, 1}
  BY IInvParts DEF InsertAssign, Call, DataOK
<1>2. PICK ok \in BOOLEAN :
        /\ Assign(k, v, ok)
        /\ todo' = IF ok THEN [pc |-> "place", key |-> k, slot |-> InsertTarget(at),
                               want |-> NamedSlot(at), was |-> keys]
                   ELSE Idle
  BY DEF InsertAssign
<1>3. /\ DataOK'
      /\ \/ Len(keys') <= Len(keys)
         \/ ~Indexed(k) /\ Len(keys') = Len(keys) + 1
  BY <1>1, <1>2, AssignOK
<1>4. Len(keys') \in Nat /\ Len(keys') <= MaxKeys
  BY <1>1, <1>3, ConstantsAreSound DEF DataOK
<1>5. NamedSlot(at) \in Nat /\ InsertTarget(at) \in Int
  <2>1. CASE at \in Keys
    BY <1>1, <2>1, SlotIsMap DEF NamedSlot, InsertTarget
  <2>2. CASE at \notin Keys
    BY <1>1, <2>2 DEF NamedSlot, InsertTarget
  <2> QED BY <2>1, <2>2
<1>6. todo' \in Items /\ todo'.pc # "write"
  <2>1. CASE ok
    <3>1. todo' = [pc |-> "place", key |-> k, slot |-> InsertTarget(at),
                   want |-> NamedSlot(at), was |-> keys]
      BY <1>2, <2>1
    <3> QED BY <1>1, <1>5, <3>1 DEF Items
  <2>2. CASE ~ok
    BY <1>2, <2>2 DEF Items, Idle
  <2> QED BY <2>1, <2>2
<1>7. out' = << >> /\ base' = base
  BY DEF InsertAssign
<1>8. Shapes' /\ ListMatches' /\ CountWithinList'
  BY <1>1, <1>3, <1>6, <1>7 DEF Shapes, DataOK
<1>9. KeysFit' /\ LoopEnds'
  BY <1>4, <1>6, ConstantsAreSound DEF KeysFit, LoopEnds
<1> QED BY <1>8, <1>9 DEF IInv

\* The second half: both slots are within bounds, or nothing moves.
LEMMA InsertPlaceOK ==
  ASSUME Room, IInv, InsertPlace
  PROVE  IInv' /\ (intact' => Len(keys') = Len(keys) /\ Listed(keys') = Listed(keys) /\ env' = env)
<1> DEFINE m == Slot(todo.key)
<1>1. /\ DataOK /\ Len(keys) \in Nat /\ Len(keys) <= MaxKeys /\ intact /\ Quiet
      /\ todo.pc = "place" /\ todo \in Items /\ nelms \in Int /\ nelms <= Len(keys)
  BY IInvParts DEF InsertPlace, DataOK, CountWithinList
<1>2. todo.key \in Keys /\ todo.slot \in Int
  BY <1>1 DEF Items
<1>3. m \in Nat
  BY <1>1, <1>2, SlotIsMap
<1>4. CASE InBounds(m) /\ InBounds(todo.slot)
  <2>1. MoveSlot(m, todo.slot, keys[m])
    BY <1>4 DEF InsertPlace
  <2>2. m \in 1..Len(keys) /\ todo.slot \in 1..Len(keys)
    BY <1>1, <1>2, <1>3, <1>4 DEF InBounds
  <2> HIDE DEF m
  <2>3. DataOK' /\ Len(keys') = Len(keys) /\ Listed(keys') = Listed(keys) /\ env' = env
    BY <1>1, <2>1, <2>2, MoveSlotOK
  <2> QED BY <1>1, <2>3, QuietStep
<1>5. CASE ~ (InBounds(m) /\ InBounds(todo.slot))
  <2>1. UNCHANGED <<env, keys, map, nelms, intact>>
    BY <1>5 DEF InsertPlace
  <2> QED BY <1>1, <2>1, UnchangedStep
<1> QED BY <1>4, <1>5

-------------------------------------------------------------------------------
\* The end reverse goes to by default is the count, unless it is below zero.
LEMMA DefaultEndOK ==
  ASSUME Room, IInv
  PROVE  /\ DefaultEnd \in Nat
         /\ nelms >= 0 => DefaultEnd = nelms /\ DefaultEnd <= Len(keys)
<1>1. /\ nelms \in Int /\ nelms <= Len(keys) /\ Len(keys) \in Nat /\ Len(keys) <= MaxKeys
      /\ IdxMod \in Nat \ {0} /\ MaxKeys < IdxMod /\ MaxKeys \in Nat
  BY IInvParts, ConstantsAreSound DEF DataOK, CountWithinList, Room
<1>2. nelms % IdxMod \in Nat
  BY <1>1
<1> QED BY <1>1, <1>2 DEF DefaultEnd, Idx16

\* From a slot of the list, or the first, to there: a slot is torn out only if
\* the count is below zero.
LEMMA ReversedToEnd ==
  ASSUME Room, IInv, NEW a \in Nat \ {0}, a = 1 \/ a <= Len(keys),
         RaisesReversing(a, DefaultEnd)
  PROVE  nelms < 0
<1>1. nelms \in Int /\ Len(keys) \in Nat
  BY IInvParts DEF DataOK
<1> QED BY <1>1, DefaultEndOK DEF RaisesReversing, Inner, Outer

\* reverse, as a whole call: with both ends in the list, or the second one left
\* to the count.
LEMMA ReverseOK ==
  ASSUME Room, IInv, intact, Quiet, NEW a \in Nat \ {0}, a = 1 \/ a <= Len(keys), NEW b \in Nat,
         b = DefaultEnd \/ (a <= Len(keys) /\ b <= Len(keys)), ReverseSlots(a, b)
  PROVE  /\ EitherInv' /\ env' = env /\ Len(keys') = Len(keys)
         /\ \/ Listed(keys') = Listed(keys)
            \/ nelms < 0 /\ \E p \in DOMAIN keys : keys' = TornAt(keys, p, Absent)
<1>1. Len(keys) \in Nat /\ Len(keys) <= MaxKeys
  BY IInvParts
<1>2. CASE RaisesReversing(a, b)
  <2>1. nelms < 0
    <3>1. b = DefaultEnd
      BY <1>1, <1>2 DEF RaisesReversing, Outer
    <3> QED BY <1>2, <3>1, ReversedToEnd
  <2> QED BY <1>2, <2>1, TearingOK
<1>3. CASE ~RaisesReversing(a, b)
  <2>1. /\ DataOK' /\ Len(keys') = Len(keys) /\ Listed(keys') = Listed(keys)
        /\ env' = env
    BY <1>3, ReverseSlotsOK
  <2> QED BY <1>1, <2>1, QuietStep DEF EitherInv
<1> QED BY <1>2, <1>3

\* The first step of unshift: the pairs it took fit the list.
LEMMA UnshiftReverseOK ==
  ASSUME Room, IInv, NEW n \in 1..MaxPairs, NEW pairs \in [1..n -> Pairs],
         Len(keys) + n <= MaxKeys, UnshiftReverse(pairs)
  PROVE  EitherInv'
<1>1. Len(keys) \in Nat /\ base \in {0, 1} /\ keys \in Seq(Keys) /\ intact
      /\ ReverseSlots(1, DefaultEnd) /\ DefaultEnd \in Nat
  BY IInvParts, DefaultEndOK DEF DataOK, UnshiftReverse, Call
<1>2. CASE RaisesReversing(1, DefaultEnd)
  <2>1. Quiet
    BY <1>2 DEF UnshiftReverse, Quiet
  <2> QED BY <1>1, <1>2, <2>1, TearingOK
<1>a. CASE ~RaisesReversing(1, DefaultEnd)
  <2>2. DataOK' /\ Len(keys') = Len(keys)
    BY <1>1, <1>a, ReverseSlotsOK
  <2>3. pairs \in Seq(Pairs) /\ Len(pairs) = n /\ n \in Nat \ {0}
    BY ConstantsAreSound
  <2>4. /\ todo' = [pc |-> "write", left |-> pairs, i |-> 0, nargs |-> 2 * Len(pairs),
                    was |-> keys, pairs |-> pairs]
        /\ out' = << >> /\ base' = base
    BY <1>a DEF UnshiftReverse
  <2>5. todo' \in Items
    BY <1>1, <2>3, <2>4 DEF Items
  <2>6. Shapes' /\ ListMatches' /\ CountWithinList'
    BY <1>1, <2>2, <2>4, <2>5 DEF Shapes, DataOK
  <2>7. KeysFit' /\ LoopEnds'
    BY <2>2, <2>3, <2>4 DEF KeysFit, LoopEnds
  <2> QED BY <2>6, <2>7 DEF IInv, EitherInv
<1> QED BY <1>2, <1>a

\* One turn of the unshift loop: one pair more in the list, one less to write.
LEMMA UnshiftWriteOK ==
  ASSUME Room, IInv, UnshiftWrite
  PROVE  IInv'
<1> DEFINE n == Len(todo.left)
<1>1. /\ DataOK /\ Len(keys) \in Nat /\ Len(keys) <= MaxKeys /\ intact
      /\ todo.pc = "write" /\ todo \in Items /\ base' = base /\ out' = out
      /\ base \in {0, 1} /\ out \in Seq(Keys \X AnyValue)
  BY IInvParts DEF UnshiftWrite
<1>2. /\ todo \in [pc : {"write"}, left : Seq(Pairs), i : Nat, nargs : Int,
                   was : Seq(Keys), pairs : Seq(Pairs)]
      /\ todo.left \in Seq(Pairs) /\ todo.i \in Nat /\ todo.nargs \in Int
  BY <1>1 DEF Items
<1>3. n \in Nat \ {0}
  <2>1. todo.i <= 2 * n /\ (n = 0 => todo.i > 0)
    BY <1>1 DEF UnshiftWrite, IInv, LoopEnds
  <2> QED BY <1>2, <2>1
<1>4. todo.left[n] \in Pairs
  BY <1>2, <1>3
<1>5. todo.left[n][1] \in Keys
  BY <1>4 DEF Pairs
<1>6. Len(keys) + n <= MaxKeys
  BY <1>1 DEF IInv, KeysFit
<1>7. PICK ok \in BOOLEAN :
        /\ Assign(todo.left[n][1], todo.left[n][2], ok)
        /\ todo' = IF ok THEN [todo EXCEPT !.left = SubSeq(@, 1, n - 1),
                                          !.i = @ + 1, !.nargs = @ - 2]
                   ELSE Idle
  BY DEF UnshiftWrite
<1>8. /\ DataOK'
      /\ \/ Len(keys') <= Len(keys)
         \/ Len(keys') = Len(keys) + 1
  <2>1. Len(keys) < MaxKeys
    BY <1>1, <1>3, <1>6, ConstantsAreSound
  <2> QED BY <1>1, <1>5, <1>7, <2>1, AssignOK
<1>9. Len(keys') \in Nat /\ Len(keys') + (n - 1) <= MaxKeys
  BY <1>1, <1>3, <1>6, <1>8, ConstantsAreSound DEF DataOK
<1>11. CASE ok
  <2> DEFINE rest == SubSeq(todo.left, 1, n - 1)
  <2>1. rest \in Seq(Pairs) /\ Len(rest) = n - 1
    <3>1. \A i \in 1..(n - 1) : todo.left[i] \in Pairs
      BY <1>2, <1>3
    <3> HIDE DEF n
    <3>2. n - 1 \in Int /\ (1 <= n - 1 \/ n - 1 = 0)
      BY <1>3
    <3> QED BY <3>1, <3>2, SubSeqProperties
  <2>2. todo' = [todo EXCEPT !.left = rest, !.i = @ + 1, !.nargs = @ - 2]
    BY <1>7, <1>11
  <2> HIDE DEF rest
  <2>3. /\ todo'.pc = "write" /\ todo'.left = rest /\ todo'.i = todo.i + 1
        /\ todo'.nargs = todo.nargs - 2
    BY <1>2, <2>2
  <2>4. todo' \in Items
    <3>1. todo' = [pc |-> "write", left |-> rest, i |-> todo.i + 1,
                   nargs |-> todo.nargs - 2, was |-> todo.was, pairs |-> todo.pairs]
      BY <1>2, <2>2
    <3>2. todo.was \in Seq(Keys) /\ todo.pairs \in Seq(Pairs)
      BY <1>2
    <3> QED BY <1>2, <2>1, <3>1, <3>2 DEF Items
  <2>5. todo.nargs = 2 * n
    BY <1>1 DEF IInv, LoopEnds
  <2>6. KeysFit'
    BY <1>9, <2>1, <2>3 DEF KeysFit
  <2>7. LoopEnds'
    <3>1. todo'.nargs = 2 * Len(todo'.left) /\ todo'.i > 0
      <4> HIDE DEF n
      <4>1. Len(todo'.left) = n - 1
        BY <2>1, <2>3
      <4>2. todo.nargs - 2 = 2 * (n - 1)
        BY <1>3, <2>5
      <4>3. todo.i + 1 > 0
        BY <1>2
      <4> QED BY <2>3, <4>1, <4>2, <4>3
    <3> QED BY <3>1 DEF LoopEnds
  <2>8. Shapes' /\ ListMatches' /\ CountWithinList'
    BY <1>1, <1>8, <2>4 DEF Shapes, DataOK
  <2> QED BY <2>6, <2>7, <2>8 DEF IInv
<1>12. CASE ~ok
  <2>1. todo' = [pc |-> "idle"]
    BY <1>7, <1>12 DEF Idle
  <2>2. todo' \in Items /\ todo'.pc # "write"
    BY <2>1 DEF Items
  <2>3. KeysFit' /\ LoopEnds'
    BY <1>3, <1>9, <2>2, ConstantsAreSound DEF KeysFit, LoopEnds
  <2>4. Shapes' /\ ListMatches' /\ CountWithinList'
    BY <1>1, <1>8, <2>2 DEF Shapes, DataOK
  <2> QED BY <2>3, <2>4 DEF IInv
<1> QED BY <1>11, <1>12

\* The last step of unshift.
LEMMA UnshiftRestoreOK ==
  ASSUME Room, IInv, UnshiftRestore
  PROVE  EitherInv'
<1>1. intact /\ Quiet /\ ReverseSlots(1, DefaultEnd) /\ DefaultEnd \in Nat
  BY DefaultEndOK DEF UnshiftRestore
<1> QED BY <1>1, ReverseOK

-------------------------------------------------------------------------------
\* A new object satisfies the invariant.
THEOREM InitIInv == Init => IInv
<1> SUFFICES ASSUME Init PROVE IInv
  OBVIOUS
<1>1. /\ env \in [Keys -> AnyValue] /\ keys = << >> /\ keys \in Seq(Keys)
      /\ map \in [Keys -> Nat] /\ map = [k \in Keys |-> 0]
      /\ nelms = 0 /\ base \in {0, 1} /\ intact \in BOOLEAN
      /\ todo \in Items /\ todo.pc # "write" /\ out \in Seq(Keys \X AnyValue)
  BY DEF Init, AnyValue, Items, Idle
<1>2. Agrees(keys, map)
  BY <1>1 DEF Agrees
<1> QED BY <1>1, <1>2, ConstantsAreSound
        DEF IInv, Shapes, ListMatches, CountWithinList, KeysFit, LoopEnds

\* obj[k] = v, push, and the assignment that begins an insert.
LEMMA AssignmentsOK ==
  ASSUME Room, IInv, Assignments
  PROVE  IInv'
<1>1. PICK k \in Keys, v \in AnyValue :
        /\ Input(k, v)
        /\ \/ NewIndex(k, v)
           \/ Push(k, v)
           \/ \E at \in Keys \cup DOMAIN keys : InsertAssign(at, k, v)
  BY DEF Assignments
<1>2. Len(keys) < MaxKeys \/ Indexed(k)
  BY <1>1 DEF Input
<1>3. CASE NewIndex(k, v)
  BY <1>2, <1>3, AssigningStep DEF NewIndex, Call
<1>4. CASE Push(k, v)
  <2>1. CASE v = Absent
    BY <1>4, <2>1, UnchangedStep DEF Push
  <2>2. CASE v # Absent
    BY <1>2, <1>4, <2>2, AssigningStep DEF Push, Call
  <2> QED BY <2>1, <2>2
<1>5. CASE \E at \in Keys \cup DOMAIN keys : InsertAssign(at, k, v)
  BY <1>2, <1>5, InsertAssignOK
<1> QED BY <1>1, <1>3, <1>4, <1>5

\* Reading a key, which may enter it.
LEMMA ReadsOK ==
  ASSUME IInv, Reads
  PROVE  IInv'
<1>1. PICK k \in Keys :
        /\ (k # EnvKey /\ ~Indexed(k)) => Len(keys) < MaxKeys
        /\ Index(k)
  BY DEF Reads
<1>2. DataOK /\ Len(keys) \in Nat /\ Len(keys) <= MaxKeys /\ intact /\ Quiet
      /\ UNCHANGED <<env, nelms, intact>>
  BY <1>1, IInvParts DEF Index, Call
<1>3. CASE k # EnvKey /\ ~Indexed(k)
  <2>1. EnterKey(k)
    BY <1>1, <1>3 DEF Index, EnterIf
  <2>2. /\ keys' \in Seq(Keys) /\ Len(keys') = Len(keys) + 1
        /\ map' \in [Keys -> Nat]
        /\ Agrees(keys', map')
    BY <1>2, <1>3, <2>1, EnterKeyOK
  <2>3. DataOK'
    BY <1>2, <2>2 DEF DataOK, ListMatches, CountWithinList
  <2>4. Len(keys') <= MaxKeys
    BY <1>1, <1>2, <1>3, <2>2, ConstantsAreSound
  <2> QED BY <1>2, <2>3, <2>4, QuietStep
<1>4. CASE ~ (k # EnvKey /\ ~Indexed(k))
  BY <1>1, <1>2, <1>4, UnchangedStep DEF Index, EnterIf
<1> QED BY <1>3, <1>4

\* Writing to the env table, which the list and the map do not see.
LEMMA RawWritesOK ==
  ASSUME IInv, RawWrites
  PROVE  IInv'
<1>1. PICK k \in Keys, v \in AnyValue : RawSet(k, v)
  BY DEF RawWrites
<1>2. DataOK' /\ Len(keys') <= MaxKeys
  BY <1>1, IInvParts DEF RawSet, DataOK, ListMatches, CountWithinList
<1> QED BY <1>1, <1>2, QuietStep DEF RawSet

\* Rearrangements keep the values too, and the keys unless the count is below
\* zero.
LEMMA RearrangementsOK ==
  ASSUME Room, IInv, Rearrangements
  PROVE  /\ EitherInv' /\ env' = env /\ Len(keys') = Len(keys)
         /\ \/ Listed(keys') = Listed(keys)
            \/ nelms < 0 /\ \E p \in DOMAIN keys : keys' = TornAt(keys, p, Absent)
<1>1. Len(keys) \in Nat /\ Len(keys) <= MaxKeys /\ intact /\ Quiet
  BY IInvParts DEF Rearrangements, Reverse, Move, Call
<1>2. Positions \subseteq 1..Len(keys)
  BY <1>1, PositionsAreSlots
<1>3. CASE \E a, b \in Positions : Reverse(a, b)
  <2>1. PICK a \in Positions, b \in Positions : Reverse(a, b)
    BY <1>3
  <2>2. a \in 1..Len(keys) /\ b \in 1..Len(keys) /\ ReverseSlots(a, b)
    BY <1>2, <2>1 DEF Reverse
  <2>3. /\ a \in Nat \ {0} /\ a <= Len(keys) /\ b \in Nat /\ b <= Len(keys)
    BY <1>1, <2>2
  <2> QED BY <1>1, <2>2, <2>3, ReverseOK
<1>4. CASE \E a, b \in Positions : Move(a, b)
  <2>1. PICK a \in Positions, b \in Positions : Move(a, b)
    BY <1>4
  <2>2. a \in 1..Len(keys) /\ b \in 1..Len(keys) /\ MoveSlot(a, b, keys[a])
    BY <1>2, <2>1 DEF Move
  <2>3. DataOK' /\ Len(keys') = Len(keys) /\ Listed(keys') = Listed(keys) /\ env' = env
    BY <1>1, <2>2, MoveSlotOK
  <2> QED BY <1>1, <2>3, QuietStep DEF EitherInv
<1>5. CASE \E a \in Positions \cup {1} : Reverse(a, DefaultEnd)
  <2>1. PICK a \in Positions \cup {1} : Reverse(a, DefaultEnd)
    BY <1>5
  <2>2. a \in Nat \ {0} /\ (a = 1 \/ a <= Len(keys)) /\ ReverseSlots(a, DefaultEnd)
    BY <1>1, <1>2, <2>1 DEF Reverse
  <2> QED BY <1>1, <2>2, DefaultEndOK, ReverseOK
<1> QED BY <1>3, <1>4, <1>5 DEF Rearrangements

\* tojson, which may delete a slot.
LEMMA RenderingsOK ==
  ASSUME Room, IInv, Renderings
  PROVE  IInv'
<1>1. PICK s \in Positions \cup {1, LastSlot}, e \in Positions \cup {1, LastSlot} :
        /\ <<s, e>> = <<1, LastSlot>> \/ {s, e} \subseteq Positions
        /\ Tojson(s, e)
  BY DEF Renderings
<1>2. intact /\ Len(keys) \in Nat /\ nelms \in Int /\ nelms <= Len(keys)
  BY <1>1, IInvParts DEF Tojson, Call, DataOK, CountWithinList
<1>3. LastSlot \in 0..Len(keys)
  BY <1>2 DEF LastSlot
<1>4. Positions \subseteq 1..Len(keys)
  BY <1>2, PositionsAreSlots
<1>5. CASE {s, e} \subseteq Positions
  <2>1. s \in Nat \ {0} /\ e \in 0..Len(keys)
    BY <1>2, <1>4, <1>5
  <2> QED BY <1>1, <2>1, TojsonOK
<1>6. CASE s = 1 /\ e = LastSlot
  BY <1>1, <1>3, <1>6, TojsonOK
<1> QED BY <1>1, <1>5, <1>6

\* Every step keeps the invariant, whatever the script does.
THEOREM NextIInv == Room /\ IInv /\ [Next]_vars => EitherInv'
<1> SUFFICES ASSUME Room, IInv, [Next]_vars PROVE EitherInv'
  OBVIOUS
<1> USE DEF EitherInv
<1>1. CASE Assignments
  BY <1>1, AssignmentsOK
<1>2. CASE Unshifts
  <2>1. PICK n \in 1..MaxPairs :
          /\ Len(keys) + n <= MaxKeys
          /\ \E pairs \in [1..n -> Unshiftable] :
               UnshiftReverse(pairs)
    BY <1>2 DEF Unshifts
  <2>2. PICK pairs \in [1..n -> Pairs] : UnshiftReverse(pairs)
    <3>1. PICK pairs \in [1..n -> Unshiftable] : UnshiftReverse(pairs)
      BY <2>1
    <3>2. Unshiftable \subseteq Pairs
      BY DEF Unshiftable
    <3>3. pairs \in [1..n -> Pairs]
      BY <3>1, <3>2
    <3> QED BY <3>1, <3>3
  <2> QED BY <2>1, <2>2, UnshiftReverseOK
<1>3. CASE UnshiftWrite
  BY <1>3, UnshiftWriteOK
<1>4. CASE UnshiftRestore
  BY <1>4, UnshiftRestoreOK
<1>5. CASE InsertPlace
  BY <1>5, InsertPlaceOK
<1>6. CASE Reads
  BY <1>6, ReadsOK
<1>7. CASE RawWrites
  BY <1>7, RawWritesOK
<1>8. CASE Rearrangements
  BY <1>8, RearrangementsOK
<1>9. CASE Renderings
  BY <1>9, RenderingsOK
<1>10. CASE Pop \/ Shift
  BY <1>10, DeleteAtOK DEF Pop, Shift
<1>11. CASE \E b \in {0, 1} : JsonBase(b)
  <2>1. PICK b \in {0, 1} : JsonBase(b)
    BY <1>11
  <2>2. todo = [pc |-> "idle"] /\ todo' = todo /\ out' = << >> /\ base' \in {0, 1}
        /\ UNCHANGED <<env, keys, map, nelms, intact>>
    BY <2>1 DEF JsonBase, Call, Idle
  <2>3. Shapes' /\ ListMatches' /\ CountWithinList'
    BY <2>2, IInvParts DEF IInv, Shapes, ListMatches, CountWithinList
  <2>4. KeysFit' /\ LoopEnds'
    BY <2>2 DEF IInv, KeysFit, LoopEnds
  <2> QED BY <2>3, <2>4 DEF IInv
<1>12. CASE UNCHANGED vars
  BY <1>12 DEF vars, IInv, Shapes, ListMatches, CountWithinList, KeysFit, LoopEnds
<1> QED
  BY <1>1, <1>2, <1>3, <1>4, <1>5, <1>6, <1>7, <1>8, <1>9, <1>10, <1>11, <1>12
  DEF Next, Undefined

\* Once a slot is torn out there is no step left but the last state again.
LEMMA NextTorn == TornInv /\ [Next]_vars => TornInv'
<1> SUFFICES ASSUME TornInv, [Next]_vars PROVE TornInv'
  OBVIOUS
<1>1. ~Call /\ todo.pc = "idle"
  BY DEF TornInv, Call, Idle
<1>2. ~Assignments /\ ~Unshifts
  BY <1>1 DEF Assignments, NewIndex, Push, InsertAssign, Unshifts, UnshiftReverse
<1>3. ~Reads /\ ~RawWrites /\ ~Rearrangements /\ ~Renderings
  BY <1>1 DEF Reads, RawWrites, Index, RawSet, Rearrangements, Renderings, Reverse, Move
<1>4. ~Pop /\ ~Shift /\ ~ \E b \in {0, 1} : JsonBase(b)
  BY <1>1 DEF Pop, Shift, DeleteAt, JsonBase
<1>5. ~UnshiftWrite /\ ~UnshiftRestore /\ ~InsertPlace
  BY <1>1 DEF UnshiftWrite, UnshiftRestore, InsertPlace
<1>6. UNCHANGED vars
  BY <1>2, <1>3, <1>4, <1>5 DEF Next, Undefined
<1> QED BY <1>6 DEF vars, TornInv, TypeOK, Torn, ListIsSound, MapAgreesWithList, CountWithinList

\* So one of the two cases holds throughout, whatever the script does.
THEOREM Invariance ==
  ASSUME Room
  PROVE  Spec => []EitherInv
<1>1. Init => EitherInv
  BY InitIInv DEF EitherInv
<1>2. EitherInv /\ [Next]_vars => EitherInv'
  BY NextIInv, NextTorn DEF EitherInv
<1> QED BY <1>1, <1>2, PTL DEF Spec

-------------------------------------------------------------------------------
\* Every variable keeps its shape.
THEOREM TypeCorrect ==
  ASSUME Room
  PROVE  Spec => []TypeOK
<1>1. EitherInv => TypeOK
  BY WholeIsWhole DEF EitherInv, TornInv
<1> QED BY <1>1, Invariance, PTL

\* List, map and count fit together after every handler, for every caller: in
\* a list with a slot torn out, all but the key of that slot.
THEOREM ListAlwaysSound ==
  ASSUME Room
  PROVE  Spec => []ListIsSound
<1>1. EitherInv => ListIsSound
  BY WholeIsWhole DEF EitherInv, TornInv
<1> QED BY <1>1, Invariance, PTL

\* reverse, move and the second half of insert touch no value and lose no key
\* but the one reverse tears out when the count is below zero.
THEOREM ReorderingKeepsData ==
  ASSUME Room
  PROVE  Spec => ReorderKeepsData
<1>1. EitherInv /\ [Next]_vars =>
        [(Rearrangements \/ InsertPlace) /\ intact' =>
           /\ env' = env
           /\ Len(keys') = Len(keys)
           /\ \/ Listed(keys') = Listed(keys)
              \/ nelms < 0 /\ \E p \in DOMAIN keys : keys' = TornAt(keys, p, Absent)]_vars
  <2> SUFFICES ASSUME EitherInv, Rearrangements \/ InsertPlace, intact'
               PROVE  /\ env' = env
                      /\ Len(keys') = Len(keys)
                      /\ \/ Listed(keys') = Listed(keys)
                         \/ nelms < 0 /\ \E p \in DOMAIN keys : keys' = TornAt(keys, p, Absent)
    OBVIOUS
  <2>1. CASE IInv
    BY <2>1, RearrangementsOK, InsertPlaceOK
  <2>2. CASE TornInv
    <3>1. ~Call /\ todo.pc = "idle"
      BY <2>2 DEF TornInv, Call, Idle
    <3> QED BY <3>1 DEF Rearrangements, Reverse, Move, InsertPlace
  <2> QED BY <2>1, <2>2 DEF EitherInv
<1> QED BY <1>1, Invariance, PTL DEF Spec, ReorderKeepsData

-------------------------------------------------------------------------------
(***************************************************************************)
(* What a call of several parts keeps, whatever the script does: an insert *)
(* or unshift that is under way loses no key but those it is to delete.    *)
(***************************************************************************)
KeysStay == \A k \in Keys : Kept(k) => Kept(k)' \/ Deleting(k)

\* An assignment of anything but nil enters a key or leaves the list alone.
LEMMA AssignKeeps ==
  ASSUME DataOK, intact, NEW k \in Keys, NEW v, v # Absent, NEW ok \in BOOLEAN,
         Assign(k, v, ok)
  PROVE  Listed(keys) \subseteq Listed(keys') /\ intact'
<1>1. keys \in Seq(Keys) /\ Len(keys) \in Nat BY DEF DataOK
<1>2. intact' = intact /\ (keys' = keys \/ keys' = Append(keys, k))
  <2>1. CASE AssignNew(k, v) BY <2>1 DEF AssignNew, EnterIf, EnterKey
  <2>2. CASE AssignOver(k, v) BY <2>2 DEF AssignOver, EnterIf, EnterKey
  <2>3. CASE AssignOpaque(k) BY <2>3 DEF AssignOpaque
  <2>4. CASE Refuse(k) BY <2>4 DEF Refuse, EnterIf, EnterKey
  <2> QED BY <2>1, <2>2, <2>3, <2>4 DEF Assign
<1>3. Listed(keys) \subseteq Listed(Append(keys, k))
  BY <1>1 DEF Listed
<1> QED BY <1>2, <1>3

\* The deletion of a key that has a slot, or had to be given one to be deleted,
\* takes that key and no other.
LEMMA DeleteKeeps ==
  ASSUME Room, DataOK, intact, Len(keys) < MaxKeys, NEW k \in Keys, AssignNil(k),
         Stored(k) => Indexed(k)
  PROVE  Listed(keys) \ {k} \subseteq Listed(keys') /\ intact'
<1> DEFINE entered == ~Stored(k) /\ ~Indexed(k)
           ks == IF entered THEN Append(keys, k) ELSE keys
           mp == IF entered THEN [map EXCEPT ![k] = Len(keys) + 1] ELSE map
           p == Idx16(mp[k])
<1>1. /\ keys \in Seq(Keys) /\ map \in [Keys -> Nat] /\ Len(keys) \in Nat
      /\ Agrees(keys, map) /\ MaxKeys < IdxMod /\ MaxKeys \in Nat /\ IdxMod \in Nat
      /\ intact = TRUE
  BY ConstantsAreSound DEF DataOK, ListMatches, Room
<1>2. DropSlot(ks, mp, p)
  BY DEF AssignNil
<1>3. /\ ks \in Seq(Keys) /\ mp \in [Keys -> Nat] /\ Agrees(ks, mp)
      /\ p \in 1..Len(ks) /\ ks[p] = k /\ Listed(keys) \subseteq Listed(ks)
  <2>1. CASE entered
    <3>1. /\ Append(keys, k) \in Seq(Keys)
          /\ [map EXCEPT ![k] = Len(keys) + 1] \in [Keys -> Nat]
          /\ Agrees(Append(keys, k), [map EXCEPT ![k] = Len(keys) + 1])
      <4>1. map[k] = 0
        BY <2>1 DEF Indexed
      <4> QED BY <1>1, <4>1, AppendAgrees, ZenonT(30)
    <3>2. p = Len(keys) + 1
      BY <1>1, <2>1 DEF Idx16
    <3>3. Listed(keys) \subseteq Listed(Append(keys, k))
      BY <1>1 DEF Listed
    <3> QED BY <1>1, <2>1, <3>1, <3>2, <3>3
  <2>2. CASE ~entered
    <3>1. Indexed(k)
      BY <2>2
    <3>2. map[k] \in 1..Len(keys) /\ keys[map[k]] = k
      BY <1>1, <3>1 DEF Indexed, Agrees
    <3>3. Idx16(map[k]) = map[k]
      BY <1>1, <3>2 DEF Idx16
    <3> QED BY <1>1, <2>2, <3>2, <3>3
  <2> QED BY <2>1, <2>2
<1> HIDE DEF ks, mp, p
<1>4. keys' = Without(ks, p) /\ intact' = intact
  <2>1. p # 0
    BY <1>1, <1>3
  <2> QED BY <1>2, <2>1, Zenon DEF DropSlot
<1>5. Listed(Without(ks, p)) = Listed(ks) \ {ks[p]}
  BY <1>3, WithoutListed, ZenonT(30)
<1> QED BY <1>1, <1>3, <1>4, <1>5

\* One pair of an unshift.
LEMMA UnshiftWriteKeeps ==
  ASSUME Room, IInv, UnshiftWrite, ~LosesWay
  PROVE  KeysStay
<1> DEFINE n == Len(todo.left)
           q == todo.left[n]
<1>1. /\ DataOK /\ todo.pc = "write" /\ todo.i <= todo.nargs /\ todo \in Items /\ intact
      /\ Len(keys) \in Nat
  BY IInvParts DEF UnshiftWrite
<1>2. todo.left \in Seq(Pairs) /\ todo.i \in Nat BY <1>1 DEF Items
<1>3. todo.nargs = 2 * n /\ (n = 0 => todo.i > 0) BY <1>1 DEF IInv, LoopEnds
<1>4. n \in 1..n /\ n \in Nat \ {0} BY <1>1, <1>2, <1>3
<1>5. q \in Pairs BY <1>2, <1>4
<1>6. q[1] \in Keys /\ q = <<q[1], q[2]>> BY <1>5 DEF Pairs
<1>7. PICK ok \in BOOLEAN : Assign(q[1], q[2], ok)
  BY DEF UnshiftWrite
<1>8. Len(keys) + n <= MaxKeys
  BY <1>1 DEF IInv, KeysFit
<1> HIDE DEF n
<1>9. CASE q[2] # Absent
  <2>1. Listed(keys) \subseteq Listed(keys') /\ intact'
    BY <1>1, <1>6, <1>7, <1>9, AssignKeeps
  <2> QED BY <2>1 DEF KeysStay, Kept
<1>10. CASE q[2] = Absent
  <2>1. Deleting(q[1])
    BY <1>1, <1>6, <1>10 DEF Deleting, n
  <2>2. Stored(q[1]) => Indexed(q[1])
    BY <1>6, <2>1 DEF LosesWay
  <2>3. AssignNil(q[1]) \/ UNCHANGED <<keys, intact>>
    BY <1>7, <1>10, ConstantsAreSound DEF Assign
  <2>4. Len(keys) < MaxKeys
    BY <1>1, <1>4, <1>8, ConstantsAreSound
  <2>5. Listed(keys) \ {q[1]} \subseteq Listed(keys') /\ intact'
    BY <1>1, <1>6, <2>2, <2>3, <2>4, DeleteKeeps
  <2> QED BY <2>1, <2>5 DEF KeysStay, Kept
<1> QED BY <1>9, <1>10

LEMMA UnshiftRestoreKeeps ==
  ASSUME Room, IInv, UnshiftRestore, ~LosesWay
  PROVE  KeysStay
<1>1. intact /\ ReverseSlots(1, DefaultEnd) /\ nelms > 0 /\ nelms \in Int /\ Len(keys) \in Nat
  BY IInvParts DEF UnshiftRestore, LosesWay, DataOK
<1>2. DefaultEnd \in Nat \ {0} /\ ~RaisesReversing(1, DefaultEnd)
  BY <1>1, DefaultEndOK, ReversedToEnd
<1>3. Listed(keys') = Listed(keys)
  BY <1>1, <1>2, ReverseSlotsOK
<1>4. intact' = intact
  <2>1. Inner(1, DefaultEnd) # 0
    BY <1>2 DEF Inner
  <2> QED BY <1>1, <1>2, <2>1, Zenon DEF ReverseSlots
<1> QED BY <1>1, <1>3, <1>4 DEF KeysStay, Kept

LEMMA InsertPlaceKeeps ==
  ASSUME Room, IInv, InsertPlace
  PROVE  KeysStay
<1>1. intact /\ intact' = intact BY DEF InsertPlace, MoveSlot
<1>2. Listed(keys') = Listed(keys) BY <1>1, InsertPlaceOK
<1> QED BY <1>1, <1>2 DEF KeysStay, Kept

LEMMA UnderWayStep ==
  ASSUME Room, EitherInv, [Next]_vars, todo # Idle, ~LosesWay
  PROVE  KeysStay
<1>0. IInv BY DEF EitherInv, TornInv
<1>1. CASE UnshiftWrite BY <1>0, <1>1, UnshiftWriteKeeps
<1>2. CASE UnshiftRestore BY <1>0, <1>2, UnshiftRestoreKeeps
<1>3. CASE InsertPlace BY <1>0, <1>3, InsertPlaceKeeps
<1>4. CASE UNCHANGED vars BY <1>4 DEF vars, KeysStay, Kept
<1>5. ~Call BY DEF Call
<1>6. ~Assignments BY <1>5 DEF Assignments, NewIndex, Push, InsertAssign
<1>7. ~Unshifts BY <1>5 DEF Unshifts, UnshiftReverse
<1>8. ~Reads /\ ~RawWrites BY <1>5 DEF Reads, RawWrites, Index, RawSet
<1>9. ~Rearrangements /\ ~Renderings
  BY <1>5 DEF Rearrangements, Renderings, Reverse, Move
<1>10. ~Pop /\ ~Shift BY <1>5 DEF Pop, Shift, DeleteAt
<1>11. ~ \E b \in {0, 1} : JsonBase(b) BY <1>5 DEF JsonBase
<1> QED BY <1>1, <1>2, <1>3, <1>4, <1>6, <1>7, <1>8, <1>9, <1>10, <1>11
     DEF Next, Undefined

\* An insert or unshift keeps every key through all its parts but those it was
\* given nil for, and where one of its assignments raises
\* (lua_json_object_insert, lua_json_object_unshift).
THEOREM CallsKeepKeys ==
  ASSUME Room
  PROVE  Spec => UnderWayKeepsKeys
<1>1. EitherInv /\ [Next]_vars =>
        [todo # Idle /\ ~LosesWay => \A k \in Keys : Kept(k) => Kept(k)' \/ Deleting(k)]_vars
  BY UnderWayStep DEF KeysStay
<1> QED BY <1>1, Invariance, PTL DEF Spec, UnderWayKeepsKeys

-------------------------------------------------------------------------------
\* The end of a whole rendering is a slot of the list, or 0.
LEMMA LastSlotInList ==
  ASSUME IInv
  PROVE  LastSlot \in 0..Len(keys)
  BY IInvParts DEF LastSlot, DataOK, CountWithinList

-------------------------------------------------------------------------------
(***************************************************************************)
(* For a script without any of the habits of JsonObject: the map is never  *)
(* lost, every slot is counted, and a key has a slot exactly when it has a *)
(* value.  The habits are needed: each of them has a run that breaks one   *)
(* of these.                                                               *)
(***************************************************************************)
Careful == Room /\ Habits = {}

\* The values and keys a careful script has stored.
CarefulStore ==
  \A k \in Keys : /\ env[k] \in Values \cup {Absent}
                  /\ Stored(k) => k # EnvKey

CData == DataOK /\ intact /\ CountIsLength /\ StoredIffIndexed /\ CarefulStore

\* What is left of an unshift are careful assignments to an object that was
\* not empty: reversing an empty one overwrites the map.
CarefulTodo ==
  todo.pc = "write" =>
    /\ nelms > 0
    /\ \A i \in 1..Len(todo.left) : /\ todo.left[i][1] # EnvKey
                                    /\ todo.left[i][2] \in Values

CInv == IInv /\ CData /\ CarefulTodo

\* An assignment a careful script makes.
CInput(k, v) ==
  k # EnvKey /\ (v \in Values \/ (v = Absent /\ Stored(k)))

\* What Input lets through from a script without habits.
LEMMA InputIsCareful ==
  ASSUME Careful, NEW k \in Keys, NEW v \in AnyValue, Input(k, v)
  PROVE  CInput(k, v)
  BY DEF Careful, Input, May, CInput, AnyValue

\* A careful assignment returns.  A new key goes to the end of the list, a known
\* one keeps its slot, and nil takes the key's slot out.
LEMMA CarefulEffect ==
  ASSUME Careful, CData, NEW k \in Keys, NEW v, NEW ok \in BOOLEAN,
         Len(keys) <= MaxKeys, Len(keys) < MaxKeys \/ Indexed(k),
         CInput(k, v), Assign(k, v, ok)
  PROVE  /\ ok = TRUE /\ intact' = intact /\ env' = [env EXCEPT ![k] = v]
         /\ v \in Values /\ map[k] = 0 =>
              /\ keys' = Append(keys, k) /\ map' = [map EXCEPT ![k] = Len(keys) + 1]
              /\ nelms' = nelms + 1
         /\ v \in Values /\ map[k] # 0 => keys' = keys /\ map' = map /\ nelms' = nelms
         /\ v = Absent => /\ map[k] \in 1..Len(keys) /\ keys[map[k]] = k
                          /\ keys' = Without(keys, map[k]) /\ nelms' = nelms - 1
<1>1. /\ keys \in Seq(Keys) /\ map \in [Keys -> Nat] /\ nelms \in Int
      /\ env \in [Keys -> AnyValue] /\ intact = TRUE /\ Agrees(keys, map)
      /\ nelms = Len(keys) /\ Len(keys) \in Nat
      /\ \A x \in Keys : env[x] # Absent <=> map[x] # 0
  BY DEF CData, DataOK, ListMatches, CountIsLength, StoredIffIndexed,
         Stored, Indexed
<1>2. Slot(k) = map[k] /\ map[k] \in 0..Len(keys)
  BY <1>1, SlotIsMap DEF Careful, CData
<1>3. map[k] = 0 => Idx16(Len(keys) + 1) = Len(keys) + 1
  BY <1>1, ConstantsAreSound DEF Idx16, Careful, Room, Indexed
<1>4. k # EnvKey /\ v # Opaque /\ v # Rejected /\ Absent \notin Values
  BY ConstantsAreSound DEF CInput
<1>5. CASE v \in Values
  <2>1. ok = TRUE /\ (AssignNew(k, v) \/ AssignOver(k, v))
    BY <1>4, <1>5 DEF Assign
  <2>2. EntersKey(k, v) <=> map[k] = 0
    BY <1>4, <1>5 DEF EntersKey, Printable, Indexed
  <2>3. env' = [env EXCEPT ![k] = v] /\ intact' = intact
    BY <2>1 DEF AssignNew, AssignOver
  <2>4. ASSUME map[k] = 0
        PROVE  /\ keys' = Append(keys, k) /\ map' = [map EXCEPT ![k] = Len(keys) + 1]
               /\ nelms' = nelms + 1
    <3>1. IdxFor(k, v) = Idx16(Len(keys) + 1)
      BY <2>2, <2>4, Zenon DEF IdxFor
    <3>2. ~ (IdxFor(k, v) <= nelms)
      BY <1>1, <1>3, <2>4, <3>1
    <3>3. AssignNew(k, v)
      BY <2>1, <3>2 DEF AssignOver
    <3> QED BY <2>2, <2>4, <3>3 DEF AssignNew, EnterIf, EnterKey
  <2>5. ASSUME map[k] # 0 PROVE keys' = keys /\ map' = map /\ nelms' = nelms
    <3>1. IdxFor(k, v) = Slot(k)
      BY <2>2, <2>5, Zenon DEF IdxFor, Slot
    <3>2. ~ (IdxFor(k, v) > nelms)
      BY <1>1, <1>2, <3>1
    <3>3. AssignOver(k, v)
      BY <2>1, <3>2 DEF AssignNew
    <3> QED BY <2>2, <2>5, <3>3 DEF AssignOver, EnterIf, Indexed
  <2> QED BY <1>4, <1>5, <2>1, <2>3, <2>4, <2>5
<1>6. CASE v = Absent /\ Stored(k)
  <2>1. map[k] \in 1..Len(keys) /\ Slot(k) = map[k] /\ keys[map[k]] = k
    BY <1>1, <1>2, <1>6 DEF Stored, Agrees
  <2>2. ok = TRUE /\ AssignNil(k)
    <3>1. (ok /\ AssignNil(k)) \/ Slot(k) > nelms
      BY <1>4, <1>6, Zenon DEF Assign
    <3>2. ~ (Slot(k) > nelms)
      BY <1>1, <2>1
    <3> QED BY <3>1, <3>2
  <2>3. /\ DropSlot(keys, map, map[k]) /\ nelms' = nelms - 1
        /\ env' = [env EXCEPT ![k] = Absent]
    BY <1>6, <2>1, <2>2 DEF AssignNil, Slot
  <2>4. keys' = Without(keys, map[k]) /\ intact' = intact
    BY <2>1, <2>3 DEF DropSlot
  <2> QED BY <1>4, <1>6, <2>1, <2>2, <2>3, <2>4
<1> QED BY <1>5, <1>6 DEF CInput

\* ... and leaves the object in order.
LEMMA CarefulAssign ==
  ASSUME Careful, CData, NEW k \in Keys, NEW v, NEW ok \in BOOLEAN,
         Len(keys) <= MaxKeys, Len(keys) < MaxKeys \/ Indexed(k),
         CInput(k, v), Assign(k, v, ok)
  PROVE  /\ ok = TRUE /\ CData'
         /\ v # Absent => nelms' >= nelms
<1>1. /\ keys \in Seq(Keys) /\ map \in [Keys -> Nat] /\ nelms \in Int
      /\ env \in [Keys -> AnyValue] /\ intact = TRUE /\ Agrees(keys, map)
      /\ nelms = Len(keys) /\ Len(keys) \in Nat
      /\ \A x \in Keys : env[x] # Absent <=> map[x] # 0
      /\ \A x \in Keys : env[x] \in Values \cup {Absent} /\ (env[x] # Absent => x # EnvKey)
  BY DEF CData, DataOK, ListMatches, CountIsLength, StoredIffIndexed,
         CarefulStore, Stored, Indexed
<1>2. DataOK'
  BY AssignOK, <1>1 DEF Careful, CData
<1>3. k # EnvKey /\ Absent \notin Values /\ (v \in Values \/ v = Absent)
  BY ConstantsAreSound DEF CInput
<1>4. /\ ok = TRUE /\ intact' = intact /\ env' = [env EXCEPT ![k] = v]
      /\ v \in Values /\ map[k] = 0 =>
           /\ keys' = Append(keys, k) /\ map' = [map EXCEPT ![k] = Len(keys) + 1]
           /\ nelms' = nelms + 1
      /\ v \in Values /\ map[k] # 0 => keys' = keys /\ map' = map /\ nelms' = nelms
      /\ v = Absent => /\ map[k] \in 1..Len(keys) /\ keys[map[k]] = k
                       /\ keys' = Without(keys, map[k]) /\ nelms' = nelms - 1
  BY CarefulEffect
<1>5. CarefulStore'
  <2>1. \A x \in Keys : env'[x] \in Values \cup {Absent} /\ (env'[x] # Absent => x # EnvKey)
    BY <1>1, <1>3, <1>4
  <2> QED BY <2>1 DEF CarefulStore, Stored
<1>6. /\ nelms' = Len(keys') /\ (v # Absent => nelms' >= nelms)
      /\ \A x \in Keys : env'[x] # Absent <=> map'[x] # 0
  <2>1. CASE v \in Values /\ map[k] = 0
    <3>1. Len(keys') = Len(keys) + 1
      BY <1>1, <1>4, <2>1
    <3>2. \A x \in Keys : env'[x] # Absent <=> map'[x] # 0
      BY <1>1, <1>3, <1>4, <2>1
    <3> QED BY <1>1, <1>4, <2>1, <3>1, <3>2
  <2>2. CASE v \in Values /\ map[k] # 0
    <3>1. \A x \in Keys : env'[x] # Absent <=> map'[x] # 0
      BY <1>1, <1>3, <1>4, <2>2
    <3> QED BY <1>1, <1>4, <2>2, <3>1
  <2>3. CASE v = Absent
    <3>1. Len(keys') = Len(keys) - 1
      BY <1>1, <1>4, <2>3 DEF Without
    <3>2. Listed(keys') = Listed(keys) \ {k}
      BY <1>1, <1>4, <2>3, WithoutListed
    <3>3. \A x \in Keys : map'[x] # 0 <=> x \in Listed(keys')
      <4>1. keys' \in Seq(Keys) /\ map' \in [Keys -> Nat] /\ Agrees(keys', map')
        BY <1>1, <1>2, <1>4 DEF DataOK, ListMatches
      <4> QED BY <4>1, AgreesListed
    <3>4. \A x \in Keys : map[x] # 0 <=> x \in Listed(keys)
      BY <1>1, AgreesListed
    <3>5. \A x \in Keys : env'[x] # Absent <=> map'[x] # 0
      BY <1>1, <1>4, <2>3, <3>2, <3>3, <3>4
    <3> QED BY <1>1, <1>4, <2>3, <3>1, <3>5
  <2> QED BY <1>3, <2>1, <2>2, <2>3
<1> QED BY <1>1, <1>2, <1>4, <1>5, <1>6
        DEF CData, CountIsLength, StoredIffIndexed, Stored, Indexed

-------------------------------------------------------------------------------
\* Rearranging the list of an object in order leaves it in order.
LEMMA CarefulRearranged ==
  ASSUME CData, DataOK', intact' = intact, nelms' = nelms, env' = env,
         Len(keys') = Len(keys), Listed(keys') = Listed(keys)
  PROVE  CData'
<1>1. /\ keys \in Seq(Keys) /\ map \in [Keys -> Nat] /\ Agrees(keys, map) /\ intact
      /\ keys' \in Seq(Keys) /\ map' \in [Keys -> Nat] /\ Agrees(keys', map')
  BY DEF CData, DataOK, ListMatches
<1>2. \A k \in Keys : map[k] # 0 <=> k \in Listed(keys)
  BY <1>1, AgreesListed
<1>3. \A k \in Keys : map'[k] # 0 <=> k \in Listed(keys')
  BY <1>1, AgreesListed
<1>4. StoredIffIndexed'
  BY <1>2, <1>3 DEF CData, StoredIffIndexed, Stored, Indexed
<1> QED BY <1>4 DEF CData, CountIsLength, CarefulStore, Stored

\* Reversing the whole of an object that is not empty does not touch the map.
LEMMA CarefulReverse ==
  ASSUME Room, IInv, CData, nelms > 0, ReverseSlots(1, DefaultEnd)
  PROVE  CData' /\ nelms' = nelms /\ ~RaisesReversing(1, DefaultEnd)
<1>1. intact /\ nelms \in Int /\ Len(keys) \in Nat
  BY DEF CData, DataOK
<1>2. DefaultEnd \in Nat \ {0} /\ ~RaisesReversing(1, DefaultEnd)
  BY <1>1, DefaultEndOK, ReversedToEnd
<1>3. /\ DataOK' /\ Len(keys') = Len(keys) /\ Listed(keys') = Listed(keys)
      /\ env' = env
  BY <1>1, <1>2, ReverseSlotsOK
<1>4. nelms' = nelms
  BY DEF ReverseSlots
<1>5. intact' = intact
  <2>1. Inner(1, DefaultEnd) # 0
    BY <1>2 DEF Inner
  <2> QED BY <1>2, <2>1, Zenon DEF ReverseSlots
<1> QED BY <1>2, <1>3, <1>4, <1>5, CarefulRearranged

\* A key that has a slot may be deleted, ...
LEMMA ListedIsCareful ==
  ASSUME CData, NEW i \in DOMAIN keys
  PROVE  keys[i] \in Keys /\ Indexed(keys[i]) /\ CInput(keys[i], Absent)
<1>1. keys \in Seq(Keys) /\ Agrees(keys, map)
  BY DEF CData, DataOK, ListMatches
<1>2. keys[i] \in Keys /\ Indexed(keys[i])
  BY <1>1 DEF Agrees, Indexed
<1> QED BY <1>2 DEF CData, StoredIffIndexed, CarefulStore, CInput

\* ... and a rendering finds no hole.
LEMMA CarefulNoHoles ==
  ASSUME CData, NEW s, NEW e
  PROVE  Holes(s, e) = {}
  BY ListedIsCareful DEF Holes, CInput, CData, StoredIffIndexed

\* A call that touches nothing leaves the object in order.
LEMMA CarefulUnchanged ==
  ASSUME CData, UNCHANGED <<env, keys, map, nelms, intact>>
  PROVE  CData'
  BY DEF CData, DataOK, ListMatches, CountWithinList, CountIsLength,
         StoredIffIndexed, CarefulStore, Stored, Indexed

\* obj[k] = v, push, and the assignment that begins an insert.
LEMMA CarefulAssignments ==
  ASSUME Careful, IInv, CData, Assignments
  PROVE  CData' /\ todo'.pc # "write"
<1>1. PICK k \in Keys, v \in AnyValue :
        /\ Input(k, v)
        /\ \/ NewIndex(k, v)
           \/ Push(k, v)
           \/ \E at \in Keys \cup DOMAIN keys : InsertAssign(at, k, v)
  BY DEF Assignments
<1>2. CInput(k, v) /\ (Len(keys) < MaxKeys \/ Indexed(k)) /\ Len(keys) <= MaxKeys
  BY <1>1, InputIsCareful, IInvParts DEF Input
<1>3. CASE NewIndex(k, v)
  BY <1>2, <1>3, CarefulAssign DEF NewIndex, Quiet, Idle
<1>4. CASE Push(k, v)
  <2>1. CASE v = Absent
    BY <1>4, <2>1, CarefulUnchanged DEF Push, Quiet, Idle
  <2>2. CASE v # Absent
    BY <1>2, <1>4, <2>2, CarefulAssign DEF Push, Quiet, Idle
  <2> QED BY <2>1, <2>2
<1>5. CASE \E at \in Keys \cup DOMAIN keys : InsertAssign(at, k, v)
  <2>1. PICK at \in Keys \cup DOMAIN keys : InsertAssign(at, k, v)
    BY <1>5
  <2>2. PICK ok \in BOOLEAN :
          /\ Assign(k, v, ok)
          /\ todo' = IF ok THEN [pc |-> "place", key |-> k, slot |-> InsertTarget(at),
                                 want |-> NamedSlot(at), was |-> keys]
                     ELSE Idle
    BY <2>1 DEF InsertAssign
  <2>3. CData' /\ ok = TRUE
    BY <1>2, <2>2, CarefulAssign
  <2> QED BY <2>2, <2>3
<1> QED BY <1>1, <1>3, <1>4, <1>5

\* The first step of unshift, the reversal of an object that is not empty.
LEMMA CarefulUnshifts ==
  ASSUME Careful, IInv, CData, Unshifts
  PROVE  CData' /\ CarefulTodo'
<1>1. PICK n \in 1..MaxPairs :
        /\ GoesToCount
        /\ \E pairs \in [1..n -> Unshiftable] :
               UnshiftReverse(pairs)
  BY DEF Unshifts
<1>2. PICK pairs \in [1..n -> Unshiftable] :
        UnshiftReverse(pairs)
  BY <1>1
<1>3. nelms > 0 /\ n \in Nat /\ Len(pairs) = n
  BY <1>1, <1>2, ConstantsAreSound DEF Careful, May, GoesToCount, CData, DataOK
<1>4. CData' /\ nelms' = nelms /\ ~RaisesReversing(1, DefaultEnd)
  BY <1>2, <1>3, CarefulReverse DEF UnshiftReverse, Careful
<1>5. ASSUME NEW i \in 1..n PROVE pairs[i][1] # EnvKey /\ pairs[i][2] \in Values
  <2>1. /\ pairs[i] \in Pairs /\ Input(pairs[i][1], pairs[i][2])
        /\ pairs[i][2] = Absent => May("unshift_nil")
    BY DEF Unshiftable
  <2>2. pairs[i][1] \in Keys /\ pairs[i][2] \in AnyValue /\ pairs[i][2] # Absent
    BY <2>1 DEF Pairs, Careful, May
  <2>3. CInput(pairs[i][1], pairs[i][2])
    BY <2>1, <2>2, InputIsCareful
  <2> QED BY <2>2, <2>3 DEF CInput
<1>6. todo'.left = pairs
  BY <1>2, <1>4 DEF UnshiftReverse
<1> QED BY <1>3, <1>4, <1>5, <1>6 DEF CarefulTodo

\* One turn of the unshift loop.
LEMMA CarefulUnshiftWrite ==
  ASSUME Careful, CInv, UnshiftWrite
  PROVE  CData' /\ CarefulTodo'
<1> DEFINE n == Len(todo.left)
<1>1. /\ todo.pc = "write" /\ todo \in Items /\ Len(keys) \in Nat /\ IInv /\ CData
      /\ nelms > 0 /\ nelms \in Int
      /\ \A i \in 1..Len(todo.left) : /\ todo.left[i][1] # EnvKey
                                      /\ todo.left[i][2] \in Values
  BY IInvParts DEF UnshiftWrite, CInv, CarefulTodo, CData, DataOK
<1>2. /\ todo \in [pc : {"write"}, left : Seq(Pairs), i : Nat, nargs : Int,
                   was : Seq(Keys), pairs : Seq(Pairs)]
      /\ todo.left \in Seq(Pairs) /\ todo.i \in Nat
  BY <1>1 DEF Items
<1>3. n \in Nat \ {0}
  <2>1. todo.i <= 2 * n /\ (n = 0 => todo.i > 0)
    BY <1>1 DEF UnshiftWrite, IInv, LoopEnds
  <2> QED BY <1>2, <2>1
<1>4. todo.left[n][1] \in Keys /\ CInput(todo.left[n][1], todo.left[n][2])
  <2>1. todo.left[n] \in Pairs
    BY <1>2, <1>3
  <2>2. todo.left[n][1] \in Keys
    BY <2>1 DEF Pairs
  <2>3. todo.left[n][1] # EnvKey /\ todo.left[n][2] \in Values
    BY <1>1, <1>3
  <2> QED BY <2>2, <2>3 DEF CInput
<1>5. PICK ok \in BOOLEAN :
        /\ Assign(todo.left[n][1], todo.left[n][2], ok)
        /\ todo' = IF ok THEN [todo EXCEPT !.left = SubSeq(@, 1, n - 1),
                                          !.i = @ + 1, !.nargs = @ - 2]
                   ELSE Idle
  BY DEF UnshiftWrite
<1>6. Len(keys) < MaxKeys
  BY <1>1, <1>3, ConstantsAreSound DEF IInv, KeysFit
<1>7. ok = TRUE /\ CData' /\ nelms' >= nelms
  <2>1. todo.left[n][2] # Absent
    BY <1>1, <1>3, ConstantsAreSound
  <2>2. ok \in BOOLEAN /\ Assign(todo.left[n][1], todo.left[n][2], ok)
    BY <1>5
  <2>3. Len(keys) <= MaxKeys
    BY <1>1, <1>6, ConstantsAreSound
  <2> HIDE DEF n
  <2> QED BY <1>1, <1>4, <1>6, <2>1, <2>2, <2>3, CarefulAssign
<1>8. todo'.left = SubSeq(todo.left, 1, n - 1)
  BY <1>2, <1>5, <1>7
<1>9. ASSUME NEW i \in 1..Len(todo'.left)
      PROVE  todo'.left[i][1] # EnvKey /\ todo'.left[i][2] \in Values
  <2>1. Len(SubSeq(todo.left, 1, n - 1)) = n - 1
    <3>1. \A j \in 1..(n - 1) : todo.left[j] \in Pairs
      BY <1>2, <1>3
    <3> HIDE DEF n
    <3>2. n - 1 \in Int /\ (1 <= n - 1 \/ n - 1 = 0)
      BY <1>3
    <3> QED BY <3>1, <3>2, SubSeqProperties
  <2>2. i \in 1..(n - 1) /\ i \in 1..n
    <3> HIDE DEF n
    <3> QED BY <1>3, <1>8, <2>1
  <2>3. todo'.left[i] = todo.left[i]
    BY <1>2, <1>3, <1>8, <2>2
  <2> QED BY <1>1, <2>2, <2>3
<1>10. nelms' > 0
  BY <1>1, <1>7 DEF CData, DataOK
<1> QED BY <1>7, <1>9, <1>10 DEF CarefulTodo

\* The second reversal of an unshift.
LEMMA CarefulRestore ==
  ASSUME Room, CInv, UnshiftRestore
  PROVE  CData' /\ todo' = Idle
<1>1. IInv /\ CData /\ nelms > 0 /\ ReverseSlots(1, DefaultEnd) /\ todo' = Idle
  BY DEF CInv, CarefulTodo, UnshiftRestore, Quiet
<1> QED BY <1>1, CarefulReverse

\* The move that ends an insert.
LEMMA CarefulPlace ==
  ASSUME Careful, CInv, InsertPlace
  PROVE  CData' /\ todo' = Idle
<1>1. IInv /\ CData /\ todo' = Idle
  BY DEF CInv, InsertPlace, Quiet
<1>2. CASE UNCHANGED <<env, keys, map, nelms, intact>>
  BY <1>1, <1>2, CarefulUnchanged
<1>3. CASE MoveSlot(Slot(todo.key), todo.slot, keys[Slot(todo.key)])
  <2>1. intact' = intact /\ nelms' = nelms
    BY <1>3 DEF MoveSlot
  <2>2. IInv' /\ intact
    BY <1>1, InsertPlaceOK DEF Careful, CData
  <2>3. Len(keys') = Len(keys) /\ Listed(keys') = Listed(keys) /\ env' = env
    BY <1>1, <2>1, <2>2, InsertPlaceOK DEF Careful
  <2>4. DataOK'
    BY <2>2 DEF IInv, Shapes, DataOK
  <2> QED BY <1>1, <2>1, <2>3, <2>4, CarefulRearranged
<1> QED BY <1>2, <1>3 DEF InsertPlace

\* A raw write by a careful script gives a stored key another value.
LEMMA CarefulRawWrites ==
  ASSUME Careful, IInv, CData, RawWrites
  PROVE  CData' /\ todo' = Idle
<1>1. PICK k \in Keys, v \in AnyValue \ {Rejected} :
        /\ v = Absent => May("raw_nil")
        /\ v = Opaque => May("opaque")
        /\ RawSet(k, v)
  BY DEF RawWrites
<1>2. v \in Values
  BY <1>1 DEF Careful, May, AnyValue
<1>3. /\ Stored(k) /\ env' = [env EXCEPT ![k] = v] /\ todo' = Idle
      /\ UNCHANGED <<keys, map, nelms, intact>>
  BY <1>1 DEF RawSet, Quiet
<1>4. env \in [Keys -> AnyValue] /\ v # Absent /\ env[k] # Absent
  BY <1>2, <1>3, ConstantsAreSound DEF CData, DataOK, Stored
<1>5. \A x \in Keys : env'[x] # Absent <=> env[x] # Absent
  BY <1>3, <1>4
<1>6. \A x \in Keys : env'[x] \in Values \cup {Absent}
  BY <1>2, <1>3, <1>4 DEF CData, CarefulStore
<1>7. DataOK'
  BY <1>2, <1>3, <1>4 DEF CData, DataOK, ListMatches, CountWithinList, AnyValue
<1>8. intact' /\ CountIsLength'
  BY <1>3 DEF CData, CountIsLength
<1>9. StoredIffIndexed' /\ CarefulStore'
  BY <1>3, <1>5, <1>6 DEF CData, StoredIffIndexed, CarefulStore, Stored, Indexed
<1> QED BY <1>3, <1>7, <1>8, <1>9 DEF CData

\* Rearranging the whole or a part of the list.
LEMMA CarefulRearrangements ==
  ASSUME Careful, IInv, CData, Rearrangements
  PROVE  CData' /\ todo' = Idle
<1>1. /\ EitherInv' /\ Len(keys') = Len(keys) /\ Listed(keys') = Listed(keys)
      /\ env' = env
  BY RearrangementsOK DEF Careful, CData, CountIsLength, DataOK
<1>2. todo' = Idle
  BY DEF Rearrangements, Reverse, Move, Quiet
<1>3. nelms' = nelms
  BY DEF Rearrangements, Reverse, Move, ReverseSlots, MoveSlot
<1>4. keys \in Seq(Keys) /\ Len(keys) \in Nat /\ nelms = Len(keys) /\ intact
  BY DEF CData, CountIsLength, DataOK
<1>5. ~Torn'
  <2>1. Absent \notin Listed(keys)
    BY <1>4, ConstantsAreSound DEF Listed
  <2> QED BY <1>1, <2>1 DEF Torn
<1>6. DataOK'
  BY <1>1, <1>5 DEF EitherInv, TornInv, IInv, Shapes, DataOK
<1>7. Positions \subseteq 1..Len(keys)
  BY <1>4, PositionsAreSlots DEF CData, Careful
<1>8. intact' = intact
  <2>1. CASE \E a, b \in Positions : Reverse(a, b)
    <3>1. PICK a \in Positions, b \in Positions : Reverse(a, b)
      BY <2>1
    <3>2. a \in 1..Len(keys) /\ b \in 1..Len(keys) /\ ReverseSlots(a, b)
      BY <1>7, <3>1 DEF Reverse
    <3>3. Inner(a, b) # 0
      BY <1>4, <3>2 DEF Inner
    <3> QED BY <3>2, <3>3 DEF ReverseSlots
  <2>2. CASE \E a, b \in Positions : Move(a, b)
    BY <2>2 DEF Move, MoveSlot
  <2>3. CASE GoesToCount /\ \E a \in Positions \cup {1} : Reverse(a, DefaultEnd)
    <3>1. PICK a \in Positions \cup {1} : Reverse(a, DefaultEnd)
      BY <2>3
    <3>2. nelms > 0
      BY <2>3, <1>4 DEF Careful, May, GoesToCount
    <3>3. a \in Nat \ {0} /\ DefaultEnd \in Nat \ {0}
      BY <1>4, <1>7, <3>1, <3>2, DefaultEndOK DEF Careful
    <3>4. Inner(a, DefaultEnd) # 0
      BY <3>3 DEF Inner
    <3> QED BY <3>1, <3>4 DEF Reverse, ReverseSlots
  <2> QED BY <2>1, <2>2, <2>3 DEF Rearrangements
<1> QED BY <1>1, <1>2, <1>3, <1>6, <1>8, CarefulRearranged

\* A rendering has nothing to delete, and a read nothing to enter.
LEMMA CarefulLooks ==
  ASSUME Careful, CData, Reads \/ Renderings
  PROVE  CData' /\ todo'.pc # "write"
<1>1. CASE Reads
  <2>1. UNCHANGED <<env, keys, map, nelms, intact>> /\ todo' = Idle
    BY <1>1 DEF Reads, Index, EnterIf, Careful, May, Quiet
  <2> QED BY <2>1, CarefulUnchanged DEF Idle
<1>2. CASE Renderings
  <2>1. PICK s, e \in Positions \cup {1, LastSlot} : Tojson(s, e)
    BY <1>2 DEF Renderings
  <2>2. Holes(s, e) = {}
    BY CarefulNoHoles
  <2>3. UNCHANGED <<env, keys, map, nelms, intact>> /\ todo' = Idle
    BY <2>1, <2>2 DEF Tojson, Call
  <2> QED BY <2>3, CarefulUnchanged DEF Idle
<1> QED BY <1>1, <1>2

\* pop and shift.
LEMMA CarefulDelete ==
  ASSUME Careful, IInv, CData, NEW i, DeleteAt(i)
  PROVE  CData' /\ todo' = Idle
<1>1. todo' = Idle /\ Len(keys) <= MaxKeys
  BY IInvParts DEF DeleteAt, Quiet
<1>2. CASE i \in DOMAIN keys
  <2>1. keys[i] \in Keys /\ Indexed(keys[i]) /\ CInput(keys[i], Absent)
    BY <1>2, ListedIsCareful
  <2>2. PICK ok \in BOOLEAN : Assign(keys[i], Absent, ok)
    BY <1>2 DEF DeleteAt
  <2>3. CData'
    BY <1>1, <2>1, <2>2, CarefulAssign
  <2> QED BY <1>1, <2>3
<1>3. CASE i \notin DOMAIN keys
  BY <1>1, <1>3, CarefulUnchanged DEF DeleteAt
<1> QED BY <1>2, <1>3

-------------------------------------------------------------------------------
\* A new object is in order.
LEMMA InitCInv == Init => CInv
<1> SUFFICES ASSUME Init PROVE CInv
  OBVIOUS
<1>1. IInv
  BY InitIInv
<1>2. DataOK
  BY <1>1, IInvParts
<1>3. intact /\ CountIsLength /\ StoredIffIndexed /\ CarefulStore
  BY DEF Init, CountIsLength, StoredIffIndexed, CarefulStore, Stored, Indexed
<1>4. CarefulTodo
  BY DEF Init, Idle, CarefulTodo
<1> QED BY <1>1, <1>2, <1>3, <1>4 DEF CInv, CData

\* Every step of a careful script keeps it in order.
LEMMA NextCInv == Careful /\ CInv /\ [Next]_vars => CInv'
<1> SUFFICES ASSUME Careful, CInv, [Next]_vars PROVE CInv'
  OBVIOUS
<1>b. CData' => IInv'
  <2>1. EitherInv'
    BY NextIInv DEF Careful, CInv
  <2>2. CData' => ~Torn'
    BY ConstantsAreSound DEF CData, DataOK, Torn, Listed
  <2> QED BY <2>1, <2>2 DEF EitherInv, TornInv
<1> SUFFICES CData' /\ CarefulTodo'
  BY <1>b DEF CInv
<1>0. IInv /\ CData /\ intact
  BY DEF CInv, CData
<1>a. Idle.pc # "write"
  BY DEF Idle
<1>1. CASE Assignments
  BY <1>0, <1>1, CarefulAssignments DEF CarefulTodo
<1>2. CASE Unshifts
  BY <1>0, <1>2, CarefulUnshifts
<1>3. CASE UnshiftWrite
  BY <1>3, CarefulUnshiftWrite
<1>4. CASE UnshiftRestore
  BY <1>4, <1>a, CarefulRestore DEF CarefulTodo, Careful
<1>5. CASE InsertPlace
  BY <1>5, <1>a, CarefulPlace DEF CarefulTodo
<1>6. CASE Reads \/ Renderings
  BY <1>0, <1>6, CarefulLooks DEF CarefulTodo
<1>7. CASE RawWrites
  BY <1>0, <1>7, <1>a, CarefulRawWrites DEF CarefulTodo
<1>8. CASE Rearrangements
  BY <1>0, <1>8, <1>a, CarefulRearrangements DEF CarefulTodo
<1>9. CASE Pop \/ Shift
  BY <1>0, <1>9, <1>a, CarefulDelete DEF CarefulTodo, Pop, Shift
<1>10. CASE UNCHANGED vars
  <2>1. CData'
    BY <1>0, <1>10, CarefulUnchanged DEF vars
  <2>2. CarefulTodo'
    BY <1>10 DEF vars, CInv, CarefulTodo
  <2> QED BY <2>1, <2>2
<1> QED
  BY <1>0, <1>1, <1>2, <1>3, <1>4, <1>5, <1>6, <1>7, <1>8, <1>9, <1>10
  DEF Next, Undefined, Careful, May

\* The strengthened invariant holds throughout.
THEOREM CarefulInvariance ==
  ASSUME Careful
  PROVE  Spec => []CInv
  BY InitCInv, NextCInv, PTL DEF Spec

-------------------------------------------------------------------------------
\* Every slot of a careful script's object is counted.
THEOREM CarefulCount ==
  ASSUME Careful
  PROVE  Spec => []CountIsLength
<1>1. CInv => CountIsLength
  BY DEF CInv, CData
<1> QED BY <1>1, CarefulInvariance, PTL

\* Its keys have slots exactly when they have values.
THEOREM CarefulKeys ==
  ASSUME Careful
  PROVE  Spec => []StoredIffIndexed
<1>1. CInv => StoredIffIndexed
  BY DEF CInv, CData
<1> QED BY <1>1, CarefulInvariance, PTL

\* Its map is never overwritten.
THEOREM CarefulMap ==
  ASSUME Careful
  PROVE  Spec => []MapIsKept
<1>1. CInv => MapIsKept
  <2>1. CInv => intact /\ keys \in Seq(Keys)
    BY DEF CInv, CData, DataOK
  <2>2. keys \in Seq(Keys) => ~Torn
    BY ConstantsAreSound DEF Torn, Listed
  <2> QED BY <2>1, <2>2 DEF MapIsKept
<1> QED BY <1>1, CarefulInvariance, PTL

\* For a script without habits the map is in place and every slot is counted.
THEOREM CarefulSlots ==
  ASSUME Careful
  PROVE  Spec => []SlotsAreExact
<1>1. MapIsKept /\ CountIsLength => SlotsAreExact
  BY DEF SlotsAreExact
<1> QED BY <1>1, CarefulMap, CarefulCount, PTL

-------------------------------------------------------------------------------
(***************************************************************************)
(* The object is a map that remembers the order of its keys.               *)
(***************************************************************************)
\* The C loops over the key list, as edits of a sequence.
LEMMA EditsAre ==
  ASSUME NEW s \in Seq(Keys), NEW a \in 1..Len(s), NEW b \in 1..Len(s)
  PROVE  /\ Without(s, a) = SubSeq(s, 1, a - 1) \o SubSeq(s, a + 1, Len(s))
         /\ LET r == SubSeq(s, 1, a - 1) \o SubSeq(s, a + 1, Len(s))
            IN  Moved(s, a, b, s[a]) = SubSeq(r, 1, b - 1) \o <<s[a]>> \o SubSeq(r, b, Len(r))
         /\ Flipped(s, a, b) = [p \in DOMAIN s |-> IF p \in a..b THEN s[a + b - p] ELSE s[p]]
<1> DEFINE n == Len(s)
           r == SubSeq(s, 1, a - 1) \o SubSeq(s, a + 1, Len(s))
           t == SubSeq(r, 1, b - 1) \o <<s[a]>> \o SubSeq(r, b, Len(r))
           w == Without(s, a)
           m == Moved(s, a, b, s[a])
<1>1. n \in Nat /\ a \in 1..n /\ b \in 1..n /\ a \in Nat /\ b \in Nat
      /\ \A j \in 1..n : s[j] \in Keys
  OBVIOUS
<1>2. w = r
  <2>1. /\ r \in Seq(Keys) /\ Len(r) = n - 1
        /\ \A j \in 1..(n - 1) : r[j] = IF j < a THEN s[j] ELSE s[j + 1]
    BY RemovedAt
  <2>2. /\ w \in Seq(Keys) /\ Len(w) = n - 1
        /\ \A j \in 1..(n - 1) : w[j] = IF j < a THEN s[j] ELSE s[j + 1]
    <3> HIDE DEF n
    <3>1. w = [i \in 1..(n - 1) |-> IF i < a THEN s[i] ELSE s[i + 1]]
      BY DEF Without, n
    <3>2. \A j \in 1..(n - 1) : (IF j < a THEN s[j] ELSE s[j + 1]) \in Keys
      BY <1>1
    <3>3. n - 1 \in Nat
      BY <1>1
    <3> HIDE DEF w
    <3> QED BY <3>1, <3>2, <3>3
  <2> HIDE DEF r, w, n
  <2>3. \A j \in 1..Len(w) : w[j] = r[j]
    BY <2>1, <2>2
  <2> QED BY <2>1, <2>2, <2>3, SeqEqual
<1>3. m = t
  <2>1. /\ t \in Seq(Keys) /\ Len(t) = n
        /\ \A j \in 1..n :
             t[j] = IF j = b THEN s[a] ELSE IF a <= j /\ j < b THEN s[j + 1]
                    ELSE IF b < j /\ j <= a THEN s[j - 1] ELSE s[j]
    BY RelocatedAt, ZenonT(60)
  <2> HIDE DEF t, n
  <2>2. /\ m \in Seq(Keys) /\ Len(m) = n
        /\ \A j \in 1..n :
             m[j] = IF j = b THEN s[a] ELSE IF a <= j /\ j < b THEN s[j + 1]
                    ELSE IF b < j /\ j <= a THEN s[j - 1] ELSE s[j]
    <3>1. m = [j \in 1..n |-> IF j = b THEN s[a] ELSE IF a <= j /\ j < b THEN s[j + 1]
                              ELSE IF b < j /\ j <= a THEN s[j - 1] ELSE s[j]]
      BY DEF Moved, n
    <3>2. \A j \in 1..n : (IF j = b THEN s[a] ELSE IF a <= j /\ j < b THEN s[j + 1]
                           ELSE IF b < j /\ j <= a THEN s[j - 1] ELSE s[j]) \in Keys
      BY <1>1
    <3> HIDE DEF m
    <3> QED BY <1>1, <3>1, <3>2
  <2> HIDE DEF m
  <2>3. \A j \in 1..Len(m) : m[j] = t[j]
    BY <2>1, <2>2
  <2> QED BY <2>1, <2>2, <2>3, SeqEqual
<1>4. Flipped(s, a, b) = [p \in DOMAIN s |-> IF p \in a..b THEN s[a + b - p] ELSE s[p]]
  <2>1. DOMAIN s = 1..n /\ \A p \in 1..n : p \in a..b <=> (a <= p /\ p <= b)
    BY <1>1
  <2> QED BY <2>1 DEF Flipped
<1> QED BY <1>2, <1>3, <1>4 DEF w, m, t, r

\* The steps of the map, for the object's keys and values.
LEMMA MapGlance ==
  ASSUME UNCHANGED <<keys, env>>, out' = << >> PROVE Map!Next
  BY DEF Map!Next, Map!Glance

LEMMA MapPut ==
  ASSUME NEW k \in Keys, NEW v \in Values, env' = [env EXCEPT ![k] = v],
         keys' = IF Stored(k) THEN keys ELSE Append(keys, k), out' = << >>
  PROVE  Map!Next
<1>1. Map!Put(k, v)
  BY DEF Map!Put, Map!Present, Stored
<1> QED BY <1>1 DEF Map!Next

LEMMA MapDelete ==
  ASSUME NEW k \in Keys, Stored(k), env' = [env EXCEPT ![k] = Absent],
         NEW i \in DOMAIN keys, keys[i] = k,
         keys' = SubSeq(keys, 1, i - 1) \o SubSeq(keys, i + 1, Len(keys)), out' = << >>
  PROVE  Map!Next
<1>1. Map!Delete(k)
  BY DEF Map!Delete, Map!Present, Map!RemoveAt, Stored
<1> QED BY <1>1 DEF Map!Next

LEMMA MapRelocate ==
  ASSUME NEW i \in DOMAIN keys, NEW j \in DOMAIN keys, env' = env, out' = << >>,
         NEW r, r = SubSeq(keys, 1, i - 1) \o SubSeq(keys, i + 1, Len(keys)),
         keys' = SubSeq(r, 1, j - 1) \o <<keys[i]>> \o SubSeq(r, j, Len(r))
  PROVE  Map!Next
<1>1. Map!Relocate(i, j)
  BY DEF Map!Relocate, Map!RemoveAt, Map!InsertAt
<1> QED BY <1>1 DEF Map!Next

LEMMA MapFlip ==
  ASSUME NEW i \in DOMAIN keys, NEW j \in DOMAIN keys, i <= j, env' = env, out' = << >>,
         keys' = [p \in DOMAIN keys |-> IF p \in i..j THEN keys[i + j - p] ELSE keys[p]]
  PROVE  Map!Next
<1>1. Map!Flip(i, j)
  BY DEF Map!Flip
<1> QED BY <1>1 DEF Map!Next

LEMMA MapShow ==
  ASSUME NEW i, NEW j, UNCHANGED <<keys, env>>,
         \/ i \in 1..Len(keys) /\ j \in 1..Len(keys) /\ Len(keys) \in Nat
         \/ i = 1 /\ j = Len(keys),
         out' = [p \in 1..(IF i <= j THEN j - i + 1 ELSE 0) |->
                   <<keys[i + p - 1], env[keys[i + p - 1]]>>]
  PROVE  Map!Next
<1>1. Map!Show(i, j)
  BY DEF Map!Show
<1>2. i \in 1..Len(keys) /\ j \in 1..Len(keys) /\ Len(keys) \in Nat =>
        i \in 0..Len(keys) /\ j \in 0..Len(keys) /\ i > 0
  OBVIOUS
<1> QED BY <1>1, <1>2 DEF Map!Next

-------------------------------------------------------------------------------
\* An unshift under way shows nothing, ...
WriteBlank == todo.pc = "write" => out = << >>

\* ... and an insert under way has put a new key at the end of the list and
\* will move it to the slot that was named.
PlaceOK ==
  (todo.pc = "place" /\ todo.key \notin Listed(todo.was)) =>
    /\ keys = Append(todo.was, todo.key)
    /\ todo.slot = todo.want /\ todo.want \in 1..Len(todo.was)

OInv == CInv /\ base = 1 /\ WriteBlank /\ PlaceOK

\* An object in order, in terms of its parts.
LEMMA InOrderParts ==
  ASSUME Careful, CInv
  PROVE  /\ keys \in Seq(Keys) /\ map \in [Keys -> Nat] /\ nelms = Len(keys)
         /\ Len(keys) \in Nat /\ Len(keys) <= MaxKeys /\ Agrees(keys, map) /\ intact = TRUE
         /\ DOMAIN keys = 1..Len(keys) /\ todo \in Items /\ out \in Seq(Keys \X AnyValue)
         /\ \A k \in Keys : (Stored(k) <=> map[k] # 0) /\ Slot(k) = map[k]
         /\ Positions \subseteq 1..Len(keys) /\ LastSlot = Len(keys)
<1>1. IInv /\ CData
  BY DEF CInv
<1>2. /\ keys \in Seq(Keys) /\ map \in [Keys -> Nat] /\ nelms = Len(keys)
      /\ Len(keys) \in Nat /\ Len(keys) <= MaxKeys /\ Agrees(keys, map) /\ intact = TRUE
      /\ todo \in Items /\ out \in Seq(Keys \X AnyValue) /\ DataOK
  BY <1>1, IInvParts DEF CData, DataOK, ListMatches, CountIsLength
<1>3. \A k \in Keys : (Stored(k) <=> map[k] # 0) /\ Slot(k) = map[k]
  BY <1>1, <1>2, SlotIsMap DEF Careful, CData, StoredIffIndexed, Indexed
<1>4. Positions \subseteq 1..Len(keys)
  BY <1>1, <1>2, PositionsAreSlots DEF Careful
<1>5. LastSlot = Len(keys)
  BY <1>2 DEF LastSlot
<1> QED BY <1>2, <1>3, <1>4, <1>5

\* A careful assignment puts a pair into the map, or takes one out.
LEMMA AssignMaps ==
  ASSUME Careful, CInv, NEW k \in Keys, NEW v, NEW ok \in BOOLEAN,
         Len(keys) < MaxKeys \/ Indexed(k), CInput(k, v), Assign(k, v, ok), out' = << >>
  PROVE  Map!Next
<1>1. /\ keys \in Seq(Keys) /\ Len(keys) <= MaxKeys /\ CData /\ map[k] \in Nat
      /\ (Stored(k) <=> map[k] # 0) /\ DOMAIN keys = 1..Len(keys)
  BY InOrderParts DEF CInv
<1>2. /\ env' = [env EXCEPT ![k] = v]
      /\ v \in Values /\ map[k] = 0 => keys' = Append(keys, k)
      /\ v \in Values /\ map[k] # 0 => keys' = keys
      /\ v = Absent => /\ map[k] \in 1..Len(keys) /\ keys[map[k]] = k
                       /\ keys' = Without(keys, map[k])
  BY <1>1, CarefulEffect
<1>3. CASE v \in Values
  <2>1. keys' = IF Stored(k) THEN keys ELSE Append(keys, k)
    BY <1>1, <1>2, <1>3
  <2> QED BY <1>2, <1>3, <2>1, MapPut
<1>4. CASE v = Absent /\ Stored(k)
  <2> DEFINE i == map[k]
  <2>1. i \in 1..Len(keys) /\ keys[i] = k /\ keys' = Without(keys, i)
    BY <1>2, <1>4
  <2> HIDE DEF i
  <2>2. keys' = SubSeq(keys, 1, i - 1) \o SubSeq(keys, i + 1, Len(keys))
    BY <1>1, <2>1, EditsAre
  <2>3. i \in DOMAIN keys /\ env' = [env EXCEPT ![k] = Absent]
    BY <1>1, <1>2, <1>4, <2>1
  <2> QED BY <1>4, <2>1, <2>2, <2>3, MapDelete
<1> QED BY <1>3, <1>4 DEF CInput

\* Turning slots of the list around turns the map around.
LEMMA ReverseMaps ==
  ASSUME Careful, CInv, NEW a \in 1..Len(keys), NEW b \in 1..Len(keys),
         ReverseSlots(a, b), out' = << >>
  PROVE  Map!Next
<1> DEFINE lo == Inner(a, b)
           hi == Outer(a, b)
<1>1. keys \in Seq(Keys) /\ Len(keys) \in Nat /\ DOMAIN keys = 1..Len(keys)
  BY InOrderParts
<1>2. /\ lo \in 1..Len(keys) /\ hi \in 1..Len(keys) /\ lo <= hi /\ lo # 0
      /\ ~RaisesReversing(a, b)
  BY <1>1 DEF Inner, Outer, RaisesReversing
<1>3. env' = env
  BY DEF ReverseSlots
<1>4. CASE a = b
  BY <1>3, <1>4, MapGlance DEF ReverseSlots
<1>5. CASE a # b
  <2>1. keys' = Flipped(keys, lo, hi)
    BY <1>2, <1>5, Zenon DEF ReverseSlots
  <2> HIDE DEF lo, hi
  <2>2. keys' = [p \in DOMAIN keys |-> IF p \in lo..hi THEN keys[lo + hi - p] ELSE keys[p]]
    BY <1>1, <1>2, <2>1, EditsAre
  <2> QED BY <1>1, <1>2, <1>3, <2>2, MapFlip
<1> QED BY <1>4, <1>5

\* Moving a pair between two slots of the list relocates it in the map.
LEMMA MoveMaps ==
  ASSUME Careful, CInv, NEW m \in 1..Len(keys), NEW t \in 1..Len(keys),
         MoveSlot(m, t, keys[m]), out' = << >>
  PROVE  Map!Next
<1>1. keys \in Seq(Keys) /\ DOMAIN keys = 1..Len(keys) /\ env' = env
  BY InOrderParts DEF MoveSlot
<1>2. CASE m = t
  BY <1>1, <1>2, MapGlance DEF MoveSlot
<1>3. CASE m # t
  <2> DEFINE r == SubSeq(keys, 1, m - 1) \o SubSeq(keys, m + 1, Len(keys))
  <2>1. keys' = Moved(keys, m, t, keys[m])
    BY <1>3 DEF MoveSlot
  <2>2. keys' = SubSeq(r, 1, t - 1) \o <<keys[m]>> \o SubSeq(r, t, Len(r))
    BY <1>1, <2>1, EditsAre
  <2>3. r = SubSeq(keys, 1, m - 1) \o SubSeq(keys, m + 1, Len(keys))
    OBVIOUS
  <2> HIDE DEF r
  <2> QED BY <1>1, <2>2, <2>3, MapRelocate
<1> QED BY <1>2, <1>3

\* A rendering between two slots of the list, or of all of it, shows them.
LEMMA RenderMaps ==
  ASSUME Careful, CInv, NEW s, NEW e, Tojson(s, e),
         \/ s \in 1..Len(keys) /\ e \in 1..Len(keys)
         \/ s = 1 /\ e = Len(keys)
  PROVE  /\ Map!Next /\ UNCHANGED <<env, keys, map>>
         /\ out' = [p \in 1..(IF s <= e THEN e - s + 1 ELSE 0) |->
                      <<keys[s + p - 1], env[keys[s + p - 1]]>>]
<1>1. Len(keys) \in Nat /\ CData
  BY InOrderParts DEF CInv
<1>2. Holes(s, e) = {}
  BY <1>1, CarefulNoHoles
<1>3. StopsAfter(s, e) = e
  <2>1. ~(e > Len(keys))
    BY <1>1
  <2> QED BY <1>2, <2>1 DEF StopsAfter
<1>4. UNCHANGED <<env, keys, map>>
  BY <1>2 DEF Tojson
<1>5. out' = [p \in 1..(IF s <= e THEN e - s + 1 ELSE 0) |->
                <<keys[s + p - 1], env[keys[s + p - 1]]>>]
  BY <1>3 DEF Tojson, Printed
<1>6. Map!Next
  BY <1>1, <1>4, <1>5, MapShow
<1> QED BY <1>4, <1>5, <1>6

\* obj[k] = v, push, and the assignment that begins an insert.
LEMMA AssignmentsMap ==
  ASSUME Careful, OInv, Assignments
  PROVE  Map!Next /\ base' = 1 /\ WriteBlank' /\ PlaceOK'
<1>1. PICK k \in Keys, v \in AnyValue :
        /\ Input(k, v)
        /\ \/ NewIndex(k, v)
           \/ Push(k, v)
           \/ \E at \in Keys \cup DOMAIN keys : InsertAssign(at, k, v)
  BY DEF Assignments
<1>2. CInput(k, v) /\ (Len(keys) < MaxKeys \/ Indexed(k))
  BY <1>1, InputIsCareful DEF Input
<1>3. base = 1 /\ CInv
  BY DEF OInv
<1>4. /\ nelms = Len(keys) /\ Len(keys) \in Nat /\ Len(keys) <= MaxKeys /\ CData
      /\ DOMAIN keys = 1..Len(keys) /\ Agrees(keys, map) /\ map \in [Keys -> Nat]
      /\ \A x \in Keys : (Stored(x) <=> map[x] # 0) /\ Slot(x) = map[x]
  BY <1>3, InOrderParts DEF CInv
<1>5. CASE NewIndex(k, v) \/ Push(k, v)
  <2>1. Quiet
    BY <1>5 DEF NewIndex, Push
  <2>2. out' = << >> /\ base' = 1 /\ todo'.pc = "idle"
    BY <1>3, <2>1 DEF Quiet, Idle
  <2>3. Map!Next
    <3>1. CASE UNCHANGED <<env, keys, map, nelms, intact>>
      BY <2>2, <3>1, MapGlance
    <3>2. CASE \E ok \in BOOLEAN : Assign(k, v, ok)
      BY <1>2, <1>3, <2>2, <3>2, AssignMaps
    <3> QED BY <1>5, <3>1, <3>2 DEF NewIndex, Push
  <2> QED BY <2>2, <2>3 DEF WriteBlank, PlaceOK
<1>6. CASE \E at \in Keys \cup DOMAIN keys : InsertAssign(at, k, v)
  <2>1. PICK at \in Keys \cup DOMAIN keys : InsertAssign(at, k, v)
    BY <1>6
  <2>2. PICK ok \in BOOLEAN :
          /\ Assign(k, v, ok)
          /\ todo' = IF ok THEN [pc |-> "place", key |-> k, slot |-> InsertTarget(at),
                                 want |-> NamedSlot(at), was |-> keys]
                     ELSE Idle
    BY <2>1 DEF InsertAssign
  <2>3. /\ ok = TRUE
        /\ v \in Values /\ map[k] = 0 => keys' = Append(keys, k)
        /\ v = Absent => map[k] \in 1..Len(keys)
    BY <1>2, <1>4, <2>2, CarefulEffect
  <2>4. out' = << >> /\ base' = 1 /\ InBounds(NamedSlot(at))
    BY <1>3, <2>1 DEF InsertAssign
  <2>5. Map!Next
    BY <1>2, <1>3, <2>2, <2>4, AssignMaps
  <2>6. todo' = [pc |-> "place", key |-> k, slot |-> InsertTarget(at),
                 want |-> NamedSlot(at), was |-> keys]
    BY <2>2, <2>3
  <2>7. NamedSlot(at) \in 1..Len(keys) /\ InsertTarget(at) = NamedSlot(at)
    <3>1. NamedSlot(at) \in Nat
      BY <1>4 DEF NamedSlot
    <3>2. InsertTarget(at) = NamedSlot(at)
      <4>1. CASE at \in Keys
        BY <1>3, <3>1, <4>1 DEF InsertTarget
      <4>2. CASE at \notin Keys
        BY <4>2 DEF InsertTarget, NamedSlot
      <4> QED BY <4>1, <4>2
    <3> QED BY <1>4, <2>4, <3>1, <3>2 DEF InBounds
  <2>8. k \notin Listed(keys) => keys' = Append(keys, k)
    <3>1. map[k] # 0 => k \in Listed(keys)
      BY <1>4 DEF Agrees, Listed
    <3>2. Absent \notin Values /\ (v \in Values \/ v = Absent)
      BY <1>2, ConstantsAreSound DEF CInput
    <3>3. v = Absent => map[k] # 0
      BY <1>2, <1>4, <3>2 DEF CInput
    <3> QED BY <2>3, <3>1, <3>2, <3>3
  <2>9. WriteBlank' /\ PlaceOK'
    BY <2>6, <2>7, <2>8 DEF WriteBlank, PlaceOK
  <2> QED BY <2>4, <2>5, <2>9
<1> QED BY <1>1, <1>5, <1>6

\* One turn of the unshift loop puts its last pair into the map.
LEMMA UnshiftWriteMaps ==
  ASSUME Careful, OInv, UnshiftWrite
  PROVE  Map!Next /\ base' = 1 /\ WriteBlank' /\ PlaceOK'
<1> DEFINE n == Len(todo.left)
<1>1. /\ todo.pc = "write" /\ todo \in Items /\ Len(keys) \in Nat /\ IInv /\ CInv
      /\ base' = 1 /\ out' = << >> /\ out = << >>
      /\ \A i \in 1..Len(todo.left) : /\ todo.left[i][1] # EnvKey
                                      /\ todo.left[i][2] \in Values
  BY IInvParts DEF UnshiftWrite, CInv, CarefulTodo, OInv, WriteBlank
<1>2. todo.left \in Seq(Pairs) /\ todo.i \in Nat
  BY <1>1 DEF Items
<1>3. n \in Nat \ {0}
  <2>1. todo.i <= 2 * n /\ (n = 0 => todo.i > 0)
    BY <1>1 DEF UnshiftWrite, IInv, LoopEnds
  <2> QED BY <1>2, <2>1
<1>4. todo.left[n][1] \in Keys /\ CInput(todo.left[n][1], todo.left[n][2])
  <2>1. todo.left[n] \in Pairs
    BY <1>2, <1>3
  <2>2. todo.left[n][1] \in Keys
    BY <2>1 DEF Pairs
  <2>3. todo.left[n][1] # EnvKey /\ todo.left[n][2] \in Values
    BY <1>1, <1>3
  <2> QED BY <2>2, <2>3 DEF CInput
<1>5. PICK ok \in BOOLEAN :
        /\ Assign(todo.left[n][1], todo.left[n][2], ok)
        /\ todo' = IF ok THEN [todo EXCEPT !.left = SubSeq(@, 1, n - 1),
                                          !.i = @ + 1, !.nargs = @ - 2]
                   ELSE Idle
  BY DEF UnshiftWrite
<1>6. Len(keys) < MaxKeys
  BY <1>1, <1>3, ConstantsAreSound DEF IInv, KeysFit
<1>7. todo'.pc # "place"
  <2>1. CASE ok
    <3>1. todo \in [pc : {"write"}, left : Seq(Pairs), i : Nat, nargs : Int,
                    was : Seq(Keys), pairs : Seq(Pairs)]
      BY <1>1 DEF Items
    <3>2. todo'.pc = todo.pc
      BY <1>5, <2>1, <3>1
    <3> QED BY <1>1, <3>2
  <2>2. CASE ~ok
    BY <1>5, <2>2 DEF Idle
  <2> QED BY <2>1, <2>2
<1> HIDE DEF n
<1>8. Map!Next
  BY <1>1, <1>4, <1>5, <1>6, AssignMaps
<1> QED BY <1>1, <1>7, <1>8 DEF WriteBlank, PlaceOK

\* Every step of a careful script is a step of the map, or looks at it.
LEMMA ObjectStep ==
  ASSUME Careful, OInv, CInv', [Next]_vars
  PROVE  OInv' /\ [Map!Next]_(Map!omVars)
<1> SUFFICES base' = 1 /\ WriteBlank' /\ PlaceOK' /\ [Map!Next]_(Map!omVars)
  BY DEF OInv
<1>1. /\ CInv /\ base = 1 /\ nelms = Len(keys) /\ Len(keys) \in Nat /\ IInv /\ CData
      /\ DOMAIN keys = 1..Len(keys) /\ Positions \subseteq 1..Len(keys)
      /\ LastSlot = Len(keys) /\ todo \in Items
      /\ \A x \in Keys : (Stored(x) <=> map[x] # 0) /\ Slot(x) = map[x]
  BY InOrderParts DEF OInv, CInv
<1>2. ASSUME Quiet PROVE out' = << >> /\ base' = 1 /\ WriteBlank' /\ PlaceOK'
  <2>1. todo'.pc = "idle" /\ out' = << >> /\ base' = 1
    BY <1>1, <1>2 DEF Quiet, Idle
  <2> QED BY <2>1 DEF WriteBlank, PlaceOK
<1>3. CASE Assignments
  BY <1>3, AssignmentsMap
<1>4. CASE UnshiftWrite
  BY <1>4, UnshiftWriteMaps
<1>b. DefaultEnd = Len(keys)
  BY <1>1, DefaultEndOK DEF Careful
<1>5. ASSUME NEW a \in 1..Len(keys), ReverseSlots(a, DefaultEnd), nelms > 0, out' = << >>
      PROVE  Map!Next
  <2>1. DefaultEnd \in 1..Len(keys)
    BY <1>1, <1>b, <1>5
  <2> QED BY <1>1, <1>5, <2>1, ReverseMaps
<1>c. GoesToCount => nelms > 0
  BY <1>1 DEF GoesToCount, Careful, May
<1>6. CASE Unshifts
  <2>1. PICK n \in 1..MaxPairs :
          /\ GoesToCount
          /\ \E pairs \in [1..n -> Unshiftable] :
               UnshiftReverse(pairs)
    BY <1>6 DEF Unshifts
  <2>2. nelms > 0 /\ ReverseSlots(1, DefaultEnd) /\ out' = << >> /\ base' = 1
        /\ todo'.pc # "place"
    BY <1>1, <1>c, <2>1 DEF UnshiftReverse, Idle
  <2>3. 1 \in 1..Len(keys)
    BY <1>1, <2>2
  <2> QED BY <1>5, <2>2, <2>3 DEF WriteBlank, PlaceOK
<1>7. CASE UnshiftRestore
  <2>1. nelms > 0 /\ ReverseSlots(1, DefaultEnd) /\ Quiet
    BY <1>1, <1>7 DEF UnshiftRestore, CInv, CarefulTodo
  <2>2. 1 \in 1..Len(keys)
    BY <1>1, <2>1
  <2> QED BY <1>2, <1>5, <2>1, <2>2
<1>8. CASE InsertPlace
  <2> DEFINE m == Slot(todo.key)
  <2>1. Quiet /\ todo.pc = "place"
    BY <1>8 DEF InsertPlace
  <2>2. todo.key \in Keys /\ todo.slot \in Int /\ m \in Nat
    <3>1. todo.key \in Keys /\ todo.slot \in Int
      BY <1>1, <2>1 DEF Items
    <3>2. map \in [Keys -> Nat]
      BY <1>1, InOrderParts
    <3> QED BY <1>1, <3>1, <3>2
  <2>3. CASE InBounds(m) /\ InBounds(todo.slot)
    <3>1. m \in 1..Len(keys) /\ todo.slot \in 1..Len(keys)
      BY <1>1, <2>2, <2>3 DEF InBounds
    <3>2. MoveSlot(m, todo.slot, keys[m])
      BY <1>8, <2>3 DEF InsertPlace
    <3> HIDE DEF m
    <3>3. Map!Next
      BY <1>1, <1>2, <2>1, <3>1, <3>2, MoveMaps
    <3> QED BY <1>2, <2>1, <3>3
  <2>4. CASE ~(InBounds(m) /\ InBounds(todo.slot))
    BY <1>2, <1>8, <2>1, <2>4, MapGlance DEF InsertPlace
  <2> QED BY <2>3, <2>4
<1>9. CASE Reads
  <2>1. Quiet /\ UNCHANGED <<keys, env>>
    BY <1>9 DEF Reads, Index, EnterIf, Careful, May
  <2> QED BY <1>2, <2>1, MapGlance
<1>10. CASE RawWrites
  <2>1. PICK k \in Keys, v \in AnyValue \ {Rejected} :
          /\ v = Absent => May("raw_nil")
          /\ v = Opaque => May("opaque")
          /\ RawSet(k, v)
    BY <1>10 DEF RawWrites
  <2>2. v \in Values
    BY <2>1 DEF Careful, May, AnyValue
  <2>3. Stored(k) /\ env' = [env EXCEPT ![k] = v] /\ Quiet /\ keys' = keys
    BY <2>1 DEF RawSet
  <2>4. keys' = IF Stored(k) THEN keys ELSE Append(keys, k)
    BY <2>3
  <2> QED BY <1>2, <2>2, <2>3, <2>4, MapPut
<1>11. CASE Rearrangements
  <2>1. CASE \E a, b \in Positions : Reverse(a, b)
    <3>1. PICK a \in Positions, b \in Positions : Reverse(a, b)
      BY <2>1
    <3>2. a \in 1..Len(keys) /\ b \in 1..Len(keys) /\ ReverseSlots(a, b) /\ Quiet
      BY <1>1, <3>1 DEF Reverse
    <3> QED BY <1>1, <1>2, <3>2, ReverseMaps
  <2>2. CASE \E a, b \in Positions : Move(a, b)
    <3>1. PICK a \in Positions, b \in Positions : Move(a, b)
      BY <2>2
    <3>2. a \in 1..Len(keys) /\ b \in 1..Len(keys) /\ MoveSlot(a, b, keys[a]) /\ Quiet
      BY <1>1, <3>1 DEF Move
    <3> QED BY <1>1, <1>2, <3>2, MoveMaps
  <2>3. CASE GoesToCount /\ \E a \in Positions \cup {1} : Reverse(a, DefaultEnd)
    <3>1. PICK a \in Positions \cup {1} : Reverse(a, DefaultEnd)
      BY <2>3
    <3>2. nelms > 0 /\ ReverseSlots(a, DefaultEnd) /\ Quiet
      BY <1>c, <2>3, <3>1 DEF Reverse
    <3>3. a \in 1..Len(keys)
      BY <1>1, <3>2
    <3> QED BY <1>2, <1>5, <3>2, <3>3
  <2> QED BY <1>11, <2>1, <2>2, <2>3 DEF Rearrangements
<1>12. CASE Renderings
  <2>1. PICK s \in Positions \cup {1, LastSlot}, e \in Positions \cup {1, LastSlot} :
          /\ <<s, e>> = <<1, LastSlot>> \/ {s, e} \subseteq Positions
          /\ Tojson(s, e)
    BY <1>12 DEF Renderings
  <2>2. \/ s \in 1..Len(keys) /\ e \in 1..Len(keys)
        \/ s = 1 /\ e = Len(keys)
    BY <1>1, <2>1
  <2>3. Map!Next
    BY <1>1, <2>1, <2>2, RenderMaps
  <2>4. base' = 1 /\ todo'.pc = "idle"
    BY <1>1, <2>1 DEF Tojson, Call, Idle
  <2> QED BY <2>3, <2>4 DEF WriteBlank, PlaceOK
<1>13. ASSUME NEW i, DeleteAt(i)
       PROVE  base' = 1 /\ WriteBlank' /\ PlaceOK' /\ Map!Next
  <2>1. Quiet
    BY <1>13 DEF DeleteAt
  <2>2. CASE i \in DOMAIN keys
    <3>1. keys[i] \in Keys /\ Indexed(keys[i]) /\ CInput(keys[i], Absent)
      BY <1>1, <2>2, ListedIsCareful
    <3>2. PICK ok \in BOOLEAN : Assign(keys[i], Absent, ok)
      BY <1>13, <2>2 DEF DeleteAt
    <3>3. Map!Next
      BY <1>1, <1>2, <2>1, <3>1, <3>2, AssignMaps
    <3> QED BY <1>2, <2>1, <3>3
  <2>3. CASE i \notin DOMAIN keys
    BY <1>2, <1>13, <2>1, <2>3, MapGlance DEF DeleteAt
  <2> QED BY <2>2, <2>3
<1>14. CASE Pop \/ Shift
  BY <1>13, <1>14 DEF Pop, Shift
<1>15. CASE UNCHANGED vars
  BY <1>1, <1>15 DEF vars, OInv, WriteBlank, PlaceOK, Map!omVars
<1> QED
  BY <1>3, <1>4, <1>6, <1>7, <1>8, <1>9, <1>10, <1>11, <1>12, <1>14, <1>15
  DEF Next, Undefined, Careful, May

\* The strengthened invariant of a careful script's object, with the map it is.
LEMMA ObjectInvariance ==
  ASSUME Careful
  PROVE  Spec => []OInv /\ ImplementsOrderedMap
<1>1. Init => OInv /\ Map!Init
  <2>1. Init => CInv
    BY InitCInv
  <2> QED BY <2>1 DEF Init, OInv, WriteBlank, PlaceOK, Idle, Map!Init
<1>2. OInv /\ CInv' /\ [Next]_vars => OInv' /\ [Map!Next]_(Map!omVars)
  BY ObjectStep
<1> QED BY <1>1, <1>2, CarefulInvariance, PTL DEF Spec, ImplementsOrderedMap, Map!Spec

\* For a careful script the object is the map of OrderedMap, which remembers the
\* order of its keys: every step of every method is one of the map's steps or
\* only looks, and what tojson prints is what the map holds, in its order.
THEOREM ObjectIsAMap ==
  ASSUME Careful
  PROVE  Spec => ImplementsOrderedMap
  BY ObjectInvariance, PTL

\* The move that ends an insert, from the place the assignment left the key.
LEMMA PlaceLands ==
  ASSUME Careful, OInv, InsertPlace, todo.key \notin Listed(todo.was)
  PROVE  keys' = [i \in 1..(Len(todo.was) + 1) |->
                    IF i < todo.want THEN todo.was[i]
                    ELSE IF i = todo.want THEN todo.key
                    ELSE todo.was[i - 1]]
<1> DEFINE w == todo.was
           k == todo.key
           t == todo.want
           n == Len(w)
<1>1. /\ CInv /\ nelms = Len(keys) /\ Agrees(keys, map) /\ DOMAIN keys = 1..Len(keys)
      /\ map \in [Keys -> Nat] /\ Slot(k) = map[k] /\ w \in Seq(Keys) /\ k \in Keys
      /\ keys = Append(w, k) /\ todo.slot = t /\ t \in 1..n
  <2>1. CInv /\ todo.pc = "place"
    BY DEF OInv, InsertPlace
  <2>2. todo \in Items
    BY <2>1, InOrderParts
  <2>3. k \in Keys /\ w \in Seq(Keys)
    BY <2>1, <2>2 DEF Items
  <2>4. keys = Append(w, k) /\ todo.slot = t /\ t \in 1..n
    BY <2>1 DEF OInv, PlaceOK
  <2> HIDE DEF w, k, t, n
  <2> QED BY <2>1, <2>3, <2>4, InOrderParts
<1>2. InsertPlace
  OBVIOUS
<1>3. n \in Nat /\ t \in 1..n
  BY <1>1
<1>4. InBounds(Slot(k)) /\ InBounds(todo.slot) =>
        MoveSlot(Slot(k), todo.slot, keys[Slot(k)])
  BY <1>2 DEF InsertPlace
<1> HIDE DEF w, k, t, n
<1>5. /\ Len(keys) = n + 1 /\ keys[n + 1] = k
      /\ \A i \in 1..n : keys[i] = w[i]
  BY <1>1, <1>3 DEF n
<1>6. Slot(k) = n + 1
  BY <1>1, <1>3, <1>5 DEF Agrees
<1>7. MoveSlot(n + 1, t, k)
  <2>1. InBounds(Slot(k)) /\ InBounds(todo.slot)
    BY <1>1, <1>3, <1>5, <1>6 DEF InBounds
  <2> QED BY <1>1, <1>4, <1>5, <1>6, <2>1
<1>8. keys' = Moved(keys, n + 1, t, k)
  BY <1>3, <1>7 DEF MoveSlot
<1>9. keys' = [i \in 1..(n + 1) |-> IF i = t THEN k
                 ELSE IF n + 1 <= i /\ i < t THEN keys[i + 1]
                 ELSE IF t < i /\ i <= n + 1 THEN keys[i - 1]
                 ELSE keys[i]]
  BY <1>5, <1>8 DEF Moved
<1>10. ASSUME NEW i \in 1..(n + 1)
       PROVE  (IF i = t THEN k
               ELSE IF n + 1 <= i /\ i < t THEN keys[i + 1]
               ELSE IF t < i /\ i <= n + 1 THEN keys[i - 1]
               ELSE keys[i])
              = (IF i < t THEN w[i] ELSE IF i = t THEN k ELSE w[i - 1])
  <2>1. CASE i = t
    BY <1>3, <2>1
  <2>2. CASE i < t
    <3>1. i \in 1..n /\ ~(i = t) /\ ~(n + 1 <= i) /\ ~(t < i)
      BY <1>3, <2>2
    <3> QED BY <1>5, <2>2, <3>1
  <2>3. CASE t < i
    <3>1. i - 1 \in 1..n /\ ~(i = t) /\ ~(i < t) /\ i <= n + 1
      BY <1>3, <2>3
    <3> QED BY <1>5, <2>3, <3>1
  <2> QED BY <1>3, <2>1, <2>2, <2>3
<1>11. keys' = [i \in 1..(n + 1) |-> IF i < t THEN w[i] ELSE IF i = t THEN k ELSE w[i - 1]]
  BY <1>9, <1>10
<1> QED BY <1>11 DEF w, k, t, n

\* insert puts a new key at the position it was given, as an index or as the
\* key that is there, and moves the pairs from there on up by one.
THEOREM InsertAlwaysLands ==
  ASSUME Careful
  PROVE  Spec => InsertLandsAtTarget
<1>1. OInv /\ [Next]_vars =>
        [(InsertPlace /\ \A i \in DOMAIN todo.was : todo.was[i] # todo.key)
           => keys' = [i \in 1..(Len(todo.was) + 1) |->
                         IF i < todo.want THEN todo.was[i]
                         ELSE IF i = todo.want THEN todo.key
                         ELSE todo.was[i - 1]]]_vars
  BY PlaceLands DEF Listed
<1> QED BY <1>1, ObjectInvariance, PTL DEF Spec, InsertLandsAtTarget

\* A rendering of a careful script's whole object prints every key that has a
\* value, in the order of their slots.
THEOREM WholeRenderAlwaysComplete ==
  ASSUME Careful
  PROVE  Spec => WholeRenderIsComplete
<1> DEFINE Complete ==
      Tojson(1, LastSlot) =>
        /\ {out'[i][1] : i \in DOMAIN out'} = {k \in Keys : Stored(k)}
        /\ \A i, j \in DOMAIN out' : i < j => map[out'[i][1]] < map[out'[j][1]]
<1>1. CInv => Complete
  <2> SUFFICES ASSUME CInv, Tojson(1, LastSlot)
               PROVE  /\ {out'[i][1] : i \in DOMAIN out'} = {k \in Keys : Stored(k)}
                      /\ \A i, j \in DOMAIN out' : i < j => map[out'[i][1]] < map[out'[j][1]]
    OBVIOUS
  <2> DEFINE n == Len(keys)
  <2>1. /\ keys \in Seq(Keys) /\ n \in Nat /\ Agrees(keys, map) /\ LastSlot = n
        /\ map \in [Keys -> Nat] /\ \A k \in Keys : Stored(k) <=> map[k] # 0
        /\ DOMAIN keys = 1..n
    BY InOrderParts
  <2>2. out' = [p \in 1..(IF 1 <= n THEN n - 1 + 1 ELSE 0) |->
                  <<keys[1 + p - 1], env[keys[1 + p - 1]]>>]
    BY <2>1, RenderMaps
  <2> HIDE DEF n
  <2>3. (IF 1 <= n THEN n - 1 + 1 ELSE 0) = n
    BY <2>1
  <2>4. DOMAIN out' = 1..n /\ \A p \in 1..n : out'[p][1] = keys[p]
    <3>1. DOMAIN out' = 1..n
      BY <2>2, <2>3
    <3>2. ASSUME NEW p \in 1..n PROVE out'[p][1] = keys[p]
      <4>1. out'[p] = <<keys[1 + p - 1], env[keys[1 + p - 1]]>> /\ 1 + p - 1 = p
        BY <2>2, <2>3, <3>1
      <4> QED BY <4>1
    <3> QED BY <3>1, <3>2
  <2>5. \A k \in Keys : Stored(k) <=> \E i \in 1..n : keys[i] = k
    BY <2>1 DEF Agrees
  <2>6. \A i \in 1..n : keys[i] \in Keys /\ map[keys[i]] = i
    BY <2>1 DEF Agrees
  <2>7. {out'[i][1] : i \in DOMAIN out'} = {k \in Keys : Stored(k)}
    BY <2>4, <2>5, <2>6
  <2>8. \A i, j \in DOMAIN out' : i < j => map[out'[i][1]] < map[out'[j][1]]
    BY <2>4, <2>6
  <2> QED BY <2>7, <2>8
<1>2. CInv /\ [Next]_vars => [Complete]_vars
  BY <1>1
<1> QED BY <1>2, CarefulInvariance, PTL DEF Spec, WholeRenderIsComplete


-------------------------------------------------------------------------------
(***************************************************************************)
(* unshift.  While it is under way the list is what there was, turned      *)
(* around, followed by the new ones among the keys written so far, from    *)
(* the last pair on.                                                       *)
(***************************************************************************)
\* The pairs from r + 1 on have been written, and each new key stands behind
\* the new keys of the pairs that follow its own.
Written(pairs, was, r) ==
  /\ Len(keys) >= Len(was)
  /\ \A i \in 1..Len(was) : keys[i] = was[Len(was) + 1 - i]
  /\ \A j \in r + 1..Len(pairs) : env[pairs[j][1]] = pairs[j][2]
  /\ \A k \in Keys : (\E i \in Len(was) + 1..Len(keys) : keys[i] = k)
                       <=> (\E j \in Fresh(pairs, was) : r < j /\ pairs[j][1] = k)
  /\ \A i, j \in Fresh(pairs, was) : r < i /\ i < j => map[pairs[j][1]] < map[pairs[i][1]]

\* i turns have been made; the last of them found i + nargs pairs, or fewer, too
\* few to end the loop.
Progress ==
  todo.pc = "write" =>
    /\ Len(todo.left) <= Len(todo.pairs)
    /\ Len(todo.left) < Len(todo.pairs) => Len(todo.pairs) <= 3 * Len(todo.left) + 3
    /\ todo.i = Len(todo.pairs) - Len(todo.left)
    /\ \A j \in 1..Len(todo.left) : todo.left[j] = todo.pairs[j]
    /\ Distinct(todo.pairs) => Written(todo.pairs, todo.was, Len(todo.left))

\* The reversal of all of a careful script's object, as a whole.
LEMMA WholeTurned ==
  ASSUME Careful, CInv, nelms > 0, ReverseSlots(1, DefaultEnd)
  PROVE  /\ env' = env /\ Len(keys') = Len(keys)
         /\ \A i \in 1..Len(keys) : keys'[i] = keys[Len(keys) + 1 - i]
<1> DEFINE m == Len(keys)
<1>1. /\ keys \in Seq(Keys) /\ nelms = m /\ m \in Nat /\ DOMAIN keys = 1..m /\ IInv /\ CData
  BY InOrderParts DEF CInv
<1>2. ReverseSlots(1, m) /\ ~RaisesReversing(1, m)
  <2>1. DefaultEnd = m /\ ~RaisesReversing(1, DefaultEnd)
    BY <1>1, DefaultEndOK, CarefulReverse DEF Careful
  <2> HIDE DEF m
  <2> QED BY <2>1
<1> HIDE DEF m
<1>3. env' = env
  BY <1>2 DEF ReverseSlots
<1>4. CASE m = 1
  <2>1. keys' = keys
    BY <1>2, <1>4, Zenon DEF ReverseSlots
  <2>2. \A i \in 1..m : m + 1 - i = i
    BY <1>4
  <2> QED BY <1>3, <2>1, <2>2 DEF m
<1>5. CASE m # 1
  <2>1. 1 # m /\ Inner(1, m) = 1 /\ Outer(1, m) = m
    BY <1>1, <1>5 DEF Inner, Outer
  <2>2. keys' = Flipped(keys, 1, m)
    <3>1. 1 # m /\ Inner(1, m) # 0
      BY <2>1
    <3>2. keys' = Flipped(keys, Inner(1, m), Outer(1, m))
      BY <1>2, <3>1, Zenon DEF ReverseSlots
    <3> QED BY <2>1, <3>2
  <2>3. keys' = [i \in 1..m |-> IF 1 <= i /\ i <= m THEN keys[1 + m - i] ELSE keys[i]]
    BY <2>2 DEF Flipped, m
  <2>4. ASSUME NEW i \in 1..m PROVE keys'[i] = keys[m + 1 - i]
    <3>1. 1 <= i /\ i <= m /\ 1 + m - i = m + 1 - i
      BY <1>1
    <3> QED BY <2>3, <3>1
  <2>5. Len(keys') = m
    BY <1>1, <2>3
  <2> QED BY <1>3, <2>4, <2>5 DEF m
<1> QED BY <1>4, <1>5

\* The reversal that begins an unshift: nothing is written yet.
LEMMA BeginsWritten ==
  ASSUME Careful, CInv, CInv', Unshifts
  PROVE  Progress'
<1>1. PICK n \in 1..MaxPairs :
        /\ GoesToCount
        /\ \E pairs \in [1..n -> Unshiftable] :
               UnshiftReverse(pairs)
  BY DEF Unshifts
<1>2. PICK pairs \in [1..n -> Unshiftable] :
        UnshiftReverse(pairs)
  BY <1>1
<1>3. /\ keys \in Seq(Keys) /\ nelms = Len(keys) /\ Len(keys) \in Nat
      /\ DOMAIN pairs = 1..n /\ Len(pairs) = n /\ n \in Nat /\ n <= MaxPairs
  BY InOrderParts, ConstantsAreSound
<1>4. /\ todo'.pc = "write" /\ todo'.left = pairs /\ todo'.i = 0
      /\ todo'.was = keys /\ todo'.pairs = pairs
  <2>1. nelms > 0
    BY <1>1, <1>3 DEF GoesToCount, Careful, May
  <2>2. ~RaisesReversing(1, DefaultEnd)
    BY <1>2, <2>1, CarefulReverse DEF UnshiftReverse, Careful, CInv
  <2> QED BY <1>2, <2>2 DEF UnshiftReverse
<1>6. Len(keys') = Len(keys) /\ \A i \in 1..Len(keys) : keys'[i] = keys[Len(keys) + 1 - i]
  <2>1. nelms > 0 /\ ReverseSlots(1, DefaultEnd)
    BY <1>1, <1>2, <1>3 DEF GoesToCount, Careful, May, UnshiftReverse
  <2> QED BY <2>1, WholeTurned
<1>7. PICK w : w = keys
  OBVIOUS
<1>8. Written(pairs, w, n)'
  <2>1. Fresh(pairs, w) \subseteq 1..n
    BY <1>3 DEF Fresh
  <2>2. /\ \A j \in n + 1..Len(pairs) : FALSE
        /\ \A j \in Fresh(pairs, w) : ~(n < j)
        /\ \A i \in Len(w) + 1..Len(keys') : FALSE
    BY <1>3, <1>6, <1>7, <2>1
  <2> QED BY <1>3, <1>6, <1>7, <2>2 DEF Written
<1>9. \A j \in 1..n : todo'.left[j] = todo'.pairs[j]
  BY <1>4
<1> QED BY <1>3, <1>4, <1>7, <1>8, <1>9 DEF Progress


\* One turn of the loop, in terms of the list: the key of pair n is new and goes
\* to the end, or it was there before.
LEMMA TurnWritten ==
  ASSUME Careful, CInv, CInv', NEW p \in Seq(Pairs), NEW w \in Seq(Keys), NEW n \in 1..Len(p),
         Distinct(p), Written(p, w, n), env' = [env EXCEPT ![p[n][1]] = p[n][2]],
         map[p[n][1]] = 0 =>
           /\ keys' = Append(keys, p[n][1])
           /\ map' = [map EXCEPT ![p[n][1]] = Len(keys) + 1],
         map[p[n][1]] # 0 => keys' = keys /\ map' = map
  PROVE  Written(p, w, n - 1)'
<1> DEFINE k == p[n][1]
           o == Len(w)
           m == Len(keys)
           l == Len(p)
           K == [j \in 1..Len(p) |-> p[j][1]]
           V == [j \in 1..Len(p) |-> p[j][2]]
           F == Fresh(p, w)
<1>1. /\ keys \in Seq(Keys) /\ map \in [Keys -> Nat] /\ Agrees(keys, map)
      /\ DOMAIN keys = 1..m /\ env \in [Keys -> AnyValue] /\ m \in Nat
  BY InOrderParts DEF CInv, CData, DataOK
<1>2. /\ o \in Nat /\ l \in Nat /\ DOMAIN w = 1..o /\ DOMAIN p = 1..l /\ n \in 1..l
      /\ \A j \in 1..l : p[j] \in Pairs
  OBVIOUS
<1>3. /\ \A j \in 1..l : K[j] = p[j][1] /\ K[j] \in Keys /\ V[j] = p[j][2]
      /\ k = K[n]
  BY <1>2 DEF Pairs
<1>4. F = {j \in 1..l : \A i \in 1..o : w[i] # K[j]}
  BY <1>2, <1>3 DEF Fresh
<1>5. /\ m >= o
      /\ \A i \in 1..o : keys[i] = w[o + 1 - i]
      /\ \A j \in n + 1..l : env[K[j]] = V[j]
      /\ \A x \in Keys : (\E i \in o + 1..m : keys[i] = x) <=> (\E j \in F : n < j /\ K[j] = x)
      /\ \A i, j \in F : n < i /\ i < j => map[K[j]] < map[K[i]]
  <2> USE DEF Written
  <2>1. /\ m >= o
        /\ \A i \in 1..o : keys[i] = w[o + 1 - i]
    OBVIOUS
  <2>2. \A j \in n + 1..l : env[K[j]] = V[j]
    <3>1. \A j \in n + 1..l : j \in 1..l /\ env[p[j][1]] = p[j][2]
      BY <1>2
    <3> HIDE DEF K, V
    <3> QED BY <1>3, <3>1
  <2>3. \A x \in Keys : (\E i \in o + 1..m : keys[i] = x) <=> (\E j \in F : n < j /\ p[j][1] = x)
    OBVIOUS
  <2>4. \A i, j \in F : n < i /\ i < j => map[p[j][1]] < map[p[i][1]]
    OBVIOUS
  <2>5. \A j \in F : K[j] = p[j][1]
    <3> HIDE DEF K, F
    <3> QED BY <1>3, <1>4
  <2> HIDE DEF Written, K, V, F, o, m, l
  <2>6. \A x \in Keys : (\E i \in o + 1..m : keys[i] = x) <=> (\E j \in F : n < j /\ K[j] = x)
    BY <2>3, <2>5
  <2>7. \A i, j \in F : n < i /\ i < j => map[K[j]] < map[K[i]]
    BY <2>4, <2>5
  <2> QED BY <2>1, <2>2, <2>6, <2>7
<1>6. \A i, j \in 1..l : i # j => K[i] # K[j]
  BY <1>2, <1>3 DEF Distinct
<1>7. /\ \A i \in 1..m : map[keys[i]] = i
      /\ \A x \in Keys : map[x] # 0 => map[x] \in 1..m /\ keys[map[x]] = x
  BY <1>1 DEF Agrees
<1>8. /\ env' = [env EXCEPT ![k] = V[n]]
      /\ map[k] = 0 => keys' = Append(keys, k) /\ map' = [map EXCEPT ![k] = m + 1]
      /\ map[k] # 0 => keys' = keys /\ map' = map
  BY <1>2
<1> SUFFICES /\ Len(keys') >= o
             /\ \A i \in 1..o : keys'[i] = w[o + 1 - i]
             /\ \A j \in n..l : env'[K[j]] = V[j]
             /\ \A x \in Keys : (\E i \in o + 1..Len(keys') : keys'[i] = x)
                                  <=> (\E j \in F : n - 1 < j /\ K[j] = x)
             /\ \A i, j \in F : n - 1 < i /\ i < j => map'[K[j]] < map'[K[i]]
  <2>1. /\ \A j \in n..l : K[j] = p[j][1] /\ V[j] = p[j][2]
        /\ \A j \in F : K[j] = p[j][1]
        /\ n - 1 + 1 = n
    <3> HIDE DEF K, V, F
    <3> QED BY <1>2, <1>3, <1>4
  <2> HIDE DEF K, V, F
  <2>2. \A j \in n - 1 + 1..l : env'[p[j][1]] = p[j][2]
    BY <2>1
  <2>3. \A x \in Keys : (\E i \in o + 1..Len(keys') : keys'[i] = x)
                         <=> (\E j \in F : n - 1 < j /\ p[j][1] = x)
    <3>1. \A x \in Keys : (\E j \in F : n - 1 < j /\ K[j] = x)
                           <=> (\E j \in F : n - 1 < j /\ p[j][1] = x)
      BY <2>1, ZenonT(60)
    <3> QED BY <3>1
  <2>4. \A i, j \in F : n - 1 < i /\ i < j => map'[p[j][1]] < map'[p[i][1]]
    BY <2>1
  <2> QED BY <2>2, <2>3, <2>4 DEF Written, F
<1> HIDE DEF k, o, m, l, K, V, F
<1>9. \A j \in n..l : env'[K[j]] = V[j]
  <2>1. ASSUME NEW j \in n..l PROVE env'[K[j]] = V[j]
    <3>1. j \in 1..l /\ n \in 1..l /\ (j = n \/ j \in n + 1..l)
      BY <1>2
    <3>2. CASE j = n
      BY <1>1, <1>3, <1>8, <3>1, <3>2
    <3>3. CASE j # n
      <4>1. K[j] # k /\ K[j] \in Keys /\ env[K[j]] = V[j]
        BY <1>3, <1>5, <1>6, <3>1, <3>3
      <4> QED BY <1>1, <1>8, <4>1
    <3> QED BY <3>2, <3>3
  <2> QED BY <2>1
<1>10. \A j \in F : n - 1 < j <=> (j = n \/ n < j)
  BY <1>2, <1>4
<1>11. \A j \in F : j \in 1..l /\ j \in Int /\ K[j] \in Keys
  BY <1>2, <1>3, <1>4
<1>12. CASE map[k] = 0
  <2>1. /\ keys' \in Seq(Keys) /\ Len(keys') = m + 1 /\ keys'[m + 1] = k
        /\ \A i \in 1..m : keys'[i] = keys[i]
    <3>1. keys' = Append(keys, k) /\ k \in Keys /\ m = Len(keys)
      BY <1>2, <1>3, <1>8, <1>12 DEF m
    <3>2. keys \in Seq(Keys)
      BY <1>1
    <3> QED BY <3>1, <3>2
  <2>2. n \in F
    <3>1. ASSUME NEW i \in 1..o PROVE w[i] # k
      <4>1. o + 1 - i \in 1..o /\ o + 1 - (o + 1 - i) = i
        BY <1>2
      <4>2. keys[o + 1 - i] = w[i] /\ o + 1 - i \in 1..m
        <5>1. keys[o + 1 - i] = w[o + 1 - (o + 1 - i)]
          BY <1>5, <4>1
        <5>2. o + 1 - i \in 1..m
          BY <1>1, <1>2, <1>5, <4>1
        <5> QED BY <4>1, <5>1, <5>2
      <4>3. map[w[i]] = o + 1 - i /\ o + 1 - i # 0
        BY <1>7, <4>1, <4>2
      <4> QED BY <1>12, <4>3
    <3> QED BY <1>2, <1>3, <1>4, <3>1
  <2>3. \A i \in 1..o : keys'[i] = w[o + 1 - i]
    BY <1>1, <1>2, <1>5, <2>1
  <2>4. ASSUME NEW x \in Keys
        PROVE  (\E i \in o + 1..Len(keys') : keys'[i] = x) <=> (\E j \in F : n - 1 < j /\ K[j] = x)
    <3>1. (\E i \in o + 1..m + 1 : keys'[i] = x) <=> ((\E i \in o + 1..m : keys[i] = x) \/ x = k)
      <4>1. m + 1 \in o + 1..m + 1
        BY <1>1, <1>2, <1>5
      <4>2. \A i \in o + 1..m + 1 : i = m + 1 \/ (i \in o + 1..m /\ i \in 1..m)
        BY <1>1, <1>2, <1>5
      <4>3. \A i \in o + 1..m : i \in o + 1..m + 1 /\ i \in 1..m
        BY <1>1, <1>2
      <4> QED BY <2>1, <4>1, <4>2, <4>3
    <3>2. (\E j \in F : n - 1 < j /\ K[j] = x) <=> ((\E j \in F : n < j /\ K[j] = x) \/ x = k)
      BY <1>3, <1>10, <2>2
    <3> QED BY <1>5, <2>1, <3>1, <3>2
  <2>5. \A x \in Keys : x # k => map'[x] = map[x]
    BY <1>1, <1>8, <1>12
  <2>6. map'[k] = m + 1
    BY <1>1, <1>2, <1>3, <1>8, <1>12
  <2>7. ASSUME NEW i \in F, NEW j \in F, n - 1 < i, i < j
        PROVE  map'[K[j]] < map'[K[i]]
    <3>1. n < j /\ K[j] # k /\ j \in 1..l /\ n \in 1..l /\ map'[K[j]] = map[K[j]]
      <4>1. n < j /\ j # n /\ j \in 1..l /\ n \in 1..l
        BY <1>2, <1>10, <1>11, <2>7
      <4>2. K[j] # k /\ K[j] \in Keys
        BY <1>3, <1>6, <1>11, <4>1
      <4> QED BY <2>5, <4>1, <4>2
    <3>2. CASE i = n
      <4>1. PICK q \in o + 1..m : keys[q] = K[j]
        BY <1>5, <1>11, <3>1
      <4>2. q \in 1..m /\ q < m + 1
        BY <1>1, <1>2, <4>1
      <4>3. map[K[j]] = q
        BY <1>7, <4>1, <4>2
      <4> QED BY <1>3, <2>6, <3>1, <3>2, <4>2, <4>3
    <3>3. CASE i # n
      <4>1. n < i
        BY <1>10, <2>7, <3>3
      <4>2. K[i] # k /\ K[i] \in Keys
        BY <1>3, <1>6, <1>11, <3>1, <3>3
      <4> QED BY <1>5, <2>5, <2>7, <3>1, <4>1, <4>2
    <3> QED BY <3>2, <3>3
  <2>8. Len(keys') >= o
    BY <1>1, <1>2, <1>5, <2>1
  <2> QED BY <1>9, <2>3, <2>4, <2>7, <2>8
<1>13. CASE map[k] # 0
  <2>1. keys' = keys /\ map' = map /\ Len(keys') = m
    BY <1>8, <1>13 DEF m
  <2>2. n \notin F
    <3> SUFFICES ASSUME n \in F PROVE FALSE
      OBVIOUS
    <3>1. map[k] \in 1..m /\ keys[map[k]] = k /\ k \in Keys
      BY <1>2, <1>3, <1>7, <1>13
    <3>2. CASE map[k] <= o
      <4> DEFINE i == o + 1 - map[k]
      <4>1. map[k] \in 1..o /\ i \in 1..o
        BY <1>1, <1>2, <3>1, <3>2, SMTT(30)
      <4>2. keys[map[k]] = w[i]
        BY <1>5, <4>1
      <4> HIDE DEF i
      <4> QED BY <1>3, <1>4, <3>1, <4>1, <4>2
    <3>3. CASE ~(map[k] <= o)
      <4>1. map[k] \in o + 1..m
        BY <1>1, <1>2, <3>1, <3>3
      <4>2. PICK j \in F : n < j /\ K[j] = k
        BY <1>5, <3>1, <4>1
      <4>3. j \in 1..l /\ n \in 1..l /\ j # n
        BY <1>2, <1>11, <4>2
      <4> QED BY <1>3, <1>6, <4>2, <4>3
    <3> QED BY <3>2, <3>3
  <2>3. \A j \in F : n - 1 < j <=> n < j
    BY <1>10, <2>2
  <2> QED BY <1>5, <1>9, <2>1, <2>3
<1> QED BY <1>12, <1>13


\* One turn of the loop keeps the progress.
LEMMA TurnProgress ==
  ASSUME Careful, CInv, CInv', Progress, UnshiftWrite
  PROVE  Progress'
<1> DEFINE n == Len(todo.left)
<1>1. /\ todo.pc = "write" /\ todo \in Items /\ Len(keys) \in Nat /\ IInv
      /\ \A i \in 1..Len(todo.left) : /\ todo.left[i][1] # EnvKey
                                      /\ todo.left[i][2] \in Values
  BY IInvParts DEF UnshiftWrite, CInv, CarefulTodo
<1>2. /\ todo \in [pc : {"write"}, left : Seq(Pairs), i : Nat, nargs : Int,
                   was : Seq(Keys), pairs : Seq(Pairs)]
      /\ todo.left \in Seq(Pairs) /\ todo.i \in Nat
      /\ todo.was \in Seq(Keys) /\ todo.pairs \in Seq(Pairs)
  BY <1>1 DEF Items
<1>3. n \in Nat \ {0}
  <2>1. todo.i <= 2 * n /\ (n = 0 => todo.i > 0)
    BY <1>1 DEF UnshiftWrite, IInv, LoopEnds
  <2> QED BY <1>2, <2>1
<1>4. /\ n <= Len(todo.pairs)
      /\ todo.i = Len(todo.pairs) - n
      /\ \A j \in 1..n : todo.left[j] = todo.pairs[j]
      /\ Distinct(todo.pairs) => Written(todo.pairs, todo.was, n)
  BY <1>1 DEF Progress
<1>5. PICK ok \in BOOLEAN :
        /\ Assign(todo.left[n][1], todo.left[n][2], ok)
        /\ todo' = IF ok THEN [todo EXCEPT !.left = SubSeq(@, 1, n - 1),
                                          !.i = @ + 1, !.nargs = @ - 2]
                   ELSE Idle
  BY DEF UnshiftWrite
<1>6. PICK p, w, r : p = todo.pairs /\ w = todo.was /\ r = n
  OBVIOUS
<1> DEFINE rest == SubSeq(todo.left, 1, n - 1)
<1>7. /\ rest \in Seq(Pairs) /\ Len(rest) = n - 1
      /\ \A j \in 1..(n - 1) : rest[j] = todo.left[j]
  <2>1. \A j \in 1..(n - 1) : todo.left[j] \in Pairs
    BY <1>2, <1>3
  <2> HIDE DEF n
  <2>2. n - 1 \in Int /\ (1 <= n - 1 \/ n - 1 = 0)
    BY <1>3
  <2> QED BY <2>1, <2>2, SubSeqProperties
<1> HIDE DEF n, rest
<1>8. /\ p \in Seq(Pairs) /\ w \in Seq(Keys) /\ r \in 1..Len(p) /\ r \in Nat
      /\ todo.left[r] = p[r]
  BY <1>2, <1>3, <1>4, <1>6
<1>9. p[r][1] \in Keys /\ p[r][1] # EnvKey /\ p[r][2] \in Values
  <2>1. p[r] \in Pairs
    BY <1>8
  <2>2. p[r][1] \in Keys
    BY <2>1 DEF Pairs
  <2>3. r \in 1..Len(todo.left)
    BY <1>3, <1>6 DEF n
  <2> QED BY <1>1, <1>8, <2>2, <2>3
<1>10. /\ ok = TRUE /\ env' = [env EXCEPT ![p[r][1]] = p[r][2]]
       /\ map[p[r][1]] = 0 =>
            keys' = Append(keys, p[r][1]) /\ map' = [map EXCEPT ![p[r][1]] = Len(keys) + 1]
       /\ map[p[r][1]] # 0 => keys' = keys /\ map' = map
  <2>1. Len(keys) < MaxKeys
    BY <1>1, <1>3, ConstantsAreSound DEF IInv, KeysFit, n
  <2>2. CData /\ CInput(p[r][1], p[r][2]) /\ Len(keys) <= MaxKeys
    BY <1>1, <1>9, <2>1, ConstantsAreSound DEF CInv, CInput
  <2>3. Assign(p[r][1], p[r][2], ok)
    BY <1>5, <1>6, <1>8
  <2> QED BY <1>9, <2>1, <2>2, <2>3, CarefulEffect
<1>11. /\ todo'.pc = "write" /\ todo'.left = rest /\ todo'.i = todo.i + 1
       /\ todo'.was = w /\ todo'.pairs = p
  <2>1. todo' = [todo EXCEPT !.left = rest, !.i = @ + 1, !.nargs = @ - 2]
    BY <1>5, <1>10 DEF rest
  <2> QED BY <1>1, <1>2, <1>6, <2>1
<1>12. Distinct(p) => Written(p, w, r - 1)'
  BY <1>4, <1>6, <1>8, <1>10, TurnWritten
<1>13. /\ Len(todo'.left) = r - 1 /\ r - 1 <= Len(p) /\ Len(p) <= 3 * (r - 1) + 3
       /\ todo'.i = Len(p) - (r - 1)
       /\ \A j \in 1..(r - 1) : todo'.left[j] = p[j]
  <2>1. Len(p) \in Nat
    BY <1>8
  <2>2. Len(todo'.left) = r - 1 /\ r - 1 <= Len(p)
    BY <1>4, <1>6, <1>7, <1>8, <1>11, <2>1
  <2>5. Len(p) <= 3 * (r - 1) + 3
    <3>1. todo.i <= 2 * r /\ todo.i = Len(p) - r
      BY <1>1, <1>4, <1>6 DEF UnshiftWrite, IInv, LoopEnds, n
    <3> QED BY <1>8, <2>1, <3>1
  <2>3. todo'.i = Len(p) - (r - 1)
    BY <1>4, <1>6, <1>8, <1>11, <2>1
  <2>4. ASSUME NEW j \in 1..(r - 1) PROVE todo'.left[j] = p[j]
    <3>1. j \in 1..(n - 1) /\ j \in 1..n
      BY <1>6, <1>8
    <3> QED BY <1>4, <1>6, <1>7, <1>11, <3>1
  <2> QED BY <2>2, <2>3, <2>4, <2>5
<1> QED BY <1>11, <1>12, <1>13 DEF Progress

\* What is written of the pairs is all of those the loop comes to.
LEMMA WrittenIsReached ==
  ASSUME NEW p \in Seq(Pairs), NEW w \in Seq(Keys), NEW r \in Nat, r <= Len(p),
         NEW q, q = [j \in 1..(Len(p) - r) |-> p[r + j]], Written(p, w, r)
  PROVE  q \in Seq(Pairs) /\ Written(q, w, 0)
<1> DEFINE l == Len(p)
           F == Fresh(p, w)
           G == Fresh(q, w)
<1>1. l \in Nat /\ DOMAIN p = 1..l /\ \A j \in 1..l : p[j] \in Pairs
  OBVIOUS
<1>2. \A j \in 1..(l - r) : r + j \in 1..l /\ r < r + j /\ 0 < j
  BY <1>1
<1>3. q \in Seq(Pairs) /\ Len(q) = l - r /\ DOMAIN q = 1..(l - r)
      /\ \A j \in 1..(l - r) : q[j] = p[r + j]
  BY <1>1, <1>2
<1>4. \A j \in 1..l : r < j => j - r \in 1..(l - r) /\ r + (j - r) = j
  BY <1>1
<1> HIDE DEF l
<1>5. \A j \in 1..(l - r) : j \in G <=> r + j \in F
  BY <1>1, <1>2, <1>3 DEF Fresh
<1>6. G \subseteq 1..(l - r) /\ F \subseteq 1..l
  BY <1>1, <1>3 DEF Fresh
<1> HIDE DEF F, G
<1>7. \A j \in 0 + 1..Len(q) : env[q[j][1]] = q[j][2]
  <2>1. ASSUME NEW j \in 1..(l - r) PROVE env[p[r + j][1]] = p[r + j][2]
    <3>1. r + j \in r + 1..l
      BY <1>1
    <3> QED BY <3>1 DEF Written, l
  <2>2. 0 + 1 = 1
    OBVIOUS
  <2> QED BY <1>3, <2>1, <2>2
<1>8. \A x \in Keys : (\E j \in F : r < j /\ p[j][1] = x) <=> (\E j \in G : 0 < j /\ q[j][1] = x)
  <2>1. ASSUME NEW j \in F, r < j PROVE j - r \in G /\ 0 < j - r /\ q[j - r][1] = p[j][1]
    <3>1. j - r \in 1..(l - r) /\ r + (j - r) = j
      BY <1>4, <1>6, <2>1
    <3> QED BY <1>2, <1>3, <1>5, <3>1
  <2>2. ASSUME NEW j \in G PROVE r + j \in F /\ r < r + j /\ p[r + j][1] = q[j][1]
    BY <1>2, <1>3, <1>5, <1>6
  <2>3. ASSUME NEW x \in Keys, NEW j \in F, r < j, p[j][1] = x
        PROVE  \E i \in G : 0 < i /\ q[i][1] = x
    BY <2>1, <2>3
  <2>4. ASSUME NEW x \in Keys, NEW j \in G, q[j][1] = x
        PROVE  \E i \in F : r < i /\ p[i][1] = x
    BY <2>2, <2>4
  <2> QED BY <2>3, <2>4
<1>9. \A i, j \in G : 0 < i /\ i < j => map[q[j][1]] < map[q[i][1]]
  <2>1. ASSUME NEW i \in G, NEW j \in G, i < j PROVE map[q[j][1]] < map[q[i][1]]
    <3>1. /\ r + i \in F /\ r + j \in F /\ r < r + i
          /\ q[i] = p[r + i] /\ q[j] = p[r + j]
      BY <1>2, <1>3, <1>5, <1>6
    <3>2. r + i < r + j
      BY <1>6, <2>1
    <3>3. map[p[r + j][1]] < map[p[r + i][1]]
      BY <3>1, <3>2 DEF Written, F
    <3> QED BY <3>1, <3>3
  <2> QED BY <2>1
<1> QED BY <1>3, <1>7, <1>8, <1>9 DEF Written, F, G

\* When the loop ends.
LEMMA LoopHasReached ==
  ASSUME CInv, Progress, UnshiftRestore, Distinct(todo.pairs)
  PROVE  /\ todo.was \in Seq(Keys) /\ ComesTo(todo.pairs) \in Seq(Pairs)
         /\ Written(ComesTo(todo.pairs), todo.was, 0)
<1> DEFINE l == Len(todo.pairs)
           r == Len(todo.left)
           skipped == l - (2 * l) \div 3 - 1
<1>1. todo.pc = "write" /\ todo \in Items /\ IInv
  BY IInvParts DEF UnshiftRestore, CInv
<1>2. todo.left \in Seq(Pairs) /\ todo.was \in Seq(Keys) /\ todo.pairs \in Seq(Pairs)
  BY <1>1 DEF Items
<1>3. /\ r <= l /\ todo.i = l - r /\ (r < l => l <= 3 * r + 3)
      /\ Written(todo.pairs, todo.was, r)
  BY <1>1 DEF Progress
<1>4. todo.i > 2 * r /\ r \in Nat /\ l \in Nat
  BY <1>1, <1>2 DEF UnshiftRestore, IInv, LoopEnds
<1>5. l - r = l - skipped /\ r = skipped
  <2> HIDE DEF l, r
  <2>1. l > 3 * r /\ l <= 3 * r + 3
    BY <1>3, <1>4
  <2>2. (2 * l) \div 3 = l - r - 1
    BY <1>4, <2>1
  <2> QED BY <1>4, <2>2
<1>6. ComesTo(todo.pairs) = [j \in 1..(l - skipped) |-> todo.pairs[skipped + j]]
  BY DEF ComesTo
<1> HIDE DEF skipped
<1>7. ComesTo(todo.pairs) = [j \in 1..(l - r) |-> todo.pairs[r + j]]
  BY <1>5, <1>6
<1> QED BY <1>2, <1>3, <1>4, <1>7, WrittenIsReached

\* The second reversal, of pairs that are all written.
LEMMA RestorePrepends ==
  ASSUME Careful, CInv, CInv', UnshiftRestore, NEW p \in Seq(Pairs), NEW w \in Seq(Keys),
         Written(p, w, 0)
  PROVE  InFront(p, w)
<1> DEFINE o == Len(w)
           m == Len(keys)
           l == Len(p)
           F == Fresh(p, w)
<1>1. /\ keys \in Seq(Keys) /\ map \in [Keys -> Nat] /\ Agrees(keys, map) /\ nelms = m
      /\ m \in Nat /\ todo \in Items /\ todo.pc = "write" /\ nelms > 0 /\ IInv
      /\ keys' \in Seq(Keys) /\ map' \in [Keys -> Nat] /\ Agrees(keys', map')
      /\ DOMAIN keys = 1..m /\ DOMAIN keys' = 1..Len(keys')
  BY InOrderParts DEF UnshiftRestore, CInv, CarefulTodo, CData, DataOK, ListMatches
<1>2. w \in Seq(Keys) /\ p \in Seq(Pairs)
  OBVIOUS
<1>4. Written(p, w, 0)
  OBVIOUS
<1>5. /\ o \in Nat /\ l \in Nat /\ DOMAIN w = 1..o /\ DOMAIN p = 1..l
      /\ F \subseteq 1..l /\ \A j \in F : 0 < j /\ p[j][1] \in Keys
  <2>1. o \in Nat /\ l \in Nat /\ DOMAIN w = 1..o /\ DOMAIN p = 1..l
    BY <1>2
  <2>2. F \subseteq 1..l
    BY <2>1 DEF Fresh
  <2>3. \A j \in 1..l : 0 < j /\ p[j][1] \in Keys
    <3>1. \A j \in 1..l : p[j] \in Pairs
      BY <1>2
    <3> QED BY <2>1, <3>1 DEF Pairs
  <2> HIDE DEF F
  <2> QED BY <2>1, <2>2, <2>3
<1>6. /\ m >= o
      /\ \A i \in 1..o : keys[i] = w[o + 1 - i]
      /\ \A j \in 1..l : env[p[j][1]] = p[j][2]
      /\ \A x \in Keys : (\E i \in o + 1..m : keys[i] = x) <=> (\E j \in F : 0 < j /\ p[j][1] = x)
      /\ \A i, j \in F : 0 < i /\ i < j => map[p[j][1]] < map[p[i][1]]
  <2>1. 0 + 1 = 1
    OBVIOUS
  <2> QED BY <1>4, <2>1 DEF Written
<1>7. /\ \A i \in 1..m : map[keys[i]] = i
      /\ \A x \in Keys : map[x] # 0 => map[x] \in 1..m /\ keys[map[x]] = x
  BY <1>1 DEF Agrees
<1> HIDE DEF o, l, F
<1>9. env' = env /\ Len(keys') = m /\ \A i \in 1..m : keys'[i] = keys[m + 1 - i]
  BY <1>1, WholeTurned DEF UnshiftRestore
<1> HIDE DEF m
<1>10. \A i \in 1..m : map'[keys'[i]] = i
  BY <1>1, <1>9 DEF Agrees
<1> DEFINE new == m - o
<1>11. new \in Nat
  BY <1>1, <1>5, <1>6
<1>12. ASSUME NEW i \in 1..o PROVE keys'[new + i] = w[i]
  <2>1. new + i \in 1..m /\ m + 1 - (new + i) = o + 1 - i /\ o + 1 - i \in 1..o
        /\ o + 1 - (o + 1 - i) = i
    BY <1>1, <1>5, <1>6
  <2>2. keys'[new + i] = keys[o + 1 - i] /\ keys[o + 1 - i] = w[o + 1 - (o + 1 - i)]
    BY <1>6, <1>9, <2>1
  <2> QED BY <2>1, <2>2
<1>13. {keys'[i] : i \in 1..new} = {p[j][1] : j \in F}
  <2>1. ASSUME NEW i \in 1..new PROVE \E j \in F : keys'[i] = p[j][1]
    <3>1. i \in 1..m /\ m + 1 - i \in o + 1..m /\ m + 1 - i \in 1..m
      BY <1>1, <1>5, <1>6
    <3>2. keys'[i] = keys[m + 1 - i] /\ keys[m + 1 - i] \in Keys
      BY <1>1, <1>9, <3>1
    <3> HIDE DEF new
    <3> QED BY <1>6, <3>1, <3>2
  <2>2. ASSUME NEW j \in F PROVE \E i \in 1..new : keys'[i] = p[j][1]
    <3>1. PICK q \in o + 1..m : keys[q] = p[j][1]
      BY <1>5, <1>6
    <3>2. m + 1 - q \in 1..new /\ m + 1 - q \in 1..m /\ m + 1 - (m + 1 - q) = q
      BY <1>1, <1>5, <1>6
    <3>3. keys'[m + 1 - q] = keys[q]
      BY <1>9, <3>2
    <3> HIDE DEF new
    <3> QED BY <3>1, <3>2, <3>3
  <2> HIDE DEF new
  <2>3. {keys'[i] : i \in 1..new} \subseteq {p[j][1] : j \in F}
    BY <2>1
  <2>4. {p[j][1] : j \in F} \subseteq {keys'[i] : i \in 1..new}
    BY <2>2
  <2> QED BY <2>3, <2>4
<1>14. ASSUME NEW x \in Keys, map[x] # 0 PROVE map[x] \in 1..m /\ map'[x] = m + 1 - map[x]
  <2>1. map[x] \in 1..m /\ keys[map[x]] = x
    BY <1>7, <1>14
  <2>2. m + 1 - map[x] \in 1..m /\ m + 1 - (m + 1 - map[x]) = map[x]
    BY <1>1, <2>1
  <2>3. keys'[m + 1 - map[x]] = x
    BY <1>9, <2>1, <2>2
  <2> QED BY <1>10, <2>1, <2>2, <2>3
<1>15. ASSUME NEW i \in F, NEW j \in F, i < j PROVE map'[p[i][1]] < map'[p[j][1]]
  <2>1. ASSUME NEW h \in F PROVE map[p[h][1]] # 0
    <3>1. PICK q \in o + 1..m : keys[q] = p[h][1]
      BY <1>5, <1>6
    <3>2. q \in 1..m /\ q # 0
      BY <1>1, <1>5
    <3> QED BY <1>7, <3>1, <3>2
  <2>2. map[p[j][1]] < map[p[i][1]]
    BY <1>5, <1>6, <1>15
  <2>3. /\ map[p[i][1]] \in 1..m /\ map'[p[i][1]] = m + 1 - map[p[i][1]]
        /\ map[p[j][1]] \in 1..m /\ map'[p[j][1]] = m + 1 - map[p[j][1]]
    BY <1>5, <1>14, <2>1
  <2> DEFINE a == map[p[i][1]]
             b == map[p[j][1]]
  <2>4. a \in 1..m /\ b \in 1..m /\ b < a /\ map'[p[i][1]] = m + 1 - a /\ map'[p[j][1]] = m + 1 - b
    BY <2>2, <2>3
  <2> HIDE DEF a, b
  <2> QED BY <1>1, <2>4
<1>16. \A j \in 1..l : env'[p[j][1]] = p[j][2]
  BY <1>6, <1>9
<1> QED BY <1>5, <1>9, <1>11, <1>12, <1>13, <1>15, <1>16 DEF InFront, o, l, F

\* unshift puts the pairs its loop comes to in front of the others, in the order
\* given, and gives every key its value: for any number of pairs, the last
\* 2n/3 + 1 of n.
THEOREM UnshiftAlwaysPrepends ==
  ASSUME Careful
  PROVE  Spec => UnshiftPrependsReached
<1>1. Init => Progress
  BY DEF Init, Idle, Progress
<1>2. Progress /\ CInv /\ CInv' /\ [Next]_vars => Progress'
  <2> SUFFICES ASSUME Progress, CInv, CInv', [Next]_vars PROVE Progress'
    OBVIOUS
  <2>1. CASE Unshifts
    BY <2>1, BeginsWritten
  <2>2. CASE UnshiftWrite
    BY <2>2, TurnProgress
  <2>3. CASE UNCHANGED vars
    BY <2>3 DEF vars, Progress, Written
  <2>4. CASE Next /\ ~Unshifts /\ ~UnshiftWrite /\ ~UNCHANGED vars
    <3>1. IInv /\ CData
      BY DEF CInv
    <3>2. todo'.pc # "write"
      <4>1. CASE Assignments
        BY <3>1, <4>1, CarefulAssignments
      <4>2. CASE Reads \/ Renderings
        BY <3>1, <4>2, CarefulLooks
      <4>3. CASE todo' = Idle
        BY <4>3 DEF Idle
      <4>4. CASE UnshiftRestore \/ InsertPlace \/ RawWrites \/ Rearrangements \/ Pop \/ Shift
        BY <4>3, <4>4
        DEF UnshiftRestore, InsertPlace, RawWrites, RawSet, Rearrangements, Reverse, Move,
            Pop, Shift, DeleteAt, Quiet
      <4> QED BY <2>4, <4>1, <4>2, <4>4 DEF Next, Undefined, Careful, May
    <3> QED BY <3>2 DEF Progress
  <2> QED BY <2>1, <2>2, <2>3, <2>4
<1>3. Progress /\ CInv /\ CInv' /\ [Next]_vars =>
        [(UnshiftRestore /\ Distinct(todo.pairs))
           => InFront(ComesTo(todo.pairs), todo.was)]_vars
  BY LoopHasReached, RestorePrepends
<1> QED BY <1>1, <1>2, <1>3, CarefulInvariance, PTL DEF Spec, UnshiftPrependsReached

===============================================================================
