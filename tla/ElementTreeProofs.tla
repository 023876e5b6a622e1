-------------------------- MODULE ElementTreeProofs ---------------------------
(***************************************************************************)
(* Who listens to whom among any number of elements: nobody is subscribed  *)
(* twice or to what it does not hold, whatever the script does.            *)
(* What nests stays free of cycles, marks arrive, and lengths are those of *)
(* the text, each for a script with the habits the property is about.      *)
(***************************************************************************)
EXTENDS ElementTreeProps, DataLemmas, SequenceTheorems

\* e is not in the list s, or once.
NotIn(s, e) == \A i \in DOMAIN s : s[i] # e

OnceIn(s, e) ==
  \E i \in DOMAIN s : s[i] = e /\ \A j \in DOMAIN s : s[j] = e => j = i

\* The observer lists ob are what the sets id say, ...
Match(ob, id) ==
  \A e, c \in Elms : IF c \in id[e] \ {e} THEN OnceIn(ob[c], e) ELSE NotIn(ob[c], e)

\* ... which is SubscribedOnce without counting.
ListedOnce == Match(obs, ids)

TopInv == ShapesOK /\ ListedOnce /\ ObserversContain

-------------------------------------------------------------------------------
\* A new observer is put in front of the others.
LEMMA Prepended ==
  ASSUME NEW s \in Seq(Elms), NEW e \in Elms
  PROVE  /\ <<e>> \o s \in Seq(Elms)
         /\ NotIn(s, e) => OnceIn(<<e>> \o s, e)
         /\ \A x \in Elms \ {e} : /\ NotIn(s, x) => NotIn(<<e>> \o s, x)
                                  /\ OnceIn(s, x) => OnceIn(<<e>> \o s, x)
<1> DEFINE t == <<e>> \o s
<1>1. /\ t \in Seq(Elms) /\ Len(t) = Len(s) + 1 /\ Len(s) \in Nat
      /\ t[1] = e /\ \A i \in 1..Len(s) : t[i + 1] = s[i]
      /\ \A i \in 2..Len(t) : i - 1 \in 1..Len(s) /\ t[i] = s[i - 1]
  OBVIOUS
<1>2. DOMAIN t = 1..Len(t) /\ DOMAIN s = 1..Len(s)
  BY <1>1
<1> HIDE DEF t
<1>3. NotIn(s, e) => OnceIn(t, e)
  <2> SUFFICES ASSUME NotIn(s, e) PROVE OnceIn(t, e)
    OBVIOUS
  <2>1. 1 \in DOMAIN t /\ t[1] = e
    BY <1>1, <1>2
  <2>2. ASSUME NEW j \in DOMAIN t, t[j] = e PROVE j = 1
    BY <1>1, <1>2, <2>2 DEF NotIn
  <2> QED BY <2>1, <2>2 DEF OnceIn
<1>4. ASSUME NEW x \in Elms \ {e}, NotIn(s, x) PROVE NotIn(t, x)
  BY <1>1, <1>2, <1>4 DEF NotIn
<1>5. ASSUME NEW x \in Elms \ {e}, OnceIn(s, x) PROVE OnceIn(t, x)
  <2>1. PICK i \in DOMAIN s : s[i] = x /\ \A j \in DOMAIN s : s[j] = x => j = i
    BY <1>5 DEF OnceIn
  <2>2. i + 1 \in DOMAIN t /\ t[i + 1] = x
    BY <1>1, <1>2, <2>1
  <2>3. ASSUME NEW j \in DOMAIN t, t[j] = x PROVE j = i + 1
    <3>1. j \in 2..Len(t)
      BY <1>1, <1>2, <2>3
    <3>2. j - 1 \in DOMAIN s /\ s[j - 1] = x
      BY <1>1, <1>2, <2>3, <3>1
    <3>3. j - 1 = i
      BY <2>1, <3>2
    <3> QED BY <3>1, <3>3
  <2> QED BY <2>2, <2>3 DEF OnceIn
<1> QED BY <1>1, <1>3, <1>4, <1>5 DEF t

\* An observer that is in the list once is taken out.
LEMMA Unlisted ==
  ASSUME NEW s \in Seq(Elms), NEW e \in Elms, NotIn(s, e) \/ OnceIn(s, e)
  PROVE  /\ Unlist(e, s) \in Seq(Elms)
         /\ NotIn(Unlist(e, s), e)
         /\ \A x \in Elms \ {e} : /\ NotIn(s, x) => NotIn(Unlist(e, s), x)
                                  /\ OnceIn(s, x) => OnceIn(Unlist(e, s), x)
<1>1. CASE NotIn(s, e)
  BY <1>1 DEF NotIn, Unlist
<1>2. CASE OnceIn(s, e)
  <2>1. PICK i \in DOMAIN s : s[i] = e /\ \A j \in DOMAIN s : s[j] = e => j = i
    BY <1>2 DEF OnceIn
  <2>2. FirstOf(e, s) = i
    <3>1. \A j \in 1..(i - 1) : s[j] # e
      BY <2>1
    <3> QED BY <2>1, <3>1 DEF FirstOf
  <2> DEFINE t == [j \in 1..(Len(s) - 1) |-> IF j < i THEN s[j] ELSE s[j + 1]]
  <2>3. Unlist(e, s) = t
    BY <2>1, <2>2 DEF Unlist
  <2>4. Len(s) \in Nat /\ i \in 1..Len(s) /\ DOMAIN s = 1..Len(s)
        /\ \A j \in 1..Len(s) : s[j] \in Elms
    OBVIOUS
  <2>5. t \in Seq(Elms) /\ Len(t) = Len(s) - 1 /\ DOMAIN t = 1..(Len(s) - 1)
    BY <2>4
  <2>6. \A j \in 1..(Len(s) - 1) : t[j] = IF j < i THEN s[j] ELSE s[j + 1]
    OBVIOUS
  <2> HIDE DEF t
  <2>7. NotIn(t, e)
    BY <2>1, <2>4, <2>5, <2>6 DEF NotIn
  <2>8. ASSUME NEW x \in Elms \ {e}, NotIn(s, x) PROVE NotIn(t, x)
    BY <2>4, <2>5, <2>6, <2>8 DEF NotIn
  <2>9. ASSUME NEW x \in Elms \ {e}, OnceIn(s, x) PROVE OnceIn(t, x)
    <3>1. PICK k \in DOMAIN s : s[k] = x /\ \A j \in DOMAIN s : s[j] = x => j = k
      BY <2>9 DEF OnceIn
    <3>2. k # i
      BY <2>1, <3>1
    <3> DEFINE m == IF k < i THEN k ELSE k - 1
    <3>3. m \in DOMAIN t /\ t[m] = x
      BY <2>4, <2>5, <2>6, <3>1, <3>2
    <3>4. ASSUME NEW j \in DOMAIN t, t[j] = x PROVE j = m
      BY <2>4, <2>5, <2>6, <3>1, <3>2, <3>4
    <3> QED BY <3>3, <3>4 DEF OnceIn
  <2> QED BY <2>3, <2>5, <2>7, <2>8, <2>9
<1> QED BY <1>1, <1>2

\* The two ways to say that an observer is in the list once.
LEMMA CountedOnce ==
  ASSUME ShapesOK
  PROVE  ListedOnce <=> SubscribedOnce
<1> DEFINE Places(e, c) == {i \in DOMAIN obs[c] : obs[c][i] = e}
<1>1. ASSUME NEW e \in Elms, NEW c \in Elms
      PROVE  /\ NotIn(obs[c], e) <=> Cardinality(Places(e, c)) = 0
             /\ OnceIn(obs[c], e) <=> Cardinality(Places(e, c)) = 1
  <2>1. IsFiniteSet(Places(e, c))
    <3>1. obs[c] \in Seq(Elms)
      BY DEF ShapesOK
    <3>2. Places(e, c) \in SUBSET (1..Len(obs[c])) /\ Len(obs[c]) \in Nat
      BY <3>1
    <3> QED BY <3>2, FS_Interval, FS_Subset
  <2>2. NotIn(obs[c], e) <=> Places(e, c) = {}
    BY DEF NotIn
  <2>3. OnceIn(obs[c], e) <=> \E i : Places(e, c) = {i}
    <3>1. ASSUME OnceIn(obs[c], e) PROVE \E i : Places(e, c) = {i}
      <4>1. PICK i \in DOMAIN obs[c] :
              obs[c][i] = e /\ \A j \in DOMAIN obs[c] : obs[c][j] = e => j = i
        BY <3>1 DEF OnceIn
      <4> QED BY <4>1
    <3>2. ASSUME NEW i, Places(e, c) = {i} PROVE OnceIn(obs[c], e)
      BY <3>2 DEF OnceIn
    <3> QED BY <3>1, <3>2
  <2> HIDE DEF Places
  <2>4. Places(e, c) = {} <=> Cardinality(Places(e, c)) = 0
    BY <2>1, FS_EmptySet
  <2>5. (\E i : Places(e, c) = {i}) <=> Cardinality(Places(e, c)) = 1
    BY <2>1, FS_Singleton
  <2> QED BY <2>2, <2>3, <2>4, <2>5
<1>2. SubscribedOnce <=>
        \A e, c \in Elms : Cardinality(Places(e, c)) = (IF c \in ids[e] \ {e} THEN 1 ELSE 0)
  BY DEF SubscribedOnce
<1> HIDE DEF Places
<1> QED BY <1>1, <1>2 DEF ListedOnce, Match

-------------------------------------------------------------------------------
\* What e adds to or takes from the list of c it adds to or takes from its ids.
LEMMA SubscribeKeeps ==
  ASSUME NEW ob \in [Elms -> Seq(Elms)], NEW id \in [Elms -> SUBSET Elms],
         Match(ob, id),
         NEW e \in Elms, NEW c \in Elms, c # e, c \notin id[e]
  PROVE  /\ [ob EXCEPT ![c] = <<e>> \o @] \in [Elms -> Seq(Elms)]
         /\ Match([ob EXCEPT ![c] = <<e>> \o @], [id EXCEPT ![e] = @ \cup {c}])
<1> DEFINE ob1 == [ob EXCEPT ![c] = <<e>> \o @]
           id1 == [id EXCEPT ![e] = @ \cup {c}]
<1>1. /\ <<e>> \o ob[c] \in Seq(Elms)
      /\ NotIn(ob[c], e) => OnceIn(<<e>> \o ob[c], e)
      /\ \A x \in Elms \ {e} : /\ NotIn(ob[c], x) => NotIn(<<e>> \o ob[c], x)
                               /\ OnceIn(ob[c], x) => OnceIn(<<e>> \o ob[c], x)
  BY Prepended
<1>2. \A d \in Elms : ob1[d] = IF d = c THEN <<e>> \o ob[c] ELSE ob[d]
  OBVIOUS
<1>3. \A x \in Elms : id1[x] = IF x = e THEN id[e] \cup {c} ELSE id[x]
  OBVIOUS
<1>4. ob1 \in [Elms -> Seq(Elms)]
  BY <1>1
<1> HIDE DEF ob1, id1
<1>5. ASSUME NEW x \in Elms, NEW d \in Elms
      PROVE  IF d \in id1[x] \ {x} THEN OnceIn(ob1[d], x) ELSE NotIn(ob1[d], x)
  <2>1. IF d \in id[x] \ {x} THEN OnceIn(ob[d], x) ELSE NotIn(ob[d], x)
    BY DEF Match
  <2>2. CASE d # c
    BY <1>2, <1>3, <2>1, <2>2
  <2>3. CASE d = c /\ x # e
    BY <1>1, <1>2, <1>3, <2>1, <2>3
  <2>4. CASE d = c /\ x = e
    BY <1>1, <1>2, <1>3, <2>1, <2>4
  <2> QED BY <2>2, <2>3, <2>4
<1> QED BY <1>4, <1>5 DEF Match, ob1, id1

LEMMA UnsubscribeKeeps ==
  ASSUME NEW ob \in [Elms -> Seq(Elms)], NEW id \in [Elms -> SUBSET Elms],
         Match(ob, id), NEW e \in Elms, NEW c \in Elms
  PROVE  /\ [ob EXCEPT ![c] = Unlist(e, @)] \in [Elms -> Seq(Elms)]
         /\ Match([ob EXCEPT ![c] = Unlist(e, @)], [id EXCEPT ![e] = @ \ {c}])
<1> DEFINE ob1 == [ob EXCEPT ![c] = Unlist(e, @)]
           id1 == [id EXCEPT ![e] = @ \ {c}]
<1>1. /\ Unlist(e, ob[c]) \in Seq(Elms)
      /\ NotIn(Unlist(e, ob[c]), e)
      /\ \A x \in Elms \ {e} : /\ NotIn(ob[c], x) => NotIn(Unlist(e, ob[c]), x)
                               /\ OnceIn(ob[c], x) => OnceIn(Unlist(e, ob[c]), x)
  <2>1. NotIn(ob[c], e) \/ OnceIn(ob[c], e)
    BY DEF Match
  <2> QED BY <2>1, Unlisted
<1>2. \A d \in Elms : ob1[d] = IF d = c THEN Unlist(e, ob[c]) ELSE ob[d]
  OBVIOUS
<1>3. \A x \in Elms : id1[x] = IF x = e THEN id[e] \ {c} ELSE id[x]
  OBVIOUS
<1>4. ob1 \in [Elms -> Seq(Elms)]
  BY <1>1
<1> HIDE DEF ob1, id1
<1>5. ASSUME NEW x \in Elms, NEW d \in Elms
      PROVE  IF d \in id1[x] \ {x} THEN OnceIn(ob1[d], x) ELSE NotIn(ob1[d], x)
  <2>1. IF d \in id[x] \ {x} THEN OnceIn(ob[d], x) ELSE NotIn(ob[d], x)
    BY DEF Match
  <2>2. CASE d # c
    BY <1>2, <1>3, <2>1, <2>2
  <2>3. CASE d = c /\ x # e
    BY <1>1, <1>2, <1>3, <2>1, <2>3
  <2>4. CASE d = c /\ x = e
    BY <1>1, <1>2, <1>3, <2>1, <2>4
  <2> QED BY <2>2, <2>3, <2>4
<1> QED BY <1>4, <1>5 DEF Match, ob1, id1

\* A store links and unlinks the two values it exchanges.
LEMMA RelinkOK ==
  ASSUME ShapesOK, ListedOnce, NEW e \in Elms, NEW old \in Value, NEW v \in Value,
         v \in Elms => ~Contains(e, v), Relink(e, old, v)
  PROVE  /\ obs' \in [Elms -> Seq(Elms)] /\ ids' \in [Elms -> SUBSET Elms]
         /\ Match(obs', ids')
         /\ \A x \in Elms \ {e} : ids'[x] = ids[x]
         /\ ids'[e] \subseteq (ids[e] \ {old}) \cup ({v} \cap Elms)
<1>1. obs \in [Elms -> Seq(Elms)] /\ ids \in [Elms -> SUBSET Elms] /\ Match(obs, ids)
  BY DEF ShapesOK, ListedOnce
<1>2. v \in Elms => v # e /\ v \notin ids[e]
  BY DEF Contains
<1>3. Vacant \notin Elms
  BY ConstantsAreSound
<1>4. CASE old = Vacant /\ v \in Elms
  <2>1. obs' = [obs EXCEPT ![v] = <<e>> \o @] /\ ids' = [ids EXCEPT ![e] = @ \cup {v}]
    BY <1>3, <1>4 DEF Relink, Subscribed
  <2>2. obs' \in [Elms -> Seq(Elms)] /\ Match(obs', ids')
    BY <1>1, <1>2, <1>4, <2>1, SubscribeKeeps
  <2> QED BY <1>1, <1>3, <1>4, <2>1, <2>2
<1>5. CASE old \in Elms /\ v \in Elms
  <2> DEFINE ob1 == [obs EXCEPT ![old] = Unlist(e, @)]
             id1 == [ids EXCEPT ![e] = @ \ {old}]
  <2>1. obs' = [ob1 EXCEPT ![v] = <<e>> \o @]
        /\ ids' = [ids EXCEPT ![e] = (@ \ {old}) \cup {v}]
    BY <1>3, <1>5 DEF Relink, Unsubscribed
  <2>2. ids' = [id1 EXCEPT ![e] = @ \cup {v}]
    BY <1>1, <2>1
  <2>3. ob1 \in [Elms -> Seq(Elms)] /\ Match(ob1, id1)
    BY <1>1, <1>5, UnsubscribeKeeps
  <2>4. id1 \in [Elms -> SUBSET Elms] /\ v \notin id1[e]
    BY <1>1, <1>2, <1>5
  <2>5. obs' \in [Elms -> Seq(Elms)] /\ Match(obs', ids')
    <3> HIDE DEF ob1, id1
    <3>1. v # e /\ v \in Elms
      BY <1>2, <1>5
    <3>2. /\ [ob1 EXCEPT ![v] = <<e>> \o @] \in [Elms -> Seq(Elms)]
          /\ Match([ob1 EXCEPT ![v] = <<e>> \o @], [id1 EXCEPT ![e] = @ \cup {v}])
      BY <2>3, <2>4, <3>1, SubscribeKeeps
    <3> QED BY <2>1, <2>2, <3>2
  <2> QED BY <1>1, <1>5, <2>1, <2>5
<1>6. CASE old \in Elms /\ v \notin Elms
  <2>1. obs' = [obs EXCEPT ![old] = Unlist(e, @)] /\ ids' = [ids EXCEPT ![e] = @ \ {old}]
    BY <1>3, <1>6 DEF Relink, Unsubscribed
  <2>2. obs' \in [Elms -> Seq(Elms)] /\ Match(obs', ids')
    BY <1>1, <1>6, <2>1, UnsubscribeKeeps
  <2> QED BY <1>1, <1>6, <2>1, <2>2
<1>7. CASE old \notin Elms /\ (old = Vacant => v \notin Elms)
  <2>1. obs' = obs /\ ids' = ids
    BY <1>7 DEF Relink
  <2> QED BY <1>1, <1>7, <2>1
<1> QED BY <1>4, <1>5, <1>6, <1>7

-------------------------------------------------------------------------------
\* An assignment through the element.
LEMMA StoreTop ==
  ASSUME TopInv, NEW e \in Elms, NEW s \in Slots, NEW v \in Value, Store(e, s, v)
  PROVE  TopInv'
<1> DEFINE old == store[e][s]
<1>1. /\ ShapesOK /\ ListedOnce /\ ObserversContain
      /\ old \in Value /\ Relink(e, old, v) /\ (v \in Elms => ~Contains(e, v))
      /\ store' = [store EXCEPT ![e][s] = v] /\ stale' = stale /\ fresh' = fresh
      /\ calls' = <<[at |-> e, next |-> 1]>>
  BY DEF TopInv, Store, ShapesOK, Fire
<1>2. /\ obs' \in [Elms -> Seq(Elms)] /\ ids' \in [Elms -> SUBSET Elms]
      /\ Match(obs', ids')
      /\ \A x \in Elms \ {e} : ids'[x] = ids[x]
      /\ ids'[e] \subseteq (ids[e] \ {old}) \cup ({v} \cap Elms)
  <2> HIDE DEF old
  <2> QED BY <1>1, RelinkOK
<1>3. ShapesOK'
  <2>1. store' \in [Elms -> [Slots -> Value]]
    BY <1>1 DEF ShapesOK
  <2>2. calls' \in Seq([at : Elms, next : Nat \ {0}])
    BY <1>1
  <2> QED BY <1>1, <1>2, <2>1, <2>2 DEF ShapesOK
<1>4. ObserversContain'
  <2> SUFFICES ASSUME NEW x \in Elms, NEW c \in ids'[x] \ {x} PROVE c \in Children(x)'
    BY DEF ObserversContain
  <2>1. store \in [Elms -> [Slots -> Value]]
    BY <1>1 DEF ShapesOK
  <2>2. CASE x # e
    <3>1. c \in Children(x)
      BY <1>1, <1>2, <2>2 DEF ObserversContain
    <3>2. store'[x] = store[x]
      BY <1>1, <2>1, <2>2
    <3> QED BY <3>1, <3>2 DEF Children
  <2>3. CASE x = e /\ c = v
    <3>1. c \in Elms /\ store'[x][s] = c
      BY <1>1, <1>2, <2>1, <2>3
    <3> QED BY <3>1 DEF Children
  <2>4. CASE x = e /\ c # v
    <3>1. c \in ids[e] \ {e} /\ c # old
      BY <1>2, <2>4
    <3>2. PICK t \in Slots : store[e][t] = c /\ c \in Elms
      BY <1>1, <3>1 DEF ObserversContain, Children
    <3>3. store'[e][t] = c
      BY <1>1, <2>1, <3>1, <3>2
    <3> QED BY <2>4, <3>2, <3>3 DEF Children
  <2> QED BY <2>2, <2>3, <2>4
<1> QED BY <1>2, <1>3, <1>4 DEF TopInv, ListedOnce

\* A raw write exchanges plain values.
LEMMA RawWriteTop ==
  ASSUME TopInv, NEW e \in Elms, NEW s \in Slots, NEW v \in Prims, RawWrite(e, s, v)
  PROVE  TopInv' /\ \A x \in Elms : Children(x)' = Children(x)
<1>1. /\ store' = [store EXCEPT ![e][s] = v] /\ store[e][s] \in Prims
      /\ UNCHANGED <<stale, ids, obs, calls, fresh>>
      /\ store \in [Elms -> [Slots -> Value]]
  BY DEF TopInv, RawWrite, ShapesOK
<1>2. ShapesOK'
  BY <1>1 DEF TopInv, ShapesOK, Value
<1>3. ASSUME NEW x \in Elms PROVE Children(x)' = Children(x)
  <2>1. \A t \in Slots :
          \/ store'[x][t] = store[x][t]
          \/ store'[x][t] \in Prims /\ store[x][t] \in Prims
    BY <1>1
  <2>2. Elms \cap Prims = {}
    BY ConstantsAreSound
  <2> QED BY <2>1, <2>2 DEF Children
<1>4. ObserversContain'
  BY <1>1, <1>3 DEF TopInv, ObserversContain
<1>5. ListedOnce'
  BY <1>1 DEF TopInv, ListedOnce, Match
<1> QED BY <1>2, <1>3, <1>4, <1>5 DEF TopInv

\* A step of an event moves marks, ledgers and the C stack only, ...
LEMMA NotifyShapes ==
  ASSUME ShapesOK, Notify
  PROVE  /\ UNCHANGED <<store, ids, obs, fresh>>
         /\ stale' \in [Elms -> BOOLEAN]
         /\ calls' \in Seq([at : Elms, next : Nat \ {0}])
         /\ [calls EXCEPT ![Len(calls)].next = @ + 1] \in Seq([at : Elms, next : Nat \ {0}])
         /\ obs[calls[Len(calls)].at][calls[Len(calls)].next] \in Elms
<1> DEFINE Frame == [at : Elms, next : Nat \ {0}]
           n == Len(calls)
           top == calls[n]
           o == obs[top.at][top.next]
           rest == [calls EXCEPT ![n].next = @ + 1]
<1>1. calls \in Seq(Frame) /\ n \in Nat \ {0}
  BY DEF ShapesOK, Notify, Settled
<1>2. top \in Frame /\ top.at \in Elms /\ top.next \in Nat \ {0}
  <2>1. top \in Frame
    <3> HIDE DEF Frame
    <3> QED BY <1>1
  <2> QED BY <2>1
<1>3. o \in Elms
  <2>1. top.next \in 1..Len(obs[top.at]) /\ obs[top.at] \in Seq(Elms)
    BY <1>2 DEF Notify, ShapesOK
  <2> QED BY <2>1
<1>4. rest \in Seq(Frame) /\ [at |-> o, next |-> 1] \in Frame
  BY <1>1, <1>2, <1>3
<1>5. calls' = Append(rest, [at |-> o, next |-> 1]) \/ calls' = rest
  BY DEF Notify
<1>6. calls' \in Seq(Frame)
  <2> HIDE DEF Frame, rest, o
  <2> QED BY <1>4, <1>5
<1>7. stale' \in [Elms -> BOOLEAN]
  BY <1>3 DEF Notify, Handle, ShapesOK
<1> QED BY <1>3, <1>4, <1>6, <1>7 DEF Notify

LEMMA ReturnShapes ==
  ASSUME ShapesOK, Return
  PROVE  /\ UNCHANGED <<store, ids, obs, fresh, stale>>
         /\ calls' \in Seq([at : Elms, next : Nat \ {0}])
<1> DEFINE Frame == [at : Elms, next : Nat \ {0}]
<1>1. calls \in Seq(Frame) /\ Len(calls) \in Nat \ {0}
      /\ calls' = SubSeq(calls, 1, Len(calls) - 1)
  BY DEF ShapesOK, Return, Settled
<1>2. \A i \in 1..(Len(calls) - 1) : calls[i] \in Frame
  <2> HIDE DEF Frame
  <2> QED BY <1>1
<1>3. calls' \in Seq(Frame)
  <2> HIDE DEF Frame
  <2> QED BY <1>1, <1>2, SubSeqProperties
<1> QED BY <1>3 DEF Return

\* ... and a rendering or a read of an env table does not link anything.
LEMMA LookShapes ==
  ASSUME ShapesOK, EnvReads \/ Renderings
  PROVE  /\ UNCHANGED <<store, ids, obs>>
         /\ stale' \in [Elms -> BOOLEAN] /\ fresh' \in SUBSET Elms
         /\ calls' \in Seq([at : Elms, next : Nat \ {0}])
<1>1. CASE EnvReads
  <2>1. PICK e \in Elms : ReadEnv(e)
    BY <1>1 DEF EnvReads
  <2>2. calls' \in Seq([at : Elms, next : Nat \ {0}])
    BY <2>1 DEF ReadEnv, Fire
  <2> QED BY <2>1, <2>2 DEF ReadEnv, ShapesOK
<1>2. CASE Renderings
  <2>1. PICK e \in Elms : Stringify(e) \/ \E s \in Slots : StringifyOne(e, s)
    BY <1>2 DEF Renderings, Length
  <2>2. stale' = [stale EXCEPT ![e] = FALSE] /\ fresh' = {} /\ UNCHANGED <<store, ids, obs, calls>>
    BY <2>1 DEF Stringify, StringifyOne
  <2> QED BY <2>2 DEF ShapesOK
<1> QED BY <1>1, <1>2

\* A step that leaves stores and links alone keeps what is said of them.
LEMMA LinksKept ==
  ASSUME TopInv, ShapesOK', UNCHANGED <<store, ids, obs>>
  PROVE  TopInv'
  BY DEF TopInv, ListedOnce, Match, ObserversContain, Children

LEMMA InitTop == Init => TopInv
<1> SUFFICES ASSUME Init PROVE TopInv
  OBVIOUS
<1>1. ShapesOK
  BY DEF Init, ShapesOK, Value
<1>2. ListedOnce
  BY DEF Init, ListedOnce, Match, NotIn
<1>3. ObserversContain
  BY DEF Init, ObserversContain
<1> QED BY <1>1, <1>2, <1>3 DEF TopInv

LEMMA NextTop == TopInv /\ [Next]_vars => TopInv'
<1> SUFFICES ASSUME TopInv, [Next]_vars PROVE TopInv'
  OBVIOUS
<1>1. ShapesOK
  BY DEF TopInv
<1>2. CASE Stores
  <2>1. PICK e \in Elms, s \in Slots, v \in Value : Store(e, s, v)
    BY <1>2 DEF Stores
  <2> QED BY <2>1, StoreTop
<1>3. CASE RawWrites
  <2>1. PICK e \in Elms, s \in Slots, v \in Prims : RawWrite(e, s, v)
    BY <1>3 DEF RawWrites
  <2> QED BY <2>1, RawWriteTop
<1>4. CASE EnvReads \/ Renderings
  BY <1>1, <1>4, LookShapes, LinksKept DEF ShapesOK
<1>5. CASE Notify
  BY <1>1, <1>5, NotifyShapes, LinksKept DEF ShapesOK
<1>6. CASE Return
  BY <1>1, <1>6, ReturnShapes, LinksKept DEF ShapesOK
<1>7. CASE UNCHANGED vars
  BY <1>1, <1>7, LinksKept DEF ShapesOK, vars
<1> QED BY <1>2, <1>3, <1>4, <1>5, <1>6, <1>7 DEF Next, Overflow

\* The shapes, the lists and the links hold throughout, for every caller.
THEOREM TopologyInvariance == Spec => []TopInv
  BY InitTop, NextTop, PTL DEF Spec

\* Every element is subscribed to another once or not at all.
THEOREM AlwaysSubscribedOnce == Spec => []SubscribedOnce
<1>1. TopInv => SubscribedOnce
  BY CountedOnce DEF TopInv
<1> QED BY <1>1, TopologyInvariance, PTL

\* No element listens to what it does not hold.
THEOREM ObserversAlwaysContain == Spec => []ObserversContain
<1>1. TopInv => ObserversContain
  BY DEF TopInv
<1> QED BY <1>1, TopologyInvariance, PTL

-------------------------------------------------------------------------------
(***************************************************************************)
(* A script that never stores an element over a plain value.               *)
(***************************************************************************)
Subscribing == "child_over_prim" \notin Habits

\* No element is stored twice in the same element.
HeldOnce ==
  \A e \in Elms : \A s, t \in Slots :
    store[e][s] = store[e][t] /\ store[e][s] \in Elms => s = t

SubInv == TopInv /\ ContainersSubscribe /\ HeldOnce

\* What is nested in an element after a store.
LEMMA ChildrenStored ==
  ASSUME SubInv, NEW e \in Elms, NEW s \in Slots, NEW v \in Value, Store(e, s, v)
  PROVE  /\ \A x \in Elms \ {e} : Children(x)' = Children(x)
         /\ Children(e)' = (Children(e) \ {store[e][s]}) \cup ({v} \cap Elms)
<1>1. /\ store \in [Elms -> [Slots -> Value]] /\ store' = [store EXCEPT ![e][s] = v]
      /\ ContainersSubscribe /\ HeldOnce
      /\ v \in Elms => ~Contains(e, v)
  BY DEF SubInv, TopInv, ShapesOK, Store
<1>2. ASSUME NEW x \in Elms \ {e} PROVE Children(x)' = Children(x)
  BY <1>1 DEF Children
<1>3. /\ store'[e][s] = v
      /\ \A t \in Slots \ {s} : store'[e][t] = store[e][t]
  BY <1>1
<1>4. Children(e)' \subseteq (Children(e) \ {store[e][s]}) \cup ({v} \cap Elms)
  <2> SUFFICES ASSUME NEW t \in Slots, store'[e][t] \in Elms, store'[e][t] # v
               PROVE  store'[e][t] \in Children(e) \ {store[e][s]}
    BY DEF Children
  <2>1. t # s /\ store'[e][t] = store[e][t]
    BY <1>3
  <2>2. store[e][t] # store[e][s]
    BY <1>1, <2>1 DEF HeldOnce
  <2> QED BY <2>1, <2>2 DEF Children
<1>5. (Children(e) \ {store[e][s]}) \cup ({v} \cap Elms) \subseteq Children(e)'
  BY <1>3 DEF Children
<1> QED BY <1>2, <1>4, <1>5

LEMMA StoreSub ==
  ASSUME SubInv, NEW e \in Elms, NEW s \in Slots, NEW v \in Value, Store(e, s, v),
         v \in Elms => store[e][s] \notin Prims
  PROVE  SubInv'
<1> DEFINE old == store[e][s]
<1>1. /\ store \in [Elms -> [Slots -> Value]] /\ store' = [store EXCEPT ![e][s] = v]
      /\ ids \in [Elms -> SUBSET Elms]
      /\ TopInv /\ ContainersSubscribe /\ HeldOnce /\ Relink(e, old, v)
      /\ v \in Elms => ~Contains(e, v)
  BY DEF SubInv, TopInv, ShapesOK, Store
<1>2. old \in Elms \cup Prims \cup {Vacant} /\ Vacant \notin Elms
  BY <1>1, ConstantsAreSound DEF Value
<1>3. /\ \A x \in Elms \ {e} : ids'[x] = ids[x]
      /\ (ids[e] \ {old}) \cup ({v} \cap Elms) \subseteq ids'[e]
  <2>1. CASE v \in Elms /\ old \in Elms
    BY <1>1, <1>2, <2>1 DEF Relink
  <2>2. CASE v \in Elms /\ old \notin Elms
    <3>1. old = Vacant
      BY <1>2, <2>2
    <3> QED BY <1>1, <1>2, <2>2, <3>1 DEF Relink
  <2>3. CASE v \notin Elms
    BY <1>1, <1>2, <2>3 DEF Relink
  <2> QED BY <2>1, <2>2, <2>3
<1>4. ContainersSubscribe'
  <2> SUFFICES ASSUME NEW x \in Elms, NEW c \in Children(x)' PROVE c \in ids'[x]
    BY DEF ContainersSubscribe
  <2>1. CASE x # e
    <3>1. c \in Children(x)
      BY <2>1, ChildrenStored
    <3> QED BY <1>1, <1>3, <2>1, <3>1 DEF ContainersSubscribe
  <2>2. CASE x = e
    <3>1. c \in (Children(e) \ {old}) \cup ({v} \cap Elms)
      BY <2>2, ChildrenStored
    <3> QED BY <1>1, <1>3, <2>2, <3>1 DEF ContainersSubscribe
  <2> QED BY <2>1, <2>2
<1>5. HeldOnce'
  <2> SUFFICES ASSUME NEW x \in Elms, NEW t \in Slots, NEW u \in Slots,
                      store'[x][t] = store'[x][u], store'[x][t] \in Elms
               PROVE  t = u
    BY DEF HeldOnce
  <2>1. CASE x # e \/ (t # s /\ u # s)
    BY <1>1, <2>1 DEF HeldOnce
  <2>2. ASSUME NEW w \in Slots \ {s}, store[e][w] = v, v \in Elms PROVE FALSE
    <3>1. v \in Children(e)
      BY <2>2 DEF Children
    <3> QED BY <1>1, <2>2, <3>1 DEF ContainersSubscribe, Contains
  <2>3. CASE x = e /\ (t = s \/ u = s)
    BY <1>1, <2>2, <2>3
  <2> QED BY <2>1, <2>3
<1> QED BY <1>1, <1>4, <1>5, StoreTop DEF SubInv

LEMMA InitSub == Init => SubInv
<1> SUFFICES ASSUME Init PROVE ContainersSubscribe /\ HeldOnce
  BY InitTop DEF SubInv
<1> QED BY ConstantsAreSound DEF Init, ContainersSubscribe, HeldOnce, Children

LEMMA NextSub == Subscribing /\ SubInv /\ [Next]_vars => SubInv'
<1> SUFFICES ASSUME Subscribing, SubInv, [Next]_vars PROVE SubInv'
  OBVIOUS
<1>1. TopInv /\ TopInv' /\ ShapesOK /\ ContainersSubscribe /\ HeldOnce
  BY NextTop DEF SubInv, TopInv
<1>2. CASE Stores
  <2>1. PICK e \in Elms, s \in Slots, v \in Value :
          /\ (v \in Elms /\ store[e][s] \in Prims) => May("child_over_prim")
          /\ Store(e, s, v)
    BY <1>2 DEF Stores
  <2>2. v \in Elms => store[e][s] \notin Prims
    BY <2>1 DEF Subscribing, May
  <2> QED BY <2>1, <2>2, StoreSub
<1>3. CASE RawWrites
  <2>1. PICK e \in Elms, s \in Slots, v \in Prims : RawWrite(e, s, v)
    BY <1>3 DEF RawWrites
  <2>2. \A x \in Elms : Children(x)' = Children(x)
    BY <1>1, <2>1, RawWriteTop
  <2>3. /\ store' = [store EXCEPT ![e][s] = v] /\ ids' = ids
        /\ store[e][s] \in Prims /\ store \in [Elms -> [Slots -> Value]]
    BY <1>1, <2>1 DEF RawWrite, ShapesOK
  <2>4. HeldOnce'
    <3>1. \A x \in Elms : \A t \in Slots :
            \/ store'[x][t] = store[x][t]
            \/ store'[x][t] \in Prims
      BY <2>3
    <3> QED BY <1>1, <3>1, ConstantsAreSound DEF HeldOnce
  <2> QED BY <1>1, <2>2, <2>3, <2>4 DEF SubInv, ContainersSubscribe
<1>4. CASE UNCHANGED <<store, ids, obs>>
  BY <1>1, <1>4 DEF SubInv, ContainersSubscribe, HeldOnce, Children
<1>5. CASE EnvReads \/ Renderings
  BY <1>1, <1>4, <1>5, LookShapes
<1>6. CASE Notify \/ Return
  BY <1>1, <1>4, <1>6, NotifyShapes, ReturnShapes
<1>7. CASE UNCHANGED vars
  BY <1>4, <1>7 DEF vars
<1> QED BY <1>2, <1>3, <1>5, <1>6, <1>7 DEF Next, Overflow

\* Every element is subscribed to all that is stored in it, as long as no
\* element is stored over a plain value.
THEOREM ContainersAlwaysSubscribe ==
  ASSUME Subscribing
  PROVE  Spec => []ContainersSubscribe
<1>1. Spec => []SubInv
  BY InitSub, NextSub, PTL DEF Spec
<1>2. SubInv => ContainersSubscribe
  BY DEF SubInv
<1> QED BY <1>1, <1>2, PTL

-------------------------------------------------------------------------------
(***************************************************************************)
(* Below(e) is the least set with the children of e that has the children  *)
(* of its members.                                                         *)
(***************************************************************************)
\* Children, and Below, in the store st.
Kids(st, e) == Held(st, Elms, Slots, e)
Under(st, e) == Reached(st, Elms, Slots, Kids(st, e))

\* Under(st, e) lies within every set that is closed under Children.
LEMMA BelowLeast ==
  ASSUME NEW st, NEW e, NEW U, Kids(st, e) \subseteq U, \A x \in U : Kids(st, x) \subseteq U
  PROVE  Under(st, e) \subseteq U
<1>1. IsFiniteSet(Elms)
  BY ConstantsAreSound
<1> QED BY <1>1, ReachedLeast DEF Kids, Under

\* The three facts in the form they are used in.
LEMMA BelowIs ==
  ASSUME NEW st, NEW e
  PROVE  /\ Kids(st, e) \subseteq Under(st, e) /\ Under(st, e) \subseteq Elms
         /\ \A x \in Under(st, e) : Kids(st, x) \subseteq Under(st, e)
         /\ \A x \in Under(st, e) : Under(st, x) \subseteq Under(st, e)
<1>0. Kids(st, e) \subseteq Elms /\ IsFiniteSet(Elms)
  BY ConstantsAreSound DEF Kids, Held
<1>1. Kids(st, e) \subseteq Under(st, e) /\ Under(st, e) \subseteq Elms
  BY <1>0, ReachedIs DEF Under
<1>2. \A x \in Under(st, e) : Kids(st, x) \subseteq Under(st, e)
  BY <1>0, ReachedIs DEF Under, Kids
<1>3. ASSUME NEW x \in Under(st, e) PROVE Under(st, x) \subseteq Under(st, e)
  BY <1>2, BelowLeast
<1> QED BY <1>1, <1>2, <1>3

LEMMA BelowIsUnder ==
  /\ \A e : Children(e) = Kids(store, e) /\ Below(e) = Under(store, e)
  /\ \A e : Children(e)' = Kids(store', e) /\ Below(e)' = Under(store', e)
  BY DEF Children, Kids, Held, Below, Under, Reached, Levels, Rounds, Round

\* Where nothing is added to an element, nothing is added below it; ...
LEMMA UnderShrinks ==
  ASSUME NEW st, NEW st2, \A y \in Elms : Kids(st2, y) \subseteq Kids(st, y), NEW x \in Elms
  PROVE  Under(st2, x) \subseteq Under(st, x)
<1>1. Kids(st2, x) \subseteq Under(st, x)
  BY BelowIs
<1>2. \A y \in Under(st, x) : Kids(st2, y) \subseteq Under(st, x)
  BY BelowIs
<1> QED BY <1>1, <1>2, BelowLeast

\* ... where v is added to e, v and what is below it are added below e.
LEMMA UnderGrows ==
  ASSUME NEW st, NEW st2, NEW e \in Elms, NEW v \in Elms,
         \A y \in Elms : Kids(st2, y) \subseteq Kids(st, y) \cup (IF y = e THEN {v} ELSE {}),
         NEW x \in Elms
  PROVE  Under(st2, x) \subseteq
           Under(st, x) \cup
             (IF e \in {x} \cup Under(st, x) THEN {v} \cup Under(st, v) ELSE {})
<1> DEFINE U == Under(st, x) \cup
             (IF e \in {x} \cup Under(st, x) THEN {v} \cup Under(st, v) ELSE {})
<1>1. Kids(st2, x) \subseteq U
  <2>1. Kids(st, x) \subseteq Under(st, x)
    BY BelowIs
  <2> QED BY <2>1
<1>2. ASSUME NEW y \in U PROVE Kids(st2, y) \subseteq U
  <2>1. /\ Under(st, x) \subseteq Elms /\ Under(st, v) \subseteq Elms
        /\ Kids(st, v) \subseteq Under(st, v)
        /\ \A z \in Under(st, x) : Kids(st, z) \subseteq Under(st, x)
        /\ \A z \in Under(st, v) : Kids(st, z) \subseteq Under(st, v)
    BY BelowIs
  <2>2. Kids(st2, y) \subseteq Kids(st, y) \cup (IF y = e THEN {v} ELSE {})
    BY <2>1
  <2>3. CASE y \in Under(st, x)
    BY <2>1, <2>2, <2>3
  <2>4. CASE y \notin Under(st, x)
    <3>1. e \in {x} \cup Under(st, x) /\ y \in {v} \cup Under(st, v)
      BY <2>4
    <3> QED BY <2>1, <2>2, <3>1
  <2> QED BY <2>3, <2>4
<1> HIDE DEF U
<1>3. Under(st2, x) \subseteq U
  BY <1>1, <1>2, BelowLeast
<1> QED BY <1>3 DEF U

-------------------------------------------------------------------------------
(***************************************************************************)
(* A script that, besides, nests no element in what is nested deep in it:  *)
(* what is nested in it directly the code refuses.                         *)
(***************************************************************************)
Layering == Subscribing /\ "cycle" \notin Habits

TreeInv == SubInv /\ NoCycle

LEMMA StoreTree ==
  ASSUME TreeInv, NEW e \in Elms, NEW s \in Slots, NEW v \in Value, Store(e, s, v),
         v \in Elms => e \notin Below(v) \ Children(v)
  PROVE  NoCycle'
<1>0. /\ SubInv /\ NoCycle /\ ContainersSubscribe
      /\ v \in Elms => ~Contains(e, v)
  BY DEF TreeInv, SubInv, Store
<1>1. /\ \A x \in Elms \ {e} : Kids(store', x) = Kids(store, x)
      /\ Kids(store', e) \subseteq Kids(store, e) \cup ({v} \cap Elms)
  BY <1>0, ChildrenStored, BelowIsUnder
<1>2. SUFFICES ASSUME NEW x \in Elms PROVE x \notin Under(store', x)
  BY BelowIsUnder DEF NoCycle
<1>3. \A y \in Elms : y \notin Under(store, y)
  BY <1>0, BelowIsUnder DEF NoCycle
<1>4. CASE v \notin Elms
  <2>1. \A y \in Elms : Kids(store', y) \subseteq Kids(store, y)
    BY <1>1, <1>4
  <2>2. Under(store', x) \subseteq Under(store, x)
    BY <2>1, UnderShrinks
  <2> QED BY <1>3, <2>2
<1>5. CASE v \in Elms
  <2>1. e # v /\ e \notin Under(store, v)
    <3>1. e \notin Children(v)
      BY <1>0, <1>5 DEF ContainersSubscribe, Contains
    <3> QED BY <1>0, <1>5, <3>1, BelowIsUnder DEF Contains
  <2>2. \A y \in Elms : Kids(store', y) \subseteq Kids(store, y) \cup (IF y = e THEN {v} ELSE {})
    BY <1>1, <1>5
  <2>3. Under(store', x) \subseteq
          Under(store, x) \cup
            (IF e \in {x} \cup Under(store, x) THEN {v} \cup Under(store, v) ELSE {})
    BY <1>5, <2>2, UnderGrows
  <2>4. x \in {v} \cup Under(store, v) => e \notin {x} \cup Under(store, x)
    BY <2>1, BelowIs
  <2> QED BY <1>3, <2>3, <2>4
<1> QED BY <1>4, <1>5

\* A step that leaves what is nested where alone adds no cycle.
LEMMA NestingKept ==
  ASSUME NoCycle, \A x \in Elms : Children(x)' = Children(x)
  PROVE  NoCycle'
<1>1. \A y \in Elms : Kids(store', y) \subseteq Kids(store, y)
  BY BelowIsUnder
<1>2. \A x \in Elms : Under(store', x) \subseteq Under(store, x)
  BY <1>1, UnderShrinks
<1> QED BY <1>2, BelowIsUnder DEF NoCycle

LEMMA InitTree == Init => TreeInv
<1> SUFFICES ASSUME Init PROVE NoCycle
  BY InitSub DEF TreeInv
<1>1. \A x \in Elms : Kids(store, x) = {}
  BY ConstantsAreSound DEF Init, Kids, Held
<1>2. ASSUME NEW x \in Elms PROVE Under(store, x) \subseteq {}
  BY <1>1, BelowLeast
<1> QED BY <1>2, BelowIsUnder DEF NoCycle

LEMMA NextTree == Layering /\ TreeInv /\ [Next]_vars => TreeInv'
<1> SUFFICES ASSUME Layering, TreeInv, [Next]_vars PROVE TreeInv'
  OBVIOUS
<1>1. SubInv /\ SubInv' /\ NoCycle /\ TopInv /\ ShapesOK
  BY NextSub DEF TreeInv, SubInv, TopInv, Layering
<1>2. CASE Stores
  <2>1. PICK e \in Elms, s \in Slots, v \in Value :
          /\ (v \in Elms /\ (v \in Roots \/ e \in Below(v) \ Children(v))) => May("cycle")
          /\ Store(e, s, v)
    BY <1>2 DEF Stores
  <2>2. v \in Elms => e \notin Below(v) \ Children(v)
    BY <2>1 DEF Layering, May
  <2> QED BY <1>1, <2>1, <2>2, StoreTree DEF TreeInv
<1>3. CASE RawWrites
  <2>1. PICK e \in Elms, s \in Slots, v \in Prims : RawWrite(e, s, v)
    BY <1>3 DEF RawWrites
  <2>2. \A x \in Elms : Children(x)' = Children(x)
    BY <1>1, <2>1, RawWriteTop
  <2> QED BY <1>1, <2>2, NestingKept DEF TreeInv
<1>4. CASE UNCHANGED store
  <2>1. \A x \in Elms : Children(x)' = Children(x)
    BY <1>4 DEF Children
  <2> QED BY <1>1, <2>1, NestingKept DEF TreeInv
<1>5. CASE EnvReads \/ Renderings \/ Notify \/ Return
  BY <1>1, <1>4, <1>5, LookShapes, NotifyShapes, ReturnShapes
<1>6. CASE UNCHANGED vars
  BY <1>4, <1>6 DEF vars
<1> QED BY <1>2, <1>3, <1>5, <1>6 DEF Next, Overflow

\* No element ends up inside itself, whatever is nested, moved and taken out,
\* as long as the script does what the code leaves to it.
THEOREM NeverACycle ==
  ASSUME Layering
  PROVE  Spec => []NoCycle
<1>1. Spec => []TreeInv
  BY InitTree, NextTree, PTL DEF Spec
<1>2. TreeInv => NoCycle
  BY DEF TreeInv
<1> QED BY <1>1, <1>2, PTL

-------------------------------------------------------------------------------
(***************************************************************************)
(* A script that reads env tables no more than one container deep, and     *)
(* leaves what is marked stale where it is.                                *)
(***************************************************************************)
Telling == Subscribing /\ {"deep_raw", "stale_child"} \cap Habits = {}

\* The event that marks the containers of e has yet to reach p.
Pending(e, p) ==
  /\ ~Settled /\ ev.type = "env" /\ calls[1].at = e
  /\ \E j \in calls[1].next..Len(obs[e]) : obs[e][j] = p

\* An element whose env table is out is marked, and so is all that holds it, or
\* will be before the event ends.  Nothing holds its containers.
Told(e) ==
  /\ stale[e]
  /\ \A p \in Containers(e) : Containers(p) = {} /\ (stale[p] \/ Pending(e, p))

FreshInv == \A e \in fresh : Told(e)

StaleInv == SubInv /\ FreshInv

\* No container is added to what is stale, or has stale elements in it.
LEMMA StoreStale ==
  ASSUME StaleInv, NEW e \in Elms, NEW s \in Slots, NEW v \in Value, Store(e, s, v),
         v \in Elms => ~stale[v] /\ \A x \in Below(v) : ~stale[x]
  PROVE  FreshInv'
<1>1. /\ Settled /\ UNCHANGED <<stale, fresh>> /\ fresh \subseteq Elms
      /\ SubInv /\ FreshInv
  BY DEF StaleInv, SubInv, TopInv, ShapesOK, Store
<1>2. \A x \in Elms : Children(x)' \subseteq Children(x) \cup ({v} \cap Elms)
  BY <1>1, ChildrenStored
<1>3. \A x \in Elms \ {v} : Containers(x)' \subseteq Containers(x)
  BY <1>2 DEF Containers
<1>4. SUFFICES ASSUME NEW x \in fresh PROVE Told(x)'
  BY <1>1 DEF FreshInv
<1>5. /\ x \in Elms /\ stale[x]
      /\ \A p \in Containers(x) : Containers(p) = {} /\ stale[p]
  BY <1>1 DEF FreshInv, Told, Pending
<1>6. x # v
  BY <1>5
<1>7. ASSUME NEW p \in Containers(x) PROVE p # v
  <2> SUFFICES ASSUME p = v PROVE FALSE
    OBVIOUS
  <2>1. p \in Elms /\ x \in Kids(store, p)
    BY BelowIsUnder DEF Containers
  <2>2. x \in Below(v)
    BY <2>1, BelowIs, BelowIsUnder
  <2> QED BY <1>5, <2>1, <2>2
<1>8. \A p \in Containers(x) : p \in Elms /\ Containers(p)' \subseteq Containers(p)
  BY <1>3, <1>7 DEF Containers
<1> QED BY <1>1, <1>3, <1>5, <1>6, <1>8 DEF Told

\* What has been told stays told while the links stay.
LEMMA ToldKept ==
  ASSUME NEW e \in Elms, Told(e), stale'[e],
         \A x \in Elms : Containers(x)' = Containers(x),
         \A p \in Containers(e) : stale[p] => stale'[p],
         \A p \in Containers(e) : Pending(e, p) => stale'[p] \/ Pending(e, p)'
  PROVE  Told(e)'
<1>1. \A p \in Containers(e) : p \in Elms
  BY DEF Containers
<1> QED BY <1>1 DEF Told

\* The element whose env table is read is subscribed to by all that holds it.
LEMMA ReadEnvStale ==
  ASSUME StaleInv, NEW e \in Elms, ReadEnv(e), ~Deep(e)
  PROVE  FreshInv'
<1>1. /\ Settled /\ UNCHANGED <<store, ids, obs>> /\ fresh' = fresh \cup {e}
      /\ stale' = [stale EXCEPT ![e] = TRUE] /\ stale \in [Elms -> BOOLEAN]
      /\ calls' = <<[at |-> e, next |-> 1]>> /\ ev'.type = "env"
      /\ fresh \subseteq Elms /\ FreshInv
      /\ ShapesOK /\ ListedOnce /\ ContainersSubscribe
  BY DEF StaleInv, SubInv, TopInv, ShapesOK, ReadEnv, Fire
<1>2. \A x : Containers(x)' = Containers(x)
  BY <1>1 DEF Containers, Children
<1>3. ASSUME NEW x \in fresh PROVE Told(x)'
  <2>1. Told(x) /\ x \in Elms
    BY <1>1 DEF FreshInv
  <2>2. \A p \in Elms : stale[p] => stale'[p]
    BY <1>1
  <2>3. \A p \in Containers(x) : p \in Elms /\ stale[p]
    BY <1>1, <2>1 DEF Told, Pending, Containers
  <2> QED BY <1>2, <2>1, <2>2, <2>3 DEF Told
<1>4. Told(e)'
  <2>1. ASSUME NEW p \in Containers(e) PROVE Containers(p) = {} /\ Pending(e, p)'
    <3>1. Containers(p) = {}
      BY <2>1 DEF Deep
    <3>2. p \in Elms /\ e \in Children(p) /\ p # e
      BY <2>1, <3>1 DEF Containers
    <3>3. OnceIn(obs[e], p)
      BY <1>1, <3>2 DEF ContainersSubscribe, ListedOnce, Match
    <3>4. PICK j \in DOMAIN obs[e] : obs[e][j] = p
      BY <3>3 DEF OnceIn
    <3>5. j \in 1..Len(obs'[e]) /\ obs'[e][j] = p
      <4>1. obs[e] \in Seq(Elms)
        BY <1>1 DEF ShapesOK
      <4> QED BY <1>1, <3>4, <4>1
    <3>6. ~Settled' /\ calls'[1].at = e /\ calls'[1].next = 1
      BY <1>1 DEF Settled
    <3> QED BY <1>1, <3>1, <3>5, <3>6 DEF Pending
  <2>2. stale'[e]
    BY <1>1
  <2> QED BY <1>2, <2>1, <2>2 DEF Told
<1> QED BY <1>1, <1>3, <1>4 DEF FreshInv

\* A call of an observer marks it, if it is of such an event.
LEMMA NotifyStale ==
  ASSUME StaleInv, Notify
  PROVE  FreshInv'
<1> DEFINE Frame == [at : Elms, next : Nat \ {0}]
           n == Len(calls)
           top == calls[n]
           o == obs[top.at][top.next]
           rest == [calls EXCEPT ![n].next = @ + 1]
<1>0. ShapesOK
  BY DEF StaleInv, SubInv, TopInv
<1>1. /\ calls \in Seq(Frame) /\ n \in Nat \ {0}
      /\ UNCHANGED <<store, ids, obs, fresh, ev>>
      /\ stale \in [Elms -> BOOLEAN] /\ FreshInv /\ fresh \subseteq Elms
      /\ rest \in Seq(Frame) /\ o \in Elms
  BY <1>0, NotifyShapes, SMTT(30) DEF StaleInv, ShapesOK, Notify, Settled
<1>2. \A x : Containers(x)' = Containers(x)
  BY <1>1 DEF Containers, Children
<1>3. /\ \A p \in Elms : stale[p] => stale'[p]
      /\ ev.type = "env" /\ o \in Elms => stale'[o]
  BY <1>1 DEF Notify, Handle
<1>4. calls[1] \in Frame
  <2> HIDE DEF Frame
  <2> QED BY <1>1
<1>5. /\ ~Settled'
      /\ n = 1 => calls'[1].at = calls[1].at /\ calls'[1].next = calls[1].next + 1
      /\ n # 1 => calls'[1] = calls[1]
  <2>1. calls' = Append(rest, [at |-> o, next |-> 1]) \/ calls' = rest
    BY DEF Notify
  <2>2. /\ Len(rest) = n
        /\ n = 1 => rest[1] = [calls[1] EXCEPT !.next = @ + 1]
        /\ n # 1 => rest[1] = calls[1]
    <3> HIDE DEF Frame
    <3> QED BY <1>1
  <2>3. Len(calls') >= n /\ calls'[1] = rest[1]
    <3>1. [at |-> o, next |-> 1] \in Frame
      BY <1>1
    <3> HIDE DEF rest, o, Frame
    <3> QED BY <1>1, <2>1, <2>2, <3>1
  <2>4. n = 1 => [calls[1] EXCEPT !.next = @ + 1].at = calls[1].at
                 /\ [calls[1] EXCEPT !.next = @ + 1].next = calls[1].next + 1
    BY <1>4
  <2>5. Len(calls') # 0
    BY <1>1, <2>3
  <2>6. calls' # << >>
    <3> HIDE DEF Frame
    <3> QED BY <1>1, <2>5
  <2> QED BY <2>2, <2>3, <2>4, <2>6 DEF Settled
<1>6. SUFFICES ASSUME NEW x \in fresh PROVE Told(x)'
  BY <1>1 DEF FreshInv
<1>7. Told(x) /\ x \in Elms /\ stale'[x]
  BY <1>1, <1>3 DEF FreshInv, Told
<1>8. ASSUME NEW p \in Containers(x), Pending(x, p)
      PROVE  stale'[p] \/ Pending(x, p)'
  <2>1. p \in Elms /\ ev.type = "env" /\ calls[1].at = x
    BY <1>8 DEF Pending, Containers
  <2>2. PICK j \in calls[1].next..Len(obs[x]) : obs[x][j] = p
    BY <1>8 DEF Pending
  <2>3. CASE n # 1
    BY <1>1, <1>5, <2>1, <2>2, <2>3 DEF Pending
  <2>4. CASE n = 1 /\ j = calls[1].next
    BY <1>3, <2>1, <2>2, <2>4
  <2>5. CASE n = 1 /\ j # calls[1].next
    <3>1. j \in (calls[1].next + 1)..Len(obs[x])
      BY <1>4, <2>2, <2>5
    <3> QED BY <1>1, <1>5, <2>1, <2>2, <2>5, <3>1 DEF Pending
  <2> QED BY <2>3, <2>4, <2>5
<1>9. \A p \in Containers(x) : stale[p] => stale'[p]
  BY <1>3 DEF Containers
<1> QED BY <1>2, <1>7, <1>8, <1>9, ToldKept

\* When the first activation ends it has called all its observers.
LEMMA ReturnStale ==
  ASSUME StaleInv, Return
  PROVE  FreshInv'
<1> DEFINE Frame == [at : Elms, next : Nat \ {0}]
           n == Len(calls)
<1>0. ShapesOK
  BY DEF StaleInv, SubInv, TopInv
<1>1. /\ calls \in Seq(Frame) /\ n \in Nat \ {0}
      /\ calls' = SubSeq(calls, 1, n - 1)
      /\ UNCHANGED <<store, ids, obs, fresh, stale>>
      /\ FreshInv /\ fresh \subseteq Elms
      /\ n # 1 => ev' = ev
      /\ calls[n].next > Len(obs[calls[n].at])
  BY <1>0 DEF StaleInv, ShapesOK, Return, Settled
<1>2. \A x : Containers(x)' = Containers(x)
  BY <1>1 DEF Containers, Children
<1>3. SUFFICES ASSUME NEW x \in fresh PROVE Told(x)'
  BY <1>1 DEF FreshInv
<1>4. Told(x) /\ x \in Elms /\ stale'[x]
  BY <1>1 DEF FreshInv, Told
<1>5. calls[1] \in Frame
  <2> HIDE DEF Frame
  <2> QED BY <1>1
<1>6. ASSUME NEW p \in Containers(x), Pending(x, p) PROVE Pending(x, p)'
  <2>1. PICK j \in calls[1].next..Len(obs[x]) : obs[x][j] = p
    BY <1>6 DEF Pending
  <2>2. calls[1].at = x /\ ev.type = "env"
    BY <1>6 DEF Pending
  <2>3. n # 1
    <3>1. obs[x] \in Seq(Elms)
      BY <1>0, <1>4 DEF ShapesOK
    <3>2. Len(obs[x]) \in Nat
      BY <3>1
    <3> QED BY <1>1, <1>5, <2>1, <2>2, <3>2
  <2>4. calls'[1] = calls[1] /\ calls' # << >>
    <3> HIDE DEF Frame
    <3>1. n - 1 \in Nat /\ 1 <= n - 1 /\ n - 1 <= n
      <4> HIDE DEF n
      <4> QED BY <1>1, <2>3
    <3>2. Len(calls') = n - 1 /\ calls'[1] = calls[1] /\ calls' \in Seq(Frame)
      BY <1>1, <3>1, SubSeqProperties
    <3> QED BY <3>1, <3>2
  <2> QED BY <1>1, <2>1, <2>2, <2>3, <2>4 DEF Pending, Settled
<1>7. \A p \in Containers(x) : stale[p] => stale'[p]
  BY <1>1
<1> QED BY <1>2, <1>4, <1>6, <1>7, ToldKept

\* The links and marks of elements that are out stay as they are.
LEMMA StaleKept ==
  ASSUME FreshInv, fresh \subseteq Elms, \A x \in Elms : Children(x)' = Children(x),
         UNCHANGED <<obs, stale, calls, ev, fresh>>
  PROVE  FreshInv'
<1>1. \A x \in Elms : Containers(x)' = Containers(x)
  BY DEF Containers
<1>2. \A x, p : Pending(x, p)' <=> Pending(x, p)
  BY DEF Pending, Settled
<1> QED BY <1>1, <1>2, ToldKept DEF FreshInv, Told

LEMMA InitStale == Init => StaleInv
  BY InitSub DEF Init, StaleInv, FreshInv

LEMMA NextStale == Telling /\ StaleInv /\ [Next]_vars => StaleInv'
<1> SUFFICES ASSUME Telling, StaleInv, [Next]_vars PROVE StaleInv'
  OBVIOUS
<1>1. SubInv /\ SubInv' /\ TopInv /\ ShapesOK /\ FreshInv /\ fresh \subseteq Elms
  BY NextSub DEF StaleInv, SubInv, TopInv, Telling, ShapesOK
<1>2. CASE Stores
  <2>1. PICK e \in Elms, s \in Slots, v \in Value :
          /\ \A x \in {v, store[e][s]} \cap Elms : stale[x] => May("stale_child")
          /\ v \in Elms => \A x \in Below(v) : stale[x] => May("stale_child")
          /\ Store(e, s, v)
    BY <1>2 DEF Stores
  <2>2. v \in Elms => ~stale[v] /\ \A x \in Below(v) : ~stale[x]
    BY <2>1 DEF Telling, May
  <2> QED BY <1>1, <2>1, <2>2, StoreStale DEF StaleInv
<1>3. CASE EnvReads
  <2>1. PICK e \in Elms : (Deep(e) => May("deep_raw")) /\ ReadEnv(e)
    BY <1>3 DEF EnvReads
  <2>2. ~Deep(e)
    BY <2>1 DEF Telling, May
  <2> QED BY <1>1, <2>1, <2>2, ReadEnvStale DEF StaleInv
<1>4. CASE RawWrites
  <2>1. PICK e \in Elms, s \in Slots, v \in Prims : RawWrite(e, s, v)
    BY <1>4 DEF RawWrites
  <2>2. \A x \in Elms : Children(x)' = Children(x)
    BY <1>1, <2>1, RawWriteTop
  <2> QED BY <1>1, <2>1, <2>2, StaleKept DEF StaleInv, RawWrite
<1>5. CASE Renderings
  <2>1. fresh' = {}
    BY <1>5 DEF Renderings, Length, Stringify, StringifyOne
  <2> QED BY <1>1, <2>1 DEF StaleInv, FreshInv
<1>6. CASE Notify
  BY <1>1, <1>6, NotifyStale DEF StaleInv
<1>7. CASE Return
  BY <1>1, <1>7, ReturnStale DEF StaleInv
<1>8. CASE UNCHANGED vars
  <2>1. \A x \in Elms : Children(x)' = Children(x)
    BY <1>8 DEF vars, Children
  <2> QED BY <1>1, <1>8, <2>1, StaleKept DEF StaleInv, vars
<1> QED BY <1>2, <1>3, <1>4, <1>5, <1>6, <1>7, <1>8 DEF Next, Overflow

\* What is below an element has a container, and what is not in it directly
\* has one that is below it, too.
LEMMA BelowHeld ==
  ASSUME NEW st, NEW e
  PROVE  \A x \in Under(st, e) :
           x \in Kids(st, e) \/ \E y \in Under(st, e) : x \in Kids(st, y)
<1> DEFINE U == {x \in Under(st, e) :
                  x \in Kids(st, e) \/ \E y \in Under(st, e) : x \in Kids(st, y)}
<1>1. Kids(st, e) \subseteq U /\ \A x \in U : Kids(st, x) \subseteq U
  BY BelowIs
<1> HIDE DEF U
<1>2. Under(st, e) \subseteq U
  BY <1>1, BelowLeast
<1> QED BY <1>2 DEF U

\* Between calls, whatever contains an element whose env table is out is marked.
LEMMA FreshBelowStale ==
  ASSUME StaleInv, Settled, NEW x \in Elms, NEW e \in fresh, e \in {x} \cup Below(x)
  PROVE  stale[x]
<1>1. stale[e] /\ \A p \in Containers(e) : Containers(p) = {} /\ stale[p]
  BY DEF StaleInv, FreshInv, Told, Pending
<1>2. CASE e = x
  BY <1>1, <1>2
<1>3. CASE e \in Kids(store, x)
  BY <1>1, <1>3, BelowIsUnder DEF Containers
<1>4. CASE e \in Below(x) /\ e \notin Kids(store, x)
  <2>1. PICK p \in Under(store, x) : e \in Kids(store, p)
    BY <1>4, BelowIsUnder, BelowHeld
  <2>2. p \in Elms
    BY BelowIs
  <2>3. \E q \in Elms : p \in Kids(store, q)
    BY BelowHeld, BelowIs
  <2>4. p \in Containers(e) /\ Containers(p) # {}
    BY <2>1, <2>2, <2>3, BelowIsUnder DEF Containers
  <2> QED BY <1>1, <2>4
<1> QED BY <1>2, <1>3, <1>4

\* Between calls, the mark of an element whose env table is out has reached
\* whatever contains it: what is not marked can be trusted.
THEOREM StaleAlwaysReachesRoot ==
  ASSUME Telling
  PROVE  Spec => []StaleReachesRoot
<1>1. Spec => []StaleInv
  BY InitStale, NextStale, PTL DEF Spec
<1>2. StaleInv => StaleReachesRoot
  BY FreshBelowStale, ConstantsAreSound DEF StaleReachesRoot
<1> QED BY <1>1, <1>2, PTL

-------------------------------------------------------------------------------
(***************************************************************************)
(* The length ledgers of any number of nested elements.  Bookings are      *)
(* local: an element and its children differ by the calls that are due     *)
(* between them.  What nests without a cycle has one solution of these     *)
(* equations, which is what the ledger should hold.                        *)
(***************************************************************************)

\* What the ledger of x comes to in the store st if K has those of its children.
Total(st, x, K) ==
  2 + SumFunctionOnSet([s \in Slots |-> Booking(x, st[x][s], K)], Slots)

\* The number of elements, and of rounds.
N == Cardinality(Elms)

\* What the env tables and the ledgers can be.
Tables == [Elms -> [Slots -> Value]]
Lengths == [Elms -> Int]

LEMMA BookingInt ==
  ASSUME NEW K \in Lengths, NEW x \in Elms, NEW v \in Value
  PROVE  Booking(x, v, K) \in Int
<1>1. KeyWidth[x] \in Int /\ \A w \in Prims : Width[w] \in Int
  BY ConstantsAreSound
<1> QED BY <1>1 DEF Booking, Value, Lengths

LEMMA TotalInt ==
  ASSUME NEW st \in Tables, NEW K \in Lengths, NEW x \in Elms
  PROVE  Total(st, x, K) \in Int
<1> DEFINE f == [s \in Slots |-> Booking(x, st[x][s], K)]
<1>1. \A s \in Slots : f[s] \in Int
  BY BookingInt DEF Tables
<1> HIDE DEF f
<1>2. SumFunctionOnSet(f, Slots) \in Int
  BY <1>1, ConstantsAreSound, SumTakeOut
<1>3. Total(st, x, K) = 2 + SumFunctionOnSet(f, Slots)
  BY DEF Total, f
<1> QED BY <1>2, <1>3

\* A total depends on the slots of the element and the ledgers of its children.
LEMMA TotalSame ==
  ASSUME NEW st \in Tables, NEW st2 \in Tables, NEW K, NEW K2, NEW x \in Elms,
         st2[x] = st[x], \A c \in Kids(st, x) : K2[c] = K[c]
  PROVE  Total(st2, x, K2) = Total(st, x, K)
<1> DEFINE f == [s \in Slots |-> Booking(x, st[x][s], K)]
           g == [s \in Slots |-> Booking(x, st2[x][s], K2)]
<1>1. ASSUME NEW s \in Slots PROVE g[s] = f[s]
  <2>1. st[x][s] \in Prims \cup {Vacant} \/ st[x][s] \in Kids(st, x)
    BY DEF Tables, Value, Kids, Held
  <2> QED BY <2>1 DEF Booking
<1> HIDE DEF f, g
<1>2. SumFunctionOnSet(g, Slots) = SumFunctionOnSet(f, Slots)
  BY <1>1, ConstantsAreSound, SumSame
<1> QED BY <1>2 DEF Total, f, g

\* One child's ledger moves, and the child is in one slot.
LEMMA TotalRaised ==
  ASSUME NEW st \in Tables, NEW K \in Lengths, NEW x \in Elms, NEW o \in Kids(st, x),
         \A s, t \in Slots : st[x][s] = st[x][t] /\ st[x][s] \in Elms => s = t,
         NEW d \in Int
  PROVE  Total(st, x, [K EXCEPT ![o] = @ + d]) = Total(st, x, K) + d
<1> DEFINE K2 == [K EXCEPT ![o] = @ + d]
           f == [s \in Slots |-> Booking(x, st[x][s], K)]
           g == [s \in Slots |-> Booking(x, st[x][s], K2)]
<1>1. K2 \in Lengths /\ o \in Elms /\ K2[o] = K[o] + d /\ \A y \in Elms \ {o} : K2[y] = K[y]
  BY DEF Lengths, Kids, Held
<1>2. PICK s \in Slots : st[x][s] = o
  BY DEF Kids, Held
<1> HIDE DEF K2
<1>3. \A t \in Slots : f[t] \in Int /\ g[t] \in Int
  BY <1>1, BookingInt DEF Tables
<1>4. \A t \in Slots \ {s} : g[t] = f[t]
  <2> SUFFICES ASSUME NEW t \in Slots \ {s} PROVE Booking(x, st[x][t], K2) = Booking(x, st[x][t], K)
    OBVIOUS
  <2>1. st[x][t] \in Value /\ st[x][t] # o
    BY <1>1, <1>2 DEF Tables
  <2> QED BY <1>1, <2>1 DEF Booking, Value
<1>5. g[s] - f[s] = d
  <2>1. o \notin Prims /\ o # Vacant /\ KeyWidth[x] \in Int /\ K[o] \in Int
    BY <1>1, ConstantsAreSound DEF Lengths
  <2>2. g[s] = KeyWidth[x] + K2[o] /\ f[s] = KeyWidth[x] + K[o]
    BY <1>2, <2>1 DEF Booking
  <2> QED BY <1>1, <2>1, <2>2
<1>6. Total(st, x, K2) = 2 + SumFunctionOnSet(g, Slots)
      /\ Total(st, x, K) = 2 + SumFunctionOnSet(f, Slots)
  BY DEF Total
<1> HIDE DEF f, g
<1>7. SumFunctionOnSet(g, Slots) = SumFunctionOnSet(f, Slots) + (g[s] - f[s])
  BY <1>3, <1>4, ConstantsAreSound, SumOneChanged
<1>8. SumFunctionOnSet(f, Slots) \in Int
  BY <1>3, ConstantsAreSound, SumTakeOut
<1> QED BY <1>5, <1>6, <1>7, <1>8 DEF K2

\* One slot of the element changes.
LEMMA TotalStored ==
  ASSUME NEW st \in Tables, NEW K \in Lengths, NEW x \in Elms, NEW s \in Slots, NEW v \in Value
  PROVE  Total([st EXCEPT ![x][s] = v], x, K)
           = Total(st, x, K) + (Booking(x, v, K) - Booking(x, st[x][s], K))
<1> DEFINE st2 == [st EXCEPT ![x][s] = v]
           f == [t \in Slots |-> Booking(x, st[x][t], K)]
           g == [t \in Slots |-> Booking(x, st2[x][t], K)]
<1>1. st2 \in Tables /\ st2[x][s] = v /\ \A t \in Slots \ {s} : st2[x][t] = st[x][t]
  BY DEF Tables
<1> HIDE DEF st2
<1>2. \A t \in Slots : f[t] \in Int /\ g[t] \in Int
  BY <1>1, BookingInt DEF Tables
<1>3. \A t \in Slots \ {s} : g[t] = f[t]
  BY <1>1
<1>4. g[s] = Booking(x, v, K) /\ f[s] = Booking(x, st[x][s], K)
  BY <1>1
<1>5. Total(st2, x, K) = 2 + SumFunctionOnSet(g, Slots)
      /\ Total(st, x, K) = 2 + SumFunctionOnSet(f, Slots)
  BY DEF Total
<1> HIDE DEF f, g
<1>6. SumFunctionOnSet(g, Slots) = SumFunctionOnSet(f, Slots) + (g[s] - f[s])
  BY <1>2, <1>3, ConstantsAreSound, SumOneChanged
<1>7. SumFunctionOnSet(f, Slots) \in Int
  BY <1>2, ConstantsAreSound, SumTakeOut
<1>8. g[s] \in Int /\ f[s] \in Int
  BY <1>2
<1>9. Total(st2, x, K) = Total(st, x, K) + (g[s] - f[s])
  BY <1>5, <1>6, <1>7, <1>8
<1> QED BY <1>4, <1>9 DEF st2

-------------------------------------------------------------------------------
(***************************************************************************)
(* The ledgers as they should be, for a store that nests without a cycle.  *)
(***************************************************************************)
\* f lists the totals, the nesting followed 0 to n levels down.
TotalsTo(st, n, f) ==
  f = [d \in 0..n |-> LET nested == IF d = 0 THEN NoLengths ELSE f[d - 1]
                      IN  [x \in Elms |-> Total(st, x, nested)]]

LEMMA TotalsExist ==
  ASSUME NEW st, NEW n \in Nat
  PROVE  \E f : TotalsTo(st, n, f)
<1> DEFINE Tot(K) == [x \in Elms |-> Total(st, x, K)]
           Rec(k, f) == f = [d \in 0..k |-> IF d = 0 THEN Tot(NoLengths) ELSE Tot(f[d - 1])]
           T == {k \in Nat : ~ \E f : Rec(k, f)}
<1>1. \A k, f : TotalsTo(st, k, f) <=> Rec(k, f)
  <2> SUFFICES ASSUME NEW k, NEW f PROVE TotalsTo(st, k, f) <=> Rec(k, f)
    OBVIOUS
  <2>1. \A d \in 0..k : Tot(IF d = 0 THEN NoLengths ELSE f[d - 1])
                        = IF d = 0 THEN Tot(NoLengths) ELSE Tot(f[d - 1])
    OBVIOUS
  <2>2. TotalsTo(st, k, f) <=> f = [d \in 0..k |-> Tot(IF d = 0 THEN NoLengths ELSE f[d - 1])]
    BY DEF TotalsTo
  <2> HIDE DEF Tot
  <2>3. [d \in 0..k |-> Tot(IF d = 0 THEN NoLengths ELSE f[d - 1])]
          = [d \in 0..k |-> IF d = 0 THEN Tot(NoLengths) ELSE Tot(f[d - 1])]
    BY <2>1
  <2> QED BY <2>2, <2>3
<1> HIDE DEF Tot
<1>2. T = {}
  <2> SUFFICES ASSUME T # {} PROVE FALSE
    OBVIOUS
  <2>1. PICK k \in T : \A m \in T : k <= m
    BY LeastNat
  <2>2. k \in Nat
    BY <2>1
  <2>3. CASE k = 0
    <3> DEFINE f == [d \in 0..0 |-> Tot(NoLengths)]
    <3>1. f = [d \in 0..0 |-> IF d = 0 THEN Tot(NoLengths) ELSE Tot(f[d - 1])]
      OBVIOUS
    <3> HIDE DEF f
    <3>2. Rec(0, f)
      BY <3>1
    <3> QED BY <2>3, <3>2
  <2>4. CASE k # 0
    <3>1. k - 1 \in Nat /\ k - 1 \notin T
      <4> HIDE DEF Rec
      <4> QED BY <2>1, <2>2, <2>4
    <3>2. PICK g : Rec(k - 1, g)
      BY <3>1
    <3> DEFINE f == [d \in 0..k |-> IF d = 0 THEN Tot(NoLengths) ELSE Tot(g[d - 1])]
    <3>3. \A d \in 0..(k - 1) : g[d] = IF d = 0 THEN Tot(NoLengths) ELSE Tot(g[d - 1])
      BY <3>2
    <3>4. \A d \in 0..k : d # 0 => d - 1 \in 0..(k - 1) /\ d - 1 \in 0..k
      BY <3>1
    <3>5. \A d \in 0..k : d # 0 => f[d - 1] = g[d - 1]
      BY <3>3, <3>4
    <3>6. f = [d \in 0..k |-> IF d = 0 THEN Tot(NoLengths) ELSE Tot(f[d - 1])]
      BY <3>5
    <3> HIDE DEF f
    <3>7. Rec(k, f)
      BY <3>6
    <3> QED BY <3>7
  <2> QED BY <2>3, <2>4
<1> HIDE DEF Rec
<1> QED BY <1>1, <1>2

Totals(st) == CHOOSE f : TotalsTo(st, N, f)

\* The ledgers as they should be in the store st.
Proper(st) == Totals(st)[N]

LEMMA LedgerIsProper == \A e : Ledger(e) = Proper(store)[e]
  BY DEF Ledger, Proper, Totals, TotalsTo, Total, NoLengths, N

LEMMA TotalsRound ==
  ASSUME NEW st \in Tables
  PROVE  /\ N \in Nat
         /\ \A d \in 0..N : \A x \in Elms :
              Totals(st)[d][x] = Total(st, x, IF d = 0 THEN NoLengths ELSE Totals(st)[d - 1])
         /\ \A d \in 0..N : Totals(st)[d] \in Lengths
<1>1. N \in Nat
  BY ConstantsAreSound, FS_CardinalityType DEF N
<1> DEFINE f == Totals(st)
<1>2. TotalsTo(st, N, f)
  BY <1>1, TotalsExist DEF Totals
<1> HIDE DEF f
<1>3. \A d \in 0..N : f[d] = [x \in Elms |-> Total(st, x, IF d = 0 THEN NoLengths ELSE f[d - 1])]
  BY <1>2 DEF TotalsTo
<1>4. \A d \in 0..N : f[d] \in Lengths
  <2> DEFINE T == {d \in 0..N : f[d] \notin Lengths}
  <2> SUFFICES ASSUME T # {} PROVE FALSE
    OBVIOUS
  <2>1. T \subseteq Nat
    BY <1>1
  <2>2. PICK d \in T : \A m \in T : d <= m
    BY <2>1, LeastNat
  <2> DEFINE K == IF d = 0 THEN NoLengths ELSE f[d - 1]
  <2>3. K \in Lengths
    <3>1. CASE d = 0
      BY <3>1 DEF NoLengths, Lengths
    <3>2. CASE d # 0
      <4>1. d - 1 \in 0..N /\ d - 1 \notin T
        BY <1>1, <2>1, <2>2, <3>2
      <4> QED BY <3>2, <4>1
    <3> QED BY <3>1, <3>2
  <2>4. f[d] = [x \in Elms |-> Total(st, x, K)]
    BY <1>3, <2>2
  <2> HIDE DEF K
  <2>5. f[d] \in Lengths
    BY <2>3, <2>4, TotalInt DEF Lengths
  <2> QED BY <2>2, <2>5
<1>5. \A d \in 0..N : \A x \in Elms : f[d][x] = Total(st, x, IF d = 0 THEN NoLengths ELSE f[d - 1])
  BY <1>3
<1> QED BY <1>1, <1>4, <1>5 DEF f

NestsIn(st) == st \in Tables /\ \A x \in Elms : x \notin Under(st, x)

\* How deep x nests, at most.
Size(st, x) == Cardinality(Under(st, x))

LEMMA ChildSmaller ==
  ASSUME NEW st, NestsIn(st), NEW x \in Elms
  PROVE  /\ Size(st, x) \in Nat /\ Size(st, x) < N /\ N \in Nat
         /\ \A c \in Kids(st, x) : c \in Elms /\ Size(st, c) \in Nat /\ Size(st, c) < Size(st, x)
<1>1. N \in Nat /\ IsFiniteSet(Elms)
  BY ConstantsAreSound, FS_CardinalityType DEF N
<1>2. ASSUME NEW y \in Elms
      PROVE  /\ IsFiniteSet(Under(st, y)) /\ Size(st, y) \in Nat
             /\ \A Z : IsFiniteSet(Z) /\ Under(st, y) \subseteq Z /\ y \in Z
                    => Size(st, y) < Cardinality(Z)
  <2>1. Under(st, y) \subseteq Elms /\ y \notin Under(st, y)
    BY BelowIs DEF NestsIn
  <2>2. IsFiniteSet(Under(st, y)) /\ Size(st, y) \in Nat
    BY <1>1, <2>1, FS_Subset, FS_CardinalityType DEF Size
  <2>3. ASSUME NEW Z, IsFiniteSet(Z), Under(st, y) \subseteq Z, y \in Z
        PROVE  Size(st, y) < Cardinality(Z)
    <3>1. /\ Cardinality(Under(st, y)) <= Cardinality(Z)
          /\ Cardinality(Under(st, y)) # Cardinality(Z)
      BY <2>1, <2>3, FS_Subset
    <3>2. Cardinality(Z) \in Nat
      BY <2>3, FS_CardinalityType
    <3> QED BY <2>2, <3>1, <3>2 DEF Size
  <2> QED BY <2>2, <2>3
<1>3. Under(st, x) \subseteq Elms
  BY BelowIs
<1>4. Size(st, x) < N
  BY <1>1, <1>2, <1>3 DEF N
<1>5. ASSUME NEW c \in Kids(st, x) PROVE c \in Elms /\ Size(st, c) < Size(st, x)
  <2>1. c \in Under(st, x) /\ Under(st, c) \subseteq Under(st, x) /\ c \in Elms
    BY BelowIs
  <2> QED BY <1>2, <2>1 DEF Size
<1> QED BY <1>1, <1>2, <1>4, <1>5

\* Where the equations hold of K, it is what the levels add up to.
LEMMA Solved ==
  ASSUME NEW st, NestsIn(st), NEW X, X \subseteq Elms, \A x \in X : Kids(st, x) \subseteq X,
         NEW K, \A x \in X : K[x] = Total(st, x, K)
  PROVE  \A d \in 0..N : \A x \in X : Size(st, x) <= d => Totals(st)[d][x] = K[x]
<1> DEFINE Holds(d) == \A x \in X : Size(st, x) <= d => Totals(st)[d][x] = K[x]
           T == {d \in 0..N : ~Holds(d)}
<1> SUFFICES ASSUME T # {} PROVE FALSE
  OBVIOUS
<1>0. st \in Tables /\ N \in Nat
  BY TotalsRound DEF NestsIn
<1>1. PICK d \in T : \A m \in T : d <= m
  <2>1. T \subseteq Nat
    BY <1>0
  <2> HIDE DEF T
  <2> QED BY <2>1, LeastNat
<1>2. d \in 0..N /\ ~Holds(d)
  BY <1>1
<1>3. PICK x \in X : Size(st, x) <= d /\ Totals(st)[d][x] # K[x]
  BY <1>2
<1> DEFINE K2 == IF d = 0 THEN NoLengths ELSE Totals(st)[d - 1]
<1>4. ASSUME NEW c \in Kids(st, x) PROVE K2[c] = K[c]
  <2>1. x \in Elms /\ c \in X
    BY <1>3
  <2>2. Size(st, c) \in Nat /\ Size(st, x) \in Nat /\ Size(st, c) < Size(st, x)
    BY <2>1, ChildSmaller
  <2>3. d # 0 /\ d - 1 \in 0..N /\ Size(st, c) <= d - 1
    BY <1>0, <1>2, <1>3, <2>2
  <2>4. d - 1 \notin T
    <3> HIDE DEF T
    <3> QED BY <1>0, <1>1, <1>2, <2>3
  <2>5. Totals(st)[d - 1][c] = K[c]
    BY <2>1, <2>3, <2>4
  <2> QED BY <2>3, <2>5
<1>5. Totals(st)[d][x] = Total(st, x, K2)
  BY <1>0, <1>2, <1>3, TotalsRound
<1> HIDE DEF K2, T
<1>6. Total(st, x, K2) = Total(st, x, K)
  BY <1>0, <1>3, <1>4, TotalSame
<1> QED BY <1>3, <1>5, <1>6

\* The levels add up to a solution.
LEMMA ProperSolves ==
  ASSUME NEW st, NestsIn(st)
  PROVE  Proper(st) \in Lengths /\ \A x \in Elms : Proper(st)[x] = Total(st, x, Proper(st))
<1> DEFINE L(d) == Totals(st)[d]
           Holds(d) == \A x \in Elms : Size(st, x) <= d =>
                         \A k \in d..N : L(k)[x] = L(d)[x]
           T == {d \in 0..N : ~Holds(d)}
<1>0. st \in Tables /\ N \in Nat
  BY TotalsRound DEF NestsIn
<1>1. ASSUME NEW d \in 0..N, \A m \in 0..N : m < d => Holds(m), NEW x \in Elms,
             Size(st, x) <= d, NEW k \in d..N
      PROVE  L(k)[x] = L(d)[x]
  <2> DEFINE K == IF d = 0 THEN NoLengths ELSE Totals(st)[d - 1]
             K2 == IF k = 0 THEN NoLengths ELSE Totals(st)[k - 1]
  <2>1. ASSUME NEW c \in Kids(st, x) PROVE K2[c] = K[c]
    <3>1. /\ Size(st, c) \in Nat /\ Size(st, x) \in Nat /\ Size(st, c) < Size(st, x)
          /\ c \in Elms
      BY ChildSmaller
    <3>2. /\ d # 0 /\ k # 0 /\ d - 1 \in 0..N /\ d - 1 < d /\ Size(st, c) <= d - 1
          /\ k - 1 \in (d - 1)..N
      BY <1>0, <1>1, <3>1
    <3>3. Holds(d - 1)
      <4> HIDE DEF Holds
      <4> QED BY <1>1, <3>2
    <3>4. L(k - 1)[c] = L(d - 1)[c]
      BY <3>1, <3>2, <3>3
    <3> QED BY <3>2, <3>4
  <2>2. k \in 0..N
    BY <1>0
  <2>3. L(k)[x] = Total(st, x, K2) /\ L(d)[x] = Total(st, x, K)
    BY <1>0, <2>2, TotalsRound
  <2> HIDE DEF K, K2, L
  <2>4. Total(st, x, K2) = Total(st, x, K)
    BY <1>0, <2>1, TotalSame
  <2> QED BY <2>3, <2>4
<1>2. \A d \in 0..N : Holds(d)
  <2> SUFFICES ASSUME T # {} PROVE FALSE
    OBVIOUS
  <2>1. PICK d \in T : \A m \in T : d <= m
    <3>1. T \subseteq Nat
      BY <1>0
    <3> HIDE DEF T
    <3> QED BY <3>1, LeastNat
  <2>2. d \in 0..N /\ ~Holds(d)
    BY <2>1
  <2> HIDE DEF Holds
  <2>3. \A m \in 0..N : m < d => Holds(m)
    BY <1>0, <2>1, <2>2
  <2>4. Holds(d)
    BY <1>1, <2>2, <2>3 DEF Holds
  <2> QED BY <2>2, <2>4
<1>3. Proper(st) \in Lengths
  BY <1>0, TotalsRound DEF Proper
<1>4. ASSUME NEW x \in Elms PROVE Proper(st)[x] = Total(st, x, Proper(st))
  <2>1. Size(st, x) \in Nat /\ Size(st, x) < N
    BY ChildSmaller
  <2>2. N # 0 /\ N \in 0..N /\ N - 1 \in 0..N /\ N \in (N - 1)..N
    BY <1>0, <2>1
  <2>3. ASSUME NEW c \in Kids(st, x) PROVE Proper(st)[c] = Totals(st)[N - 1][c]
    <3>1. c \in Elms /\ Size(st, c) \in Nat /\ Size(st, c) < Size(st, x)
      BY ChildSmaller
    <3>2. Size(st, c) <= N - 1
      BY <1>0, <2>1, <3>1
    <3>3. Holds(N - 1)
      BY <1>2, <2>2
    <3> QED BY <2>2, <3>1, <3>2, <3>3 DEF Proper
  <2>4. Proper(st)[x] = Total(st, x, Totals(st)[N - 1])
    BY <1>0, <2>2, TotalsRound DEF Proper
  <2> QED BY <1>0, <2>3, <2>4, TotalSame
<1> QED BY <1>3, <1>4

-------------------------------------------------------------------------------
(***************************************************************************)
(* A text has a length.                                                    *)
(***************************************************************************)
TextOver(K) ==
  LET shown == [x \in Elms |-> [s \in Slots |->
                 KeyWidth[x] + (IF store[x][s] \in Prims THEN Width[store[x][s]]
                                ELSE K[store[x][s]])]]
  IN  [x \in Elms |-> 2 + Commas(Cardinality(Used(x))) + SumFunctionOnSet(shown[x], Used(x))]

TextsTo(n, f) ==
  f = [d \in 0..n |-> LET nested == IF d = 0 THEN NoLengths ELSE f[d - 1]
                      IN  TextOver(nested)]

LEMMA TextInt ==
  ASSUME ShapesOK, NEW e \in Elms
  PROVE  Text(e) \in Int
<1> DEFINE Texts == CHOOSE f : TextsTo(N, f)
<1>1. Text(e) = Texts[N][e]
  BY DEF Text, TextsTo, TextOver, N
<1>2. ASSUME NEW K \in Lengths PROVE TextOver(K) \in Lengths
  <2> DEFINE shown(x) == [s \in Slots |->
                 KeyWidth[x] + (IF store[x][s] \in Prims THEN Width[store[x][s]]
                                ELSE K[store[x][s]])]
  <2>1. ASSUME NEW x \in Elms
        PROVE  2 + Commas(Cardinality(Used(x))) + SumFunctionOnSet(shown(x), Used(x)) \in Int
    <3>1. IsFiniteSet(Used(x)) /\ Cardinality(Used(x)) \in Nat
      BY ConstantsAreSound, FS_Subset, FS_CardinalityType DEF Used
    <3>2. \A s \in Used(x) : shown(x)[s] \in Int
      <4>1. KeyWidth[x] \in Int /\ \A w \in Prims : Width[w] \in Int
        BY ConstantsAreSound
      <4>2. ASSUME NEW s \in Used(x) PROVE store[x][s] \in Prims \cup Elms /\ s \in Slots
        BY DEF ShapesOK, Used, Value
      <4> QED BY <4>1, <4>2 DEF Lengths
    <3>3. Commas(Cardinality(Used(x))) \in Int
      BY <3>1 DEF Commas
    <3> HIDE DEF shown
    <3>4. SumFunctionOnSet(shown(x), Used(x)) \in Int
      BY <3>1, <3>2, SumTakeOut
    <3> QED BY <3>3, <3>4
  <2>2. TextOver(K) = [x \in Elms |-> 2 + Commas(Cardinality(Used(x)))
                                         + SumFunctionOnSet(shown(x), Used(x))]
    BY DEF TextOver
  <2> HIDE DEF shown
  <2> QED BY <2>1, <2>2 DEF Lengths
<1>3. N \in Nat /\ NoLengths \in Lengths
  BY ConstantsAreSound, FS_CardinalityType DEF N, NoLengths, Lengths
<1> DEFINE step == [K \in Lengths |-> TextOver(K)]
<1>4. step \in [Lengths -> Lengths]
  BY <1>2
<1>5. PICK f \in [0..N -> Lengths] : Iterates(step, NoLengths, N, f)
  <2> HIDE DEF step
  <2> QED BY <1>3, <1>4, Iterated
<1>6. TextsTo(N, f)
  <2>1. \A d \in 0..N : (IF d = 0 THEN NoLengths ELSE f[d - 1]) \in Lengths
    BY <1>3
  <2>2. \A d \in 0..N : step[IF d = 0 THEN NoLengths ELSE f[d - 1]]
                        = TextOver(IF d = 0 THEN NoLengths ELSE f[d - 1])
    BY <2>1
  <2> HIDE DEF step
  <2> QED BY <1>5, <2>2 DEF TextsTo, Iterates
<1>7. TextsTo(N, Texts)
  BY <1>6
<1> HIDE DEF Texts, step
<1>8. \A d \in 0..N : Texts[d] \in Lengths
  <2> DEFINE T == {d \in 0..N : Texts[d] \notin Lengths}
  <2> SUFFICES ASSUME T # {} PROVE FALSE
    OBVIOUS
  <2>1. T \subseteq Nat
    BY <1>3
  <2>2. PICK d \in T : \A m \in T : d <= m
    BY <2>1, LeastNat
  <2>3. (IF d = 0 THEN NoLengths ELSE Texts[d - 1]) \in Lengths
    BY <1>3, <2>1, <2>2
  <2>4. Texts[d] = TextOver(IF d = 0 THEN NoLengths ELSE Texts[d - 1])
    BY <1>7, <2>2 DEF TextsTo
  <2> QED BY <1>2, <2>2, <2>3, <2>4
<1> QED BY <1>1, <1>3, <1>8 DEF Lengths

-------------------------------------------------------------------------------
(***************************************************************************)
(* A script that does none of what HabitNames lists but to write to env    *)
(* tables it has just read.                                                *)
(***************************************************************************)
Careful == Habits \subseteq {"raw"}

\* The activations on the stack cs that have yet to call x.
Owing(cs, ob, x) ==
  {i \in DOMAIN cs : \E j \in cs[i].next..Len(ob[cs[i].at]) : ob[cs[i].at][j] = x}

Owed(x) == ev.delta * Cardinality(Owing(calls, obs, x))

\* K balances the books: an element has the total of its slots, but for what it
\* is yet to be called with.  Where K is not the ledger, the element is marked.
Balanced(K) ==
  \A x \in Elms :
    /\ K[x] + Owed(x) = Total(store, x, K)
    /\ ~stale[x] => K[x] = rlen[x] + slack[x]

Books ==
  /\ LengthsOK
  /\ ev.type \in {"none", "env"} => ev.delta = 0
  /\ \A r \in Roots : Containers(r) = {}
  /\ \A x \in Elms \ Roots : slack[x] = 0
  /\ \E K \in Lengths : Balanced(K)

LedgerInv == TreeInv /\ StaleInv /\ Books

LEMMA Times ==
  /\ \A d \in Int : d * 0 = 0 /\ d * 1 = d
  /\ \A n \in Int : 0 * n = 0
  /\ \A d, n \in Int : d * n \in Int /\ d * (n + 1) = d * n + d /\ d * (n - 1) = d * n - d
  OBVIOUS

\* Nothing is owed between calls, nor with an event that moves no length.
LEMMA NothingOwed ==
  ASSUME NEW x, NEW cs \in Seq([at : Elms, next : Nat \ {0}]), NEW ob, NEW d \in Int,
         cs = << >> \/ d = 0
  PROVE  d * Cardinality(Owing(cs, ob, x)) = 0
<1>1. CASE cs = << >>
  <2>1. Owing(cs, ob, x) = {}
    BY <1>1 DEF Owing
  <2>2. Cardinality(Owing(cs, ob, x)) = 0
    BY <2>1, FS_EmptySet
  <2> QED BY <2>2, Times
<1>2. CASE d = 0
  <2>1. Owing(cs, ob, x) \in SUBSET (1..Len(cs)) /\ Len(cs) \in Nat
    BY DEF Owing
  <2>2. Cardinality(Owing(cs, ob, x)) \in Nat
    <3>1. IsFiniteSet(1..Len(cs))
      BY <2>1, FS_Interval
    <3> QED BY <2>1, <3>1, FS_Subset, FS_CardinalityType
  <2> QED BY <1>2, <2>2, Times
<1> QED BY <1>1, <1>2

\* Before a step and after it.
LEMMA OwedNothing ==
  ASSUME NEW x
  PROVE  /\ ShapesOK /\ LengthsOK /\ (Settled \/ ev.delta = 0) => Owed(x) = 0
         /\ ShapesOK' /\ LengthsOK' /\ (Settled' \/ ev'.delta = 0) => Owed(x)' = 0
  BY NothingOwed DEF ShapesOK, LengthsOK, Settled, Owed

LEMMA OwedInt ==
  ASSUME NEW x, ShapesOK, LengthsOK
  PROVE  Cardinality(Owing(calls, obs, x)) \in Nat /\ Owed(x) \in Int
<1>1. calls \in Seq([at : Elms, next : Nat \ {0}])
  BY DEF ShapesOK
<1>2. Owing(calls, obs, x) \in SUBSET (1..Len(calls)) /\ Len(calls) \in Nat
  BY <1>1 DEF Owing
<1>3. IsFiniteSet(1..Len(calls))
  BY <1>2, FS_Interval
<1>4. Cardinality(Owing(calls, obs, x)) \in Nat
  BY <1>2, <1>3, FS_Subset, FS_CardinalityType
<1> QED BY <1>4, Times DEF Owed, LengthsOK

\* The first activation of an event owes every container of its element a call.
LEMMA FirstOwes ==
  ASSUME NEW ob, NEW id, Match(ob, id), ob \in [Elms -> Seq(Elms)],
         NEW e \in Elms, NEW x \in Elms
  PROVE  Cardinality(Owing(<<[at |-> e, next |-> 1]>>, ob, x))
           = IF e \in id[x] \ {x} THEN 1 ELSE 0
<1> DEFINE cs == <<[at |-> e, next |-> 1]>>
<1>1. DOMAIN cs = {1} /\ cs[1].at = e /\ cs[1].next = 1
  OBVIOUS
<1>2. DOMAIN ob[e] = 1..Len(ob[e])
  OBVIOUS
<1> HIDE DEF cs
<1>3. CASE e \in id[x] \ {x}
  <2>1. \E j \in 1..Len(ob[e]) : ob[e][j] = x
    BY <1>2, <1>3 DEF Match, OnceIn
  <2>2. Owing(cs, ob, x) = {1}
    BY <1>1, <2>1 DEF Owing
  <2> QED BY <1>3, <2>2, FS_Singleton DEF cs
<1>4. CASE e \notin id[x] \ {x}
  <2>1. \A j \in 1..Len(ob[e]) : ob[e][j] # x
    BY <1>2, <1>4 DEF Match, NotIn
  <2>2. Owing(cs, ob, x) = {}
    BY <1>1, <2>1 DEF Owing
  <2> QED BY <1>4, <2>2, FS_EmptySet DEF cs
<1> QED BY <1>3, <1>4

\* What an element listens to is what it holds, before a step and after it.
LEMMA HoldersListen ==
  /\ TreeInv =>
       \A x \in Elms : ids[x] \ {x} = Kids(store, x) /\ x \notin Kids(store, x)
  /\ TreeInv' =>
       \A x \in Elms : ids'[x] \ {x} = Kids(store', x) /\ x \notin Kids(store', x)
<1>1. /\ TreeInv => \A x \in Elms : /\ ids[x] \ {x} \subseteq Kids(store, x)
                                    /\ \A c \in Kids(store, x) : c \in ids[x]
                                    /\ x \notin Under(store, x)
      /\ TreeInv' => \A x \in Elms : /\ ids'[x] \ {x} \subseteq Kids(store', x)
                                     /\ \A c \in Kids(store', x) : c \in ids'[x]
                                     /\ x \notin Under(store', x)
  BY BelowIsUnder
     DEF TreeInv, SubInv, TopInv, NoCycle, ObserversContain, ContainersSubscribe
<1>2. \A st, x : Kids(st, x) \subseteq Under(st, x)
  BY BelowIs
<1> QED BY <1>1, <1>2

\* A store books the difference, and owes it to the containers.
LEMMA StoreLedger ==
  ASSUME LedgerInv, TreeInv', NEW e \in Elms, NEW s \in Slots, NEW v \in Value, Store(e, s, v),
         v \in Elms => v \notin Roots /\ ~stale[v],
         store[e][s] \in Elms => ~stale[store[e][s]]
  PROVE  Books'
<1> DEFINE old == store[e][s]
           delta == ValLength(e, v) - ValLength(e, old)
<1>1. /\ Settled /\ LengthsOK /\ ShapesOK /\ ShapesOK' /\ HeldOnce /\ HeldOnce'
      /\ ListedOnce' /\ obs' \in [Elms -> Seq(Elms)]
      /\ store \in Tables /\ store' \in Tables /\ store' = [store EXCEPT ![e][s] = v]
      /\ rlen' = [rlen EXCEPT ![e] = @ + delta] /\ UNCHANGED <<stale, slack>>
      /\ calls' = <<[at |-> e, next |-> 1]>>
      /\ ev' = [type |-> IF old = Vacant THEN "newindex" ELSE "change", delta |-> delta]
  BY DEF LedgerInv, Books, TreeInv, SubInv, TopInv, ShapesOK, Tables, Store, Fire
<1>2. PICK K \in Lengths : Balanced(K)
  BY DEF LedgerInv, Books
<1>3. /\ \A r \in Roots : Containers(r) = {}
      /\ \A x \in Elms \ Roots : slack[x] = 0
  BY DEF LedgerInv, Books
<1>4. old \in Value /\ (old \in Elms => old \notin Roots)
  <2>1. old \in Elms => e \in Containers(old)
    BY DEF Containers, Children
  <2> QED BY <1>1, <1>3, <2>1 DEF Tables
<1>5. ASSUME NEW u \in {old, v} PROVE ValLength(e, u) = Booking(e, u, K)
  <2>1. u \in Elms => rlen[u] = K[u]
    <3> SUFFICES ASSUME u \in Elms PROVE rlen[u] = K[u]
      OBVIOUS
    <3>1. u \notin Roots /\ ~stale[u]
      BY <1>4, <1>5
    <3>2. slack[u] = 0 /\ K[u] = rlen[u] + slack[u]
      BY <1>2, <1>3, <3>1 DEF Balanced
    <3>3. rlen[u] \in Int
      BY <1>1 DEF LengthsOK
    <3> QED BY <3>2, <3>3
  <2>2. u \in Value
    BY <1>4
  <2> QED BY <2>1, <2>2 DEF ValLength, Booking, Value
<1>6. /\ delta = Booking(e, v, K) - Booking(e, old, K)
      /\ delta \in Int
  <2>1. Booking(e, v, K) \in Int /\ Booking(e, old, K) \in Int
    BY <1>4, BookingInt
  <2>2. ValLength(e, v) = Booking(e, v, K) /\ ValLength(e, old) = Booking(e, old, K)
    BY <1>5
  <2> QED BY <2>1, <2>2
<1> HIDE DEF delta
<1> DEFINE K2 == [K EXCEPT ![e] = @ + delta]
<1>7. K2 \in Lengths /\ K2[e] = K[e] + delta /\ \A x \in Elms \ {e} : K2[x] = K[x]
  BY <1>6 DEF Lengths
<1>8. LengthsOK'
  <2>1. rlen' \in [Elms -> Int]
    BY <1>1, <1>6 DEF LengthsOK
  <2>2. ev' \in [type : {"none", "newindex", "change", "env"}, delta : Int]
    BY <1>1, <1>6
  <2> QED BY <1>1, <2>1, <2>2 DEF LengthsOK
<1>9. ASSUME NEW r \in Roots PROVE Containers(r)' = {}
  <2>1. r # v /\ r \in Elms
    BY ConstantsAreSound
  <2>2. \A x \in Elms : r \notin Children(x)
    BY <1>3 DEF Containers
  <2>3. \A x \in Elms : r \notin Children(x)'
    BY <2>1, <2>2, ChildrenStored DEF LedgerInv, TreeInv
  <2> QED BY <2>3 DEF Containers
<1>10. ASSUME NEW x \in Elms PROVE K[x] = Total(store, x, K)
  <2>1. Owed(x) = 0
    BY <1>1, OwedNothing
  <2>2. K[x] \in Int
    BY DEF Lengths
  <2> QED BY <1>2, <2>1, <2>2 DEF Balanced
<1>11. ASSUME NEW x \in Elms
       PROVE  Owed(x)' = IF e \in Kids(store', x) THEN delta ELSE 0
  <2>1. Cardinality(Owing(calls', obs', x)) = IF e \in ids'[x] \ {x} THEN 1 ELSE 0
    BY <1>1, FirstOwes DEF ListedOnce
  <2>2. e \in ids'[x] \ {x} <=> e \in Kids(store', x)
    BY HoldersListen
  <2>3. ev'.delta = delta
    BY <1>1
  <2> QED BY <1>1, <1>6, <2>1, <2>2, <2>3, Times DEF Owed
<1>12. ASSUME NEW x \in Elms PROVE K2[x] + Owed(x)' = Total(store', x, K2)
  <2>1. /\ Total(store, x, K) \in Int /\ Total(store', x, K) \in Int
    BY <1>1, TotalInt
  <2>2. /\ e \notin Kids(store', x) => Total(store', x, K2) = Total(store', x, K)
        /\ e \in Kids(store', x) => Total(store', x, K2) = Total(store', x, K) + delta
    <3>1. ASSUME e \notin Kids(store', x)
          PROVE  Total(store', x, K2) = Total(store', x, K)
      <4>1. \A c \in Kids(store', x) : K2[c] = K[c]
        BY <1>7, <3>1 DEF Kids, Held
      <4>2. store' \in Tables
        BY <1>1
      <4> HIDE DEF K2
      <4> QED BY <4>1, <4>2, TotalSame
    <3>2. ASSUME e \in Kids(store', x)
          PROVE  Total(store', x, K2) = Total(store', x, K) + delta
      <4>1. \A t, u \in Slots : store'[x][t] = store'[x][u] /\ store'[x][t] \in Elms => t = u
        BY <1>1 DEF HeldOnce
      <4>2. store' \in Tables
        BY <1>1
      <4> QED BY <1>6, <3>2, <4>1, <4>2, TotalRaised
    <3> QED BY <3>1, <3>2
  <2> HIDE DEF K2
  <2>3. CASE x = e
    <3>1. Total(store', x, K) = Total(store, x, K) + delta
      <4>1. store \in Tables /\ store' = [store EXCEPT ![e][s] = v]
        BY <1>1
      <4> QED BY <1>6, <2>3, <4>1, TotalStored
    <3>2. e \notin Kids(store', x)
      BY <2>3, HoldersListen
    <3>3. Owed(x)' = 0
      BY <1>11, <3>2
    <3>4. K[x] = Total(store, x, K) /\ K2[x] = K[x] + delta
      BY <1>7, <1>10, <2>3
    <3> QED BY <1>6, <2>1, <2>2, <3>1, <3>2, <3>3, <3>4
  <2>4. CASE x # e
    <3>1. store'[x] = store[x]
      BY <1>1, <2>4 DEF Tables
    <3>2. Total(store', x, K) = Total(store, x, K)
      <4>1. store \in Tables /\ store' \in Tables
        BY <1>1
      <4> QED BY <3>1, <4>1, TotalSame
    <3>3. K2[x] = Total(store', x, K)
      BY <1>7, <1>10, <2>4, <3>2
    <3> QED BY <1>6, <1>11, <2>1, <2>2, <3>3
  <2> QED BY <2>3, <2>4
<1>13. ASSUME NEW x \in Elms, ~stale'[x] PROVE K2[x] = rlen'[x] + slack'[x]
  <2>1. K[x] = rlen[x] + slack[x]
    BY <1>1, <1>2, <1>13 DEF Balanced
  <2>2. rlen[x] \in Int /\ slack[x] \in Int /\ rlen'[x] = IF x = e THEN rlen[x] + delta ELSE rlen[x]
    BY <1>1 DEF LengthsOK
  <2> HIDE DEF K2
  <2> QED BY <1>1, <1>6, <1>7, <2>1, <2>2
<1>14. PICK L \in Lengths : L = K2
  BY <1>7
<1> HIDE DEF K2
<1>16. Balanced(L)'
  BY <1>12, <1>13, <1>14 DEF Balanced
<1>15. ev'.type \notin {"none", "env"}
  BY <1>1
<1> QED BY <1>1, <1>3, <1>8, <1>9, <1>15, <1>16 DEF Books

\* What a step leaves as it was but for marks it sets, and lengths it owes.
LEMMA BooksKept ==
  ASSUME Books, LengthsOK',
         ev'.type \in {"none", "env"} => ev'.delta = 0,
         \A x \in Elms : Owed(x)' = Owed(x) /\ (~stale'[x] => ~stale[x]),
         UNCHANGED <<store, rlen, slack>>
  PROVE  Books'
<1>1. PICK K \in Lengths : Balanced(K)
  BY DEF Books
<1>2. Balanced(K)'
  BY <1>1 DEF Balanced
<1>3. \A x : Containers(x)' = Containers(x)
  BY DEF Containers, Children
<1> QED BY <1>2, <1>3 DEF Books

\* The next call takes what it was owed, and owes it to the containers of its
\* observer.
LEMMA NotifyOwes ==
  ASSUME ShapesOK, ListedOnce, Notify, PassesOn(obs[calls[Len(calls)].at][calls[Len(calls)].next]),
         NEW x \in Elms
  PROVE  LET o == obs[calls[Len(calls)].at][calls[Len(calls)].next]
         IN  Cardinality(Owing(calls', obs', x))
               = Cardinality(Owing(calls, obs, x)) - (IF x = o THEN 1 ELSE 0)
                                                   + (IF o \in ids[x] \ {x} THEN 1 ELSE 0)
<1> DEFINE Frame == [at : Elms, next : Nat \ {0}]
           n == Len(calls)
           o == obs[calls[n].at][calls[n].next]
           rest == [calls EXCEPT ![n].next = @ + 1]
           top == [at |-> o, next |-> 1]
           Left(cs, i) == \E j \in cs[i].next..Len(obs[cs[i].at]) : obs[cs[i].at][j] = x
<1>1. /\ calls \in Seq(Frame) /\ rest \in Seq(Frame) /\ n \in Nat \ {0} /\ o \in Elms
      /\ calls' = Append(rest, top) /\ obs' = obs
      /\ calls[n].next <= Len(obs[calls[n].at])
  BY NotifyShapes DEF ShapesOK, Notify, Settled
<1>2. \A i \in 1..n : calls[i] \in Frame
  <2> HIDE DEF Frame
  <2> QED BY <1>1
<1>3. /\ Len(calls') = n + 1 /\ DOMAIN calls' = 1..(n + 1) /\ DOMAIN calls = 1..n
      /\ \A i \in 1..(n - 1) : calls'[i] = calls[i]
      /\ calls'[n] = [calls[n] EXCEPT !.next = @ + 1]
      /\ calls'[n + 1] = top
  <2>1. top \in Frame
    BY <1>1
  <2>2. Len(rest) = n /\ \A i \in 1..(n - 1) : rest[i] = calls[i]
    <3> HIDE DEF Frame
    <3> QED BY <1>1
  <2>3. rest[n] = [calls[n] EXCEPT !.next = @ + 1]
    <3> HIDE DEF Frame
    <3> QED BY <1>1
  <2> HIDE DEF Frame, rest, top, n
  <2>4. /\ Len(calls') = n + 1 /\ calls'[n + 1] = top
        /\ \A i \in 1..n : calls'[i] = rest[i]
    BY <1>1, <2>1, <2>2
  <2>5. DOMAIN calls' = 1..(n + 1) /\ DOMAIN calls = 1..n
    BY <1>1, <2>1, <2>2 DEF n
  <2>6. n \in 1..n /\ \A i \in 1..(n - 1) : i \in 1..n
    BY <1>1
  <2> QED BY <2>2, <2>3, <2>4, <2>5, <2>6
<1>4. calls'[n].at = calls[n].at /\ calls'[n].next = calls[n].next + 1 /\ n \in 1..n
  <2>1. n \in 1..n
    <3> HIDE DEF n
    <3> QED BY <1>1
  <2>2. calls[n] \in Frame
    BY <1>2, <2>1
  <2> HIDE DEF n
  <2> QED BY <1>3, <2>1, <2>2
<1>5. /\ top.at = o /\ top.next = 1
      /\ Left(calls', n + 1) <=> o \in ids[x] \ {x}
  <2>1. (\E j \in 1..Len(obs[o]) : obs[o][j] = x) <=> o \in ids[x] \ {x}
    <3>1. DOMAIN obs[o] = 1..Len(obs[o])
      <4>1. obs[o] \in Seq(Elms)
        BY <1>1 DEF ShapesOK
      <4> QED BY <4>1
    <3>2. IF o \in ids[x] \ {x} THEN OnceIn(obs[o], x) ELSE NotIn(obs[o], x)
      BY <1>1 DEF ListedOnce, Match
    <3> QED BY <3>1, <3>2 DEF OnceIn, NotIn
  <2>2. calls'[n + 1].at = o /\ calls'[n + 1].next = 1
    BY <1>3
  <2> QED BY <2>1, <2>2
<1>6. /\ x # o => (Left(calls', n) <=> Left(calls, n))
      /\ x = o => Left(calls, n) /\ ~Left(calls', n)
  <2> DEFINE at == calls[n].at
             k == calls[n].next
  <2>1. at \in Elms /\ k \in Nat \ {0} /\ obs[at] \in Seq(Elms)
    BY <1>2, <1>4 DEF ShapesOK
  <2>2. k \in DOMAIN obs[at] /\ DOMAIN obs[at] = 1..Len(obs[at]) /\ Len(obs[at]) \in Nat
        /\ obs[at][k] = o
    BY <1>1, <2>1
  <2>3. \A j \in DOMAIN obs[at] : obs[at][j] = o => j = k
    <3>1. OnceIn(obs[at], o)
      BY <1>1, <2>1, <2>2 DEF ListedOnce, Match, NotIn
    <3> QED BY <2>2, <3>1 DEF OnceIn
  <2>4. Left(calls, n) <=> \E j \in k..Len(obs[at]) : obs[at][j] = x
    OBVIOUS
  <2>5. Left(calls', n) <=> \E j \in (k + 1)..Len(obs[at]) : obs[at][j] = x
    BY <1>4
  <2> HIDE DEF Left, at, k, o
  <2>6. \A j \in k..Len(obs[at]) : j = k \/ j \in (k + 1)..Len(obs[at])
    BY <2>1, <2>2
  <2>7. \A j \in (k + 1)..Len(obs[at]) : j \in k..Len(obs[at]) /\ j \in DOMAIN obs[at] /\ j # k
    BY <2>1, <2>2
  <2>8. k \in k..Len(obs[at])
    BY <2>1, <2>2
  <2> QED BY <2>2, <2>3, <2>4, <2>5, <2>6, <2>7, <2>8
<1>7. \A i \in 1..(n - 1) : Left(calls', i) <=> Left(calls, i)
  BY <1>3
<1>8. /\ Owing(calls, obs, x) = {i \in 1..n : Left(calls, i)}
      /\ Owing(calls', obs', x) = {i \in 1..(n + 1) : Left(calls', i)}
  BY <1>1, <1>3 DEF Owing
<1> HIDE DEF Left, n, o
<1> DEFINE A == Owing(calls, obs, x)
           B == IF x = o THEN A \ {n} ELSE A
<1>9. /\ IsFiniteSet(A) /\ n + 1 \notin A /\ (x = o => n \in A)
      /\ Owing(calls', obs', x) = IF o \in ids[x] \ {x} THEN B \cup {n + 1} ELSE B
  <2>1. IsFiniteSet(1..n)
    <3>1. n \in Int
      BY <1>1
    <3> QED BY <3>1, FS_Interval
  <2>2. A \in SUBSET (1..n)
    BY <1>8
  <2>3. n + 1 \notin 1..n /\ 1..(n + 1) = (1..(n - 1)) \cup {n} \cup {n + 1}
        /\ 1..n = (1..(n - 1)) \cup {n} /\ n \notin 1..(n - 1)
    BY <1>1
  <2>4. Owing(calls', obs', x) = IF o \in ids[x] \ {x} THEN B \cup {n + 1} ELSE B
    BY <1>5, <1>6, <1>7, <1>8, <2>3
  <2> QED BY <1>6, <1>8, <2>1, <2>2, <2>3, <2>4, FS_Subset
<1>10. /\ IsFiniteSet(B) /\ Cardinality(A) \in Nat /\ Cardinality(B) \in Nat
       /\ Cardinality(B) = Cardinality(A) - (IF x = o THEN 1 ELSE 0)
  <2> HIDE DEF A
  <2>1. CASE x = o
    BY <1>9, <2>1, TakeOne, FS_CardinalityType
  <2>2. CASE x # o
    BY <1>9, <2>2, FS_CardinalityType
  <2> QED BY <2>1, <2>2
<1>11. Cardinality(Owing(calls', obs', x)) = Cardinality(B) + (IF o \in ids[x] \ {x} THEN 1 ELSE 0)
  <2>1. n + 1 \notin B
    BY <1>9
  <2> HIDE DEF A, B
  <2>2. Cardinality(B \cup {n + 1}) = Cardinality(B) + 1
    BY <1>10, <2>1, FS_AddElement
  <2> QED BY <1>9, <1>10, <2>2
<1>12. Cardinality(Owing(calls', obs', x))
         = Cardinality(A) - (IF x = o THEN 1 ELSE 0) + (IF o \in ids[x] \ {x} THEN 1 ELSE 0)
  <2> HIDE DEF A, B
  <2> QED BY <1>10, <1>11
<1> QED BY <1>12 DEF n, o

LEMMA NotifyLedger ==
  ASSUME LedgerInv, ShapesOK', Notify
  PROVE  Books'
<1> DEFINE o == obs[calls[Len(calls)].at][calls[Len(calls)].next]
<1>1. /\ ShapesOK /\ ListedOnce /\ LengthsOK /\ HeldOnce /\ store \in Tables
      /\ o \in Elms /\ Handle(o)
      /\ UNCHANGED <<store, ids, obs, ev, slack>>
      /\ ev.type \in {"none", "env"} => ev.delta = 0
  BY NotifyShapes
     DEF LedgerInv, Books, TreeInv, SubInv, TopInv, ShapesOK, Tables, Notify
<1> HIDE DEF o
<1>2. CASE ev.type = "env"
  <2>1. /\ UNCHANGED rlen /\ \A x \in Elms : ~stale'[x] => ~stale[x]
        /\ ev'.delta = 0 /\ ev.delta = 0
    BY <1>1, <1>2 DEF Handle, ShapesOK
  <2>2. LengthsOK'
    BY <1>1, <2>1 DEF LengthsOK
  <2>3. \A x \in Elms : Owed(x) = 0 /\ Owed(x)' = 0
    BY <1>1, <2>1, <2>2, OwedNothing
  <2> QED BY <1>1, <2>1, <2>2, <2>3, BooksKept DEF LedgerInv
<1>3. CASE ev.type # "env"
  <2> DEFINE delta == ev.delta
  <2>1. /\ delta \in Int /\ rlen' = [rlen EXCEPT ![o] = @ + delta] /\ UNCHANGED stale
        /\ PassesOn(o) /\ ev'.delta = delta
    BY <1>1, <1>3 DEF Handle, PassesOn, LengthsOK
  <2>2. LengthsOK'
    BY <1>1, <2>1 DEF LengthsOK
  <2> HIDE DEF delta
  <2>3. PICK K \in Lengths : Balanced(K)
    BY DEF LedgerInv, Books
  <2>4. PICK L \in Lengths : L = [K EXCEPT ![o] = @ + delta]
    <3>1. o \in Elms /\ delta \in Int /\ K \in Lengths
      BY <1>1, <2>1, <2>3
    <3>2. [K EXCEPT ![o] = @ + delta] \in Lengths
      BY <3>1 DEF Lengths
    <3> QED BY <3>2
  <2>5. L[o] = K[o] + delta /\ \A x \in Elms \ {o} : L[x] = K[x]
    BY <1>1, <2>4 DEF Lengths
  <2>6. ASSUME NEW x \in Elms
        PROVE  Owed(x)' = Owed(x) - (IF x = o THEN delta ELSE 0)
                                  + (IF o \in Kids(store, x) THEN delta ELSE 0)
    <3> DEFINE a == Cardinality(Owing(calls, obs, x))
               b == Cardinality(Owing(calls', obs', x))
    <3>1. b = a - (IF x = o THEN 1 ELSE 0) + (IF o \in ids[x] \ {x} THEN 1 ELSE 0)
      BY <1>1, <2>1, NotifyOwes DEF o
    <3>2. a \in Nat
      BY <1>1, OwedInt
    <3>3. ids[x] \ {x} = Kids(store, x) /\ x \notin Kids(store, x)
      BY HoldersListen DEF LedgerInv
    <3>4. Owed(x) = delta * a /\ Owed(x)' = delta * b
      BY <1>1, <2>1 DEF Owed, delta
    <3> HIDE DEF a, b
    <3>5. CASE x = o
      <4>1. b = a - 1
        BY <3>1, <3>2, <3>3, <3>5
      <4> QED BY <2>1, <3>2, <3>3, <3>4, <3>5, <4>1, Times
    <3>6. CASE x # o /\ o \in Kids(store, x)
      <4>1. b = a + 1
        BY <3>1, <3>2, <3>3, <3>6
      <4> QED BY <2>1, <3>2, <3>4, <3>6, <4>1, Times
    <3>7. CASE x # o /\ o \notin Kids(store, x)
      <4>1. b = a
        BY <3>1, <3>2, <3>3, <3>7
      <4> QED BY <2>1, <3>2, <3>4, <3>7, <4>1, Times
    <3> QED BY <3>5, <3>6, <3>7
  <2>7. ASSUME NEW x \in Elms PROVE L[x] + Owed(x)' = Total(store, x, L)
    <3>1. K[x] + Owed(x) = Total(store, x, K) /\ K[x] \in Int /\ Total(store, x, K) \in Int
      BY <1>1, <2>3, TotalInt DEF Balanced, Lengths
    <3>2. Owed(x) \in Int
      BY <1>1, OwedInt
    <3>3. CASE o \in Kids(store, x)
      <4>1. \A s, t \in Slots : store[x][s] = store[x][t] /\ store[x][s] \in Elms => s = t
        BY <1>1 DEF HeldOnce
      <4>2. Total(store, x, L) = Total(store, x, K) + delta
        <5>1. store \in Tables
          BY <1>1
        <5>2. Total(store, x, [K EXCEPT ![o] = @ + delta]) = Total(store, x, K) + delta
          BY <2>1, <3>3, <4>1, <5>1, TotalRaised
        <5> QED BY <2>4, <5>2
      <4>3. x # o
        BY <3>3, HoldersListen DEF LedgerInv
      <4> QED BY <2>1, <2>5, <2>6, <3>1, <3>2, <3>3, <4>2, <4>3
    <3>4. CASE o \notin Kids(store, x)
      <4>1. \A c \in Kids(store, x) : L[c] = K[c]
        BY <2>5, <3>4 DEF Kids, Held
      <4>2. Total(store, x, L) = Total(store, x, K)
        BY <1>1, <4>1, TotalSame
      <4> QED BY <2>1, <2>5, <2>6, <3>1, <3>2, <3>4, <4>2
    <3> QED BY <3>3, <3>4
  <2>8. ASSUME NEW x \in Elms, ~stale'[x] PROVE L[x] = rlen'[x] + slack'[x]
    <3>1. K[x] = rlen[x] + slack[x]
      BY <2>1, <2>3, <2>8 DEF Balanced
    <3>2. rlen[x] \in Int /\ slack[x] \in Int /\ rlen'[x] = IF x = o THEN rlen[x] + delta ELSE rlen[x]
      BY <1>1, <2>1 DEF LengthsOK
    <3> QED BY <1>1, <2>1, <2>5, <3>1, <3>2
  <2>9. Balanced(L)'
    BY <1>1, <2>7, <2>8 DEF Balanced
  <2>10. \A x : Containers(x)' = Containers(x)
    BY <1>1 DEF Containers, Children
  <2> QED BY <1>1, <2>2, <2>9, <2>10 DEF LedgerInv, Books
<1> QED BY <1>2, <1>3

\* An activation that has called all its observers owes no more calls.
LEMMA ReturnLedger ==
  ASSUME LedgerInv, ShapesOK', Return
  PROVE  Books'
<1> DEFINE Frame == [at : Elms, next : Nat \ {0}]
           n == Len(calls)
<1>1. /\ ShapesOK /\ LengthsOK /\ calls \in Seq(Frame) /\ n \in Nat \ {0}
      /\ calls' = SubSeq(calls, 1, n - 1)
      /\ UNCHANGED <<store, rlen, obs, stale, slack>>
      /\ ev' = IF n = 1 THEN NoEvent ELSE ev
      /\ calls[n].next > Len(obs[calls[n].at])
      /\ ev.type \in {"none", "env"} => ev.delta = 0
  BY DEF LedgerInv, Books, TreeInv, SubInv, TopInv, ShapesOK, Return, Settled
<1>2. /\ DOMAIN calls' = 1..(n - 1) /\ DOMAIN calls = 1..n
      /\ \A i \in 1..(n - 1) : calls'[i] = calls[i]
      /\ n = 1 => calls' = << >>
  <2> HIDE DEF Frame
  <2>1. n - 1 \in Nat /\ n - 1 <= n
    <3> HIDE DEF n
    <3> QED BY <1>1
  <2>2. Len(calls') = n - 1 /\ calls' \in Seq(Frame)
    <3>1. \A i \in 1..(n - 1) : calls[i] \in Frame
      BY <1>1
    <3> HIDE DEF n
    <3>2. n - 1 \in Int /\ 1 \in Int
      BY <2>1
    <3>3. /\ SubSeq(calls, 1, n - 1) \in Seq(Frame)
          /\ Len(SubSeq(calls, 1, n - 1)) = IF 1 <= n - 1 THEN (n - 1) - 1 + 1 ELSE 0
      BY <3>1, <3>2, SubSeqProperties
    <3> QED BY <1>1, <2>1, <3>3
  <2>3. ASSUME NEW i \in 1..(n - 1) PROVE calls'[i] = calls[i]
    <3> HIDE DEF n
    <3>1. calls'[i] = calls[1 + i - 1] /\ 1 + i - 1 = i
      BY <1>1, <2>1, SubSeqProperties DEF n
    <3> QED BY <3>1
  <2> QED BY <1>1, <2>1, <2>2, <2>3
<1>3. ASSUME NEW x PROVE Owing(calls', obs', x) = Owing(calls, obs, x)
  <2>1. calls[n].next..Len(obs[calls[n].at]) = {}
    <3>1. n \in 1..n
      <4> HIDE DEF n
      <4> QED BY <1>1
    <3>2. calls[n] \in Frame
      <4> HIDE DEF Frame
      <4> QED BY <1>1, <3>1
    <3>3. obs[calls[n].at] \in Seq(Elms) /\ calls[n].next \in Nat
      BY <1>1, <3>2 DEF ShapesOK
    <3>4. Len(obs[calls[n].at]) \in Nat
      BY <3>3
    <3> QED BY <1>1, <3>3, <3>4
  <2>2. 1..n = (1..(n - 1)) \cup {n}
    <3> HIDE DEF n
    <3> QED BY <1>1
  <2> HIDE DEF n
  <2> QED BY <1>1, <1>2, <2>1, <2>2 DEF Owing
<1>4. /\ LengthsOK' /\ (ev'.type \in {"none", "env"} => ev'.delta = 0)
  BY <1>1 DEF LengthsOK, NoEvent
<1>5. ASSUME NEW x \in Elms PROVE Owed(x)' = Owed(x)
  <2>1. CASE n # 1
    BY <1>1, <1>3, <2>1 DEF Owed
  <2>2. CASE n = 1
    <3>1. Owed(x)' = 0
      BY <1>2, <1>4, <2>2, OwedNothing DEF Settled
    <3>2. Cardinality(Owing(calls, obs, x)) = 0
      <4>1. Owing(calls', obs', x) = {}
        BY <1>2, <2>2 DEF Owing
      <4> QED BY <1>3, <4>1, FS_EmptySet
    <3>3. Owed(x) = 0
      BY <1>1, <3>2, Times DEF Owed, LengthsOK
    <3> QED BY <3>1, <3>3
  <2> QED BY <2>1, <2>2
<1> QED BY <1>1, <1>4, <1>5, BooksKept DEF LedgerInv

\* Reading an env table moves no length.
LEMMA ReadEnvLedger ==
  ASSUME LedgerInv, ShapesOK', NEW e \in Elms, ReadEnv(e)
  PROVE  Books'
<1>1. /\ ShapesOK /\ LengthsOK /\ Settled /\ ev' = [type |-> "env", delta |-> 0]
      /\ UNCHANGED <<store, rlen, slack>> /\ stale' = [stale EXCEPT ![e] = TRUE]
  BY DEF LedgerInv, Books, TreeInv, SubInv, TopInv, ReadEnv, Fire
<1>2. LengthsOK' /\ ev'.delta = 0
  BY <1>1 DEF LengthsOK
<1>3. \A x \in Elms : ~stale'[x] => ~stale[x]
  BY <1>1 DEF ShapesOK
<1>4. \A x \in Elms : Owed(x) = 0 /\ Owed(x)' = 0
  BY <1>1, <1>2, OwedNothing
<1> QED BY <1>1, <1>2, <1>3, <1>4, BooksKept DEF LedgerInv

\* Between calls the ledgers that balance the books are the proper ones.
LEMMA SettledProper ==
  ASSUME LedgerInv, Settled, NEW K \in Lengths, Balanced(K)
  PROVE  /\ NestsIn(store)
         /\ \A x \in Elms : K[x] = Total(store, x, K) /\ K[x] = Proper(store)[x]
<1>1. ShapesOK /\ LengthsOK /\ store \in Tables /\ NoCycle
  BY DEF LedgerInv, Books, TreeInv, SubInv, TopInv, ShapesOK, Tables
<1>2. NestsIn(store)
  BY <1>1, BelowIsUnder DEF NestsIn, NoCycle
<1>3. ASSUME NEW x \in Elms PROVE K[x] = Total(store, x, K)
  <2>1. Owed(x) = 0 /\ K[x] \in Int
    BY <1>1, OwedNothing DEF Lengths
  <2> QED BY <2>1 DEF Balanced
<1>4. \A x \in Elms : Kids(store, x) \subseteq Elms
  BY DEF Kids, Held
<1>5. ASSUME NEW x \in Elms PROVE K[x] = Proper(store)[x]
  <2>1. Size(store, x) \in Nat /\ N \in Nat /\ Size(store, x) <= N
    BY <1>2, ChildSmaller
  <2> QED BY <1>2, <1>3, <1>4, <2>1, Solved DEF Proper
<1> QED BY <1>2, <1>3, <1>5

\* Where an element is written to without a booking, it and all that contains
\* it are marked; what remains has the totals it had.
LEMMA RawWriteLedger ==
  ASSUME LedgerInv, TreeInv', NEW e \in fresh, NEW s \in Slots, NEW v \in Prims, RawWrite(e, s, v)
  PROVE  Books'
<1>1. /\ Settled /\ LengthsOK /\ ShapesOK /\ ShapesOK' /\ TopInv
      /\ store \in Tables /\ store' \in Tables /\ store' = [store EXCEPT ![e][s] = v]
      /\ UNCHANGED <<rlen, stale, slack, calls, ev, obs>> /\ e \in Elms
      /\ ev.type \in {"none", "env"} => ev.delta = 0
  BY DEF LedgerInv, Books, TreeInv, SubInv, TopInv, ShapesOK, Tables, RawWrite
<1>2. PICK K \in Lengths : Balanced(K)
  BY DEF LedgerInv, Books
<1>3. PICK L \in Lengths : L = Proper(store')
  <2>1. NestsIn(store')
    BY <1>1, BelowIsUnder DEF TreeInv, NoCycle, NestsIn
  <2> QED BY <2>1, ProperSolves
<1>4. NestsIn(store') /\ \A x \in Elms : L[x] = Total(store', x, L)
  <2>1. NestsIn(store')
    BY <1>1, BelowIsUnder DEF TreeInv, NoCycle, NestsIn
  <2> QED BY <1>3, <2>1, ProperSolves
<1>5. ASSUME NEW x \in Elms, ~stale[x] PROVE L[x] = K[x]
  <2> DEFINE X == {x} \cup Under(store, x)
  <2>1. e \notin X
    BY <1>1, <1>5, FreshBelowStale, BelowIsUnder DEF LedgerInv
  <2>2. \A y : Kids(store', y) = Kids(store, y) \/ y \notin Elms
    BY <1>1, RawWriteTop, BelowIsUnder
  <2>3. X \subseteq Elms /\ \A y \in X : Kids(store', y) \subseteq X
    BY <2>2, BelowIs
  <2>4. ASSUME NEW y \in X PROVE K[y] = Total(store', y, K)
    <3>1. y \in Elms /\ store'[y] = store[y]
      BY <1>1, <2>1, <2>3 DEF Tables
    <3>2. K[y] = Total(store, y, K)
      BY <1>1, <1>2, <3>1, SettledProper
    <3>3. Total(store', y, K) = Total(store, y, K)
      <4>1. store \in Tables /\ store' \in Tables
        BY <1>1
      <4> HIDE DEF X
      <4> QED BY <3>1, <4>1, TotalSame
    <3> QED BY <3>2, <3>3
  <2>5. x \in X
    OBVIOUS
  <2>6. Size(store', x) \in Nat /\ N \in Nat /\ Size(store', x) <= N
    BY <1>4, ChildSmaller
  <2> HIDE DEF X
  <2>7. Totals(store')[N][x] = K[x]
    BY <1>4, <2>3, <2>4, <2>5, <2>6, Solved
  <2> QED BY <1>3, <2>7 DEF Proper
<1>6. LengthsOK'
  BY <1>1 DEF LengthsOK
<1>7. ASSUME NEW x \in Elms PROVE L[x] + Owed(x)' = Total(store', x, L)
  <2>1. Owed(x)' = 0 /\ L[x] \in Int
    BY <1>1, <1>6, OwedNothing DEF Lengths, Settled
  <2> QED BY <1>4, <2>1
<1>8. \A x \in Elms : ~stale'[x] => L[x] = rlen'[x] + slack'[x]
  BY <1>1, <1>2, <1>5 DEF Balanced
<1>9. Balanced(L)'
  BY <1>7, <1>8 DEF Balanced
<1>10. \A x \in Elms : Containers(x)' = Containers(x)
  BY <1>1, RawWriteTop DEF Containers
<1> QED BY <1>1, <1>6, <1>9, <1>10, ConstantsAreSound DEF LedgerInv, Books

\* A rendering corrects the ledger of a root, and remembers by how much.
LEMMA StringifyLedger ==
  ASSUME LedgerInv, ShapesOK', NEW e \in Roots, Stringify(e)
  PROVE  Books'
<1>1. /\ Settled /\ LengthsOK /\ ShapesOK /\ e \in Elms
      /\ rlen' = [rlen EXCEPT ![e] = Text(e)]
      /\ stale' = [stale EXCEPT ![e] = FALSE]
      /\ slack' = [slack EXCEPT ![e] = Ledger(e) - Text(e)]
      /\ UNCHANGED <<store, calls, ev, obs>>
      /\ ev.type \in {"none", "env"} => ev.delta = 0
      /\ \A r \in Roots : Containers(r) = {}
      /\ \A x \in Elms \ Roots : slack[x] = 0
  BY ConstantsAreSound DEF LedgerInv, Books, TreeInv, SubInv, TopInv, Stringify
<1>2. PICK K \in Lengths : Balanced(K)
  BY DEF LedgerInv, Books
<1>3. Text(e) \in Int /\ Ledger(e) = K[e] /\ K[e] \in Int
  BY <1>1, <1>2, TextInt, SettledProper, LedgerIsProper DEF Lengths
<1>4. LengthsOK'
  BY <1>1, <1>3 DEF LengthsOK
<1>5. ASSUME NEW x \in Elms, ~stale'[x] PROVE K[x] = rlen'[x] + slack'[x]
  <2>1. CASE x = e
    <3>1. rlen'[x] = Text(e) /\ slack'[x] = K[e] - Text(e)
      BY <1>1, <1>3, <2>1 DEF LengthsOK
    <3> QED BY <1>3, <2>1, <3>1
  <2>2. CASE x # e
    <3>1. rlen'[x] = rlen[x] /\ slack'[x] = slack[x] /\ ~stale[x]
      BY <1>1, <1>5, <2>2 DEF LengthsOK, ShapesOK
    <3> QED BY <1>2, <3>1 DEF Balanced
  <2> QED BY <2>1, <2>2
<1>6. \A x \in Elms : Owed(x)' = Owed(x)
  BY <1>1 DEF Owed
<1>7. Balanced(K)'
  BY <1>1, <1>2, <1>5, <1>6 DEF Balanced
<1>8. \A x : Containers(x)' = Containers(x)
  BY <1>1 DEF Containers, Children
<1>9. \A x \in Elms \ Roots : slack'[x] = 0
  BY <1>1 DEF LengthsOK
<1> QED BY <1>1, <1>4, <1>7, <1>8, <1>9 DEF LedgerInv, Books
-------------------------------------------------------------------------------
(***************************************************************************)
(* The invariant and what follows from it.                                 *)
(***************************************************************************)
\* Where nothing is stored a ledger holds the two brackets.
LEMMA InitLedger == Init => LedgerInv
<1> SUFFICES ASSUME Init PROVE LedgerInv
  OBVIOUS
<1>1. TreeInv /\ StaleInv
  BY InitTree, InitStale
<1>2. LengthsOK /\ ev.delta = 0 /\ Settled /\ ShapesOK
  BY <1>1 DEF Init, LengthsOK, NoEvent, Settled, TreeInv, SubInv, TopInv
<1>3. \A x \in Elms : \A s \in Slots : store[x][s] = Vacant
  BY DEF Init
<1>4. \A r \in Roots : Containers(r) = {}
  BY <1>3, ConstantsAreSound DEF Containers, Children
<1>5. \A x \in Elms \ Roots : slack[x] = 0
  BY DEF Init
<1> DEFINE L == [x \in Elms |-> 2]
<1>6. PICK K \in Lengths : K = L
  <2>1. L \in Lengths
    BY DEF Lengths
  <2> HIDE DEF L
  <2> QED BY <2>1
<1>7. ASSUME NEW x \in Elms PROVE K[x] + Owed(x) = Total(store, x, K)
  <2> DEFINE f == [s \in Slots |-> Booking(x, store[x][s], K)]
  <2>1. \A s \in Slots : f[s] = 0
    BY <1>3 DEF Booking
  <2> HIDE DEF f
  <2>2. SumFunctionOnSet(f, Slots) = 0
    BY <2>1, ConstantsAreSound, SumZero
  <2>3. Total(store, x, K) = 2 + SumFunctionOnSet(f, Slots)
    BY DEF Total, f
  <2>4. Owed(x) = 0
    BY <1>2, OwedNothing
  <2>5. K[x] = 2
    BY <1>6
  <2> QED BY <2>2, <2>3, <2>4, <2>5
<1>8. \A x \in Elms : K[x] = rlen[x] + slack[x]
  BY <1>6 DEF Init
<1>9. Balanced(K)
  BY <1>7, <1>8 DEF Balanced
<1> QED BY <1>1, <1>2, <1>4, <1>5, <1>9 DEF LedgerInv, Books

LEMMA NextLedger == Careful /\ LedgerInv /\ [Next]_vars => LedgerInv'
<1> SUFFICES ASSUME Careful, LedgerInv, [Next]_vars PROVE LedgerInv'
  OBVIOUS
<1>1. Layering /\ Telling /\ \A h \in HabitNames \ {"raw"} : ~May(h)
  BY DEF Careful, Layering, Telling, Subscribing, May
<1>2. TreeInv /\ TreeInv' /\ StaleInv /\ StaleInv' /\ ShapesOK /\ ShapesOK' /\ Books
  BY <1>1, NextTree, NextStale DEF LedgerInv, TreeInv, SubInv, TopInv
<1>3. ~May("cycle") /\ ~May("stale_child") /\ ~May("held") /\ ~May("render_part")
  BY <1>1 DEF HabitNames
<1>4. CASE Stores
  <2>1. PICK e \in Elms, s \in Slots, v \in Value :
          /\ (v \in Elms /\ (v \in Roots \/ e \in Below(v) \ Children(v))) => May("cycle")
          /\ \A x \in {v, store[e][s]} \cap Elms : stale[x] => May("stale_child")
          /\ Store(e, s, v)
    BY <1>4 DEF Stores
  <2>2. /\ v \in Elms => v \notin Roots /\ ~stale[v]
        /\ store[e][s] \in Elms => ~stale[store[e][s]]
    BY <1>3, <2>1
  <2> QED BY <1>2, <2>1, <2>2, StoreLedger DEF LedgerInv
<1>5. CASE EnvReads
  BY <1>2, <1>5, ReadEnvLedger DEF LedgerInv, EnvReads
<1>6. CASE RawWrites
  <2>1. PICK e \in Elms, s \in Slots, v \in Prims :
          (IF e \in fresh THEN May("raw") ELSE May("held")) /\ RawWrite(e, s, v)
    BY <1>6 DEF RawWrites
  <2>2. e \in fresh
    BY <1>3, <2>1
  <2> QED BY <1>2, <2>1, <2>2, RawWriteLedger DEF LedgerInv
<1>7. CASE Renderings
  <2>1. PICK e \in Roots : Stringify(e)
    BY <1>3, <1>7 DEF Renderings, Length
  <2> QED BY <1>2, <2>1, StringifyLedger DEF LedgerInv
<1>8. CASE Notify
  BY <1>2, <1>8, NotifyLedger DEF LedgerInv
<1>9. CASE Return
  BY <1>2, <1>9, ReturnLedger DEF LedgerInv
<1>10. CASE UNCHANGED vars
  <2>1. UNCHANGED <<store, rlen, slack, stale, ev, calls, obs>>
    BY <1>10 DEF vars
  <2>2. LengthsOK' /\ (ev'.type \in {"none", "env"} => ev'.delta = 0)
    BY <1>2, <2>1 DEF Books, LengthsOK
  <2>3. \A x \in Elms : Owed(x)' = Owed(x) /\ (~stale'[x] => ~stale[x])
    BY <2>1 DEF Owed
  <2> QED BY <1>2, <2>1, <2>2, <2>3, BooksKept DEF LedgerInv
<1> QED BY <1>4, <1>5, <1>6, <1>7, <1>8, <1>9, <1>10 DEF Next, Overflow

THEOREM LedgerInvariance ==
  ASSUME Careful
  PROVE  Spec => []LedgerInv
BY InitLedger, NextLedger, PTL DEF Spec

\* Lengths stay integers while no text contains itself.
THEOREM TreeTypes ==
  ASSUME Careful
  PROVE  Spec => []TypeOK
<1>1. LedgerInv => TypeOK
  BY DEF LedgerInv, Books, TreeInv, SubInv, TopInv, TypeOK
<1> QED BY <1>1, LedgerInvariance, PTL

\* Between calls len() can answer from the ledger of any root that is not
\* marked: it holds what its bookings should come to, the differences of every
\* store below it and no others.
THEOREM TrustedLedgerAlwaysExact ==
  ASSUME Careful
  PROVE  Spec => []TrustedLedgerIsExact
<1>1. LedgerInv => TrustedLedgerIsExact
  <2> SUFFICES ASSUME LedgerInv, Settled, NEW e \in Roots, ~stale[e]
               PROVE  rlen[e] + slack[e] = Ledger(e)
    BY DEF TrustedLedgerIsExact
  <2>1. PICK K \in Lengths : Balanced(K)
    BY DEF LedgerInv, Books
  <2>2. e \in Elms
    BY ConstantsAreSound
  <2>3. K[e] = rlen[e] + slack[e]
    BY <2>1, <2>2 DEF Balanced
  <2>4. K[e] = Ledger(e)
    BY <2>1, <2>2, SettledProper, LedgerIsProper
  <2> QED BY <2>3, <2>4
<1> QED BY <1>1, LedgerInvariance, PTL

\* Nobody who leaves .env alone is ever marked, ...
Unmarked == ev.type # "env" /\ \A x \in Elms : ~stale[x]

LEMMA StaysUnmarked == Habits = {} => (Spec => []Unmarked)
<1> SUFFICES ASSUME Habits = {} PROVE Spec => []Unmarked
  OBVIOUS
<1>1. Spec => []LedgerInv
  BY LedgerInvariance DEF Careful
<1>2. Init => Unmarked
  BY DEF Init, NoEvent, Unmarked
<1>3. LedgerInv /\ Unmarked /\ [Next]_vars => Unmarked'
  <2> SUFFICES ASSUME LedgerInv, Unmarked, [Next]_vars PROVE Unmarked'
    OBVIOUS
  <2>1. stale \in [Elms -> BOOLEAN]
    BY DEF LedgerInv, TreeInv, SubInv, TopInv, ShapesOK
  <2>2. CASE Stores
    BY <2>2 DEF Unmarked, Stores, Store, Fire
  <2>3. CASE EnvReads
    BY <2>3 DEF EnvReads, May
  <2>4. CASE RawWrites
    BY <2>4 DEF RawWrites, May
  <2>5. CASE Renderings
    <3>1. PICK e : Stringify(e)
      BY <2>5 DEF Renderings, Length, May
    <3> QED BY <2>1, <3>1 DEF Unmarked, Stringify
  <2>6. CASE Notify
    BY <2>6 DEF Unmarked, Notify, Handle
  <2>7. CASE Return
    BY <2>7 DEF Unmarked, Return, NoEvent
  <2>8. CASE UNCHANGED vars
    BY <2>8 DEF Unmarked, vars
  <2> QED BY <2>2, <2>3, <2>4, <2>5, <2>6, <2>7, <2>8 DEF Next, Overflow
<1> QED BY <1>1, <1>2, <1>3, PTL DEF Spec

\* ... and then between calls every ledger holds what it should, that of a
\* nested element, too: each difference has reached every container once for
\* every way of reaching it.
THEOREM LedgerAlwaysExact ==
  ASSUME Habits = {}
  PROVE  Spec => []LedgerIsExact
<1>1. Spec => []LedgerInv
  BY LedgerInvariance DEF Careful
<1>2. Spec => []Unmarked
  BY StaysUnmarked
<1>3. LedgerInv /\ Unmarked => LedgerIsExact
  <2> SUFFICES ASSUME LedgerInv, Unmarked, Settled, NEW e \in Elms
               PROVE  rlen[e] + slack[e] = Ledger(e)
    BY DEF LedgerIsExact
  <2>1. PICK K \in Lengths : Balanced(K)
    BY DEF LedgerInv, Books
  <2>2. K[e] = rlen[e] + slack[e]
    BY <2>1 DEF Balanced, Unmarked
  <2>3. K[e] = Ledger(e)
    BY <2>1, SettledProper, LedgerIsProper
  <2> QED BY <2>2, <2>3
<1> QED BY <1>1, <1>2, <1>3, PTL

===============================================================================
