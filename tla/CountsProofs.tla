------------------------------ MODULE CountsProofs -----------------------------
(***************************************************************************)
(* The counters of any number of nested elements.  What is nested in an    *)
(* element is a tree, a store moves a subtree in or out, and the counters  *)
(* of all that contain it move with what the subtree counts.               *)
(***************************************************************************)
EXTENDS ElementCountsProps, DataLemmas

\* What the env tables can be.
Tables == [Elms -> [Slots -> Value]]

\* Children and Inside in the store st.
Kids(st, x) == Held(st, Elms, Slots, x)
Nest(st, x) == Reached(st, Elms, Slots, {x})

LEMMA InsideIs ==
  /\ \A x : Children(x) = Kids(store, x) /\ Inside(x) = Nest(store, x)
  /\ \A x : Children(x)' = Kids(store', x) /\ Inside(x)' = Nest(store', x)
  BY DEF Children, Kids, Held, Inside, Nest, Reached, Levels, Rounds, Round

\* Nest(st, x) is the least set with x that is closed under Kids, ...
LEMMA NestLeast ==
  ASSUME NEW st, NEW x, NEW U, x \in U, \A y \in U : Kids(st, y) \subseteq U
  PROVE  Nest(st, x) \subseteq U
<1>1. IsFiniteSet(Elms) /\ {x} \subseteq U
  BY ConstantsAreSound
<1> QED BY <1>1, ReachedLeast DEF Kids, Nest

\* ... and all in it but x has its container in it.
LEMMA NestIs ==
  ASSUME NEW st, NEW x \in Elms
  PROVE  /\ x \in Nest(st, x) /\ Nest(st, x) \subseteq Elms
         /\ \A y \in Nest(st, x) : Kids(st, y) \subseteq Nest(st, x)
         /\ \A y \in Nest(st, x) : Nest(st, y) \subseteq Nest(st, x)
         /\ \A y \in Nest(st, x) \ {x} : \E z \in Nest(st, x) : y \in Kids(st, z)
<1>1. IsFiniteSet(Elms) /\ {x} \subseteq Elms
  BY ConstantsAreSound
<1>2. /\ x \in Nest(st, x) /\ Nest(st, x) \subseteq Elms
      /\ \A y \in Nest(st, x) : Kids(st, y) \subseteq Nest(st, x)
  BY <1>1, ReachedIs DEF Kids, Nest
<1>3. \A y \in Nest(st, x) : Nest(st, y) \subseteq Nest(st, x)
  BY <1>2, NestLeast
<1>4. Nest(st, x) \subseteq {x} \cup UNION {Kids(st, z) : z \in Nest(st, x)}
  <2> DEFINE U == {x} \cup UNION {Kids(st, z) : z \in Nest(st, x)}
  <2>1. U \subseteq Nest(st, x) /\ x \in U
    BY <1>2
  <2>2. \A y \in U : Kids(st, y) \subseteq U
    BY <2>1
  <2> HIDE DEF U
  <2>3. Nest(st, x) \subseteq U
    BY <2>1, <2>2, NestLeast
  <2> QED BY <2>3 DEF U
<1> QED BY <1>2, <1>3, <1>4

-------------------------------------------------------------------------------
(***************************************************************************)
(* Nothing is stored twice, and nothing within itself.                     *)
(***************************************************************************)
OnePlace(st) ==
  \A x, y \in Elms, s, t \in Slots :
    st[x][s] \in Elms /\ st[x][s] = st[y][t] => x = y /\ s = t

NoLoop(st) == \A x \in Elms : \A c \in Kids(st, x) : x \notin Nest(st, c)

Forest(st) == st \in Tables /\ OnePlace(st) /\ NoLoop(st)

\* A store that moves no element from one place to another.
Fits(st, e, s, v) ==
  v \in Elms => /\ st[e][s] = Vacant
                /\ \A y \in Elms : v \notin Kids(st, y)
                /\ e \notin Nest(st, v)

\* The elements nested in a value.
NestOf(st, v) == IF v \in Elms THEN Nest(st, v) ELSE {}

LEMMA VacantIs == Vacant \notin Elms /\ Vacant \in Value
  BY ConstantsAreSound DEF Value

LEMMA KidsOne ==
  ASSUME NEW st, OnePlace(st), NEW x \in Elms, NEW y \in Elms, NEW c \in Kids(st, x),
         c \in Kids(st, y)
  PROVE  x = y
  BY DEF OnePlace, Kids, Held

\* The env tables after a store.
Put(st, e, s, v) == [st EXCEPT ![e][s] = v]

LEMMA KidsStored ==
  ASSUME NEW st \in Tables, OnePlace(st), NEW e \in Elms, NEW s \in Slots, NEW v \in Value,
         NEW st2, st2 = Put(st, e, s, v)
  PROVE  /\ st2 \in Tables
         /\ \A y \in Elms : Kids(st2, y) = IF y = e THEN (Kids(st, e) \ {st[e][s]}) \cup ({v} \cap Elms)
                                           ELSE Kids(st, y)
<1>1. st2 \in Tables
  BY DEF Tables, Put
<1>2. /\ \A y \in Elms \ {e} : st2[y] = st[y]
      /\ st2[e][s] = v /\ \A t \in Slots \ {s} : st2[e][t] = st[e][t]
  BY DEF Tables, Put
<1>3. \A y \in Elms \ {e} : Kids(st2, y) = Kids(st, y)
  BY <1>2 DEF Kids, Held
<1>4. ASSUME NEW c \in Kids(st2, e) PROVE c \in (Kids(st, e) \ {st[e][s]}) \cup ({v} \cap Elms)
  <2>1. PICK t \in Slots : c = st2[e][t] /\ c \in Elms
    BY DEF Kids, Held
  <2>2. CASE t = s
    BY <1>2, <2>1, <2>2
  <2>3. CASE t # s
    <3>1. c = st[e][t] /\ c # st[e][s]
      BY <1>2, <2>1, <2>3 DEF OnePlace
    <3> QED BY <2>1, <3>1 DEF Kids, Held
  <2> QED BY <2>2, <2>3
<1>5. ASSUME NEW c \in (Kids(st, e) \ {st[e][s]}) \cup ({v} \cap Elms) PROVE c \in Kids(st2, e)
  BY <1>2 DEF Kids, Held
<1>6. Kids(st2, e) = (Kids(st, e) \ {st[e][s]}) \cup ({v} \cap Elms)
  BY <1>4, <1>5
<1> QED BY <1>1, <1>3, <1>6

\* What a store does to what is nested in an element that e is nested in, and in
\* one that it is not.
LEMMA NestStored ==
  ASSUME NEW st, Forest(st), NEW e \in Elms, NEW s \in Slots, NEW v \in Value,
         Fits(st, e, s, v), NEW st2, st2 = Put(st, e, s, v), NEW x \in Elms
  PROVE  /\ e \notin Nest(st, x) => Nest(st2, x) = Nest(st, x)
         /\ e \in Nest(st, x) =>
              /\ NestOf(st, st[e][s]) \subseteq Nest(st, x)
              /\ Nest(st, x) \cap NestOf(st, v) = {}
              /\ e \notin NestOf(st, st[e][s])
              /\ Nest(st2, x) = (Nest(st, x) \ NestOf(st, st[e][s])) \cup NestOf(st, v)
<1>0. st \in Tables /\ OnePlace(st) /\ NoLoop(st)
  BY DEF Forest
<1>1. PICK old : old = st[e][s]
  OBVIOUS
<1>2. \A y \in Elms : Kids(st2, y) = IF y = e THEN (Kids(st, e) \ {old}) \cup ({v} \cap Elms)
                                     ELSE Kids(st, y)
  <2>1. \A y \in Elms : Kids(st2, y) = IF y = e THEN (Kids(st, e) \ {st[e][s]}) \cup ({v} \cap Elms)
                                       ELSE Kids(st, y)
    BY <1>0, KidsStored
  <2> QED BY <1>1, <2>1
<1>3. \A y : Kids(st, y) \subseteq Elms /\ Kids(st2, y) \subseteq Elms
  BY DEF Kids, Held
<1>4. old \in Elms => old \in Kids(st, e)
  BY <1>1 DEF Kids, Held
<1>5. old \in Elms => e \notin Nest(st, old)
  BY <1>0, <1>4 DEF NoLoop
<1>6. ASSUME e \notin Nest(st, x) PROVE Nest(st2, x) = Nest(st, x)
  <2>1. x \in Nest(st, x) /\ Nest(st, x) \subseteq Elms /\ \A y \in Nest(st, x) : Kids(st2, y) \subseteq Nest(st, x)
    BY <1>2, <1>6, NestIs
  <2>2. Nest(st2, x) \subseteq Nest(st, x)
    BY <2>1, NestLeast
  <2>3. ASSUME NEW y \in Nest(st2, x) PROVE Kids(st, y) \subseteq Nest(st2, x)
    <3>1. y \in Elms /\ y # e
      BY <1>6, <2>1, <2>2
    <3>2. Kids(st2, y) \subseteq Nest(st2, x)
      BY NestIs
    <3> QED BY <1>2, <3>1, <3>2
  <2>4. Nest(st, x) \subseteq Nest(st2, x)
    BY <2>3, NestIs, NestLeast
  <2> QED BY <2>2, <2>4
<1>7. ASSUME e \in Nest(st, x) PROVE NestOf(st, old) \subseteq Nest(st, x)
  <2>1. old \in Elms => old \in Nest(st, x)
    BY <1>4, <1>7, NestIs
  <2> QED BY <2>1, NestIs DEF NestOf
\* What is outside v is closed, and so disjoint from it.
<1>8. ASSUME e \in Nest(st, x) PROVE Nest(st, x) \cap NestOf(st, v) = {}
  <2> SUFFICES ASSUME v \in Elms PROVE Nest(st, x) \cap Nest(st, v) = {}
    BY DEF NestOf
  <2> DEFINE U == Elms \ Nest(st, v)
  <2>1. x \in U
    <3>1. x \in Nest(st, v) => e \in Nest(st, v)
      BY <1>8, NestIs
    <3> QED BY <3>1 DEF Fits
  <2>2. ASSUME NEW y \in U, NEW c \in Kids(st, y) PROVE c \in U
    <3>1. c \in Elms /\ c # v
      BY <1>3, <2>2 DEF Fits
    <3>2. ASSUME c \in Nest(st, v) PROVE FALSE
      <4>1. PICK z \in Nest(st, v) : c \in Kids(st, z)
        BY <3>1, <3>2, NestIs
      <4>2. z \in Elms
        BY <4>1, NestIs
      <4>3. z = y
        BY <1>0, <2>2, <4>1, <4>2, KidsOne
      <4> QED BY <2>2, <4>3
    <3> QED BY <3>1, <3>2
  <2> HIDE DEF U
  <2>3. Nest(st, x) \subseteq U
    BY <2>1, <2>2, NestLeast
  <2> QED BY <2>3 DEF U
<1>9. ASSUME e \in Nest(st, x)
      PROVE  Nest(st2, x) \subseteq (Nest(st, x) \ NestOf(st, old)) \cup NestOf(st, v)
  <2> DEFINE U == (Nest(st, x) \ NestOf(st, old)) \cup NestOf(st, v)
  <2>1. x \in U
    <3>1. ASSUME old \in Elms, x \in Nest(st, old) PROVE FALSE
      <4>1. e \in Nest(st, old)
        BY <1>9, <3>1, NestIs
      <4> QED BY <1>5, <3>1, <4>1
    <3> QED BY <3>1, NestIs DEF NestOf
  <2>2. ASSUME NEW y \in Nest(st, x) \ NestOf(st, old), NEW c \in Kids(st2, y) PROVE c \in U
    <3>0. y \in Elms
      BY <2>2, NestIs
    <3>1. CASE c = v /\ v \in Elms
      BY <3>1, NestIs DEF NestOf
    <3>2. CASE ~ (c = v /\ v \in Elms)
      <4>1. c \in Kids(st, y) /\ (y = e => c # old) /\ c \in Elms
        BY <1>2, <1>3, <2>2, <3>0, <3>2
      <4>2. c \in Nest(st, x)
        BY <2>2, <4>1, NestIs
      <4>3. ASSUME old \in Elms, c \in Nest(st, old) PROVE FALSE
        <5>1. CASE c = old
          <6>1. y = e
            BY <1>0, <1>4, <3>0, <4>1, <4>3, <5>1, KidsOne
          <6> QED BY <4>1, <5>1, <6>1
        <5>2. CASE c # old
          <6>1. PICK z \in Nest(st, old) : c \in Kids(st, z)
            BY <4>3, <5>2, NestIs
          <6>2. z \in Elms
            BY <4>3, <6>1, NestIs
          <6>3. z = y
            BY <1>0, <3>0, <4>1, <6>1, <6>2, KidsOne
          <6> QED BY <2>2, <4>3, <6>1, <6>3 DEF NestOf
        <5> QED BY <5>1, <5>2
      <4> QED BY <4>2, <4>3 DEF NestOf
    <3> QED BY <3>1, <3>2
  <2>3. ASSUME NEW y \in NestOf(st, v), NEW c \in Kids(st2, y) PROVE c \in U
    <3>1. v \in Elms /\ y \in Nest(st, v) /\ y \in Elms
      BY <2>3, NestIs DEF NestOf
    <3>2. y # e
      BY <3>1 DEF Fits
    <3>3. c \in Nest(st, v)
      BY <1>2, <2>3, <3>1, <3>2, NestIs
    <3> QED BY <3>1, <3>3 DEF NestOf
  <2>4. \A y \in U : Kids(st2, y) \subseteq U
    BY <2>2, <2>3
  <2> HIDE DEF U
  <2>5. Nest(st2, x) \subseteq U
    BY <2>1, <2>4, NestLeast
  <2> QED BY <2>5 DEF U
<1>10. ASSUME e \in Nest(st, x)
       PROVE  Nest(st, x) \subseteq Nest(st2, x) \cup NestOf(st, old)
  <2> DEFINE U == Nest(st2, x) \cup NestOf(st, old)
  <2>1. x \in U
    BY NestIs
  <2>2. ASSUME NEW y \in Nest(st2, x), NEW c \in Kids(st, y) PROVE c \in U
    <3>1. y \in Elms /\ c \in Elms
      BY <1>3, <2>2, NestIs
    <3>2. c \in Kids(st2, y) \/ c = old
      BY <1>2, <2>2, <3>1
    <3> QED BY <2>2, <3>1, <3>2, NestIs DEF NestOf
  <2>3. ASSUME NEW y \in NestOf(st, old), NEW c \in Kids(st, y) PROVE c \in U
    BY <2>3, NestIs DEF NestOf
  <2>4. \A y \in U : Kids(st, y) \subseteq U
    BY <2>2, <2>3
  <2> HIDE DEF U
  <2>5. Nest(st, x) \subseteq U
    BY <2>1, <2>4, NestLeast
  <2> QED BY <2>5 DEF U
<1>11. ASSUME e \in Nest(st, x), v \in Elms
       PROVE  Nest(st, v) \subseteq Nest(st2, x)
  <2>1. e \in Nest(st2, x)
    BY <1>5, <1>10, <1>11 DEF NestOf
  <2>2. v \in Nest(st2, x)
    BY <1>2, <1>11, <2>1, NestIs
  <2> DEFINE U == Nest(st, v) \cap Nest(st2, x)
  <2>3. v \in U
    BY <1>11, <2>2, NestIs
  <2>4. ASSUME NEW y \in U, NEW c \in Kids(st, y) PROVE c \in U
    <3>1. y \in Elms /\ y # e
      BY <1>11, <2>4, NestIs DEF Fits
    <3>2. c \in Kids(st2, y)
      BY <1>2, <2>4, <3>1
    <3> QED BY <1>11, <2>4, <3>2, NestIs
  <2> HIDE DEF U
  <2>5. Nest(st, v) \subseteq U
    BY <2>3, <2>4, NestLeast
  <2> QED BY <2>5 DEF U
<1>12. e \notin NestOf(st, old)
  BY <1>5 DEF NestOf
<1>13. ASSUME e \in Nest(st, x)
       PROVE  Nest(st2, x) = (Nest(st, x) \ NestOf(st, old)) \cup NestOf(st, v)
  BY <1>9, <1>10, <1>11, <1>13 DEF NestOf
<1> QED BY <1>1, <1>6, <1>7, <1>8, <1>12, <1>13

LEMMA ForestStored ==
  ASSUME NEW st, Forest(st), NEW e \in Elms, NEW s \in Slots, NEW v \in Value,
         Fits(st, e, s, v), NEW st2, st2 = Put(st, e, s, v)
  PROVE  Forest(st2)
<1>0. st \in Tables /\ OnePlace(st) /\ NoLoop(st)
  BY DEF Forest
<1>1. PICK old : old = st[e][s]
  OBVIOUS
<1>2. /\ st2 \in Tables
      /\ \A y \in Elms : Kids(st2, y) = IF y = e THEN (Kids(st, e) \ {old}) \cup ({v} \cap Elms)
                                        ELSE Kids(st, y)
  <2>1. /\ st2 \in Tables
        /\ \A y \in Elms :
             Kids(st2, y) = IF y = e THEN (Kids(st, e) \ {st[e][s]}) \cup ({v} \cap Elms)
                            ELSE Kids(st, y)
    BY <1>0, KidsStored
  <2> QED BY <1>1, <2>1
<1>3. OnePlace(st2)
  <2>1. \A y \in Elms, t \in Slots : st2[y][t] = IF y = e /\ t = s THEN v ELSE st[y][t]
    BY <1>0 DEF Tables, Put
  <2>2. v \in Elms => \A y \in Elms, t \in Slots : st[y][t] # v
    BY DEF Fits, Kids, Held
  <2> QED BY <1>0, <2>1, <2>2 DEF OnePlace
<1>4. ASSUME NEW y \in Elms, NEW c \in Kids(st2, y) PROVE y \notin Nest(st2, c)
  <2>0. c \in Elms
    BY DEF Kids, Held
  <2>1. CASE c \in Kids(st, y)
    <3>1. y \notin Nest(st, c)
      BY <1>0, <2>1 DEF NoLoop
    <3>2. CASE e \in Nest(st, c)
      <4>1. Nest(st2, c) = (Nest(st, c) \ NestOf(st, old)) \cup NestOf(st, v)
        <5>1. Nest(st2, c) = (Nest(st, c) \ NestOf(st, st[e][s])) \cup NestOf(st, v)
          BY <2>0, <3>2, NestStored
        <5> QED BY <1>1, <5>1
      <4>2. ASSUME v \in Elms, y \in Nest(st, v) PROVE FALSE
        <5>1. c \in Nest(st, v)
          BY <2>1, <4>2, NestIs
        <5>2. e \in Nest(st, v)
          BY <3>2, <4>2, <5>1, NestIs
        <5> QED BY <4>2, <5>2 DEF Fits
      <4> QED BY <3>1, <4>1, <4>2 DEF NestOf
    <3>3. CASE e \notin Nest(st, c)
      BY <2>0, <3>1, <3>3, NestStored
    <3> QED BY <3>2, <3>3
  <2>2. CASE c \notin Kids(st, y)
    <3>1. y = e /\ c = v /\ v \in Elms
      BY <1>2, <1>4, <2>2
    <3>2. e \notin Nest(st, v)
      BY <3>1 DEF Fits
    <3> QED BY <3>1, <3>2, NestStored
  <2> QED BY <2>1, <2>2
<1> QED BY <1>2, <1>3, <1>4 DEF Forest, NoLoop

-------------------------------------------------------------------------------
(***************************************************************************)
(* The text of an element in any mode is longer than its JSON by what its  *)
(* keys and its quoted strings grow.                                       *)
(***************************************************************************)
\* The texts: filled places.
Texts == {parts \in SUBSET (Elms \X Slots) : \A p \in parts : store[p[1]][p[2]] # Vacant}

LEMMA PlacesFinite ==
  /\ IsFiniteSet(Elms \X Slots)
  /\ \A S \in SUBSET (Elms \X Slots) : IsFiniteSet(S) /\ Cardinality(S) \in Nat
<1>1. IsFiniteSet(Elms \X Slots)
  BY ConstantsAreSound, FS_Product
<1> QED BY <1>1, FS_Subset, FS_CardinalityType

LEMMA PartsAreText ==
  ASSUME NEW e \in Elms
  PROVE  Parts(e) \in Texts
<1>1. Inside(e) \subseteq Elms
  BY InsideIs, NestIs
<1> QED BY <1>1 DEF Parts, Texts

\* The keys and the strings of one place.
KeysAt(p) == (IF p[1] \in Objects THEN 1 ELSE 0) + (IF store[p[1]][p[2]] = Table THEN 1 ELSE 0)
QuotedAt(p) == IF store[p[1]][p[2]] \in Strings \cup {Table} THEN 1 ELSE 0

LEMMA ValueGrows ==
  ASSUME NEW v \in Value, v # Vacant, NEW m \in Modes
  PROVE  LET k == IF v = Table THEN 1 ELSE 0
             q == IF v \in Strings \cup {Table} THEN 1 ELSE 0
         IN  /\ ValueText(Json, v) \in Int
             /\ ValueText(m, v) = ValueText(Json, v) + ForKey(m) * k + ForString(m) * q
<1>0. ForKey(m) \in Int /\ ForString(m) \in Int
  BY Additions DEF Modes
<1>1. /\ \A n \in Nat : KeyText(Json, n) \in Int /\ StringText(Json, n) \in Int
      /\ \A n \in Nat : /\ KeyText(m, n) = KeyText(Json, n) + ForKey(m)
                        /\ StringText(m, n) = StringText(Json, n) + ForString(m)
  BY SameForAnyLength DEF KeyText, StringText, Json
<1>2. CASE v \in Strings
  <2>1. v # Table /\ Width[v] \in Nat /\ v \notin Plain /\ v \notin Elms
    BY <1>2, ConstantsAreSound
  <2>2. ValueText(Json, v) = StringText(Json, Width[v]) /\ ValueText(m, v) = StringText(m, Width[v])
    BY <1>2, <2>1 DEF ValueText
  <2> QED BY <1>0, <1>1, <1>2, <2>1, <2>2
<1>3. CASE v \in Plain
  <2>1. v # Table /\ Width[v] \in Nat /\ v \notin Strings /\ v \notin Elms
    BY <1>3, ConstantsAreSound
  <2>2. ValueText(Json, v) = Width[v] /\ ValueText(m, v) = Width[v]
    BY <1>3, <2>1 DEF ValueText, PlainText
  <2> QED BY <1>0, <2>1, <2>2
<1>4. CASE v \in Elms
  <2>1. v # Table /\ v \notin Strings /\ v \notin Plain
    BY <1>4, ConstantsAreSound
  <2>2. ValueText(Json, v) = 2 /\ ValueText(m, v) = 2
    BY <1>4, <2>1 DEF ValueText, Brackets
  <2> QED BY <1>0, <2>1, <2>2
<1>5. CASE v = Table
  <2>1. v \notin Elms /\ v \notin Strings /\ v \notin Plain
    BY <1>5, ConstantsAreSound
  <2>2. /\ ValueText(Json, v) = 2 + KeyText(Json, 1) + StringText(Json, 1)
        /\ ValueText(m, v) = 2 + KeyText(m, 1) + StringText(m, 1)
    BY <2>1 DEF ValueText, TableText, Brackets
  <2> QED BY <1>0, <1>1, <1>5, <2>2
<1> QED BY <1>2, <1>3, <1>4, <1>5 DEF Value

LEMMA PartGrows ==
  ASSUME store \in Tables, NEW p \in Elms \X Slots, store[p[1]][p[2]] # Vacant, NEW m \in Modes
  PROVE  /\ PartText(Json, p) \in Int /\ KeysAt(p) \in Int /\ QuotedAt(p) \in Int
         /\ PartText(m, p) = PartText(Json, p) + ForKey(m) * KeysAt(p) + ForString(m) * QuotedAt(p)
<1>0. ForKey(m) \in Int /\ ForString(m) \in Int
  BY Additions DEF Modes
<1>1. PICK v \in Value : v = store[p[1]][p[2]]
  BY DEF Tables
<1>3. PICK k \in {0, 1} : k = IF v = Table THEN 1 ELSE 0
  OBVIOUS
<1>4. PICK q \in {0, 1} : q = IF v \in Strings \cup {Table} THEN 1 ELSE 0
  OBVIOUS
<1>5. /\ ValueText(Json, v) \in Int
      /\ ValueText(m, v) = ValueText(Json, v) + ForKey(m) * k + ForString(m) * q
  BY <1>1, <1>3, <1>4, ValueGrows
<1>6. /\ KeyText(Json, KeyLen) \in Int
      /\ KeyText(m, KeyLen) = KeyText(Json, KeyLen) + ForKey(m)
  BY ConstantsAreSound, SameForAnyLength DEF KeyText, Json
<1>7. QuotedAt(p) = q
  BY <1>1, <1>4 DEF QuotedAt
<1>8. CASE p[1] \in Objects
  <2>1. KeysAt(p) = 1 + k
    BY <1>1, <1>3, <1>8 DEF KeysAt
  <2>2. /\ PartText(Json, p) = KeyText(Json, KeyLen) + ValueText(Json, v)
        /\ PartText(m, p) = KeyText(m, KeyLen) + ValueText(m, v)
    BY <1>1, <1>8 DEF PartText
  <2>3. ForKey(m) * KeysAt(p) = ForKey(m) + ForKey(m) * k
    BY <1>0, <2>1
  <2>4. PICK a \in Int, b \in Int : a = ForKey(m) * k /\ b = ForString(m) * q
    BY <1>0
  <2>5. PartText(m, p) = PartText(Json, p) + (ForKey(m) + a) + b
    BY <1>0, <1>5, <1>6, <2>2, <2>4
  <2>6. PartText(Json, p) \in Int /\ KeysAt(p) \in Int /\ QuotedAt(p) \in Int
    BY <1>5, <1>6, <1>7, <2>1, <2>2
  <2> QED BY <1>7, <2>3, <2>4, <2>5, <2>6, Zenon
<1>9. CASE p[1] \notin Objects
  <2>1. KeysAt(p) = 0 + k
    BY <1>1, <1>3, <1>9 DEF KeysAt
  <2>2. /\ PartText(Json, p) = 0 + ValueText(Json, v)
        /\ PartText(m, p) = 0 + ValueText(m, v)
    BY <1>1, <1>9 DEF PartText
  <2> QED BY <1>0, <1>5, <1>7, <2>1, <2>2
<1> QED BY <1>8, <1>9

LEMMA CountedIn ==
  ASSUME NEW parts \in Texts
  PROVE  /\ IsFiniteSet(parts)
         /\ KeysIn(parts) \in Nat /\ QuotedIn(parts) \in Nat /\ TablesIn(parts) \in Nat
         /\ KeysIn(parts) = SumFunctionOnSet([p \in parts |-> KeysAt(p)], parts)
         /\ QuotedIn(parts) = SumFunctionOnSet([p \in parts |-> QuotedAt(p)], parts)
<1> DEFINE T == Holding(parts, {Table})
           O == Keyed(parts)
           Q == Holding(parts, Strings \cup {Table})
           One(S) == [x \in parts |-> IF x \in S THEN 1 ELSE 0]
<1>1. T \subseteq parts /\ O \subseteq parts /\ Q \subseteq parts
  BY DEF Holding, Keyed
<1>2. /\ IsFiniteSet(parts)
      /\ Cardinality(T) \in Nat /\ Cardinality(O) \in Nat /\ Cardinality(Q) \in Nat
  BY <1>1, PlacesFinite DEF Texts
<1>3. KeysIn(parts) = Cardinality(O) + Cardinality(T) /\ QuotedIn(parts) = Cardinality(Q)
      /\ TablesIn(parts) = Cardinality(T)
  BY DEF KeysIn, QuotedIn, TablesIn
<1>4. \A p \in parts : /\ QuotedAt(p) = IF p \in Q THEN 1 ELSE 0
                       /\ KeysAt(p) = (IF p \in O THEN 1 ELSE 0) + (IF p \in T THEN 1 ELSE 0)
  BY DEF QuotedAt, KeysAt, Holding, Keyed
<1> HIDE DEF T, O, Q
<1>5. /\ Cardinality(T) = SumFunctionOnSet(One(T), parts)
      /\ Cardinality(O) = SumFunctionOnSet(One(O), parts)
      /\ Cardinality(Q) = SumFunctionOnSet(One(Q), parts)
  BY <1>1, <1>2, CountIsSum
<1>6. [p \in parts |-> QuotedAt(p)] = One(Q)
  BY <1>4
<1>7. SumFunctionOnSet([p \in parts |-> KeysAt(p)], parts) = Cardinality(O) + Cardinality(T)
  <2>1. PICK h : h = [p \in parts |-> KeysAt(p)]
    OBVIOUS
  <2>2. PICK f : f = One(O)
    OBVIOUS
  <2>3. PICK g : g = One(T)
    OBVIOUS
  <2>4. PICK a \in Int, b \in Int : a = 1 /\ b = 0
    OBVIOUS
  <2>5. \A x \in parts : /\ f[x] \in Int /\ g[x] \in Int
                         /\ h[x] = f[x] + a * g[x] + b * g[x]
    <3>1. \A x \in parts : f[x] \in Int /\ g[x] \in Int /\ h[x] = f[x] + g[x]
      BY <1>4, <2>1, <2>2, <2>3
    <3> QED BY <2>4, <3>1
  <2>6. /\ SumFunctionOnSet(f, parts) \in Int /\ SumFunctionOnSet(g, parts) \in Int
        /\ SumFunctionOnSet(h, parts) = SumFunctionOnSet(f, parts) + a * SumFunctionOnSet(g, parts)
                                          + b * SumFunctionOnSet(g, parts)
    BY <1>2, <2>5, SumLinear
  <2>7. SumFunctionOnSet(f, parts) = Cardinality(O) /\ SumFunctionOnSet(g, parts) = Cardinality(T)
    BY <1>5, <2>2, <2>3
  <2>8. SumFunctionOnSet(h, parts) = Cardinality(O) + Cardinality(T)
    BY <2>4, <2>6, <2>7
  <2> QED BY <2>1, <2>8
<1> QED BY <1>2, <1>3, <1>5, <1>6, <1>7

LEMMA TextGrows ==
  ASSUME store \in Tables, NEW parts \in Texts, NEW m \in Modes
  PROVE  /\ TextLen(parts, Json) \in Int
         /\ TextLen(parts, m) = PrintedLen(TextLen(parts, Json), m, KeysIn(parts), QuotedIn(parts))
<1>1. ForKey(m) \in Int /\ ForString(m) \in Int
  BY Additions DEF Modes
<1>2. PICK f : f = [p \in parts |-> PartText(Json, p)]
  OBVIOUS
<1>3. PICK g : g = [p \in parts |-> KeysAt(p)]
  OBVIOUS
<1>4. PICK k : k = [p \in parts |-> QuotedAt(p)]
  OBVIOUS
<1>5. PICK h : h = [p \in parts |-> PartText(m, p)]
  OBVIOUS
<1>6. IsFiniteSet(parts)
  BY CountedIn
<1>7. \A p \in parts : /\ f[p] \in Int /\ g[p] \in Int /\ k[p] \in Int
                       /\ h[p] = f[p] + ForKey(m) * g[p] + ForString(m) * k[p]
  <2>1. \A p \in parts : p \in Elms \X Slots /\ store[p[1]][p[2]] # Vacant
    BY DEF Texts
  <2> QED BY <1>2, <1>3, <1>4, <1>5, <2>1, PartGrows
<1>8. /\ SumFunctionOnSet(f, parts) \in Int
      /\ SumFunctionOnSet(h, parts) = SumFunctionOnSet(f, parts) + ForKey(m) * SumFunctionOnSet(g, parts)
                                        + ForString(m) * SumFunctionOnSet(k, parts)
  BY <1>1, <1>6, <1>7, SumLinear
<1>9. PICK c : c = Cardinality({p[1] : p \in parts})
  OBVIOUS
<1>10. c \in Int /\ Cardinality(parts) \in Int
  <2>1. {p[1] : p \in parts} \in SUBSET Elms
    BY DEF Texts
  <2>2. IsFiniteSet({p[1] : p \in parts})
    BY <2>1, ConstantsAreSound, FS_Subset
  <2> QED BY <1>6, <1>9, <2>2, FS_CardinalityType
<1>11. /\ TextLen(parts, Json) = 2 + Cardinality(parts) - c + SumFunctionOnSet(f, parts)
       /\ TextLen(parts, m) = 2 + Cardinality(parts) - c + SumFunctionOnSet(h, parts)
  BY <1>2, <1>5, <1>9 DEF TextLen, Brackets
<1>12. PICK a \in Int, b \in Int : /\ a = ForKey(m) * SumFunctionOnSet(g, parts)
                                   /\ b = ForString(m) * SumFunctionOnSet(k, parts)
  <2>1. SumFunctionOnSet(g, parts) \in Int /\ SumFunctionOnSet(k, parts) \in Int
    BY <1>3, <1>4, CountedIn
  <2> QED BY <1>1, <2>1
<1>13. KeysIn(parts) = SumFunctionOnSet(g, parts) /\ QuotedIn(parts) = SumFunctionOnSet(k, parts)
  BY <1>3, <1>4, CountedIn
<1>14. TextLen(parts, Json) \in Int /\ TextLen(parts, m) = TextLen(parts, Json) + a + b
  BY <1>8, <1>10, <1>11, <1>12
<1> QED BY <1>12, <1>13, <1>14 DEF PrintedLen

\* One text, one set of counters.
LEMMA RecountIs ==
  ASSUME store \in Tables, NEW parts \in Texts, NEW m \in Modes
  PROVE  Recount(parts, m) = [rlen |-> TextLen(parts, Json), nkeys |-> KeysIn(parts),
                              quoted |-> QuotedIn(parts), trefs |-> TablesIn(parts)]
<1>1. TextLen(parts, Json) \in Int /\ KeysIn(parts) \in Int /\ QuotedIn(parts) \in Int
  <2>1. KeysIn(parts) \in Nat /\ QuotedIn(parts) \in Nat
    BY CountedIn
  <2>2. TextLen(parts, Json) \in Int
    BY TextGrows
  <2> QED BY <2>1, <2>2
<1> QED BY <1>1, TextGrows, ToBaseIsPlain DEF Recount

LEMMA AllModesSync == ASSUME store \in Tables PROVE RenderSyncsAllModes
<1> SUFFICES ASSUME NEW e \in Elms, NEW m \in Modes
             PROVE  /\ Recount(Parts(e), m) = Recount(Parts(e), Json)
                    /\ FromBase(Recount(Parts(e), Json), m) = TextLen(Parts(e), m)
  BY DEF RenderSyncsAllModes
<1>1. PICK parts \in Texts : parts = Parts(e)
  BY PartsAreText
<1>2. Json \in Modes
  BY DEF Json, Modes
<1>3. PICK b : b = Recount(parts, Json)
  OBVIOUS
<1>4. b = [rlen |-> TextLen(parts, Json), nkeys |-> KeysIn(parts),
           quoted |-> QuotedIn(parts), trefs |-> TablesIn(parts)]
  BY <1>2, <1>3, RecountIs
<1>5. b.rlen = TextLen(parts, Json) /\ b.nkeys = KeysIn(parts) /\ b.quoted = QuotedIn(parts)
  BY <1>4
<1>6. b.rlen \in Int /\ b.nkeys \in Int /\ b.quoted \in Int
  <2>1. KeysIn(parts) \in Nat /\ QuotedIn(parts) \in Nat
    BY CountedIn
  <2>2. TextLen(parts, Json) \in Int
    BY TextGrows
  <2> QED BY <1>5, <2>1, <2>2
<1>7. FromBase(b, m) = TextLen(parts, m)
  <2>1. FromBase(b, m) = PrintedLen(b.rlen, m, b.nkeys, b.quoted)
    BY <1>6, FromBaseIsPrinted
  <2> QED BY <1>5, <2>1, TextGrows
<1>8. Recount(parts, m) = b
  BY <1>4, RecountIs
<1> QED BY <1>1, <1>3, <1>7, <1>8

-------------------------------------------------------------------------------
(***************************************************************************)
(* What a store does to a count of places.                                 *)
(***************************************************************************)
\* The places within the elements of N that are in M, a set of pairs of an
\* element and what stands in it.
At(st, N, M) == {p \in N \X Slots : <<p[1], st[p[1]][p[2]]>> \in M}

\* How many of them the value v brings with it, nested in it.
Brought(st, v, M) == Cardinality(At(st, NestOf(st, v), M))

\* The places with a table, with a quoted string, and those of an object.
WithTable == Elms \X {Table}
WithString == Elms \X (Strings \cup {Table})
WithKey == Objects \X (Value \ {Vacant})

\* The counts of the text of x.
CountOf(st, x, M) == Cardinality(At(st, Nest(st, x), M))

LEMMA CountsAre ==
  ASSUME NEW x \in Elms
  PROVE  /\ store \in Tables => /\ TablesIn(Parts(x)) = CountOf(store, x, WithTable)
                                /\ QuotedIn(Parts(x)) = CountOf(store, x, WithString)
                                /\ KeysIn(Parts(x)) = CountOf(store, x, WithKey)
                                                        + CountOf(store, x, WithTable)
         /\ store' \in Tables => /\ TablesIn(Parts(x))' = CountOf(store', x, WithTable)
                                 /\ QuotedIn(Parts(x))' = CountOf(store', x, WithString)
                                 /\ KeysIn(Parts(x))' = CountOf(store', x, WithKey)
                                                          + CountOf(store', x, WithTable)
<1>1. Vacant \notin Strings \cup {Table}
  BY ConstantsAreSound
<1>2. ASSUME store \in Tables
      PROVE  /\ Holding(Parts(x), {Table}) = At(store, Nest(store, x), WithTable)
             /\ Holding(Parts(x), Strings \cup {Table}) = At(store, Nest(store, x), WithString)
             /\ Keyed(Parts(x)) = At(store, Nest(store, x), WithKey)
  <2>1. Parts(x) = {p \in Nest(store, x) \X Slots : store[p[1]][p[2]] # Vacant}
    BY InsideIs DEF Parts
  <2>2. \A p \in Nest(store, x) \X Slots : p[1] \in Elms /\ store[p[1]][p[2]] \in Value
    BY <1>2, NestIs DEF Tables
  <2> QED BY <1>1, <2>1, <2>2 DEF Holding, Keyed, At, WithTable, WithString, WithKey
<1>3. ASSUME store' \in Tables
      PROVE  /\ Holding(Parts(x), {Table})' = At(store', Nest(store', x), WithTable)
             /\ Holding(Parts(x), Strings \cup {Table})' = At(store', Nest(store', x), WithString)
             /\ Keyed(Parts(x))' = At(store', Nest(store', x), WithKey)
  <2>1. Parts(x)' = {p \in Nest(store', x) \X Slots : store'[p[1]][p[2]] # Vacant}
    BY InsideIs DEF Parts
  <2>2. \A p \in Nest(store', x) \X Slots : p[1] \in Elms /\ store'[p[1]][p[2]] \in Value
    BY <1>3, NestIs DEF Tables
  <2> QED BY <1>1, <2>1, <2>2 DEF Holding, Keyed, At, WithTable, WithString, WithKey
<1> QED BY <1>2, <1>3 DEF TablesIn, QuotedIn, KeysIn, CountOf

LEMMA CountIsNat ==
  ASSUME NEW st, NEW x \in Elms, NEW M
  PROVE  CountOf(st, x, M) \in Nat
<1>1. At(st, Nest(st, x), M) \in SUBSET (Elms \X Slots)
  BY NestIs DEF At
<1> QED BY <1>1, PlacesFinite DEF CountOf

LEMMA BroughtIs ==
  ASSUME NEW st, NEW v, NEW M
  PROVE  /\ v \in Elms => Brought(st, v, M) = CountOf(st, v, M)
         /\ v \notin Elms => Brought(st, v, M) = 0
<1>1. v \notin Elms => At(st, NestOf(st, v), M) = {}
  BY DEF NestOf, At
<1> QED BY <1>1, FS_EmptySet DEF Brought, CountOf, NestOf

\* The old value takes its places away, the new one brings its own.
LEMMA CountStored ==
  ASSUME NEW st, Forest(st), NEW e \in Elms, NEW s \in Slots, NEW v \in Value,
         Fits(st, e, s, v), NEW st2, st2 = Put(st, e, s, v), NEW x \in Elms, NEW M
  PROVE  /\ e \notin Nest(st, x) => CountOf(st2, x, M) = CountOf(st, x, M)
         /\ e \in Nest(st, x) =>
              /\ Brought(st, st[e][s], M) \in Nat /\ Brought(st, v, M) \in Nat
              /\ CountOf(st2, x, M)
                   = CountOf(st, x, M) - Brought(st, st[e][s], M) + Brought(st, v, M)
                       - (IF <<e, st[e][s]>> \in M THEN 1 ELSE 0) + (IF <<e, v>> \in M THEN 1 ELSE 0)
<1>1. PICK old : old = st[e][s]
  OBVIOUS
<1>2. \A y \in Elms, t \in Slots : st2[y][t] = IF y = e /\ t = s THEN v ELSE st[y][t]
  BY DEF Forest, Tables, Put
<1>3. Nest(st, x) \subseteq Elms
  BY NestIs
<1>4. ASSUME e \notin Nest(st, x) PROVE CountOf(st2, x, M) = CountOf(st, x, M)
  <2>1. Nest(st2, x) = Nest(st, x)
    BY <1>4, NestStored
  <2>2. At(st2, Nest(st, x), M) = At(st, Nest(st, x), M)
    BY <1>2, <1>3, <1>4 DEF At
  <2> QED BY <2>1, <2>2 DEF CountOf
<1>5. ASSUME e \in Nest(st, x)
      PROVE  /\ Brought(st, old, M) \in Nat /\ Brought(st, v, M) \in Nat
             /\ CountOf(st2, x, M)
                  = CountOf(st, x, M) - Brought(st, old, M) + Brought(st, v, M)
                      - (IF <<e, old>> \in M THEN 1 ELSE 0) + (IF <<e, v>> \in M THEN 1 ELSE 0)
  <2> DEFINE X == Nest(st, x)
             O == NestOf(st, old)
             V == NestOf(st, v)
             A == At(st, X, M)
             B == At(st, O, M)
             C == At(st, V, M)
             D == At(st2, Nest(st2, x), M)
             q == <<e, s>>
  <2>1. /\ O \subseteq X /\ X \cap V = {} /\ e \notin O
        /\ Nest(st2, x) = (X \ O) \cup V
    BY <1>1, <1>5, NestStored
  <2>2. V \subseteq Elms
    BY NestIs DEF NestOf
  <2>3. IsFiniteSet(A) /\ IsFiniteSet(C)
    <3>1. A \in SUBSET (Elms \X Slots) /\ C \in SUBSET (Elms \X Slots)
      BY <1>3, <2>2 DEF At
    <3> QED BY <3>1, PlacesFinite
  <2>4. B \subseteq A /\ A \cap C = {} /\ q \notin B /\ q \notin C
    BY <1>5, <2>1 DEF At
  <2>5. PICK b \in BOOLEAN : b <=> <<e, v>> \in M
    OBVIOUS
  <2>6. q \in A <=> <<e, old>> \in M
    BY <1>1, <1>5 DEF At
  <2>7. D = (A \ (B \cup {q})) \cup C \cup (IF b THEN {q} ELSE {})
    <3>1. ASSUME NEW p \in Elms \X Slots, p # q
          PROVE  <<p[1], st2[p[1]][p[2]]>> = <<p[1], st[p[1]][p[2]]>>
      BY <1>2, <3>1
    <3>2. <<q[1], st2[q[1]][q[2]]>> = <<e, v>> /\ q \in Elms \X Slots
      BY <1>2
    <3>3. \A p : p \in D <=> p \in ((X \ O) \cup V) \X Slots /\ <<p[1], st2[p[1]][p[2]]>> \in M
      BY <2>1 DEF At
    <3>4. \A p : /\ p \in A <=> p \in X \X Slots /\ <<p[1], st[p[1]][p[2]]>> \in M
                 /\ p \in B <=> p \in O \X Slots /\ <<p[1], st[p[1]][p[2]]>> \in M
                 /\ p \in C <=> p \in V \X Slots /\ <<p[1], st[p[1]][p[2]]>> \in M
      BY DEF At
    <3>5. q \in D <=> b
      BY <1>5, <2>1, <2>5, <3>2, <3>3
    <3>6. ASSUME NEW p, p # q
          PROVE  p \in D <=> (p \in A /\ p \notin B) \/ p \in C
      <4>1. p \in ((X \ O) \cup V) \X Slots => p \in Elms \X Slots
        BY <1>3, <2>2
      <4>2. (p \in X \X Slots \/ p \in V \X Slots) => p \in Elms \X Slots
        BY <1>3, <2>2
      <4>3. p \in ((X \ O) \cup V) \X Slots
              <=> (p \in X \X Slots /\ p \notin O \X Slots) \/ p \in V \X Slots
        OBVIOUS
      <4> HIDE DEF A, B, C, D, X, O, V, q
      <4>4. CASE p \in Elms \X Slots
        <5>1. <<p[1], st2[p[1]][p[2]]>> = <<p[1], st[p[1]][p[2]]>>
          BY <3>1, <3>6, <4>4
        <5> QED BY <3>3, <3>4, <4>3, <5>1
      <4>5. CASE p \notin Elms \X Slots
        BY <3>3, <3>4, <4>1, <4>2, <4>5
      <4> QED BY <4>4, <4>5
    <3> HIDE DEF A, B, C, D, q
    <3>7. ASSUME NEW p
          PROVE  p \in D <=> p \in (A \ (B \cup {q})) \cup C \cup (IF b THEN {q} ELSE {})
      <4>1. CASE p = q
        BY <2>4, <3>5, <4>1
      <4>2. CASE p # q
        BY <3>6, <4>2
      <4> QED BY <4>1, <4>2
    <3> QED BY <3>7
  <2> HIDE DEF A, B, C, D, q
  <2>8. /\ Cardinality(A) \in Nat /\ Cardinality(B) \in Nat /\ Cardinality(C) \in Nat
        /\ Cardinality(D) = Cardinality(A) - Cardinality(B) + Cardinality(C)
                              - (IF q \in A THEN 1 ELSE 0) + (IF b THEN 1 ELSE 0)
    BY <2>3, <2>4, <2>7, Exchanged
  <2>9. /\ (IF q \in A THEN 1 ELSE 0) = (IF <<e, old>> \in M THEN 1 ELSE 0)
        /\ (IF b THEN 1 ELSE 0) = (IF <<e, v>> \in M THEN 1 ELSE 0)
    BY <2>5, <2>6
  <2>10. /\ Cardinality(A) = CountOf(st, x, M) /\ Cardinality(B) = Brought(st, old, M)
         /\ Cardinality(C) = Brought(st, v, M) /\ Cardinality(D) = CountOf(st2, x, M)
    BY DEF A, B, C, D, X, CountOf, Brought
  <2> QED BY <2>8, <2>9, <2>10
<1> QED BY <1>1, <1>4, <1>5

-------------------------------------------------------------------------------
(***************************************************************************)
(* The counters of all that are trusted.                                   *)
(***************************************************************************)
Counters == [rlen : Int, nkeys : Int, quoted : Int, trefs : Int]
Amounts == [rlen : Int, nkeys : Int, quoted : Int]

\* What the runs check, what the env tables are like and, for the tables, that no
\* more of them are taken back than have been booked.
CountsInv ==
  /\ Forest(store)
  /\ base \in [Elms -> Counters] /\ deleted \in [Elms -> Nat]
  /\ unread \subseteq Elms /\ trusted \subseteq Elms
  /\ CountsAreExact
  /\ TablesAreRendered
  /\ \A x \in trusted : base[x].trefs >= 0

\* CountsAreExact and TablesAreRendered for one element.
ExactAt(st, b, d, x) ==
  /\ b[x].quoted = CountOf(st, x, WithString)
  /\ b[x].nkeys = CountOf(st, x, WithKey) + CountOf(st, x, WithTable) - d[x]
RenderedAt(st, b, u, x) ==
  /\ CountOf(st, x, WithTable) > 0 \/ x \in u => b[x].trefs > 0
  /\ b[x].trefs >= 0

LEMMA CountsInvIs ==
  /\ CountsInv <=>
       /\ Forest(store)
       /\ base \in [Elms -> Counters] /\ deleted \in [Elms -> Nat]
       /\ unread \subseteq Elms /\ trusted \subseteq Elms
       /\ \A x \in trusted \ unread : ExactAt(store, base, deleted, x)
       /\ \A x \in trusted : RenderedAt(store, base, unread, x)
  /\ CountsInv' <=>
       /\ Forest(store')
       /\ base' \in [Elms -> Counters] /\ deleted' \in [Elms -> Nat]
       /\ unread' \subseteq Elms /\ trusted' \subseteq Elms
       /\ \A x \in trusted' \ unread' : ExactAt(store', base', deleted', x)
       /\ \A x \in trusted' : RenderedAt(store', base', unread', x)
<1>1. ASSUME Forest(store), deleted \in [Elms -> Nat], trusted \subseteq Elms
      PROVE  /\ CountsAreExact <=> \A x \in trusted \ unread : ExactAt(store, base, deleted, x)
             /\ (TablesAreRendered /\ \A x \in trusted : base[x].trefs >= 0)
                  <=> \A x \in trusted : RenderedAt(store, base, unread, x)
  <2>1. store \in Tables
    BY <1>1 DEF Forest
  <2>2. \A x \in Elms : /\ TablesIn(Parts(x)) = CountOf(store, x, WithTable)
                        /\ QuotedIn(Parts(x)) = CountOf(store, x, WithString)
                        /\ KeysIn(Parts(x)) = CountOf(store, x, WithKey)
                                                + CountOf(store, x, WithTable)
    BY <2>1, CountsAre
  <2>3. CountsAreExact <=> \A x \in trusted \ unread :
                             /\ base[x].quoted = QuotedIn(Parts(x))
                             /\ base[x].nkeys = KeysIn(Parts(x)) - deleted[x]
    BY DEF CountsAreExact
  <2>4. TablesAreRendered <=> \A x \in trusted :
                                TablesIn(Parts(x)) > 0 \/ x \in unread => base[x].trefs > 0
    BY DEF TablesAreRendered
  <2>5. CountsAreExact <=> \A x \in trusted \ unread : ExactAt(store, base, deleted, x)
    <3>1. ASSUME NEW x \in Elms
          PROVE  ExactAt(store, base, deleted, x)
                   <=> /\ base[x].quoted = QuotedIn(Parts(x))
                       /\ base[x].nkeys = KeysIn(Parts(x)) - deleted[x]
      <4>1. PICK q, k : q = QuotedIn(Parts(x)) /\ k = KeysIn(Parts(x))
        OBVIOUS
      <4>2. /\ q = CountOf(store, x, WithString)
            /\ k = CountOf(store, x, WithKey) + CountOf(store, x, WithTable)
        BY <2>2, <4>1, Zenon
      <4>3. ExactAt(store, base, deleted, x)
              <=> base[x].quoted = q /\ base[x].nkeys = k - deleted[x]
        BY <1>1, <4>2, CountIsNat DEF ExactAt
      <4> QED BY <4>1, <4>3, Zenon
    <3> QED BY <1>1, <2>3, <3>1
  <2>6. TablesAreRendered <=> \A x \in trusted :
          CountOf(store, x, WithTable) > 0 \/ x \in unread => base[x].trefs > 0
    BY <1>1, <2>2, <2>4
  <2> QED BY <2>5, <2>6, Zenon DEF RenderedAt
<1>2. ASSUME Forest(store'), deleted' \in [Elms -> Nat], trusted' \subseteq Elms
      PROVE  /\ CountsAreExact' <=> \A x \in trusted' \ unread' : ExactAt(store', base', deleted', x)
             /\ (TablesAreRendered' /\ \A x \in trusted' : base'[x].trefs >= 0)
                  <=> \A x \in trusted' : RenderedAt(store', base', unread', x)
  <2>1. store' \in Tables
    BY <1>2 DEF Forest
  <2>2. \A x \in Elms : /\ TablesIn(Parts(x))' = CountOf(store', x, WithTable)
                        /\ QuotedIn(Parts(x))' = CountOf(store', x, WithString)
                        /\ KeysIn(Parts(x))' = CountOf(store', x, WithKey)
                                                 + CountOf(store', x, WithTable)
    BY <2>1, CountsAre
  <2>3. CountsAreExact' <=> \A x \in trusted' \ unread' :
                              /\ base'[x].quoted = QuotedIn(Parts(x))'
                              /\ base'[x].nkeys = KeysIn(Parts(x))' - deleted'[x]
    BY DEF CountsAreExact
  <2>4. TablesAreRendered' <=> \A x \in trusted' :
                                 TablesIn(Parts(x))' > 0 \/ x \in unread' => base'[x].trefs > 0
    BY DEF TablesAreRendered
  <2>5. CountsAreExact' <=> \A x \in trusted' \ unread' : ExactAt(store', base', deleted', x)
    <3>1. ASSUME NEW x \in Elms
          PROVE  ExactAt(store', base', deleted', x)
                   <=> /\ base'[x].quoted = QuotedIn(Parts(x))'
                       /\ base'[x].nkeys = KeysIn(Parts(x))' - deleted'[x]
      <4>1. PICK q, k : q = QuotedIn(Parts(x))' /\ k = KeysIn(Parts(x))'
        OBVIOUS
      <4>2. /\ q = CountOf(store', x, WithString)
            /\ k = CountOf(store', x, WithKey) + CountOf(store', x, WithTable)
        BY <2>2, <4>1, Zenon
      <4>3. ExactAt(store', base', deleted', x)
              <=> base'[x].quoted = q /\ base'[x].nkeys = k - deleted'[x]
        BY <1>2, <4>2, CountIsNat DEF ExactAt
      <4> QED BY <4>1, <4>3, Zenon
    <3> QED BY <1>2, <2>3, <3>1
  <2>6. TablesAreRendered' <=> \A x \in trusted' :
          CountOf(store', x, WithTable) > 0 \/ x \in unread' => base'[x].trefs > 0
    BY <1>2, <2>2, <2>4
  <2> QED BY <2>5, <2>6, Zenon DEF RenderedAt
<1> QED BY <1>1, <1>2 DEF CountsInv

LEMMA EmptyForest ==
  ASSUME NEW st, st = [e \in Elms |-> [s \in Slots |-> Vacant]]
  PROVE  /\ Forest(st)
         /\ \A x \in Elms : /\ CountOf(st, x, WithTable) = 0
                            /\ CountOf(st, x, WithString) = 0
                            /\ CountOf(st, x, WithKey) = 0
<1>1. \A x \in Elms, s \in Slots : st[x][s] = Vacant
  OBVIOUS
<1>2. Vacant \notin Elms /\ Vacant \notin Strings \cup {Table} /\ Vacant \in Value
  BY ConstantsAreSound DEF Value
<1>3. Forest(st)
  BY <1>1, <1>2 DEF Forest, Tables, OnePlace, NoLoop, Kids, Held
<1>4. ASSUME NEW x \in Elms
      PROVE  /\ At(st, Nest(st, x), WithTable) = {} /\ At(st, Nest(st, x), WithString) = {}
             /\ At(st, Nest(st, x), WithKey) = {}
  BY <1>1, <1>2, NestIs DEF At, WithTable, WithString, WithKey
<1> QED BY <1>3, <1>4, FS_EmptySet DEF CountOf

LEMMA InitCounts == Init => CountsInv
<1> SUFFICES ASSUME Init PROVE CountsInv
  OBVIOUS
<1>1. /\ store = [e \in Elms |-> [s \in Slots |-> Vacant]]
      /\ \A x \in Elms : base[x] = [rlen |-> 2, nkeys |-> 0, quoted |-> 0, trefs |-> 0]
      /\ base \in [Elms -> Counters] /\ deleted \in [Elms -> Nat]
      /\ \A x \in Elms : deleted[x] = 0
      /\ unread = {} /\ trusted = Elms
  BY DEF Init, Counters
<1>2. /\ Forest(store)
      /\ \A x \in Elms : /\ CountOf(store, x, WithTable) = 0
                         /\ CountOf(store, x, WithString) = 0
                         /\ CountOf(store, x, WithKey) = 0
  BY <1>1, EmptyForest
<1>3. \A x \in Elms : base[x].quoted = 0 /\ base[x].nkeys = 0 /\ base[x].trefs = 0
  BY <1>1
<1>4. \A x \in Elms : ExactAt(store, base, deleted, x) /\ RenderedAt(store, base, unread, x)
  BY <1>1, <1>2, <1>3 DEF ExactAt, RenderedAt
<1> QED BY <1>1, <1>2, <1>4, CountsInvIs

\* A rendering makes the counters of an element right whatever they were.
LEMMA StringifyKeeps ==
  ASSUME CountsInv, NEW e \in Elms, NEW m \in Modes, Stringify(e, Parts(e), m)
  PROVE  CountsInv'
<1>1. /\ Forest(store)
      /\ base \in [Elms -> Counters] /\ deleted \in [Elms -> Nat]
      /\ unread \subseteq Elms /\ trusted \subseteq Elms
      /\ \A x \in trusted \ unread : ExactAt(store, base, deleted, x)
      /\ \A x \in trusted : RenderedAt(store, base, unread, x)
  BY CountsInvIs
<1>2. store \in Tables
  BY <1>1 DEF Forest
<1>3. PICK r : r = Recount(Parts(e), m)
  OBVIOUS
<1>4. r = [rlen |-> TextLen(Parts(e), Json), nkeys |-> KeysIn(Parts(e)),
           quoted |-> QuotedIn(Parts(e)), trefs |-> TablesIn(Parts(e))]
  BY <1>2, <1>3, PartsAreText, RecountIs
<1>5. /\ r.quoted = CountOf(store, e, WithString)
      /\ r.nkeys = CountOf(store, e, WithKey) + CountOf(store, e, WithTable)
      /\ r.trefs = CountOf(store, e, WithTable)
      /\ r \in Counters
  <2>1. TextLen(Parts(e), Json) \in Int
    BY <1>2, PartsAreText, TextGrows
  <2>2. KeysIn(Parts(e)) \in Nat /\ QuotedIn(Parts(e)) \in Nat /\ TablesIn(Parts(e)) \in Nat
    BY PartsAreText, CountedIn
  <2>3. r \in Counters
    BY <1>4, <2>1, <2>2 DEF Counters
  <2> QED BY <1>2, <1>4, <2>3, CountsAre
<1>6. /\ store' = store /\ base' = [base EXCEPT ![e] = r] /\ deleted' = [deleted EXCEPT ![e] = 0]
      /\ unread' = unread \ {e} /\ trusted' = trusted \cup {e}
  BY <1>3 DEF Stringify
<1>7. /\ base' \in [Elms -> Counters] /\ deleted' \in [Elms -> Nat]
      /\ base'[e] = r /\ deleted'[e] = 0
      /\ \A x \in Elms \ {e} : base'[x] = base[x] /\ deleted'[x] = deleted[x]
  BY <1>1, <1>5, <1>6
<1>8. /\ CountOf(store, e, WithTable) \in Nat /\ CountOf(store, e, WithKey) \in Nat
  BY CountIsNat
<1>9. ExactAt(store', base', deleted', e) /\ RenderedAt(store', base', unread', e)
  BY <1>5, <1>6, <1>7, <1>8 DEF ExactAt, RenderedAt
<1>10. ASSUME NEW x \in trusted \ unread, x # e PROVE ExactAt(store', base', deleted', x)
  BY <1>1, <1>6, <1>7, <1>10 DEF ExactAt
<1>11. ASSUME NEW x \in trusted, x # e PROVE RenderedAt(store', base', unread', x)
  BY <1>1, <1>6, <1>7, <1>11 DEF RenderedAt
<1> QED BY <1>1, <1>6, <1>7, <1>9, <1>10, <1>11, CountsInvIs

\* What a value is measured at is what it brings with it: a string itself, an
\* element what it has counted, as long as it has counted right.
MeasuredRight(st, b, v) ==
  /\ v \in Elms => /\ b[v].quoted = CountOf(st, v, WithString)
                   /\ b[v].nkeys = CountOf(st, v, WithKey)
                   /\ CountOf(st, v, WithTable) = 0
  /\ v # Table

LEMMA ValLengthIs ==
  ASSUME base \in [Elms -> Counters], NEW e \in Elms, NEW v \in Value
  PROVE  /\ ValLength(e, v) \in Amounts
         /\ MeasuredRight(store, base, v) =>
              /\ ValLength(e, v).nkeys = Brought(store, v, WithKey)
              /\ ValLength(e, v).quoted
                   = Brought(store, v, WithString) + (IF <<e, v>> \in WithString THEN 1 ELSE 0)
              /\ Brought(store, v, WithTable) = 0
<1>0. PICK a : a = ValLength(e, v)
  OBVIOUS
<1>1. KeyBooked(e) \in Int
  BY ConstantsAreSound DEF KeyBooked
<1>2. CASE v \in Strings
  <2>1. Width[v] \in Nat /\ v \notin Plain /\ v \notin Elms /\ v # Table
    BY <1>2, ConstantsAreSound
  <2>2. a = [rlen |-> KeyBooked(e) + Width[v] + 3, nkeys |-> 0, quoted |-> 1]
    BY <1>0, <1>2, <2>1 DEF ValLength, Amount
  <2>3. a \in Amounts /\ a.nkeys = 0 /\ a.quoted = 1
    BY <1>1, <2>1, <2>2 DEF Amounts
  <2>4. <<e, v>> \in WithString
    BY <1>2 DEF WithString
  <2> QED BY <1>0, <2>1, <2>3, <2>4, BroughtIs
<1>3. CASE v \in Plain
  <2>1. Width[v] \in Nat /\ v \notin Strings /\ v \notin Elms /\ v # Table
    BY <1>3, ConstantsAreSound
  <2>2. a = [rlen |-> KeyBooked(e) + Width[v] + 1, nkeys |-> 0, quoted |-> 0]
    BY <1>0, <1>3, <2>1 DEF ValLength, Amount
  <2>3. a \in Amounts /\ a.nkeys = 0 /\ a.quoted = 0
    BY <1>1, <2>1, <2>2 DEF Amounts
  <2>4. <<e, v>> \notin WithString
    BY <2>1 DEF WithString
  <2> QED BY <1>0, <2>1, <2>3, <2>4, BroughtIs
<1>4. CASE v \in Elms
  <2>1. v \notin Strings /\ v \notin Plain /\ v # Table
    BY <1>4, ConstantsAreSound
  <2>2. a = [rlen |-> KeyBooked(e) + base[v].rlen, nkeys |-> base[v].nkeys, quoted |-> base[v].quoted]
    BY <1>0, <1>4, <2>1 DEF ValLength, Amount
  <2>3. a \in Amounts /\ a.nkeys = base[v].nkeys /\ a.quoted = base[v].quoted
    <3>1. base[v] \in Counters
      BY <1>4
    <3> QED BY <1>1, <2>2, <3>1 DEF Amounts, Counters
  <2>4. <<e, v>> \notin WithString
    BY <2>1 DEF WithString
  <2>5. /\ Brought(store, v, WithKey) = CountOf(store, v, WithKey)
        /\ Brought(store, v, WithString) = CountOf(store, v, WithString)
        /\ Brought(store, v, WithTable) = CountOf(store, v, WithTable)
    BY <1>4, BroughtIs
  <2>6. CountOf(store, v, WithString) \in Nat
    BY <1>4, CountIsNat
  <2> QED BY <1>0, <1>4, <2>3, <2>4, <2>5, <2>6 DEF MeasuredRight
<1>5. CASE v = Table
  <2>1. v \notin Strings /\ v \notin Plain /\ v \notin Elms
    BY <1>5, ConstantsAreSound
  <2>2. a = [rlen |-> KeyBooked(e) + base[e].rlen, nkeys |-> base[e].nkeys, quoted |-> base[e].quoted]
    BY <1>0, <1>5, <2>1 DEF ValLength, Amount
  <2>3. base[e] \in Counters
    OBVIOUS
  <2>4. a \in Amounts
    BY <1>1, <2>2, <2>3 DEF Amounts, Counters
  <2> QED BY <1>0, <1>5, <2>4 DEF MeasuredRight
<1>6. CASE v = Vacant
  <2>1. v \notin Strings /\ v \notin Plain /\ v \notin Elms /\ v # Table
    BY <1>6, ConstantsAreSound
  <2>2. a = [rlen |-> 0, nkeys |-> 0, quoted |-> 0]
    BY <1>0, <2>1 DEF ValLength, Amount
  <2>3. a \in Amounts /\ a.nkeys = 0 /\ a.quoted = 0
    BY <2>2 DEF Amounts
  <2>4. <<e, v>> \notin WithString
    BY <2>1 DEF WithString
  <2> QED BY <1>0, <2>1, <2>3, <2>4, BroughtIs
<1> QED BY <1>2, <1>3, <1>4, <1>5, <1>6 DEF Value

\* Two values that are measured right change the counts by their difference.
LEMMA ChangeIs ==
  ASSUME base \in [Elms -> Counters], NEW e \in Elms, NEW old \in Value, NEW v \in Value,
         <<old, v>> # <<Vacant, Vacant>>
  PROVE  /\ Change(e, old, v) \in Amounts
         /\ MeasuredRight(store, base, old) /\ MeasuredRight(store, base, v) =>
              /\ Change(e, old, v).nkeys
                   = Brought(store, v, WithKey) - Brought(store, old, WithKey)
                       - (IF <<e, old>> \in WithKey THEN 1 ELSE 0)
                       + (IF <<e, v>> \in WithKey THEN 1 ELSE 0)
              /\ Change(e, old, v).quoted
                   = Brought(store, v, WithString) - Brought(store, old, WithString)
                       - (IF <<e, old>> \in WithString THEN 1 ELSE 0)
                       + (IF <<e, v>> \in WithString THEN 1 ELSE 0)
<1>1. PICK n \in Amounts, o \in Amounts : n = ValLength(e, v) /\ o = ValLength(e, old)
  BY ValLengthIs
<1>2. PICK k : k = KeyChange(e, old, v)
  OBVIOUS
<1>3. /\ k = (IF <<e, v>> \in WithKey THEN 1 ELSE 0) - (IF <<e, old>> \in WithKey THEN 1 ELSE 0)
      /\ k \in Int
  <2>1. /\ <<e, v>> \in WithKey <=> e \in Objects /\ v # Vacant
        /\ <<e, old>> \in WithKey <=> e \in Objects /\ old # Vacant
    BY DEF WithKey
  <2>2. CASE e \notin Objects
    BY <1>2, <2>1, <2>2 DEF KeyChange
  <2>3. CASE e \in Objects /\ old = Vacant
    BY <1>2, <2>1, <2>3 DEF KeyChange
  <2>4. CASE e \in Objects /\ v = Vacant
    BY <1>2, <2>1, <2>4 DEF KeyChange
  <2>5. CASE e \in Objects /\ old # Vacant /\ v # Vacant
    BY <1>2, <2>1, <2>5 DEF KeyChange
  <2> QED BY <2>2, <2>3, <2>4, <2>5
<1>4. PICK c : c = Change(e, old, v)
  OBVIOUS
<1>5. c = [rlen |-> n.rlen - o.rlen, nkeys |-> n.nkeys - o.nkeys + k, quoted |-> n.quoted - o.quoted]
  BY <1>1, <1>2, <1>4 DEF Change, Amount
<1>6. c \in Amounts /\ c.nkeys = n.nkeys - o.nkeys + k /\ c.quoted = n.quoted - o.quoted
  BY <1>1, <1>3, <1>5 DEF Amounts
<1>7. ASSUME MeasuredRight(store, base, old), MeasuredRight(store, base, v)
      PROVE  /\ n.nkeys = Brought(store, v, WithKey) /\ o.nkeys = Brought(store, old, WithKey)
             /\ n.quoted = Brought(store, v, WithString) + (IF <<e, v>> \in WithString THEN 1 ELSE 0)
             /\ o.quoted = Brought(store, old, WithString)
                             + (IF <<e, old>> \in WithString THEN 1 ELSE 0)
  BY <1>1, <1>7, ValLengthIs
<1>8. \A w : Brought(store, w, WithString) \in Nat
  BY BroughtIs, CountIsNat
<1>9. /\ n.nkeys \in Int /\ o.nkeys \in Int /\ n.quoted \in Int /\ o.quoted \in Int
  BY DEF Amounts
<1>10. ASSUME MeasuredRight(store, base, old), MeasuredRight(store, base, v)
       PROVE  /\ c.nkeys = Brought(store, v, WithKey) - Brought(store, old, WithKey)
                             - (IF <<e, old>> \in WithKey THEN 1 ELSE 0)
                             + (IF <<e, v>> \in WithKey THEN 1 ELSE 0)
              /\ c.quoted = Brought(store, v, WithString) - Brought(store, old, WithString)
                              - (IF <<e, old>> \in WithString THEN 1 ELSE 0)
                              + (IF <<e, v>> \in WithString THEN 1 ELSE 0)
  <2>1. c.nkeys = Brought(store, v, WithKey) - Brought(store, old, WithKey)
                    - (IF <<e, old>> \in WithKey THEN 1 ELSE 0)
                    + (IF <<e, v>> \in WithKey THEN 1 ELSE 0)
    BY <1>3, <1>6, <1>7, <1>9, <1>10
  <2>2. c.quoted = Brought(store, v, WithString) - Brought(store, old, WithString)
                     - (IF <<e, old>> \in WithString THEN 1 ELSE 0)
                     + (IF <<e, v>> \in WithString THEN 1 ELSE 0)
    BY <1>6, <1>7, <1>8, <1>9, <1>10
  <2> QED BY <2>1, <2>2
<1> QED BY <1>4, <1>6, <1>10

\* What a booking makes of the counters of a container, ...
LEMMA BookedIs ==
  ASSUME NEW b \in Counters, NEW d \in Amounts
  PROVE  Booked(b, d) = [rlen |-> b.rlen + d.rlen, nkeys |-> b.nkeys + d.nkeys,
                         quoted |-> b.quoted + d.quoted, trefs |-> b.trefs]
<1>1. PICK c : c = Booked(b, d)
  OBVIOUS
<1>2. c = [rlen |-> b.rlen + d.rlen, nkeys |-> b.nkeys + d.nkeys,
           quoted |-> b.quoted + d.quoted, trefs |-> b.trefs]
  BY <1>1 DEF Booked, Counters, Amounts
<1> QED BY <1>1, <1>2

\* ... and of those of the element in which the value is stored.
Own(b, d, k, t) == [Booked(b, d) EXCEPT !.nkeys = @ - k, !.trefs = @ + t]

LEMMA OwnIs ==
  ASSUME NEW b \in Counters, NEW d \in Amounts, NEW k \in Int, NEW t \in Int
  PROVE  Own(b, d, k, t) = [rlen |-> b.rlen + d.rlen, nkeys |-> b.nkeys + d.nkeys - k,
                            quoted |-> b.quoted + d.quoted, trefs |-> b.trefs + t]
<1>1. PICK c \in Counters : c = Booked(b, d)
  BY BookedIs DEF Counters, Amounts
<1>2. PICK o : o = [c EXCEPT !.nkeys = @ - k, !.trefs = @ + t]
  OBVIOUS
<1>3. o = [rlen |-> c.rlen, nkeys |-> c.nkeys - k, quoted |-> c.quoted, trefs |-> c.trefs + t]
  BY <1>2 DEF Counters
<1>4. /\ c.rlen = b.rlen + d.rlen /\ c.nkeys = b.nkeys + d.nkeys
      /\ c.quoted = b.quoted + d.quoted /\ c.trefs = b.trefs
  BY <1>1, BookedIs
<1>5. o = [rlen |-> b.rlen + d.rlen, nkeys |-> b.nkeys + d.nkeys - k,
           quoted |-> b.quoted + d.quoted, trefs |-> b.trefs + t]
  <2>1. PICK n : n = c.nkeys - k
    OBVIOUS
  <2>2. PICK f : f = c.trefs + t
    OBVIOUS
  <2>3. o = [rlen |-> b.rlen + d.rlen, nkeys |-> n, quoted |-> b.quoted + d.quoted, trefs |-> f]
    BY <1>3, <1>4, <2>1, <2>2
  <2>4. n = b.nkeys + d.nkeys - k /\ f = b.trefs + t
    BY <1>4, <2>1, <2>2 DEF Counters, Amounts
  <2> QED BY <2>3, <2>4
<1> QED BY <1>1, <1>2, <1>5, Zenon DEF Own

LEMMA StoreKeeps ==
  ASSUME CountsInv, trusted = Elms, NEW e \in Elms, NEW s \in Slots, NEW v \in Value,
         v \in Elms => store[e][s] = Vacant /\ Containers(v) = {} /\ e \notin Inside(v),
         Store(e, s, v)
  PROVE  CountsInv'
<1>1. /\ Forest(store)
      /\ base \in [Elms -> Counters] /\ deleted \in [Elms -> Nat]
      /\ unread \subseteq Elms
      /\ \A x \in Elms \ unread : ExactAt(store, base, deleted, x)
      /\ \A x \in Elms : RenderedAt(store, base, unread, x)
  BY CountsInvIs
<1>2. PICK old \in Value : old = store[e][s]
  BY <1>1 DEF Forest, Tables
<1>3. PICK R \in SUBSET Elms : R = WithContainers(e)
  BY DEF WithContainers
<1>4. /\ \A x \in Elms : x \in R <=> e \in Nest(store, x)
      /\ e \in R
      /\ Containers(e) = {} => R = {e}
  <2>1. \A x \in Elms : x \in R <=> e \in Nest(store, x)
    BY <1>3, InsideIs DEF WithContainers
  <2>2. ASSUME Containers(e) = {}, NEW x \in R PROVE x = e
    <3> SUFFICES ASSUME x # e PROVE FALSE
      OBVIOUS
    <3>1. PICK z \in Nest(store, x) : e \in Kids(store, z)
      BY <2>1, NestIs
    <3>2. z \in Elms /\ e \in Children(z)
      BY <3>1, NestIs, InsideIs
    <3> QED BY <2>2, <3>2 DEF Containers
  <2> QED BY <2>1, <2>2, NestIs
<1>5. Fits(store, e, s, v)
  <2> SUFFICES ASSUME v \in Elms
               PROVE  /\ store[e][s] = Vacant /\ e \notin Nest(store, v)
                      /\ \A y \in Elms : v \notin Kids(store, y)
    BY DEF Fits
  <2> QED BY InsideIs DEF Containers
<1>6. PICK ch : ch = Change(e, old, v)
  OBVIOUS
<1>7. PICK again \in {0, 1} : again = IF e \in Objects /\ v = Vacant THEN 1 ELSE 0
  OBVIOUS
<1>8. PICK sound \in BOOLEAN : sound <=> Sound(e, old, v)
  OBVIOUS
<1>9. /\ <<old, v>> # <<Vacant, Vacant>>
      /\ store' = Put(store, e, s, v)
      /\ base' = [x \in Elms |->
                    CASE x = e -> [Booked(base[e], ch) EXCEPT !.nkeys = @ - again,
                                                              !.trefs = @ + TableRefs(old, v)]
                      [] x # e /\ x \in R -> Booked(base[x], ch)
                      [] OTHER -> base[x]]
      /\ deleted' = [deleted EXCEPT ![e] = @ + again]
      /\ unread' = IF Table \in {old, v} \/ {old, v} \cap unread # {} THEN unread \cup R ELSE unread
      /\ trusted' = IF sound THEN Elms ELSE Elms \ R
  BY <1>2, <1>3, <1>6, <1>7, <1>8 DEF Store, Put
<1>10. Forest(store')
  BY <1>1, <1>5, <1>9, ForestStored
<1>11. ch \in Amounts
  BY <1>1, <1>6, <1>9, ChangeIs
<1>12. TableRefs(old, v) \in Int
  BY DEF TableRefs
<1>13. /\ base'[e].nkeys = base[e].nkeys + ch.nkeys - again
       /\ base'[e].quoted = base[e].quoted + ch.quoted
       /\ base'[e].trefs = base[e].trefs + TableRefs(old, v)
       /\ base'[e] \in Counters
  <2>1. base[e] \in Counters
    BY <1>1
  <2>2. base'[e] = Own(base[e], ch, again, TableRefs(old, v))
    BY <1>9 DEF Own
  <2>3. base'[e] = [rlen |-> base[e].rlen + ch.rlen, nkeys |-> base[e].nkeys + ch.nkeys - again,
                    quoted |-> base[e].quoted + ch.quoted,
                    trefs |-> base[e].trefs + TableRefs(old, v)]
    BY <1>11, <1>12, <2>1, <2>2, OwnIs
  <2>4. base'[e] \in Counters
    BY <1>11, <1>12, <2>1, <2>3 DEF Counters, Amounts
  <2> QED BY <2>3, <2>4
<1>14. ASSUME NEW x \in R, x # e
       PROVE  /\ base'[x].nkeys = base[x].nkeys + ch.nkeys
              /\ base'[x].quoted = base[x].quoted + ch.quoted
              /\ base'[x].trefs = base[x].trefs
              /\ base'[x] \in Counters
  <2>1. base[x] \in Counters
    BY <1>1
  <2>2. base'[x] = Booked(base[x], ch)
    BY <1>9, <1>14
  <2>3. base'[x] = [rlen |-> base[x].rlen + ch.rlen, nkeys |-> base[x].nkeys + ch.nkeys,
                    quoted |-> base[x].quoted + ch.quoted, trefs |-> base[x].trefs]
    BY <1>11, <2>1, <2>2, BookedIs
  <2>4. base'[x] \in Counters
    BY <1>11, <2>1, <2>3 DEF Counters, Amounts
  <2> QED BY <2>3, <2>4
<1>15. /\ \A x \in Elms \ R : base'[x] = base[x]
       /\ base' \in [Elms -> Counters]
  <2>1. \A x \in Elms \ R : base'[x] = base[x]
    BY <1>4, <1>9
  <2>2. base' = [x \in Elms |-> base'[x]]
    BY <1>9
  <2>3. \A x \in Elms : base'[x] \in Counters
    BY <1>1, <1>13, <1>14, <2>1
  <2> QED BY <2>1, <2>2, <2>3
<1>16. /\ deleted' \in [Elms -> Nat] /\ deleted'[e] = deleted[e] + again
       /\ \A x \in Elms \ {e} : deleted'[x] = deleted[x]
  BY <1>1, <1>9
<1>17. /\ unread' \subseteq Elms /\ trusted' \subseteq Elms /\ unread \subseteq unread'
       /\ \A x \in Elms \ R : x \in unread' <=> x \in unread
  BY <1>1, <1>9
\* What e is not nested in stays as it is.
<1>18. ASSUME NEW x \in Elms \ R
       PROVE  /\ x \notin unread => ExactAt(store', base', deleted', x)
              /\ RenderedAt(store', base', unread', x)
  <2>1. ASSUME NEW M PROVE CountOf(store', x, M) = CountOf(store, x, M)
    <3>1. x \in Elms /\ e \notin Nest(store, x)
      BY <1>4, <1>18
    <3>2. PICK y \in Elms, st \in {store'} : y = x
      BY <3>1
    <3>3. /\ e \notin Nest(store, y) => CountOf(st, y, M) = CountOf(store, y, M)
          /\ e \in Nest(store, y) =>
               /\ Brought(store, store[e][s], M) \in Nat /\ Brought(store, v, M) \in Nat
               /\ CountOf(st, y, M)
                    = CountOf(store, y, M) - Brought(store, store[e][s], M) + Brought(store, v, M)
                        - (IF <<e, store[e][s]>> \in M THEN 1 ELSE 0)
                        + (IF <<e, v>> \in M THEN 1 ELSE 0)
      BY <1>1, <1>5, <1>9, <3>2, CountStored
    <3> QED BY <3>1, <3>2, <3>3
  <2>2. base'[x] = base[x] /\ deleted'[x] = deleted[x]
    BY <1>4, <1>16, <1>15
  <2>3. x \notin unread => ExactAt(store, base, deleted, x)
    BY <1>1
  <2>4. RenderedAt(store, base, unread, x)
    BY <1>1
  <2> QED BY <1>17, <2>1, <2>2, <2>3, <2>4 DEF ExactAt, RenderedAt
\* What it is nested in changes by what comes and goes.
<1>19. ASSUME NEW x \in R, NEW M
       PROVE  /\ Brought(store, old, M) \in Nat /\ Brought(store, v, M) \in Nat
              /\ CountOf(store, x, M) \in Nat
              /\ CountOf(store', x, M)
                   = CountOf(store, x, M) - Brought(store, old, M) + Brought(store, v, M)
                       - (IF <<e, old>> \in M THEN 1 ELSE 0) + (IF <<e, v>> \in M THEN 1 ELSE 0)
  BY <1>1, <1>2, <1>4, <1>5, <1>9, CountStored, CountIsNat
<1>20. ASSUME sound
       PROVE  /\ v = Table => old = Vacant /\ R = {e}
              /\ old # Table
              /\ MeasuredRight(store, base, old)
              /\ v # Table => MeasuredRight(store, base, v)
              /\ \A c \in {old, v} \cap Elms : c \notin unread /\ CountOf(store, c, WithTable) = 0
  <2>1. /\ v = Table => old = Vacant /\ R = {e}
        /\ old # Table
        /\ \A c \in {old, v} \cap Elms : c \in Elms \ unread /\ deleted[c] = 0 /\ TablesIn(Parts(c)) = 0
    BY <1>4, <1>8, <1>20 DEF Sound
  <2>2. ASSUME NEW c \in {old, v}, c \in Elms
        PROVE  /\ CountOf(store, c, WithTable) = 0
               /\ base[c].quoted = CountOf(store, c, WithString)
               /\ base[c].nkeys = CountOf(store, c, WithKey)
    <3>1. CountOf(store, c, WithTable) = 0
      BY <1>1, <2>1, <2>2, CountsAre DEF Forest
    <3>2. ExactAt(store, base, deleted, c) /\ deleted[c] = 0
      BY <1>1, <2>1, <2>2
    <3>3. CountOf(store, c, WithKey) \in Nat
      BY <2>2, CountIsNat
    <3> QED BY <3>1, <3>2, <3>3 DEF ExactAt
  <2> QED BY <2>1, <2>2 DEF MeasuredRight
<1>21. ASSUME sound, NEW x \in R PROVE RenderedAt(store', base', unread', x)
  <2>1. RenderedAt(store, base, unread, x) /\ base[x] \in Counters
    BY <1>1
  <2>2. CASE v = Table
    <3>1. x = e /\ TableRefs(old, v) = 1
      <4>1. Vacant # Table
        BY ConstantsAreSound
      <4> QED BY <1>20, <1>21, <2>2, <4>1 DEF TableRefs
    <3>2. base'[x].trefs = base[x].trefs + 1
      BY <1>13, <3>1
    <3> QED BY <2>1, <3>2 DEF RenderedAt, Counters
  <2>3. CASE v # Table
    <3>1. old # Table /\ TableRefs(old, v) = 0
      BY <1>20, <1>21, <2>3 DEF TableRefs
    <3>2. base'[x].trefs = base[x].trefs
      <4>1. CASE x = e
        BY <1>13, <2>1, <3>1, <4>1 DEF Counters
      <4>2. CASE x # e
        BY <1>14, <1>21, <4>2
      <4> QED BY <4>1, <4>2
    <3>3. unread' = unread
      <4>1. {old, v} \cap unread = {}
        BY <1>1, <1>20, <1>21
      <4> QED BY <1>9, <2>3, <3>1, <4>1
    <3>4. CountOf(store', x, WithTable) = CountOf(store, x, WithTable)
      <4>1. Brought(store, old, WithTable) = 0 /\ Brought(store, v, WithTable) = 0
        BY <1>20, <1>21, BroughtIs
      <4>2. <<e, old>> \notin WithTable /\ <<e, v>> \notin WithTable
        BY <2>3, <3>1 DEF WithTable
      <4> QED BY <1>19, <4>1, <4>2
    <3> QED BY <2>1, <3>2, <3>3, <3>4 DEF RenderedAt
  <2> QED BY <2>2, <2>3
<1>22. ASSUME sound, NEW x \in R, x \notin unread' PROVE ExactAt(store', base', deleted', x)
  <2>1. x \notin unread /\ Table \notin {old, v}
    BY <1>9, <1>22
  <2>2. ExactAt(store, base, deleted, x) /\ base[x] \in Counters /\ deleted[x] \in Nat
    BY <1>1, <2>1
  <2>3. MeasuredRight(store, base, old) /\ MeasuredRight(store, base, v)
    BY <1>20, <1>22, <2>1
  <2>4. /\ ch.nkeys = Brought(store, v, WithKey) - Brought(store, old, WithKey)
                        - (IF <<e, old>> \in WithKey THEN 1 ELSE 0)
                        + (IF <<e, v>> \in WithKey THEN 1 ELSE 0)
        /\ ch.quoted = Brought(store, v, WithString) - Brought(store, old, WithString)
                         - (IF <<e, old>> \in WithString THEN 1 ELSE 0)
                         + (IF <<e, v>> \in WithString THEN 1 ELSE 0)
    BY <1>1, <1>6, <1>9, <2>3, ChangeIs
  <2>5. /\ CountOf(store', x, WithString) = CountOf(store, x, WithString) + ch.quoted
        /\ CountOf(store', x, WithKey) = CountOf(store, x, WithKey) + ch.nkeys
        /\ CountOf(store, x, WithString) \in Nat /\ CountOf(store, x, WithKey) \in Nat
        /\ ch.quoted \in Int /\ ch.nkeys \in Int
    <3>1. CountOf(store', x, WithString) = CountOf(store, x, WithString) + ch.quoted
      BY <1>19, <2>4
    <3>2. CountOf(store', x, WithKey) = CountOf(store, x, WithKey) + ch.nkeys
      BY <1>19, <2>4
    <3> QED BY <1>11, <1>19, <3>1, <3>2 DEF Amounts
  <2>6. /\ CountOf(store', x, WithTable) = CountOf(store, x, WithTable)
        /\ CountOf(store, x, WithTable) \in Nat
    <3>1. Brought(store, old, WithTable) = 0 /\ Brought(store, v, WithTable) = 0
      BY <1>20, <1>22, <2>1, BroughtIs
    <3>2. <<e, old>> \notin WithTable /\ <<e, v>> \notin WithTable
      BY <2>1 DEF WithTable
    <3> QED BY <1>19, <3>1, <3>2
  <2>7. base'[x].quoted = base[x].quoted + ch.quoted
    <3>1. CASE x = e
      BY <1>13, <3>1
    <3>2. CASE x # e
      BY <1>14, <1>22, <3>2
    <3> QED BY <3>1, <3>2
  <2>8. base'[x].nkeys - ch.nkeys + deleted'[x] = base[x].nkeys + deleted[x]
    <3>1. CASE x = e
      BY <1>13, <1>16, <2>2, <2>5, <3>1 DEF Counters
    <3>2. CASE x # e
      BY <1>14, <1>16, <1>22, <2>2, <2>5, <3>2 DEF Counters
    <3> QED BY <3>1, <3>2
  <2>9. base'[x] \in Counters /\ deleted'[x] \in Nat
    BY <1>16, <1>15
  <2> QED BY <2>2, <2>5, <2>6, <2>7, <2>8, <2>9 DEF ExactAt, Counters
<1>23. ASSUME NEW x \in trusted'
       PROVE  /\ x \notin unread' => ExactAt(store', base', deleted', x)
              /\ RenderedAt(store', base', unread', x)
  <2>1. CASE x \in R
    <3>1. sound
      BY <1>9, <1>23, <2>1
    <3> QED BY <1>21, <1>22, <2>1, <3>1
  <2>2. CASE x \notin R
    <3>1. x \in Elms \ R
      BY <1>17, <1>23, <2>2
    <3> QED BY <1>17, <1>18, <3>1
  <2> QED BY <2>1, <2>2
<1> QED BY <1>10, <1>16, <1>17, <1>23, <1>15, CountsInvIs

-------------------------------------------------------------------------------
LEMMA StepCounts == CountsInv /\ [Next]_vars => CountsInv'
<1> SUFFICES ASSUME CountsInv, [Next]_vars PROVE CountsInv'
  OBVIOUS
<1>1. ASSUME Stores PROVE CountsInv'
  BY <1>1, StoreKeeps DEF Stores
<1>2. ASSUME Renderings PROVE CountsInv'
  <2>1. PICK e \in Elms : \/ \E m \in RenderModes : Stringify(e, Parts(e), m)
                          \/ Length(e, Parts(e))
    BY <1>2 DEF Renderings
  <2>2. \E m \in Modes : Stringify(e, Parts(e), m)
    BY <2>1, ConstantsAreSound DEF Length, Modes
  <2> QED BY <2>2, StringifyKeeps
<1>3. ASSUME UNCHANGED vars PROVE CountsInv'
  <2>1. /\ store' = store /\ base' = base /\ deleted' = deleted
        /\ unread' = unread /\ trusted' = trusted
    BY <1>3 DEF vars
  <2> QED BY <2>1, CountsInvIs
<1> QED BY <1>1, <1>2, <1>3 DEF Next

THEOREM CountsInvHolds == Spec => []CountsInv
  BY InitCounts, StepCounts, PTL DEF Spec

\* Between two renderings the keys and the quoted strings of an element are
\* counted right, with any number of elements nested in any way, any values and
\* any bound on the deletions.
THEOREM CountsStayExact == Spec => []CountsAreExact
<1>1. CountsInv => CountsAreExact
  BY DEF CountsInv
<1> QED BY <1>1, CountsInvHolds, PTL

\* An element with a table somewhere in its text renders before it answers.
THEOREM TablesAlwaysRendered == Spec => []TablesAreRendered
<1>1. CountsInv => TablesAreRendered
  BY DEF CountsInv
<1> QED BY <1>1, CountsInvHolds, PTL

\* Whatever has been stored, a rendering in any mode leaves one set of counters,
\* and the lengths in all four modes come out of it.
THEOREM RenderingsSync == Spec => []RenderSyncsAllModes
<1>1. CountsInv => RenderSyncsAllModes
  BY AllModesSync DEF CountsInv, Forest
<1> QED BY <1>1, CountsInvHolds, PTL

===============================================================================
