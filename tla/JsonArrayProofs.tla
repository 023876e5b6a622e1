---------------------------- MODULE JsonArrayProofs -----------------------------
(***************************************************************************)
(* For any values and bounds.  Whatever the script does: the slots keep    *)
(* their shapes, reverse and move lose no value and neither does a         *)
(* rendering, and an unshift under way has its values in order.  For the   *)
(* scripts that leave the end position alone and take no item out behind   *)
(* the array's back: there are no holes, the ends are where they should    *)
(* be, and the array is the list of ItemList.                              *)
(***************************************************************************)
EXTENDS JsonArrayProps, DataLemmas

\* The shapes of what an assignment changes, ...
DataOK ==
  /\ env \in [Slots -> AnyValue \ {Rejected}]
  /\ nelms \in -1..MaxElms
  /\ idx \in 0..(IdxMod - 1)
  /\ is_nil \in BOOLEAN

\* ... and of the rest.
RestOK ==
  /\ base \in {0, 1}
  /\ intact \in BOOLEAN
  /\ todo \in Tasks
  /\ out \in Seq(AnyValue \ {Rejected, Absent})

LEMMA Shapes ==
  /\ TypeOK <=> DataOK /\ RestOK
  /\ TypeOK' <=> DataOK' /\ RestOK'
  BY DEF TypeOK, DataOK, RestOK

-------------------------------------------------------------------------------
\* A uint16_t field, and the numbers that fit it.
LEMMA Idx16Is ==
  /\ \A i \in Int : Idx16(i) \in 0..(IdxMod - 1)
  /\ \A i \in 0..(IdxMod - 1) : Idx16(i) = i
  /\ \A i \in Nat : Idx16(i) <= i
  BY ConstantsAreSound DEF Idx16

LEMMA NamedIs == ASSUME NEW i \in Named PROVE i \in Slots /\ i \in 0..(IdxMod - 1)
<1>1. i \in Slots /\ i = Idx16(i) /\ i \in Int
  BY ConstantsAreSound DEF Named, Slots
<1> QED BY <1>1, Idx16Is

\* The four loops stay within the slots.
LEMMA LoopsStay ==
  ASSUME NEW V, NEW f \in [Slots -> V], NEW n \in -1..MaxElms
  PROVE  /\ \A i \in Slots : i >= 1 => Closed(f, i, n) \in [Slots -> V]
         /\ \A i \in Slots, v \in V : i >= 1 => Opened(f, i, n + 1, v) \in [Slots -> V]
         /\ \A m, t \in Slots : m >= 1 /\ t >= 1 => Moved(f, m, t) \in [Slots -> V]
         /\ \A a, b \in Slots : Flipped(f, a, b) \in [Slots -> V]
<1>0. MaxElms \in Nat
  BY ConstantsAreSound
<1>1. ASSUME NEW i \in Slots, i >= 1 PROVE Closed(f, i, n) \in [Slots -> V]
  <2>1. \A j \in Slots : i <= j /\ j < n => j + 1 \in Slots
    BY <1>0 DEF Slots
  <2> QED BY <2>1 DEF Closed
<1>2. ASSUME NEW i \in Slots, i >= 1, NEW v \in V PROVE Opened(f, i, n + 1, v) \in [Slots -> V]
  <2>1. \A j \in Slots : i < j => j - 1 \in Slots
    BY <1>0, <1>2 DEF Slots
  <2> QED BY <2>1 DEF Opened
<1>3. ASSUME NEW m \in Slots, NEW t \in Slots, m >= 1, t >= 1
      PROVE  Moved(f, m, t) \in [Slots -> V]
  <2>1. \A j \in Slots : /\ m <= j /\ j < t => j + 1 \in Slots
                         /\ t < j /\ j <= m => j - 1 \in Slots
    BY <1>0, <1>3 DEF Slots
  <2> QED BY <2>1 DEF Moved
<1>4. ASSUME NEW a \in Slots, NEW b \in Slots PROVE Flipped(f, a, b) \in [Slots -> V]
  <2>1. \A j \in Slots : j \in (a..b) \cup (b..a) => a + b - j \in Slots
    BY <1>0 DEF Slots
  <2> QED BY <2>1 DEF Flipped
<1> QED BY <1>1, <1>2, <1>3, <1>4

LEMMA InBoundsIn ==
  ASSUME DataOK, NEW i \in Int, InBounds(i)
  PROVE  i \in Slots /\ i >= 1 /\ i <= nelms + 1 /\ nelms \in 0..MaxElms
  BY ConstantsAreSound DEF DataOK, InBounds, Slots

LEMMA RemoveShapes ==
  ASSUME DataOK, NEW i \in 0..(IdxMod - 1), InBounds(i), NEW measured, Remove(i, measured),
         idx' = i
  PROVE  DataOK'
<1>1. i \in Slots /\ i >= 1 /\ nelms \in 0..MaxElms
  BY ConstantsAreSound, InBoundsIn
<1>2. /\ env' = IF env[i] = Absent /\ measured THEN env ELSE Closed(env, i, nelms)
      /\ nelms' = nelms - 1 /\ is_nil' = FALSE
  BY DEF Remove
<1>3. Closed(env, i, nelms) \in [Slots -> AnyValue \ {Rejected}]
  BY <1>1, LoopsStay DEF DataOK
<1>4. nelms' \in -1..MaxElms
  BY <1>1, <1>2, ConstantsAreSound
<1> QED BY <1>2, <1>3, <1>4 DEF DataOK

\* The four outcomes of an assignment.
LEMMA AssignShapes ==
  ASSUME DataOK, NEW i \in 0..(IdxMod - 1), NEW v \in AnyValue, Room(v), Assign(i, v)
  PROVE  DataOK'
<1>1. idx' = i
  BY DEF Assign
<1>2. CASE AssignRefused(i, v)
  BY <1>1, <1>2 DEF AssignRefused, Refused, DataOK
<1>3. CASE InBounds(i) /\ AssignNew(i, v)
  <2>1. i \in Slots
    BY <1>3, ConstantsAreSound, InBoundsIn
  <2>2. v \in AnyValue \ {Rejected} /\ nelms < MaxElms
    BY <1>3, ConstantsAreSound DEF AssignNew, Room, AnyValue
  <2>3. nelms' \in -1..MaxElms
    BY <1>3, <2>2, ConstantsAreSound DEF AssignNew, DataOK
  <2>4. env' \in [Slots -> AnyValue \ {Rejected}]
    BY <1>3, <2>1, <2>2 DEF AssignNew, DataOK
  <2> QED BY <1>1, <1>3, <2>3, <2>4 DEF AssignNew, DataOK
<1>4. CASE InBounds(i) /\ AssignOver(i, v)
  <2>1. v \in AnyValue \ {Rejected}
    BY <1>4, ConstantsAreSound DEF AssignOver, AnyValue
  <2>2. env' \in [Slots -> AnyValue \ {Rejected}]
    BY <1>4, <2>1 DEF AssignOver, DataOK
  <2> QED BY <1>1, <1>4, <2>2 DEF AssignOver, DataOK
<1>5. CASE InBounds(i) /\ AssignOpaque(i, v)
  <2>1. v \in AnyValue \ {Rejected}
    BY <1>5, ConstantsAreSound DEF AssignOpaque
  <2> QED BY <1>1, <1>5, <2>1 DEF AssignOpaque, DataOK
<1>6. CASE InBounds(i) /\ v = Absent /\ i <= nelms /\ Remove(i, TRUE)
  BY <1>1, <1>6, RemoveShapes
<1> QED BY <1>2, <1>3, <1>4, <1>5, <1>6 DEF Assign

\* The slots up to n are a sequence, empty for a count below zero.
LEMMA SlotsIs ==
  ASSUME NEW V, NEW f \in [Slots -> V], NEW n \in -1..MaxElms
  PROVE  LET s == [i \in 1..n |-> f[i]]
         IN  /\ s \in Seq(V)
             /\ Len(s) = IF n < 0 THEN 0 ELSE n
             /\ n < 0 => s = << >>
             /\ \A i \in 1..n : s[i] = f[i] /\ i \in Slots
<1> DEFINE s == [i \in 1..n |-> f[i]]
<1>1. n \in Int /\ n <= MaxElms /\ MaxElms \in Nat
  BY ConstantsAreSound
<1>2. \A i \in 1..n : i \in Slots /\ f[i] \in V
  BY <1>1 DEF Slots
<1>3. n >= 0 => s \in Seq(V) /\ Len(s) = n
  <2> SUFFICES ASSUME n \in Nat PROVE s \in Seq(V) /\ Len(s) = n
    BY <1>1
  <2> QED BY <1>2
<1>4. n < 0 => s \in Seq(V) /\ Len(s) = 0 /\ s = << >>
  <2> SUFFICES ASSUME n < 0 PROVE s \in Seq(V) /\ Len(s) = 0 /\ s = << >>
    OBVIOUS
  <2>1. 1..n = 1..0
    BY <1>1
  <2> DEFINE e == [i \in 1..0 |-> f[i]]
  <2>2. s = e
    BY <2>1
  <2>3. e \in Seq(V) /\ Len(e) = 0
    OBVIOUS
  <2> HIDE DEF e, s
  <2>4. e = << >>
    BY <2>3, EmptySeq
  <2> QED BY <2>2, <2>3, <2>4
<1>5. \A i \in 1..n : s[i] = f[i] /\ i \in Slots
  BY <1>2
<1> HIDE DEF s
<1>6. /\ s \in Seq(V)
      /\ Len(s) = IF n < 0 THEN 0 ELSE n
      /\ n < 0 => s = << >>
      /\ \A i \in 1..n : s[i] = f[i] /\ i \in Slots
  BY <1>1, <1>3, <1>4, <1>5
<1> QED BY <1>6 DEF s

\* Before a step and after it.
LEMMA ItemsIs ==
  /\ DataOK => /\ Items \in Seq(AnyValue \ {Rejected})
               /\ Len(Items) = IF nelms < 0 THEN 0 ELSE nelms
               /\ nelms < 0 => Items = << >>
               /\ \A i \in 1..nelms : Items[i] = env[i] /\ i \in Slots
  /\ DataOK' => /\ Items' \in Seq(AnyValue \ {Rejected})
                /\ Len(Items') = IF nelms' < 0 THEN 0 ELSE nelms'
                /\ nelms' < 0 => Items' = << >>
                /\ \A i \in 1..nelms' : Items'[i] = env'[i] /\ i \in Slots
  BY SlotsIs DEF DataOK, Items

\* An insertion in front.
LEMMA InsertShapes ==
  ASSUME DataOK, NEW i \in 0..(IdxMod - 1), NEW v \in AnyValue, nelms < MaxElms,
         InsertAtSlot(i, v)
  PROVE  /\ DataOK'
         /\ Insertable(i, v) => nelms' = nelms + 1 /\ nelms \in 0..MaxElms
         /\ i = 1 /\ Insertable(i, v) => Items' = <<v>> \o Items
<1>1. CASE ~Insertable(i, v)
  BY <1>1 DEF InsertAtSlot, DataOK
<1>2. CASE Insertable(i, v)
  <2>1. /\ InBounds(i) /\ i \in Slots /\ i >= 1 /\ nelms \in 0..MaxElms /\ nelms < MaxElms
        /\ idx' = i /\ UNCHANGED is_nil
        /\ nelms' = nelms + 1 /\ env' = Opened(env, i, nelms + 1, v)
        /\ v \in AnyValue \ {Rejected}
    BY <1>2, ConstantsAreSound, InBoundsIn DEF InsertAtSlot, Insertable
  <2>2. env' \in [Slots -> AnyValue \ {Rejected}]
    BY <2>1, LoopsStay DEF DataOK
  <2>3. nelms' \in -1..MaxElms
    BY <2>1, ConstantsAreSound
  <2>4. DataOK'
    BY <2>1, <2>2, <2>3 DEF DataOK
  <2>5. ASSUME i = 1 PROVE Items' = <<v>> \o Items
    <3> DEFINE s == <<v>> \o Items
    <3>1. /\ Items \in Seq(AnyValue) /\ Len(Items) = nelms
          /\ Items' \in Seq(AnyValue) /\ Len(Items') = nelms + 1
          /\ \A j \in 1..nelms : Items[j] = env[j] /\ j \in Slots
          /\ \A j \in 1..(nelms + 1) : Items'[j] = env'[j] /\ j \in Slots
      <4>1. /\ Items \in Seq(AnyValue \ {Rejected}) /\ Len(Items) = nelms
            /\ Items' \in Seq(AnyValue \ {Rejected}) /\ Len(Items') = nelms'
            /\ \A j \in 1..nelms : Items[j] = env[j] /\ j \in Slots
            /\ \A j \in 1..nelms' : Items'[j] = env'[j] /\ j \in Slots
        BY <2>1, <2>4, ItemsIs
      <4> QED BY <2>1, <4>1
    <3>2. \A j \in 1..(nelms + 1) : env'[j] = IF j = 1 THEN v ELSE env[j - 1]
      BY <2>1, <2>5, <3>1 DEF DataOK, Opened
    <3>3. s \in Seq(AnyValue) /\ Len(s) = nelms + 1
          /\ \A j \in 1..(nelms + 1) : s[j] = IF j = 1 THEN v ELSE Items[j - 1]
      BY <2>1, <3>1
    <3>4. \A j \in 1..(nelms + 1) : s[j] = Items'[j]
      <4>1. \A j \in 1..(nelms + 1) : j # 1 => j - 1 \in 1..nelms
        BY <2>1
      <4> HIDE DEF s
      <4> QED BY <3>1, <3>2, <3>3, <4>1
    <3> HIDE DEF s
    <3> QED BY <3>1, <3>3, <3>4, SeqEqual
  <2> QED BY <2>1, <2>4, <2>5
<1> QED BY <1>1, <1>2

-------------------------------------------------------------------------------
\* Of the n values that are left for an unshift there is room for each, and the
\* others are in front of the items there were.
Left(n) ==
  /\ todo.left = SubSeq(todo.given, 1, n)
  /\ nelms + n <= MaxElms
  /\ Items = SubSeq(todo.given, n + 1, Len(todo.given)) \o todo.was

Passed == Values \cup {Rejected}

UnshiftOK ==
  todo.pc = "unshift" =>
    todo.given \in Seq(Passed) /\ \E n \in 0..Len(todo.given) : Left(n)

ArrInv == TypeOK /\ UnshiftOK

\* A rendering and an unshift that are under way.
LEMMA TaskIs ==
  ASSUME todo \in Tasks
  PROVE  /\ todo.pc = "render" => todo.i \in Nat /\ todo.e \in Int
         /\ todo.pc = "unshift" => /\ todo.left \in Seq(AnyValue) /\ todo.given \in Seq(AnyValue)
                                   /\ todo.was \in Seq(AnyValue)
  BY DEF Tasks

\* Calls that leave no task behind, or start a rendering.
LEMMA NoUnshift ==
  ASSUME todo'.pc # "unshift"
  PROVE  UnshiftOK'
  BY DEF UnshiftOK

LEMMA QuietOK ==
  ASSUME RestOK, Quiet
  PROVE  RestOK' /\ UnshiftOK'
<1>1. << >> \in Seq(AnyValue \ {Rejected, Absent})
  OBVIOUS
<1> QED BY <1>1, NoUnshift DEF RestOK, Quiet, Idle, Tasks

LEMMA InitArray == Init => ArrInv
<1> SUFFICES ASSUME Init PROVE ArrInv
  OBVIOUS
<1>1. env \in [Slots -> AnyValue \ {Rejected}]
  BY ConstantsAreSound DEF Init, AnyValue
<1>2. nelms \in -1..MaxElms /\ idx \in 0..(IdxMod - 1)
  BY ConstantsAreSound DEF Init
<1>3. todo \in Tasks /\ todo.pc # "unshift"
  BY DEF Init, Idle, Tasks
<1>4. out \in Seq(AnyValue \ {Rejected, Absent})
  BY DEF Init
<1> QED BY <1>1, <1>2, <1>3, <1>4 DEF ArrInv, TypeOK, UnshiftOK, Init

\* The next value in front of the others.
LEMMA UnshiftInsertOK ==
  ASSUME ArrInv, UnshiftInsert
  PROVE  ArrInv'
<1>1. /\ todo.pc = "unshift" /\ DataOK /\ RestOK /\ base \in {0, 1}
      /\ todo.left \in Seq(AnyValue) /\ todo.given \in Seq(Passed) /\ todo.was \in Seq(AnyValue)
      /\ todo.given \in Seq(AnyValue) /\ todo.left # << >>
      /\ UNCHANGED <<base, intact, out>>
  BY Shapes, TaskIs DEF ArrInv, UnshiftOK, RestOK, UnshiftInsert
<1>2. PICK n \in 0..Len(todo.given) : Left(n)
  BY <1>1 DEF ArrInv, UnshiftOK
<1> DEFINE G == todo.given
           v == UnshiftNext(todo.left)[1]
<1>3. /\ Len(todo.left) = n /\ n \in Nat \ {0} /\ n <= Len(G) /\ Len(G) \in Nat
      /\ v = G[n] /\ v \in Passed /\ v \in AnyValue
      /\ UnshiftNext(todo.left)[2] = SubSeq(G, 1, n - 1)
  <2>1. Len(G) \in Nat /\ \A i \in 1..n : G[i] \in Passed /\ G[i] \in AnyValue
    BY <1>1, <1>2 DEF AnyValue, Passed
  <2>2. /\ todo.left = SubSeq(G, 1, n) /\ n \in 0..Len(G)
    BY <1>2 DEF Left
  <2>3. Len(SubSeq(G, 1, n)) = n /\ \A i \in 1..n : SubSeq(G, 1, n)[i] = G[i]
    BY <1>1, <2>1, <2>2, SubSeqProperties
  <2>4. n # 0
    BY <1>1, <2>2, <2>3, EmptySeq
  <2>5. SubSeq(SubSeq(G, 1, n), 1, n - 1) = SubSeq(G, 1, n - 1)
    BY <1>1, <2>1, <2>2
  <2>6. v = todo.left[Len(todo.left)] /\ UnshiftNext(todo.left)[2] = SubSeq(todo.left, 1, Len(todo.left) - 1)
    BY DEF UnshiftNext
  <2> QED BY <2>1, <2>2, <2>3, <2>4, <2>5, <2>6
<1>4. /\ InsertAtSlot(base, v)
      /\ todo' = IF Insertable(base, v) THEN [todo EXCEPT !.left = UnshiftNext(@)[2]] ELSE Idle
  BY DEF UnshiftInsert
<1> HIDE DEF G, v
<1>5. nelms < MaxElms /\ base \in 0..(IdxMod - 1)
  BY <1>1, <1>2, <1>3, ConstantsAreSound DEF Left, DataOK
<1>6. DataOK'
  BY <1>1, <1>3, <1>4, <1>5, InsertShapes
<1>7. CASE ~Insertable(base, v)
  BY <1>1, <1>4, <1>6, <1>7, NoUnshift, Shapes DEF ArrInv, RestOK, Tasks, Idle
<1>8. CASE Insertable(base, v)
  <2>1. base = 1
    BY <1>1, <1>8 DEF Insertable, InBounds
  <2>2. /\ nelms' = nelms + 1 /\ nelms \in 0..MaxElms
        /\ Items' = <<v>> \o Items
    BY <1>1, <1>3, <1>4, <1>5, <1>8, <2>1, InsertShapes
  <2>3. /\ todo' = [todo EXCEPT !.left = SubSeq(G, 1, n - 1)]
        /\ SubSeq(G, 1, n - 1) \in Seq(AnyValue)
    <3>1. \A i \in 1..(n - 1) : G[i] \in AnyValue
      BY <1>1, <1>3 DEF G
    <3>2. SubSeq(G, 1, n - 1) \in Seq(AnyValue)
      BY <1>3, <3>1, SubSeqProperties
    <3> QED BY <1>3, <1>4, <1>8, <3>2
  <2>4. todo' \in Tasks /\ todo'.pc = "unshift" /\ todo'.given = G /\ todo'.was = todo.was
        /\ todo'.left = SubSeq(G, 1, n - 1)
    BY <1>1, <2>3 DEF RestOK, Tasks, G
  <2>5. RestOK'
    BY <1>1, <2>4 DEF RestOK
  <2>6. Items' = SubSeq(G, n, Len(G)) \o todo.was
    <3> DEFINE h == SubSeq(G, n + 1, Len(G))
    <3>1. Items = h \o todo.was
      BY <1>2 DEF Left, G
    <3>2. G \in Seq(AnyValue) /\ todo.was \in Seq(AnyValue) /\ <<v>> \in Seq(AnyValue)
      BY <1>1, <1>3 DEF G
    <3>3. n \in 1..Len(G) /\ Len(G) \in n..Len(G)
      BY <1>3
    <3>4. h \in Seq(AnyValue)
      BY <3>2, <3>3, SubSeqProperties
    <3>5. SubSeq(G, n, Len(G)) = <<v>> \o h
      BY <1>3, <3>2, <3>3, SubSeqRecursiveFirst
    <3> HIDE DEF h
    <3>6. (<<v>> \o h) \o todo.was = <<v>> \o (h \o todo.was)
      <4>1. \A a, b, c \in Seq(AnyValue) : (a \o b) \o c = a \o (b \o c)
        BY ConcatAssociative
      <4> QED BY <3>2, <3>4, <4>1, Zenon
    <3> QED BY <2>2, <3>1, <3>5, <3>6
  <2>7. n - 1 \in 0..Len(todo'.given) /\ (n - 1) + 1 = n /\ nelms' + (n - 1) <= MaxElms
    <3>1. nelms + n <= MaxElms
      BY <1>2 DEF Left
    <3> QED BY <1>3, <2>2, <2>4, <3>1, ConstantsAreSound
  <2>8. Left(n - 1)'
    BY <2>4, <2>6, <2>7 DEF Left
  <2>9. UnshiftOK'
    BY <1>1, <2>4, <2>7, <2>8 DEF UnshiftOK, G
  <2> QED BY <1>6, <2>5, <2>9, Shapes DEF ArrInv
<1> QED BY <1>7, <1>8

\* What remains of an unshift is what the values are when it starts.
LEMMA UnshiftStarts ==
  ASSUME ArrInv, NEW n \in 1..MaxArgs, NEW vs \in [1..n -> Passed], nelms + n <= MaxElms,
         Unshift(vs)
  PROVE  ArrInv'
<1>1. /\ DataOK /\ RestOK
      /\ todo' = [pc |-> "unshift", left |-> vs, given |-> vs, was |-> Items]
      /\ out' = << >> /\ UNCHANGED <<env, nelms, base, idx, is_nil, intact>>
  BY Shapes DEF ArrInv, Unshift
<1>2. vs \in Seq(Passed) /\ vs \in Seq(AnyValue) /\ Len(vs) = n /\ n \in Nat
  <2>1. n \in Nat /\ Passed \subseteq AnyValue
    BY DEF Passed, AnyValue
  <2> QED BY <2>1
<1>3. Items \in Seq(AnyValue) /\ Items' = Items
  BY <1>1, ItemsIs DEF Items
<1>4. DataOK' /\ RestOK'
  BY <1>1, <1>2, <1>3 DEF DataOK, RestOK, Tasks
<1>5. Left(n)'
  <2>1. SubSeq(vs, 1, n) = vs
    BY <1>2, SubSeqFull
  <2>2. SubSeq(vs, n + 1, Len(vs)) = << >>
    BY <1>2, SubSeqEmpty
  <2>3. << >> \o Items = Items
    BY <1>3, ConcatEmptySeq
  <2> QED BY <1>1, <1>2, <1>3, <2>1, <2>2, <2>3 DEF Left
<1>6. n \in 0..Len(todo'.given)
  BY <1>1, <1>2
<1> QED BY <1>1, <1>2, <1>4, <1>5, <1>6, Shapes DEF ArrInv, UnshiftOK

\* A step that rearranges the slots.
LEMMA RearrangedOK ==
  ASSUME DataOK, Rearrangements
  PROVE  DataOK' /\ Quiet
<1>0. MaxElms \in Nat
  BY ConstantsAreSound
<1>1. CASE \E a, b \in Named : Move(a, b)
  <2>1. PICK a \in Named, b \in Named : Move(a, b)
    BY <1>1
  <2>2. a \in Slots /\ b \in Slots /\ a >= 1 /\ b >= 1 /\ b \in 0..(IdxMod - 1)
    BY <2>1, NamedIs DEF Move, InBounds
  <2>3. Moved(env, a, b) \in [Slots -> AnyValue \ {Rejected}]
    BY <2>2, LoopsStay, <1>0 DEF DataOK
  <2> QED BY <2>1, <2>2, <2>3 DEF Move, DataOK
<1>2. CASE \E a, b \in Named : Reverse(a, b)
  <2>1. PICK a \in Named, b \in Named : Reverse(a, b)
    BY <1>2
  <2>2. a \in Slots /\ b \in Slots /\ b \in 0..(IdxMod - 1)
    BY <2>1, NamedIs
  <2>3. Flipped(env, a, b) \in [Slots -> AnyValue \ {Rejected}]
    BY <2>2, LoopsStay, <1>0 DEF DataOK
  <2> QED BY <2>1, <2>2, <2>3 DEF Reverse, DataOK
<1>3. CASE ReverseAll
  <2>1. 1 \in Slots /\ Idx16(nelms) \in Slots
    BY <1>0, <1>3 DEF ReverseAll, Slots
  <2>2. Flipped(env, 1, Idx16(nelms)) \in [Slots -> AnyValue \ {Rejected}]
    BY <2>1, LoopsStay, <1>0 DEF DataOK
  <2> QED BY <1>3, <2>2 DEF ReverseAll, DataOK
<1> QED BY <1>1, <1>2, <1>3 DEF Rearrangements

\* A rendering takes slots that are gone out, one by one.
LEMMA RenderingOK ==
  ASSUME ArrInv, Renderings
  PROVE  ArrInv'
<1>1. DataOK /\ RestOK /\ nelms \in Int /\ todo \in Tasks
      /\ out \in Seq(AnyValue \ {Rejected, Absent})
  BY Shapes DEF ArrInv, DataOK, RestOK
<1>2. ASSUME NEW s \in Nat, NEW e \in Int, Render(s, e), idx' \in 0..(IdxMod - 1)
      PROVE  ArrInv'
  <2>1. todo' \in Tasks /\ todo'.pc = "render"
    BY <1>2 DEF Render, Tasks
  <2> QED BY <1>1, <1>2, <2>1, NoUnshift, Shapes DEF ArrInv, Render, DataOK, RestOK
<1>3. CASE TojsonAll
  <2>1. (IF Idx16(nelms) = 0 THEN nelms ELSE Idx16(nelms)) \in Int
    BY <1>1, Idx16Is, ConstantsAreSound
  <2>2. idx' \in 0..(IdxMod - 1)
    BY <1>1, <1>3 DEF TojsonAll, DataOK
  <2> QED BY <1>2, <1>3, <2>1, <2>2 DEF TojsonAll
<1>4. CASE \E s, e \in Named : Tojson(s, e)
  <2>1. PICK s \in Named, e \in Named : Tojson(s, e)
    BY <1>4
  <2>2. s \in Nat /\ e \in Int /\ e \in 0..(IdxMod - 1)
    BY NamedIs, ConstantsAreSound DEF Slots
  <2> QED BY <1>2, <2>1, <2>2 DEF Tojson
<1>5. CASE RenderItem
  <2>1. todo' = [todo EXCEPT !.i = @ + 1] /\ todo.pc = "render"
    BY <1>5 DEF RenderItem, Rendering
  <2>2. todo' \in Tasks /\ todo'.pc = "render"
    BY <1>1, <2>1 DEF Tasks
  <2>3. env[todo.i] \in AnyValue \ {Rejected, Absent}
    BY <1>1, <1>5 DEF RenderItem, Fetched, DataOK
  <2>4. out' \in Seq(AnyValue \ {Rejected, Absent})
    BY <1>1, <1>5, <2>3 DEF RenderItem
  <2> QED BY <1>1, <1>5, <2>2, <2>4, NoUnshift, Shapes DEF ArrInv, RenderItem, DataOK, RestOK
<1>6. CASE HoleRaises
  <2>1. DataOK'
    BY <1>1, <1>6 DEF HoleRaises, DataOK
  <2> QED BY <1>1, <1>6, <2>1, QuietOK, Shapes DEF ArrInv, HoleRaises
<1>7. CASE HoleClosed
  <2>1. todo.pc = "render" /\ todo.i \in Nat /\ idx \in Int /\ UNCHANGED <<base, idx, out>>
    BY <1>1, <1>7, TaskIs, ConstantsAreSound DEF HoleClosed, Rendering, DataOK
  <2>2. Remove(idx, FALSE) /\ InBounds(idx) /\ idx \in 0..(IdxMod - 1) /\ intact' \in BOOLEAN
    BY <1>1, <1>7 DEF HoleClosed, DataOK
  <2>3. DataOK'
    BY <1>1, <2>1, <2>2, RemoveShapes
  <2>4. todo' = todo \/ todo' = [todo EXCEPT !.e = todo.i - 1]
    BY <1>7 DEF HoleClosed
  <2>5. todo' \in Tasks /\ todo'.pc = "render"
    BY <1>1, <2>1, <2>4 DEF Tasks
  <2> QED BY <1>1, <2>1, <2>2, <2>3, <2>5, NoUnshift, Shapes DEF ArrInv, RestOK
<1>8. CASE RenderDone
  <2>1. todo' \in Tasks /\ todo'.pc # "unshift"
    BY <1>8 DEF RenderDone, Idle, Tasks
  <2> QED BY <1>1, <1>8, <2>1, NoUnshift, Shapes DEF ArrInv, RenderDone, DataOK, RestOK
<1> QED BY <1>3, <1>4, <1>5, <1>6, <1>7, <1>8 DEF Renderings

LEMMA NextArray == ArrInv /\ [Next]_vars => ArrInv'
<1> SUFFICES ASSUME ArrInv, [Next]_vars PROVE ArrInv'
  OBVIOUS
<1>1. DataOK /\ RestOK /\ nelms \in Int /\ idx \in 0..(IdxMod - 1) /\ base \in {0, 1}
  BY Shapes DEF ArrInv, DataOK, RestOK
<1>2. ASSUME DataOK', Quiet PROVE ArrInv'
  BY <1>1, <1>2, QuietOK, Shapes DEF ArrInv
<1>3. ASSUME Refused, idx' \in 0..(IdxMod - 1) PROVE DataOK'
  BY <1>1, <1>3 DEF Refused, DataOK
<1>4. 1 \in 0..(IdxMod - 1) /\ 0 \in 0..(IdxMod - 1)
      /\ \A i \in Int : Idx16(i) \in 0..(IdxMod - 1)
  BY ConstantsAreSound, Idx16Is
<1>5. Absent \in AnyValue /\ Room(Absent) /\ Passed \subseteq AnyValue
  BY ConstantsAreSound DEF AnyValue, Room, Passed
<1>6. CASE Assignments
  <2>1. PICK v \in AnyValue :
          /\ Room(v)
          /\ \/ \E i \in Named : NewIndex(i, v)
             \/ StringKey(v)
             \/ Push(v)
    BY <1>6 DEF Assignments
  <2>2. Quiet /\ \E i \in 0..(IdxMod - 1) : Assign(i, v)
    <3>1. nelms + base \in Int
      BY <1>1
    <3> QED BY <1>1, <1>4, <2>1, <3>1, NamedIs DEF NewIndex, StringKey, Push, PushSlot
  <2> QED BY <1>1, <1>2, <2>1, <2>2, AssignShapes
<1>7. CASE Insertions
  <2>1. CASE \E v \in AnyValue, i \in Named : nelms < MaxElms /\ Insert(i, v)
    <3>1. PICK v \in AnyValue, i \in Named : nelms < MaxElms /\ Insert(i, v)
      BY <2>1
    <3> QED BY <1>1, <1>2, <3>1, NamedIs, InsertShapes DEF Insert
  <2>2. CASE \E n \in 1..MaxArgs : \E vs \in [1..n -> Passed] :
               nelms + n <= MaxElms /\ Unshift(vs)
    BY <2>2, UnshiftStarts
  <2> QED BY <1>7, <2>1, <2>2 DEF Insertions, Passed
<1>8. CASE UnshiftInsert
  BY <1>8, UnshiftInsertOK
<1>9. CASE UnshiftDone
  <2>1. DataOK'
    BY <1>1, <1>9 DEF UnshiftDone, DataOK
  <2> QED BY <1>2, <1>9, <2>1 DEF UnshiftDone
<1>10. ASSUME NEW i \in 0..(IdxMod - 1), Delete(i) PROVE ArrInv'
  <2>1. CASE InBounds(i)
    BY <1>1, <1>2, <1>10, <2>1, RemoveShapes DEF Delete
  <2>2. CASE ~InBounds(i)
    BY <1>2, <1>3, <1>10, <2>2 DEF Delete
  <2> QED BY <2>1, <2>2
<1>11. CASE Deletions
  <2>1. CASE Pop
    <3>1. nelms - 1 + base \in Int
      BY <1>1
    <3>2. DataOK'
      BY <1>1, <1>4, <1>5, <2>1, <3>1, AssignShapes DEF Pop
    <3> QED BY <1>2, <2>1, <3>2 DEF Pop
  <2>2. CASE Shift
    <3>1. CASE nelms = 0
      BY <1>1, <1>2, <1>3, <2>2, <3>1 DEF Shift
    <3>2. CASE nelms # 0
      BY <1>1, <1>4, <1>10, <2>2, <3>2 DEF Shift
    <3> QED BY <3>1, <3>2
  <2>3. CASE \E i \in Named : Delete(i)
    BY <1>10, <2>3, NamedIs
  <2> QED BY <1>11, <2>1, <2>2, <2>3 DEF Deletions
<1>12. CASE RawWrites
  <2>1. PICK i \in 1..(MaxElms + 1), v \in AnyValue \ {Rejected} : Room(v) /\ EnvSet(i, v)
    BY <1>12 DEF RawWrites
  <2>2. CASE env[i] = Absent
    BY <1>1, <1>2, <1>4, <2>1, <2>2, AssignShapes DEF EnvSet
  <2>3. CASE env[i] # Absent
    <3>1. DataOK'
      BY <1>1, <2>1, <2>3 DEF EnvSet, DataOK
    <3> QED BY <1>2, <2>1, <3>1 DEF EnvSet
  <2> QED BY <2>2, <2>3
<1>13. CASE Rearrangements
  BY <1>1, <1>2, <1>13, RearrangedOK
<1>14. CASE Renderings
  BY <1>14, RenderingOK
<1>15. CASE \E i \in Named : Read(i)
  BY <1>2, <1>3, <1>15, NamedIs DEF Read
<1>16. CASE \E b \in {0, 1} : JsonBase(b)
  <2>1. todo' = Idle /\ todo' \in Tasks /\ DataOK'
    BY <1>1, <1>16 DEF JsonBase, Call, RestOK, DataOK
  <2>2. RestOK'
    BY <1>1, <1>16, <2>1 DEF JsonBase, RestOK
  <2> QED BY <2>1, <2>2, NoUnshift, Shapes DEF ArrInv, Idle
<1>17. CASE UNCHANGED vars
  BY <1>17 DEF vars, ArrInv, TypeOK, UnshiftOK, Left, Items
<1> QED BY <1>6, <1>7, <1>8, <1>9, <1>11, <1>12, <1>13, <1>14, <1>15, <1>16, <1>17
        DEF Next, Undefined

\* Slots hold what the array can store, elm->idx stays within its width and the
\* count within -1 and the bound, whatever the script does.
THEOREM ArrayTypes == Spec => []TypeOK
<1>1. Spec => []ArrInv
  BY InitArray, NextArray, PTL DEF Spec
<1> QED BY <1>1, PTL DEF ArrInv

\* At every step of an unshift the values that are in are in the order given,
\* in front of the items there were, whatever the script did before.
THEOREM UnshiftAlwaysInOrder == Spec => []UnshiftInOrder
<1>1. Spec => []ArrInv
  BY InitArray, NextArray, PTL DEF Spec
<1>2. ArrInv => UnshiftInOrder
  <2> SUFFICES ASSUME ArrInv, todo.pc = "unshift"
               PROVE  Items = SubSeq(todo.given, Len(todo.left) + 1, Len(todo.given)) \o todo.was
    BY DEF UnshiftInOrder
  <2>1. PICK n \in 0..Len(todo.given) : Left(n)
    BY DEF ArrInv, UnshiftOK
  <2>2. todo.given \in Seq(Passed)
    BY DEF ArrInv, UnshiftOK
  <2>3. Len(todo.left) = n
    <3>1. \A i \in 1..n : todo.given[i] \in Passed
      BY <2>2
    <3>2. n \in Int /\ 1 \in Int /\ n >= 0
      BY <2>2
    <3>3. Len(SubSeq(todo.given, 1, n)) = IF 1 <= n THEN n - 1 + 1 ELSE 0
      BY <3>1, <3>2, SubSeqProperties
    <3> QED BY <2>1, <3>2, <3>3 DEF Left
  <2> QED BY <2>1, <2>3 DEF Left
<1> QED BY <1>1, <1>2, PTL

-------------------------------------------------------------------------------
(***************************************************************************)
(* No value is lost: how often it is in the slots.                         *)
(***************************************************************************)
LEMMA SlotsFinite == IsFiniteSet(Slots)
<1>1. 0 \in Int /\ MaxElms + 1 \in Int
  BY ConstantsAreSound
<1> QED BY <1>1, FS_Interval DEF Slots

\* A permutation of the slots.
LEMMA Permuted ==
  ASSUME NEW f, NEW g, DOMAIN f = Slots, DOMAIN g = Slots,
         NEW there \in [Slots -> Slots], NEW back \in [Slots -> Slots],
         \A j \in Slots : there[back[j]] = j /\ back[there[j]] = j,
         \A j \in Slots : g[j] = f[there[j]],
         NEW v
  PROVE  Copies(g, v) = Copies(f, v)
<1> DEFINE A == {j \in Slots : g[j] = v}
           B == {j \in Slots : f[j] = v}
           h == [j \in A |-> there[j]]
<1>1. h \in [A -> B]
  OBVIOUS
<1>2. \A i, j \in A : h[i] = h[j] => i = j
  <2> SUFFICES ASSUME NEW i \in A, NEW j \in A, h[i] = h[j] PROVE i = j
    OBVIOUS
  <2>1. back[there[i]] = back[there[j]]
    OBVIOUS
  <2> QED BY <2>1
<1>3. \A b \in B : \E j \in A : h[j] = b
  <2> TAKE b \in B
  <2>1. back[b] \in A /\ h[back[b]] = b
    OBVIOUS
  <2> QED BY <2>1
<1> HIDE DEF A, B, h
<1>4. ExistsBijection(A, B)
  BY <1>1, <1>2, <1>3 DEF ExistsBijection, Bijection, Injection, Surjection, IsInjective
<1>5. IsFiniteSet(A)
  BY SlotsFinite, FS_Subset DEF A
<1>6. Cardinality(B) = Cardinality(A)
  BY <1>4, <1>5, FS_Bijection
<1> QED BY <1>6 DEF Copies, A, B

LEMMA MovedKeeps ==
  ASSUME NEW f, DOMAIN f = Slots, NEW m \in Slots, NEW t \in Slots, NEW v
  PROVE  Copies(Moved(f, m, t), v) = Copies(f, v)
<1> DEFINE To(a, b, j) == IF j = b THEN a ELSE IF a <= j /\ j < b THEN j + 1
                          ELSE IF b < j /\ j <= a THEN j - 1 ELSE j
           there == [j \in Slots |-> To(m, t, j)]
           back == [j \in Slots |-> To(t, m, j)]
<1>1. Slots \subseteq Nat /\ \A j \in Slots : To(m, t, j) \in Slots /\ To(t, m, j) \in Slots
  BY ConstantsAreSound DEF Slots
<1>2. \A j \in Slots : To(m, t, To(t, m, j)) = j /\ To(t, m, To(m, t, j)) = j
  BY <1>1
<1>3. \A j \in Slots : Moved(f, m, t)[j] = f[To(m, t, j)]
  BY DEF Moved
<1> HIDE DEF To
<1>4. there \in [Slots -> Slots] /\ back \in [Slots -> Slots]
  BY <1>1
<1>5. \A j \in Slots : there[back[j]] = j /\ back[there[j]] = j
  BY <1>1, <1>2
<1>6. \A j \in Slots : Moved(f, m, t)[j] = f[there[j]]
  BY <1>3
<1>7. DOMAIN Moved(f, m, t) = Slots
  BY DEF Moved
<1> HIDE DEF there, back
<1> QED BY <1>4, <1>5, <1>6, <1>7, Permuted

LEMMA FlippedKeeps ==
  ASSUME NEW f, DOMAIN f = Slots, NEW a \in Slots, NEW b \in Slots, NEW v
  PROVE  Copies(Flipped(f, a, b), v) = Copies(f, v)
<1> DEFINE over == [j \in Slots |-> IF j \in a..b \cup b..a THEN a + b - j ELSE j]
<1>1. over \in [Slots -> Slots] /\ \A j \in Slots : over[over[j]] = j
  BY ConstantsAreSound DEF Slots
<1>2. /\ \A j \in Slots : Flipped(f, a, b)[j] = f[over[j]]
      /\ DOMAIN Flipped(f, a, b) = Slots
  BY DEF Flipped
<1> HIDE DEF over
<1> QED BY <1>1, <1>2, Permuted

\* Reverse and move rearrange, whatever the slots hold, in bounds or behind the
\* last item, and whatever the script does.
THEOREM ReorderAlwaysKeepsValues == Spec => ReorderKeepsValues
<1>1. Spec => []ArrInv
  BY InitArray, NextArray, PTL DEF Spec
<1>2. ArrInv /\ [Next]_vars
        => [Rearrangements => \A v \in AnyValue : Copies(env', v) = Copies(env, v)]_vars
  <2> SUFFICES ASSUME ArrInv, Rearrangements, NEW v \in AnyValue
               PROVE  Copies(env', v) = Copies(env, v)
    OBVIOUS
  <2>1. DOMAIN env = Slots /\ nelms \in -1..MaxElms /\ MaxElms \in Nat
    BY ConstantsAreSound DEF ArrInv, TypeOK
  <2>2. CASE \E a, b \in Named : Move(a, b)
    BY <2>1, <2>2, NamedIs, MovedKeeps DEF Move
  <2>3. CASE \E a, b \in Named : Reverse(a, b)
    BY <2>1, <2>3, NamedIs, FlippedKeeps DEF Reverse
  <2>4. CASE ReverseAll
    <3>1. 1 \in Slots /\ Idx16(nelms) \in Slots
      BY <2>1, <2>4 DEF Slots, ReverseAll
    <3> QED BY <2>1, <2>4, <3>1, FlippedKeeps DEF ReverseAll
  <2> QED BY <2>2, <2>3, <2>4 DEF Rearrangements
<1> QED BY <1>1, <1>2, PTL DEF Spec, ReorderKeepsValues

\* Closing a slot costs v at most the copy in that slot.
LEMMA ClosedKeeps ==
  ASSUME NEW f, DOMAIN f = Slots, NEW n \in 0..MaxElms, NEW i \in Slots, i >= 1,
         NEW v
  PROVE  Copies(Closed(f, i, n), v) >= Copies(f, v) - (IF f[i] = v THEN 1 ELSE 0)
<1> DEFINE A == {j \in Slots : f[j] = v /\ j # i}
           B == {j \in Slots : Closed(f, i, n)[j] = v}
           h == [j \in A |-> IF i < j /\ j <= n THEN j - 1 ELSE j]
<1>1. Slots \subseteq Nat /\ n \in Nat /\ \A j \in Slots : i < j => j - 1 \in Slots
  BY ConstantsAreSound DEF Slots
<1>2. \A j \in Slots : Closed(f, i, n)[j] = IF i <= j /\ j < n THEN f[j + 1] ELSE f[j]
  BY DEF Closed
<1>3. ASSUME NEW j \in A PROVE h[j] \in B
  <2>1. j \in Slots /\ f[j] = v /\ j # i
    OBVIOUS
  <2>2. CASE i < j /\ j <= n
    <3>1. h[j] = j - 1 /\ j - 1 \in Slots /\ i <= j - 1 /\ j - 1 < n /\ (j - 1) + 1 = j
      BY <1>1, <2>1, <2>2
    <3>2. Closed(f, i, n)[j - 1] = f[j]
      BY <1>2, <3>1
    <3> QED BY <2>1, <3>1, <3>2
  <2>3. CASE ~(i < j /\ j <= n)
    <3>1. h[j] = j /\ ~(i <= j /\ j < n)
      BY <1>1, <2>1, <2>3
    <3> QED BY <1>2, <2>1, <3>1
  <2> QED BY <2>2, <2>3
<1>4. \A j, k \in A : h[j] = h[k] => j = k
  BY <1>1
<1>5. IsFiniteSet(B) /\ IsFiniteSet(A)
  BY SlotsFinite, FS_Subset
<1>6. /\ Copies(f, v) = Cardinality({j \in Slots : f[j] = v})
      /\ Copies(Closed(f, i, n), v) = Cardinality(B)
  BY DEF Copies, Closed
<1>11. {j \in Slots : f[j] = v} = IF f[i] = v THEN A \cup {i} ELSE A
  OBVIOUS
<1>12. i \notin A
  OBVIOUS
<1>10. h \in [A -> B]
  BY <1>3
<1> HIDE DEF A, B, h
<1>7. h \in Injection(A, B)
  BY <1>10, <1>4 DEF Injection, IsInjective
<1>8. Cardinality(A) <= Cardinality(B)
  BY <1>5, <1>7, FS_Injection
<1>9. Cardinality(A) \in Nat /\ Cardinality(B) \in Nat
  BY <1>5, FS_CardinalityType
<1>13. Cardinality(A \cup {i}) = Cardinality(A) + 1
  BY <1>5, <1>12, FS_AddElement
<1> QED BY <1>6, <1>8, <1>9, <1>11, <1>13

\* A rendering overwrites at most the value in the slot of elm->idx, and that only
\* where it meets a hole, whatever the script did before.
THEOREM RenderAlwaysKeepsValues == Spec => RenderLosesOnlyAtStake
<1>1. Spec => []ArrInv
  BY InitArray, NextArray, PTL DEF Spec
<1>2. ArrInv /\ [Next]_vars
        => [Renderings =>
              \A v \in Values \cup {Opaque} :
                Copies(env', v) >= Copies(env, v) - (IF AtStake(v) THEN 1 ELSE 0)]_vars
  <2> SUFFICES ASSUME ArrInv, Renderings, NEW v \in Values \cup {Opaque}
               PROVE  Copies(env', v) >= Copies(env, v) - (IF AtStake(v) THEN 1 ELSE 0)
    OBVIOUS
  <2>1. DataOK /\ DOMAIN env = Slots /\ idx \in Int /\ v # Absent
    BY Shapes, ConstantsAreSound DEF ArrInv, DataOK
  <2>2. CASE env' = env
    <3>1. Copies(env, v) \in Nat
      BY <2>1, SlotsFinite, FS_Subset, FS_CardinalityType DEF Copies
    <3> QED BY <2>2, <3>1
  <2>3. CASE HoleClosed /\ env' # env
    <3>1. InBounds(idx) /\ env' = Closed(env, idx, nelms)
      BY <2>3 DEF HoleClosed, Remove
    <3>2. idx \in Slots /\ idx >= 1 /\ nelms \in 0..MaxElms /\ idx \in Nat /\ nelms \in Nat
      BY <2>1, <3>1, InBoundsIn, ConstantsAreSound
    <3>3. idx \in 1..nelms
      <4>1. CASE idx > nelms
        <5>1. \A j \in Slots : ~(idx <= j /\ j < nelms)
          BY <3>2, <4>1, ConstantsAreSound DEF Slots
        <5>2. env' = [j \in Slots |-> env[j]]
          BY <2>1, <3>1, <5>1 DEF Closed
        <5> QED BY <2>1, <2>3, <5>2 DEF DataOK
      <4> QED BY <3>2, <4>1
    <3>4. env[idx] = v <=> AtStake(v)
      BY <2>3, <3>3 DEF AtStake, HoleClosed, Rendering
    <3> QED BY <2>1, <3>1, <3>2, <3>4, ClosedKeeps
  <2> QED BY <2>2, <2>3 DEF Renderings, TojsonAll, Tojson, Render, RenderItem, HoleRaises, RenderDone
<1> QED BY <1>1, <1>2, PTL DEF Spec, RenderLosesOnlyAtStake

-------------------------------------------------------------------------------
(***************************************************************************)
(* A script that names no position behind the last item but to put         *)
(* something there, and takes no item out through the env table.           *)
(***************************************************************************)
\* Every slot has a number that elm->idx can hold.
Room16 == MaxElms + 1 < IdxMod

Sturdy == {"end_position", "raw_nil"} \cap Habits = {} /\ Room16

\* The slots that are counted are full, ...
Full == DataOK /\ nelms >= 0 /\ NoHoles

\* ... and a rendering under way is within them.
WalkOK == todo.pc = "render" => todo.i >= 1 /\ todo.e <= nelms

SturdyInv == ArrInv /\ Full /\ intact /\ WalkOK

LEMMA InMod ==
  ASSUME Room16, DataOK, nelms >= 0
  PROVE  /\ Idx16(nelms) = nelms /\ Idx16(nelms + 1) = nelms + 1
         /\ nelms \in 0..MaxElms /\ MaxElms \in Nat
         /\ nelms > 0 => Idx16(nelms - 1) = nelms - 1
         /\ nelms = 0 => Idx16(nelms - 1) > nelms
<1>1. /\ nelms \in 0..MaxElms /\ MaxElms \in Nat /\ IdxMod \in Nat
      /\ nelms \in 0..(IdxMod - 1) /\ nelms + 1 \in 0..(IdxMod - 1)
      /\ nelms > 0 => nelms - 1 \in 0..(IdxMod - 1)
  BY ConstantsAreSound DEF Room16, DataOK
<1>2. (-1) % IdxMod = IdxMod - 1
  BY ConstantsAreSound
<1> QED BY <1>1, <1>2, Idx16Is DEF Idx16, Room16

\* What each of the loops does to full slots.
LEMMA ClosedFull ==
  ASSUME Full, DataOK', NEW i \in 1..nelms, NEW measured, Remove(i, measured)
  PROVE  Full' /\ env' = Closed(env, i, nelms) /\ nelms' = nelms - 1
<1>1. /\ nelms \in 0..MaxElms /\ MaxElms \in Nat /\ DOMAIN env = Slots
      /\ \A j \in 1..nelms : env[j] # Absent /\ j \in Slots
      /\ nelms' = nelms - 1 /\ nelms >= 1 /\ i \in Nat
  BY ConstantsAreSound DEF Full, DataOK, NoHoles, Slots, Remove
<1>2. env' = Closed(env, i, nelms)
  BY <1>1 DEF Remove
<1>3. ASSUME NEW j \in 1..(nelms - 1) PROVE env'[j] # Absent
  <2>1. /\ j \in Slots /\ j \in Nat
        /\ j \in 1..nelms /\ j + 1 \in 1..nelms
    BY <1>1, <1>3
  <2>2. env'[j] = IF i <= j /\ j < nelms THEN env[j + 1] ELSE env[j]
    BY <1>1, <1>2, <2>1 DEF Closed
  <2> QED BY <1>1, <2>1, <2>2
<1> QED BY <1>1, <1>2, <1>3 DEF Full, NoHoles

LEMMA OpenedFull ==
  ASSUME Full, DataOK', NEW i \in Int, NEW v \in AnyValue, Insertable(i, v), InsertAtSlot(i, v)
  PROVE  Full'
<1>1. /\ nelms \in 0..MaxElms /\ MaxElms \in Nat /\ DOMAIN env = Slots
      /\ \A j \in 1..nelms : env[j] # Absent /\ j \in Slots
      /\ i \in 1..(nelms + 1) /\ v # Absent
      /\ nelms' = nelms + 1 /\ env' = Opened(env, i, nelms + 1, v)
  BY ConstantsAreSound
     DEF Full, DataOK, NoHoles, Slots, InsertAtSlot, Insertable, InBounds
<1>2. ASSUME NEW j \in 1..(nelms + 1) PROVE env'[j] # Absent
  <2>1. j \in Slots /\ j \in Nat /\ j <= nelms + 2
    BY <1>1, <1>2 DEF Slots
  <2>2. env'[j] = IF j = i THEN v ELSE IF i < j THEN env[j - 1] ELSE env[j]
    BY <1>1, <2>1 DEF Opened
  <2>3. i < j => j - 1 \in 1..nelms
    BY <1>1, <1>2, <2>1
  <2>4. j < i => j \in 1..nelms
    BY <1>1, <1>2, <2>1
  <2> QED BY <1>1, <2>1, <2>2, <2>3, <2>4
<1> QED BY <1>1, <1>2 DEF Full, NoHoles

LEMMA ReorderedFull ==
  ASSUME Full, DataOK', NEW a \in 1..nelms, NEW b \in 1..nelms, UNCHANGED nelms,
         env' = Moved(env, a, b) \/ env' = Flipped(env, a, b)
  PROVE  Full'
<1>1. /\ nelms \in 0..MaxElms /\ MaxElms \in Nat /\ DOMAIN env = Slots
      /\ \A j \in 1..nelms : env[j] # Absent /\ j \in Slots
  BY ConstantsAreSound DEF Full, DataOK, NoHoles, Slots
<1>2. ASSUME NEW j \in 1..nelms PROVE env'[j] # Absent
  <2>1. j \in Slots /\ j \in Nat
    BY <1>1
  <2>2. CASE env' = Moved(env, a, b)
    <3>1. env'[j] = IF j = b THEN env[a] ELSE IF a <= j /\ j < b THEN env[j + 1]
                    ELSE IF b < j /\ j <= a THEN env[j - 1] ELSE env[j]
      BY <1>1, <2>1, <2>2 DEF Moved
    <3>2. /\ a <= j /\ j < b => j + 1 \in 1..nelms
          /\ b < j /\ j <= a => j - 1 \in 1..nelms
      BY <1>1, <2>1
    <3> QED BY <1>1, <3>1, <3>2
  <2>3. CASE env' = Flipped(env, a, b)
    <3>1. env'[j] = IF j \in a..b \cup b..a THEN env[a + b - j] ELSE env[j]
      BY <1>1, <2>1, <2>3 DEF Flipped
    <3>2. j \in a..b \cup b..a => a + b - j \in 1..nelms
      BY <1>1
    <3> QED BY <1>1, <3>1, <3>2
  <2> QED BY <2>2, <2>3
<1> QED BY <1>1, <1>2 DEF Full, NoHoles

\* An assignment overwrites, appends or takes out.
LEMMA AssignFull ==
  ASSUME Full, DataOK', NEW i \in 0..(IdxMod - 1), NEW v \in AnyValue, Assign(i, v)
  PROVE  Full'
<1>1. /\ nelms \in 0..MaxElms /\ MaxElms \in Nat /\ DOMAIN env = Slots
      /\ \A j \in 1..nelms : env[j] # Absent /\ j \in Slots
      /\ i \in Int
  BY ConstantsAreSound DEF Full, DataOK, NoHoles, Slots
<1>2. CASE AssignRefused(i, v)
  BY <1>2 DEF AssignRefused, Refused, Full, NoHoles
<1>3. CASE InBounds(i) /\ (AssignNew(i, v) \/ AssignOver(i, v) \/ AssignOpaque(i, v))
  <2>1. /\ v # Absent
        /\ \/ nelms' = nelms
           \/ nelms' = nelms + 1 /\ i = nelms + 1 /\ env' = [env EXCEPT ![i] = v]
        /\ env' = env \/ env' = [env EXCEPT ![i] = v]
    BY <1>3, ConstantsAreSound DEF AssignNew, AssignOver, AssignOpaque
  <2>2. i \in Slots
    BY <1>3, InBoundsIn, <1>1 DEF Full
  <2>3. \A j \in 1..nelms' : j = i \/ j \in 1..nelms
    BY <1>1, <2>1
  <2>4. nelms' = nelms + 1 => i \in 1..nelms' /\ env'[i] = v
    BY <1>1, <2>1, <2>2
  <2>5. \A j \in 1..nelms : env'[j] = env[j] \/ env'[j] = v
    BY <1>1, <2>1, <2>2
  <2>6. ASSUME NEW j \in 1..nelms' PROVE env'[j] # Absent
    BY <1>1, <2>1, <2>3, <2>4, <2>5
  <2>7. nelms' >= 0
    BY <1>1, <2>1
  <2> QED BY <2>6, <2>7 DEF Full, NoHoles
<1>4. CASE InBounds(i) /\ v = Absent /\ i <= nelms /\ Remove(i, TRUE)
  <2>1. i \in 1..nelms
    BY <1>1, <1>4 DEF InBounds
  <2> QED BY <1>4, <2>1, ClosedFull
<1> QED BY <1>2, <1>3, <1>4 DEF Assign

LEMMA InitSturdy == Init => SturdyInv
<1> SUFFICES ASSUME Init PROVE SturdyInv
  OBVIOUS
<1>1. ArrInv /\ DataOK
  BY InitArray, Shapes DEF ArrInv
<1> QED BY <1>1 DEF Init, SturdyInv, Full, NoHoles, WalkOK, Idle

\* A rendering of full slots meets no hole.
LEMMA WalkIsFull ==
  ASSUME SturdyInv, Rendering
  PROVE  Fetched(todo.i) # Absent /\ todo.i \in 1..nelms
<1>1. todo.i \in Nat /\ todo.e \in Int /\ nelms \in Int
  BY TaskIs DEF SturdyInv, ArrInv, TypeOK, Rendering
<1>2. todo.i \in 1..nelms
  BY <1>1 DEF SturdyInv, WalkOK, Rendering
<1>3. todo.i \in Slots
  BY <1>1, <1>2, ConstantsAreSound DEF Slots, SturdyInv, ArrInv, TypeOK
<1> QED BY <1>2, <1>3 DEF Fetched, SturdyInv, Full, NoHoles

LEMMA NextSturdy == Sturdy /\ SturdyInv /\ [Next]_vars => SturdyInv'
<1> SUFFICES ASSUME Sturdy, SturdyInv, [Next]_vars PROVE SturdyInv'
  OBVIOUS
<1>1. /\ ArrInv' /\ DataOK /\ DataOK' /\ base \in {0, 1} /\ intact /\ Full /\ WalkOK
      /\ nelms \in 0..MaxElms /\ MaxElms \in Nat /\ Room16 /\ idx \in 0..(IdxMod - 1)
      /\ ~May("end_position") /\ ~May("raw_nil")
  BY NextArray, Shapes, ConstantsAreSound
     DEF SturdyInv, ArrInv, Full, DataOK, RestOK, Sturdy, May
<1>2. ASSUME Full', Quiet PROVE SturdyInv'
  BY <1>1, <1>2 DEF SturdyInv, WalkOK, Quiet, Idle
<1>3. ASSUME Refused PROVE Full'
  BY <1>1, <1>3 DEF Refused, Full, NoHoles
<1>4. \A i \in Int : Idx16(i) \in 0..(IdxMod - 1)
  BY Idx16Is
<1>5. Absent \in AnyValue
  BY DEF AnyValue
<1>6. CASE Assignments
  <2>1. PICK v \in AnyValue :
          (\E i \in Named : NewIndex(i, v)) \/ StringKey(v) \/ Push(v)
    BY <1>6 DEF Assignments
  <2>2. Quiet /\ \E i \in 0..(IdxMod - 1) : Assign(i, v)
    <3>1. nelms + base \in Int
      BY <1>1
    <3> QED BY <1>1, <1>4, <2>1, <3>1, NamedIs DEF NewIndex, StringKey, Push, PushSlot
  <2> QED BY <1>1, <1>2, <2>1, <2>2, AssignFull
<1>7. CASE Insertions
  <2>1. CASE \E v \in AnyValue, i \in Named : Insert(i, v)
    <3>1. PICK v \in AnyValue, i \in Named : Insert(i, v)
      BY <2>1
    <3>2. i \in Int
      BY NamedIs, ConstantsAreSound
    <3>3. CASE Insertable(i, v)
      BY <1>1, <1>2, <3>1, <3>2, <3>3, OpenedFull DEF Insert
    <3>4. CASE ~Insertable(i, v)
      <4>1. Full'
        BY <1>1, <3>1, <3>4 DEF Insert, InsertAtSlot, Full, NoHoles
      <4> QED BY <1>2, <3>1, <4>1 DEF Insert
    <3> QED BY <3>3, <3>4
  <2>2. CASE \E n \in 1..MaxArgs : \E vs \in [1..n -> Passed] : Unshift(vs)
    <3>1. /\ UNCHANGED <<env, nelms, intact>> /\ todo'.pc = "unshift"
      BY <2>2 DEF Unshift
    <3> QED BY <1>1, <3>1 DEF SturdyInv, Full, NoHoles, WalkOK
  <2> QED BY <1>7, <2>1, <2>2 DEF Insertions, Passed
<1>8. CASE UnshiftInsert
  <2>1. todo \in Tasks /\ todo.pc = "unshift"
    BY <1>8 DEF SturdyInv, ArrInv, TypeOK, UnshiftInsert
  <2> DEFINE v == UnshiftNext(todo.left)[1]
  <2>2. /\ InsertAtSlot(base, v)
        /\ \/ Insertable(base, v) /\ todo' = [todo EXCEPT !.left = UnshiftNext(@)[2]]
           \/ ~Insertable(base, v) /\ todo' = Idle
        /\ UNCHANGED <<base, intact, out>>
    BY <1>8 DEF UnshiftInsert
  <2>5. v = todo.left[Len(todo.left)]
    BY DEF UnshiftNext
  <2> HIDE DEF v
  <2>3. todo'.pc # "render"
    BY <2>1, <2>2 DEF Tasks, Idle
  <2>4. Full'
    <3>1. CASE ~Insertable(base, v)
      BY <1>1, <2>2, <3>1 DEF InsertAtSlot, Full, NoHoles
    <3>2. CASE Insertable(base, v)
      <4>1. v \in AnyValue
        <5>1. todo.left \in Seq(AnyValue) /\ todo.left # << >>
          BY <1>8, <2>1, TaskIs DEF UnshiftInsert
        <5> QED BY <2>5, <5>1
      <4>2. base \in Int
        BY <1>1
      <4> QED BY <1>1, <2>2, <3>2, <4>1, <4>2, OpenedFull
    <3> QED BY <3>1, <3>2
  <2> QED BY <1>1, <2>2, <2>3, <2>4 DEF SturdyInv, WalkOK
<1>9. CASE UnshiftDone
  <2>1. Full'
    BY <1>1, <1>9 DEF UnshiftDone, Full, NoHoles
  <2> QED BY <1>2, <1>9, <2>1 DEF UnshiftDone
<1>10. ASSUME NEW i \in Int, i <= nelms, Delete(i) PROVE SturdyInv'
  <2>1. CASE InBounds(i)
    <3>1. i \in 1..nelms
      BY <1>1, <1>10, <2>1 DEF InBounds
    <3> QED BY <1>1, <1>2, <1>10, <2>1, <3>1, ClosedFull DEF Delete
  <2>2. CASE ~InBounds(i)
    BY <1>2, <1>3, <1>10, <2>2 DEF Delete
  <2> QED BY <2>1, <2>2
<1>11. CASE Deletions
  <2>1. CASE Pop
    <3>1. nelms - 1 + base \in Int
      BY <1>1
    <3> QED BY <1>1, <1>2, <1>4, <1>5, <2>1, <3>1, AssignFull DEF Pop
  <2>2. CASE Shift
    <3>1. CASE nelms = 0
      BY <1>2, <1>3, <2>2, <3>1 DEF Shift
    <3>2. CASE nelms # 0
      <4>1. base \in Int /\ base <= nelms
        BY <1>1, <3>2
      <4> QED BY <1>10, <2>2, <3>2, <4>1 DEF Shift
    <3> QED BY <3>1, <3>2
  <2>3. CASE \E i \in Named : InReach(i) /\ Delete(i)
    BY <1>1, <1>10, <2>3, NamedIs, ConstantsAreSound DEF InReach
  <2> QED BY <1>11, <2>1, <2>2, <2>3 DEF Deletions
<1>12. CASE RawWrites
  <2>1. PICK i \in 1..(MaxElms + 1), v \in AnyValue \ {Rejected} : v # Absent /\ EnvSet(i, v)
    BY <1>1, <1>12 DEF RawWrites
  <2>2. CASE env[i] = Absent
    <3>1. Idx16(i) \in 0..(IdxMod - 1)
      BY <1>4
    <3> QED BY <1>1, <1>2, <2>1, <2>2, <3>1, AssignFull DEF EnvSet
  <2>3. CASE env[i] # Absent
    <3>1. env' = [env EXCEPT ![i] = v] /\ UNCHANGED nelms
      BY <2>1, <2>3 DEF EnvSet
    <3>2. ASSUME NEW j \in 1..nelms PROVE env'[j] # Absent
      <4>1. j \in Slots /\ env[j] # Absent /\ DOMAIN env = Slots
        BY <1>1 DEF Slots, Full, NoHoles, DataOK
      <4> QED BY <2>1, <3>1, <4>1
    <3>3. Full'
      BY <1>1, <3>1, <3>2 DEF Full, NoHoles
    <3> QED BY <1>2, <2>1, <3>3 DEF EnvSet
  <2> QED BY <2>2, <2>3
<1>13. CASE Rearrangements
  <2>1. CASE \E a, b \in Named : InReach(a) /\ InReach(b) /\ (Move(a, b) \/ Reverse(a, b))
    <3>1. PICK a \in Named, b \in Named : InReach(a) /\ InReach(b) /\ (Move(a, b) \/ Reverse(a, b))
      BY <2>1
    <3>2. a \in 1..nelms /\ b \in 1..nelms
      BY <1>1, <3>1, NamedIs, ConstantsAreSound DEF InReach, Move, Reverse, InBounds
    <3> QED BY <1>1, <1>2, <3>1, <3>2, ReorderedFull DEF Move, Reverse
  <2>2. CASE ReverseAll
    <3>1. env' = Flipped(env, 1, nelms) /\ UNCHANGED nelms /\ Quiet
      BY <1>1, <2>2, InMod DEF ReverseAll, Full
    <3>2. CASE nelms = 0
      BY <1>1, <1>2, <3>1, <3>2 DEF Full, NoHoles
    <3>3. CASE nelms # 0
      <4>1. 1 \in 1..nelms /\ nelms \in 1..nelms
        BY <1>1, <3>3
      <4> QED BY <1>1, <1>2, <3>1, <4>1, ReorderedFull
    <3> QED BY <3>2, <3>3
  <2> QED BY <1>13, <2>1, <2>2 DEF Rearrangements
<1>14. CASE Renderings
  <2>1. ASSUME NEW s \in Nat, NEW e \in Int, Render(s, e), s >= 1, e <= nelms PROVE SturdyInv'
    BY <1>1, <2>1 DEF Render, SturdyInv, Full, NoHoles, WalkOK
  <2>2. CASE TojsonAll
    <3>1. Render(1, nelms) /\ nelms \in Int
      BY <1>1, <2>2, InMod DEF TojsonAll, Full
    <3> QED BY <1>1, <2>1, <3>1
  <2>3. CASE \E s, e \in Named : InReach(s) /\ InReach(e) /\ Tojson(s, e)
    <3>1. PICK s \in Named, e \in Named : InReach(e) /\ Tojson(s, e)
      BY <2>3
    <3>2. s \in Nat /\ e \in Int /\ s >= 1 /\ e <= nelms
      BY <1>1, <3>1, NamedIs, ConstantsAreSound DEF InReach, Tojson, InBounds, Slots
    <3> QED BY <2>1, <3>1, <3>2 DEF Tojson
  <2>4. CASE RenderItem
    <3>1. todo' = [todo EXCEPT !.i = @ + 1] /\ todo.pc = "render" /\ todo \in Tasks
      BY <2>4 DEF RenderItem, Rendering, SturdyInv, ArrInv, TypeOK
    <3>2. todo.i \in Nat /\ todo'.i = todo.i + 1 /\ todo'.e = todo.e /\ todo'.pc = "render"
      BY <3>1, TaskIs DEF Tasks
    <3>3. todo.i >= 1 /\ todo.e <= nelms
      BY <1>1, <3>1 DEF WalkOK
    <3>4. todo'.i >= 1 /\ todo'.e <= nelms
      BY <3>2, <3>3
    <3> QED BY <1>1, <2>4, <3>4 DEF RenderItem, SturdyInv, Full, NoHoles, WalkOK
  <2>5. CASE HoleRaises \/ HoleClosed
    BY <2>5, WalkIsFull DEF HoleRaises, HoleClosed
  <2>6. CASE RenderDone
    BY <1>1, <2>6 DEF RenderDone, SturdyInv, Full, NoHoles, WalkOK, Idle
  <2> QED BY <1>14, <2>2, <2>3, <2>4, <2>5, <2>6 DEF Renderings
<1>15. CASE \E i \in Named : Read(i)
  BY <1>2, <1>3, <1>15 DEF Read
<1>16. CASE \E b \in {0, 1} : JsonBase(b)
  BY <1>1, <1>16 DEF JsonBase, Call, SturdyInv, Full, NoHoles, WalkOK, Idle
<1>17. CASE UNCHANGED vars
  BY <1>1, <1>17 DEF vars, SturdyInv, Full, NoHoles, WalkOK
<1> QED BY <1>6, <1>7, <1>8, <1>9, <1>11, <1>12, <1>13, <1>14, <1>15, <1>16, <1>17
        DEF Next, Undefined

THEOREM SturdyInvariance ==
  ASSUME Sturdy
  PROVE  Spec => []SturdyInv
BY InitSturdy, NextSturdy, PTL DEF Spec

\* No counted slot is ever empty for a script that keeps away from the end
\* position and takes nothing out through the env table: no rendering has a
\* hole to close.
THEOREM NeverAHole ==
  ASSUME Sturdy
  PROVE  Spec => []NoHoles
<1>1. SturdyInv => NoHoles
  BY DEF SturdyInv, Full
<1> QED BY <1>1, SturdyInvariance, PTL

-------------------------------------------------------------------------------
(***************************************************************************)
(* What each of the loops does to the items.                               *)
(***************************************************************************)
Stored == AnyValue \ {Rejected}

\* The items of full slots, before the step and after it.
LEMMA FullItems ==
  ASSUME Full, DataOK', nelms' >= 0
  PROVE  /\ nelms \in 0..MaxElms /\ nelms' \in Nat /\ MaxElms \in Nat
         /\ env \in [Slots -> Stored] /\ DOMAIN env = Slots
         /\ Items \in Seq(Stored) /\ Len(Items) = nelms /\ DOMAIN Items = 1..nelms
         /\ \A j \in 1..nelms : Items[j] = env[j] /\ j \in Slots /\ env[j] \in Stored \ {Absent}
         /\ Items' \in Seq(Stored) /\ Len(Items') = nelms'
         /\ \A j \in 1..nelms' : Items'[j] = env'[j] /\ j \in Slots
<1>1. /\ nelms \in 0..MaxElms /\ nelms' \in Nat /\ MaxElms \in Nat
      /\ env \in [Slots -> Stored] /\ DOMAIN env = Slots
      /\ \A j \in 1..nelms : env[j] # Absent
  BY ConstantsAreSound DEF Full, DataOK, Stored, NoHoles
<1>2. /\ Items \in Seq(Stored) /\ Len(Items) = nelms
      /\ \A j \in 1..nelms : Items[j] = env[j] /\ j \in Slots
      /\ Items' \in Seq(Stored) /\ Len(Items') = nelms'
      /\ \A j \in 1..nelms' : Items'[j] = env'[j] /\ j \in Slots
  BY <1>1, ItemsIs DEF Full, Stored
<1>3. DOMAIN Items = 1..nelms
  BY <1>1, <1>2, LenProperties
<1>4. \A j \in 1..nelms : env[j] \in Stored \ {Absent}
  BY <1>1, <1>2
<1> QED BY <1>1, <1>2, <1>3, <1>4

LEMMA ItemsTakenOut ==
  ASSUME Full, DataOK', NEW i \in 1..nelms, NEW measured, Remove(i, measured)
  PROVE  Items' = SubSeq(Items, 1, i - 1) \o SubSeq(Items, i + 1, Len(Items))
<1> DEFINE t == SubSeq(Items, 1, i - 1) \o SubSeq(Items, i + 1, Len(Items))
<1>1. env' = Closed(env, i, nelms) /\ nelms' = nelms - 1 /\ nelms' >= 0 /\ i \in Nat
  BY ClosedFull DEF Full
<1>2. /\ nelms \in Nat /\ Items \in Seq(Stored) /\ Len(Items) = nelms /\ DOMAIN env = Slots
      /\ \A j \in 1..nelms : Items[j] = env[j] /\ j \in Slots
      /\ Items' \in Seq(Stored) /\ Len(Items') = nelms - 1
      /\ \A j \in 1..(nelms - 1) : Items'[j] = env'[j]
  BY <1>1, FullItems
<1>3. /\ t \in Seq(Stored) /\ Len(t) = nelms - 1
      /\ \A j \in 1..(nelms - 1) : t[j] = IF j < i THEN Items[j] ELSE Items[j + 1]
  BY <1>2, RemovedAt
<1> HIDE DEF t
<1>4. ASSUME NEW j \in 1..(nelms - 1) PROVE Items'[j] = t[j]
  <2>1. j \in Int /\ j \in 1..nelms /\ j + 1 \in 1..nelms
    BY <1>2
  <2>2. env'[j] = IF i <= j /\ j < nelms THEN env[j + 1] ELSE env[j]
    BY <1>1, <1>2, <2>1 DEF Closed
  <2> QED BY <1>1, <1>2, <1>3, <2>1, <2>2
<1>5. Items' = t
  BY <1>2, <1>3, <1>4, SeqEqual
<1> QED BY <1>5 DEF t

LEMMA ItemsPutIn ==
  ASSUME Full, DataOK', NEW i \in Int, NEW v \in AnyValue, Insertable(i, v), InsertAtSlot(i, v)
  PROVE  /\ i \in 1..(Len(Items) + 1)
         /\ Items' = SubSeq(Items, 1, i - 1) \o <<v>> \o SubSeq(Items, i, Len(Items))
<1> DEFINE t == SubSeq(Items, 1, i - 1) \o <<v>> \o SubSeq(Items, i, Len(Items))
<1>1. /\ env' = Opened(env, i, nelms + 1, v) /\ nelms' = nelms + 1 /\ nelms' >= 0 /\ v \in Stored
      /\ i >= 1 /\ i <= nelms + 1
  BY ConstantsAreSound DEF Full, DataOK, InsertAtSlot, Insertable, InBounds, Stored
<1>2. /\ nelms \in Nat /\ Items \in Seq(Stored) /\ Len(Items) = nelms /\ DOMAIN env = Slots
      /\ \A j \in 1..nelms : Items[j] = env[j]
      /\ Items' \in Seq(Stored) /\ Len(Items') = nelms + 1
      /\ \A j \in 1..(nelms + 1) : Items'[j] = env'[j] /\ j \in Slots
  BY <1>1, FullItems
<1>3. i \in 1..(Len(Items) + 1)
  BY <1>1, <1>2
<1>4. /\ t \in Seq(Stored) /\ Len(t) = nelms + 1
      /\ \A j \in 1..(nelms + 1) : t[j] = IF j < i THEN Items[j] ELSE IF j = i THEN v ELSE Items[j - 1]
  BY <1>1, <1>2, <1>3, InsertedAt
<1> HIDE DEF t
<1>5. ASSUME NEW j \in 1..(nelms + 1) PROVE Items'[j] = t[j]
  <2>1. j \in Int /\ (j < i => j \in 1..nelms) /\ (j > i => j - 1 \in 1..nelms)
    BY <1>1, <1>2
  <2>2. env'[j] = IF j = i THEN v ELSE IF i < j /\ j <= nelms + 2 THEN env[j - 1] ELSE env[j]
    BY <1>1, <1>2, <2>1 DEF Opened
  <2> QED BY <1>1, <1>2, <1>4, <2>1, <2>2
<1>6. Items' = t
  BY <1>2, <1>4, <1>5, SeqEqual
<1> QED BY <1>3, <1>6 DEF t

\* A value over an item, ...
LEMMA ItemsOver ==
  ASSUME Full, DataOK', NEW i \in 1..nelms, NEW v \in Stored, nelms' = nelms,
         env' = [env EXCEPT ![i] = v]
  PROVE  i \in DOMAIN Items /\ Items' = [Items EXCEPT ![i] = v]
<1> DEFINE t == [Items EXCEPT ![i] = v]
<1>1. /\ nelms \in Nat /\ Items \in Seq(Stored) /\ Len(Items) = nelms /\ DOMAIN env = Slots
      /\ DOMAIN Items = 1..nelms
      /\ \A j \in 1..nelms : Items[j] = env[j] /\ j \in Slots
      /\ Items' \in Seq(Stored) /\ Len(Items') = nelms
      /\ \A j \in 1..nelms : Items'[j] = env'[j]
  BY FullItems DEF Full
<1>2. /\ t \in Seq(Stored) /\ Len(t) = nelms
      /\ \A j \in 1..nelms : t[j] = IF j = i THEN v ELSE Items[j]
  BY <1>1, ExceptSeq
<1>3. \A j \in 1..nelms : env'[j] = IF j = i THEN v ELSE env[j]
  BY <1>1
<1> HIDE DEF t
<1>4. \A j \in 1..nelms : Items'[j] = t[j]
  BY <1>1, <1>2, <1>3
<1>5. Items' = t
  BY <1>1, <1>2, <1>4, SeqEqual
<1> QED BY <1>1, <1>5 DEF t

\* ... and behind the last one.
LEMMA ItemsBehind ==
  ASSUME Full, DataOK', NEW v \in Stored, nelms' = nelms + 1,
         env' = [env EXCEPT ![nelms + 1] = v]
  PROVE  Items' = Append(Items, v)
<1> DEFINE t == Append(Items, v)
<1>1. /\ nelms \in Nat /\ Items \in Seq(Stored) /\ Len(Items) = nelms /\ DOMAIN env = Slots
      /\ \A j \in 1..nelms : Items[j] = env[j] /\ j \in Slots
      /\ Items' \in Seq(Stored) /\ Len(Items') = nelms + 1
      /\ \A j \in 1..(nelms + 1) : Items'[j] = env'[j] /\ j \in Slots
  <2>1. nelms' >= 0
    BY DEF Full, DataOK
  <2> QED BY <2>1, FullItems
<1>2. /\ t \in Seq(Stored) /\ Len(t) = nelms + 1
      /\ \A j \in 1..nelms : t[j] = Items[j]
      /\ t[nelms + 1] = v
  BY <1>1, AppendProperties
<1>3. \A j \in 1..(nelms + 1) : env'[j] = IF j = nelms + 1 THEN v ELSE env[j]
  BY <1>1
<1> HIDE DEF t
<1>4. \A j \in 1..(nelms + 1) : j = nelms + 1 \/ j \in 1..nelms
  BY <1>1
<1>5. \A j \in 1..(nelms + 1) : Items'[j] = t[j]
  BY <1>1, <1>2, <1>3, <1>4
<1>6. Items' = t
  BY <1>1, <1>2, <1>5, SeqEqual
<1> QED BY <1>6 DEF t

\* What a 0-based push, pop and shift come to.
THEOREM EndsAlwaysEnds ==
  ASSUME Sturdy
  PROVE  Spec => EndsAreEnds
<1> DEFINE A == base = 1 =>
                  /\ \A v \in Values : Push(v) => Items' = Append(Items, v)
                  /\ Pop /\ nelms > 0 => Items' = SubSeq(Items, 1, nelms - 1)
                  /\ Shift /\ nelms > 0 => Items' = SubSeq(Items, 2, nelms)
<1>1. SturdyInv /\ SturdyInv' /\ [Next]_vars => A
  <2> SUFFICES ASSUME SturdyInv, SturdyInv', base = 1 PROVE A
    OBVIOUS
  <2>1. /\ Full /\ DataOK' /\ nelms' >= 0 /\ Room16 /\ nelms \in 0..MaxElms
        /\ Items \in Seq(Stored) /\ Len(Items) = nelms
        /\ PushSlot = nelms + 1 /\ (nelms > 0 => Idx16(nelms - 1 + base) = nelms)
    <3>1. Full /\ DataOK /\ DataOK' /\ nelms >= 0 /\ nelms' >= 0 /\ Room16
      BY DEF SturdyInv, Full, Sturdy
    <3>2. nelms - 1 + base = nelms /\ nelms + base = nelms + 1
      BY <3>1 DEF DataOK
    <3> QED BY <3>1, <3>2, InMod, FullItems DEF PushSlot
  <2>2. Absent \notin Values /\ Absent # Opaque /\ Absent # Rejected /\ Opaque \notin Values
        /\ Rejected \notin Values
    BY ConstantsAreSound
  <2>3. ASSUME NEW v \in Values, Push(v) PROVE Items' = Append(Items, v)
    <3>1. Assign(nelms + 1, v) /\ InBounds(nelms + 1) /\ ~(nelms + 1 <= nelms)
      BY <2>1, <2>3 DEF Push, InBounds
    <3>2. AssignNew(nelms + 1, v)
      BY <2>2, <3>1 DEF Assign, AssignRefused, AssignOver, AssignOpaque
    <3>3. v \in Stored
      BY <2>2 DEF Stored, AnyValue
    <3> QED BY <2>1, <3>2, <3>3, ItemsBehind DEF AssignNew
  <2>4. ASSUME Pop, nelms > 0 PROVE Items' = SubSeq(Items, 1, nelms - 1)
    <3>1. /\ Assign(nelms, Absent) /\ InBounds(nelms) /\ nelms \in 1..nelms
          /\ ~(nelms > nelms) /\ nelms # nelms + 1
      BY <2>1, <2>4 DEF Pop, InBounds
    <3>2. Remove(nelms, TRUE)
      BY <2>2, <3>1 DEF Assign, AssignRefused, AssignNew, AssignOver, AssignOpaque
    <3>3. Items' = SubSeq(Items, 1, nelms - 1) \o SubSeq(Items, nelms + 1, nelms)
      BY <2>1, <3>1, <3>2, ItemsTakenOut
    <3>4. SubSeq(Items, nelms + 1, nelms) = << >> /\ SubSeq(Items, 1, nelms - 1) \in Seq(Stored)
      <4>1. nelms \in Int /\ \A j \in 1..(nelms - 1) : Items[j] \in Stored
        BY <2>1
      <4>2. SubSeq(Items, 1, nelms - 1) \in Seq(Stored)
        BY <4>1, SubSeqProperties
      <4>3. nelms + 1 \in Int /\ nelms < nelms + 1
        BY <4>1
      <4> QED BY <4>1, <4>2, <4>3, SubSeqEmpty
    <3> DEFINE h == SubSeq(Items, 1, nelms - 1)
    <3> HIDE DEF h
    <3>5. h \in Seq(Stored) /\ Items' = h \o << >>
      BY <3>3, <3>4 DEF h
    <3> QED BY <3>5, ConcatEmptySeq DEF h
  <2>5. ASSUME Shift, nelms > 0 PROVE Items' = SubSeq(Items, 2, nelms)
    <3>1. Delete(1) /\ InBounds(1) /\ 1 \in 1..nelms
      BY <2>1, <2>5 DEF Shift, InBounds
    <3>2. Remove(1, ~is_nil)
      BY <3>1 DEF Delete
    <3>3. Items' = SubSeq(Items, 1, 0) \o SubSeq(Items, 2, nelms)
      BY <2>1, <3>1, <3>2, ItemsTakenOut
    <3>4. SubSeq(Items, 1, 0) = << >>
      BY SubSeqEmpty
    <3>5. SubSeq(Items, 2, nelms) \in Seq(Stored)
      <4>1. nelms \in Int /\ 2 \in Int /\ \A j \in 2..nelms : Items[j] \in Stored
        BY <2>1
      <4> QED BY <4>1, SubSeqProperties
    <3> DEFINE h == SubSeq(Items, 2, nelms)
    <3> HIDE DEF h
    <3>6. h \in Seq(Stored) /\ Items' = << >> \o h
      BY <3>3, <3>4, <3>5 DEF h
    <3> QED BY <3>6, ConcatEmptySeq DEF h
  <2> QED BY <2>3, <2>4, <2>5
<1>2. SturdyInv /\ SturdyInv' /\ [Next]_vars => [A]_vars
  BY <1>1
<1> QED BY <1>2, SturdyInvariance, PTL DEF Spec, EndsAreEnds

\* A value that moves is taken out and put back in.
LEMMA ItemsMoved ==
  ASSUME Full, DataOK', NEW a \in 1..nelms, NEW b \in 1..nelms, nelms' = nelms,
         env' = Moved(env, a, b)
  PROVE  LET r == SubSeq(Items, 1, a - 1) \o SubSeq(Items, a + 1, Len(Items))
         IN  /\ a \in DOMAIN Items /\ b \in DOMAIN Items
             /\ Items' = SubSeq(r, 1, b - 1) \o <<Items[a]>> \o SubSeq(r, b, Len(r))
<1> DEFINE r == SubSeq(Items, 1, a - 1) \o SubSeq(Items, a + 1, Len(Items))
           t == SubSeq(r, 1, b - 1) \o <<Items[a]>> \o SubSeq(r, b, Len(r))
<1>1. /\ nelms \in Nat /\ Items \in Seq(Stored) /\ Len(Items) = nelms /\ DOMAIN env = Slots
      /\ DOMAIN Items = 1..nelms
      /\ \A j \in 1..nelms : Items[j] = env[j] /\ j \in Slots
      /\ Items' \in Seq(Stored) /\ Len(Items') = nelms
      /\ \A j \in 1..nelms : Items'[j] = env'[j]
      /\ a \in Nat /\ b \in Nat
  BY FullItems DEF Full
<1>2. /\ t \in Seq(Stored) /\ Len(t) = nelms
      /\ \A j \in 1..nelms :
           t[j] = IF j = b THEN Items[a] ELSE IF a <= j /\ j < b THEN Items[j + 1]
                  ELSE IF b < j /\ j <= a THEN Items[j - 1] ELSE Items[j]
  BY <1>1, RelocatedAt
<1> HIDE DEF t, r
<1>3. ASSUME NEW j \in 1..nelms PROVE Items'[j] = t[j]
  <2>1. env'[j] = IF j = b THEN env[a] ELSE IF a <= j /\ j < b THEN env[j + 1]
                  ELSE IF b < j /\ j <= a THEN env[j - 1] ELSE env[j]
    BY <1>1 DEF Moved
  <2>2. /\ a <= j /\ j < b => j + 1 \in 1..nelms
        /\ b < j /\ j <= a => j - 1 \in 1..nelms
    BY <1>1
  <2> QED BY <1>1, <1>2, <2>1, <2>2
<1>4. Items' = t
  BY <1>1, <1>2, <1>3, SeqEqual
<1> QED BY <1>1, <1>4 DEF t, r

\* The bounds of a reversal may come in either order.
LEMMA ItemsFlipped ==
  ASSUME Full, DataOK', NEW a \in 1..nelms, NEW b \in 1..nelms, nelms' = nelms,
         env' = Flipped(env, a, b) \/ env' = Flipped(env, b, a), a <= b
  PROVE  /\ a \in DOMAIN Items /\ b \in DOMAIN Items
         /\ Items' = [p \in DOMAIN Items |-> IF p \in a..b THEN Items[a + b - p] ELSE Items[p]]
<1> DEFINE t == [p \in DOMAIN Items |-> IF p \in a..b THEN Items[a + b - p] ELSE Items[p]]
<1>1. /\ nelms \in Nat /\ Items \in Seq(Stored) /\ Len(Items) = nelms /\ DOMAIN env = Slots
      /\ DOMAIN Items = 1..nelms
      /\ \A j \in 1..nelms : Items[j] = env[j] /\ j \in Slots /\ env[j] \in Stored
      /\ Items' \in Seq(Stored) /\ Len(Items') = nelms
      /\ \A j \in 1..nelms : Items'[j] = env'[j]
      /\ a \in Nat /\ b \in Nat
  BY FullItems DEF Full
<1>2. DOMAIN Items' = 1..nelms
  BY <1>1, LenProperties
<1>3. ASSUME NEW j \in 1..nelms PROVE Items'[j] = t[j]
  <2>1. env'[j] = IF j \in a..b THEN env[a + b - j] ELSE env[j]
    <3>1. b > a => b..a = {}
      BY <1>1
    <3>2. a = b => b..a = a..b
      OBVIOUS
    <3>3. a..b \cup b..a = a..b /\ b..a \cup a..b = a..b /\ b + a - j = a + b - j
      BY <1>1, <3>1, <3>2
    <3> QED BY <1>1, <3>3 DEF Flipped
  <2>2. j \in a..b => a + b - j \in 1..nelms
    BY <1>1
  <2>3. t[j] = IF j \in a..b THEN Items[a + b - j] ELSE Items[j]
    BY <1>1
  <2> HIDE DEF t
  <2> QED BY <1>1, <2>1, <2>2, <2>3
<1>4. t = [p \in 1..nelms |-> t[p]] /\ Items' = [p \in 1..nelms |-> Items'[p]]
  BY <1>1, <1>2
<1> HIDE DEF t
<1>5. Items' = t
  BY <1>3, <1>4
<1> QED BY <1>1, <1>5 DEF t

-------------------------------------------------------------------------------
(***************************************************************************)
(* The array is a list.  While a rendering is under way nothing is shown;  *)
(* what it has printed so far is the items from where it began.            *)
(***************************************************************************)
Shown == IF todo.pc = "render" THEN << >> ELSE out

Printed(s) == out = SubSeq(Items, s, todo.i - 1) /\ (s < todo.i => todo.i - 1 <= nelms)

OutOK ==
  /\ todo.pc = "unshift" => out = << >>
  /\ todo.pc = "render" => \E s \in 1..todo.i : Printed(s)

ListInv == SturdyInv /\ OutOK

\* The steps of the list, for the array's items.
LEMMA ListGlance ==
  ASSUME Items' = Items, Shown' = << >> PROVE List!Next
  BY DEF List!Next, List!Glance, Shown

LEMMA ListPut ==
  ASSUME NEW i \in 1..(Len(Items) + 1), NEW v \in Values \cup {Opaque}, Shown' = << >>,
         \/ i \in DOMAIN Items /\ Items' = [Items EXCEPT ![i] = v]
         \/ i \notin DOMAIN Items /\ Items' = Append(Items, v)
         \/ Items' = SubSeq(Items, 1, i - 1) \o <<v>> \o SubSeq(Items, i, Len(Items))
  PROVE  List!Next
<1>1. List!Put(i, v) \/ List!PutIn(i, v)
  BY DEF List!Put, List!PutIn, List!InsertAt, Shown
<1> QED BY <1>1 DEF List!Next

LEMMA ListTakeOut ==
  ASSUME NEW i \in DOMAIN Items, Shown' = << >>,
         Items' = SubSeq(Items, 1, i - 1) \o SubSeq(Items, i + 1, Len(Items))
  PROVE  List!Next
<1>1. List!TakeOut(i)
  BY DEF List!TakeOut, List!RemoveAt, Shown
<1> QED BY <1>1 DEF List!Next

LEMMA ListFlip ==
  ASSUME NEW i \in DOMAIN Items, NEW j \in DOMAIN Items, Shown' = << >>,
         Items' = [p \in DOMAIN Items |-> IF p \in i..j THEN Items[i + j - p] ELSE Items[p]]
  PROVE  List!Next
<1>1. List!Flip(i, j)
  BY DEF List!Flip, Shown
<1> QED BY <1>1 DEF List!Next

LEMMA ListShow ==
  ASSUME NEW i \in DOMAIN Items, NEW j \in DOMAIN Items, Shown' = SubSeq(Items, i, j),
         Items' = Items
  PROVE  List!Next
<1>1. List!Show(i, j)
  BY DEF List!Show, Shown
<1> QED BY <1>1 DEF List!Next

LEMMA ListRelocate ==
  ASSUME NEW i \in DOMAIN Items, NEW j \in DOMAIN Items, Shown' = << >>,
         NEW r, r = SubSeq(Items, 1, i - 1) \o SubSeq(Items, i + 1, Len(Items)),
         Items' = SubSeq(r, 1, j - 1) \o <<Items[i]>> \o SubSeq(r, j, Len(r))
  PROVE  List!Next
<1>1. List!Relocate(i, j)
  BY DEF List!Relocate, List!RemoveAt, List!InsertAt, Shown
<1> QED BY <1>1 DEF List!Next

LEMMA SameItems ==
  ASSUME nelms' = nelms, \A j \in 1..nelms : env'[j] = env[j]
  PROVE  Items' = Items
  BY DEF Items

LEMMA AssignList ==
  ASSUME Full, DataOK', NEW i \in 0..(IdxMod - 1), NEW v \in AnyValue, Assign(i, v),
         Shown' = << >>
  PROVE  List!Next
<1>1. /\ nelms \in 0..MaxElms /\ nelms \in Nat /\ DOMAIN env = Slots
      /\ \A j \in 1..nelms : env[j] # Absent /\ j \in Slots
      /\ i \in Int
      /\ DOMAIN Items = 1..nelms /\ Len(Items) = nelms
  <2>1. Items \in Seq(AnyValue \ {Rejected}) /\ Len(Items) = nelms /\ nelms \in Nat
    BY ItemsIs, ConstantsAreSound DEF Full, DataOK
  <2>2. DOMAIN Items = 1..nelms
    BY <2>1, LenProperties
  <2> QED BY <2>1, <2>2, ConstantsAreSound DEF Full, DataOK, NoHoles, Slots
<1>2. ASSUME Items' = Items PROVE List!Next
  BY <1>2, ListGlance
<1>3. CASE AssignRefused(i, v)
  BY <1>2, <1>3, SameItems DEF AssignRefused, Refused
<1>4. CASE InBounds(i) /\ (AssignNew(i, v) \/ AssignOver(i, v) \/ AssignOpaque(i, v))
  <2>1. /\ v \in Values \cup {Opaque} /\ v \in Stored /\ i \in 1..(nelms + 1)
        /\ \/ nelms' = nelms + 1 /\ i = nelms + 1
           \/ nelms' = nelms
        /\ env' = [env EXCEPT ![i] = v]
    BY <1>1, <1>4, ConstantsAreSound
       DEF AssignNew, AssignOver, AssignOpaque, Stored, AnyValue, InBounds
  <2>2. CASE nelms' = nelms + 1
    <3>0. i = nelms + 1 /\ env' = [env EXCEPT ![nelms + 1] = v]
      <4>1. i = nelms + 1 /\ env' = [env EXCEPT ![i] = v]
        <5>1. nelms \in Nat => nelms + 1 # nelms
          OBVIOUS
        <5> QED BY <1>1, <2>1, <2>2, <5>1, Zenon
      <4> QED BY <4>1, Zenon
    <3>1. Items' = Append(Items, v)
      BY <2>1, <2>2, <3>0, ItemsBehind
    <3>2. i \notin DOMAIN Items /\ i \in 1..(Len(Items) + 1)
      BY <1>1, <2>1, <2>2
    <3> QED BY <2>1, <3>1, <3>2, ListPut
  <2>3. CASE nelms' = nelms /\ i \in 1..nelms
    <3>1. i \in DOMAIN Items /\ Items' = [Items EXCEPT ![i] = v]
      BY <2>1, <2>3, ItemsOver
    <3> QED BY <1>1, <2>1, <3>1, ListPut
  <2>4. CASE nelms' = nelms /\ i = nelms + 1
    <3>1. \A j \in 1..nelms : env'[j] = env[j]
      BY <1>1, <2>1, <2>4
    <3> QED BY <1>2, <2>4, <3>1, SameItems
  <2> QED BY <1>1, <2>1, <2>2, <2>3, <2>4
<1>5. CASE InBounds(i) /\ v = Absent /\ i <= nelms /\ Remove(i, TRUE)
  <2>1. i \in 1..nelms
    BY <1>1, <1>5 DEF InBounds
  <2>2. Items' = SubSeq(Items, 1, i - 1) \o SubSeq(Items, i + 1, Len(Items))
    BY <1>5, <2>1, ItemsTakenOut
  <2> QED BY <1>1, <2>1, <2>2, ListTakeOut
<1> QED BY <1>3, <1>4, <1>5 DEF Assign

\* One more item printed.
LEMMA PrintedMore ==
  ASSUME SturdyInv, OutOK, RenderItem
  PROVE  OutOK' /\ Items' = Items
<1>1. /\ todo.pc = "render" /\ todo \in Tasks /\ todo.i \in Nat
      /\ todo' = [todo EXCEPT !.i = @ + 1] /\ out' = Append(out, env[todo.i])
      /\ todo.i \in 1..nelms /\ UNCHANGED <<env, nelms>>
  BY TaskIs, WalkIsFull DEF RenderItem, Rendering, SturdyInv, ArrInv, TypeOK
<1>2. todo'.pc = "render" /\ todo'.i = todo.i + 1
  BY <1>1 DEF Tasks
<1>3. Items' = Items
  BY <1>1 DEF Items
<1>4. Items \in Seq(Stored) /\ Len(Items) = nelms /\ nelms \in Nat
      /\ env[todo.i] = Items[todo.i] /\ Items[todo.i] \in Stored
  <2>1. DataOK /\ nelms >= 0 /\ nelms \in Nat
    BY ConstantsAreSound DEF SturdyInv, Full, DataOK
  <2>2. Items \in Seq(Stored) /\ Len(Items) = nelms /\ env[todo.i] = Items[todo.i]
    BY <1>1, <2>1, ItemsIs DEF Stored
  <2> QED BY <1>1, <2>1, <2>2
<1>5. PICK s \in 1..todo.i : Printed(s)
  BY <1>1 DEF OutOK
<1> DEFINE n == todo.i
           h == SubSeq(Items, s, n - 1)
<1>6. h \in Seq(Stored) /\ out = h
  <2>1. s \in Int /\ n - 1 \in Int /\ \A j \in s..(n - 1) : Items[j] \in Stored
    BY <1>1, <1>4
  <2> QED BY <1>5, <2>1, SubSeqProperties DEF Printed
<1>7. SubSeq(Items, s, n) = h \o <<Items[n]>>
  <2>1. s \in 1..Len(Items) /\ n \in s..Len(Items)
    BY <1>1, <1>4
  <2> HIDE DEF n
  <2> QED BY <1>4, <2>1, SubSeqRecursiveSecond
<1>8. Append(h, Items[n]) = h \o <<Items[n]>>
  <2> HIDE DEF h
  <2> QED BY <1>4, <1>6, AppendIsConcat
<1>9. out' = SubSeq(Items', s, todo'.i - 1) /\ (s < todo'.i => todo'.i - 1 <= nelms')
      /\ s \in 1..todo'.i
  <2>1. (todo.i + 1) - 1 = todo.i /\ s \in 1..(todo.i + 1)
    BY <1>1
  <2>2. out' = SubSeq(Items, s, todo.i)
    <3> HIDE DEF h
    <3> QED BY <1>1, <1>4, <1>6, <1>7, <1>8
  <2> QED BY <1>1, <1>2, <1>3, <2>1, <2>2
<1> QED BY <1>2, <1>3, <1>9 DEF OutOK, Printed

\* What a rendering that is over has printed.
LEMMA PrintedAll ==
  ASSUME SturdyInv, OutOK, RenderDone
  PROVE  List!Next
<1>1. /\ todo.pc = "render" /\ todo.i \in Nat /\ todo' = Idle /\ UNCHANGED <<env, nelms, out>>
  BY TaskIs DEF RenderDone, SturdyInv, ArrInv, TypeOK
<1>2. Items' = Items /\ Shown' = out
  BY <1>1 DEF Items, Shown, Idle
<1>3. PICK s \in 1..todo.i : Printed(s)
  BY <1>1 DEF OutOK
<1>4. Items \in Seq(AnyValue \ {Rejected}) /\ Len(Items) = nelms /\ nelms \in Nat
      /\ DOMAIN Items = 1..nelms
  <2>1. DataOK /\ nelms >= 0 /\ nelms \in Nat
    BY ConstantsAreSound DEF SturdyInv, Full, DataOK
  <2>2. Items \in Seq(AnyValue \ {Rejected}) /\ Len(Items) = nelms
    BY <2>1, ItemsIs
  <2> QED BY <2>1, <2>2, LenProperties
<1>5. CASE s = todo.i
  <2>1. out = SubSeq(Items, s, s - 1) /\ s \in Int /\ s - 1 \in Int /\ s - 1 < s
    BY <1>1, <1>3, <1>5 DEF Printed
  <2>2. out = << >>
    BY <2>1, SubSeqEmpty
  <2> QED BY <1>2, <2>2, ListGlance
<1>6. CASE s < todo.i
  <2>1. s \in DOMAIN Items /\ todo.i - 1 \in DOMAIN Items
    BY <1>1, <1>3, <1>4, <1>6 DEF Printed
  <2>2. Shown' = SubSeq(Items, s, todo.i - 1)
    BY <1>2, <1>3 DEF Printed
  <2> QED BY <1>2, <2>1, <2>2, ListShow
<1> QED BY <1>1, <1>5, <1>6

LEMMA QuietList ==
  ASSUME Quiet
  PROVE  Shown' = << >> /\ OutOK'
  BY DEF Quiet, Shown, OutOK, Idle

\* A step of a sturdy script's array is one of the list, or none.
LEMMA ListStep ==
  ASSUME Sturdy, ListInv, SturdyInv', [Next]_vars
  PROVE  OutOK' /\ [List!Next]_(List!ilVars)
<1>1. /\ Full /\ DataOK' /\ base \in {0, 1} /\ intact /\ OutOK /\ SturdyInv
      /\ nelms \in 0..MaxElms /\ MaxElms \in Nat /\ Room16 /\ idx \in 0..(IdxMod - 1)
      /\ DOMAIN Items = 1..nelms /\ Len(Items) = nelms
      /\ ~May("end_position") /\ ~May("raw_nil")
  <2>1. /\ Full /\ DataOK /\ DataOK' /\ base \in {0, 1} /\ intact /\ OutOK /\ SturdyInv
        /\ nelms \in 0..MaxElms /\ MaxElms \in Nat /\ Room16 /\ idx \in 0..(IdxMod - 1)
        /\ ~May("end_position") /\ ~May("raw_nil")
    BY Shapes, ConstantsAreSound
       DEF ListInv, SturdyInv, ArrInv, Full, DataOK, RestOK, Sturdy, May
  <2>2. Items \in Seq(AnyValue \ {Rejected}) /\ Len(Items) = nelms
    BY <2>1, ItemsIs
  <2>3. DOMAIN Items = 1..nelms
    BY <2>2, LenProperties
  <2> QED BY <2>1, <2>2, <2>3
<1>2. ASSUME Quiet, Shown' = << >> => List!Next PROVE OutOK' /\ [List!Next]_(List!ilVars)
  BY <1>2, QuietList
<1>3. ASSUME Refused PROVE Items' = Items
  BY <1>3, SameItems DEF Refused
<1>4. \A i \in Int : Idx16(i) \in 0..(IdxMod - 1)
  BY Idx16Is
<1>5. Absent \in AnyValue
  BY DEF AnyValue
<1>6. CASE Assignments
  <2>1. PICK v \in AnyValue :
          (\E i \in Named : NewIndex(i, v)) \/ StringKey(v) \/ Push(v)
    BY <1>6 DEF Assignments
  <2>2. Quiet /\ \E i \in 0..(IdxMod - 1) : Assign(i, v)
    <3>1. nelms + base \in Int
      BY <1>1
    <3> QED BY <1>1, <1>4, <2>1, <3>1, NamedIs DEF NewIndex, StringKey, Push, PushSlot
  <2> QED BY <1>1, <1>2, <2>1, <2>2, AssignList
<1>7. ASSUME NEW i \in Int, NEW v \in AnyValue, InsertAtSlot(i, v), Shown' = << >>
      PROVE  List!Next
  <2>1. CASE Insertable(i, v)
    <3>1. v \in Values \cup {Opaque}
      BY <2>1 DEF Insertable, AnyValue
    <3>2. /\ i \in 1..(Len(Items) + 1)
          /\ Items' = SubSeq(Items, 1, i - 1) \o <<v>> \o SubSeq(Items, i, Len(Items))
      BY <1>1, <1>7, <2>1, ItemsPutIn
    <3> QED BY <1>7, <3>1, <3>2, ListPut
  <2>2. CASE ~Insertable(i, v)
    <3>1. Items' = Items
      BY <1>7, <2>2, SameItems DEF InsertAtSlot
    <3> QED BY <1>7, <3>1, ListGlance
  <2> QED BY <2>1, <2>2
<1>8. CASE Insertions
  <2>1. CASE \E v \in AnyValue, i \in Named : Insert(i, v)
    <3>1. PICK v \in AnyValue, i \in Named : Insert(i, v)
      BY <2>1
    <3>2. i \in Int
      BY NamedIs, ConstantsAreSound
    <3> QED BY <1>2, <1>7, <3>1, <3>2 DEF Insert
  <2>2. CASE \E n \in 1..MaxArgs : \E vs \in [1..n -> Passed] : Unshift(vs)
    <3>1. /\ UNCHANGED <<env, nelms>> /\ todo'.pc = "unshift" /\ out' = << >>
      BY <2>2 DEF Unshift
    <3>2. Items' = Items /\ Shown' = << >> /\ OutOK'
      BY <3>1 DEF Items, Shown, OutOK
    <3> QED BY <3>2, ListGlance
  <2> QED BY <1>8, <2>1, <2>2 DEF Insertions, Passed
<1>9. CASE UnshiftInsert
  <2> DEFINE v == UnshiftNext(todo.left)[1]
  <2>1. /\ todo \in Tasks /\ todo.pc = "unshift" /\ out' = out /\ InsertAtSlot(base, v)
        /\ \/ todo' = [todo EXCEPT !.left = UnshiftNext(@)[2]]
           \/ todo' = Idle
        /\ todo.left # << >> /\ v = todo.left[Len(todo.left)]
    BY <1>1, <1>9 DEF SturdyInv, ArrInv, TypeOK, UnshiftInsert, UnshiftNext
  <2>2. v \in AnyValue
    <3> HIDE DEF v
    <3>1. todo.left \in Seq(AnyValue)
      BY <2>1, TaskIs
    <3> QED BY <2>1, <3>1
  <2> HIDE DEF v
  <2>3. out = << >> /\ todo'.pc # "render"
    BY <1>1, <2>1 DEF OutOK, Tasks, Idle
  <2>4. Shown' = << >> /\ OutOK'
    BY <2>1, <2>3 DEF Shown, OutOK
  <2>5. base \in Int
    BY <1>1
  <2> QED BY <1>7, <2>1, <2>2, <2>4, <2>5
<1>10. CASE UnshiftDone
  <2>1. Quiet /\ Items' = Items
    BY <1>10 DEF UnshiftDone, Items
  <2> QED BY <1>2, <2>1, ListGlance
<1>11. ASSUME NEW i \in Int, i <= nelms, Delete(i)
       PROVE  OutOK' /\ [List!Next]_(List!ilVars)
  <2>1. CASE InBounds(i)
    <3>1. i \in 1..nelms /\ Remove(i, ~is_nil)
      BY <1>1, <1>11, <2>1 DEF InBounds, Delete
    <3>2. Items' = SubSeq(Items, 1, i - 1) \o SubSeq(Items, i + 1, Len(Items))
      BY <1>1, <3>1, ItemsTakenOut
    <3>3. Shown' = << >> => List!Next
      BY <1>1, <3>1, <3>2, ListTakeOut
    <3> QED BY <1>2, <1>11, <3>3 DEF Delete
  <2>2. CASE ~InBounds(i)
    BY <1>2, <1>3, <1>11, <2>2, ListGlance DEF Delete
  <2> QED BY <2>1, <2>2
<1>12. CASE Deletions
  <2>1. CASE Pop
    <3>1. nelms - 1 + base \in Int
      BY <1>1
    <3> QED BY <1>1, <1>2, <1>4, <1>5, <2>1, <3>1, AssignList DEF Pop
  <2>2. CASE Shift
    <3>1. CASE nelms = 0
      BY <1>2, <1>3, <2>2, <3>1, ListGlance DEF Shift
    <3>2. CASE nelms # 0
      <4>1. base \in Int /\ base <= nelms
        BY <1>1, <3>2
      <4> QED BY <1>11, <2>2, <3>2, <4>1 DEF Shift
    <3> QED BY <3>1, <3>2
  <2>3. CASE \E i \in Named : InReach(i) /\ Delete(i)
    BY <1>1, <1>11, <2>3, NamedIs, ConstantsAreSound DEF InReach
  <2> QED BY <1>12, <2>1, <2>2, <2>3 DEF Deletions
<1>13. CASE RawWrites
  <2>1. PICK i \in 1..(MaxElms + 1), v \in AnyValue \ {Rejected} : v # Absent /\ EnvSet(i, v)
    BY <1>1, <1>13 DEF RawWrites
  <2>2. CASE env[i] = Absent
    <3>1. Idx16(i) \in 0..(IdxMod - 1) /\ Quiet
      BY <1>4, <2>1 DEF EnvSet
    <3> QED BY <1>1, <1>2, <2>1, <2>2, <3>1, AssignList DEF EnvSet
  <2>3. CASE env[i] # Absent
    <3>1. env' = [env EXCEPT ![i] = v] /\ nelms' = nelms /\ Quiet
      BY <2>1, <2>3 DEF EnvSet
    <3>2. CASE i \in 1..nelms
      <4>1. v \in Stored /\ v \in Values \cup {Opaque}
        BY <2>1 DEF Stored, AnyValue
      <4>2. i \in DOMAIN Items /\ Items' = [Items EXCEPT ![i] = v]
        BY <1>1, <3>1, <3>2, <4>1, ItemsOver
      <4>3. i \in 1..(Len(Items) + 1)
        BY <1>1, <3>2
      <4> QED BY <1>2, <3>1, <4>1, <4>2, <4>3, ListPut
    <3>3. CASE i \notin 1..nelms
      <4>1. \A j \in 1..nelms : env'[j] = env[j]
        BY <1>1, <3>1, <3>3 DEF Full, DataOK, Slots
      <4> QED BY <1>2, <3>1, <4>1, SameItems, ListGlance
    <3> QED BY <3>2, <3>3
  <2> QED BY <2>2, <2>3
<1>14. ASSUME NEW a \in 1..nelms, NEW b \in 1..nelms, Quiet, nelms' = nelms,
              env' = Flipped(env, a, b)
       PROVE  OutOK' /\ [List!Next]_(List!ilVars)
  <2>1. a \in DOMAIN Items /\ b \in DOMAIN Items /\ (a <= b \/ b <= a)
    BY <1>1
  <2>2. CASE a <= b
    BY <1>1, <1>2, <1>14, <2>1, <2>2, ItemsFlipped, ListFlip
  <2>3. CASE b <= a
    <3>1. Items' = [p \in DOMAIN Items |-> IF p \in b..a THEN Items[b + a - p] ELSE Items[p]]
      BY <1>1, <1>14, <2>3, ItemsFlipped
    <3> QED BY <1>2, <1>14, <2>1, <3>1, ListFlip
  <2> QED BY <2>1, <2>2, <2>3
<1>15. CASE Rearrangements
  <2>1. CASE \E a, b \in Named : InReach(a) /\ InReach(b) /\ (Move(a, b) \/ Reverse(a, b))
    <3>1. PICK a \in Named, b \in Named : InReach(a) /\ InReach(b) /\ (Move(a, b) \/ Reverse(a, b))
      BY <2>1
    <3>2. a \in 1..nelms /\ b \in 1..nelms
      BY <1>1, <3>1, NamedIs, ConstantsAreSound DEF InReach, Move, Reverse, InBounds
    <3>3. CASE Move(a, b)
      <4>1. Quiet /\ env' = Moved(env, a, b) /\ nelms' = nelms
        BY <3>3 DEF Move
      <4> DEFINE r == SubSeq(Items, 1, a - 1) \o SubSeq(Items, a + 1, Len(Items))
      <4>2. /\ a \in DOMAIN Items /\ b \in DOMAIN Items
            /\ Items' = SubSeq(r, 1, b - 1) \o <<Items[a]>> \o SubSeq(r, b, Len(r))
        BY <1>1, <3>2, <4>1, ItemsMoved
      <4>3. r = SubSeq(Items, 1, a - 1) \o SubSeq(Items, a + 1, Len(Items))
        OBVIOUS
      <4> HIDE DEF r
      <4>4. Shown' = << >> => List!Next
        BY <4>2, <4>3, ListRelocate
      <4> QED BY <1>2, <4>1, <4>4
    <3>4. CASE Reverse(a, b)
      BY <1>14, <3>2, <3>4 DEF Reverse
    <3> QED BY <3>1, <3>3, <3>4
  <2>2. CASE ReverseAll
    <3>1. env' = Flipped(env, 1, nelms) /\ nelms' = nelms /\ Quiet
      BY <1>1, <2>2, InMod DEF ReverseAll, Full
    <3>2. CASE nelms = 0
      <4>1. Items' = Items
        BY <1>1, <3>1, <3>2, SameItems
      <4> QED BY <1>2, <3>1, <4>1, ListGlance
    <3>3. CASE nelms # 0
      <4>1. 1 \in 1..nelms /\ nelms \in 1..nelms
        BY <1>1, <3>3
      <4> QED BY <1>14, <3>1, <4>1
    <3> QED BY <3>2, <3>3
  <2> QED BY <1>15, <2>1, <2>2 DEF Rearrangements
<1>16. CASE Renderings
  <2>1. ASSUME NEW s \in Nat, NEW e \in Int, Render(s, e), s >= 1
        PROVE  OutOK' /\ [List!Next]_(List!ilVars)
    <3>1. Items' = Items /\ todo'.pc = "render" /\ todo'.i = s /\ out' = << >> /\ Shown' = << >>
      BY <2>1 DEF Render, Items, Shown
    <3>2. s \in 1..s /\ SubSeq(Items', s, s - 1) = << >> /\ ~(s < s)
      BY <2>1, SubSeqEmpty
    <3>3. OutOK'
      BY <3>1, <3>2 DEF OutOK, Printed
    <3> QED BY <3>1, <3>3, ListGlance
  <2>2. CASE TojsonAll
    <3>1. Render(1, nelms) /\ nelms \in Int
      BY <1>1, <2>2, InMod DEF TojsonAll, Full
    <3> QED BY <2>1, <3>1
  <2>3. CASE \E s, e \in Named : InReach(s) /\ InReach(e) /\ Tojson(s, e)
    <3>1. PICK s \in Named, e \in Named : Tojson(s, e)
      BY <2>3
    <3>2. s \in Nat /\ e \in Int /\ s >= 1
      BY <3>1, NamedIs, ConstantsAreSound DEF Tojson, InBounds, Slots
    <3> QED BY <2>1, <3>1, <3>2 DEF Tojson
  <2>4. CASE RenderItem
    <3>1. OutOK' /\ Items' = Items
      BY <1>1, <2>4, PrintedMore
    <3>2. todo.pc = "render" /\ todo \in Tasks /\ todo' = [todo EXCEPT !.i = @ + 1]
      BY <2>4, <1>1 DEF RenderItem, Rendering, SturdyInv, ArrInv, TypeOK
    <3>3. Shown' = << >>
      BY <3>2 DEF Shown, Tasks
    <3> QED BY <3>1, <3>3, ListGlance
  <2>5. CASE HoleRaises \/ HoleClosed
    BY <1>1, <2>5, WalkIsFull DEF HoleRaises, HoleClosed
  <2>6. CASE RenderDone
    <3>1. OutOK'
      BY <2>6 DEF RenderDone, OutOK, Idle
    <3> QED BY <1>1, <2>6, <3>1, PrintedAll
  <2> QED BY <1>16, <2>2, <2>3, <2>4, <2>5, <2>6 DEF Renderings
<1>17. CASE \E i \in Named : Read(i)
  BY <1>2, <1>3, <1>17, ListGlance DEF Read
<1>18. CASE \E b \in {0, 1} : JsonBase(b)
  <2>1. todo = Idle /\ todo' = Idle /\ out' = << >> /\ Items' = Items
    BY <1>18 DEF JsonBase, Call, Items
  <2>2. Shown' = << >> /\ OutOK'
    BY <2>1 DEF Shown, OutOK, Idle
  <2> QED BY <2>1, <2>2, ListGlance
<1>19. CASE UNCHANGED vars
  <2>1. Items' = Items /\ OutOK' /\ Shown' = Shown
    BY <1>1, <1>19 DEF vars, Items, OutOK, Printed, Shown
  <2> QED BY <2>1 DEF List!ilVars, Shown
<1> QED BY <1>1, <1>6, <1>8, <1>9, <1>10, <1>12, <1>13, <1>15, <1>16, <1>17, <1>18, <1>19
        DEF Next, Undefined

\* For a script that keeps away from the end position and takes nothing out
\* through the env table, the array is the list of ItemList: every call is one
\* of its steps, and what tojson prints is the items asked for.
THEOREM ArrayIsAList ==
  ASSUME Sturdy
  PROVE  Spec => ImplementsItemList
<1>1. Init => ListInv /\ List!Init
  <2> SUFFICES ASSUME Init PROVE ListInv /\ List!Init
    OBVIOUS
  <2>1. SturdyInv /\ OutOK /\ out = << >> /\ Idle.pc = "idle"
    BY InitSturdy DEF Init, OutOK, Idle
  <2>2. Items = << >>
    <3>1. Len(Items) = 0 /\ Items \in Seq(AnyValue \ {Rejected})
      BY <2>1, ItemsIs DEF SturdyInv, Full, Init
    <3> QED BY <3>1, EmptySeq
  <2> QED BY <2>1, <2>2 DEF ListInv, List!Init, Init
<1>2. ListInv /\ SturdyInv' /\ [Next]_vars => ListInv' /\ [List!Next]_(List!ilVars)
  BY ListStep DEF ListInv
<1> QED BY <1>1, <1>2, SturdyInvariance, PTL DEF Spec, ImplementsItemList, List!Spec

===============================================================================
