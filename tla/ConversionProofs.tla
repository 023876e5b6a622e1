---------------------------- MODULE ConversionProofs --------------------------
(***************************************************************************)
(* The conversions of a Lua table, for tables of any size and depth: what  *)
(* the element made of one holds, why a conversion fails, and that totable *)
(* and the way back lose nothing; and that unref gives a copy.             *)
(***************************************************************************)
EXTENDS ConversionProps, ParserProofs

\* No element and no table is one of the values that stand for something else.
AtomsApart ==
  \A x, y, z : {Array(x), Listing(x, y), Table(x, y, z)}
                 \cap (Scalars \cup {Opaque, Nothing, Raised, Crashed}) = {}

-------------------------------------------------------------------------------
(***************************************************************************)
(* Level by level: the recursive functions meet their equations.           *)
(***************************************************************************)
LEMMA LevelIs ==
  ASSUME NEW v
  PROVE  /\ Level(v)[0] = {v}
         /\ \A n \in 0..MaxLevels : Level(v)[n + 1] = UNION {PartsOf(x) : x \in Level(v)[n]}
<1> DEFINE F(S) == UNION {PartsOf(x) : x \in S}
           Rec(k, f) == f = [n \in 0..k |-> IF n = 0 THEN {v} ELSE F(f[n - 1])]
           T == {k \in Nat : ~ \E f : Rec(k, f)}
<1>1. T = {}
  <2> SUFFICES ASSUME T # {} PROVE FALSE
    OBVIOUS
  <2>1. PICK k \in T : \A m \in T : k <= m
    BY LeastNat
  <2>2. k \in Nat /\ ~ \E f : Rec(k, f)
    BY <2>1
  <2> HIDE DEF F
  <2>3. k # 0
    <3> DEFINE f == [n \in 0..0 |-> {v}]
    <3>1. Rec(0, f)
      OBVIOUS
    <3> HIDE DEF Rec, f
    <3> QED BY <2>2, <3>1
  <2>4. k - 1 \in Nat /\ k - 1 \notin T
    <3> HIDE DEF T
    <3> QED BY <2>1, <2>2, <2>3
  <2>5. PICK g : Rec(k - 1, g)
    BY <2>4
  <2> DEFINE f == [n \in 0..k |-> IF n = 0 THEN {v} ELSE F(g[n - 1])]
  <2>6. \A n \in 0..(k - 1) : f[n] = g[n]
    <3>1. \A n \in 0..(k - 1) : g[n] = IF n = 0 THEN {v} ELSE F(g[n - 1])
      BY <2>5, Zenon
    <3>2. \A n \in 0..(k - 1) : n \in 0..k
      BY <2>2
    <3> HIDE DEF Rec, T
    <3> QED BY <3>1, <3>2
  <2>7. \A n \in 0..k : n # 0 => n - 1 \in 0..(k - 1)
    BY <2>2
  <2>8. Rec(k, f)
    <3>1. \A n \in 0..k : (IF n = 0 THEN {v} ELSE F(g[n - 1])) = (IF n = 0 THEN {v} ELSE F(f[n - 1]))
      <4> HIDE DEF f, T, Rec
      <4> QED BY <2>6, <2>7
    <3> HIDE DEF T
    <3> QED BY <3>1
  <2> HIDE DEF f, Rec
  <2> QED BY <2>2, <2>8
<1>2. MaxLevels + 1 \in Nat
  BY ValuesAssumption
<1>3. PICK f : Rec(MaxLevels + 1, f)
  BY <1>1, <1>2
<1>4. Level(v) = CHOOSE g : Rec(MaxLevels + 1, g)
  BY Zenon DEF Level
<1>5. Rec(MaxLevels + 1, Level(v))
  <2> HIDE DEF Rec
  <2> QED BY <1>3, <1>4, Zenon
<1> HIDE DEF F
<1>6. \A n \in 0..MaxLevels + 1 : Level(v)[n] = IF n = 0 THEN {v} ELSE F(Level(v)[n - 1])
  BY <1>5, Zenon
<1>7. 0 \in 0..MaxLevels + 1 /\ \A n \in 0..MaxLevels : n + 1 \in 0..MaxLevels + 1 /\ (n + 1) - 1 = n /\ n + 1 # 0
  BY ValuesAssumption
<1>8. \A n \in 0..MaxLevels : Level(v)[n + 1] = F(Level(v)[n])
  <2> TAKE n \in 0..MaxLevels
  <2>1. Level(v)[n + 1] = IF n + 1 = 0 THEN {v} ELSE F(Level(v)[(n + 1) - 1])
    BY <1>6, <1>7
  <2> QED BY <1>7, <2>1
<1> QED BY <1>6, <1>7, <1>8 DEF F


\* What a claim makes claims on is in every set that is closed under Followers.
LEMMA ClaimsWithin ==
  ASSUME NEW c, NEW D, c \in D, \A q \in D : Followers(q) \subseteq D
  PROVE  \A n \in 0..MaxLevels : Claims(c)[n] \subseteq D
<1> DEFINE F(S) == UNION {Followers(q) : q \in S}
           step == [S \in SUBSET D |-> F(S)]
           Rec(f) == f = [n \in 0..MaxLevels |-> IF n = 0 THEN {c} ELSE F(f[n - 1])]
<1>1. MaxLevels \in Nat /\ step \in [SUBSET D -> SUBSET D] /\ {c} \in SUBSET D
  BY ValuesAssumption
<1>2. PICK g \in [0..MaxLevels -> SUBSET D] : Iterates(step, {c}, MaxLevels, g)
  <2> HIDE DEF step
  <2> QED BY <1>1, Iterated
<1>3. \A n \in 0..MaxLevels : g[n] \in SUBSET D /\ g[n] = F(IF n = 0 THEN {c} ELSE g[n - 1])
  <2>1. \A n \in 0..MaxLevels : g[n] = step[IF n = 0 THEN {c} ELSE g[n - 1]]
    BY <1>2, Zenon DEF Iterates
  <2>2. \A n \in 0..MaxLevels : (IF n = 0 THEN {c} ELSE g[n - 1]) \in SUBSET D
    BY <1>1, <1>2
  <2> HIDE DEF F
  <2> QED BY <1>2, <2>1, <2>2
<1> HIDE DEF F, step
<1> DEFINE f == [n \in 0..MaxLevels |-> IF n = 0 THEN {c} ELSE g[n - 1]]
<1>4. \A n \in 0..MaxLevels : n # 0 =>
        n - 1 \in 0..MaxLevels /\ f[n - 1] = (IF n - 1 = 0 THEN {c} ELSE g[(n - 1) - 1])
  BY <1>1
<1>5. \A n \in 0..MaxLevels : n # 0 => g[n - 1] = F(f[n - 1])
  <2> HIDE DEF f
  <2> QED BY <1>3, <1>4
<1>6. Rec(f)
  <2>1. \A n \in 0..MaxLevels : (IF n = 0 THEN {c} ELSE g[n - 1])
                              = (IF n = 0 THEN {c} ELSE F(f[n - 1]))
    <3> HIDE DEF f
    <3> QED BY <1>5
  <2> QED BY <2>1
<1>7. Rec(Claims(c))
  <2>1. Claims(c) = CHOOSE h : Rec(h)
    BY Zenon DEF Claims, F
  <2> HIDE DEF Rec, f
  <2> QED BY <1>6, <2>1, Zenon
<1>8. \A n \in 0..MaxLevels : Claims(c)[n] = IF n = 0 THEN {c} ELSE F(Claims(c)[n - 1])
  BY <1>7, Zenon
<1> DEFINE B == {n \in 0..MaxLevels : ~ (Claims(c)[n] \subseteq D)}
<1> SUFFICES ASSUME B # {} PROVE FALSE
  OBVIOUS
<1>9. PICK n \in B : \A m \in B : n <= m
  <2>1. B \subseteq Nat
    BY <1>1
  <2> HIDE DEF B
  <2> QED BY <2>1, LeastNat
<1>10. n \in 0..MaxLevels /\ ~ (Claims(c)[n] \subseteq D)
  BY <1>9
<1>11. n # 0
  BY <1>8, <1>10
<1>12. n - 1 \in 0..MaxLevels /\ n - 1 \notin B
  <2>1. n - 1 \in 0..MaxLevels /\ ~ (n <= n - 1)
    BY <1>1, <1>10, <1>11
  <2> HIDE DEF B
  <2> QED BY <1>9, <2>1
<1>13. Claims(c)[n - 1] \subseteq D
  BY <1>12
<1>14. Claims(c)[n] = UNION {Followers(q) : q \in Claims(c)[n - 1]}
  BY <1>8, <1>10, <1>11 DEF F
<1> QED BY <1>10, <1>13, <1>14


\* What is compared is in every set that is closed under Partners.
LEMMA CouplesWithin ==
  ASSUME NEW d, NEW e, NEW D, <<d, e>> \in D, \A q \in D : Partners(q[1], q[2]) \subseteq D
  PROVE  \A n \in 0..MaxLevels : Couples(d, e)[n] \subseteq D
<1> DEFINE F(S) == UNION {Partners(q[1], q[2]) : q \in S}
           step == [S \in SUBSET D |-> F(S)]
           Rec(f) == f = [n \in 0..MaxLevels |-> IF n = 0 THEN {<<d, e>>} ELSE F(f[n - 1])]
<1>1. MaxLevels \in Nat /\ step \in [SUBSET D -> SUBSET D] /\ {<<d, e>>} \in SUBSET D
  BY ValuesAssumption
<1>2. PICK g \in [0..MaxLevels -> SUBSET D] : Iterates(step, {<<d, e>>}, MaxLevels, g)
  <2> HIDE DEF step
  <2> QED BY <1>1, Iterated
<1>3. \A n \in 0..MaxLevels : g[n] \in SUBSET D /\ g[n] = F(IF n = 0 THEN {<<d, e>>} ELSE g[n - 1])
  <2>1. \A n \in 0..MaxLevels : g[n] = step[IF n = 0 THEN {<<d, e>>} ELSE g[n - 1]]
    BY <1>2, Zenon DEF Iterates
  <2>2. \A n \in 0..MaxLevels : (IF n = 0 THEN {<<d, e>>} ELSE g[n - 1]) \in SUBSET D
    BY <1>1, <1>2
  <2> HIDE DEF F
  <2> QED BY <1>2, <2>1, <2>2
<1> HIDE DEF F, step
<1> DEFINE f == [n \in 0..MaxLevels |-> IF n = 0 THEN {<<d, e>>} ELSE g[n - 1]]
<1>4. \A n \in 0..MaxLevels : n # 0 =>
        n - 1 \in 0..MaxLevels /\ f[n - 1] = (IF n - 1 = 0 THEN {<<d, e>>} ELSE g[(n - 1) - 1])
  BY <1>1
<1>5. \A n \in 0..MaxLevels : n # 0 => g[n - 1] = F(f[n - 1])
  <2> HIDE DEF f
  <2> QED BY <1>3, <1>4
<1>6. Rec(f)
  <2>1. \A n \in 0..MaxLevels : (IF n = 0 THEN {<<d, e>>} ELSE g[n - 1])
                              = (IF n = 0 THEN {<<d, e>>} ELSE F(f[n - 1]))
    <3> HIDE DEF f
    <3> QED BY <1>5
  <2> QED BY <2>1
<1>7. Rec(Couples(d, e))
  <2>1. Couples(d, e) = CHOOSE h : Rec(h)
    BY Zenon DEF Couples, F
  <2> HIDE DEF Rec, f
  <2> QED BY <1>6, <2>1, Zenon
<1>8. \A n \in 0..MaxLevels : Couples(d, e)[n] = IF n = 0 THEN {<<d, e>>} ELSE F(Couples(d, e)[n - 1])
  BY <1>7, Zenon
<1> DEFINE B == {n \in 0..MaxLevels : ~ (Couples(d, e)[n] \subseteq D)}
<1> SUFFICES ASSUME B # {} PROVE FALSE
  OBVIOUS
<1>9. PICK n \in B : \A m \in B : n <= m
  <2>1. B \subseteq Nat
    BY <1>1
  <2> HIDE DEF B
  <2> QED BY <2>1, LeastNat
<1>10. n \in 0..MaxLevels /\ ~ (Couples(d, e)[n] \subseteq D)
  BY <1>9
<1>11. n # 0
  BY <1>8, <1>10
<1>12. n - 1 \in 0..MaxLevels /\ n - 1 \notin B
  <2>1. n - 1 \in 0..MaxLevels /\ ~ (n <= n - 1)
    BY <1>1, <1>10, <1>11
  <2> HIDE DEF B
  <2> QED BY <1>9, <2>1
<1>13. Couples(d, e)[n - 1] \subseteq D
  BY <1>12
<1>14. Couples(d, e)[n] = UNION {Partners(q[1], q[2]) : q \in Couples(d, e)[n - 1]}
  BY <1>8, <1>10, <1>11 DEF F
<1> QED BY <1>10, <1>13, <1>14


LEMMA ImageIs ==
  ASSUME NEW v
  PROVE  \A n \in 0..MaxLevels :
           Images(v)[n] = [x \in Level(v)[n] |-> TableFrom(x, Images(v)[n + 1])]
<1> DEFINE E == MaxLevels + 1
           G(n, below) == [x \in Level(v)[n] |-> TableFrom(x, below)]
           Rec(k, f) == f = [n \in k..E |-> IF n = E THEN << >> ELSE G(n, f[n + 1])]
           T == {k \in Nat : k <= E /\ ~ \E f : Rec(E - k, f)}
<1>1. E \in Nat
  BY ValuesAssumption
<1> HIDE DEF E, G
<1>2. T = {}
  <2> SUFFICES ASSUME T # {} PROVE FALSE
    OBVIOUS
  <2>1. PICK k \in T : \A m \in T : k <= m
    BY LeastNat
  <2>2. k \in Nat /\ k <= E /\ ~ \E f : Rec(E - k, f)
    BY <2>1
  <2>3. k # 0
    <3> SUFFICES ASSUME k = 0 PROVE FALSE
      OBVIOUS
    <3> DEFINE f == [n \in (E - 0)..E |-> << >>]
    <3>1. \A n \in (E - 0)..E : n = E
      BY <1>1
    <3>2. Rec(E - 0, f)
      <4>1. \A n \in (E - 0)..E : << >> = IF n = E THEN << >> ELSE G(n, f[n + 1])
        BY <3>1
      <4> QED BY <4>1
    <3> HIDE DEF Rec, f
    <3> QED BY <2>2, <3>2
  <2>4. k - 1 \in Nat /\ k - 1 \notin T
    <3> HIDE DEF T
    <3> QED BY <2>1, <2>2, <2>3
  <2>5. PICK g : Rec(E - (k - 1), g)
    <3>1. k - 1 <= E
      BY <1>1, <2>2
    <3> QED BY <2>4, <3>1
  <2> DEFINE f == [n \in (E - k)..E |-> IF n = E THEN << >> ELSE G(n, g[n + 1])]
  <2>6. \A n \in (E - (k - 1))..E : f[n] = g[n]
    <3>1. \A n \in (E - (k - 1))..E : g[n] = IF n = E THEN << >> ELSE G(n, g[n + 1])
      BY <2>5, Zenon
    <3>2. \A n \in (E - (k - 1))..E : n \in (E - k)..E
      BY <1>1, <2>2
    <3> HIDE DEF Rec, T
    <3> QED BY <3>1, <3>2
  <2>7. \A n \in (E - k)..E : n # E => n + 1 \in (E - (k - 1))..E
    BY <1>1, <2>2
  <2>8. Rec(E - k, f)
    <3>1. \A n \in (E - k)..E : (IF n = E THEN << >> ELSE G(n, g[n + 1]))
                              = (IF n = E THEN << >> ELSE G(n, f[n + 1]))
      <4> HIDE DEF f, T, Rec
      <4> QED BY <2>6, <2>7
    <3> HIDE DEF T
    <3> QED BY <3>1
  <2> HIDE DEF f, Rec
  <2> QED BY <2>2, <2>8
<1>3. PICK f : Rec(0, f)
  <2>1. E - E = 0 /\ E <= E /\ E \notin T
    <3> HIDE DEF T
    <3> QED BY <1>1, <1>2
  <2> HIDE DEF Rec
  <2> QED BY <1>1, <2>1
<1>4. Images(v) = CHOOSE g : Rec(0, g)
  BY Zenon DEF Images, E, G
<1>5. Rec(0, Images(v))
  <2> HIDE DEF Rec
  <2> QED BY <1>3, <1>4, Zenon
<1>6. \A n \in 0..E : Images(v)[n] = IF n = E THEN << >> ELSE G(n, Images(v)[n + 1])
  BY <1>5, Zenon
<1>7. \A n \in 0..MaxLevels : n \in 0..E /\ n # E
  BY ValuesAssumption DEF E
<1>8. \A n \in 0..MaxLevels : Images(v)[n] = G(n, Images(v)[n + 1])
  BY <1>6, <1>7
<1> QED BY <1>8 DEF G


LEMMA CopyAtIs ==
  ASSUME NEW v
  PROVE  \A n \in 0..MaxLevels :
           CopyAt(v)[n] = [x \in Level(v)[n] |-> CopyFrom(x, CopyAt(v)[n + 1])]
<1> DEFINE E == MaxLevels + 1
           G(n, below) == [x \in Level(v)[n] |-> CopyFrom(x, below)]
           Rec(k, f) == f = [n \in k..E |-> IF n = E THEN << >> ELSE G(n, f[n + 1])]
           T == {k \in Nat : k <= E /\ ~ \E f : Rec(E - k, f)}
<1>1. E \in Nat
  BY ValuesAssumption
<1> HIDE DEF E, G
<1>2. T = {}
  <2> SUFFICES ASSUME T # {} PROVE FALSE
    OBVIOUS
  <2>1. PICK k \in T : \A m \in T : k <= m
    BY LeastNat
  <2>2. k \in Nat /\ k <= E /\ ~ \E f : Rec(E - k, f)
    BY <2>1
  <2>3. k # 0
    <3> SUFFICES ASSUME k = 0 PROVE FALSE
      OBVIOUS
    <3> DEFINE f == [n \in (E - 0)..E |-> << >>]
    <3>1. \A n \in (E - 0)..E : n = E
      BY <1>1
    <3>2. Rec(E - 0, f)
      <4>1. \A n \in (E - 0)..E : << >> = IF n = E THEN << >> ELSE G(n, f[n + 1])
        BY <3>1
      <4> QED BY <4>1
    <3> HIDE DEF Rec, f
    <3> QED BY <2>2, <3>2
  <2>4. k - 1 \in Nat /\ k - 1 \notin T
    <3> HIDE DEF T
    <3> QED BY <2>1, <2>2, <2>3
  <2>5. PICK g : Rec(E - (k - 1), g)
    <3>1. k - 1 <= E
      BY <1>1, <2>2
    <3> QED BY <2>4, <3>1
  <2> DEFINE f == [n \in (E - k)..E |-> IF n = E THEN << >> ELSE G(n, g[n + 1])]
  <2>6. \A n \in (E - (k - 1))..E : f[n] = g[n]
    <3>1. \A n \in (E - (k - 1))..E : g[n] = IF n = E THEN << >> ELSE G(n, g[n + 1])
      BY <2>5, Zenon
    <3>2. \A n \in (E - (k - 1))..E : n \in (E - k)..E
      BY <1>1, <2>2
    <3> HIDE DEF Rec, T
    <3> QED BY <3>1, <3>2
  <2>7. \A n \in (E - k)..E : n # E => n + 1 \in (E - (k - 1))..E
    BY <1>1, <2>2
  <2>8. Rec(E - k, f)
    <3>1. \A n \in (E - k)..E : (IF n = E THEN << >> ELSE G(n, g[n + 1]))
                              = (IF n = E THEN << >> ELSE G(n, f[n + 1]))
      <4> HIDE DEF f, T, Rec
      <4> QED BY <2>6, <2>7
    <3> HIDE DEF T
    <3> QED BY <3>1
  <2> HIDE DEF f, Rec
  <2> QED BY <2>2, <2>8
<1>3. PICK f : Rec(0, f)
  <2>1. E - E = 0 /\ E <= E /\ E \notin T
    <3> HIDE DEF T
    <3> QED BY <1>1, <1>2
  <2> HIDE DEF Rec
  <2> QED BY <1>1, <2>1
<1>4. CopyAt(v) = CHOOSE g : Rec(0, g)
  BY Zenon DEF CopyAt, E, G
<1>5. Rec(0, CopyAt(v))
  <2> HIDE DEF Rec
  <2> QED BY <1>3, <1>4, Zenon
<1>6. \A n \in 0..E : CopyAt(v)[n] = IF n = E THEN << >> ELSE G(n, CopyAt(v)[n + 1])
  BY <1>5, Zenon
<1>7. \A n \in 0..MaxLevels : n \in 0..E /\ n # E
  BY ValuesAssumption DEF E
<1>8. \A n \in 0..MaxLevels : CopyAt(v)[n] = G(n, CopyAt(v)[n + 1])
  BY <1>6, <1>7
<1> QED BY <1>8 DEF G


-------------------------------------------------------------------------------
(***************************************************************************)
(* Claims that hold all the way down: those in a set that holds whatever   *)
(* its members claim.                                                      *)
(***************************************************************************)
Sound(R) == \A q \in R : Holds(q) /\ Followers(q) \subseteq R
Stands(c) == \E R : c \in R /\ Sound(R)

LEMMA StandsDown ==
  ASSUME NEW c, Stands(c)
  PROVE  Holds(c) /\ \A q \in Followers(c) : Stands(q)
<1>1. PICK R : c \in R /\ Sound(R)
  BY DEF Stands
<1>2. Holds(c) /\ Followers(c) \subseteq R
  BY <1>1 DEF Sound
<1> QED BY <1>1, <1>2 DEF Stands

LEMMA StandsUp ==
  ASSUME NEW c, Holds(c), \A q \in Followers(c) : Stands(q)
  PROVE  Stands(c)
<1> DEFINE In(q) == CHOOSE R : q \in R /\ Sound(R)
           R == {c} \cup UNION {In(q) : q \in Followers(c)}
<1>1. \A q \in Followers(c) : q \in In(q) /\ Sound(In(q))
  BY DEF Stands
<1> HIDE DEF In
<1>2. Followers(c) \subseteq R
  BY <1>1
<1>3. ASSUME NEW q \in R, q # c PROVE Holds(q) /\ Followers(q) \subseteq R
  <2>1. PICK p \in Followers(c) : q \in In(p)
    BY <1>3
  <2>2. Holds(q) /\ Followers(q) \subseteq In(p)
    BY <1>1, <2>1 DEF Sound
  <2> QED BY <2>1, <2>2
<1>4. c \in R
  OBVIOUS
<1> HIDE DEF R
<1>5. Sound(R)
  BY <1>2, <1>3 DEF Sound
<1> QED BY <1>4, <1>5 DEF Stands

LEMMA StandsForIt ==
  ASSUME NEW c, Stands(c)
  PROVE  StandsFor(c)
<1>1. PICK R : c \in R /\ Sound(R)
  BY DEF Stands
<1>2. \A n \in 0..MaxLevels : Claims(c)[n] \subseteq R
  BY <1>1, ClaimsWithin DEF Sound
<1> QED BY <1>1, <1>2 DEF StandsFor, Sound

(***************************************************************************)
(* Elements that are what elements are, all the way down.                  *)
(***************************************************************************)
Solid(D) == \A d \in D : (IsNested(d) => IsProper(d)) /\ PartsOf(d) \subseteq D
WellMade(d) == \E D : d \in D /\ Solid(D)

LEMMA WellMadeDown ==
  ASSUME NEW d, WellMade(d)
  PROVE  (IsNested(d) => IsProper(d)) /\ \A x \in PartsOf(d) : WellMade(x)
<1>1. PICK D : d \in D /\ Solid(D)
  BY DEF WellMade
<1>2. (IsNested(d) => IsProper(d)) /\ PartsOf(d) \subseteq D
  BY <1>1 DEF Solid
<1> QED BY <1>1, <1>2 DEF WellMade

LEMMA WellMadeUp ==
  ASSUME NEW d, IsNested(d) => IsProper(d), \A x \in PartsOf(d) : WellMade(x)
  PROVE  WellMade(d)
<1> DEFINE In(x) == CHOOSE D : x \in D /\ Solid(D)
           D == {d} \cup UNION {In(x) : x \in PartsOf(d)}
<1>1. \A x \in PartsOf(d) : x \in In(x) /\ Solid(In(x))
  BY DEF WellMade
<1> HIDE DEF In
<1>2. PartsOf(d) \subseteq D
  BY <1>1
<1>3. ASSUME NEW e \in D, e # d PROVE (IsNested(e) => IsProper(e)) /\ PartsOf(e) \subseteq D
  <2>1. PICK x \in PartsOf(d) : e \in In(x)
    BY <1>3
  <2>2. (IsNested(e) => IsProper(e)) /\ PartsOf(e) \subseteq In(x)
    BY <1>1, <2>1 DEF Solid
  <2> QED BY <2>1, <2>2
<1>4. d \in D
  OBVIOUS
<1> HIDE DEF D
<1>5. Solid(D)
  BY <1>2, <1>3 DEF Solid
<1> QED BY <1>4, <1>5 DEF WellMade

LEMMA ScalarsWellMade ==
  ASSUME NEW v, ~IsNested(v)
  PROVE  WellMade(v)
<1>1. PartsOf(v) = {}
  BY DEF PartsOf
<1> QED BY <1>1, WellMadeUp

\* What is nested in a well-made element is well made.
LEMMA LevelsWellMade ==
  ASSUME NEW d, WellMade(d)
  PROVE  \A n \in 0..MaxLevels + 1 : \A x \in Level(d)[n] : WellMade(x)
<1>1. PICK D : d \in D /\ Solid(D)
  BY DEF WellMade
<1> DEFINE B == {n \in 0..MaxLevels + 1 : ~ (Level(d)[n] \subseteq D)}
<1>2. B = {}
  <2> SUFFICES ASSUME B # {} PROVE FALSE
    OBVIOUS
  <2>0. B \subseteq Nat
    BY ValuesAssumption
  <2>1. PICK n \in B : \A m \in B : n <= m
    <3> HIDE DEF B
    <3> QED BY <2>0, LeastNat
  <2>2. n \in 0..MaxLevels + 1 /\ ~ (Level(d)[n] \subseteq D)
    BY <2>1
  <2>3. n # 0
    BY <1>1, <2>2, LevelIs
  <2>4. n - 1 \in 0..MaxLevels /\ n - 1 \in 0..MaxLevels + 1 /\ (n - 1) + 1 = n /\ ~ (n <= n - 1)
    BY <2>2, <2>3, ValuesAssumption
  <2>5. Level(d)[n - 1] \subseteq D
    <3>1. n - 1 \notin B
      <4> HIDE DEF B
      <4> QED BY <2>1, <2>4
    <3> QED BY <2>4, <3>1
  <2>6. Level(d)[n] = UNION {PartsOf(x) : x \in Level(d)[n - 1]}
    <3>1. Level(d)[(n - 1) + 1] = UNION {PartsOf(x) : x \in Level(d)[n - 1]}
      BY <2>4, LevelIs
    <3> QED BY <2>4, <3>1
  <2> QED BY <1>1, <2>2, <2>5, <2>6 DEF Solid
<1> QED BY <1>1, <1>2 DEF WellMade


-------------------------------------------------------------------------------
(***************************************************************************)
(* Elements as values, and what a conversion puts into them.             *)
(***************************************************************************)
LEMMA ArrayIs ==
  ASSUME AtomsApart, NEW s, IsSeq(s)
  PROVE  /\ IsNested(Array(s)) /\ IsProper(Array(s)) /\ IsElement(Array(s))
         /\ Array(s).kind = "array" /\ Array(s).items = s
         /\ Size(Array(s)) = Len(s)
         /\ PartsOf(Array(s)) = {s[i] : i \in DOMAIN s}
<1>1. Array(s) \notin Scalars \cup {Opaque, Nothing, Raised, Crashed}
  BY Zenon DEF AtomsApart
<1>2. Array(s).kind = "array" /\ Array(s).items = s
  BY DEF Array
<1>3. IsNested(Array(s)) /\ IsProper(Array(s)) /\ IsElement(Array(s))
  BY <1>1, <1>2 DEF IsNested, IsElement, Failures, IsProper
<1>4. PartsOf(Array(s)) = {s[i] : i \in DOMAIN s}
  BY <1>2, <1>3 DEF PartsOf, Range
<1> QED BY <1>2, <1>3, <1>4 DEF Size

OneEach(s) ==
  /\ \A i \in DOMAIN s : s[i] = <<s[i][1], s[i][2]>>
  /\ \A i, j \in DOMAIN s : s[i][1] = s[j][1] => i = j

FirstsOf(s) == {s[i][1] : i \in DOMAIN s}

\* Of the pairs s, n are counted: all of them, or all but one if the key "env" is there.
Counts(s, n) == n \in {Len(s), Len(s) - 1} /\ (EnvKey \notin FirstsOf(s) => n = Len(s))

LEMMA ListingIs ==
  ASSUME AtomsApart, NEW s, IsSeq(s), FirstsOf(s) \subseteq Strings \ {Digits}, OneEach(s),
         NEW n, Counts(s, n)
  PROVE  LET d == Listing(s, n)
         IN  /\ IsNested(d) /\ IsProper(d) /\ IsElement(d)
             /\ d.kind = "object" /\ d.pairs = s /\ d.count = n
             /\ Size(d) = n /\ KeysOf(d) = FirstsOf(s)
             /\ PartsOf(d) = {s[i][2] : i \in DOMAIN s}
<1> DEFINE d == Listing(s, n)
<1>1. d \notin Scalars \cup {Opaque, Nothing, Raised, Crashed}
  BY Zenon DEF AtomsApart
<1>2. d.kind = "object" /\ d.pairs = s /\ d.count = n /\ d = Listing(d.pairs, d.count)
  BY DEF Listing
<1> HIDE DEF d
<1>3. KeysOf(d) = FirstsOf(s)
  BY <1>2 DEF KeysOf, FirstsOf
<1>4. IsNested(d) /\ IsElement(d)
  BY <1>1 DEF IsNested, IsElement, Failures
<1>5. PartsOf(d) = {s[i][2] : i \in DOMAIN s}
  BY <1>2, <1>4 DEF PartsOf
<1>6. IsProper(d)
  BY <1>2, <1>3, Zenon DEF IsProper, OneEach, Counts
<1> QED BY <1>2, <1>3, <1>4, <1>5, <1>6 DEF Size, d

LEMMA ProperCounts ==
  ASSUME NEW d, d.kind = "object", IsProper(d)
  PROVE  /\ IsSeq(d.pairs) /\ OneEach(d.pairs) /\ d = Listing(d.pairs, d.count)
         /\ Len(d.pairs) \in Nat /\ DOMAIN d.pairs = 1..Len(d.pairs)
         /\ Size(d) = d.count /\ d.count \in Nat
         /\ KeysOf(d) = FirstsOf(d.pairs) /\ KeysOf(d) \subseteq Strings \ {Digits}
         /\ Counts(d.pairs, d.count)
         /\ Len(d.pairs) - Size(d) \in (IF EnvKey \in KeysOf(d) THEN {0, 1} ELSE {0})
<1>1. KeysOf(d) = FirstsOf(d.pairs)
  BY DEF KeysOf, FirstsOf
<1>2. /\ IsSeq(d.pairs) /\ OneEach(d.pairs) /\ d = Listing(d.pairs, d.count)
      /\ KeysOf(d) \subseteq Strings \ {Digits}
      /\ d.count \in {Len(d.pairs), Len(d.pairs) - 1}
      /\ EnvKey \notin KeysOf(d) => d.count = Len(d.pairs)
  BY Zenon DEF IsProper, OneEach
<1>3. PICK n, keys : n = Len(d.pairs) /\ keys = KeysOf(d)
  OBVIOUS
<1>4. n \in Nat /\ DOMAIN d.pairs = 1..n
  BY <1>2, <1>3, SeqAppend
<1>5. Size(d) = d.count
  BY DEF Size
<1>6. n = 0 => EnvKey \notin keys
  <2>1. n = 0 => DOMAIN d.pairs = {}
    BY <1>4
  <2> QED BY <1>1, <1>3, <2>1 DEF FirstsOf
<1>7. d.count \in Nat /\ n - d.count \in (IF EnvKey \in keys THEN {0, 1} ELSE {0})
  BY <1>2, <1>3, <1>4, <1>6
<1>8. Counts(d.pairs, d.count)
  BY <1>1, <1>2 DEF Counts
<1> QED BY <1>1, <1>2, <1>3, <1>4, <1>5, <1>7, <1>8

\* What Put makes of an array: one part more, or nothing if the place is beyond.
LEMMA PutItem ==
  ASSUME AtomsApart, NEW d, d.kind = "array", IsProper(d), NEW k \in Nat, NEW x
  PROVE  /\ Len(d.items) \in Nat /\ DOMAIN d.items = 1..Len(d.items)
         /\ Raises(d, k) <=> k > Len(d.items)
         /\ k = Len(d.items) => Put(d, k, x) = Array(Append(d.items, x))
<1>1. IsSeq(d.items)
  BY DEF IsProper
<1>2. Len(d.items) \in Nat /\ DOMAIN d.items = 1..Len(d.items)
  BY <1>1, SeqAppend
<1>3. Raises(d, k) <=> k > Len(d.items)
  BY DEF Raises
<1>4. k = Len(d.items) => Put(d, k, x) = Array(Append(d.items, x))
  BY DEF Put
<1> QED BY <1>2, <1>3, <1>4

\* What it makes of an object: a pair more, or another value in a pair.
Replaced(s, k, x) == [i \in DOMAIN s |-> IF s[i][1] = k THEN <<k, x>> ELSE s[i]]

LEMMA PairAppended ==
  ASSUME NEW s, IsSeq(s), OneEach(s), NEW k, k \notin FirstsOf(s), NEW x
  PROVE  LET r == Append(s, <<k, x>>)
         IN  /\ IsSeq(r) /\ OneEach(r) /\ FirstsOf(r) = FirstsOf(s) \cup {k}
             /\ Len(r) = Len(s) + 1
             /\ \A i \in DOMAIN r : r[i] = <<k, x>> \/ (i \in DOMAIN s /\ r[i] = s[i] /\ r[i][1] # k)
<1> DEFINE r == Append(s, <<k, x>>)
           n == Len(s)
<1>1. /\ IsSeq(r) /\ n \in Nat /\ Len(r) = n + 1
      /\ DOMAIN s = 1..n /\ DOMAIN r = 1..(n + 1)
      /\ (\A i \in 1..n : r[i] = s[i]) /\ r[n + 1] = <<k, x>>
  BY SeqAppend
<1> HIDE DEF r, n
<1>2. <<k, x>>[1] = k
  OBVIOUS
<1>3. \A i \in 1..(n + 1) : i = n + 1 \/ i \in 1..n
  BY <1>1
<1>4. n + 1 \in 1..(n + 1) /\ \A i \in 1..n : i \in 1..(n + 1)
  BY <1>1
<1>5. FirstsOf(r) = FirstsOf(s) \cup {k}
  BY <1>1, <1>2, <1>3, <1>4 DEF FirstsOf
<1>6. \A i \in DOMAIN r : r[i] = <<k, x>> \/ (i \in DOMAIN s /\ r[i] = s[i] /\ r[i][1] # k)
  BY <1>1, <1>2, <1>3 DEF FirstsOf
<1>7. OneEach(r)
  BY <1>1, <1>2, <1>3, <1>4 DEF OneEach, FirstsOf
<1> QED BY <1>1, <1>5, <1>6, <1>7 DEF r, n

LEMMA PairReplaced ==
  ASSUME NEW s, IsSeq(s), OneEach(s), NEW k, k \in FirstsOf(s), NEW x
  PROVE  LET r == Replaced(s, k, x)
         IN  /\ IsSeq(r) /\ OneEach(r) /\ FirstsOf(r) = FirstsOf(s)
             /\ Len(r) = Len(s) /\ DOMAIN r = DOMAIN s
             /\ \A i \in DOMAIN r : r[i] = <<k, x>> \/ (r[i] = s[i] /\ r[i][1] # k)
<1> DEFINE r == Replaced(s, k, x)
           n == Len(s)
           S == Range(s) \cup {<<k, x>>}
<1>1. s \in Seq(S) /\ n \in Nat /\ DOMAIN s = 1..n
  <2>1. s \in Seq(Range(s))
    BY DEF IsSeq
  <2> HIDE DEF S
  <2>2. n \in Nat /\ DOMAIN s = 1..n
    BY <2>1
  <2>3. s \in Seq(S)
    BY <2>1, SeqMonotonic DEF S
  <2> QED BY <2>2, <2>3
<1>2. <<k, x>>[1] = k /\ <<k, x>> \in S
  OBVIOUS
<1>3. \A i \in 1..n : s[i] \in S
  <2> HIDE DEF S
  <2> QED BY <1>1
<1>4. r = [i \in 1..n |-> IF s[i][1] = k THEN <<k, x>> ELSE s[i]]
  BY <1>1 DEF Replaced
<1> HIDE DEF r, n, S
<1>5. r \in [1..n -> S]
  BY <1>2, <1>3, <1>4
<1>6. r \in Seq(S) /\ Len(r) = n /\ DOMAIN r = 1..n
  BY <1>1, <1>5
<1>7. \A i \in 1..n : r[i] = IF s[i][1] = k THEN <<k, x>> ELSE s[i]
  BY <1>4
<1>8. \A i \in 1..n : r[i][1] = s[i][1]
  BY <1>2, <1>7
<1>9. FirstsOf(r) = FirstsOf(s) /\ OneEach(r)
  <2>1. \A i \in 1..n : r[i] = <<r[i][1], r[i][2]>>
    <3> SUFFICES ASSUME NEW i \in 1..n PROVE r[i] = <<r[i][1], r[i][2]>>
      OBVIOUS
    <3>1. s[i] = <<s[i][1], s[i][2]>>
      BY <1>1 DEF OneEach
    <3>2. r[i] = <<k, x>> \/ r[i] = s[i]
      BY <1>7
    <3>3. <<k, x>> = <<<<k, x>>[1], <<k, x>>[2]>>
      OBVIOUS
    <3> QED BY <3>1, <3>2, <3>3, Zenon
  <2>2. FirstsOf(r) = FirstsOf(s)
    BY <1>1, <1>6, <1>8 DEF FirstsOf
  <2>3. \A i, j \in 1..n : r[i][1] = r[j][1] => i = j
    BY <1>1, <1>8 DEF OneEach
  <2> QED BY <1>6, <2>1, <2>2, <2>3, Zenon DEF OneEach
<1>10. IsSeq(r)
  BY <1>6, SeqIs
<1> QED BY <1>1, <1>6, <1>7, <1>9, <1>10 DEF r, n

LEMMA PutPair ==
  ASSUME NEW d, d.kind = "object", IsProper(d), NEW k, NEW x
  PROVE  /\ Raises(d, k) <=> k = Digits
         /\ k \in KeysOf(d) =>
              \E m : Put(d, k, x) = Listing(Replaced(d.pairs, k, x), m) /\ Counts(Replaced(d.pairs, k, x), m)
         /\ k \notin KeysOf(d) =>
              \E m : /\ Put(d, k, x) = Listing(Append(d.pairs, <<k, x>>), m)
                    /\ m = (IF k = EnvKey THEN d.count ELSE d.count + 1)
                    /\ Counts(Append(d.pairs, <<k, x>>), m)
                    /\ Len(d.pairs) \in Nat /\ Len(Append(d.pairs, <<k, x>>)) = Len(d.pairs) + 1
<1>1. d.kind # "array"
  OBVIOUS
<1>2. Raises(d, k) <=> k = Digits
  BY <1>1 DEF Raises
<1>3. PICK s, c, n : s = d.pairs /\ c = d.count /\ n = Len(s)
  OBVIOUS
<1>4. /\ IsSeq(s) /\ OneEach(s) /\ KeysOf(d) = FirstsOf(s) /\ n \in Nat /\ c \in {n, n - 1}
      /\ EnvKey \notin FirstsOf(s) => c = n
  BY <1>3, ProperCounts DEF Counts
<1>5. ASSUME k \in KeysOf(d)
      PROVE  \E m : Put(d, k, x) = Listing(Replaced(s, k, x), m) /\ Counts(Replaced(s, k, x), m)
  <2>1. PICK m : m = IF k \in Uncounted(d) THEN c + 1 ELSE c
    OBVIOUS
  <2>2. Put(d, k, x) = Listing(Replaced(s, k, x), m)
    BY <1>1, <1>3, <1>5, <2>1 DEF Put, Replaced
  <2>3. Len(Replaced(s, k, x)) = n /\ FirstsOf(Replaced(s, k, x)) = FirstsOf(s)
    BY <1>3, <1>4, <1>5, PairReplaced
  <2>4. c = n => k \notin Uncounted(d)
    <3>1. c = n => (c + 1)..n = {}
      BY <1>4
    <3> QED BY <1>3, <3>1 DEF Uncounted
  <2>5. m \in {n, n - 1} /\ (EnvKey \notin FirstsOf(s) => m = n)
    BY <1>4, <2>1, <2>4
  <2> QED BY <2>2, <2>3, <2>5 DEF Counts
<1>6. ASSUME k \notin KeysOf(d)
      PROVE  \E m : /\ Put(d, k, x) = Listing(Append(s, <<k, x>>), m)
                    /\ m = (IF k = EnvKey THEN c ELSE c + 1)
                    /\ Counts(Append(s, <<k, x>>), m)
                    /\ n \in Nat /\ Len(Append(s, <<k, x>>)) = n + 1
  <2>1. PICK m : m = IF k = EnvKey THEN c ELSE c + 1
    OBVIOUS
  <2>2. Put(d, k, x) = Listing(Append(s, <<k, x>>), m)
    BY <1>1, <1>3, <1>6, <2>1 DEF Put
  <2>3. Len(Append(s, <<k, x>>)) = n + 1 /\ FirstsOf(Append(s, <<k, x>>)) = FirstsOf(s) \cup {k}
    BY <1>3, <1>4, <1>6, PairAppended
  <2>4. /\ m \in {n + 1, (n + 1) - 1}
        /\ EnvKey \notin FirstsOf(s) \cup {k} => m = n + 1
    BY <1>4, <1>6, <2>1
  <2> QED BY <1>4, <2>1, <2>2, <2>3, <2>4 DEF Counts
<1> QED BY <1>2, <1>3, <1>5, <1>6


-------------------------------------------------------------------------------
(***************************************************************************)
(* An element while it is filled.  V: the tables nested in the outermost   *)
(* one.  Of each it can be told by its counter if it has two halves:       *)
(***************************************************************************)
Exact(V) == \A t \in V : HasOtherHalf(t) = TwoHalves(t)

\* x is what has become of value v.
InPlace(V, x, v) ==
  /\ WellMade(x)
  /\ v \in Scalars => x = v
  /\ Exact(V) /\ IsNested(v) => Stands(ClaimOf(x, v))

\* Array d holds what prints of the first n values of t, and nothing is missing
\* between them; object d holds what it takes of the keys K of t.
ListDone(V, d, t, n) ==
  /\ d.kind = "array" /\ IsProper(d)
  /\ n \in 0..Len(t.list) /\ Len(d.items) <= n
  /\ \A i \in 1..Len(d.items) : t.list[i] # Opaque /\ InPlace(V, d.items[i], t.list[i])
  /\ \A i \in (Len(d.items) + 1)..n : t.list[i] = Opaque

Takes(t, K) == {k \in K : k # Digits /\ t.hash[k] # Opaque}
HashDone(V, d, t, K) ==
  /\ d.kind = "object" /\ IsProper(d) /\ (EnvKey \in KeysOf(d) => d.count = Len(d.pairs) - 1)
  /\ K \subseteq DOMAIN t.hash
  /\ KeysOf(d) = Takes(t, K)
  /\ \A i \in DOMAIN d.pairs : InPlace(V, d.pairs[i][2], t.hash[d.pairs[i][1]])

LEMMA TableIs ==
  ASSUME NEW t, IsTable(t)
  PROVE  /\ Len(t.list) \in Nat /\ DOMAIN t.list = 1..Len(t.list)
         /\ DOMAIN t.hash \subseteq Strings
  BY SeqAppend DEF IsTable

LEMMA ListBegins ==
  ASSUME AtomsApart, NEW V, NEW t, IsTable(t)
  PROVE  ListDone(V, EmptyOf("array"), t, 0)
<1>1. IsSeq(<< >>)
  BY DEF IsSeq
<1>2. EmptyOf("array") = Array(<< >>)
  BY DEF EmptyOf
<1>3. Len(t.list) \in Nat
  BY TableIs
<1> QED BY <1>1, <1>2, <1>3, ArrayIs DEF ListDone

LEMMA HashBegins ==
  ASSUME AtomsApart, NEW V, NEW t
  PROVE  HashDone(V, EmptyOf("object"), t, {})
<1>1. IsSeq(<< >>) /\ FirstsOf(<< >>) = {} /\ OneEach(<< >>) /\ DOMAIN << >> = {} /\ Len(<< >>) = 0
  BY DEF IsSeq, OneEach, FirstsOf
<1>2. PICK d : d = EmptyOf("object") /\ d = Listing(<< >>, 0)
  BY <1>1 DEF EmptyOf, Object
<1>3. Counts(<< >>, 0)
  BY <1>1 DEF Counts
<1>4. IsProper(d) /\ d.kind = "object" /\ d.pairs = << >> /\ KeysOf(d) = {}
  BY <1>1, <1>2, <1>3, ListingIs
<1> QED BY <1>1, <1>2, <1>4 DEF HashDone, Takes

LEMMA ListPass ==
  ASSUME NEW V, NEW d, NEW t, IsTable(t), NEW n \in 0..Len(t.list) - 1,
         ListDone(V, d, t, n), t.list[n + 1] = Opaque
  PROVE  ListDone(V, d, t, n + 1)
<1>1. Len(t.list) \in Nat /\ IsSeq(d.items)
  BY TableIs DEF ListDone, IsProper
<1>2. Len(d.items) \in Nat
  BY <1>1, SeqAppend
<1>3. n + 1 \in 0..Len(t.list) /\ Len(d.items) <= n + 1
  BY <1>1, <1>2 DEF ListDone
<1>4. \A i \in (Len(d.items) + 1)..(n + 1) : i = n + 1 \/ i \in (Len(d.items) + 1)..n
  BY <1>1, <1>2
<1> QED BY <1>3, <1>4 DEF ListDone

LEMMA ListPut ==
  ASSUME AtomsApart, NEW V, NEW d, NEW t, IsTable(t), NEW n \in 0..Len(t.list) - 1,
         ListDone(V, d, t, n), t.list[n + 1] # Opaque, ~Raises(d, n),
         NEW x, InPlace(V, x, t.list[n + 1])
  PROVE  ListDone(V, Put(d, n, x), t, n + 1)
<1>1. Len(t.list) \in Nat /\ IsSeq(d.items) /\ d.kind = "array" /\ IsProper(d) /\ Len(d.items) <= n
  BY TableIs DEF ListDone, IsProper
<1>2. /\ Len(d.items) \in Nat
      /\ Len(d.items) = n
      /\ Put(d, n, x) = Array(Append(d.items, x))
  BY <1>1, PutItem
<1> DEFINE r == Append(d.items, x)
<1>3. /\ IsSeq(r) /\ Len(r) = n + 1 /\ r[n + 1] = x /\ \A i \in 1..n : r[i] = d.items[i]
  BY <1>1, <1>2, SeqAppend
<1> HIDE DEF r
<1>4. Array(r).kind = "array" /\ Array(r).items = r /\ IsProper(Array(r))
  BY <1>3, ArrayIs
<1>5. \A i \in 1..(n + 1) : t.list[i] # Opaque /\ InPlace(V, r[i], t.list[i])
  <2>1. \A i \in 1..(n + 1) : i = n + 1 \/ i \in 1..n
    OBVIOUS
  <2> QED BY <1>2, <1>3, <2>1 DEF ListDone
<1>6. n + 1 \in 0..Len(t.list) /\ n + 1 <= n + 1 /\ (n + 1 + 1)..(n + 1) = {}
  BY <1>1
<1> QED BY <1>2, <1>3, <1>4, <1>5, <1>6 DEF ListDone, r

LEMMA HashPass ==
  ASSUME NEW V, NEW d, NEW t, NEW K, HashDone(V, d, t, K), NEW k \in DOMAIN t.hash,
         k = Digits \/ t.hash[k] = Opaque
  PROVE  HashDone(V, d, t, K \cup {k})
  BY DEF HashDone, Takes

LEMMA HashPut ==
  ASSUME AtomsApart, NEW V, NEW d, NEW t, IsTable(t), NEW K, HashDone(V, d, t, K),
         NEW k \in DOMAIN t.hash, k \notin K, k # Digits, t.hash[k] # Opaque,
         NEW x, InPlace(V, x, t.hash[k])
  PROVE  HashDone(V, Put(d, k, x), t, K \cup {k})
<1>1. /\ d.kind = "object" /\ IsProper(d) /\ KeysOf(d) = Takes(t, K) /\ k \notin KeysOf(d)
      /\ (EnvKey \in KeysOf(d) => d.count = Len(d.pairs) - 1)
      /\ IsSeq(d.pairs) /\ OneEach(d.pairs) /\ FirstsOf(d.pairs) = Takes(t, K)
      /\ Len(d.pairs) \in Nat /\ Counts(d.pairs, d.count)
  <2>1. /\ d.kind = "object" /\ IsProper(d) /\ KeysOf(d) = Takes(t, K) /\ k \notin KeysOf(d)
        /\ (EnvKey \in KeysOf(d) => d.count = Len(d.pairs) - 1)
    BY DEF HashDone, Takes
  <2> QED BY <2>1, ProperCounts
<1>2. PICK m : /\ Put(d, k, x) = Listing(Append(d.pairs, <<k, x>>), m)
               /\ m = (IF k = EnvKey THEN d.count ELSE d.count + 1)
               /\ Counts(Append(d.pairs, <<k, x>>), m)
  BY <1>1, PutPair
<1> DEFINE r == Append(d.pairs, <<k, x>>)
<1>4. /\ IsSeq(r) /\ OneEach(r) /\ FirstsOf(r) = Takes(t, K) \cup {k} /\ Len(r) = Len(d.pairs) + 1
      /\ \A i \in DOMAIN r : r[i] = <<k, x>> \/ (i \in DOMAIN d.pairs /\ r[i] = d.pairs[i])
  BY <1>1, PairAppended
<1>3. Counts(r, m) /\ Put(d, k, x) = Listing(r, m)
  BY <1>2
<1> HIDE DEF r
<1>5. Takes(t, K \cup {k}) = Takes(t, K) \cup {k}
  BY DEF Takes
<1>6. Takes(t, K \cup {k}) \subseteq Strings \ {Digits}
  BY TableIs DEF Takes, HashDone
<1>7. PICK e : e = Listing(r, m)
  OBVIOUS
<1>8. e.kind = "object" /\ e.pairs = r /\ e.count = m /\ IsProper(e) /\ KeysOf(e) = FirstsOf(r)
  BY <1>3, <1>4, <1>5, <1>6, <1>7, ListingIs
<1>9. \A i \in DOMAIN r : InPlace(V, r[i][2], t.hash[r[i][1]])
  <2>1. <<k, x>>[1] = k /\ <<k, x>>[2] = x
    OBVIOUS
  <2> QED BY <1>4, <2>1 DEF HashDone
<1>10. K \cup {k} \subseteq DOMAIN t.hash
  BY DEF HashDone
<1>11. EnvKey \in FirstsOf(r) => m = Len(r) - 1
  BY <1>1, <1>2, <1>4 DEF Counts
<1> HIDE DEF HashDone
<1>12. HashDone(V, e, t, K \cup {k})
  BY <1>4, <1>5, <1>8, <1>9, <1>10, <1>11 DEF HashDone
<1> QED BY <1>3, <1>7, <1>12


-------------------------------------------------------------------------------
(***************************************************************************)
(* An element when it is done, with and without its other half.            *)
(***************************************************************************)
LEMMA ClaimIs ==
  ASSUME NEW d, NEW t, NEW kind, NEW both, NEW name
  PROVE  LET c == Claim(d, t, kind, both, name)
         IN  c.doc = d /\ c.table = t /\ c.kind = kind /\ c.both = both /\ c.name = name
  BY DEF Claim

LEMMA ListMade ==
  ASSUME AtomsApart, NEW V, NEW d, NEW t, IsTable(t), ListDone(V, d, t, Len(t.list))
  PROVE  IsNested(d) /\ IsElement(d) /\ WellMade(d)
         /\ d.kind = "array" /\ IsSeq(d.items) /\ DOMAIN d.items = Kept(t)
<1>1. Len(t.list) \in Nat /\ IsSeq(d.items) /\ d.kind = "array" /\ IsProper(d)
      /\ d = Array(d.items) /\ Len(d.items) <= Len(t.list) /\ DOMAIN t.list = 1..Len(t.list)
  BY TableIs DEF ListDone, IsProper
<1>2. IsNested(d) /\ IsElement(d) /\ PartsOf(d) = {d.items[i] : i \in DOMAIN d.items}
  BY <1>1, ArrayIs
<1>3. Len(d.items) \in Nat /\ DOMAIN d.items = 1..Len(d.items)
  BY <1>1, SeqAppend
<1>4. WellMade(d)
  <2>1. \A i \in 1..Len(d.items) : WellMade(d.items[i])
    BY DEF ListDone, InPlace
  <2> QED BY <1>1, <1>2, <1>3, <2>1, WellMadeUp
<1>5. DOMAIN d.items = Kept(t)
  <2>1. \A i \in 1..Len(d.items) : i \in 1..Len(t.list) /\ t.list[i] # Opaque
    BY <1>1, <1>3 DEF ListDone
  <2>2. \A i \in (Len(d.items) + 1)..Len(t.list) : t.list[i] = Opaque
    BY DEF ListDone
  <2>3. \A i \in 1..Len(t.list) : i \in 1..Len(d.items) \/ i \in (Len(d.items) + 1)..Len(t.list)
    BY <1>1, <1>3
  <2> QED BY <1>1, <1>3, <2>1, <2>2, <2>3 DEF Kept
<1> QED BY <1>1, <1>2, <1>4, <1>5

LEMMA ListAlone ==
  ASSUME AtomsApart, NEW V, NEW d, NEW t, IsTable(t), ListDone(V, d, t, Len(t.list)),
         NEW both, both => Shown(t) \ {EnvKey} = {}, NEW name, Exact(V)
  PROVE  Stands(Claim(d, t, "array", both, name))
<1> DEFINE c == Claim(d, t, "array", both, name)
<1>1. c.doc = d /\ c.table = t /\ c.kind = "array" /\ c.both = both /\ c.name = name
  BY ClaimIs
<1> HIDE DEF c
<1>2. /\ IsNested(d) /\ d.kind = "array" /\ DOMAIN d.items = Kept(t)
      /\ IsSeq(d.items)
  BY ListMade
<1>3. ~KeysBehind(c) /\ OtherHalves(c) = {}
  BY <1>1 DEF KeysBehind, OtherHalves
<1>4. Matched(c) = {<<d.items[i], t.list[i]>> : i \in Kept(t)}
  BY <1>1 DEF Matched
<1>5. \A i \in Kept(t) : InPlace(V, d.items[i], t.list[i])
  BY <1>2, SeqAppend DEF ListDone
<1>6. Holds(c)
  BY <1>1, <1>2, <1>3, <1>4, <1>5 DEF Holds, InPlace
<1>7. \A q \in Followers(c) : Stands(q)
  BY <1>3, <1>4, <1>5 DEF Followers, InPlace
<1> QED BY <1>6, <1>7, StandsUp DEF c

LEMMA HashMade ==
  ASSUME AtomsApart, NEW V, NEW d, NEW t, IsTable(t), HashDone(V, d, t, DOMAIN t.hash)
  PROVE  /\ IsNested(d) /\ IsElement(d) /\ WellMade(d) /\ d.kind = "object"
         /\ IsSeq(d.pairs) /\ OneEach(d.pairs) /\ KeysOf(d) = Shown(t)
         /\ Len(d.pairs) - Size(d) = (IF EnvKey \in KeysOf(d) THEN 1 ELSE 0)
<1>0. d.kind = "object" /\ IsProper(d) /\ (EnvKey \in KeysOf(d) => d.count = Len(d.pairs) - 1)
  BY DEF HashDone
<1>1. /\ d.kind = "object" /\ IsProper(d) /\ d = Listing(d.pairs, d.count) /\ IsSeq(d.pairs)
      /\ OneEach(d.pairs) /\ KeysOf(d) \subseteq Strings \ {Digits}
      /\ KeysOf(d) = FirstsOf(d.pairs) /\ Counts(d.pairs, d.count)
  BY <1>0, ProperCounts
<1>5. Len(d.pairs) - Size(d) = (IF EnvKey \in KeysOf(d) THEN 1 ELSE 0)
  <2>1. Len(d.pairs) \in Nat /\ Size(d) = d.count
    BY <1>0, ProperCounts
  <2>2. EnvKey \notin KeysOf(d) => d.count = Len(d.pairs)
    BY <1>1 DEF Counts
  <2> QED BY <1>0, <2>1, <2>2
<1>2. IsNested(d) /\ IsElement(d) /\ PartsOf(d) = {d.pairs[i][2] : i \in DOMAIN d.pairs}
  <2>1. PICK s, n : s = d.pairs /\ n = d.count
    OBVIOUS
  <2>2. d = Listing(s, n) /\ IsSeq(s) /\ OneEach(s) /\ FirstsOf(s) \subseteq Strings \ {Digits} /\ Counts(s, n)
    BY <1>1, <2>1
  <2>3. /\ IsNested(Listing(s, n)) /\ IsElement(Listing(s, n))
        /\ PartsOf(Listing(s, n)) = {s[i][2] : i \in DOMAIN s}
    BY <2>2, ListingIs
  <2> QED BY <2>1, <2>2, <2>3, Zenon
<1>3. WellMade(d)
  <2>1. \A i \in DOMAIN d.pairs : WellMade(d.pairs[i][2])
    BY DEF HashDone, InPlace
  <2> QED BY <1>1, <1>2, <2>1, WellMadeUp
<1>4. KeysOf(d) = Shown(t)
  BY DEF HashDone, Takes, Shown
<1> QED BY <1>1, <1>2, <1>3, <1>4, <1>5

LEMMA HashAlone ==
  ASSUME AtomsApart, NEW V, NEW d, NEW t, IsTable(t), HashDone(V, d, t, DOMAIN t.hash),
         NEW both, NEW name, both => Kept(t) = {}, Exact(V)
  PROVE  Stands(Claim(d, t, "object", both, name))
<1> DEFINE c == Claim(d, t, "object", both, name)
<1>1. c.doc = d /\ c.table = t /\ c.kind = "object" /\ c.both = both /\ c.name = name
  BY ClaimIs
<1> HIDE DEF c
<1>2. /\ IsNested(d) /\ d.kind = "object" /\ OneEach(d.pairs) /\ KeysOf(d) = Shown(t)
      /\ Len(d.pairs) - Size(d) = (IF EnvKey \in KeysOf(d) THEN 1 ELSE 0)
  BY HashMade
<1>3. ~ListUnder(c) /\ OtherHalves(c) = {} /\ ~KeysBehind(c)
  BY <1>1 DEF ListUnder, OtherHalves, KeysBehind
<1>8. Len(d.pairs) - Size(d) \in PairsBack(c)
  BY <1>1, <1>2, <1>3 DEF PairsBack
<1>4. Matched(c) = {<<d.pairs[i][2], t.hash[d.pairs[i][1]]>> : i \in DOMAIN d.pairs}
  BY <1>1, <1>3 DEF Matched
<1>5. \A i \in DOMAIN d.pairs : InPlace(V, d.pairs[i][2], t.hash[d.pairs[i][1]])
  BY DEF HashDone
<1>6. Holds(c)
  BY <1>1, <1>2, <1>3, <1>4, <1>5, <1>8 DEF Holds, InPlace, OneEach
<1>7. \A q \in Followers(c) : Stands(q)
  BY <1>3, <1>4, <1>5 DEF Followers, InPlace
<1> QED BY <1>6, <1>7, StandsUp DEF c


LEMMA ListWithKeys ==
  ASSUME AtomsApart, NEW V, NEW d, NEW t, IsTable(t), NEW n, n = Len(t.list), ListDone(V, d, t, n),
         ~Raises(d, n), Shown(t) \ {EnvKey} # {},
         NEW both, both, NEW name, NEW x, WellMade(x),
         Exact(V) => Stands(Claim(x, t, "object", FALSE, name))
  PROVE  LET r == Put(d, n, x)
         IN  /\ IsNested(r) /\ IsElement(r) /\ WellMade(r) /\ r.kind = "array"
             /\ Exact(V) => Stands(Claim(r, t, "array", both, name))
<1> DEFINE s == Append(d.items, x)
           r == Array(s)
           c == Claim(r, t, "array", both, name)
<1>1. /\ IsSeq(d.items) /\ d.kind = "array" /\ IsProper(d) /\ n \in Nat /\ DOMAIN t.list = 1..n
      /\ Len(d.items) <= n
  BY TableIs DEF ListDone, IsProper
<1>2. Len(d.items) \in Nat /\ Len(d.items) = n /\ Put(d, n, x) = r
  BY <1>1, PutItem
<1>3. /\ IsSeq(s) /\ DOMAIN s = 1..(n + 1) /\ s[n + 1] = x /\ \A i \in 1..n : s[i] = d.items[i]
  BY <1>1, <1>2, SeqAppend
<1>4. Kept(t) = 1..n
  <2>1. \A i \in 1..n : t.list[i] # Opaque
    BY <1>2 DEF ListDone
  <2> QED BY <1>1, <2>1 DEF Kept
<1>5. \A i \in 1..n : InPlace(V, d.items[i], t.list[i])
  BY <1>2 DEF ListDone
<1>6. c.doc = r /\ c.table = t /\ c.kind = "array" /\ c.both = both /\ c.name = name
  BY DEF Claim
<1>7. DOMAIN s = 1..n \cup {n + 1}
  <2>1. n \in Nat /\ DOMAIN s = 1..(n + 1)
    BY <1>1, <1>3
  <2> HIDE DEF s
  <2> QED BY <2>1
<1>8. Len(t.list) = n
  OBVIOUS
<1> HIDE DEF s
<1>9. /\ IsNested(r) /\ IsElement(r) /\ IsProper(r) /\ r.kind = "array" /\ r.items = s
      /\ PartsOf(r) = {s[i] : i \in DOMAIN s}
  BY <1>3, ArrayIs
<1> HIDE DEF r, c
<1>10. WellMade(r)
  <2>1. \A i \in DOMAIN s : WellMade(s[i])
    BY <1>3, <1>5, <1>7 DEF InPlace
  <2> QED BY <1>9, <2>1, WellMadeUp
<1>11. ASSUME Exact(V) PROVE Stands(c)
  <2>1. KeysBehind(c)
    BY <1>6 DEF KeysBehind
  <2>2. OtherHalves(c) = {Claim(s[i], t, "object", FALSE, name) : i \in {n + 1}}
    BY <1>6, <1>8, <1>9, <2>1 DEF OtherHalves
  <2>3. Matched(c) = {<<s[i], t.list[i]>> : i \in 1..n}
    BY <1>4, <1>6, <1>9 DEF Matched
  <2>4. \A i \in 1..n : InPlace(V, s[i], t.list[i])
    BY <1>3, <1>5
  <2>5. Holds(c)
    BY <1>4, <1>6, <1>7, <1>8, <1>9, <2>1, <2>3, <2>4 DEF Holds, InPlace
  <2>6. \A q \in OtherHalves(c) : q = Claim(x, t, "object", FALSE, name)
    BY <1>3, <2>2, Zenon
  <2>7. \A q \in OtherHalves(c) : Stands(q)
    BY <1>11, <2>6, Zenon
  <2>8. \A q \in Followers(c) : Stands(q)
    BY <1>11, <2>3, <2>4, <2>7 DEF Followers, InPlace
  <2> QED BY <2>5, <2>8, StandsUp
<1> QED BY <1>2, <1>8, <1>9, <1>10, <1>11 DEF r, c

LEMMA HashWithList ==
  ASSUME AtomsApart, NEW V, NEW d, NEW t, IsTable(t), HashDone(V, d, t, DOMAIN t.hash),
         Kept(t) # {}, NEW both, both, NEW name \in Strings \ {Digits}, NEW x, WellMade(x),
         Exact(V) => Stands(Claim(x, t, "array", FALSE, name))
  PROVE  LET r == Put(d, name, x)
         IN  /\ IsNested(r) /\ IsElement(r) /\ WellMade(r) /\ r.kind = "object"
             /\ Exact(V) => Stands(Claim(r, t, "object", both, name))
<1>1. /\ d.kind = "object" /\ IsProper(d) /\ IsSeq(d.pairs) /\ OneEach(d.pairs)
      /\ FirstsOf(d.pairs) = KeysOf(d) /\ KeysOf(d) = Shown(t)
      /\ KeysOf(d) \subseteq Strings \ {Digits}
      /\ \A i \in DOMAIN d.pairs : InPlace(V, d.pairs[i][2], t.hash[d.pairs[i][1]])
  <2>1. IsSeq(d.pairs) /\ OneEach(d.pairs) /\ KeysOf(d) = Shown(t)
    BY HashMade
  <2>2. /\ d.kind = "object" /\ IsProper(d)
        /\ \A i \in DOMAIN d.pairs : InPlace(V, d.pairs[i][2], t.hash[d.pairs[i][1]])
    BY DEF HashDone
  <2>3. KeysOf(d) \subseteq Strings \ {Digits}
    BY <2>2, ProperCounts
  <2> QED BY <2>1, <2>2, <2>3 DEF FirstsOf, KeysOf
<1>2. PICK s, n :
         /\ Put(d, name, x) = Listing(s, n) /\ IsSeq(s) /\ OneEach(s) /\ Counts(s, n)
         /\ FirstsOf(s) = Shown(t) \cup {name}
         /\ name \notin Shown(t) => Len(s) - n = (IF EnvKey \in Shown(t) \cup {name} THEN 1 ELSE 0)
         /\ \A i \in DOMAIN s : \/ s[i] = <<name, x>>
                                \/ i \in DOMAIN d.pairs /\ s[i] = d.pairs[i] /\ s[i][1] # name
  <2>1. CASE name \in KeysOf(d)
    <3> DEFINE s == Replaced(d.pairs, name, x)
    <3>1. PICK n : Put(d, name, x) = Listing(s, n) /\ Counts(s, n)
      BY <1>1, <2>1, PutPair
    <3>2. /\ IsSeq(s) /\ OneEach(s) /\ FirstsOf(s) = FirstsOf(d.pairs) /\ DOMAIN s = DOMAIN d.pairs
          /\ \A i \in DOMAIN s : s[i] = <<name, x>> \/ (s[i] = d.pairs[i] /\ s[i][1] # name)
      BY <1>1, <2>1, PairReplaced
    <3> HIDE DEF s
    <3> QED BY <1>1, <2>1, <3>1, <3>2
  <2>2. CASE name \notin KeysOf(d)
    <3> DEFINE s == Append(d.pairs, <<name, x>>)
    <3>1. PICK n : /\ Put(d, name, x) = Listing(s, n) /\ Counts(s, n)
                   /\ n = (IF name = EnvKey THEN d.count ELSE d.count + 1)
                   /\ Len(d.pairs) \in Nat /\ Len(s) = Len(d.pairs) + 1
      BY <1>1, <2>2, PutPair
    <3>2. /\ IsSeq(s) /\ OneEach(s) /\ FirstsOf(s) = FirstsOf(d.pairs) \cup {name}
          /\ \A i \in DOMAIN s : s[i] = <<name, x>>
                                   \/ (i \in DOMAIN d.pairs /\ s[i] = d.pairs[i] /\ s[i][1] # name)
      BY <1>1, <2>2, PairAppended
    <3> HIDE DEF s
    <3>3. Len(s) - n = (IF EnvKey \in Shown(t) \cup {name} THEN 1 ELSE 0)
      <4>1. EnvKey \in Shown(t) => d.count = Len(d.pairs) - 1
        BY <1>1 DEF HashDone
      <4>2. EnvKey \notin Shown(t) => d.count = Len(d.pairs)
        BY <1>1 DEF IsProper
      <4>3. EnvKey \in Shown(t) => name # EnvKey
        BY <1>1, <2>2
      <4>4. PICK c, l, m : c = d.count /\ l = Len(d.pairs) /\ m = Len(s)
        OBVIOUS
      <4>5. l \in Nat /\ m = l + 1 /\ (name = EnvKey => n = c) /\ (name # EnvKey => n = c + 1)
        BY <3>1, <4>4
      <4>6. CASE EnvKey \in Shown(t)
        <5>1. c = l - 1 /\ n = c + 1
          BY <4>1, <4>3, <4>4, <4>5, <4>6
        <5>2. m - n = 1
          BY <4>5, <5>1
        <5> QED BY <4>4, <4>6, <5>2
      <4>7. CASE EnvKey \notin Shown(t)
        <5>1. c = l
          BY <4>2, <4>4, <4>7
        <5>2. m - n = IF name = EnvKey THEN 1 ELSE 0
          BY <4>5, <5>1
        <5> QED BY <4>4, <4>7, <5>2
      <4> QED BY <4>6, <4>7
    <3> QED BY <1>1, <3>1, <3>2, <3>3
  <2> QED BY <2>1, <2>2
<1> DEFINE r == Listing(s, n)
           c == Claim(r, t, "object", both, name)
<1>3. <<name, x>>[1] = name /\ <<name, x>>[2] = x
  OBVIOUS
<1>4. /\ IsNested(r) /\ IsElement(r) /\ IsProper(r) /\ r.kind = "object" /\ r.pairs = s
      /\ PartsOf(r) = {s[i][2] : i \in DOMAIN s} /\ KeysOf(r) = Shown(t) \cup {name}
  BY <1>1, <1>2, ListingIs
<1>8. /\ Len(r.pairs) - Size(r) \in (IF EnvKey \in KeysOf(r) THEN {0, 1} ELSE {0})
      /\ Size(r) = n
  BY <1>1, <1>2, <1>4, ListingIs, ProperCounts
<1>5. c.doc = r /\ c.table = t /\ c.kind = "object" /\ c.both = both /\ c.name = name
  BY DEF Claim
<1> HIDE DEF r, c
<1>6. WellMade(r)
  <2>1. \A i \in DOMAIN s : WellMade(s[i][2])
    BY <1>1, <1>2, <1>3 DEF InPlace
  <2> QED BY <1>4, <2>1, WellMadeUp
<1>7. ASSUME Exact(V) PROVE Stands(c)
  <2>1. ListUnder(c) /\ ~KeysBehind(c)
    BY <1>5 DEF ListUnder, KeysBehind
  <2>2. \A q \in OtherHalves(c) : q = Claim(x, t, "array", FALSE, name)
    <3>1. \A i \in DOMAIN s : s[i][1] = name => s[i][2] = x
      BY <1>2, <1>3
    <3>2. \A q \in OtherHalves(c) : \E i \in DOMAIN s :
            s[i][1] = name /\ q = Claim(s[i][2], t, "array", FALSE, name)
      BY <1>4, <1>5 DEF OtherHalves
    <3> QED BY <3>1, <3>2, Zenon
  <2>3. \A m \in Matched(c) : \E i \in DOMAIN d.pairs :
          m = <<d.pairs[i][2], t.hash[d.pairs[i][1]]>>
    BY <1>2, <1>3, <1>4, <1>5, <2>1 DEF Matched
  <2>4. \A m \in Matched(c) : InPlace(V, m[1], m[2])
    BY <1>1, <2>3
  <2>8. Len(r.pairs) - Size(r) \in PairsBack(c)
    <3>1. CASE name \in Shown(t)
      BY <1>5, <1>8, <2>1, <3>1 DEF PairsBack
    <3>2. CASE name \notin Shown(t)
      <4>1. Len(r.pairs) - Size(r) = (IF EnvKey \in KeysOf(r) THEN 1 ELSE 0)
        BY <1>2, <1>4, <1>8, <3>2
      <4> QED BY <1>5, <2>1, <3>2, <4>1 DEF PairsBack
    <3> QED BY <3>1, <3>2
  <2>5. Holds(c)
    BY <1>2, <1>4, <1>5, <2>1, <2>4, <2>8 DEF Holds, InPlace, OneEach
  <2>6. \A q \in OtherHalves(c) : Stands(q)
    BY <1>7, <2>2, Zenon
  <2>7. \A q \in Followers(c) : Stands(q)
    BY <1>7, <2>4, <2>6 DEF Followers, InPlace
  <2> QED BY <2>5, <2>7, StandsUp
<1> QED BY <1>2, <1>4, <1>6, <1>7 DEF r, c


-------------------------------------------------------------------------------
(***************************************************************************)
(* The stack.  start: the frame the conversion begins with; V: the tables  *)
(* nested in its table.                                                    *)
(***************************************************************************)
IsFrame(f) ==
  f = [table |-> f.table, doc |-> f.doc, next |-> f.next, left |-> f.left,
       more |-> f.more, name |-> f.name, key |-> f.key, half |-> f.half]

\* What never changes while a frame is on the stack.
Keeps(f, g) ==
  /\ IsFrame(g)
  /\ g.table = f.table /\ g.name = f.name /\ g.key = f.key /\ g.half = f.half
  /\ g.doc.kind = f.doc.kind

\* The i-th frame is that of the outermost table, of a nested one, or of the
\* other half of the table below it.
FrameOK(start, V, i, f) ==
  /\ IsFrame(f)
  /\ f.table \in {start.table} \cup V /\ f.doc.kind \in {"array", "object"}
  /\ f.half \in BOOLEAN /\ f.name \in Strings \cup {NoName}
  /\ i = 1 => f.table = start.table /\ f.doc.kind = start.doc.kind /\ f.name = start.name /\ ~f.half
  /\ i # 1 /\ ~f.half => f.table \in V /\ f.doc.kind = KindOf(f.table) /\ f.name = NoName

\* Is the element to have the other half of the table, too?
Wants(start, i, f) == IF i = 1 THEN start.more ELSE ~f.half /\ HasOtherHalf(f.table)

\* What has been passed of the table is in the element; all of it is.
Filled(V, f) ==
  IF f.doc.kind = "array"
    THEN f.next \in 1..Len(f.table.list) + 1 /\ ListDone(V, f.doc, f.table, f.next - 1)
    ELSE f.left \subseteq DOMAIN f.table.hash /\ HashDone(V, f.doc, f.table, DOMAIN f.table.hash \ f.left)

AllDone(V, f) ==
  IF f.doc.kind = "array"
    THEN f.next = Len(f.table.list) + 1 /\ ListDone(V, f.doc, f.table, Len(f.table.list))
    ELSE f.left = {} /\ HashDone(V, f.doc, f.table, DOMAIN f.table.hash)

\* Frame c is above f: for a nested table, which f passes now, ...
NestedAbove(start, V, i, f, c) ==
  /\ ~c.half /\ f.more = Wants(start, i, f) /\ IsNested(c.table)
  /\ IF f.doc.kind = "array"
       THEN /\ c.key \in 0..Len(f.table.list) - 1 /\ f.next = c.key + 2
            /\ f.table.list[c.key + 1] = c.table /\ ListDone(V, f.doc, f.table, c.key)
       ELSE /\ f.left \subseteq DOMAIN f.table.hash
            /\ c.key \in DOMAIN f.table.hash \ (f.left \cup {Digits})
            /\ f.table.hash[c.key] = c.table
            /\ HashDone(V, f.doc, f.table, DOMAIN f.table.hash \ (f.left \cup {c.key}))

\* ... or for the other half, when f is at its end.
HalfAbove(start, V, i, f, c) ==
  /\ c.half /\ ~f.more /\ Wants(start, i, f)
  /\ c.table = f.table /\ c.name = f.name /\ AllDone(V, f)
  /\ IF f.doc.kind = "array" THEN c.doc.kind = "object" /\ c.key = Len(f.table.list)
                             ELSE c.doc.kind = "array" /\ c.key = f.name

Link(start, V, i, f, c) == NestedAbove(start, V, i, f, c) \/ HalfAbove(start, V, i, f, c)

\* The innermost frame: it is at work, or has got its other half.
AtEndOf(f) ==
  IF f.doc.kind = "array" THEN f.next = Len(f.table.list) + 1 ELSE f.left = {}

MadeOf(start, V, i, f) ==
  /\ IsNested(f.doc) /\ IsElement(f.doc) /\ WellMade(f.doc)
  /\ Exact(V) => Stands(Claim(f.doc, f.table, f.doc.kind, Wants(start, i, f), f.name))

TopOK(start, V, i, f) ==
  \/ Filled(V, f) /\ f.more = Wants(start, i, f)
  \/ Wants(start, i, f) /\ ~f.more /\ AtEndOf(f) /\ MadeOf(start, V, i, f)

\* The frames b below f.
Chain(start, V, b, f) ==
  /\ \A i \in 1..Len(b) :
       /\ FrameOK(start, V, i, b[i])
       /\ Link(start, V, i, b[i], IF i < Len(b) THEN b[i + 1] ELSE f)
  /\ FrameOK(start, V, Len(b) + 1, f)

LEMMA KeepsFrame ==
  ASSUME NEW start, NEW V, NEW i, NEW f, NEW g, FrameOK(start, V, i, f), Keeps(f, g)
  PROVE  FrameOK(start, V, i, g) /\ Wants(start, i, g) = Wants(start, i, f)
         /\ \A j, e : Link(start, V, j, e, f) => Link(start, V, j, e, g)
<1>1. FrameOK(start, V, i, g)
  BY DEF FrameOK, Keeps
<1>2. Wants(start, i, g) = Wants(start, i, f)
  BY Zenon DEF Wants, Keeps
<1>3. \A j, e : NestedAbove(start, V, j, e, f) => NestedAbove(start, V, j, e, g)
  BY Zenon DEF NestedAbove, Keeps
<1>4. \A j, e : HalfAbove(start, V, j, e, f) => HalfAbove(start, V, j, e, g)
  BY Zenon DEF HalfAbove, Keeps
<1> QED BY <1>1, <1>2, <1>3, <1>4, Zenon DEF Link

LEMMA ChainKeeps ==
  ASSUME NEW start, NEW V, NEW b, NEW f, NEW g, Chain(start, V, b, f), Keeps(f, g)
  PROVE  Chain(start, V, b, g)
<1>1. FrameOK(start, V, Len(b) + 1, f)
  BY Zenon DEF Chain
<1>2. FrameOK(start, V, Len(b) + 1, g) /\ \A j, e : Link(start, V, j, e, f) => Link(start, V, j, e, g)
  BY <1>1, KeepsFrame, Zenon
<1>3. ASSUME NEW i \in 1..Len(b)
      PROVE  FrameOK(start, V, i, b[i]) /\ Link(start, V, i, b[i], IF i < Len(b) THEN b[i + 1] ELSE g)
  <2>1. FrameOK(start, V, i, b[i]) /\ Link(start, V, i, b[i], IF i < Len(b) THEN b[i + 1] ELSE f)
    BY <1>3, Zenon DEF Chain
  <2>2. CASE i < Len(b)
    BY <2>1, <2>2, Zenon
  <2>3. CASE ~ (i < Len(b))
    BY <1>2, <2>1, <2>3, Zenon
  <2> QED BY <2>2, <2>3, Zenon
<1> QED BY <1>2, <1>3, Zenon DEF Chain

LEMMA ChainPush ==
  ASSUME NEW start, NEW V, NEW b, IsSeq(b), NEW f, NEW g, NEW c,
         Chain(start, V, b, f), Keeps(f, g),
         Link(start, V, Len(b) + 1, g, c), FrameOK(start, V, Len(b) + 2, c)
  PROVE  Chain(start, V, Append(b, g), c)
<1> DEFINE a == Append(b, g)
           n == Len(b)
<1>1. n \in Nat /\ Len(a) = n + 1 /\ a[n + 1] = g /\ \A i \in 1..n : a[i] = b[i]
  BY SeqAppend
<1>2. Chain(start, V, b, g)
  BY ChainKeeps
<1>3. \A i \in 1..n : /\ FrameOK(start, V, i, b[i])
                      /\ Link(start, V, i, b[i], IF i < n THEN b[i + 1] ELSE g)
  BY <1>2, Zenon DEF Chain
<1>4. FrameOK(start, V, n + 1, g) /\ Link(start, V, n + 1, g, c) /\ FrameOK(start, V, n + 2, c)
  BY <1>2, Zenon DEF Chain
<1> HIDE DEF a, n
<1>5. ASSUME NEW i \in 1..(n + 1)
      PROVE  FrameOK(start, V, i, a[i]) /\ Link(start, V, i, a[i], IF i < n + 1 THEN a[i + 1] ELSE c)
  <2>1. CASE i = n + 1
    <3>1. ~ (n + 1 < n + 1)
      BY <1>1
    <3> QED BY <1>1, <1>4, <2>1, <3>1, Zenon
  <2>2. CASE i # n + 1
    <3>1. i \in 1..n /\ i < n + 1 /\ (i < n => i + 1 \in 1..n) /\ (~ (i < n) => i + 1 = n + 1)
      BY <1>1, <1>5, <2>2
    <3>2. a[i] = b[i] /\ a[i + 1] = IF i < n THEN b[i + 1] ELSE g
      BY <1>1, <3>1
    <3> QED BY <1>3, <3>1, <3>2, Zenon
  <2> QED BY <2>1, <2>2
<1>6. n + 1 + 1 = n + 2
  BY <1>1
<1>7. FrameOK(start, V, n + 1 + 1, c)
  BY <1>4, <1>6, Zenon
<1> QED BY <1>1, <1>5, <1>7, Zenon DEF Chain, a, n

LEMMA ChainPop ==
  ASSUME NEW start, NEW V, NEW b, IsSeq(b), b # << >>, NEW f, Chain(start, V, b, f)
  PROVE  /\ Chain(start, V, Front(b), Last(b)) /\ FrameOK(start, V, Len(b), Last(b))
         /\ Link(start, V, Len(b), Last(b), f)
         /\ Len(b) \in Nat \ {0} /\ Len(Front(b)) + 1 = Len(b)
         /\ FrameOK(start, V, Len(b) + 1, f)
<1> DEFINE a == Front(b)
           n == Len(b)
<1>1. /\ n \in Nat \ {0} /\ Len(a) = n - 1 /\ Last(b) = b[n] /\ \A i \in 1..n - 1 : a[i] = b[i]
  BY SeqSplit
<1>2. \A i \in 1..n : /\ FrameOK(start, V, i, b[i])
                      /\ Link(start, V, i, b[i], IF i < n THEN b[i + 1] ELSE f)
  BY Zenon DEF Chain
<1>3. FrameOK(start, V, n + 1, f)
  BY Zenon DEF Chain
<1> HIDE DEF a, n
<1>4. n \in 1..n /\ ~ (n < n) /\ (n - 1) + 1 = n
  BY <1>1
<1>5. FrameOK(start, V, n, b[n]) /\ Link(start, V, n, b[n], f)
  BY <1>2, <1>4, Zenon
<1>6. ASSUME NEW i \in 1..n - 1
      PROVE  FrameOK(start, V, i, a[i]) /\ Link(start, V, i, a[i], IF i < n - 1 THEN a[i + 1] ELSE b[n])
  <2>1. i \in 1..n /\ i < n /\ (i < n - 1 => i + 1 \in 1..n - 1) /\ (~ (i < n - 1) => i + 1 = n)
    BY <1>1, <1>6
  <2>2. a[i] = b[i] /\ (IF i < n - 1 THEN a[i + 1] ELSE b[n]) = b[i + 1]
    BY <1>1, <2>1
  <2>3. FrameOK(start, V, i, b[i]) /\ Link(start, V, i, b[i], b[i + 1])
    BY <1>2, <2>1, Zenon
  <2> QED BY <2>2, <2>3, Zenon
<1>7. Chain(start, V, a, b[n])
  <2>1. FrameOK(start, V, Len(a) + 1, b[n])
    BY <1>1, <1>4, <1>5, Zenon
  <2>2. \A i \in 1..Len(a) : /\ FrameOK(start, V, i, a[i])
                             /\ Link(start, V, i, a[i], IF i < Len(a) THEN a[i + 1] ELSE b[n])
    BY <1>1, <1>6, Zenon
  <2> QED BY <2>1, <2>2, Zenon DEF Chain
<1> QED BY <1>1, <1>3, <1>4, <1>5, <1>7, Zenon DEF a, n


LEMMA NextSet ==
  ASSUME NEW f, IsFrame(f), NEW x
  PROVE  LET g == [f EXCEPT !.next = x]
         IN  Keeps(f, g) /\ g.next = x /\ g.left = f.left /\ g.more = f.more /\ g.doc = f.doc
<1> DEFINE F(t, d, n, l, m, na, k, h) ==
             [table |-> t, doc |-> d, next |-> n, left |-> l, more |-> m, name |-> na, key |-> k, half |-> h]
<1>1. PICK t, d, n, l, m, na, k, h : f = F(t, d, n, l, m, na, k, h)
  BY Zenon DEF IsFrame
<1>2. [f EXCEPT !.next = x] = F(t, d, x, l, m, na, k, h)
  BY <1>1
<1> QED BY <1>1, <1>2 DEF Keeps, IsFrame

LEMMA LeftSet ==
  ASSUME NEW f, IsFrame(f), NEW x
  PROVE  LET g == [f EXCEPT !.left = x]
         IN  Keeps(f, g) /\ g.left = x /\ g.next = f.next /\ g.more = f.more /\ g.doc = f.doc
<1> DEFINE F(t, d, n, l, m, na, k, h) ==
             [table |-> t, doc |-> d, next |-> n, left |-> l, more |-> m, name |-> na, key |-> k, half |-> h]
<1>1. PICK t, d, n, l, m, na, k, h : f = F(t, d, n, l, m, na, k, h)
  BY Zenon DEF IsFrame
<1>2. [f EXCEPT !.left = x] = F(t, d, n, x, m, na, k, h)
  BY <1>1
<1> QED BY <1>1, <1>2 DEF Keeps, IsFrame

LEMMA MoreSet ==
  ASSUME NEW f, IsFrame(f), NEW x
  PROVE  LET g == [f EXCEPT !.more = x]
         IN  Keeps(f, g) /\ g.more = x /\ g.next = f.next /\ g.left = f.left /\ g.doc = f.doc
<1> DEFINE F(t, d, n, l, m, na, k, h) ==
             [table |-> t, doc |-> d, next |-> n, left |-> l, more |-> m, name |-> na, key |-> k, half |-> h]
<1>1. PICK t, d, n, l, m, na, k, h : f = F(t, d, n, l, m, na, k, h)
  BY Zenon DEF IsFrame
<1>2. [f EXCEPT !.more = x] = F(t, d, n, l, x, na, k, h)
  BY <1>1
<1> QED BY <1>1, <1>2 DEF Keeps, IsFrame

LEMMA DocSet ==
  ASSUME NEW f, IsFrame(f), NEW x, x.kind = f.doc.kind
  PROVE  LET g == [f EXCEPT !.doc = x]
         IN  Keeps(f, g) /\ g.next = f.next /\ g.left = f.left /\ g.more = f.more /\ g.doc = x
<1> DEFINE F(t, d, n, l, m, na, k, h) ==
             [table |-> t, doc |-> d, next |-> n, left |-> l, more |-> m, name |-> na, key |-> k, half |-> h]
<1>1. PICK t, d, n, l, m, na, k, h : f = F(t, d, n, l, m, na, k, h)
  BY Zenon DEF IsFrame
<1>2. [f EXCEPT !.doc = x] = F(t, x, n, l, m, na, k, h)
  BY <1>1
<1> QED BY <1>1, <1>2 DEF Keeps, IsFrame

LEMMA WithIs ==
  ASSUME NEW f, IsFrame(f), NEW k, NEW v
  PROVE  With(f, k, v) = [f EXCEPT !.doc = Put(f.doc, k, v)]
  BY DEF With, IsFrame

LEMMA ActivityIs ==
  ASSUME NEW t, NEW kind \in {"array", "object"}, NEW more, NEW name, NEW key, NEW half
  PROVE  LET c == Activity(t, kind, more, name, key, half)
         IN  /\ IsFrame(c) /\ c.table = t /\ c.doc = EmptyOf(kind) /\ c.doc.kind = kind
             /\ c.next = 1 /\ c.left = DOMAIN t.hash /\ c.more = more /\ c.name = name
             /\ c.key = key /\ c.half = half
<1>1. EmptyOf(kind).kind = kind
  BY DEF EmptyOf, Array, Object, Listing
<1> QED BY <1>1 DEF Activity, IsFrame

\* A frame that has just been entered has all to do.
LEMMA Entered ==
  ASSUME AtomsApart, NEW V, NEW t, IsTable(t), NEW kind \in {"array", "object"},
         NEW more, NEW name, NEW key, NEW half
  PROVE  Filled(V, Activity(t, kind, more, name, key, half))
<1> DEFINE c == Activity(t, kind, more, name, key, half)
<1>1. /\ c.table = t /\ c.doc = EmptyOf(kind) /\ c.doc.kind = kind
      /\ c.next = 1 /\ c.left = DOMAIN t.hash
  <2>1. EmptyOf(kind).kind = kind
    BY DEF EmptyOf, Array, Object, Listing
  <2> QED BY <2>1 DEF Activity
<1> HIDE DEF c
<1>2. CASE kind = "array"
  <2>1. 1 \in 1..Len(t.list) + 1 /\ 1 - 1 = 0
    BY TableIs
  <2>2. ListDone(V, EmptyOf("array"), t, 0)
    BY ListBegins
  <2> QED BY <1>1, <1>2, <2>1, <2>2 DEF Filled, c
<1>3. CASE kind = "object"
  <2>1. DOMAIN t.hash \ DOMAIN t.hash = {}
    OBVIOUS
  <2>2. HashDone(V, EmptyOf("object"), t, {})
    BY HashBegins
  <2> QED BY <1>1, <1>3, <2>1, <2>2, Zenon DEF Filled, c
<1> QED BY <1>2, <1>3

LEMMA PushTwo ==
  ASSUME NEW b, IsSeq(b), NEW g, NEW c
  PROVE  b \o <<g, c>> = Append(Append(b, g), c)
<1> DEFINE S == Range(b) \cup {g, c}
<1>1. b \in Seq(S)
  BY SeqMonotonic DEF IsSeq
<1>2. g \in S /\ c \in S
  OBVIOUS
<1> HIDE DEF S
<1> QED BY <1>1, <1>2


-------------------------------------------------------------------------------
(***************************************************************************)
(* A conversion.                                                           *)
(***************************************************************************)
\* What it begins with.
Ground(start, V) ==
  /\ \A t \in {start.table} \cup V :
       IsNested(t) /\ IsTable(t) /\ \A v \in PartsOf(t) : IsNested(v) => v \in V
  /\ \E kind \in {"array", "object"}, more \in BOOLEAN, name \in Strings \cup {NoName} :
       start = Activity(start.table, kind, more, name, 0, FALSE)

\* What it ends with.
RaisesFor(start, V) == (\E t \in {start.table} \cup V : HasGap(t)) \/ start.name = Digits
CrashesFor(start, V) ==
  \/ \E t \in V : KindOf(t) = "object" /\ IsMixed(t) /\ Kept(t) # {}
  \/ start.more /\ start.name = NoName

Outcome(start, V, d) ==
  /\ d = Raised => RaisesFor(start, V)
  /\ d = Crashed => CrashesFor(start, V)
  /\ IsElement(d) =>
       /\ IsNested(d) /\ WellMade(d)
       /\ Exact(V) => Stands(Claim(d, start.table, start.doc.kind, start.more, start.name))

Converting(start, V) ==
  /\ IsSeq(work)
  /\ work # << >> => /\ made = Nothing
                     /\ Chain(start, V, Front(work), Last(work))
                     /\ TopOK(start, V, Len(work), Last(work))
  /\ Outcome(start, V, made)

LEMMA GroundIs ==
  ASSUME NEW start, NEW V, Ground(start, V)
  PROVE  /\ IsFrame(start) /\ start.doc.kind \in {"array", "object"} /\ start.more \in BOOLEAN
         /\ start.name \in Strings \cup {NoName} /\ ~start.half /\ start.half \in BOOLEAN
         /\ start = Activity(start.table, start.doc.kind, start.more, start.name, 0, FALSE)
<1>1. PICK kind \in {"array", "object"}, more \in BOOLEAN, name \in Strings \cup {NoName} :
        start = Activity(start.table, kind, more, name, 0, FALSE)
  BY DEF Ground
<1> DEFINE t == start.table
<1> HIDE DEF t
<1>2. start = Activity(t, kind, more, name, 0, FALSE)
  BY <1>1 DEF t
<1>3. EmptyOf(kind).kind = kind
  BY DEF EmptyOf, Array, Object, Listing
<1>4. /\ IsFrame(start) /\ start.table = t /\ start.doc.kind = kind /\ start.more = more
      /\ start.name = name /\ ~start.half /\ start.half \in BOOLEAN
  BY <1>2, <1>3 DEF Activity, IsFrame
<1> QED BY <1>1, <1>4

LEMMA AtWork ==
  ASSUME NEW start, NEW V, Ground(start, V), Converting(start, V), Busy
  PROVE  /\ made = Nothing /\ IsSeq(Below) /\ work = Append(Below, Top)
         /\ Len(Below) \in Nat
         /\ Chain(start, V, Below, Top) /\ FrameOK(start, V, Len(Below) + 1, Top)
         /\ TopOK(start, V, Len(Below) + 1, Top)
         /\ IsTable(Top.table) /\ IsNested(Top.table)
         /\ Top.doc.kind \in {"array", "object"} /\ Top.table \in {start.table} \cup V
         /\ \A v \in PartsOf(Top.table) : IsNested(v) => v \in V
<1>1. work # << >> /\ IsSeq(work)
  BY DEF Converting, Busy
<1>2. /\ IsSeq(Below) /\ work = Append(Below, Top) /\ Len(Below) = Len(work) - 1
      /\ Len(work) \in Nat \ {0}
  BY <1>1, SeqSplit DEF Below, Top
<1>3. Len(Below) + 1 = Len(work) /\ Len(Below) \in Nat
  BY <1>2
<1>4. made = Nothing /\ Chain(start, V, Below, Top) /\ TopOK(start, V, Len(Below) + 1, Top)
  BY <1>1, <1>3, Zenon DEF Converting, Below, Top
<1>5. FrameOK(start, V, Len(Below) + 1, Top)
  BY <1>4, Zenon DEF Chain
<1>6. Top.table \in {start.table} \cup V /\ Top.doc.kind \in {"array", "object"}
  BY <1>5, Zenon DEF FrameOK
<1>7. IsTable(Top.table) /\ IsNested(Top.table) /\ \A v \in PartsOf(Top.table) : IsNested(v) => v \in V
  BY <1>6, Zenon DEF Ground
<1> QED BY <1>2, <1>3, <1>4, <1>5, <1>6, <1>7, Zenon

\* The three moves of the stack.
LEMMA WorksOn ==
  ASSUME NEW start, NEW V, NEW b, IsSeq(b), NEW f, Chain(start, V, b, f),
         NEW g, Keeps(f, g), TopOK(start, V, Len(b) + 1, g),
         Outcome(start, V, Nothing), made = Nothing, work' = Append(b, g), UNCHANGED made
  PROVE  Converting(start, V)'
<1>1. /\ IsSeq(work') /\ work' # << >> /\ Front(work') = b /\ Last(work') = g
      /\ Len(work') = Len(b) + 1
  BY SeqAppend
<1>2. Chain(start, V, b, g)
  BY ChainKeeps
<1> QED BY <1>1, <1>2, Zenon DEF Converting

LEMMA WorksAbove ==
  ASSUME NEW start, NEW V, NEW b, IsSeq(b), NEW f, Chain(start, V, b, f),
         NEW g, Keeps(f, g), NEW c, Link(start, V, Len(b) + 1, g, c),
         FrameOK(start, V, Len(b) + 2, c), TopOK(start, V, Len(b) + 2, c),
         Outcome(start, V, Nothing), made = Nothing, work' = b \o <<g, c>>, UNCHANGED made
  PROVE  Converting(start, V)'
<1> DEFINE a == Append(b, g)
<1>1. IsSeq(a) /\ Len(a) = Len(b) + 1 /\ Len(b) \in Nat
  BY SeqAppend
<1>2. work' = Append(a, c)
  BY PushTwo
<1>3. Chain(start, V, a, c)
  BY ChainPush
<1> HIDE DEF a
<1>4. /\ IsSeq(Append(a, c)) /\ Append(a, c) # << >> /\ Front(Append(a, c)) = a
      /\ Last(Append(a, c)) = c /\ Len(Append(a, c)) = Len(a) + 1
  BY <1>1, SeqAppend
<1>5. Len(Append(a, c)) = Len(b) + 2
  BY <1>1, <1>4
<1> QED BY <1>2, <1>3, <1>4, <1>5, Zenon DEF Converting

LEMMA WorkEnds ==
  ASSUME NEW start, NEW V, work' = << >>, Outcome(start, V, made')
  PROVE  Converting(start, V)'
<1>1. IsSeq(<< >>)
  BY DEF IsSeq
<1> QED BY <1>1, Zenon DEF Converting

LEMMA NothingYet == ASSUME NEW start, NEW V PROVE Outcome(start, V, Nothing)
<1>1. Nothing # Raised /\ Nothing # Crashed /\ ~IsElement(Nothing)
  BY ValuesAssumption DEF IsElement, Failures
<1> QED BY <1>1, Zenon DEF Outcome

LEMMA FailureIs ==
  ASSUME NEW start, NEW V
  PROVE  /\ RaisesFor(start, V) => Outcome(start, V, Raised)
         /\ CrashesFor(start, V) => Outcome(start, V, Crashed)
<1>1. Raised # Crashed /\ ~IsElement(Raised) /\ ~IsElement(Crashed)
  BY ValuesAssumption DEF IsElement, Failures
<1> QED BY <1>1, Zenon DEF Outcome

\* A nested table is entered.
LEMMA EntersNested ==
  ASSUME AtomsApart, NEW start, NEW V, Ground(start, V), NEW v \in V, IsNested(v),
         NEW key, NEW n \in Nat
  PROVE  LET c == Nested(v, key)
         IN  /\ FrameOK(start, V, n + 2, c) /\ TopOK(start, V, n + 2, c)
             /\ ~c.half /\ c.table = v /\ c.key = key
<1> DEFINE c == Nested(v, key)
<1>1. KindOf(v) \in {"array", "object"}
  BY DEF KindOf
<1>2. c = Activity(v, KindOf(v), HasOtherHalf(v), NoName, key, FALSE)
  BY DEF Nested
<1>3. /\ IsFrame(c) /\ c.table = v /\ c.doc.kind = KindOf(v) /\ c.more = HasOtherHalf(v)
      /\ c.name = NoName /\ c.key = key /\ c.half = FALSE
  <2>1. EmptyOf(KindOf(v)).kind = KindOf(v)
    BY <1>1 DEF EmptyOf, Array, Object, Listing
  <2>2. \A k, m : LET a == Activity(v, k, m, NoName, key, FALSE)
                 IN  /\ IsFrame(a) /\ a.table = v /\ a.doc = EmptyOf(k) /\ a.more = m
                     /\ a.name = NoName /\ a.key = key /\ a.half = FALSE
    BY DEF Activity, IsFrame
  <2> HIDE DEF c
  <2> QED BY <1>2, <2>1, <2>2, Zenon
<1>4. Filled(V, c)
  BY <1>1, <1>2, Entered DEF Ground
<1> HIDE DEF c
<1>5. n + 2 # 1
  OBVIOUS
<1>6. FrameOK(start, V, n + 2, c)
  BY <1>1, <1>3, <1>5 DEF FrameOK
<1>7. c.more = Wants(start, n + 2, c)
  <2>1. HasOtherHalf(v) \in BOOLEAN
    BY DEF HasOtherHalf
  <2> QED BY <1>3, <1>5, <2>1 DEF Wants
<1>8. TopOK(start, V, n + 2, c)
  BY <1>4, <1>7, Zenon DEF TopOK
<1> QED BY <1>3, <1>6, <1>8 DEF c

LEMMA TableParts ==
  ASSUME NEW t, IsTable(t), IsNested(t)
  PROVE  /\ \A i \in 1..Len(t.list) : t.list[i] \in PartsOf(t)
         /\ \A k \in DOMAIN t.hash : t.hash[k] \in PartsOf(t)
<1>1. t.kind = "table" /\ DOMAIN t.list = 1..Len(t.list)
  BY TableIs DEF IsTable
<1>2. PartsOf(t) = Range(t.list) \cup Range(t.hash)
  BY <1>1 DEF PartsOf
<1> QED BY <1>1, <1>2 DEF Range

LEMMA ScalarInPlace ==
  ASSUME NEW V, NEW v \in Scalars
  PROVE  InPlace(V, v, v)
<1>1. ~IsNested(v)
  BY DEF IsNested
<1> QED BY <1>1, ScalarsWellMade DEF InPlace

\* A store fails only if the table has a gap.
LEMMA GapFound ==
  ASSUME AtomsApart, NEW V, NEW d, NEW t, IsTable(t), NEW n \in 0..Len(t.list),
         ListDone(V, d, t, n), Raises(d, n),
         (n < Len(t.list) /\ t.list[n + 1] # Opaque) \/ Shown(t) \ {EnvKey} # {}
  PROVE  HasGap(t)
<1>1. Len(t.list) \in Nat /\ DOMAIN t.list = 1..Len(t.list)
  BY TableIs
<1>2. d.kind = "array" /\ IsProper(d)
  BY DEF ListDone
<1>3. Len(d.items) \in Nat /\ n > Len(d.items)
  <2>1. IsSeq(d.items)
    BY <1>2 DEF IsProper
  <2> QED BY <1>2, <2>1, SeqAppend DEF Raises
<1>4. n \in (Len(d.items) + 1)..n /\ n \in 1..Len(t.list)
  BY <1>1, <1>3
<1>5. t.list[n] = Opaque
  BY <1>4 DEF ListDone
<1>6. n < Len(t.list) => n + 1 \in 1..Len(t.list) /\ n + 1 > n
  BY <1>1
<1> QED BY <1>1, <1>4, <1>5, <1>6 DEF HasGap

\* The innermost frame goes on after a round.
LEMMA StillAtWork ==
  ASSUME NEW start, NEW V, NEW i, NEW f, NEW g, FrameOK(start, V, i, f), Keeps(f, g),
         f.more = Wants(start, i, f), g.more = f.more, Filled(V, g)
  PROVE  TopOK(start, V, i, g)
<1>1. Wants(start, i, g) = Wants(start, i, f)
  BY Zenon DEF Wants, Keeps
<1> QED BY <1>1, Zenon DEF TopOK

LEMMA ListItemConverts ==
  ASSUME AtomsApart, NEW start, NEW V, Ground(start, V), Converting(start, V), ListItem
  PROVE  Converting(start, V)'
<1>0. Busy /\ Top.doc.kind = "array" /\ Top.next <= Len(Top.table.list)
  BY DEF ListItem, InList
<1>1. PICK top, b : top = Top /\ b = Below
  OBVIOUS
<1>2. /\ made = Nothing /\ IsSeq(b) /\ Len(b) \in Nat
      /\ Chain(start, V, b, top) /\ FrameOK(start, V, Len(b) + 1, top)
      /\ TopOK(start, V, Len(b) + 1, top)
      /\ IsTable(top.table) /\ IsNested(top.table) /\ top.table \in {start.table} \cup V
      /\ \A v \in PartsOf(top.table) : IsNested(v) => v \in V
  BY <1>0, <1>1, AtWork
<1> DEFINE t == top.table
           n == top.next - 1
           v == t.list[n + 1]
           i == Len(b) + 1
           f == [top EXCEPT !.next = top.next + 1]
<1>3. top.doc.kind = "array" /\ top.next <= Len(t.list) /\ Len(t.list) \in Nat
  BY <1>0, <1>1, <1>2, TableIs
<1>4. Filled(V, top) /\ top.more = Wants(start, i, top)
  <2>1. AtEndOf(top) => FALSE
    BY <1>3 DEF AtEndOf
  <2> QED BY <1>2, <2>1, Zenon DEF TopOK
<1>5. /\ n \in 0..Len(t.list) - 1 /\ n + 1 = top.next /\ n \in 0..Len(t.list)
      /\ n + 2 \in 1..Len(t.list) + 1 /\ (n + 2) - 1 = n + 1 /\ n < Len(t.list)
      /\ top.next + 1 = n + 2 /\ n + 1 \in 1..Len(t.list)
      /\ ListDone(V, top.doc, t, n)
  <2>1. top.next \in 1..Len(t.list) + 1 /\ ListDone(V, top.doc, t, n)
    BY <1>3, <1>4 DEF Filled
  <2> QED BY <1>3, <2>1
<1>6. /\ Keeps(top, f) /\ f.next = n + 2 /\ f.left = top.left /\ f.more = top.more
      /\ f.doc = top.doc /\ f.table = t /\ IsFrame(f) /\ IsFrame(top)
  <2>1. IsFrame(top)
    BY <1>2 DEF FrameOK
  <2>2. /\ Keeps(top, f) /\ f.next = top.next + 1 /\ f.left = top.left /\ f.more = top.more
        /\ f.doc = top.doc
    BY <2>1, NextSet
  <2> HIDE DEF f
  <2> QED BY <1>5, <2>1, <2>2 DEF Keeps
<1>7. v \in PartsOf(t)
  BY <1>2, <1>5, TableParts
<1>8. \/ v = Opaque /\ SetTop(f)
      \/ IsNested(v) /\ work' = b \o <<f, Nested(v, n)>> /\ UNCHANGED made
      \/ v \in Scalars /\ ~Raises(f.doc, n) /\ SetTop(With(f, n, v))
      \/ v \in Scalars /\ Raises(f.doc, n) /\ Finish(Raised)
  <2>1. /\ v = Top.table.list[Top.next] /\ n = Top.next - 1 /\ b = Below
        /\ f = [Top EXCEPT !.next = @ + 1]
    BY <1>1, <1>5
  <2> HIDE DEF v, n, f
  <2> QED BY <2>1, Zenon DEF ListItem
<1> HIDE DEF f, v, n, t
<1>9. Outcome(start, V, Nothing)
  BY NothingYet
<1>10. CASE v = Opaque /\ SetTop(f)
  <2>1. ListDone(V, top.doc, t, n + 1)
    BY <1>2, <1>5, <1>10, ListPass DEF v, t
  <2>2. Filled(V, f)
    BY <1>3, <1>5, <1>6, <2>1 DEF Filled
  <2>3. TopOK(start, V, i, f)
    BY <1>2, <1>4, <1>6, <2>2, StillAtWork
  <2> QED BY <1>1, <1>2, <1>6, <1>9, <1>10, <2>3, WorksOn DEF SetTop
<1>11. CASE IsNested(v) /\ work' = b \o <<f, Nested(v, n)>> /\ UNCHANGED made
  <2> DEFINE c == Nested(v, n)
  <2>1. v \in V
    BY <1>2, <1>7, <1>11 DEF t
  <2>2. /\ FrameOK(start, V, Len(b) + 2, c) /\ TopOK(start, V, Len(b) + 2, c)
        /\ ~c.half /\ c.table = v /\ c.key = n
    BY <1>2, <1>11, <2>1, EntersNested
  <2> HIDE DEF c
  <2>3. f.more = Wants(start, i, f)
    <3>1. Wants(start, i, f) = Wants(start, i, top)
      BY <1>6, Zenon DEF Wants, Keeps
    <3> QED BY <1>4, <1>6, <3>1
  <2>4. NestedAbove(start, V, i, f, c)
    BY <1>3, <1>5, <1>6, <1>11, <2>2, <2>3 DEF NestedAbove, v
  <2>5. Link(start, V, i, f, c)
    BY <2>4, Zenon DEF Link
  <2>6. work' = b \o <<f, c>>
    BY <1>11 DEF c
  <2> QED BY <1>2, <1>6, <1>9, <1>11, <2>2, <2>5, <2>6, WorksAbove
<1>12. CASE v \in Scalars /\ ~Raises(f.doc, n) /\ SetTop(With(f, n, v))
  <2> DEFINE g == [f EXCEPT !.doc = Put(f.doc, n, v)]
  <2>1. With(f, n, v) = g
    BY <1>6, WithIs
  <2>2. v # Opaque
    BY <1>12, ValuesAssumption
  <2>3. ListDone(V, Put(top.doc, n, v), t, n + 1)
    BY <1>2, <1>5, <1>6, <1>12, <2>2, ScalarInPlace, ListPut DEF v, t
  <2>4. Put(top.doc, n, v).kind = f.doc.kind
    BY <1>3, <1>6, <2>3 DEF ListDone
  <2>5. Keeps(f, g) /\ g.next = f.next /\ g.left = f.left /\ g.more = f.more /\ g.doc = Put(top.doc, n, v)
    <3>1. f.doc = top.doc
      BY <1>6
    <3> QED BY <1>6, <2>4, <3>1, DocSet
  <2> HIDE DEF g
  <2>6. Keeps(top, g) /\ g.table = t /\ g.next = n + 2 /\ g.more = top.more /\ g.doc.kind = "array"
    BY <1>3, <1>6, <2>5 DEF Keeps, t
  <2>7. Filled(V, g)
    BY <1>5, <2>3, <2>5, <2>6 DEF Filled
  <2>8. TopOK(start, V, i, g)
    BY <1>2, <1>4, <2>6, <2>7, StillAtWork
  <2>9. work' = Append(b, g) /\ UNCHANGED made
    BY <1>1, <1>12, <2>1 DEF SetTop
  <2> QED BY <1>2, <1>9, <2>6, <2>8, <2>9, WorksOn
<1>13. CASE v \in Scalars /\ Raises(f.doc, n) /\ Finish(Raised)
  <2>1. v # Opaque
    BY <1>13, ValuesAssumption
  <2>2. HasGap(t)
    BY <1>2, <1>5, <1>6, <1>13, <2>1, GapFound DEF v, t
  <2>3. RaisesFor(start, V)
    BY <1>2, <2>2, Zenon DEF RaisesFor, t
  <2>4. work' = << >> /\ made' = Raised
    BY <1>13 DEF Finish
  <2> QED BY <2>3, <2>4, FailureIs, WorkEnds
<1> QED BY <1>8, <1>10, <1>11, <1>12, <1>13

LEMMA HashItemConverts ==
  ASSUME AtomsApart, NEW start, NEW V, Ground(start, V), Converting(start, V), HashItem
  PROVE  Converting(start, V)'
<1>0. Busy /\ Top.doc.kind = "object" /\ Top.left # {}
  BY DEF HashItem, InHash
<1>1. PICK top, b : top = Top /\ b = Below
  OBVIOUS
<1>2. /\ made = Nothing /\ IsSeq(b) /\ Len(b) \in Nat
      /\ Chain(start, V, b, top) /\ FrameOK(start, V, Len(b) + 1, top)
      /\ TopOK(start, V, Len(b) + 1, top)
      /\ IsTable(top.table) /\ IsNested(top.table) /\ top.table \in {start.table} \cup V
      /\ \A v \in PartsOf(top.table) : IsNested(v) => v \in V
  BY <1>0, <1>1, AtWork
<1> DEFINE t == top.table
           i == Len(b) + 1
<1>3. PICK k \in top.left :
        LET v == t.hash[k]
            f == [top EXCEPT !.left = top.left \ {k}]
        IN  \/ (k = Digits \/ v = Opaque) /\ SetTop(f)
            \/ k # Digits /\ IsNested(v) /\ work' = b \o <<f, Nested(v, k)>> /\ UNCHANGED made
            \/ k # Digits /\ v \in Scalars /\ SetTop(With(f, k, v))
  BY <1>1, Zenon DEF HashItem
<1> DEFINE v == t.hash[k]
           f == [top EXCEPT !.left = top.left \ {k}]
           all == DOMAIN t.hash
           K == all \ top.left
<1>4. Filled(V, top) /\ top.more = Wants(start, i, top) /\ top.doc.kind = "object" /\ top.doc.kind # "array"
  <2>1. top.left # {} /\ top.doc.kind = "object"
    BY <1>0, <1>1
  <2>2. AtEndOf(top) => FALSE
    BY <2>1 DEF AtEndOf
  <2> QED BY <1>2, <2>1, <2>2, Zenon DEF TopOK
<1>5. /\ top.left \subseteq all /\ HashDone(V, top.doc, t, K) /\ k \in all /\ k \notin K
      /\ all \ (top.left \ {k}) = K \cup {k} /\ top.left \ {k} \subseteq all
      /\ all \ ((top.left \ {k}) \cup {k}) = K
  <2>1. top.left \subseteq all /\ HashDone(V, top.doc, t, K)
    BY <1>4, Zenon DEF Filled
  <2> HIDE DEF all
  <2> QED BY <1>3, <2>1
<1>6. /\ Keeps(top, f) /\ f.next = top.next /\ f.left = top.left \ {k} /\ f.more = top.more
      /\ f.doc = top.doc /\ f.table = t /\ IsFrame(f) /\ IsFrame(top)
  <2>1. IsFrame(top)
    BY <1>2 DEF FrameOK
  <2>2. /\ Keeps(top, f) /\ f.next = top.next /\ f.left = top.left \ {k} /\ f.more = top.more
        /\ f.doc = top.doc
    BY <2>1, LeftSet
  <2> HIDE DEF f
  <2> QED BY <2>1, <2>2 DEF Keeps
<1>7. v \in PartsOf(t)
  BY <1>2, <1>5, TableParts
<1>8. \/ (k = Digits \/ v = Opaque) /\ SetTop(f)
      \/ k # Digits /\ IsNested(v) /\ work' = b \o <<f, Nested(v, k)>> /\ UNCHANGED made
      \/ k # Digits /\ v \in Scalars /\ SetTop(With(f, k, v))
  BY <1>3, Zenon
<1> HIDE DEF f, v, t, all, K
<1>9. Outcome(start, V, Nothing)
  BY NothingYet
<1>10. CASE (k = Digits \/ v = Opaque) /\ SetTop(f)
  <2>1. HashDone(V, top.doc, t, K \cup {k})
    BY <1>5, <1>10, HashPass DEF v, all
  <2>2. Filled(V, f)
    BY <1>4, <1>5, <1>6, <2>1, Zenon DEF Filled, all
  <2>3. TopOK(start, V, i, f)
    BY <1>2, <1>4, <1>6, <2>2, StillAtWork
  <2> QED BY <1>1, <1>2, <1>6, <1>9, <1>10, <2>3, WorksOn DEF SetTop
<1>11. CASE k # Digits /\ IsNested(v) /\ work' = b \o <<f, Nested(v, k)>> /\ UNCHANGED made
  <2> DEFINE c == Nested(v, k)
  <2>1. v \in V
    BY <1>2, <1>7, <1>11 DEF t
  <2>2. /\ FrameOK(start, V, Len(b) + 2, c) /\ TopOK(start, V, Len(b) + 2, c)
        /\ ~c.half /\ c.table = v /\ c.key = k
    BY <1>2, <1>11, <2>1, EntersNested
  <2> HIDE DEF c
  <2>3. f.more = Wants(start, i, f)
    <3>1. Wants(start, i, f) = Wants(start, i, top)
      BY <1>6, Zenon DEF Wants, Keeps
    <3> QED BY <1>4, <1>6, <3>1
  <2>4. NestedAbove(start, V, i, f, c)
    <3>1. k \in all \ (f.left \cup {Digits})
      BY <1>5, <1>6, <1>11
    <3>2. HashDone(V, f.doc, t, all \ (f.left \cup {k}))
      BY <1>5, <1>6, Zenon
    <3>3. f.doc.kind # "array" /\ f.left \subseteq all
      BY <1>4, <1>5, <1>6
    <3> QED BY <1>6, <1>11, <2>2, <2>3, <3>1, <3>2, <3>3, Zenon DEF NestedAbove, v, all
  <2>5. Link(start, V, i, f, c)
    BY <2>4, Zenon DEF Link
  <2>6. work' = b \o <<f, c>>
    BY <1>11 DEF c
  <2> QED BY <1>2, <1>6, <1>9, <1>11, <2>2, <2>5, <2>6, WorksAbove
<1>12. CASE k # Digits /\ v \in Scalars /\ SetTop(With(f, k, v))
  <2> DEFINE g == [f EXCEPT !.doc = Put(f.doc, k, v)]
  <2>1. With(f, k, v) = g
    BY <1>6, WithIs
  <2>2. v # Opaque
    BY <1>12, ValuesAssumption
  <2>3. HashDone(V, Put(top.doc, k, v), t, K \cup {k})
    <3>1. InPlace(V, v, t.hash[k])
      BY <1>12, ScalarInPlace DEF v
    <3> QED BY <1>2, <1>5, <1>12, <2>2, <3>1, HashPut DEF v, t, all
  <2>4. Put(top.doc, k, v).kind = f.doc.kind
    BY <1>4, <1>6, <2>3 DEF HashDone
  <2>5. Keeps(f, g) /\ g.next = f.next /\ g.left = f.left /\ g.more = f.more /\ g.doc = Put(top.doc, k, v)
    <3>1. f.doc = top.doc
      BY <1>6
    <3> QED BY <1>6, <2>4, <3>1, DocSet
  <2> HIDE DEF g
  <2>6. /\ Keeps(top, g) /\ g.table = t /\ g.left = top.left \ {k} /\ g.more = top.more
        /\ g.doc.kind # "array"
    BY <1>4, <1>6, <2>5 DEF Keeps, t
  <2>7. Filled(V, g)
    BY <1>5, <2>3, <2>5, <2>6, Zenon DEF Filled, all
  <2>8. TopOK(start, V, i, g)
    BY <1>2, <1>4, <2>6, <2>7, StillAtWork
  <2>9. work' = Append(b, g) /\ UNCHANGED made
    BY <1>1, <1>12, <2>1 DEF SetTop
  <2> QED BY <1>2, <1>9, <2>6, <2>8, <2>9, WorksOn
<1> QED BY <1>8, <1>10, <1>11, <1>12

LEMMA EndIs ==
  ASSUME NEW V, NEW f, f.doc.kind \in {"array", "object"}, IsTable(f.table), Filled(V, f),
         f.doc.kind = "array" => ~ (f.next <= Len(f.table.list)),
         f.doc.kind = "object" => f.left = {}
  PROVE  AllDone(V, f) /\ AtEndOf(f)
<1>1. CASE f.doc.kind = "array"
  <2>1. Len(f.table.list) \in Nat
    BY TableIs
  <2>2. f.next \in 1..Len(f.table.list) + 1 /\ ListDone(V, f.doc, f.table, f.next - 1)
    BY <1>1 DEF Filled
  <2>3. f.next = Len(f.table.list) + 1 /\ f.next - 1 = Len(f.table.list)
    BY <1>1, <2>1, <2>2
  <2> QED BY <1>1, <2>2, <2>3 DEF AllDone, AtEndOf
<1>2. CASE f.doc.kind = "object"
  <2>1. HashDone(V, f.doc, f.table, DOMAIN f.table.hash \ f.left) /\ f.left = {}
        /\ f.doc.kind # "array"
    BY <1>2, Zenon DEF Filled
  <2>2. DOMAIN f.table.hash \ {} = DOMAIN f.table.hash
    OBVIOUS
  <2>3. HashDone(V, f.doc, f.table, DOMAIN f.table.hash)
    BY <2>1, <2>2, Zenon
  <2> QED BY <2>1, <2>3, Zenon DEF AllDone, AtEndOf
<1> QED BY <1>1, <1>2

LEMMA OtherHalfConverts ==
  ASSUME AtomsApart, NEW start, NEW V, Ground(start, V), Converting(start, V), OtherHalf
  PROVE  Converting(start, V)'
<1>0. Busy /\ ~InList /\ ~InHash /\ Top.more
  BY DEF OtherHalf, AtEnd
<1>1. PICK top, b : top = Top /\ b = Below
  OBVIOUS
<1>2. /\ made = Nothing /\ IsSeq(b) /\ Len(b) \in Nat
      /\ Chain(start, V, b, top) /\ FrameOK(start, V, Len(b) + 1, top)
      /\ TopOK(start, V, Len(b) + 1, top)
      /\ IsTable(top.table) /\ IsNested(top.table) /\ top.table \in {start.table} \cup V
      /\ top.doc.kind \in {"array", "object"}
  BY <1>0, <1>1, AtWork
<1>half. PICK no, yes : no = FALSE /\ yes = TRUE
  OBVIOUS
<1> DEFINE t == top.table
           i == Len(b) + 1
           kind == IF top.doc.kind = "array" THEN "object" ELSE "array"
           key == IF top.doc.kind = "array" THEN Len(t.list) ELSE top.name
           f == [top EXCEPT !.more = no]
           c == Activity(t, kind, no, top.name, key, yes)
<1>3. Filled(V, top) /\ top.more /\ Wants(start, i, top)
  BY <1>0, <1>1, <1>2, Zenon DEF TopOK
<1>4. AllDone(V, top)
  BY <1>0, <1>1, <1>2, <1>3, EndIs DEF InList, InHash
<1>5. IsFrame(top) /\ top.name \in Strings \cup {NoName}
  BY <1>2 DEF FrameOK
<1>6. /\ Keeps(top, f) /\ f.next = top.next /\ f.left = top.left /\ f.more = no
      /\ f.doc = top.doc /\ f.table = t /\ f.name = top.name
  <2>1. /\ Keeps(top, f) /\ f.next = top.next /\ f.left = top.left /\ f.more = no
        /\ f.doc = top.doc
    BY <1>5, MoreSet
  <2> HIDE DEF f
  <2> QED BY <2>1 DEF Keeps
<1>7. work' = b \o <<f, c>> /\ UNCHANGED made
  <2>1. f = [Top EXCEPT !.more = FALSE] /\ b = Below
    BY <1>1, <1>half, Zenon
  <2> HIDE DEF f
  <2>2. UNCHANGED made /\ work' = b \o <<f, IF f.doc.kind = "array"
                 THEN Activity(f.table, "object", FALSE, f.name, Len(f.table.list), TRUE)
                 ELSE Activity(f.table, "array", FALSE, f.name, f.name, TRUE)>>
    <3> DEFINE Pushed(s, g) == work' = s \o <<g, IF g.doc.kind = "array"
                 THEN Activity(g.table, "object", FALSE, g.name, Len(g.table.list), TRUE)
                 ELSE Activity(g.table, "array", FALSE, g.name, g.name, TRUE)>>
    <3>1. UNCHANGED made /\ Pushed(Below, [Top EXCEPT !.more = FALSE])
      BY DEF OtherHalf
    <3> HIDE DEF Pushed
    <3>2. Pushed(b, f)
      BY <2>1, <3>1
    <3> QED BY <3>1, <3>2 DEF Pushed
  <2>3. CASE top.doc.kind = "array"
    <3>1. work' = b \o <<f, Activity(t, "object", FALSE, top.name, Len(t.list), TRUE)>>
      BY <1>6, <2>2, <2>3, Zenon
    <3> QED BY <1>half, <2>2, <2>3, <3>1, Zenon
  <2>4. CASE top.doc.kind # "array"
    <3>1. work' = b \o <<f, Activity(t, "array", FALSE, top.name, top.name, TRUE)>>
      BY <1>6, <2>2, <2>4, Zenon
    <3> QED BY <1>half, <2>2, <2>4, <3>1, Zenon
  <2> QED BY <2>3, <2>4
<1>8. kind \in {"array", "object"}
  OBVIOUS
<1>9. /\ IsFrame(c) /\ c.table = t /\ c.doc.kind = kind /\ c.more = no /\ c.name = top.name
      /\ c.key = key /\ c.half = yes
  <2> HIDE DEF kind, key
  <2>1. EmptyOf(kind).kind = kind
    BY <1>8 DEF EmptyOf, Array, Object, Listing
  <2> QED BY <2>1 DEF Activity, IsFrame
<1>10. Filled(V, c)
  <2> HIDE DEF kind, key
  <2> QED BY <1>2, <1>8, Entered
<1> HIDE DEF c, f
<1>11. i + 1 = Len(b) + 2 /\ Len(b) + 2 # 1
  BY <1>2
<1>12. FrameOK(start, V, Len(b) + 2, c)
  BY <1>half, <1>2, <1>5, <1>8, <1>9, <1>11 DEF FrameOK
<1>13. TopOK(start, V, Len(b) + 2, c)
  <2>1. ~Wants(start, Len(b) + 2, c)
    BY <1>half, <1>9, <1>11, Zenon DEF Wants
  <2>2. Wants(start, Len(b) + 2, c) = FALSE
    <3>1. Wants(start, Len(b) + 2, c) \in BOOLEAN
      BY <1>11 DEF Wants
    <3> QED BY <2>1, <3>1
  <2> QED BY <1>half, <1>9, <1>10, <2>2, Zenon DEF TopOK
<1>14. HalfAbove(start, V, i, f, c)
  <2>1. Wants(start, i, f)
    BY <1>3, <1>6, Zenon DEF Wants, Keeps
  <2>2. AllDone(V, f)
    BY <1>4, <1>6, Zenon DEF AllDone
  <2>3. ~f.more /\ c.half /\ c.table = f.table /\ c.name = f.name
    BY <1>half, <1>6, <1>9
  <2>4. CASE top.doc.kind = "array"
    BY <1>6, <1>9, <2>1, <2>2, <2>3, <2>4, Zenon DEF HalfAbove
  <2>5. CASE top.doc.kind # "array"
    BY <1>6, <1>9, <2>1, <2>2, <2>3, <2>5, Zenon DEF HalfAbove
  <2> QED BY <2>4, <2>5
<1>15. Link(start, V, i, f, c)
  BY <1>14, Zenon DEF Link
<1> QED BY <1>2, <1>6, <1>7, <1>12, <1>13, <1>15, NothingYet, WorksAbove

\* What a frame has made when it is left.
LEMMA TopResult ==
  ASSUME AtomsApart, NEW start, NEW V, NEW i, NEW f, FrameOK(start, V, i, f), IsTable(f.table),
         TopOK(start, V, i, f), ~f.more,
         f.doc.kind = "array" => ~ (f.next <= Len(f.table.list)),
         f.doc.kind = "object" => f.left = {}
  PROVE  MadeOf(start, V, i, f) /\ (~Wants(start, i, f) => AllDone(V, f))
<1>1. ASSUME Filled(V, f), f.more = Wants(start, i, f)
      PROVE  MadeOf(start, V, i, f) /\ (~Wants(start, i, f) => AllDone(V, f))
  <2>1. f.doc.kind \in {"array", "object"}
    BY DEF FrameOK
  <2>2. AllDone(V, f)
    BY <1>1, <2>1, EndIs
  <2>3. PICK w : w = Wants(start, i, f)
    OBVIOUS
  <2>4. ~w
    BY <1>1, <2>3
  <2>5. CASE f.doc.kind = "array"
    <3>1. ListDone(V, f.doc, f.table, Len(f.table.list))
      BY <2>2, <2>5 DEF AllDone
    <3>2. IsNested(f.doc) /\ IsElement(f.doc) /\ WellMade(f.doc)
      BY <3>1, ListMade
    <3>3. Exact(V) => Stands(Claim(f.doc, f.table, "array", w, f.name))
      BY <2>4, <3>1, ListAlone
    <3> QED BY <2>2, <2>3, <2>5, <3>2, <3>3, Zenon DEF MadeOf
  <2>6. CASE f.doc.kind = "object"
    <3>1. HashDone(V, f.doc, f.table, DOMAIN f.table.hash)
      BY <2>2, <2>6, Zenon DEF AllDone
    <3>2. IsNested(f.doc) /\ IsElement(f.doc) /\ WellMade(f.doc)
      BY <3>1, HashMade
    <3>3. Exact(V) => Stands(Claim(f.doc, f.table, "object", w, f.name))
      BY <2>4, <3>1, HashAlone
    <3> QED BY <2>2, <2>3, <2>6, <3>2, <3>3, Zenon DEF MadeOf
  <2> QED BY <2>1, <2>5, <2>6
<1>2. ASSUME Wants(start, i, f), MadeOf(start, V, i, f)
      PROVE  MadeOf(start, V, i, f) /\ (~Wants(start, i, f) => AllDone(V, f))
  BY <1>2
<1> QED BY <1>1, <1>2, Zenon DEF TopOK

\* Of a half that is done, the parts tell whether there was anything to find.
LEMMA HalfSize ==
  ASSUME AtomsApart, NEW V, NEW f, IsTable(f.table), f.doc.kind \in {"array", "object"}, AllDone(V, f)
  PROVE  /\ f.doc.kind = "array" => (Size(f.doc) = 0 <=> Kept(f.table) = {})
         /\ f.doc.kind = "object" => (Size(f.doc) = 0 <=> Shown(f.table) \ {EnvKey} = {})
<1>1. CASE f.doc.kind = "array"
  <2>1. ListDone(V, f.doc, f.table, Len(f.table.list))
    BY <1>1 DEF AllDone
  <2>2. IsSeq(f.doc.items) /\ DOMAIN f.doc.items = Kept(f.table)
    BY <2>1, ListMade
  <2>3. Len(f.doc.items) \in Nat /\ DOMAIN f.doc.items = 1..Len(f.doc.items)
    BY <2>2, SeqAppend
  <2>4. Len(f.doc.items) = 0 <=> DOMAIN f.doc.items = {}
    <3>1. Len(f.doc.items) # 0 => 1 \in DOMAIN f.doc.items
      BY <2>3
    <3> QED BY <2>3, <3>1
  <2> QED BY <1>1, <2>2, <2>4 DEF Size
<1>2. CASE f.doc.kind = "object"
  <2>1. HashDone(V, f.doc, f.table, DOMAIN f.table.hash) /\ f.doc.kind # "array"
    BY <1>2, Zenon DEF AllDone
  <2>2. OneEach(f.doc.pairs) /\ KeysOf(f.doc) = Shown(f.table)
    BY <2>1, HashMade
  <2>3. /\ Len(f.doc.pairs) \in Nat /\ DOMAIN f.doc.pairs = 1..Len(f.doc.pairs)
        /\ EnvKey \in KeysOf(f.doc) => Size(f.doc) = Len(f.doc.pairs) - 1
        /\ EnvKey \notin KeysOf(f.doc) => Size(f.doc) = Len(f.doc.pairs)
    <3>1. /\ f.doc.kind = "object" /\ IsProper(f.doc)
          /\ EnvKey \in KeysOf(f.doc) => f.doc.count = Len(f.doc.pairs) - 1
      BY <2>1, Zenon DEF HashDone
    <3>2. EnvKey \notin KeysOf(f.doc) => f.doc.count = Len(f.doc.pairs)
      BY <3>1 DEF IsProper
    <3> QED BY <3>1, <3>2, ProperCounts
  <2> DEFINE s == f.doc.pairs
             n == Len(s)
             K == KeysOf(f.doc)
  <2>4. K = {s[i][1] : i \in 1..n}
    BY <2>3 DEF KeysOf
  <2>5. n = 0 => K = {}
    <3>1. n = 0 => 1..n = {}
      BY <2>3
    <3> QED BY <2>4, <3>1
  <2>6. n # 0 => s[1][1] \in K /\ s[n][1] \in K /\ 1 \in DOMAIN s /\ n \in DOMAIN s
    <3>1. n # 0 => 1 \in 1..n /\ n \in 1..n
      BY <2>3
    <3> QED BY <2>3, <2>4, <3>1
  <2>7. n = 1 => K = {s[1][1]}
    <3>1. n = 1 => 1..n = {1}
      BY <2>3
    <3> QED BY <2>4, <3>1
  <2>8. n # 0 /\ s[1][1] = s[n][1] => n = 1
    BY <2>2, <2>6 DEF OneEach
  <2> HIDE DEF s, n, K
  <2>9. CASE EnvKey \in K
    <3>1. n # 0
      BY <2>5, <2>9
    <3>2. n = 1 <=> K \ {EnvKey} = {}
      BY <2>6, <2>7, <2>8, <2>9, <3>1
    <3>3. n \in Nat /\ Size(f.doc) = n - 1
      BY <2>3, <2>9 DEF s, n, K
    <3>4. Size(f.doc) = 0 <=> n = 1
      BY <3>3
    <3> QED BY <2>1, <2>2, <3>2, <3>4 DEF K
  <2>10. CASE EnvKey \notin K
    <3>1. n = 0 <=> K \ {EnvKey} = {}
      BY <2>5, <2>6, <2>10
    <3>2. Size(f.doc) = n
      BY <2>3, <2>10 DEF s, n, K
    <3> QED BY <2>1, <2>2, <3>1, <3>2 DEF K
  <2> QED BY <2>9, <2>10
<1> QED BY <1>1, <1>2

\* A nested element is stored in its place.
LEMMA StoresNested ==
  ASSUME AtomsApart, NEW start, NEW V, NEW i \in Nat \ {0}, NEW p, NEW c,
         FrameOK(start, V, i, p), IsTable(p.table), FrameOK(start, V, i + 1, c),
         NestedAbove(start, V, i, p, c), MadeOf(start, V, i + 1, c), ~Raises(p.doc, c.key)
  PROVE  LET g == [p EXCEPT !.doc = Put(p.doc, c.key, c.doc)]
         IN  Keeps(p, g) /\ TopOK(start, V, i, g)
<1> DEFINE t == p.table
           k == c.key
           d == Put(p.doc, k, c.doc)
           g == [p EXCEPT !.doc = d]
<1>1. /\ ~c.half /\ p.more = Wants(start, i, p) /\ IsNested(c.table) /\ IsFrame(p)
      /\ p.doc.kind \in {"array", "object"}
  BY Zenon DEF NestedAbove, FrameOK
<1>2. InPlace(V, c.doc, c.table)
  <2>1. i + 1 # 1
    OBVIOUS
  <2>2. c.table \in V /\ c.doc.kind = KindOf(c.table) /\ c.name = NoName
    BY <1>1, <2>1, Zenon DEF FrameOK
  <2>3. WellMade(c.doc) /\ c.table \notin Scalars
    BY <1>1 DEF MadeOf, IsNested
  <2>4. ASSUME Exact(V) PROVE Stands(ClaimOf(c.doc, c.table))
    <3>1. Wants(start, i + 1, c) = TwoHalves(c.table)
      <4>1. HasOtherHalf(c.table) = TwoHalves(c.table) /\ HasOtherHalf(c.table) \in BOOLEAN
        BY <2>2, <2>4 DEF Exact, HasOtherHalf
      <4> QED BY <1>1, <2>1, <4>1 DEF Wants
    <3> QED BY <2>2, <2>4, <3>1, Zenon DEF MadeOf, ClaimOf
  <2> QED BY <2>3, <2>4 DEF InPlace
<1>3. c.table # Opaque
  BY <1>1 DEF IsNested
<1>4. CASE p.doc.kind = "array"
  <2>1. /\ k \in 0..Len(t.list) - 1 /\ p.next = k + 2 /\ t.list[k + 1] = c.table
        /\ ListDone(V, p.doc, t, k)
    BY <1>4, Zenon DEF NestedAbove
  <2>2. ListDone(V, d, t, k + 1)
    BY <1>2, <1>3, <2>1, ListPut
  <2>3. d.kind = p.doc.kind /\ Len(t.list) \in Nat
    BY <1>4, <2>2, TableIs DEF ListDone
  <2> HIDE DEF d
  <2>4. Keeps(p, g) /\ g.next = p.next /\ g.left = p.left /\ g.more = p.more /\ g.doc = d
    BY <1>1, <2>3, DocSet
  <2> HIDE DEF g
  <2>5. g.table = t /\ g.doc.kind = "array"
    BY <1>4, <2>3, <2>4 DEF Keeps
  <2>6. k + 2 \in 1..Len(t.list) + 1 /\ (k + 2) - 1 = k + 1
    BY <2>1, <2>3
  <2>7. Filled(V, g)
    BY <2>1, <2>2, <2>4, <2>5, <2>6 DEF Filled
  <2>8. TopOK(start, V, i, g)
    BY <1>1, <2>4, <2>7, StillAtWork
  <2> QED BY <2>4, <2>8 DEF g, d
<1>5. CASE p.doc.kind = "object"
  <2> DEFINE all == DOMAIN t.hash
             K == all \ (p.left \cup {k})
  <2>0. p.doc.kind # "array"
    BY <1>5
  <2>1. /\ p.left \subseteq all /\ k \in all \ (p.left \cup {Digits}) /\ t.hash[k] = c.table
        /\ HashDone(V, p.doc, t, K)
    BY <2>0, Zenon DEF NestedAbove
  <2>2. k \in all /\ k # Digits /\ k \notin K /\ K \cup {k} = all \ p.left
    <3> HIDE DEF all
    <3> QED BY <2>1
  <2> HIDE DEF K
  <2>3. HashDone(V, d, t, K \cup {k})
    BY <1>2, <1>3, <2>1, <2>2, HashPut
  <2>4. d.kind = p.doc.kind
    BY <1>5, <2>3 DEF HashDone
  <2> HIDE DEF d
  <2>5. Keeps(p, g) /\ g.next = p.next /\ g.left = p.left /\ g.more = p.more /\ g.doc = d
    BY <1>1, <2>4, DocSet
  <2> HIDE DEF g
  <2>6. g.table = t /\ g.doc.kind # "array"
    BY <1>5, <2>4, <2>5 DEF Keeps
  <2>7. Filled(V, g)
    BY <2>1, <2>2, <2>3, <2>5, <2>6, Zenon DEF Filled
  <2>8. TopOK(start, V, i, g)
    BY <1>1, <2>5, <2>7, StillAtWork
  <2> QED BY <2>5, <2>8 DEF g, d
<1> QED BY <1>1, <1>4, <1>5

\* The other half is stored behind the list, or under the mixed name.
HalfFor(V, x, t, part, name) ==
  WellMade(x) /\ (Exact(V) => Stands(Claim(x, t, part, FALSE, name)))
HalfFits(V, q, t, k, part, name) ==
  \/ /\ part = "object" /\ Shown(t) \ {EnvKey} # {} /\ k = Len(t.list) /\ ListDone(V, q, t, Len(t.list))
  \/ /\ part = "array" /\ Kept(t) # {} /\ k = name /\ HashDone(V, q, t, DOMAIN t.hash)
     /\ name \in Strings \ {Digits}
Whole(V, d, t, kind, both, name) ==
  /\ IsNested(d) /\ IsElement(d) /\ WellMade(d) /\ d.kind = kind
  /\ Exact(V) => Stands(Claim(d, t, kind, both, name))

LEMMA HalfStored ==
  ASSUME AtomsApart, NEW V, NEW t, NEW q, NEW k, NEW x, NEW w, NEW name, NEW part,
         NEW kind, q.kind = kind, IsTable(t), w, ~Raises(q, k), HalfFor(V, x, t, part, name), HalfFits(V, q, t, k, part, name)
  PROVE  Whole(V, Put(q, k, x), t, kind, w, name)
<1>1. CASE /\ part = "object" /\ Shown(t) \ {EnvKey} # {} /\ k = Len(t.list)
           /\ ListDone(V, q, t, Len(t.list))
  <2>1. WellMade(x) /\ (Exact(V) => Stands(Claim(x, t, "object", FALSE, name)))
    BY <1>1, Zenon DEF HalfFor
  <2>2. ListDone(V, q, t, k)
    BY <1>1
  <2>3. LET d == Put(q, k, x)
        IN  /\ IsNested(d) /\ IsElement(d) /\ WellMade(d) /\ d.kind = "array"
            /\ Exact(V) => Stands(Claim(d, t, "array", w, name))
    BY <1>1, <2>1, <2>2, ListWithKeys
  <2>4. q.kind = "array"
    BY <1>1 DEF ListDone
  <2> QED BY <2>3, <2>4, Zenon DEF Whole
<1>2. CASE /\ part = "array" /\ Kept(t) # {} /\ k = name /\ HashDone(V, q, t, DOMAIN t.hash)
           /\ name \in Strings \ {Digits}
  <2>1. WellMade(x) /\ (Exact(V) => Stands(Claim(x, t, "array", FALSE, name)))
    BY <1>2, Zenon DEF HalfFor
  <2>2. q.kind = "object"
    BY <1>2 DEF HashDone
  <2>3. LET r == Put(q, name, x)
        IN  /\ IsNested(r) /\ IsElement(r) /\ WellMade(r) /\ r.kind = "object"
            /\ Exact(V) => Stands(Claim(r, t, "object", w, name))
    BY <1>2, <2>1, HashWithList
  <2> QED BY <1>2, <2>2, <2>3, Zenon DEF Whole
<1> QED BY <1>1, <1>2, Zenon DEF HalfFits

LEMMA StoresHalf ==
  ASSUME AtomsApart, NEW start, NEW V, NEW i \in Nat \ {0}, NEW p, NEW c,
         FrameOK(start, V, i, p), IsTable(p.table), FrameOK(start, V, i + 1, c),
         HalfAbove(start, V, i, p, c), MadeOf(start, V, i + 1, c), AllDone(V, c),
         Size(c.doc) # 0, c.key # NoName, ~Raises(p.doc, c.key)
  PROVE  LET g == [p EXCEPT !.doc = Put(p.doc, c.key, c.doc)]
         IN  Keeps(p, g) /\ TopOK(start, V, i, g)
<1> DEFINE t == p.table
           d == Put(p.doc, c.key, c.doc)
           g == [p EXCEPT !.doc = d]
<1>0. PICK w : w = Wants(start, i, p)
  OBVIOUS
<1>1. /\ c.half /\ ~p.more /\ w /\ c.table = t /\ c.name = p.name /\ AllDone(V, p)
      /\ IsFrame(p) /\ p.doc.kind \in {"array", "object"} /\ p.name \in Strings \cup {NoName}
      /\ c.doc.kind \in {"array", "object"}
  BY <1>0, Zenon DEF HalfAbove, FrameOK
<1>2. HalfFor(V, c.doc, t, c.doc.kind, p.name)
  <2>1. i + 1 # 1
    OBVIOUS
  <2>2. Wants(start, i + 1, c) = FALSE
    BY <1>1, <2>1 DEF Wants
  <2> QED BY <1>1, <2>2, Zenon DEF MadeOf, HalfFor
<1>3. Whole(V, d, t, p.doc.kind, w, p.name)
  <2>1. PICK q, k, x, name, part : q = p.doc /\ k = c.key /\ x = c.doc /\ name = p.name /\ part = c.doc.kind
    OBVIOUS
  <2>4. ASSUME p.doc.kind = "array"
        PROVE  /\ part = "object" /\ Shown(t) \ {EnvKey} # {} /\ k = Len(t.list)
               /\ ListDone(V, q, t, Len(t.list))
    <3>1. c.doc.kind = "object" /\ c.key = Len(t.list) /\ ListDone(V, p.doc, t, Len(t.list))
      BY <1>1, <2>4, Zenon DEF HalfAbove, AllDone
    <3>2. Shown(t) \ {EnvKey} # {}
      BY <1>1, <3>1, HalfSize
    <3> QED BY <2>1, <3>1, <3>2
  <2>5. ASSUME p.doc.kind = "object"
        PROVE  /\ part = "array" /\ Kept(t) # {} /\ k = name /\ HashDone(V, q, t, DOMAIN t.hash)
               /\ name \in Strings \ {Digits}
    <3>1. p.doc.kind # "array"
      BY <2>5
    <3>2. c.doc.kind = "array" /\ c.key = p.name /\ HashDone(V, p.doc, t, DOMAIN t.hash)
      BY <1>1, <3>1, Zenon DEF HalfAbove, AllDone
    <3>3. Kept(t) # {}
      BY <1>1, <3>2, HalfSize
    <3>4. p.name # Digits /\ p.name \in Strings
      BY <1>1, <3>1, <3>2 DEF Raises
    <3> QED BY <2>1, <3>2, <3>3, <3>4
  <2>6. HalfFits(V, q, t, k, part, name)
    BY <1>1, <2>4, <2>5 DEF HalfFits
  <2>7. PICK kind, u : kind = p.doc.kind /\ u = t
    OBVIOUS
  <2>8. /\ HalfFits(V, q, u, k, part, name) /\ ~Raises(q, k) /\ HalfFor(V, x, u, part, name)
        /\ IsTable(u) /\ w /\ q.kind = kind
    BY <1>0, <1>1, <1>2, <2>1, <2>6, <2>7, Zenon
  <2>9. Whole(V, Put(q, k, x), u, kind, w, name)
    BY <2>8, HalfStored
  <2> QED BY <2>1, <2>7, <2>9, Zenon
<1> HIDE DEF d
<1>4. Keeps(p, g) /\ g.next = p.next /\ g.left = p.left /\ g.more = p.more /\ g.doc = d
  BY <1>1, <1>3, DocSet DEF Whole
<1> HIDE DEF g
<1>5. g.table = t /\ g.name = p.name /\ g.doc.kind = p.doc.kind
  BY <1>3, <1>4 DEF Keeps, Whole
<1>6. Wants(start, i, g) = w
  BY <1>0, <1>4, Zenon DEF Wants, Keeps
<1>7. AtEndOf(g)
  BY <1>1, <1>4, <1>5, Zenon DEF AllDone, AtEndOf
<1>8. MadeOf(start, V, i, g)
  BY <1>3, <1>4, <1>5, <1>6, Zenon DEF MadeOf, Whole
<1>9. TopOK(start, V, i, g)
  BY <1>1, <1>4, <1>6, <1>7, <1>8, Zenon DEF TopOK
<1> QED BY <1>4, <1>9 DEF g, d

\* Of a half with nothing in it nothing is stored, and nothing is missing.
LEMMA DropsHalf ==
  ASSUME AtomsApart, NEW start, NEW V, NEW i \in Nat \ {0}, NEW p, NEW c,
         FrameOK(start, V, i, p), IsTable(p.table), FrameOK(start, V, i + 1, c),
         HalfAbove(start, V, i, p, c), AllDone(V, c), Size(c.doc) = 0
  PROVE  TopOK(start, V, i, p)
<1>0. PICK w : w = Wants(start, i, p)
  OBVIOUS
<1>1. /\ ~p.more /\ w /\ c.table = p.table /\ AllDone(V, p) /\ AtEndOf(p)
      /\ p.doc.kind \in {"array", "object"} /\ c.doc.kind \in {"array", "object"}
  <2>1. ~p.more /\ w /\ c.table = p.table /\ AllDone(V, p)
    BY <1>0, Zenon DEF HalfAbove
  <2>2. p.doc.kind \in {"array", "object"} /\ c.doc.kind \in {"array", "object"}
    BY Zenon DEF FrameOK
  <2>3. AtEndOf(p)
    BY <2>1, Zenon DEF AllDone, AtEndOf
  <2> QED BY <2>1, <2>2, <2>3
<1>2. CASE p.doc.kind = "array"
  <2>1. c.doc.kind = "object" /\ ListDone(V, p.doc, p.table, Len(p.table.list))
    BY <1>1, <1>2, Zenon DEF HalfAbove, AllDone
  <2>2. Shown(p.table) \ {EnvKey} = {}
    BY <1>1, <2>1, HalfSize
  <2>3. IsNested(p.doc) /\ IsElement(p.doc) /\ WellMade(p.doc)
    BY <2>1, ListMade
  <2>4. Exact(V) => Stands(Claim(p.doc, p.table, "array", w, p.name))
    BY <2>1, <2>2, ListAlone
  <2> QED BY <1>0, <1>1, <1>2, <2>3, <2>4, Zenon DEF TopOK, MadeOf
<1>3. CASE p.doc.kind = "object"
  <2>0. p.doc.kind # "array"
    BY <1>3
  <2>1. c.doc.kind = "array" /\ HashDone(V, p.doc, p.table, DOMAIN p.table.hash)
    BY <1>1, <2>0, Zenon DEF HalfAbove, AllDone
  <2>2. Kept(p.table) = {}
    BY <1>1, <2>1, HalfSize
  <2>3. IsNested(p.doc) /\ IsElement(p.doc) /\ WellMade(p.doc)
    BY <2>1, HashMade
  <2>4. Exact(V) => Stands(Claim(p.doc, p.table, "object", w, p.name))
    BY <2>1, <2>2, HashAlone
  <2> QED BY <1>0, <1>1, <1>3, <2>3, <2>4, Zenon DEF TopOK, MadeOf
<1> QED BY <1>1, <1>2, <1>3

\* Why a store fails.
LEMMA StoreFails ==
  ASSUME AtomsApart, NEW start, NEW V, NEW i \in Nat \ {0}, NEW p, NEW c,
         Ground(start, V), FrameOK(start, V, i, p), IsTable(p.table), FrameOK(start, V, i + 1, c),
         Link(start, V, i, p, c), c.half => AllDone(V, c), ~ (c.half /\ Size(c.doc) = 0)
  PROVE  /\ c.key = NoName => CrashesFor(start, V)
         /\ c.key # NoName /\ Raises(p.doc, c.key) => RaisesFor(start, V)
<1>1. /\ p.table \in {start.table} \cup V /\ p.doc.kind \in {"array", "object"}
      /\ c.doc.kind \in {"array", "object"} /\ p.name \in Strings \cup {NoName}
  BY Zenon DEF FrameOK
<1>2. Len(p.table.list) \in Nat /\ DOMAIN p.table.hash \subseteq Strings
      /\ NoName \notin Strings \cup Nat
  BY TableIs, ValuesAssumption
<1>3. CASE NestedAbove(start, V, i, p, c)
  <2>1. IsNested(c.table) /\ c.table # Opaque
    BY <1>3 DEF NestedAbove, IsNested
  <2>2. CASE p.doc.kind = "array"
    <3>1. /\ c.key \in 0..Len(p.table.list) - 1 /\ p.table.list[c.key + 1] = c.table
          /\ ListDone(V, p.doc, p.table, c.key)
      BY <1>3, <2>2, Zenon DEF NestedAbove
    <3>2. c.key # NoName
      BY <1>2, <3>1
    <3>3. c.key \in 0..Len(p.table.list) /\ c.key < Len(p.table.list)
      BY <1>2, <3>1
    <3>4. Raises(p.doc, c.key) => HasGap(p.table)
      BY <2>1, <3>1, <3>3, GapFound
    <3> QED BY <1>1, <3>2, <3>4, Zenon DEF RaisesFor
  <2>3. CASE p.doc.kind = "object"
    <3>0. p.doc.kind # "array"
      BY <2>3
    <3>1. c.key \in DOMAIN p.table.hash \ (p.left \cup {Digits})
      BY <1>3, <3>0, Zenon DEF NestedAbove
    <3>2. c.key # NoName /\ c.key # Digits
      BY <1>2, <3>1
    <3>3. ~Raises(p.doc, c.key)
      BY <3>0, <3>2 DEF Raises
    <3> QED BY <3>2, <3>3
  <2> QED BY <1>1, <2>2, <2>3
<1>4. CASE HalfAbove(start, V, i, p, c)
  <2>1. /\ c.half /\ Wants(start, i, p) /\ c.table = p.table /\ AllDone(V, c)
        /\ IsTable(c.table) /\ Size(c.doc) # 0 /\ AllDone(V, p)
    BY <1>4, Zenon DEF HalfAbove
  <2>2. CASE p.doc.kind = "array"
    <3>1. /\ c.doc.kind = "object" /\ c.key = Len(p.table.list)
          /\ ListDone(V, p.doc, p.table, Len(p.table.list))
      BY <1>4, <2>1, <2>2, Zenon DEF HalfAbove, AllDone
    <3>2. Shown(p.table) \ {EnvKey} # {}
      BY <1>1, <2>1, <3>1, HalfSize
    <3>3. c.key # NoName
      BY <1>2, <3>1
    <3>4. Raises(p.doc, c.key) => HasGap(p.table)
      <4>1. Len(p.table.list) \in 0..Len(p.table.list)
        BY <1>2
      <4> QED BY <3>1, <3>2, <4>1, GapFound
    <3> QED BY <1>1, <3>3, <3>4, Zenon DEF RaisesFor
  <2>3. CASE p.doc.kind = "object"
    <3>0. p.doc.kind # "array"
      BY <2>3
    <3>1. c.doc.kind = "array" /\ c.key = p.name
      BY <1>4, <3>0, Zenon DEF HalfAbove
    <3>2. Kept(p.table) # {}
      BY <1>1, <2>1, <3>1, HalfSize
    <3>3. Raises(p.doc, c.key) => p.name = Digits
      BY <3>0, <3>1 DEF Raises
    <3>4. CASE i = 1
      <4>1. p.name = start.name /\ start.more
        BY <2>1, <3>4 DEF FrameOK, Wants
      <4> QED BY <3>1, <3>3, <4>1 DEF RaisesFor, CrashesFor
    <3>5. CASE i # 1
      <4>1. ~p.half /\ HasOtherHalf(p.table)
        BY <2>1, <3>5 DEF Wants
      <4>2. p.table \in V /\ KindOf(p.table) = "object" /\ p.name = NoName
        BY <2>3, <3>5, <4>1, Zenon DEF FrameOK
      <4>3. IsMixed(p.table)
        BY <4>1 DEF HasOtherHalf
      <4> QED BY <3>1, <3>2, <4>2, <4>3, Zenon DEF CrashesFor
    <3> QED BY <3>4, <3>5
  <2> QED BY <1>1, <2>2, <2>3
<1> QED BY <1>3, <1>4, Zenon DEF Link

LEMMA DeliverConverts ==
  ASSUME AtomsApart, NEW start, NEW V, Ground(start, V), Converting(start, V), Deliver
  PROVE  Converting(start, V)'
<1>0. Busy /\ ~InList /\ ~InHash /\ ~Top.more
  BY DEF Deliver, AtEnd
<1>1. PICK top, b : top = Top /\ b = Below
  OBVIOUS
<1>2. /\ made = Nothing /\ IsSeq(b) /\ Len(b) \in Nat
      /\ Chain(start, V, b, top) /\ FrameOK(start, V, Len(b) + 1, top)
      /\ TopOK(start, V, Len(b) + 1, top) /\ IsTable(top.table)
      /\ top.doc.kind \in {"array", "object"}
  BY <1>0, <1>1, AtWork
<1>3. MadeOf(start, V, Len(b) + 1, top) /\ (~Wants(start, Len(b) + 1, top) => AllDone(V, top))
  <2>1. /\ ~top.more /\ (top.doc.kind = "array" => ~ (top.next <= Len(top.table.list)))
        /\ top.doc.kind = "object" => top.left = {}
    BY <1>0, <1>1 DEF InList, InHash
  <2> QED BY <1>2, <2>1, TopResult
<1>4. IF b = << >> THEN Finish(top.doc)
      ELSE IF top.half /\ Size(top.doc) = 0 THEN work' = b /\ UNCHANGED made
      ELSE IF top.key = NoName THEN Finish(Crashed)
      ELSE IF Raises(Last(b).doc, top.key) THEN Finish(Raised)
      ELSE /\ work' = Append(Front(b), With(Last(b), top.key, top.doc))
           /\ UNCHANGED made
  BY <1>1, Zenon DEF Deliver
<1>5. CASE b = << >>
  <2>1. Len(b) + 1 = 1
    BY <1>5
  <2>2. FrameOK(start, V, 1, top) /\ MadeOf(start, V, 1, top)
    BY <1>2, <1>3, <2>1, Zenon
  <2>3. top.table = start.table /\ top.doc.kind = start.doc.kind /\ top.name = start.name
    BY <2>2, Zenon DEF FrameOK
  <2>4. Wants(start, 1, top) = start.more
    BY Zenon DEF Wants
  <2>5. /\ IsNested(top.doc) /\ IsElement(top.doc) /\ WellMade(top.doc)
        /\ Exact(V) => Stands(Claim(top.doc, start.table, start.doc.kind, start.more, start.name))
    BY <2>2, <2>3, <2>4, Zenon DEF MadeOf
  <2>6. top.doc # Raised /\ top.doc # Crashed
    BY <2>5 DEF IsElement, Failures
  <2>7. Outcome(start, V, top.doc)
    BY <2>5, <2>6, Zenon DEF Outcome
  <2>8. work' = << >> /\ made' = top.doc
    BY <1>4, <1>5 DEF Finish
  <2> QED BY <2>7, <2>8, WorkEnds
<1>6. CASE b # << >>
  <2>1. PICK p, a, i : p = Last(b) /\ a = Front(b) /\ i = Len(b)
    OBVIOUS
  <2>2. /\ Chain(start, V, a, p) /\ FrameOK(start, V, i, p) /\ Link(start, V, i, p, top)
        /\ i \in Nat \ {0} /\ Len(a) + 1 = i /\ FrameOK(start, V, i + 1, top)
    BY <1>2, <1>6, <2>1, ChainPop, Zenon
  <2>3. IsSeq(a) /\ b = Append(a, p)
    BY <1>2, <1>6, <2>1, SeqSplit
  <2>4. p.table \in {start.table} \cup V /\ IsTable(p.table) /\ IsFrame(p)
    <3>1. p.table \in {start.table} \cup V /\ IsFrame(p)
      BY <2>2, Zenon DEF FrameOK
    <3> QED BY <3>1, Zenon DEF Ground
  <2>5. MadeOf(start, V, i + 1, top) /\ (~Wants(start, i + 1, top) => AllDone(V, top))
    BY <1>3, <2>1, Zenon
  <2>6. top.half => AllDone(V, top) /\ HalfAbove(start, V, i, p, top)
    <3>1. i + 1 # 1
      BY <2>2
    <3>2. top.half => ~Wants(start, i + 1, top)
      BY <3>1 DEF Wants
    <3>3. top.half => ~NestedAbove(start, V, i, p, top)
      BY DEF NestedAbove
    <3> QED BY <2>2, <2>5, <3>2, <3>3, Zenon DEF Link
  <2>7. CASE top.half /\ Size(top.doc) = 0
    <3>1. TopOK(start, V, Len(a) + 1, p)
      <4>1. TopOK(start, V, i, p)
        BY <2>2, <2>4, <2>6, <2>7, DropsHalf
      <4> QED BY <2>2, <4>1
    <3>2. work' = Append(a, p) /\ UNCHANGED made
      BY <1>4, <1>6, <2>3, <2>7
    <3>3. Keeps(p, p)
      BY <2>4 DEF Keeps
    <3> QED BY <1>2, <2>2, <2>3, <3>1, <3>2, <3>3, NothingYet, WorksOn
  <2>8. CASE ~ (top.half /\ Size(top.doc) = 0)
    <3>1. /\ top.key = NoName => CrashesFor(start, V)
          /\ top.key # NoName /\ Raises(p.doc, top.key) => RaisesFor(start, V)
      BY <2>2, <2>4, <2>6, <2>8, StoreFails
    <3>2. CASE top.key = NoName
      <4>1. work' = << >> /\ made' = Crashed
        BY <1>4, <1>6, <2>8, <3>2 DEF Finish
      <4> QED BY <3>1, <3>2, <4>1, FailureIs, WorkEnds
    <3>3. CASE top.key # NoName /\ Raises(p.doc, top.key)
      <4>1. work' = << >> /\ made' = Raised
        BY <1>4, <1>6, <2>1, <2>8, <3>3 DEF Finish
      <4> QED BY <3>1, <3>3, <4>1, FailureIs, WorkEnds
    <3>4. CASE top.key # NoName /\ ~Raises(p.doc, top.key)
      <4> DEFINE g == [p EXCEPT !.doc = Put(p.doc, top.key, top.doc)]
      <4>1. work' = Append(a, g) /\ UNCHANGED made
        <5>1. With(p, top.key, top.doc) = g
          BY <2>4, WithIs
        <5> HIDE DEF g
        <5> QED BY <1>4, <1>6, <2>1, <2>8, <3>4, <5>1, Zenon
      <4>2. Keeps(p, g) /\ TopOK(start, V, i, g)
        <5>1. CASE NestedAbove(start, V, i, p, top)
          BY <2>2, <2>4, <2>5, <3>4, <5>1, StoresNested
        <5>2. CASE HalfAbove(start, V, i, p, top)
          <6>1. top.half /\ Size(top.doc) # 0
            BY <2>8, <5>2 DEF HalfAbove
          <6> QED BY <2>2, <2>4, <2>5, <2>6, <3>4, <5>2, <6>1, StoresHalf
        <5> QED BY <2>2, <5>1, <5>2, Zenon DEF Link
      <4> HIDE DEF g
      <4>3. TopOK(start, V, Len(a) + 1, g)
        BY <2>2, <4>2
      <4> QED BY <1>2, <2>2, <2>3, <4>1, <4>2, <4>3, NothingYet, WorksOn
    <3> QED BY <3>2, <3>3, <3>4
  <2> QED BY <2>7, <2>8
<1> QED BY <1>5, <1>6

-------------------------------------------------------------------------------
(***************************************************************************)
(* The element made of a table by JSON.parse_table.                        *)
(***************************************************************************)
LEMMA Begins ==
  ASSUME AtomsApart, NEW start, NEW V, Ground(start, V)
  PROVE  /\ work = <<start>> /\ made = Nothing => Converting(start, V)
         /\ work' = <<start>> /\ made' = Nothing => Converting(start, V)'
<1>1. /\ start.table \in {start.table} \cup V /\ IsTable(start.table) /\ IsFrame(start)
      /\ start.doc.kind \in {"array", "object"} /\ start.more \in BOOLEAN
      /\ start.name \in Strings \cup {NoName} /\ ~start.half
  BY GroundIs DEF Ground
<1>3. Filled(V, start)
  <2>1. PICK t, kind, more, name : t = start.table /\ kind = start.doc.kind /\ more = start.more /\ name = start.name
    OBVIOUS
  <2>2. start = Activity(t, kind, more, name, 0, FALSE)
    BY <2>1, GroundIs, Zenon
  <2>3. Filled(V, Activity(t, kind, more, name, 0, FALSE))
    BY <1>1, <2>1, Entered
  <2> QED BY <2>2, <2>3, Zenon
<1>4. TopOK(start, V, 1, start)
  BY <1>3, Zenon DEF TopOK, Wants
<1>5. FrameOK(start, V, 1, start)
  <2>1. start.half \in BOOLEAN
    BY GroundIs
  <2> QED BY <1>1, <2>1 DEF FrameOK
<1>6. Len(<< >>) = 0 /\ 1..0 = {} /\ Len(<< >>) + 1 = 1
  OBVIOUS
<1>7. Chain(start, V, << >>, start)
  BY <1>5, <1>6 DEF Chain
<1>8. /\ IsSeq(<<start>>) /\ <<start>> # << >> /\ Front(<<start>>) = << >> /\ Last(<<start>>) = start
      /\ Len(<<start>>) = 1
  <2>1. IsSeq(<< >>) /\ Append(<< >>, start) = <<start>>
    BY DEF IsSeq
  <2>2. /\ IsSeq(Append(<< >>, start)) /\ Append(<< >>, start) # << >>
        /\ Front(Append(<< >>, start)) = << >> /\ Last(Append(<< >>, start)) = start
        /\ Len(Append(<< >>, start)) = Len(<< >>) + 1
    BY <2>1, SeqAppend
  <2> QED BY <1>6, <2>1, <2>2
<1>9. ASSUME work = <<start>>, made = Nothing PROVE Converting(start, V)
  BY <1>4, <1>7, <1>8, <1>9, NothingYet, Zenon DEF Converting
<1>10. ASSUME work' = <<start>>, made' = Nothing PROVE Converting(start, V)'
  BY <1>4, <1>7, <1>8, <1>10, NothingYet, Zenon DEF Converting
<1> QED BY <1>9, <1>10

LEMMA ConvertsKeeps ==
  ASSUME AtomsApart, NEW start, NEW V, Ground(start, V), Converting(start, V),
         (ListItem \/ HashItem \/ OtherHalf \/ Deliver) \/ UNCHANGED <<work, made>>
  PROVE  Converting(start, V)'
<1>1. CASE UNCHANGED <<work, made>>
  BY <1>1, Zenon DEF Converting
<1> QED BY <1>1, ListItemConverts, HashItemConverts, OtherHalfConverts, DeliverConverts

\* What is nested in a value that is not nested too deep is one of its parts.
LEMMA PartsClosed ==
  ASSUME NEW v, WithinLevels(v)
  PROVE  /\ v \in Parts(v) /\ v \in Level(v)[0]
         /\ \A n \in 0..MaxLevels : \A x \in Level(v)[n] :
              /\ x \in Parts(v)
              /\ \A y \in PartsOf(x) : n + 1 \in 1..MaxLevels /\ y \in Level(v)[n + 1]
<1>1. MaxLevels \in Nat /\ 0 \in 0..MaxLevels
  BY ValuesAssumption
<1>2. v \in Level(v)[0] /\ v \in Parts(v)
  BY <1>1, LevelIs DEF Parts
<1>3. ASSUME NEW n \in 0..MaxLevels, NEW x \in Level(v)[n], NEW y \in PartsOf(x)
      PROVE  n + 1 \in 1..MaxLevels /\ y \in Level(v)[n + 1]
  <2>1. y \in Level(v)[n + 1]
    BY LevelIs
  <2>2. n # MaxLevels
    BY <2>1 DEF WithinLevels
  <2> QED BY <1>1, <2>1, <2>2
<1> QED BY <1>2, <1>3 DEF Parts

\* A counter that is large enough tells whether there is another half.
LEMMA SmallExact ==
  ASSUME NEW t, IsTable(t), StringKeys(t) + NumberKeys(t) < MixedMod
  PROVE  HasOtherHalf(t) = TwoHalves(t)
<1>1. StringKeys(t) \in Nat /\ Len(t.list) \in Nat /\ t.loose \in Nat /\ MixedMod \in Nat \ {0}
      /\ NumberKeys(t) = Len(t.list) + t.loose
  BY TableIs, FS_CardinalityType, MixedAssumption DEF IsTable, StringKeys, NumberKeys
<1>2. \A n \in Nat : n < MixedMod => n % MixedMod = n
  BY <1>1
<1>3. /\ StringKeys(t) + t.loose \in Nat /\ StringKeys(t) + t.loose < MixedMod
      /\ Len(t.list) < MixedMod
  BY <1>1
<1>4. (StringKeys(t) + t.loose) % MixedMod = StringKeys(t) + t.loose /\ Len(t.list) % MixedMod = Len(t.list)
  BY <1>1, <1>2, <1>3
<1>5. t.list # << >> <=> Len(t.list) # 0
  <2>1. IsSeq(t.list)
    BY DEF IsTable
  <2>2. t.list \in Seq(Range(t.list))
    BY <2>1 DEF IsSeq
  <2> QED BY <2>2, EmptySeq
<1>6. KindOf(t) \in {"array", "object"} /\ (IsMixed(t) => StringKeys(t) > 0)
  BY DEF KindOf, IsMixed
<1>7. CASE KindOf(t) = "array"
  <2>1. IsMixed(t) => StringKeys(t) + t.loose # 0
    BY <1>1, <1>6
  <2> QED BY <1>4, <1>7, <2>1 DEF HasOtherHalf, TwoHalves
<1>8. CASE KindOf(t) = "object"
  BY <1>4, <1>5, <1>8 DEF HasOtherHalf, TwoHalves
<1> QED BY <1>6, <1>7, <1>8

LEMMA TableGround ==
  ASSUME NEW t \in Tables, NEW o \in TableOpts
  PROVE  /\ Ground(Outermost(t, o), NestedTables(t))
         /\ LET s == Outermost(t, o)
            IN  /\ s.table = t /\ s.more = (o.mixed /\ HasOtherHalf(t)) /\ s.name = o.name
                /\ s.doc.kind = IF o.opt = "auto" THEN KindOf(t) ELSE o.opt
         /\ o.name \in Strings /\ \A u \in Subtables(t) : IsTable(u)
<1> DEFINE V == NestedTables(t)
           kind == IF o.opt = "auto" THEN KindOf(t) ELSE o.opt
           more == o.mixed /\ HasOtherHalf(t)
           s == Activity(t, kind, more, o.name, 0, FALSE)
<1>1. IsNested(t) /\ WithinLevels(t) /\ \A u \in Parts(t) : IsNested(u) => IsTable(u)
  BY TablesAssumption
<1>2. o.opt \in {"auto", "array", "object"} /\ o.mixed \in BOOLEAN /\ o.name \in Strings
  BY OptionsAssumption, MixedAssumption DEF Options
<1>3. kind \in {"array", "object"} /\ more \in BOOLEAN
  BY <1>2 DEF KindOf
<1>4. /\ t \in Parts(t) /\ t \in Level(t)[0]
      /\ \A n \in 0..MaxLevels : \A x \in Level(t)[n] :
           x \in Parts(t) /\ \A y \in PartsOf(x) : n + 1 \in 1..MaxLevels /\ y \in Level(t)[n + 1]
  BY <1>1, PartsClosed
<1>5. \A n \in 1..MaxLevels : n \in 0..MaxLevels
  OBVIOUS
<1>6. 0 \in 0..MaxLevels
  BY ValuesAssumption
<1>7. ASSUME NEW u \in {t} \cup V
      PROVE  IsNested(u) /\ IsTable(u) /\ \A v \in PartsOf(u) : IsNested(v) => v \in V
  <2>1. PICK n \in 0..MaxLevels : u \in Level(t)[n]
    BY <1>4, <1>5, <1>6 DEF NestedTables
  <2>2. IsNested(u)
    BY <1>1 DEF NestedTables
  <2>3. IsTable(u)
    BY <1>1, <1>4, <2>1, <2>2
  <2>4. \A v \in PartsOf(u) : IsNested(v) => v \in V
    <3> SUFFICES ASSUME NEW v \in PartsOf(u), IsNested(v) PROVE v \in V
      OBVIOUS
    <3>1. n + 1 \in 1..MaxLevels /\ v \in Level(t)[n + 1]
      BY <1>4, <2>1
    <3> QED BY <3>1 DEF NestedTables
  <2> QED BY <2>2, <2>3, <2>4
<1>8. Outermost(t, o) = s
  BY Zenon DEF Outermost
<1> HIDE DEF kind, more
<1>9. s.table = t /\ s.more = more /\ s.name = o.name /\ s.doc.kind = kind
  <2>1. EmptyOf(kind).kind = kind
    BY <1>3 DEF EmptyOf, Array, Object, Listing
  <2> QED BY <2>1 DEF Activity
<1> HIDE DEF V
<1>10. Ground(s, V)
  <2> HIDE DEF s
  <2>1. s = Activity(s.table, kind, more, o.name, 0, FALSE)
    BY <1>9, Zenon DEF s
  <2> QED BY <1>2, <1>3, <1>7, <1>9, <2>1, Zenon DEF Ground
<1>11. \A u \in Subtables(t) : IsTable(u)
  BY <1>7 DEF Subtables, V
<1> HIDE DEF s
<1>12. Ground(Outermost(t, o), NestedTables(t))
  BY <1>8, <1>10 DEF V
<1> QED BY <1>2, <1>8, <1>9, <1>11, <1>12, Zenon DEF kind, more

\* What JSON.parse_table ends with.
LEMMA TableOutcome ==
  ASSUME NEW t \in Tables, NEW o \in TableOpts, NEW d,
         Outcome(Outermost(t, o), NestedTables(t), d)
  PROVE  /\ d = Raised => (\E u \in Subtables(t) : HasGap(u)) \/ o.name = Digits
         /\ d = Crashed => \E u \in NestedTables(t) :
                             KindOf(u) = "object" /\ IsMixed(u) /\ Kept(u) # {}
         /\ IsElement(d) => IsNested(d) /\ WellMade(d)
         /\ IsElement(d) /\ (\A u \in Subtables(t) : StringKeys(u) + NumberKeys(u) < MixedMod)
              => StandsFor(Claim(d, t, IF o.opt = "auto" THEN KindOf(t) ELSE o.opt,
                                 o.mixed /\ TwoHalves(t), o.name))
<1>1. PICK s, V : s = Outermost(t, o) /\ V = NestedTables(t)
  OBVIOUS
<1>2. PICK kind, more, both : /\ kind = (IF o.opt = "auto" THEN KindOf(t) ELSE o.opt)
                        /\ more = (o.mixed /\ HasOtherHalf(t)) /\ both = (o.mixed /\ TwoHalves(t))
  OBVIOUS
<1>3. /\ s.table = t /\ s.more = more /\ s.name = o.name /\ s.doc.kind = kind
      /\ o.name \in Strings /\ \A u \in Subtables(t) : IsTable(u)
  BY <1>1, <1>2, TableGround, Zenon
<1>4. {s.table} \cup V = Subtables(t)
  BY <1>1, <1>3 DEF Subtables
<1>5. d = Raised => (\E u \in Subtables(t) : HasGap(u)) \/ o.name = Digits
  BY <1>1, <1>3, <1>4, Zenon DEF Outcome, RaisesFor
<1>6. d = Crashed => \E u \in V : KindOf(u) = "object" /\ IsMixed(u) /\ Kept(u) # {}
  <2>1. s.name # NoName
    BY <1>3, ValuesAssumption
  <2> QED BY <1>1, <2>1, Zenon DEF Outcome, CrashesFor
<1>7. IsElement(d) => IsNested(d) /\ WellMade(d) /\ (Exact(V) => Stands(Claim(d, t, kind, more, o.name)))
  BY <1>1, <1>3, Zenon DEF Outcome
<1>8. ASSUME IsElement(d), \A u \in Subtables(t) : StringKeys(u) + NumberKeys(u) < MixedMod
      PROVE  StandsFor(Claim(d, t, kind, both, o.name))
  <2>1. \A u \in Subtables(t) : HasOtherHalf(u) = TwoHalves(u)
    BY <1>3, <1>8, SmallExact
  <2>2. Exact(V)
    BY <1>4, <2>1 DEF Exact
  <2>3. more = both
    BY <1>2, <2>1 DEF Subtables
  <2>4. Stands(Claim(d, t, kind, both, o.name))
    BY <1>7, <1>8, <2>2, <2>3, Zenon
  <2> QED BY <2>4, StandsForIt
<1> QED BY <1>1, <1>2, <1>5, <1>6, <1>7, <1>8, Zenon

-------------------------------------------------------------------------------
(***************************************************************************)
(* The tables that totable makes: what is in them, and that they have no   *)
(* gap and no other half.                                                  *)
(***************************************************************************)
Whence(d) ==
  /\ WithinLevels(d) /\ Printable(d) /\ IsNested(d)
  /\ \A x \in Parts(d) : IsNested(x) => IsProper(x)

\* The tables nested in the table of d.
Copies(d) ==
  UNION {{Images(d)[n][x] : x \in {y \in Level(d)[n] : IsNested(y)}} : n \in 1..MaxLevels}

LEMMA TableMade ==
  ASSUME AtomsApart, NEW x, NEW y, NEW z
  PROVE  LET u == Table(x, y, z)
         IN  IsNested(u) /\ u.kind = "table" /\ u.list = x /\ u.hash = y /\ u.loose = z
<1>1. Table(x, y, z) \notin Scalars \cup {Opaque, Nothing, Raised, Crashed}
  BY Zenon DEF AtomsApart
<1> QED BY <1>1 DEF IsNested, Table

FirstsTo(s, n) == {s[i][1] : i \in 1..n}

LEMMA PairsCounted ==
  ASSUME NEW s, OneEach(s), NEW n \in Nat, 1..n \subseteq DOMAIN s
  PROVE  IsFiniteSet(FirstsTo(s, n)) /\ Cardinality(FirstsTo(s, n)) = n
<1> DEFINE f == [i \in 1..n |-> s[i][1]]
<1>1. \A i \in 1..n : f[i] = s[i][1]
  OBVIOUS
<1>2. f \in Bijection(1..n, FirstsTo(s, n))
  <2>1. f \in [1..n -> FirstsTo(s, n)]
    BY DEF FirstsTo
  <2>2. \A i, j \in 1..n : f[i] = f[j] => i = j
    BY DEF OneEach
  <2>3. \A k \in FirstsTo(s, n) : \E i \in 1..n : f[i] = k
    BY DEF FirstsTo
  <2> HIDE DEF f
  <2> QED BY <2>1, <2>2, <2>3 DEF Bijection, Injection, Surjection, IsInjective
<1>3. ExistsBijection(1..n, FirstsTo(s, n))
  BY <1>2 DEF ExistsBijection
<1>4. IsFiniteSet(1..n) /\ Cardinality(1..n) = n
  <2>2. n \in Int /\ 1 \in Int
    OBVIOUS
  <2>3. IsFiniteSet(1..n) /\ Cardinality(1..n) = IF 1 > n THEN 0 ELSE n - 1 + 1
    BY <2>2, FS_Interval
  <2>4. \A c : c = (IF 1 > n THEN 0 ELSE n - 1 + 1) => c = n
    OBVIOUS
  <2> QED BY <2>3, <2>4
<1> QED BY <1>3, <1>4, FS_Bijection

\* The keys of the pairs that object x has counted.
CountedOf(x) == FirstsTo(x.pairs, Size(x))

LEMMA CountedIs ==
  ASSUME NEW x, x.kind = "object", IsProper(x)
  PROVE  /\ KeysOf(x) \ Uncounted(x) = CountedOf(x)
         /\ Size(x) \in Nat /\ 1..Size(x) \subseteq DOMAIN x.pairs
         /\ CountedOf(x) \subseteq Strings \ {Digits}
         /\ IsFiniteSet(CountedOf(x)) /\ Cardinality(CountedOf(x)) = Size(x)
<1>1. PICK s, n, c : s = x.pairs /\ n = Len(x.pairs) /\ c = Size(x)
  OBVIOUS
<1>2. /\ OneEach(s) /\ n \in Nat /\ DOMAIN s = 1..n /\ c \in Nat /\ c = x.count
      /\ c \in {n, n - 1} /\ KeysOf(x) = FirstsOf(s) /\ KeysOf(x) \subseteq Strings \ {Digits}
  BY <1>1, ProperCounts DEF Counts
<1>3. 1..c \subseteq DOMAIN s /\ (c + 1)..n \subseteq DOMAIN s
      /\ \A i \in DOMAIN s : i \in 1..c <=> i \notin (c + 1)..n
  BY <1>2
<1>4. Uncounted(x) = {s[i][1] : i \in (c + 1)..n}
  BY <1>1, <1>2 DEF Uncounted
<1>5. FirstsOf(s) \ {s[i][1] : i \in (c + 1)..n} = FirstsTo(s, c)
  BY <1>2, <1>3 DEF FirstsOf, FirstsTo, OneEach
<1>6. FirstsTo(s, c) \subseteq FirstsOf(s)
  BY <1>3 DEF FirstsOf, FirstsTo
<1>7. IsFiniteSet(FirstsTo(s, c)) /\ Cardinality(FirstsTo(s, c)) = c
  BY <1>2, <1>3, PairsCounted
<1> QED BY <1>1, <1>2, <1>3, <1>4, <1>5, <1>6, <1>7 DEF CountedOf

\* The table made of an array, or of an object, nested at level n.
LEMMA ImageOf ==
  ASSUME NEW d, NEW n \in 0..MaxLevels, NEW x \in Level(d)[n], Whence(d)
  PROVE  /\ x # Opaque
         /\ ~IsNested(x) => x \in Scalars
         /\ IsNested(x) => IsProper(x) /\ x.kind \in {"array", "object"}
         /\ Images(d)[n][x] = TableFrom(x, Images(d)[n + 1])
<1>1. Images(d)[n] = [y \in Level(d)[n] |-> TableFrom(y, Images(d)[n + 1])]
  BY ImageIs, Zenon
<1>2. Images(d)[n][x] = TableFrom(x, Images(d)[n + 1])
  BY <1>1, Zenon
<1>3. x \in Parts(d)
  BY DEF Parts
<1>4. x # Opaque
  BY <1>3 DEF Whence, Printable
<1>5. ~IsNested(x) => x \in Scalars
  BY <1>4 DEF IsNested
<1>6. IsNested(x) => IsProper(x) /\ x.kind \in {"array", "object"}
  BY <1>3 DEF Whence, IsProper
<1> QED BY <1>2, <1>4, <1>5, <1>6, Zenon

LEMMA ImageKind ==
  ASSUME AtomsApart, NEW d, Whence(d), NEW n \in 0..MaxLevels, NEW x \in Level(d)[n]
  PROVE  Images(d)[n][x] # Opaque /\ (IsNested(Images(d)[n][x]) <=> IsNested(x))
<1>1. PICK u, below : u = Images(d)[n][x] /\ below = Images(d)[n + 1]
  OBVIOUS
<1>2. x # Opaque /\ u = TableFrom(x, below)
  BY <1>1, ImageOf
<1>3. ~IsNested(x) => u = x
  BY <1>2, Zenon DEF TableFrom
<1>4. IsNested(x) => IsNested(u)
  <2> SUFFICES ASSUME IsNested(x) PROVE IsNested(u)
    OBVIOUS
  <2>1. \E y, z : u = Table(y, z, 0)
    <3>1. CASE x.kind = "array"
      BY <1>2, <3>1, Zenon DEF TableFrom
    <3>2. CASE x.kind # "array"
      BY <1>2, <3>2, Zenon DEF TableFrom
    <3> QED BY <3>1, <3>2
  <2> QED BY <2>1, TableMade
<1>5. IsNested(u) => u # Opaque
  BY DEF IsNested
<1> QED BY <1>1, <1>2, <1>3, <1>4, <1>5

\* A table with a list only, or with string keys only.
LEMMA ListOnly ==
  ASSUME AtomsApart, NEW s, IsSeq(s), \A i \in DOMAIN s : s[i] # Opaque
  PROVE  LET u == Table(s, << >>, 0)
         IN  /\ IsNested(u) /\ IsTable(u) /\ KindOf(u) = "array"
             /\ ~HasOtherHalf(u) /\ ~TwoHalves(u) /\ ~IsMixed(u) /\ ~HasGap(u)
             /\ Kept(u) = DOMAIN s /\ Shown(u) = {}
             /\ PartsOf(u) = {s[i] : i \in DOMAIN s}
<1>1. PICK u : u = Table(s, << >>, 0)
  OBVIOUS
<1>2. IsNested(u) /\ u.kind = "table" /\ u.list = s /\ u.hash = << >> /\ u.loose = 0
  BY <1>1, TableMade
<1>3. DOMAIN << >> = {} /\ IsFiniteSet({}) /\ Cardinality({}) = 0
  BY FS_EmptySet
<1>4. DOMAIN u.hash = {}
  BY <1>2, <1>3
<1>5. IsTable(u)
  BY <1>2, <1>3, <1>4 DEF IsTable
<1>6. StringKeys(u) = 0 /\ ~IsMixed(u)
  BY <1>3, <1>4 DEF StringKeys, IsMixed
<1>7. KindOf(u) = "array"
  <2>1. Len(s) \in Nat
    BY SeqAppend
  <2>2. NumberKeys(u) = Len(s)
    BY <1>2, <2>1 DEF NumberKeys
  <2> QED BY <1>6, <2>1, <2>2 DEF KindOf
<1>8. Kept(u) = DOMAIN s /\ Shown(u) = {} /\ ~HasGap(u)
  BY <1>2, <1>4 DEF Kept, Shown, HasGap
<1>9. PartsOf(u) = {s[i] : i \in DOMAIN s}
  <2>1. PartsOf(u) = Range(s) \cup Range(<< >>)
    BY <1>2 DEF PartsOf
  <2>2. Range(<< >>) = {}
    BY <1>3 DEF Range
  <2> QED BY <2>1, <2>2 DEF Range
<1> QED BY <1>1, <1>2, <1>5, <1>6, <1>7, <1>8, <1>9, Zenon DEF HasOtherHalf, TwoHalves

LEMMA KeysOnly ==
  ASSUME AtomsApart, NEW h, DOMAIN h \subseteq Strings \ {Digits}, IsFiniteSet(DOMAIN h),
         \A k \in DOMAIN h : h[k] # Opaque
  PROVE  LET u == Table(<< >>, h, 0)
         IN  /\ IsNested(u) /\ IsTable(u) /\ KindOf(u) = (IF DOMAIN h = {} THEN "array" ELSE "object")
             /\ ~HasOtherHalf(u) /\ ~TwoHalves(u) /\ ~IsMixed(u) /\ ~HasGap(u)
             /\ Kept(u) = {} /\ Shown(u) = DOMAIN h
             /\ PartsOf(u) = {h[k] : k \in DOMAIN h}
<1>1. PICK u : u = Table(<< >>, h, 0)
  OBVIOUS
<1>2. IsNested(u) /\ u.kind = "table" /\ u.list = << >> /\ u.hash = h /\ u.loose = 0
  BY <1>1, TableMade
<1>3. DOMAIN << >> = {} /\ Len(<< >>) = 0 /\ IsSeq(<< >>)
  BY DEF IsSeq
<1>4. IsTable(u)
  BY <1>2, <1>3 DEF IsTable
<1>5. NumberKeys(u) = 0 /\ ~IsMixed(u)
  BY <1>2, <1>3 DEF NumberKeys, IsMixed
<1>6. KindOf(u) = (IF DOMAIN h = {} THEN "array" ELSE "object")
  <2>1. StringKeys(u) \in Nat /\ (StringKeys(u) = 0 <=> DOMAIN h = {})
    BY <1>2, FS_EmptySet, FS_CardinalityType DEF StringKeys
  <2> QED BY <1>5, <2>1 DEF KindOf
<1>7. Kept(u) = {} /\ Shown(u) = DOMAIN h /\ ~HasGap(u)
  BY <1>2, <1>3 DEF Kept, Shown, HasGap
<1>8. PartsOf(u) = {h[k] : k \in DOMAIN h}
  <2>1. PartsOf(u) = Range(<< >>) \cup Range(h)
    BY <1>2 DEF PartsOf
  <2>2. Range(<< >>) = {}
    BY <1>3 DEF Range
  <2> QED BY <2>1, <2>2 DEF Range
<1> QED BY <1>1, <1>2, <1>4, <1>5, <1>6, <1>7, <1>8, Zenon DEF HasOtherHalf, TwoHalves

LEMMA ImageOfArray ==
  ASSUME AtomsApart, NEW d, Whence(d), NEW n \in 0..MaxLevels, NEW x \in Level(d)[n],
         IsNested(x), x.kind = "array", NEW below, below = Images(d)[n + 1]
  PROVE  \E s : /\ Images(d)[n][x] = Table(s, << >>, 0) /\ IsSeq(s)
                /\ DOMAIN s = DOMAIN x.items /\ IsSeq(x.items)
                /\ \A i \in DOMAIN s :
                     /\ s[i] = below[x.items[i]] /\ x.items[i] \in Level(d)[n + 1]
                     /\ n + 1 \in 1..MaxLevels /\ s[i] # Opaque
<1> DEFINE s == [i \in DOMAIN x.items |-> below[x.items[i]]]
<1>1. Images(d)[n][x] = Table(s, << >>, 0) /\ IsProper(x)
  <2>1. IsProper(x) /\ Images(d)[n][x] = TableFrom(x, below)
    BY ImageOf
  <2>2. TableFrom(x, below) = Table(s, << >>, 0)
    BY Zenon DEF TableFrom
  <2> QED BY <2>1, <2>2, Zenon
<1>2. IsSeq(x.items) /\ x = Array(x.items)
  BY <1>1 DEF IsProper
<1>3. DOMAIN x.items = 1..Len(x.items) /\ Len(x.items) \in Nat
  BY <1>2, SeqAppend
<1>4. PartsOf(x) = {x.items[i] : i \in DOMAIN x.items}
  <2>1. x.kind # "table"
    OBVIOUS
  <2> QED BY <2>1 DEF PartsOf, Range
<1>5. \A i \in DOMAIN x.items : x.items[i] \in Level(d)[n + 1] /\ n + 1 \in 1..MaxLevels
  BY <1>4, PartsClosed DEF Whence
<1>6. DOMAIN s = DOMAIN x.items /\ \A i \in DOMAIN x.items : s[i] = below[x.items[i]]
  OBVIOUS
<1>7. IsSeq(s)
  <2> DEFINE S == {s[i] : i \in DOMAIN s}
  <2>1. s \in [1..Len(x.items) -> S]
    BY <1>3
  <2> HIDE DEF s, S
  <2>2. s \in Seq(S)
    BY <1>3, <2>1
  <2> QED BY <2>2, SeqIs
<1>8. \A i \in DOMAIN x.items : below[x.items[i]] # Opaque
  <2>1. \A m \in 1..MaxLevels : m \in 0..MaxLevels
    OBVIOUS
  <2> QED BY <1>5, <2>1, ImageKind
<1> HIDE DEF s
<1> WITNESS s
<1> QED BY <1>1, <1>2, <1>5, <1>6, <1>7, <1>8

LEMMA ImageOfObject ==
  ASSUME AtomsApart, NEW d, Whence(d), NEW n \in 0..MaxLevels, NEW x \in Level(d)[n],
         IsNested(x), x.kind = "object", NEW below, below = Images(d)[n + 1]
  PROVE  \E h : /\ Images(d)[n][x] = Table(<< >>, h, 0) /\ DOMAIN h = CountedOf(x)
                /\ DOMAIN h \subseteq Strings \ {Digits} /\ IsFiniteSet(DOMAIN h)
                /\ IsProper(x)
                /\ \A k \in DOMAIN h : \E j \in 1..Size(x) : k = x.pairs[j][1]
                /\ \A j \in 1..Size(x) :
                     /\ j \in DOMAIN x.pairs
                     /\ h[x.pairs[j][1]] = below[x.pairs[j][2]] /\ x.pairs[j][2] \in Level(d)[n + 1]
                     /\ n + 1 \in 1..MaxLevels /\ h[x.pairs[j][1]] # Opaque
<1> DEFINE Place(k) == CHOOSE i \in DOMAIN x.pairs : x.pairs[i][1] = k
           h == [k \in KeysOf(x) \ Uncounted(x) |-> below[x.pairs[Place(k)][2]]]
<1>1. Images(d)[n][x] = Table(<< >>, h, 0) /\ IsProper(x)
  <2>1. IsProper(x) /\ Images(d)[n][x] = TableFrom(x, below)
    BY ImageOf
  <2>2. x.kind # "array"
    OBVIOUS
  <2>3. TableFrom(x, below) = Table(<< >>, h, 0)
    BY <2>2, Zenon DEF TableFrom
  <2> QED BY <2>1, <2>3, Zenon
<1>2. /\ KeysOf(x) \ Uncounted(x) = CountedOf(x) /\ 1..Size(x) \subseteq DOMAIN x.pairs
      /\ CountedOf(x) \subseteq Strings \ {Digits} /\ IsFiniteSet(CountedOf(x))
      /\ OneEach(x.pairs)
  BY <1>1, CountedIs, ProperCounts
<1>3. CountedOf(x) = {x.pairs[j][1] : j \in 1..Size(x)}
  BY DEF CountedOf, FirstsTo
<1>4. PartsOf(x) = {x.pairs[i][2] : i \in DOMAIN x.pairs}
  <2>1. x.kind # "table" /\ x.kind # "array"
    OBVIOUS
  <2> QED BY <2>1 DEF PartsOf
<1>5. \A j \in DOMAIN x.pairs : x.pairs[j][2] \in Level(d)[n + 1] /\ n + 1 \in 1..MaxLevels
  <2>1. \A y \in PartsOf(x) : n + 1 \in 1..MaxLevels /\ y \in Level(d)[n + 1]
    BY PartsClosed DEF Whence
  <2>2. \A j \in DOMAIN x.pairs : x.pairs[j][2] \in PartsOf(x)
    BY <1>4
  <2> QED BY <2>1, <2>2, Zenon
<1>6. \A j \in DOMAIN x.pairs : x.pairs[j][1] \in KeysOf(x) /\ Place(x.pairs[j][1]) = j
  <2> SUFFICES ASSUME NEW j \in DOMAIN x.pairs PROVE x.pairs[j][1] \in KeysOf(x) /\ Place(x.pairs[j][1]) = j
    OBVIOUS
  <2>1. Place(x.pairs[j][1]) \in DOMAIN x.pairs /\ x.pairs[Place(x.pairs[j][1])][1] = x.pairs[j][1]
    OBVIOUS
  <2> HIDE DEF Place
  <2> QED BY <1>2, <2>1 DEF OneEach, KeysOf
<1> HIDE DEF Place
<1>7. DOMAIN h = CountedOf(x) /\ \A j \in 1..Size(x) : h[x.pairs[j][1]] = below[x.pairs[j][2]]
  <2>1. \A j \in 1..Size(x) : x.pairs[j][1] \in CountedOf(x) /\ Place(x.pairs[j][1]) = j
    BY <1>2, <1>3, <1>6
  <2> QED BY <1>2, <2>1
<1>8. \A j \in DOMAIN x.pairs : below[x.pairs[j][2]] # Opaque
  <2>1. \A m \in 1..MaxLevels : m \in 0..MaxLevels
    OBVIOUS
  <2> QED BY <1>5, <2>1, ImageKind
<1>9. \A k \in CountedOf(x) : \E j \in 1..Size(x) : k = x.pairs[j][1]
  BY <1>3
<1> HIDE DEF h
<1> WITNESS h
<1> QED BY <1>1, <1>2, <1>5, <1>7, <1>8, <1>9


\* A table whose conversion goes on to no other half and meets no gap.
Plain(u) ==
  /\ IsNested(u) /\ IsTable(u)
  /\ ~HasOtherHalf(u) /\ ~TwoHalves(u) /\ ~IsMixed(u) /\ ~HasGap(u)

LEMMA ImagePlain ==
  ASSUME AtomsApart, NEW d, Whence(d), NEW n \in 0..MaxLevels, NEW x \in Level(d)[n], IsNested(x)
  PROVE  /\ Plain(Images(d)[n][x])
         /\ \A v \in PartsOf(Images(d)[n][x]) :
              n + 1 \in 1..MaxLevels /\ \E y \in Level(d)[n + 1] : v = Images(d)[n + 1][y]
<1>1. PICK u, below : u = Images(d)[n][x] /\ below = Images(d)[n + 1]
  OBVIOUS
<1>2. x.kind \in {"array", "object"}
  BY ImageOf
<1>3. CASE x.kind = "array"
  <2>1. PICK s : /\ Images(d)[n][x] = Table(s, << >>, 0) /\ IsSeq(s)
                 /\ DOMAIN s = DOMAIN x.items
                 /\ \A i \in DOMAIN s :
                      /\ s[i] = below[x.items[i]] /\ x.items[i] \in Level(d)[n + 1]
                      /\ n + 1 \in 1..MaxLevels /\ s[i] # Opaque
    BY <1>1, <1>3, ImageOfArray
  <2>2. u = Table(s, << >>, 0) /\ \A i \in DOMAIN s : s[i] # Opaque
    BY <1>1, <2>1, Zenon
  <2>3. Plain(u) /\ PartsOf(u) = {s[i] : i \in DOMAIN s}
    BY <2>1, <2>2, ListOnly, Zenon DEF Plain
  <2> QED BY <1>1, <2>1, <2>3
<1>4. CASE x.kind = "object"
  <2>1. PICK h : /\ Images(d)[n][x] = Table(<< >>, h, 0) /\ DOMAIN h = CountedOf(x)
                 /\ DOMAIN h \subseteq Strings \ {Digits} /\ IsFiniteSet(DOMAIN h)
                 /\ IsProper(x)
                 /\ \A k \in DOMAIN h : \E j \in 1..Size(x) : k = x.pairs[j][1]
                 /\ \A j \in 1..Size(x) :
                      /\ j \in DOMAIN x.pairs
                      /\ h[x.pairs[j][1]] = below[x.pairs[j][2]] /\ x.pairs[j][2] \in Level(d)[n + 1]
                      /\ n + 1 \in 1..MaxLevels /\ h[x.pairs[j][1]] # Opaque
    BY <1>1, <1>4, ImageOfObject
  <2>2. \A k \in DOMAIN h : /\ n + 1 \in 1..MaxLevels /\ h[k] # Opaque
                            /\ \E y \in Level(d)[n + 1] : h[k] = below[y]
    BY <2>1
  <2>3. u = Table(<< >>, h, 0) /\ DOMAIN h \subseteq Strings \ {Digits} /\ IsFiniteSet(DOMAIN h)
    BY <1>1, <2>1, Zenon
  <2>4. Plain(u) /\ PartsOf(u) = {h[k] : k \in DOMAIN h}
    BY <2>2, <2>3, KeysOnly, Zenon DEF Plain
  <2> QED BY <1>1, <2>2, <2>4
<1> QED BY <1>2, <1>3, <1>4

LEMMA CopiesGround ==
  ASSUME AtomsApart, NEW d, Whence(d)
  PROVE  /\ Ground(Nested(TableOf(d), 0), Copies(d))
         /\ \A u \in {TableOf(d)} \cup Copies(d) : Plain(u)
<1> DEFINE t == TableOf(d)
<1>1. d \in Level(d)[0] /\ 0 \in 0..MaxLevels /\ IsNested(d)
  BY PartsClosed, ValuesAssumption DEF Whence
<1>2. ASSUME NEW u \in {t} \cup Copies(d)
      PROVE  \E n \in 0..MaxLevels : \E x \in Level(d)[n] : IsNested(x) /\ u = Images(d)[n][x]
  <2>1. CASE u = t
    BY <1>1, <2>1 DEF TableOf
  <2>2. CASE u \in Copies(d)
    <3>1. PICK n \in 1..MaxLevels : u \in {Images(d)[n][x] : x \in {y \in Level(d)[n] : IsNested(y)}}
      BY <2>2 DEF Copies
    <3>2. n \in 0..MaxLevels
      OBVIOUS
    <3> QED BY <3>1, <3>2
  <2> QED BY <2>1, <2>2
<1>3. ASSUME NEW u \in {t} \cup Copies(d)
      PROVE  Plain(u) /\ \A v \in PartsOf(u) : IsNested(v) => v \in Copies(d)
  <2>0. PICK n \in 0..MaxLevels : \E x \in Level(d)[n] : IsNested(x) /\ u = Images(d)[n][x]
    BY <1>2
  <2>1. PICK x \in Level(d)[n] : IsNested(x) /\ u = Images(d)[n][x]
    BY <2>0
  <2>2. /\ Plain(u)
        /\ \A v \in PartsOf(u) :
              n + 1 \in 1..MaxLevels /\ \E y \in Level(d)[n + 1] : v = Images(d)[n + 1][y]
    BY <2>1, ImagePlain
  <2>3. ASSUME NEW v \in PartsOf(u), IsNested(v) PROVE v \in Copies(d)
    <3>1. PICK y \in Level(d)[n + 1] : v = Images(d)[n + 1][y]
      BY <2>2
    <3>2. n + 1 \in 1..MaxLevels /\ n + 1 \in 0..MaxLevels
      BY <2>2
    <3>3. IsNested(y)
      BY <2>3, <3>1, <3>2, ImageKind
    <3> QED BY <3>1, <3>2, <3>3 DEF Copies
  <2> QED BY <2>2, <2>3
<1> HIDE DEF t
<1>4. KindOf(t) \in {"array", "object"} /\ HasOtherHalf(t) = FALSE
  <2>1. ~HasOtherHalf(t)
    BY <1>3 DEF Plain
  <2>2. HasOtherHalf(t) \in BOOLEAN
    BY DEF HasOtherHalf
  <2> QED BY <2>1, <2>2 DEF KindOf
<1>5. Nested(t, 0) = Activity(t, KindOf(t), HasOtherHalf(t), NoName, 0, FALSE)
  BY Zenon DEF Nested
<1>6. PICK s, kind, more : s = Nested(t, 0) /\ kind = KindOf(t) /\ more = HasOtherHalf(t)
  OBVIOUS
<1>7. s = Activity(t, kind, more, NoName, 0, FALSE)
  BY <1>5, <1>6, Zenon
<1>8. s.table = t
  BY <1>7 DEF Activity
<1>9. Ground(s, Copies(d))
  <2>1. \A u \in {s.table} \cup Copies(d) :
          IsNested(u) /\ IsTable(u) /\ \A v \in PartsOf(u) : IsNested(v) => v \in Copies(d)
    BY <1>3, <1>8 DEF Plain
  <2>2. kind \in {"array", "object"} /\ more \in BOOLEAN /\ NoName \in Strings \cup {NoName}
    BY <1>4, <1>6
  <2> QED BY <1>7, <1>8, <2>1, <2>2, Zenon DEF Ground
<1>10. Ground(Nested(t, 0), Copies(d))
  BY <1>6, <1>9, Zenon
<1> QED BY <1>3, <1>10 DEF t

\* The way back never fails.
LEMMA CopiesOutcome ==
  ASSUME AtomsApart, NEW d, Whence(d), NEW e, e # Nothing,
         Outcome(Nested(TableOf(d), 0), Copies(d), e)
  PROVE  IsElement(e) /\ IsNested(e) /\ WellMade(e) /\ Stands(ClaimOf(e, TableOf(d)))
<1>1. PICK t, s, V : t = TableOf(d) /\ s = Nested(t, 0) /\ V = Copies(d)
  OBVIOUS
<1>2. Ground(s, V) /\ (\A u \in {t} \cup V : Plain(u)) /\ Outcome(s, V, e)
  BY <1>1, CopiesGround, Zenon
<1>3. PICK kind, more : kind = KindOf(t) /\ more = HasOtherHalf(t)
  OBVIOUS
<1>4. more = FALSE /\ TwoHalves(t) = FALSE
  <2>1. ~HasOtherHalf(t) /\ ~TwoHalves(t)
    BY <1>2 DEF Plain
  <2>2. HasOtherHalf(t) \in BOOLEAN /\ TwoHalves(t) \in BOOLEAN
    BY DEF HasOtherHalf, TwoHalves
  <2> QED BY <1>3, <2>1, <2>2
<1>5. kind \in {"array", "object"}
  BY <1>3 DEF KindOf
<1>6. s.table = t /\ s.more = more /\ s.name = NoName /\ s.doc.kind = kind
  <2>1. s = Activity(t, kind, more, NoName, 0, FALSE)
    BY <1>1, <1>3, Zenon DEF Nested
  <2>2. EmptyOf(kind).kind = kind
    BY <1>5 DEF EmptyOf, Array, Object, Listing
  <2> QED BY <2>1, <2>2 DEF Activity
<1>7. NoName # Digits
  BY ValuesAssumption DEF Strings
<1>8. e # Raised
  <2>1. ~RaisesFor(s, V)
    BY <1>2, <1>6, <1>7 DEF RaisesFor, Plain
  <2> QED BY <1>2, <2>1 DEF Outcome
<1>9. e # Crashed
  <2>1. ~CrashesFor(s, V)
    BY <1>2, <1>4, <1>6 DEF CrashesFor, Plain
  <2> QED BY <1>2, <2>1 DEF Outcome
<1>10. IsElement(e)
  BY <1>8, <1>9 DEF IsElement, Failures
<1>11. Exact(V)
  <2> SUFFICES ASSUME NEW u \in V PROVE HasOtherHalf(u) = TwoHalves(u)
    BY DEF Exact
  <2>1. ~HasOtherHalf(u) /\ ~TwoHalves(u)
    BY <1>2 DEF Plain
  <2>2. HasOtherHalf(u) \in BOOLEAN /\ TwoHalves(u) \in BOOLEAN
    BY DEF HasOtherHalf, TwoHalves
  <2> QED BY <2>1, <2>2
<1>12. IsNested(e) /\ WellMade(e) /\ Stands(Claim(e, t, kind, more, NoName))
  BY <1>2, <1>6, <1>10, <1>11, Zenon DEF Outcome
<1>13. ClaimOf(e, t) = Claim(e, t, kind, more, NoName)
  <2>1. more = TwoHalves(t)
    BY <1>4
  <2> QED BY <1>3, <2>1, Zenon DEF ClaimOf
<1> QED BY <1>1, <1>10, <1>12, <1>13, Zenon


-------------------------------------------------------------------------------
(***************************************************************************)
(* There and back.                                                         *)
(***************************************************************************)
\* What a claim says of an element that has no other half.
LEMMA ListStands ==
  ASSUME NEW p, NEW u, KindOf(u) = "array", ~TwoHalves(u), Stands(ClaimOf(p, u))
  PROVE  /\ IsNested(p) /\ p.kind = "array" /\ DOMAIN p.items = Kept(u)
         /\ \A i \in Kept(u) :
              /\ u.list[i] \in Scalars => p.items[i] = u.list[i]
              /\ IsNested(u.list[i]) => Stands(ClaimOf(p.items[i], u.list[i]))
<1>1. PICK c, items, list : c = ClaimOf(p, u) /\ items = p.items /\ list = u.list
  OBVIOUS
<1>2. c.doc = p /\ c.table = u /\ c.kind = "array" /\ c.both = TwoHalves(u) /\ c.name = NoName
  BY <1>1, ClaimIs DEF ClaimOf
<1>3. Holds(c) /\ \A q \in Followers(c) : Stands(q)
  BY <1>1, StandsDown
<1>4. ~KeysBehind(c)
  BY <1>2 DEF KeysBehind
<1>5. Matched(c) = {<<items[i], list[i]>> : i \in Kept(u)}
  BY <1>1, <1>2 DEF Matched
<1>6. IsNested(p) /\ p.kind = "array" /\ DOMAIN p.items = Kept(u)
  BY <1>2, <1>3, <1>4 DEF Holds
<1>7. ASSUME NEW i \in Kept(u)
      PROVE  /\ list[i] \in Scalars => items[i] = list[i]
             /\ IsNested(list[i]) => Stands(ClaimOf(items[i], list[i]))
  <2>1. PICK m : m = <<items[i], list[i]>>
    OBVIOUS
  <2>2. m \in Matched(c) /\ m[1] = items[i] /\ m[2] = list[i]
    BY <1>5, <2>1
  <2>3. list[i] \in Scalars => items[i] = list[i]
    BY <1>3, <2>2 DEF Holds
  <2>4. IsNested(list[i]) => ClaimOf(items[i], list[i]) \in Followers(c)
    <3>1. IsNested(list[i]) => ClaimOf(m[1], m[2]) \in Followers(c)
      BY <2>2 DEF Followers
    <3> QED BY <2>2, <3>1, Zenon
  <2> QED BY <1>3, <2>3, <2>4
<1> QED BY <1>1, <1>6, <1>7

LEMMA HashStands ==
  ASSUME NEW p, NEW u, KindOf(u) = "object", ~TwoHalves(u), Stands(ClaimOf(p, u))
  PROVE  /\ IsNested(p) /\ p.kind = "object" /\ KeysOf(p) = Shown(u)
         /\ Len(p.pairs) - Size(p) = (IF EnvKey \in KeysOf(p) THEN 1 ELSE 0)
         /\ \A i \in DOMAIN p.pairs :
              /\ u.hash[p.pairs[i][1]] \in Scalars => p.pairs[i][2] = u.hash[p.pairs[i][1]]
              /\ IsNested(u.hash[p.pairs[i][1]])
                   => Stands(ClaimOf(p.pairs[i][2], u.hash[p.pairs[i][1]]))
<1>1. PICK c, pairs, hash : c = ClaimOf(p, u) /\ pairs = p.pairs /\ hash = u.hash
  OBVIOUS
<1>2. c.doc = p /\ c.table = u /\ c.kind = "object" /\ c.both = TwoHalves(u) /\ c.name = NoName
  BY <1>1, ClaimIs DEF ClaimOf
<1>3. Holds(c) /\ \A q \in Followers(c) : Stands(q)
  BY <1>1, StandsDown
<1>4. ~ListUnder(c)
  BY <1>2 DEF ListUnder
<1>5. Matched(c) = {<<pairs[i][2], hash[pairs[i][1]]>> : i \in DOMAIN pairs}
  BY <1>1, <1>2, <1>4 DEF Matched
<1>6. IsNested(p) /\ p.kind = "object" /\ KeysOf(p) = Shown(u)
  BY <1>2, <1>3, <1>4 DEF Holds
<1>8. Len(p.pairs) - Size(p) = (IF EnvKey \in KeysOf(p) THEN 1 ELSE 0)
  <2>1. Len(p.pairs) - Size(p) \in PairsBack(c)
    BY <1>2, <1>3 DEF Holds
  <2>2. PairsBack(c) = IF EnvKey \in KeysOf(p) THEN {1} ELSE {0}
    BY <1>2, <1>4, Zenon DEF PairsBack
  <2> QED BY <2>1, <2>2
<1>7. ASSUME NEW i \in DOMAIN pairs, NEW v, v = hash[pairs[i][1]], NEW x, x = pairs[i][2]
      PROVE  (v \in Scalars => x = v) /\ (IsNested(v) => Stands(ClaimOf(x, v)))
  <2>1. PICK m : m = <<x, v>>
    OBVIOUS
  <2>2. m \in Matched(c) /\ m[1] = x /\ m[2] = v
    BY <1>5, <1>7, <2>1
  <2>3. v \in Scalars => x = v
    BY <1>3, <2>2 DEF Holds
  <2>4. IsNested(v) => ClaimOf(x, v) \in Followers(c)
    <3>1. IsNested(v) => ClaimOf(m[1], m[2]) \in Followers(c)
      BY <2>2 DEF Followers
    <3> QED BY <2>2, <3>1, Zenon
  <2> QED BY <1>3, <2>3, <2>4
<1> QED BY <1>1, <1>6, <1>7, <1>8

\* What a copy is made of: those of its parts, or those of the pairs it has counted.
LEMMA CopyIs ==
  ASSUME AtomsApart, NEW d, NEW k \in 0..MaxLevels, NEW x \in Level(d)[k], IsNested(x), IsProper(x),
         NEW e, e = CopyAt(d)[k][x], NEW below, below = CopyAt(d)[k + 1]
  PROVE  /\ IsNested(e) /\ e.kind = x.kind
         /\ x.kind = "array" => e.items = [i \in DOMAIN x.items |-> below[x.items[i]]]
         /\ x.kind = "object" =>
              /\ e.pairs = [i \in 1..Size(x) |-> <<x.pairs[i][1], below[x.pairs[i][2]]>>]
              /\ Size(e) = IF EnvKey \in CountedOf(x) THEN Size(x) - 1 ELSE Size(x)
              /\ KeysOf(e) = CountedOf(x)
<1>1. e = CopyFrom(x, below)
  <2>1. CopyAt(d)[k] = [y \in Level(d)[k] |-> CopyFrom(y, CopyAt(d)[k + 1])]
    BY CopyAtIs, Zenon
  <2> QED BY <2>1, Zenon
<1>2. CASE x.kind = "array"
  <2>1. PICK s : s = [i \in DOMAIN x.items |-> below[x.items[i]]]
    OBVIOUS
  <2>2. e = Array(s)
    BY <1>1, <1>2, <2>1, Zenon DEF CopyFrom
  <2>3. e \notin Scalars \cup {Opaque}
    BY <2>2, Zenon DEF AtomsApart
  <2> QED BY <1>2, <2>1, <2>2, <2>3 DEF Array, IsNested
<1>3. CASE x.kind = "object"
  <2>1. PICK s : s = [i \in 1..Size(x) |-> <<x.pairs[i][1], below[x.pairs[i][2]]>>]
    OBVIOUS
  <2>2. PICK n : n = IF EnvKey \in KeysOf(x) \ Uncounted(x) THEN Size(x) - 1 ELSE Size(x)
    OBVIOUS
  <2>3. e = Listing(s, n)
    <3>1. x.kind # "array"
      BY <1>3
    <3> QED BY <1>1, <2>1, <2>2, <3>1, Zenon DEF CopyFrom
  <2>4. e \notin Scalars \cup {Opaque}
    BY <2>3, Zenon DEF AtomsApart
  <2>5. e.kind = "object" /\ e.pairs = s /\ e.count = n
    BY <2>3 DEF Listing
  <2>6. KeysOf(e) = CountedOf(x)
    BY <2>1, <2>5 DEF KeysOf, CountedOf, FirstsTo
  <2>7. KeysOf(x) \ Uncounted(x) = CountedOf(x)
    BY <1>3, CountedIs
  <2> QED BY <1>3, <2>1, <2>2, <2>4, <2>5, <2>6, <2>7 DEF IsNested, Size
<1> QED BY <1>2, <1>3 DEF IsProper

\* p has come back in the place of e, which is the copy of x.
Back(d, p, e) ==
  \E k \in 0..MaxLevels : \E x \in Level(d)[k] :
    /\ e = CopyAt(d)[k][x]
    /\ IF IsNested(x) THEN Stands(ClaimOf(p, Images(d)[k][x])) ELSE p = x

LEMMA BackIn ==
  ASSUME AtomsApart, NEW d, Whence(d), NEW k \in 0..MaxLevels, NEW y \in Level(d)[k],
         NEW v, v = Images(d)[k][y], NEW p, NEW e, e = CopyAt(d)[k][y],
         v \in Scalars => p = v, IsNested(v) => Stands(ClaimOf(p, v))
  PROVE  Back(d, p, e)
<1>1. CASE IsNested(y)
  <2>1. IsNested(v)
    BY <1>1, ImageKind
  <2> QED BY <1>1, <2>1 DEF Back
<1>2. CASE ~IsNested(y)
  <2>1. y \in Scalars /\ v = TableFrom(y, Images(d)[k + 1])
    BY <1>2, ImageOf
  <2>2. v = y
    BY <1>2, <2>1, Zenon DEF TableFrom
  <2> QED BY <1>2, <2>1, <2>2 DEF Back
<1> QED BY <1>1, <1>2

LEMMA BackDown ==
  ASSUME AtomsApart, NEW d, Whence(d), ~HasEmptyObject(d), NEW p, IsNested(p) => IsProper(p),
         NEW e, Back(d, p, e)
  PROVE  Alike(p, e) /\ \A m \in Partners(p, e) : Back(d, m[1], m[2])
<1>0. PICK k \in 0..MaxLevels : \E x \in Level(d)[k] :
        /\ e = CopyAt(d)[k][x]
        /\ IF IsNested(x) THEN Stands(ClaimOf(p, Images(d)[k][x])) ELSE p = x
  BY DEF Back
<1>1. PICK x \in Level(d)[k] :
        /\ e = CopyAt(d)[k][x]
        /\ IF IsNested(x) THEN Stands(ClaimOf(p, Images(d)[k][x])) ELSE p = x
  BY <1>0
<1>2. x \in Parts(d)
  BY <1>1 DEF Parts
<1>3. CASE ~IsNested(x)
  <2>1. CopyAt(d)[k] = [y \in Level(d)[k] |-> CopyFrom(y, CopyAt(d)[k + 1])]
    BY CopyAtIs, Zenon
  <2>2. e = CopyFrom(x, CopyAt(d)[k + 1])
    BY <1>1, <2>1, Zenon
  <2>3. e = x
    BY <1>3, <2>2, Zenon DEF CopyFrom
  <2> QED BY <1>1, <1>3, <2>3 DEF Alike, Partners
<1>9. PICK copies : copies = CopyAt(d)[k + 1]
  OBVIOUS
<1>10. IsNested(x) =>
         /\ IsNested(e) /\ e.kind = x.kind
         /\ x.kind = "array" => e.items = [i \in DOMAIN x.items |-> copies[x.items[i]]]
         /\ x.kind = "object" =>
              /\ e.pairs = [i \in 1..Size(x) |-> <<x.pairs[i][1], copies[x.pairs[i][2]]>>]
              /\ Size(e) = IF EnvKey \in CountedOf(x) THEN Size(x) - 1 ELSE Size(x)
              /\ KeysOf(e) = CountedOf(x)
  <2>1. IsNested(x) => IsProper(x)
    BY ImageOf
  <2> QED BY <1>1, <1>9, <2>1, CopyIs
<1>4. PICK u, below, next : u = Images(d)[k][x] /\ below = Images(d)[k + 1] /\ next = k + 1
  OBVIOUS
<1>5. \A n \in 1..MaxLevels : n \in 0..MaxLevels
  OBVIOUS
<1>6. CASE IsNested(x) /\ x.kind = "array"
  <2>1. PICK s : /\ Images(d)[k][x] = Table(s, << >>, 0) /\ IsSeq(s)
                 /\ DOMAIN s = DOMAIN x.items /\ IsSeq(x.items)
                 /\ \A i \in DOMAIN s :
                      /\ s[i] = below[x.items[i]] /\ x.items[i] \in Level(d)[k + 1]
                      /\ k + 1 \in 1..MaxLevels /\ s[i] # Opaque
    BY <1>1, <1>4, <1>6, ImageOfArray
  <2>2. u = Table(s, << >>, 0) /\ \A i \in DOMAIN s : s[i] # Opaque
    BY <1>4, <2>1, Zenon
  <2>3. KindOf(u) = "array" /\ ~TwoHalves(u) /\ Kept(u) = DOMAIN s
    BY <2>1, <2>2, ListOnly, Zenon
  <2>4. u.list = s
    BY <2>2, TableMade
  <2>5. Stands(ClaimOf(p, u))
    BY <1>1, <1>4, <1>6
  <2>6. PICK items, parts : items = p.items /\ parts = e.items
    OBVIOUS
  <2>7. /\ IsNested(p) /\ p.kind = "array" /\ DOMAIN items = DOMAIN s
        /\ \A i \in DOMAIN s : /\ s[i] \in Scalars => items[i] = s[i]
                               /\ IsNested(s[i]) => Stands(ClaimOf(items[i], s[i]))
    <3>1. /\ IsNested(p) /\ p.kind = "array" /\ DOMAIN p.items = Kept(u)
          /\ \A i \in Kept(u) :
               /\ u.list[i] \in Scalars => p.items[i] = u.list[i]
               /\ IsNested(u.list[i]) => Stands(ClaimOf(p.items[i], u.list[i]))
      BY <2>3, <2>5, ListStands
    <3> QED BY <2>3, <2>4, <2>6, <3>1
  <2>16. DOMAIN parts = DOMAIN s /\ \A i \in DOMAIN s : parts[i] = copies[x.items[i]]
    BY <1>6, <1>10, <2>1, <2>6
  <2>8. IsSeq(items) /\ DOMAIN parts = DOMAIN items
    BY <2>6, <2>7, <2>16 DEF IsProper
  <2>9. Alike(p, e)
    <3>1. Len(items) \in Nat /\ DOMAIN items = 1..Len(items)
      BY <2>8, SeqAppend
    <3>4. parts \in Seq(Range(parts))
      <4>1. parts = [i \in DOMAIN x.items |-> copies[x.items[i]]]
        BY <1>6, <1>10, <2>6
      <4>2. DOMAIN x.items = 1..Len(items)
        BY <2>1, <2>8, <2>16, <3>1
      <4>3. parts \in [1..Len(items) -> Range(parts)]
        BY <4>1, <4>2 DEF Range
      <4> QED BY <3>1, <4>3
    <3>2. Len(items) = Len(parts)
      BY <2>8, <3>1, <3>4
    <3>3. Size(p) = Len(items) /\ Size(e) = Len(parts)
      BY <1>6, <1>10, <2>6, <2>7 DEF Size
    <3> QED BY <1>6, <1>10, <2>7, <3>2, <3>3 DEF Alike
  <2>10. \A i \in DOMAIN s : Back(d, items[i], parts[i])
    <3> SUFFICES ASSUME NEW i \in DOMAIN s PROVE Back(d, items[i], parts[i])
      OBVIOUS
    <3>1. PICK y, v, q, c : y = x.items[i] /\ v = s[i] /\ q = items[i] /\ c = parts[i]
      OBVIOUS
    <3>2. /\ next \in 0..MaxLevels /\ y \in Level(d)[next] /\ v = Images(d)[next][y]
          /\ c = CopyAt(d)[next][y]
      BY <1>4, <1>5, <1>9, <2>1, <2>16, <3>1
    <3>3. (v \in Scalars => q = v) /\ (IsNested(v) => Stands(ClaimOf(q, v)))
      BY <2>7, <3>1
    <3> QED BY <3>1, <3>2, <3>3, BackIn
  <2>11. Partners(p, e) = {<<items[i], parts[i]>> : i \in DOMAIN s}
    BY <1>6, <1>10, <2>6, <2>7 DEF Partners
  <2>12. \A m \in Partners(p, e) : Back(d, m[1], m[2])
    <3> SUFFICES ASSUME NEW m \in Partners(p, e) PROVE Back(d, m[1], m[2])
      OBVIOUS
    <3>1. PICK i \in DOMAIN s : m = <<items[i], parts[i]>>
      BY <2>11
    <3>2. m[1] = items[i] /\ m[2] = parts[i]
      BY <3>1
    <3> QED BY <2>10, <3>2, Zenon
  <2> QED BY <2>9, <2>12
<1>7. CASE IsNested(x) /\ x.kind = "object"
  <2>1. PICK h : /\ Images(d)[k][x] = Table(<< >>, h, 0) /\ DOMAIN h = CountedOf(x)
                 /\ DOMAIN h \subseteq Strings \ {Digits} /\ IsFiniteSet(DOMAIN h)
                 /\ IsProper(x)
                 /\ \A q \in DOMAIN h : \E j \in 1..Size(x) : q = x.pairs[j][1]
                 /\ \A j \in 1..Size(x) :
                      /\ j \in DOMAIN x.pairs
                      /\ h[x.pairs[j][1]] = below[x.pairs[j][2]] /\ x.pairs[j][2] \in Level(d)[k + 1]
                      /\ k + 1 \in 1..MaxLevels /\ h[x.pairs[j][1]] # Opaque
    BY <1>1, <1>4, <1>7, ImageOfObject
  <2>2. PICK pairs, parts : pairs = p.pairs /\ parts = e.pairs
    OBVIOUS
  <2>16. /\ Size(x) \in Nat /\ Cardinality(CountedOf(x)) = Size(x) /\ DOMAIN parts = 1..Size(x)
         /\ \A j \in 1..Size(x) : parts[j][1] = x.pairs[j][1] /\ parts[j][2] = copies[x.pairs[j][2]]
         /\ KeysOf(e) = CountedOf(x) /\ e.kind = "object" /\ IsNested(e)
         /\ Size(e) = IF EnvKey \in CountedOf(x) THEN Size(x) - 1 ELSE Size(x)
    BY <1>7, <1>10, <2>1, <2>2, CountedIs
  <2>3. \A q \in DOMAIN h : h[q] # Opaque
    BY <2>1
  <2>4. u = Table(<< >>, h, 0) /\ DOMAIN h \subseteq Strings \ {Digits} /\ IsFiniteSet(DOMAIN h)
    BY <1>4, <2>1, Zenon
  <2>5. DOMAIN h # {}
    <3>1. Size(x) # 0
      BY <1>2, <1>7 DEF HasEmptyObject
    <3>2. 1 \in 1..Size(x)
      BY <2>16, <3>1
    <3>3. x.pairs[1][1] \in CountedOf(x)
      BY <3>2 DEF CountedOf, FirstsTo
    <3> QED BY <2>1, <3>3, Zenon
  <2>6. KindOf(u) = (IF DOMAIN h = {} THEN "array" ELSE "object") /\ ~TwoHalves(u) /\ Shown(u) = DOMAIN h
    BY <2>3, <2>4, KeysOnly, Zenon
  <2>7. KindOf(u) = "object"
    BY <2>5, <2>6
  <2>8. u.hash = h
    BY <2>4, TableMade
  <2>9. Stands(ClaimOf(p, u))
    BY <1>1, <1>4, <1>7
  <2>10. /\ IsNested(p) /\ p.kind = "object" /\ KeysOf(p) = CountedOf(x)
         /\ Len(p.pairs) - Size(p) = (IF EnvKey \in KeysOf(p) THEN 1 ELSE 0)
         /\ \A i \in DOMAIN pairs :
              /\ h[pairs[i][1]] \in Scalars => pairs[i][2] = h[pairs[i][1]]
              /\ IsNested(h[pairs[i][1]]) => Stands(ClaimOf(pairs[i][2], h[pairs[i][1]]))
    <3>1. /\ IsNested(p) /\ p.kind = "object" /\ KeysOf(p) = Shown(u)
          /\ Len(p.pairs) - Size(p) = (IF EnvKey \in KeysOf(p) THEN 1 ELSE 0)
          /\ \A i \in DOMAIN p.pairs :
              /\ u.hash[p.pairs[i][1]] \in Scalars => p.pairs[i][2] = u.hash[p.pairs[i][1]]
              /\ IsNested(u.hash[p.pairs[i][1]])
                   => Stands(ClaimOf(p.pairs[i][2], u.hash[p.pairs[i][1]]))
      BY <2>6, <2>7, <2>9, HashStands
    <3> QED BY <2>1, <2>2, <2>6, <2>8, <3>1
  <2>11. /\ OneEach(pairs) /\ Len(pairs) \in Nat /\ DOMAIN pairs = 1..Len(pairs) /\ Size(p) \in Nat
         /\ KeysOf(p) = FirstsOf(pairs)
    BY <2>2, <2>10, ProperCounts
  <2>12. Alike(p, e)
    <3>1. Len(pairs) = Size(x)
      <4>1. Cardinality(FirstsTo(pairs, Len(pairs))) = Len(pairs)
        BY <2>11, PairsCounted
      <4>2. FirstsTo(pairs, Len(pairs)) = CountedOf(x)
        BY <2>10, <2>11 DEF FirstsTo, FirstsOf
      <4> QED BY <2>16, <4>1, <4>2
    <3>2. Size(p) = Size(e)
      <4>1. PICK n, m, q : n = Len(pairs) /\ m = Size(p) /\ q = Size(e)
        OBVIOUS
      <4>2. n \in Nat /\ m \in Nat
        BY <2>11, <4>1
      <4>3. CASE EnvKey \in CountedOf(x)
        <5>1. n - m = 1 /\ q = n - 1
          BY <2>2, <2>10, <2>16, <3>1, <4>1, <4>3
        <5> QED BY <4>1, <4>2, <5>1
      <4>4. CASE EnvKey \notin CountedOf(x)
        <5>1. n - m = 0 /\ q = n
          BY <2>2, <2>10, <2>16, <3>1, <4>1, <4>4
        <5> QED BY <4>1, <4>2, <5>1
      <4> QED BY <4>3, <4>4
    <3> QED BY <2>10, <2>16, <3>2 DEF Alike
  <2>13. ASSUME NEW i \in DOMAIN pairs, NEW j \in DOMAIN parts, pairs[i][1] = parts[j][1]
         PROVE  Back(d, pairs[i][2], parts[j][2])
    <3>1. PICK y, v, q, c : /\ y = x.pairs[j][2] /\ v = h[pairs[i][1]]
                            /\ q = pairs[i][2] /\ c = parts[j][2]
      OBVIOUS
    <3>2. /\ next \in 0..MaxLevels /\ y \in Level(d)[next] /\ v = Images(d)[next][y]
          /\ c = CopyAt(d)[next][y]
      BY <1>4, <1>5, <1>9, <2>1, <2>13, <2>16, <3>1
    <3>3. (v \in Scalars => q = v) /\ (IsNested(v) => Stands(ClaimOf(q, v)))
      BY <2>10, <3>1
    <3> QED BY <3>1, <3>2, <3>3, BackIn
  <2>14. Partners(p, e) =
           {<<pairs[q[1]][2], parts[q[2]][2]>> :
              q \in {r \in (DOMAIN pairs) \X (DOMAIN parts) : pairs[r[1]][1] = parts[r[2]][1]}}
    BY <2>2, <2>10, <2>16 DEF Partners
  <2>15. \A m \in Partners(p, e) : Back(d, m[1], m[2])
    <3> SUFFICES ASSUME NEW m \in Partners(p, e) PROVE Back(d, m[1], m[2])
      OBVIOUS
    <3>1. PICK i \in DOMAIN pairs, j \in DOMAIN parts :
            pairs[i][1] = parts[j][1] /\ m = <<pairs[i][2], parts[j][2]>>
      BY <2>14
    <3>2. m[1] = pairs[i][2] /\ m[2] = parts[j][2]
      BY <3>1
    <3> QED BY <2>13, <3>1, <3>2, Zenon
  <2> QED BY <2>12, <2>15
<1>8. IsNested(x) => x.kind \in {"array", "object"}
  BY <1>1, ImageOf
<1> QED BY <1>3, <1>6, <1>7, <1>8

\* What comes back is the same document.
LEMMA ComesBack ==
  ASSUME AtomsApart, NEW d, Whence(d), ~HasEmptyObject(d), NEW e, WellMade(e),
         Stands(ClaimOf(e, TableOf(d)))
  PROVE  Same(e, CopyOf(d))
<1>1. PICK E : e \in E /\ Solid(E)
  BY DEF WellMade
<1> DEFINE C == UNION {{CopyAt(d)[n][x] : x \in Level(d)[n]} : n \in 0..MaxLevels}
           D == {q \in E \X C : Back(d, q[1], q[2])}
<1>2. d \in Level(d)[0] /\ 0 \in 0..MaxLevels /\ IsNested(d)
  BY PartsClosed, ValuesAssumption DEF Whence
<1>3. Back(d, e, CopyOf(d))
  BY <1>2 DEF Back, TableOf, CopyOf
<1>7. \A y, z : Back(d, y, z) => z \in C
  BY DEF Back
<1> HIDE DEF C
<1>4. <<e, CopyOf(d)>> \in D
  BY <1>1, <1>3, <1>7
<1>5. ASSUME NEW q \in D PROVE Alike(q[1], q[2]) /\ Partners(q[1], q[2]) \subseteq D
  <2>1. PICK p, x : p = q[1] /\ x = q[2]
    OBVIOUS
  <2>2. p \in E /\ Back(d, p, x)
    BY <2>1
  <2>3. (IsNested(p) => IsProper(p)) /\ PartsOf(p) \subseteq E
    BY <1>1, <2>2 DEF Solid
  <2>4. Alike(p, x) /\ \A m \in Partners(p, x) : Back(d, m[1], m[2])
    BY <2>2, <2>3, BackDown
  <2>5. \A m \in Partners(p, x) : m \in E \X C
    <3> SUFFICES ASSUME NEW m \in Partners(p, x) PROVE m \in E \X C
      OBVIOUS
    <3>1. \E y, z : m = <<y, z>> /\ y \in PartsOf(p)
      <4>1. IsNested(p) /\ IsNested(x)
        BY DEF Partners
      <4>2. Alike(p, x) /\ p.kind \in {"array", "object"} /\ p.kind = x.kind
        BY <2>3, <2>4, <4>1 DEF Alike, IsProper
      <4>3. PICK items, parts, pairs, others :
              items = p.items /\ parts = x.items /\ pairs = p.pairs /\ others = x.pairs
        OBVIOUS
      <4>4. CASE p.kind = "array"
        <5>1. Partners(p, x) = {<<items[i], parts[i]>> : i \in DOMAIN items}
          BY <4>1, <4>3, <4>4 DEF Partners
        <5>2. PartsOf(p) = {items[i] : i \in DOMAIN items}
          BY <4>1, <4>3, <4>4 DEF PartsOf, Range
        <5> QED BY <5>1, <5>2
      <4>5. CASE p.kind = "object"
        <5>1. Partners(p, x) =
                {<<pairs[r[1]][2], others[r[2]][2]>> :
                  r \in {s \in (DOMAIN pairs) \X (DOMAIN others) : pairs[s[1]][1] = others[s[2]][1]}}
          BY <4>1, <4>3, <4>5 DEF Partners
        <5>2. PartsOf(p) = {pairs[i][2] : i \in DOMAIN pairs}
          BY <4>1, <4>3, <4>5 DEF PartsOf
        <5> QED BY <5>1, <5>2
      <4> QED BY <4>2, <4>4, <4>5
    <3>2. PICK y, z : m = <<y, z>> /\ y \in PartsOf(p)
      BY <3>1
    <3>3. Back(d, y, z)
      BY <2>4, <3>2
    <3>4. z \in C
      BY <1>7, <3>3
    <3> QED BY <2>3, <3>2, <3>4
  <2>6. Partners(p, x) \subseteq D
    BY <2>4, <2>5
  <2> QED BY <2>1, <2>4, <2>6
<1> HIDE DEF D
<1>6. \A n \in 0..MaxLevels : Couples(e, CopyOf(d))[n] \subseteq D
  BY <1>4, <1>5, CouplesWithin
<1> QED BY <1>5, <1>6 DEF Same


-------------------------------------------------------------------------------
(***************************************************************************)
(* The invariant.  A conversion under way is that of the table handed to   *)
(* parse_table, or that of the table which totable made of `shown`.        *)
(***************************************************************************)
NoConversion == given = Nothing /\ shown = Nothing /\ work = << >> /\ made \in Elements \cup {Nothing}

Forth ==
  /\ shown = Nothing
  /\ \E t \in Tables, o \in TableOpts :
       given = [table |-> t, opts |-> o] /\ Converting(Outermost(t, o), NestedTables(t))

ThereAndBack ==
  /\ shown # Nothing /\ Whence(shown)
  /\ Converting(Nested(TableOf(shown), 0), Copies(shown))

OnItsWay == NoConversion \/ Forth \/ ThereAndBack

LEMMA SetsOut == ASSUME AtomsApart, Init PROVE OnItsWay
<1>1. shown = Nothing
  BY DEF Init
<1>2. ASSUME NEW t \in Tables, NEW o \in TableOpts, FromTable(t, o) PROVE Forth
  <2>1. Ground(Outermost(t, o), NestedTables(t))
    BY TableGround
  <2>2. work = <<Outermost(t, o)>> /\ made = Nothing /\ given = [table |-> t, opts |-> o]
    BY <1>2 DEF FromTable
  <2>3. Converting(Outermost(t, o), NestedTables(t))
    BY <2>1, <2>2, Begins, Zenon
  <2> QED BY <1>1, <2>2, <2>3, Zenon DEF Forth
<1>3. ASSUME NEW d \in Elements, FromElement(d) PROVE NoConversion
  BY <1>1, <1>3 DEF FromElement, NoConversion
<1>4. ASSUME NEW s \in Texts, FromText(s) PROVE NoConversion
  BY <1>1, <1>4 DEF FromText, NoConversion
<1>5. \/ \E t \in Tables, o \in TableOpts : FromTable(t, o)
      \/ \E d \in Elements : FromElement(d)
      \/ \E s \in Texts : FromText(s)
  BY Zenon DEF Init
<1> QED BY <1>2, <1>3, <1>4, <1>5, Zenon DEF OnItsWay

\* What a step does to a conversion.
AnyRound == ListItem \/ HashItem \/ OtherHalf \/ Deliver

LEMMA StepIs ==
  ASSUME [Next]_vars
  PROVE  \/ (AnyRound \/ UNCHANGED <<work, made>>) /\ UNCHANGED <<given, shown>>
         \/ ToTable
<1>1. CASE Converts
  BY <1>1 DEF Converts, AnyRound
<1>2. CASE Renders
  BY <1>2 DEF Renders
<1>3. CASE Prints
  BY <1>3 DEF Prints
<1>4. CASE ToTable
  BY <1>4
<1>5. CASE Damage
  <2>1. UNCHANGED <<work, made, frames, read, given, shown, mode>>
    BY <1>5, Zenon DEF Damage
  <2>2. work' = work /\ made' = made /\ given' = given /\ shown' = shown
    BY <2>1
  <2> QED BY <2>2
<1>6. CASE Reads
  <2>1. UNCHANGED <<work, made, given, shown, mode, text, intact>>
    BY <1>6, Zenon DEF Reads
  <2>2. work' = work /\ made' = made /\ given' = given /\ shown' = shown
    BY <2>1
  <2> QED BY <2>2
<1>7. CASE UNCHANGED vars
  <2>1. work' = work /\ made' = made /\ given' = given /\ shown' = shown
    BY <1>7 DEF vars
  <2> QED BY <2>1
<1>8. Done => UNCHANGED vars
  BY Zenon DEF Done
<1> QED BY <1>1, <1>2, <1>3, <1>4, <1>5, <1>6, <1>7, <1>8, Zenon DEF Next

\* totable, and the renderer, are called on an element that is what elements are.
LEMMA MadeFits ==
  ASSUME OnItsWay, IsElement(made), WithinLevels(made), Printable(made), shown = Nothing
  PROVE  Whence(made)
<1>1. IsElement(made) /\ WithinLevels(made) /\ Printable(made) /\ shown = Nothing
  OBVIOUS
<1>2. IsNested(made) /\ \A x \in Parts(made) : IsNested(x) => IsProper(x)
  <2>1. CASE NoConversion
    <3>1. made \in Elements
      BY <1>1, <2>1 DEF NoConversion, IsElement, Failures
    <3> QED BY <3>1, ElementsAssumption
  <2>2. CASE Forth
    <3>1. PICK t \in Tables, o \in TableOpts : Converting(Outermost(t, o), NestedTables(t))
      BY <2>2, Zenon DEF Forth
    <3>2. IsNested(made) /\ WellMade(made)
      BY <1>1, <3>1, Zenon DEF Converting, Outcome
    <3>3. \A x \in Parts(made) : WellMade(x)
      <4>1. \A n \in 0..MaxLevels : n \in 0..MaxLevels + 1
        BY ValuesAssumption
      <4> QED BY <3>2, <4>1, LevelsWellMade DEF Parts
    <3> QED BY <3>2, <3>3, WellMadeDown
  <2>3. CASE ThereAndBack
    BY <1>1, <2>3 DEF ThereAndBack
  <2> QED BY <2>1, <2>2, <2>3 DEF OnItsWay
<1> QED BY <1>1, <1>2 DEF Whence

LEMMA GoesOn ==
  ASSUME AtomsApart, OnItsWay, [Next]_vars
  PROVE  OnItsWay'
<1>1. CASE (AnyRound \/ UNCHANGED <<work, made>>) /\ UNCHANGED <<given, shown>>
  <2>1. CASE NoConversion
    <3>1. UNCHANGED <<work, made>>
      <4>1. ~Busy
        BY <2>1 DEF NoConversion, Busy
      <4>2. ~AnyRound
        BY <4>1, Zenon DEF AnyRound, ListItem, HashItem, OtherHalf, Deliver, InList, InHash, AtEnd
      <4> QED BY <1>1, <4>2
    <3>2. NoConversion'
      BY <1>1, <2>1, <3>1 DEF NoConversion
    <3> QED BY <3>2 DEF OnItsWay
  <2>2. CASE Forth
    <3>1. PICK t \in Tables, o \in TableOpts :
            given = [table |-> t, opts |-> o] /\ Converting(Outermost(t, o), NestedTables(t))
      BY <2>2, Zenon DEF Forth
    <3>2. Ground(Outermost(t, o), NestedTables(t))
      BY TableGround
    <3>3. Converting(Outermost(t, o), NestedTables(t))'
      BY <1>1, <3>1, <3>2, ConvertsKeeps, Zenon DEF AnyRound
    <3>4. shown' = Nothing /\ given' = [table |-> t, opts |-> o]
      BY <1>1, <2>2, <3>1 DEF Forth
    <3>5. Forth'
      BY <3>3, <3>4, Zenon DEF Forth
    <3> QED BY <3>5 DEF OnItsWay
  <2>3. CASE ThereAndBack
    <3>1. PICK d : d = shown
      OBVIOUS
    <3>2. d # Nothing /\ Whence(d) /\ Converting(Nested(TableOf(d), 0), Copies(d))
      BY <2>3, <3>1, Zenon DEF ThereAndBack
    <3>3. Ground(Nested(TableOf(d), 0), Copies(d))
      BY <3>2, CopiesGround
    <3>4. Converting(Nested(TableOf(d), 0), Copies(d))'
      BY <1>1, <3>2, <3>3, ConvertsKeeps, Zenon DEF AnyRound
    <3>5. shown' = d
      BY <1>1, <3>1
    <3>6. ThereAndBack'
      BY <3>2, <3>4, <3>5, Zenon DEF ThereAndBack
    <3> QED BY <3>6 DEF OnItsWay
  <2> QED BY <2>1, <2>2, <2>3 DEF OnItsWay
<1>2. CASE ToTable
  <2>1. PICK d : d = made
    OBVIOUS
  <2>2. Whence(d)
    <3>1. IsElement(made) /\ WithinLevels(made) /\ Printable(made) /\ shown = Nothing
      BY <1>2, Zenon DEF ToTable
    <3> QED BY <2>1, <3>1, MadeFits
  <2>3. d # Nothing /\ shown' = d /\ made' = Nothing /\ work' = <<Nested(TableOf(d), 0)>>
    BY <1>2, <2>1, Zenon DEF ToTable, IsElement, Failures
  <2>4. Ground(Nested(TableOf(d), 0), Copies(d))
    BY <2>2, CopiesGround
  <2>5. Converting(Nested(TableOf(d), 0), Copies(d))'
    BY <2>3, <2>4, Begins, Zenon
  <2>6. ThereAndBack'
    BY <2>2, <2>3, <2>5, Zenon DEF ThereAndBack
  <2> QED BY <2>6 DEF OnItsWay
<1> QED BY <1>1, <1>2, StepIs

THEOREM ConversionsInvariant == ASSUME AtomsApart PROVE Spec => []OnItsWay
<1>1. Init => OnItsWay
  BY SetsOut
<1>2. OnItsWay /\ [Next]_vars => OnItsWay'
  BY GoesOn
<1> QED BY <1>1, <1>2, PTL DEF Spec

\* Of every table handed to parse_table, and with all its options.
LEMMA WayIsComplete == ASSUME AtomsApart, OnItsWay PROVE ConvertedIsComplete /\ FailsForReason
<1>1. CASE given # Nothing /\ shown = Nothing
  <2>1. Forth
    BY <1>1 DEF OnItsWay, NoConversion, ThereAndBack
  <2>2. PICK t \in Tables, o \in TableOpts :
          given = [table |-> t, opts |-> o] /\ Converting(Outermost(t, o), NestedTables(t))
    BY <2>1, Zenon DEF Forth
  <2>3. PICK d : d = made
    OBVIOUS
  <2>4. Outcome(Outermost(t, o), NestedTables(t), d)
    BY <2>2, <2>3, Zenon DEF Converting
  <2>5. /\ d = Raised => (\E u \in Subtables(t) : HasGap(u)) \/ o.name = Digits
        /\ d = Crashed => \E u \in NestedTables(t) : KindOf(u) = "object" /\ IsMixed(u) /\ Kept(u) # {}
        /\ IsElement(d) /\ (\A u \in Subtables(t) : StringKeys(u) + NumberKeys(u) < MixedMod)
              => StandsFor(Claim(d, t, IF o.opt = "auto" THEN KindOf(t) ELSE o.opt,
                                 o.mixed /\ TwoHalves(t), o.name))
    BY <2>4, TableOutcome, Zenon
  <2>6. given.table = t /\ given.opts = o
    BY <2>2
  <2>7. ConvertedIsComplete
    BY <2>3, <2>5, <2>6, Zenon DEF ConvertedIsComplete
  <2>8. FailsForReason
    BY <2>3, <2>5, <2>6, Zenon DEF FailsForReason
  <2> QED BY <2>7, <2>8
<1>2. CASE ~(given # Nothing /\ shown = Nothing)
  BY <1>2, Zenon DEF ConvertedIsComplete, FailsForReason
<1> QED BY <1>1, <1>2

LEMMA WayInverts == ASSUME AtomsApart, OnItsWay PROVE ToTableInverts
<1> SUFFICES ASSUME shown # Nothing, made # Nothing
             PROVE  IsElement(made) /\ (~HasEmptyObject(shown) => Same(made, CopyOf(shown)))
  BY Zenon DEF ToTableInverts
<1>1. PICK d, e : d = shown /\ e = made
  OBVIOUS
<1>2. Whence(d) /\ Converting(Nested(TableOf(d), 0), Copies(d))
  BY <1>1, Zenon DEF OnItsWay, NoConversion, Forth, ThereAndBack
<1>3. Outcome(Nested(TableOf(d), 0), Copies(d), e)
  BY <1>1, <1>2, Zenon DEF Converting
<1>4. IsElement(e) /\ WellMade(e) /\ Stands(ClaimOf(e, TableOf(d)))
  BY <1>1, <1>2, <1>3, CopiesOutcome
<1>5. ~HasEmptyObject(d) => Same(e, CopyOf(d))
  BY <1>2, <1>4, ComesBack
<1> QED BY <1>1, <1>4, <1>5, Zenon

THEOREM ConvertsAll == ASSUME AtomsApart PROVE Spec => []ConvertedIsComplete
<1>1. OnItsWay => ConvertedIsComplete
  BY WayIsComplete
<1> QED BY <1>1, ConversionsInvariant, PTL

THEOREM FailuresExplained == ASSUME AtomsApart PROVE Spec => []FailsForReason
<1>1. OnItsWay => FailsForReason
  BY WayIsComplete
<1> QED BY <1>1, ConversionsInvariant, PTL

THEOREM ThereAndBackAgain == ASSUME AtomsApart PROVE Spec => []ToTableInverts
<1>1. OnItsWay => ToTableInverts
  BY WayInverts
<1> QED BY <1>1, ConversionsInvariant, PTL

-------------------------------------------------------------------------------
(***************************************************************************)
(* The text of an element, part by part.                                   *)
(***************************************************************************)
\* f[i]: the first i of the sequences g, one behind the other.
Joins(f, g) ==
  /\ f[1] = g[1]
  /\ \A i \in 1..Len(g) : i # 1 => f[i] = f[i - 1] \o g[i]

LEMMA FlattenIs ==
  ASSUME NEW g, Len(g) \in Nat \ {0}
  PROVE  \E f : Joins(f, g) /\ FlattenSeq(g) = f[Len(g)]
<1> DEFINE N == Len(g)
           F(i, p) == IF i = 1 THEN g[i] ELSE p \o g[i]
           Rec(k, f) == f = [i \in 1..k |-> F(i, f[i - 1])]
           T == {k \in Nat : ~ \E f : Rec(k, f)}
<1>0. N \in Nat \ {0}
  OBVIOUS
<1>1. T = {}
  <2> SUFFICES ASSUME T # {} PROVE FALSE
    OBVIOUS
  <2>1. PICK k \in T : \A m \in T : k <= m
    BY LeastNat
  <2>2. k \in Nat /\ ~ \E f : Rec(k, f)
    BY <2>1
  <2>3. \A p, q : F(1, p) = F(1, q)
    OBVIOUS
  <2> HIDE DEF F
  <2>4. k # 0
    <3> DEFINE f == [i \in 1..0 |-> 0]
    <3>1. \A i \in 1..0 : FALSE
      OBVIOUS
    <3>2. Rec(0, f)
      <4>1. \A i \in 1..0 : 0 = F(i, f[i - 1])
        BY <3>1
      <4> QED BY <4>1
    <3> HIDE DEF Rec, f
    <3> QED BY <2>2, <3>2
  <2>5. k - 1 \in Nat /\ k - 1 \notin T
    <3> HIDE DEF T
    <3> QED BY <2>1, <2>2, <2>4
  <2>6. PICK h : Rec(k - 1, h)
    BY <2>5
  <2> DEFINE f == [i \in 1..k |-> F(i, h[i - 1])]
  <2>7. \A i \in 1..(k - 1) : f[i] = h[i]
    <3>1. \A i \in 1..(k - 1) : h[i] = F(i, h[i - 1])
      BY <2>6, Zenon
    <3>2. \A i \in 1..(k - 1) : i \in 1..k
      BY <2>2
    <3> HIDE DEF Rec, T
    <3> QED BY <3>1, <3>2
  <2>8. \A i \in 1..k : i # 1 => i - 1 \in 1..(k - 1)
    BY <2>2
  <2>9. Rec(k, f)
    <3>1. \A i \in 1..k : F(i, h[i - 1]) = F(i, f[i - 1])
      <4> HIDE DEF f, T, Rec
      <4> QED BY <2>3, <2>7, <2>8
    <3> HIDE DEF T
    <3> QED BY <3>1
  <2> HIDE DEF f, Rec
  <2> QED BY <2>2, <2>9
<1>2. PICK f : Rec(N, f)
  BY <1>0, <1>1
<1>3. PICK e : e = CHOOSE f0 : Rec(N, f0)
  OBVIOUS
<1>4. FlattenSeq(g) = e[N]
  <2>1. Len(g) # 0
    OBVIOUS
  <2> QED BY <1>3, <2>1, Zenon DEF FlattenSeq
<1>5. Rec(N, e)
  <2> HIDE DEF Rec
  <2> QED BY <1>2, <1>3, Zenon
<1>6. \A i \in 1..N : e[i] = F(i, e[i - 1])
  BY <1>5, Zenon
<1>7. 1 \in 1..N
  BY <1>0
<1>8. Joins(e, g)
  <2>1. e[1] = g[1]
    BY <1>6, <1>7
  <2>2. \A i \in 1..N : i # 1 => e[i] = e[i - 1] \o g[i]
    BY <1>6
  <2> QED BY <2>1, <2>2 DEF Joins
<1> QED BY <1>4, <1>8

\* Every one of them is a beginning of all that come behind it.
Grows(T, f, g, i) ==
  /\ f[i] \in Seq(T) /\ Len(f[i]) \in Nat /\ Len(g[i]) \in Nat
  /\ \A j \in 1..i : Len(f[j]) <= Len(f[i]) /\ \A k \in 1..Len(f[j]) : f[i][k] = f[j][k]
  /\ i # 1 => /\ Len(f[i]) = Len(f[i - 1]) + Len(g[i])
              /\ \A k \in 1..Len(g[i]) : f[i][Len(f[i - 1]) + k] = g[i][k]

LEMMA JoinedUp ==
  ASSUME NEW T, NEW g \in Seq(Seq(T)), NEW f, Joins(f, g)
  PROVE  \A i \in 1..Len(g) : Grows(T, f, g, i)
<1> DEFINE Up(i) ==
      /\ f[i] \in Seq(T) /\ Len(f[i]) \in Nat /\ Len(g[i]) \in Nat
      /\ \A j \in 1..i : Len(f[j]) <= Len(f[i]) /\ \A k \in 1..Len(f[j]) : f[i][k] = f[j][k]
      /\ i # 1 => /\ Len(f[i]) = Len(f[i - 1]) + Len(g[i])
                  /\ \A k \in 1..Len(g[i]) : f[i][Len(f[i - 1]) + k] = g[i][k]
           Bad == {i \in Nat : i \in 1..Len(g) /\ ~Up(i)}
<1>1. Len(g) \in Nat /\ \A i \in 1..Len(g) : g[i] \in Seq(T)
  OBVIOUS
<1>2. f[1] = g[1] /\ \A i \in 1..Len(g) : i # 1 => f[i] = f[i - 1] \o g[i]
  BY DEF Joins
<1>3. Bad = {}
  <2> SUFFICES ASSUME Bad # {} PROVE FALSE
    OBVIOUS
  <2>1. PICK i \in Bad : \A m \in Bad : i <= m
    <3> Bad \subseteq Nat
      OBVIOUS
    <3> HIDE DEF Bad
    <3> QED BY LeastNat
  <2>2. i \in 1..Len(g) /\ ~Up(i) /\ i \in Nat /\ g[i] \in Seq(T)
    BY <1>1, <2>1
  <2>3. i # 1
    <3> SUFFICES ASSUME i = 1 PROVE FALSE
      OBVIOUS
    <3>1. f[1] \in Seq(T) /\ Len(f[1]) \in Nat /\ Len(g[1]) \in Nat
      BY <1>2, <2>2
    <3>2. \A j \in 1..1 : j = 1
      OBVIOUS
    <3>3. Up(1)
      BY <3>1, <3>2
    <3> QED BY <2>2, <3>3
  <2>4. PICK h \in 1..Len(g) : h = i - 1
    BY <1>1, <2>2, <2>3
  <2>5. Up(h)
    <3>1. h \notin Bad
      <4> HIDE DEF Bad
      <4> QED BY <2>1, <2>2, <2>4
    <3>2. h \in Nat
      BY <1>1
    <3> HIDE DEF Up
    <3> QED BY <3>1, <3>2
  <2>6. PICK p, q, r : p = f[h] /\ q = g[i] /\ r = f[i]
    OBVIOUS
  <2>7. r = p \o q /\ p \in Seq(T) /\ q \in Seq(T)
    BY <1>2, <2>2, <2>3, <2>4, <2>5, <2>6
  <2>8. /\ r \in Seq(T) /\ Len(r) = Len(p) + Len(q) /\ Len(p) \in Nat /\ Len(q) \in Nat /\ Len(r) \in Nat
        /\ \A k \in 1..Len(p) : r[k] = p[k]
        /\ \A k \in 1..Len(q) : r[Len(p) + k] = q[k]
    BY <2>7
  <2>9. ASSUME NEW j \in 1..i
        PROVE  Len(f[j]) <= Len(r) /\ \A k \in 1..Len(f[j]) : r[k] = f[j][k]
    <3>1. CASE j = i
      <4>1. f[j] = r /\ Len(r) <= Len(r)
        BY <2>6, <2>8, <3>1
      <4> HIDE DEF Bad, Up
      <4> QED BY <4>1, Zenon
    <3>2. CASE j # i
      <4>1. j \in 1..h
        BY <2>2, <2>4, <3>2
      <4>2. Len(f[j]) <= Len(p) /\ \A k \in 1..Len(f[j]) : p[k] = f[j][k]
        BY <2>5, <2>6, <4>1
      <4>3. Len(f[j]) \in Nat
        <5>1. j \in 1..Len(g) /\ j \in Nat /\ j \notin Bad
          <6> HIDE DEF Bad
          <6> QED BY <1>1, <2>1, <2>2, <3>2
        <5>2. Up(j)
          <6> HIDE DEF Up
          <6> QED BY <5>1
        <5> QED BY <5>2
      <4>4. Len(f[j]) <= Len(r) /\ \A k \in 1..Len(f[j]) : k \in 1..Len(p)
        <5> HIDE DEF Bad, Up
        <5> QED BY <2>8, <4>2, <4>3
      <4> HIDE DEF Bad, Up
      <4> QED BY <2>8, <4>2, <4>4
    <3> QED BY <3>1, <3>2
  <2>10. Up(i)
    <3> HIDE DEF Bad
    <3> QED BY <2>4, <2>6, <2>8, <2>9
  <2> QED BY <2>2, <2>10
<1>4. \A i \in 1..Len(g) : i \in Nat
  BY <1>1
<1> HIDE DEF Up
<1>5. \A i \in 1..Len(g) : Up(i)
  BY <1>3, <1>4
<1> QED BY <1>5 DEF Up, Grows

\* The parts stand in t behind the bracket a, with commas between them; r[k] is
\* the place behind the first k of them and the comma, and b stands at the end.
LaidOut(t, a, parts, b, r) ==
  /\ t \in Seq(Tokens) /\ Len(t) \in Nat /\ t[1] = a /\ t[Len(t)] = b
  /\ r[0] = 2 /\ r[Len(parts)] = Len(t)
  /\ \A k \in 0..Len(parts) : r[k] \in Nat /\ 2 <= r[k] /\ r[k] <= Len(t)

PartIn(t, parts, r, k) ==
  LET e == r[k - 1] + Len(parts[k]) - 1
  IN  /\ e < Len(t) /\ \A j \in 1..Len(parts[k]) : t[r[k - 1] + j - 1] = parts[k][j]
      /\ k # Len(parts) => r[k] = e + 2 /\ t[e + 1] = ","
      /\ k = Len(parts) => r[k] = e + 1

AreTexts(parts) == parts \in Seq(Seq(Tokens))
Glued(parts) == [i \in DOMAIN parts |-> IF i = 1 THEN parts[i] ELSE <<",">> \o parts[i]]

LEMMA Behind ==
  ASSUME NEW T, NEW p \in Seq(T), NEW q \in Seq(T), NEW r, r = p \o q
  PROVE  /\ r \in Seq(T) /\ Len(r) = Len(p) + Len(q) /\ Len(p) \in Nat /\ Len(q) \in Nat
         /\ \A k \in 1..Len(p) : r[k] = p[k]
         /\ \A k \in 1..Len(q) : r[Len(p) + k] = q[k]
  OBVIOUS

Bracketed(t, a, s, b) == t = <<a>> \o s \o <<b>>

LEMMA Between ==
  ASSUME NEW T, NEW s \in Seq(T), NEW a \in T, NEW b \in T, NEW t, Bracketed(t, a, s, b)
  PROVE  /\ t \in Seq(T) /\ Len(s) \in Nat /\ Len(t) = Len(s) + 2
         /\ t[1] = a /\ t[Len(s) + 2] = b /\ \A j \in 1..Len(s) : t[j + 1] = s[j]
<1>1. PICK p, q : p = <<a>> /\ q = p \o s
  OBVIOUS
<1>2. p \in Seq(T) /\ Len(p) = 1 /\ p[1] = a
  BY <1>1
<1>3. /\ q \in Seq(T) /\ Len(q) = Len(s) + 1 /\ q[1] = a /\ Len(s) \in Nat
      /\ \A j \in 1..Len(s) : q[j + 1] = s[j]
  BY <1>1, <1>2
<1>4. t = q \o <<b>>
  BY <1>1 DEF Bracketed
<1>5. t = Append(q, b)
  BY <1>3, <1>4
<1>6. t \in Seq(T) /\ Len(t) = Len(s) + 2 /\ t[Len(s) + 2] = b /\ \A j \in 1..(Len(s) + 1) : t[j] = q[j]
  <2>1. PICK n \in Nat : n = Len(q)
    BY <1>3
  <2>2. t \in Seq(T) /\ Len(t) = n + 1 /\ t[n + 1] = b /\ \A j \in 1..n : t[j] = q[j]
    BY <1>3, <1>5, <2>1
  <2>3. n = Len(s) + 1 /\ n + 1 = Len(s) + 2
    BY <1>3, <2>1
  <2> QED BY <2>2, <2>3
<1>7. 1 \in 1..(Len(s) + 1) /\ \A j \in 1..Len(s) : j + 1 \in 1..(Len(s) + 1)
  BY <1>3
<1> QED BY <1>3, <1>6, <1>7

GluedAt(parts, g, i) ==
  /\ parts[i] \in Seq(Tokens) /\ Len(parts[i]) \in Nat
  /\ i = 1 => g[i] = parts[i]
  /\ i # 1 => /\ g[i][1] = "," /\ Len(g[i]) = Len(parts[i]) + 1
              /\ \A j \in 1..Len(parts[i]) : g[i][j + 1] = parts[i][j]

LEMMA GluedIs ==
  ASSUME NEW parts, AreTexts(parts), NEW g, g = Glued(parts)
  PROVE  /\ AreTexts(g) /\ Len(g) = Len(parts) /\ Len(parts) \in Nat
         /\ \A i \in 1..Len(parts) : GluedAt(parts, g, i)
<1> DEFINE N == Len(parts)
           G(i) == <<",">> \o parts[i]
<1>1. N \in Nat /\ DOMAIN parts = 1..N /\ \A i \in 1..N : parts[i] \in Seq(Tokens)
  BY DEF AreTexts
<1>2. <<",">> \in Seq(Tokens) /\ Len(<<",">>) = 1 /\ <<",">>[1] = ","
  <2>1. PICK c \in Tokens : c = ","
    BY DEF Tokens
  <2>2. <<c>> \in Seq(Tokens) /\ Len(<<c>>) = 1 /\ <<c>>[1] = c
    OBVIOUS
  <2> QED BY <2>1, <2>2
<1>3. ASSUME NEW i \in 1..N
      PROVE  /\ G(i) \in Seq(Tokens) /\ Len(parts[i]) \in Nat /\ Len(G(i)) = Len(parts[i]) + 1
             /\ G(i)[1] = "," /\ \A j \in 1..Len(parts[i]) : G(i)[j + 1] = parts[i][j]
  <2>1. PICK c : c = <<",">>
    OBVIOUS
  <2>2. Len(c) = 1 /\ c[1] = ","
    BY <1>2, <2>1
  <2>22. c \in Seq(Tokens)
    BY <1>2, <2>1
  <2>3. PICK p, q : p = parts[i] /\ q = c \o p
    OBVIOUS
  <2>4. p \in Seq(Tokens)
    BY <1>1, <2>3
  <2>5. /\ q \in Seq(Tokens) /\ Len(p) \in Nat /\ Len(q) = Len(p) + 1 /\ q[1] = c[1]
        /\ \A j \in 1..Len(p) : q[j + 1] = p[j]
    <3>1. /\ q \in Seq(Tokens) /\ Len(q) = Len(c) + Len(p) /\ Len(p) \in Nat
          /\ \A j \in 1..Len(c) : q[j] = c[j]
          /\ \A j \in 1..Len(p) : q[Len(c) + j] = p[j]
      BY <2>22, <2>3, <2>4, Behind
    <3>2. \A j \in 1..Len(p) : 1 + j = j + 1
      BY <3>1
    <3>3. 1 + Len(p) = Len(p) + 1 /\ 1 \in 1..1
      BY <3>1
    <3> QED BY <2>2, <2>22, <3>1, <3>2, <3>3, Zenon
  <2> QED BY <2>1, <2>2, <2>22, <2>3, <2>5
<1> HIDE DEF G, N
<1>4. g = [i \in 1..N |-> IF i = 1 THEN parts[i] ELSE G(i)]
  BY <1>1 DEF Glued, G
<1>5. g \in [1..N -> Seq(Tokens)]
  BY <1>1, <1>3, <1>4
<1>6. AreTexts(g) /\ Len(g) = N
  BY <1>1, <1>5 DEF AreTexts
<1>7. \A i \in 1..N : (i = 1 => g[i] = parts[i]) /\ (i # 1 => g[i] = G(i))
  BY <1>4
<1>8. \A i \in 1..N : GluedAt(parts, g, i)
  BY <1>1, <1>3, <1>7, Zenon DEF GluedAt
<1> QED BY <1>1, <1>6, <1>8, Zenon DEF N

LEMMA LayoutOfNone ==
  ASSUME NEW a \in Tokens, NEW b \in Tokens, NEW parts, Len(parts) = 0, NEW t, t = <<a, b>>
  PROVE  \E r : LaidOut(t, a, parts, b, r)
<1>1. t \in Seq(Tokens) /\ Len(t) = 2 /\ t[1] = a /\ t[2] = b
  OBVIOUS
<1>2. PICK r : r = [k \in 0..0 |-> 2]
  OBVIOUS
<1>3. \A k \in 0..0 : r[k] = 2
  BY <1>2
<1>4. 0 \in 0..0 /\ r[0] = 2
  BY <1>3
<1> QED BY <1>1, <1>3, <1>4 DEF LaidOut

Written(t, a, parts, b) == t = <<a>> \o Commas(parts) \o <<b>>

LEMMA Layout ==
  ASSUME NEW a \in Tokens, NEW b \in Tokens, NEW parts, AreTexts(parts),
         NEW t, Written(t, a, parts, b)
  PROVE  \E r : LaidOut(t, a, parts, b, r) /\ \A k \in 1..Len(parts) : PartIn(t, parts, r, k)
<1>1. PICK g : g = Glued(parts)
  OBVIOUS
<1>2. Commas(parts) = FlattenSeq(g)
  BY <1>1 DEF Commas, Glued
<1>3. PICK N \in Nat : N = Len(parts) /\ N = Len(g)
  BY <1>1, GluedIs
<1>4. CASE N = 0
  <2>1. g = << >>
    <3>1. AreTexts(g) /\ Len(g) = 0
      BY <1>1, <1>3, <1>4, GluedIs
    <3> QED BY <3>1, EmptySeq DEF AreTexts
  <2>2. FlattenSeq(g) = << >>
    BY <1>3, <1>4, <2>1 DEF FlattenSeq
  <2>3. t = <<a, b>>
    <3>1. << >> \in Seq(Tokens) /\ Len(<< >>) = 0
      OBVIOUS
    <3>2. /\ t \in Seq(Tokens) /\ Len(t) = 0 + 2 /\ t[1] = a /\ t[0 + 2] = b
      <4>1. PICK s \in Seq(Tokens) : s = << >> /\ Len(s) = 0
        BY <3>1
      <4>2. Bracketed(t, a, s, b)
        BY <1>2, <2>2, <4>1 DEF Bracketed, Written
      <4>3. t \in Seq(Tokens) /\ Len(t) = Len(s) + 2 /\ t[1] = a /\ t[Len(s) + 2] = b
        BY <4>2, Between
      <4> QED BY <4>1, <4>3
    <3>3. 0 + 2 = 2
      OBVIOUS
    <3>4. PICK u : u = <<a, b>>
      OBVIOUS
    <3>5. u \in Seq(Tokens) /\ Len(u) = 2 /\ u[1] = a /\ u[2] = b
      BY <3>4
    <3>6. \A j \in 1..2 : j = 1 \/ j = 2
      OBVIOUS
    <3>7. \A j \in 1..2 : t[j] = u[j]
      BY <3>2, <3>3, <3>5, <3>6
    <3>8. t = u
      BY <3>2, <3>3, <3>5, <3>7, SeqEqual
    <3> QED BY <3>4, <3>8
  <2>4. \A k \in 1..Len(parts) : FALSE
    BY <1>3, <1>4
  <2> QED BY <1>3, <1>4, <2>3, <2>4, LayoutOfNone
<1>5. CASE N # 0
  <2>1. AreTexts(g) /\ Len(g) \in Nat \ {0}
    BY <1>1, <1>3, <1>5, GluedIs
  <2>2. PICK f : Joins(f, g) /\ FlattenSeq(g) = f[N]
    BY <1>3, <2>1, FlattenIs
  <2>3. \A i \in 1..N :
           /\ f[i] \in Seq(Tokens) /\ Len(f[i]) \in Nat /\ Len(g[i]) \in Nat
           /\ \A j \in 1..i : Len(f[j]) <= Len(f[i]) /\ \A k \in 1..Len(f[j]) : f[i][k] = f[j][k]
           /\ i # 1 => /\ Len(f[i]) = Len(f[i - 1]) + Len(g[i])
                       /\ \A k \in 1..Len(g[i]) : f[i][Len(f[i - 1]) + k] = g[i][k]
    <3>1. g \in Seq(Seq(Tokens))
      BY <2>1 DEF AreTexts
    <3>2. \A i \in 1..Len(g) : Grows(Tokens, f, g, i)
      BY <2>2, <3>1, JoinedUp
    <3> QED BY <1>3, <3>2, Zenon DEF Grows
  <2>4. f[1] = g[1]
    BY <2>2 DEF Joins
  <2>5. N \in 1..N /\ 1 \in 1..N
    BY <1>5
  <2>6. PICK L \in Nat : L = Len(f[N])
    BY <2>3, <2>5
  <2>7. /\ t \in Seq(Tokens) /\ Len(t) = L + 2 /\ t[1] = a /\ t[L + 2] = b
        /\ \A j \in 1..L : t[j + 1] = f[N][j]
    <3>1. PICK s \in Seq(Tokens) : s = f[N] /\ Len(s) = L
      BY <2>3, <2>5, <2>6
    <3>2. Bracketed(t, a, s, b)
      BY <1>2, <2>2, <3>1 DEF Bracketed, Written
    <3>3. /\ t \in Seq(Tokens) /\ Len(t) = Len(s) + 2 /\ t[1] = a /\ t[Len(s) + 2] = b
          /\ \A j \in 1..Len(s) : t[j + 1] = s[j]
      BY <3>2, Between
    <3> QED BY <3>1, <3>3
  <2>8. ASSUME NEW i \in 1..N
        PROVE  Len(f[i]) <= L /\ \A k \in 1..Len(f[i]) : t[k + 1] = f[i][k]
    <3>1. Len(f[i]) \in Nat
      BY <2>3
    <3>2. Len(f[i]) <= L /\ \A k \in 1..Len(f[i]) : f[N][k] = f[i][k]
      BY <2>3, <2>5, <2>6
    <3>3. \A k \in 1..Len(f[i]) : k \in 1..L
      BY <3>1, <3>2
    <3> QED BY <2>7, <3>2, <3>3
  <2>9. PICK r : r = [k \in 0..N |-> IF k = 0 THEN 2 ELSE IF k = N THEN L + 2 ELSE Len(f[k]) + 3]
    OBVIOUS
  <2>10. /\ \A k \in 0..N : r[k] = IF k = 0 THEN 2 ELSE IF k = N THEN L + 2 ELSE Len(f[k]) + 3
         /\ 0 \in 0..N /\ N \in 0..N /\ r[0] = 2 /\ r[N] = L + 2
    <3>1. \A k \in 0..N : r[k] = IF k = 0 THEN 2 ELSE IF k = N THEN L + 2 ELSE Len(f[k]) + 3
      BY <2>9
    <3>2. 0 \in 0..N /\ N \in 0..N
      OBVIOUS
    <3> QED BY <1>5, <3>1, <3>2
  <2>11. \A k \in 1..N : /\ r[k - 1] = IF k = 1 THEN 2 ELSE Len(f[k - 1]) + 3
                         /\ r[k] = IF k = N THEN L + 2 ELSE Len(f[k]) + 3
    <3> SUFFICES ASSUME NEW k \in 1..N
                 PROVE  /\ r[k - 1] = IF k = 1 THEN 2 ELSE Len(f[k - 1]) + 3
                        /\ r[k] = IF k = N THEN L + 2 ELSE Len(f[k]) + 3
      OBVIOUS
    <3>1. PICK h \in 0..N : h = k - 1 /\ h # N /\ (h = 0 <=> k = 1)
      OBVIOUS
    <3>2. k \in 0..N /\ k # 0
      OBVIOUS
    <3> QED BY <2>10, <3>1, <3>2
  <2>12. \A i \in 1..N :
           /\ parts[i] \in Seq(Tokens) /\ Len(parts[i]) \in Nat
           /\ i = 1 => g[i] = parts[i]
           /\ i # 1 => /\ g[i][1] = "," /\ Len(g[i]) = Len(parts[i]) + 1
                       /\ \A j \in 1..Len(parts[i]) : g[i][j + 1] = parts[i][j]
    <3>1. \A i \in 1..N : GluedAt(parts, g, i)
      BY <1>1, <1>3, GluedIs
    <3> QED BY <3>1, Zenon DEF GluedAt
  <2>13. ASSUME NEW k \in 1..N, k # 1
         PROVE  /\ Len(f[k - 1]) \in Nat /\ Len(f[k]) = Len(f[k - 1]) + Len(parts[k]) + 1
                /\ t[Len(f[k - 1]) + 2] = ","
                /\ \A j \in 1..Len(parts[k]) : t[Len(f[k - 1]) + j + 2] = parts[k][j]
    <3>1. PICK h \in 1..N : h = k - 1
      BY <2>13
    <3>2. PICK m \in Nat : m = Len(f[h])
      BY <2>3
    <3>3. PICK n \in Nat : n = Len(parts[k])
      BY <2>12
    <3>4. /\ Len(f[k]) = m + Len(g[k]) /\ Len(f[k]) \in Nat
          /\ \A j \in 1..Len(g[k]) : f[k][m + j] = g[k][j]
      BY <2>3, <2>13, <3>1, <3>2
    <3>5. Len(g[k]) = n + 1 /\ Len(f[k]) = m + n + 1
      <4>1. Len(g[k]) = n + 1
        BY <2>12, <2>13, <3>3, Zenon
      <4>2. PICK l : l = Len(g[k])
        OBVIOUS
      <4>3. Len(f[k]) = m + l /\ l = n + 1
        BY <3>4, <4>1, <4>2, Zenon
      <4>4. m + (n + 1) = m + n + 1
        OBVIOUS
      <4> QED BY <4>1, <4>3, <4>4, Zenon
    <3>6. \A j \in 1..(n + 1) : t[m + j + 1] = g[k][j]
      <4> SUFFICES ASSUME NEW j \in 1..(n + 1) PROVE t[m + j + 1] = g[k][j]
        OBVIOUS
      <4>1. PICK i \in 1..Len(f[k]) : i = m + j
        BY <3>5
      <4>2. t[i + 1] = f[k][i]
        BY <2>8
      <4>3. f[k][i] = g[k][j]
        BY <3>4, <3>5, <4>1
      <4> QED BY <4>1, <4>2, <4>3
    <3>7. t[m + 2] = g[k][1]
      <4>1. 1 \in 1..(n + 1) /\ m + 1 + 1 = m + 2
        OBVIOUS
      <4> QED BY <3>6, <4>1
    <3>8. g[k][1] = "," /\ \A j \in 1..n : g[k][j + 1] = parts[k][j]
      BY <2>12, <2>13, <3>3
    <3>9. \A j \in 1..n : t[m + j + 2] = parts[k][j]
      <4>1. \A j \in 1..n : j + 1 \in 1..(n + 1) /\ m + (j + 1) + 1 = m + j + 2
        OBVIOUS
      <4> QED BY <3>6, <3>8, <4>1
    <3> QED BY <3>1, <3>2, <3>3, <3>5, <3>7, <3>8, <3>9
  <2>14. ASSUME NEW k \in 1..N, k # N
         PROVE  t[Len(f[k]) + 2] = "," /\ Len(f[k]) < L
    <3>1. PICK h \in 1..N : h = k + 1 /\ h # 1 /\ h - 1 = k
      BY <2>14
    <3>2. Len(f[h]) = Len(f[k]) + Len(parts[h]) + 1 /\ t[Len(f[k]) + 2] = "," /\ Len(f[k]) \in Nat
      BY <2>13, <3>1
    <3>3. Len(parts[h]) \in Nat /\ Len(f[h]) <= L
      BY <2>8, <2>12
    <3>4. PICK x, y \in Nat : x = Len(f[k]) /\ y = Len(parts[h])
      BY <3>2, <3>3
    <3>5. x \in Nat /\ x + y + 1 <= L
      BY <3>2, <3>3, <3>4
    <3>6. x < L
      BY <3>5
    <3> QED BY <3>2, <3>4, <3>6
  <2>15. ASSUME NEW k \in 1..N PROVE PartIn(t, parts, r, k)
    <3>1. PICK e, s : e = r[k - 1] + Len(parts[k]) - 1 /\ s = r[k - 1]
      OBVIOUS
    <3>2. Len(f[k]) \in Nat /\ Len(f[k]) <= L /\ Len(parts[k]) \in Nat
      BY <2>3, <2>8, <2>12
    <3>3. s \in Nat /\ e = Len(f[k]) + 1 /\ \A j \in 1..Len(parts[k]) : t[s + j - 1] = parts[k][j]
      <4>1. CASE k = 1
        <5>1. s = 2 /\ f[k] = parts[k]
          BY <2>4, <2>11, <2>12, <3>1, <4>1
        <5>2. e = Len(f[k]) + 1
          BY <3>1, <3>2, <5>1
        <5>3. \A j \in 1..Len(parts[k]) : t[j + 1] = parts[k][j]
          BY <2>8, <5>1
        <5>4. \A j \in 1..Len(parts[k]) : s + j - 1 = j + 1
          BY <3>2, <5>1
        <5> QED BY <5>1, <5>2, <5>3, <5>4
      <4>2. CASE k # 1
        <5>1. PICK m \in Nat : m = Len(f[k - 1])
          BY <2>13, <4>2
        <5>2. s = m + 3
          BY <2>11, <3>1, <4>2, <5>1
        <5>3. Len(f[k]) = m + Len(parts[k]) + 1
              /\ \A j \in 1..Len(parts[k]) : t[m + j + 2] = parts[k][j]
          BY <2>13, <4>2, <5>1
        <5>4. e = Len(f[k]) + 1
          BY <3>1, <3>2, <5>2, <5>3
        <5>5. \A j \in 1..Len(parts[k]) : s + j - 1 = m + j + 2
          BY <3>2, <5>2
        <5> QED BY <5>2, <5>3, <5>4, <5>5
      <4> QED BY <4>1, <4>2
    <3>4. e < Len(t)
      BY <2>7, <3>2, <3>3
    <3>5. k # N => r[k] = e + 2 /\ t[e + 1] = ","
      <4> SUFFICES ASSUME k # N PROVE r[k] = e + 2 /\ t[e + 1] = ","
        OBVIOUS
      <4>1. r[k] = Len(f[k]) + 3
        BY <2>11
      <4>2. t[Len(f[k]) + 2] = ","
        BY <2>14
      <4>3. e + 1 = Len(f[k]) + 2 /\ e + 2 = Len(f[k]) + 3
        BY <3>2, <3>3
      <4> QED BY <4>1, <4>2, <4>3
    <3>6. k = N => r[k] = e + 1
      <4> SUFFICES ASSUME k = N PROVE r[k] = e + 1
        OBVIOUS
      <4>1. r[k] = L + 2 /\ Len(f[k]) = L
        BY <2>6, <2>10
      <4> QED BY <3>3, <4>1
    <3> QED BY <1>3, <3>1, <3>3, <3>4, <3>5, <3>6, Zenon DEF PartIn
  <2>16. ASSUME NEW k \in 0..N PROVE r[k] \in Nat /\ 2 <= r[k] /\ r[k] <= L + 2
    <3>1. CASE k = 0 \/ k = N
      BY <2>10, <3>1
    <3>2. CASE k # 0 /\ k # N
      <4>1. r[k] = Len(f[k]) + 3 /\ k \in 1..N
        BY <2>10, <3>2
      <4>2. Len(f[k]) \in Nat /\ Len(f[k]) < L
        BY <2>3, <2>14, <3>2, <4>1
      <4> QED BY <4>1, <4>2
    <3> QED BY <3>1, <3>2
  <2>17. LaidOut(t, a, parts, b, r)
    <3>1. Len(t) = L + 2 /\ Len(t) \in Nat
      BY <2>7
    <3> QED BY <1>3, <2>7, <2>10, <2>16, <3>1 DEF LaidOut
  <2> QED BY <1>3, <2>15, <2>17
<1> QED BY <1>4, <1>5

LEMMA PrintingsIs ==
  ASSUME NEW v, NEW m
  PROVE  \A n \in 0..MaxLevels :
           Printings(v, m)[n] = [x \in Level(v)[n] |-> TextFrom(x, Printings(v, m)[n + 1], m)]
<1> DEFINE E == MaxLevels + 1
           G(n, below) == [x \in Level(v)[n] |-> TextFrom(x, below, m)]
           Rec(k, f) == f = [n \in k..E |-> IF n = E THEN << >> ELSE G(n, f[n + 1])]
           T == {k \in Nat : k <= E /\ ~ \E f : Rec(E - k, f)}
<1>1. E \in Nat
  BY ValuesAssumption
<1> HIDE DEF E, G
<1>2. T = {}
  <2> SUFFICES ASSUME T # {} PROVE FALSE
    OBVIOUS
  <2>1. PICK k \in T : \A j \in T : k <= j
    BY LeastNat
  <2>2. k \in Nat /\ k <= E /\ ~ \E f : Rec(E - k, f)
    BY <2>1
  <2>3. k # 0
    <3> SUFFICES ASSUME k = 0 PROVE FALSE
      OBVIOUS
    <3> DEFINE f == [n \in (E - 0)..E |-> << >>]
    <3>1. \A n \in (E - 0)..E : n = E
      BY <1>1
    <3>2. Rec(E - 0, f)
      <4>1. \A n \in (E - 0)..E : << >> = IF n = E THEN << >> ELSE G(n, f[n + 1])
        BY <3>1
      <4> QED BY <4>1
    <3> HIDE DEF Rec, f
    <3> QED BY <2>2, <3>2
  <2>4. k - 1 \in Nat /\ k - 1 \notin T
    <3> HIDE DEF T
    <3> QED BY <2>1, <2>2, <2>3
  <2>5. PICK g : Rec(E - (k - 1), g)
    <3>1. k - 1 <= E
      BY <1>1, <2>2
    <3> QED BY <2>4, <3>1
  <2> DEFINE f == [n \in (E - k)..E |-> IF n = E THEN << >> ELSE G(n, g[n + 1])]
  <2>6. \A n \in (E - (k - 1))..E : f[n] = g[n]
    <3>1. \A n \in (E - (k - 1))..E : g[n] = IF n = E THEN << >> ELSE G(n, g[n + 1])
      BY <2>5, Zenon
    <3>2. \A n \in (E - (k - 1))..E : n \in (E - k)..E
      BY <1>1, <2>2
    <3> HIDE DEF Rec, T
    <3> QED BY <3>1, <3>2
  <2>7. \A n \in (E - k)..E : n # E => n + 1 \in (E - (k - 1))..E
    BY <1>1, <2>2
  <2>8. Rec(E - k, f)
    <3>1. \A n \in (E - k)..E : (IF n = E THEN << >> ELSE G(n, g[n + 1]))
                              = (IF n = E THEN << >> ELSE G(n, f[n + 1]))
      <4> HIDE DEF f, T, Rec
      <4> QED BY <2>6, <2>7
    <3> HIDE DEF T
    <3> QED BY <3>1
  <2> HIDE DEF f, Rec
  <2> QED BY <2>2, <2>8
<1>3. PICK f : Rec(0, f)
  <2>1. E - E = 0 /\ E <= E /\ E \notin T
    <3> HIDE DEF T
    <3> QED BY <1>1, <1>2
  <2> HIDE DEF Rec
  <2> QED BY <1>1, <2>1
<1>4. Printings(v, m) = CHOOSE g : Rec(0, g)
  BY Zenon DEF Printings, E, G
<1>5. Rec(0, Printings(v, m))
  <2> HIDE DEF Rec
  <2> QED BY <1>3, <1>4, Zenon
<1>6. \A n \in 0..E : Printings(v, m)[n] = IF n = E THEN << >> ELSE G(n, Printings(v, m)[n + 1])
  BY <1>5, Zenon
<1>7. \A n \in 0..MaxLevels : n \in 0..E /\ n # E
  BY ValuesAssumption DEF E
<1>8. \A n \in 0..MaxLevels : Printings(v, m)[n] = G(n, Printings(v, m)[n + 1])
  BY <1>6, <1>7
<1> QED BY <1>8 DEF G

\* The texts of the parts of an element as JSON, with the keys.
PartTexts(x, below) ==
  IF x.kind = "array" THEN [i \in DOMAIN x.items |-> below[x.items[i]]]
  ELSE [i \in DOMAIN x.pairs |-> <<x.pairs[i][1], ":">> \o below[x.pairs[i][2]]]

LEMMA JsonIs == Json.lua = FALSE /\ Json.esc = FALSE
  BY DEF Json

LEMMA PrintingAt ==
  ASSUME NEW d, NEW n \in 0..MaxLevels, NEW x \in Level(d)[n], NEW m
  PROVE  Printings(d, m)[n][x] = TextFrom(x, Printings(d, m)[n + 1], m)
<1> DEFINE F(k) == [y \in Level(d)[k] |-> TextFrom(y, Printings(d, m)[k + 1], m)]
<1>1. \A k \in 0..MaxLevels : Printings(d, m)[k] = F(k)
  BY PrintingsIs
<1>2. F(n)[x] = TextFrom(x, Printings(d, m)[n + 1], m)
  OBVIOUS
<1> HIDE DEF F
<1> QED BY <1>1, <1>2

\* Without a key "env" in it, an element has counted all its pairs.
LEMMA Unkeyed ==
  ASSUME NEW d, Whence(d), ~HasKeyEnv(d), NEW n \in 0..MaxLevels, NEW x \in Level(d)[n], IsNested(x)
  PROVE  EnvFree(x) /\ x.kind \in Kinds
<1>1. IsProper(x) /\ x.kind \in {"array", "object"}
  BY ImageOf, Zenon
<1>2. x \in Parts(d)
  BY DEF Parts
<1>3. x.kind = "object" => EnvKey \notin KeysOf(x)
  BY <1>2, Zenon DEF HasKeyEnv
<1> QED BY <1>1, <1>3, Zenon DEF EnvFree, Kinds

LEMMA PrintedAs ==
  ASSUME NEW d, Whence(d), ~HasKeyEnv(d), NEW n \in 0..MaxLevels, NEW x \in Level(d)[n],
         NEW below, below = Printings(d, Json)[n + 1]
  PROVE  LET t == Printings(d, Json)[n][x]
         IN  /\ ~IsNested(x) => x \in Scalars \ {Broken} /\ t = <<x>>
             /\ IsNested(x) =>
                  /\ EnvFree(x) /\ x.kind \in Kinds
                  /\ Written(t, Opens(x.kind), PartTexts(x, below), Closes(x.kind))
<1>1. PICK t : t = Printings(d, Json)[n][x]
  OBVIOUS
<1>2. t = TextFrom(x, below, Json)
  <2>1. Printings(d, Json)[n][x] = TextFrom(x, Printings(d, Json)[n + 1], Json)
    BY PrintingAt
  <2> QED BY <1>1, <2>1, Zenon
<1>3. x # Opaque /\ (~IsNested(x) => x \in Scalars)
      /\ (IsNested(x) => EnvFree(x) /\ x.kind \in Kinds)
  <2>1. x # Opaque /\ (~IsNested(x) => x \in Scalars)
    BY ImageOf, Zenon
  <2> QED BY <2>1, Unkeyed, Zenon
<1>4. x # Broken
  <2>1. x \in Parts(d)
    BY DEF Parts
  <2> QED BY <2>1 DEF Whence, Printable
<1>5. ASSUME ~IsNested(x) PROVE x \in Scalars \ {Broken} /\ t = <<x>>
  <2>1. CASE x \in Strings
    <3>1. t = <<Quoted(x, Json)>>
      BY <1>2, <1>3, <1>5, <2>1, Zenon DEF TextFrom
    <3> QED BY <1>3, <1>4, <1>5, <3>1, JsonIs DEF Quoted
  <2>2. CASE x \notin Strings
    <3>1. t = <<x>>
      BY <1>2, <1>3, <1>5, <2>2, Zenon DEF TextFrom
    <3> QED BY <1>3, <1>4, <1>5, <3>1
  <2> QED BY <2>1, <2>2
<1>6. ASSUME IsNested(x) PROVE Written(t, Opens(x.kind), PartTexts(x, below), Closes(x.kind))
  <2>1. x \notin Strings /\ x \notin Scalars
    BY <1>6 DEF IsNested, Scalars
  <2>2. CASE x.kind = "array"
    <3>1. t = <<IF Json.lua THEN "{" ELSE "[">> \o Commas([i \in DOMAIN x.items |-> below[x.items[i]]])
                \o <<IF Json.lua THEN "}" ELSE "]">>
      BY <1>2, <1>3, <1>6, <2>1, <2>2, Zenon DEF TextFrom
    <3>2. PartTexts(x, below) = [i \in DOMAIN x.items |-> below[x.items[i]]]
      BY <2>2 DEF PartTexts
    <3>3. (IF Json.lua THEN "{" ELSE "[") = Opens(x.kind) /\ (IF Json.lua THEN "}" ELSE "]") = Closes(x.kind)
      BY <2>2, JsonIs DEF Opens, Closes
    <3> QED BY <3>1, <3>2, <3>3, Zenon DEF Written
  <2>3. CASE x.kind # "array"
    <3> DEFINE P(i) == IF x.pairs[i][2] = Opaque THEN << >>
                       ELSE KeyTokens(x.pairs[i][1], Json) \o below[x.pairs[i][2]]
    <3>1. t = <<"{">> \o Commas([i \in DOMAIN x.pairs |-> P(i)]) \o <<"}">>
      <4>1. t = <<"{">> \o Commas([i \in 1..Size(x) |-> P(i)]) \o <<"}">>
        BY <1>2, <1>3, <1>6, <2>1, <2>3, Zenon DEF TextFrom
      <4>2. DOMAIN x.pairs = 1..Size(x)
        BY <1>3, <1>6, <2>3, SizeIs
      <4> QED BY <4>1, <4>2, Zenon
    <3>2. PartTexts(x, below) = [i \in DOMAIN x.pairs |-> <<x.pairs[i][1], ":">> \o below[x.pairs[i][2]]]
      BY <2>3 DEF PartTexts
    <3>3. ASSUME NEW i \in DOMAIN x.pairs
          PROVE  P(i) = <<x.pairs[i][1], ":">> \o below[x.pairs[i][2]]
      <4>1. x.pairs[i][2] # Opaque
        <5>1. x.kind # "table"
          BY <1>3, <1>6, <2>3 DEF Kinds
        <5>2. PartsOf(x) = {x.pairs[j][2] : j \in DOMAIN x.pairs}
          BY <1>6, <2>3, <5>1 DEF PartsOf
        <5>3. x.pairs[i][2] \in PartsOf(x)
          BY <5>2
        <5>4. WithinLevels(d)
          BY DEF Whence
        <5>5. n + 1 \in 1..MaxLevels /\ x.pairs[i][2] \in Level(d)[n + 1]
          BY <5>3, <5>4, PartsClosed
        <5>6. n + 1 \in 0..MaxLevels
          BY <5>5
        <5>7. x.pairs[i][2] \in Parts(d)
          BY <5>4, <5>5, <5>6, PartsClosed
        <5> QED BY <5>7 DEF Whence, Printable
      <4>2. KeyTokens(x.pairs[i][1], Json) = <<x.pairs[i][1], ":">>
        BY JsonIs DEF KeyTokens, Quoted
      <4> QED BY <4>1, <4>2
    <3>4. "{" = Opens(x.kind) /\ "}" = Closes(x.kind)
      BY <2>3 DEF Opens, Closes
    <3>5. [i \in DOMAIN x.pairs |-> P(i)] = PartTexts(x, below)
      BY <3>2, <3>3
    <3> HIDE DEF P
    <3> QED BY <3>1, <3>4, <3>5, Zenon DEF Written
  <2> QED BY <2>2, <2>3
<1> QED BY <1>1, <1>3, <1>5, <1>6

\* The text p of the part of x at k, with the text u of its value.
Part(p, u, x, k) ==
  /\ p \in Seq(Tokens) /\ Len(p) \in Nat /\ Len(u) \in Nat
  /\ Len(p) = Len(u) + ValueFrom(x) - 1
  /\ \A j \in 1..Len(u) : p[j + ValueFrom(x) - 1] = u[j]
  /\ x.kind = "object" => p[1] = x.pairs[k][1] /\ p[2] = ":"

LEMMA KeyIn ==
  ASSUME NEW key \in Tokens, NEW u \in Seq(Tokens), NEW p, p = <<key, ":">> \o u
  PROVE  /\ p \in Seq(Tokens) /\ Len(p) = Len(u) + 2 /\ Len(p) \in Nat /\ Len(u) \in Nat
         /\ p[1] = key /\ p[2] = ":" /\ \A j \in 1..Len(u) : p[j + 2] = u[j]
<1>1. PICK c \in Tokens : c = ":"
  BY DEF Tokens
<1>2. PICK h : h = <<key, c>>
  OBVIOUS
<1>3. h \in Seq(Tokens) /\ Len(h) = 2 /\ h[1] = key /\ h[2] = c
  BY <1>2
<1>4. /\ p \in Seq(Tokens) /\ Len(p) = Len(h) + Len(u) /\ Len(u) \in Nat
      /\ \A j \in 1..Len(h) : p[j] = h[j]
      /\ \A j \in 1..Len(u) : p[Len(h) + j] = u[j]
  <2>1. h \in Seq(Tokens)
    BY <1>3
  <2>2. LET q == h \o u
        IN  /\ q \in Seq(Tokens) /\ Len(q) = Len(h) + Len(u) /\ Len(u) \in Nat
            /\ \A j \in 1..Len(h) : q[j] = h[j]
            /\ \A j \in 1..Len(u) : q[Len(h) + j] = u[j]
    BY <2>1, Behind
  <2>3. p = h \o u
    BY <1>1, <1>2
  <2> QED BY <2>2, <2>3, Zenon
<1>5. 2 + Len(u) = Len(u) + 2 /\ Len(u) + 2 \in Nat /\ 1 \in 1..2 /\ 2 \in 1..2
      /\ \A j \in 1..Len(u) : 2 + j = j + 2
  BY <1>4
<1>6. p[1] = key /\ p[2] = c
  BY <1>3, <1>4, <1>5
<1>7. Len(p) = Len(u) + 2
  BY <1>3, <1>4, <1>5
<1>8. \A j \in 1..Len(u) : p[j + 2] = u[j]
  <2> SUFFICES ASSUME NEW j \in 1..Len(u) PROVE p[j + 2] = u[j]
    OBVIOUS
  <2>1. p[Len(h) + j] = u[j]
    BY <1>4
  <2>2. Len(h) + j = j + 2
    BY <1>3, <1>5
  <2> QED BY <2>1, <2>2
<1> QED BY <1>1, <1>4, <1>5, <1>6, <1>7, <1>8

LEMMA PartsAreTexts ==
  ASSUME NEW x, EnvFree(x), IsNested(x), NEW below,
         \A y \in PartsOf(x) : below[y] \in Seq(Tokens)
  PROVE  /\ AreTexts(PartTexts(x, below)) /\ Len(PartTexts(x, below)) = Size(x)
         /\ \A k \in 1..Size(x) :
              /\ PartAt(x, k) \in PartsOf(x)
              /\ Part(PartTexts(x, below)[k], below[PartAt(x, k)], x, k)
<1>1. Size(x) \in Nat
  BY SizeIs
<1>2. CASE x.kind = "array"
  <2>1. x = Array(x.items) /\ IsSeq(x.items) /\ Size(x) = Len(x.items)
    BY <1>2, SizeIs
  <2>2. PICK s, N : s = x.items /\ N = Len(s)
    OBVIOUS
  <2>3. N \in Nat /\ DOMAIN s = 1..N /\ Size(x) = N
    BY <2>1, <2>2, SeqAppend
  <2>4. PICK g : g = PartTexts(x, below)
    OBVIOUS
  <2>5. g = [i \in 1..N |-> below[s[i]]]
    BY <1>2, <2>2, <2>3, <2>4 DEF PartTexts
  <2>6. \A k \in 1..N : PartAt(x, k) = s[k] /\ s[k] \in PartsOf(x)
    <3>1. PartsOf(x) = Range(s)
      BY <1>2, <2>2 DEF PartsOf
    <3>2. \A k \in 1..N : s[k] \in Range(s)
      BY <2>3 DEF Range
    <3> QED BY <1>2, <2>2, <3>1, <3>2 DEF PartAt
  <2>7. \A k \in 1..N : g[k] = below[PartAt(x, k)] /\ g[k] \in Seq(Tokens)
    BY <2>5, <2>6
  <2>8. AreTexts(g) /\ Len(g) = N
    <3>1. g \in [1..N -> Seq(Tokens)]
      BY <2>5, <2>7
    <3> QED BY <2>3, <3>1 DEF AreTexts
  <2>9. ASSUME NEW k \in 1..N PROVE Part(g[k], below[PartAt(x, k)], x, k)
    <3>1. PICK p : p = g[k]
      OBVIOUS
    <3>2. p \in Seq(Tokens) /\ p = below[PartAt(x, k)]
      BY <2>7, <3>1
    <3>3. Len(p) \in Nat /\ Len(p) = Len(p) + 1 - 1 /\ \A j \in 1..Len(p) : j + 1 - 1 = j
      BY <3>2
    <3>4. ValueFrom(x) = 1 /\ x.kind # "object"
      BY <1>2 DEF ValueFrom
    <3>5. Part(p, p, x, k)
      BY <3>2, <3>3, <3>4 DEF Part
    <3> QED BY <3>1, <3>2, <3>5
  <2> QED BY <2>3, <2>4, <2>6, <2>8, <2>9
<1>3. CASE x.kind # "array"
  <2>1. /\ x.kind = "object" /\ x = Object(x.pairs) /\ IsSeq(x.pairs)
        /\ Size(x) = Len(x.pairs) /\ DOMAIN x.pairs = 1..Len(x.pairs)
    BY <1>3, SizeIs
  <2>2. PICK s, N : s = x.pairs /\ N = Len(s)
    OBVIOUS
  <2>3. N \in Nat /\ DOMAIN s = 1..N /\ Size(x) = N
    BY <1>1, <2>1, <2>2
  <2>4. PICK g : g = PartTexts(x, below)
    OBVIOUS
  <2> DEFINE P(i) == <<s[i][1], ":">> \o below[s[i][2]]
  <2>5. g = [i \in 1..N |-> P(i)]
    BY <1>3, <2>2, <2>3, <2>4 DEF PartTexts
  <2>6. \A k \in 1..N : PartAt(x, k) = s[k][2] /\ s[k][2] \in PartsOf(x)
    <3>1. PartsOf(x) = {x.pairs[i][2] : i \in DOMAIN x.pairs}
      BY <2>1 DEF PartsOf
    <3> QED BY <1>3, <2>2, <2>3, <3>1 DEF PartAt
  <2>7. \A k \in 1..N : s[k][1] \in Tokens
    <3>1. \A k \in 1..N : s[k][1] \in Strings
      BY <1>3, <2>2, <2>3, SizeIs
    <3>2. Strings \subseteq Tokens
      BY DEF Tokens, Scalars
    <3> QED BY <3>1, <3>2
  <2> HIDE DEF P
  <2>8. ASSUME NEW k \in 1..N
        PROVE  P(k) \in Seq(Tokens) /\ Part(P(k), below[PartAt(x, k)], x, k)
    <3>1. PICK p, u, key : p = P(k) /\ u = below[PartAt(x, k)] /\ key = s[k][1]
      OBVIOUS
    <3>2. u \in Seq(Tokens) /\ key \in Tokens /\ p = <<key, ":">> \o u
      BY <2>6, <2>7, <3>1 DEF P
    <3>3. /\ p \in Seq(Tokens) /\ Len(p) = Len(u) + 2 /\ Len(p) \in Nat /\ Len(u) \in Nat
          /\ p[1] = key /\ p[2] = ":" /\ \A j \in 1..Len(u) : p[j + 2] = u[j]
      BY <3>2, KeyIn
    <3>4. ValueFrom(x) = 3 /\ key = x.pairs[k][1]
      BY <1>3, <2>2, <3>1 DEF ValueFrom
    <3>5. Len(u) + 2 = Len(u) + 3 - 1 /\ \A j \in 1..Len(u) : j + 2 = j + 3 - 1
      BY <3>3
    <3>6. Part(p, u, x, k)
      BY <3>3, <3>4, <3>5 DEF Part
    <3> QED BY <3>1, <3>3, <3>6
  <2>9. \A k \in 1..N : g[k] = P(k)
    BY <2>5
  <2>10. AreTexts(g) /\ Len(g) = N
    <3>1. g \in [1..N -> Seq(Tokens)]
      BY <2>5, <2>8
    <3> QED BY <2>3, <3>1 DEF AreTexts
  <2> QED BY <2>3, <2>4, <2>6, <2>8, <2>9, <2>10
<1> QED BY <1>2, <1>3

LEMMA OpensIs ==
  ASSUME NEW kind PROVE Opens(kind) \in Tokens /\ Closes(kind) \in Tokens
  BY DEF Opens, Closes, Tokens

\* Every text is one, down to the last level.
IsText(t) == t \in Seq(Tokens) /\ Len(t) \in Nat /\ Len(t) >= 1

LEMMA TextIs ==
  ASSUME NEW d, Whence(d), ~HasKeyEnv(d), NEW n \in 0..MaxLevels, NEW x \in Level(d)[n],
         \A y \in PartsOf(x) : IsText(Printings(d, Json)[n + 1][y])
  PROVE  IsText(Printings(d, Json)[n][x])
<1>1. PICK t, below : t = Printings(d, Json)[n][x] /\ below = Printings(d, Json)[n + 1]
  OBVIOUS
<1>2. /\ ~IsNested(x) => x \in Scalars \ {Broken} /\ t = <<x>>
      /\ IsNested(x) =>
           /\ EnvFree(x) /\ x.kind \in Kinds
           /\ Written(t, Opens(x.kind), PartTexts(x, below), Closes(x.kind))
  BY <1>1, PrintedAs
<1>3. CASE ~IsNested(x)
  <2>1. x \in Tokens /\ t = <<x>>
    BY <1>2, <1>3 DEF Tokens
  <2>2. t \in Seq(Tokens) /\ Len(t) = 1
    BY <2>1
  <2> QED BY <1>1, <2>2 DEF IsText
<1>4. CASE IsNested(x)
  <2>1. \A y \in PartsOf(x) : below[y] \in Seq(Tokens)
    BY <1>1 DEF IsText
  <2>2. PICK parts : parts = PartTexts(x, below)
    OBVIOUS
  <2>3. AreTexts(parts)
    BY <1>2, <1>4, <2>1, <2>2, PartsAreTexts
  <2>4. PICK a \in Tokens, b \in Tokens : a = Opens(x.kind) /\ b = Closes(x.kind)
    BY OpensIs
  <2>5. Written(t, a, parts, b)
    BY <1>2, <1>4, <2>2, <2>4
  <2>6. PICK r : LaidOut(t, a, parts, b, r)
    BY <2>3, <2>5, Layout
  <2>7. t \in Seq(Tokens) /\ Len(t) \in Nat /\ r[0] = 2 /\ \A k \in 0..Len(parts) : r[k] <= Len(t)
    BY <2>6 DEF LaidOut
  <2>8. 0 \in 0..Len(parts)
    BY <2>3 DEF AreTexts
  <2>9. 2 <= Len(t)
    BY <2>7, <2>8
  <2> QED BY <1>1, <2>7, <2>9 DEF IsText
<1> QED BY <1>3, <1>4

LEMMA TextsAre ==
  ASSUME NEW d, Whence(d), ~HasKeyEnv(d)
  PROVE  \A n \in 0..MaxLevels : \A x \in Level(d)[n] : IsText(Printings(d, Json)[n][x])
<1> DEFINE Good(n) == \A x \in Level(d)[n] : IsText(Printings(d, Json)[n][x])
           Bad == {k \in Nat : k <= MaxLevels /\ ~Good(MaxLevels - k)}
<1>1. MaxLevels \in Nat
  BY ValuesAssumption
<1>2. Bad = {}
  <2> SUFFICES ASSUME Bad # {} PROVE FALSE
    OBVIOUS
  <2>1. PICK k \in Bad : \A j \in Bad : k <= j
    <3> Bad \subseteq Nat
      OBVIOUS
    <3> HIDE DEF Bad
    <3> QED BY LeastNat
  <2>2. k \in Nat /\ k <= MaxLevels /\ ~Good(MaxLevels - k)
    BY <2>1
  <2>3. PICK n \in 0..MaxLevels : n = MaxLevels - k
    BY <1>1, <2>2
  <2>4. ASSUME NEW x \in Level(d)[n], NEW y \in PartsOf(x)
        PROVE  IsText(Printings(d, Json)[n + 1][y])
    <3>1. WithinLevels(d)
      BY DEF Whence
    <3>2. n + 1 \in 1..MaxLevels /\ y \in Level(d)[n + 1]
      BY <3>1, PartsClosed
    <3>3. k - 1 \in Nat /\ k - 1 < k /\ k - 1 <= MaxLevels /\ MaxLevels - (k - 1) = n + 1
      BY <1>1, <2>2, <2>3, <3>2
    <3>4. k - 1 \notin Bad
      <4> HIDE DEF Bad
      <4> QED BY <2>1, <2>2, <3>3
    <3>5. Good(n + 1)
      <4> HIDE DEF Good
      <4> QED BY <3>3, <3>4
    <3> QED BY <3>2, <3>5
  <2>5. \A x \in Level(d)[n] : IsText(Printings(d, Json)[n][x])
    BY <2>4, TextIs
  <2> QED BY <2>2, <2>3, <2>5
<1>3. \A n \in 0..MaxLevels : MaxLevels - n \in Nat /\ MaxLevels - n <= MaxLevels
                              /\ MaxLevels - (MaxLevels - n) = n
  BY <1>1
<1>4. \A n \in 0..MaxLevels : Good(n)
  <2> HIDE DEF Good
  <2> QED BY <1>2, <1>3
<1> QED BY <1>4

-------------------------------------------------------------------------------
(***************************************************************************)
(* What is claimed of a text, or of the rest of one, is so of every part.  *)
(***************************************************************************)
LEMMA LastOne ==
  ASSUME NEW a, NEW parts, NEW b, NEW t, NEW r, LaidOut(t, a, parts, b, r),
         NEW N \in Nat, N = Len(parts), NEW s, s = From(t, r[N])
  PROVE  s = <<b>> /\ s \in Seq(Tokens)
<1>1. /\ t \in Seq(Tokens) /\ Len(t) \in Nat /\ t[Len(t)] = b /\ r[N] = Len(t)
      /\ \A k \in 0..N : r[k] \in Nat /\ 2 <= r[k] /\ r[k] <= Len(t)
  BY DEF LaidOut
<1>2. PICK n \in Nat \ {0} : n = Len(t) /\ r[N] = n
  <2>1. N \in 0..N
    OBVIOUS
  <2>2. 2 <= r[N] /\ r[N] \in Nat
    BY <1>1, <2>1
  <2> QED BY <1>1, <2>2
<1>3. LET z == From(t, n)
      IN  z \in Seq(Tokens) /\ Len(z) = (IF n <= Len(t) THEN Len(t) - n + 1 ELSE 0)
          /\ \A j \in 1..(Len(t) - n + 1) : z[j] = t[n + j - 1]
  BY <1>1, FromIs
<1>4. Len(t) - n + 1 = 1 /\ n <= Len(t) /\ n + 1 - 1 = n /\ 1 \in 1..1
  BY <1>2
<1>5. s = From(t, n)
  BY <1>2
<1>6. s \in Seq(Tokens) /\ Len(s) = 1 /\ s[1] = b
  BY <1>1, <1>2, <1>3, <1>4, <1>5, Zenon
<1>7. s = <<b>>
  BY <1>6
<1> QED BY <1>6, <1>7

\* What is left of t behind k of N parts, and p, the one that comes then.
CutAt(s, t, r, k, p, parts, N) == N = Len(parts) /\ p = parts[k + 1] /\ s = From(t, r[k])

CutLeaves(s, t, r, k, p, N) ==
  /\ s \in Seq(Tokens) /\ Len(p) \in Nat /\ Len(s) \in Nat /\ Len(p) < Len(s)
  /\ \A j \in 1..Len(p) : s[j] = p[j]
  /\ k + 1 # N => s[Len(p) + 1] = "," /\ From(s, Len(p) + 2) = From(t, r[k + 1])
  /\ k + 1 = N => From(s, Len(p) + 1) = From(t, r[k + 1])

LEMMA PartCut ==
  ASSUME NEW a, NEW parts, NEW b, NEW t, NEW r, LaidOut(t, a, parts, b, r),
         NEW N \in Nat, NEW k \in 0..N, k # N, PartIn(t, parts, r, k + 1),
         NEW p \in Seq(Tokens), NEW s, CutAt(s, t, r, k, p, parts, N)
  PROVE  CutLeaves(s, t, r, k, p, N)
<1>0. N = Len(parts) /\ p = parts[k + 1] /\ s = From(t, r[k])
  BY DEF CutAt
<1>1. /\ t \in Seq(Tokens) /\ Len(t) \in Nat
      /\ r[k] \in Nat /\ 2 <= r[k] /\ r[k] <= Len(t)
  BY <1>0 DEF LaidOut
<1>2. PICK i \in Nat \ {0}, h \in 1..N, q \in Nat : i = r[k] /\ h = k + 1 /\ q = Len(p) /\ k = h - 1
  <2>1. PICK i \in Nat \ {0} : i = r[k]
    BY <1>1
  <2>2. PICK h \in 1..N : h = k + 1 /\ k = h - 1
    OBVIOUS
  <2>3. PICK q \in Nat : q = Len(p)
    OBVIOUS
  <2> QED BY <2>1, <2>2, <2>3, Zenon
<1>3. /\ i + q - 1 < Len(t) /\ \A j \in 1..q : t[i + j - 1] = p[j]
      /\ h # N => r[h] = i + q - 1 + 2 /\ t[i + q - 1 + 1] = ","
      /\ h = N => r[h] = i + q - 1 + 1
  <2>1. PartIn(t, parts, r, h) /\ p = parts[h]
    BY <1>0, <1>2
  <2> QED BY <1>0, <1>2, <2>1 DEF PartIn
<1>4. s \in Seq(Tokens) /\ Len(s) = Len(t) - i + 1 /\ \A j \in 1..(Len(t) - i + 1) : s[j] = t[i + j - 1]
  <2>1. LET z == From(t, i)
        IN  /\ z \in Seq(Tokens) /\ Len(z) = IF i <= Len(t) THEN Len(t) - i + 1 ELSE 0
            /\ \A j \in 1..(Len(t) - i + 1) : z[j] = t[i + j - 1]
    BY <1>1, FromIs
  <2>2. s = From(t, i) /\ i <= Len(t)
    BY <1>0, <1>1, <1>2
  <2> QED BY <2>1, <2>2
<1>5. /\ q < Len(s) /\ Len(s) \in Nat /\ \A j \in 1..q : j \in 1..(Len(t) - i + 1)
      /\ q + 1 \in 1..(Len(t) - i + 1)
  <2>1. PICK L \in Nat : L = Len(t)
    BY <1>1
  <2>2. i + q - 1 < L
    BY <1>3, <2>1
  <2>3. L - i + 1 \in Nat /\ q + 1 \in 1..(L - i + 1) /\ \A j \in 1..q : j \in 1..(L - i + 1)
    BY <2>2
  <2>4. Len(s) = L - i + 1
    BY <1>4, <2>1
  <2>5. q < L - i + 1
    BY <2>2
  <2> QED BY <2>1, <2>3, <2>4, <2>5
<1>6. \A j \in 1..q : s[j] = p[j]
  BY <1>3, <1>4, <1>5
<1>7. h # N => s[q + 1] = ","
  <2>1. i + (q + 1) - 1 = i + q - 1 + 1
    OBVIOUS
  <2> QED BY <1>3, <1>4, <1>5, <2>1
<1>8. \A m \in Nat \ {0} : From(s, m) = From(t, i + m - 1)
  <2>1. \A m \in Nat \ {0} : From(From(t, i), m) = From(t, i + m - 1)
    <3>1. i <= Len(t) + 1
      BY <1>1, <1>2
    <3> QED BY <1>1, <3>1, FromFrom
  <2> QED BY <1>0, <1>2, <2>1
<1>9. h # N => From(s, q + 2) = From(t, r[h])
  <2>1. q + 2 \in Nat \ {0} /\ i + (q + 2) - 1 = i + q - 1 + 2
    OBVIOUS
  <2> QED BY <1>3, <1>8, <2>1
<1>10. h = N => From(s, q + 1) = From(t, r[h])
  <2>1. q + 1 \in Nat \ {0} /\ i + (q + 1) - 1 = i + q - 1 + 1
    OBVIOUS
  <2> QED BY <1>3, <1>8, <2>1
<1> QED BY <1>2, <1>4, <1>5, <1>6, <1>7, <1>9, <1>10 DEF CutLeaves

\* r says where the parts of x are in its text.
Spread(d, n, x, r) ==
  LET parts == PartTexts(x, Printings(d, Json)[n + 1])
      t == Printings(d, Json)[n][x]
  IN  /\ LaidOut(t, Opens(x.kind), parts, Closes(x.kind), r)
      /\ \A k \in 1..Len(parts) : PartIn(t, parts, r, k)

Places(d, n, x) == CHOOSE r : Spread(d, n, x, r)

LEMMA PartsIn ==
  ASSUME NEW d, Whence(d), ~HasKeyEnv(d), NEW n \in 0..MaxLevels, NEW x \in Level(d)[n], IsNested(x)
  PROVE  LET below == Printings(d, Json)[n + 1]
         IN  /\ EnvFree(x) /\ x.kind \in Kinds
             /\ AreTexts(PartTexts(x, below)) /\ Len(PartTexts(x, below)) = Size(x)
             /\ \A k \in 1..Size(x) :
                  /\ n + 1 \in 1..MaxLevels /\ PartAt(x, k) \in Level(d)[n + 1]
                  /\ IsText(below[PartAt(x, k)])
                  /\ Part(PartTexts(x, below)[k], below[PartAt(x, k)], x, k)
<1>1. PICK below : below = Printings(d, Json)[n + 1]
  OBVIOUS
<1>2. EnvFree(x) /\ x.kind \in Kinds
  BY Unkeyed
<1>3. \A y \in PartsOf(x) : n + 1 \in 1..MaxLevels /\ y \in Level(d)[n + 1]
  BY PartsClosed DEF Whence
<1>4. \A y \in PartsOf(x) : IsText(below[y])
  <2> SUFFICES ASSUME NEW y \in PartsOf(x) PROVE IsText(below[y])
    OBVIOUS
  <2>1. n + 1 \in 0..MaxLevels /\ y \in Level(d)[n + 1]
    BY <1>3
  <2>2. IsText(Printings(d, Json)[n + 1][y])
    BY <2>1, TextsAre
  <2> QED BY <1>1, <2>2
<1>5. \A y \in PartsOf(x) : below[y] \in Seq(Tokens)
  BY <1>4 DEF IsText
<1>6. /\ AreTexts(PartTexts(x, below)) /\ Len(PartTexts(x, below)) = Size(x)
      /\ \A k \in 1..Size(x) :
           /\ PartAt(x, k) \in PartsOf(x)
           /\ Part(PartTexts(x, below)[k], below[PartAt(x, k)], x, k)
  BY <1>2, <1>5, PartsAreTexts
<1> QED BY <1>1, <1>2, <1>3, <1>4, <1>6

LEMMA SpreadIs ==
  ASSUME NEW d, Whence(d), ~HasKeyEnv(d), NEW n \in 0..MaxLevels, NEW x \in Level(d)[n], IsNested(x)
  PROVE  Spread(d, n, x, Places(d, n, x))
<1>1. PICK t, below : t = Printings(d, Json)[n][x] /\ below = Printings(d, Json)[n + 1]
  OBVIOUS
<1>2. PICK parts : parts = PartTexts(x, below)
  OBVIOUS
<1>3. AreTexts(parts)
  BY <1>1, <1>2, PartsIn
<1>4. PICK a \in Tokens, b \in Tokens : a = Opens(x.kind) /\ b = Closes(x.kind)
  BY OpensIs
<1>5. Written(t, a, parts, b)
  <2>1. Written(t, Opens(x.kind), PartTexts(x, below), Closes(x.kind))
    BY <1>1, PrintedAs
  <2> QED BY <1>2, <1>4, <2>1
<1>6. PICK r : LaidOut(t, a, parts, b, r) /\ \A k \in 1..Len(parts) : PartIn(t, parts, r, k)
  BY <1>3, <1>5, Layout
<1>7. Spread(d, n, x, r)
  BY <1>1, <1>2, <1>4, <1>6, Zenon DEF Spread
<1> QED BY <1>7, Zenon DEF Places

\* The claims on the texts of d, and on what is left of them behind some parts.
TextsAt(d, n) == {AsText(Printings(d, Json)[n][x], x, n) : x \in Level(d)[n]}
TextsIn(d) == UNION {TextsAt(d, n) : n \in 0..MaxLevels}

RestAt(d, n, x, k) == From(Printings(d, Json)[n][x], Places(d, n, x)[k])
RestsFrom(d, n, x) == {AsRest(RestAt(d, n, x, k), x, n, k) : k \in 0..Size(x)}
RestsAt(d, n) == UNION {RestsFrom(d, n, x) : x \in {y \in Level(d)[n] : IsNested(y)}}
RestsIn(d) == UNION {RestsAt(d, n) : n \in 0..MaxLevels}

LEMMA TextIn ==
  ASSUME NEW d, NEW u, NEW x, NEW n
  PROVE  AsText(u, x, n) \in TextsIn(d)
           <=> n \in 0..MaxLevels /\ x \in Level(d)[n] /\ u = Printings(d, Json)[n][x]
<1>1. \A v, y, m : AsText(u, x, n) = AsText(v, y, m) <=> u = v /\ x = y /\ n = m
  BY DEF AsText
<1>2. PICK c : c = AsText(u, x, n)
  OBVIOUS
<1>3. c \in TextsIn(d) <=> \E m \in 0..MaxLevels : c \in TextsAt(d, m)
  BY DEF TextsIn
<1>4. \A m : c \in TextsAt(d, m) <=> \E y \in Level(d)[m] : c = AsText(Printings(d, Json)[m][y], y, m)
  BY DEF TextsAt
<1>5. ASSUME c \in TextsIn(d)
      PROVE  n \in 0..MaxLevels /\ x \in Level(d)[n] /\ u = Printings(d, Json)[n][x]
  <2>0. PICK m \in 0..MaxLevels : c \in TextsAt(d, m)
    BY <1>3, <1>5, Zenon
  <2>1. PICK y \in Level(d)[m] : c = AsText(Printings(d, Json)[m][y], y, m)
    BY <1>4, <2>0, Zenon
  <2>2. u = Printings(d, Json)[m][y] /\ x = y /\ n = m
    BY <1>1, <1>2, <2>1, Zenon
  <2> QED BY <2>1, <2>2, Zenon
<1>6. ASSUME n \in 0..MaxLevels, x \in Level(d)[n], u = Printings(d, Json)[n][x]
      PROVE  c \in TextsIn(d)
  <2>1. c = AsText(Printings(d, Json)[n][x], x, n)
    BY <1>2, <1>6
  <2>2. c \in TextsAt(d, n)
    BY <1>4, <1>6, <2>1, Zenon
  <2> QED BY <1>3, <1>6, <2>2, Zenon
<1> QED BY <1>2, <1>5, <1>6, Zenon

LEMMA RestIn ==
  ASSUME NEW d, NEW s, NEW x, NEW n, NEW k
  PROVE  AsRest(s, x, n, k) \in RestsIn(d)
           <=> /\ n \in 0..MaxLevels /\ x \in Level(d)[n] /\ IsNested(x)
               /\ k \in 0..Size(x) /\ s = RestAt(d, n, x, k)
<1>1. \A t, y, m, j : AsRest(s, x, n, k) = AsRest(t, y, m, j) <=> s = t /\ x = y /\ n = m /\ k = j
  BY DEF AsRest
<1>2. PICK c : c = AsRest(s, x, n, k)
  OBVIOUS
<1>3. c \in RestsIn(d) <=> \E m \in 0..MaxLevels : c \in RestsAt(d, m)
  BY DEF RestsIn
<1>4. \A m : c \in RestsAt(d, m) <=> \E y \in Level(d)[m] : IsNested(y) /\ c \in RestsFrom(d, m, y)
  BY DEF RestsAt
<1>5. \A m, y : c \in RestsFrom(d, m, y) <=> \E j \in 0..Size(y) : c = AsRest(RestAt(d, m, y, j), y, m, j)
  BY DEF RestsFrom
<1>6. ASSUME c \in RestsIn(d)
      PROVE  /\ n \in 0..MaxLevels /\ x \in Level(d)[n] /\ IsNested(x)
             /\ k \in 0..Size(x) /\ s = RestAt(d, n, x, k)
  <2>0. PICK m \in 0..MaxLevels : c \in RestsAt(d, m)
    BY <1>3, <1>6, Zenon
  <2>1. PICK y \in Level(d)[m] : IsNested(y) /\ c \in RestsFrom(d, m, y)
    BY <1>4, <2>0, Zenon
  <2>2. PICK j \in 0..Size(y) : c = AsRest(RestAt(d, m, y, j), y, m, j)
    BY <1>5, <2>1, Zenon
  <2>3. s = RestAt(d, m, y, j) /\ x = y /\ n = m /\ k = j
    BY <1>1, <1>2, <2>2, Zenon
  <2> QED BY <2>1, <2>2, <2>3, Zenon
<1>7. ASSUME n \in 0..MaxLevels, x \in Level(d)[n], IsNested(x), k \in 0..Size(x),
             s = RestAt(d, n, x, k)
      PROVE  c \in RestsIn(d)
  <2>1. c = AsRest(RestAt(d, n, x, k), x, n, k)
    BY <1>2, <1>7
  <2>2. c \in RestsFrom(d, n, x)
    BY <1>5, <1>7, <2>1, Zenon
  <2>3. c \in RestsAt(d, n)
    BY <1>4, <1>7, <2>2, Zenon
  <2> QED BY <1>3, <1>7, <2>3, Zenon
<1> QED BY <1>2, <1>6, <1>7, Zenon

LEMMA NotTooDeep ==
  ASSUME NEW d, AtMostDeep(d, MaxNesting), NEW n \in 0..MaxLevels, NEW x \in Level(d)[n], IsNested(x)
  PROVE  n \in Nat /\ n < MaxNesting
<1>1. n \in Nat /\ MaxNesting \in Nat
  BY Limit, ValuesAssumption
<1>2. ~(n >= MaxNesting)
  BY Zenon DEF AtMostDeep
<1> QED BY <1>1, <1>2

LEMMA TextsTold ==
  ASSUME NEW d, Whence(d), ~HasKeyEnv(d), AtMostDeep(d, MaxNesting), NEW n \in 0..MaxLevels, NEW x \in Level(d)[n]
  PROVE  TextOf(RestsIn(d), Printings(d, Json)[n][x], x, n)
<1>1. PICK u : u = Printings(d, Json)[n][x]
  OBVIOUS
<1>2. u \in Seq(Tokens) /\ Len(u) >= 1
  BY <1>1, TextsAre DEF IsText
<1>3. n \in Nat
  BY ValuesAssumption
<1>4. ASSUME ~IsNested(x) PROVE x \in Scalars \ {Broken} /\ Len(u) = 1 /\ u[1] = x
  <2>1. x \in Scalars \ {Broken} /\ u = <<x>>
    BY <1>1, <1>4, PrintedAs
  <2> QED BY <2>1
<1>5. ASSUME IsNested(x)
      PROVE  EnvFree(x) /\ n < MaxNesting /\ u[1] = Opens(x.kind)
             /\ AsRest(From(u, 2), x, n, 0) \in RestsIn(d)
  <2>1. EnvFree(x)
    BY <1>5, PartsIn
  <2>2. n < MaxNesting
    BY <1>5, NotTooDeep
  <2>3. PICK r : r = Places(d, n, x)
    OBVIOUS
  <2>4. u[1] = Opens(x.kind) /\ r[0] = 2
    <3>1. Spread(d, n, x, r)
      BY <1>5, <2>3, SpreadIs
    <3> QED BY <1>1, <3>1, Zenon DEF Spread, LaidOut
  <2>5. From(u, 2) = RestAt(d, n, x, 0)
    BY <1>1, <2>3, <2>4, Zenon DEF RestAt
  <2>6. 0 \in 0..Size(x)
    BY <2>1, SizeIs
  <2>7. AsRest(From(u, 2), x, n, 0) \in RestsIn(d)
    BY <1>5, <2>5, <2>6, RestIn
  <2> QED BY <2>1, <2>2, <2>4, <2>7
<1> QED BY <1>1, <1>2, <1>3, <1>4, <1>5, Zenon DEF TextOf

LEMMA RestsTold ==
  ASSUME NEW d, Whence(d), ~HasKeyEnv(d), AtMostDeep(d, MaxNesting), NEW n \in 0..MaxLevels, NEW x \in Level(d)[n],
         IsNested(x), NEW k \in 0..Size(x)
  PROVE  RestOf(TextsIn(d), RestsIn(d), RestAt(d, n, x, k), x, n, k)
<1>1. PICK t, below : t = Printings(d, Json)[n][x] /\ below = Printings(d, Json)[n + 1]
  OBVIOUS
<1>2. PICK parts, r, s : parts = PartTexts(x, below) /\ r = Places(d, n, x) /\ s = RestAt(d, n, x, k)
  OBVIOUS
<1>3. PICK a, b : a = Opens(x.kind) /\ b = Closes(x.kind)
  OBVIOUS
<1>4. LaidOut(t, a, parts, b, r) /\ \A i \in 1..Len(parts) : PartIn(t, parts, r, i)
  <2>1. Spread(d, n, x, r)
    BY <1>2, SpreadIs
  <2> QED BY <1>1, <1>2, <1>3, <2>1, Zenon DEF Spread
<1>5. n \in Nat /\ n < MaxNesting
  BY NotTooDeep
<1>6. /\ EnvFree(x) /\ x.kind \in Kinds /\ Len(parts) = Size(x)
      /\ \A i \in 1..Size(x) :
           /\ n + 1 \in 1..MaxLevels /\ PartAt(x, i) \in Level(d)[n + 1]
           /\ IsText(below[PartAt(x, i)]) /\ Part(parts[i], below[PartAt(x, i)], x, i)
  BY <1>1, <1>2, PartsIn
<1>7. PICK N \in Nat : N = Size(x) /\ N = Len(parts) /\ k \in 0..N
  BY <1>6, SizeIs
<1>8. s = From(t, r[k])
  BY <1>1, <1>2, Zenon DEF RestAt
<1>9. CASE k = N
  <2>1. s = From(t, r[N])
    BY <1>8, <1>9
  <2>2. s = <<b>> /\ s \in Seq(Tokens)
    BY <1>4, <1>7, <2>1, LastOne
  <2> QED BY <1>2, <1>3, <1>5, <1>6, <1>7, <1>9, <2>2, Zenon DEF RestOf
<1>10. CASE k # N
  <2>1. PICK h \in 1..N : h = k + 1
    BY <1>7, <1>10
  <2>2. PICK p, u, y : p = parts[h] /\ u = below[y] /\ y = PartAt(x, h)
    OBVIOUS
  <2>3. /\ n + 1 \in 1..MaxLevels /\ y \in Level(d)[n + 1]
        /\ IsText(u) /\ Part(p, u, x, h)
    BY <1>6, <1>7, <2>1, <2>2
  <2>4. /\ u \in Seq(Tokens) /\ Len(u) >= 1 /\ p \in Seq(Tokens) /\ Len(p) \in Nat /\ Len(u) \in Nat
        /\ Len(p) = Len(u) + ValueFrom(x) - 1
        /\ \A j \in 1..Len(u) : p[j + ValueFrom(x) - 1] = u[j]
        /\ x.kind = "object" => p[1] = x.pairs[h][1] /\ p[2] = ":"
    BY <2>3, Zenon DEF IsText, Part
  <2>5. /\ s \in Seq(Tokens) /\ Len(p) \in Nat /\ Len(s) \in Nat /\ Len(p) < Len(s)
        /\ \A j \in 1..Len(p) : s[j] = p[j]
        /\ k + 1 # N => s[Len(p) + 1] = "," /\ From(s, Len(p) + 2) = From(t, r[k + 1])
        /\ k + 1 = N => From(s, Len(p) + 1) = From(t, r[k + 1])
    <3>1. PartIn(t, parts, r, k + 1) /\ p = parts[k + 1] /\ p \in Seq(Tokens)
      BY <1>4, <1>7, <2>1, <2>2, <2>4
    <3>2. CutAt(s, t, r, k, p, parts, N)
      BY <1>7, <1>8, <3>1 DEF CutAt
    <3>3. LaidOut(t, a, parts, b, r) /\ k \in 0..N
      BY <1>4, <1>7
    <3>4. PartIn(t, parts, r, k + 1) /\ p \in Seq(Tokens)
      BY <3>1
    <3>5. CutLeaves(s, t, r, k, p, N)
      BY <1>10, <3>2, <3>3, <3>4, PartCut
    <3> QED BY <3>5, Zenon DEF CutLeaves
  <2>6. PICK q \in Nat, m \in {1, 3} : q = Len(p) /\ m = ValueFrom(x)
    BY <2>4 DEF ValueFrom
  <2>7. PICK l \in Nat : l = Len(u) /\ l >= 1 /\ q = l + m - 1
    BY <2>4, <2>6
  <2>8. m <= q /\ q < Len(s) /\ m \in Nat \ {0} /\ q <= Len(s) /\ l = q - m + 1
    <3>1. PICK M \in Nat : M = Len(s)
      BY <2>5
    <3>2. q < M
      BY <2>5, <2>6, <3>1
    <3>3. m <= q /\ m \in Nat \ {0} /\ q <= M /\ l = q - m + 1
      BY <2>7, <3>2
    <3> QED BY <3>1, <3>2, <3>3, Zenon
  <2>9. SubSeq(s, m, q) = u
    <3>1. /\ SubSeq(s, m, q) \in Seq(Tokens) /\ Len(SubSeq(s, m, q)) = q - m + 1
          /\ \A j \in 1..(q - m + 1) : SubSeq(s, m, q)[j] = s[m + j - 1]
      <4>1. s \in Seq(Tokens)
        BY <2>5
      <4>2. m \in Nat \ {0} /\ q \in Nat /\ m <= q /\ q <= Len(s)
        BY <2>8
      <4> QED BY <4>1, <4>2, Slice
    <3>2. \A j \in 1..l : m + j - 1 = j + m - 1 /\ m + j - 1 \in 1..q
      BY <2>7
    <3>3. \A j \in 1..l : s[j + m - 1] = u[j]
      <4>1. \A j \in 1..l : p[j + m - 1] = u[j]
        BY <2>4, <2>6, <2>7
      <4>2. \A j \in 1..q : s[j] = p[j]
        BY <2>5, <2>6
      <4> QED BY <3>2, <4>1, <4>2
    <3>4. PICK z : z = SubSeq(s, m, q)
      OBVIOUS
    <3>5. z \in Seq(Tokens) /\ Len(z) = Len(u) /\ \A j \in 1..Len(u) : z[j] = u[j]
      BY <2>7, <2>8, <3>1, <3>2, <3>3, <3>4
    <3>6. z = u
      BY <2>4, <3>5, SeqEqual
    <3> QED BY <3>4, <3>6
  <2>10. AsText(SubSeq(s, m, q), y, n + 1) \in TextsIn(d)
    <3>1. n + 1 \in 0..MaxLevels /\ u = Printings(d, Json)[n + 1][y]
      BY <1>1, <2>2, <2>3
    <3> QED BY <2>3, <2>9, <3>1, TextIn
  <2>11. x.kind = "object" => s[1] = x.pairs[h][1] /\ s[2] = ":"
    <3> SUFFICES ASSUME x.kind = "object" PROVE s[1] = x.pairs[h][1] /\ s[2] = ":"
      OBVIOUS
    <3>1. m = 3
      BY <2>6 DEF ValueFrom
    <3>2. 1 \in 1..q /\ 2 \in 1..q
      BY <2>7, <3>1
    <3>3. s[1] = p[1] /\ s[2] = p[2]
      BY <2>5, <2>6, <3>2
    <3> QED BY <2>4, <3>3
  <2>12. PICK e : e = IF h = N THEN q + 1 ELSE q + 2
    OBVIOUS
  <2>13. (IF h = N THEN e = q + 1 ELSE e = q + 2 /\ s[q + 1] = ",") /\ From(s, e) = From(t, r[h])
    BY <2>1, <2>5, <2>6, <2>12
  <2>14. AsRest(From(s, e), x, n, h) \in RestsIn(d)
    <3>1. From(s, e) = RestAt(d, n, x, h)
      BY <1>1, <1>2, <2>13, Zenon DEF RestAt
    <3>2. h \in 0..Size(x)
      BY <1>7
    <3> QED BY <3>1, <3>2, RestIn
  <2>15. ItemIn(TextsIn(d), RestsIn(d), s, x, n, h, q, e)
    BY <1>7, <2>2, <2>6, <2>8, <2>10, <2>11, <2>13, <2>14, Zenon DEF ItemIn
  <2>16. RestOf(TextsIn(d), RestsIn(d), s, x, n, k)
    BY <1>5, <1>6, <1>7, <1>10, <2>1, <2>5, <2>15, Zenon DEF RestOf
  <2> QED BY <1>2, <2>16
<1> QED BY <1>9, <1>10

\* The text of an element tells it.
LEMMA TextTells ==
  ASSUME NEW d, Whence(d), ~HasKeyEnv(d), AtMostDeep(d, MaxNesting)
  PROVE  Tells(Text(d, Json), d, 0)
<1>1. ASSUME NEW u, NEW x, NEW n, AsText(u, x, n) \in TextsIn(d) PROVE TextOf(RestsIn(d), u, x, n)
  <2>1. n \in 0..MaxLevels /\ x \in Level(d)[n] /\ u = Printings(d, Json)[n][x]
    BY <1>1, TextIn
  <2> QED BY <2>1, TextsTold
<1>2. ASSUME NEW s, NEW x, NEW n, NEW k, AsRest(s, x, n, k) \in RestsIn(d)
      PROVE  RestOf(TextsIn(d), RestsIn(d), s, x, n, k)
  <2>1. /\ n \in 0..MaxLevels /\ x \in Level(d)[n] /\ IsNested(x)
        /\ k \in 0..Size(x) /\ s = RestAt(d, n, x, k)
    BY <1>2, RestIn
  <2> QED BY <2>1, RestsTold
<1>3. Supported(TextsIn(d), RestsIn(d))
  BY <1>1, <1>2, Zenon DEF Supported
<1>4. AsText(Text(d, Json), d, 0) \in TextsIn(d)
  <2>1. 0 \in 0..MaxLevels /\ d \in Level(d)[0]
    <3>1. d \in Level(d)[0]
      BY PartsClosed DEF Whence
    <3> QED BY <3>1, ValuesAssumption
  <2> QED BY <2>1, TextIn DEF Text
<1> QED BY <1>3, <1>4 DEF Tells

-------------------------------------------------------------------------------
(***************************************************************************)
(* unref: an element is printed, and its text is read.                     *)
(***************************************************************************)
\* Nothing is read yet, or the stack holds what is read so far, or it is a copy.
CopyOnItsWay(d) ==
  \/ frames = << >> /\ read = Nothing
  \/ Copying(frames, d) /\ read = Nothing
  \/ frames = << >> /\ read = d

Told == mode = Json /\ Printable(made) /\ AtMostDeep(made, MaxNesting) /\ ~HasKeyEnv(made)

CopyMade ==
  /\ text = Nothing => frames = << >> /\ read = Nothing
  /\ text # Nothing /\ intact =>
       /\ shown = Nothing /\ work = << >> /\ IsElement(made) /\ WithinLevels(made)
       /\ text = Text(made, mode)
       /\ Told => CopyOnItsWay(made)

LEMMA NoWork == ASSUME OnItsWay, IsElement(made) PROVE work = << >>
<1>1. made # Nothing
  BY DEF IsElement, Failures
<1> QED BY <1>1, Zenon DEF OnItsWay, NoConversion, Forth, ThereAndBack, Converting

LEMMA ReadsOn ==
  ASSUME OnItsWay, CopyMade, Reads
  PROVE  CopyMade'
<1>1. /\ text # Nothing /\ work' = work /\ made' = made /\ given' = given /\ shown' = shown
      /\ mode' = mode /\ text' = text /\ intact' = intact
      /\ Parse(text) \/ ParseItem \/ ParseReturn
  <2>1. text # Nothing /\ UNCHANGED <<work, made, given, shown, mode, text, intact>>
        /\ (Parse(text) \/ ParseItem \/ ParseReturn)
    BY Zenon DEF Reads
  <2> QED BY <2>1
<1>2. CASE ~intact
  BY <1>1, <1>2 DEF CopyMade
<1>3. CASE intact
  <2>1. /\ shown = Nothing /\ work = << >> /\ IsElement(made) /\ WithinLevels(made)
        /\ text = Text(made, mode) /\ (Told => CopyOnItsWay(made))
    BY <1>1, <1>3, Zenon DEF CopyMade
  <2>2. PICK d : d = made
    OBVIOUS
  <2>3. ASSUME Told
        PROVE  \/ frames' = << >> /\ read' = Nothing
               \/ Copying(frames', d) /\ read' = Nothing
               \/ frames' = << >> /\ read' = d
    <3>1. \/ frames = << >> /\ read = Nothing
          \/ Copying(frames, d) /\ read = Nothing
          \/ frames = << >> /\ read = d
      BY <2>1, <2>2, <2>3, Zenon DEF CopyOnItsWay
    <3>2. CASE Parse(text)
      <4>1. frames = << >> /\ read = Nothing
        BY <3>2, Zenon DEF Parse
      <4>2. mode = Json /\ Printable(made) /\ AtMostDeep(d, MaxNesting) /\ ~HasKeyEnv(d)
        BY <2>2, <2>3, Zenon DEF Told
      <4>3. Whence(d)
        BY <2>1, <2>2, <4>2, MadeFits
      <4>4. Tells(Text(d, Json), d, 0)
        BY <4>2, <4>3, TextTells
      <4>5. IsNested(d)
        BY <4>3, Zenon DEF Whence
      <4>6. Tells(text, d, 0)
        BY <2>1, <2>2, <4>2, <4>4, Zenon
      <4>7. Copying(frames', d) /\ read' = read
        BY <3>2, <4>5, <4>6, CopyBegins
      <4> QED BY <4>1, <4>7, Zenon
    <3>3. ASSUME ParseItem \/ ParseReturn PROVE Copying(frames, d) /\ read = Nothing
      <4>1. frames # << >>
        BY <3>3, Zenon DEF ParseItem, MoreItems, ParseReturn
      <4> QED BY <3>1, <4>1, Zenon
    <3>4. CASE ParseItem
      BY <3>3, <3>4, CopyTakesItem, Zenon
    <3>5. CASE ParseReturn
      BY <3>3, <3>5, CopyReturns, Zenon
    <3> QED BY <1>1, <3>2, <3>4, <3>5, Zenon
  <2>4. Told' => CopyOnItsWay(made)'
    <3>1. Told' => Told
      BY <1>1 DEF Told
    <3>2. CopyOnItsWay(d)' => CopyOnItsWay(made)'
      BY <1>1, <2>2 DEF CopyOnItsWay
    <3> QED BY <2>3, <3>1, <3>2, Zenon DEF CopyOnItsWay
  <2>5. shown' = Nothing /\ work' = << >> /\ IsElement(made') /\ WithinLevels(made')
        /\ text' = Text(made', mode')
    BY <1>1, <2>1, Zenon
  <2>6. IsElement(made)' /\ WithinLevels(made)' /\ text' = Text(made, mode)'
    BY <2>5
  <2>7. text' # Nothing
    BY <1>1
  <2> QED BY <2>4, <2>5, <2>6, <2>7, Zenon DEF CopyMade
<1> QED BY <1>2, <1>3

LEMMA CopyGoesOn ==
  ASSUME OnItsWay, CopyMade, [Next]_vars
  PROVE  CopyMade'
<1>1. CASE Converts
  <2>1. AnyRound /\ UNCHANGED <<frames, read, given, shown, mode, text, intact>>
    BY <1>1, Zenon DEF Converts, AnyRound
  <2>2. frames' = frames /\ read' = read /\ text' = text /\ intact' = intact
    BY <2>1
  <2>3. work # << >>
    BY <2>1, Zenon DEF AnyRound, ListItem, HashItem, OtherHalf, Deliver, InList, InHash, AtEnd, Busy
  <2>4. (text = Nothing => frames = << >> /\ read = Nothing) /\ ~(text # Nothing /\ intact)
    BY <2>3, Zenon DEF CopyMade
  <2>5. (text' = Nothing => frames' = << >> /\ read' = Nothing) /\ ~(text' # Nothing /\ intact')
    BY <2>2, <2>4, Zenon
  <2> QED BY <2>5, Zenon DEF CopyMade
<1>2. CASE Renders \/ ToTable
  <2>1. text = Nothing /\ frames' = frames /\ read' = read /\ text' = text
    BY <1>2 DEF Renders, ToTable
  <2>2. text' = Nothing /\ frames' = << >> /\ read' = Nothing
    BY <2>1, Zenon DEF CopyMade
  <2> QED BY <2>2, Zenon DEF CopyMade
<1>3. CASE Prints
  <2>1. /\ IsElement(made) /\ WithinLevels(made) /\ text = Nothing /\ shown = Nothing
        /\ text' = Text(made, mode)
        /\ UNCHANGED <<work, made, frames, read, given, shown, mode, intact>>
    BY <1>3, Zenon DEF Prints
  <2>2. work' = work /\ made' = made /\ frames' = frames /\ read' = read /\ shown' = shown /\ mode' = mode
    BY <2>1
  <2>3. work = << >>
    BY <2>1, NoWork
  <2>4. frames = << >> /\ read = Nothing
    BY <2>1, Zenon DEF CopyMade
  <2>5. frames' = << >> /\ read' = Nothing
    BY <2>2, <2>4
  <2>6. CopyOnItsWay(made)'
    BY <2>5, Zenon DEF CopyOnItsWay
  <2>7. IsElement(made') /\ WithinLevels(made') /\ text' = Text(made', mode')
    BY <2>1, <2>2, Zenon
  <2>8. IsElement(made)' /\ WithinLevels(made)' /\ text' = Text(made, mode)'
    BY <2>7
  <2>9. shown' = Nothing /\ work' = << >>
    BY <2>1, <2>2, <2>3
  <2> QED BY <2>5, <2>6, <2>8, <2>9, Zenon DEF CopyMade
<1>4. CASE Damage
  <2>1. frames = << >> /\ read = Nothing /\ intact' = FALSE
        /\ UNCHANGED <<work, made, frames, read, given, shown, mode>>
    BY <1>4, Zenon DEF Damage
  <2>2. frames' = << >> /\ read' = Nothing /\ ~intact'
    BY <2>1
  <2> QED BY <2>2, Zenon DEF CopyMade
<1>5. CASE Reads
  BY <1>5, ReadsOn
<1>6. CASE UNCHANGED vars
  <2>1. /\ work' = work /\ made' = made /\ frames' = frames /\ read' = read /\ shown' = shown
        /\ mode' = mode /\ text' = text /\ intact' = intact
    BY <1>6 DEF vars
  <2>2. (Told <=> Told') /\ (CopyOnItsWay(made) <=> CopyOnItsWay(made)')
    BY <2>1 DEF Told, CopyOnItsWay
  <2>3. (IsElement(made) <=> IsElement(made')) /\ (WithinLevels(made) <=> WithinLevels(made'))
        /\ Text(made, mode) = Text(made', mode')
    BY <2>1
  <2> QED BY <2>1, <2>2, <2>3 DEF CopyMade
<1>7. Done => UNCHANGED vars
  BY Zenon DEF Done
<1> QED BY <1>1, <1>2, <1>3, <1>4, <1>5, <1>6, <1>7, Zenon DEF Next

LEMMA CopyNotBegun == ASSUME Init PROVE CopyMade
<1>1. frames = << >> /\ read = Nothing
  BY DEF Init
<1>2. \/ text = Nothing
      \/ intact = FALSE
  BY Zenon DEF Init, FromTable, FromElement, FromText
<1> QED BY <1>1, <1>2, Zenon DEF CopyMade

\* Without a key "env" in it, an element is the copy of itself.
LEMMA CopyIsSame ==
  ASSUME NEW d, Whence(d), ~HasKeyEnv(d)
  PROVE  CopyOf(d) = d
<1> DEFINE Good(n) == \A x \in Level(d)[n] : CopyAt(d)[n][x] = x
           Bad == {k \in Nat : k <= MaxLevels /\ ~Good(MaxLevels - k)}
<1>1. MaxLevels \in Nat
  BY ValuesAssumption
<1>2. WithinLevels(d)
  BY DEF Whence
<1>3. ASSUME NEW n \in 0..MaxLevels, NEW x \in Level(d)[n],
             \A y \in PartsOf(x) : CopyAt(d)[n + 1][y] = y
      PROVE  CopyAt(d)[n][x] = x
  <2>1. PICK below : below = CopyAt(d)[n + 1]
    OBVIOUS
  <2>2. CopyAt(d)[n][x] = CopyFrom(x, below)
    <3>1. CopyAt(d)[n] = [y \in Level(d)[n] |-> CopyFrom(y, CopyAt(d)[n + 1])]
      BY CopyAtIs, Zenon
    <3> QED BY <2>1, <3>1, Zenon
  <2>3. \A y \in PartsOf(x) : below[y] = y
    BY <1>3, <2>1
  <2>4. CASE ~IsNested(x)
    BY <2>2, <2>4, Zenon DEF CopyFrom
  <2>5. CASE IsNested(x) /\ x.kind = "array"
    <3>1. x = Array(x.items) /\ IsSeq(x.items)
      BY <2>5, Unkeyed, SizeIs
    <3>2. PartsOf(x) = Range(x.items)
      BY <2>5 DEF PartsOf
    <3>3. [i \in DOMAIN x.items |-> below[x.items[i]]] = x.items
      <4>1. PICK s : s = x.items
        OBVIOUS
      <4>2. \A i \in DOMAIN s : below[s[i]] = s[i]
        BY <2>3, <3>2, <4>1 DEF Range
      <4>3. s = [i \in DOMAIN s |-> s[i]]
        BY <3>1, <4>1 DEF IsSeq
      <4> QED BY <4>1, <4>2, <4>3
    <3>4. CopyFrom(x, below) = Array([i \in DOMAIN x.items |-> below[x.items[i]]])
      BY <2>5, Zenon DEF CopyFrom
    <3> QED BY <2>2, <3>1, <3>3, <3>4, Zenon
  <2>6. CASE IsNested(x) /\ x.kind # "array"
    <3>1. EnvFree(x)
      BY <2>6, Unkeyed
    <3>2. /\ x.kind = "object" /\ x = Object(x.pairs) /\ IsSeq(x.pairs)
          /\ Size(x) = Len(x.pairs) /\ DOMAIN x.pairs = 1..Len(x.pairs)
          /\ \A i \in 1..Len(x.pairs) : x.pairs[i] = <<x.pairs[i][1], x.pairs[i][2]>>
      BY <2>6, <3>1, SizeIs
    <3>3. PartsOf(x) = {x.pairs[i][2] : i \in DOMAIN x.pairs}
      BY <2>6, <3>2 DEF PartsOf
    <3>4. EnvKey \notin KeysOf(x) \ Uncounted(x)
      BY <3>1, <3>2 DEF EnvFree
    <3>5. [i \in 1..Size(x) |-> <<x.pairs[i][1], below[x.pairs[i][2]]>>] = x.pairs
      <4>1. PICK s : s = x.pairs
        OBVIOUS
      <4>2. \A i \in DOMAIN s : <<s[i][1], below[s[i][2]]>> = s[i]
        <5>1. \A i \in DOMAIN s : below[s[i][2]] = s[i][2]
          BY <2>3, <3>3, <4>1
        <5>2. \A i \in DOMAIN s : s[i] = <<s[i][1], s[i][2]>>
          BY <3>2, <4>1
        <5> QED BY <5>1, <5>2, Zenon
      <4>3. s = [i \in DOMAIN s |-> s[i]]
        BY <3>2, <4>1 DEF IsSeq
      <4>4. DOMAIN s = 1..Size(x)
        BY <3>2, <4>1
      <4>5. [i \in DOMAIN s |-> <<s[i][1], below[s[i][2]]>>] = [i \in DOMAIN s |-> s[i]]
        BY <4>2
      <4> QED BY <4>1, <4>3, <4>4, <4>5, Zenon
    <3>6. CopyFrom(x, below) = Listing(x.pairs, Size(x))
      <4>1. CopyFrom(x, below) =
              Listing([i \in 1..Size(x) |-> <<x.pairs[i][1], below[x.pairs[i][2]]>>],
                      IF EnvKey \in KeysOf(x) \ Uncounted(x) THEN Size(x) - 1 ELSE Size(x))
        BY <2>6, Zenon DEF CopyFrom
      <4> QED BY <3>4, <3>5, <4>1, Zenon
    <3>7. Listing(x.pairs, Size(x)) = x
      BY <3>2, Zenon DEF Object
    <3> QED BY <2>2, <3>6, <3>7, Zenon
  <2> QED BY <2>4, <2>5, <2>6
<1>4. Bad = {}
  <2> SUFFICES ASSUME Bad # {} PROVE FALSE
    OBVIOUS
  <2>1. PICK k \in Bad : \A j \in Bad : k <= j
    <3> Bad \subseteq Nat
      OBVIOUS
    <3> HIDE DEF Bad
    <3> QED BY LeastNat
  <2>2. k \in Nat /\ k <= MaxLevels /\ ~Good(MaxLevels - k)
    BY <2>1
  <2>3. PICK n \in 0..MaxLevels : n = MaxLevels - k
    BY <1>1, <2>2
  <2>4. ASSUME NEW x \in Level(d)[n], NEW y \in PartsOf(x)
        PROVE  CopyAt(d)[n + 1][y] = y
    <3>1. n + 1 \in 1..MaxLevels /\ y \in Level(d)[n + 1]
      BY <1>2, PartsClosed
    <3>2. k - 1 \in Nat /\ k - 1 < k /\ k - 1 <= MaxLevels /\ MaxLevels - (k - 1) = n + 1
      BY <1>1, <2>2, <2>3, <3>1
    <3>3. k - 1 \notin Bad
      <4> HIDE DEF Bad
      <4> QED BY <2>1, <2>2, <3>2
    <3>4. Good(n + 1)
      <4> HIDE DEF Good
      <4> QED BY <3>2, <3>3
    <3> QED BY <3>1, <3>4
  <2>5. Good(n)
    BY <1>3, <2>4
  <2> HIDE DEF Good
  <2> QED BY <2>2, <2>3, <2>5
<1>5. Good(0)
  <2>1. MaxLevels \in Nat /\ MaxLevels <= MaxLevels /\ MaxLevels - MaxLevels = 0
    BY <1>1
  <2> HIDE DEF Good
  <2> QED BY <1>4, <2>1
<1>6. d \in Level(d)[0]
  BY <1>2, PartsClosed
<1> QED BY <1>5, <1>6 DEF CopyOf

\* unref gives a copy, of an element of any size and depth without a key "env":
\* the text that the renderers make of it is read by the tokenizer and the parser
\* part by part, and what comes out is the element (lua_json_object_unref and
\* lua_json_array_unref).
THEOREM UnrefGivesACopy ==
  ASSUME AtomsApart PROVE Spec => [](~HasKeyEnv(made) => UnrefCopies)
<1>1. Init => CopyMade
  BY CopyNotBegun
<1>2. OnItsWay /\ CopyMade /\ [Next]_vars => CopyMade'
  BY CopyGoesOn
<1>3. OnItsWay /\ CopyMade => (~HasKeyEnv(made) => UnrefCopies)
  <2> SUFFICES ASSUME OnItsWay, CopyMade, ~HasKeyEnv(made), read # Nothing, intact, mode = Json,
                      Printable(made), AtMostDeep(made, MaxNesting)
               PROVE  read = CopyOf(made)
    BY Zenon DEF UnrefCopies
  <2>1. text # Nothing
    BY Zenon DEF CopyMade
  <2>2. /\ shown = Nothing /\ IsElement(made) /\ WithinLevels(made)
        /\ Told => CopyOnItsWay(made)
    BY <2>1, Zenon DEF CopyMade
  <2>3. read = made
    <3>1. ~(read = Nothing)
      OBVIOUS
    <3> QED BY <2>2, <3>1, Zenon DEF Told, CopyOnItsWay
  <2>4. Whence(made)
    BY <2>2, MadeFits
  <2>5. CopyOf(made) = made
    BY <2>4, CopyIsSame
  <2> QED BY <2>3, <2>5
<1> QED BY <1>1, <1>2, <1>3, ConversionsInvariant, PTL DEF Spec

===============================================================================
