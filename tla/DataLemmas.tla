------------------------------- MODULE DataLemmas ------------------------------
(***************************************************************************)
(* What the proofs need of the operators that several models are built     *)
(* from: least numbers, sums over finite sets, which are SumFunctionOnSet  *)
(* of the community modules, the sequences that its InsertAt and RemoveAt  *)
(* make, what is nested in a set of elements, and the lengths of a text in *)
(* the four modes of Marshal.  The library's induction theorems take a     *)
(* predicate as a parameter; here a least counterexample takes the place   *)
(* of induction.                                                           *)
(***************************************************************************)
EXTENDS Marshal, Integers, Sequences, FiniteSets, Functions, FiniteSetTheorems,
        SequenceTheorems, NaturalsInduction, TLAPS

\* Every set of natural numbers that is not empty has a least one.
LEMMA LeastNat ==
  ASSUME NEW T, T \subseteq Nat, T # {}
  PROVE  \E n \in T : \A m \in T : n <= m
<1>1. PICK n \in T : \A m \in T : ~ (<<m, n>> \in OpToRel(<, Nat))
  BY NatLessThanWellFounded, WFMin
<1>2. ASSUME NEW m \in T PROVE n <= m
  <2>1. m \in Nat /\ n \in Nat /\ ~ (m < n)
    BY <1>1 DEF OpToRel
  <2> QED BY <2>1
<1> QED BY <1>2

\* f lists what 1 to n + 1 of the steps make of b.
Iterates(step, b, n, f) == f = [d \in 0..n |-> step[IF d = 0 THEN b ELSE f[d - 1]]]

LEMMA Iterated ==
  ASSUME NEW S, NEW step \in [S -> S], NEW b \in S, NEW n \in Nat
  PROVE  \E f \in [0..n -> S] : Iterates(step, b, n, f)
<1> DEFINE Rec(k, f) == f = [d \in 0..k |-> step[IF d = 0 THEN b ELSE f[d - 1]]]
           T == {k \in Nat : ~ \E f \in [0..k -> S] : Rec(k, f)}
<1> SUFFICES ASSUME T # {} PROVE FALSE
  BY DEF Iterates
<1>1. PICK k \in T : \A m \in T : k <= m
  BY LeastNat
<1>2. k \in Nat
  BY <1>1
<1>3. CASE k = 0
  <2> DEFINE f == [d \in 0..0 |-> step[b]]
  <2>1. f \in [0..0 -> S] /\ Rec(0, f)
    OBVIOUS
  <2> QED BY <1>3, <2>1
<1>4. CASE k # 0
  <2>1. k - 1 \in Nat /\ k - 1 \notin T
    <3> HIDE DEF Rec
    <3> QED BY <1>1, <1>2, <1>4
  <2>2. PICK g \in [0..(k - 1) -> S] : Rec(k - 1, g)
    BY <2>1
  <2> DEFINE f == [d \in 0..k |-> step[IF d = 0 THEN b ELSE g[d - 1]]]
  <2>3. \A d \in 0..(k - 1) : g[d] = step[IF d = 0 THEN b ELSE g[d - 1]]
    BY <2>2
  <2>4. \A d \in 0..k : d # 0 => d - 1 \in 0..(k - 1) /\ d - 1 \in 0..k
    BY <2>1
  <2>5. f \in [0..k -> S]
    BY <2>4
  <2>6. \A d \in 0..k : d # 0 => f[d - 1] = g[d - 1]
    BY <2>3, <2>4
  <2>7. Rec(k, f)
    BY <2>6
  <2> HIDE DEF f, Rec
  <2> QED BY <2>5, <2>7
<1> QED BY <1>3, <1>4

-------------------------------------------------------------------------------
\* The element the sum takes out of S first.
First(S) == CHOOSE x \in S : TRUE

\* iter is the sum of f over the subsets of S.
Sums(f, S, iter) ==
  iter = [s \in SUBSET S |-> IF s = {} THEN 0 ELSE f[First(s)] + iter[s \ {First(s)}]]

LEMMA SumIs ==
  ASSUME NEW f, NEW S
  PROVE  SumFunctionOnSet(f, S) = (CHOOSE iter : Sums(f, S, iter))[S]
  BY DEF SumFunctionOnSet, FoldFunctionOnSet, MapThenFoldSet, Sums, First

\* Finite sets lose one element at a time.
LEMMA TakeOne ==
  ASSUME NEW S, IsFiniteSet(S), NEW x \in S
  PROVE  /\ IsFiniteSet(S \ {x}) /\ Cardinality(S) \in Nat \ {0}
         /\ Cardinality(S \ {x}) = Cardinality(S) - 1
         /\ Cardinality(S \ {x}) \in Nat
<1>1. IsFiniteSet(S \ {x}) /\ Cardinality(S \ {x}) = Cardinality(S) - 1
  BY FS_RemoveElement
<1>2. Cardinality(S) \in Nat /\ Cardinality(S) # 0
  BY FS_CardinalityType, FS_EmptySet
<1> QED BY <1>1, <1>2

\* A set of finite sets has a smallest member.
LEMMA LeastSize ==
  ASSUME NEW B, B # {}, \A s \in B : IsFiniteSet(s)
  PROVE  \E s \in B : \A t \in B : Cardinality(s) <= Cardinality(t)
<1> DEFINE Sizes == {Cardinality(s) : s \in B}
<1>1. Sizes \subseteq Nat
  BY FS_CardinalityType
<1>2. Sizes # {}
  OBVIOUS
<1>3. PICK n \in Sizes : \A m \in Sizes : n <= m
  <2> HIDE DEF Sizes
  <2> QED BY <1>1, <1>2, LeastNat
<1>4. PICK s \in B : n = Cardinality(s)
  BY <1>3
<1>5. \A t \in B : Cardinality(s) <= Cardinality(t)
  BY <1>3, <1>4
<1> QED BY <1>5

LEMMA FirstIn == ASSUME NEW S, S # {} PROVE First(S) \in S
  BY DEF First

LEMMA SumsExist ==
  ASSUME NEW f, NEW S, IsFiniteSet(S)
  PROVE  \E iter : Sums(f, S, iter)
<1> DEFINE Upto(k) == {s \in SUBSET S : Cardinality(s) <= k}
           Partly(k, g) == g = [s \in Upto(k) |-> IF s = {} THEN 0
                                                  ELSE f[First(s)] + g[s \ {First(s)}]]
           T == {k \in Nat : ~ \E g : Partly(k, g)}
<1>1. \A s \in SUBSET S : IsFiniteSet(s) /\ Cardinality(s) \in Nat
                         /\ Cardinality(s) <= Cardinality(S)
  BY FS_Subset, FS_CardinalityType
<1>2. ASSUME NEW k \in Nat, NEW s \in Upto(k), s # {}
      PROVE  k # 0 /\ s \ {First(s)} \in Upto(k - 1) /\ s \ {First(s)} \in Upto(k)
  <2>1. s \in SUBSET S /\ IsFiniteSet(s) /\ Cardinality(s) <= k /\ First(s) \in s
    BY <1>1, <1>2, FirstIn
  <2>2. /\ Cardinality(s) \in Nat \ {0}
        /\ Cardinality(s \ {First(s)}) = Cardinality(s) - 1
    BY <2>1, TakeOne
  <2> QED BY <2>1, <2>2
<1>3. T = {}
  <2> SUFFICES ASSUME T # {} PROVE FALSE
    OBVIOUS
  <2>1. PICK k \in T : \A m \in T : k <= m
    BY LeastNat
  <2>2. CASE k = 0
    <3> DEFINE g == [s \in Upto(0) |-> 0]
    <3>1. \A s \in Upto(0) : s = {}
      <4> HIDE DEF Upto
      <4> QED BY <1>2
    <3>2. Partly(0, g)
      <4> HIDE DEF Upto
      <4> QED BY <3>1
    <3> QED BY <2>2, <3>2
  <2>3. CASE k # 0
    <3>1. k - 1 \in Nat /\ k \in Nat /\ k - 1 \notin T
      <4>1. k \in Nat
        BY <2>1
      <4> HIDE DEF Partly
      <4> QED BY <2>1, <2>3, <4>1
    <3>2. PICK h : Partly(k - 1, h)
      BY <3>1
    <3> DEFINE g == [s \in Upto(k) |-> IF s = {} THEN 0 ELSE f[First(s)] + h[s \ {First(s)}]]
    <3>3. \A s \in Upto(k - 1) :
            h[s] = IF s = {} THEN 0 ELSE f[First(s)] + h[s \ {First(s)}]
      <4> HIDE DEF Upto
      <4> QED BY <3>2
    <3>4. \A s \in Upto(k - 1) : s \in Upto(k)
      BY <1>1, <3>1
    <3>5. \A s \in Upto(k - 1) : g[s] = h[s]
      <4> HIDE DEF Upto
      <4> QED BY <3>3, <3>4
    <3>6. ASSUME NEW s \in Upto(k), s # {}
          PROVE  g[s \ {First(s)}] = h[s \ {First(s)}]
      <4> HIDE DEF Upto, g
      <4> QED BY <1>2, <3>1, <3>5, <3>6
    <3>7. g = [s \in Upto(k) |-> IF s = {} THEN 0 ELSE f[First(s)] + g[s \ {First(s)}]]
      <4>1. \A s \in Upto(k) : (IF s = {} THEN 0 ELSE f[First(s)] + h[s \ {First(s)}])
                            = (IF s = {} THEN 0 ELSE f[First(s)] + g[s \ {First(s)}])
        <5> HIDE DEF Upto, g
        <5> QED BY <3>6
      <4> HIDE DEF Upto
      <4> QED BY <4>1
    <3> HIDE DEF g, Upto
    <3>8. Partly(k, g)
      BY <3>7
    <3> QED BY <3>8
  <2> QED BY <2>2, <2>3
<1>4. Cardinality(S) \in Nat /\ Upto(Cardinality(S)) = SUBSET S
  BY <1>1, FS_CardinalityType
<1>5. PICK g : Partly(Cardinality(S), g)
  <2> HIDE DEF Partly
  <2> QED BY <1>3, <1>4
<1> HIDE DEF Upto
<1> QED BY <1>4, <1>5 DEF Sums

\* A sum depends on the values of its own elements only.
LEMMA SumsAgree ==
  ASSUME NEW f, NEW g, NEW S, NEW T, IsFiniteSet(S), IsFiniteSet(T),
         NEW i, Sums(f, S, i), NEW j, Sums(g, T, j)
  PROVE  \A s \in (SUBSET S) \cap (SUBSET T) : (\A x \in s : f[x] = g[x]) => i[s] = j[s]
<1> DEFINE Bad == {s \in (SUBSET S) \cap (SUBSET T) : (\A x \in s : f[x] = g[x]) /\ i[s] # j[s]}
<1> SUFFICES ASSUME Bad # {} PROVE FALSE
  OBVIOUS
<1>1. \A s \in SUBSET S : IsFiniteSet(s) /\ Cardinality(s) \in Nat
  BY FS_Subset, FS_CardinalityType
<1>2. \A s \in Bad : IsFiniteSet(s)
  BY <1>1
<1>3. PICK s \in Bad : \A t \in Bad : Cardinality(s) <= Cardinality(t)
  <2> HIDE DEF Bad
  <2> QED BY <1>2, LeastSize
<1>4. /\ i[s] = IF s = {} THEN 0 ELSE f[First(s)] + i[s \ {First(s)}]
      /\ j[s] = IF s = {} THEN 0 ELSE g[First(s)] + j[s \ {First(s)}]
  <2>1. Bad \subseteq SUBSET S /\ Bad \subseteq SUBSET T
    OBVIOUS
  <2> HIDE DEF Bad
  <2> QED BY <1>3, <2>1 DEF Sums
<1>5. s # {}
  BY <1>4
<1>6. First(s) \in s /\ Cardinality(s) \in Nat /\ Cardinality(s \ {First(s)}) = Cardinality(s) - 1
  BY <1>1, <1>5, FirstIn, TakeOne
<1>7. s \ {First(s)} \notin Bad
  <2> HIDE DEF Bad
  <2> QED BY <1>3, <1>6
<1>8. i[s \ {First(s)}] = j[s \ {First(s)}] /\ f[First(s)] = g[First(s)]
  BY <1>6, <1>7
<1> QED BY <1>4, <1>5, <1>8

LEMMA SumsInt ==
  ASSUME NEW f, NEW S, IsFiniteSet(S), \A x \in S : f[x] \in Int, NEW i, Sums(f, S, i)
  PROVE  \A s \in SUBSET S : i[s] \in Int
<1> DEFINE Bad == {s \in SUBSET S : i[s] \notin Int}
<1> SUFFICES ASSUME Bad # {} PROVE FALSE
  OBVIOUS
<1>1. \A s \in SUBSET S : IsFiniteSet(s) /\ Cardinality(s) \in Nat
  BY FS_Subset, FS_CardinalityType
<1>2. \A s \in Bad : IsFiniteSet(s)
  BY <1>1
<1>3. PICK s \in Bad : \A t \in Bad : Cardinality(s) <= Cardinality(t)
  <2> HIDE DEF Bad
  <2> QED BY <1>2, LeastSize
<1>4. i[s] = IF s = {} THEN 0 ELSE f[First(s)] + i[s \ {First(s)}]
  BY DEF Sums
<1>5. s # {}
  BY <1>4
<1>6. First(s) \in s /\ Cardinality(s) \in Nat /\ Cardinality(s \ {First(s)}) = Cardinality(s) - 1
  BY <1>1, <1>5, FirstIn, TakeOne
<1>7. s \ {First(s)} \notin Bad
  <2> HIDE DEF Bad
  <2> QED BY <1>3, <1>6
<1> QED BY <1>4, <1>5, <1>6, <1>7

\* Any element may be the one that is taken out.
TakesOut(f, i, s) == \A x \in s : i[s] = f[x] + i[s \ {x}]

LEMMA SumsTakeOut ==
  ASSUME NEW f, NEW S, IsFiniteSet(S), \A x \in S : f[x] \in Int, NEW i, Sums(f, S, i)
  PROVE  \A s \in SUBSET S : TakesOut(f, i, s)
<1> DEFINE Bad == {s \in SUBSET S : \E x \in s : i[s] # f[x] + i[s \ {x}]}
<1> SUFFICES ASSUME Bad # {} PROVE FALSE
  BY DEF TakesOut
<1>1. \A s \in SUBSET S : IsFiniteSet(s) /\ Cardinality(s) \in Nat /\ i[s] \in Int
  BY FS_Subset, FS_CardinalityType, SumsInt
<1>2. \A s \in Bad : IsFiniteSet(s)
  BY <1>1
<1>3. PICK s \in Bad : \A t \in Bad : Cardinality(s) <= Cardinality(t)
  <2> HIDE DEF Bad
  <2> QED BY <1>2, LeastSize
<1>4. PICK x \in s : i[s] # f[x] + i[s \ {x}]
  OBVIOUS
<1> DEFINE y == First(s)
<1>5. s \in SUBSET S /\ y \in s /\ i[s] = f[y] + i[s \ {y}]
  <2>1. i[s] = IF s = {} THEN 0 ELSE f[First(s)] + i[s \ {First(s)}]
    BY DEF Sums
  <2> QED BY <1>4, <2>1, FirstIn
<1> HIDE DEF y
<1>6. x # y
  BY <1>4, <1>5
<1>7. ASSUME NEW z \in s PROVE s \ {z} \in SUBSET S /\ s \ {z} \notin Bad
  <2>1. Cardinality(s) \in Nat /\ Cardinality(s \ {z}) = Cardinality(s) - 1
    BY <1>1, <1>5, TakeOne
  <2> HIDE DEF Bad
  <2> QED BY <1>3, <1>5, <2>1
<1>8. i[s \ {y}] = f[x] + i[(s \ {y}) \ {x}]
  BY <1>5, <1>6, <1>7
<1>9. i[s \ {x}] = f[y] + i[(s \ {x}) \ {y}]
  BY <1>5, <1>6, <1>7
<1>10. (s \ {y}) \ {x} = (s \ {x}) \ {y}
  OBVIOUS
<1>11. f[x] \in Int /\ f[y] \in Int /\ i[(s \ {x}) \ {y}] \in Int
  BY <1>1, <1>5
<1>12. i[s \ {y}] = f[x] + i[(s \ {x}) \ {y}]
  BY <1>8, <1>10
<1>13. i[s] = f[x] + i[s \ {x}]
  BY <1>5, <1>9, <1>11, <1>12
<1> QED BY <1>4, <1>13

-------------------------------------------------------------------------------
\* The sum of nothing, ...
LEMMA SumEmpty == ASSUME NEW f PROVE SumFunctionOnSet(f, {}) = 0
<1>1. IsFiniteSet({})
  BY FS_EmptySet
<1>2. PICK i : Sums(f, {}, i) /\ SumFunctionOnSet(f, {}) = i[{}]
  BY <1>1, SumsExist, SumIs
<1> QED BY <1>2 DEF Sums

\* ... its type, what is left when an element is taken out, ...
LEMMA SumTakeOut ==
  ASSUME NEW f, NEW S, IsFiniteSet(S), \A x \in S : f[x] \in Int
  PROVE  /\ SumFunctionOnSet(f, S) \in Int
         /\ \A x \in S : SumFunctionOnSet(f, S) = f[x] + SumFunctionOnSet(f, S \ {x})
<1>1. PICK i : Sums(f, S, i) /\ SumFunctionOnSet(f, S) = i[S]
  BY SumsExist, SumIs
<1>2. SumFunctionOnSet(f, S) \in Int
  BY <1>1, SumsInt
<1>3. ASSUME NEW x \in S PROVE SumFunctionOnSet(f, S) = f[x] + SumFunctionOnSet(f, S \ {x})
  <2>1. IsFiniteSet(S \ {x})
    BY TakeOne
  <2>2. PICK j : Sums(f, S \ {x}, j) /\ SumFunctionOnSet(f, S \ {x}) = j[S \ {x}]
    BY <2>1, SumsExist, SumIs
  <2>3. i[S \ {x}] = j[S \ {x}]
    <3> DEFINE T == S \ {x}
    <3>1. T \in (SUBSET S) \cap (SUBSET T)
      OBVIOUS
    <3> HIDE DEF T
    <3>2. \A s \in (SUBSET S) \cap (SUBSET T) : (\A z \in s : f[z] = f[z]) => i[s] = j[s]
      BY <1>1, <2>1, <2>2, SumsAgree DEF T
    <3> QED BY <3>1, <3>2 DEF T
  <2>4. i[S] = f[x] + i[S \ {x}]
    <3>1. S \in SUBSET S
      OBVIOUS
    <3>2. TakesOut(f, i, S)
      BY <1>1, <3>1, SumsTakeOut
    <3> QED BY <3>1, <3>2 DEF TakesOut
  <2> QED BY <1>1, <2>2, <2>3, <2>4
<1> QED BY <1>2, <1>3

\* ... that it depends on the values only, ...
LEMMA SumSame ==
  ASSUME NEW f, NEW g, NEW S, IsFiniteSet(S), \A x \in S : f[x] = g[x]
  PROVE  SumFunctionOnSet(f, S) = SumFunctionOnSet(g, S)
<1>1. PICK i : Sums(f, S, i) /\ SumFunctionOnSet(f, S) = i[S]
  BY SumsExist, SumIs
<1>2. PICK j : Sums(g, S, j) /\ SumFunctionOnSet(g, S) = j[S]
  BY SumsExist, SumIs
<1>3. S \in (SUBSET S) \cap (SUBSET S)
  OBVIOUS
<1>4. \A s \in (SUBSET S) \cap (SUBSET S) : (\A x \in s : f[x] = g[x]) => i[s] = j[s]
  BY <1>1, <1>2, SumsAgree
<1> QED BY <1>1, <1>2, <1>3, <1>4

\* ... and what happens to it when one value changes.
LEMMA SumOneChanged ==
  ASSUME NEW f, NEW g, NEW S, IsFiniteSet(S),
         \A y \in S : f[y] \in Int /\ g[y] \in Int,
         NEW x \in S, \A y \in S \ {x} : g[y] = f[y]
  PROVE  SumFunctionOnSet(g, S) = SumFunctionOnSet(f, S) + (g[x] - f[x])
<1>1. SumFunctionOnSet(g, S) = g[x] + SumFunctionOnSet(g, S \ {x})
  BY SumTakeOut
<1>2. SumFunctionOnSet(f, S) = f[x] + SumFunctionOnSet(f, S \ {x})
  BY SumTakeOut
<1>3. IsFiniteSet(S \ {x})
  BY TakeOne
<1>4. SumFunctionOnSet(g, S \ {x}) = SumFunctionOnSet(f, S \ {x})
  BY <1>3, SumSame
<1>5. SumFunctionOnSet(f, S \ {x}) \in Int /\ f[x] \in Int /\ g[x] \in Int
  BY <1>3, SumTakeOut
<1> QED BY <1>1, <1>2, <1>4, <1>5

\* The sum of zeros.
LEMMA SumZero ==
  ASSUME NEW f, NEW S, IsFiniteSet(S), \A x \in S : f[x] = 0
  PROVE  SumFunctionOnSet(f, S) = 0
<1> DEFINE B == {s \in SUBSET S : SumFunctionOnSet(f, s) # 0}
<1>1. \A s \in B : IsFiniteSet(s)
  BY FS_Subset
<1> SUFFICES ASSUME B # {} PROVE FALSE
  OBVIOUS
<1>2. PICK s \in B : \A t \in B : Cardinality(s) <= Cardinality(t)
  <2> HIDE DEF B
  <2> QED BY <1>1, LeastSize
<1>3. PICK x : x \in s
  BY <1>2, SumEmpty
<1>4. s \in SUBSET S /\ IsFiniteSet(s) /\ SumFunctionOnSet(f, s) # 0
  BY <1>1, <1>2
<1>5. SumFunctionOnSet(f, s) = f[x] + SumFunctionOnSet(f, s \ {x})
  BY <1>3, <1>4, SumTakeOut
<1>6. s \ {x} \in SUBSET S /\ s \ {x} \notin B
  <2> HIDE DEF B
  <2>1. Cardinality(s \ {x}) = Cardinality(s) - 1 /\ Cardinality(s) \in Nat
    BY <1>3, <1>4, TakeOne
  <2> QED BY <1>2, <1>4, <2>1
<1>7. SumFunctionOnSet(f, s \ {x}) = 0
  BY <1>6
<1> QED BY <1>3, <1>4, <1>5, <1>7

\* Adding up is linear.
LEMMA SumLinear ==
  ASSUME NEW f, NEW g, NEW h, NEW k, NEW a \in Int, NEW b \in Int, NEW S, IsFiniteSet(S),
         \A x \in S : /\ f[x] \in Int /\ g[x] \in Int /\ k[x] \in Int
                      /\ h[x] = f[x] + a * g[x] + b * k[x]
  PROVE  /\ SumFunctionOnSet(f, S) \in Int /\ SumFunctionOnSet(g, S) \in Int
         /\ SumFunctionOnSet(k, S) \in Int
         /\ SumFunctionOnSet(h, S) = SumFunctionOnSet(f, S) + a * SumFunctionOnSet(g, S)
                                       + b * SumFunctionOnSet(k, S)
<1> DEFINE Linear(s) == SumFunctionOnSet(h, s) = SumFunctionOnSet(f, s)
                          + a * SumFunctionOnSet(g, s) + b * SumFunctionOnSet(k, s)
           B == {s \in SUBSET S : ~Linear(s)}
<1>1. \A s \in B : IsFiniteSet(s)
  BY FS_Subset
<1>2. ASSUME B # {} PROVE FALSE
  <2>1. PICK s \in B : \A t \in B : Cardinality(s) <= Cardinality(t)
    <3> HIDE DEF B
    <3> QED BY <1>1, <1>2, LeastSize
  <2>2. s \in SUBSET S /\ IsFiniteSet(s) /\ ~Linear(s)
    BY <1>1, <2>1
  <2>3. s # {}
    <3>1. Linear({})
      BY SumEmpty
    <3> QED BY <2>2, <3>1
  <2>4. PICK x : x \in s
    BY <2>3
  <2>5. f[x] \in Int /\ g[x] \in Int /\ k[x] \in Int /\ h[x] = f[x] + a * g[x] + b * k[x]
    BY <2>2, <2>4
  <2> DEFINE t == s \ {x}
             F == SumFunctionOnSet(f, t)
             G == SumFunctionOnSet(g, t)
             K == SumFunctionOnSet(k, t)
             H == SumFunctionOnSet(h, t)
  <2>6. IsFiniteSet(t)
    BY <2>2, <2>4, TakeOne
  <2>7. /\ \A y \in s : f[y] \in Int /\ g[y] \in Int /\ k[y] \in Int /\ h[y] \in Int
        /\ \A y \in t : f[y] \in Int /\ g[y] \in Int /\ k[y] \in Int
    BY <2>2
  <2>8. F \in Int /\ G \in Int /\ K \in Int
    <3> HIDE DEF t
    <3> QED BY <2>6, <2>7, SumTakeOut
  <2>9. /\ SumFunctionOnSet(f, s) = f[x] + F /\ SumFunctionOnSet(g, s) = g[x] + G
        /\ SumFunctionOnSet(k, s) = k[x] + K /\ SumFunctionOnSet(h, s) = h[x] + H
    BY <2>2, <2>4, <2>7, SumTakeOut
  <2>10. Linear(t)
    <3>1. t \in SUBSET S /\ t \notin B
      <4> HIDE DEF B
      <4>1. Cardinality(t) = Cardinality(s) - 1 /\ Cardinality(s) \in Nat
        BY <2>2, <2>4, TakeOne
      <4> QED BY <2>1, <2>2, <4>1
    <3> QED BY <3>1
  <2>11. H = F + a * G + b * K
    BY <2>10
  <2> HIDE DEF F, G, K, H, t
  <2>12. a * (g[x] + G) = a * g[x] + a * G /\ b * (k[x] + K) = b * k[x] + b * K
    BY <2>5, <2>8
  <2>13. a * g[x] \in Int /\ a * G \in Int /\ b * k[x] \in Int /\ b * K \in Int
    BY <2>5, <2>8
  <2>14. h[x] + H = (f[x] + F) + a * (g[x] + G) + b * (k[x] + K)
    BY <2>5, <2>8, <2>11, <2>12, <2>13
  <2> QED BY <2>2, <2>9, <2>14
<1>3. Linear(S)
  BY <1>2
<1>4. /\ SumFunctionOnSet(f, S) \in Int /\ SumFunctionOnSet(g, S) \in Int
      /\ SumFunctionOnSet(k, S) \in Int
  BY SumTakeOut
<1> QED BY <1>3, <1>4

\* What a sequence adds up to when it grows by one.
LEMMA SumAppended ==
  ASSUME NEW n \in Nat, NEW f, NEW g, DOMAIN f = 1..n, DOMAIN g = 1..(n + 1),
         \A i \in 1..n : f[i] \in Int /\ g[i] = f[i], g[n + 1] \in Int
  PROVE  /\ SumFunction(f) \in Int
         /\ SumFunction(g) = SumFunction(f) + g[n + 1]
<1>1. IsFiniteSet(1..n) /\ IsFiniteSet(1..(n + 1))
  BY FS_Interval
<1>2. /\ \A i \in 1..(n + 1) : g[i] \in Int
      /\ n + 1 \in 1..(n + 1) /\ (1..(n + 1)) \ {n + 1} = 1..n
  <2>1. \A i \in 1..(n + 1) : i = n + 1 \/ i \in 1..n
    OBVIOUS
  <2> QED BY <2>1
<1>3. SumFunctionOnSet(g, 1..(n + 1)) = g[n + 1] + SumFunctionOnSet(g, 1..n)
  BY <1>1, <1>2, SumTakeOut
<1>4. SumFunctionOnSet(g, 1..n) = SumFunctionOnSet(f, 1..n)
  BY <1>1, SumSame
<1>5. SumFunctionOnSet(f, 1..n) \in Int
  BY <1>1, SumTakeOut
<1> QED BY <1>2, <1>3, <1>4, <1>5 DEF SumFunction

-------------------------------------------------------------------------------
\* The places after a sequence has been inserted into, ...
LEMMA InsertedAt ==
  ASSUME NEW V, NEW s \in Seq(V), NEW v \in V, NEW i \in 1..(Len(s) + 1)
  PROVE  LET t == SubSeq(s, 1, i - 1) \o <<v>> \o SubSeq(s, i, Len(s))
         IN  /\ t \in Seq(V) /\ Len(t) = Len(s) + 1
             /\ \A j \in 1..(Len(s) + 1) :
                  t[j] = IF j < i THEN s[j] ELSE IF j = i THEN v ELSE s[j - 1]
<1> DEFINE n == Len(s)
           a == SubSeq(s, 1, i - 1)
           b == SubSeq(s, i, n)
           c == a \o <<v>>
           t == c \o b
<1>1. n \in Nat /\ i \in Nat \ {0} /\ i <= n + 1 /\ \A j \in 1..n : s[j] \in V
  OBVIOUS
<1>2. /\ a \in Seq(V) /\ Len(a) = i - 1 /\ \A j \in 1..(i - 1) : a[j] = s[j]
      /\ b \in Seq(V) /\ Len(b) = n - i + 1 /\ \A j \in 1..(n - i + 1) : b[j] = s[j + i - 1]
  <2> HIDE DEF n
  <2>1. /\ \A j \in 1..(i - 1) : s[j] \in V
        /\ \A j \in i..n : s[j] \in V
    BY <1>1
  <2>2. a \in Seq(V) /\ Len(a) = i - 1 /\ \A j \in 1..(i - 1) : a[j] = s[j]
    BY <1>1, <2>1, SubSeqProperties
  <2>3. b \in Seq(V) /\ Len(b) = n - i + 1 /\ \A j \in 1..(n - i + 1) : b[j] = s[j + i - 1]
    BY <1>1, <2>1, SubSeqProperties
  <2> QED BY <2>2, <2>3
<1> HIDE DEF n, a, b
<1>3. c \in Seq(V) /\ Len(c) = i /\ \A j \in 1..i : c[j] = IF j < i THEN s[j] ELSE v
  BY <1>1, <1>2
<1> HIDE DEF c
<1>4. /\ t \in Seq(V) /\ Len(t) = n + 1
      /\ \A j \in 1..(n + 1) : t[j] = IF j <= i THEN c[j] ELSE b[j - i]
  <2>1. /\ t \in Seq(V) /\ Len(t) = Len(c) + Len(b)
        /\ \A j \in 1..(Len(c) + Len(b)) : t[j] = IF j <= Len(c) THEN c[j] ELSE b[j - Len(c)]
    <3>1. c \in Seq(V) /\ b \in Seq(V)
      BY <1>2, <1>3
    <3> QED BY <3>1, ConcatProperties
  <2>2. Len(c) = i /\ Len(b) = n - i + 1 /\ i + (n - i + 1) = n + 1
    BY <1>1, <1>2, <1>3
  <2> HIDE DEF t
  <2> QED BY <2>1, <2>2
<1> HIDE DEF t
<1>5. ASSUME NEW j \in 1..(n + 1)
      PROVE  t[j] = IF j < i THEN s[j] ELSE IF j = i THEN v ELSE s[j - 1]
  <2>1. CASE j <= i
    BY <1>1, <1>3, <1>4, <2>1
  <2>2. CASE j > i
    <3>1. j - i \in 1..(n - i + 1) /\ (j - i) + i - 1 = j - 1
      BY <1>1, <2>2
    <3>2. b[j - i] = s[(j - i) + i - 1]
      BY <1>2, <3>1
    <3> QED BY <1>1, <1>4, <2>2, <3>1, <3>2
  <2> QED BY <1>1, <2>1, <2>2
<1>6. t = SubSeq(s, 1, i - 1) \o <<v>> \o SubSeq(s, i, Len(s)) /\ n = Len(s)
  BY DEF t, c, a, b, n
<1> QED BY <1>4, <1>5, <1>6

\* ... and after a place has been taken out.
LEMMA RemovedAt ==
  ASSUME NEW V, NEW s \in Seq(V), NEW i \in 1..Len(s)
  PROVE  LET t == SubSeq(s, 1, i - 1) \o SubSeq(s, i + 1, Len(s))
         IN  /\ t \in Seq(V) /\ Len(t) = Len(s) - 1
             /\ \A j \in 1..(Len(s) - 1) : t[j] = IF j < i THEN s[j] ELSE s[j + 1]
<1> DEFINE n == Len(s)
           a == SubSeq(s, 1, i - 1)
           b == SubSeq(s, i + 1, n)
           t == a \o b
<1>1. n \in Nat /\ i \in Nat \ {0} /\ i <= n /\ \A j \in 1..n : s[j] \in V
  OBVIOUS
<1>2. /\ a \in Seq(V) /\ Len(a) = i - 1 /\ \A j \in 1..(i - 1) : a[j] = s[j]
      /\ b \in Seq(V) /\ Len(b) = n - i /\ \A j \in 1..(n - i) : b[j] = s[j + i]
  <2> HIDE DEF n
  <2>1. /\ \A j \in 1..(i - 1) : s[j] \in V
        /\ \A j \in (i + 1)..n : s[j] \in V
    BY <1>1
  <2>2. a \in Seq(V) /\ Len(a) = i - 1 /\ \A j \in 1..(i - 1) : a[j] = s[j]
    BY <1>1, <2>1, SubSeqProperties
  <2>3. b \in Seq(V) /\ Len(b) = n - i /\ \A j \in 1..(n - i) : b[j] = s[j + i]
    BY <1>1, <2>1, SubSeqProperties
  <2> QED BY <2>2, <2>3
<1> HIDE DEF n, a, b
<1>3. /\ t \in Seq(V) /\ Len(t) = n - 1
      /\ \A j \in 1..(n - 1) : t[j] = IF j <= i - 1 THEN a[j] ELSE b[j - (i - 1)]
  <2>1. /\ t \in Seq(V) /\ Len(t) = Len(a) + Len(b)
        /\ \A j \in 1..(Len(a) + Len(b)) : t[j] = IF j <= Len(a) THEN a[j] ELSE b[j - Len(a)]
    BY <1>2, ConcatProperties
  <2>2. Len(a) = i - 1 /\ Len(b) = n - i /\ (i - 1) + (n - i) = n - 1
    BY <1>1, <1>2
  <2> HIDE DEF t
  <2> QED BY <2>1, <2>2
<1> HIDE DEF t
<1>4. ASSUME NEW j \in 1..(n - 1) PROVE t[j] = IF j < i THEN s[j] ELSE s[j + 1]
  <2>1. CASE j < i
    BY <1>1, <1>2, <1>3, <2>1
  <2>2. CASE j >= i
    <3>1. j - (i - 1) \in 1..(n - i) /\ (j - (i - 1)) + i = j + 1
      BY <1>1, <2>2
    <3>2. b[j - (i - 1)] = s[(j - (i - 1)) + i]
      BY <1>2, <3>1
    <3> QED BY <1>1, <1>3, <2>2, <3>1, <3>2
  <2> QED BY <1>1, <2>1, <2>2
<1>5. t = SubSeq(s, 1, i - 1) \o SubSeq(s, i + 1, Len(s)) /\ n = Len(s)
  BY DEF t, a, b, n
<1> QED BY <1>3, <1>4, <1>5

\* A place taken out and put back in at another.
LEMMA RelocatedAt ==
  ASSUME NEW V, NEW s \in Seq(V), NEW a \in 1..Len(s), NEW b \in 1..Len(s)
  PROVE  LET r == SubSeq(s, 1, a - 1) \o SubSeq(s, a + 1, Len(s))
             t == SubSeq(r, 1, b - 1) \o <<s[a]>> \o SubSeq(r, b, Len(r))
         IN  /\ t \in Seq(V) /\ Len(t) = Len(s)
             /\ \A j \in 1..Len(s) :
                  t[j] = IF j = b THEN s[a] ELSE IF a <= j /\ j < b THEN s[j + 1]
                         ELSE IF b < j /\ j <= a THEN s[j - 1] ELSE s[j]
<1> DEFINE n == Len(s)
           r == SubSeq(s, 1, a - 1) \o SubSeq(s, a + 1, Len(s))
           t == SubSeq(r, 1, b - 1) \o <<s[a]>> \o SubSeq(r, b, Len(r))
<1>1. n \in Nat /\ a \in 1..n /\ b \in 1..n /\ a \in Nat /\ b \in Nat /\ s[a] \in V
  OBVIOUS
<1>2. /\ r \in Seq(V) /\ Len(r) = n - 1
      /\ \A j \in 1..(n - 1) : r[j] = IF j < a THEN s[j] ELSE s[j + 1]
  BY RemovedAt
<1> HIDE DEF r, n
<1>3. b \in 1..(Len(r) + 1) /\ Len(r) + 1 = n
  BY <1>1, <1>2
<1>4. /\ t \in Seq(V) /\ Len(t) = n
      /\ \A j \in 1..n : t[j] = IF j < b THEN r[j] ELSE IF j = b THEN s[a] ELSE r[j - 1]
  <2>1. /\ t \in Seq(V) /\ Len(t) = Len(r) + 1
        /\ \A j \in 1..(Len(r) + 1) :
             t[j] = IF j < b THEN r[j] ELSE IF j = b THEN s[a] ELSE r[j - 1]
    BY <1>1, <1>2, <1>3, InsertedAt
  <2> HIDE DEF t
  <2> QED BY <1>3, <2>1
<1> HIDE DEF t
<1>5. ASSUME NEW j \in 1..n
      PROVE  t[j] = IF j = b THEN s[a] ELSE IF a <= j /\ j < b THEN s[j + 1]
                    ELSE IF b < j /\ j <= a THEN s[j - 1] ELSE s[j]
  <2>1. j \in Nat /\ (j < b => j \in 1..(n - 1)) /\ (j > b => j - 1 \in 1..(n - 1))
    BY <1>1
  <2>2. CASE j < b
    <3>1. t[j] = r[j] /\ r[j] = IF j < a THEN s[j] ELSE s[j + 1]
      BY <1>2, <1>4, <2>1, <2>2
    <3> QED BY <1>1, <2>1, <2>2, <3>1
  <2>3. CASE j = b
    BY <1>1, <1>4, <2>3
  <2>4. CASE j > b
    <3>1. t[j] = r[j - 1] /\ r[j - 1] = IF j - 1 < a THEN s[j - 1] ELSE s[(j - 1) + 1]
      BY <1>1, <1>2, <1>4, <2>1, <2>4
    <3>2. (j - 1) + 1 = j
      BY <2>1
    <3> QED BY <1>1, <2>1, <2>4, <3>1, <3>2
  <2> QED BY <1>1, <2>1, <2>2, <2>3, <2>4
<1> QED BY <1>4, <1>5 DEF t, r, n


-------------------------------------------------------------------------------
(***************************************************************************)
(* What is nested in a set of elements, at any depth.  The models define   *)
(* it by a bounded number of rounds; there are enough of them since each   *)
(* adds an element or nothing, so it is the least set that is closed.  The *)
(* store is a parameter, to speak of the one before a step and the one     *)
(* after it.                                                               *)
(***************************************************************************)
\* The elements of E in the places P of x.
Held(st, E, P, x) == {st[x][s] : s \in P} \cap E

\* One round: a set and what is held by its members.
Round(st, E, P, X) == X \cup UNION {Held(st, E, P, x) : x \in X}

\* f lists what is reached from b in 0 to n rounds.
Rounds(st, E, P, b, n, f) ==
  f = [d \in 0..n |-> IF d = 0 THEN b ELSE Round(st, E, P, f[d - 1])]

\* The levels, and the last of them.
Levels(st, E, P, b) == CHOOSE f : Rounds(st, E, P, b, Cardinality(E), f)
Reached(st, E, P, b) == Levels(st, E, P, b)[Cardinality(E)]

LEMMA RoundsExist ==
  ASSUME NEW st, NEW E, NEW P, NEW b, NEW n \in Nat
  PROVE  \E f : Rounds(st, E, P, b, n, f)
<1> DEFINE T == {k \in Nat : ~ \E f : Rounds(st, E, P, b, k, f)}
<1> SUFFICES ASSUME T # {} PROVE FALSE
  OBVIOUS
<1>1. PICK k \in T : \A m \in T : k <= m
  BY LeastNat
<1>2. CASE k = 0
  <2> DEFINE f == [d \in 0..0 |-> b]
  <2>1. f = [d \in 0..0 |-> IF d = 0 THEN b ELSE Round(st, E, P, f[d - 1])]
    OBVIOUS
  <2>2. Rounds(st, E, P, b, 0, f)
    BY <2>1 DEF Rounds
  <2> QED BY <1>2, <2>2
<1>3. CASE k # 0
  <2>1. k - 1 \in Nat /\ k \in Nat /\ k - 1 \notin T
    BY <1>1, <1>3
  <2>2. PICK g : Rounds(st, E, P, b, k - 1, g)
    BY <2>1
  <2> DEFINE f == [d \in 0..k |-> IF d = 0 THEN b ELSE Round(st, E, P, g[d - 1])]
  <2>3. \A d \in 0..(k - 1) : g[d] = IF d = 0 THEN b ELSE Round(st, E, P, g[d - 1])
    BY <2>2 DEF Rounds
  <2>4. \A d \in 0..k : d # 0 => d - 1 \in 0..(k - 1) /\ d - 1 \in 0..k
    BY <2>1
  <2>5. \A d \in 0..k : d # 0 => f[d - 1] = g[d - 1]
    BY <2>3, <2>4
  <2>6. f = [d \in 0..k |-> IF d = 0 THEN b ELSE Round(st, E, P, f[d - 1])]
    BY <2>5
  <2> HIDE DEF f
  <2>7. Rounds(st, E, P, b, k, f)
    BY <2>6 DEF Rounds
  <2> QED BY <2>7
<1> QED BY <1>2, <1>3

LEMMA LevelsRound ==
  ASSUME NEW st, NEW E, IsFiniteSet(E), NEW P, NEW b
  PROVE  LET L == Levels(st, E, P, b)
         IN  /\ Cardinality(E) \in Nat
             /\ Reached(st, E, P, b) = L[Cardinality(E)]
             /\ L[0] = b
             /\ \A d \in 1..Cardinality(E) : L[d] = Round(st, E, P, L[d - 1])
<1> DEFINE L == Levels(st, E, P, b)
           N == Cardinality(E)
<1>1. N \in Nat
  BY FS_CardinalityType
<1>2. Rounds(st, E, P, b, N, L)
  BY <1>1, RoundsExist DEF Levels
<1>3. Reached(st, E, P, b) = L[N]
  BY DEF Reached
<1> HIDE DEF L, N
<1>4. L = [d \in 0..N |-> IF d = 0 THEN b ELSE Round(st, E, P, L[d - 1])]
  BY <1>2 DEF Rounds
<1>5. \A d \in 0..N : L[d] = IF d = 0 THEN b ELSE Round(st, E, P, L[d - 1])
  BY <1>4
<1>6. L[0] = b /\ \A d \in 1..N : L[d] = Round(st, E, P, L[d - 1])
  BY <1>1, <1>5
<1> QED BY <1>1, <1>3, <1>6 DEF L, N

\* What is reached from b lies within every closed set that b lies within, ...
LEMMA ReachedLeast ==
  ASSUME NEW st, NEW E, IsFiniteSet(E), NEW P, NEW b,
         NEW U, b \subseteq U, \A x \in U : Held(st, E, P, x) \subseteq U
  PROVE  Reached(st, E, P, b) \subseteq U
<1> DEFINE L == Levels(st, E, P, b)
           N == Cardinality(E)
           T == {d \in 0..N : ~ (L[d] \subseteq U)}
<1>0. /\ N \in Nat /\ Reached(st, E, P, b) = L[N] /\ L[0] = b
      /\ \A d \in 1..N : L[d] = Round(st, E, P, L[d - 1])
  BY LevelsRound
<1> HIDE DEF L, N
<1> SUFFICES ASSUME T # {} PROVE FALSE
  BY <1>0
<1>1. T \subseteq Nat
  BY <1>0
<1>2. PICK d \in T : \A m \in T : d <= m
  BY <1>1, LeastNat
<1>3. d # 0
  BY <1>0
<1>4. d - 1 \in 0..N /\ d \in 1..N /\ d - 1 \notin T
  BY <1>0, <1>1, <1>2, <1>3
<1>5. L[d - 1] \subseteq U /\ L[d] = Round(st, E, P, L[d - 1])
  BY <1>0, <1>4
<1> QED BY <1>2, <1>5 DEF Round

\* ... it has b, ...
LEMMA ReachedFirst ==
  ASSUME NEW st, NEW E, IsFiniteSet(E), NEW P, NEW b, b \subseteq E
  PROVE  \A d \in 0..Cardinality(E) : /\ b \subseteq Levels(st, E, P, b)[d]
                                      /\ Levels(st, E, P, b)[d] \subseteq E
<1> DEFINE L == Levels(st, E, P, b)
           N == Cardinality(E)
           T == {d \in 0..N : ~ (b \subseteq L[d] /\ L[d] \subseteq E)}
<1>0. /\ N \in Nat /\ L[0] = b
      /\ \A d \in 1..N : L[d] = Round(st, E, P, L[d - 1])
      /\ \A x : Held(st, E, P, x) \subseteq E
  BY LevelsRound DEF Held
<1> HIDE DEF L, N
<1> SUFFICES ASSUME T # {} PROVE FALSE
  BY DEF L, N
<1>1. T \subseteq Nat
  BY <1>0
<1>2. PICK d \in T : \A m \in T : d <= m
  BY <1>1, LeastNat
<1>3. d # 0
  BY <1>0
<1>4. d - 1 \in 0..N /\ d \in 1..N /\ d - 1 \notin T
  BY <1>0, <1>1, <1>2, <1>3
<1>5. L[d] = Round(st, E, P, L[d - 1])
  BY <1>0, <1>4
<1> QED BY <1>0, <1>2, <1>4, <1>5 DEF Round

\* ... and it is closed itself.
LEMMA ReachedClosed ==
  ASSUME NEW st, NEW E, IsFiniteSet(E), NEW P, NEW b, b \subseteq E,
         NEW x \in Reached(st, E, P, b)
  PROVE  Held(st, E, P, x) \subseteq Reached(st, E, P, b)
<1> DEFINE N == Cardinality(E)
           L(d) == Levels(st, E, P, b)[d]
           Closed(d) == \A y \in L(d) : Held(st, E, P, y) \subseteq L(d)
           T == {d \in 0..N : ~Closed(d) /\ ~ (Cardinality(L(d)) >= d + 1)}
           S == {d \in 0..N : ~Closed(N) /\ Closed(N - d)}
<1>0. N \in Nat /\ Reached(st, E, P, b) = L(N)
  BY LevelsRound
<1>1. ASSUME NEW d \in 0..N
      PROVE  IsFiniteSet(L(d)) /\ Cardinality(L(d)) \in Nat /\ Cardinality(L(d)) <= N
  <2>1. L(d) \subseteq E
    BY ReachedFirst
  <2> HIDE DEF L
  <2> QED BY <2>1, FS_Subset, FS_CardinalityType
<1>2. ASSUME NEW d \in 1..N PROVE L(d) = Round(st, E, P, L(d - 1))
  BY LevelsRound
<1> HIDE DEF N
\* A level that adds nothing is the last to add anything.
<1>3. ASSUME NEW d \in 1..N, Closed(d - 1) PROVE Closed(d)
  <2>1. Levels(st, E, P, b)[d] = Round(st, E, P, Levels(st, E, P, b)[d - 1])
    BY <1>2
  <2>2. UNION {Held(st, E, P, y) : y \in Levels(st, E, P, b)[d - 1]}
          \subseteq Levels(st, E, P, b)[d - 1]
    BY <1>3
  <2>3. L(d) = L(d - 1)
    BY <2>1, <2>2 DEF Round
  <2> QED BY <1>3, <2>3
<1>4. ASSUME ~Closed(N), NEW d \in 0..N PROVE ~Closed(d)
  <2> SUFFICES ASSUME Closed(d) PROVE FALSE
    OBVIOUS
  <2> HIDE DEF Closed
  <2>1. N - d \in S /\ S \subseteq Nat
    BY <1>0, <1>4
  <2>2. PICK k \in S : \A m \in S : k <= m
    BY <2>1, LeastNat
  <2>3. k # 0 /\ k \in 0..N /\ Closed(N - k)
    BY <1>0, <2>2
  <2>4. N - k + 1 \in 1..N /\ (N - k + 1) - 1 = N - k /\ N - (k - 1) = N - k + 1
    BY <1>0, <2>3
  <2>5. Closed(N - (k - 1))
    BY <1>3, <2>3, <2>4
  <2>6. k - 1 \in S
    BY <1>0, <1>4, <2>3, <2>5
  <2> QED BY <2>2, <2>3, <2>6
<1>5. ASSUME ~Closed(N), NEW d \in 0..N PROVE Cardinality(L(d)) >= d + 1
  <2> SUFFICES ASSUME T # {} PROVE FALSE
    BY <1>4, <1>5
  <2>1. T \subseteq Nat
    BY <1>0
  <2>2. PICK k \in T : \A m \in T : k <= m
    BY <2>1, LeastNat
  <2>3. k \in 0..N /\ ~Closed(k) /\ ~ (Cardinality(L(k)) >= k + 1)
    OBVIOUS
  <2>4. CASE k = 0
    <3>1. L(k) # {}
      BY <2>3
    <3>2. Cardinality(L(k)) # 0
      BY <1>1, <2>3, <3>1, FS_EmptySet
    <3> HIDE DEF L
    <3> QED BY <1>1, <2>3, <2>4, <3>2
  <2>5. CASE k # 0
    <3>1. k - 1 \in 0..N /\ k \in 1..N /\ k - 1 \notin T
      BY <1>0, <2>2, <2>3, <2>5
    <3>2. ~Closed(k - 1)
      BY <1>4, <1>5, <3>1
    <3>3. Cardinality(L(k - 1)) >= k
      <4> HIDE DEF L, Closed
      <4>1. Cardinality(L(k - 1)) >= (k - 1) + 1
        BY <3>1, <3>2
      <4> QED BY <3>1, <4>1
    <3>4. L(k - 1) \subseteq L(k) /\ L(k) # L(k - 1)
      BY <1>2, <3>1, <3>2 DEF Round
    <3> HIDE DEF L, Closed, T
    <3>5. IsFiniteSet(L(k)) /\ L(k - 1) \in SUBSET L(k) /\ L(k) # L(k - 1)
      BY <1>1, <2>3, <3>4
    <3>6. /\ Cardinality(L(k - 1)) <= Cardinality(L(k))
          /\ Cardinality(L(k)) # Cardinality(L(k - 1))
      BY <3>5, FS_Subset
    <3> QED BY <1>1, <2>3, <3>1, <3>3, <3>6
  <2> QED BY <2>4, <2>5
<1>6. Closed(N)
  <2> SUFFICES ASSUME ~Closed(N) PROVE FALSE
    OBVIOUS
  <2> HIDE DEF L, Closed
  <2>1. N \in 0..N
    BY <1>0
  <2>2. Cardinality(L(N)) >= N + 1 /\ Cardinality(L(N)) <= N /\ Cardinality(L(N)) \in Nat
    BY <1>1, <1>5, <2>1
  <2> QED BY <1>0, <2>2
<1> QED BY <1>0, <1>6

\* The facts in the form they are used in.
LEMMA ReachedIs ==
  ASSUME NEW st, NEW E, IsFiniteSet(E), NEW P, NEW b, b \subseteq E
  PROVE  /\ b \subseteq Reached(st, E, P, b) /\ Reached(st, E, P, b) \subseteq E
         /\ \A x \in Reached(st, E, P, b) : Held(st, E, P, x) \subseteq Reached(st, E, P, b)
<1>1. b \subseteq Reached(st, E, P, b) /\ Reached(st, E, P, b) \subseteq E
  <2>1. Cardinality(E) \in 0..Cardinality(E)
    BY FS_CardinalityType
  <2> QED BY <2>1, ReachedFirst DEF Reached
<1>2. \A x \in Reached(st, E, P, b) : Held(st, E, P, x) \subseteq Reached(st, E, P, b)
  BY ReachedClosed
<1> QED BY <1>1, <1>2

-------------------------------------------------------------------------------
(***************************************************************************)
(* Counting.                                                               *)
(***************************************************************************)
\* How many there are after some have left a set and others have come.
LEMMA Exchanged ==
  ASSUME NEW A, IsFiniteSet(A), NEW B, B \subseteq A, NEW C, IsFiniteSet(C), A \cap C = {},
         NEW q, q \notin B, q \notin C, NEW b \in BOOLEAN,
         NEW D, D = (A \ (B \cup {q})) \cup C \cup (IF b THEN {q} ELSE {})
  PROVE  /\ Cardinality(A) \in Nat /\ Cardinality(B) \in Nat /\ Cardinality(C) \in Nat
         /\ IsFiniteSet(D)
         /\ Cardinality(D) = Cardinality(A) - Cardinality(B) + Cardinality(C)
                               - (IF q \in A THEN 1 ELSE 0) + (IF b THEN 1 ELSE 0)
<1> DEFINE A1 == A \ B
           A2 == A1 \ {q}
           A3 == A2 \cup C
<1>1. IsFiniteSet(B)
  BY FS_Subset
<1>2. /\ Cardinality(A) \in Nat /\ Cardinality(B) \in Nat /\ Cardinality(C) \in Nat
  BY <1>1, FS_CardinalityType
<1>3. IsFiniteSet(A1) /\ Cardinality(A1) = Cardinality(A) - Cardinality(B)
  <2>1. A \cap B = B
    OBVIOUS
  <2> QED BY <2>1, FS_Difference
<1>4. q \in A1 <=> q \in A
  OBVIOUS
<1> HIDE DEF A1
<1>5. IsFiniteSet(A2) /\ Cardinality(A2) = IF q \in A1 THEN Cardinality(A1) - 1 ELSE Cardinality(A1)
  BY <1>3, FS_RemoveElement
<1>6. A2 \cap C = {} /\ q \notin A2
  BY DEF A1
<1> HIDE DEF A2
<1>7. Cardinality(A1) \in Nat /\ Cardinality(A2) \in Nat
  BY <1>3, <1>5, FS_CardinalityType
<1>8. IsFiniteSet(A3) /\ Cardinality(A3) = Cardinality(A2) + Cardinality(C)
  <2>1. /\ IsFiniteSet(A3)
        /\ Cardinality(A3) = Cardinality(A2) + Cardinality(C) - Cardinality(A2 \cap C)
    BY <1>5, FS_Union
  <2>2. Cardinality(A2 \cap C) = 0
    BY <1>6, FS_EmptySet
  <2> QED BY <1>2, <1>7, <2>1, <2>2
<1>9. q \notin A3
  BY <1>6
<1> HIDE DEF A3
<1>10. IsFiniteSet(A3 \cup {q}) /\ Cardinality(A3 \cup {q}) = Cardinality(A3) + 1
  BY <1>8, <1>9, FS_AddElement
<1>11. D = IF b THEN A3 \cup {q} ELSE A3
  BY DEF A1, A2, A3
<1>12. IsFiniteSet(D) /\ Cardinality(D) = Cardinality(A3) + (IF b THEN 1 ELSE 0)
  <2>1. CASE b
    <3>1. D = A3 \cup {q}
      BY <1>11, <2>1
    <3>2. (IF b THEN 1 ELSE 0) = 1
      BY <2>1, Zenon
    <3>3. IsFiniteSet(D) /\ Cardinality(D) = Cardinality(A3) + 1
      BY <1>10, <3>1, Zenon
    <3> QED BY <3>2, <3>3, Zenon
  <2>2. CASE ~b
    <3>1. D = A3
      BY <1>11, <2>2
    <3>2. (IF b THEN 1 ELSE 0) = 0
      BY <2>2, Zenon
    <3>3. Cardinality(A3) + 0 = Cardinality(A3)
      <4>1. Cardinality(A3) \in Nat
        BY <1>8, FS_CardinalityType
      <4> QED BY <4>1
    <3>4. IsFiniteSet(D) /\ Cardinality(D) = Cardinality(A3) + 0
      BY <1>8, <3>1, <3>3, Zenon
    <3> QED BY <3>2, <3>4, Zenon
  <2> QED BY <2>1, <2>2
<1>13. Cardinality(A2) = Cardinality(A1) - (IF q \in A THEN 1 ELSE 0)
  BY <1>4, <1>5, <1>7
<1> QED BY <1>2, <1>3, <1>7, <1>8, <1>12, <1>13

\* Counting is adding ones.
LEMMA CountIsSum ==
  ASSUME NEW S, IsFiniteSet(S), NEW T, T \subseteq S
  PROVE  Cardinality(T) = SumFunctionOnSet([x \in S |-> IF x \in T THEN 1 ELSE 0], S)
<1> DEFINE f == [x \in S |-> IF x \in T THEN 1 ELSE 0]
           B == {s \in SUBSET S : Cardinality(s \cap T) # SumFunctionOnSet(f, s)}
<1>1. \A s \in SUBSET S : IsFiniteSet(s) /\ IsFiniteSet(s \cap T)
  BY FS_Subset, FS_Intersection
<1>2. \A x \in S : f[x] = IF x \in T THEN 1 ELSE 0
  OBVIOUS
<1> HIDE DEF f
<1>3. ASSUME B # {} PROVE FALSE
  <2>1. \A s \in B : IsFiniteSet(s)
    BY <1>1
  <2>2. PICK s \in B : \A t \in B : Cardinality(s) <= Cardinality(t)
    <3> HIDE DEF B
    <3> QED BY <1>3, <2>1, LeastSize
  <2>3. s \in SUBSET S /\ IsFiniteSet(s) /\ Cardinality(s \cap T) # SumFunctionOnSet(f, s)
    BY <1>1, <2>2
  <2>4. s # {}
    <3>1. {} \cap T = {}
      OBVIOUS
    <3>2. Cardinality({} \cap T) = SumFunctionOnSet(f, {})
      BY <3>1, FS_EmptySet, SumEmpty
    <3> QED BY <2>3, <3>2
  <2>5. PICK x : x \in s
    BY <2>4
  <2> DEFINE t == s \ {x}
  <2>6. t \in SUBSET S /\ Cardinality(t) = Cardinality(s) - 1 /\ Cardinality(s) \in Nat
    BY <2>3, <2>5, TakeOne
  <2>7. Cardinality(t \cap T) = SumFunctionOnSet(f, t)
    <3>1. t \notin B
      <4> HIDE DEF B, t
      <4> QED BY <2>2, <2>6
    <3> QED BY <2>6, <3>1
  <2>8. SumFunctionOnSet(f, s) = f[x] + SumFunctionOnSet(f, t)
    <3>1. \A y \in s : f[y] \in Int
      BY <1>2, <2>3
    <3> QED BY <2>3, <2>5, <3>1, SumTakeOut
  <2>9. t \cap T = (s \cap T) \ {x} /\ (x \in s \cap T <=> x \in T)
    BY <2>5
  <2>10. Cardinality(t \cap T) = IF x \in T THEN Cardinality(s \cap T) - 1 ELSE Cardinality(s \cap T)
    <3> DEFINE u == s \cap T
    <3>1. IsFiniteSet(u) /\ t \cap T = u \ {x} /\ (x \in u <=> x \in T)
      BY <1>1, <2>3, <2>9
    <3> HIDE DEF u, t
    <3>2. Cardinality(u \ {x}) = IF x \in u THEN Cardinality(u) - 1 ELSE Cardinality(u)
      BY <3>1, FS_RemoveElement
    <3>3. Cardinality(t \cap T) = IF x \in T THEN Cardinality(u) - 1 ELSE Cardinality(u)
      BY <3>1, <3>2
    <3> QED BY <3>3 DEF u
  <2>11. Cardinality(s \cap T) \in Nat
    BY <1>1, <2>3, FS_CardinalityType
  <2>12. f[x] = IF x \in T THEN 1 ELSE 0
    BY <1>2, <2>3, <2>5
  <2> HIDE DEF t
  <2>13. CASE x \in T
    BY <2>3, <2>7, <2>8, <2>10, <2>11, <2>12, <2>13
  <2>14. CASE x \notin T
    BY <2>3, <2>7, <2>8, <2>10, <2>11, <2>12, <2>14
  <2> QED BY <2>13, <2>14
<1>4. Cardinality(S \cap T) = SumFunctionOnSet(f, S)
  BY <1>3
<1>5. S \cap T = T
  OBVIOUS
<1> QED BY <1>4, <1>5 DEF f

-------------------------------------------------------------------------------
(***************************************************************************)
(* The lengths in the four modes, for texts of any size: they differ by    *)
(* what the printers add to a key and to a quoted string, so the counters  *)
(* of one rendering are enough for all of them.                            *)
(***************************************************************************)
\* What mode m adds to a key, and to a string, of the JSON text.
ForKey(m) == KeyText(m, 0) - KeyText(Json, 0)
ForString(m) == StringText(m, 0) - StringText(Json, 0)

\* The length in mode m of a text with so many keys and quoted strings.
PrintedLen(plain, m, nkeys, quoted) == plain + ForKey(m) * nkeys + ForString(m) * quoted

\* A key, or a string, of any length grows by the same.
LEMMA SameForAnyLength ==
  ASSUME NEW m \in Modes, NEW n \in Nat
  PROVE  /\ KeyText(m, n) = KeyText(Json, n) + ForKey(m)
         /\ StringText(m, n) = StringText(Json, n) + ForString(m)
  BY DEF Modes, Json, KeyText, StringText, ForKey, ForString

LEMMA Additions ==
  ASSUME NEW m \in Modes
  PROVE  /\ ForString(m) = IF m.esc THEN 2 ELSE 0
         /\ ForKey(m) = IF m.lua THEN -2 ELSE IF m.esc THEN 2 ELSE 0
  BY DEF Modes, Json, KeyText, StringText, ForKey, ForString

\* __lua_json_elm_get_rlen adds exactly what the printers do.
LEMMA FromBaseIsPrinted ==
  ASSUME NEW b, b.rlen \in Int, b.nkeys \in Int, b.quoted \in Int, NEW m \in Modes
  PROVE  FromBase(b, m) = PrintedLen(b.rlen, m, b.nkeys, b.quoted)
<1>1. m.lua \in BOOLEAN /\ m.esc \in BOOLEAN BY DEF Modes
<1>2. CASE m.lua /\ m.esc BY <1>2, Additions DEF FromBase, PrintedLen
<1>3. CASE m.lua /\ ~m.esc BY <1>3, Additions DEF FromBase, PrintedLen
<1>4. CASE ~m.lua /\ m.esc BY <1>4, Additions DEF FromBase, PrintedLen
<1>5. CASE ~m.lua /\ ~m.esc BY <1>5, Additions DEF FromBase, PrintedLen
<1> QED BY <1>1, <1>2, <1>3, <1>4, <1>5

\* The end of lua_json_elm_stringify takes off exactly what the printers added.
LEMMA ToBaseIsPlain ==
  ASSUME NEW plain \in Int, NEW nkeys \in Int, NEW quoted \in Int, NEW trefs, NEW m \in Modes
  PROVE  ToBase(PrintedLen(plain, m, nkeys, quoted), m, nkeys, quoted, trefs)
           = [rlen |-> plain, nkeys |-> nkeys, quoted |-> quoted, trefs |-> trefs]
<1>1. m.lua \in BOOLEAN /\ m.esc \in BOOLEAN BY DEF Modes
<1>2. CASE m.lua /\ m.esc BY <1>2, Additions DEF ToBase, PrintedLen
<1>3. CASE m.lua /\ ~m.esc BY <1>3, Additions DEF ToBase, PrintedLen
<1>4. CASE ~m.lua /\ m.esc BY <1>4, Additions DEF ToBase, PrintedLen
<1>5. CASE ~m.lua /\ ~m.esc BY <1>5, Additions DEF ToBase, PrintedLen
<1> QED BY <1>1, <1>2, <1>3, <1>4, <1>5

\* A text printed in any mode m leaves counters from which its length in any
\* other mode n comes out: lua_json_elm_stringify and __lua_json_elm_get_rlen
\* are about the same text.
THEOREM OneRenderingTellsAll ==
  ASSUME NEW plain \in Int, NEW nkeys \in Int, NEW quoted \in Int, NEW trefs,
         NEW m \in Modes, NEW n \in Modes
  PROVE  FromBase(ToBase(PrintedLen(plain, m, nkeys, quoted), m, nkeys, quoted, trefs), n)
           = PrintedLen(plain, n, nkeys, quoted)
<1> DEFINE b == [rlen |-> plain, nkeys |-> nkeys, quoted |-> quoted, trefs |-> trefs]
<1>1. ToBase(PrintedLen(plain, m, nkeys, quoted), m, nkeys, quoted, trefs) = b
  BY ToBaseIsPlain
<1>2. b.rlen = plain /\ b.nkeys = nkeys /\ b.quoted = quoted OBVIOUS
<1> HIDE DEF b
<1>3. FromBase(b, n) = PrintedLen(b.rlen, n, b.nkeys, b.quoted)
  BY <1>2, FromBaseIsPrinted
<1> QED BY <1>1, <1>2, <1>3
===============================================================================
