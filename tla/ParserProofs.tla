----------------------------- MODULE ParserProofs -----------------------------
(***************************************************************************)
(* JSON:parse on any text, without the script that calls it: reading ends, *)
(* the stack of activations is bounded, no item of a text that the         *)
(* tokenizer accepts is left out, and of a text that tells an element, as  *)
(* the renderers write it, the element is made.                            *)
(***************************************************************************)
EXTENDS ParserProps, DataLemmas

\* JSON:parse for as many texts as a script likes.
ReadNext == (\E text \in Seq(Tokens) : Parse(text)) \/ ParseItem \/ ParseReturn
ReadSpec == frames = << >> /\ read = Nothing /\ [][ReadNext]_parserVars

-------------------------------------------------------------------------------
(***************************************************************************)
(* What is left of a text.                                                 *)
(***************************************************************************)
LEMMA FromIs ==
  ASSUME NEW T, NEW s \in Seq(T), NEW i \in Nat \ {0}
  PROVE  /\ From(s, i) \in Seq(T)
         /\ Len(From(s, i)) = IF i <= Len(s) THEN Len(s) - i + 1 ELSE 0
         /\ \A j \in 1..(Len(s) - i + 1) : From(s, i)[j] = s[i + j - 1]
  BY DEF From

LEMMA ReachIn ==
  ASSUME NEW T, NEW s \in Seq(T)
  PROVE  Reach(s) \in 0..Len(s)
<1>1. Len(s) \in Nat
  OBVIOUS
<1> DEFINE ends == {n \in 1..Len(s) : Scan(s)[n].expecting = "done"}
<1> DEFINE end == CHOOSE n \in ends : TRUE
<1>2. Reach(s) = IF ends = {} THEN 0 ELSE end
  BY Zenon DEF Reach
<1>3. ends # {} => end \in ends
  BY Zenon
<1>4. ends \subseteq 1..Len(s)
  OBVIOUS
<1> HIDE DEF ends, end
<1>5. CASE ends = {}
  BY <1>1, <1>2, <1>5
<1>6. CASE ends # {}
  <2>1. Reach(s) \in 1..Len(s)
    BY <1>2, <1>3, <1>4, <1>6, Zenon
  <2> QED BY <1>1, <2>1
<1> QED BY <1>5, <1>6

\* An item uses up as much as it has tokens.
LEMMA ItemIs ==
  ASSUME NEW kind, NEW s \in Seq(Tokens), NEW count, HasNext(kind, s)
  PROVE  LET it == NextItem(kind, s, count)
         IN  /\ it.val \in Seq(Tokens) /\ it.rest \in Seq(Tokens)
             /\ Len(it.val) >= 1 /\ Len(it.rest) + Len(it.val) <= Len(s)
<1> DEFINE start == IF kind = "array" THEN 1 ELSE Reach(s) + 2
           n == Reach(From(s, start))
           rest == From(s, start + n)
           it == NextItem(kind, s, count)
<1>1. Reach(s) \in 0..Len(s) /\ Len(s) \in Nat
  BY ReachIn
<1>2. start \in Nat \ {0}
  BY <1>1
<1>3. From(s, 1) = s
  BY DEF From
<1>4. n > 0
  BY <1>3 DEF HasNext
<1>5. /\ it.val = SubSeq(s, start, start + n - 1)
      /\ it.rest = IF rest # << >> /\ rest[1] = "," THEN Tail(rest) ELSE rest
  BY DEF NextItem
<1> HIDE DEF start, it
<1>6. /\ From(s, start) \in Seq(Tokens)
      /\ Len(From(s, start)) = IF start <= Len(s) THEN Len(s) - start + 1 ELSE 0
  BY <1>2, FromIs
<1>7. n \in 0..Len(From(s, start))
  BY <1>6, ReachIn
<1> HIDE DEF n
<1>8. n \in Nat /\ start + n - 1 <= Len(s)
  BY <1>1, <1>2, <1>4, <1>6, <1>7
<1>9. it.val \in Seq(Tokens) /\ Len(it.val) = n
  <2>1. PICK w : w = SubSeq(s, start, start + n - 1)
    OBVIOUS
  <2>2. w \in Seq(Tokens) /\ Len(w) = n
    BY <1>1, <1>2, <1>4, <1>8, <2>1
  <2> QED BY <1>5, <2>1, <2>2
<1>10. rest \in Seq(Tokens) /\ Len(rest) = IF start + n <= Len(s) THEN Len(s) - (start + n) + 1 ELSE 0
  <2>1. start + n \in Nat \ {0}
    BY <1>2, <1>8
  <2> QED BY <2>1, FromIs
<1>11. Len(rest) <= Len(s) - n
  BY <1>1, <1>2, <1>8, <1>10
<1>12. it.rest \in Seq(Tokens) /\ Len(it.rest) <= Len(rest)
  <2>1. rest # << >> => Tail(rest) \in Seq(Tokens) /\ Len(Tail(rest)) <= Len(rest)
    BY <1>10
  <2>2. rest \in Seq(Tokens) /\ Len(rest) <= Len(rest)
    BY <1>10
  <2> HIDE DEF rest
  <2>3. it.rest = rest \/ (rest # << >> /\ it.rest = Tail(rest))
    BY <1>5
  <2>4. PICK w : w = Tail(rest)
    OBVIOUS
  <2>5. CASE rest # << >> /\ it.rest = w
    BY <2>1, <2>4, <2>5, Zenon
  <2> QED BY <2>2, <2>3, <2>4, <2>5, Zenon
<1> HIDE DEF rest
<1>13. it.val \in Seq(Tokens) /\ it.rest \in Seq(Tokens) /\ Len(it.val) >= 1
      /\ Len(it.rest) + Len(it.val) <= Len(s)
  <2>1. Len(it.rest) \in Nat /\ Len(rest) \in Nat
    BY <1>10, <1>12
  <2> QED BY <1>1, <1>4, <1>8, <1>9, <1>11, <1>12, <2>1
<1> QED BY <1>13 DEF it

-------------------------------------------------------------------------------
(***************************************************************************)
(* Reading ends.                                                           *)
(***************************************************************************)
IsActivation(f) == f = [doc |-> f.doc, key |-> f.key, rest |-> f.rest] /\ f.rest \in Seq(Tokens)
AreFrames(fs) == \E S : fs \in Seq(S) /\ \A f \in S : IsActivation(f)
Left(fs) == Len(fs) + 2 * SumFunction([i \in DOMAIN fs |-> Len(fs[i].rest)])

LEMMA ActivationIs ==
  ASSUME NEW s \in Seq(Tokens), NEW key, Len(s) >= 1
  PROVE  IsActivation(Activation(s, key)) /\ Len(Activation(s, key).rest) <= Len(s) - 1
<1>1. Reach(s) \in 0..Len(s)
  BY ReachIn
<1>2. Reach(s) # 0 => /\ SubSeq(s, 2, Reach(s)) \in Seq(Tokens)
                      /\ Len(SubSeq(s, 2, Reach(s))) = Reach(s) - 1
  BY <1>1
<1>3. PICK r : r = IF Reach(s) = 0 THEN << >> ELSE SubSeq(s, 2, Reach(s))
  OBVIOUS
<1>4. r \in Seq(Tokens) /\ Len(r) <= Len(s) - 1
  BY <1>1, <1>2, <1>3
<1>5. PICK d : d = EmptyOf(IF s[1] = "[" THEN "array" ELSE "object")
  OBVIOUS
<1>6. Activation(s, key) = [doc |-> d, key |-> key, rest |-> r]
  BY <1>3, <1>5 DEF Activation
<1> QED BY <1>4, <1>6 DEF IsActivation

LEMMA LeftOf ==
  ASSUME NEW fs, AreFrames(fs), NEW f, IsActivation(f)
  PROVE  /\ AreFrames(Append(fs, f)) /\ Left(fs) \in Int
         /\ Left(Append(fs, f)) = Left(fs) + 1 + 2 * Len(f.rest)
<1>1. PICK S : fs \in Seq(S) /\ \A x \in S : IsActivation(x)
  BY DEF AreFrames
<1> DEFINE n == Len(fs)
           gs == Append(fs, f)
           lf == [i \in DOMAIN fs |-> Len(fs[i].rest)]
           lg == [i \in DOMAIN gs |-> Len(gs[i].rest)]
<1>2. n \in Nat /\ DOMAIN fs = 1..n /\ \A i \in 1..n : fs[i] \in S
  BY <1>1
<1>3. gs \in Seq(S \cup {f}) /\ Len(gs) = n + 1 /\ DOMAIN gs = 1..(n + 1) /\ gs[n + 1] = f
      /\ \A i \in 1..n : gs[i] = fs[i]
  BY <1>1
<1>4. AreFrames(gs)
  BY <1>1, <1>3 DEF AreFrames
<1> HIDE DEF gs
<1>5. \A i \in 1..n : fs[i].rest \in Seq(Tokens)
  BY <1>1, <1>2 DEF IsActivation
<1>6. f.rest \in Seq(Tokens)
  BY DEF IsActivation
<1> HIDE DEF n
<1>7. DOMAIN lf = 1..n /\ DOMAIN lg = 1..(n + 1)
  BY <1>2, <1>3
<1>8. \A i \in 1..n : lf[i] \in Int /\ lg[i] = lf[i]
  BY <1>2, <1>3, <1>5
<1>9. lg[n + 1] = Len(f.rest) /\ lg[n + 1] \in Int
  BY <1>2, <1>3, <1>6
<1> HIDE DEF lf, lg
<1>10. SumFunction(lf) \in Int /\ SumFunction(lg) = SumFunction(lf) + lg[n + 1]
  BY <1>2, <1>7, <1>8, <1>9, SumAppended
<1>11. Left(fs) = n + 2 * SumFunction(lf) /\ Left(gs) = n + 1 + 2 * SumFunction(lg)
  BY <1>3 DEF Left, lf, lg, n
<1>12. Left(gs) = Left(fs) + 1 + 2 * Len(f.rest) /\ Left(fs) \in Int
  BY <1>2, <1>9, <1>10, <1>11
<1> QED BY <1>4, <1>12 DEF gs

\* The innermost activation, and the ones around it.
LEMMA Split ==
  ASSUME NEW fs, AreFrames(fs), fs # << >>
  PROVE  /\ AreFrames(Front(fs)) /\ IsActivation(Last(fs)) /\ fs = Append(Front(fs), Last(fs))
         /\ Left(Front(fs)) \in Int /\ Left(fs) = Left(Front(fs)) + 1 + 2 * Len(Last(fs).rest)
<1>1. PICK S : fs \in Seq(S) /\ \A x \in S : IsActivation(x)
  BY DEF AreFrames
<1>2. Front(fs) \in Seq(S) /\ Last(fs) \in S /\ fs = Append(Front(fs), Last(fs))
  BY <1>1 DEF Front, Last
<1>3. AreFrames(Front(fs)) /\ IsActivation(Last(fs))
  BY <1>1, <1>2 DEF AreFrames
<1> QED BY <1>2, <1>3, LeftOf

LEMMA Shortened ==
  ASSUME NEW f, IsActivation(f), NEW d, NEW s \in Seq(Tokens)
  PROVE  LET g == [f EXCEPT !.rest = s]
             h == [f EXCEPT !.doc = d]
         IN  /\ IsActivation(g) /\ g.rest = s /\ g.doc = f.doc /\ g.key = f.key
             /\ IsActivation(h) /\ h.rest = f.rest /\ h.doc = d /\ h.key = f.key
<1>1. PICK a, b, c : f = [doc |-> a, key |-> b, rest |-> c] /\ c \in Seq(Tokens)
  BY DEF IsActivation
<1>2. /\ [f EXCEPT !.rest = s] = [doc |-> a, key |-> b, rest |-> s]
      /\ [f EXCEPT !.doc = d] = [doc |-> d, key |-> b, rest |-> c]
  BY <1>1
<1> QED BY <1>1, <1>2 DEF IsActivation

\* A value is stored, by an activation with less to walk.
LEMMA StoreStep ==
  ASSUME NEW outer, AreFrames(outer), NEW f, IsActivation(f), NEW k, NEW v,
         Store(outer, f, k, v)
  PROVE  /\ AreFrames(frames')
         /\ frames' # << >> => TextLeft' = Left(outer) + 1 + 2 * Len(f.rest)
<1>1. CASE frames' = << >>
  BY <1>1 DEF AreFrames
<1>2. CASE frames' # << >>
  <2> DEFINE g == [f EXCEPT !.doc = Put(@, k, v)]
  <2>1. frames' = Append(outer, g)
    BY <1>2 DEF Store, Raise, Goes
  <2>2. IsActivation(g) /\ g.rest = f.rest
    <3>1. PICK d : d = Put(f.doc, k, v)
      OBVIOUS
    <3>2. PICK s \in Seq(Tokens) : s = f.rest
      BY DEF IsActivation
    <3>3. g = [f EXCEPT !.doc = d]
      BY <3>1
    <3> QED BY <3>2, <3>3, Shortened
  <2> HIDE DEF g
  <2>3. AreFrames(Append(outer, g)) /\ Left(Append(outer, g)) = Left(outer) + 1 + 2 * Len(g.rest)
    BY <2>2, LeftOf
  <2>4. TextLeft' = Left(frames')
    BY DEF TextLeft, Left
  <2> QED BY <2>1, <2>2, <2>3, <2>4
<1> QED BY <1>1, <1>2

Shorter == frames # << >> /\ frames' # << >> => TextLeft' < TextLeft

LEMMA StepShortens ==
  ASSUME AreFrames(frames), [ReadNext]_parserVars
  PROVE  AreFrames(frames)' /\ (frames' # frames \/ read' # read => Shorter)
<1>1. TextLeft = Left(frames) /\ TextLeft' = Left(frames')
  BY DEF TextLeft, Left
<1>2. ASSUME NEW text \in Seq(Tokens), Parse(text)
      PROVE  AreFrames(frames') /\ Shorter
  <2>1. CASE text # << >> /\ text[1] \in {"[", "{"}
    <3> DEFINE act == Activation(text, 0)
    <3>1. text \in Seq(Tokens) /\ Len(text) >= 1
      <4>1. text # << >> /\ text \in Seq(Tokens)
        BY <2>1
      <4> QED BY <4>1
    <3>2. IsActivation(act)
      BY <3>1, ActivationIs
    <3>3. frames' = <<act>> /\ frames = << >>
      BY <1>2, <2>1 DEF Parse
    <3> HIDE DEF act
    <3>4. <<act>> \in Seq({act}) /\ \A f \in {act} : IsActivation(f)
      BY <3>2
    <3> QED BY <3>3, <3>4 DEF AreFrames, Shorter
  <2>2. CASE ~ (text # << >> /\ text[1] \in {"[", "{"})
    BY <1>2, <2>2 DEF Parse, Shorter
  <2> QED BY <2>1, <2>2
<1> DEFINE fs == Outer
           inner == Innermost
<1>3. ASSUME frames # << >>
      PROVE  /\ AreFrames(fs) /\ IsActivation(inner) /\ TextLeft = Left(fs) + 1 + 2 * Len(inner.rest)
             /\ Left(fs) \in Int /\ inner.rest \in Seq(Tokens)
  BY <1>1, <1>3, Split DEF Outer, Innermost, IsActivation
<1>4. CASE ParseItem
  <2> DEFINE it == NextItem(inner.doc.kind, inner.rest, Size(inner.doc))
             f == [inner EXCEPT !.rest = it.rest]
             act == Activation(it.val, it.key)
  <2>1. frames # << >> /\ HasNext(inner.doc.kind, inner.rest)
    BY <1>4 DEF ParseItem, MoreItems
  <2>3. /\ it.val \in Seq(Tokens) /\ it.rest \in Seq(Tokens)
        /\ Len(it.val) >= 1 /\ Len(it.rest) + Len(it.val) <= Len(inner.rest)
    <3>1. PICK s \in Seq(Tokens) : s = inner.rest
      BY <1>3, <2>1
    <3> QED BY <2>1, <3>1, ItemIs
  <2> HIDE DEF it
  <2>4. IsActivation(f) /\ f.rest = it.rest
    BY <1>3, <2>1, <2>3, Shortened, ZenonT(60)
  <2>5. IsActivation(act) /\ Len(act.rest) <= Len(it.val) - 1
    BY <2>3, ActivationIs
  <2> HIDE DEF f, act, fs, inner
  <2>6. /\ Len(f.rest) \in Nat /\ Len(act.rest) \in Nat /\ Len(it.val) \in Nat
        /\ Len(inner.rest) \in Nat /\ Len(it.rest) = Len(f.rest)
    BY <1>3, <2>1, <2>3, <2>4, <2>5 DEF IsActivation
  <2>7. CASE frames' = fs \o <<f, act>>
    <3> DEFINE gs == Append(fs, f)
    <3>1. PICK S : fs \in Seq(S)
      BY <1>3, <2>1 DEF AreFrames
    <3>2. fs \o <<f, act>> = Append(gs, act)
      <4>1. fs \in Seq(S \cup {f, act})
        BY <3>1
      <4> QED BY <4>1
    <3>3. AreFrames(gs) /\ Left(gs) = Left(fs) + 1 + 2 * Len(f.rest)
      BY <1>3, <2>1, <2>4, LeftOf
    <3> HIDE DEF gs
    <3>4. AreFrames(Append(gs, act)) /\ Left(Append(gs, act)) = Left(gs) + 1 + 2 * Len(act.rest)
      BY <2>5, <3>3, LeftOf
    <3>5. TextLeft' = Left(fs) + 1 + 2 * Len(f.rest) + 1 + 2 * Len(act.rest)
      BY <1>1, <2>7, <3>2, <3>3, <3>4
    <3>6. PICK a \in Nat, b \in Nat, c \in Nat, v \in Nat, l \in Int :
            a = Len(f.rest) /\ b = Len(act.rest) /\ c = Len(inner.rest) /\ v = Len(it.val) /\ l = Left(fs)
      BY <1>3, <2>1, <2>6
    <3>7. a + v <= c
      BY <2>3, <2>6, <3>6
    <3>8. b <= v - 1
      BY <2>5, <3>6
    <3>9. TextLeft' = l + 1 + 2 * a + 1 + 2 * b /\ TextLeft = l + 1 + 2 * c
      BY <1>3, <2>1, <3>5, <3>6
    <3>10. TextLeft' < TextLeft
      BY <3>7, <3>8, <3>9
    <3> QED BY <2>7, <3>2, <3>4, <3>10 DEF Shorter
  <2>8. CASE Store(fs, f, it.key, it.val[1])
    <3>1. /\ AreFrames(frames')
          /\ frames' # << >> => TextLeft' = Left(fs) + 1 + 2 * Len(f.rest)
      BY <1>3, <2>1, <2>4, <2>8, StoreStep
    <3>2. PICK a \in Nat, c \in Nat, v \in Nat, l \in Int :
            a = Len(f.rest) /\ c = Len(inner.rest) /\ v = Len(it.val) /\ l = Left(fs)
      BY <1>3, <2>1, <2>6
    <3>3. a + v <= c /\ v >= 1
      BY <2>3, <2>6, <3>2
    <3>4. TextLeft = l + 1 + 2 * c /\ a < c /\ (frames' # << >> => TextLeft' = l + 1 + 2 * a)
      <4>1. a < c
        BY <3>3
      <4>2. TextLeft = l + 1 + 2 * c
        BY <1>3, <2>1, <3>2
      <4>3. frames' # << >> => TextLeft' = l + 1 + 2 * a
        BY <3>1, <3>2
      <4> QED BY <4>1, <4>2, <4>3
    <3>5. AreFrames(frames)' /\ Shorter
      BY <3>1, <3>4 DEF Shorter
    <3> QED BY <3>5
  <2>9. frames' = fs \o <<f, act>> \/ Store(fs, f, it.key, it.val[1])
    BY <1>4 DEF ParseItem, Goes, fs, inner, it, f, act
  <2> QED BY <2>7, <2>8, <2>9
<1>5. CASE ParseReturn
  <2>1. frames # << >>
    BY <1>5 DEF ParseReturn
  <2>2. CASE Outer = << >>
    BY <1>5, <2>2 DEF ParseReturn, Shorter, AreFrames
  <2>3. CASE Outer # << >>
    <3>1. Store(Front(fs), Last(fs), inner.key, inner.doc)
      BY <1>5, <2>3 DEF ParseReturn
    <3> HIDE DEF fs, inner
    <3>2. /\ AreFrames(Front(fs)) /\ IsActivation(Last(fs))
          /\ Left(Front(fs)) \in Int /\ Left(fs) = Left(Front(fs)) + 1 + 2 * Len(Last(fs).rest)
      BY <1>3, <2>1, <2>3, Split DEF fs
    <3>3. /\ AreFrames(frames')
          /\ frames' # << >> => TextLeft' = Left(Front(fs)) + 1 + 2 * Len(Last(fs).rest)
      BY <3>1, <3>2, StoreStep
    <3>4. Len(inner.rest) \in Nat
      BY <1>3, <2>1
    <3> QED BY <1>3, <2>1, <3>2, <3>3, <3>4 DEF Shorter
  <2> QED BY <2>2, <2>3
<1>6. CASE UNCHANGED parserVars
  <2>1. frames' = frames /\ read' = read
    BY <1>6 DEF parserVars
  <2>2. AreFrames(frames')
    BY <2>1
  <2>3. AreFrames(frames)'
    BY <2>2
  <2> QED BY <2>1, <2>3
<1> QED BY <1>2, <1>4, <1>5, <1>6 DEF ReadNext

\* Whatever the text, the walk through it ends: each round of the loop, each
\* call for a nested value and each return leaves less text than there was
\* (__lua_json_elm_parse).
THEOREM ReadingEnds == ReadSpec => ReadingUsesUpText
<1>1. frames = << >> => AreFrames(frames)
  <2>1. PICK S : S = {}
    OBVIOUS
  <2>2. << >> \in Seq(S) /\ \A f \in S : IsActivation(f)
    BY <2>1
  <2>3. AreFrames(<< >>)
    BY <2>2, Zenon DEF AreFrames
  <2> QED BY <2>3
<1>2. AreFrames(frames) /\ [ReadNext]_parserVars =>
        AreFrames(frames)' /\ [frames # << >> /\ frames' # << >> => TextLeft' < TextLeft]_parserVars
  BY StepShortens DEF Shorter, parserVars
<1> QED BY <1>1, <1>2, PTL DEF ReadSpec, ReadingUsesUpText

-------------------------------------------------------------------------------
(***************************************************************************)
(* The loop of the tokenizer.                                              *)
(***************************************************************************)
OpenTokens == {"{", "["}
IsState(st) ==
  /\ st \in [expecting : {"value", "key", "colon", "comma", "done", "error"}, nesting : Seq(OpenTokens)]
  /\ Len(st.nesting) <= MaxNesting
  /\ st.expecting \in {"key", "colon", "comma"} => st.nesting # << >>
  /\ st.expecting \in {"done", "error"} => st.nesting = << >>
Ended(st) == st.expecting \in {"done", "error"}
AtValue(st) == st.expecting = "value" /\ st.nesting = << >>

LEMMA Popped ==
  ASSUME NEW N \in Seq(OpenTokens), N # << >>
  PROVE  /\ Front(N) \in Seq(OpenTokens) /\ Len(Front(N)) = Len(N) - 1
         /\ Len(N) \in Nat \ {0} /\ Last(N) \in OpenTokens
         /\ Len(N) = 1 => Front(N) = << >>
         /\ Len(N) # 1 => Front(N) # << >>
<1>1. Len(N) \in Nat \ {0}
  OBVIOUS
<1>2. PICK n \in Nat : n = Len(N) - 1
  BY <1>1
<1>3. Front(N) = SubSeq(N, 1, n)
  BY <1>2 DEF Front
<1>4. SubSeq(N, 1, n) \in Seq(OpenTokens) /\ Len(SubSeq(N, 1, n)) = n
  BY <1>1, <1>2
<1>5. Last(N) \in OpenTokens
  BY <1>1 DEF Last
<1>6. SubSeq(N, 1, 0) = << >>
  BY SubSeqEmpty
<1>7. n # 0 => SubSeq(N, 1, n) # << >>
  BY <1>4
<1> QED BY <1>1, <1>2, <1>3, <1>4, <1>5, <1>6, <1>7

LEMMA Limit == MaxNesting \in Nat /\ MaxNesting # 0
  BY Zenon, ParserAssumption

LEMMA OpenIs ==
  ASSUME NEW st, IsState(st), NEW c \in OpenTokens
  PROVE  IsState(Open(st, c)) /\ ~ AtValue(Open(st, c)) /\ ~ Open(st, c).expecting = "done"
<1>1. PICK N \in Seq(OpenTokens) : N = st.nesting
  BY DEF IsState
<1>2. Len(N) \in Nat /\ MaxNesting \in Nat
  BY Limit
<1>3. CASE Len(N) >= MaxNesting
  <2>1. Open(st, c) = Failed
    BY <1>1, <1>3 DEF Open
  <2> QED BY <1>2, <2>1 DEF Failed, IsState, AtValue
<1>4. CASE ~ Len(N) >= MaxNesting
  <2>1. PICK A \in Seq(OpenTokens) : A = Append(N, c) /\ Len(A) = Len(N) + 1 /\ A # << >>
    <3>1. Append(N, c) \in Seq(OpenTokens)
      OBVIOUS
    <3>2. Len(Append(N, c)) = Len(N) + 1
      OBVIOUS
    <3>3. Append(N, c) # << >>
      <4>1. Len(Append(N, c)) # 0 /\ Len(<< >>) = 0
        BY <1>2, <3>2
      <4> QED BY <4>1, Zenon
    <3> QED BY <3>1, <3>2, <3>3
  <2>2. Len(A) <= MaxNesting
    BY <1>2, <1>4, <2>1
  <2>3. Open(st, c) = [expecting |-> IF c = "{" THEN "key" ELSE "value", nesting |-> A]
    BY <1>1, <1>4, <2>1 DEF Open
  <2>4. PICK e \in {"key", "value"} : e = IF c = "{" THEN "key" ELSE "value"
    OBVIOUS
  <2>5. Open(st, c) = [expecting |-> e, nesting |-> A]
    BY <2>3, <2>4
  <2>6. IsState(Open(st, c))
    BY <2>1, <2>2, <2>5 DEF IsState
  <2>7. ~ AtValue(Open(st, c)) /\ ~ Open(st, c).expecting = "done"
    BY <2>1, <2>5 DEF AtValue
  <2> QED BY <2>6, <2>7
<1> QED BY <1>3, <1>4

LEMMA CloseIs ==
  ASSUME NEW st, IsState(st), NEW c
  PROVE  IsState(Close(st, c)) /\ ~ AtValue(Close(st, c))
<1>1. PICK N \in Seq(OpenTokens) : N = st.nesting
  BY DEF IsState
<1>2. Len(N) \in Nat /\ MaxNesting \in Nat /\ Len(N) <= MaxNesting
  BY <1>1, Limit DEF IsState
<1>3. CASE N = << >> \/ <<Last(N), c>> \notin Fits
  <2>1. Close(st, c) = Failed
    BY <1>1, <1>3 DEF Close
  <2> QED BY <1>2, <2>1 DEF Failed, IsState, AtValue
<1>4. CASE ~ (N = << >> \/ <<Last(N), c>> \notin Fits)
  <2>1. Close(st, c) = [expecting |-> IF Len(N) = 1 THEN "done" ELSE "comma", nesting |-> Front(N)]
    BY <1>1, <1>4 DEF Close
  <2>2. /\ Front(N) \in Seq(OpenTokens) /\ Len(Front(N)) = Len(N) - 1
        /\ Len(N) = 1 => Front(N) = << >>
        /\ Len(N) # 1 => Front(N) # << >>
    BY <1>4, Popped
  <2>3. Len(Front(N)) <= MaxNesting
    BY <1>2, <2>2
  <2> QED BY <2>1, <2>2, <2>3 DEF IsState, AtValue
<1> QED BY <1>3, <1>4

\* The state after a token; where the value has ended, or failed, nothing follows.
LEMMA AfterIs ==
  ASSUME NEW st, IsState(st), NEW c
  PROVE  /\ IsState(After(st, c)) /\ ~ AtValue(After(st, c))
         /\ Ended(st) => After(st, c) = Failed
<1> DEFINE On(next) == [expecting |-> next, nesting |-> st.nesting]
<1>0. /\ st.nesting \in Seq(OpenTokens) /\ Len(st.nesting) <= MaxNesting
      /\ st.expecting \in {"key", "colon", "comma"} => st.nesting # << >>
  BY DEF IsState
<1>00. c \in {"{", "}", "[", "]", ":", ","} => c \notin Scalars /\ c \notin Strings
  BY Zenon, ParserAssumption DEF Scalars
<1>1. CASE st.expecting = "value" /\ c \in OpenTokens
  <2>1. After(st, c) = Open(st, c)
    <3>1. c \in {"{", "["} /\ c # "]" /\ c \notin Scalars
      BY <1>00, <1>1 DEF OpenTokens
    <3> QED BY <1>1, <3>1 DEF After
  <2>2. ~ Ended(st)
    BY <1>1 DEF Ended
  <2> QED BY <1>1, <2>1, <2>2, OpenIs
<1>2. CASE st.expecting = "value" /\ c \notin OpenTokens
  <2>1. CASE c = "]"
    <3>1. After(st, c) = Close(st, c)
      BY <1>2, <2>1, <1>00 DEF After, OpenTokens
    <3>2. ~ Ended(st)
      BY <1>2 DEF Ended
    <3> QED BY <3>1, <3>2, CloseIs
  <2>2. CASE c # "]" /\ c \in Scalars \ {Broken}
    <3>1. After(st, c) = On(IF st.nesting = << >> THEN "done" ELSE "comma")
      BY <1>2, <2>2 DEF After, OpenTokens
    <3> QED BY <1>0, <1>2, <3>1 DEF IsState, AtValue, Ended
  <2>3. CASE c # "]" /\ c \notin Scalars \ {Broken}
    <3>1. After(st, c) = Failed
      BY <1>2, <2>3 DEF After, OpenTokens
    <3> QED BY <3>1, Limit DEF Failed, IsState, AtValue
  <2> QED BY <2>1, <2>2, <2>3
<1>3. CASE st.expecting = "key"
  <2>1. CASE c \in Strings
    <3>1. After(st, c) = On("colon")
      BY <1>00, <1>3, <2>1 DEF After
    <3> QED BY <1>0, <1>3, <3>1 DEF IsState, AtValue, Ended
  <2>2. CASE c \notin Strings /\ c = "}"
    BY <1>3, <2>2, CloseIs DEF After, Ended
  <2>3. CASE c \notin Strings /\ c # "}"
    <3>1. After(st, c) = Failed
      BY <1>3, <2>3 DEF After
    <3> QED BY <3>1, Limit DEF Failed, IsState, AtValue
  <2> QED BY <2>1, <2>2, <2>3
<1>4. CASE st.expecting = "colon"
  <2>1. After(st, c) = IF c = ":" THEN On("value") ELSE Failed
    BY <1>4 DEF After
  <2> QED BY <1>0, <1>4, <2>1, Limit DEF IsState, AtValue, Ended, Failed
<1>5. CASE st.expecting = "comma"
  <2>1. CASE c = ","
    <3>1. PICK e \in {"key", "value"} : e = IF Last(st.nesting) = "{" THEN "key" ELSE "value"
      OBVIOUS
    <3>2. After(st, c) = On(e)
      BY <1>5, <2>1, <3>1 DEF After
    <3> QED BY <1>0, <1>5, <3>2 DEF IsState, AtValue, Ended
  <2>2. CASE c \in {"]", "}"}
    BY <1>5, <2>2, CloseIs DEF After, Ended
  <2>3. CASE c \notin {",", "]", "}"}
    <3>1. After(st, c) = Failed
      BY <1>5, <2>3 DEF After
    <3> QED BY <3>1, Limit DEF Failed, IsState, AtValue
  <2> QED BY <2>1, <2>2, <2>3
<1>6. CASE Ended(st)
  <2>1. After(st, c) = Failed
    BY <1>6 DEF After, Ended
  <2> QED BY <2>1, Limit DEF Failed, IsState, AtValue
<1>7. \/ st.expecting \in {"value", "key", "colon", "comma"}
      \/ Ended(st)
  BY DEF IsState, Ended
<1> QED BY <1>1, <1>2, <1>3, <1>4, <1>5, <1>6, <1>7

\* The loop round by round.
LEMMA ScanIs ==
  ASSUME NEW T, NEW s \in Seq(T)
  PROVE  /\ Scan(s)[0] = Start
         /\ \A n \in 1..Len(s) : Scan(s)[n] = After(Scan(s)[n - 1], s[n])
<1> DEFINE Loop(k, f) == f = [n \in 0..k |-> IF n = 0 THEN Start ELSE After(f[n - 1], s[n])]
           Stuck == {k \in Nat : ~ \E f : Loop(k, f)}
<1>1. Stuck = {}
  <2> SUFFICES ASSUME Stuck # {} PROVE FALSE
    OBVIOUS
  <2>1. PICK k \in Stuck : \A m \in Stuck : k <= m
    BY LeastNat
  <2>2. CASE k = 0
    <3> DEFINE f == [n \in 0..0 |-> Start]
    <3>1. f = [n \in 0..0 |-> IF n = 0 THEN Start ELSE After(f[n - 1], s[n])]
      OBVIOUS
    <3> HIDE DEF f
    <3>2. Loop(0, f)
      BY <3>1
    <3> QED BY <2>2, <3>2
  <2>3. CASE k # 0
    <3>1. k - 1 \in Nat /\ k \in Nat /\ k - 1 \notin Stuck
      <4>1. k \in Nat
        BY <2>1
      <4> HIDE DEF Loop
      <4> QED BY <2>1, <2>3, <4>1
    <3>2. PICK g : Loop(k - 1, g)
      BY <3>1
    <3> DEFINE f == [n \in 0..k |-> IF n = 0 THEN Start ELSE After(g[n - 1], s[n])]
    <3>3. \A n \in 0..(k - 1) : g[n] = IF n = 0 THEN Start ELSE After(g[n - 1], s[n])
      BY <3>2
    <3>4. \A n \in 0..k : n # 0 => n - 1 \in 0..(k - 1) /\ n - 1 \in 0..k
      BY <3>1
    <3>5. \A n \in 0..k : n # 0 => f[n - 1] = g[n - 1]
      BY <3>3, <3>4
    <3>6. f = [n \in 0..k |-> IF n = 0 THEN Start ELSE After(f[n - 1], s[n])]
      BY <3>5
    <3> HIDE DEF f
    <3>7. Loop(k, f)
      BY <3>6
    <3> QED BY <3>7
  <2> QED BY <2>2, <2>3
<1>2. Len(s) \in Nat
  OBVIOUS
<1>3. \E f : Loop(Len(s), f)
  <2> HIDE DEF Loop
  <2> QED BY <1>1, <1>2
<1>4. Scan(s) = CHOOSE f : Loop(Len(s), f)
  BY DEF Scan
<1>5. Loop(Len(s), Scan(s))
  <2> HIDE DEF Loop
  <2> QED BY <1>3, <1>4
<1>6. Scan(s) = [n \in 0..Len(s) |-> IF n = 0 THEN Start ELSE After(Scan(s)[n - 1], s[n])]
  BY <1>5
<1>7. \A n \in 0..Len(s) : Scan(s)[n] = IF n = 0 THEN Start ELSE After(Scan(s)[n - 1], s[n])
  BY <1>6
<1> QED BY <1>2, <1>7

LEMMA ScanStates ==
  ASSUME NEW T, NEW s \in Seq(T)
  PROVE  \A n \in 0..Len(s) : IsState(Scan(s)[n]) /\ (n # 0 => ~ AtValue(Scan(s)[n]))
<1> DEFINE Bad == {n \in 0..Len(s) : ~ IsState(Scan(s)[n])}
<1>1. Len(s) \in Nat
  OBVIOUS
<1>2. IsState(Start)
  <2>1. << >> \in Seq(OpenTokens) /\ Len(<< >>) = 0
    OBVIOUS
  <2> QED BY <2>1, Limit DEF IsState, Start
<1>3. Bad = {}
  <2> SUFFICES ASSUME Bad # {} PROVE FALSE
    OBVIOUS
  <2>1. Bad \subseteq Nat
    BY <1>1
  <2>2. PICK n \in Bad : \A m \in Bad : n <= m
    <3> HIDE DEF Bad
    <3> QED BY <2>1, LeastNat
  <2>3. n \in 0..Len(s) /\ n # 0
    BY <1>2, <2>2, ScanIs
  <2>4. n - 1 \in 0..Len(s) /\ n \in 1..Len(s) /\ ~ n <= n - 1
    BY <1>1, <2>3
  <2>5. n - 1 \notin Bad
    <3> HIDE DEF Bad
    <3> QED BY <2>2, <2>4
  <2>6. IsState(Scan(s)[n - 1]) /\ Scan(s)[n] = After(Scan(s)[n - 1], s[n])
    BY <2>4, <2>5, ScanIs
  <2>7. IsState(Scan(s)[n])
    BY <2>6, AfterIs
  <2> QED BY <2>2, <2>7
<1>4. ASSUME NEW n \in 0..Len(s), n # 0 PROVE ~ AtValue(Scan(s)[n])
  <2>1. n - 1 \in 0..Len(s) /\ n \in 1..Len(s)
    BY <1>1, <1>4
  <2>2. IsState(Scan(s)[n - 1]) /\ Scan(s)[n] = After(Scan(s)[n - 1], s[n])
    BY <1>3, <2>1, ScanIs
  <2> QED BY <2>2, AfterIs
<1> QED BY <1>3, <1>4

\* Behind the end of a value there are only failures.
LEMMA EndsOnce ==
  ASSUME NEW T, NEW s \in Seq(T), NEW m \in 0..Len(s), Ended(Scan(s)[m]),
         NEW n \in (m + 1)..Len(s)
  PROVE  Scan(s)[n] = Failed
<1> DEFINE Bad == {k \in (m + 1)..Len(s) : Scan(s)[k] # Failed}
<1>1. Len(s) \in Nat
  OBVIOUS
<1>2. Bad = {}
  <2> SUFFICES ASSUME Bad # {} PROVE FALSE
    OBVIOUS
  <2>1. Bad \subseteq Nat
    BY <1>1
  <2>2. PICK k \in Bad : \A j \in Bad : k <= j
    <3> HIDE DEF Bad
    <3> QED BY <2>1, LeastNat
  <2>3. k \in (m + 1)..Len(s) /\ Scan(s)[k] # Failed
    BY <2>2
  <2>4. k - 1 \in 0..Len(s) /\ k \in 1..Len(s) /\ (k - 1 = m \/ k - 1 \in (m + 1)..Len(s)) /\ ~ k <= k - 1
    BY <1>1, <2>3
  <2>5. k - 1 \notin Bad
    <3> HIDE DEF Bad
    <3> QED BY <2>2, <2>4
  <2>6. Ended(Scan(s)[k - 1])
    <3>1. CASE k - 1 = m
      BY <3>1
    <3>2. CASE k - 1 \in (m + 1)..Len(s)
      <4>1. Scan(s)[k - 1] = Failed
        BY <2>5, <3>2
      <4> QED BY <4>1 DEF Failed, Ended
    <3> QED BY <2>4, <3>1, <3>2
  <2>7. IsState(Scan(s)[k - 1]) /\ Scan(s)[k] = After(Scan(s)[k - 1], s[k])
    BY <2>4, ScanIs, ScanStates
  <2> QED BY <2>3, <2>6, <2>7, AfterIs
<1> QED BY <1>2

\* What the tokenizer answers.
LEMMA ReachIs ==
  ASSUME NEW T, NEW s \in Seq(T), NEW r \in 1..Len(s)
  PROVE  /\ Scan(s)[r].expecting = "done" => Reach(s) = r
         /\ Reach(s) = r => /\ Scan(s)[r].expecting = "done"
                            /\ \A j \in 0..(r - 1) : ~ Ended(Scan(s)[j])
<1> DEFINE ends == {n \in 1..Len(s) : Scan(s)[n].expecting = "done"}
           end == CHOOSE n \in ends : TRUE
<1>1. Len(s) \in Nat
  OBVIOUS
<1>2. Reach(s) = IF ends = {} THEN 0 ELSE end
  BY Zenon DEF Reach
<1>3. ends # {} => end \in ends
  BY Zenon
<1>4. ASSUME NEW m \in 0..Len(s), Ended(Scan(s)[m]), NEW n \in ends PROVE n <= m
  <2>1. ~ n \in (m + 1)..Len(s)
    <3>1. Failed.expecting # "done"
      BY DEF Failed
    <3> QED BY <1>4, <3>1, EndsOnce
  <2> QED BY <1>1, <2>1
<1>5. ASSUME r \in ends PROVE Reach(s) = r
  <2>1. end \in ends /\ Reach(s) = end
    BY <1>2, <1>3, <1>5
  <2>2. end \in 0..Len(s) /\ r \in 0..Len(s) /\ Ended(Scan(s)[end]) /\ Ended(Scan(s)[r])
    <3>1. end \in 1..Len(s) /\ r \in 1..Len(s)
      BY <1>5, <2>1
    <3>2. Scan(s)[end].expecting = "done" /\ Scan(s)[r].expecting = "done"
      BY <1>5, <2>1
    <3> HIDE DEF end
    <3> QED BY <1>1, <3>1, <3>2 DEF Ended
  <2> HIDE DEF ends, end
  <2>3. end <= r /\ r <= end
    BY <1>4, <1>5, <2>1, <2>2
  <2> QED BY <1>1, <2>1, <2>2, <2>3
<1>6. ASSUME Reach(s) = r PROVE r \in ends
  <2>1. r # 0
    OBVIOUS
  <2> HIDE DEF ends, end
  <2> QED BY <1>2, <1>3, <1>6, <2>1
<1>7. ASSUME Reach(s) = r, NEW j \in 0..(r - 1) PROVE ~ Ended(Scan(s)[j])
  <2>1. r \in ends
    BY <1>6, <1>7
  <2>2. j \in 0..Len(s) /\ ~ r <= j
    BY <1>1, <1>7
  <2> HIDE DEF ends
  <2> QED BY <1>4, <2>1, <2>2
<1> QED BY <1>5, <1>6, <1>7

\* The loop sees no further than it has come.
LEMMA SameTokens ==
  ASSUME NEW T, NEW s \in Seq(T), NEW U, NEW t \in Seq(U), NEW k \in Nat,
         k <= Len(s), k <= Len(t), \A i \in 1..k : s[i] = t[i]
  PROVE  \A n \in 0..k : Scan(s)[n] = Scan(t)[n]
<1> DEFINE Bad == {n \in 0..k : Scan(s)[n] # Scan(t)[n]}
<1>1. Len(s) \in Nat /\ Len(t) \in Nat
  OBVIOUS
<1> SUFFICES ASSUME Bad # {} PROVE FALSE
  OBVIOUS
<1>2. Bad \subseteq Nat
  BY <1>1
<1>3. PICK n \in Bad : \A m \in Bad : n <= m
  <2> HIDE DEF Bad
  <2> QED BY <1>2, LeastNat
<1>4. n \in 0..k /\ Scan(s)[n] # Scan(t)[n]
  BY <1>3
<1>5. n # 0
  BY <1>4, ScanIs
<1>6. n - 1 \in 0..k /\ n \in 1..k /\ n \in 1..Len(s) /\ n \in 1..Len(t) /\ ~ n <= n - 1
  BY <1>1, <1>4, <1>5
<1>7. n - 1 \notin Bad
  <2> HIDE DEF Bad
  <2> QED BY <1>3, <1>6
<1>8. Scan(s)[n - 1] = Scan(t)[n - 1]
  BY <1>6, <1>7
<1>9. /\ Scan(s)[n] = After(Scan(s)[n - 1], s[n])
      /\ Scan(t)[n] = After(Scan(t)[n - 1], t[n])
  BY <1>6, ScanIs
<1>10. s[n] = t[n]
  BY <1>6
<1> QED BY <1>4, <1>8, <1>9, <1>10

\* What is open around and what is open within.
LEMMA Around ==
  ASSUME NEW N \in Seq(OpenTokens), N # << >>, NEW M \in Seq(OpenTokens)
  PROVE  /\ N \o M \in Seq(OpenTokens) /\ Len(N \o M) = Len(N) + Len(M) /\ N \o M # << >>
         /\ N \o << >> = N
         /\ \A c \in OpenTokens : Append(N \o M, c) = N \o Append(M, c)
         /\ M # << >> => /\ Last(N \o M) = Last(M) /\ Front(N \o M) = N \o Front(M)
                         /\ Len(N \o M) # 1
<1>1. Len(N) \in Nat \ {0} /\ Len(M) \in Nat
  OBVIOUS
<1>2. N \o M \in Seq(OpenTokens) /\ Len(N \o M) = Len(N) + Len(M)
  OBVIOUS
<1>3. N \o M # << >>
  <2>1. Len(N \o M) # 0
    BY <1>1, <1>2
  <2> QED BY <2>1
<1>4. N \o << >> = N
  OBVIOUS
<1>5. \A c \in OpenTokens : Append(N \o M, c) = N \o Append(M, c)
  OBVIOUS
<1>6. ASSUME M # << >>
      PROVE  /\ Last(N \o M) = Last(M) /\ Front(N \o M) = N \o Front(M) /\ Len(N \o M) # 1
  <2>1. Len(M) \in Nat \ {0}
    BY <1>6
  <2>2. PICK n \in Nat, m \in Nat : n = Len(N) /\ m = Len(M) - 1
    BY <1>1, <2>1
  <2>3. Last(N \o M) = Last(M)
    BY <1>1, <1>2, <2>1 DEF Last
  <2>4. Front(N \o M) = SubSeq(N \o M, 1, n + m) /\ Front(M) = SubSeq(M, 1, m)
    BY <1>1, <1>2, <2>2 DEF Front
  <2>5. SubSeq(N \o M, 1, n + m) = N \o SubSeq(M, 1, m)
    <3> DEFINE a == SubSeq(N \o M, 1, n + m)
               F == SubSeq(M, 1, m)
               b == N \o F
    <3>1. a \in Seq(OpenTokens) /\ Len(a) = n + m /\ \A i \in 1..(n + m) : a[i] = (N \o M)[i]
      BY <1>1, <1>2, <2>1, <2>2
    <3>2. F \in Seq(OpenTokens) /\ Len(F) = m /\ \A i \in 1..m : F[i] = M[i]
      BY <2>1, <2>2
    <3> HIDE DEF F
    <3>3. b \in Seq(OpenTokens) /\ Len(b) = n + m
          /\ \A i \in 1..(n + m) : b[i] = IF i <= n THEN N[i] ELSE F[i - n]
      <4>1. b \in Seq(OpenTokens)
        BY <3>2
      <4>2. Len(b) = Len(N) + Len(F)
        <5>1. F \in Seq(OpenTokens)
          BY <3>2
        <5> QED BY <5>1
      <4>3. ASSUME NEW i \in 1..(n + m) PROVE b[i] = IF i <= n THEN N[i] ELSE F[i - n]
        BY <1>1, <2>2, <3>2
      <4> QED BY <2>2, <3>2, <4>1, <4>2, <4>3
    <3>4. \A i \in 1..(n + m) : (N \o M)[i] = IF i <= n THEN N[i] ELSE M[i - n]
      BY <1>1, <2>1, <2>2
    <3> HIDE DEF a, b
    <3>5. ASSUME NEW i \in 1..(n + m) PROVE a[i] = b[i]
      <4>1. CASE i <= n
        BY <3>1, <3>3, <3>4, <4>1
      <4>2. CASE ~ i <= n
        <5>1. i - n \in 1..m
          BY <4>2
        <5> QED BY <3>1, <3>2, <3>3, <3>4, <4>2, <5>1
      <4> QED BY <4>1, <4>2
    <3>6. a = b
      BY <3>1, <3>3, <3>5
    <3> QED BY <3>6 DEF a, b, F
  <2>6. Len(N \o M) # 1
    BY <1>1, <1>2, <2>1
  <2> QED BY <2>3, <2>4, <2>5, <2>6
<1> QED BY <1>2, <1>3, <1>4, <1>5, <1>6

\* The state of a nested value, as it is within what is open around it.
Lift(N, st) ==
  IF st.expecting = "done" THEN [expecting |-> "comma", nesting |-> N]
  ELSE [expecting |-> st.expecting, nesting |-> N \o st.nesting]

LEMMA LiftOpen ==
  ASSUME NEW N, NEW M, NEW x, x # "done"
  PROVE  Lift(N, [expecting |-> x, nesting |-> M]) = [expecting |-> x, nesting |-> N \o M]
  BY DEF Lift

LEMMA LiftAfter ==
  ASSUME NEW N \in Seq(OpenTokens), N # << >>, NEW st, IsState(st), ~ Ended(st), NEW c,
         AtValue(st) => c # "]", After(Lift(N, st), c).expecting # "error"
  PROVE  After(Lift(N, st), c) = Lift(N, After(st, c))
<1>1. PICK M \in Seq(OpenTokens) : M = st.nesting
  BY DEF IsState
<1>2. PICK K : K = N \o M
  OBVIOUS
<1>3. PICK e \in {"value", "key", "colon", "comma"} : e = st.expecting
  BY DEF IsState, Ended
<1>4. PICK up : up = Lift(N, st)
  OBVIOUS
<1>5. /\ K \in Seq(OpenTokens) /\ Len(K) = Len(N) + Len(M) /\ K # << >>
      /\ N \o << >> = N
      /\ \A x \in OpenTokens : Append(K, x) = N \o Append(M, x)
      /\ M # << >> => Last(K) = Last(M) /\ Front(K) = N \o Front(M) /\ Len(K) # 1
  BY <1>2, Around, ZenonT(60)
<1>6. up = [expecting |-> e, nesting |-> K] /\ up.expecting = e /\ up.nesting = K
  BY <1>1, <1>2, <1>3, <1>4 DEF Lift
<1>7. e \in {"key", "colon", "comma"} => M # << >>
  BY <1>1, <1>3 DEF IsState
<1>8. c \in {"{", "}", "[", "]", ":", ","} => c \notin Scalars /\ c \notin Strings
  BY Zenon, ParserAssumption DEF Scalars
<1>9. After(up, c).expecting # "error"
  BY <1>4
<1>10. Failed.expecting = "error"
  BY DEF Failed
<1>11. Len(N) \in Nat \ {0} /\ Len(M) \in Nat
  OBVIOUS
\* A closing bracket.
<1>12. ASSUME M # << >>, After(up, c) = Close(up, c), After(st, c) = Close(st, c)
       PROVE  After(up, c) = Lift(N, After(st, c))
  <2>1. <<Last(M), c>> \in Fits
    <3>1. Close(up, c) # Failed
      BY <1>9, <1>10, <1>12
    <3> QED BY <1>5, <1>6, <1>12, <3>1 DEF Close
  <2>2. Close(up, c) = [expecting |-> "comma", nesting |-> N \o Front(M)]
    BY <1>5, <1>6, <1>12, <2>1 DEF Close
  <2>3. Close(st, c) = [expecting |-> IF Len(M) = 1 THEN "done" ELSE "comma", nesting |-> Front(M)]
    BY <1>1, <1>12, <2>1 DEF Close
  <2>4. CASE Len(M) = 1
    <3>1. Front(M) = << >>
      BY <1>12, <2>4, Popped
    <3> QED BY <1>5, <1>12, <2>2, <2>3, <2>4, <3>1 DEF Lift
  <2>5. CASE Len(M) # 1
    BY <1>12, <2>2, <2>3, <2>5 DEF Lift
  <2> QED BY <2>4, <2>5
<1>13. CASE e = "value"
  <2>1. CASE c \in OpenTokens
    <3>1. c \in {"{", "["} /\ c # "]" /\ c \notin Scalars
      BY <1>8, <2>1 DEF OpenTokens
    <3>2. After(up, c) = Open(up, c) /\ After(st, c) = Open(st, c)
      BY <1>3, <1>6, <1>13, <3>1 DEF After
    <3>3. ~ Len(K) >= MaxNesting
      <4>1. Open(up, c) # Failed
        BY <1>9, <1>10, <3>2
      <4> QED BY <1>6, <4>1 DEF Open
    <3>4. ~ Len(M) >= MaxNesting
      BY <1>5, <1>11, <3>3, Limit
    <3>5. PICK x \in {"key", "value"} : x = IF c = "{" THEN "key" ELSE "value"
      OBVIOUS
    <3>6. Open(up, c) = [expecting |-> x, nesting |-> N \o Append(M, c)]
      BY <1>5, <1>6, <2>1, <3>3, <3>5 DEF Open
    <3>7. Open(st, c) = [expecting |-> x, nesting |-> Append(M, c)]
      BY <1>1, <3>4, <3>5 DEF Open
    <3>8. Lift(N, Open(st, c)) = [expecting |-> x, nesting |-> N \o Append(M, c)]
      BY <3>5, <3>7, LiftOpen
    <3> QED BY <1>4, <3>2, <3>6, <3>8
  <2>2. CASE c = "]"
    <3>1. After(up, c) = Close(up, c) /\ After(st, c) = Close(st, c)
      BY <1>3, <1>6, <1>8, <1>13, <2>2 DEF After
    <3>2. M # << >>
      BY <1>1, <1>3, <1>13, <2>2 DEF AtValue
    <3> QED BY <1>4, <1>12, <3>1, <3>2
  <2>3. CASE c \notin OpenTokens /\ c # "]" /\ c \in Scalars \ {Broken}
    <3>1. After(up, c) = [expecting |-> "comma", nesting |-> K]
      BY <1>5, <1>6, <1>13, <2>3 DEF After, OpenTokens
    <3>2. After(st, c) = [expecting |-> IF M = << >> THEN "done" ELSE "comma", nesting |-> M]
      BY <1>1, <1>3, <1>13, <2>3 DEF After, OpenTokens
    <3>3. CASE M = << >>
      <4>1. Lift(N, After(st, c)) = [expecting |-> "comma", nesting |-> N]
        BY <3>2, <3>3 DEF Lift
      <4> QED BY <1>2, <1>4, <1>5, <3>1, <3>3, <4>1
    <3>4. CASE M # << >>
      <4>1. Lift(N, After(st, c)) = [expecting |-> "comma", nesting |-> N \o M]
        BY <3>2, <3>4 DEF Lift
      <4> QED BY <1>2, <1>4, <3>1, <4>1
    <3> QED BY <3>3, <3>4
  <2>4. CASE c \notin OpenTokens /\ c # "]" /\ c \notin Scalars \ {Broken}
    <3>1. After(up, c) = Failed
      BY <1>6, <1>13, <2>4 DEF After, OpenTokens
    <3> QED BY <1>9, <1>10, <3>1
  <2> QED BY <2>1, <2>2, <2>3, <2>4
<1>14. CASE e = "key"
  <2>1. CASE c \in Strings
    <3>1. After(up, c) = [expecting |-> "colon", nesting |-> N \o M]
      BY <1>2, <1>6, <1>8, <1>14, <2>1 DEF After
    <3>2. After(st, c) = [expecting |-> "colon", nesting |-> M]
      BY <1>1, <1>3, <1>8, <1>14, <2>1 DEF After
    <3> QED BY <1>4, <3>1, <3>2 DEF Lift
  <2>2. CASE c = "}"
    <3>1. After(up, c) = Close(up, c) /\ After(st, c) = Close(st, c)
      BY <1>3, <1>6, <1>8, <1>14, <2>2 DEF After
    <3> QED BY <1>4, <1>7, <1>12, <1>14, <3>1
  <2>3. CASE c \notin Strings /\ c # "}"
    <3>1. After(up, c) = Failed
      BY <1>6, <1>14, <2>3 DEF After
    <3> QED BY <1>9, <1>10, <3>1
  <2> QED BY <2>1, <2>2, <2>3
<1>15. CASE e = "colon"
  <2>1. c = ":"
    <3>1. c # ":" => After(up, c) = Failed
      BY <1>6, <1>15 DEF After
    <3> QED BY <1>9, <1>10, <3>1
  <2>2. After(up, c) = [expecting |-> "value", nesting |-> N \o M]
    BY <1>2, <1>6, <1>15, <2>1 DEF After
  <2>3. After(st, c) = [expecting |-> "value", nesting |-> M]
    BY <1>1, <1>3, <1>15, <2>1 DEF After
  <2> QED BY <1>4, <2>2, <2>3 DEF Lift
<1>16. CASE e = "comma"
  <2>1. CASE c = ","
    <3>1. PICK x \in {"key", "value"} : x = IF Last(M) = "{" THEN "key" ELSE "value"
      OBVIOUS
    <3>2. Last(K) = Last(M)
      BY <1>5, <1>7, <1>16
    <3>3. After(up, c) = [expecting |-> x, nesting |-> N \o M]
      BY <1>2, <1>6, <1>16, <2>1, <3>1, <3>2 DEF After
    <3>4. After(st, c) = [expecting |-> x, nesting |-> M]
      BY <1>1, <1>3, <1>16, <2>1, <3>1 DEF After
    <3>5. Lift(N, After(st, c)) = [expecting |-> x, nesting |-> N \o M]
      BY <3>1, <3>4, LiftOpen
    <3> QED BY <1>4, <3>3, <3>5
  <2>2. CASE c \in {"]", "}"}
    <3>1. After(up, c) = Close(up, c) /\ After(st, c) = Close(st, c)
      BY <1>3, <1>6, <1>16, <2>2 DEF After
    <3> QED BY <1>4, <1>7, <1>12, <1>16, <3>1
  <2>3. CASE c \notin {",", "]", "}"}
    <3>1. After(up, c) = Failed
      BY <1>6, <1>16, <2>3 DEF After
    <3> QED BY <1>9, <1>10, <3>1
  <2> QED BY <2>1, <2>2, <2>3
<1> QED BY <1>13, <1>14, <1>15, <1>16

\* A value within a text that is accepted is accepted by itself, and the loop
\* over the whole text goes through the same states.
LEMMA Within ==
  ASSUME NEW acc \in Seq(Tokens), Reach(acc) = Len(acc), NEW p \in 1..(Len(acc) - 1),
         NEW N \in Seq(OpenTokens), N # << >>, acc[p + 1] # "]",
         Scan(acc)[p] = [expecting |-> "value", nesting |-> N]
  PROVE  LET t == From(acc, p + 1)
             m == Reach(t)
         IN  /\ m \in 1..(Len(acc) - p - 1)
             /\ Scan(acc)[p + m] = [expecting |-> "comma", nesting |-> N]
             /\ \A j \in 0..m : Scan(acc)[p + j] = Lift(N, Scan(t)[j])
             /\ \A j \in 0..(m - 1) : ~ Ended(Scan(t)[j])
<1> DEFINE L == Len(acc)
           t == From(acc, p + 1)
           Same(k) == Scan(acc)[p + k] = Lift(N, Scan(t)[k])
           Dead == {j \in 0..Len(t) : Ended(Scan(t)[j])}
           Bad == {k \in 0..Len(t) : (\A j \in 0..(k - 1) : j \notin Dead) /\ ~ Same(k)}
<1>1. L \in Nat /\ L \in 1..L /\ p \in Nat /\ p + 1 \in Nat \ {0} /\ p + 1 <= L
  OBVIOUS
<1>2. t \in Seq(Tokens) /\ Len(t) = L - p /\ \A j \in 1..(L - p) : t[j] = acc[p + j]
  <2>1. /\ t \in Seq(Tokens) /\ Len(t) = L - (p + 1) + 1
        /\ \A j \in 1..(L - (p + 1) + 1) : t[j] = acc[p + 1 + j - 1]
    BY <1>1, FromIs
  <2>2. L - (p + 1) + 1 = L - p /\ \A j \in 1..(L - p) : p + 1 + j - 1 = p + j
    BY <1>1
  <2> QED BY <2>1, <2>2
<1> HIDE DEF t
<1>3. Scan(acc)[L].expecting = "done" /\ \A j \in 0..(L - 1) : ~ Ended(Scan(acc)[j])
  BY <1>1, ReachIs
<1>4. \A k \in 0..Len(t) : Scan(acc)[p + k].expecting # "error"
  <2> SUFFICES ASSUME NEW k \in 0..Len(t) PROVE Scan(acc)[p + k].expecting # "error"
    OBVIOUS
  <2>1. p + k = L \/ p + k \in 0..(L - 1)
    BY <1>1, <1>2
  <2> QED BY <1>3, <2>1 DEF Ended
<1>5. Bad = {}
  <2> SUFFICES ASSUME Bad # {} PROVE FALSE
    OBVIOUS
  <2>1. Bad \subseteq Nat
    BY <1>1, <1>2
  <2>2. PICK k \in Bad : \A m \in Bad : k <= m
    <3> HIDE DEF Bad
    <3> QED BY <2>1, LeastNat
  <2>3. k \in 0..Len(t) /\ (\A j \in 0..(k - 1) : j \notin Dead) /\ ~ Same(k)
    BY <2>2
  <2>4. CASE k = 0
    <3>1. Lift(N, Start) = [expecting |-> "value", nesting |-> N \o << >>]
      BY LiftOpen DEF Start
    <3>2. N \o << >> = N
      OBVIOUS
    <3>3. Scan(t)[0] = Start /\ p + 0 = p
      BY <1>1, <1>2, ScanIs
    <3> QED BY <2>3, <2>4, <3>1, <3>2, <3>3
  <2>5. CASE k # 0
    <3>1. /\ k - 1 \in 0..Len(t) /\ k \in 1..Len(t) /\ k - 1 \in 0..(k - 1) /\ ~ k <= k - 1
          /\ \A j \in 0..(k - 1 - 1) : j \in 0..(k - 1)
          /\ p + k \in 1..L /\ p + k - 1 = p + (k - 1) /\ k \in 1..(L - p)
      BY <1>1, <1>2, <2>3, <2>5
    <3>2. Same(k - 1)
      <4>1. k - 1 \notin Bad
        <5> HIDE DEF Bad
        <5> QED BY <2>2, <3>1
      <4>2. \A j \in 0..(k - 1 - 1) : j \notin Dead
        <5> HIDE DEF Dead
        <5> QED BY <2>3, <3>1
      <4> HIDE DEF Dead, Same
      <4> QED BY <3>1, <4>1, <4>2
    <3>3. /\ Scan(t)[k] = After(Scan(t)[k - 1], t[k])
          /\ Scan(acc)[p + k] = After(Scan(acc)[p + (k - 1)], acc[p + k])
      <4>1. Scan(t)[k] = After(Scan(t)[k - 1], t[k])
        BY <1>2, <3>1, ScanIs
      <4>2. \A n \in 1..L : Scan(acc)[n] = After(Scan(acc)[n - 1], acc[n])
        BY ScanIs
      <4>3. PICK n \in 1..L : n = p + k /\ n - 1 = p + (k - 1)
        BY <3>1
      <4> QED BY <4>1, <4>2, <4>3
    <3>4. t[k] = acc[p + k]
      BY <1>2, <3>1
    <3>5. IsState(Scan(t)[k - 1]) /\ (k - 1 # 0 => ~ AtValue(Scan(t)[k - 1]))
      BY <1>2, <3>1, ScanStates
    <3>6. ~ Ended(Scan(t)[k - 1])
      <4>1. k - 1 \notin Dead
        <5> HIDE DEF Dead
        <5> QED BY <2>3, <3>1
      <4> QED BY <3>1, <4>1
    <3>7. AtValue(Scan(t)[k - 1]) => t[k] # "]"
      <4>1. k - 1 = 0 => p + k = p + 1
        BY <3>1
      <4> QED BY <3>4, <3>5, <4>1
    <3>8. After(Lift(N, Scan(t)[k - 1]), t[k]).expecting # "error"
      <4>1. k \in 0..Len(t)
        BY <2>3
      <4>2. Scan(acc)[p + k].expecting # "error"
        BY <1>4, <4>1
      <4> QED BY <3>2, <3>3, <3>4, <4>2
    <3>9. After(Lift(N, Scan(t)[k - 1]), t[k]) = Lift(N, After(Scan(t)[k - 1], t[k]))
      BY <3>5, <3>6, <3>7, <3>8, LiftAfter
    <3>10. Same(k)
      BY <3>2, <3>3, <3>4, <3>9
    <3> QED BY <2>3, <3>10
  <2> QED BY <2>4, <2>5
<1>6. \A st : Lift(N, st).expecting # "done"
  BY DEF Lift
<1>7. Dead # {}
  <2> SUFFICES ASSUME Dead = {} PROVE FALSE
    OBVIOUS
  <2>1. Len(t) \in 0..Len(t) /\ p + Len(t) = L
    BY <1>1, <1>2
  <2>2. Same(Len(t))
    <3> HIDE DEF Dead, Same
    <3> QED BY <1>5, <2>1
  <2> QED BY <1>3, <1>6, <2>1, <2>2
<1>8. Dead \subseteq Nat
  BY <1>1, <1>2
<1>9. PICK m \in Dead : \A j \in Dead : m <= j
  <2> HIDE DEF Dead
  <2> QED BY <1>7, <1>8, LeastNat
<1>10. m \in 0..Len(t) /\ Ended(Scan(t)[m])
  BY <1>9
<1>11. \A j \in 0..(m - 1) : j \notin Dead
  <2>1. \A j \in 0..(m - 1) : ~ m <= j
    BY <1>1, <1>2, <1>10
  <2> HIDE DEF Dead
  <2> QED BY <1>9, <2>1
<1>12. \A j \in 0..m : Same(j)
  <2> SUFFICES ASSUME NEW j \in 0..m PROVE Same(j)
    OBVIOUS
  <2>1. j \in 0..Len(t) /\ \A i \in 0..(j - 1) : i \in 0..(m - 1)
    BY <1>1, <1>2, <1>10
  <2>2. \A i \in 0..(j - 1) : i \notin Dead
    <3> HIDE DEF Dead
    <3> QED BY <1>11, <2>1
  <2> HIDE DEF Dead, Same
  <2> QED BY <1>5, <2>1, <2>2
<1>13. m # 0
  <2>1. Scan(t)[0] = Start /\ ~ Ended(Start)
    BY <1>2, ScanIs DEF Start, Ended
  <2> QED BY <1>10, <2>1
<1>14. m \in 0..m /\ m \in 1..Len(t)
  BY <1>1, <1>2, <1>10, <1>13
<1>15. Scan(acc)[p + m] = Lift(N, Scan(t)[m]) /\ Scan(acc)[p + m].expecting # "error"
  BY <1>4, <1>10, <1>12, <1>14
<1>16. Scan(t)[m].expecting = "done"
  <2>1. Scan(t)[m].expecting = "error" => Lift(N, Scan(t)[m]).expecting = "error"
    BY DEF Lift
  <2> QED BY <1>10, <1>15, <2>1 DEF Ended
<1>17. Reach(t) = m
  BY <1>2, <1>14, <1>16, ReachIs
<1>18. Scan(acc)[p + m] = [expecting |-> "comma", nesting |-> N]
  BY <1>15, <1>16 DEF Lift
<1>19. p + m # L
  BY <1>3, <1>18
<1>20. m \in 1..(L - p - 1)
  BY <1>1, <1>2, <1>14, <1>19
<1>21. \A j \in 0..(m - 1) : ~ Ended(Scan(t)[j])
  <2>1. \A j \in 0..(m - 1) : j \in 0..Len(t)
    BY <1>1, <1>2, <1>10
  <2> QED BY <1>11, <2>1
<1> HIDE DEF Dead, Bad
<1> QED BY <1>12, <1>17, <1>18, <1>20, <1>21 DEF t

LEMMA PrefixIs ==
  ASSUME NEW s \in Seq(Tokens), NEW r \in 1..Len(s), Reach(s) = r
  PROVE  LET v == SubSeq(s, 1, r)
         IN  /\ v \in Seq(Tokens) /\ Len(v) = r /\ Reach(v) = r
             /\ \A j \in 0..r : Scan(v)[j] = Scan(s)[j]
             /\ \A j \in 1..r : v[j] = s[j]
<1> DEFINE v == SubSeq(s, 1, r)
<1>1. Len(s) \in Nat /\ r \in Nat /\ r <= Len(s)
  OBVIOUS
<1>2. v \in Seq(Tokens) /\ Len(v) = r /\ \A j \in 1..r : v[j] = s[j]
  BY <1>1
<1> HIDE DEF v
<1>3. \A j \in 0..r : Scan(v)[j] = Scan(s)[j]
  <2>1. \A i \in 1..r : v[i] = s[i]
    BY <1>2
  <2>2. r <= Len(v)
    BY <1>1, <1>2
  <2> QED BY <1>1, <1>2, <2>1, <2>2, SameTokens
<1>4. Scan(v)[r].expecting = "done"
  <2>1. r \in 0..r
    BY <1>1
  <2> QED BY <1>3, <2>1, ReachIs
<1>5. Reach(v) = r
  <2>1. r \in 1..Len(v)
    BY <1>2
  <2> QED BY <1>2, <1>4, <2>1, ReachIs
<1> QED BY <1>2, <1>3, <1>5 DEF v

LEMMA FromFrom ==
  ASSUME NEW s \in Seq(Tokens), NEW i \in Nat \ {0}, NEW j \in Nat \ {0}, i <= Len(s) + 1
  PROVE  From(From(s, i), j) = From(s, i + j - 1)
<1>1. Len(s) \in Nat /\ i + j - 1 \in Nat \ {0}
  OBVIOUS
<1>2. PICK t : t = From(s, i)
  OBVIOUS
<1>3. t \in Seq(Tokens) /\ Len(t) = Len(s) - i + 1 /\ \A k \in 1..(Len(s) - i + 1) : t[k] = s[i + k - 1]
  <2>1. /\ t \in Seq(Tokens) /\ Len(t) = IF i <= Len(s) THEN Len(s) - i + 1 ELSE 0
        /\ \A k \in 1..(Len(s) - i + 1) : t[k] = s[i + k - 1]
    BY <1>2, FromIs
  <2>2. Len(t) = Len(s) - i + 1
    BY <1>1, <2>1
  <2> QED BY <2>1, <2>2
<1>4. PICK a, b : a = From(t, j) /\ b = From(s, i + j - 1)
  OBVIOUS
<1>5. /\ a \in Seq(Tokens) /\ Len(a) = IF j <= Len(t) THEN Len(t) - j + 1 ELSE 0
      /\ \A k \in 1..(Len(t) - j + 1) : a[k] = t[j + k - 1]
  BY <1>3, <1>4, FromIs
<1>6. /\ b \in Seq(Tokens) /\ Len(b) = IF i + j - 1 <= Len(s) THEN Len(s) - (i + j - 1) + 1 ELSE 0
      /\ \A k \in 1..(Len(s) - (i + j - 1) + 1) : b[k] = s[i + j - 1 + k - 1]
  BY <1>1, <1>4, FromIs
<1>7. Len(a) = Len(b) /\ Len(a) \in Nat
  BY <1>1, <1>3, <1>5, <1>6
<1>8. ASSUME NEW k \in 1..Len(a) PROVE a[k] = b[k]
  <2>1. /\ k \in 1..(Len(t) - j + 1) /\ k \in 1..(Len(s) - (i + j - 1) + 1)
        /\ j + k - 1 \in 1..(Len(s) - i + 1)
        /\ i + (j + k - 1) - 1 = i + j - 1 + k - 1
    BY <1>1, <1>3, <1>5, <1>6, <1>7, <1>8
  <2>2. a[k] = t[j + k - 1] /\ b[k] = s[i + j - 1 + k - 1]
    BY <1>5, <1>6, <2>1
  <2>3. t[j + k - 1] = s[i + (j + k - 1) - 1]
    BY <1>3, <2>1
  <2> QED BY <2>1, <2>2, <2>3
<1>9. a = b
  <2>1. a \in Seq(Tokens) /\ b \in Seq(Tokens)
    BY <1>5, <1>6
  <2> QED BY <1>7, <1>8, <2>1, SeqEqual
<1> QED BY <1>2, <1>4, <1>9

-------------------------------------------------------------------------------
(***************************************************************************)
(* The items of a container, in a text that the tokenizer accepts.         *)
(***************************************************************************)
Opens(kind) == IF kind = "array" THEN "[" ELSE "{"
Closes(kind) == IF kind = "array" THEN "]" ELSE "}"
Kinds == {"array", "object"}
CloseTokens == {"]", "}"}

\* acc has been walked up to its token p: an item is next, or the end.
At(acc, p, kind) ==
  /\ acc \in Seq(Tokens) /\ Reach(acc) = Len(acc) /\ p \in 1..(Len(acc) - 1)
  /\ \/ Scan(acc)[p] = [expecting |-> IF kind = "array" THEN "value" ELSE "key",
                        nesting |-> <<Opens(kind)>>]
     \/ Scan(acc)[p] = [expecting |-> "comma", nesting |-> <<Opens(kind)>>] /\ acc[p + 1] # ","

Fitting(acc, b) == \A j \in 0..Len(acc) : Len(Scan(acc)[j].nesting) <= b

LEMMA OneOpen ==
  ASSUME NEW kind \in Kinds
  PROVE  /\ <<Opens(kind)>> \in Seq(OpenTokens) /\ <<Opens(kind)>> # << >>
         /\ Len(<<Opens(kind)>>) = 1 /\ Last(<<Opens(kind)>>) = Opens(kind)
         /\ Front(<<Opens(kind)>>) = << >>
         /\ \A c : <<Opens(kind), c>> \in Fits <=> c = Closes(kind)
<1>1. PICK o \in OpenTokens : o = Opens(kind)
  BY DEF Opens, OpenTokens
<1>2. /\ <<o>> \in Seq(OpenTokens) /\ <<o>> # << >> /\ Len(<<o>>) = 1 /\ Last(<<o>>) = o
  BY DEF Last
<1>3. Front(<<o>>) = << >>
  BY <1>2, Popped
<1>4. \A c : <<Opens(kind), c>> \in Fits <=> c = Closes(kind)
  BY DEF Opens, Closes, Fits, Kinds
<1> QED BY <1>1, <1>2, <1>3, <1>4

\* The token behind p, wherever the loop is.
LEMMA Onward ==
  ASSUME NEW acc \in Seq(Tokens), Reach(acc) = Len(acc), NEW p \in 0..(Len(acc) - 1)
  PROVE  /\ p + 1 \in 1..Len(acc)
         /\ Scan(acc)[p + 1] = After(Scan(acc)[p], acc[p + 1])
         /\ Scan(acc)[p + 1].expecting # "error"
         /\ Scan(acc)[p + 1].expecting = "done" <=> p + 1 = Len(acc)
<1>1. Len(acc) \in Nat /\ p + 1 \in 1..Len(acc) /\ p + 1 - 1 = p /\ Len(acc) \in 1..Len(acc)
  OBVIOUS
<1>2. Scan(acc)[p + 1] = After(Scan(acc)[p], acc[p + 1])
  <2>1. PICK n \in 1..Len(acc) : n = p + 1 /\ n - 1 = p
    BY <1>1
  <2> QED BY <2>1, ScanIs
<1>3. Scan(acc)[Len(acc)].expecting = "done" /\ \A j \in 0..(Len(acc) - 1) : ~ Ended(Scan(acc)[j])
  BY <1>1, ReachIs
<1>4. p + 1 = Len(acc) \/ p + 1 \in 0..(Len(acc) - 1)
  BY <1>1
<1>5. p + 1 \in 0..(Len(acc) - 1) => p + 1 # Len(acc)
  BY <1>1
<1> QED BY <1>1, <1>2, <1>3, <1>4, <1>5 DEF Ended

\* A closing bracket is no value.
LEMMA NoValue ==
  ASSUME NEW c \in CloseTokens, NEW kind
  PROVE  ~ HasNext(kind, <<c>>)
<1>1. PICK s \in Seq(Tokens) : s = <<c>> /\ Len(s) = 1 /\ s[1] = c
  <2>1. c \in Tokens
    BY DEF Tokens, CloseTokens
  <2>2. <<c>> \in Seq(Tokens) /\ Len(<<c>>) = 1 /\ <<c>>[1] = c
    BY <2>1
  <2> QED BY <2>2
<1>2. c \notin Scalars
  BY Zenon, ParserAssumption DEF CloseTokens
<1>3. After(Start, c) = Failed
  <2>1. c = "]" => After(Start, c) = Close(Start, c)
    BY <1>2 DEF After, Start
  <2>2. Close(Start, c) = Failed
    BY DEF Close, Start
  <2>3. c = "}" => After(Start, c) = Failed
    BY <1>2 DEF After, Start
  <2> QED BY <2>1, <2>2, <2>3 DEF CloseTokens
<1>4. Scan(s)[1] = Failed
  <2>1. 1 \in 1..Len(s) /\ 1 - 1 = 0
    BY <1>1
  <2> QED BY <1>1, <1>3, <2>1, ScanIs, SMTT(30)
<1>5. Reach(s) # 1
  <2>1. 1 \in 1..Len(s) /\ Failed.expecting # "done"
    BY <1>1 DEF Failed
  <2> QED BY <1>4, <2>1, ReachIs
<1>6. Reach(s) \in 0..1
  BY <1>1, ReachIn
<1>7. ~ Reach(s) > 0
  BY <1>5, <1>6
<1> QED BY <1>1, <1>7 DEF HasNext

\* The bracket that closes the container ends the text, and the loop.
LEMMA AtTheEnd ==
  ASSUME NEW kind \in Kinds, NEW acc \in Seq(Tokens), Reach(acc) = Len(acc),
         NEW p \in 1..(Len(acc) - 1), NEW e, acc[p + 1] \in CloseTokens,
         Scan(acc)[p] = [expecting |-> e, nesting |-> <<Opens(kind)>>],
         After(Scan(acc)[p], acc[p + 1]) = Close(Scan(acc)[p], acc[p + 1])
  PROVE  From(acc, p + 1) = <<Closes(kind)>> /\ ~ HasNext(kind, From(acc, p + 1))
<1> DEFINE c == acc[p + 1]
           st == Scan(acc)[p]
           n == Len(acc)
<1>1. n \in Nat /\ p \in 0..(n - 1) /\ p \in Nat
  OBVIOUS
<1>2. /\ p + 1 \in 1..n /\ Scan(acc)[p + 1] = Close(st, c) /\ Scan(acc)[p + 1].expecting # "error"
      /\ Scan(acc)[p + 1].expecting = "done" <=> p + 1 = n
  BY <1>1, Onward
<1>3. Close(st, c) # Failed
  BY <1>2 DEF Failed
<1>4. st.nesting = <<Opens(kind)>> /\ Len(st.nesting) = 1 /\ Last(st.nesting) = Opens(kind)
  BY OneOpen
<1>5. c = Closes(kind)
  <2>1. <<Opens(kind), c>> \in Fits
    BY <1>3, <1>4 DEF Close
  <2> HIDE DEF c
  <2> QED BY <2>1, OneOpen
<1>6. Close(st, c).expecting = "done"
  <2> HIDE DEF c, st
  <2> QED BY <1>3, <1>4 DEF Close
<1>7. p + 1 = n
  BY <1>2, <1>6
<1>8. PICK t : t = From(acc, p + 1)
  OBVIOUS
<1>9. t \in Seq(Tokens) /\ Len(t) = 1 /\ t[1] = c
  <2>1. p + 1 \in Nat \ {0} /\ p + 1 <= n /\ n - (p + 1) + 1 = 1 /\ p + 1 + 1 - 1 = p + 1
    BY <1>1, <1>7
  <2>2. /\ t \in Seq(Tokens) /\ Len(t) = n - (p + 1) + 1
        /\ \A j \in 1..(n - (p + 1) + 1) : t[j] = acc[p + 1 + j - 1]
    BY <1>8, <2>1, FromIs
  <2>3. PICK j \in 1..(n - (p + 1) + 1) : j = 1 /\ p + 1 + j - 1 = p + 1
    <3>1. 1 \in 1..(n - (p + 1) + 1) /\ p + 1 + 1 - 1 = p + 1
      BY <1>1, <2>1
    <3> QED BY <3>1
  <2>4. t[j] = acc[p + 1 + j - 1]
    BY <2>2
  <2> QED BY <2>1, <2>2, <2>3, <2>4
<1>10. t = <<c>>
  <2> HIDE DEF c
  <2> QED BY <1>9
<1>11. ~ HasNext(kind, <<c>>)
  BY NoValue
<1> HIDE DEF c
<1> QED BY <1>5, <1>8, <1>10, <1>11

\* The comma behind an item, and what is left of the container.
Past(s) == IF s # << >> /\ s[1] = "," THEN Tail(s) ELSE s

LEMMA PastIs ==
  ASSUME NEW acc \in Seq(Tokens), NEW i \in 1..Len(acc)
  PROVE  /\ acc[i] = "," => Past(From(acc, i)) = From(acc, i + 1)
         /\ acc[i] # "," => Past(From(acc, i)) = From(acc, i)
<1>1. PICK s : s = From(acc, i)
  OBVIOUS
<1>2. Len(acc) \in Nat /\ i \in Nat \ {0} /\ i <= Len(acc) /\ i + 1 \in Nat \ {0} /\ 2 \in Nat \ {0}
      /\ i + 2 - 1 = i + 1 /\ i + 1 - 1 = i /\ 1 \in 1..(Len(acc) - i + 1) /\ i <= Len(acc) + 1
  OBVIOUS
<1>3. s \in Seq(Tokens) /\ Len(s) = Len(acc) - i + 1 /\ s[1] = acc[i]
  <2>1. /\ s \in Seq(Tokens) /\ Len(s) = IF i <= Len(acc) THEN Len(acc) - i + 1 ELSE 0
        /\ \A j \in 1..(Len(acc) - i + 1) : s[j] = acc[i + j - 1]
    BY <1>1, <1>2, FromIs
  <2>2. s[1] = acc[i + 1 - 1]
    BY <1>2, <2>1
  <2> QED BY <1>2, <2>1, <2>2
<1>4. Tail(s) = From(acc, i + 1) /\ s # << >>
  <2>1. Len(s) # 0
    BY <1>2, <1>3
  <2>2. s # << >>
    BY <2>1
  <2>3. Tail(s) = SubSeq(s, 2, Len(s))
    BY <1>3, <2>2, TailIsSubSeq
  <2>4. From(s, 2) = From(acc, i + 2 - 1)
    BY <1>1, <1>2, FromFrom
  <2> QED BY <1>2, <2>2, <2>3, <2>4 DEF From
<1> QED BY <1>1, <1>3, <1>4, Zenon DEF Past

\* A value in a container: by itself it is accepted, it leaves one bracket less
\* to be opened, and behind it the container goes on, or ends.
LEMMA ValueIn ==
  ASSUME NEW kind \in Kinds, NEW acc \in Seq(Tokens), Reach(acc) = Len(acc),
         NEW p \in 1..(Len(acc) - 1), acc[p + 1] # "]",
         Scan(acc)[p] = [expecting |-> "value", nesting |-> <<Opens(kind)>>]
  PROVE  LET t == From(acc, p + 1)
             m == Reach(t)
             v == SubSeq(t, 1, m)
         IN  /\ m > 0 /\ v \in Seq(Tokens) /\ Reach(v) = Len(v) /\ Len(v) = m
             /\ \A b \in Int : Fitting(acc, b) => Fitting(v, b - 1)
             /\ \E q : At(acc, q, kind) /\ Past(From(t, 1 + m)) = From(acc, q + 1)
<1> DEFINE L == Len(acc)
           N == <<Opens(kind)>>
<1>1. PICK t : t = From(acc, p + 1)
  OBVIOUS
<1>2. PICK m : m = Reach(t)
  OBVIOUS
<1>3. N \in Seq(OpenTokens) /\ N # << >> /\ Len(N) = 1
  BY OneOpen
<1> HIDE DEF N
<1>4. /\ m \in 1..(L - p - 1)
      /\ Scan(acc)[p + m] = [expecting |-> "comma", nesting |-> N]
      /\ \A j \in 0..m : Scan(acc)[p + j] = Lift(N, Scan(t)[j])
      /\ \A j \in 0..(m - 1) : ~ Ended(Scan(t)[j])
  <2>1. Scan(acc)[p] = [expecting |-> "value", nesting |-> N]
    BY DEF N
  <2> QED BY <1>1, <1>2, <1>3, <2>1, Within
<1>5. /\ L \in Nat /\ p \in Nat \ {0} /\ p + 1 \in Nat \ {0} /\ p + 1 <= L + 1 /\ p + 1 <= L
      /\ m \in Nat \ {0} /\ p + m < L /\ p + m \in 1..(L - 1) /\ p + m \in 0..(L - 1)
      /\ m \in 1..(L - (p + 1) + 1) /\ 1 + m \in Nat \ {0} /\ p + 1 + (1 + m) - 1 = p + m + 1
  BY <1>4
<1>6. t \in Seq(Tokens) /\ Len(t) = L - (p + 1) + 1
  <2>1. t \in Seq(Tokens) /\ Len(t) = IF p + 1 <= L THEN L - (p + 1) + 1 ELSE 0
    BY <1>1, <1>5, FromIs
  <2> QED BY <1>5, <2>1
<1>7. PICK v : v = SubSeq(t, 1, m)
  OBVIOUS
<1>8. /\ v \in Seq(Tokens) /\ Len(v) = m /\ Reach(v) = m
      /\ \A j \in 0..m : Scan(v)[j] = Scan(t)[j]
  BY <1>2, <1>5, <1>6, <1>7, PrefixIs
<1>9. ASSUME NEW b \in Int, Fitting(acc, b) PROVE Fitting(v, b - 1)
  <2>1. ASSUME NEW j \in 0..m PROVE Len(Scan(v)[j].nesting) <= b - 1
    <3>1. PICK M \in Seq(OpenTokens) : M = Scan(t)[j].nesting
      <4>1. j \in 0..Len(t)
        BY <1>5, <1>6
      <4> QED BY <1>6, <4>1, ScanStates DEF IsState
    <3>2. p + j \in 0..L /\ Len(M) \in Nat
      BY <1>5
    <3>3. Len(Scan(acc)[p + j].nesting) <= b
      BY <1>9, <3>2 DEF Fitting
    <3>4. CASE Scan(t)[j].expecting = "done"
      <4>1. Scan(acc)[p + j].nesting = N
        <5>1. Scan(acc)[p + j] = Lift(N, Scan(t)[j])
          BY <1>4
        <5> QED BY <3>4, <5>1 DEF Lift
      <4>2. Len(M) = 0
        <5>1. M = << >>
          <6>1. j \in 0..Len(t)
            BY <1>5, <1>6
          <6> QED BY <1>6, <3>1, <3>4, <6>1, ScanStates DEF IsState
        <5> QED BY <5>1
      <4> QED BY <1>3, <1>8, <3>1, <3>3, <4>1, <4>2
    <3>5. CASE Scan(t)[j].expecting # "done"
      <4>1. Scan(acc)[p + j].nesting = N \o M
        <5>1. Scan(acc)[p + j] = Lift(N, Scan(t)[j])
          BY <1>4
        <5> QED BY <3>1, <3>5, <5>1 DEF Lift
      <4>2. Len(N \o M) = 1 + Len(M)
        <5>1. Len(N \o M) = Len(N) + Len(M)
          BY <1>3, Around
        <5> QED BY <1>3, <5>1
      <4> QED BY <1>8, <3>1, <3>2, <3>3, <4>1, <4>2
    <3> QED BY <3>4, <3>5
  <2> QED BY <1>8, <2>1 DEF Fitting
<1>10. From(t, 1 + m) = From(acc, p + m + 1)
  BY <1>1, <1>5, FromFrom
<1>11. /\ p + m + 1 \in 1..L
       /\ Scan(acc)[p + m + 1] = After(Scan(acc)[p + m], acc[p + m + 1])
       /\ Scan(acc)[p + m + 1].expecting = "done" <=> p + m + 1 = L
  BY <1>5, Onward
<1>12. \E q : At(acc, q, kind) /\ Past(From(acc, p + m + 1)) = From(acc, q + 1)
  <2>1. CASE acc[p + m + 1] = ","
    <3>1. Past(From(acc, p + m + 1)) = From(acc, p + m + 1 + 1)
      BY <1>11, <2>1, PastIs
    <3>2. Scan(acc)[p + m + 1] = [expecting |-> IF kind = "array" THEN "value" ELSE "key", nesting |-> N]
      <4>1. After([expecting |-> "comma", nesting |-> N], ",")
              = [expecting |-> IF Last(N) = "{" THEN "key" ELSE "value", nesting |-> N]
        BY DEF After
      <4>2. Last(N) = Opens(kind)
        BY OneOpen DEF N
      <4>3. (IF Last(N) = "{" THEN "key" ELSE "value") = (IF kind = "array" THEN "value" ELSE "key")
        BY <4>2 DEF Opens, Kinds
      <4> QED BY <1>4, <1>11, <2>1, <4>1, <4>3
    <3>3. p + m + 1 # L
      <4>1. Scan(acc)[p + m + 1].expecting # "done"
        BY <3>2
      <4> QED BY <1>11, <4>1
    <3>4. p + m + 1 \in 1..(L - 1)
      BY <1>5, <3>3
    <3>5. At(acc, p + m + 1, kind)
      BY <3>2, <3>4 DEF At, N
    <3> QED BY <3>1, <3>5
  <2>2. CASE acc[p + m + 1] # ","
    <3>1. Past(From(acc, p + m + 1)) = From(acc, p + m + 1)
      BY <1>11, <2>2, PastIs
    <3>2. At(acc, p + m, kind)
      BY <1>4, <1>5, <2>2 DEF At, N
    <3> QED BY <3>1, <3>2
  <2> QED BY <2>1, <2>2
<1>13. m > 0 /\ Reach(v) = Len(v)
  BY <1>5, <1>8
<1> QED BY <1>1, <1>2, <1>7, <1>8, <1>9, <1>10, <1>12, <1>13

LEMMA Slice ==
  ASSUME NEW T, NEW s \in Seq(T), NEW i \in Nat \ {0}, NEW j \in Nat, i <= j, j <= Len(s)
  PROVE  /\ SubSeq(s, i, j) \in Seq(T) /\ Len(SubSeq(s, i, j)) = j - i + 1
         /\ \A k \in 1..(j - i + 1) : SubSeq(s, i, j)[k] = s[i + k - 1]
<1>1. i \in 1..(Len(s) + 1) /\ j \in (i - 1)..Len(s)
  OBVIOUS
<1> QED BY <1>1, SubSeqProperties

\* What an item takes up, and what it leaves, if its value is at the start of t.
TakesUp(it, kind, t, count) ==
  /\ it.val = SubSeq(t, 1, Reach(t)) /\ it.rest = Past(From(t, 1 + Reach(t)))
  /\ kind = "array" => it.key = count

LEMMA ItemFrom ==
  ASSUME NEW kind, NEW s \in Seq(Tokens), NEW count, NEW start \in 1..Len(s),
         start = IF kind = "array" THEN 1 ELSE Reach(s) + 2,
         Reach(From(s, start)) \in 1..Len(From(s, start))
  PROVE  TakesUp(NextItem(kind, s, count), kind, From(s, start), count)
<1> DEFINE it == NextItem(kind, s, count)
           t == From(s, start)
           m == Reach(t)
<1>1. /\ it.val = SubSeq(s, start, start + m - 1)
      /\ it.rest = Past(From(s, start + m))
      /\ kind = "array" => it.key = count
  BY Zenon DEF NextItem, Past
<1> HIDE DEF t, it
<1>2. Len(s) \in Nat /\ start \in Nat \ {0} /\ start <= Len(s) /\ start <= Len(s) + 1
  OBVIOUS
<1>3. t \in Seq(Tokens) /\ Len(t) = Len(s) - start + 1
  <2>1. t \in Seq(Tokens) /\ Len(t) = IF start <= Len(s) THEN Len(s) - start + 1 ELSE 0
    BY <1>2, FromIs DEF t
  <2> QED BY <1>2, <2>1
<1>4. m \in Nat /\ m >= 1 /\ 1 + m \in Nat \ {0} /\ m <= Len(s) - start + 1
  <2>1. m \in 1..Len(t)
    BY DEF t
  <2> QED BY <1>3, <2>1
<1> HIDE DEF m
<1>5. From(t, 1 + m) = From(s, start + m)
  <2>1. From(t, 1 + m) = From(s, start + (1 + m) - 1)
    BY <1>2, <1>4, FromFrom DEF t
  <2>2. start + (1 + m) - 1 = start + m
    BY <1>2, <1>4
  <2> QED BY <2>1, <2>2
<1>6. SubSeq(t, 1, m) = SubSeq(s, start, start + m - 1)
  <2> DEFINE a == SubSeq(t, 1, m)
             b == SubSeq(s, start, start + m - 1)
  <2>1. a \in Seq(Tokens) /\ Len(a) = m /\ \A j \in 1..m : a[j] = t[j]
    BY <1>3, <1>4
  <2>2. /\ start + m - 1 \in Nat /\ start + m - 1 <= Len(s) /\ start <= start + m - 1
        /\ start + m - 1 - start + 1 = m
    BY <1>2, <1>4
  <2>3. b \in Seq(Tokens) /\ Len(b) = m /\ \A j \in 1..m : b[j] = s[start + j - 1]
    <3>1. PICK e \in Nat : e = start + m - 1
      BY <2>2
    <3>2. /\ SubSeq(s, start, e) \in Seq(Tokens) /\ Len(SubSeq(s, start, e)) = e - start + 1
          /\ \A j \in 1..(e - start + 1) : SubSeq(s, start, e)[j] = s[start + j - 1]
      <4>1. start \in Nat \ {0} /\ start <= e /\ e <= Len(s)
        BY <1>2, <2>2, <3>1
      <4> QED BY <4>1, Slice
    <3>3. e - start + 1 = m
      BY <1>2, <1>4, <3>1
    <3> QED BY <3>1, <3>2, <3>3
  <2>4. \A j \in 1..m : t[j] = s[start + j - 1]
    <3>1. \A j \in 1..(Len(s) - start + 1) : t[j] = s[start + j - 1]
      BY <1>2, FromIs DEF t
    <3>2. \A j \in 1..m : j \in 1..(Len(s) - start + 1)
      BY <1>2, <1>4
    <3> QED BY <3>1, <3>2
  <2> HIDE DEF a, b
  <2>5. \A j \in 1..Len(a) : a[j] = b[j]
    BY <2>1, <2>3, <2>4
  <2>6. Len(a) = Len(b) /\ a \in Seq(Tokens) /\ b \in Seq(Tokens)
    BY <2>1, <2>3
  <2>7. a = b
    BY <2>5, <2>6, SeqEqual
  <2> QED BY <2>7 DEF a, b
<1> QED BY <1>1, <1>5, <1>6 DEF TakesUp, it, t, m

\* What the walk meets: the bracket that closes the container, or an item, and
\* behind it the walk goes on.
AnItem(acc, kind, s, count) ==
  LET it == NextItem(kind, s, count)
  IN  /\ HasNext(kind, s)
      /\ it.val \in Seq(Tokens) /\ Len(it.val) >= 1 /\ Reach(it.val) = Len(it.val)
      /\ \A b \in Int : Fitting(acc, b) => Fitting(it.val, b - 1)
      /\ \E q : At(acc, q, kind) /\ it.rest = From(acc, q + 1)
      /\ kind = "array" => it.key = count

LEMMA ItemAt ==
  ASSUME NEW kind \in Kinds, NEW acc \in Seq(Tokens), Reach(acc) = Len(acc),
         NEW p \in 1..(Len(acc) - 1), acc[p + 1] # "]",
         Scan(acc)[p] = [expecting |-> "value", nesting |-> <<Opens(kind)>>],
         NEW s \in Seq(Tokens), NEW count, NEW start \in 1..Len(s),
         start = IF kind = "array" THEN 1 ELSE Reach(s) + 2,
         kind = "array" \/ Reach(s) > 0,
         From(s, start) = From(acc, p + 1)
  PROVE  AnItem(acc, kind, s, count)
<1>1. PICK t : t = From(acc, p + 1)
  OBVIOUS
<1>2. PICK m : m = Reach(t)
  OBVIOUS
<1>3. PICK v : v = SubSeq(t, 1, m)
  OBVIOUS
<1>4. /\ m > 0 /\ v \in Seq(Tokens) /\ Reach(v) = Len(v) /\ Len(v) = m
      /\ \A b \in Int : Fitting(acc, b) => Fitting(v, b - 1)
      /\ \E q : At(acc, q, kind) /\ Past(From(t, 1 + m)) = From(acc, q + 1)
  BY <1>1, <1>2, <1>3, ValueIn
<1>5. m \in 1..Len(t)
  <2>1. start \in Nat \ {0}
    OBVIOUS
  <2>2. t \in Seq(Tokens)
    BY <1>1, <2>1, FromIs
  <2>3. m \in 0..Len(t)
    BY <1>2, <2>2, ReachIn
  <2> QED BY <1>4, <2>2, <2>3
<1>6. PICK it : it = NextItem(kind, s, count)
  OBVIOUS
<1>7. it.val = v /\ it.rest = Past(From(t, 1 + m)) /\ (kind = "array" => it.key = count)
  <2>1. t = From(s, start)
    BY <1>1
  <2>2. Reach(From(s, start)) \in 1..Len(From(s, start))
    BY <1>2, <1>5, <2>1
  <2>3. TakesUp(NextItem(kind, s, count), kind, From(s, start), count)
    BY <2>2, ItemFrom
  <2> QED BY <1>2, <1>3, <1>6, <2>1, <2>3 DEF TakesUp
<1>8. HasNext(kind, s)
  <2>1. kind = "array" => From(s, 1) = s
    BY DEF From
  <2>2. kind = "array" => Reach(s) > 0
    BY <1>1, <1>2, <1>4, <2>1
  <2>3. kind # "array" => Reach(s) > 0 /\ Reach(From(s, Reach(s) + 2)) > 0
    BY <1>1, <1>2, <1>4
  <2> QED BY <2>2, <2>3 DEF HasNext
<1>9. Len(v) >= 1 /\ m >= 1
  BY <1>4, <1>5
<1> QED BY <1>4, <1>6, <1>7, <1>8, <1>9 DEF AnItem

\* What the loop may see next, by what it expects.
LEMMA MayFollow ==
  ASSUME NEW N \in Seq(OpenTokens), NEW c
  PROVE  /\ c \in CloseTokens =>
              LET st == [expecting |-> "comma", nesting |-> N] IN After(st, c) = Close(st, c)
         /\ c # "," /\ c \notin CloseTokens => After([expecting |-> "comma", nesting |-> N], c) = Failed
         /\ LET st == [expecting |-> "value", nesting |-> N] IN After(st, "]") = Close(st, "]")
         /\ c \in Strings => /\ After([expecting |-> "key", nesting |-> N], c)
                                   = [expecting |-> "colon", nesting |-> N]
                             /\ After(Start, c).expecting = "done"
         /\ LET st == [expecting |-> "key", nesting |-> N] IN After(st, "}") = Close(st, "}")
         /\ c \notin Strings /\ c # "}" => After([expecting |-> "key", nesting |-> N], c) = Failed
         /\ After([expecting |-> "colon", nesting |-> N], ":") = [expecting |-> "value", nesting |-> N]
         /\ c # ":" => After([expecting |-> "colon", nesting |-> N], c) = Failed
<1>1. \A x \in {"{", "}", "[", "]", ":", ","} : x \notin Scalars /\ x \notin Strings
  BY Zenon, ParserAssumption DEF Scalars
<1>2. c \in CloseTokens =>
        LET st == [expecting |-> "comma", nesting |-> N] IN After(st, c) = Close(st, c)
  BY DEF After, CloseTokens
<1>3. c # "," /\ c \notin CloseTokens => After([expecting |-> "comma", nesting |-> N], c) = Failed
  BY DEF After, CloseTokens
<1>4. LET st == [expecting |-> "value", nesting |-> N] IN After(st, "]") = Close(st, "]")
  BY <1>1 DEF After
<1>5. ASSUME c \in Strings
      PROVE  /\ After([expecting |-> "key", nesting |-> N], c) = [expecting |-> "colon", nesting |-> N]
             /\ After(Start, c).expecting = "done"
  <2>1. c \in Scalars \ {Broken} /\ c \notin {"{", "}", "[", "]", ":", ","}
    BY Zenon, <1>1, <1>5, ParserAssumption DEF Scalars
  <2>2. After([expecting |-> "key", nesting |-> N], c) = [expecting |-> "colon", nesting |-> N]
    BY <1>5, <2>1 DEF After
  <2>3. After(Start, c) = [expecting |-> "done", nesting |-> << >>]
    BY <2>1 DEF After, Start
  <2> QED BY <2>2, <2>3
<1>6. LET st == [expecting |-> "key", nesting |-> N] IN After(st, "}") = Close(st, "}")
  BY <1>1 DEF After
<1>7. c \notin Strings /\ c # "}" => After([expecting |-> "key", nesting |-> N], c) = Failed
  BY DEF After
<1>8. After([expecting |-> "colon", nesting |-> N], ":") = [expecting |-> "value", nesting |-> N]
  BY DEF After
<1>9. c # ":" => After([expecting |-> "colon", nesting |-> N], c) = Failed
  BY DEF After
<1> QED BY <1>2, <1>3, <1>4, <1>5, <1>6, <1>7, <1>8, <1>9

\* The first token of an object's key, and where its value starts.
LEMMA KeyAndColon ==
  ASSUME NEW acc \in Seq(Tokens), Reach(acc) = Len(acc), NEW p \in 1..(Len(acc) - 1),
         NEW kind \in Kinds, kind # "array", acc[p + 1] \in Strings,
         Scan(acc)[p] = [expecting |-> "key", nesting |-> <<Opens(kind)>>]
  PROVE  /\ p + 2 \in 1..(Len(acc) - 1) /\ acc[p + 2 + 1] # "]"
         /\ Scan(acc)[p + 2] = [expecting |-> "value", nesting |-> <<Opens(kind)>>]
<1> DEFINE L == Len(acc)
           N == <<Opens(kind)>>
<1>1. N \in Seq(OpenTokens) /\ Len(N) = 1 /\ Last(N) = Opens(kind)
  BY OneOpen
<1>2. <<Last(N), "]">> \notin Fits
  BY <1>1 DEF Opens, Fits
<1> HIDE DEF N
<1>3. L \in Nat /\ p \in Nat /\ p \in 0..(L - 1) /\ p + 1 + 1 = p + 2 /\ p + 2 + 1 = p + 3
  OBVIOUS
<1>4. Failed.expecting = "error"
  BY DEF Failed
<1>5. Scan(acc)[p + 1] = [expecting |-> "colon", nesting |-> N] /\ p + 1 # L
  <2>1. Scan(acc)[p + 1] = After(Scan(acc)[p], acc[p + 1])
    BY <1>3, Onward
  <2>2. Scan(acc)[p + 1].expecting = "done" <=> p + 1 = L
    BY <1>3, Onward
  <2>3. Scan(acc)[p + 1] = [expecting |-> "colon", nesting |-> N]
    BY <1>1, <2>1, MayFollow DEF N
  <2> QED BY <2>2, <2>3
<1>6. p + 1 \in 0..(L - 1)
  BY <1>3, <1>5
<1>7. Scan(acc)[p + 2] = [expecting |-> "value", nesting |-> N] /\ p + 2 # L
  <2>1. /\ Scan(acc)[p + 1 + 1] = After(Scan(acc)[p + 1], acc[p + 1 + 1])
        /\ Scan(acc)[p + 1 + 1].expecting # "error"
        /\ Scan(acc)[p + 1 + 1].expecting = "done" <=> p + 1 + 1 = L
    BY <1>6, Onward
  <2>2. /\ Scan(acc)[p + 2] = After([expecting |-> "colon", nesting |-> N], acc[p + 2])
        /\ Scan(acc)[p + 2].expecting # "error"
        /\ Scan(acc)[p + 2].expecting = "done" <=> p + 2 = L
    BY <1>3, <1>5, <2>1, Zenon
  <2>3. acc[p + 2] = ":"
    BY <1>1, <1>4, <2>2, MayFollow, Zenon
  <2>4. Scan(acc)[p + 2] = [expecting |-> "value", nesting |-> N]
    BY <1>1, <2>2, <2>3, MayFollow
  <2> QED BY <2>2, <2>4
<1>8. p + 2 \in 1..(L - 1) /\ p + 2 \in 0..(L - 1)
  BY <1>3, <1>6, <1>7
<1>9. acc[p + 2 + 1] # "]"
  <2>1. /\ Scan(acc)[p + 2 + 1] = After(Scan(acc)[p + 2], acc[p + 2 + 1])
        /\ Scan(acc)[p + 2 + 1].expecting # "error"
    BY <1>8, Onward
  <2>2. PICK st : st = [expecting |-> "value", nesting |-> N]
    OBVIOUS
  <2>3. After(st, "]") = Close(st, "]")
    BY <1>1, <2>2, MayFollow
  <2>4. Close(st, "]") = Failed
    BY <1>2, <2>2 DEF Close
  <2> QED BY <1>4, <1>7, <2>1, <2>2, <2>3, <2>4, Zenon
<1> QED BY <1>7, <1>8, <1>9 DEF N

LEMMA WalkMeets ==
  ASSUME NEW kind \in Kinds, NEW acc, NEW p, At(acc, p, kind), NEW count
  PROVE  LET s == From(acc, p + 1)
         IN  \/ s = <<Closes(kind)>> /\ ~ HasNext(kind, s)
             \/ AnItem(acc, kind, s, count)
<1> DEFINE L == Len(acc)
           N == <<Opens(kind)>>
           s == From(acc, p + 1)
           End == s = <<Closes(kind)>> /\ ~ HasNext(kind, s)
<1>1. acc \in Seq(Tokens) /\ Reach(acc) = L /\ p \in 1..(L - 1)
  BY DEF At
<1>2. /\ L \in Nat /\ p \in Nat /\ p + 1 \in Nat \ {0} /\ p + 1 <= L /\ p \in 0..(L - 1)
      /\ L - (p + 1) + 1 >= 1 /\ p + 1 <= L + 1
  BY <1>1
<1>3. N \in Seq(OpenTokens)
  BY OneOpen
<1>4. s \in Seq(Tokens) /\ Len(s) = L - (p + 1) + 1 /\ \A j \in 1..(L - (p + 1) + 1) : s[j] = acc[p + 1 + j - 1]
  <2>1. /\ s \in Seq(Tokens) /\ Len(s) = IF p + 1 <= L THEN L - (p + 1) + 1 ELSE 0
        /\ \A j \in 1..(L - (p + 1) + 1) : s[j] = acc[p + 1 + j - 1]
    BY <1>1, <1>2, FromIs
  <2> QED BY <1>2, <2>1
<1>5. /\ Scan(acc)[p + 1] = After(Scan(acc)[p], acc[p + 1])
      /\ Scan(acc)[p + 1].expecting # "error"
  BY <1>1, <1>2, Onward
<1>6. Failed.expecting = "error"
  BY DEF Failed
<1>7. "]" \in CloseTokens /\ "}" \in CloseTokens
  BY DEF CloseTokens
<1> HIDE DEF s
<1>8. ASSUME NEW e, Scan(acc)[p] = [expecting |-> e, nesting |-> N], acc[p + 1] \in CloseTokens,
             After(Scan(acc)[p], acc[p + 1]) = Close(Scan(acc)[p], acc[p + 1])
      PROVE  End
  BY <1>1, <1>8, AtTheEnd DEF s, N
<1>9. CASE Scan(acc)[p] = [expecting |-> "comma", nesting |-> N] /\ acc[p + 1] # ","
  <2>1. acc[p + 1] \in CloseTokens
    <3>1. acc[p + 1] \notin CloseTokens => After([expecting |-> "comma", nesting |-> N], acc[p + 1]) = Failed
      BY <1>3, <1>9, MayFollow
    <3>2. acc[p + 1] \notin CloseTokens => Scan(acc)[p + 1] = Failed
      BY <1>5, <1>9, <3>1, Zenon
    <3> QED BY <1>5, <1>6, <3>2, Zenon
  <2>2. After(Scan(acc)[p], acc[p + 1]) = Close(Scan(acc)[p], acc[p + 1])
    BY <1>3, <1>9, <2>1, MayFollow, Zenon
  <2>3. End
    BY <1>8, <1>9, <2>1, <2>2
  <2> QED BY <2>3 DEF s
<1>10. CASE kind = "array" /\ Scan(acc)[p] = [expecting |-> "value", nesting |-> N]
  <2>1. CASE acc[p + 1] = "]"
    <3>1. After(Scan(acc)[p], acc[p + 1]) = Close(Scan(acc)[p], acc[p + 1])
      BY <1>3, <1>10, <2>1, MayFollow, Zenon
    <3>2. End
      BY <1>7, <1>8, <1>10, <2>1, <3>1, Zenon
    <3> QED BY <3>2 DEF s
  <2>2. CASE acc[p + 1] # "]"
    <3>1. From(s, 1) = s
      BY <1>4 DEF From
    <3>2. 1 \in 1..Len(s)
      BY <1>2, <1>4
    <3>3. AnItem(acc, kind, s, count)
      <4>1. From(s, 1) = From(acc, p + 1)
        BY <3>1 DEF s
      <4>2. 1 = IF kind = "array" THEN 1 ELSE Reach(s) + 2
        BY <1>10
      <4> QED BY <1>1, <1>4, <1>10, <2>2, <3>2, <4>1, <4>2, ItemAt DEF N
    <3> QED BY <3>3 DEF s
  <2> QED BY <2>1, <2>2
<1>11. CASE kind # "array" /\ Scan(acc)[p] = [expecting |-> "key", nesting |-> N]
  <2>1. CASE acc[p + 1] = "}"
    <3>1. After(Scan(acc)[p], acc[p + 1]) = Close(Scan(acc)[p], acc[p + 1])
      BY <1>3, <1>11, <2>1, MayFollow, Zenon
    <3>2. End
      BY <1>7, <1>8, <1>11, <2>1, <3>1, Zenon
    <3> QED BY <3>2 DEF s
  <2>2. CASE acc[p + 1] # "}"
    <3>1. acc[p + 1] \in Strings
      <4>1. acc[p + 1] \notin Strings => After([expecting |-> "key", nesting |-> N], acc[p + 1]) = Failed
        BY <1>3, <2>2, MayFollow
      <4>2. acc[p + 1] \notin Strings => Scan(acc)[p + 1] = Failed
        BY <1>5, <1>11, <4>1, Zenon
      <4> QED BY <1>5, <1>6, <4>2, Zenon
    <3>2. /\ p + 2 \in 1..(L - 1) /\ acc[p + 2 + 1] # "]"
          /\ Scan(acc)[p + 2] = [expecting |-> "value", nesting |-> N]
      BY <1>1, <1>11, <3>1, KeyAndColon DEF N
    <3>3. 1 \in 1..Len(s) /\ s[1] = acc[p + 1] /\ Len(s) >= 3
      <4>1. 1 \in 1..(L - (p + 1) + 1) /\ p + 1 + 1 - 1 = p + 1 /\ L - (p + 1) + 1 >= 3
        BY <1>2, <3>2
      <4>2. s[1] = acc[p + 1 + 1 - 1]
        BY <1>4, <4>1
      <4> QED BY <1>4, <4>1, <4>2
    <3>4. Reach(s) = 1
      <4>1. Scan(s)[1] = After(Start, s[1])
        <5>1. 1 - 1 = 0
          OBVIOUS
        <5> QED BY <1>4, <3>3, <5>1, ScanIs
      <4>2. Scan(s)[1].expecting = "done"
        BY <1>3, <3>1, <3>3, <4>1, MayFollow, Zenon
      <4> QED BY <1>4, <3>3, <4>2, ReachIs
    <3>5. From(s, 3) = From(acc, p + 2 + 1)
      <4>1. From(s, 3) = From(acc, p + 1 + 3 - 1)
        BY <1>1, <1>2, FromFrom DEF s
      <4>2. p + 1 + 3 - 1 = p + 2 + 1
        BY <1>2
      <4> QED BY <4>1, <4>2
    <3>6. AnItem(acc, kind, s, count)
      <4>1. 3 \in 1..Len(s) /\ 3 = IF kind = "array" THEN 1 ELSE Reach(s) + 2
        BY <1>2, <1>4, <1>11, <3>3, <3>4
      <4>2. Reach(s) > 0
        BY <3>4
      <4> QED BY <1>1, <1>4, <3>2, <3>5, <4>1, <4>2, ItemAt DEF N
    <3> QED BY <3>6 DEF s
  <2> QED BY <2>1, <2>2
<1>12. \/ Scan(acc)[p] = [expecting |-> IF kind = "array" THEN "value" ELSE "key", nesting |-> N]
       \/ Scan(acc)[p] = [expecting |-> "comma", nesting |-> N] /\ acc[p + 1] # ","
  BY DEF At
<1> QED BY <1>9, <1>10, <1>11, <1>12

-------------------------------------------------------------------------------
(***************************************************************************)
(* The stack of activations.                                               *)
(***************************************************************************)
IsDocument(d) == d.kind = "object" \/ (d.kind = "array" /\ \E T : d.items \in Seq(T))

\* An activation in the middle of a container, with b brackets left to open.
Walks(f, b) == \E acc, p : At(acc, p, f.doc.kind) /\ Fitting(acc, b) /\ f.rest = From(acc, p + 1)
Active(f, b) == IsActivation(f) /\ IsDocument(f.doc) /\ Walks(f, b)

\* An element goes into an array at a position.
Linked(f, g) == f.doc.kind = "array" => g.key \in Nat

Stacked(fs) ==
  /\ \E S : fs \in Seq(S)
  /\ \A i \in 1..Len(fs) : Active(fs[i], MaxNesting - i + 1)
  /\ \A i \in 1..(Len(fs) - 1) : Linked(fs[i], fs[i + 1])

\* The activation of a text that the tokenizer has refused.
Hollow(fs) == Len(fs) = 1 /\ fs[1].rest = << >> /\ fs[1].doc = EmptyOf(fs[1].doc.kind)

LEMMA PutKeeps ==
  ASSUME NEW d, IsDocument(d), NEW k, d.kind = "array" => k \in Nat, ~ Raises(d, k), NEW v
  PROVE  IsDocument(Put(d, k, v)) /\ Put(d, k, v).kind = d.kind
<1>1. CASE d.kind = "array"
  <2>1. PICK T : d.items \in Seq(T)
    BY <1>1 DEF IsDocument
  <2>2. PICK it \in Seq(T) : it = d.items
    BY <2>1
  <2>3. Len(it) \in Nat /\ k \in Nat /\ k <= Len(it)
    BY <1>1, <2>2 DEF Raises
  <2>4. CASE k = Len(it)
    <3>1. Put(d, k, v) = Array(Append(it, v))
      BY <1>1, <2>2, <2>3, <2>4 DEF Put
    <3>2. it \in Seq(T \cup {v})
      BY <2>2
    <3>3. Append(it, v) \in Seq(T \cup {v})
      BY <3>2
    <3> QED BY <1>1, <3>1, <3>3 DEF Array, IsDocument
  <2>5. CASE k # Len(it)
    <3>1. k < Len(it)
      BY <2>3, <2>5
    <3>2. Put(d, k, v) = Array([it EXCEPT ![k + 1] = v])
      BY <1>1, <2>2, <2>3, <2>5, <3>1 DEF Put
    <3>3. it \in Seq(T \cup {v}) /\ k + 1 \in 1..Len(it) /\ v \in T \cup {v}
      BY <2>2, <2>3, <3>1
    <3>4. [it EXCEPT ![k + 1] = v] \in Seq(T \cup {v})
      BY <3>3, ExceptSeq
    <3> QED BY <1>1, <3>2, <3>4 DEF Array, IsDocument
  <2> QED BY <2>4, <2>5
<1>2. CASE d.kind # "array"
  <2>1. d.kind = "object"
    BY <1>2 DEF IsDocument
  <2>2. \E p, n : Put(d, k, v) = Listing(p, n)
    <3>1. CASE k \in KeysOf(d)
      <4>1. PICK p, n : /\ p = [i \in DOMAIN d.pairs |-> IF d.pairs[i][1] = k THEN <<k, v>> ELSE d.pairs[i]]
                        /\ n = IF k \in Uncounted(d) THEN d.count + 1 ELSE d.count
        OBVIOUS
      <4>2. Put(d, k, v) = Listing(p, n)
        BY <2>1, <3>1, <4>1 DEF Put
      <4> QED BY <4>2
    <3>2. CASE k \notin KeysOf(d)
      <4>1. PICK p, n : p = Append(d.pairs, <<k, v>>) /\ n = IF k = EnvKey THEN d.count ELSE d.count + 1
        OBVIOUS
      <4>2. Put(d, k, v) = Listing(p, n)
        BY <2>1, <3>2, <4>1 DEF Put
      <4> QED BY <4>2
    <3> QED BY <3>1, <3>2
  <2> QED BY <2>1, <2>2 DEF Listing, IsDocument
<1> QED BY <1>1, <1>2

LEMMA StackedNone == Stacked(<< >>)
<1>1. << >> \in Seq({}) /\ Len(<< >>) = 0
  OBVIOUS
<1>2. 1..0 = {} /\ 1..(0 - 1) = {}
  OBVIOUS
<1> QED BY <1>1, <1>2 DEF Stacked

LEMMA StackedMore ==
  ASSUME NEW fs, Stacked(fs), NEW f, Active(f, MaxNesting - Len(fs)),
         fs # << >> => Linked(Last(fs), f)
  PROVE  Stacked(Append(fs, f)) /\ Len(Append(fs, f)) = Len(fs) + 1 /\ Last(Append(fs, f)) = f
         /\ Append(fs, f) # << >>
<1>1. PICK S : fs \in Seq(S)
  BY DEF Stacked
<1> DEFINE n == Len(fs)
<1>2. PICK gs : gs = Append(fs, f)
  OBVIOUS
<1>3. n \in Nat /\ (fs # << >> => n # 0) /\ MaxNesting \in Nat
  BY <1>1, Limit
<1>4. /\ fs \in Seq(S \cup {f}) /\ gs \in Seq(S \cup {f}) /\ Len(gs) = n + 1 /\ gs[n + 1] = f
      /\ \A i \in 1..n : gs[i] = fs[i]
  BY <1>1, <1>2
<1> HIDE DEF n
<1>5. ASSUME NEW i \in 1..Len(gs) PROVE Active(gs[i], MaxNesting - i + 1)
  <2>1. CASE i = n + 1
    <3>1. MaxNesting - i + 1 = MaxNesting - n
      BY <1>3, <2>1
    <3> QED BY <1>4, <2>1, <3>1 DEF n
  <2>2. CASE i # n + 1
    <3>1. i \in 1..n
      BY <1>3, <1>4, <2>2
    <3> QED BY <1>4, <3>1 DEF Stacked, n
  <2> QED BY <2>1, <2>2
<1>6. ASSUME NEW i \in 1..(Len(gs) - 1) PROVE Linked(gs[i], gs[i + 1])
  <2>1. i \in 1..n
    BY <1>3, <1>4
  <2>2. CASE i = n
    <3>1. fs # << >>
      <4>1. n # 0
        BY <1>3, <2>1
      <4>2. Len(<< >>) = 0
        OBVIOUS
      <4> QED BY <4>1, <4>2 DEF n
    <3>2. Last(fs) = gs[i]
      BY <1>4, <2>1, <2>2 DEF Last, n
    <3> QED BY <1>4, <2>2, <3>1, <3>2
  <2>3. CASE i # n
    <3>1. i \in 1..(n - 1) /\ i + 1 \in 1..n
      BY <1>3, <2>1, <2>3
    <3> QED BY <1>4, <2>1, <3>1 DEF Stacked, n
  <2> QED BY <2>2, <2>3
<1>7. Stacked(gs)
  BY <1>4, <1>5, <1>6 DEF Stacked
<1>8. Last(gs) = f /\ gs # << >>
  <2>1. Len(gs) # 0 /\ Len(<< >>) = 0
    BY <1>3, <1>4
  <2> QED BY <1>4, <2>1 DEF Last
<1> QED BY <1>2, <1>4, <1>7, <1>8 DEF n

LEMMA StackedSplits ==
  ASSUME NEW fs, Stacked(fs), fs # << >>
  PROVE  /\ Stacked(Front(fs)) /\ Active(Last(fs), MaxNesting - Len(Front(fs)))
         /\ Front(fs) # << >> => Linked(Last(Front(fs)), Last(fs))
         /\ Len(Front(fs)) \in Nat /\ Len(fs) = Len(Front(fs)) + 1
<1>1. PICK S : fs \in Seq(S)
  BY DEF Stacked
<1>2. Len(fs) \in Nat \ {0} /\ MaxNesting \in Nat
  BY <1>1, Limit
<1>3. PICK n \in Nat : n = Len(fs) - 1
  BY <1>2
<1>4. PICK gs : gs = Front(fs)
  OBVIOUS
<1>5. gs \in Seq(S) /\ Len(gs) = n /\ \A i \in 1..n : gs[i] = fs[i]
  <2>1. gs = SubSeq(fs, 1, n)
    BY <1>3, <1>4 DEF Front
  <2> QED BY <1>1, <1>2, <1>3, <2>1
<1>6. \A i \in 1..n : i \in 1..Len(fs)
  BY <1>2, <1>3
<1>7. \A i \in 1..(n - 1) : i \in 1..(Len(fs) - 1) /\ i \in 1..n /\ i + 1 \in 1..n
  BY <1>2, <1>3
<1>8. Stacked(gs)
  <2>1. \A i \in 1..Len(gs) : Active(gs[i], MaxNesting - i + 1)
    BY <1>5, <1>6 DEF Stacked
  <2>2. \A i \in 1..(Len(gs) - 1) : Linked(gs[i], gs[i + 1])
    BY <1>5, <1>7 DEF Stacked
  <2> QED BY <1>5, <2>1, <2>2 DEF Stacked
<1>9. Active(Last(fs), MaxNesting - n)
  <2>1. Len(fs) \in 1..Len(fs) /\ MaxNesting - Len(fs) + 1 = MaxNesting - n
    BY <1>2, <1>3
  <2> QED BY <2>1 DEF Stacked, Last
<1>10. ASSUME gs # << >> PROVE Linked(Last(gs), Last(fs))
  <2>1. n # 0
    BY <1>5, <1>10
  <2>2. n \in 1..n /\ n \in 1..(Len(fs) - 1) /\ n + 1 = Len(fs)
    BY <1>3, <2>1
  <2>3. Linked(fs[n], fs[n + 1])
    BY <2>2 DEF Stacked
  <2> QED BY <1>5, <2>2, <2>3 DEF Last
<1>11. Len(fs) = n + 1
  BY <1>2, <1>3
<1> QED BY <1>3, <1>4, <1>5, <1>8, <1>9, <1>10, <1>11

\* A text that begins with a bracket, and that the tokenizer accepts.
LEMMA ActivationWalks ==
  ASSUME NEW s \in Seq(Tokens), Len(s) >= 1, s[1] \in OpenTokens, Reach(s) # 0,
         NEW b \in Int, Fitting(s, b), NEW key
  PROVE  Active(Activation(s, key), b) /\ Activation(s, key).key = key
<1> DEFINE c == s[1]
<1>1. PICK r \in 1..Len(s) : r = Reach(s)
  <2>1. Reach(s) \in 0..Len(s)
    BY ReachIn
  <2> QED BY <2>1
<1>2. PICK a : a = SubSeq(s, 1, r)
  OBVIOUS
<1>3. /\ a \in Seq(Tokens) /\ Len(a) = r /\ Reach(a) = r
      /\ \A j \in 0..r : Scan(a)[j] = Scan(s)[j]
      /\ \A j \in 1..r : a[j] = s[j]
  BY <1>1, <1>2, PrefixIs
<1>4. Len(s) \in Nat /\ r \in Nat \ {0} /\ 1 \in 1..Len(s) /\ 1 \in 0..r /\ 1 - 1 = 0 /\ 1 \in 0..Len(s)
  OBVIOUS
<1>5. PICK kind \in Kinds : kind = IF c = "[" THEN "array" ELSE "object"
  BY DEF Kinds
<1>6. Opens(kind) = c
  BY <1>5 DEF Opens, OpenTokens
<1>7. Scan(s)[1] = [expecting |-> IF kind = "array" THEN "value" ELSE "key", nesting |-> <<Opens(kind)>>]
  <2>1. Scan(s)[1] = After(Start, c)
    BY <1>4, ScanIs
  <2>2. After(Start, c) = Open(Start, c)
    <3>1. c \in {"{", "["} /\ c \notin Scalars
      BY Zenon, ParserAssumption DEF OpenTokens
    <3> QED BY <3>1 DEF After, Start
  <2>3. Len(<< >>) = 0 /\ Append(<< >>, c) = <<c>> /\ ~ 0 >= MaxNesting
    <3>1. Len(<< >>) = 0 /\ Append(<< >>, c) = <<c>>
      OBVIOUS
    <3> QED BY <3>1, Limit
  <2>4. Open(Start, c) = [expecting |-> IF c = "{" THEN "key" ELSE "value", nesting |-> <<c>>]
    BY <2>3 DEF Open, Start
  <2>5. (IF c = "{" THEN "key" ELSE "value") = (IF kind = "array" THEN "value" ELSE "key")
    BY <1>6 DEF Opens, Kinds
  <2> QED BY <1>6, <2>1, <2>2, <2>4, <2>5
<1> HIDE DEF c
<1>8. r # 1
  <2>1. Scan(s)[r].expecting = "done"
    BY <1>1, ReachIs
  <2> QED BY <1>7, <2>1
<1>9. 1 \in 1..(r - 1) /\ 2 <= r /\ 2 \in Nat \ {0}
  BY <1>4, <1>8
<1>10. At(a, 1, kind)
  <2>1. Scan(a)[1] = Scan(s)[1]
    BY <1>3, <1>4
  <2> QED BY <1>3, <1>7, <1>9, <2>1 DEF At
<1>11. Fitting(a, b)
  <2>1. \A j \in 0..r : j \in 0..Len(s)
    BY <1>1, <1>4
  <2> QED BY <1>3, <2>1 DEF Fitting
<1>12. SubSeq(s, 2, r) = From(a, 2)
  <2>1. PICK x, y : x = SubSeq(s, 2, r) /\ y = SubSeq(a, 2, r)
    OBVIOUS
  <2>2. r <= Len(s) /\ r \in Nat
    BY <1>1
  <2>3. x \in Seq(Tokens) /\ Len(x) = r - 2 + 1 /\ \A k \in 1..(r - 2 + 1) : x[k] = s[2 + k - 1]
    BY <1>9, <2>1, <2>2, Slice
  <2>4. y \in Seq(Tokens) /\ Len(y) = r - 2 + 1 /\ \A k \in 1..(r - 2 + 1) : y[k] = a[2 + k - 1]
    <3>1. r <= Len(a)
      BY <1>3, <1>4
    <3> QED BY <1>3, <1>9, <2>1, <2>2, <3>1, Slice
  <2>5. \A k \in 1..(r - 2 + 1) : 2 + k - 1 \in 1..r
    BY <1>4
  <2>6. \A k \in 1..Len(x) : x[k] = y[k]
    BY <1>3, <2>3, <2>4, <2>5
  <2>7. x = y
    BY <2>3, <2>4, <2>6, SeqEqual
  <2> QED BY <1>3, <2>1, <2>7 DEF From
<1>13. PICK f : f = Activation(s, key)
  OBVIOUS
<1>14. IsActivation(f)
  BY <1>13, ActivationIs
<1>15. f = [doc |-> EmptyOf(kind), key |-> key, rest |-> From(a, 2)]
  BY <1>1, <1>5, <1>12, <1>13 DEF Activation, c
<1>16. PICK d : d = EmptyOf(kind)
  OBVIOUS
<1>17. f.doc = d /\ f.key = key /\ f.rest = From(a, 2)
  BY <1>15, <1>16
<1>18. IsDocument(d) /\ d.kind = kind
  <2>1. CASE kind = "array"
    <3>1. d = [kind |-> "array", items |-> << >>]
      BY <1>16, <2>1 DEF EmptyOf, Array
    <3>2. << >> \in Seq({})
      OBVIOUS
    <3> QED BY <2>1, <3>1, <3>2 DEF IsDocument
  <2>2. CASE kind # "array"
    <3>1. d.kind = "object" /\ kind = "object"
      BY <1>16, <2>2 DEF EmptyOf, Object, Listing, Kinds
    <3> QED BY <3>1 DEF IsDocument
  <2> QED BY <2>1, <2>2
<1>19. 1 + 1 = 2
  OBVIOUS
<1>20. Walks(f, b)
  BY <1>10, <1>11, <1>17, <1>18, <1>19 DEF Walks
<1> QED BY <1>13, <1>14, <1>17, <1>18, <1>20 DEF Active

\* A text that the tokenizer refuses.
LEMMA ActivationHollow ==
  ASSUME NEW s, Reach(s) = 0, NEW key
  PROVE  Hollow(<<Activation(s, key)>>)
<1>1. PICK f : f = Activation(s, key)
  OBVIOUS
<1>2. f.rest = << >> /\ f.doc = EmptyOf(IF s[1] = "[" THEN "array" ELSE "object")
  BY <1>1 DEF Activation
<1>3. f.doc = EmptyOf(f.doc.kind)
  BY <1>2 DEF EmptyOf, Array, Object, Listing
<1>4. Len(<<f>>) = 1 /\ <<f>>[1] = f
  OBVIOUS
<1> QED BY <1>1, <1>2, <1>3, <1>4 DEF Hollow

LEMMA NothingNext ==
  ASSUME NEW kind PROVE ~ HasNext(kind, << >>)
<1>1. << >> \in Seq({}) /\ Len(<< >>) = 0
  OBVIOUS
<1>2. Reach(<< >>) \in 0..0
  BY <1>1, ReachIn
<1>3. ~ Reach(<< >>) > 0
  BY <1>2
<1> QED BY <1>3 DEF HasNext

Holding(f, d) == [f EXCEPT !.doc = d]

LEMMA Refilled ==
  ASSUME NEW f, IsActivation(f), NEW d, NEW g, g = Holding(f, d)
  PROVE  IsActivation(g) /\ g.rest = f.rest /\ g.doc = d /\ g.key = f.key
<1>1. PICK a, b, c : f = [doc |-> a, key |-> b, rest |-> c] /\ c \in Seq(Tokens)
  BY DEF IsActivation
<1>2. g = [doc |-> d, key |-> b, rest |-> c]
  BY <1>1 DEF Holding
<1> QED BY <1>1, <1>2 DEF IsActivation

\* A value is stored: the stack is what it was, but for what one activation
\* has read.
LEMMA StoreKeeps ==
  ASSUME NEW outer, Stacked(outer), NEW f, Active(f, MaxNesting - Len(outer)),
         outer # << >> => Linked(Last(outer), f), NEW k, f.doc.kind = "array" => k \in Nat,
         NEW v, Store(outer, f, k, v)
  PROVE  Stacked(frames')
<1>1. CASE Raises(f.doc, k)
  BY <1>1, StackedNone DEF Store, Raise
<1>2. CASE ~ Raises(f.doc, k)
  <2>1. PICK d : d = Put(f.doc, k, v)
    OBVIOUS
  <2>2. IsDocument(d) /\ d.kind = f.doc.kind
    BY <1>2, <2>1, PutKeeps DEF Active
  <2>3. PICK g : g = Holding(f, d)
    OBVIOUS
  <2>4. frames' = Append(outer, g)
    BY <1>2, <2>1, <2>3 DEF Store, Goes, Holding
  <2>5. IsActivation(g) /\ g.rest = f.rest /\ g.doc = d /\ g.key = f.key
    <3>1. IsActivation(f)
      BY DEF Active
    <3> QED BY <2>3, <3>1, Refilled
  <2>6. Active(g, MaxNesting - Len(outer))
    BY <2>2, <2>5 DEF Active, Walks
  <2>7. outer # << >> => Linked(Last(outer), g)
    BY <2>5 DEF Linked
  <2> QED BY <2>4, <2>6, <2>7, StackedMore
<1> QED BY <1>1, <1>2

Cut(f, s) == [f EXCEPT !.rest = s]

LEMMA CutIs ==
  ASSUME NEW f, IsActivation(f), NEW s \in Seq(Tokens), NEW g, g = Cut(f, s)
  PROVE  IsActivation(g) /\ g.rest = s /\ g.doc = f.doc /\ g.key = f.key
<1>1. PICK a, b, c : f = [doc |-> a, key |-> b, rest |-> c] /\ c \in Seq(Tokens)
  BY DEF IsActivation
<1>2. g = [doc |-> a, key |-> b, rest |-> s]
  BY <1>1 DEF Cut
<1> QED BY <1>1, <1>2 DEF IsActivation

\* The activations nest as the brackets of one text do, or the text has been
\* refused.
WalkInv == Stacked(frames) \/ Hollow(frames)

LEMMA KindsOf == ASSUME NEW d, IsDocument(d) PROVE d.kind \in Kinds
  BY DEF IsDocument, Kinds

LEMMA HollowStops ==
  ASSUME Hollow(frames) PROVE ~ MoreItems /\ Outer = << >> /\ Innermost = frames[1]
<1>1. Len(frames) = 1 /\ frames[1].rest = << >>
  BY DEF Hollow
<1>2. Innermost = frames[1]
  BY <1>1 DEF Innermost, Last
<1>3. Outer = << >>
  <2>1. Outer = SubSeq(frames, 1, 0)
    BY <1>1 DEF Outer, Front
  <2> QED BY <2>1, SubSeqEmpty
<1> QED BY <1>1, <1>2, <1>3, NothingNext DEF MoreItems

\* One item is taken up.
LEMMA ItemTaken ==
  ASSUME NEW f, NEW b \in Int, Active(f, b), HasNext(f.doc.kind, f.rest)
  PROVE  LET it == NextItem(f.doc.kind, f.rest, Size(f.doc))
         IN  /\ Active(Cut(f, it.rest), b) /\ Cut(f, it.rest).key = f.key
             /\ Cut(f, it.rest).doc = f.doc
             /\ f.doc.kind = "array" => it.key \in Nat
             /\ it.val[1] \in OpenTokens =>
                  /\ Active(Activation(it.val, it.key), b - 1)
                  /\ Activation(it.val, it.key).key = it.key
<1>1. PICK kind \in Kinds : kind = f.doc.kind
  BY KindsOf DEF Active
<1>2. PICK count : count = Size(f.doc)
  OBVIOUS
<1>3. PICK s : s = f.rest
  OBVIOUS
<1>4. PICK acc, p : At(acc, p, kind) /\ Fitting(acc, b) /\ s = From(acc, p + 1)
  BY <1>1, <1>3 DEF Active, Walks
<1>5. AnItem(acc, kind, s, count)
  <2>1. \/ s = <<Closes(kind)>> /\ ~ HasNext(kind, s)
        \/ AnItem(acc, kind, s, count)
    BY <1>4, WalkMeets
  <2> QED BY <1>1, <1>3, <2>1
<1>6. PICK it : it = NextItem(kind, s, count)
  OBVIOUS
<1>7. /\ it.val \in Seq(Tokens) /\ Len(it.val) >= 1 /\ Reach(it.val) = Len(it.val)
      /\ Fitting(it.val, b - 1)
      /\ \E q : At(acc, q, kind) /\ it.rest = From(acc, q + 1)
      /\ kind = "array" => it.key = count
  BY <1>4, <1>5, <1>6 DEF AnItem
<1>8. it.rest \in Seq(Tokens)
  <2>1. PICK q : At(acc, q, kind) /\ it.rest = From(acc, q + 1)
    BY <1>7
  <2>2. acc \in Seq(Tokens) /\ q \in 1..(Len(acc) - 1)
    BY <2>1 DEF At
  <2>3. q + 1 \in Nat \ {0}
    BY <2>2
  <2> QED BY <2>1, <2>2, <2>3, FromIs
<1>9. PICK g : g = Cut(f, it.rest)
  OBVIOUS
<1>10. IsActivation(g) /\ g.rest = it.rest /\ g.doc = f.doc /\ g.key = f.key
  BY <1>8, <1>9, CutIs DEF Active
<1>11. Active(g, b)
  BY <1>1, <1>4, <1>7, <1>10 DEF Active, Walks
<1>12. kind = "array" => it.key \in Nat
  <2>1. ASSUME kind = "array" PROVE count \in Nat
    <3>1. PICK T : f.doc.items \in Seq(T)
      BY <1>1, <2>1 DEF Active, IsDocument
    <3>2. count = Len(f.doc.items)
      BY <1>1, <1>2, <2>1 DEF Size
    <3> QED BY <3>1, <3>2
  <2> QED BY <1>7, <2>1
<1>13. it.val[1] \in OpenTokens =>
         /\ Active(Activation(it.val, it.key), b - 1)
         /\ Activation(it.val, it.key).key = it.key
  <2>1. Reach(it.val) # 0 /\ b - 1 \in Int
    BY <1>7
  <2> QED BY <1>7, <2>1, ActivationWalks
<1> QED BY <1>1, <1>2, <1>3, <1>6, <1>9, <1>10, <1>11, <1>12, <1>13

LEMMA WalkStep == ASSUME WalkInv, [ReadNext]_parserVars PROVE WalkInv'
<1>1. ASSUME NEW text \in Seq(Tokens), Parse(text) PROVE Stacked(frames') \/ Hollow(frames')
  <2>1. CASE text # << >> /\ text[1] \in {"[", "{"}
    <3>1. frames' = <<Activation(text, 0)>>
      BY <1>1, <2>1 DEF Parse
    <3>2. CASE Reach(text) = 0
      BY <3>1, <3>2, ActivationHollow
    <3>3. CASE Reach(text) # 0
      <4>1. text[1] \in OpenTokens /\ text # << >>
        BY <2>1 DEF OpenTokens
      <4>2. Len(text) >= 1
        BY <4>1, EmptySeq
      <4>3. Fitting(text, MaxNesting) /\ MaxNesting \in Int
        <5>1. \A j \in 0..Len(text) : IsState(Scan(text)[j])
          BY ScanStates
        <5> QED BY <5>1, Limit DEF IsState, Fitting
      <4>4. Active(Activation(text, 0), MaxNesting)
        BY <3>3, <4>1, <4>2, <4>3, ActivationWalks
      <4>5. PICK f : f = Activation(text, 0)
        OBVIOUS
      <4>6. MaxNesting - Len(<< >>) = MaxNesting /\ Append(<< >>, f) = <<f>>
        <5>1. Len(<< >>) = 0 /\ Append(<< >>, f) = <<f>>
          OBVIOUS
        <5> QED BY <4>3, <5>1
      <4>7. Stacked(Append(<< >>, f))
        BY <4>4, <4>5, <4>6, StackedNone, StackedMore
      <4> QED BY <3>1, <4>5, <4>6, <4>7
    <3> QED BY <3>2, <3>3
  <2>2. CASE ~ (text # << >> /\ text[1] \in {"[", "{"})
    BY <1>1, <2>2, StackedNone DEF Parse
  <2> QED BY <2>1, <2>2
<1>2. CASE ParseItem
  <2>1. MoreItems /\ frames # << >> /\ HasNext(Innermost.doc.kind, Innermost.rest)
    BY <1>2 DEF ParseItem, MoreItems
  <2>2. Stacked(frames)
    BY <2>1, HollowStops DEF WalkInv
  <2>3. PICK outer, inner : outer = Outer /\ inner = Innermost
    OBVIOUS
  <2>4. PICK b \in Int : b = MaxNesting - Len(outer)
    <3>1. Len(Front(frames)) \in Nat
      BY <2>1, <2>2, StackedSplits
    <3>2. Len(outer) \in Nat /\ MaxNesting \in Nat
      BY <2>3, <3>1, Limit DEF Outer
    <3> QED BY <3>2
  <2>5. Stacked(outer) /\ Active(inner, b) /\ (outer # << >> => Linked(Last(outer), inner))
        /\ Len(outer) \in Nat
    BY <2>1, <2>2, <2>3, <2>4, StackedSplits DEF Outer, Innermost
  <2>6. PICK it : it = NextItem(inner.doc.kind, inner.rest, Size(inner.doc))
    OBVIOUS
  <2>7. PICK f : f = Cut(inner, it.rest)
    OBVIOUS
  <2>8. PICK act : act = Activation(it.val, it.key)
    OBVIOUS
  <2>9. /\ Active(f, b) /\ f.key = inner.key /\ f.doc = inner.doc
        /\ inner.doc.kind = "array" => it.key \in Nat
        /\ it.val[1] \in OpenTokens => Active(act, b - 1) /\ act.key = it.key
    BY <2>1, <2>3, <2>5, <2>6, <2>7, <2>8, ItemTaken
  <2>10. \/ it.val[1] \in OpenTokens /\ frames' = outer \o <<f, act>>
         \/ Store(outer, f, it.key, it.val[1])
    BY <1>2, <2>3, <2>6, <2>7, <2>8 DEF ParseItem, Goes, Cut, OpenTokens
  <2>11. outer # << >> => Linked(Last(outer), f)
    BY <2>5, <2>9 DEF Linked
  <2>12. CASE it.val[1] \in OpenTokens /\ frames' = outer \o <<f, act>>
    <3>1. PICK mid : mid = Append(outer, f)
      OBVIOUS
    <3>2. Stacked(mid) /\ Len(mid) = Len(outer) + 1 /\ Last(mid) = f
      BY <2>4, <2>5, <2>9, <2>11, <3>1, StackedMore
    <3>3. MaxNesting - Len(mid) = b - 1
      BY <2>4, <2>5, <3>2, Limit
    <3>4. Linked(f, act)
      BY <2>9, <2>12 DEF Linked
    <3>5. Active(act, MaxNesting - Len(mid))
      BY <2>9, <2>12, <3>3
    <3>6. Stacked(Append(mid, act))
      BY <3>2, <3>4, <3>5, StackedMore
    <3>7. outer \o <<f, act>> = Append(mid, act)
      <4>1. PICK S : outer \in Seq(S)
        BY <2>5 DEF Stacked
      <4>2. outer \in Seq(S \cup {f, act})
        BY <4>1
      <4> QED BY <3>1, <4>2
    <3> QED BY <2>12, <3>6, <3>7 DEF WalkInv
  <2>13. CASE Store(outer, f, it.key, it.val[1])
    <3>1. Stacked(frames')
      BY <2>4, <2>5, <2>9, <2>11, <2>13, StoreKeeps
    <3> QED BY <3>1 DEF WalkInv
  <2> QED BY <2>10, <2>12, <2>13
<1>3. CASE ParseReturn
  <2>1. CASE Outer = << >>
    <3>1. frames' = << >>
      BY <1>3, <2>1 DEF ParseReturn
    <3> QED BY <3>1, StackedNone DEF WalkInv
  <2>2. CASE Outer # << >>
    <3>1. frames # << >> /\ Store(Front(Outer), Last(Outer), Innermost.key, Innermost.doc)
      BY <1>3, <2>2 DEF ParseReturn
    <3>2. Stacked(frames)
      BY <2>2, HollowStops DEF WalkInv
    <3>3. PICK outer, inner : outer = Outer /\ inner = Innermost
      OBVIOUS
    <3>4. Stacked(outer) /\ outer # << >> /\ Linked(Last(outer), inner)
      BY <2>2, <3>1, <3>2, <3>3, StackedSplits DEF Outer, Innermost
    <3>5. /\ Stacked(Front(outer)) /\ Active(Last(outer), MaxNesting - Len(Front(outer)))
          /\ Front(outer) # << >> => Linked(Last(Front(outer)), Last(outer))
      BY <3>4, StackedSplits
    <3>6. Last(outer).doc.kind = "array" => inner.key \in Nat
      BY <3>4 DEF Linked
    <3>7. Stacked(frames')
      BY <3>1, <3>3, <3>5, <3>6, StoreKeeps
    <3> QED BY <3>7 DEF WalkInv
  <2> QED BY <2>1, <2>2
<1>4. CASE UNCHANGED parserVars
  BY <1>4 DEF parserVars, WalkInv
<1> QED BY <1>1, <1>2, <1>3, <1>4 DEF ReadNext, WalkInv

LEMMA WalkIsBounded == ASSUME WalkInv PROVE NestingIsBounded
<1>1. ASSUME Stacked(frames) PROVE NestingIsBounded
  <2>1. PICK S : frames \in Seq(S)
    BY <1>1 DEF Stacked
  <2>2. PICK n \in Nat : n = Len(frames)
    BY <2>1
  <2>3. CASE n = 0
    BY <2>2, <2>3, Limit DEF NestingIsBounded
  <2>4. CASE n # 0
    <3>1. n \in 1..Len(frames)
      BY <2>2, <2>4
    <3>2. PICK f : f = frames[n]
      OBVIOUS
    <3>3. Active(f, MaxNesting - n + 1)
      BY <1>1, <3>1, <3>2 DEF Stacked
    <3>4. PICK acc, p : At(acc, p, f.doc.kind) /\ Fitting(acc, MaxNesting - n + 1)
      BY <3>3 DEF Active, Walks
    <3>5. f.doc.kind \in Kinds
      BY <3>3, KindsOf DEF Active
    <3>6. Len(Scan(acc)[p].nesting) = 1
      <4>1. PICK kind : kind = f.doc.kind
        OBVIOUS
      <4>2. PICK N : N = <<Opens(kind)>>
        OBVIOUS
      <4>3. Len(N) = 1
        BY <3>5, <4>1, <4>2, OneOpen
      <4>4. Scan(acc)[p].nesting = N
        <5>1. PICK x, y : /\ x = [expecting |-> y, nesting |-> N]
                          /\ Scan(acc)[p] = x
          BY <3>4, <4>1, <4>2, Zenon DEF At
        <5>2. x.nesting = N
          BY <5>1
        <5> QED BY <5>1, <5>2
      <4> QED BY <4>3, <4>4
    <3>7. p \in 0..Len(acc)
      <4>1. acc \in Seq(Tokens) /\ p \in 1..(Len(acc) - 1)
        BY <3>4 DEF At
      <4> QED BY <4>1
    <3>8. 1 <= MaxNesting - n + 1
      BY <3>4, <3>6, <3>7 DEF Fitting
    <3> QED BY <2>2, <3>8, Limit DEF NestingIsBounded
  <2> QED BY <2>3, <2>4
<1>2. ASSUME Hollow(frames) PROVE NestingIsBounded
  <2>1. Len(frames) = 1 /\ 1 <= MaxNesting
    BY <1>2, Limit DEF Hollow
  <2> QED BY <2>1 DEF NestingIsBounded
<1> QED BY <1>1, <1>2 DEF WalkInv

LEMMA WalkSeesAll == ASSUME WalkInv PROVE WalkedToTheEnd
<1>1. ASSUME Stacked(frames), frames # << >>, ~ MoreItems
      PROVE  Innermost.rest = <<IF Innermost.doc.kind = "array" THEN "]" ELSE "}">>
  <2>1. PICK f : f = Innermost
    OBVIOUS
  <2>2. PICK b : Active(f, b)
    BY <1>1, <2>1, StackedSplits DEF Innermost
  <2>3. PICK acc, p : At(acc, p, f.doc.kind) /\ f.rest = From(acc, p + 1)
    BY <2>2 DEF Active, Walks
  <2>4. f.doc.kind \in Kinds
    BY <2>2, KindsOf DEF Active
  <2>5. ~ HasNext(f.doc.kind, f.rest)
    BY <1>1, <2>1 DEF MoreItems
  <2>6. \/ From(acc, p + 1) = <<Closes(f.doc.kind)>> /\ ~ HasNext(f.doc.kind, From(acc, p + 1))
        \/ AnItem(acc, f.doc.kind, From(acc, p + 1), 0)
    BY <2>3, <2>4, WalkMeets
  <2>7. f.rest = <<Closes(f.doc.kind)>>
    BY <2>3, <2>5, <2>6 DEF AnItem
  <2> QED BY <2>1, <2>7 DEF Closes
<1>2. ASSUME Hollow(frames)
      PROVE  Len(frames) = 1 /\ Innermost.rest = << >>
             /\ Innermost.doc = EmptyOf(Innermost.doc.kind)
  BY <1>2, HollowStops DEF Hollow
<1> QED BY <1>1, <1>2 DEF WalkInv, WalkedToTheEnd

LEMMA WalkInvHolds == ReadSpec => []WalkInv
<1>1. frames = << >> /\ read = Nothing => WalkInv
  BY StackedNone DEF WalkInv
<1>2. WalkInv /\ [ReadNext]_parserVars => WalkInv'
  BY WalkStep
<1> QED BY <1>1, <1>2, PTL DEF ReadSpec

\* The parser calls itself no deeper than the tokenizer counts, although each
\* nested value is given to the tokenizer again, which then counts from nothing
\* (MG_JSON_MAX_DEPTH).
THEOREM NestingStaysBounded == ReadSpec => []NestingIsBounded
  BY WalkInvHolds, WalkIsBounded, PTL

\* No text makes the walk leave out an item: mg_json_next answers 0 only at the
\* bracket that closes the container, if the tokenizer has accepted the text.
THEOREM NoItemIsLeftOut == ReadSpec => []WalkedToTheEnd
  BY WalkInvHolds, WalkSeesAll, PTL

-------------------------------------------------------------------------------
LEMMA SeqIs ==
  ASSUME NEW S, NEW s \in Seq(S)
  PROVE  IsSeq(s)
<1>1. \A i \in 1..Len(s) : s[i] \in Range(s)
  BY DEF Range
<1>2. s = [i \in 1..Len(s) |-> s[i]] /\ Len(s) \in Nat
  OBVIOUS
<1> HIDE DEF Range
<1>3. s \in [1..Len(s) -> Range(s)]
  BY <1>1, <1>2
<1>4. s \in Seq(Range(s))
  BY <1>2, <1>3
<1> QED BY <1>4 DEF IsSeq

LEMMA SeqAppend ==
  ASSUME NEW s, IsSeq(s), NEW x
  PROVE  /\ IsSeq(Append(s, x)) /\ Append(s, x) # << >>
         /\ Len(s) \in Nat /\ Len(Append(s, x)) = Len(s) + 1
         /\ DOMAIN s = 1..Len(s) /\ DOMAIN Append(s, x) = 1..(Len(s) + 1)
         /\ \A i \in 1..Len(s) : Append(s, x)[i] = s[i]
         /\ Append(s, x)[Len(s) + 1] = x
         /\ Front(Append(s, x)) = s /\ Last(Append(s, x)) = x
<1> DEFINE S == Range(s) \cup {x}
<1>1. s \in Seq(S)
  BY DEF IsSeq
<1>2. x \in S
  OBVIOUS
<1> HIDE DEF S
<1>3. Append(s, x) \in Seq(S)
  BY <1>1, <1>2
<1>4. IsSeq(Append(s, x))
  BY <1>3, SeqIs
<1>5. /\ Len(Append(s, x)) = Len(s) + 1 /\ Append(s, x)[Len(s) + 1] = x /\ Len(s) \in Nat
      /\ DOMAIN s = 1..Len(s) /\ DOMAIN Append(s, x) = 1..(Len(s) + 1)
      /\ \A i \in 1..Len(s) : Append(s, x)[i] = s[i]
  BY <1>1, <1>2
<1>6. Front(Append(s, x)) = s
  <2>1. /\ Front(Append(s, x)) \in Seq(S) /\ Len(Front(Append(s, x))) = Len(s)
        /\ \A i \in 1..Len(s) : Front(Append(s, x))[i] = Append(s, x)[i]
    BY <1>3, <1>5 DEF Front
  <2> QED BY <1>1, <1>5, <2>1, SeqEqual
<1>7. Append(s, x) # << >> /\ Last(Append(s, x)) = x
  BY <1>3, <1>5 DEF Last
<1> QED BY <1>4, <1>5, <1>6, <1>7

LEMMA SeqSplit ==
  ASSUME NEW s, IsSeq(s), s # << >>
  PROVE  /\ s = Append(Front(s), Last(s)) /\ IsSeq(Front(s)) /\ Len(s) \in Nat \ {0}
         /\ Len(Front(s)) = Len(s) - 1 /\ Last(s) = s[Len(s)]
         /\ \A i \in 1..Len(s) - 1 : Front(s)[i] = s[i]
<1>1. s \in Seq(Range(s))
  BY DEF IsSeq
<1>2. Len(s) \in Nat \ {0} /\ Last(s) = s[Len(s)] /\ Last(s) \in Range(s)
  BY <1>1 DEF Last
<1>3. /\ Front(s) \in Seq(Range(s)) /\ Len(Front(s)) = Len(s) - 1
      /\ \A i \in 1..Len(s) - 1 : Front(s)[i] = s[i]
  <2> DEFINE S == Range(s)
  <2>1. s \in Seq(S) /\ Len(s) \in Nat \ {0}
    BY <1>1, <1>2
  <2> HIDE DEF S
  <2>2. /\ SubSeq(s, 1, Len(s) - 1) \in Seq(S)
        /\ Len(SubSeq(s, 1, Len(s) - 1)) = Len(s) - 1
        /\ \A i \in 1..Len(s) - 1 : SubSeq(s, 1, Len(s) - 1)[i] = s[i]
    <3> DEFINE n == Len(s) - 1
    <3>1. n \in Nat /\ 1 \in Int /\ n \in Int /\ \A i \in 1..n : s[i] \in S
      BY <2>1
    <3> HIDE DEF n
    <3>2. /\ SubSeq(s, 1, n) \in Seq(S) /\ Len(SubSeq(s, 1, n)) = IF 1 <= n THEN n - 1 + 1 ELSE 0
          /\ \A i \in 1..n - 1 + 1 : SubSeq(s, 1, n)[i] = s[1 + i - 1]
      BY <3>1, SubSeqProperties
    <3>3. Len(SubSeq(s, 1, n)) = n /\ \A i \in 1..n : SubSeq(s, 1, n)[i] = s[i]
      <4>1. n - 1 + 1 = n /\ (1 <= n \/ n = 0) /\ \A i \in 1..n : 1 + i - 1 = i
        BY <3>1
      <4> QED BY <3>2, <4>1
    <3> QED BY <3>2, <3>3 DEF n
  <2> QED BY <2>2 DEF Front, S
<1>4. IsSeq(Front(s))
  BY <1>3, SeqIs
<1>5. s = Append(Front(s), Last(s))
  <2>1. /\ Append(Front(s), Last(s)) \in Seq(Range(s)) /\ Len(Append(Front(s), Last(s))) = Len(s)
        /\ \A i \in 1..Len(s) : Append(Front(s), Last(s))[i] = s[i]
    BY <1>1, <1>2, <1>3
  <2> QED BY <1>1, <2>1, SeqEqual
<1> QED BY <1>2, <1>3, <1>4, <1>5

-------------------------------------------------------------------------------
(***************************************************************************)
(* The text of an element.  A claim that a text is that of a value, or is  *)
(* what is left of a container's behind its first k parts, rests on claims *)
(* about shorter texts; it holds if they all do.                           *)
(***************************************************************************)
PartAt(x, k) == IF x.kind = "array" THEN x.items[k] ELSE x.pairs[k][2]
KeyAt(x, k) == IF x.kind = "array" THEN k - 1 ELSE x.pairs[k][1]
ValueFrom(x) == IF x.kind = "array" THEN 1 ELSE 3

\* An element without the key "env": it has counted all its pairs.
EnvFree(x) == IsProper(x) /\ (x.kind = "object" => EnvKey \notin KeysOf(x))

AsText(u, x, n) == [text |-> u, of |-> x, level |-> n]
AsRest(r, x, n, k) == [text |-> r, of |-> x, level |-> n, behind |-> k]

\* The value x, nested n levels deep; V and W hold the claims.
TextOf(W, u, x, n) ==
  /\ u \in Seq(Tokens) /\ Len(u) >= 1 /\ n \in Nat
  /\ ~IsNested(x) => x \in Scalars \ {Broken} /\ Len(u) = 1 /\ u[1] = x
  /\ IsNested(x) =>
       /\ EnvFree(x) /\ n < MaxNesting
       /\ u[1] = Opens(x.kind) /\ AsRest(From(u, 2), x, n, 0) \in W

\* An item stands in s from p to q, and the next one from e on.
ItemIn(V, W, s, x, n, k, q, e) ==
  /\ q \in Nat /\ ValueFrom(x) <= q /\ q < Len(s)
  /\ AsText(SubSeq(s, ValueFrom(x), q), PartAt(x, k), n + 1) \in V
  /\ x.kind = "object" => s[1] = x.pairs[k][1] /\ s[2] = ":"
  /\ IF k = Size(x) THEN e = q + 1 ELSE e = q + 2 /\ s[q + 1] = ","
  /\ AsRest(From(s, e), x, n, k) \in W

RestOf(V, W, s, x, n, k) ==
  /\ s \in Seq(Tokens) /\ n \in Nat /\ n < MaxNesting /\ EnvFree(x) /\ k \in 0..Size(x)
  /\ k = Size(x) => s = <<Closes(x.kind)>>
  /\ k # Size(x) => \E q, e : ItemIn(V, W, s, x, n, k + 1, q, e)

Supported(V, W) ==
  /\ \A u, x, n : AsText(u, x, n) \in V => TextOf(W, u, x, n)
  /\ \A s, x, n, k : AsRest(s, x, n, k) \in W => RestOf(V, W, s, x, n, k)

Tells(u, x, n) == \E V, W : Supported(V, W) /\ AsText(u, x, n) \in V
Remains(s, x, n, k) == \E V, W : Supported(V, W) /\ AsRest(s, x, n, k) \in W

LEMMA TellsDown ==
  ASSUME NEW u, NEW x, NEW n, Tells(u, x, n)
  PROVE  /\ u \in Seq(Tokens) /\ Len(u) \in Nat /\ Len(u) >= 1 /\ n \in Nat
         /\ ~IsNested(x) => x \in Scalars \ {Broken} /\ Len(u) = 1 /\ u[1] = x
         /\ IsNested(x) =>
              /\ EnvFree(x) /\ x.kind \in Kinds /\ n < MaxNesting
              /\ u[1] = Opens(x.kind) /\ Remains(From(u, 2), x, n, 0)
<1>1. PICK V, W : Supported(V, W) /\ AsText(u, x, n) \in V
  BY DEF Tells
<1>2. TextOf(W, u, x, n)
  BY <1>1, Zenon DEF Supported
<1>3. u \in Seq(Tokens) /\ Len(u) >= 1 /\ n \in Nat
  BY <1>2 DEF TextOf
<1>4. Len(u) \in Nat
  BY <1>3
<1>5. ~IsNested(x) => x \in Scalars \ {Broken} /\ Len(u) = 1 /\ u[1] = x
  BY <1>2, Zenon DEF TextOf
<1>6. ASSUME IsNested(x)
      PROVE  /\ EnvFree(x) /\ x.kind \in Kinds /\ n < MaxNesting
             /\ u[1] = Opens(x.kind) /\ Remains(From(u, 2), x, n, 0)
  <2>1. /\ EnvFree(x) /\ n < MaxNesting
        /\ u[1] = Opens(x.kind) /\ AsRest(From(u, 2), x, n, 0) \in W
    BY <1>2, <1>6, Zenon DEF TextOf
  <2>2. x.kind \in Kinds
    BY <2>1, Zenon DEF EnvFree, IsProper, Kinds
  <2>3. Remains(From(u, 2), x, n, 0)
    BY <1>1, <2>1, Zenon DEF Remains
  <2> QED BY <2>1, <2>2, <2>3
<1> QED BY <1>3, <1>4, <1>5, <1>6

\* An item of x, from p to q of what is left; what is left then begins at e.
StandsAt(s, x, n, k, p, q, e) ==
  /\ p = ValueFrom(x) /\ q \in Nat /\ p <= q /\ q < Len(s)
  /\ Tells(SubSeq(s, p, q), PartAt(x, k), n + 1)
  /\ x.kind = "object" => s[1] = x.pairs[k][1] /\ s[2] = ":"
  /\ IF k = Size(x) THEN e = q + 1 ELSE e = q + 2 /\ s[q + 1] = ","
  /\ Remains(From(s, e), x, n, k)

LEMMA RemainsDown ==
  ASSUME NEW s, NEW x, NEW n, NEW k, Remains(s, x, n, k)
  PROVE  /\ s \in Seq(Tokens) /\ Len(s) \in Nat /\ n \in Nat /\ n < MaxNesting
         /\ EnvFree(x) /\ x.kind \in Kinds /\ k \in 0..Size(x)
         /\ k = Size(x) => s = <<Closes(x.kind)>>
         /\ k # Size(x) => \E p, q, e : StandsAt(s, x, n, k + 1, p, q, e)
<1>1. PICK V, W : Supported(V, W) /\ AsRest(s, x, n, k) \in W
  BY DEF Remains
<1>2. RestOf(V, W, s, x, n, k)
  BY <1>1, Zenon DEF Supported
<1>3. s \in Seq(Tokens) /\ n \in Nat /\ n < MaxNesting /\ EnvFree(x) /\ k \in 0..Size(x)
      /\ (k = Size(x) => s = <<Closes(x.kind)>>)
      /\ (k # Size(x) => \E q, e : ItemIn(V, W, s, x, n, k + 1, q, e))
  BY <1>2, Zenon DEF RestOf
<1>4. Len(s) \in Nat
  BY <1>3
<1>5. x.kind \in Kinds
  BY <1>3, Zenon DEF EnvFree, IsProper, Kinds
<1>6. ASSUME NEW q, NEW e, ItemIn(V, W, s, x, n, k + 1, q, e)
      PROVE  StandsAt(s, x, n, k + 1, ValueFrom(x), q, e)
  <2>1. /\ q \in Nat /\ ValueFrom(x) <= q /\ q < Len(s)
        /\ x.kind = "object" => s[1] = x.pairs[k + 1][1] /\ s[2] = ":"
        /\ IF k + 1 = Size(x) THEN e = q + 1 ELSE e = q + 2 /\ s[q + 1] = ","
    BY <1>6, Zenon DEF ItemIn
  <2>2. Tells(SubSeq(s, ValueFrom(x), q), PartAt(x, k + 1), n + 1)
    BY <1>1, <1>6, Zenon DEF ItemIn, Tells
  <2>3. Remains(From(s, e), x, n, k + 1)
    BY <1>1, <1>6, Zenon DEF ItemIn, Remains
  <2> QED BY <2>1, <2>2, <2>3, Zenon DEF StandsAt
<1> QED BY <1>3, <1>4, <1>5, <1>6, Zenon

LEMMA RemainsSome ==
  ASSUME NEW s, NEW x, NEW n, NEW k, Remains(s, x, n, k)
  PROVE  Len(s) >= 1
<1>1. CASE k = Size(x)
  <2>1. s = <<Closes(x.kind)>>
    BY <1>1, RemainsDown
  <2> QED BY <2>1
<1>2. CASE k # Size(x)
  <2>1. \E p, q, e : StandsAt(s, x, n, k + 1, p, q, e)
    BY <1>2, RemainsDown
  <2>2. \E q : q \in Nat /\ q < Len(s)
    BY <2>1, Zenon DEF StandsAt
  <2>3. Len(s) \in Nat
    BY RemainsDown
  <2> QED BY <2>2, <2>3
<1> QED BY <1>1, <1>2

LEMMA SizeIs ==
  ASSUME NEW x, EnvFree(x)
  PROVE  /\ Size(x) \in Nat
         /\ x.kind = "array" => x = Array(x.items) /\ IsSeq(x.items) /\ Size(x) = Len(x.items)
         /\ x.kind # "array" =>
              /\ x.kind = "object" /\ x = Object(x.pairs) /\ IsSeq(x.pairs)
              /\ Size(x) = Len(x.pairs) /\ DOMAIN x.pairs = 1..Len(x.pairs)
              /\ \A i \in 1..Len(x.pairs) :
                   /\ x.pairs[i] = <<x.pairs[i][1], x.pairs[i][2]>>
                   /\ x.pairs[i][1] \in Strings \ {Digits, EnvKey}
              /\ \A i, j \in 1..Len(x.pairs) : x.pairs[i][1] = x.pairs[j][1] => i = j
<1>1. CASE x.kind = "array"
  <2>1. x = Array(x.items) /\ IsSeq(x.items)
    BY <1>1 DEF EnvFree, IsProper
  <2>2. Len(x.items) \in Nat
    BY <2>1, SeqAppend
  <2>3. Size(x) = Len(x.items)
    BY <1>1 DEF Size
  <2> QED BY <1>1, <2>1, <2>2, <2>3
<1>2. CASE x.kind # "array"
  <2>0. /\ x.kind = "object" /\ x = Listing(x.pairs, x.count) /\ IsSeq(x.pairs)
        /\ EnvKey \notin KeysOf(x) /\ x.count = Len(x.pairs)
        /\ KeysOf(x) \subseteq Strings \ {Digits}
        /\ \A i \in DOMAIN x.pairs : x.pairs[i] = <<x.pairs[i][1], x.pairs[i][2]>>
        /\ \A i, j \in DOMAIN x.pairs : x.pairs[i][1] = x.pairs[j][1] => i = j
    BY <1>2, Zenon DEF EnvFree, IsProper
  <2>1. /\ x.kind = "object" /\ x = Object(x.pairs) /\ IsSeq(x.pairs)
        /\ KeysOf(x) \subseteq Strings \ {Digits, EnvKey}
        /\ \A i \in DOMAIN x.pairs : x.pairs[i] = <<x.pairs[i][1], x.pairs[i][2]>>
        /\ \A i, j \in DOMAIN x.pairs : x.pairs[i][1] = x.pairs[j][1] => i = j
    BY <2>0, Zenon DEF Object
  <2>2. Len(x.pairs) \in Nat /\ DOMAIN x.pairs = 1..Len(x.pairs)
    BY <2>1, SeqAppend
  <2>3. Size(x) = Len(x.pairs)
    BY <1>2, <2>0 DEF Size
  <2>4. \A i \in 1..Len(x.pairs) : x.pairs[i][1] \in Strings \ {Digits, EnvKey}
    BY <2>1, <2>2, Zenon DEF KeysOf
  <2>5. \A i \in 1..Len(x.pairs) : x.pairs[i] = <<x.pairs[i][1], x.pairs[i][2]>>
    BY <2>1, <2>2, Zenon
  <2>6. \A i, j \in 1..Len(x.pairs) : x.pairs[i][1] = x.pairs[j][1] => i = j
    BY <2>1, <2>2, Zenon
  <2> QED BY <1>2, <2>1, <2>2, <2>3, <2>4, <2>5, <2>6, Zenon
<1> QED BY <1>1, <1>2

-------------------------------------------------------------------------------
(***************************************************************************)
(* The tokenizer on the text of an element, wherever it stands.            *)
(***************************************************************************)
St(e, N) == [expecting |-> e, nesting |-> N]

\* What may follow in the container x behind its first k parts.
Opening(kind) == IF kind = "array" THEN "value" ELSE "key"
Expects(x, k) == IF k # 0 /\ k = Size(x) THEN "comma" ELSE Opening(x.kind)

LEMMA TokenIs ==
  ASSUME NEW N \in Seq(OpenTokens), NEW c
  PROVE  /\ c \in OpenTokens /\ Len(N) < MaxNesting =>
              After(St("value", N), c) = St(IF c = "{" THEN "key" ELSE "value", Append(N, c))
         /\ c \in Scalars \ {Broken} =>
              After(St("value", N), c) = St(IF N = << >> THEN "done" ELSE "comma", N)
         /\ c \in Strings => After(St("key", N), c) = St("colon", N)
         /\ After(St("colon", N), ":") = St("value", N)
         /\ After(St("comma", N), ",") = St(IF Last(N) = "{" THEN "key" ELSE "value", N)
<1>1. \A x \in {"{", "}", "[", "]", ":", ","} : x \notin Scalars /\ x \notin Strings
  BY Zenon, ParserAssumption DEF Scalars
<1>2. ASSUME c \in OpenTokens, Len(N) < MaxNesting
      PROVE  After(St("value", N), c) = St(IF c = "{" THEN "key" ELSE "value", Append(N, c))
  <2>1. c \in {"{", "["} /\ c # "]" /\ c \notin Scalars
    BY <1>1, <1>2 DEF OpenTokens
  <2>2. ~ Len(N) >= MaxNesting
    BY <1>2, Limit
  <2>3. PICK st : st = St("value", N)
    OBVIOUS
  <2>4. st.expecting = "value" /\ st.nesting = N
    BY <2>3 DEF St
  <2>5. After(st, c) = Open(st, c)
    BY <2>1, <2>4 DEF After
  <2>6. Open(st, c) = St(IF c = "{" THEN "key" ELSE "value", Append(N, c))
    BY <2>2, <2>4, Zenon DEF Open, St
  <2> QED BY <2>3, <2>5, <2>6
<1>3. ASSUME c \in Scalars \ {Broken}
      PROVE  After(St("value", N), c) = St(IF N = << >> THEN "done" ELSE "comma", N)
  <2>1. c \notin {"{", "["} /\ c # "]"
    BY <1>1, <1>3
  <2> QED BY <1>3, <2>1 DEF After, St
<1>4. c \in Strings => After(St("key", N), c) = St("colon", N)
  BY MayFollow, Zenon DEF St
<1>5. After(St("colon", N), ":") = St("value", N)
  BY MayFollow, Zenon DEF St
<1>6. After(St("comma", N), ",") = St(IF Last(N) = "{" THEN "key" ELSE "value", N)
  BY DEF After, St
<1> QED BY <1>2, <1>3, <1>4, <1>5, <1>6

LEMMA ClosingIs ==
  ASSUME NEW kind \in Kinds, NEW N \in Seq(OpenTokens), N # << >>, Last(N) = Opens(kind),
         NEW e \in {"comma", Opening(kind)}
  PROVE  After(St(e, N), Closes(kind)) = St(IF Len(N) = 1 THEN "done" ELSE "comma", Front(N))
<1>1. PICK st, c : st = St(e, N) /\ c = Closes(kind)
  OBVIOUS
<1>2. st.expecting = e /\ st.nesting = N
  BY <1>1 DEF St
<1>3. c \in CloseTokens
  BY <1>1 DEF Closes, CloseTokens
<1>4. After(st, c) = Close(st, c)
  <2>1. CASE e = "comma"
    <3>1. st = [expecting |-> "comma", nesting |-> N]
      BY <1>1, <2>1 DEF St
    <3>2. c \in CloseTokens =>
            LET s == [expecting |-> "comma", nesting |-> N] IN After(s, c) = Close(s, c)
      BY MayFollow
    <3> QED BY <1>3, <3>1, <3>2
  <2>2. CASE e # "comma" /\ kind = "array"
    <3>1. st = [expecting |-> "value", nesting |-> N] /\ c = "]"
      BY <1>1, <2>2 DEF St, Opening, Closes
    <3>2. LET s == [expecting |-> "value", nesting |-> N] IN After(s, "]") = Close(s, "]")
      BY MayFollow
    <3> QED BY <3>1, <3>2
  <2>3. CASE e # "comma" /\ kind # "array"
    <3>1. st = [expecting |-> "key", nesting |-> N] /\ c = "}"
      BY <1>1, <2>3 DEF St, Opening, Closes
    <3>2. LET s == [expecting |-> "key", nesting |-> N] IN After(s, "}") = Close(s, "}")
      BY MayFollow
    <3> QED BY <3>1, <3>2
  <2> QED BY <2>1, <2>2, <2>3
<1>5. <<Last(N), c>> \in Fits
  BY <1>1, OneOpen
<1>6. Close(st, c) = St(IF Len(N) = 1 THEN "done" ELSE "comma", Front(N))
  BY <1>2, <1>5, Zenon DEF Close, St
<1> QED BY <1>1, <1>4, <1>6

\* The text u stands in s behind the token i.
StandsIn(s, i, u) ==
  /\ s \in Seq(Tokens) /\ i \in Nat /\ i + Len(u) <= Len(s)
  /\ \A j \in 1..Len(u) : s[i + j] = u[j]

ScansText(u) ==
  \A s, i, x, n : \A N \in Seq(OpenTokens) :
    Tells(u, x, n) /\ StandsIn(s, i, u) /\ Len(N) <= n /\ Scan(s)[i] = St("value", N)
      => Scan(s)[i + Len(u)] = St(IF N = << >> THEN "done" ELSE "comma", N)

\* The bracket of x is the innermost one, and the others are of what it is in.
InnermostIn(N, x, n) == N # << >> /\ Len(N) <= n + 1 /\ Last(N) = Opens(x.kind)

ScansRest(u) ==
  \A s, i, x, n, k : \A N \in Seq(OpenTokens) :
    Remains(u, x, n, k) /\ StandsIn(s, i, u) /\ InnermostIn(N, x, n) /\ Scan(s)[i] = St(Expects(x, k), N)
      => Scan(s)[i + Len(u)] = St(IF Len(N) = 1 THEN "done" ELSE "comma", Front(N))

\* The token behind i.
LEMMA NextToken ==
  ASSUME NEW s \in Seq(Tokens), NEW i \in Nat, i + 1 <= Len(s)
  PROVE  Scan(s)[i + 1] = After(Scan(s)[i], s[i + 1])
<1>1. PICK n \in 1..Len(s) : n = i + 1
  OBVIOUS
<1>2. n - 1 = i
  BY <1>1
<1> QED BY <1>1, <1>2, ScanIs

\* What stands in u stands in s.
LEMMA StandsWithin ==
  ASSUME NEW s, NEW i, NEW u \in Seq(Tokens), StandsIn(s, i, u), NEW p \in Nat, p >= 1, NEW q \in Nat, p <= q,
         q <= Len(u)
  PROVE  /\ SubSeq(u, p, q) \in Seq(Tokens) /\ Len(SubSeq(u, p, q)) = q - p + 1
         /\ StandsIn(s, i + p - 1, SubSeq(u, p, q))
<1>1. PICK v : v = SubSeq(u, p, q)
  OBVIOUS
<1>2. Len(u) \in Nat /\ p \in Nat \ {0}
  OBVIOUS
<1>3. v \in Seq(Tokens) /\ Len(v) = q - p + 1 /\ \A k \in 1..(q - p + 1) : v[k] = u[p + k - 1]
  BY <1>1, <1>2, Slice
<1>4. /\ s \in Seq(Tokens) /\ i \in Nat /\ i + Len(u) <= Len(s)
      /\ \A j \in 1..Len(u) : s[i + j] = u[j]
  BY DEF StandsIn
<1>5. i + p - 1 \in Nat /\ (i + p - 1) + Len(v) <= Len(s)
  <2>1. Len(s) \in Nat
    BY <1>4
  <2> QED BY <1>2, <1>3, <1>4, <2>1
<1>6. ASSUME NEW j \in 1..Len(v) PROVE s[(i + p - 1) + j] = v[j]
  <2>1. PICK m \in 1..Len(u) : m = p + j - 1
    BY <1>2, <1>3
  <2>2. (i + p - 1) + j = i + m /\ j \in 1..(q - p + 1)
    BY <1>3, <1>4, <2>1
  <2> QED BY <1>3, <1>4, <2>1, <2>2
<1>7. StandsIn(s, i + p - 1, v)
  BY <1>4, <1>5, <1>6 DEF StandsIn
<1> QED BY <1>1, <1>3, <1>7

LEMMA RestWithin ==
  ASSUME NEW s, NEW i, NEW u \in Seq(Tokens), StandsIn(s, i, u), NEW e \in Nat, e >= 1, e <= Len(u)
  PROVE  /\ From(u, e) \in Seq(Tokens) /\ Len(From(u, e)) = Len(u) - e + 1
         /\ StandsIn(s, i + e - 1, From(u, e))
<1>1. Len(u) \in Nat
  OBVIOUS
<1>2. PICK q \in Nat : q = Len(u)
  BY <1>1
<1>3. From(u, e) = SubSeq(u, e, q)
  BY <1>2 DEF From
<1>4. /\ SubSeq(u, e, q) \in Seq(Tokens) /\ Len(SubSeq(u, e, q)) = q - e + 1
      /\ StandsIn(s, i + e - 1, SubSeq(u, e, q))
  BY <1>2, StandsWithin
<1> QED BY <1>2, <1>3, <1>4

LEMMA TextScanned ==
  ASSUME NEW u \in Seq(Tokens), \A v \in Seq(Tokens) : Len(v) < Len(u) => ScansRest(v)
  PROVE  ScansText(u)
<1> SUFFICES ASSUME NEW s, NEW i, NEW x, NEW n, NEW N \in Seq(OpenTokens),
                    Tells(u, x, n), StandsIn(s, i, u), Len(N) <= n, Scan(s)[i] = St("value", N)
             PROVE  Scan(s)[i + Len(u)] = St(IF N = << >> THEN "done" ELSE "comma", N)
  BY Zenon DEF ScansText
<1>1. s \in Seq(Tokens) /\ i \in Nat /\ i + Len(u) <= Len(s) /\ \A j \in 1..Len(u) : s[i + j] = u[j]
  BY DEF StandsIn
<1>2. Len(u) \in Nat /\ Len(u) >= 1 /\ n \in Nat /\ Len(s) \in Nat /\ Len(N) \in Nat
  BY <1>1, TellsDown
<1>3. i + 1 <= Len(s) /\ s[i + 1] = u[1]
  BY <1>1, <1>2
<1>4. Scan(s)[i + 1] = After(St("value", N), u[1])
  BY <1>1, <1>3, NextToken
<1>5. CASE ~IsNested(x)
  <2>1. x \in Scalars \ {Broken} /\ Len(u) = 1 /\ u[1] = x
    BY <1>5, TellsDown
  <2>2. After(St("value", N), x) = St(IF N = << >> THEN "done" ELSE "comma", N)
    BY <2>1, TokenIs
  <2> QED BY <1>4, <2>1, <2>2
<1>6. CASE IsNested(x)
  <2>1. /\ EnvFree(x) /\ x.kind \in Kinds /\ n < MaxNesting
        /\ u[1] = Opens(x.kind) /\ Remains(From(u, 2), x, n, 0)
    BY <1>6, TellsDown
  <2>2. PICK c \in OpenTokens : c = Opens(x.kind)
    BY DEF Opens, OpenTokens
  <2>3. PICK M : M = Append(N, c)
    OBVIOUS
  <2>4. M \in Seq(OpenTokens) /\ Len(M) = Len(N) + 1 /\ M # << >> /\ Last(M) = c /\ Front(M) = N
    <3>1. M \in Seq(OpenTokens) /\ Len(M) = Len(N) + 1
      BY <2>3
    <3>2. IsSeq(N)
      BY SeqIs
    <3> QED BY <2>3, <3>1, <3>2, SeqAppend
  <2>5. Scan(s)[i + 1] = St(Expects(x, 0), M)
    <3>1. Len(N) < MaxNesting
      BY <1>2, <2>1, Limit
    <3>2. After(St("value", N), c) = St(IF c = "{" THEN "key" ELSE "value", M)
      BY <2>3, <3>1, TokenIs
    <3>3. (IF c = "{" THEN "key" ELSE "value") = Expects(x, 0)
      BY <2>1, <2>2 DEF Opens, Expects, Opening, Kinds
    <3> QED BY <1>4, <2>1, <2>2, <3>2, <3>3
  <2>6. PICK r : r = From(u, 2)
    OBVIOUS
  <2>7. Len(u) >= 2
    <3>1. Len(r) >= 1
      BY <2>1, <2>6, RemainsSome
    <3>2. Len(r) = IF 2 <= Len(u) THEN Len(u) - 2 + 1 ELSE 0
      <4>1. 2 \in Nat \ {0}
        OBVIOUS
      <4> QED BY <2>6, <4>1, FromIs
    <3> QED BY <1>2, <3>1, <3>2
  <2>8. r \in Seq(Tokens) /\ Len(r) = Len(u) - 2 + 1 /\ StandsIn(s, i + 2 - 1, r)
    BY <2>6, <2>7, RestWithin
  <2>9. PICK h \in Nat : h = i + 1 /\ h = i + 2 - 1
    BY <1>1
  <2>10. ScansRest(r)
    BY <1>2, <2>8
  <2>11. Len(M) <= n + 1
    BY <1>2, <2>4
  <2>12. Scan(s)[h + Len(r)] = St(IF Len(M) = 1 THEN "done" ELSE "comma", Front(M))
    <3>1. /\ Remains(r, x, n, 0) /\ StandsIn(s, h, r) /\ InnermostIn(M, x, n)
          /\ Scan(s)[h] = St(Expects(x, 0), M)
      BY <2>1, <2>2, <2>4, <2>5, <2>6, <2>8, <2>9, <2>11 DEF InnermostIn
    <3> QED BY <2>4, <2>10, <3>1, Zenon DEF ScansRest
  <2>13. h + Len(r) = i + Len(u)
    BY <1>1, <1>2, <2>8, <2>9
  <2>14. Len(M) = 1 <=> N = << >>
    BY <1>2, <2>4, EmptySeq
  <2> QED BY <2>4, <2>12, <2>13, <2>14
<1> QED BY <1>5, <1>6

\* Where the key of an item ends, its value begins.
LEMMA KeyScanned ==
  ASSUME NEW s, NEW i, NEW u \in Seq(Tokens), StandsIn(s, i, u), NEW x, EnvFree(x), NEW k \in 1..Size(x),
         NEW N \in Seq(OpenTokens), Scan(s)[i] = St(Opening(x.kind), N),
         Len(u) > ValueFrom(x), x.kind = "object" => u[1] = x.pairs[k][1] /\ u[2] = ":"
  PROVE  Scan(s)[i + ValueFrom(x) - 1] = St("value", N)
<1>1. s \in Seq(Tokens) /\ i \in Nat /\ i + Len(u) <= Len(s) /\ \A j \in 1..Len(u) : s[i + j] = u[j]
  BY DEF StandsIn
<1>2. Len(u) \in Nat /\ Len(s) \in Nat
  BY <1>1
<1>3. CASE x.kind = "array"
  BY <1>1, <1>3 DEF ValueFrom, Opening
<1>4. CASE x.kind # "array"
  <2>1. /\ x.kind = "object" /\ u[1] \in Strings /\ u[2] = ":"
    <3>1. x.kind = "object" /\ Size(x) = Len(x.pairs)
      BY <1>4, SizeIs
    <3>2. x.pairs[k][1] \in Strings
      BY <1>4, <3>1, SizeIs
    <3> QED BY <3>1, <3>2
  <2>2. ValueFrom(x) = 3 /\ Len(u) > 3
    BY <1>4 DEF ValueFrom
  <2>3. i + 1 <= Len(s) /\ i + 1 + 1 <= Len(s) /\ i + 1 \in Nat /\ s[i + 1] = u[1] /\ s[i + 2] = u[2]
        /\ i + 1 + 1 = i + 2 /\ i + 3 - 1 = i + 2
    BY <1>1, <1>2, <2>2
  <2>4. Scan(s)[i + 1] = St("colon", N)
    <3>1. Scan(s)[i + 1] = After(Scan(s)[i], s[i + 1])
      BY <1>1, <2>3, NextToken
    <3>2. Scan(s)[i] = St("key", N)
      BY <1>4 DEF Opening
    <3>3. After(St("key", N), u[1]) = St("colon", N)
      BY <2>1, TokenIs
    <3> QED BY <2>3, <3>1, <3>2, <3>3
  <2>5. Scan(s)[i + 2] = St("value", N)
    <3>1. Scan(s)[i + 1 + 1] = After(Scan(s)[i + 1], s[i + 1 + 1])
      BY <1>1, <2>3, NextToken
    <3>2. After(St("colon", N), ":") = St("value", N)
      BY TokenIs
    <3>3. s[i + 1 + 1] = ":"
      BY <2>1, <2>3
    <3> QED BY <2>3, <2>4, <3>1, <3>2, <3>3
  <2> QED BY <2>2, <2>3, <2>5
<1> QED BY <1>3, <1>4

LEMMA RestScanned ==
  ASSUME NEW u \in Seq(Tokens),
         \A v \in Seq(Tokens) : Len(v) < Len(u) => ScansText(v) /\ ScansRest(v)
  PROVE  ScansRest(u)
<1> SUFFICES ASSUME NEW s, NEW i, NEW x, NEW n, NEW k, NEW N \in Seq(OpenTokens),
                    Remains(u, x, n, k), StandsIn(s, i, u), InnermostIn(N, x, n),
                    Scan(s)[i] = St(Expects(x, k), N)
             PROVE  Scan(s)[i + Len(u)] = St(IF Len(N) = 1 THEN "done" ELSE "comma", Front(N))
  BY Zenon DEF ScansRest
<1>1. s \in Seq(Tokens) /\ i \in Nat /\ i + Len(u) <= Len(s) /\ \A j \in 1..Len(u) : s[i + j] = u[j]
  BY DEF StandsIn
<1>0. N # << >> /\ Len(N) <= n + 1 /\ Last(N) = Opens(x.kind)
  BY DEF InnermostIn
<1>2. /\ Len(u) \in Nat /\ n \in Nat /\ n < MaxNesting /\ EnvFree(x) /\ x.kind \in Kinds
      /\ k \in 0..Size(x) /\ Size(x) \in Nat /\ Len(s) \in Nat
      /\ k = Size(x) => u = <<Closes(x.kind)>>
      /\ k # Size(x) => \E p, q, e : StandsAt(u, x, n, k + 1, p, q, e)
  BY <1>1, RemainsDown, SizeIs
<1>3. CASE k = Size(x)
  <2>1. Len(u) = 1 /\ u[1] = Closes(x.kind)
    BY <1>2, <1>3
  <2>2. Scan(s)[i + 1] = After(St(Expects(x, k), N), Closes(x.kind))
    <3>1. i + 1 <= Len(s) /\ s[i + 1] = u[1]
      BY <1>1, <2>1
    <3> QED BY <1>1, <2>1, <3>1, NextToken
  <2>3. Expects(x, k) \in {"comma", Opening(x.kind)}
    BY DEF Expects
  <2>4. After(St(Expects(x, k), N), Closes(x.kind)) = St(IF Len(N) = 1 THEN "done" ELSE "comma", Front(N))
    BY <1>0, <1>2, <2>3, ClosingIs
  <2> QED BY <2>1, <2>2, <2>4
<1>4. CASE k # Size(x)
  <2>1. PICK p, q, e : StandsAt(u, x, n, k + 1, p, q, e)
    BY <1>2, <1>4
  <2>2. /\ p = ValueFrom(x) /\ q \in Nat /\ p <= q /\ q < Len(u)
        /\ Tells(SubSeq(u, p, q), PartAt(x, k + 1), n + 1)
        /\ k + 1 = Size(x) => e = q + 1
        /\ k + 1 # Size(x) => e = q + 2
        /\ Remains(From(u, e), x, n, k + 1)
    BY <2>1, Zenon DEF StandsAt
  <2>22. /\ x.kind = "object" => u[1] = x.pairs[k + 1][1] /\ u[2] = ":"
         /\ k + 1 # Size(x) => u[q + 1] = ","
    BY <2>1, Zenon DEF StandsAt
  <2>3. p \in Nat /\ p >= 1 /\ e \in Nat /\ e > q /\ k + 1 \in 1..Size(x)
    BY <1>2, <1>4, <2>2 DEF ValueFrom
  <2>4. PICK v, r : v = SubSeq(u, p, q) /\ r = From(u, e)
    OBVIOUS
  <2>5. e <= Len(u)
    <3>1. Len(r) >= 1
      BY <2>2, <2>4, RemainsSome
    <3>2. Len(r) = IF e <= Len(u) THEN Len(u) - e + 1 ELSE 0
      <4>1. e \in Nat \ {0}
        BY <2>2, <2>3
      <4> QED BY <2>4, <4>1, FromIs
    <3> QED BY <1>2, <2>3, <3>1, <3>2
  <2>6. v \in Seq(Tokens) /\ Len(v) = q - p + 1 /\ StandsIn(s, i + p - 1, v)
    <3>1. q <= Len(u)
      BY <1>2, <2>2
    <3> QED BY <2>2, <2>3, <2>4, <3>1, StandsWithin
  <2>7. r \in Seq(Tokens) /\ Len(r) = Len(u) - e + 1 /\ StandsIn(s, i + e - 1, r)
    <3>1. e >= 1
      BY <2>2, <2>3
    <3> QED BY <2>3, <2>4, <2>5, <3>1, RestWithin
  <2>8. ScansText(v) /\ ScansRest(r)
    <3>1. Len(v) < Len(u)
      <4>1. q - p + 1 <= q
        BY <2>2, <2>3
      <4> QED BY <1>2, <2>2, <2>3, <2>6, <4>1
    <3>2. Len(r) < Len(u)
      <4>1. e > 1
        BY <2>2, <2>3
      <4> QED BY <1>2, <2>3, <2>7, <4>1
    <3> QED BY <2>6, <2>7, <3>1, <3>2
  <2>9. PICK h \in Nat : h = i + p - 1
    BY <1>1, <2>3
  <2>10. Scan(s)[h] = St("value", N)
    <3>1. Expects(x, k) = Opening(x.kind)
      BY <1>4 DEF Expects
    <3>2. Len(u) > ValueFrom(x)
      BY <1>2, <2>2, <2>3
    <3>3. Scan(s)[i + ValueFrom(x) - 1] = St("value", N)
      <4>1. Scan(s)[i] = St(Opening(x.kind), N)
        BY <3>1
      <4>2. PICK m \in 1..Size(x) : m = k + 1
        BY <2>3
      <4>3. x.kind = "object" => u[1] = x.pairs[m][1] /\ u[2] = ":"
        BY <2>22, <4>2
      <4> QED BY <1>2, <3>2, <4>1, <4>3, KeyScanned
    <3> QED BY <2>2, <2>9, <3>3
  <2>11. Scan(s)[h + Len(v)] = St("comma", N)
    <3>1. Tells(v, PartAt(x, k + 1), n + 1) /\ StandsIn(s, h, v)
      BY <2>2, <2>4, <2>6, <2>9
    <3>2. Scan(s)[h + Len(v)] = St(IF N = << >> THEN "done" ELSE "comma", N)
      BY <1>0, <2>8, <2>10, <3>1, Zenon DEF ScansText
    <3> QED BY <1>0, <3>2
  <2>12. h + Len(v) = i + q
    BY <1>1, <2>2, <2>3, <2>6, <2>9
  <2>13. PICK g \in Nat : g = i + e - 1
    BY <1>1, <2>2, <2>3
  <2>14. Scan(s)[g] = St(Expects(x, k + 1), N)
    <3>1. CASE k + 1 = Size(x)
      <4>1. g = i + q
        BY <1>1, <2>2, <2>13, <3>1
      <4>2. Expects(x, k + 1) = "comma"
        BY <1>2, <3>1 DEF Expects
      <4> QED BY <2>11, <2>12, <4>1, <4>2
    <3>2. CASE k + 1 # Size(x)
      <4>1. i + q \in Nat /\ g = i + q + 1 /\ i + q + 1 <= Len(s) /\ s[i + q + 1] = u[q + 1] /\ u[q + 1] = ","
        <5>1. e = q + 2 /\ u[q + 1] = ","
          BY <2>2, <2>22, <3>2
        <5>2. PICK m \in 1..Len(u) : m = q + 1
          BY <1>2, <2>2
        <5>3. s[i + m] = u[m]
          BY <1>1
        <5>4. i + m = i + q + 1 /\ i + q \in Nat /\ g = i + q + 1 /\ i + q + 1 <= Len(s)
          <6>1. e = q + 2
            BY <5>1
          <6>2. i \in Nat /\ q \in Nat /\ i + Len(u) <= Len(s) /\ m <= Len(u) /\ m \in Nat
            BY <1>1, <1>2, <2>2
          <6> QED BY <1>2, <2>13, <5>2, <6>1, <6>2
        <5> QED BY <5>1, <5>2, <5>3, <5>4
      <4>2. Scan(s)[i + q + 1] = After(Scan(s)[i + q], s[i + q + 1])
        BY <1>1, <4>1, NextToken
      <4>3. After(St("comma", N), ",") = St(IF Last(N) = "{" THEN "key" ELSE "value", N)
        BY TokenIs
      <4>4. Expects(x, k + 1) = IF Last(N) = "{" THEN "key" ELSE "value"
        BY <1>0, <1>2, <3>2 DEF Expects, Opening, Opens, Kinds
      <4> QED BY <2>11, <2>12, <4>1, <4>2, <4>3, <4>4
    <3> QED BY <3>1, <3>2
  <2>15. Scan(s)[g + Len(r)] = St(IF Len(N) = 1 THEN "done" ELSE "comma", Front(N))
    <3>1. Remains(r, x, n, k + 1) /\ StandsIn(s, g, r)
      BY <2>2, <2>4, <2>7, <2>13
    <3> QED BY <2>8, <2>14, <3>1, Zenon DEF ScansRest
  <2>16. g + Len(r) = i + Len(u)
    BY <1>1, <1>2, <2>3, <2>7, <2>13
  <2> QED BY <2>15, <2>16
<1> QED BY <1>3, <1>4

LEMMA AllScanned ==
  ASSUME NEW u \in Seq(Tokens)
  PROVE  ScansText(u) /\ ScansRest(u)
<1> DEFINE T == {n \in Nat : \E v \in Seq(Tokens) : Len(v) = n /\ ~ (ScansText(v) /\ ScansRest(v))}
<1>1. T = {}
  <2> SUFFICES ASSUME T # {} PROVE FALSE
    OBVIOUS
  <2>1. PICK n \in T : \A m \in T : n <= m
    <3> T \subseteq Nat
      OBVIOUS
    <3> HIDE DEF T
    <3> QED BY LeastNat
  <2>2. PICK w \in Seq(Tokens) : Len(w) = n /\ ~ (ScansText(w) /\ ScansRest(w))
    BY <2>1
  <2>3. ASSUME NEW v \in Seq(Tokens), Len(v) < Len(w) PROVE ScansText(v) /\ ScansRest(v)
    <3>1. Len(v) \in Nat /\ n \in Nat /\ ~ n <= Len(v)
      BY <2>1, <2>2, <2>3
    <3>2. Len(v) \notin T
      <4> HIDE DEF T
      <4> QED BY <2>1, <3>1
    <3> QED BY <3>1, <3>2
  <2> HIDE DEF T
  <2>4. ScansText(w)
    BY <2>3, TextScanned
  <2>5. ScansRest(w)
    BY <2>3, RestScanned
  <2> QED BY <2>2, <2>4, <2>5
<1>2. Len(u) \in Nat
  OBVIOUS
<1> QED BY <1>1, <1>2

\* The tokenizer answers with the length of the text it is at.
LEMMA ReachTold ==
  ASSUME NEW s, NEW u, NEW x, NEW n, Tells(u, x, n), StandsIn(s, 0, u)
  PROVE  Reach(s) = Len(u) /\ Len(u) \in 1..Len(s)
<1>1. s \in Seq(Tokens) /\ 0 + Len(u) <= Len(s)
  BY DEF StandsIn
<1>2. u \in Seq(Tokens) /\ Len(u) \in Nat /\ Len(u) >= 1 /\ n \in Nat
  BY TellsDown
<1>3. PICK N \in Seq(OpenTokens) : N = << >> /\ Len(N) = 0
  <2>1. << >> \in Seq(OpenTokens) /\ Len(<< >>) = 0
    OBVIOUS
  <2> QED BY <2>1
<1>4. Scan(s)[0] = St("value", N)
  BY <1>1, <1>3, ScanIs DEF Start, St
<1>5. Len(N) <= n
  BY <1>2, <1>3
<1>6. ScansText(u)
  BY <1>2, AllScanned
<1>7. Scan(s)[0 + Len(u)] = St(IF N = << >> THEN "done" ELSE "comma", N)
  BY <1>4, <1>5, <1>6, Zenon DEF ScansText
<1>8. PICK r \in 1..Len(s) : r = Len(u)
  BY <1>1, <1>2
<1>9. 0 + r = r
  OBVIOUS
<1>10. Scan(s)[r] = St("done", N)
  BY <1>3, <1>7, <1>8, <1>9
<1>11. Scan(s)[r].expecting = "done"
  BY <1>10 DEF St
<1> QED BY <1>1, <1>8, <1>11, ReachIs

\* mg_json_next takes the items one by one.
LEMMA ItemTold ==
  ASSUME NEW s, NEW x, NEW n, NEW k, Remains(s, x, n, k), k # Size(x), NEW count
  PROVE  LET it == NextItem(x.kind, s, count)
         IN  /\ HasNext(x.kind, s)
             /\ Tells(it.val, PartAt(x, k + 1), n + 1)
             /\ Remains(it.rest, x, n, k + 1)
             /\ it.key = IF x.kind = "array" THEN count ELSE x.pairs[k + 1][1]
<1>1. /\ s \in Seq(Tokens) /\ Len(s) \in Nat /\ n \in Nat
      /\ EnvFree(x) /\ x.kind \in Kinds /\ k \in 0..Size(x) /\ Size(x) \in Nat
  BY RemainsDown, SizeIs
<1>2. PICK p, q, e : StandsAt(s, x, n, k + 1, p, q, e)
  BY RemainsDown
<1>3. /\ p = ValueFrom(x) /\ q \in Nat /\ p <= q /\ q < Len(s)
      /\ Tells(SubSeq(s, p, q), PartAt(x, k + 1), n + 1)
      /\ k + 1 = Size(x) => e = q + 1
      /\ k + 1 # Size(x) => e = q + 2
      /\ Remains(From(s, e), x, n, k + 1)
  BY <1>2, Zenon DEF StandsAt
<1>4. /\ x.kind = "object" => s[1] = x.pairs[k + 1][1] /\ s[2] = ":"
      /\ k + 1 # Size(x) => s[q + 1] = ","
  BY <1>2, Zenon DEF StandsAt
<1>5. p \in Nat \ {0} /\ p <= Len(s) + 1 /\ p <= Len(s) /\ q + 1 \in 1..Len(s) /\ p \in 1..Len(s) /\ q <= Len(s)
  BY <1>1, <1>3 DEF ValueFrom
<1>6. PICK u, t : u = SubSeq(s, p, q) /\ t = From(s, p)
  OBVIOUS
<1>7. u \in Seq(Tokens) /\ Len(u) = q - p + 1 /\ \A j \in 1..(q - p + 1) : u[j] = s[p + j - 1]
  BY <1>1, <1>3, <1>5, <1>6, Slice
<1>8. t \in Seq(Tokens) /\ Len(t) = Len(s) - p + 1 /\ \A j \in 1..(Len(s) - p + 1) : t[j] = s[p + j - 1]
  <2>1. /\ t \in Seq(Tokens) /\ Len(t) = IF p <= Len(s) THEN Len(s) - p + 1 ELSE 0
        /\ \A j \in 1..(Len(s) - p + 1) : t[j] = s[p + j - 1]
    BY <1>1, <1>5, <1>6, FromIs
  <2> QED BY <1>5, <2>1
<1>9. PICK m \in Nat : m = q - p + 1
  BY <1>3, <1>5
<1>10. m >= 1 /\ Len(u) = m /\ m <= Len(t) /\ \A j \in 1..m : u[j] = t[j]
  <2>1. m >= 1 /\ Len(u) = m /\ m <= Len(t)
    BY <1>1, <1>3, <1>5, <1>7, <1>8, <1>9
  <2>2. \A j \in 1..m : j \in 1..(q - p + 1) /\ j \in 1..(Len(s) - p + 1)
    BY <1>1, <1>3, <1>5, <1>9
  <2> QED BY <1>7, <1>8, <2>1, <2>2
<1>11. StandsIn(t, 0, u)
  <2>1. 0 + m <= Len(t) /\ 0 \in Nat /\ \A j \in 1..m : 0 + j = j
    BY <1>10
  <2> QED BY <1>8, <1>10, <2>1 DEF StandsIn
<1>12. Reach(t) = m /\ m \in 1..Len(t)
  <2>1. Tells(u, PartAt(x, k + 1), n + 1)
    BY <1>3, <1>6
  <2> QED BY <1>10, <1>11, <2>1, ReachTold
<1>13. x.kind # "array" => Reach(s) = 1
  <2> SUFFICES ASSUME x.kind # "array" PROVE Reach(s) = 1
    OBVIOUS
  <2>1. PICK c \in Strings : c = s[1]
    <3>1. k + 1 \in 1..Len(x.pairs) /\ x.kind = "object"
      BY <1>1, SizeIs
    <3>2. x.pairs[k + 1][1] \in Strings
      BY <1>1, <3>1, SizeIs
    <3> QED BY <1>4, <3>1, <3>2
  <2>2. 1 \in 1..Len(s) /\ 1 - 1 = 0
    BY <1>5
  <2>3. Scan(s)[1] = After(Start, c)
    BY <1>1, <2>1, <2>2, ScanIs
  <2>4. After(Start, c).expecting = "done"
    <3>1. << >> \in Seq(OpenTokens)
      OBVIOUS
    <3> QED BY <3>1, MayFollow, Zenon
  <2> QED BY <1>1, <2>2, <2>3, <2>4, ReachIs
<1>14. p = IF x.kind = "array" THEN 1 ELSE Reach(s) + 2
  BY <1>3, <1>13 DEF ValueFrom
<1>15. PICK it : it = NextItem(x.kind, s, count)
  OBVIOUS
<1>16. TakesUp(it, x.kind, t, count)
  <2>1. Reach(From(s, p)) \in 1..Len(From(s, p))
    BY <1>6, <1>12
  <2> QED BY <1>1, <1>5, <1>6, <1>14, <1>15, <2>1, ItemFrom
<1>17. it.val = u
  <2>1. it.val = SubSeq(t, 1, m)
    BY <1>12, <1>16 DEF TakesUp
  <2>2. /\ SubSeq(t, 1, m) \in Seq(Tokens) /\ Len(SubSeq(t, 1, m)) = m
        /\ \A j \in 1..m : SubSeq(t, 1, m)[j] = t[j]
    <3>1. 1 \in Nat \ {0} /\ m - 1 + 1 = m /\ \A j \in 1..m : 1 + j - 1 = j
      BY <1>9
    <3>2. /\ SubSeq(t, 1, m) \in Seq(Tokens) /\ Len(SubSeq(t, 1, m)) = m - 1 + 1
          /\ \A j \in 1..(m - 1 + 1) : SubSeq(t, 1, m)[j] = t[1 + j - 1]
      BY <1>8, <1>9, <1>10, <3>1, Slice
    <3> QED BY <3>1, <3>2
  <2>3. PICK w : w = SubSeq(t, 1, m)
    OBVIOUS
  <2>4. \A j \in 1..Len(w) : w[j] = u[j]
    BY <1>10, <2>2, <2>3
  <2>5. w = u
    BY <1>7, <1>10, <2>2, <2>3, <2>4, SeqEqual
  <2> QED BY <2>1, <2>3, <2>5
<1>18. it.rest = Past(From(s, q + 1))
  <2>1. it.rest = Past(From(t, 1 + m))
    BY <1>12, <1>16 DEF TakesUp
  <2>2. PICK f \in Nat \ {0} : f = 1 + m
    BY <1>9
  <2>3. From(t, f) = From(s, p + f - 1)
    BY <1>1, <1>5, <1>6, <2>2, FromFrom
  <2>4. p + f - 1 = q + 1
    BY <1>3, <1>5, <1>9, <2>2
  <2> QED BY <2>1, <2>2, <2>3, <2>4
<1>19. Past(From(s, q + 1)) = From(s, e)
  <2>1. PICK g \in 1..Len(s) : g = q + 1
    BY <1>5
  <2>2. CASE k + 1 # Size(x)
    <3>1. s[g] = "," /\ e = g + 1
      <4>1. e = q + 2
        BY <1>3, <2>2
      <4>2. e = g + 1
        BY <1>3, <2>1, <4>1
      <4>3. s[g] = ","
        BY <1>4, <2>1, <2>2
      <4> QED BY <4>2, <4>3
    <3>2. Past(From(s, g)) = From(s, g + 1)
      BY <1>1, <3>1, PastIs
    <3> QED BY <2>1, <3>1, <3>2
  <2>3. CASE k + 1 = Size(x)
    <3>1. e = g
      BY <1>3, <2>1, <2>3
    <3>2. From(s, g) = <<Closes(x.kind)>>
      BY <1>3, <2>3, <3>1, RemainsDown
    <3>3. From(s, g)[1] = s[g]
      <4>1. g \in Nat \ {0} /\ 1 \in 1..(Len(s) - g + 1) /\ g + 1 - 1 = g
        BY <1>1, <2>1
      <4>2. From(s, g)[1] = s[g + 1 - 1]
        BY <1>1, <4>1, FromIs
      <4> QED BY <4>1, <4>2
    <3>4. s[g] # ","
      <4>1. PICK c : c = Closes(x.kind)
        OBVIOUS
      <4>2. c # ","
        BY <4>1 DEF Closes
      <4>3. s[g] = c
        BY <3>2, <3>3, <4>1
      <4> QED BY <4>2, <4>3
    <3>5. Past(From(s, g)) = From(s, g)
      BY <1>1, <3>4, PastIs
    <3> QED BY <2>1, <3>1, <3>5
  <2> QED BY <2>2, <2>3
<1>20. HasNext(x.kind, s)
  <2>1. Reach(t) > 0
    BY <1>10, <1>12
  <2>2. x.kind = "array" => Reach(s) > 0
    <3>1. From(s, 1) = s
      BY <1>1 DEF From
    <3> QED BY <1>6, <1>14, <2>1, <3>1
  <2>3. x.kind # "array" => Reach(s) > 0 /\ Reach(From(s, Reach(s) + 2)) > 0
    BY <1>6, <1>13, <1>14, <2>1
  <2> QED BY <2>2, <2>3 DEF HasNext
<1>21. it.key = IF x.kind = "array" THEN count ELSE x.pairs[k + 1][1]
  <2>1. it.key = IF x.kind = "array" THEN count ELSE s[1]
    BY <1>15, Zenon DEF NextItem
  <2>2. x.kind # "array" => s[1] = x.pairs[k + 1][1]
    BY <1>1, <1>4, SizeIs
  <2> QED BY <2>1, <2>2
<1> QED BY <1>3, <1>6, <1>15, <1>17, <1>18, <1>19, <1>20, <1>21

LEMMA NoItemLeft ==
  ASSUME NEW s, NEW x, NEW n, NEW k, Remains(s, x, n, k), k = Size(x)
  PROVE  ~HasNext(x.kind, s)
<1>1. s = <<Closes(x.kind)>>
  BY RemainsDown
<1>2. Closes(x.kind) \in CloseTokens
  BY DEF Closes, CloseTokens
<1> QED BY <1>1, <1>2, NoValue

-------------------------------------------------------------------------------
(***************************************************************************)
(* The activations on the text of an element: each has its container up to *)
(* the part that the next one fills.                                       *)
(***************************************************************************)
LEMMA PrefixOf ==
  ASSUME NEW s, IsSeq(s), NEW k \in 0..Len(s)
  PROVE  /\ IsSeq(SubSeq(s, 1, k)) /\ Len(SubSeq(s, 1, k)) = k /\ DOMAIN SubSeq(s, 1, k) = 1..k
         /\ \A i \in 1..k : SubSeq(s, 1, k)[i] = s[i]
         /\ k = 0 => SubSeq(s, 1, k) = << >>
         /\ k = Len(s) => SubSeq(s, 1, k) = s
         /\ k < Len(s) => SubSeq(s, 1, k + 1) = Append(SubSeq(s, 1, k), s[k + 1])
<1> DEFINE S == Range(s)
<1>1. s \in Seq(S) /\ Len(s) \in Nat /\ k \in Nat /\ k <= Len(s)
  <2>1. Len(s) \in Nat
    BY SeqAppend
  <2> QED BY <2>1 DEF IsSeq
<1> HIDE DEF S
<1>2. ASSUME NEW m \in 0..Len(s)
      PROVE  /\ SubSeq(s, 1, m) \in Seq(S) /\ Len(SubSeq(s, 1, m)) = m
             /\ \A i \in 1..m : SubSeq(s, 1, m)[i] = s[i]
  <2>1. m \in Int /\ 1 \in Int /\ \A i \in 1..m : s[i] \in S
    BY <1>1
  <2>2. /\ SubSeq(s, 1, m) \in Seq(S) /\ Len(SubSeq(s, 1, m)) = IF 1 <= m THEN m - 1 + 1 ELSE 0
        /\ \A i \in 1..m - 1 + 1 : SubSeq(s, 1, m)[i] = s[1 + i - 1]
    BY <2>1, SubSeqProperties
  <2>3. m - 1 + 1 = m /\ (1 <= m \/ m = 0) /\ \A i \in 1..m : 1 + i - 1 = i
    BY <1>1
  <2> QED BY <2>2, <2>3
<1>3. /\ SubSeq(s, 1, k) \in Seq(S) /\ Len(SubSeq(s, 1, k)) = k
      /\ \A i \in 1..k : SubSeq(s, 1, k)[i] = s[i]
  BY <1>2
<1>4. IsSeq(SubSeq(s, 1, k)) /\ DOMAIN SubSeq(s, 1, k) = 1..k
  <2>1. PICK p : p = SubSeq(s, 1, k)
    OBVIOUS
  <2>2. p \in Seq(S) /\ Len(p) = k
    BY <1>3, <2>1
  <2>3. IsSeq(p)
    BY <2>2, SeqIs
  <2>4. DOMAIN p = 1..k
    BY <2>2
  <2> QED BY <2>1, <2>3, <2>4
<1>5. k = 0 => SubSeq(s, 1, k) = << >>
  BY <1>3
<1>6. k = Len(s) => SubSeq(s, 1, k) = s
  BY <1>1, <1>3, SeqEqual
<1>7. ASSUME k < Len(s) PROVE SubSeq(s, 1, k + 1) = Append(SubSeq(s, 1, k), s[k + 1])
  <2>1. PICK m \in 1..Len(s) : m = k + 1
    BY <1>1, <1>7
  <2>2. PICK p, q, x : p = SubSeq(s, 1, k) /\ q = SubSeq(s, 1, m) /\ x = s[m]
    OBVIOUS
  <2>3. q \in Seq(S) /\ Len(q) = m /\ \A i \in 1..m : q[i] = s[i]
    <3>1. m \in 0..Len(s)
      BY <2>1
    <3> QED BY <1>2, <2>2, <3>1
  <2>4. x \in S
    BY <1>1, <2>2
  <2>5. Append(p, x) \in Seq(S) /\ Len(Append(p, x)) = m /\ Append(p, x)[m] = x
        /\ \A i \in 1..k : Append(p, x)[i] = s[i]
    <3>1. p \in Seq(S) /\ Len(p) = k /\ \A i \in 1..k : p[i] = s[i]
      BY <1>3, <2>2
    <3> QED BY <2>1, <2>4, <3>1
  <2>6. \A i \in 1..m : Append(p, x)[i] = q[i]
    <3>1. \A i \in 1..m : i \in 1..k \/ i = m
      BY <1>1, <2>1
    <3> QED BY <2>2, <2>3, <2>5, <3>1
  <2>7. Append(p, x) = q
    BY <2>3, <2>5, <2>6, SeqEqual
  <2> QED BY <2>1, <2>2, <2>7
<1> QED BY <1>3, <1>4, <1>5, <1>6, <1>7

\* The first k parts of an element, and the element they are.
Copied(x, k) ==
  IF x.kind = "array" THEN Array(SubSeq(x.items, 1, k)) ELSE Object(SubSeq(x.pairs, 1, k))

LEMMA CopiedIs ==
  ASSUME NEW x, EnvFree(x), NEW k \in 0..Size(x)
  PROVE  /\ Copied(x, k).kind = x.kind /\ Size(Copied(x, k)) = k
         /\ k = 0 => Copied(x, k) = EmptyOf(x.kind)
         /\ k = Size(x) => Copied(x, k) = x
<1>1. CASE x.kind = "array"
  <2>1. x = Array(x.items) /\ IsSeq(x.items) /\ Size(x) = Len(x.items)
    BY <1>1, SizeIs
  <2>2. Copied(x, k) = Array(SubSeq(x.items, 1, k))
    BY <1>1 DEF Copied
  <2>3. Copied(x, k).kind = "array" /\ Copied(x, k).items = SubSeq(x.items, 1, k)
    BY <2>2 DEF Array
  <2>4. Size(Copied(x, k)) = Len(SubSeq(x.items, 1, k))
    BY <2>3 DEF Size
  <2>5. k = 0 => Copied(x, k) = EmptyOf(x.kind)
    <3>1. k = 0 => SubSeq(x.items, 1, k) = << >>
      BY <2>1, PrefixOf
    <3> QED BY <1>1, <2>2, <3>1 DEF EmptyOf
  <2>6. Len(SubSeq(x.items, 1, k)) = k /\ (k = Len(x.items) => SubSeq(x.items, 1, k) = x.items)
    BY <2>1, PrefixOf
  <2> QED BY <1>1, <2>1, <2>2, <2>3, <2>4, <2>5, <2>6
<1>2. CASE x.kind # "array"
  <2>1. x.kind = "object" /\ x = Object(x.pairs) /\ IsSeq(x.pairs) /\ Size(x) = Len(x.pairs)
    BY <1>2, SizeIs
  <2>2. Copied(x, k) = Object(SubSeq(x.pairs, 1, k))
    BY <1>2 DEF Copied
  <2>3. /\ Copied(x, k).kind = "object" /\ Copied(x, k).pairs = SubSeq(x.pairs, 1, k)
        /\ Copied(x, k).count = Len(SubSeq(x.pairs, 1, k))
    BY <2>2 DEF Object, Listing
  <2>4. Size(Copied(x, k)) = Len(SubSeq(x.pairs, 1, k))
    BY <2>3 DEF Size
  <2>5. k = 0 => Copied(x, k) = EmptyOf(x.kind)
    <3>1. k = 0 => SubSeq(x.pairs, 1, k) = << >>
      BY <2>1, PrefixOf
    <3> QED BY <1>2, <2>2, <3>1 DEF EmptyOf
  <2>6. Len(SubSeq(x.pairs, 1, k)) = k /\ (k = Len(x.pairs) => SubSeq(x.pairs, 1, k) = x.pairs)
    BY <2>1, PrefixOf
  <2> QED BY <2>1, <2>2, <2>3, <2>4, <2>5, <2>6
<1> QED BY <1>1, <1>2

LEMMA CopiedGrows ==
  ASSUME NEW x, EnvFree(x), NEW k \in 0..Size(x), k # Size(x)
  PROVE  /\ ~Raises(Copied(x, k), KeyAt(x, k + 1))
         /\ Put(Copied(x, k), KeyAt(x, k + 1), PartAt(x, k + 1)) = Copied(x, k + 1)
<1>0. Size(x) \in Nat /\ k \in Nat /\ k < Size(x)
  <2>1. Size(x) \in Nat
    BY SizeIs
  <2> QED BY <2>1
<1>1. CASE x.kind = "array"
  <2>1. x = Array(x.items) /\ IsSeq(x.items) /\ Size(x) = Len(x.items)
    BY <1>1, SizeIs
  <2>2. PICK c : c = Copied(x, k)
    OBVIOUS
  <2>3. c.kind = "array" /\ c.items = SubSeq(x.items, 1, k)
    BY <1>1, <2>2 DEF Copied, Array
  <2>4. Len(c.items) = k /\ Append(c.items, x.items[k + 1]) = SubSeq(x.items, 1, k + 1)
    BY <1>0, <2>1, <2>3, PrefixOf
  <2>5. KeyAt(x, k + 1) = k /\ PartAt(x, k + 1) = x.items[k + 1]
    BY <1>0, <1>1 DEF KeyAt, PartAt
  <2>6. ~Raises(c, k)
    BY <1>0, <2>3, <2>4 DEF Raises
  <2>7. Put(c, k, x.items[k + 1]) = Array(Append(c.items, x.items[k + 1]))
    <3>1. c.kind # "object" /\ c.kind = "array" /\ k = Len(c.items) /\ ~ k < Len(c.items)
      BY <1>0, <2>3, <2>4
    <3> QED BY <3>1 DEF Put
  <2>8. Array(Append(c.items, x.items[k + 1])) = Copied(x, k + 1)
    BY <1>1, <2>4 DEF Copied
  <2> QED BY <2>2, <2>5, <2>6, <2>7, <2>8
<1>2. CASE x.kind # "array"
  <2>1. /\ x.kind = "object" /\ IsSeq(x.pairs) /\ Size(x) = Len(x.pairs)
        /\ \A i \in 1..Len(x.pairs) :
             /\ x.pairs[i] = <<x.pairs[i][1], x.pairs[i][2]>>
             /\ x.pairs[i][1] \in Strings \ {Digits, EnvKey}
        /\ \A i, j \in 1..Len(x.pairs) : x.pairs[i][1] = x.pairs[j][1] => i = j
    BY <1>2, SizeIs
  <2>2. PICK c : c = Copied(x, k)
    OBVIOUS
  <2>3. c.kind = "object" /\ c.pairs = SubSeq(x.pairs, 1, k) /\ c.count = Len(c.pairs)
    BY <1>2, <2>2 DEF Copied, Object, Listing
  <2>4. /\ Append(c.pairs, x.pairs[k + 1]) = SubSeq(x.pairs, 1, k + 1)
        /\ DOMAIN c.pairs = 1..k /\ \A i \in 1..k : c.pairs[i] = x.pairs[i]
    BY <1>0, <2>1, <2>3, PrefixOf
  <2>5. PICK m \in 1..Len(x.pairs) : m = k + 1
    BY <1>0, <2>1
  <2>6. PICK key, v : key = x.pairs[m][1] /\ v = x.pairs[m][2]
    OBVIOUS
  <2>7. key \in Strings \ {Digits, EnvKey} /\ x.pairs[m] = <<key, v>>
    BY <2>1, <2>6
  <2>8. key \notin KeysOf(c)
    <3> SUFFICES ASSUME NEW i \in 1..k, c.pairs[i][1] = key PROVE FALSE
      BY <2>4 DEF KeysOf
    <3>1. i \in 1..Len(x.pairs) /\ i # m
      BY <1>0, <2>1, <2>5
    <3>2. x.pairs[i][1] = x.pairs[m][1]
      BY <2>4, <2>6
    <3> QED BY <2>1, <3>1, <3>2
  <2>9. KeyAt(x, k + 1) = key /\ PartAt(x, k + 1) = v
    BY <1>2, <2>5, <2>6 DEF KeyAt, PartAt
  <2>10. ~Raises(c, key)
    BY <2>3, <2>7 DEF Raises
  <2>11. Put(c, key, v) = Object(Append(c.pairs, <<key, v>>))
    <3>1. c.kind # "array" /\ key # EnvKey /\ key \notin KeysOf(c)
      BY <2>3, <2>7, <2>8
    <3>2. Put(c, key, v) = Listing(Append(c.pairs, <<key, v>>), c.count + 1)
      BY <3>1, Zenon DEF Put
    <3>3. Len(Append(c.pairs, <<key, v>>)) = c.count + 1
      <4>1. Len(SubSeq(x.pairs, 1, k)) = k /\ Len(SubSeq(x.pairs, 1, k + 1)) = k + 1
        BY <1>0, <2>1, PrefixOf
      <4> QED BY <2>3, <2>4, <2>5, <2>7, <4>1
    <3> QED BY <3>2, <3>3 DEF Object
  <2>12. Object(Append(c.pairs, x.pairs[m])) = Copied(x, k + 1)
    BY <1>2, <2>4, <2>5 DEF Copied
  <2> QED BY <2>2, <2>7, <2>9, <2>10, <2>11, <2>12
<1> QED BY <1>1, <1>2

\* An activation with the first k parts of x in its container, whose next item
\* is the one behind the first j.
FillsUp(f, x, k, j) ==
  /\ IsActivation(f) /\ EnvFree(x) /\ k \in 0..Size(x) /\ j \in 0..Size(x)
  /\ f.doc = Copied(x, k) /\ \E n : Remains(f.rest, x, n, j)

\* The claim that x is what the activations fs wait for, to store it under the
\* key; when they have all that they wait for, the result is d.
Awaited(fs, x, key) == [fs |-> fs, x |-> x, key |-> key]
AwaitedIn(Q, d, fs, x, key) ==
  /\ IsSeq(fs)
  /\ fs = << >> => x = d
  /\ fs # << >> => \E y, k :
       /\ FillsUp(Last(fs), y, k, k + 1) /\ k # Size(y)
       /\ x = PartAt(y, k + 1) /\ key = KeyAt(y, k + 1)
       /\ Awaited(Front(fs), y, Last(fs).key) \in Q
AllAwaited(Q, d) == \A fs, x, key : Awaited(fs, x, key) \in Q => AwaitedIn(Q, d, fs, x, key)
Waits(d, fs, x, key) == \E Q : AllAwaited(Q, d) /\ Awaited(fs, x, key) \in Q

\* The last of fs has the part awaited, and waits for the next.
WaitsFor(d, fs, x, key, y, k) ==
  /\ FillsUp(Last(fs), y, k, k + 1) /\ k # Size(y)
  /\ x = PartAt(y, k + 1) /\ key = KeyAt(y, k + 1)
  /\ Waits(d, Front(fs), y, Last(fs).key)

LEMMA WaitsDown ==
  ASSUME NEW d, NEW fs, NEW x, NEW key, Waits(d, fs, x, key)
  PROVE  /\ IsSeq(fs) /\ (fs = << >> => x = d)
         /\ fs # << >> => \E y, k : WaitsFor(d, fs, x, key, y, k)
<1>1. PICK Q : AllAwaited(Q, d) /\ Awaited(fs, x, key) \in Q
  BY DEF Waits
<1>2. AwaitedIn(Q, d, fs, x, key)
  BY <1>1, Zenon DEF AllAwaited
<1>3. IsSeq(fs) /\ (fs = << >> => x = d)
  BY <1>2 DEF AwaitedIn
<1>4. ASSUME fs # << >> PROVE \E y, k : WaitsFor(d, fs, x, key, y, k)
  <2>1. PICK y, k : /\ FillsUp(Last(fs), y, k, k + 1) /\ k # Size(y)
                    /\ x = PartAt(y, k + 1) /\ key = KeyAt(y, k + 1)
                    /\ Awaited(Front(fs), y, Last(fs).key) \in Q
    BY <1>2, <1>4, Zenon DEF AwaitedIn
  <2>2. Waits(d, Front(fs), y, Last(fs).key)
    BY <1>1, <2>1, Zenon DEF Waits
  <2> QED BY <2>1, <2>2, Zenon DEF WaitsFor
<1> QED BY <1>3, <1>4

LEMMA AwaitedIs ==
  ASSUME NEW fs, NEW x, NEW key, NEW gs, NEW y, NEW k, Awaited(fs, x, key) = Awaited(gs, y, k)
  PROVE  fs = gs /\ x = y /\ key = k
  BY DEF Awaited

LEMMA WaitsUp ==
  ASSUME NEW d, NEW fs, NEW x, NEW key, NEW Q, AllAwaited(Q, d),
         AwaitedIn(Q, d, fs, x, key)
  PROVE  Waits(d, fs, x, key)
<1> DEFINE R == Q \cup {Awaited(fs, x, key)}
<1>1. ASSUME NEW gs, NEW y, NEW k, AwaitedIn(Q, d, gs, y, k) PROVE AwaitedIn(R, d, gs, y, k)
  <2>1. Q \subseteq R
    OBVIOUS
  <2> HIDE DEF R
  <2> QED BY <1>1, <2>1 DEF AwaitedIn
<1>2. ASSUME NEW gs, NEW y, NEW k, Awaited(gs, y, k) \in R PROVE AwaitedIn(R, d, gs, y, k)
  <2>1. CASE Awaited(gs, y, k) \in Q
    BY <1>1, <2>1, Zenon DEF AllAwaited
  <2>2. CASE Awaited(gs, y, k) = Awaited(fs, x, key)
    <3>1. gs = fs /\ y = x /\ k = key
      BY <2>2, AwaitedIs
    <3> QED BY <1>1, <3>1
  <2> QED BY <1>2, <2>1, <2>2
<1>3. AllAwaited(R, d) /\ Awaited(fs, x, key) \in R
  <2>1. Awaited(fs, x, key) \in R
    OBVIOUS
  <2> HIDE DEF R
  <2> QED BY <1>2, <2>1, Zenon DEF AllAwaited
<1> QED BY <1>3, Zenon DEF Waits

LEMMA WaitsAtFirst == ASSUME NEW d, NEW key PROVE Waits(d, << >>, d, key)
<1>1. PICK Q : Q = {}
  OBVIOUS
<1>2. AllAwaited(Q, d)
  BY <1>1 DEF AllAwaited
<1>3. IsSeq(<< >>)
  <2>1. << >> \in Seq(Tokens)
    OBVIOUS
  <2> QED BY <2>1, SeqIs
<1>4. AwaitedIn(Q, d, << >>, d, key)
  BY <1>3 DEF AwaitedIn
<1> QED BY <1>2, <1>4, WaitsUp

LEMMA WaitsDeeper ==
  ASSUME NEW d, NEW fs, NEW f, NEW y, NEW k, Waits(d, fs, y, f.key), FillsUp(f, y, k, k + 1), k # Size(y)
  PROVE  Waits(d, Append(fs, f), PartAt(y, k + 1), KeyAt(y, k + 1))
<1>1. PICK Q : AllAwaited(Q, d) /\ Awaited(fs, y, f.key) \in Q
  BY DEF Waits
<1>2. IsSeq(fs)
  BY WaitsDown
<1>3. PICK gs : gs = Append(fs, f)
  OBVIOUS
<1>4. IsSeq(gs) /\ gs # << >> /\ Front(gs) = fs /\ Last(gs) = f
  BY <1>2, <1>3, SeqAppend
<1>5. AwaitedIn(Q, d, gs, PartAt(y, k + 1), KeyAt(y, k + 1))
  BY <1>1, <1>4 DEF AwaitedIn
<1> QED BY <1>1, <1>3, <1>5, WaitsUp

-------------------------------------------------------------------------------
\* The innermost of the activations fs fills x, the others wait.
Copying(fs, d) ==
  /\ fs # << >> /\ IsSeq(fs)
  /\ \E x, k : FillsUp(Last(fs), x, k, k) /\ Waits(d, Front(fs), x, Last(fs).key)

LEMMA CopyingIs ==
  ASSUME NEW fs, NEW f, NEW d, NEW x, NEW k, FillsUp(f, x, k, k), Waits(d, fs, x, f.key)
  PROVE  Copying(Append(fs, f), d)
<1>1. IsSeq(fs)
  BY WaitsDown
<1>2. /\ IsSeq(Append(fs, f)) /\ Append(fs, f) # << >>
      /\ Front(Append(fs, f)) = fs /\ Last(Append(fs, f)) = f
  BY <1>1, SeqAppend
<1> QED BY <1>2 DEF Copying

LEMMA ActivationTold ==
  ASSUME NEW u, NEW x, NEW n, Tells(u, x, n), u[1] \in OpenTokens, NEW key
  PROVE  IsNested(x) /\ FillsUp(Activation(u, key), x, 0, 0) /\ Activation(u, key).key = key
<1>1. u \in Seq(Tokens) /\ Len(u) \in Nat /\ Len(u) >= 1
  BY TellsDown
<1>2. IsNested(x)
  <2> SUFFICES ASSUME ~IsNested(x) PROVE FALSE
    OBVIOUS
  <2>1. x \in Scalars /\ u[1] = x
    BY TellsDown
  <2>2. \A c \in OpenTokens : c \notin Scalars
    BY Zenon, ParserAssumption DEF OpenTokens
  <2> QED BY <2>1, <2>2
<1>3. EnvFree(x) /\ x.kind \in Kinds /\ u[1] = Opens(x.kind) /\ Remains(From(u, 2), x, n, 0)
  BY <1>2, TellsDown
<1>4. StandsIn(u, 0, u)
  <2>1. 0 \in Nat /\ 0 + Len(u) <= Len(u) /\ \A j \in 1..Len(u) : 0 + j = j
    BY <1>1
  <2> QED BY <1>1, <2>1 DEF StandsIn
<1>5. Reach(u) = Len(u)
  BY <1>4, ReachTold
<1>6. PICK f : f = Activation(u, key)
  OBVIOUS
<1>7. /\ f.doc = EmptyOf(IF u[1] = "[" THEN "array" ELSE "object")
      /\ f.key = key /\ f.rest = IF Reach(u) = 0 THEN << >> ELSE SubSeq(u, 2, Reach(u))
  BY <1>6, Zenon DEF Activation
<1>8. f.rest = From(u, 2)
  <2>1. Reach(u) # 0
    BY <1>1, <1>5
  <2> QED BY <1>5, <1>7, <2>1 DEF From
<1>9. IsActivation(f)
  BY <1>1, <1>6, ActivationIs
<1>10. (IF u[1] = "[" THEN "array" ELSE "object") = x.kind
  BY <1>3 DEF Opens, Kinds
<1>11. Size(x) \in Nat
  BY <1>3, SizeIs
<1>12. 0 \in 0..Size(x)
  BY <1>11
<1>13. f.doc = Copied(x, 0)
  BY <1>3, <1>7, <1>10, <1>12, CopiedIs
<1>14. \E m : Remains(f.rest, x, m, 0)
  BY <1>3, <1>8
<1>15. FillsUp(f, x, 0, 0)
  BY <1>3, <1>9, <1>12, <1>13, <1>14 DEF FillsUp
<1> QED BY <1>2, <1>6, <1>7, <1>15

LEMMA StoredCopy ==
  ASSUME NEW d, NEW outer, NEW f, NEW x, NEW k, FillsUp(f, x, k, k + 1), k # Size(x),
         Waits(d, outer, x, f.key), Store(outer, f, KeyAt(x, k + 1), PartAt(x, k + 1))
  PROVE  Copying(frames', d) /\ read' = read
<1>1. /\ IsActivation(f) /\ EnvFree(x) /\ k \in 0..Size(x) /\ k + 1 \in 0..Size(x)
      /\ f.doc = Copied(x, k) /\ \E n : Remains(f.rest, x, n, k + 1)
  BY DEF FillsUp
<1>2. /\ ~Raises(f.doc, KeyAt(x, k + 1))
      /\ Put(f.doc, KeyAt(x, k + 1), PartAt(x, k + 1)) = Copied(x, k + 1)
  BY <1>1, CopiedGrows
<1>3. PICK c : c = Copied(x, k + 1)
  OBVIOUS
<1>4. PICK g : g = Holding(f, c)
  OBVIOUS
<1>5. frames' = Append(outer, g) /\ read' = read
  BY <1>2, <1>3, <1>4 DEF Store, Goes, Holding
<1>6. IsActivation(g) /\ g.rest = f.rest /\ g.doc = c /\ g.key = f.key
  BY <1>1, <1>4, Refilled
<1>7. FillsUp(g, x, k + 1, k + 1)
  BY <1>1, <1>3, <1>6 DEF FillsUp
<1>8. Waits(d, outer, x, g.key)
  BY <1>6
<1> QED BY <1>5, <1>7, <1>8, CopyingIs

LEMMA CopyTakesItem ==
  ASSUME NEW d, Copying(frames, d), ParseItem
  PROVE  Copying(frames', d) /\ read' = read
<1>1. PICK outer, inner : outer = Outer /\ inner = Innermost
  OBVIOUS
<1>2. PICK x, k : FillsUp(inner, x, k, k) /\ Waits(d, outer, x, inner.key)
  BY <1>1 DEF Copying, Outer, Innermost
<1>3. PICK n : Remains(inner.rest, x, n, k)
  BY <1>2 DEF FillsUp
<1>4. IsActivation(inner) /\ EnvFree(x) /\ k \in 0..Size(x) /\ inner.doc = Copied(x, k)
  BY <1>2 DEF FillsUp
<1>5. inner.doc.kind = x.kind /\ Size(inner.doc) = k
  BY <1>4, CopiedIs
<1>6. HasNext(x.kind, inner.rest)
  BY <1>1, <1>5 DEF ParseItem, MoreItems
<1>7. k # Size(x)
  BY <1>3, <1>6, NoItemLeft
<1>8. PICK it : it = NextItem(x.kind, inner.rest, k)
  OBVIOUS
<1>9. /\ Tells(it.val, PartAt(x, k + 1), n + 1)
      /\ Remains(it.rest, x, n, k + 1)
      /\ it.key = IF x.kind = "array" THEN k ELSE x.pairs[k + 1][1]
  BY <1>3, <1>7, <1>8, ItemTold
<1>10. it.key = KeyAt(x, k + 1)
  BY <1>4, <1>9, SizeIs DEF KeyAt
<1>11. PICK f : f = Cut(inner, it.rest)
  OBVIOUS
<1>12. it.rest \in Seq(Tokens) /\ k + 1 \in 0..Size(x)
  <2>1. Size(x) \in Nat
    BY <1>4, SizeIs
  <2> QED BY <1>4, <1>7, <1>9, <2>1, RemainsDown
<1>13. IsActivation(f) /\ f.rest = it.rest /\ f.doc = inner.doc /\ f.key = inner.key
  BY <1>4, <1>11, <1>12, CutIs
<1>14. FillsUp(f, x, k, k + 1)
  BY <1>4, <1>9, <1>12, <1>13 DEF FillsUp
<1>15. Waits(d, outer, x, f.key)
  BY <1>2, <1>13
<1>16. PICK act : act = Activation(it.val, it.key)
  OBVIOUS
<1>17. it = NextItem(inner.doc.kind, inner.rest, Size(inner.doc))
  BY <1>5, <1>8
<1>18. \/ it.val[1] \in OpenTokens /\ frames' = outer \o <<f, act>> /\ read' = read
       \/ it.val[1] \notin OpenTokens /\ Store(outer, f, it.key, it.val[1])
  BY <1>1, <1>11, <1>16, <1>17 DEF ParseItem, Goes, Cut, OpenTokens
<1>19. CASE it.val[1] \in OpenTokens /\ frames' = outer \o <<f, act>> /\ read' = read
  <2>1. FillsUp(act, PartAt(x, k + 1), 0, 0) /\ act.key = it.key
    BY <1>9, <1>16, <1>19, ActivationTold
  <2>2. PICK mid : mid = Append(outer, f)
    OBVIOUS
  <2>3. Waits(d, mid, PartAt(x, k + 1), act.key)
    BY <1>7, <1>10, <1>14, <1>15, <2>1, <2>2, WaitsDeeper
  <2>4. Copying(Append(mid, act), d)
    BY <2>1, <2>3, CopyingIs
  <2>5. outer \o <<f, act>> = Append(mid, act)
    <3>1. IsSeq(outer)
      BY <1>2, WaitsDown
    <3>2. outer \in Seq(Range(outer))
      BY <3>1 DEF IsSeq
    <3>3. PICK S : outer \in Seq(S)
      BY <3>2
    <3>4. outer \in Seq(S \cup {f, act})
      BY <3>3
    <3> QED BY <2>2, <3>4
  <2> QED BY <1>19, <2>4, <2>5
<1>20. CASE it.val[1] \notin OpenTokens /\ Store(outer, f, it.key, it.val[1])
  <2>1. it.val[1] = PartAt(x, k + 1)
    <3>1. ASSUME IsNested(PartAt(x, k + 1)) PROVE FALSE
      <4>1. it.val[1] = Opens(PartAt(x, k + 1).kind)
        BY <1>9, <3>1, TellsDown
      <4> QED BY <1>20, <4>1 DEF Opens, OpenTokens
    <3> QED BY <1>9, <3>1, TellsDown
  <2>2. Store(outer, f, KeyAt(x, k + 1), PartAt(x, k + 1))
    BY <1>10, <1>20, <2>1
  <2> QED BY <1>7, <1>14, <1>15, <2>2, StoredCopy
<1> QED BY <1>18, <1>19, <1>20

\* An activation that returns has all of its container.
LEMMA CopyReturns ==
  ASSUME NEW d, Copying(frames, d), ParseReturn
  PROVE  \/ Copying(frames', d) /\ read' = read
         \/ frames' = << >> /\ read' = d
<1>1. PICK outer, inner : outer = Outer /\ inner = Innermost
  OBVIOUS
<1>2. PICK x, k : FillsUp(inner, x, k, k) /\ Waits(d, outer, x, inner.key)
  BY <1>1 DEF Copying, Outer, Innermost
<1>3. PICK n : Remains(inner.rest, x, n, k)
  BY <1>2 DEF FillsUp
<1>4. IsActivation(inner) /\ EnvFree(x) /\ k \in 0..Size(x) /\ inner.doc = Copied(x, k)
  BY <1>2 DEF FillsUp
<1>5. inner.doc.kind = x.kind
  BY <1>4, CopiedIs
<1>6. ~HasNext(x.kind, inner.rest)
  BY <1>1, <1>5 DEF ParseReturn, MoreItems
<1>7. k = Size(x)
  BY <1>3, <1>6, ItemTold
<1>8. inner.doc = x
  BY <1>4, <1>7, CopiedIs
<1>9. CASE outer = << >>
  <2>1. x = d
    BY <1>2, <1>9, WaitsDown
  <2> QED BY <1>1, <1>8, <1>9, <2>1 DEF ParseReturn
<1>10. CASE outer # << >>
  <2>1. PICK y, j : WaitsFor(d, outer, x, inner.key, y, j)
    BY <1>2, <1>10, WaitsDown
  <2>2. /\ FillsUp(Last(outer), y, j, j + 1) /\ j # Size(y)
        /\ x = PartAt(y, j + 1) /\ inner.key = KeyAt(y, j + 1)
        /\ Waits(d, Front(outer), y, Last(outer).key)
    BY <2>1, Zenon DEF WaitsFor
  <2>3. Store(Front(outer), Last(outer), inner.key, inner.doc)
    BY <1>1, <1>10 DEF ParseReturn
  <2>4. Store(Front(outer), Last(outer), KeyAt(y, j + 1), PartAt(y, j + 1))
    BY <1>8, <2>2, <2>3
  <2> QED BY <2>2, <2>4, StoredCopy
<1> QED BY <1>9, <1>10

\* The text of an element begins with a bracket, and is taken up.
LEMMA CopyBegins ==
  ASSUME NEW d, IsNested(d), NEW text, NEW n, Tells(text, d, n), Parse(text)
  PROVE  Copying(frames', d) /\ read' = read
<1>1. text \in Seq(Tokens) /\ Len(text) >= 1 /\ text[1] = Opens(d.kind)
  BY TellsDown
<1>2. text # << >> /\ text[1] \in {"[", "{"} /\ text[1] \in OpenTokens
  <2>1. text # << >>
    BY <1>1, EmptySeq
  <2>2. PICK c : c = text[1]
    OBVIOUS
  <2>3. c \in {"[", "{"} /\ c \in OpenTokens
    BY <1>1, <2>2 DEF Opens, OpenTokens
  <2> QED BY <2>1, <2>2, <2>3
<1>3. PICK f : f = Activation(text, 0)
  OBVIOUS
<1>4. frames' = <<f>> /\ read' = read
  BY <1>2, <1>3 DEF Parse
<1>5. FillsUp(f, d, 0, 0)
  BY <1>2, <1>3, ActivationTold
<1>6. Waits(d, << >>, d, f.key)
  BY WaitsAtFirst
<1>7. Copying(Append(<< >>, f), d)
  BY <1>5, <1>6, CopyingIs
<1>8. Append(<< >>, f) = <<f>>
  OBVIOUS
<1> QED BY <1>4, <1>7, <1>8

===============================================================================
