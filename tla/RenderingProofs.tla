---------------------------- MODULE RenderingProofs ---------------------------
(***************************************************************************)
(* For any values, lengths and limits: a rendering of the whole element is *)
(* whole, whichever way it takes, and a try that is given up has neither   *)
(* printed nor counted anything.  At the end, what one rendering tells of  *)
(* the lengths in the other modes.                                         *)
(***************************************************************************)
EXTENDS RenderingProps, DataLemmas

\* The fields of a rendering.
Fields == {"pc", "asked", "mode", "i", "end", "rlen", "trusted", "lastTry", "blown",
           "out", "nkeys", "quoted", "refs"}

\* A last try has no fuse, and only a try with a fuse blows it, for its length.
FuseOK ==
  /\ run.lastTry => run.trusted
  /\ run.blown => ~run.trusted /\ Reaches(run.rlen)

\* A try whose fuse is to blow finds out at its first item.
NothingYet == run.out = << >> /\ run.nkeys = 0 /\ run.quoted = 0 /\ run.refs = 0
FuseFirst == ~run.trusted /\ Reaches(run.rlen) => NothingYet

\* Of the whole element all is printed that has been passed.
PassedIsPrinted ==
  run.asked = <<1, Len(items)>> =>
    /\ run.i \in 1..Len(items) + 1
    /\ run.end = Len(items)
    /\ run.out = SubSeq(items, 1, run.i - 1)

UnderWay ==
  run.pc = "render" =>
    /\ run = [f \in Fields |-> run[f]]
    /\ FuseOK /\ FuseFirst /\ PassedIsPrinted

RInv == items \in Seq(Value) /\ UnderWay /\ WholeTextIsComplete

\* A try that is given up leaves nothing behind for the next one to count: when
\* the fuse of lua_json_array_render or lua_json_object_render blows, nothing has
\* been printed or counted.
GivenUpEmpty == run.pc = "render" /\ run.blown => NothingYet

LEMMA InitRInv == Init => RInv
  BY DEF Init, Idle, RInv, UnderWay, WholeTextIsComplete

LEMMA IdleStep ==
  ASSUME items' \in Seq(Value), run' = Idle
  PROVE  RInv'
  BY DEF Idle, RInv, UnderWay, WholeTextIsComplete

LEMMA PushOK ==
  ASSUME RInv, NEW v \in Value, Push(v)
  PROVE  RInv'
<1>1. items' \in Seq(Value) BY DEF RInv, Push
<1>2. run' = Idle BY DEF Push
<1> QED BY <1>1, <1>2, IdleStep

LEMMA RawWriteOK ==
  ASSUME RInv, NEW i \in DOMAIN items, NEW v \in Value, RawWrite(i, v)
  PROVE  RInv'
<1>1. items' \in Seq(Value) BY DEF RInv, RawWrite
<1>2. run' = Idle BY DEF RawWrite
<1> QED BY <1>1, <1>2, IdleStep

LEMMA StringifyOK ==
  ASSUME RInv, NEW s, NEW e, NEW m, Stringify(s, e, m)
  PROVE  RInv'
<1>1. items' = items BY DEF Stringify
<1>2. items \in Seq(Value) BY DEF RInv
<1>3. /\ run' = [f \in Fields |-> run'[f]]
      /\ run'.pc = "render" /\ run'.asked = <<s, e>> /\ run'.i = s /\ run'.end = e
      /\ run'.blown = FALSE /\ run'.out = << >>
      /\ run'.nkeys = 0 /\ run'.quoted = 0 /\ run'.refs = 0
  BY DEF Stringify, Fields
<1>4. run'.lastTry => run'.trusted BY Zenon DEF Stringify, Trusted
<1>5. PassedIsPrinted'
  <2> SUFFICES ASSUME <<s, e>> = <<1, Len(items)>>
      PROVE  1 \in 1..Len(items) + 1 /\ << >> = SubSeq(items, 1, 0)
    BY <1>1, <1>3 DEF PassedIsPrinted
  <2> QED BY <1>2
<1>6. FuseOK' /\ FuseFirst' BY <1>3, <1>4 DEF FuseOK, FuseFirst, NothingYet
<1> QED BY <1>1, <1>2, <1>3, <1>5, <1>6 DEF RInv, UnderWay, WholeTextIsComplete

LEMMA PrintItemOK ==
  ASSUME RInv, PrintItem
  PROVE  RInv'
<1>1. items' = items /\ items \in Seq(Value) BY DEF RInv, PrintItem
<1>2. /\ run.pc = "render" /\ ~run.blown /\ run.i <= run.end
      /\ ~(~run.trusted /\ Reaches(run.rlen))
  BY DEF PrintItem, Printing, Fused
<1>3. run = [f \in Fields |-> run[f]] /\ FuseOK /\ PassedIsPrinted
  BY <1>2 DEF RInv, UnderWay
<1>4. /\ run' = [f \in Fields |-> run'[f]]
      /\ run'.pc = "render" /\ run'.asked = run.asked /\ run'.end = run.end
      /\ run'.rlen = run.rlen /\ run'.trusted = run.trusted /\ run'.lastTry = run.lastTry
      /\ run'.blown = run.blown
      /\ run'.i = run.i + 1 /\ run'.out = Append(run.out, items[run.i])
  BY <1>2, <1>3 DEF PrintItem, Counting, Fields
<1>5. PassedIsPrinted'
  <2> SUFFICES ASSUME run.asked = <<1, Len(items)>>
      PROVE  /\ run'.i \in 1..Len(items) + 1 /\ run'.end = Len(items)
             /\ run'.out = SubSeq(items, 1, run'.i - 1)
    BY <1>1, <1>4 DEF PassedIsPrinted
  <2>1. /\ run.i \in 1..Len(items) + 1 /\ run.end = Len(items)
        /\ run.out = SubSeq(items, 1, run.i - 1)
    BY <1>3 DEF PassedIsPrinted
  <2>2. run.i \in 1..Len(items) BY <1>1, <1>2, <2>1
  <2>3. Append(SubSeq(items, 1, run.i - 1), items[run.i]) = SubSeq(items, 1, run.i)
    BY <1>1, <2>2
  <2>4. run'.i - 1 = run.i /\ run'.i \in 1..Len(items) + 1 BY <1>1, <1>4, <2>2
  <2> QED BY <1>4, <2>1, <2>3, <2>4
<1>6. FuseOK' BY <1>3, <1>4 DEF FuseOK, Reaches
<1>7. FuseFirst' BY <1>2, <1>4 DEF FuseFirst, Reaches
<1> QED BY <1>1, <1>4, <1>5, <1>6, <1>7 DEF RInv, UnderWay, WholeTextIsComplete

LEMMA BlowFuseOK ==
  ASSUME RInv, BlowFuse
  PROVE  RInv'
<1>1. items' = items /\ items \in Seq(Value) BY DEF RInv, BlowFuse
<1>2. run.pc = "render" /\ ~run.trusted /\ Reaches(run.rlen) BY DEF BlowFuse, Printing, Fused
<1>3. run = [f \in Fields |-> run[f]] /\ FuseOK /\ FuseFirst /\ PassedIsPrinted
  BY <1>2 DEF RInv, UnderWay
<1>4. /\ run' = [f \in Fields |-> run'[f]]
      /\ \A f \in Fields \ {"blown"} : run'[f] = run[f]
  BY <1>3 DEF BlowFuse, Fields
<1>5. /\ run'.pc = "render" /\ run'.asked = run.asked /\ run'.end = run.end
      /\ run'.rlen = run.rlen /\ run'.trusted = run.trusted /\ run'.lastTry = run.lastTry
      /\ run'.i = run.i /\ run'.out = run.out
      /\ run'.nkeys = run.nkeys /\ run'.quoted = run.quoted /\ run'.refs = run.refs
  BY <1>2, <1>4 DEF Fields
<1>6. FuseOK' /\ FuseFirst' /\ PassedIsPrinted'
  BY <1>1, <1>2, <1>3, <1>5 DEF FuseOK, FuseFirst, NothingYet, Reaches, PassedIsPrinted
<1> QED BY <1>1, <1>4, <1>5, <1>6 DEF RInv, UnderWay, WholeTextIsComplete

LEMMA RetryOK ==
  ASSUME RInv, Retry
  PROVE  RInv'
<1>1. items' = items /\ items \in Seq(Value) BY DEF RInv, Retry
<1>2. run = [f \in Fields |-> run[f]] BY DEF RInv, UnderWay, Retry
<1>3. /\ run' = [f \in Fields |-> run'[f]]
      /\ run'.pc = "render" /\ run'.trusted = TRUE /\ run'.blown = FALSE
      /\ run'.i = 1 /\ run'.end = Len(items) /\ run'.out = << >>
  BY <1>2 DEF Retry, Fields
<1>4. PassedIsPrinted' BY <1>1, <1>3 DEF PassedIsPrinted
<1>5. FuseOK' /\ FuseFirst' BY <1>3 DEF FuseOK, FuseFirst
<1> QED BY <1>1, <1>3, <1>4, <1>5 DEF RInv, UnderWay, WholeTextIsComplete

LEMMA FinishOK ==
  ASSUME RInv, Finish
  PROVE  RInv'
<1>1. items' = items /\ items \in Seq(Value) BY DEF RInv, Finish
<1>2. run.pc = "render" BY DEF Finish
<1>3. run = [f \in Fields |-> run[f]] /\ FuseOK /\ PassedIsPrinted
  BY <1>2 DEF RInv, UnderWay
<1>4. ~run.blown BY <1>3 DEF Finish, FuseOK
<1>5. ~(run.i <= run.end) BY <1>2, <1>4 DEF Finish, Printing
<1>6. run'.pc = "done" /\ run'.asked = run.asked /\ run'.out = run.out
  BY <1>3 DEF Finish, Fields
<1>7. run.asked = <<1, Len(items)>> => run.out = items
  <2> SUFFICES ASSUME run.asked = <<1, Len(items)>>
      PROVE  run.out = items
    OBVIOUS
  <2>1. /\ run.i \in 1..Len(items) + 1 /\ run.end = Len(items)
        /\ run.out = SubSeq(items, 1, run.i - 1)
    BY <1>3 DEF PassedIsPrinted
  <2>2. run.i - 1 = Len(items) BY <1>1, <1>5, <2>1
  <2>3. SubSeq(items, 1, Len(items)) = items BY <1>1
  <2> QED BY <2>1, <2>2, <2>3
<1> QED BY <1>1, <1>6, <1>7 DEF RInv, UnderWay, WholeTextIsComplete

LEMMA NextRInv == RInv /\ [Next]_vars => RInv'
<1> SUFFICES ASSUME RInv, [Next]_vars PROVE RInv' OBVIOUS
<1>1. CASE Calls BY <1>1, PushOK, RawWriteOK, StringifyOK DEF Calls
<1>2. CASE PrintItem BY <1>2, PrintItemOK
<1>3. CASE BlowFuse BY <1>3, BlowFuseOK
<1>4. CASE Retry BY <1>4, RetryOK
<1>5. CASE Finish BY <1>5, FinishOK
<1>6. CASE UNCHANGED vars
  BY <1>6 DEF vars, RInv, UnderWay, FuseOK, FuseFirst, NothingYet, Reaches, PassedIsPrinted,
              WholeTextIsComplete
<1> QED BY <1>1, <1>2, <1>3, <1>4, <1>5, <1>6 DEF Next

\* The invariant the following theorems come from.
THEOREM RenderingInvariance == Spec => []RInv
<1> QED BY InitRInv, NextRInv, PTL DEF Spec

\* Whichever route lua_json_elm_stringify takes, and whatever lengths it believes
\* in, a rendering of the whole element prints all items in their order.
THEOREM WholeTextAlwaysComplete == Spec => []WholeTextIsComplete
<1>1. RInv => WholeTextIsComplete BY DEF RInv
<1> QED BY <1>1, RenderingInvariance, PTL

\* The second try of lua_json_elm_stringify, which goes on with the counters of
\* the first, always finds them at zero.
THEOREM GivenUpCountsNothing == Spec => []GivenUpEmpty
<1>1. RInv => GivenUpEmpty
  BY DEF RInv, UnderWay, GivenUpEmpty, FuseOK, FuseFirst
<1> QED BY <1>1, RenderingInvariance, PTL

-------------------------------------------------------------------------------
(***************************************************************************)
(* What is printed of a part of an element.                                *)
(***************************************************************************)
AskedFor == /\ run.asked[1] \in Nat \ {0} /\ run.asked[2] \in Nat
            /\ run.asked[2] <= Len(items)

\* The first try goes through what is asked for; the element has not changed its
\* mind about its length since.
FirstTry ==
  /\ run.rlen = FromBase(base, run.mode)
  /\ (run.trusted <=> KnowsItsLength \/ IsLarge) /\ (run.lastTry <=> run.trusted)
  /\ run.end = run.asked[2] /\ run.i \in Nat /\ run.asked[1] <= run.i
  /\ run.i = run.asked[1] \/ run.i <= run.end + 1
  /\ run.blown => run.i <= run.end
  /\ run.out = SubSeq(items, run.asked[1], run.i - 1)

\* The second one goes through all.
SecondTry ==
  /\ InTwoTries /\ run.trusted /\ run.lastTry
  /\ run.end = Len(items) /\ run.i \in 1..Len(items) + 1
  /\ run.out = SubSeq(items, 1, run.i - 1)

TryInv == RInv /\ (run.pc = "render" => AskedFor /\ (FirstTry \/ SecondTry))

LEMMA NextPrinted ==
  ASSUME NEW s \in Seq(Value), NEW a \in Nat \ {0}, NEW i \in Nat, a <= i, i <= Len(s)
  PROVE  Append(SubSeq(s, a, i - 1), s[i]) = SubSeq(s, a, i)
  OBVIOUS

LEMMA PrintTried ==
  ASSUME TryInv, PrintItem PROVE TryInv'
<1>1. RInv' BY PrintItemOK DEF TryInv
<1>2. /\ items' = items /\ base' = base /\ stale' = stale /\ items \in Seq(Value)
      /\ run.pc = "render" /\ ~run.blown /\ run.i <= run.end /\ run = [f \in Fields |-> run[f]]
  BY DEF TryInv, RInv, UnderWay, PrintItem, Printing
<1>3. /\ run'.asked = run.asked /\ run'.end = run.end /\ run'.mode = run.mode
      /\ run'.rlen = run.rlen /\ run'.trusted = run.trusted /\ run'.lastTry = run.lastTry
      /\ run'.i = run.i + 1 /\ run'.out = Append(run.out, items[run.i]) /\ ~run'.blown
  BY <1>2 DEF PrintItem, Counting, Fields
<1>4. /\ KnowsItsLength' <=> KnowsItsLength
      /\ IsLarge' <=> IsLarge
      /\ InTwoTries' <=> InTwoTries
      /\ FromBase(base, run.mode)' = FromBase(base, run.mode)
  <2>1. FromBase(base, run.mode)' = FromBase(base, run.mode) BY <1>2, <1>3 DEF FromBase
  <2>2. (KnowsItsLength' <=> KnowsItsLength) /\ (IsLarge' <=> IsLarge)
    BY <1>2 DEF KnowsItsLength, IsLarge
  <2> QED BY <1>3, <2>1, <2>2 DEF InTwoTries, Reaches
<1>5. AskedFor /\ AskedFor' BY <1>2, <1>3 DEF TryInv, AskedFor
<1>6. CASE FirstTry
  <2>1. PICK a \in Nat \ {0}, i \in Nat : a = run.asked[1] /\ i = run.i
    BY <1>5, <1>6 DEF AskedFor, FirstTry
  <2>2. a <= i /\ i <= Len(items) /\ i + 1 - 1 = i /\ i + 1 <= run.end + 1 /\ a <= i + 1
    BY <1>2, <1>5, <1>6, <2>1 DEF AskedFor, FirstTry
  <2>3. run'.out = SubSeq(items, a, i)
    BY <1>2, <1>3, <1>6, <2>1, <2>2, NextPrinted DEF FirstTry
  <2>4. /\ run'.i = i + 1 /\ run'.i \in Nat /\ run'.i - 1 = i
        /\ run'.asked[1] = a /\ run'.end = run.end /\ run.end = run'.asked[2]
    BY <1>3, <1>6, <2>1 DEF FirstTry
  <2>5. run'.asked[1] <= run'.i /\ run'.i <= run'.end + 1 BY <2>2, <2>4
  <2>6. run'.out = SubSeq(items', run'.asked[1], run'.i - 1) BY <1>2, <2>3, <2>4
  <2>7. /\ run'.rlen = FromBase(base, run.mode)'
        /\ (run'.trusted <=> KnowsItsLength' \/ IsLarge') /\ (run'.lastTry <=> run'.trusted)
    BY <1>3, <1>4, <1>6 DEF FirstTry
  <2>8. FirstTry' BY <1>3, <2>4, <2>5, <2>6, <2>7 DEF FirstTry
  <2> QED BY <1>1, <1>5, <2>8 DEF TryInv
<1>7. CASE SecondTry
  <2>1. PICK i \in Nat : i = run.i /\ 1 <= i BY <1>7 DEF SecondTry
  <2>2. i <= Len(items) /\ i + 1 - 1 = i /\ i + 1 \in 1..Len(items) + 1
    BY <1>2, <1>7, <2>1 DEF SecondTry
  <2>3. run'.out = SubSeq(items, 1, i)
    <3>1. run.out = SubSeq(items, 1, i - 1) BY <1>7, <2>1 DEF SecondTry
    <3>2. Append(SubSeq(items, 1, i - 1), items[i]) = SubSeq(items, 1, i)
      <4>1. 1 \in Nat \ {0} OBVIOUS
      <4> QED BY <1>2, <2>1, <2>2, <4>1, NextPrinted
    <3> QED BY <1>3, <2>1, <3>1, <3>2
  <2>4. SecondTry'
    <3>1. InTwoTries' /\ run'.trusted /\ run'.lastTry /\ run'.end = Len(items)
      BY <1>3, <1>4, <1>7 DEF SecondTry
    <3>2. run'.i = i + 1 /\ run'.i - 1 = i BY <1>3, <2>1
    <3> QED BY <1>2, <2>2, <2>3, <3>1, <3>2 DEF SecondTry
  <2> QED BY <1>1, <1>5, <2>4 DEF TryInv
<1> QED BY <1>2, <1>6, <1>7 DEF TryInv

LEMMA BlowTried ==
  ASSUME TryInv, BlowFuse PROVE TryInv'
<1>1. RInv' BY BlowFuseOK DEF TryInv
<1>2. /\ items' = items /\ base' = base /\ stale' = stale
      /\ run.pc = "render" /\ run.i <= run.end /\ run = [f \in Fields |-> run[f]]
  BY DEF TryInv, RInv, UnderWay, BlowFuse, Printing
<1>3. /\ run'.asked = run.asked /\ run'.end = run.end /\ run'.mode = run.mode
      /\ run'.rlen = run.rlen /\ run'.trusted = run.trusted /\ run'.lastTry = run.lastTry
      /\ run'.i = run.i /\ run'.out = run.out
  BY <1>2 DEF BlowFuse, Fields
<1>4. /\ KnowsItsLength' <=> KnowsItsLength
      /\ IsLarge' <=> IsLarge
      /\ InTwoTries' <=> InTwoTries
      /\ FromBase(base, run.mode)' = FromBase(base, run.mode)
  <2>1. FromBase(base, run.mode)' = FromBase(base, run.mode) BY <1>2, <1>3 DEF FromBase
  <2>2. (KnowsItsLength' <=> KnowsItsLength) /\ (IsLarge' <=> IsLarge)
    BY <1>2 DEF KnowsItsLength, IsLarge
  <2> QED BY <1>3, <2>1, <2>2 DEF InTwoTries, Reaches
<1>5. AskedFor' BY <1>2, <1>3 DEF TryInv, AskedFor
<1>6. FirstTry => FirstTry' BY <1>2, <1>3, <1>4 DEF FirstTry
<1>7. SecondTry => SecondTry' BY <1>2, <1>3, <1>4 DEF SecondTry
<1> QED BY <1>1, <1>2, <1>5, <1>6, <1>7 DEF TryInv

LEMMA RetryTried ==
  ASSUME TryInv, Retry PROVE TryInv'
<1>1. RInv' BY RetryOK DEF TryInv
<1>2. /\ items' = items /\ base' = base /\ stale' = stale /\ items \in Seq(Value)
      /\ run.pc = "render" /\ run.blown /\ ~run.lastTry /\ run = [f \in Fields |-> run[f]]
      /\ FuseOK /\ FuseFirst
  BY DEF TryInv, RInv, UnderWay, Retry
<1>3. /\ run'.asked = run.asked /\ run'.end = Len(items) /\ run'.mode = run.mode
      /\ run'.trusted = TRUE /\ run'.lastTry = TRUE /\ run'.i = 1 /\ run'.out = << >>
  BY <1>2 DEF Retry, Fields
<1>4. AskedFor /\ AskedFor' BY <1>2, <1>3 DEF TryInv, AskedFor
<1>5. FirstTry BY <1>2 DEF TryInv, SecondTry
<1>6. InTwoTries
  <2>1. ~KnowsItsLength /\ ~IsLarge /\ Reaches(FromBase(base, run.mode))
    BY <1>2, <1>5 DEF FirstTry, FuseOK
  <2>2. run.asked[1] <= run.asked[2]
    BY <1>2, <1>4, <1>5 DEF FirstTry, AskedFor
  <2> QED BY <2>1, <2>2 DEF InTwoTries
<1>7. InTwoTries'
  <2>1. FromBase(base, run.mode)' = FromBase(base, run.mode) BY <1>2, <1>3 DEF FromBase
  <2>2. (KnowsItsLength' <=> KnowsItsLength) /\ (IsLarge' <=> IsLarge)
    BY <1>2 DEF KnowsItsLength, IsLarge
  <2> QED BY <1>3, <1>6, <2>1, <2>2 DEF InTwoTries, Reaches
<1>8. << >> = SubSeq(items, 1, 0) /\ 1 \in 1..Len(items) + 1 BY <1>2
<1>9. SecondTry' BY <1>2, <1>3, <1>7, <1>8 DEF SecondTry
<1> QED BY <1>1, <1>4, <1>9 DEF TryInv

LEMMA AskTried ==
  ASSUME TryInv, NEW s \in Nat \ {0}, NEW e \in Nat, e <= Len(items), NEW m, Stringify(s, e, m)
  PROVE  TryInv'
<1>1. RInv' BY StringifyOK DEF TryInv
<1>2. items' = items /\ base' = base /\ stale' = stale /\ items \in Seq(Value)
  BY DEF TryInv, RInv, Stringify
<1>3. /\ run'.asked = <<s, e>> /\ run'.mode = m /\ run'.i = s /\ run'.end = e
      /\ run'.rlen = FromBase(base, m) /\ run'.blown = FALSE /\ run'.out = << >>
      /\ (run'.trusted <=> KnowsItsLength \/ IsLarge) /\ (run'.lastTry <=> KnowsItsLength \/ IsLarge)
  BY DEF Stringify, Trusted
<1>4. AskedFor' BY <1>2, <1>3 DEF AskedFor
<1>5. FirstTry'
  <2>1. FromBase(base, run.mode)' = FromBase(base, m) BY <1>2, <1>3 DEF FromBase
  <2>2. (KnowsItsLength' <=> KnowsItsLength) /\ (IsLarge' <=> IsLarge)
    BY <1>2 DEF KnowsItsLength, IsLarge
  <2>3. << >> = SubSeq(items, s, s - 1) BY <1>2
  <2> QED BY <1>2, <1>3, <2>1, <2>2, <2>3 DEF FirstTry
<1> QED BY <1>1, <1>4, <1>5 DEF TryInv

LEMMA NotTrying ==
  ASSUME RInv', run'.pc # "render" PROVE TryInv'
  BY DEF TryInv

LEMMA NextTried == TryInv /\ [Next]_vars => TryInv'
<1> SUFFICES ASSUME TryInv, [Next]_vars PROVE TryInv' OBVIOUS
<1>1. RInv /\ RInv' BY NextRInv DEF TryInv
<1>2. CASE Calls
  <2>1. CASE \E v \in Value : Push(v)
    <3>1. run'.pc # "render" BY <2>1 DEF Push, Idle
    <3> QED BY <1>1, <3>1, NotTrying
  <2>2. CASE \E i \in DOMAIN items, v \in Value : RawWrite(i, v)
    <3>1. run'.pc # "render" BY <2>2 DEF RawWrite, Idle
    <3> QED BY <1>1, <3>1, NotTrying
  <2>3. CASE \E s, e \in DOMAIN items, m \in Modes : Stringify(s, e, m)
    <3>1. PICK s \in DOMAIN items, e \in DOMAIN items, m \in Modes : Stringify(s, e, m) BY <2>3
    <3>2. s \in Nat \ {0} /\ e \in Nat /\ e <= Len(items) BY <1>1 DEF RInv
    <3> QED BY <3>1, <3>2, AskTried
  <2>4. CASE \E m \in Modes : Stringify(1, Len(items), m)
    <3>1. Len(items) \in Nat BY <1>1 DEF RInv
    <3> QED BY <2>4, <3>1, AskTried
  <2> QED BY <1>2, <2>1, <2>2, <2>3, <2>4 DEF Calls
<1>3. CASE PrintItem BY <1>3, PrintTried
<1>4. CASE BlowFuse BY <1>4, BlowTried
<1>5. CASE Retry BY <1>5, RetryTried
<1>6. CASE Finish
  <2>1. run'.pc # "render" BY <1>1, <1>6 DEF Finish, RInv, UnderWay, Fields
  <2> QED BY <1>1, <2>1, NotTrying
<1>7. CASE UNCHANGED vars
  BY <1>1, <1>7 DEF vars, TryInv, AskedFor, FirstTry, SecondTry, InTwoTries, KnowsItsLength, IsLarge,
                    Reaches, FromBase
<1> QED BY <1>2, <1>3, <1>4, <1>5, <1>6, <1>7 DEF Next

LEMMA TriedAll ==
  ASSUME TryInv, Finish
  PROVE  run'.out = IF InTwoTries THEN items ELSE SubSeq(items, run.asked[1], run.asked[2])
<1>1. /\ run.pc = "render" /\ run = [f \in Fields |-> run[f]] /\ items \in Seq(Value)
      /\ FuseOK /\ FuseFirst /\ AskedFor
  BY DEF TryInv, RInv, UnderWay, Finish
<1>2. run'.out = run.out BY <1>1 DEF Finish, Fields
<1>3. ~run.blown BY <1>1 DEF Finish, FuseOK
<1>4. ~(run.i <= run.end) BY <1>1, <1>3 DEF Finish, Printing
<1>5. CASE SecondTry
  <2>1. run.i - 1 = Len(items) BY <1>1, <1>4, <1>5 DEF SecondTry
  <2>2. SubSeq(items, 1, Len(items)) = items BY <1>1
  <2> QED BY <1>2, <1>5, <2>1, <2>2 DEF SecondTry
<1>6. CASE FirstTry
  <2>1. PICK a \in Nat \ {0}, e \in Nat : a = run.asked[1] /\ e = run.asked[2] /\ e <= Len(items)
    BY <1>1 DEF AskedFor
  <2>2. PICK i \in Nat : i = run.i /\ a <= i /\ (i = a \/ i <= e + 1) /\ ~(i <= e)
    BY <1>4, <1>6, <2>1 DEF FirstTry
  <2>3. run.out = SubSeq(items, a, i - 1) BY <1>6, <2>1, <2>2 DEF FirstTry
  <2>4. SubSeq(items, a, i - 1) = SubSeq(items, a, e)
    <3>1. CASE a <= e
      <4>1. i - 1 = e BY <2>2, <3>1
      <4> QED BY <4>1
    <3>2. CASE ~(a <= e)
      <4>1. i - 1 = a - 1 BY <2>2, <3>2
      <4>2. SubSeq(items, a, a - 1) = << >> /\ SubSeq(items, a, e) = << >> BY <1>1, <2>1, <3>2
      <4> QED BY <4>1, <4>2
    <3> QED BY <3>1, <3>2
  <2>5. ~InTwoTries
    <3> SUFFICES ASSUME InTwoTries PROVE FALSE OBVIOUS
    <3>1. a <= e BY <2>1 DEF InTwoTries
    <3>2. run.out = << >> BY <1>1, <1>6 DEF InTwoTries, FirstTry, FuseFirst, NothingYet
    <3>3. Len(SubSeq(items, a, e)) = e - a + 1 BY <1>1, <2>1, <3>1
    <3>4. Len(SubSeq(items, a, e)) = 0
      <4>1. SubSeq(items, a, e) = << >> BY <2>3, <2>4, <3>2
      <4> QED BY <4>1
    <3>5. e - a + 1 = 0 BY <3>3, <3>4
    <3> QED BY <3>1, <3>5
  <2> QED BY <1>2, <2>1, <2>3, <2>4, <2>5
<1> QED BY <1>1, <1>5, <1>6 DEF TryInv

\* What is printed of a part of an element is the part, or all of the element if
\* lua_json_elm_stringify renders it twice, and when that is depends on nothing
\* but what the element believes of its length.
THEOREM AlwaysPartOrWhole == Spec => PartOrWhole
<1> DEFINE Right == run'.out = IF InTwoTries THEN items
                               ELSE SubSeq(items, run.asked[1], run.asked[2])
<1>1. Init => TryInv BY InitRInv DEF Init, Idle, TryInv
<1>2. TryInv /\ [Next]_vars => TryInv' BY NextTried
<1>3. TryInv /\ [Next]_vars => [run.pc = "render" /\ run'.pc = "done" => Right]_vars
  <2> SUFFICES ASSUME TryInv, Next, run.pc = "render", run'.pc = "done" PROVE Right
    OBVIOUS
  <2>1. run = [f \in Fields |-> run[f]] BY DEF TryInv, RInv, UnderWay
  <2>2. ~(Calls \/ PrintItem \/ BlowFuse \/ Retry)
    BY <2>1 DEF Calls, Push, RawWrite, Stringify, Ready, PrintItem, Counting, BlowFuse, Retry, Fields
  <2>3. Finish BY <2>2 DEF Next
  <2> HIDE DEF Right
  <2> QED BY <2>3, TriedAll DEF Right
<1> QED BY <1>1, <1>2, <1>3, PTL DEF Spec, PartOrWhole

-------------------------------------------------------------------------------
(***************************************************************************)
(* The counters of a rendering are those of the text it has printed, item  *)
(* by item, and at its end those of the text it returns.                   *)
(***************************************************************************)
KeysOf(out) == [i \in DOMAIN out |-> Keys(out[i])]
QuotesOf(out) == [i \in DOMAIN out |-> Quotes(out[i])]
RefsOf(out) == [i \in DOMAIN out |-> Refs(out[i])]

\* An item in another mode is longer by what is added to its keys and strings.
LEMMA ItemLonger ==
  ASSUME isObject \in BOOLEAN, NEW v \in Value, NEW m \in Modes
  PROVE  /\ ItemText(v, Json) \in Int /\ Keys(v) \in Int /\ Quotes(v) \in Int /\ Refs(v) \in Int
         /\ ItemText(v, m) = ItemText(v, Json) + ForKey(m) * Keys(v) + ForString(m) * Quotes(v)
<1>1. /\ ForString(m) \in {0, 2} /\ ForKey(m) \in {-2, 0, 2}
      /\ m \in [lua : BOOLEAN, esc : BOOLEAN]
  BY Additions DEF Modes
<1>2. /\ KeyText(m, KeyLen) = KeyText(Json, KeyLen) + ForKey(m)
      /\ KeyText(m, 1) = KeyText(Json, 1) + ForKey(m)
      /\ KeyText(Json, KeyLen) \in Int /\ KeyText(Json, 1) \in Int
  <2>1. KeyLen \in Nat /\ 1 \in Nat
    BY RenderingConstants
  <2>2. \A n \in Nat : KeyText(m, n) = KeyText(Json, n) + ForKey(m)
    BY SameForAnyLength
  <2>3. \A n \in Nat : KeyText(Json, n) = n + 3
    BY DEF KeyText, Json
  <2> QED BY <2>1, <2>2, <2>3
<1>3. /\ KeyPart(Json) \in Int
      /\ KeyPart(m) = KeyPart(Json) + (IF isObject THEN ForKey(m) ELSE 0)
  BY <1>1, <1>2 DEF KeyPart
<1>4. CASE v \in Strings
  <2>1. Width[v] \in Nat /\ v \notin Plain /\ v # Table
    BY <1>4, RenderingConstants
  <2>2. /\ StringText(m, Width[v]) = StringText(Json, Width[v]) + ForString(m)
        /\ StringText(Json, Width[v]) \in Int
    BY <2>1, SameForAnyLength DEF StringText, Json
  <2>3. \A n \in Modes : ItemText(v, n) = KeyPart(n) + StringText(n, Width[v])
    BY <1>4, <2>1 DEF ItemText
  <2>4. /\ ItemText(v, m) = KeyPart(m) + StringText(m, Width[v])
        /\ ItemText(v, Json) = KeyPart(Json) + StringText(Json, Width[v])
    BY <2>3 DEF Modes, Json
  <2>5. Keys(v) = (IF isObject THEN 1 ELSE 0) /\ Quotes(v) = 1 /\ Refs(v) = 0
    BY <2>1 DEF Keys, Quotes, Refs
  <2> QED BY <1>1, <1>3, <2>2, <2>4, <2>5
<1>5. CASE v \in Plain
  <2>1. Width[v] \in Nat /\ v \notin Strings /\ v # Table
    BY <1>5, RenderingConstants
  <2>2. /\ ItemText(v, m) = KeyPart(m) + Width[v]
        /\ ItemText(v, Json) = KeyPart(Json) + Width[v]
    BY <1>5, <2>1 DEF ItemText, PlainText
  <2>3. Keys(v) = (IF isObject THEN 1 ELSE 0) /\ Quotes(v) = 0 /\ Refs(v) = 0
    BY <1>5, <2>1 DEF Keys, Quotes, Refs
  <2> QED BY <1>1, <1>3, <2>1, <2>2, <2>3
<1>6. CASE v = Table
  <2>1. v \notin Strings /\ v \notin Plain
    BY <1>6, RenderingConstants
  <2>2. /\ StringText(m, 1) = StringText(Json, 1) + ForString(m) /\ StringText(Json, 1) \in Int
    BY SameForAnyLength DEF StringText, Json
  <2>3. /\ ItemText(v, m) = KeyPart(m) + (Brackets + KeyText(m, 1) + StringText(m, 1))
        /\ ItemText(v, Json) = KeyPart(Json) + (Brackets + KeyText(Json, 1) + StringText(Json, 1))
    BY <2>1 DEF ItemText
  <2>4. Keys(v) = (IF isObject THEN 1 ELSE 0) + 1 /\ Quotes(v) = 1 /\ Refs(v) = 1
    BY <1>6, <2>1 DEF Keys, Quotes, Refs
  <2>5. Brackets \in Int
    BY DEF Brackets
  <2> QED BY <1>1, <1>2, <1>3, <2>2, <2>3, <2>4, <2>5
<1> QED BY <1>4, <1>5, <1>6 DEF Value

\* A text in another mode is longer by what is added to its keys and strings.
LEMMA TextIsPrinted ==
  ASSUME isObject \in BOOLEAN, NEW out \in Seq(Value), NEW m \in Modes
  PROVE  /\ TextLen(out, Json) \in Int
         /\ SumFunction(KeysOf(out)) \in Int /\ SumFunction(QuotesOf(out)) \in Int
         /\ TextLen(out, m) = PrintedLen(TextLen(out, Json), m, SumFunction(KeysOf(out)),
                                      SumFunction(QuotesOf(out)))
<1> DEFINE S == DOMAIN out
           f == [i \in S |-> ItemText(out[i], Json)]
           h == [i \in S |-> ItemText(out[i], m)]
           g == KeysOf(out)
           k == QuotesOf(out)
           a == ForKey(m)
           b == ForString(m)
           c == Brackets + (IF out = << >> THEN 0 ELSE Len(out) - 1)
<1>1. IsFiniteSet(S) /\ c \in Int
  <2>1. S = 1..Len(out) /\ Len(out) \in Nat
    OBVIOUS
  <2>2. IsFiniteSet(S)
    <3> HIDE DEF S
    <3> QED BY <2>1, FS_Interval
  <2> QED BY <2>1, <2>2 DEF Brackets
<1>2. a \in Int /\ b \in Int
  BY Additions
<1>3. \A i \in S : /\ f[i] \in Int /\ g[i] \in Int /\ k[i] \in Int
                   /\ h[i] = f[i] + a * g[i] + b * k[i]
  <2>1. \A i \in S : out[i] \in Value
    OBVIOUS
  <2>2. \A i \in S : /\ f[i] = ItemText(out[i], Json) /\ h[i] = ItemText(out[i], m)
                     /\ g[i] = Keys(out[i]) /\ k[i] = Quotes(out[i])
    BY DEF KeysOf, QuotesOf
  <2> HIDE DEF S, f, g, h, k
  <2> QED BY <2>1, <2>2, ItemLonger
<1>4. DOMAIN f = S /\ DOMAIN g = S /\ DOMAIN h = S /\ DOMAIN k = S
  BY DEF KeysOf, QuotesOf
<1>5. TextLen(out, Json) = c + SumFunction(f) /\ TextLen(out, m) = c + SumFunction(h)
  BY DEF TextLen
<1> HIDE DEF S, f, g, h, k, a, b, c
<1>6. /\ SumFunctionOnSet(f, S) \in Int /\ SumFunctionOnSet(g, S) \in Int
      /\ SumFunctionOnSet(k, S) \in Int
      /\ SumFunctionOnSet(h, S) = SumFunctionOnSet(f, S) + a * SumFunctionOnSet(g, S)
                                    + b * SumFunctionOnSet(k, S)
  BY <1>1, <1>2, <1>3, SumLinear
<1>7. /\ SumFunction(f) = SumFunctionOnSet(f, S) /\ SumFunction(g) = SumFunctionOnSet(g, S)
      /\ SumFunction(h) = SumFunctionOnSet(h, S) /\ SumFunction(k) = SumFunctionOnSet(k, S)
  BY <1>4 DEF SumFunction
<1> DEFINE F == SumFunction(f)
           G == SumFunction(g)
           H == SumFunction(h)
           K == SumFunction(k)
<1>8. F \in Int /\ G \in Int /\ K \in Int /\ H = F + a * G + b * K
  BY <1>6, <1>7
<1>9. TextLen(out, Json) = c + F /\ TextLen(out, m) = c + H
  BY <1>5
<1> HIDE DEF F, G, H, K
<1>10. a * G \in Int /\ b * K \in Int
  BY <1>2, <1>8
<1>11. TextLen(out, m) = PrintedLen(TextLen(out, Json), m, G, K)
  <2>1. c + H = (c + F) + a * G + b * K
    BY <1>1, <1>8, <1>10
  <2> QED BY <1>9, <2>1 DEF PrintedLen, a, b
<1> QED BY <1>1, <1>8, <1>9, <1>11 DEF G, K, g, k

\* What has been counted are the keys, strings and tables of what was printed.
Counted ==
  /\ run.out \in Seq(Value)
  /\ run.nkeys = SumFunction(KeysOf(run.out))
  /\ run.quoted = SumFunction(QuotesOf(run.out))
  /\ run.refs = SumFunction(RefsOf(run.out))

\* The position and the range.
WithinItems == run.i \in Nat \ {0} /\ run.end \in 0..Len(items) /\ run.mode \in Modes

CountInv ==
  /\ RInv /\ isObject \in BOOLEAN
  /\ run.pc = "render" => Counted /\ WithinItems
  /\ CountsPrintedOnce

LEMMA EmptyCounted ==
  /\ SumFunction(KeysOf(<< >>)) = 0
  /\ SumFunction(QuotesOf(<< >>)) = 0
  /\ SumFunction(RefsOf(<< >>)) = 0
<1>1. DOMAIN KeysOf(<< >>) = {} /\ DOMAIN QuotesOf(<< >>) = {} /\ DOMAIN RefsOf(<< >>) = {}
  BY DEF KeysOf, QuotesOf, RefsOf
<1> QED BY <1>1, SumEmpty DEF SumFunction

\* One item more has been printed.
LEMMA AppendCounted ==
  ASSUME isObject \in BOOLEAN, NEW out \in Seq(Value), NEW v \in Value
  PROVE  /\ Append(out, v) \in Seq(Value)
         /\ SumFunction(KeysOf(Append(out, v))) = SumFunction(KeysOf(out)) + Keys(v)
         /\ SumFunction(QuotesOf(Append(out, v))) = SumFunction(QuotesOf(out)) + Quotes(v)
         /\ SumFunction(RefsOf(Append(out, v))) = SumFunction(RefsOf(out)) + Refs(v)
<1> DEFINE n == Len(out)
           out2 == Append(out, v)
<1>1. /\ n \in Nat /\ DOMAIN out = 1..n /\ DOMAIN out2 = 1..(n + 1) /\ out2 \in Seq(Value)
      /\ out2[n + 1] = v /\ \A i \in 1..n : out2[i] = out[i] /\ out[i] \in Value /\ i \in 1..(n + 1)
      /\ n + 1 \in 1..(n + 1)
  OBVIOUS
<1> HIDE DEF n, out2
<1>2. \A w \in Value : Keys(w) \in Int /\ Quotes(w) \in Int /\ Refs(w) \in Int
  BY DEF Keys, Quotes, Refs
<1>3. SumFunction(KeysOf(out2)) = SumFunction(KeysOf(out)) + Keys(v)
  <2> DEFINE f == KeysOf(out)
             g == KeysOf(out2)
  <2>1. /\ DOMAIN f = 1..n /\ DOMAIN g = 1..(n + 1) /\ g[n + 1] = Keys(v)
        /\ \A i \in 1..n : f[i] \in Int /\ g[i] = f[i]
    BY <1>1, <1>2 DEF KeysOf
  <2> HIDE DEF f, g
  <2>2. SumFunction(g) = SumFunction(f) + g[n + 1]
    BY <1>1, <1>2, <2>1, SumAppended
  <2> QED BY <2>1, <2>2 DEF f, g
<1>4. SumFunction(QuotesOf(out2)) = SumFunction(QuotesOf(out)) + Quotes(v)
  <2> DEFINE f == QuotesOf(out)
             g == QuotesOf(out2)
  <2>1. /\ DOMAIN f = 1..n /\ DOMAIN g = 1..(n + 1) /\ g[n + 1] = Quotes(v)
        /\ \A i \in 1..n : f[i] \in Int /\ g[i] = f[i]
    BY <1>1, <1>2 DEF QuotesOf
  <2> HIDE DEF f, g
  <2>2. SumFunction(g) = SumFunction(f) + g[n + 1]
    BY <1>1, <1>2, <2>1, SumAppended
  <2> QED BY <2>1, <2>2 DEF f, g
<1>5. SumFunction(RefsOf(out2)) = SumFunction(RefsOf(out)) + Refs(v)
  <2> DEFINE f == RefsOf(out)
             g == RefsOf(out2)
  <2>1. /\ DOMAIN f = 1..n /\ DOMAIN g = 1..(n + 1) /\ g[n + 1] = Refs(v)
        /\ \A i \in 1..n : f[i] \in Int /\ g[i] = f[i]
    BY <1>1, <1>2 DEF RefsOf
  <2> HIDE DEF f, g
  <2>2. SumFunction(g) = SumFunction(f) + g[n + 1]
    BY <1>1, <1>2, <2>1, SumAppended
  <2> QED BY <2>1, <2>2 DEF f, g
<1> QED BY <1>1, <1>3, <1>4, <1>5 DEF out2


\* Whatever else a step does, a rendering that has not ended is not judged.
LEMMA InitCountInv == Init => CountInv
<1> SUFFICES ASSUME Init PROVE CountInv OBVIOUS
<1>1. RInv BY InitRInv
<1>2. run.pc = "idle" /\ isObject \in BOOLEAN BY DEF Init, Idle
<1> QED BY <1>1, <1>2 DEF CountInv, CountsPrintedOnce

LEMMA CountIdle ==
  ASSUME CountInv, RInv', isObject' = isObject, run' = Idle
  PROVE  CountInv'
<1>1. run'.pc = "idle" BY DEF Idle
<1> QED BY <1>1 DEF CountInv, CountsPrintedOnce

\* A rendering starts with nothing printed and nothing counted.
LEMMA CountStringify ==
  ASSUME CountInv, RInv', NEW s \in Nat \ {0}, NEW e \in 0..Len(items), NEW m \in Modes,
         Stringify(s, e, m)
  PROVE  CountInv'
<1>1. /\ run'.pc = "render" /\ run'.i = s /\ run'.end = e /\ run'.mode = m
      /\ run'.out = << >> /\ run'.nkeys = 0 /\ run'.quoted = 0 /\ run'.refs = 0
      /\ items' = items /\ isObject' = isObject
  BY DEF Stringify
<1>2. Counted'
  <2>1. run'.out \in Seq(Value) BY <1>1
  <2>2. /\ SumFunction(KeysOf(run'.out)) = 0 /\ SumFunction(QuotesOf(run'.out)) = 0
        /\ SumFunction(RefsOf(run'.out)) = 0
    BY <1>1, EmptyCounted
  <2>3. /\ KeysOf(run.out)' = KeysOf(run'.out)
        /\ QuotesOf(run.out)' = QuotesOf(run'.out)
        /\ RefsOf(run.out)' = RefsOf(run'.out)
    BY <1>1 DEF KeysOf, QuotesOf, RefsOf, Keys, Quotes, Refs
  <2> QED BY <1>1, <2>1, <2>2, <2>3 DEF Counted
<1>3. WithinItems' BY <1>1 DEF WithinItems
<1> QED BY <1>1, <1>2, <1>3 DEF CountInv, CountsPrintedOnce


LEMMA CountPrintItem ==
  ASSUME CountInv, RInv', PrintItem
  PROVE  CountInv'
<1>1. /\ run.pc = "render" /\ run.i <= run.end
      /\ items' = items /\ isObject' = isObject /\ isObject \in BOOLEAN
      /\ items \in Seq(Value)
  BY DEF PrintItem, Printing, CountInv, RInv
<1>2. run = [f \in Fields |-> run[f]] /\ Counted /\ WithinItems
  BY <1>1 DEF CountInv, RInv, UnderWay
<1>3. PICK v : v = items[run.i] OBVIOUS
<1>4. /\ run'.pc = "render" /\ run'.end = run.end /\ run'.mode = run.mode
      /\ run'.i = run.i + 1 /\ run'.out = Append(run.out, v)
      /\ run'.nkeys = run.nkeys + Keys(v) /\ run'.quoted = run.quoted + Quotes(v)
      /\ run'.refs = run.refs + Refs(v)
  BY <1>1, <1>2, <1>3 DEF PrintItem, Counting, Fields
<1>5. v \in Value
  BY <1>1, <1>2, <1>3 DEF WithinItems
<1>6. WithinItems'
  BY <1>1, <1>2, <1>4 DEF WithinItems
<1>7. Counted'
  <2>1. run.out \in Seq(Value) BY <1>2 DEF Counted
  <2>2. /\ run'.out \in Seq(Value)
        /\ SumFunction(KeysOf(run'.out)) = SumFunction(KeysOf(run.out)) + Keys(v)
        /\ SumFunction(QuotesOf(run'.out)) = SumFunction(QuotesOf(run.out)) + Quotes(v)
        /\ SumFunction(RefsOf(run'.out)) = SumFunction(RefsOf(run.out)) + Refs(v)
    BY <1>1, <1>4, <1>5, <2>1, AppendCounted
  <2>3. /\ KeysOf(run.out)' = KeysOf(run'.out)
        /\ QuotesOf(run.out)' = QuotesOf(run'.out)
        /\ RefsOf(run.out)' = RefsOf(run'.out)
    BY <1>1 DEF KeysOf, QuotesOf, RefsOf, Keys, Quotes, Refs
  <2> QED BY <1>2, <1>4, <2>2, <2>3 DEF Counted
<1> QED BY <1>1, <1>4, <1>6, <1>7 DEF CountInv, CountsPrintedOnce

\* A step that leaves what has been printed alone leaves the counters alone.
LEMMA CountKept ==
  ASSUME CountInv, RInv', run.pc = "render", run'.pc = "render",
         items' = items, isObject' = isObject,
         run'.i = run.i, run'.end = run.end, run'.mode = run.mode, run'.out = run.out,
         run'.nkeys = run.nkeys, run'.quoted = run.quoted, run'.refs = run.refs
  PROVE  CountInv'
<1>1. Counted /\ WithinItems BY DEF CountInv
<1>2. /\ KeysOf(run.out)' = KeysOf(run.out)
      /\ QuotesOf(run.out)' = QuotesOf(run.out)
      /\ RefsOf(run.out)' = RefsOf(run.out)
  BY DEF KeysOf, QuotesOf, RefsOf, Keys, Quotes, Refs
<1>3. Counted' BY <1>1, <1>2 DEF Counted
<1>4. WithinItems' BY <1>1 DEF WithinItems
<1> QED BY <1>3, <1>4 DEF CountInv, CountsPrintedOnce

LEMMA CountBlowFuse ==
  ASSUME CountInv, RInv', BlowFuse
  PROVE  CountInv'
<1>1. run.pc = "render" /\ items' = items /\ isObject' = isObject
  BY DEF BlowFuse, Printing
<1>2. run = [f \in Fields |-> run[f]]
  BY <1>1 DEF CountInv, RInv, UnderWay
<1>3. /\ run'.pc = "render" /\ run'.i = run.i /\ run'.end = run.end /\ run'.mode = run.mode
      /\ run'.out = run.out /\ run'.nkeys = run.nkeys /\ run'.quoted = run.quoted
      /\ run'.refs = run.refs
  BY <1>1, <1>2 DEF BlowFuse, Fields
<1> QED BY <1>1, <1>3, CountKept

\* The second try begins as the first: nothing of the one given up is counted.
LEMMA CountRetry ==
  ASSUME CountInv, RInv', Retry
  PROVE  CountInv'
<1>1. /\ run.pc = "render" /\ run.blown /\ items' = items /\ isObject' = isObject
      /\ items \in Seq(Value)
  BY DEF Retry, CountInv, RInv
<1>2. run = [f \in Fields |-> run[f]] /\ NothingYet /\ WithinItems
  BY <1>1 DEF CountInv, RInv, UnderWay, FuseOK, FuseFirst
<1>3. /\ run'.pc = "render" /\ run'.i = 1 /\ run'.end = Len(items) /\ run'.mode = run.mode
      /\ run'.out = << >> /\ run'.nkeys = run.nkeys /\ run'.quoted = run.quoted
      /\ run'.refs = run.refs
  BY <1>1, <1>2 DEF Retry, Fields
<1>4. run'.nkeys = 0 /\ run'.quoted = 0 /\ run'.refs = 0
  BY <1>2, <1>3 DEF NothingYet
<1>5. Counted'
  <2>1. run'.out \in Seq(Value) BY <1>3
  <2>2. /\ SumFunction(KeysOf(run'.out)) = 0 /\ SumFunction(QuotesOf(run'.out)) = 0
        /\ SumFunction(RefsOf(run'.out)) = 0
    BY <1>3, EmptyCounted
  <2>3. /\ KeysOf(run.out)' = KeysOf(run'.out)
        /\ QuotesOf(run.out)' = QuotesOf(run'.out)
        /\ RefsOf(run.out)' = RefsOf(run'.out)
    BY <1>1 DEF KeysOf, QuotesOf, RefsOf, Keys, Quotes, Refs
  <2> QED BY <1>4, <2>1, <2>2, <2>3 DEF Counted
<1>6. WithinItems'
  BY <1>1, <1>2, <1>3 DEF WithinItems
<1> QED BY <1>1, <1>3, <1>5, <1>6 DEF CountInv, CountsPrintedOnce

\* The end takes off what the mode has added, which leaves the length as JSON.
LEMMA CountFinish ==
  ASSUME CountInv, RInv', Finish
  PROVE  CountInv'
<1>1. run.pc = "render" /\ items' = items /\ isObject' = isObject /\ isObject \in BOOLEAN
  BY DEF Finish, CountInv
<1>2. run = [f \in Fields |-> run[f]] /\ Counted /\ WithinItems
  BY <1>1 DEF CountInv, RInv, UnderWay
<1>3. PICK out, mode : out = run.out /\ mode = run.mode OBVIOUS
<1>4. run'.pc = "done" /\ run'.out = out /\ run'.mode = mode
  BY <1>2, <1>3 DEF Finish, Fields
<1>5. PICK nkeys, quoted, refs : /\ nkeys = SumFunction(KeysOf(out))
                                 /\ quoted = SumFunction(QuotesOf(out))
                                 /\ refs = SumFunction(RefsOf(out))
  OBVIOUS
<1>6. /\ base' = ToBase(TextLen(out, mode), mode, nkeys, quoted, refs)
      /\ out \in Seq(Value) /\ mode \in Modes
  BY <1>2, <1>3, <1>5 DEF Finish, Counted, WithinItems
<1>7. PICK plain : plain = TextLen(out, Json) OBVIOUS
<1>8. plain \in Int /\ nkeys \in Int /\ quoted \in Int
  BY <1>1, <1>5, <1>6, <1>7, TextIsPrinted
<1>9. \A m \in Modes : TextLen(out, m) = PrintedLen(plain, m, nkeys, quoted)
  BY <1>1, <1>5, <1>6, <1>7, TextIsPrinted
<1>10. ASSUME NEW m \in Modes
       PROVE  FromBase(base', m) = TextLen(out, m)
  <2>1. base' = ToBase(PrintedLen(plain, mode, nkeys, quoted), mode, nkeys, quoted, refs)
    BY <1>6, <1>9
  <2>2. FromBase(base', m) = PrintedLen(plain, m, nkeys, quoted)
    BY <1>6, <1>8, <2>1, OneRenderingTellsAll
  <2> QED BY <1>9, <2>2
<1>11. /\ KeysOf(out)' = KeysOf(out)
       /\ QuotesOf(out)' = QuotesOf(out)
       /\ RefsOf(out)' = RefsOf(out)
       /\ \A m : TextLen(out, m)' = TextLen(out, m)
  BY <1>1 DEF KeysOf, QuotesOf, RefsOf, Keys, Quotes, Refs, TextLen, ItemText, KeyPart
<1>12. CountsPrintedOnce' <=>
         /\ base' = ToBase(TextLen(out, mode), mode, nkeys, quoted, refs)
         /\ \A m \in Modes : FromBase(base', m) = TextLen(out, m)
  BY <1>4, <1>5, <1>11 DEF CountsPrintedOnce, KeysOf, QuotesOf, RefsOf
<1>13. CountsPrintedOnce'
  BY <1>6, <1>10, <1>12
<1> QED BY <1>1, <1>4, <1>13 DEF CountInv

LEMMA NextCountInv == CountInv /\ [Next]_vars => CountInv'
<1> SUFFICES ASSUME CountInv, [Next]_vars PROVE CountInv' OBVIOUS
<1>1. RInv' BY NextRInv DEF CountInv
<1>2. CASE Calls
  <2>1. items \in Seq(Value) /\ Len(items) \in Nat /\ DOMAIN items = 1..Len(items)
    BY DEF CountInv, RInv
  <2>2. ASSUME NEW v \in Value, Push(v) PROVE CountInv'
    BY <1>1, <2>2, CountIdle DEF Push
  <2>3. ASSUME NEW i \in DOMAIN items, NEW v \in Value, RawWrite(i, v) PROVE CountInv'
    BY <1>1, <2>3, CountIdle DEF RawWrite
  <2>4. ASSUME NEW s \in DOMAIN items, NEW e \in DOMAIN items, NEW m \in Modes,
               Stringify(s, e, m)
        PROVE  CountInv'
    <3>1. s \in Nat \ {0} /\ e \in 0..Len(items) BY <2>1
    <3> QED BY <1>1, <2>4, <3>1, CountStringify
  <2>5. ASSUME NEW m \in Modes, Stringify(1, Len(items), m) PROVE CountInv'
    <3>1. 1 \in Nat \ {0} /\ Len(items) \in 0..Len(items) BY <2>1
    <3> QED BY <1>1, <2>5, <3>1, CountStringify
  <2> QED BY <1>2, <2>2, <2>3, <2>4, <2>5 DEF Calls
<1>3. CASE PrintItem BY <1>1, <1>3, CountPrintItem
<1>4. CASE BlowFuse BY <1>1, <1>4, CountBlowFuse
<1>5. CASE Retry BY <1>1, <1>5, CountRetry
<1>6. CASE Finish BY <1>1, <1>6, CountFinish
<1>7. CASE UNCHANGED vars
  BY <1>1, <1>7
     DEF vars, CountInv, Counted, WithinItems, CountsPrintedOnce, KeysOf, QuotesOf, RefsOf,
         Keys, Quotes, Refs, TextLen, ItemText, KeyPart
<1> QED BY <1>2, <1>3, <1>4, <1>5, <1>6, <1>7 DEF Next

\* Whichever route a rendering takes, and however often it starts again, the
\* counters lua_json_elm_stringify leaves behind are those of the text it
\* returns, and the lengths __lua_json_elm_get_rlen gives for all four modes are
\* the lengths of that text.
THEOREM CountsAlwaysPrintedOnce == Spec => []CountsPrintedOnce
<1>1. CountInv => CountsPrintedOnce BY DEF CountInv
<1> QED BY <1>1, InitCountInv, NextCountInv, PTL DEF Spec

===============================================================================
