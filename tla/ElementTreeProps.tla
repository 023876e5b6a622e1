--------------------------- MODULE ElementTreeProps ---------------------------
(***************************************************************************)
(* What should hold of nested elements, and for which callers.             *)
(***************************************************************************)
EXTENDS ElementTree

\* Tables, marks, observer lists and the C stack have their shapes, ...
ShapesOK ==
  /\ store \in [Elms -> [Slots -> Value]]
  /\ stale \in [Elms -> BOOLEAN]
  /\ ids \in [Elms -> SUBSET Elms]
  /\ obs \in [Elms -> Seq(Elms)]
  /\ calls \in Seq([at : Elms, next : Nat \ {0}])
  /\ fresh \in SUBSET Elms

\* ... and lengths are integers.
LengthsOK ==
  /\ rlen \in [Elms -> Int]
  /\ ev \in [type : {"none", "newindex", "change", "env"}, delta : Int]
  /\ slack \in [Elms -> Int]

\* Every variable of the tree keeps its shape.
TypeOK == ShapesOK /\ LengthsOK

-------------------------------------------------------------------------------
\* An element observes exactly the other elements in its ids, each once: the
\* three subscribe calls and the ids entry are made and undone together.  For
\* every caller.
SubscribedOnce ==
  \A e, c \in Elms :
    Cardinality({i \in DOMAIN obs[c] : obs[c][i] = e})
      = (IF c \in ids[e] \ {e} THEN 1 ELSE 0)

\* Nothing observes what it does not contain: no event reaches an element
\* whose text it cannot change.  For every caller.
ObserversContain == \A e \in Elms : ids[e] \ {e} \subseteq Children(e)

\* README.md:7: a container is subscribed to every element in it.
ContainersSubscribe == \A e \in Elms : \A c \in Children(e) : c \in ids[e]

\* lua_json.c:830: no element ends up inside itself.
NoCycle == \A e \in Elms : e \notin Below(e)

-------------------------------------------------------------------------------
\* Between calls every ledger holds exactly what its bookings should come to,
\* less the correction its last rendering made: each stored difference has
\* reached every container once for every way of reaching it.
LedgerIsExact == Settled => \A e \in Elms : rlen[e] + slack[e] = Ledger(e)

\* The same for an element whose len() answers from the ledger.
TrustedLedgerIsExact ==
  Settled => \A e \in Roots : ~stale[e] => rlen[e] + slack[e] = Ledger(e)

\* A raw write that an element's container does not know of is impossible as
\* long as the mark reaches it: what is stale below a trusted element has not
\* been written to since that element was rendered.
StaleReachesRoot ==
  Settled => \A r \in Roots : \A e \in fresh : e \in Below(r) => stale[r]

-------------------------------------------------------------------------------
\* An event is run to its end: the walk up the containers terminates.
BubbleEnds == ~Settled ~> Settled
===============================================================================
