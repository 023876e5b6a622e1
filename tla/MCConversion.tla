----------------------------- MODULE MCConversion -----------------------------
(***************************************************************************)
(* Conversion for TLC: the tables, elements and texts to begin with.       *)
(***************************************************************************)
EXTENDS GrammarProps

CONSTANTS a, mk, env, digit, one, bad, fn  \* model values for the scalars

MCNames == {a, mk}
MCLiterals == {one}

Keyed(keys, v) == [k \in keys |-> v]
ListOf(values, max) == UNION {[1..n -> values] : n \in 0..max}

Flat(values, max, keys) ==
  {Table(l, h, n) : l \in ListOf(values, max), n \in {0, 1},
                    h \in UNION {[ks -> values] : ks \in SUBSET keys}}

\* Tables to be nested: empty, a list, a list with a gap, an object, and mixed
\* ones with more of either.
Inner ==
  {Table(<< >>, << >>, 0), Table(<<one>>, << >>, 0), Table(<<fn, one>>, << >>, 0),
   Table(<< >>, Keyed({a}, one), 0), Table(<<one>>, Keyed({a}, one), 0),
   Table(<<one>>, Keyed({a, mk}, one), 0), Table(<<fn>>, Keyed({a, mk}, one), 0)}

\* The last two have as many parts in the other half as the counter has values.
MCTables ==
  Flat({one, fn}, 2, {a, mk, env}) \cup Flat({one}, 1, {a, digit, env})
  \cup {Table(<<x>> \o l, h, 0) : x \in Inner, l \in {<< >>, <<one>>},
                                  h \in {<< >>, Keyed({a}, one), Keyed({a, mk}, one)}}
  \cup {Table(l, Keyed({a}, x) @@ h, 0) : x \in Inner, l \in {<< >>, <<one>>},
                                          h \in {<< >>, Keyed({mk}, one)}}
  \cup {Table(<<Table(<<x>>, << >>, 0)>>, Keyed({a}, Table(<< >>, Keyed({mk}, x), 0)), 0) : x \in Inner}
  \cup {Table(<<one, one, one, one>>, Keyed({a, mk, env, digit}, one), 0),
        Table(<<one, one>>, Keyed({a}, one), 3)}

MCTableOpts ==
  {o \in Options : o.opt = "auto" \/ o.name = mk}

\* Elements: pairs of any two values under a and mk, in both orders, and some
\* with the key "env", counted or not.
Leaves == {one, a, bad, fn, Array(<< >>), Object(<< >>)}
Little == {Array(l) : l \in ListOf({one, a, fn}, 2)} \cup
         {Object(<<<<k, v>>>>) : k \in {a, mk}, v \in Leaves} \cup
         {Array(<<v>>) : v \in Leaves}
EnvOnly == {Listing(<<<<env, one>>>>, n) : n \in {0, 1}}
MCElements ==
  Little \cup {Array(<<v, w>>) : v \in Little, w \in {one, fn, Object(<< >>)}}
  \cup {Object(<<<<k[1], v>>, <<k[2], w>>>>) : k \in {<<a, mk>>, <<mk, a>>}, v \in Little,
                                               w \in {one, fn, Array(<< >>)}}
  \cup {Array(<<Array(<<v>>)>>) : v \in Little}
  \cup {Object(<<<<a, Object(<<<<mk, v>>>>)>>>>) : v \in Little}
  \cup {Array(<<Array(<<Array(<<v>>), w>>)>>) : v \in Little, w \in {one}}
  \cup {Listing(<<<<k[1], v>>, <<k[2], w>>>>, n) :
          k \in {<<a, env>>, <<env, a>>}, n \in {1, 2}, v \in {one} \cup EnvOnly, w \in {one}}
  \cup {Array(<<v>>) : v \in EnvOnly}

\* Every text of up to three tokens, and some the damage does not reach.
MCTexts ==
  ListOf(Tokens, 3)
  \cup {<<"{", k, ":", x, ",", l, ":", y, "}">> : k, l \in {a, mk, digit, env}, x, y \in {one, digit}}
  \cup {<<"{", k, ":", one, ",", l, ":", one, ",", m, ":", one, "}">> : k, l, m \in {a, mk, env}}
  \cup {<<"{", a, ":", "{", k, ":", one, "}", ",", l, ":", "[", one, ",", "]", "}">> :
          k, l \in {a, mk, digit, env}}
===============================================================================
