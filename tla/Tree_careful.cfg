CONSTANTS
  r = r
  p = p
  q = q
  short = short
  long = long
  Elms <- MCElms
  Slots = {s, t}
  Prims <- MCPrims
  Width <- MCWidth
  KeyWidth <- MCKeyWidth
  Vacant = vacant
  Roots = {r}
  MaxDepth = 12
  MaxLen = 200
  Habits = {}
SPECIFICATION FairSpec
INVARIANTS ContainersSubscribe NoCycle LedgerIsExact
PROPERTIES BubbleEnds
