CONSTANTS
  r = r
  p = p
  q = q
  short = short
  long = long
  Elms <- TwoElms
  Slots = {s, t}
  Prims <- MCPrims
  Width <- MCWidth
  KeyWidth <- TwoKeyWidth
  Vacant = vacant
  Roots = {r}
  MaxDepth = 12
  MaxLen = 60
  Habits = {"raw"}
SPECIFICATION Spec
SYMMETRY SlotSymmetry
INVARIANTS TrustedLedgerIsExact StaleReachesRoot
