CONSTANTS
  r = r
  p = p
  q = q
  short = short
  long = long
  Elms <- MCElms
  Slots = {s, t}
  Prims <- OnePrim
  Width <- NoWidth
  KeyWidth <- NoKeyWidth
  Vacant = vacant
  Roots = {r}
  MaxDepth = 4
  MaxLen = 100000
  Habits = {"cycle", "child_over_prim", "render_part", "held"}
SPECIFICATION Spec
SYMMETRY SlotSymmetry
VIEW Topology
INVARIANTS TypeOK SubscribedOnce ObserversContain
