CONSTANTS
  Values = {v, w}
  Opaque = fn
  Rejected = cyc
  Absent = nil
  IdxMod = 4
  MaxElms = 3
  MaxArgs = 2
  Habits <- AllHabits
SPECIFICATION Spec
VIEW WithoutText
SYMMETRY ValueSymmetry
INVARIANTS TypeOK
PROPERTIES ReorderKeepsValues RenderLosesOnlyAtStake
