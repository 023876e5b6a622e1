CONSTANTS
  Keys = {a, b, c, d}
  EnvKey = envkey
  Values = {v, w}
  Opaque = fn
  Rejected = cyc
  Absent = nil
  IdxMod = 100
  MaxKeys = 5
  MaxPairs = 4
  Habits <- NoHabits
SPECIFICATION Spec
SYMMETRY ValueSymmetry
INVARIANTS SlotsAreExact StoredIffIndexed
PROPERTIES UnshiftPrependsReached WholeRenderIsComplete ImplementsOrderedMap InsertLandsAtTarget
