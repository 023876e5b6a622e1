CONSTANTS
  Keys = {a, b, c}
  EnvKey = a
  Values = {v}
  Opaque = fn
  Rejected = cyc
  Absent = nil
  IdxMod = 100
  MaxKeys = 3
  MaxPairs = 2
  Habits <- AllHabits
SPECIFICATION Spec
INVARIANTS TypeOK ListIsSound
PROPERTIES ReorderKeepsData UnderWayKeepsKeys
