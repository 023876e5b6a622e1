CONSTANTS
  Keys = {a, b, c, d, e}
  EnvKey = envkey
  Values = {v}
  Opaque = fn
  Rejected = cyc
  Absent = nil
  IdxMod = 100
  MaxKeys = 5
  MaxPairs = 4
  Habits <- NoHabits
SPECIFICATION Spec
PROPERTIES UnshiftPrepends
