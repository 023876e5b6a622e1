CONSTANTS
  Values = {v, w}
  Opaque = fn
  Rejected = cyc
  Absent = nil
  IdxMod = 100
  MaxElms = 3
  MaxArgs = 2
  Habits <- SturdyHabits
SPECIFICATION Spec
INVARIANTS NoHoles UnshiftInOrder
PROPERTIES ImplementsItemList EndsAreEnds
