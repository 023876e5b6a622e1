CONSTANTS
  str = str  num = num
  Strings <- MCStrings
  Plain <- MCPlain
  Width <- MCWidth
  KeyLen = 1
  Table = table
  LMax = 18
  MaxItems = 3
SPECIFICATION Spec
INVARIANTS CountsPrintedOnce WholeTextIsComplete
PROPERTY PartOrWhole
