CONSTANTS
  a = a  mk = mk  env = env  digit = digit  one = one  bad = bad  fn = fn
  Names <- MCNames
  EnvKey = env
  Digits = digit
  Literals <- MCLiterals
  Broken = bad
  Opaque = fn
  Nothing = Nothing
  Raised = Raised
  Refused = Refused
  Crashed = Crashed
  NoName = NoName
  MixedKeys = mk
  MaxNesting = 3
  MixedMod = 4
  MaxLevels = 5
  MaxDamaged = 12
  Tables <- MCTables
  TableOpts <- MCTableOpts
  Elements <- MCElements
  Texts <- MCTexts
SPECIFICATION Spec
INVARIANTS ConvertedIsComplete FailsForReason AllOrNothing UnrefCopies 
INVARIANTS NestingIsBounded WalkedToTheEnd
PROPERTY ReadingUsesUpText
