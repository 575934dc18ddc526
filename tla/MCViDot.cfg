SPECIFICATION Spec
CONSTANTS
  WordRunes = {"a", "b", "A"}
  WideRunes = {}
  List = FALSE
  TabStop = 4
  ShiftWidth = 2
  AutoIndent = TRUE
  Ring = 2
  WrapLen = 0
  Werase = "default"
  Abbreviations <- SomeWords
  Texts <- SmallTexts
  TildeOp = FALSE
  Keyboards <- EndlessDot
  NamedRegisters = {"a"}
  Kept <- OneLine
  MaxKeys = 6
  MaxOther = 4
  MaxChanges = 3
CONSTRAINT Bounds
INVARIANT DotEnds
CHECK_DEADLOCK FALSE
