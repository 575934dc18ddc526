SPECIFICATION Spec
CONSTANTS
  WordRunes = {"a", "b", "A"}
  WideRunes = {}
  List = FALSE
  TabStop = 4
  ShiftWidth = 2
  AutoIndent = TRUE
  Ring = 2
  WrapLen = 6
  Werase = "default"
  Abbreviations <- SomeWords
  Texts <- SmallTexts
  TildeOp = FALSE
  Keyboards <- EditSessions
  NamedRegisters = {"a"}
  Kept <- OneLine
  MaxKeys = 6
  MaxOther = 5
  MaxChanges = 3
CONSTRAINT Bounds
INVARIANT TypeOK DotIsOneChange
PROPERTY DeletedIsKept ImplementsHistory
CHECK_DEADLOCK FALSE
