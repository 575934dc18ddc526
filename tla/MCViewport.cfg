SPECIFICATION Spec
CONSTANTS
  WordRunes = {"a", "b", "c", "d"}
  WideRunes = {"W"}
  TabStop = 3
  List = FALSE
  Texts <- MixedTexts
  Sizes <- SmallSizes
  Gutters = {2}
  Counts = {1, 2}
  Windows = {2}
INVARIANT CursorShown MouseAgrees
PROPERTY PagesMeet
