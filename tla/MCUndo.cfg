SPECIFICATION HSpec
CONSTANTS
  Empty = empty
  Line = {empty, text}
  Start <- StartBuffers
  Over = 1
  MaxLines = 3
  MaxGen = 4
  MaxAstray = 2
  MaxDepth = 2
CONSTRAINT Bounds
INVARIANT HistoryInv
PROPERTY UndoRestores RedoRestores GenTellsChange ImplementsHistory
