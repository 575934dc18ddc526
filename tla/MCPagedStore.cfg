SPECIFICATION Spec
CONSTANTS
  NL = "nl"
  Stride = 2
  Chunk = 3
  Budget = 3
  Files <- SmallFiles
  Edited <- NewLines
  LineNo <- LineNumbers
  Prio = {1, 2}
  Unterminated = FALSE
  MaxSteps = 3
  MaxLength = 7
CONSTRAINT Bounds
INVARIANT TreeSound CursorSound CacheSound
PROPERTY ImplementsStore
