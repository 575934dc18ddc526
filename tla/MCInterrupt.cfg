SPECIFICATION Spec
CONSTANTS
  Keys = {"quick", "search", "shell", "Q", "intr"}
  ExLines = {"search", "shell", "vi"}
  MaxTyped = 4
  MaxLines = 1
INVARIANT TypeOK InOrder NoneLeft
PROPERTY InterruptStops
CHECK_DEADLOCK FALSE
