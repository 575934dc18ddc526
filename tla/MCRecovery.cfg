SPECIFICATION Spec
CONSTANTS
  f1 = f1
  f2 = f2
  rel = rel
  Screens = {s1, s2}
  Dirs = {d1, d2}
  Home = d1
  Files = {f1, f2}
  Relative = {rel}
  At <- ByDir
  Texts = {t1, t2}
  Ids = {1, 2}
  NoName = NoName
  None = None
  MaxClock = 1
  MaxFaults = 1
  MaxCrashes = 2
CONSTRAINT Bounds
INVARIANT TypeOK SnapshotCurrent PreservedSurvives
PROPERTY OthersUntouched FatalSavesText RecoverGivesBack
VIEW StillRead
SYMMETRY Symmetry
