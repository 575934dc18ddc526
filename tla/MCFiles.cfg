SPECIFICATION FSpec
CONSTANTS
  a = a
  b = b
  Session = {s1}
  File = {a, b}
  Text = {t1, t2}
  Scrap = Scrap
  Missing = Missing
  NoLock = NoLock
  Orphan = Orphan
  Disks <- AnyDisk
  Argv <- TwoFiles
  Autowrite = TRUE
  Ranges = {"all", "part", "append"}
INVARIANTS FTypeOK CleanIsSaved
PROPERTY LeftWhole
