SPECIFICATION FSpec
CONSTANTS
  a = a
  b = b
  Session = {s1, s2}
  File = {a, b}
  Text = {t1, t2}
  Scrap = Scrap
  Missing = Missing
  NoLock = NoLock
  Orphan = Orphan
  Disks <- FullDisk
  Argv <- OneFile
  Autowrite = FALSE
  Ranges = {"all"}
PROPERTY LockProtects
