CONSTANTS
  FdMax = 3
  IntMax = 7
  Flags = {FALSE}
  None = None
  Platforms = {"linux", "freebsd"}
  BufCap = 2
  SysconfValues = {4}
  OpenMaxFloor = 2
  OpenMaxCeil = 5
  NfdsCutoff = 4
  MinFds <- MinFdsSome
  Threads = TRUE
SPECIFICATION IterSpec
INVARIANTS IterTypeOK IterComplete NoForeignClose IterNoLeak IterAsserts
PROPERTIES YieldedInOrder OwnDirfdHidden Fused SizeHintHonest IterVariant
