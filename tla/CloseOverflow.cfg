CONSTANTS
  FdMax = 2
  IntMax = 7
  Flags = {FALSE}
  None = None
  Platforms = {"linux", "freebsd"}
  BufCap = 2
  SysconfValues <- SysconfSome
  OpenMaxFloor = 2
  OpenMaxCeil = 3
  NfdsCutoff = 3
  MinFds <- MinFdsHigh
  Threads = FALSE
  Ops = {"close"}
  KeepLists <- KeepIntMax
  MayRevoke = FALSE
SPECIFICATION Spec
INVARIANTS BelowMinfdOpen
