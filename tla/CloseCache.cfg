CONSTANTS
  FdMax = 2
  IntMax = 7
  Flags = {FALSE}
  None = None
  Platforms = {"linux", "freebsd"}
  BufCap = 2
  SysconfValues <- SysconfSome
  OpenMaxFloor = 2
  OpenMaxCeil = 3
  NfdsCutoff = 3
  MinFds = {1}
  Threads = FALSE
  Ops = {"close", "cloexec"}
  KeepLists <- KeepIntMax
  MayRevoke = FALSE
SPECIFICATION Spec
INVARIANTS CacheTruthful
