CONSTANTS
  FdMax = 2
  IntMax = 7
  Flags = {FALSE}
  None = None
  Platforms = {"linux", "freebsd", "netbsd"}
  BufCap = 2
  SysconfValues = {1}
  OpenMaxFloor = 2
  OpenMaxCeil = 3
  NfdsCutoff = 3
  MinFds = {1}
  Threads = TRUE
  Ops = {"close", "cloexec"}
  KeepLists <- KeepFew
  MayRevoke = TRUE
SPECIFICATION Spec
INVARIANTS TargetsHandled CloexecClosesNothing
PROPERTIES KeepsPromise CallVariant Terminates
