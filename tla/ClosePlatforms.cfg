CONSTANTS
  FdMax = 3
  IntMax = 7
  Flags = {FALSE}
  None = None
  Platforms = {"linux", "freebsd", "netbsd", "openbsd", "macos"}
  BufCap = 2
  SysconfValues <- SysconfSome
  OpenMaxFloor = 2
  OpenMaxCeil = 3
  NfdsCutoff = 3
  MinFds <- MinFdsClose
  Threads = FALSE
  Ops = {"close"}
  KeepLists <- KeepSmall
  MayRevoke = TRUE
SPECIFICATION Spec
INVARIANTS CloseTypeOK TargetsHandled CloseNoLeak NoSigsys CacheTruthful InspectCorrect SimplifyCorrect CloseAsserts
PROPERTIES KeepsProtected KeepsPromise
