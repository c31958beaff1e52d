CONSTANTS
  FdMax = 3
  IntMax = 7
  Flags = {FALSE}
  None = None
  Platforms = {"netbsd", "openbsd", "macos"}
  BufCap = 2
  SysconfValues = {9}
  OpenMaxFloor = 2
  OpenMaxCeil = 3
  NfdsCutoff = 3
  MinFds <- MinFdsClose
  Threads = FALSE
  Ops = {"close"}
  KeepLists <- KeepSmall
  MayRevoke = FALSE
SPECIFICATION Spec
INVARIANTS AlwaysWorks
