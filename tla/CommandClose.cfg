\* Two standard streams; MinFds, Ops and KeepLists are what the program uses.
CONSTANTS
  FdMax = 5
  IntMax = 7
  Flags = {TRUE, FALSE}
  None = None
  Platforms = {"linux", "freebsd", "openbsd", "macos"}
  BufCap = 3
  SysconfValues <- SysconfSome
  OpenMaxFloor = 4
  OpenMaxCeil = 6
  NfdsCutoff = 4
  MinFds = {2}
  Threads = FALSE
  Ops = {"close", "cloexec"}
  KeepLists <- KeepPairs
  MayRevoke = FALSE
  StdFds = 2
SPECIFICATION CommandSpec
INVARIANT InheritsExactly
PROPERTY CommandStarts
CHECK_DEADLOCK FALSE
