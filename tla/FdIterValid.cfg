CONSTANTS
  FdMax = 2
  IntMax = 7
  Flags = {FALSE}
  None = None
  Platforms = {"linux", "freebsd"}
  BufCap = 2
  SysconfValues <- SysconfSome
  OpenMaxFloor = 2
  OpenMaxCeil = 4
  NfdsCutoff = 4
  MinFds <- MinFdsSome
  Threads = FALSE
SPECIFICATION IterSpec
PROPERTIES ReturnsValid
