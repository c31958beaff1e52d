CONSTANTS
  FdMax = 3
  IntMax = 7
  Flags = {FALSE}
  None = None
  Platforms <- TargetOS
  BufCap = 2
  SysconfValues <- SysconfSome
  OpenMaxFloor = 2
  OpenMaxCeil = 4
  NfdsCutoff = 4
  MinFds <- MinFdsSome
  Threads = TRUE
SPECIFICATION ConSpec
INVARIANTS IterComplete ThreadsafeComplete CountWithinHints MinMaxRight
PROPERTIES CallsReturn
