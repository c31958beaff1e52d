\* Debug build.
CONSTANTS
  t1 = t1
  t2 = t2
  Threads = {t1, t2}
  Closer = t1
  Platforms = {"freebsd"}
  DebugAssertions = TRUE
SPECIFICATION FeatSpec
INVARIANT CheckedPreviously
