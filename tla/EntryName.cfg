\* c_int of 7 bits: 127 fits, 128 overflows the addition, 130 the product.
CONSTANTS
  IntMax = 127
  NameLen = 4
  Nul = Nul
  Other = Other
  None = None
SPECIFICATION NameSpec
INVARIANTS ParsesNumeral NameOfDescriptor
CHECK_DEADLOCK FALSE
