CONSTANTS
  Addr = {a1, a2, a3, a4, a5, a6}
  Slot = {s1, s2, s3}
  Null = Null
INIT Init
NEXT Next
SYMMETRY Symmetry
INVARIANTS
  OwnedExactlyOnce
CHECK_DEADLOCK FALSE
PROPERTIES
  FreeOnlyOwned
