CONSTANTS
  Addr = {a1, a2, a3, a4}
  Slot = {s1, s2}
  Null = Null
SPECIFICATION Spec
PROPERTY CloseCompletes
CHECK_DEADLOCK FALSE
