CONSTANTS
  Addr = {a1, a2, a3}
  Slot = {s1, s2}
  Null = Null
INIT Init
NEXT Next
SYMMETRY Symmetry
INVARIANT HookArgValid
CHECK_DEADLOCK FALSE
