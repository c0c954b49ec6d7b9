CONSTANTS
  IntMax = 3
  UsizeMax = 15
  MaxLen = 5
  Depth = 3
  MaxCalls = 3
  Errors = {e1, e2}
  None = None
INIT Init
NEXT Next
INVARIANTS
  AmountFaithful
  ErrorFresh
CHECK_DEADLOCK FALSE
PROPERTIES
  ImplementsAbstractRead
