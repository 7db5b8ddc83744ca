SPECIFICATION Spec
CONSTANTS
  a = a
  b = b
  c = c
  d = d
  p = p
  q = q
  None = None
  Writers = {a, b, c, d}
  Pids = {p, q}
  ProcessOf <- LastOfQ
  MaxAttempts = 2
  MaxRows = 1
  KeepClosed = FALSE
SYMMETRY Interchangeable
INVARIANTS
  TypeOK
  TempIsOwn
  DestinationIsComplete
  NoLeftovers
PROPERTY
  SuccessIsPublication
CHECK_DEADLOCK FALSE
