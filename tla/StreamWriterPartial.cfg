SPECIFICATION Spec
CONSTANTS
  a = a
  b = b
  c = c
  d = d
  p = p
  q = q
  None = None
  Writers = {a, b, c}
  Pids = {p}
  ProcessOf <- AllOfP
  MaxAttempts = 2
  MaxRows = 1
  KeepClosed = TRUE
INVARIANT
  DestinationIsComplete
CHECK_DEADLOCK FALSE
