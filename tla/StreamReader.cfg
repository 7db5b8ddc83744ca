SPECIFICATION FairSpec
CONSTANTS
  MaxItems = 4
  Worksheets <- AllWorksheets
  Limits = {0, 1, 2}
  HasTimeout = TRUE
  Capacity = 2
INVARIANTS
  TypeOK
  NeverDisconnected
  CancelIsPrompt
PROPERTIES
  KeepsThePromise
  WorkerEnds
  IterationEnds
CHECK_DEADLOCK FALSE
