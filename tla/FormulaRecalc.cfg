SPECIFICATION Spec
CONSTANTS
  NumCells = 3
  Calls = {"set", "formula", "rect", "other", "store once", "paste", "rows",
           "interrupt"}
INVARIANTS
  TypeOK
  RecalculatedIsFresh
  StaleIsPending
PROPERTIES
  RebuildIsFresh
