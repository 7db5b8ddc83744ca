SPECIFICATION Spec
CONSTANTS
  NumCells = 3
  Calls = {"formula", "rect", "interrupt"}
INVARIANTS
  OkMeansFresh
