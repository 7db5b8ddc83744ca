\* A history of two states, which the third edit fills.
SPECIFICATION Spec
CONSTANTS
  Books = {b1, b2, b3}
  NoTransaction = NoTransaction
  MaxHistory = 2
  HistoryInsideTxn = FALSE
PROPERTY EditIsUndoable
