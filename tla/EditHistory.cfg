\* Three workbook states and a history of four: the stacks fill, empty and
\* fill again; undo and redo are called outside transactions only.
SPECIFICATION Spec
CONSTANTS
  Books = {b1, b2, b3}
  NoTransaction = NoTransaction
  MaxHistory = 4
  HistoryInsideTxn = FALSE
INVARIANTS TypeOK HistoryBounded TransactionOwnsItsEdits
PROPERTY ImplementsTimeline
