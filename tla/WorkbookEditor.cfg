\* Three workbook states and a history of four, as for the VM.
SPECIFICATION Spec
CONSTANTS
  Books = {b1, b2, b3}
  NoTransaction = NoTransaction
  MaxHistory = 4
  HistoryInsideTxn = FALSE
INVARIANT TypeOK
PROPERTIES ImplementsTimeline CommittedWorkIsUndoable
