SPECIFICATION Spec
CONSTANTS
  Recipe <- MCRecipe
  Files <- MCFiles
  Foreign <- MCForeign
  Texts <- MCTexts
  Spots <- MCSpots
  Selections <- MCSelections
  Copied <- MCCopied
  Lines <- MCLines
  Queries <- MCQueries
  Sources <- MCSources
  MacroName = "Main"
  Opened = {1}
  NewNames <- MCNewNames
  LowerCase <- MCLowerCase
  HistoryLimit = 1
  MaxEdits = 2
  MaxZipEntries = 3
  MaxUnpacked = 6
  MaxRatio = 4
  Executed <- MCExecuted
  MaxSource = 20
  MaxInputCells = 20
  MaxLines = 5
  MaxStatements = 5
  MaxDepth = 3
  MaxIterations = 3
INVARIANTS
  TypeOK
  DownloadIsCurrent
  UndoRedoKeepsContent
PROPERTIES
  EditsAreUndoable
  ReferencesFollowCells
  MacroIsOneStep
CHECK_DEADLOCK FALSE
