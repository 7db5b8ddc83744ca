SPECIFICATION Spec
CONSTANTS
  NumberTexts <- MCNumberTexts
  DateTexts <- MCDateTexts
  BuiltinFormats <- MCBuiltinFormats
  InheritedNames <- MCInheritedNames
  LowerCase <- MCLowerCase
  MaxRangeCells = 400
  MaxRow = 20
  MaxCol = 40
  MaxPlugins = 1
  StartBooks <- MCStartBooks
  SheetNameArgs <- MCSheetNameArgs
  BadNames <- MCBadNames
  AoaCalls <- MCAoaCalls
  JsonCalls <- MCJsonCalls
  DomCalls <- MCDomCalls
  CellEdits <- MCCellEdits
  ArrayFormulas <- MCArrayFormulas
  SheetFields <- MCSheetFields
  Plugins <- MCPlugins
  PluginCeiling = 4
  PlanOptions <- MCPlanOptions
  EntrySize <- MCEntrySize
  MaxCalls = 2
INVARIANTS
  TypeOK
  NoValueIsLost
  ShownTextIsCurrent
  PackageIsConsistent
  RoundTrip
  JsonRoundTrip
  HtmlRoundTrip
PROPERTIES
  PlansAreAllOrNothing
CHECK_DEADLOCK FALSE
