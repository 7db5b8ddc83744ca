---------------------------- MODULE OperationPlan ----------------------------
(***************************************************************************)
(* Operation plans of automation callers                                   *)
(* (src/packages/xlsx/src/internal/operation-plan.cjs): data that asks for *)
(* cell writes, checked as a whole before anything is written, and the     *)
(* registry of named plans.  An operation is [kind, sheet, row, col,       *)
(* value] with row and column from 1; a plan its sequence of operations.   *)
(***************************************************************************)
EXTENDS XlsxSheet
LOCAL INSTANCE FiniteSetsExt
LOCAL INSTANCE SequencesExt

CONSTANTS
  MaxRow, MaxCol,  \* the last row and column of a sheet
  MaxPlugins       \* how many plans the registry takes

Kinds == {"setNumber", "setString", "setBoolean"}
Capability(op) ==
  CASE op.kind = "setNumber" -> "cell.write.number"
    [] op.kind = "setString" -> "cell.write.string"
    [] op.kind = "setBoolean" -> "cell.write.boolean"
    [] OTHER -> "none"

TypeOfKind(op) ==
  CASE op.kind = "setNumber" -> "n" [] op.kind = "setString" -> "s" [] OTHER -> "b"

(* validateOperationPlan: every operation is a typed write that was        *)
(* granted, at a cell that exists, of a value of its type.                 *)
IsValidOperation(op, capabilities) ==
  /\ op.kind \in Kinds
  /\ Capability(op) \in capabilities
  /\ op.sheet # ""
  /\ op.row \in 1 .. MaxRow
  /\ op.col \in 1 .. MaxCol
  /\ op.value.t = TypeOfKind(op)

IsValidPlan(operations, o) ==
  /\ Len(operations) <= o.maxOperations
  /\ \A i \in DOMAIN operations : IsValidOperation(operations[i], o.capabilities)

(* executeOperationPlan: the cell that each operation replaces, found for  *)
(* all of them before the first is written.                                *)
Position(op) == Cell(op.row - 1, op.col - 1)
Changes(sheets, operations) ==
  [i \in DOMAIN operations |->
     LET op == operations[i]
     IN [sheet |-> op.sheet, ref |-> EncodeCell(Position(op)),
         previous |-> IF sheets[op.sheet].dense THEN BlankCell
                      ELSE CellAt(sheets[op.sheet].cells, Position(op)),
         next |-> ValueCell(TypeOfKind(op), op.value.v)]]

(* A dense worksheet keeps its cells elsewhere: the write has no effect on *)
(* them.  "!ref" is not extended over the cell.                            *)
ApplyChange(sheets, change) ==
  IF sheets[change.sheet].dense THEN sheets
  ELSE [sheets EXCEPT ![change.sheet].cells = (change.ref :> change.next) @@ @]

PlanFinds(sheets, operations) ==
  \A i \in DOMAIN operations : operations[i].sheet \in DOMAIN sheets

Failed(sheets) == [sheets |-> sheets, ok |-> FALSE, changes |-> <<>>]

(* Mutant: an operation is written as soon as its own sheet was found. *)
ExecuteOperationPlanEagerly(sheets, operations, o) ==
  LET before == SelectInSeq(operations, LAMBDA op : op.sheet \notin DOMAIN sheets)
      prefix == IF before = 0 THEN operations ELSE SubSeq(operations, 1, before - 1)
  IN IF ~ IsValidPlan(operations, o) THEN Failed(sheets)
     ELSE [sheets |-> IF o.apply THEN FoldLeft(ApplyChange, sheets, Changes(sheets, prefix)) ELSE sheets,
           ok |-> before = 0, changes |-> Changes(sheets, prefix)]

ExecuteOperationPlan(sheets, operations, o) ==
  IF ~ IsValidPlan(operations, o) \/ ~ PlanFinds(sheets, operations) THEN Failed(sheets)
  ELSE LET changes == Changes(sheets, operations)
       IN [sheets |-> IF o.apply THEN FoldLeft(ApplyChange, sheets, changes) ELSE sheets,
           ok |-> TRUE, changes |-> changes]

(* executeOperationPlanOnEditor: the operations one by one inside a        *)
(* transaction of the editor, which is aborted when one of them fails.     *)
(* The editor takes a sheet it does not have as an error.                  *)
EditorSet(acc, op) ==
  CASE ~ acc.ok -> acc
    [] acc.ok /\ op.sheet \notin DOMAIN acc.sheets -> [acc EXCEPT !.ok = FALSE]
    [] OTHER -> [acc EXCEPT !.sheets[op.sheet].cells =
                   (EncodeCell(Position(op)) :> ValueCell(TypeOfKind(op), op.value.v)) @@ @]

ExecuteOperationPlanOnEditor(sheets, operations, o) ==
  IF ~ IsValidPlan(operations, o) THEN Failed(sheets)
  ELSE LET begun == [sheets |-> sheets, ok |-> TRUE]
           done == IF o.apply THEN FoldLeft(EditorSet, begun, operations) ELSE begun
       IN [sheets |-> IF done.ok THEN done.sheets ELSE sheets, ok |-> done.ok, changes |-> <<>>]

-----------------------------------------------------------------------------
(* A plugin: [name, capabilities, maxOperations, operations].  It is       *)
(* registered when its operations are valid under the capabilities it      *)
(* declares, which are still to be granted when it runs.                   *)
IsValidPlugin(plugin, ceiling) ==
  /\ plugin.name # ""
  /\ plugin.maxOperations \in 0 .. ceiling
  /\ IsValidPlan(plugin.operations,
                 [maxOperations |-> plugin.maxOperations, capabilities |-> plugin.capabilities])

RegistryHasRoom(registry, name) ==
  Cardinality(DOMAIN registry) < MaxPlugins \/ name \in DOMAIN registry

Register(registry, plugin, ceiling) ==
  IF /\ RegistryHasRoom(registry, plugin.name)
     /\ IsValidPlugin(plugin, ceiling)
     /\ plugin.name \notin DOMAIN registry
  THEN (plugin.name :> plugin) @@ registry
  ELSE registry

(* The limits of a run: the narrower of the plugin's and the caller's. *)
ExecutePlugin(registry, name, sheets, o, onEditor) ==
  IF name \notin DOMAIN registry \/ ~ (registry[name].capabilities \subseteq o.capabilities)
  THEN Failed(sheets)
  ELSE LET plugin == registry[name]
           narrowed == [o EXCEPT !.maxOperations = Min({@, plugin.maxOperations})]
       IN IF onEditor THEN ExecuteOperationPlanOnEditor(sheets, plugin.operations, narrowed)
          ELSE ExecuteOperationPlan(sheets, plugin.operations, narrowed)
=============================================================================
