# elixcee: TLA+ models, checks and proofs

elixcee is a spreadsheet engine in Rust (`src/src`), with a Python binding, a
WASM build for the browser (`src/crates/elixcee-wasm`), a JavaScript package
(`src/packages/xlsx`) and a playground (`src/playground`). This directory holds
TLA+ models of the parts of it whose state outlives a call: the edit history,
the range-read cache, formula change tracking, the two streaming interfaces
with their files and threads, the editor of the browser package, the JavaScript
package from its worksheet calls to the archive it writes and reads back, and
the playground with its macro worker. TLC checks them on small instances. For
all of them but the JavaScript package, TLAPS proves every safety property and
refinement that the runs check, for every value of the constants (section 4 says
under which assumptions). Two more modules hold pure functions, VBA's arithmetic and the
judges of the conformance suites; about those there are theorems only.

Paths below are those of the repository with `src/` in front, and line numbers
those of the commit the models were made from. `PROJECT.json` maps every
definition that models code to its lines, lists the runs, the mutants that show
each property can fail, the hazards, and the findings.

## 1. The system

| Component | State it keeps | Operations | Used by |
|---|---|---|---|
| VM (`src/src/vm/mod.rs`) | sheets and cells, names, options; all of the following | every call of the binding ends here | binding, CLI, WASM |
| — edit history | `edit_undo`, `edit_redo`, `edit_transaction` | record, undo, redo, begin, commit, abort | the explicit edits |
| — tile cache | `range_tile_cache`: an `Arc<Mutex<..>>` of tiles by sheet, with a use clock | `read_rect`, patching and dropping on write | reads, writes, forks |
| — change tracking | `formula_plans`, `formula_dirty_cells`, `workbook_formula_dirty`, two flags | every edit; `recalculate_all`, `recalculate_all_with_spills` | edits, recalculation |
| — spilled arrays | `formula_spills`: rectangles by anchor | set, refresh, release | formulas, edits |
| — sheet structure | about twenty maps keyed by sheet name | add, rename, move, copy, delete | binding, VBA |
| — VBA interpreter, events | call stack, error mode, event depth | run a procedure, dispatch `Worksheet_Change` | CLI, `run_and_save` |
| Formula language (`src/src/formula`) | none | parse, evaluate, rewrite references; `workbook.rs`: dependency graph | VM |
| Reader (`reader.rs`) | none | open a package, build a VM | binding, CLI |
| Writer (`lib.rs`) | none; one temporary file per call | `write_output_atomically` and its parts | save, `run_and_save`, `StreamWriter` |
| StreamReader (`stream.rs`) | a worker thread, a channel of two messages, the iterator | `open_stream`, `__next__`, `close`, `cancel` | Python |
| StreamWriter (`stream.rs`) | a temporary file, rows so far | `create_stream`, `append`, `close`, `abort`, drop | Python |
| Diagnostics (`check.rs`, `diagnose*.rs`, `snapshot.rs`, `testworkbook.rs`) | none | reports over a loaded workbook | CLI, binding |
| WorkbookEditor (`crates/elixcee-wasm`) | a VM, undo and redo snapshots, a transaction | edits, undo, redo, begin, commit, abort | browser |
| xlsx package (`packages/xlsx`) | the worksheets it is given: cells, `!ref`, cached texts, merges; a registry of plans | add data, edit cells, export, run a plan, write, read | Node, playground |
| Conformance suites (`compat`) | files of cases, results and registries | write expectations, run cases, judge, gate a build | developers |
| Playground (`src/playground`) | workbook, active sheet, history of whole workbooks, edit session, clipboard, macro worker, bytes for the download | DOM handlers, worker messages | a user |

How they interact. The VM is a plain object: one call at a time, under the
Python interpreter lock. Three things escape that. `fork` is a derived `Clone`,
so two VMs share one tile cache behind its `Arc`, and `read_rect` takes the
mutex three times rather than once. `StreamReader` runs a thread of its own
against the caller's. Writers of several processes meet in one directory. On
top of those, cancellation flags and timeouts may stop a read, or a
recalculation, anywhere.

Within the VM the components meet through their shared state: an edit records
history, changes cells, patches or drops tiles, and marks formulas; undo
replaces cells and tracking together and takes a new cache; a recalculation
writes values past the cache.

The playground keeps a workbook object of the xlsx package, uses the package's
`write` and `read` as its snapshots (undo, redo, download, upload), and sends a
copy of the cells to a worker that runs a macro. Its handlers run to their end
or to their first `await`; others run in between, and so does the worker.

What is hard, in one line each (the full list, with line numbers, is
`hazards` in `PROJECT.json`):

- bounded stacks that are pushed from four places, only two of which cap them;
- a transaction that is open while other calls touch the stacks it will truncate;
- eviction inside the read that needs the evicted tile;
- a cache object shared by two VMs that have diverged;
- a dirty set that stands in for evaluating everything, kept right (or not) by
  each of a dozen edit paths, and an error that arrives after it was consumed;
- a temporary file known by a name that can change hands, and a crash anywhere;
- a worker blocked on a full channel whose reader has gone away;
- a row limit, a timeout, a cancellation and the end of the sheet racing to be
  the reason an iteration ended;
- worksheet calls that each have to keep `!ref`, the cached text and the type of
  a cell in step, in any order;
- relationship, style, table, chart and content-type numbers of a package, given
  out by features that count from where another one stopped;
- `td`s that have to skip columns taken by merges from above and from the left;
- a dozen ways to edit, each of which has to record the workbook of before and
  to mark the download stale, with a macro's answer arriving between any two.

What makes each component correct:

- **Edit history**: never more than 128 snapshots; undo and redo walk one line
  of states; a transaction is one step of that line or none.
- **Tile cache**: bounded; a read returns what the sheet stores.
- **Change tracking**: an `Ok` recalculation leaves nothing stale and overwrites
  nothing that is not a formula.
- **StreamWriter and saves**: the output path holds the old file or a complete
  new one; success means this writer's file is there; temporary files go.
- **StreamReader**: the rows come in order, none missing or invented, and the
  reason given is true; the worker ends when the caller stops.
- **WorkbookEditor**: as the edit history, and no transaction with an edit in it
  escapes undo.
- **xlsx package**: no value leaves the range the package looks at; an export
  shows no old value; a package has no dangling end; what is written is what is
  read; a plan is applied whole or not at all.
- **Playground**: undo and redo lose nothing that was entered, every edit can be
  undone, references mean the cells they meant, the download is what is shown,
  a macro is one step.
- **Conformance suites**: a gate that passes has looked at every case, and what it
  lets through is documented or disclosed; the engine rounds and divides as the
  documentation does.
- **Spilled arrays** (not modelled): no two rectangles overlap, no user
  value is under one.
- **Sheet structure** (not modelled): every map names exactly the sheets
  that exist.
- **Events** (not modelled): nested handlers end; events are enabled again
  after an error.

## 2. The modules

| Module | What it is | Lines |
|---|---|---|
| `EditTimeline` | abstract: a line of states and a cursor | 50 |
| `EditStacks` | the stacks of snapshots of both editors, and the line they stand for | 25 |
| `EditHistory` | undo, redo, transactions of a VM | 185 |
| `WorkbookEditor` | undo, redo, transactions of the browser's editor | 175 |
| `EditHistoryProofs` | lemmas about `EditStacks`, theorems about `EditHistory` | 630 |
| `WorkbookEditorProofs` | theorems about `WorkbookEditor` | 540 |
| `CellTileCache`, `MCCellTileCache` | `read_rect` and everything that changes what it should return | 355 |
| `CellTileCacheProofs` | theorems about `CellTileCache` | 1,135 |
| `FormulaRecalc` | change tracking and both recalculation paths | 365 |
| `FormulaRecalcProofs` | theorems about `FormulaRecalc` | 1,020 |
| `StreamWriter`, `MCStreamWriter` | writers and saves on one output path | 265 |
| `StreamWriterProofs` | theorems about `StreamWriter` | 470 |
| `RowDelivery` | abstract: what an iterator over rows promises | 55 |
| `StreamReader`, `MCStreamReader` | worker, channel, iterator | 270 |
| `StreamReaderProofs` | theorems about `StreamReader` | 970 |
| `XlsxAddress` | addresses and ranges as texts, with both range decoders | 110 |
| `XlsxSheet` | the calls that change one worksheet: rows, objects, a DOM table, cells | 290 |
| `XlsxExport` | JSON with the names of its headers, CSV, formulas, HTML | 170 |
| `XlsxText` | the escaping of texts in HTML and XML | 100 |
| `XlsxStyles` | the style table of one write | 125 |
| `XlsxWriter` | the parts of one sheet | 175 |
| `XlsxPackage` | the parts of a workbook, content types, the archive | 155 |
| `XlsxReader` | what those parts are read back as, what is lost and what makes `read` throw | 220 |
| `OperationPlan` | plans on a workbook and on an editor, and their registry | 120 |
| `XlsxSession`, `MCXlsxSession` | a program that calls all of the above in any order; the properties | 615 |
| `PlaygroundSheet` | one worksheet of the playground: cells, lines, tables, references, summaries | 315 |
| `PlaygroundBytes` | what of such a worksheet the bytes hold, and what is read back | 100 |
| `VbaRun` | one run of a macro: what is refused before it, what is answered after it | 45 |
| `VbaWorker` | what executing the lines of a macro comes to | 95 |
| `ZipBudget` | what an upload may unpack to | 50 |
| `Playground`, `MCPlayground` | the handlers, history, awaits and the worker; the properties | 1,085 |
| `PlaygroundProofs` | theorems about `Playground` | 6,721 |
| `VbaNumeric` | rounding, division and conversion: the reference's on doubles and the VM's | 135 |
| `ConformanceReports` | the judges of the three suites and their gates | 160 |
| `ConformanceProofs` | theorems about `VbaNumeric`, the gates, and cases of `\` and `Mod` | 1,770 |

Operators under a comment that starts with "Mutant" model no code: each is a
plausible slip in the definition that follows it, used to show that some
property would notice.

### EditHistory

`book` is the live state and stands for everything `EditHistoryState` holds
(cells, plans, dirty sets, flags, spill rectangles: they travel together).
`edit_undo`, `edit_redo` and `edit_transaction` are the fields of the same
names. `RecordEditHistory` is `record_edit_history`; `Truncate` of `EditStacks` is
`Vec::truncate` (which keeps the *first* n entries). `Edit` covers the calls
that record, `UnrecordedEdit` those that change the snapshotted state without
recording. `HistoryInsideTxn` says whether the client calls undo or redo while
a transaction is open; the code accepts it.

`EditTimeline` is what a client sees: `line`, the known states, and `at`, the
current one. The refinement mapping reads the undo stack, the current state and
the redo stack from its end as one line (`LineOf`); while a transaction is open the
current state is the one it began from, so the edits inside are stutters,
commit is one recorded edit and abort none. When the history is full
`EditTimeline` forgets *some* state: the code forgets the newest, which is the
finding `EditIsUndoable`.

### WorkbookEditor

The same promise by other rules, and the same `EditTimeline` for both: an edit
is refused before anything is recorded, begin keeps the redo stack and abort
puts it back, and commit records only when `transaction_dirty`. A transaction
in which only a recalculation happened is not recorded, which the mapping shows
as an `Amend`. `edited` is a history variable that says what
`transaction_dirty` ought to.

### CellTileCache

A VM's worksheet is `cells[v]`; `cacheOf[v]` is the cache object its `Arc`
points to, and `present`, `tiles`, `stamp`, `poisoned` are that object's entry
for the sheet, its tiles, their use stamps and the mutex's state. Only the order
of the stamps counts: `Rank` gives each tile the number of tiles used before it,
after every read and every eviction, so that the clock does not grow.
`ReadScan`, `ReadFill` and `ReadServe` are the three critical sections of
`read_rect`, with `pc`, `want` and `missing` the locals between them; other VMs
run in between. `WriteRect` patches a small write into resident tiles and drops
the tiles of a large one; `EditThroughMap` is every edit by way of `cells_mut`,
which drops the entry first; `Recalculate` changes the cells of formulas and no
tile; `Restore` is undo, redo and abort; `Fork`, `DropFork` and `PublishFork`
are `fork` and the two ends of `run_and_save`. `shared` is a history variable:
the caches two VMs have ever pointed to.

### FormulaRecalc

A worksheet of `NumCells` cells whose formulas are the sets of cells they refer
to. A cell refers to cells with lower numbers only, so that ascending order is
the evaluation order. The variables `planned`, `plan`, `dirty`, `changed`,
`tracking` and `structure` are `formula_plans`, `formula_dirty_cells`,
`workbook_formula_dirty` and the two flags; `qualified` chooses between the two
paths of `recalculate_all` as a formula with a sheet name on another sheet
does. Values are not computed: `wrong` is the set of formulas whose cached
value is not the one a full evaluation would give, and `Evaluate` says how an
evaluation in order changes it. `lost` holds plain values that a recalculation
has written over. `blind` is a history variable: an edit that tracking was not
told of (paste, a stored formula, moved rows), or an interrupted plan
recalculation, has happened since the last full rebuild.

### StreamWriter

`entry` is the directory: which file each temporary name leads to. `temp[w]` is
the *name* writer w remembers, so the two can come apart. `CreateTemp` is
`create_atomic_output_temp` (process id and the first free attempt),
`Finish`/`FinishFails` and `Publish`/`PublishFails` are the steps of `close`
around the rename, `Abort` and `Drop` remove whatever the name leads to. A save
is the same steps within one call. Calls of one process exclude each other;
processes interleave, and `Crash` ends one of them anywhere.

### StreamReader

`Scan`, `SendRow`, `SendLast` and `SendFails` are the worker's loop and its
`send`, which blocks on a full channel and fails without a receiver. `CallNext`,
`TakeMessage`, `TimeOut` and `Close` are the iterator's; `Cancel` sets the flag
from anywhere. `RowDelivery` states the promise without threads or channel: the
rows returned are the least of the readable rows, in order, and an ending is given only
when it is true (`eof` after all of them and a good end, `max_rows` only if
there was one row more, an error only where the sheet has it).

### The xlsx package

`XlsxSession` composes all modules that start with `Xlsx`, and `OperationPlan`:
its one workbook is what a program holds, its actions are the calls. They are
synchronous, so that no two interleave; what is hard is their order, because
the worksheet objects themselves are the only state and every call maintains
its own share of it.

A worksheet (`XlsxSheet`) is a record with a map from the *text* of an address
to a cell, and the text `ref` of `!ref`; a dense worksheet, an array of rows, is
the same map, which a write under an address misses. Texts of addresses are
sequences of character codes because the code computes with them: `EncodeCol`
carries, `DecodeRange` and `SafeDecodeRange` are two different scanners of the
same text, and `XlsxAddress` is checked by itself (`AddressesDecode`, an
assumption of `MCXlsxSession`) at the rows and columns where a digit or a letter
is carried, up to the last ones of a sheet. A value is its printed form with a
type; a format is a model value and `w`, the cached text, is the pair of the
value and the format it was printed with. `AddAoa`, `AddJson`, `AddDom`,
`SetHyperlink`, `AddComment`, `SetNumberFormat` and `SetArrayFormula` are the
functions of those names; `SetField` is a program that sets `!merges`, `!rows`,
`!charts` and the like, which is how the package takes them.

`XlsxExport` walks `!ref` as the exports do, including the rows that
`sheet_to_json` leaves out and the names it gives to repeated headers. The names
met before are counted in a plain object, so that a header such as
`constructor` counts as met (`InheritedNames`) and gets the suffix NaN, and a
second one can make the search for a free name endless (`JsonEnds`).
`XlsxText` has texts as sequences of characters, for what nothing else needs
them: `HtmlTextReturns` and `XmlTextReturns` say that escaping is undone
whatever a text spells. They are checked as an assumption of `MCXlsxSession`
(`TextsReturn`) over all texts of up to five characters of several alphabets.

`XlsxStyles` is the table that cells of all sheets share while they are written.
`XlsxWriter` makes the parts of a sheet with their relationship numbers,
`XlsxPackage` those of the workbook, and `MakeZip` the offsets of the archive.
The text of a part is left out: a part says which numbers it uses. `XlsxReader`
takes a package apart the way a reader does, by following numbers;
`ShapeWorkBook` is `shapeWorkBook` of `read-shape.cjs`. Before it come the compiled
reader (`src/src/reader.rs`: `ReadElements`, `ReadFreeze`, `CommentsOf`, `TargetOf`,
`StyleOf`) and the JSON its binding prints (`WorksheetJson`), which is none for a
sheet that has something to print and no cell (`IsJson`); `CanRead` is when `read`
returns at all.

`OperationPlan` validates a plan, runs it on a workbook or on an editor, and
keeps the registry of plugins. `last` remembers the plan of the last call for
`PlansAreAllOrNothing`, `loose` the addresses that were written by a call that
leaves `!ref` alone.

### Playground

`book`, `activeSheet`, `freeze`, `historyPast`, `historyFuture`,
`editSnapshot`, `dirty`, `latestBytes`, `original`, `clipboard` and `worker` are
the variables of `main.js`. The bytes of a workbook stand for the workbook they
were written from. `PlaygroundBytes` says what of a worksheet is in them
(`WrittenSheet`: no table that cannot be written, no blank cell, a formula without
a value as 0) and what of that is read back (`ReadSheet`: no cell that holds an
empty text, no choices of a list, a pane only with rows and columns). `Written` decides
whether two snapshots are the same bytes, `Read` is the workbook the bytes give,
and `CanRead` when they give one. A snapshot also keeps what the code keeps beside
the bytes: charts, summaries and the macro project. Where `read` throws, undo and
redo stop after they have moved the stacks (`TimeStops`).

Every handler that edits takes the snapshot of before, changes the workbook,
recalculates and records: `Edit` is that frame and `EndEdit` its second half.
`waiting` is a handler that awaits the clipboard, a file or the bytes of a macro
project, and goes on later with what it kept (`CutStart`/`CutEnd`,
`PasteStart`/`PasteEnd`, `UploadStart`/`UploadEnd`, `ResetStart`/`ResetEnd`).
`RunVba` starts the worker with a copy of the cells, `MacroAnswer` is its
message: whatever the user did in between, its cells go to the sheet it was
started on and the snapshot from before the run is what is recorded. The macro
itself is in two modules. `VbaRun` is a run as the page sees it: the checks
before the first line (`IsRefused`) and the message at the end (`Answer`), with
`Executed`, what the lines come to, as a constant operator. `VbaWorker` defines
that operator: it interprets a parsed source with the limits of `vba-worker.js`,
and `Playground.cfg` gives it to the run. `cellRef`, which throws at a row or
column before the first, is in both: `AssignCell` fails there, as the code does,
and `Succeeded` says it of any `Executed`. `Playground` extends `VbaRun` only, so
its theorems hold whatever the lines of a macro do to the cells of a run, and
they do not meet the RECURSIVE operators of the interpreter. `ZipBudget` is the
check of an upload.

`PlaygroundSheet` has the worksheet: a value is a number (from `FirstText` on a
text), a formula the sequence of its references, which is what
`formula-shift.mjs` rewrites. `unsaved` and `lastShift` are history variables:
`unsaved` marks the handlers that change the workbook without saying so (they
are listed in section 5), `lastShift` is the structure edit of the last step.

### Conformance suites and VBA arithmetic

`src/compat` compares the engine with something else: `vba-semantics` with what
VBA's documentation says, `corpus` with registered outcomes and with another
spreadsheet program, `differential` with the package that `packages/xlsx`
replaces. Nothing of it has a state between calls, so it is modelled as
operators. A case runs through `ExpectedEntry` (the generator writes what the
reference computes), `CaseOutput` (the command line prints JSON), `RunRecord`
(a runner keeps it), `SemanticsVerdict` or `OutcomeVerdict` (a judge compares)
and `SemanticsGate` or `OutcomesGate` (a build stops). Ids, categories, messages
and values are opaque; numbers within the tolerance of 1e-9 are one value;
`wording` is which of the known phrases a message contains. A registry is a set
of what has been registered.

`VbaNumeric` has the numeric rules twice, from `reference/numeric.mjs` and from
`src/src/vm/mod.rs`: they are written apart, in two languages, on doubles there
and on `i64` here, and that they agree is what the suite tests on chosen
numbers. A double is a fraction `n/d`; minus zero is zero; the product with
`10 ** digits`, which rounds, is left out, so that a function with a digit
count is about the scaled number. The sum in `excelRound` and the quotient in
`vbaIntDiv` are rounded to a double (`Double`: 53 binary digits, ties to even, no
limits of the exponent), and so is what the VM printed when the runner parses it
(`Parsed`); floor, remainder and the difference in `bankersRound` are as good as exact,
as the header of the module explains. `MaxI64` is a constant, so that no proof
depends on the width. `round_ties_even` is external and given by what it
promises; what text becomes a number is left out.

## 3. What is checked

All runs take `-workers 2`. States are distinct states.

| Run | Instance | States | Shows |
|---|---|---|---|
| `edit_history` | 3 workbook states, history of 4 | 6,564 | `HistoryBounded`, `TransactionOwnsItsEdits`, and `EditHistory` implements `EditTimeline` |
| `edit_history_full` | history of 2 | finding | `EditIsUndoable` fails: the edit made when the history is full is not recorded |
| `workbook_editor` | 3 workbook states, history of 4 | 13,128 | `CommittedWorkIsUndoable`, the bound of the stacks (in `TypeOK`), and `WorkbookEditor` implements `EditTimeline` |
| `tile_cache` | 2 VMs, 2 tiles, limit 1 | 65,696 | `CacheBounded`, `PrivateCacheCoherent`, `PrivateReadsAreCurrent` |
| `tile_cache_span` | 1 VM, 3 tiles, limit 2, reads of 2 tiles | finding | `PrivateReadsAreCurrent` fails: filling evicts a tile of the same read |
| `recalc` | 3 cells, every kind of call | 161,313 | `StaleIsPending`, `RecalculatedIsFresh`, `RebuildIsFresh` |
| `recalc_interrupt` | 3 cells; formula, rect, interrupt | finding | `OkMeansFresh` fails: repeating an interrupted recalculation does nothing and says `Ok` |
| `stream_writer` | 3 writers of one process, 1 of another, 2 names each | 739,552 | `TempIsOwn`, `DestinationIsComplete`, `NoLeftovers`, `SuccessIsPublication` |
| `stream_writer_partial` | 3 writers of one process, closed ones kept | finding | `DestinationIsComplete` fails: a name changes hands twice and an unfinished file is published |
| `stream_reader` | every sheet of up to 4 items, limits none, 1 and 2, channel of 2 | 61,065 | `NeverDisconnected`, `CancelIsPrompt`, `WorkerEnds`, `IterationEnds`, and `StreamReader` implements `RowDelivery` |
| `xlsx_session` | programs of two calls on two rich workbooks | 20,321 | `NoValueIsLost`, `ShownTextIsCurrent`, `PackageIsConsistent`, `RoundTrip`, `JsonRoundTrip`, `HtmlRoundTrip`, `PlansAreAllOrNothing` |
| `playground` | two edits, a history of one, two sheets, two macros | 68,529 | `DownloadIsCurrent`, `UndoRedoKeepsContent`, `EditsAreUndoable`, `ReferencesFollowCells`, `MacroIsOneStep` |

What the properties say, and what it takes to break them:

- `HistoryBounded` counts both stacks together: undo and redo push without a
  cap, and each keeps the sum only because it pops the other stack.
- `CommittedWorkIsUndoable` relates the begin, the edits and the commit of one
  transaction: the mark an edit leaves has to live until commit, or the work
  cannot be undone and `EditTimeline` would not notice.
- `TransactionOwnsItsEdits` is what makes abort's `truncate(undo_len)` a
  restoration: nothing was added or removed below it. It and the two refinements
  are about clients that do not call undo or redo inside a transaction
  (`HistoryInsideTxn = FALSE`). The refinements are lenient where the code is: `RecordWhenFull`
  may forget any state, and `Amend` changes the current state without a step. Which entry a
  full history gives up is what `EditIsUndoable` is about; that a refused edit
  leaves an entry, no property forbids.
- `PrivateCacheCoherent` ranges over all edits, restores and forks: a tile that
  some path forgets to drop or patch shows only in a later read.
- `PrivateReadsAreCurrent` speaks of the moment between the second and the third
  critical section, when another VM may have run.
- `StaleIsPending` is the argument for the fast paths: a kept plan is the
  sheet's and everything stale is in the dirty set, and on the workbook path
  the changed cells lead to everything stale. `RecalculatedIsFresh` is what it
  is for: nothing is stale, and no plain value was written over.
- `RebuildIsFresh` has no "unless tracking was blind": a rebuild recovers from
  anything.
- `DestinationIsComplete` and `TempIsOwn` are the two halves of atomic
  publication; `SuccessIsPublication` is an action property: the step at which
  a call reports success is the one that puts its own file in place.
- `NeverDisconnected` says that the iterator's branch for a closed channel,
  reported as `internal_error`, is unreachable: the worker never leaves without
  a last message unless the caller hung up. That is why the branch is no action.
- `CancelIsPrompt`: after `cancel`, one row at most, the one a waiting call gets.
- `NoValueIsLost` relates cells and `!ref` over any sequence of calls: a value
  outside `!ref` is in the object, but in no export and no file. The calls
  that leave `!ref` alone (`sheet_get_cell` and its users, plans) are the
  exception that `loose` keeps.
- `ShownTextIsCurrent` takes an export and a later write in another call to
  break: a write that forgets to drop the cached text shows the old value.
- `PackageIsConsistent` holds over sheets with links, charts, tables and
  comments in any combination, where each counts from the others' numbers, and
  over styles, content types and the offsets of the archive.
- `RoundTrip` says the same from the other end: `read` of `write` is the
  workbook, and `read` returns exactly where `Readable` and the names of the sheets
  say so. `NormalSheet` names what is different, once and for all calls
  (section 5 lists it).
- `JsonRoundTrip` and `HtmlRoundTrip` put an export through the call that takes
  it back; the first depends on the names of repeated headers, and is about
  exports that end (`JsonEnds`), the second on the search for a free column.
- `PlansAreAllOrNothing` is an action property over both executors: after a run
  every worksheet is as the whole plan leaves it, or as before, and the two
  executors agree.
- `DownloadIsCurrent` relates the bytes kept for the download to what is shown,
  over all handlers; `UndoRedoKeepsContent` looks two steps ahead of every
  reachable state, where both workbooks can be read, and compares what lasts
  through the bytes (`Lasting`, which lists what does not); `EditsAreUndoable` says of every step that the workbook
  before it is in the history, except for the steps it lists.
- `ReferencesFollowCells` compares every formula, table, filter, chart, name and
  summary before and after a line is inserted or deleted.
- `MacroIsOneStep`: the answer changes the sheet the macro was started on and
  nothing else, all of it or nothing, whatever happened meanwhile.
- `WorkerEnds` is the resource property: after any ending on the caller's side
  the worker leaves, even from a full channel.

### Bounds, and why they are enough

- *History of 4 and 3 states.* The stacks fill, empty and refill, with a
  transaction begun at every depth; three states tell apart the current, the
  previous and another. The theorems lift both bounds.
- *Two VMs, two tiles, limit one.* A second VM is what can run between two
  critical sections and what makes a cache shared; more tiles than the limit is
  what evicts. One tile holds a formula. A tile is one cell: within a tile the
  code copies and patches cell by cell. Reads that span tiles, and a limit above
  one, are in the second configuration, with one VM. Two VMs with three tiles
  exceeds five million states.
- *Three cells.* A chain of two dependencies and a cell with two precedents:
  transitive closure and partial evaluation differ from their one-step versions.
  Formulas stored past change tracking are bounded (`"store once"` in `Calls`):
  one between two rebuilds, before pastes and moved rows of that stretch, which
  are not bounded.
- *Four writers, two names.* Two writers of one process at once, a third to take
  a freed name, and another process; two names make allocation fail too.
- *Four items, channel of two.* The capacity is the code's. The channel is full
  while the worker holds another row, and a limit of 2 is met before, at and
  after the end.

- *Programs of two calls on two workbooks.* The start workbooks already carry
  what calls would build up: repeated headers, merges, comments, links, two
  tables, a chart, hidden lines, styles, a dense sheet, a macro project, defined
  names, a table read from HTML with cells that span rows side by side. Two
  calls then meet in every order, an export or a write between them included
  (exports and writes do not count). The columns Y to AB are where letters
  carry. `MaxRangeCells`, `PluginCeiling`, `MaxRow` and `MaxCol` are the limits
  of the code made small; a plan is registered by one call and run by another.
- *Two edits, a history of one.* Undo, redo, recalculation, download, typing,
  switching and the ends of awaiting handlers are not counted and come in
  between. With one entry the history is full after one edit. `MaxEdits`
  bounds the handlers that edit or start to await; what changes the looks of a
  sheet, adds to it, awaits or runs a macro comes first (`edits = 0` in `Next`),
  so that the edits that move cells and references come after or in between;
  a cell gets the focus only while `edits < MaxEdits`. `Copied` is the subset
  of the selections that is copied, cut and formatted; `Opened` the files that
  may be open at the start, the recipe being the other start. One handler awaits
  at a time. `Calculated` makes two rounds, enough for the longest chain of
  formulas of the instance; the theorems do not depend on their number.
- *Macros.* One that counts in a loop and writes on a condition, one that fails
  after it has assigned a cell. `MaxLines`, `MaxStatements`, `MaxDepth`,
  `MaxIterations`, `MaxSource` and `MaxInputCells` are the limits of
  `vba-worker.js`, small; likewise `MaxZipEntries`, `MaxUnpacked` and `MaxRatio`,
  which one of the three files exceeds.

### Fairness

Only `stream_reader` has liveness. `FairSpec` assumes weak fairness of the
worker's actions (a thread the operating system schedules), of `CallNext` (the
caller goes on iterating) and of `TakeMessage` (a blocked receive returns once a
message is there). Nothing is assumed of `Close`, `Cancel` and `TimeOut`.
`WorkerEnds` is conditional on the caller having stopped. Weak fairness is
enough because a blocked `send` stays enabled once there is room: no other
sender exists.

The package's calls and the playground's handlers are made by somebody when they
like, so nothing is assumed there, and nothing is promised to happen.

Deadlock is checked except where the system stops of its own accord: a finished
iteration, a set of writers that are all closed, a program of the package that
has made its calls, a page nobody touches.

## 4. What is proved

Every theorem holds for all values of the constants that the named assumption of
its module allows (a positive history, at least one cell, a host among the VMs,
and so on); TLC evaluates these assumptions in every run of the module. Beyond
them some theorems assume something of the client, in the column "Assumes". A
statement in code style is the property of that name, which a run of section 3
checks on a small instance.

| Module | Theorem | States | Assumes |
|---|---|---|---|
| `EditHistoryProofs` | `TypeCorrect` | `[]TypeOK` | |
| | `HistoryBound` | `[]HistoryBounded`, undo inside transactions included | |
| | `TransactionOwnership` | `[]TransactionOwnsItsEdits` | `HistoryInsideTxn = FALSE` |
| | `HistoryIsATimeline` | `ImplementsTimeline` | `HistoryInsideTxn = FALSE` |
| `WorkbookEditorProofs` | `TypeCorrect` | `[]TypeOK`, the bound on the stacks included | |
| | `CommittedWork` | `CommittedWorkIsUndoable` | |
| | `EditorIsATimeline` | `ImplementsTimeline` | `HistoryInsideTxn = FALSE` |
| `CellTileCacheProofs` | `TypeCorrect` | `[]TypeOK` | |
| | `CacheStaysBounded` | `[]CacheBounded` | |
| | `PrivateCachesAreCoherent` | `[]PrivateCacheCoherent` | |
| | `UniformReads` | a read whose tiles were all missing or all resident serves what is stored | |
| | `SingleTileReads` | `[]PrivateReadsAreCurrent` | every request lies within one tile |
| `FormulaRecalcProofs` | `TypeCorrect` | `[]TypeOK` | |
| | `NothingStaleIsForgotten` | `[]StaleIsPending` | |
| | `OkIsFresh` | `[]RecalculatedIsFresh` | |
| | `RebuildsAreFresh` | `RebuildIsFresh` | |
| `StreamWriterProofs` | `TypeCorrect` | `[]TypeOK` | |
| | `NothingIsLeftOver` | `[]NoLeftovers` | |
| | `SavesAreAtomic` | the step at which a save reports success has put its own finished file in place | |
| | `NamesLeadToOwnFiles` | `[]TempIsOwn` | `KeepClosed = FALSE` |
| | `OutputIsComplete` | `[]DestinationIsComplete` | `KeepClosed = FALSE` |
| | `SuccessMeansPublished` | `SuccessIsPublication` | `KeepClosed = FALSE` |
| `StreamReaderProofs` | `TypeCorrect` | `[]TypeOK` | |
| | `ChannelNeverDisconnects` | `[]NeverDisconnected` | |
| | `CancellationIsPrompt` | `[]CancelIsPrompt` | |
| | `ReaderDelivers` | `KeepsThePromise`, the refinement of `RowDelivery` | |
| `PlaygroundProofs` | `TypeCorrect` | `[]TypeOK`, the bound of the history included | |
| | `DownloadCurrent` | `[]DownloadIsCurrent` | |
| | `UndoRedoKeeps` | `[]UndoRedoKeepsContent` | |
| | `EditsUndoable` | `EditsAreUndoable` | |
| | `MacroOneStep` | `MacroIsOneStep` | |
| | `ReferencesFollow` | `ReferencesFollowCells` | |

The assumptions are those of the runs, and without them the statement is false
of the code: `HistoryInsideTxn = FALSE` excludes undo and redo inside a
transaction, `KeepClosed = FALSE` a closed `StreamWriter` that is kept while its
name is given out again, and single tiles the reads of finding 2. Each has its
place in section 5. Those about `Playground` rest on `PlaygroundAssumption`: what
the recipe and the files hold is a workbook (its sheets named apart, its cells,
tables, charts and names on the grid), and what the user selects and types are
ranges, positions and formulas of it. `UniformReads` says how far reads of several tiles can be
trusted all the same.

In each module `Inv` is the inductive invariant, every action has a lemma of its
own, and the theorems follow. Why the invariants are what they are:

- *Edit history.* Undo pushes on `edit_redo` with no cap, and only the sum of the
  depths survives the step, because a snapshot moves from one stack to the
  other: `Inv == TypeOK /\ HistoryBounded` is inductive as it stands. What pushes,
  pops and `Truncate` do to a stack and to the line two stacks stand for are
  lemmas over any bound, at the start of `EditHistoryProofs`; `WorkbookEditorProofs`
  instantiates that module for the other editor. `TransactionOwnership` adds
  its own statement. The refinement shows for each call how the line changes:
  an edit with room is `Record`, one without `RecordWhenFull` (the forgotten
  position is given explicitly), undo and redo are `StepBack` and `StepForward`,
  commit is an edit, abort and begin change nothing that is shown.
- *WorkbookEditor.* An abort brings redo entries back, so the sum of the live
  depths is not enough: `AbortFits` says that the depths an open transaction
  remembers fit the bound as well, wherever undo and redo inside it have moved
  the stacks. `EditsAreMarked` is what `CommittedWork` rests on.
- *Tile cache.* `Entry` describes one cache object; for a read that fills, what it
  evicts and what it keeps is a matter of recency, and `RankFacts` and the lemmas
  on `Survivors` count the tiles that are left. `SharingIsKnown` says that two
  VMs at one object have marked it, so that the steps of another VM cannot reach
  a private cache, which is why `PrivateReadsKeepTiles` can carry what the first
  critical section saw to the third.
- *Change tracking.* Two facts are missing from the properties. A formula that
  reads a stale value is itself stale (`WrongIsClosed`): with it an interrupted
  evaluation can only repair, never spoil (`EvaluateSomeWrong`). And the
  recorded changes must lead to everything stale even while `tracking` is off
  (`ChangesAreEnough`), because a later edit turns it on again without looking
  back; `StaleIsPending` alone is not inductive. The dependents of a set are a
  least fixed point; that they are closed, least, monotone and the same for the
  plan and for the cells are lemmas over any formulas. `RebuildsAreFresh` needs
  no more than types.
- *StreamWriter.* Writers know their files by name only. `FilesHaveWriters` says
  that the file under a name belongs to a writer at work that knows the name,
  and holds for every program, as does that the name of a running save is its own
  (`SaveOwnsTemp`), because no other call of the process runs meanwhile. For
  writers filled call by call `NamesAreDistinct` is needed, and false if closed
  writers are kept.
- *StreamReader.* `ChannelHolds`, `NothingIsSkipped` and `RowsReturned` say where
  each readable row that the worker has passed is: returned, or in the channel
  after those, in order. `LastWasSent` says that a worker that has gone left its
  last message, unless the caller hung up. The refinement needs where the worker
  is (`WorkerPlace`) to know that the rows it has passed are all when its ending
  arrives.

- *Playground.* `DownloadIsCurrent` alone is not inductive. While nothing is
  dirty the download is the bytes of the last write, and the next handler may
  set the panes of the shown sheet from the two flags before it compares: this
  must not change the workbook. `Inv == TypeOK /\ Clean`, where `Clean` says that
  while nothing is dirty or unsaved the flags are those of the shown sheet's pane
  and the last bytes hold what the workbook holds. Every handler that edits ends
  in `EndEdit`, and `EndEditKeeps` shows once what that frame does for `Clean`
  and for `EditsAreUndoable`, whatever workbook the handler made; what is left
  per handler is that it made a workbook (`IsBook`). Handlers that add a sheet,
  take another file or only show another sheet have lemmas of their own
  (`ShowKeeps`, `AnotherBookKeeps`, `LeftAsItIs`, `QuietKeeps`). Undo and redo
  restore a workbook from its bytes: `RestoredBook` differs from the snapshot
  only in what `LastsAs` ignores, provided the snapshot could be written and read,
  and a second way through the bytes loses no more than the first,
  which is why `TypeOK` says so of both stacks, of the snapshot of a cell edit
  and of that of a running macro. Recalculation, summaries that are refreshed
  sheet after sheet and pasting into several ranges are folds or loops; that they
  keep a workbook a workbook, however many there are, goes by the least number
  that is a counterexample (`LeastNumber`, from the well-foundedness of the
  naturals). `MacroOneStep` holds for any `Executed`: only the three checks after
  the answer and the order of the recording matter.

  `ReferencesFollow` needs to know that whatever is moved is on the grid, so
  `TypeOK` says it of everything a workbook holds, in the stacks, the clipboard
  and a macro's answer too: cells are at positions (`AreCells`), tables, filters,
  charts, defined names and sources of summaries cover ranges whose first corner
  is not behind the second (`AreObjects`, `IsFilter`), no sheet has the empty
  name, which in a formula stands for its own sheet (`AreNames`). Each handler
  keeps that: what is typed, filled, pasted, replaced, sorted or answered goes to
  positions, and a range that would lose its corner is refused
  (`AdjustTableReference`), which is why the guards of `StructureEdit` matter. A
  structure edit is then taken apart: where the two corners of a range go
  (`AdjustedEnds`), that every kept position has one place and every place but
  the new line one origin (`WhereIs`, `CameFrom`), hence that the range covers
  the same cells (`AdjustedCovers`); that a cell is found where its own line went
  (`KeptCells`); and that a reference is shifted as its cell is, once and not
  twice, when it names the sheet it stands on (`ShiftedFormulaFollows`).
  `ShiftDone` and `ShiftedBook` carry this through the order of the handler:
  tables and charts first, then cells, formulas and summaries of every sheet,
  names, and the panes.

  What the proof corrected. `EditsAreUndoable` and `MacroIsOneStep` as first
  stated held in the run and are false beyond its bounds: a change of nothing but
  the range a summary is made from gives the same bytes and is not recorded; and
  the panes of the flags are also set where nothing else changes, by a macro that
  answers while a reset awaits its file and by `ReplaceNext` on the sheet it moves
  to. Both properties say so now. A cell with more fields than the model names comes back
  from the bytes as it was only if it is a function, which `IsCell` states.
  `MeansTheSame` had two cases for a reference that was lost already and whose
  old position is the deleted line; they are exclusive now.
  `Playground` writes an update inside an update with operators of their own
  (`ReplacedSheet`, `RenamedPivot` and others): the prover and TLC disagree
  about `@` where one EXCEPT is inside another.

The conformance suites and the arithmetic they test have no state, hence no run;
`ConformanceProofs` says of every input what a run would say of a few.

| Theorem | Statement | Assumes |
|---|---|---|
| `BankersRoundIsNearestEven` | `bankersRound` is a nearest integer, and the even one of two | |
| `IntAndFix` | `Int` and `Fix` differ by one on negative numbers that are not whole, and nowhere else | |
| `ExcelRoundDiffersAtTies` | the two roundings differ at the ties whose even neighbour is nearer to zero, and nowhere else | the sum with one half is a double, or the number is a tie below 2^53 - 1 |
| `ConversionBoundary` | `CByte`, `CInt`, `CLng` fail exactly from the half on that rounds out of the type | `MaxI32 < MaxI64` |
| `VmDividesAsTheReference` | the VM's `Mod` is the reference's, errors included, and so is its `\` where the dividend is below 2^53; `MinI64` by -1, the one quotient that is no `i64`, is refused by both operators | the operands round to an `i64` |
| `SemanticsGateIsSound` | a gate that passes has an expectation of a known kind and a result for each case, and what is not disclosed is met, computed expectations included | |
| `OutcomesGateIsSound` | a gate that passes has, for each scenario, a last result that is a success or the registered failure | results are a sequence |
| `DivisionCasesPass` | a case of `\` or `Mod` is judged a match or an expected error, after the VM's number was printed and parsed | the operands round to an `i64`, the dividend below 2^53, not `MinI64` by -1 |
| `RegistrationIsNarrow` | registering a case as unsupported changes that case's verdict only, and only from `UNCLASSIFIED` | |
| `UnsupportedIsObserved` | a scenario counts as unsupported only if the engine failed on it and a result of it said that a feature is missing | |

The argument. A tie is where implementations of rounding part, so everything
rests on the decomposition `n = d * (n \div d) + n % d` (`FloorDivision`), on the
fact that at most one integer is nearest and even (`NearestEvenIsUnique`), and
from both `RoundTiesEvenIsBankersRound`: whatever `f64::round_ties_even`
computes, if it keeps its promise it is the number that `bankersRound` finds by
comparing a remainder with one half, for negative numbers too.
`VmDividesAsTheReference` needs that the cast to `i64` changes nothing
in range, that a quotient is no larger than its dividend except for the one
pair (`QuotientAndRemainder`), and that the truncated double of a quotient is the
truncated quotient (`SameQuotient`). That is so below 2^53: `HasUnit` finds the
unit of every number, by the least power of two that is large enough (`Powers`,
`LargePower`, `LeastOf`); the double is within half a unit of the number
(`DoubleIsNear`) and whole numbers below 2^53 are doubles (`WholeIsDouble`). A
quotient of a dividend below 2^53 is a whole number or so far from the next one
above that rounding does not reach it (`FloorOfNear`). The bound
is needed: 27021597764222980 \ 3 is 9007199254740993 in the VM and ..994 in the
reference, and the judge, who sees the first parsed as ..992, calls it a bug.
`ExcelRoundDiffersAtTies` has its assumption for the same reason: the sum with
one half is rounded, 0.49999999999999994 goes to 1 and 2^52 + 1 to 2^52 + 2 without a
tie. At a tie the sum is a double (`TieHasExactSum`).
`ConversionBoundary` needs that the cast does not
bring a number outside `i64` back into a type's range. For the judges the point
is which record of an id counts (`LastRecord`: a later line of the results
replaces an earlier one) and that no branch of the classification leads past
the comparison. `DivisionCasesPass` puts both together, from the generator to
the verdict, and covers the division by zero whose message is compared.

### Left to TLC

- Liveness: `WorkerEnds` and `IterationEnds` of `StreamReader`. The prover does
  not handle fairness and `ENABLED`.
- `XlsxSession` and the modules below it. Its invariants speak of texts of
  addresses, of numbers handed out along several folds over a package, and of
  what a reader makes of them: most of it is what definitions by recursion over
  data compute, which would take an induction that the provers cannot be given.
- What `VbaWorker` computes: nested blocks need RECURSIVE operators, which the
  prover does not handle.
- The four findings: a counterexample is a run.

## 5. Findings and known limits

Each finding is a run that TLC answers with a counterexample.

1. **A full history does not record** (`src/src/vm/mod.rs:18535`). `truncate`
   keeps the oldest entries, so with 128 entries the snapshot just pushed is the
   one dropped. The next `undo_edit` goes back to before the 128th edit and takes
   every later one with it.
2. **A read evicts its own tiles** (`src/src/vm/mod.rs:4289`). A range that
   spans resident and missing tiles at the limit can lose a resident one while
   the missing are filled; its cells then read as empty.
3. **An interrupted recalculation forgets what was dirty**
   (`src/src/vm/mod.rs:18622`). The dirty set is removed before the loop that may
   return early; the next call finds nothing to do and returns `Ok`.
4. **Closing can publish another writer's unfinished file**
   (`src/src/lib.rs:4644`). Needs a closed writer that is kept and dropped later,
   and a name that changes hands twice.

Known limits, met while modelling and not given a run of their own:

- *Undo inside a transaction.* `undo_edit` is accepted between begin and abort.
  Abort restores the cells and truncates the undo stack, but entries that undo
  popped do not come back and redo keeps what undo pushed
  (`src/src/vm/mod.rs:18506`; `src/CHANGELOG.md:770` says abort restores). This is
  why the two refinements, `TransactionOwnsItsEdits` and the runs of both editors
  assume that the client does not do it, and cannot notice what it does; the
  bounds and `CommittedWork` hold all the same. `WorkbookEditor` restores redo, but loses popped undo entries in the same way; its `truncate` gives up
  the newest entry too.
- *Forks share the cache.* `fork` clones the `Arc`
  (`src/src/vm/mod.rs:2274`), against the comment above it ("subsequent
  mutations of either VM do not affect the other"): after a write to one VM the
  other may read the new value. The properties speak of private caches for that
  reason.
- *Recalculation leaves tiles.* `recalculate_all` (`src/src/vm/mod.rs:18764`)
  writes values under resident tiles; a range read of formula cells may return
  the values of before. The properties speak of stored cells for that reason.
- *Moved rows leave the plan.* Inserting or deleting rows on the sheet
  (`src/src/vm/mod.rs:3838`) keeps the plan of the old positions.
- *Pasting with a plan.* Pasting goes through `cells_mut`, which clears
  `tracking`; when a plan is there it is compared with the sheet
  (`src/src/vm/mod.rs:18595`), and it may list the same formulas while the values
  they read have changed. A later `write_rect` (`src/src/vm/mod.rs:4463`) sets
  `tracking` again, and the plan is then not even compared: a pasted plain value
  on a cell the plan lists is overwritten. In the model these are the steps
  that set `blind`.
- *Kept writers.* `abort` and drop of a closed writer remove the name it
  remembers (`src/src/stream.rs:884`), whoever has it now.
- *A crash leaves its temporary file*; nothing collects it.
- *An abandoned reader* that is neither closed nor garbage-collected leaves its
  worker blocked with the file open.
- *`__next__` waits with the interpreter lock held*, so that another Python
  thread can cancel only when the wait has a timeout or ends by itself.

Known limits of the xlsx package. The properties state what holds beside them,
and `NormalSheet`, `loose` and the guards of the actions are where they appear
in the model.

- *Charts become narrower.* The writer takes 675,000 EMU for a column
  (`src/packages/xlsx/src/internal/xlsx-writer.cjs:851`), the reader 771,428
  (`src/src/reader.rs:4301`): each write and read takes an eighth of the width
  (7, 6, 5, then 4 stays). Charts stand two by two by their own size, so charts
  of different sizes can overlap.
- *What does not come back from the bytes.* A pane frozen along one axis only: the
  writer writes the split that is not zero
  (`src/packages/xlsx/src/internal/xlsx-writer.cjs:566`), the reader needs both
  (`src/src/reader.rs:5720`). A cell that holds an empty text, with its format and
  style (`src/src/reader.rs:5616`; a comment on it leaves a bare empty text). Of a
  validation everything but its type and ranges
  (`src/crates/elixcee-wasm/src/lib.rs:1046`), so also the choices of a list.
  Hyperlinks, and all but the first author of a comment. Beyond the model:
  what of fonts, alignments, row heights and column widths is read, whether a defined
  name is hidden, and blanks around the texts of formulas and cached values.
- *What `read` refuses though `write` made it.* A sheet without a cell that is read, but
  with a `!ref` of several cells, merges, a pane, hidden lines, validations, rules,
  tables or comments: `worksheet_json` puts a comma before each of them
  (`src/crates/elixcee-wasm/src/lib.rs:998`, 1016 to 1247), the text begins with
  `{,` and `JSON.parse` throws (`Readable`). Sheet names that differ in case only
  (`src/src/reader.rs:3946`). Beyond the model: the control characters U+007F to U+009F.
- *Tables named by letters and digits*, such as `Table1`, look like an address and
  are not written (`src/packages/xlsx/src/internal/xlsx-writer.cjs:607`).
- *Headers that every object has.* `sheet_to_json` counts names in a plain object
  (`src/packages/xlsx/src/index.cjs:741`, explained at 692 to 709): `constructor` becomes
  `constructor_NaN`, and two columns `__proto__`, or `constructor_NaN` before
  `constructor`, make the search at 766 to 768 endless. `JsonRoundTrip` is about the
  other worksheets (`JsonEnds`), and about rows with inherited names only as
  far as their values go.
- *A chart's range shrinks* when its last column has no numbers. The height of
  a row is lost when the row has neither cells nor is hidden. Visibility of
  sheets is written and not read.
- *Outside `!ref`.* `sheet_get_cell` makes a cell outside of it, and operation
  plans write outside of it without extending it; neither is exported or
  written. A plan on a dense worksheet reports success and changes nothing.
- *Kept formulas.* `sheet_add_json` over a formula keeps the formula, and the
  array range of a member.
- *Array formulas.* `sheet_set_array_formula` on a worksheet without `!ref`
  changes its cells and then throws; it leaves cached texts; `write` refuses
  a range of several cells.
- *What write refuses* though a call made it: `[null, formula]` in
  `sheet_add_aoa`, an empty `td` with `data-t="n"`, a number that is NaN, an
  error cell without a formula.
- *HTML.* A boolean comes back as a text and an error as a number; hidden rows of a
  table are recorded without the offset of `origin`; `origin: -1` on an empty
  sheet writes a cell in row 0.
- *Formats.* A cached text stays after `cell_set_number_format`.
- *Wording.* `<cols>` joins its columns with commas, and the attributes of a
  conditional format have no blank between them.
- *Numbers that are not checked.* The number of a table is unique for fewer than
  1,002 sheets; display names of tables, and the columns of a table with
  repeated headers, may repeat; the archive counts entries in 16 bits; sheet
  names that differ in case only are accepted. `book_set_sheet_visibility` makes
  its entry before it refuses.

Known limits of the playground. `unsaved`, and the exceptions that
`EditsAreUndoable` lists, stand for them.

- *Changes that are not recorded, or not marked for the download*: setting and
  clearing a filter (`src/playground/src/main.js:680`) leave the old bytes; a
  refused insertion or deletion has already moved tables and charts (343);
  replacing throws on a number, with the earlier matches replaced (264, 265).
- *A cell that cannot be written.* Pasting the value of a blank or of an error
  over a number leaves a cell `write` refuses; every later handler, undo
  included, throws while taking its snapshot.
- *A workbook with an error in a cell* replaces the open one, and then the
  recalculation throws: the download gives the old bytes under the new name.
- *Late macros.* The answer is applied to whatever workbook is there, on the
  sheet of that name; edits made since the start are not one undo away, because
  the snapshot from before the run is recorded.
- *Undo while typing* with an empty history takes the snapshot of the edit: what
  is typed afterwards into the same cell is not recorded.
- *After an await*, cut and paste use the sheet and the selection of then.
- *References.* Only the first corner of a range on another sheet is recognised
  (`src/playground/src/formula-shift.mjs:42`); a sheet name is found inside a
  longer one; merges, line sizes, validations and rules do not move; the columns of a
  table's filter move twice when a column to its left is inserted; deleting or
  renaming a sheet leaves its defined names dangling. Formulas of conditional
  formats with columns of several letters are moved wrongly.
- *Undo and redo* go through the bytes and lose what these lose: a pane that freezes
  the top row only or the first column only (`src/playground/src/main.js:151`
  offers both), cells with an empty text and their formats, the choices of a
  list, comments beyond the first of a cell, tables without a row below their header
  or named like an address, widths, heights, links and sheet visibility; a frozen
  pane of several lines becomes one. A text cell that a paste left without
  a value becomes "undefined". `LastingSheet` names what the model knows of this.
- *Undo of what cannot be read.* When `read` throws (an emptied sheet that keeps its
  `!ref`, a pane or merges; sheets named alike but for case), the snapshot has already
  left its stack and the shown workbook is on the other one
  (`src/playground/src/main.js:158`): that state is lost.
- *Summaries* are built anew at every recalculation: what was put on their sheet
  goes. A change to a summary alone is not recorded, as the bytes are the same.

Known limits of the conformance suites and of the arithmetic they test.

- *Printed, then failed.* The runners keep what a process printed even when it
  then failed or was stopped after ten seconds
  (`src/compat/corpus/run-elixcee.mjs:51`): a run that printed `ok: true` and
  crashed afterwards passes both gates.
- *Beyond 2^53* the reference divides doubles
  (`src/compat/vba-semantics/reference/numeric.mjs:88`) and the VM `i64`s: 27021597764222980 \ 3
  differs by one, and would be judged a bug if it were a case.
- *Half of a division.* `MinI64 Mod -1` is an error of the VM
  (`src/src/vm/mod.rs:21490`, `checked_rem`) where the reference gives 0. No case
  has those operands.
- *LongLong never overflows*: a number beyond `i64` is cast to its end before the
  range is looked at (`src/src/vm/mod.rs:975`).
- *A scenario without a result* is left out of the comparison with the other
  program (`src/compat/corpus/run-classify.mjs:31`), and not an error there; the
  outcomes gate is what notices.

## 6. What is not modelled

- Values, formulas' text and cell formats of the VM: data. `FormulaRecalc` keeps
  the dependencies only.
- Cycles of references (an error of the topological order), and plans of several
  sheets. `FormulaRecalc` has one sheet with a plan and one bit for the rest.
- Array formulas and spills of the VM; so `recalculate_all_with_spills` is there
  for a sheet without them.
- Sheet structure of the VM: some twenty maps keyed by sheet name. The VBA
  interpreter of the VM and its events: a language whose statements are its state.
- Of the xlsx package: how a number format prints (a text is its value and its
  format), compression, streaming exports, the wording of the XML, dates as Date
  objects, the options of `read`, and files of other programs.
- Of the playground: rendering (`src/playground/src/main.js:444` to 555 and 644
  to 655), moving about with the keyboard (Enter and the arrows are `Blur` and
  `Focus`), translations, the size limit of an upload, the scan of a macro's
  source for blocked words and its parsing. A query is the set of values that
  contain it, and replacement does not touch formulas.
- Reader, writer layout, command line, diagnostics, value types of the VM:
  parsing, formatting and reporting, sequential and without state of their own.
  The publication step of the writer is in `StreamWriter`, and what the reader
  makes of the package's own files in `XlsxReader` and `PlaygroundBytes`.
- Of `src/compat`: the cases themselves, which are data; the drivers of the other
  programs and the normalizers of their output; the references for dates, text
  and bits. Of the engine's arithmetic: what text becomes a number, the
  functions on reals, and rounding to a number of digits.
- The generated glue around the WASM build.

## 7. Plan

Done, in order: `EditTimeline`, `EditHistory`, its proofs; `CellTileCache`;
`FormulaRecalc`; `StreamWriter`; `RowDelivery`, `StreamReader`; `WorkbookEditor`;
`XlsxAddress` to `XlsxSession` with `OperationPlan`; `PlaygroundSheet`, `PlaygroundBytes`,
`VbaWorker`, `ZipBudget`, `Playground`; `VbaNumeric`, `ConformanceReports` and
their proofs; `EditStacks` and the proofs about `WorkbookEditor`, `StreamWriter`,
`StreamReader`, `CellTileCache` and `FormulaRecalc`; `VbaRun` and the proofs about
`Playground`.

Theorems worth proving next: for `OperationPlan`, that validation refuses what
execution would not complete; for `XlsxSession`, `TypeOK` and `NoValueIsLost` over
the calls that keep `!ref` (the texts of addresses as an assumption that TLC
checks); for `PlaygroundSheet`, that a pasted or filled formula refers to what its
source refers to, by the same distance (`TranslateFormula`).

Models worth adding after that: spilled rectangles against user edits; the maps
keyed by sheet name through add, rename, copy, move and delete; the dispatch of
`Worksheet_Change` with its limit, and `run_and_save` around it.
