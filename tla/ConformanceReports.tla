------------------------- MODULE ConformanceReports -------------------------
(***************************************************************************)
(* The judges of the conformance suites: how compat/vba-semantics,         *)
(* compat/corpus and compat/differential turn what the engine did into     *)
(* verdicts, and the two gates that stop a build.  A result record has the *)
(* id of its case, ok, the cells it wrote (a sequence of addresses and     *)
(* values) and, when it failed, the kind and message of the error.         *)
(* Texts are compared, never looked into; numbers the judge takes for      *)
(* equal (within 1e-9) are one value.                                      *)
(***************************************************************************)
EXTENDS Naturals, Sequences

(* new Map(results.map(r => [r.id, r])): the last record of an id counts. *)
HasResult(id, results) == \E i \in DOMAIN results : results[i].id = id
ResultOf(id, results) ==
    LET last == CHOOSE i \in DOMAIN results :
                    /\ results[i].id = id
                    /\ \A j \in DOMAIN results : results[j].id = id => j <= i
    IN  results[last]

(* What the command line prints for a case that writes one cell or fails.    *)
CaseOutput(address, outcome) ==
    IF outcome.ok
    THEN [json |-> TRUE, ok |-> TRUE, kind |-> "none", message |-> "none",
          cells |-> <<[address |-> address, value |-> outcome.value]>>]
    ELSE [json |-> TRUE, ok |-> FALSE, kind |-> "runtime_error",
          message |-> outcome.message, cells |-> <<>>]

(* The runners take what was printed, also when the process failed or was    *)
(* stopped after ten seconds; only what is no JSON is a failure of theirs.   *)
RunRecord(id, output) ==
    IF output.json
    THEN [id |-> id, ok |-> output.ok, kind |-> output.kind,
          message |-> output.message, cells |-> output.cells]
    ELSE [id |-> id, ok |-> FALSE, kind |-> "harness",
          message |-> "none", cells |-> <<>>]

-----------------------------------------------------------------------------
(* compat/vba-semantics: is the value the documented one? *)

WroteCell(r, address) == \E i \in DOMAIN r.cells : r.cells[i].address = address
findCellValue(r, address) ==
    LET first == CHOOSE i \in DOMAIN r.cells :
                     /\ r.cells[i].address = address
                     /\ \A j \in DOMAIN r.cells : r.cells[j].address = address => i <= j
    IN  r.cells[first].value

(* What differs from the documentation is a bug unless it is disclosed. *)
Diverging(e) == IF e.knownLimitation THEN "KNOWN_LIMITATION" ELSE "BUG"

ValueVerdict(e, r, computedFns) ==
    LET unknownFn == e.kind = "computed" /\ e.computedBy \notin DOMAIN computedFns
        documented == IF e.kind = "computed" THEN computedFns[e.computedBy] ELSE e.value
    IN  IF ~r.ok THEN Diverging(e)
        ELSE IF unknownFn \/ ~WroteCell(r, e.address) THEN "UNCLASSIFIED"
        ELSE IF findCellValue(r, e.address) = documented
        THEN "MATCH_DOCUMENTED_SEMANTICS"
        ELSE Diverging(e)

SemanticsVerdict(id, expected, results, computedFns) ==
    IF id \notin DOMAIN expected \/ ~HasResult(id, results) THEN "UNCLASSIFIED"
    ELSE LET e == expected[id]
             r == ResultOf(id, results)
         IN  IF e.kind = "nondeterministic"
             THEN IF r.ok THEN "NONDETERMINISTIC" ELSE "BUG"
             ELSE IF e.kind = "error"
             THEN IF ~r.ok /\ r.message = e.errorMessage
                  THEN "EXPECTED_ERROR" ELSE Diverging(e)
             ELSE IF e.kind = "no_cells"
             THEN IF r.ok /\ r.cells = <<>>
                  THEN "MATCH_DOCUMENTED_SEMANTICS" ELSE Diverging(e)
             ELSE IF e.kind \in {"value", "computed"} THEN ValueVerdict(e, r, computedFns)
             ELSE "UNCLASSIFIED"

SemanticsReport(cases, expected, results, computedFns) ==
    [i \in DOMAIN cases |-> SemanticsVerdict(cases[i], expected, results, computedFns)]
SemanticsGate(report) == \A i \in DOMAIN report : report[i] \notin {"BUG", "UNCLASSIFIED"}

(* addCaseWithSource: the entry of a case whose outcome the reference gives. *)
ExpectedEntry(reference, address, knownLimitation) ==
    IF reference.ok
    THEN [kind |-> "value", address |-> address, value |-> reference.value,
          knownLimitation |-> knownLimitation]
    ELSE [kind |-> "error", errorMessage |-> reference.message,
          knownLimitation |-> knownLimitation]

-----------------------------------------------------------------------------
(* compat/corpus: did the scenario end as it should? *)

OutcomeVerdict(id, results, expectedOutcomes) ==
    IF ~HasResult(id, results) THEN "UNEXPLAINED"
    ELSE LET r == ResultOf(id, results)
         IN  IF r.ok THEN "PASS"
             ELSE IF r.kind = "harness" \/ id \notin DOMAIN expectedOutcomes
             THEN "UNEXPLAINED"
             ELSE LET e == expectedOutcomes[id]
                  IN  IF r.kind = e.expectedErrorKind /\ r.message = e.expectedErrorMessage
                      THEN e.classification ELSE "MISMATCH"

OutcomesReport(scenarios, results, expectedOutcomes) ==
    [i \in DOMAIN scenarios |-> OutcomeVerdict(scenarios[i].id, results, expectedOutcomes)]
OutcomesGate(report) == \A i \in DOMAIN report : report[i] \notin {"UNEXPLAINED", "MISMATCH"}

-----------------------------------------------------------------------------
(* compat/corpus: does another spreadsheet program agree? *)

(* The failures that say the engine lacks a feature are registered, each    *)
(* under its category and its id, before anything is judged.                *)
Unimplemented(r) ==
    \/ r.kind = "undefined_sub_or_function" /\ r.wording = "Unknown VBA function"
    \/ r.wording = "is not implemented"
UnsupportedFromErrors(results) ==
    {<<results[i].category, results[i].id>> :
        i \in {k \in DOMAIN results : ~results[k].ok /\ Unimplemented(results[k])}}

(* Cells in the order of their addresses, as the normalizers leave them. *)
cellsEqual(a, b) ==
    /\ Len(a) = Len(b)
    /\ \A i \in DOMAIN a :
          /\ ~a[i].isPlaceholder /\ ~b[i].isPlaceholder
          /\ a[i].address = b[i].address
          /\ a[i].value = b[i].value

(* A missing oracle result is one that is not ok. *)
ScenarioVerdict(scenario, elixcee, oracle, registered) ==
    IF scenario.category = "nondeterministic" THEN "NONDETERMINISTIC"
    ELSE IF ~oracle.ok \/ oracle.status \in {"TIMEOUT", "NO_OUTPUT"} THEN "ORACLE_UNAVAILABLE"
    ELSE IF ~elixcee.ok
    THEN IF <<scenario.category, scenario.id>> \in registered
         THEN "UNSUPPORTED" ELSE "UNCLASSIFIED"
    ELSE IF cellsEqual(elixcee.cells, oracle.cells) THEN "MATCH" ELSE "UNCLASSIFIED"

(* run-classify leaves a scenario without a result out of the report. *)
ComparedScenarios(scenarios, results) ==
    {i \in DOMAIN scenarios : HasResult(scenarios[i].id, results)}
ComparisonReport(scenarios, results, oracles) ==
    LET registered == UnsupportedFromErrors(results)
        NoOracle   == [ok |-> FALSE, status |-> "missing"]
        oracleOf(id) == IF HasResult(id, oracles) THEN ResultOf(id, oracles) ELSE NoOracle
    IN  [i \in ComparedScenarios(scenarios, results) |->
            ScenarioVerdict(scenarios[i], ResultOf(scenarios[i].id, results),
                            oracleOf(scenarios[i].id), registered)]

-----------------------------------------------------------------------------
(* compat/differential: the xlsx package beside the program it replaces.    *)
(* A comparison c names what the caller passed, "none" for what it did not; *)
(* security, safety and unsupported are the registries.                     *)

DifferentialVerdict(c, security, safety, unsupported) ==
    IF c.oracleAmbiguous
    THEN IF c.oracleAmbiguityReason = "none" THEN "throws" ELSE "ORACLE_AMBIGUITY"
    ELSE IF c.elixceeErrorCode \in security THEN "INTENTIONAL_SECURITY_DIVERGENCE"
    ELSE IF c.elixceeErrorCode \in safety THEN "INTENTIONAL_SAFETY_DIVERGENCE"
    ELSE IF c.securityDivergenceKey \in security THEN "INTENTIONAL_SECURITY_DIVERGENCE"
    ELSE IF c.oracleB # "none"
    THEN IF c.oracleA = c.oracleB THEN "MATCH" ELSE "NONDETERMINISTIC"
    ELSE IF c.oracleA = c.elixcee THEN "MATCH"
    ELSE IF <<c.api, c.unsupportedCaseId>> \in unsupported THEN "UNSUPPORTED"
    ELSE "UNCLASSIFIED"
=============================================================================
