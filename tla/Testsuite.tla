----------------------------- MODULE Testsuite -----------------------------
(***************************************************************************)
(* A run of the testsuite: LKQLTestsuite of testsuite/testsuite.py, which  *)
(* sets the environment up, selects the tests, has its threads run them    *)
(* and reports, around the drivers of TestDriver.                          *)
(***************************************************************************)
EXTENDS TestDriver

CONSTANT Calls   \* the suites and the options that the testsuite is run with

ASSUME TestsuiteAssumption ==
  \A call \in Calls :
    /\ call.options.workers \in 1..MaxWorkers
    /\ \A t \in Tests : WellMade(call.suite[t])

VARIABLES
  phase,     \* where testsuite_main is
  printed    \* the reports made at the end

svars == <<dvars, phase, printed>>

Phases == {"set_up", "probe", "run", "tear_down", "over", "aborted"}

Init ==
  /\ \E call \in Calls : suite = call.suite /\ options = call.options
  /\ selected = {}
  /\ test = [t \in Tests |-> NewTest(suite[t].files)]
  /\ cwd = Home /\ stdout = Console
  /\ phase = "set_up" /\ printed = {}

\* --perf-mode excludes --coverage and needs the common sources.
SetUp ==
  /\ phase = "set_up"
  /\ phase' = IF options.perf /\ (options.coverage \/ ~options.commonSources)
              THEN "aborted" ELSE "probe"
  /\ UNCHANGED <<dvars, printed>>

\* StandardTestFinder.probe and verify_then_return: the tests under tests/perf
\* are for --perf-mode and the others are not.
Selects(t) ==
  /\ suite[t].perf = options.perf
  /\ options.onlyAutoFix => Get(suite[t].top, "auto_fix", FALSE)

Probe ==
  /\ phase = "probe"
  /\ selected' = {t \in Tests : Selects(t)}
  /\ phase' = "run"
  /\ UNCHANGED <<suite, options, test, cwd, stdout, printed>>

RunTests ==
  /\ phase = "run"
  /\ \E t \in selected : Step(t)
  /\ UNCHANGED <<phase, printed>>

TestsEnd ==
  /\ phase = "run"
  /\ \A t \in selected : Over(t)
  /\ phase' = "tear_down"
  /\ UNCHANGED <<dvars, printed>>

\* subprocess.check_call raises when gnatcov fails.
TearDown ==
  /\ phase = "tear_down"
  /\ \/ /\ phase' = "over"
        /\ printed' = (IF options.coverage THEN {"coverage"} ELSE {})
                      \cup (IF options.perf THEN {"perf"} ELSE {})
     \/ /\ options.coverage
        /\ phase' = "aborted"
        /\ UNCHANGED printed
  /\ UNCHANGED dvars

Terminated == phase \in {"over", "aborted"} /\ UNCHANGED svars

Next == SetUp \/ Probe \/ RunTests \/ TestsEnd \/ TearDown \/ Terminated

\* The threads of the testsuite go on as long as there is something to do.
Spec == Init /\ [][Next]_svars /\ WF_svars(Next)

-----------------------------------------------------------------------------
(* Properties. *)

\* The types of the testsuite and of its drivers.
TypeOK ==
  /\ phase \in Phases
  /\ printed \subseteq {"coverage", "perf"}
  /\ DriverTypeOK

\* Every selected test ends, whichever of them raises: a thread whose test has
\* ended in an error takes the next one.
EveryTestEnds == phase = "run" ~> \A t \in selected : Over(t)

=============================================================================
