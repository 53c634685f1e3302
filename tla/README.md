# A formal model of GNATcheck

GNATcheck checks Ada sources against a coding standard.  The rules are queries
written in LKQL, run by worker processes; this repository holds the rules and
the *driver*, an Ada program that chooses sources and rules, starts the workers
and gprbuild, collects their diagnostics, applies exemptions and reports.  The
modules in this directory model the driver in TLA+, and with it the Python
programs that come with it: the testsuite and its drivers, the scanner for known
problem KP-VA20-016, and the extension that checks the user manual.  They are
checked with TLC on small instances, and the central properties are proved with
TLAPS for every size.

Paths of the driver are relative to `src/lkql_checker/src`, with `lkql_checker-`
left out of file names; the others are given from `src`.

## 1. The system

| Component | State | Operations | Talks to | What makes it correct |
|---|---|---|---|---|
| Job scheduler (`lkql_checker.adb`: `Schedule_Files`, `Wait_Lkql_Checker`) | `Next_SF`, `Job`, `Current`, `Total_Jobs`, `Handles`, temporary files | plan, write list, spawn, wait, reap | workers and gprbuild (processes, files), source table, collector | every source's results are loaded or a failure is counted; no child is left behind; the run ends |
| Exemptions (`diagnostics-exemptions.adb`) | open and postponed sections, plain and parametric | process pragma, comment, end of source; map diagnostics | `Process_Sources`, rule table, collector | exactly the violations between annotations are exempted; nothing leaks between sources |
| Source table (`source_table.adb`) | list of sources with status and info, hash chains | add, find, set status, ignore, next non-processed | everyone | a source is registered and counted once; statuses only get worse |
| Diagnostic collector (`diagnostics.adb`) | ordered set of diagnostics | store | scheduler, exemptions, output parsers | no duplicates, nothing lost |
| Worker and gprbuild output (`compiler.adb`) | counters | parse SARIF and text | scheduler, collector | each error of a child has an effect on the run's verdict |
| Report (`diagnostics-report.adb`) | statistics | compute, print | collector, source table | the classes of sources add up |
| Exit code (`lkql_checker.adb`: `Main`; `output.adb`) | failure flags and counters | compute | all | 0 means that the results can be trusted and are clean |
| Rule table (`rules-rule_table.adb`, `rules.adb`) | rules, instances, stack of rule files | process rule file or option, turn on/off | LKQL parser process, compiler checks | one enabled instance per name; inclusion ends |
| Compiler checks (`compiler.adb`) | restrictions, style and warning options | process parameter, disable | rule table, gprbuild | flags and tables agree |
| Aggregate projects (`projects-aggregate.adb`) | iterator, merged SARIF, the children's files | spawn a checker per project, merge its report | child checkers (processes, files) | every project is checked and its result counts |
| Test drivers (`testsuite/drivers/gnatcheck_driver.py`, `checker_driver.py`) | a test's output and flags, its directory; the current directory and standard output of the process | run snippets and gnatcheck, read reports, count flagged lines | gnatcheck (processes, report files), the other threads | a subtest shows and counts its own run |
| Testsuite (`testsuite/testsuite.py`) | options, selected tests | set up, select, run, report | the drivers, in threads | every selected test ends |
| KP-VA20-016 scanner (`lkql_checker/share/lkql/kp/kp_va20_016.py`) | symbols with instructions and relocations | parse a listing, check a function | a disassembly | an access to freed stack memory is reported, and only what follows an increment |
| Manual extension (`user_manual/source/lkql_doc_class.py`) | marks on classes, kept list | read a page, check code, report | Sphinx, which forks and rebuilds | a class without documentation is reported |
| Options, projects, log files, rule loading, utilities | configuration | | libraries (GPR2, Libadalang) | |

The LKQL engine, gprbuild, the Ada front end and the libraries are outside the
repository: the models give them every behaviour the driver has to expect.

What is hard here.  Children run concurrently with the driver and end in any
order, or die.  The scheduler's counts (`Current`, `Total_Jobs`) are kept by
hand in four places, with an early exit that corrects them.  The open sections
of exemptions are global state that each source must clean up, and exceptions
are caught around a whole source.  Exemptions are applied in two phases, by
different comparisons for plain and parametric sections.  Statuses of sources
are overwritten by several parties.  Files outlive the process that wrote them:
the reports of subtests share a name, and a killed child leaves the SARIF report
of an earlier run to be merged.  The threads of the testsuite share a current
directory and a standard output, which snippets change.  The scanner reads in
the order of the text what is executed in another, with delay slots.  The
hazards are listed one by one, at
their lines, in `PROJECT.json`.

## 2. Modules

| Module | What it is |
|---|---|
| `JobScheduler` | the scheduler, its children, and the part of the collector and of the source statuses it changes |
| `AnalysisRun` | the contract of a run: load results, end, and end trusted only with all of them |
| `MCJobScheduler` | instances for TLC |
| `JobSchedulerProofs` | proofs about `JobScheduler`: types and the counting of children |
| `CoverageProofs` | proofs about `JobScheduler`: no source is lost, and the contract is kept |
| `ListProofs` | proofs about `JobScheduler`: disjoint lists, marks that last, temporary files |
| `Exemptions` | the scan for annotations and the mapping of violations |
| `ExemptionsProofs` | proofs about `Exemptions`: types, open and postponed sections, what is exempted, useless sections |
| `MCExemptions` | instances for TLC |
| `Checker` | `Main` around the scheduler: rule options, what there is to do, aggregated projects, statistics, exit code |
| `MCChecker` | instances for TLC |
| `CheckerProofs` | proofs about `Checker`: types, what the exit code says, the contract, the merged report, the summary |
| `RuleTable` | rule instances, and the options, rule files and LKQL rule file that fill the table |
| `MCRuleTable` | instances for TLC |
| `RuleTableProofs` | proofs about `RuleTable`: types, the agreement of the two tables, freed instances, what was asked for |
| `TestDriver` | the two test drivers: snippets, runs, reports, flags |
| `Testsuite` | the testsuite around them: options, selection, threads, end |
| `MCTestsuite` | instances for TLC |
| `TestsuiteProofs` | proofs about `TestDriver` in `Testsuite`: types, isolation, reports, flags, switches |
| `KpScan` | the scanner, and the executions of the code it scans |
| `MCKpScan` | instances for TLC |
| `KpScanProofs` | proofs about `KpScan`: types, exit code, justified reports, explained misses |
| `DocCoverage` | the manual extension over builds |
| `MCDocCoverage` | an instance for TLC |

`Checker` EXTENDS `JobScheduler`, and both implement `AnalysisRun`; `Testsuite`
EXTENDS `TestDriver`.  The others stand alone.

### JobScheduler

`args` is what the run is called with: the number of argument sources, which of
them are ignored, which the workers' front end rejects (`illegal`), which
gprbuild's compiler rejects (`uncompilable`; neither set bounds the other), `-j`,
whether gprbuild is needed, `--debug`, and `badWait`: whether `Wait_For_Processes` may fail while
children are active.  `filesPerJob`, `processNum`, `numJobs`, `totalJobs`,
`current`, `job` and `nextSF` are the variables of `Schedule_Files` of the same
names; `worker[j]` is `Handles (j)` together with the state of the process it
names; `status`, `toolFailures`, `internalErrors` are the driver's.  `pc` tells
where the driver is.

| Action | Code |
|---|---|
| `Start` | the plan (`JobPlan`), the rules file, `Process_Sources` |
| `SpawnWorker` | one iteration of the spawning loop up to its wait: `WriteList` is the inner loop over `Next_SF .. Last_Argument_Source` |
| `SpawnGprbuild` | `Spawn_GPRbuild` after the loop |
| `SpawnFails` | an executable cannot be started; the exception ends the run |
| `WorkerExits`, `GprbuildExits` | the children |
| `ReapWorker`, `ReapGprbuild`, `WaitFails` | the outcomes of `Wait_Lkql_Checker` |
| `Finish` | the end of the draining loop |

A worker leaves a complete report, a report that notes a failure about no Ada
source (with or without a hint naming one), or no report that can be loaded.
`ReapGprbuild` gives every source that gprbuild rejects an error, a bug box or
nothing: an unexpected line raises an exception that ends the parsing of its output
(`compiler.adb:881-889`), and neither that nor the exit code of gprbuild is looked
at afterwards (`lkql_checker.adb:355-360`).

`AnalysisRun` knows only the sources wanted, those analysed and a verdict.
`JobScheduler` implements it (`ContractSpec`) with the verdict computed as
`Main` does from the two counters.

### Exemptions

`open` joins `Exemption_Sections` and `Rule_Param_Exempt_Sections` in opening
order; a plain section has `params = {}`.  `closed[f]` joins the two postponed
maps.  Annotations are chosen as the scan meets them: first pragmas, line by
line (`ReadPragma`), then comments (`ReadComment`), then
`Check_Unclosed_Rule_Exemptions` (`EndOfSource`).  `Effect` is
`Process_Exempt_Action`, as a function on the collector because a line comment
calls it twice.  `ScanRaises` is an exception caught by `Process_Sources`.  When
all sources are scanned, `MapDiagnostic` maps a violation onto the sections
(`Match`), and `WarnUnused` reports those that matched none.

`AlreadyExempted` is the check of a new section against the open ones, with one
operator per comparison (`IsExempted`, `IsParamExempted`, `HasOneParam`); what it
is for is stated of the postponed sections (`SectionsWellFormed`).  The two passes
over a source may both find annotations.

The properties leave out what an exception does to the sources after it, and
nothing else: the sections that are open when a scan raises belong to the next
source, which is therefore excluded; in the source that raised, a violation may be
left unexempted, but none is exempted without annotations.

Names are rules, instances with a name of their own (`Aliases`), and unknown
names.  Columns are reduced to four positions of a line: before, at and after a
pragma, and a comment at its end.  Justifications, message texts and the two
warnings about justifications are left out.  `read` is a history variable: the
properties compare what was exempted with what the annotations say.

### Checker

`Checker` EXTENDS `JobScheduler`: `Schedule` takes a step of the scheduler (the
driver's part), `Children` one of the children's, and the rest of `Main` is
around them.

| Action | Code |
|---|---|
| `ProcessRuleOptions` | `Process_Rule_Options`: leaves flags behind, never ends the run by itself |
| `Rejected` | `Parameter_Error`, `Fatal_Error` or another exception before the sources are scheduled |
| `CheckParameters` | `Check_Parameters`: sets `Nothing_To_Do` or `No_Detectors_For_KP_Version`, or goes on |
| `ScheduleRaises` | an exception leaves `Schedule_Files` |
| `Report` | `Generate_Qualification_Report`: `Compute_Statistics`, and the count of internal errors |
| `Exit` | the computation of `Exit_Code` |

`setup` is what the switches say, `task` the two booleans of
`Check_Parameters`, `problems` the flags `Missing_Rule_File_Detected`,
`Bad_Rule_Detected`, `Rule_Option_Problem_Detected`, `Missing_File_Detected`
and `Error_From_Warning`, each an element of the set while it is raised.
`violations` holds the sources with a violation, plain or exempted; they are
chosen among those that a loaded report or, with compiler-based rules, gprbuild's
output can be about (`Reportable`), which connects the summary to what the
scheduler did.  `Error_From_Warning` has no initial value in
the code; it is a library-level variable, which the build places in zeroed
storage, and the model starts it as False.

With `setup.projects > 1` the argument project is an aggregate: `Main` schedules
no files and `ProcessAggregatedProject` is one iteration of
`Process_Aggregated_Projects`.  The checker of a project is spawned and waited
for; how it ends (`Endings`) is an exit code with its report written, or an
exception or a kill with the report missing, broken, or the one an earlier
`--debug` run left in `sarifs`.  `children` are the exit codes, which the code
prints and does not use; `merged` are the reports whose runs are in the merged
report; a report that does not load adds to `internalErrors`.

### RuleTable

`table` is `All_Rule_Instances`; `listed[r][n]` counts how often the instance
named `n` is in `All_Rules (r).Instances`, the list that is written to the
workers' rule file.  `stack` is `Rule_File_Stack`; an entry is `ended` when the
option being processed is the last of the file, which the code processes apart.
`pending` holds the parameters of an option that are still to be processed.

| Action | Code |
|---|---|
| `ReadInstance`, `LkqlFileFails`, `LkqlFileEnds` | `Process_LKQL_Rule_File`, `Process_Instance_Object` |
| `LegacyOption` | `Process_Legacy_Rule_Option` up to the parameters |
| `ProcessParameter` | one call of `Process_Rule_Parameter` |
| `ParameterRaises` | the instance is not of the type that the option's rule expects |
| `FreedParameter` | the instance was freed by an earlier parameter: the outcome is undefined, so any |
| `AllOn`, `AllOnRefused`, `AllOff`, `SingleRule` | `Turn_All_Rules_On`, `Turn_All_Rules_Off`, `Process_Single_Rule_Name` |
| `Include`, `RuleFileEnds`, `RuleFileRaises`, `Malformed` | `Process_Legacy_Rule_File` |

The twelve procedures that process parameters (`rules.adb:1330-2247`) differ in three questions: does
the parameter remove the instance (`Removes`), is it reported (`Complains`), is
it kept (`Accepts`).  `Kinds` groups them by their answers.  The contents of a
rule file are not fixed beforehand: every step in a file reads any option.
`asked` is a history variable that folds the requests by themselves, without
looking at the table, and `doubtful` the names for which `AsAsked` does not hold:
an instance that is there already, and `+R` without the parameter (section 6).
A request through an alias that is doubtful itself (`Unclear`) makes the names it
may concern doubtful too: what the alias stands for is then not what was asked.

### TestDriver and Testsuite

`suite[t]` is `test.yaml`: the keys of test `t` and its subtests, whose keys are
joined as `run` does.  `test[t]` is the driver object, with the place where `run`
is (`pc`), what is left of the snippet (`todo`), the files of the working
directory, the runs of gnatcheck so far, the output as items that say where they
come from, and the flagged lines as a bag of kinds of diagnostics.  `cwd` and
`stdout` belong to the process.

| Action | Code |
|---|---|
| `Start`, `GlobalEnds` | a thread takes a test; `global_python` |
| `Subtest`, `NextSubtest` | the loop over the subtests, the format |
| `EnterDirectory`, `Redirect`, `Restore`, `LeaveDirectory` | `capture_exec_python`: `os.chdir`, `redirect_stdout`, and their ends |
| `Snippet` | one call of a snippet: `print`, or one of the helpers `ls`, `tree`, `cat`, `mkdir`, `ln`, `rm`, `set_line_endings`, or an exception |
| `RunGnatcheck` | the command line (`Command`) and the run, which may be refused or killed |
| `ReadReport`, `StrayVariable` | the report file, the parser of the format, the flags, the exit status |
| `PerfRun` | the same in `--perf-mode` |
| `RunChecker` | `CheckerDriver.run` |
| `SetUp`, `Probe`, `RunTests`, `TestsEnd`, `TearDown` | `LKQLTestsuite` and the main function of the library |

Each step of `capture_exec_python` is an action, because two threads take these
steps on the same directory and standard output.  A report is what it was
written with: the subtest that ran gnatcheck, what it found, and the form.
A directory in its place (`Obstructed`) keeps gnatcheck from writing it and ends the
test, since the driver expects `FileNotFoundError` only.
`WellMade` is what the models assume of a test: its snippets and arguments are
lists, its `mode` is one the driver knows, and none of its files claims to come
from a run.  `TestDriverAssumption` keeps the markers (`Home`, `Console`, `None`)
apart from the values they stand beside.  The library e3.testsuite and `BaseDriver` are not in the repository; the map marks
what stands for them as external.

### KpScan

A listing is a sequence of lines; an instruction is what the predicates of
`Insn` tell of it, and its offset is its index.

| Action | Code |
|---|---|
| `ReadLine`, `ParseFails`, `ParseEnds` | `parse_dissas` |
| `DetectIncrement`, `IgnoreAccess`, `CheckInsn` | an iteration of the second loop of `Symbols.check`, by the way it ends: two `continue`s, or the end of the body |
| `CheckEnds` | `check` returns, for a leaf function or not |
| `Exit` | the exit code |

The warning that a listing has no relocation (lines 330-337) changes neither the
reports nor the exit code and is left out; the listings of `kp_missed` have one, so
that the script prints nothing at all for the one TLC finds.

What the scan is for is defined without it: `Freed` is the set of accesses that
an execution, delay slots and branches included, may reach after a stack
increment.

### DocCoverage

`documented` are the classes that have the attribute themselves, `env` the list
that Sphinx keeps from build to build.  `Rebuild` starts a new process, which
reads only the pages that changed.  The inheritance of attributes is
`HasAttribute`.

## 3. Runs

| Run | Instance | Question | Outcome |
|---|---|---|---|
| `schedule` | up to 5 sources, `-j` 1, 2 and 4, lists of at least 2, with and without failing waits and `--debug` | is anything lost in any interleaving, are lists disjoint, counts exact and files deleted, and is the contract kept, termination included? | holds |
| `exempt` | 1 source, 3 lines, 3 annotations, 2 parameters | are exactly the right violations exempted and the right sections called useless? | holds |
| `exempt_sources` | 3 sources, 2 lines, 2 annotations of every invalid kind | do sections stay with their source, and is the right thing exempted, when a scan raises? | holds |
| `whole_run` | up to 3 sources, 2 jobs, 1 problem, waits may fail; 2 aggregated projects | is exit code 0 clean as far as the driver has read, are statuses, statistics and the merged report right, and does the whole run keep the contract, termination included? | holds |
| `rule_table` | 6 rules, one per kind of parameters, a compiler check, an alias, 2 rule files, 3 options | do the tables agree, and are the rules those asked for when no problem is reported? | holds |
| `test_driver` | 2 tests of 1 or 2 subtests, 1 or 2 threads | are prints, reports, flags and switches those of the right subtest, and does every test end? | holds |
| `kp_scan` | every function of at most 4 instructions; those of 7 that start with a branch; pairs of functions with relocations | is what is reported justified, what is missed explained, and the exit code right? | holds |
| `widened_exemption` | 1 source, 2 lines | what a comment says of rejected parameters | violated |
| `stale_report` | 2 subtests of a test that comes with no report | "each entry of the list is a separate test" | violated |
| `kp_missed` | functions of 7 instructions, beside one with a relocation | "free from false negatives" | violated |
| `undocumented` | 7 classes, 2 pages | "warnings for every non-documented class" | violated |
| `aggregate_exit` | 2 projects | exit code 0 for an aggregate project | violated |

Bounds.  `Minimum_Files` is 10 in the code and 1 or 2 here, which brings all
three plans of `JobPlan` (halved lists, plain lists, short lists) within a
handful of sources; 5 sources for 4 jobs is the smallest instance whose plan
leaves a job without files.  The instances are the union of three families
(`MCJobScheduler!Instances`): every call on 3 sources with up to 2 jobs; on 5
sources, outside debug mode, with waits that do not fail; and 5 sources with 4
jobs, of which at most one is ignored.  Three lines and three annotations allow
a section, one annotation that interferes with it, and a violation before, in or
after it; two parameters allow sets that are equal, disjoint, nested or
intersecting.  Three sources (`exempt_sources`) are one whose scan raises, the one that inherits
its open sections, and one after it.  One violation is enough: violations are mapped independently of
each other, and a section's counter is only compared with zero.

The runs of `Checker` call it in the ordinary way with at most one switch
changed (`MCSetups`), since each switch is tested once and the tests are
ordered; one problem at a time, because the exit code takes the first that
applies.  Every setup runs on two sources with one job, the ordinary one also on
three sources with two jobs, without gprbuild.  At most one source is rejected
by the workers and at most one by gprbuild (`MaxIllegal`), the same or another;
only the ordinary call has one that gprbuild rejects, since the switches do not
touch what gprbuild finds.  `whole_run` leaves `--debug` out
for these, which only changes the scheduler and is covered by `schedule`; the
aggregate calls have it.  Two projects show a failure before and after a good
child; the proofs are for any number.

`test_driver` pairs every two formats in a test of two subtests, with quiet and
verbose runs, a shared or separate report, and `-s`; runs every key that matters
to the target; and has a snippet for each branch of each helper.  A run of
gnatcheck finds nothing or one diagnostic of each kind.  Two threads are enough
for what one does between two steps of another.  In `kp_scan` four instructions
hold every pair of a branch or return with its delay slot after an increment,
and seven a branch over an increment to an access and back.

In `rule_table` three options suffice for each pair of requests about one name
with an inclusion before, between or after them, and for a rule file that
includes itself through another.  The parameters of an option are steps of their
own and are not counted.  One file is found under its name from the current
directory as well as from the project, the other from the project only.

Deadlock is checked in every run; `Terminated` (`Over` in `Checker`) is the only
step of a finished run, and a build of the manual can always be followed by
another.

Fairness (`JobScheduler!Fairness`).  The driver is a sequential program that blocks
only in `Wait_For_Processes`, so some driver action that stays enabled is taken;
each child analyses a finite list and exits.  Nothing is assumed about which
child exits or is reaped first, or about success.  `CFairness` says the same of
`Main`, whose other phases never block; the child of an aggregated project is
waited for in the step that spawns it, and assumed to end.  The fairness of
`Testsuite!Spec` is weak fairness of all its steps together: the threads go on
as long as one of them has something to do, which is all the library promises,
and a gnatcheck run is killed by its timeout.

## 4. Proofs

`JobSchedulerProofs` proves, for any number of sources and jobs and any
`Minimum_Files` (`SchedulerAssumption` only gives the constants their types):

* `TypeCorrect`: type correctness, through `TypeInv`, which adds that `Init`'s
  facts about `args` persist.
* `SpuriousWait`, `Orphans`, `WorkerLimit`: they follow from one inductive
  invariant, `AccountInv`.  The three properties are not inductive by
  themselves: whether a wait finds a child depends on what `Current` and
  `Total_Jobs` count.  `AccountInv` states the accounting at each `pc`: spawned
  children = reaped + active, and how `Total_Jobs` relates to the jobs spawned
  before and after the early exit.  The proof has a lemma per action;
  cardinalities of the set of active workers change by one element at a time.
* `JobPlanFits`: the plan's lists have room for all sources and it asks for no
  more processes than `-j`.

`CoverageProofs` goes on from there:

* `SilentLoss`: a run that counts no failure has loaded every result.  It needs
  two more invariants.  `SplitInv` is about the lists: all sources before
  `Next_SF` were sent, and as long as some source is unsent, every list so far
  was full, so that `job * filesPerJob` sources are behind `Next_SF`; with
  `JobPlanFits` the last job leaves nothing unsent.  `ReportInv` adds that the
  list of every job whose handle is free is loaded, or a failure is counted.
  At the end `AccountInv` says that no handle is in use.
* `ContractSafety`: `Spec` implements `AnalysisRun!Safe`, from `ReportInv` and
  `NoSilentLoss` of the next state (the step that trusts the run is `Finish`).

`RuleTableProofs` proves, for any rules, options, objects and files:

* `TypeCorrect` and `Agreement`, from the invariant `Others /\ Tables`.  The
  types alone are not inductive: that the count of a list stays a natural number
  when an instance is turned off needs `TablesAgree`, which says that the count
  was 1.  `WithoutRemoves` states what leaving a list does to all the lists, and
  `TurnOnAgrees` and `TurnOffAgrees` are cited by every action.

* `FreedOnlyReported`: parameters are processed for a freed instance only after an
  error was reported.  It needs `Shape`, that the parameter that stands for none
  is the only one of its option: a removal without complaint is the last thing an
  option does.
* `RequestsFollowed`: without a problem, every name that is not doubtful has the
  instance asked for.  In the middle of an option the table lags behind the
  request, so the invariant `Follows` says instead what is still owed (`Owes`):
  applying the parameters that are left (`With`) to the instance in the table
  gives the one asked for.  The attempt to prove this showed that `AsAsked` was
  false as first stated, beyond the reach of the run's three options: an option
  can go through an alias whose own instance is not the one asked for.  `Unclear`
  names the case.

`ListProofs` goes on from `CoverageProofs`:

* `DisjointLists`: `ListInv` says which sources the lists so far hold, that they
  are disjoint while `Next_SF` moves, and that a list that did not move it, which
  needs an ignored last source, is repeated as a whole.
* `UnverifiedErrors`: `MarkInv` says that the source of every error is marked
  while no later job is given it, by `DisjointLists`' invariant.
* `AccountedTemps`: `TempInv` counts the jobs whose report did not load
  (`Lost`), which have a temporary file and a counted error each.

`CheckerProofs` carries these through `Main`:

* `SchedulerInv` joins the invariants of the scheduler.  A step of `Checker` is
  one of the scheduler, or only counts errors (`SchedulerSteps`), and both
  preserve it; it is needed only when there is something to schedule.  `MainInv`
  says what each phase of `Main` has established, in particular that the report
  has counted the internal errors before `Exit_Code` is computed.
* `CleanExits` and `StatusesTrusted` speak of what the workers rejected and of the
  errors of gprbuild that the driver read (`KnownIllegal`), since others may be lost
  (section 6).  They and `InternalErrorsFail` follow from `TrustedRun`:
  a run that checks sources and exits with another code than 2 has counted no
  failure, so that `NoSilentLoss` applies.
* `RunContractSafety`: `CSpec` implements `AnalysisRun!Safe`.
* `SummaryComplete`: the classes of sources add up, for every run that does not
  have gprbuild fail on an ignored source.  `KnownInv` says that the sources
  processed leave "waiting" for good and an ignored one only with an error about
  it; then each class is a set, the sets are disjoint, and `SummaryInv` carries
  the sum from the report to the exit.
* `RunTypeCorrect`: `CTypeOK`, from `ValuesInv` and the same facts about statuses.
* `MergedProjects`: `AggregateInv` relates the number of children, the merged
  reports and the files on disk, for any number of projects and any files.

`KpScanProofs`, for any listing of any length:

* `TypeCorrect` from `TypeInv`, which adds the types of the symbols;
  `ExitCode` from the relation of `errors` and `printed`.
* `JustifiedReports`: `ScanInv` says that `detected` goes with an increment that
  no return has undone, and relates `last` to `at`; it is what the loop keeps
  across its three `continue`s.
* `ExplainedMisses`: `Pending` says from the listing alone that an increment is in
  force; `Keeps` that the scan then knows of it, and `Tells` that a branch or an
  access it has passed since is reported, in a function that loses no increment
  (`MissInv`).  What may be executed after the increment is the smallest set closed
  under `Successors`, so no induction over executions is needed: the instructions
  with `Pending` are such a set, unless a branch among them is reported
  (`FreedPending`).

`ExemptionsProofs`, for any number of sources and lines, any rules, instances,
parameters and annotations:

* `TypeCorrect` from `TypeInv`, which adds that comments are read for a source.
  All annotations go through one lemma, `EffectSteps`: `Process_Exempt_Action`
  opens at most one section, which no open one blocks (`Opens`), and then closes
  at most one (`Closes`).
* `WellFormedSections`.  `NoneBlocks` shows that the four comparisons of
  `AlreadyExempted` leave out no combination of names and parameters: no open
  section that shares a violation with the new one (`Blocks`).  `Compatible` says
  this of any two open sections.  `Apart` says that an open section starts after
  the end of the postponed ones of its pass that it could share a violation with,
  and `Upto` that the scan has passed those of the present pass; `Well` joins these.
  The first pass starts at the first line again when the comments are read, which
  is why they speak of one pass.  `Scan` says for the sources behind, the present one and
  those ahead what of this holds; a source whose scan raised (`Broken`) leaves its
  sections to the next, which is given up, and after which it holds again.
* `ExactExemptions` and `UselessSections` rest on `LookupInv`, which relates the
  sections to the annotations read.  `EffectTold` says what an annotation does to
  the sections and to the warnings: those it adds are about itself, so the
  rejections of earlier annotations stay what they are (`StillAccepted`).  `During`
  and `After` say of a source that is scanned, or has been, that every section was
  begun by an accepted annotation and is open because nothing has ended it since
  (`Standing`), was closed by the first annotation that ended it (`Shut`), or by the
  end of the source (`Left`); and that every accepted annotation has its section
  (`Answered`).  `Distinct` says that sections start at different places, so that
  one can be told from another by what `Warning` keeps of it.  `Strangers` confines
  what a raised scan leaves open to the sources that are given up.  `Follows` joins
  them with the order of reading.
* `MatchFinds` is about the lookup alone: `Match` returns a section that holds the
  violation whenever there is one.  The first hit of `PlainMatch` and the earliest
  of `ParamMatch` exist because a set of natural numbers has a least element
  (`Least`); that the search for a parametric section may stop at the first that
  starts after the violation needs `Distinct` and that such sections are opened by
  pragmas only.  `HeldBetween` translates lines and columns: a section holds exactly
  the violations between its annotations.

`TestsuiteProofs`, for any tests, subtests, keys, snippets, findings and number of
threads, from the two assumptions on the constants:

* What an action does to the other tests, to the output and to the process is
  stated once, in a lemma per action (`...Facts`); the rest cites these.
* `TypeCorrect` from `TypeInv`.  The buffer a snippet prints into and the run a
  report is read from have to exist: `Placed`, `Counted` and `Saved` tie the number
  of runs and the saved directories to where `run` is.
* `IsolatedSnippets` and `RestoredProcess`, from `IsolationInv`.  With one worker at
  most one test is active; each place in `capture_exec_python` holds the directory
  and the standard output of its own test (`Holds`), and between tests the process
  has its own back, unless a snippet has raised (`Rested`).
* `TargetOnce`: for a command line, `Heads` is the set of switches and `Once` says that
  two positions do not hold the same one.  `CommandHeads` computes both for the
  concatenation of nine optional lists, with no condition on the extra arguments
  but the one `OneTarget` states.
* `AccountedReports` and `EachCountedOnce`, from `ReportInv`.  It says for every test that
  the runs so far are those of its subtests (`Made`), that a file written by a run
  has what that run found (`Held`), that a file is there after a run wrote it unless
  a snippet removed it (`Backed`), that without links it is the one of the latest run
  that wrote it (`Traced`, `Latest`), and then, of the subtests whose report was read,
  what `ReportAccounted` says (`Accounted`) and that the flags are the violations so far
  (`Counting`).  TLC checked it on the instance of `test_driver` before it was proved.

Only model-checked: termination and the rest of the liveness in `ContractSpec`,
`RunContract` and `EveryTestEnds` (the prover has no reasoning about fairness
here).  Every invariant of the passing runs is proved.  The proofs use no
induction over data: where one is needed, a least element of a set of natural
numbers takes its place.

## 5. Order of work, and what is not modelled

The modules were written in this order, the most important behaviour first:
`JobScheduler`, `Exemptions`, `Checker`, `RuleTable`, the aggregate part of
`Checker`, `KpScan`, `TestDriver` with `Testsuite`, `DocCoverage`.

Not modelled:

* The compiler checks (`compiler.adb`): tables of restrictions, style checks and
  warnings that option processing fills in sequence and that are read once.
  `args.compile` says whether there is any.  A module beside `RuleTable` would
  show that the tables outlive `-R` of the rule (`compiler.adb:1729`).
* Registering sources: hash chains, duplicates, lists of files.  The scheduler
  takes the table as it is then.
* The identity of a diagnostic, which goes by the simple name of the file
  (`diagnostics.adb:127`): a diagnostic belongs to a source in the models.
* The refiners of test output, the performance report, `ada_pygments.py` and
  `conf.py`, `impact-db_kps_package.py`: substitutions of text without state.
* The layout of reports, the LKQL rules (their meaning is given by an engine that
  is not in the repository), project loading (GPR2), the parsing of switches,
  conversions between strings and JSON, rule loading.

What could come next: the exemptions in place of the choice of violations in
`Report`; the flags that `RuleTable` raises in place of `Raise`; the compiler
checks beside `RuleTable`.

## 6. Where code and documentation disagree

Each has a run that TLC finds violated; `PROJECT.json` quotes the lines.

* An exemption pragma whose parameters are all invalid exempts the whole rule.
* A subtest whose gnatcheck is refused shows the report of an earlier subtest of
  the same format, and counts its lines again.
* The KP-VA20-016 scanner has false negatives: an increment in the first
  instruction or in the delay slot of a branch, and one after a return whose
  delay slot holds a safe access.
* No class is ever reported as undocumented: the mark on `LkqlNode` is inherited.
* An aggregate run can exit with 0 when a child finds a violation.

Noticed while reading, and part of the models unless said otherwise, but without
a run of their own:

* A job can be given the same files as the job before it, when the last argument
  source is ignored (the comment at `lkql_checker.adb:263` says "a different
  subset").
* An exemption pragma with parameters for a name that is no rule raises an
  exception instead of a warning; the rest of the source is not scanned, and the
  open sections of the source go on into the next (`diagnostics-exemptions.ads:66`).
* gprbuild can crash on a source that is ignored; it is then counted both as
  ignored and as unverified, and the assertion on the summary
  (`diagnostics-report.adb:853`) fails.
* `+R` without a parameter for a rule whose integer or string parameter has a
  default (`+RMaximum_Parameters`) leaves the rule off, and says nothing.
* Comment and pragma sections of one rule can intersect without a warning,
  because the comments of a source are read after all its pragmas.
* A section of an instance that holds violations is reported to have none when
  a section of the rule holds them too.
* `--check-semantic` is to "report any legality error" (`using_gnatcheck.rst:272`), but a
  source that only gprbuild rejects can leave an exit code of 0 or 1 and count as
  checked: a line of gprbuild's output that the driver cannot parse drops the
  rest of it, and gprbuild's own exit code is not used
  (`compiler.adb:881-889`, `lkql_checker.adb:355-360`).
* Exit code 1 does not need a rule violation: a compiler error is enough.
* With `-j 1` a worker and gprbuild run at the same time (`options.ads:594`:
  "the maximal number of processes").
* A duplicate on the command line that is said to be skipped is not: `--rule`
  replaces the instance by a general one, and an instance of a rule with custom
  parameters that had none takes those of the duplicate.
* The manual says that a second `+R` of a rule is an error; on the command line
  it is a warning when the instance has no parameters.
* A rule file named by `-from` in the middle of a rule file has to be found from
  the current directory; at the end of the file, or on the command line, it is
  looked up from the project.
* `-R` with a parameter turns the instance off although it reports an error,
  and parameters after a wrong one are processed for a freed instance.
* `--list-rules` exits with 3, which the manual gives to a missing source.
* What the flag checking counts depends on the format.  `brief` and `short`:
  violations, warnings and compiler errors, twice in `short` when the run is not
  quiet; `full`: violations and warnings; `xml`: violations, and with `-s` also
  warnings and exempted ones; `sarif`: violations and exempted ones.
* A directory at the path of the report ends a test with an exception
  (`testsuite/drivers/gnatcheck_driver.py:688`, `:779`).
* With more than one thread, snippets print into each other's output and change
  each other's directory (`testsuite/drivers/gnatcheck_driver.py:451-464`); a
  snippet that raises leaves the process in the directory of its test.
* `set_line_endings` with `"\r\n"` on a file that has them doubles the `"\r"`.
* In `--perf-mode` the flags are checked against no counts at all.
* `testsuite.py` describes tests that run in both modes; the selection is by
  directory alone.
* In the manual extension, marks made while pages are read in parallel are lost
  with the processes that read them, an incremental build does not run the
  directives of unchanged pages, and with `-W` the first warning raises and is
  only traced (the first and the last are not modelled).
* After a return whose delay slot is a safe access, the scanner reports the next
  access although the return has undone the increment.
* The checker of an aggregated project: a report without an extension in a
  directory with a dot gets a wrong name, a run with SARIF only asks the children
  for an XML report named `_1`, `_2` and so on, and equality of `Project_Record` compares one
  operand with itself (`projects-aggregate.adb:46-56`; none is modelled).
* The SARIF file that a `--debug` run leaves is merged for a child that fails
  before it writes its own.
