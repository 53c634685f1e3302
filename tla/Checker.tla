------------------------------- MODULE Checker -------------------------------
(***************************************************************************)
(* A whole run of the driver: Main of lkql_checker.adb, from the rule      *)
(* options to the exit code, around the job scheduler, with the statistics *)
(* of the report.  The checker of an aggregate project spawns a checker    *)
(* for each project instead, one after the other.                          *)
(***************************************************************************)
EXTENDS JobScheduler, Sequences

CONSTANTS
  MaxProblems,    \* bound on the kinds of problems in a run
  MaxViolations,  \* bound on the sources with violations of a kind
  MaxProjects     \* bound on the projects that the argument project aggregates

ASSUME CheckerAssumption ==
  MaxProblems \in Nat /\ MaxViolations \in Nat /\ MaxProjects \in Nat \ {0}

VARIABLES
  setup,       \* what else the run is called with
  phase,       \* where Main is
  task,        \* Nothing_To_Do and No_Detectors_For_KP_Version
  problems,    \* the flags that the exit code looks at
  violations,  \* sources with rule violations in the collector, by kind
  stats,       \* Statistics
  exitCode,    \* Exit_Code, once the process exits
  children,    \* exit codes of the checkers of the aggregated projects
  sarifs,      \* the SARIF file of each aggregated project on disk
  merged       \* the reports whose runs are in Merged_SARIF_Root

aggregateVars == <<children, sarifs, merged>>
mainVars == <<setup, phase, task, problems, violations, stats, exitCode, aggregateVars>>
cvars    == <<vars, mainVars>>

-----------------------------------------------------------------------------
E_Success           == 0
E_Violation         == 1
E_Error             == 2
E_Missing_Source    == 3
E_Missing_Rule_File == 4
E_Missing_Rule      == 5
E_Bad_Rules         == 6
Running             == -1    \* the process has not exited

Setups == [listRules : BOOLEAN,   \* --list-rules
           brief     : BOOLEAN,   \* --brief
           strict    : BOOLEAN,   \* --warnings-as-errors
           sources   : BOOLEAN,   \* is any argument source found?
           rules     : BOOLEAN,   \* Active_Rule_Present
           kpVersion : BOOLEAN,   \* gnatkp with --kp-version
           sarif     : BOOLEAN,   \* --sarif
           projects  : 1..MaxProjects]  \* Num_Of_Aggregated_Projects, 1 for none

In_Aggregate_Project == setup.projects > 1

\* Missing_Rule_File_Detected, Bad_Rule_Detected, Rule_Option_Problem_Detected,
\* Missing_File_Detected, Error_From_Warning.
RuleProblems == {"rule_file", "rule", "rule_option"}
Problems     == RuleProblems \cup {"file", "warning"}

Phases == {"rules", "check", "schedule", "aggregate", "exit", "exited"}
Tasks  == {"check_sources", "nothing_to_do", "no_detectors"}
NoStats == [checked |-> 0, unverified |-> 0, violating |-> 0, exempted |-> 0,
            compliant |-> 0, ignored |-> 0]

\* A file of an earlier run may still be there.
SarifFiles == {"none", "old", "new", "broken"}

\* How the checker of an aggregated project ends: by Exit with its report
\* written; by an exception, or killed, with its report left alone, or broken.
Killed  == 7
Endings == [code : E_Success..E_Bad_Rules, sarif : {"new"}]
             \cup [code : {E_Error, Killed}, sarif : {"untouched", "broken"}]

\* The flags that may be set among those of S: a warning sets one only with
\* --warnings-as-errors.
Raise(S) ==
  \E P \in SUBSET {p \in S : p = "warning" => setup.strict} :
    /\ Cardinality(problems \cup P) <= MaxProblems
    /\ problems' = problems \cup P

CInit ==
  /\ Idle
  /\ setup \in Setups
  /\ phase = "rules" /\ task = "check_sources"
  /\ problems = {}
  /\ violations = [plain |-> {}, exempted |-> {}]
  /\ stats = NoStats
  /\ exitCode = Running
  /\ children = <<>> /\ merged = <<>>
  /\ sarifs \in [1..setup.projects -> {"none", "old"}]

\* Process_Rules and Process_Rule_Options.  The parser of an LKQL rule file is
\* a worker too, whose report may be missing.
ProcessRuleOptions ==
  /\ phase = "rules"
  /\ phase' = "check"
  /\ Raise(RuleProblems \cup {"warning"})
  /\ \E unloaded \in 0..1 : internalErrors' = internalErrors + unloaded
  /\ UNCHANGED <<args, pc, plan, totalJobs, current, loop, worker, gprbuild,
                 status, diags, analysed, toolFailures, temps,
                 setup, task, violations, stats, exitCode, aggregateVars>>

\* Parameter_Error, Fatal_Error or another exception before the sources are
\* scheduled, or before the first child is spawned because there is no checker
\* on the path; when there is no rule to check this is all that can happen.
ExitOnError ==
  /\ phase' = "exited" /\ exitCode' = E_Error
  /\ UNCHANGED <<vars, setup, task, problems, violations, stats, aggregateVars>>

Rejected ==
  /\ phase \in {"rules", "check", "aggregate"} /\ children = <<>>
  /\ ExitOnError

NoRuleToCheck == ~setup.rules /\ ~args.compile

\* Check_Parameters: is there anything to do?  Nothing is asked of the sources and
\* the rules of an aggregate project, only the messages of loading it count.
CheckParameters ==
  /\ phase = "check"
  /\ \/ /\ setup.listRules
        /\ task' = "nothing_to_do" /\ phase' = "exit"
        /\ UNCHANGED problems
     \/ /\ ~setup.listRules
        /\ Raise({"file", "warning"})
        /\ \/ /\ In_Aggregate_Project
              /\ phase' = "aggregate" /\ UNCHANGED task
           \/ /\ ~In_Aggregate_Project /\ ~setup.sources
              /\ task' = "nothing_to_do" /\ phase' = "exit"
           \/ /\ ~In_Aggregate_Project /\ setup.sources
              /\ NoRuleToCheck /\ setup.kpVersion
              /\ task' = "no_detectors" /\ phase' = "exit"
           \/ /\ ~In_Aggregate_Project /\ setup.sources /\ ~NoRuleToCheck
              /\ IF ToProcess = {}
                 THEN task' = "nothing_to_do" /\ phase' = "exit"
                 ELSE phase' = "schedule" /\ UNCHANGED task
  /\ UNCHANGED <<vars, setup, violations, stats, exitCode, aggregateVars>>

\* A step of Schedule_Files.  Reading the output of a child may warn of a file
\* that it did not find, or of an internal issue.
Schedule ==
  /\ phase = "schedule"
  /\ \/ /\ (\E j \in 1..numJobs : ReapWorker(j)) \/ ReapGprbuild
        /\ Raise({"file", "warning"})
     \/ /\ Start \/ SpawnWorker \/ SpawnGprbuild \/ SpawnFails
           \/ WaitFails \/ Finish
        /\ UNCHANGED problems
  /\ UNCHANGED <<setup, phase, task, violations, stats, exitCode, aggregateVars>>

\* An exception leaves Schedule_Files.
ScheduleRaises == phase = "schedule" /\ pc = "aborted" /\ ExitOnError

\* The diagnostics of a kind, each about an argument source.
CompilerErrors == {d \in diags : d[1] \in {"worker", "gprbuild"}}
InternalErrors == {d \in diags : d[1] \in {"bug_box", "scan"}}

\* Mutant: every source that was not found illegal is verified.
UnverifiedIllegal == {sf \in ArgSources : status[sf] = "not_a_legal_source"}

Unverified ==
  {sf \in ArgSources : status[sf] \in {"not_a_legal_source", "error_detected"}}

\* Compute_Statistics, when the violations of the collector are about the
\* sources of v.plain and v.exempted.
Statistics(v) ==
  LET checked   == ArgSources \ Unverified
      violating == checked \cap v.plain
      exempted  == (checked \cap v.exempted) \ violating
      compliant == {sf \in checked \ (violating \cup exempted) :
                      status[sf] = "processed"}
  IN [checked    |-> Cardinality(checked),
      unverified |-> Cardinality(Unverified),
      violating  |-> Cardinality(violating),
      exempted   |-> Cardinality(exempted),
      compliant  |-> Cardinality(compliant),
      ignored    |-> Cardinality(args.ignored)]

\* The sources that violations in the collector can be about: those of the
\* reports loaded, and with gprbuild's output, in which compiler-based rules
\* report, all that are not ignored.  (At the end gprbuild has no handle when it
\* was reaped.)
Reportable ==
  analysed \cup (IF args.compile /\ ~GprbuildActive THEN ToProcess ELSE {})

\* Generate_Qualification_Report: the violations in the collector are counted.
Report ==
  /\ phase = "schedule" /\ pc = "done"
  /\ phase' = "exit"
  /\ \E v \in [plain : SUBSET Reportable, exempted : SUBSET Reportable] :
       /\ Cardinality(v.plain) <= MaxViolations
       /\ Cardinality(v.exempted) <= MaxViolations
       /\ violations' = v
       /\ stats' = Statistics(v)
  /\ internalErrors' = internalErrors + Cardinality(InternalErrors)
  /\ UNCHANGED <<args, pc, plan, totalJobs, current, loop, worker, gprbuild,
                 status, diags, analysed, toolFailures, temps,
                 setup, task, problems, exitCode, aggregateVars>>

\* Load_SARIF_Root: a missing or invalid file counts as an internal error.
\* Mutant: only an invalid file does.
Loads(file)         == file \in {"old", "new"}
InvalidErrors(file) == IF file = "broken" THEN 1 ELSE 0
LoadErrors(file)    == IF Loads(file) THEN 0 ELSE 1

\* The iteration of Process_Aggregated_Projects for project k: spawn its checker
\* and wait for it, then load, merge and delete its SARIF report.
ProcessAggregatedProject ==
  LET k == Len(children) + 1 IN
  /\ phase = "aggregate"
  /\ phase' = IF k = setup.projects THEN "exit" ELSE "aggregate"
  /\ \E child \in Endings :
       LET file == IF child.sarif = "untouched" THEN sarifs[k] ELSE child.sarif IN
       /\ children' = Append(children, child.code)
       /\ IF setup.sarif
          THEN /\ merged' = merged \o (IF Loads(file) THEN <<file>> ELSE <<>>)
               /\ internalErrors' = internalErrors + LoadErrors(file)
               /\ sarifs' = [sarifs EXCEPT ![k] = IF args.debug THEN file ELSE "none"]
          ELSE UNCHANGED <<merged, internalErrors, sarifs>>
  /\ UNCHANGED <<args, pc, plan, totalJobs, current, loop, worker, gprbuild,
                 status, diags, analysed, toolFailures, temps,
                 setup, task, problems, violations, stats, exitCode>>

\* Mutants: internal errors do not count, no failure does, only rules count.
FailureOfTool    == toolFailures # 0 \/ "warning" \in problems
FailureOfWarning == "warning" \in problems
DirtyRules       == violations.plain # {}

Failure == Failed \/ "warning" \in problems
Dirty   == violations.plain # {} \/ CompilerErrors # {}

ExitCode ==
  CASE task = "no_detectors"                 -> E_Success
    [] task = "nothing_to_do"                -> E_Missing_Source
    [] task = "check_sources" /\ Failure     -> E_Error
    [] task = "check_sources" /\ ~Failure    ->
         IF "rule_file" \in problems        THEN E_Missing_Rule_File
         ELSE IF "rule" \in problems        THEN E_Missing_Rule
         ELSE IF "rule_option" \in problems THEN E_Bad_Rules
         ELSE IF "file" \in problems        THEN E_Missing_Source
         ELSE IF Dirty /\ ~setup.brief      THEN E_Violation
         ELSE E_Success

Exit ==
  /\ phase = "exit"
  /\ phase' = "exited"
  /\ exitCode' = ExitCode
  /\ UNCHANGED <<vars, setup, task, problems, violations, stats, aggregateVars>>

Main ==
  \/ ProcessRuleOptions \/ Rejected
  \/ CheckParameters
  \/ Schedule \/ ScheduleRaises \/ ProcessAggregatedProject
  \/ Report \/ Exit

Children ==
  /\ (\E j \in 1..numJobs : WorkerExits(j)) \/ GprbuildExits
  /\ UNCHANGED mainVars

Over == phase = "exited" /\ UNCHANGED cvars

CNext == Main \/ Children \/ Over

\* As in JobScheduler: the driver goes on unless it waits, and children exit.
CFairness ==
  /\ WF_cvars(Main)
  /\ \A j \in 1..(2 * MaxJobs) :
       WF_cvars(j \in 1..numJobs /\ WorkerExits(j) /\ UNCHANGED mainVars)
  /\ WF_cvars(GprbuildExits /\ UNCHANGED mainVars)

CSpec == CInit /\ [][CNext]_cvars /\ CFairness

-----------------------------------------------------------------------------
CTypeOK ==
  /\ TypeOK
  /\ setup \in Setups /\ phase \in Phases /\ task \in Tasks
  /\ problems \subseteq Problems
  /\ violations \in [plain : SUBSET Sources, exempted : SUBSET Sources]
  /\ stats \in [DOMAIN NoStats -> Nat]
  /\ exitCode \in Running..E_Bad_Rules
  /\ children \in Seq(E_Success..Killed) /\ Len(children) <= setup.projects
  /\ sarifs \in [1..setup.projects -> SarifFiles]
  /\ merged \in Seq({"old", "new"})

Checked == phase = "exited" /\ task = "check_sources" /\ ~In_Aggregate_Project

\* CleanExit: 0 without --brief means that all the rules and files the user named
\* were found, no source he did not ignore is rejected by the front end of the
\* workers, and the driver read no error of gprbuild and no violation that is
\* not exempted.  It does not mean that gprbuild's compiler accepts the sources,
\* --check-semantic or not: an error in the part of its output that an
\* exception drops leaves no trace in the exit code.
CleanExit ==
  Checked /\ exitCode = E_Success /\ ~setup.brief =>
    /\ problems = {}
    /\ ToProcess \cap args.illegal = {}
    /\ CompilerErrors = {}
    /\ violations.plain = {}

\* The sources that the user is told are not legal: those that the workers'
\* front end rejects, and those gprbuild rejects with an error the driver read.
KnownIllegal == args.illegal \cup {sf \in Sources : <<"gprbuild", sf>> \in diags}

\* TrustedStatuses: with an exit code of 0 or 1 the statuses that the statistics
\* are made of are those the scan, the lists of the jobs, the workers' reports
\* and gprbuild's output should leave behind in any order: the sources known
\* to be illegal, and only they, are marked so, and the others count as
\* processed, also one that only gprbuild rejects and whose error is lost.
TrustedStatuses ==
  Checked /\ exitCode \in {E_Success, E_Violation} /\ args.last \notin args.ignored =>
    \A sf \in ToProcess :
      status[sf] = IF sf \in KnownIllegal THEN "not_a_legal_source" ELSE "processed"

\* InternalErrorsExit: what gnatcheck or gprbuild failed on is never reported
\* with another exit code than 2, whichever process found it.
InternalErrorsExit == Checked /\ InternalErrors # {} => exitCode = E_Error

\* ClassesAddUp: unless gprbuild crashes on an ignored source, the classes of
\* the report's summary make up the checked sources, whatever the statuses
\* went through.
ClassesAddUp ==
  phase = "exit" /\ task = "check_sources"
    /\ (\A d \in diags : d[2] \notin args.ignored) =>
      stats.checked =
        stats.compliant + stats.violating + stats.exempted + stats.ignored

\* ProjectsMerged: when the checker of an aggregate project exits with another
\* code than 2, its SARIF report has a run of every project, the file of an
\* earlier run standing in only for a child that failed, and without --debug no
\* file of a project is left for the next run to pick up.
ProjectsMerged ==
  phase = "exited" /\ children # <<>> /\ setup.sarif /\ exitCode # E_Error =>
    /\ Len(merged) = setup.projects
    /\ \A k \in 1..setup.projects :
         /\ merged[k] = "old" => children[k] \in {E_Error, Killed}
         /\ ~args.debug => sarifs[k] = "none"

\* How the run ends, seen as AnalysisRun sees it.
outcome ==
  IF phase # "exited" THEN "running"
  ELSE IF Checked /\ exitCode \in {E_Success, E_Violation} THEN "trusted"
  ELSE "failed"

Promise == INSTANCE AnalysisRun
  WITH Source <- Sources, wanted <- ToProcess, verdict <- outcome

\* RunContract: the whole run implements AnalysisRun.  It always exits, and exits
\* with 0 or 1 after checking sources only when it has the results of each.
RunContract == Promise!Spec

-----------------------------------------------------------------------------
\* What the manual says of exit code 0 (using_gnatcheck.rst:901), for an aggregate
\* project: no tool failure, missing source or violation in any project.
AggregateExit ==
  phase = "exited" /\ children # <<>> /\ exitCode = E_Success /\ ~setup.brief =>
    \A k \in DOMAIN children : children[k] = E_Success
=============================================================================
