---------------------------- MODULE JobScheduler ----------------------------
(***************************************************************************)
(* The driver's job scheduler: Schedule_Files and Wait_Lkql_Checker of     *)
(* lkql_checker.adb.  The driver splits the argument sources into file     *)
(* lists, starts one LKQL worker process per list and at most one gprbuild *)
(* process, and folds the output of each process it reaps into the         *)
(* diagnostic collector.  The children run concurrently with the driver    *)
(* and exit in any order.                                                  *)
(*                                                                         *)
(* A source is its SF_Id.  What a run is called with is chosen in Init and *)
(* never changes: the record args.                                         *)
(***************************************************************************)
EXTENDS Integers, FiniteSets

CONSTANTS
  MaxSources,     \* bound on the number of argument sources of a run
  MaxJobs,        \* bound on -j
  MinimumFiles,   \* Minimum_Files: 10 in the code
  MaxIllegal      \* bound on the sources the workers reject, on those gprbuild's
                  \* compiler rejects, and on those whose scan for exemptions
                  \* raises an exception

ASSUME SchedulerAssumption ==
  /\ MaxSources \in Nat \ {0}
  /\ MaxJobs \in Nat \ {0}
  /\ MinimumFiles \in Nat \ {0}
  /\ MaxIllegal \in Nat

VARIABLES
  args,            \* what the run is called with
  pc,              \* where the driver is in Schedule_Files
  filesPerJob,     \* Files_Per_Job
  processNum,      \* Process_Num
  numJobs,         \* Num_Jobs
  totalJobs,       \* Total_Jobs
  current,         \* Current: children reaped so far
  job,             \* the last job spawned
  nextSF,          \* Next_SF
  list,            \* list[j]: the sources written to the files list of job j
  worker,          \* worker[j]: Handles (j) and the state of its process
  gprbuild,        \* GPRbuild_Handle and the state of its process
  status,          \* Source_Status
  diags,           \* the errors about sources in the collector
  analysed,        \* sources whose results were loaded from a worker
  toolFailures,    \* Tool_Failures
  internalErrors,  \* Detected_Internal_Error
  temps            \* jobs whose temp files are on disk; 0 is the rules file

plan  == <<filesPerJob, processNum, numJobs>>
loop  == <<job, nextSF, list>>
found == <<status, diags, analysed, internalErrors>>
vars  == <<args, pc, plan, totalJobs, current, loop, worker, gprbuild, found,
           toolFailures, temps>>

-----------------------------------------------------------------------------
Sources == 1..MaxSources

Args == [last    : Sources,          \* Last_Argument_Source
         ignored : SUBSET Sources,   \* Source_Info = Ignore_Unit
         illegal : SUBSET Sources,   \* rejected by the front end of the workers
         uncompilable : SUBSET Sources,
                                     \* rejected by the compiler that gprbuild runs
         jobs    : 1..MaxJobs,       \* -j
         compile : BOOLEAN,          \* Analyze_Compiler_Output
         debug   : BOOLEAN,          \* --debug
         badWait : BOOLEAN]          \* can Wait_For_Processes fail while children
                                     \* are active?

Pcs == {"start", "spawn", "wait", "gprbuild", "drain", "done", "aborted"}

\* A handle is Invalid_Handle, or names a running process, or one that has
\* exited and left a complete SARIF report, a report that also notes a failure
\* which is about no Ada source, or no report that can be loaded.
Exited  == {"sarif", "failure", "broken"}
Handles == {"invalid", "running"} \cup Exited

Statuses == {"waiting", "processed", "not_a_legal_source", "error_detected"}

\* A stored diagnostic: a Compiler_Error of a worker or of gprbuild about a
\* source, or the Internal_Error of a compiler bug box or of a failed scan.
Diagnostics == {"worker", "gprbuild", "bug_box", "scan"} \X Sources

ArgSources == 1..args.last
ToProcess  == ArgSources \ args.ignored

Active(j)     == worker[j] # "invalid"
ActiveWorkers == {j \in 1..numJobs : Active(j)}
GprbuildActive == gprbuild # "invalid"
Live == Cardinality(ActiveWorkers) + (IF GprbuildActive THEN 1 ELSE 0)

CeilDiv(n, d) == (n + d - 1) \div d

\* Mutant: every other status is reset.
SetStatusResets(S, s) == [sf \in Sources |-> IF sf \in S THEN s ELSE "processed"]

\* The statuses after Set_Source_Status (sf, s) for every sf in S.
SetStatus(S, s) == [sf \in Sources |-> IF sf \in S THEN s ELSE status[sf]]

-----------------------------------------------------------------------------
\* Before Schedule_Files is called.
Idle ==
  /\ args \in Args
  /\ Cardinality(args.illegal) <= MaxIllegal
  /\ Cardinality(args.uncompilable) <= MaxIllegal
  /\ args.ignored \cup args.illegal \cup args.uncompilable \subseteq ArgSources
  /\ ~args.compile => args.uncompilable = {}
  /\ pc = "start"
  /\ filesPerJob = 0 /\ processNum = args.jobs /\ numJobs = 0
  /\ totalJobs = 0 /\ current = 0
  /\ job = 0 /\ nextSF = 1 /\ list = [j \in 1..0 |-> {}]
  /\ worker = [j \in 1..0 |-> "invalid"] /\ gprbuild = "invalid"
  /\ status = [sf \in Sources |-> "waiting"]
  /\ diags = {} /\ analysed = {}
  /\ toolFailures = 0 /\ internalErrors = 0
  /\ temps = {}

\* Check_Parameters stops the run before it comes here when every source is
\* ignored.
Init == Idle /\ ToProcess # {}

\* Mutant: the halved list size is rounded down.
JobPlanRoundedDown(n, p) ==
  LET perProcess == CeilDiv(n, p)
  IN IF perProcess >= 2 * MinimumFiles
     THEN [files |-> perProcess \div 2, procs |-> p, jobs |-> 2 * p]
     ELSE [files |-> MinimumFiles,
           procs |-> CeilDiv(n, MinimumFiles),
           jobs  |-> CeilDiv(n, MinimumFiles)]

\* Files_Per_Job, Process_Num and Num_Jobs for n files and p processes.
JobPlan(n, p) ==
  LET perProcess == CeilDiv(n, p)
  IN IF perProcess >= 2 * MinimumFiles
     THEN [files |-> (perProcess + 1) \div 2, procs |-> p, jobs |-> 2 * p]
     ELSE IF perProcess < MinimumFiles
     THEN [files |-> MinimumFiles,
           procs |-> CeilDiv(n, MinimumFiles),
           jobs  |-> CeilDiv(n, MinimumFiles)]
     ELSE [files |-> perProcess, procs |-> p, jobs |-> p]

\* Mutants: gprbuild is not counted; the early exit leaves Total_Jobs alone.
PlannedTotalWorkers(jobs) == jobs
ExitTotalUnadjusted(j) == totalJobs

\* Total_Jobs as planned, and when the spawning loop stops after job j.
PlannedTotal(jobs) == jobs + (IF args.compile THEN 1 ELSE 0)
ExitTotal(j) == totalJobs - numJobs + j

\* Plan the jobs, write the rules file, and let Process_Sources scan every
\* source that is not ignored for exemptions, which marks it Processed.  In debug
\* mode the exception of a scan becomes an Internal_Error about the source;
\* otherwise it leaves no trace.
Start ==
  /\ pc = "start"
  /\ LET p == JobPlan(Cardinality(ToProcess), args.jobs)
     IN /\ filesPerJob' = p.files
        /\ processNum' = p.procs
        /\ numJobs' = p.jobs
        /\ totalJobs' = PlannedTotal(p.jobs)
        /\ list' = [j \in 1..p.jobs |-> {}]
        /\ worker' = [j \in 1..p.jobs |-> "invalid"]
  /\ \E raised \in SUBSET (IF args.debug THEN ToProcess ELSE {}) :
       /\ Cardinality(raised) <= MaxIllegal
       /\ status' = [sf \in Sources |-> IF sf \in raised THEN "error_detected"
                                       ELSE SetStatus(ToProcess, "processed")[sf]]
       /\ diags' = {<<"scan", sf>> : sf \in raised}
       /\ toolFailures' = toolFailures + Cardinality(raised)
  /\ temps' = {0}
  /\ pc' = "spawn"
  /\ UNCHANGED <<args, current, job, nextSF, gprbuild, analysed, internalErrors>>

\* The inner loop over Next_SF .. Last_Argument_Source.  It stops early at the
\* first source it writes that fills the list or is the last argument; only
\* then does Next_SF move.
Remaining  == {sf \in ToProcess : sf >= nextSF}
Position(sf) == Cardinality({s \in Remaining : s <= sf})
Stops == {sf \in Remaining : Position(sf) = filesPerJob \/ sf = args.last}

\* Mutants: the source that ends a list also begins the next one; a source is
\* skipped.
AfterStopAgain(stop) == stop
AfterStopSkips(stop) == stop + 2

\* Next_SF after a list that ends with this source.
AfterStop(stop) == stop + 1

\* Write the files list of the next job.
WriteList ==
  /\ job' = job + 1
  /\ \/ /\ Stops = {}
        /\ list' = [list EXCEPT ![job + 1] = Remaining]
        /\ UNCHANGED nextSF
     \/ \E stop \in Stops :
          /\ \A other \in Stops : stop <= other
          /\ list' = [list EXCEPT ![job + 1] = {sf \in Remaining : sf <= stop}]
          /\ nextSF' = AfterStop(stop)
  /\ status' = SetStatus(list'[job + 1], "processed")
  /\ temps' = temps \cup {job + 1}

\* Mutant: a wait comes one worker too late.
MustWaitLate(j) == j > processNum

\* Where the spawning loop goes after job j when no wait is due.
AfterJob(j) == IF j = numJobs THEN "gprbuild" ELSE "spawn"

\* Is a wait due once job j is spawned?
MustWait(j) == j >= processNum

\* One iteration of the spawning loop, up to its call of Wait_Lkql_Checker.
SpawnWorker ==
  /\ pc = "spawn"
  /\ WriteList
  /\ worker' = [worker EXCEPT ![job + 1] = "running"]
  /\ IF nextSF' > args.last
     THEN totalJobs' = ExitTotal(job') /\ pc' = "gprbuild"
     ELSE /\ UNCHANGED totalJobs
          /\ pc' = IF MustWait(job') THEN "wait" ELSE AfterJob(job')
  /\ UNCHANGED <<args, plan, current, gprbuild, diags, analysed,
                 toolFailures, internalErrors>>

\* Spawn_GPRbuild, once every worker is started.
SpawnGprbuild ==
  /\ pc = "gprbuild"
  /\ gprbuild' = IF args.compile THEN "running" ELSE "invalid"
  /\ pc' = "drain"
  /\ UNCHANGED <<args, plan, totalJobs, current, loop, worker, found,
                 toolFailures, temps>>

\* The executable of a child cannot be located or started: an exception ends
\* the run with E_Error and leaves the active children behind.
SpawnFails ==
  /\ \/ pc = "spawn" /\ WriteList
     \/ /\ pc = "gprbuild" /\ args.compile
        /\ UNCHANGED <<loop, status, temps>>
  /\ pc' = "aborted"
  /\ UNCHANGED <<args, plan, totalJobs, current, worker, gprbuild, diags,
                 analysed, toolFailures, internalErrors>>

-----------------------------------------------------------------------------
\* The children, which run by themselves.
WorkerExits(j) ==
  /\ worker[j] = "running"
  /\ \E out \in Exited : worker' = [worker EXCEPT ![j] = out]
  /\ UNCHANGED <<args, pc, plan, totalJobs, current, loop, gprbuild, found,
                 toolFailures, temps>>

GprbuildExits ==
  /\ gprbuild = "running"
  /\ gprbuild' = "exited"
  /\ UNCHANGED <<args, pc, plan, totalJobs, current, loop, worker, found,
                 toolFailures, temps>>

-----------------------------------------------------------------------------
\* Mutants: the last child is not waited for; no temp file is deleted.
DrainedEarly == current >= totalJobs - 1
DeleteNothing(S) == temps

\* The waiting loop of Schedule_Files ends when this holds.
Drained == current = totalJobs

\* The temporary files that are left when those of S are deleted.
Delete(S) == IF args.debug THEN temps ELSE temps \ S

\* The driver is in Wait_Lkql_Checker: after a spawn, or while children remain.
\* (When it has reaped gprbuild and other children remain, Wait_Lkql_Checker
\* waits again itself, which is the same as being called again.)
Waiting ==
  \/ pc = "wait"
  \/ pc = "drain" /\ ~Drained

AfterWait == IF pc = "wait" THEN AfterJob(job) ELSE "drain"

\* The sources of S whose error of this kind Store_Diagnostic has yet to see:
\* only a diagnostic that is not in the collector changes a status.
New(kind, S) == {sf \in S : <<kind, sf>> \notin diags}

\* Parse_SARIF_Worker_Output on a report that loads: an error about a source
\* the front end rejects becomes a diagnostic; one that is about no Ada source
\* counts an internal error, and a hint of it may name the source the rule
\* failed on, which Set_Source_Status counts as a tool failure.
LoadReport(j) ==
  LET new == New("worker", list[j] \cap args.illegal)
      legal == SetStatus(new, "not_a_legal_source")
  IN /\ diags' = diags \cup {<<"worker", sf>> : sf \in new}
     /\ temps' = Delete({j})
     /\ \/ /\ worker[j] = "sarif"
           /\ status' = legal
           /\ analysed' = analysed \cup list[j]
           /\ UNCHANGED <<toolFailures, internalErrors>>
        \/ /\ worker[j] = "failure"
           /\ internalErrors' = internalErrors + 1
           /\ UNCHANGED analysed
           /\ \/ status' = legal /\ UNCHANGED toolFailures
              \/ /\ toolFailures' = toolFailures + 1
                 /\ \E sf \in list[j] \ args.illegal :
                      status' = [legal EXCEPT ![sf] = "error_detected"]

\* Wait_Lkql_Checker reaps worker j; its temp files stay when its report does
\* not load, and in debug mode.
ReapWorker(j) ==
  /\ Waiting
  /\ worker[j] \in Exited
  /\ worker' = [worker EXCEPT ![j] = "invalid"]
  /\ current' = current + 1
  /\ pc' = AfterWait
  /\ \/ LoadReport(j)
     \/ /\ worker[j] = "broken"
        /\ internalErrors' = internalErrors + 1
        /\ UNCHANGED <<status, diags, analysed, toolFailures, temps>>
  /\ UNCHANGED <<args, plan, totalJobs, loop, gprbuild>>

\* Wait_Lkql_Checker reaps gprbuild and Parse_Gprbuild_Text_Output reads its
\* output.  Which sources its compiler rejects does not depend on what the
\* workers' front end rejects.  For such a source the driver reads an error
\* (used if the source is not ignored), a bug box (used for any argument
\* source), or nothing: an exception on an unexpected line drops the rest of
\* the text, and neither the Errors result nor the exit code of gprbuild is
\* used.  A line about a bad style or warning switch counts an internal error.
ReapGprbuild ==
  /\ Waiting
  /\ gprbuild = "exited"
  /\ gprbuild' = "invalid"
  /\ current' = current + 1
  /\ pc' = AfterWait
  /\ \E rejected \in SUBSET args.uncompilable :
     \E boxed \in SUBSET (args.uncompilable \ rejected) :
       LET errors == New("gprbuild", rejected \ args.ignored)
           boxes  == New("bug_box", boxed)
           marked == SetStatus(errors, "not_a_legal_source")
       IN /\ diags' = diags \cup {<<"gprbuild", sf>> : sf \in errors}
                           \cup {<<"bug_box", sf>> : sf \in boxes}
          /\ status' = [sf \in Sources |-> IF sf \in boxes
                                          THEN "error_detected" ELSE marked[sf]]
          /\ toolFailures' = toolFailures + Cardinality(boxes)
  /\ \E badSwitches \in 0..1 : internalErrors' = internalErrors + badSwitches
  /\ UNCHANGED <<args, plan, totalJobs, loop, worker, analysed, temps>>

\* Wait_For_Processes returns Invalid_Handle.
WaitFails ==
  /\ Waiting
  /\ args.badWait \/ Live = 0
  /\ current' = totalJobs
  /\ toolFailures' = toolFailures + 1
  /\ pc' = AfterWait
  /\ UNCHANGED <<args, plan, totalJobs, loop, worker, gprbuild, found, temps>>

Finish ==
  /\ pc = "drain"
  /\ Drained
  /\ pc' = "done"
  /\ temps' = Delete({0})
  /\ UNCHANGED <<args, plan, totalJobs, current, loop, worker, gprbuild, found,
                 toolFailures>>

\* The driver goes on to the report; children it did not reap may still exit.
Terminated == pc \in {"done", "aborted"} /\ UNCHANGED vars

Driver ==
  \/ Start
  \/ SpawnWorker
  \/ SpawnGprbuild
  \/ SpawnFails
  \/ \E j \in 1..numJobs : ReapWorker(j)
  \/ ReapGprbuild
  \/ WaitFails
  \/ Finish

Next ==
  \/ Driver
  \/ \E j \in 1..numJobs : WorkerExits(j)
  \/ GprbuildExits
  \/ Terminated

\* The driver is a sequential program that never blocks except in
\* Wait_For_Processes; every child analyses a finite list and exits.
Fairness ==
  /\ WF_vars(Driver)
  /\ \A j \in 1..(2 * MaxJobs) : WF_vars(j \in 1..numJobs /\ WorkerExits(j))
  /\ WF_vars(GprbuildExits)

Spec == Init /\ [][Next]_vars /\ Fairness
-----------------------------------------------------------------------------
TypeOK ==
  /\ args \in Args
  /\ pc \in Pcs
  /\ filesPerJob \in Nat /\ processNum \in Nat /\ numJobs \in Nat
  /\ totalJobs \in Int /\ current \in Int
  /\ job \in 0..numJobs
  /\ nextSF \in 1..(MaxSources + 1)
  /\ list \in [1..numJobs -> SUBSET Sources]
  /\ worker \in [1..numJobs -> Handles]
  /\ gprbuild \in {"invalid", "running", "exited"}
  /\ status \in [Sources -> Statuses]
  /\ diags \subseteq Diagnostics
  /\ analysed \subseteq Sources
  /\ toolFailures \in Nat /\ internalErrors \in Nat
  /\ temps \subseteq 0..numJobs

Failed == toolFailures > 0 \/ internalErrors > 0

\* NoSilentLoss: a run that ends without counting a failure has loaded the
\* results of every source it had to process, and has a compiler error for each
\* of them the workers' front end rejects.  (Nothing like it holds for what only
\* gprbuild rejects: its errors may be lost without a count.)  No list is skipped by the move of Next_SF
\* and no report is dropped by the waiting loops.
NoSilentLoss ==
  pc = "done" /\ ~Failed =>
    /\ analysed = ToProcess
    /\ \A sf \in ToProcess \cap args.illegal : <<"worker", sf>> \in diags

\* NoSpuriousWait: Current and Total_Jobs count the children so exactly, the
\* early exit of the spawning loop included, that Wait_Lkql_Checker is never
\* called without one: "error while waiting for a process" appears only when
\* the system's own wait fails.
NoSpuriousWait == ~args.badWait /\ Waiting => Live > 0

\* NoOrphans: when the waits do not fail, a run that ends has reaped every child
\* it started, gprbuild included.
NoOrphans == ~args.badWait /\ pc = "done" => Live = 0

\* WorkersWithinJobs: never more than -j workers at once.
WorkersWithinJobs ==
  ~args.badWait => Cardinality(ActiveWorkers) <= args.jobs

\* ListsDisjoint: two jobs are given different sources; only when the last
\* argument source is ignored, so that Next_SF does not move past it, may a job
\* be given the list of an earlier one again, and then the whole of it.
ListsDisjoint ==
  \A i, j \in 1..job :
    i # j => \/ list[i] \cap list[j] = {}
             \/ list[i] = list[j] /\ args.last \in args.ignored

\* ErrorsUnverified: in the report, a source with a compiler error or a bug box
\* counts as unverified: no later job sets it back to Processed, which only
\* the repeated lists of ListsDisjoint can do.  (The job that takes a source
\* whose scan failed does set it back.)
ErrorsUnverified ==
  pc = "done" /\ args.last \notin args.ignored =>
    \A d \in diags :
      d[1] # "scan" => status[d[2]] \in {"not_a_legal_source", "error_detected"}

\* TempsAccounted: outside debug mode a run that ends leaves no temporary file
\* but those of jobs whose report did not load, each counted as a failure.
TempsAccounted ==
  pc = "done" /\ ~args.debug /\ ~args.badWait =>
    0 \notin temps /\ Cardinality(temps) <= internalErrors

\* How the run ends, seen as AnalysisRun sees it.
verdict ==
  CASE pc = "done"    -> IF Failed THEN "failed" ELSE "trusted"
    [] pc = "aborted" -> "failed"
    [] OTHER          -> "running"

Contract == INSTANCE AnalysisRun WITH Source <- Sources, wanted <- ToProcess

\* ContractSpec: the scheduler implements AnalysisRun.  So a run always ends,
\* whatever order the children exit in and even when waits fail (Current cannot
\* pass Total_Jobs for ever), and its verdict on the sources is never wrong.
ContractSpec == Contract!Spec

=============================================================================
