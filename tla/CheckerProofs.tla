---------------------------- MODULE CheckerProofs ----------------------------
(***************************************************************************)
(* Proofs about Checker, for any number of sources, jobs and projects:     *)
(* what the exit code of a whole run says of its sources, and what is in   *)
(* the merged report of an aggregate project.  They carry the invariants   *)
(* of the scheduler through Main, whose other phases only count errors.    *)
(***************************************************************************)
EXTENDS Checker, ListProofs

USE CheckerAssumption

-----------------------------------------------------------------------------
(* The statuses of a run without failure *)

\* Only what is known to be rejected is marked, and nothing is left out.
StatusInv ==
  /\ pc = "start" => diags = {}
  /\ Failed \/ \A sf \in Sources :
       /\ status[sf] # "error_detected"
       /\ status[sf] = "not_a_legal_source" => sf \in KnownIllegal
       /\ pc # "start" /\ sf \in ToProcess => status[sf] # "waiting"

\* An error that was read stays in the collector.
LEMMA KnownGrows ==
  ASSUME TypeInv, pc = "start" => diags = {}, [Next]_vars
  PROVE  KnownIllegal \subseteq KnownIllegal'
<1>1. args' = args
  BY ArgsFixed DEF TypeInv
<1>2. diags \subseteq diags'
  BY DEF Next, Driver, Start, SpawnWorker, SpawnGprbuild, SpawnFails, WorkerExits,
     GprbuildExits, ReapWorker, LoadReport, ReapGprbuild, WaitFails, Finish, Terminated,
     vars, found
<1> QED BY <1>1, <1>2 DEF KnownIllegal

LEMMA StartStatus ==
  ASSUME TypeInv, StatusInv, Start
  PROVE  StatusInv'
<1>1. PICK raised \in SUBSET (IF args.debug THEN ToProcess ELSE {}) :
        /\ status' = [sf \in Sources |-> IF sf \in raised THEN "error_detected"
                                       ELSE SetStatus(ToProcess, "processed")[sf]]
        /\ toolFailures' = toolFailures + Cardinality(raised)
  BY DEF Start
<1>2. /\ args' = args /\ ToProcess' = ToProcess /\ toolFailures \in Nat
      /\ internalErrors' = internalErrors /\ args \in Args
  BY DEF Start, ToProcess, ArgSources, TypeInv, TypeOK
<1>3. Cardinality(raised) \in Nat /\ (Cardinality(raised) = 0 => raised = {})
  <2>1. IsFiniteSet(raised)
    BY <1>2, ToProcessFinite, FS_Subset
  <2> QED BY <2>1, FS_CardinalityType, FS_EmptySet
<1>0. pc' # "start" /\ diags = {} /\ KnownIllegal \subseteq KnownIllegal'
  BY <1>2 DEF Start, StatusInv, KnownIllegal
<1>4. CASE raised # {} \/ Failed
  BY <1>0, <1>1, <1>2, <1>3, <1>4 DEF StatusInv, Failed
<1>5. CASE raised = {} /\ ~Failed
  <2>1. \A sf \in Sources :
          status'[sf] = IF sf \in ToProcess THEN "processed" ELSE status[sf]
    BY <1>1, <1>5 DEF SetStatus
  <2> QED BY <1>0, <1>2, <1>5, <2>1 DEF StatusInv
<1> QED BY <1>4, <1>5

LEMMA NextStatus == ReportInv /\ StatusInv /\ [Next]_vars => StatusInv'
<1> SUFFICES ASSUME ReportInv, StatusInv, [Next]_vars PROVE StatusInv'
  OBVIOUS
<1>1. TypeInv /\ TypeOK /\ args' = args /\ ToProcess' = ToProcess
  BY ArgsFixed DEF ReportInv, AccountInv, TypeInv, ToProcess, ArgSources
<1>2. CASE pc = "start" /\ Start
  BY <1>1, <1>2, StartStatus
<1>0. KnownIllegal \subseteq KnownIllegal' /\ (pc # "start" => pc' # "start")
  <2>1. pc # "start" => pc' # "start"
    BY DEF Next, Driver, Start, SpawnWorker, SpawnGprbuild, SpawnFails, WorkerExits,
       GprbuildExits, ReapWorker, ReapGprbuild, WaitFails, Finish, Terminated, AfterWait,
       AfterJob, vars
  <2> QED BY <1>1, <2>1, KnownGrows DEF StatusInv
<1>3. CASE pc # "start" /\ Failed
  BY <1>0, <1>1, <1>3, FailedGrows DEF StatusInv
<1>4. ASSUME ~Failed, pc # "start", NEW S, S \subseteq KnownIllegal',
             \A sf \in Sources : \/ status'[sf] = status[sf]
                                 \/ status'[sf] = "processed"
                                 \/ status'[sf] = "not_a_legal_source" /\ sf \in S
      PROVE  StatusInv'
  BY <1>0, <1>1, <1>4 DEF StatusInv
<1>5. CASE pc # "start" /\ ~Failed /\ (SpawnWorker \/ SpawnFails)
  <2>1. status' = status \/ \E S : status' = SetStatus(S, "processed")
    BY <1>5 DEF SpawnWorker, SpawnFails, WriteList
  <2>2. \A sf \in Sources : status'[sf] = status[sf] \/ status'[sf] = "processed"
    BY <2>1 DEF SetStatus
  <2> QED BY <1>4, <1>5, <2>2
<1>6. CASE pc # "start" /\ ~Failed /\ \E j \in 1..numJobs : ReapWorker(j)
  <2>1. PICK j \in 1..numJobs : ReapWorker(j)
    BY <1>6
  <2> DEFINE new == New("worker", list[j] \cap args.illegal)
  <2>2. \/ status' = status
        \/ status' = SetStatus(new, "not_a_legal_source")
        \/ internalErrors' = internalErrors + 1
    BY <2>1 DEF ReapWorker, LoadReport
  <2>3. internalErrors' = internalErrors + 1 => Failed'
    BY <1>1 DEF Failed, TypeOK
  <2>4. new \subseteq KnownIllegal'
    BY <1>1 DEF New, KnownIllegal
  <2> HIDE DEF new
  <2>5. CASE status' = status \/ status' = SetStatus(new, "not_a_legal_source")
    <3>1. \A sf \in Sources : \/ status'[sf] = status[sf]
                              \/ status'[sf] = "not_a_legal_source" /\ sf \in new
      BY <2>5 DEF SetStatus
    <3> QED BY <1>4, <1>6, <2>4, <3>1
  <2> QED BY <1>0, <1>6, <2>2, <2>3, <2>5 DEF StatusInv
<1>7. CASE pc # "start" /\ ~Failed /\ ReapGprbuild
  <2>1. PICK rejected \in SUBSET args.uncompilable, boxed \in SUBSET args.uncompilable :
          LET errors == New("gprbuild", rejected \ args.ignored)
              boxes  == New("bug_box", boxed)
              marked == SetStatus(errors, "not_a_legal_source")
          IN /\ diags' = diags \cup {<<"gprbuild", sf>> : sf \in errors}
                               \cup {<<"bug_box", sf>> : sf \in boxes}
             /\ status' = [sf \in Sources |-> IF sf \in boxes
                                             THEN "error_detected" ELSE marked[sf]]
             /\ toolFailures' = toolFailures + Cardinality(boxes)
    BY <1>7 DEF ReapGprbuild
  <2> DEFINE errors == New("gprbuild", rejected \ args.ignored)
             boxes  == New("bug_box", boxed)
  <2>2. /\ toolFailures' = toolFailures + Cardinality(boxes)
        /\ \A sf \in errors : <<"gprbuild", sf>> \in diags'
        /\ \A sf \in Sources :
             status'[sf] = IF sf \in boxes THEN "error_detected"
                           ELSE IF sf \in errors THEN "not_a_legal_source"
                           ELSE status[sf]
    BY <2>1 DEF SetStatus
  <2>3. errors \subseteq KnownIllegal' /\ boxes \subseteq Sources
    <3>1. errors \subseteq Sources /\ boxes \subseteq Sources
      BY <1>1 DEF New, TypeOK, Args
    <3> QED BY <2>2, <3>1 DEF KnownIllegal
  <2>4. Cardinality(boxes) \in Nat /\ (Cardinality(boxes) = 0 => boxes = {})
    BY <2>3, SourcesFinite, FS_Subset, FS_CardinalityType, FS_EmptySet
  <2> HIDE DEF errors, boxes
  <2>5. CASE boxes = {}
    BY <1>4, <1>7, <2>2, <2>3, <2>5
  <2>6. CASE boxes # {}
    <3>1. toolFailures' > 0
      BY <1>1, <2>2, <2>4, <2>6 DEF TypeOK
    <3> QED BY <1>0, <1>7, <3>1 DEF StatusInv, Failed
  <2> QED BY <2>5, <2>6
<1>8. CASE UNCHANGED found /\ (pc' = "start" <=> pc = "start")
  <2>1. Failed => Failed'
    <3>1. CASE pc # "start"
      BY <1>1, <3>1, FailedGrows
    <3>2. CASE pc = "start"
      BY <1>8, <3>2 DEF Next, Driver, Start, SpawnWorker, SpawnGprbuild, SpawnFails,
         WorkerExits, GprbuildExits, ReapWorker, ReapGprbuild, WaitFails, Finish,
         Waiting, Terminated, vars, found, Failed
    <3> QED BY <3>1, <3>2
  <2> QED BY <1>0, <1>1, <1>8, <2>1 DEF StatusInv, found
<1>9. CASE Start
  BY <1>2, <1>9 DEF Start
<1>10. CASE SpawnWorker \/ SpawnFails \/ (\E j \in 1..numJobs : ReapWorker(j)) \/ ReapGprbuild
  <2>1. pc # "start"
    BY <1>10 DEF SpawnWorker, SpawnFails, ReapWorker, ReapGprbuild, Waiting
  <2> QED BY <1>3, <1>5, <1>6, <1>7, <1>10, <2>1
<1>11. CASE SpawnGprbuild \/ WaitFails \/ Finish
  BY <1>8, <1>11 DEF SpawnGprbuild, WaitFails, Finish, Waiting, AfterWait, AfterJob
<1>12. CASE (\E j \in 1..numJobs : WorkerExits(j)) \/ GprbuildExits \/ UNCHANGED vars
  BY <1>8, <1>12 DEF WorkerExits, GprbuildExits, vars
<1> QED BY <1>9, <1>10, <1>11, <1>12 DEF Next, Driver, Terminated

-----------------------------------------------------------------------------
(* The scheduler in a run *)

\* As long as Schedule_Files may be called its invariants hold; MarkInv says
\* that errors mark their sources.
SchedulerInv == ReportInv /\ MarkInv /\ StatusInv
Scheduled    == ToProcess # {} => SchedulerInv

\* A step that only counts errors.
CountsErrors ==
  /\ UNCHANGED <<args, pc, plan, totalJobs, current, loop, worker, gprbuild,
                 status, diags, analysed, toolFailures, temps>>
  /\ \/ internalErrors' = internalErrors
     \/ \E n \in Nat : internalErrors' = internalErrors + n

LEMMA CountingScheduler == SchedulerInv /\ CountsErrors => SchedulerInv'
<1> SUFFICES ASSUME SchedulerInv, CountsErrors PROVE SchedulerInv'
  OBVIOUS
<1>1. internalErrors' = internalErrors \/ \E n \in Nat : internalErrors' = internalErrors + n
  BY DEF CountsErrors
<1>2. TypeOK /\ internalErrors \in Nat /\ internalErrors' \in Nat /\ (Failed => Failed')
  BY <1>1 DEF SchedulerInv, ReportInv, AccountInv, TypeInv, TypeOK, Failed, CountsErrors
<1>3. TypeInv'
  BY <1>2 DEF SchedulerInv, ReportInv, AccountInv, TypeInv, TypeOK, PcOK, CountsErrors,
     plan, loop, ToProcess, ArgSources
<1>4. AccountInv'
  BY <1>3 DEF SchedulerInv, ReportInv, AccountInv, Accounts, Limit, CountsErrors, plan,
     loop, WaitsOK, Compiled, ActiveWorkers, Active, Live, GprbuildActive
<1>5. SplitInv'
  BY <1>3 DEF SchedulerInv, ReportInv, SplitInv, Splitting, CountsErrors, plan, loop,
     Before, Sent, AllSent, ToProcess, ArgSources
<1>6. Reports'
  BY <1>2 DEF SchedulerInv, ReportInv, Reports, CountsErrors, loop, Active, Loaded,
     ToProcess, ArgSources
<1>7. ListInv'
  BY <1>3, SameLists DEF SchedulerInv, MarkInv, CountsErrors
<1>8. ErrorsSent' /\ ErrorsMarked'
  BY DEF SchedulerInv, MarkInv, ErrorsSent, ErrorsMarked, CountsErrors, loop, Sent
<1>9. StatusInv'
  BY <1>2 DEF SchedulerInv, StatusInv, KnownIllegal, CountsErrors, ToProcess, ArgSources
<1> QED BY <1>4, <1>5, <1>6, <1>7, <1>8, <1>9 DEF SchedulerInv, ReportInv, MarkInv

LEMMA SteppingScheduler == SchedulerInv /\ [Next]_vars => SchedulerInv'
BY NextReport, NextMark, NextStatus DEF SchedulerInv

\* The errors about sources can be counted.
LEMMA ErrorsFinite ==
  ASSUME TypeOK
  PROVE  /\ Cardinality(InternalErrors) \in Nat
         /\ InternalErrors # {} => Cardinality(InternalErrors) > 0
<1>1. IsFiniteSet({"worker", "gprbuild", "bug_box", "scan"})
  <2>1. IsFiniteSet({"worker"}) /\ IsFiniteSet({"gprbuild"})
        /\ IsFiniteSet({"bug_box"}) /\ IsFiniteSet({"scan"})
    BY FS_Singleton
  <2>2. {"worker", "gprbuild", "bug_box", "scan"}
          = (({"worker"} \cup {"gprbuild"}) \cup {"bug_box"}) \cup {"scan"}
    OBVIOUS
  <2>3. IsFiniteSet({"worker"} \cup {"gprbuild"})
    BY <2>1, FS_Union
  <2>4. IsFiniteSet(({"worker"} \cup {"gprbuild"}) \cup {"bug_box"})
    BY <2>1, <2>3, FS_Union
  <2>5. IsFiniteSet((({"worker"} \cup {"gprbuild"}) \cup {"bug_box"}) \cup {"scan"})
    BY <2>1, <2>4, FS_Union
  <2> QED BY <2>2, <2>5
<1>2. IsFiniteSet(Diagnostics)
  BY <1>1, SourcesFinite, FS_Product DEF Diagnostics
<1>3. InternalErrors \subseteq Diagnostics
  BY DEF InternalErrors, TypeOK
<1>4. IsFiniteSet(InternalErrors)
  BY <1>2, <1>3, FS_Subset
<1>5. Cardinality(InternalErrors) \in Nat
      /\ (Cardinality(InternalErrors) = 0 <=> InternalErrors = {})
  BY <1>4, FS_CardinalityType, FS_EmptySet
<1> DEFINE c == Cardinality(InternalErrors)
<1>6. c \in Nat /\ (c = 0 <=> InternalErrors = {})
  BY <1>5
<1> HIDE DEF c
<1>7. c \in Nat /\ (InternalErrors # {} => c > 0)
  BY <1>6
<1> QED BY <1>7 DEF c

\* What a step of the run is for the scheduler.
LEMMA SchedulerSteps ==
  ASSUME [CNext]_cvars, phase = "schedule" => TypeOK
  PROVE  [Next]_vars \/ CountsErrors
<1>1. CASE ProcessRuleOptions
  BY <1>1 DEF ProcessRuleOptions, CountsErrors
<1>2. CASE ProcessAggregatedProject
  <2>1. \A file : LoadErrors(file) \in Nat
    BY DEF LoadErrors
  <2> QED BY <1>2, <2>1 DEF ProcessAggregatedProject, CountsErrors
<1>3. CASE Report
  BY <1>3, ErrorsFinite DEF Report, CountsErrors
<1>4. CASE Schedule
  BY <1>4 DEF Schedule, Next, Driver
<1>5. CASE Children
  BY <1>5 DEF Children, Next
<1>6. CASE UNCHANGED vars
  BY <1>6
<1> QED BY <1>1, <1>2, <1>3, <1>4, <1>5, <1>6
        DEF CNext, Main, Rejected, ScheduleRaises, ExitOnError, CheckParameters, Exit,
            Over, cvars

-----------------------------------------------------------------------------
(* The phases of Main *)

Ordinary == task = "check_sources" /\ ~In_Aggregate_Project

\* What holds once Generate_Qualification_Report has been called.
Reported ==
  /\ pc = "done" /\ ToProcess # {}
  /\ InternalErrors # {} => internalErrors > 0

MainInv ==
  /\ phase \in Phases
  /\ problems \subseteq Problems
  /\ internalErrors \in Nat
  /\ phase \in {"rules", "check", "schedule", "aggregate"} => task = "check_sources"
  /\ phase = "schedule" => ToProcess # {} /\ ~In_Aggregate_Project
  /\ phase = "aggregate" => In_Aggregate_Project
  /\ phase = "exit" /\ Ordinary => Reported
  /\ phase = "exited" => exitCode = E_Error \/ exitCode = ExitCode
  /\ phase = "exited" /\ Ordinary => exitCode = E_Error \/ Reported

RunInv == Scheduled /\ MainInv

LEMMA InitRun == CInit => RunInv
<1> SUFFICES ASSUME CInit PROVE RunInv
  OBVIOUS
<1>1. Idle /\ phase = "rules" /\ problems = {} /\ internalErrors = 0
      /\ task = "check_sources"
  BY DEF CInit, Idle
<1>2. MainInv
  BY <1>1 DEF MainInv, Phases
<1>3. ASSUME ToProcess # {} PROVE SchedulerInv
  <2>1. Init
    BY <1>1, <1>3 DEF Init
  <2>2. StatusInv
    BY <1>1 DEF Idle, StatusInv
  <2> QED BY <2>1, <2>2, InitReport, InitMark DEF SchedulerInv
<1> QED BY <1>2, <1>3 DEF RunInv, Scheduled

LEMMA NextScheduled ==
  ASSUME RunInv, [CNext]_cvars
  PROVE  Scheduled' /\ args' = args /\ ToProcess' = ToProcess
<1>1. phase = "schedule" => TypeOK
  BY DEF RunInv, MainInv, Scheduled, SchedulerInv, ReportInv, AccountInv, TypeInv
<1>2. [Next]_vars \/ CountsErrors
  BY <1>1, SchedulerSteps
<1>3. args' = args /\ ToProcess' = ToProcess
  BY <1>2, ArgsFixed DEF CountsErrors, ToProcess, ArgSources
<1> QED
  BY <1>2, <1>3, CountingScheduler, SteppingScheduler DEF RunInv, Scheduled

\* Children that exit change nothing that Main looks at.
LEMMA ChildrenRun ==
  ASSUME MainInv, Children
  PROVE  MainInv'
<1>1. UNCHANGED <<args, pc, diags, analysed, toolFailures, internalErrors, setup,
                  phase, task, problems, violations, exitCode>>
  BY DEF Children, WorkerExits, GprbuildExits, found, mainVars
<1>2. ExitCode' = ExitCode /\ Reported' = Reported /\ ToProcess' = ToProcess
  BY <1>1 DEF ExitCode, Failure, Failed, Dirty, CompilerErrors, Reported, InternalErrors,
     ToProcess, ArgSources
<1> QED BY <1>1, <1>2 DEF MainInv, Ordinary, In_Aggregate_Project

LEMMA NextMain ==
  ASSUME RunInv, [CNext]_cvars
  PROVE  MainInv'
<1> USE DEF RunInv
<1>0. /\ args' = args /\ ToProcess' = ToProcess
      /\ phase = "schedule" => TypeOK /\ TypeOK'
  BY NextScheduled
  DEF MainInv, Scheduled, SchedulerInv, ReportInv, AccountInv, TypeInv
<1>1. CASE ProcessRuleOptions
  BY <1>1 DEF ProcessRuleOptions, MainInv, Raise, RuleProblems, Problems, Phases, Ordinary
<1>2. ASSUME ExitOnError PROVE MainInv'
  BY <1>2 DEF ExitOnError, MainInv, vars, found, Phases
<1>3. CASE CheckParameters
  BY <1>0, <1>3 DEF CheckParameters, MainInv, Raise, Problems, RuleProblems, Phases,
     Ordinary, In_Aggregate_Project, vars, found
<1>4. CASE Schedule
  <2>1. /\ phase = "schedule" /\ phase' = phase /\ task' = task /\ setup' = setup
        /\ problems' \subseteq Problems /\ internalErrors' \in Nat
    BY <1>0, <1>4 DEF Schedule, MainInv, Raise, Problems, TypeOK
  <2> QED BY <1>0, <2>1 DEF MainInv, In_Aggregate_Project
<1>5. CASE ProcessAggregatedProject
  <2>1. /\ phase = "aggregate" /\ phase' \in {"aggregate", "exit"}
        /\ UNCHANGED <<task, setup, problems>>
        /\ internalErrors' = internalErrors \/ \E file : internalErrors' = internalErrors + LoadErrors(file)
    BY <1>5 DEF ProcessAggregatedProject
  <2>2. internalErrors' \in Nat
    BY <2>1 DEF LoadErrors, MainInv
  <2> QED BY <1>5, <2>1, <2>2 DEF MainInv, Phases, Ordinary, In_Aggregate_Project
<1>6. CASE Report
  <2>1. /\ phase = "schedule" /\ phase' = "exit" /\ pc' = "done" /\ ToProcess' # {}
        /\ UNCHANGED <<diags, task, setup, problems>>
        /\ internalErrors' = internalErrors + Cardinality(InternalErrors)
    BY <1>0, <1>6 DEF Report, MainInv
  <2>2. /\ Cardinality(InternalErrors) \in Nat
        /\ InternalErrors # {} => Cardinality(InternalErrors) > 0
    BY <1>0, <2>1, ErrorsFinite
  <2>3. internalErrors' \in Nat /\ (InternalErrors # {} => internalErrors' > 0)
    BY <2>1, <2>2 DEF MainInv
  <2>4. Reported'
    BY <2>1, <2>3 DEF Reported, InternalErrors
  <2> QED BY <2>1, <2>3, <2>4 DEF MainInv, Phases
<1>7. CASE Exit
  <2>1. /\ phase = "exit" /\ phase' = "exited" /\ exitCode' = ExitCode
        /\ UNCHANGED <<vars, setup, task, problems, violations>>
    BY <1>7 DEF Exit
  <2>2. ExitCode' = ExitCode /\ Reported' = Reported /\ internalErrors' = internalErrors
    BY <1>0, <2>1 DEF vars, found, ExitCode, Failure, Failed, Dirty, CompilerErrors,
       Reported, InternalErrors
  <2> QED BY <1>0, <2>1, <2>2 DEF MainInv, Phases, Ordinary, In_Aggregate_Project
<1>8. CASE Children
  BY <1>8, ChildrenRun
<1>9. CASE UNCHANGED cvars
  <2>1. UNCHANGED <<vars, setup, phase, task, problems, violations, exitCode>>
    BY <1>9 DEF cvars, mainVars
  <2>2. ExitCode' = ExitCode /\ Reported' = Reported /\ internalErrors' = internalErrors
    BY <1>0, <2>1 DEF vars, found, ExitCode, Failure, Failed, Dirty, CompilerErrors,
       Reported, InternalErrors
  <2> QED BY <1>0, <2>1, <2>2 DEF MainInv, Ordinary, In_Aggregate_Project
<1> QED BY <1>1, <1>2, <1>3, <1>4, <1>5, <1>6, <1>7, <1>8, <1>9
        DEF CNext, Main, Rejected, ScheduleRaises, Over

LEMMA RunInvariant == CSpec => []RunInv
<1>1. RunInv /\ [CNext]_cvars => RunInv'
  BY NextScheduled, NextMain DEF RunInv
<1> QED BY InitRun, <1>1, PTL DEF CSpec

\* A run that exits with 0 or 1 after checking sources: no failure is counted,
\* and the results of all the sources are there.
LEMMA TrustedRun ==
  ASSUME RunInv, Checked, exitCode # E_Error
  PROVE  /\ ~Failure /\ exitCode = ExitCode /\ Reported /\ SchedulerInv
         /\ analysed = ToProcess
         /\ \A sf \in ToProcess \cap args.illegal : <<"worker", sf>> \in diags
<1>1. exitCode = ExitCode /\ Reported /\ task = "check_sources"
  BY DEF RunInv, MainInv, Checked, Ordinary
<1>2. ~Failure
  BY <1>1 DEF ExitCode
<1>3. SchedulerInv /\ pc = "done"
  BY <1>1 DEF RunInv, Scheduled, Reported
<1>4. NoSilentLoss /\ ~Failed
  BY <1>2, <1>3, NothingLost DEF SchedulerInv, Failure
<1> QED BY <1>1, <1>2, <1>3, <1>4 DEF NoSilentLoss

\* Exit code 0 of a whole run, without --brief: every rule and file was found, no
\* source that is not ignored is rejected by the workers' front end, and the
\* driver read no error of gprbuild and no violation that is not exempted.
THEOREM CleanExits == CSpec => []CleanExit
<1>1. RunInv => CleanExit
  <2> SUFFICES ASSUME RunInv, Checked, exitCode = E_Success, ~setup.brief
               PROVE  /\ problems = {}
                      /\ ToProcess \cap args.illegal = {}
                      /\ CompilerErrors = {}
                      /\ violations.plain = {}
    BY DEF CleanExit
  <2>1. /\ ~Failure /\ exitCode = ExitCode /\ task = "check_sources"
        /\ \A sf \in ToProcess \cap args.illegal : <<"worker", sf>> \in diags
    BY TrustedRun DEF Checked, E_Success, E_Error
  <2>2. problems \cap RuleProblems = {} /\ "file" \notin problems /\ ~Dirty
    BY <2>1 DEF ExitCode, RuleProblems, E_Success, E_Missing_Rule_File, E_Missing_Rule,
       E_Bad_Rules, E_Missing_Source, E_Violation
  <2>3. problems = {}
    BY <2>1, <2>2 DEF RunInv, MainInv, Problems, RuleProblems, Failure
  <2>4. violations.plain = {} /\ CompilerErrors = {}
    BY <2>2 DEF Dirty
  <2>5. ToProcess \cap args.illegal = {}
    <3>1. ASSUME NEW sf \in ToProcess \cap args.illegal PROVE FALSE
      <4>1. <<"worker", sf>> \in diags
        BY <2>1
      <4>2. <<"worker", sf>> \in CompilerErrors
        BY <4>1 DEF CompilerErrors
      <4> QED BY <2>4, <4>2
    <3> QED BY <3>1
  <2> QED BY <2>3, <2>4, <2>5
<1> QED BY RunInvariant, <1>1, PTL

\* With exit code 0 or 1, and unless the last argument source is ignored, the
\* status of every source says whether the workers' front end rejects it or an
\* error of gprbuild about it was read; when gprbuild rejects it, but its error
\* is lost, the status is that of a legal source.
THEOREM StatusesTrusted == CSpec => []TrustedStatuses
<1>1. RunInv => TrustedStatuses
  <2> SUFFICES ASSUME RunInv, Checked, exitCode \in {E_Success, E_Violation},
                      args.last \notin args.ignored, NEW sf \in ToProcess
               PROVE  status[sf] = IF sf \in KnownIllegal THEN "not_a_legal_source"
                                                          ELSE "processed"
    BY DEF TrustedStatuses
  <2>1. /\ ~Failed /\ SchedulerInv /\ pc = "done"
        /\ sf \in args.illegal => <<"worker", sf>> \in diags
    BY TrustedRun DEF E_Success, E_Error, E_Violation, Failure, Reported
  <2>2. sf \in Sources /\ status[sf] \in Statuses
    BY <2>1, ToProcessFinite
    DEF SchedulerInv, ReportInv, AccountInv, TypeInv, TypeOK, Sources
  <2>3. status[sf] \in {"processed", "not_a_legal_source"}
        /\ (status[sf] = "not_a_legal_source" => sf \in KnownIllegal)
    BY <2>1, <2>2 DEF SchedulerInv, StatusInv, Statuses
  <2>4. sf \in KnownIllegal => status[sf] \in Marks
    BY <2>1 DEF SchedulerInv, MarkInv, ErrorsMarked, KnownIllegal
  <2> QED BY <2>3, <2>4 DEF Marks
<1> QED BY RunInvariant, <1>1, PTL

\* A bug box or an exception about a source ends in exit code 2.
THEOREM InternalErrorsFail == CSpec => []InternalErrorsExit
<1>1. RunInv => InternalErrorsExit
  <2> SUFFICES ASSUME RunInv, Checked, InternalErrors # {}, exitCode # E_Error
               PROVE  FALSE
    BY DEF InternalErrorsExit
  <2>1. ~Failure /\ Reported
    BY TrustedRun
  <2> QED BY <2>1 DEF Reported, Failure, Failed
<1> QED BY RunInvariant, <1>1, PTL

-----------------------------------------------------------------------------
(* The whole run implements the safety part of AnalysisRun. *)

LEMMA InitPromise == CInit => Promise!Init
<1> SUFFICES ASSUME CInit PROVE Promise!Init
  OBVIOUS
<1>1. ToProcess \subseteq Sources
  <2>1. args \in Args
    BY DEF CInit, Idle
  <2>2. args.last \in 1..MaxSources
    BY <2>1 DEF Args, Sources
  <2> QED BY <2>2, SchedulerAssumption DEF ToProcess, ArgSources, Sources
<1>2. analysed = {} /\ phase = "rules"
  BY DEF CInit, Idle
<1>3. outcome = "running"
  BY <1>2 DEF outcome
<1> QED BY <1>1, <1>2, <1>3 DEF Promise!Init

\* A trusted run has the results of every source.
TrustedResults == outcome = "trusted" => analysed = ToProcess

LEMMA NextPromise ==
  ASSUME RunInv, TrustedResults', [CNext]_cvars
  PROVE  [Promise!Next]_(Promise!vars)
<1> SUFFICES ASSUME ~(UNCHANGED <<ToProcess, analysed, outcome>>) PROVE Promise!Next
  BY DEF Promise!vars
<1>1. ToProcess' = ToProcess
  BY NextScheduled
<1>2. ASSUME phase # "exited", analysed' = analysed PROVE Promise!Next
  <2>1. outcome = "running" /\ outcome' \in {"running", "trusted", "failed"}
    <3>1. outcome = "running"
      BY <1>2 DEF outcome
    <3>2. outcome' \in {"running", "trusted", "failed"}
      <4>1. CASE phase' # "exited"
        BY <4>1 DEF outcome
      <4>2. CASE phase' = "exited" /\ Checked' /\ (exitCode \in {E_Success, E_Violation})'
        BY <4>2 DEF outcome
      <4>3. CASE phase' = "exited" /\ ~(Checked' /\ (exitCode \in {E_Success, E_Violation})')
        BY <4>3 DEF outcome
      <4> QED BY <4>1, <4>2, <4>3
    <3> QED BY <3>1, <3>2
  <2>2. CASE outcome' = "failed"
    BY <1>1, <1>2, <2>1, <2>2 DEF Promise!Next, Promise!Fail
  <2>3. CASE outcome' = "trusted"
    <3>1. analysed' = ToProcess'
      BY <2>3 DEF TrustedResults
    <3> QED BY <1>1, <1>2, <2>1, <2>3, <3>1 DEF Promise!Next, Promise!Trust
  <2> QED BY <1>1, <1>2, <2>1, <2>2, <2>3
<1>3. CASE Schedule
  <2>1. phase = "schedule" /\ phase' = phase /\ SchedulerInv
    BY <1>3 DEF Schedule, RunInv, MainInv, Scheduled
  <2>2. outcome = "running" /\ outcome' = "running"
    BY <2>1 DEF outcome
  <2>3. analysed' = analysed \/ \E j \in 1..numJobs : analysed' = analysed \cup list[j]
    BY <1>3 DEF Schedule, Start, SpawnWorker, SpawnGprbuild, SpawnFails, ReapWorker,
       LoadReport, ReapGprbuild, WaitFails, Finish, found
  <2>4. \A j \in 1..numJobs : list[j] \subseteq ToProcess
    BY <2>1 DEF SchedulerInv, ReportInv, SplitInv, Splitting
  <2>5. \E S \in SUBSET ToProcess : analysed' = analysed \cup S
    <3>1. analysed' = analysed \cup {}
          \/ \E j \in 1..numJobs : analysed' = analysed \cup list[j]
      BY <2>3
    <3> QED BY <2>4, <3>1
  <2> QED BY <1>1, <2>2, <2>5 DEF Promise!Next, Promise!Analyse
<1>4. CASE ProcessRuleOptions \/ Rejected \/ CheckParameters \/ ScheduleRaises
           \/ ProcessAggregatedProject \/ Report \/ Exit
  <2>1. analysed' = analysed /\ phase # "exited"
    BY <1>4 DEF ProcessRuleOptions, Rejected, CheckParameters, ScheduleRaises,
       ProcessAggregatedProject, Report, Exit, ExitOnError, vars, found
  <2> QED BY <1>2, <2>1
<1>5. CASE Children \/ UNCHANGED cvars
  <2>1. UNCHANGED <<analysed, setup, phase, task, exitCode>>
    BY <1>5 DEF Children, WorkerExits, GprbuildExits, found, vars, mainVars, cvars
  <2>2. outcome' = outcome
    BY <2>1 DEF outcome, Checked, In_Aggregate_Project
  <2> QED BY <1>1, <2>1, <2>2
<1> QED BY <1>3, <1>4, <1>5 DEF CNext, Main, Over

\* A whole run only loads results of sources it was asked for, and exits with 0
\* or 1 after checking sources only when it has the results of each.
THEOREM RunContractSafety == CSpec => Promise!Safe
<1>1. RunInv => TrustedResults
  <2> SUFFICES ASSUME RunInv, outcome = "trusted" PROVE analysed = ToProcess
    BY DEF TrustedResults
  <2>1. Checked /\ exitCode \in {E_Success, E_Violation}
    <3>1. phase = "exited"
      BY DEF outcome
    <3>2. CASE ~(Checked /\ exitCode \in {E_Success, E_Violation})
      BY <3>1, <3>2 DEF outcome
    <3> QED BY <3>2
  <2> QED BY <2>1, TrustedRun DEF E_Success, E_Violation, E_Error
<1>2. RunInv /\ TrustedResults' /\ [CNext]_cvars => [Promise!Next]_(Promise!vars)
  BY NextPromise
<1> QED BY InitPromise, RunInvariant, <1>1, <1>2, PTL DEF CSpec, Promise!Safe

-----------------------------------------------------------------------------
(* Aggregate projects *)

\* The report has a run of each child so far, unless an error was counted.
MergedInv ==
  \A k \in 1..Len(children) :
    /\ internalErrors = 0 /\ merged[k] = "old" => children[k] \in {E_Error, Killed}
    /\ ~args.debug => sarifs[k] = "none"

AggregateInv ==
  /\ setup \in Setups
  /\ children \in Seq(Nat) /\ merged \in Seq({"old", "new"})
  /\ sarifs \in [1..setup.projects -> SarifFiles]
  /\ Len(children) <= setup.projects
  /\ phase = "aggregate" => Len(children) < setup.projects
  /\ phase \in {"rules", "check", "schedule"} => children = <<>>
  /\ children = <<>> => merged = <<>>
  /\ children # <<>> => task = "check_sources"
  /\ children # <<>> /\ phase # "aggregate" => Len(children) = setup.projects
  /\ setup.sarif => MergedInv
  /\ setup.sarif /\ internalErrors = 0 => Len(merged) = Len(children)

LEMMA InitAggregate == CInit => AggregateInv
<1> SUFFICES ASSUME CInit PROVE AggregateInv
  OBVIOUS
<1>1. /\ setup \in Setups /\ children = <<>> /\ merged = <<>> /\ phase = "rules"
      /\ sarifs \in [1..setup.projects -> {"none", "old"}]
  BY DEF CInit
<1>2. setup.projects \in Nat \ {0}
  BY <1>1 DEF Setups
<1> QED BY <1>1, <1>2 DEF AggregateInv, MergedInv, SarifFiles

LEMMA SpawnedChild ==
  ASSUME RunInv, AggregateInv, ProcessAggregatedProject
  PROVE  AggregateInv'
<1> DEFINE k == Len(children) + 1
<1>1. PICK child \in Endings :
        LET file == IF child.sarif = "untouched" THEN sarifs[k] ELSE child.sarif IN
        /\ children' = Append(children, child.code)
        /\ IF setup.sarif
           THEN /\ merged' = merged \o (IF Loads(file) THEN <<file>> ELSE <<>>)
                /\ internalErrors' = internalErrors + LoadErrors(file)
                /\ sarifs' = [sarifs EXCEPT ![k] = IF args.debug THEN file ELSE "none"]
           ELSE UNCHANGED <<merged, internalErrors, sarifs>>
  BY DEF ProcessAggregatedProject
<1> DEFINE file == IF child.sarif = "untouched" THEN sarifs[k] ELSE child.sarif
<1>2. /\ setup' = setup /\ args' = args /\ task' = task /\ phase = "aggregate"
      /\ phase' = IF k = setup.projects THEN "exit" ELSE "aggregate"
      /\ task = "check_sources" /\ internalErrors \in Nat
  BY DEF ProcessAggregatedProject, RunInv, MainInv
<1>3. /\ Len(children) \in Nat /\ k \in 1..setup.projects /\ setup.projects \in Nat
  BY <1>2 DEF AggregateInv, Setups
<1>4. /\ child.code \in Nat /\ file \in SarifFiles
      /\ file = "old" => child.code \in {E_Error, Killed}
  <2>1. /\ child.code \in Nat /\ child.sarif \in {"new", "untouched", "broken"}
        /\ child.sarif # "new" => child.code \in {E_Error, Killed}
    BY DEF Endings, E_Success, E_Bad_Rules, E_Error, Killed
  <2> QED BY <1>3, <2>1 DEF AggregateInv, SarifFiles
<1>5. /\ children' \in Seq(Nat) /\ Len(children') = k /\ children' # <<>>
      /\ \A i \in 1..Len(children) : children'[i] = children[i]
      /\ children'[k] = child.code
  BY <1>1, <1>4 DEF AggregateInv
<1> HIDE DEF file
<1>6. CASE ~setup.sarif
  BY <1>1, <1>2, <1>3, <1>5, <1>6 DEF AggregateInv
<1>7. CASE setup.sarif
  <2>1. /\ merged' = merged \o (IF Loads(file) THEN <<file>> ELSE <<>>)
        /\ internalErrors' = internalErrors + LoadErrors(file)
        /\ sarifs' = [sarifs EXCEPT ![k] = IF args.debug THEN file ELSE "none"]
    BY <1>1, <1>7 DEF file
  <2>2. merged' \in Seq({"old", "new"}) /\ sarifs' \in [1..setup.projects -> SarifFiles]
    <3>1. (IF Loads(file) THEN <<file>> ELSE <<>>) \in Seq({"old", "new"})
      <4>1. CASE Loads(file)
        BY <4>1 DEF Loads
      <4>2. CASE ~Loads(file)
        BY <4>2
      <4> QED BY <4>1, <4>2
    <3>2. merged' \in Seq({"old", "new"})
      BY <2>1, <3>1 DEF AggregateInv
    <3> QED BY <1>4, <2>1, <3>2 DEF AggregateInv, SarifFiles
  <2>3. ASSUME internalErrors' = 0
        PROVE  /\ internalErrors = 0 /\ Loads(file)
               /\ merged' = Append(merged, file) /\ Len(merged) = Len(children)
               /\ file \in {"old", "new"} /\ merged \in Seq({"old", "new"})
    <3>1. internalErrors = 0 /\ Loads(file)
      BY <1>2, <2>1, <2>3 DEF LoadErrors
    <3> QED BY <1>7, <2>1, <3>1 DEF AggregateInv, Loads
  <2>4. internalErrors' = 0 => Len(merged') = Len(children')
    BY <1>3, <1>5, <2>3
  <2>5. ASSUME NEW i \in 1..Len(children')
        PROVE  /\ internalErrors' = 0 /\ merged'[i] = "old" => children'[i] \in {E_Error, Killed}
               /\ ~args.debug => sarifs'[i] = "none"
    <3>1. CASE i = k
      <4>1. internalErrors' = 0 => merged'[k] = file
        BY <1>3, <2>3
      <4> QED BY <1>3, <1>4, <1>5, <2>1, <3>1, <4>1 DEF AggregateInv
    <3>2. CASE i # k
      <4>1. i \in 1..Len(children)
        BY <1>3, <1>5, <3>2
      <4>2. internalErrors' = 0 => merged'[i] = merged[i]
        BY <2>3, <4>1
      <4>3. i \in 1..setup.projects /\ sarifs'[i] = sarifs[i]
        BY <1>3, <2>1, <3>2, <4>1 DEF AggregateInv
      <4> QED BY <1>5, <1>7, <2>3, <4>1, <4>2, <4>3 DEF AggregateInv, MergedInv
    <3> QED BY <3>1, <3>2
  <2> QED BY <1>2, <1>3, <1>5, <2>2, <2>4, <2>5 DEF AggregateInv, MergedInv
<1> QED BY <1>6, <1>7

LEMMA NextAggregate == RunInv /\ AggregateInv /\ [CNext]_cvars => AggregateInv'
<1> SUFFICES ASSUME RunInv, AggregateInv, [CNext]_cvars PROVE AggregateInv'
  OBVIOUS
<1>0. args' = args /\ internalErrors \in Nat /\ internalErrors' \in Nat
  BY NextScheduled, NextMain DEF RunInv, MainInv
<1>1. CASE ProcessAggregatedProject
  BY <1>1, SpawnedChild
<1>2. setup.projects \in Nat \ {0}
  BY DEF AggregateInv, Setups
<1> DEFINE Kept == UNCHANGED <<setup, children, sarifs, merged>>
<1>4. ASSUME children = <<>>, Kept, phase' = "aggregate" => setup.projects > 1
      PROVE  AggregateInv'
  <2>1. MergedInv'
    BY <1>4 DEF MergedInv
  <2>2. Len(children') = 0 /\ children' = <<>>
    BY <1>4
  <2> QED BY <1>2, <1>4, <2>1, <2>2 DEF AggregateInv
<1>6. CASE ProcessRuleOptions \/ Rejected \/ CheckParameters
  <2>1. children = <<>> /\ Kept
    BY <1>6 DEF AggregateInv, ProcessRuleOptions, Rejected, ExitOnError,
       CheckParameters, aggregateVars
  <2>2. phase' = "aggregate" => setup.projects > 1
    BY <1>6 DEF ProcessRuleOptions, Rejected, ExitOnError, CheckParameters,
       In_Aggregate_Project
  <2> QED BY <1>4, <2>1, <2>2
<1>7. CASE Schedule \/ ScheduleRaises \/ Report
  <2>1. children = <<>> /\ Kept /\ phase' # "aggregate"
    BY <1>7 DEF AggregateInv, Schedule, ScheduleRaises, ExitOnError, Report,
       aggregateVars
  <2> QED BY <1>4, <2>1
<1>8. CASE Exit \/ Children \/ UNCHANGED cvars
  <2>1. /\ Kept /\ task' = task /\ internalErrors' = internalErrors
        /\ phase' = phase \/ (phase = "exit" /\ phase' = "exited")
    BY <1>8 DEF Exit, Children, WorkerExits, GprbuildExits, vars, found, mainVars,
       aggregateVars, cvars
  <2>2. MergedInv => MergedInv'
    BY <1>0, <2>1 DEF MergedInv
  <2> QED BY <2>1, <2>2 DEF AggregateInv
<1> QED BY <1>1, <1>6, <1>7, <1>8 DEF CNext, Main, Over

\* Whatever the children of an aggregate run did and whatever files an earlier run
\* left, another exit code than 2 goes with one merged report per project.
THEOREM MergedProjects == CSpec => []ProjectsMerged
<1>1. RunInv /\ AggregateInv => ProjectsMerged
  <2> SUFFICES ASSUME RunInv, AggregateInv, phase = "exited", children # <<>>,
                      setup.sarif, exitCode # E_Error
               PROVE  /\ Len(merged) = setup.projects
                      /\ \A k \in 1..setup.projects :
                           /\ merged[k] = "old" => children[k] \in {E_Error, Killed}
                           /\ ~args.debug => sarifs[k] = "none"
    BY DEF ProjectsMerged
  <2>1. task = "check_sources" /\ Len(children) = setup.projects
    BY DEF AggregateInv
  <2>2. internalErrors = 0
    <3>1. exitCode = ExitCode /\ internalErrors \in Nat
      BY DEF RunInv, MainInv
    <3>2. ~Failure
      BY <2>1, <3>1 DEF ExitCode
    <3> QED BY <3>1, <3>2 DEF Failure, Failed
  <2> QED BY <2>1, <2>2 DEF AggregateInv, MergedInv
<1>2. CSpec => []AggregateInv
  BY InitAggregate, NextAggregate, RunInvariant, PTL DEF CSpec
<1> QED BY RunInvariant, <1>1, <1>2, PTL
-----------------------------------------------------------------------------
(* The classes of the summary *)

\* The sources that are processed leave "waiting" for good; one that is ignored
\* leaves it only when an error about it is stored.
KnownInv ==
  /\ args.ignored \subseteq ArgSources
  /\ pc = "start" => diags = {}
  /\ pc # "start" => \A sf \in ToProcess : status[sf] # "waiting"
  /\ \A sf \in args.ignored : status[sf] = "waiting" \/ \E d \in diags : d[2] = sf

\* A step that marks only sources to process and sources with an error.
Marking ==
  /\ diags \subseteq diags'
  /\ \A sf \in Sources :
       \/ status'[sf] = status[sf]
       \/ status'[sf] # "waiting" /\ (sf \in ToProcess \/ \E d \in diags' : d[2] = sf)

LEMMA MarkingKnown ==
  ASSUME TypeOK, KnownInv, Marking, args' = args, pc # "start", pc' # "start"
  PROVE  KnownInv'
<1>1. ArgSources' = ArgSources /\ ToProcess' = ToProcess
  BY DEF ArgSources, ToProcess
<1>2. ToProcess \subseteq Sources /\ args.ignored \subseteq Sources
        /\ ToProcess \cap args.ignored = {}
  BY ToProcessFinite DEF TypeOK, Args, ToProcess, Sources
<1>3. ASSUME NEW sf \in ToProcess PROVE status'[sf] # "waiting"
  BY <1>2 DEF KnownInv, Marking
<1>4. ASSUME NEW sf \in args.ignored
      PROVE  status'[sf] = "waiting" \/ \E d \in diags' : d[2] = sf
  <2>1. sf \in Sources /\ sf \notin ToProcess
    BY <1>2
  <2>2. CASE status'[sf] = status[sf]
    BY <2>2 DEF KnownInv, Marking
  <2>3. CASE status'[sf] # status[sf]
    BY <2>1, <2>3 DEF Marking
  <2> QED BY <2>2, <2>3
<1> QED BY <1>1, <1>3, <1>4 DEF KnownInv

LEMMA NextKnown == ReportInv /\ KnownInv /\ [Next]_vars => KnownInv'
<1> SUFFICES ASSUME ReportInv, KnownInv, [Next]_vars PROVE KnownInv'
  OBVIOUS
<1>1. /\ TypeOK /\ PcOK /\ args' = args /\ ToProcess' = ToProcess /\ ArgSources' = ArgSources
      /\ \A i \in 1..numJobs : list[i] \subseteq ToProcess
  BY ArgsFixed DEF ReportInv, AccountInv, TypeInv, ToProcess, ArgSources, SplitInv, Splitting
<1>2. ToProcess \subseteq Sources /\ ToProcess \cap args.ignored = {}
  BY <1>1, ToProcessFinite DEF TypeOK, Args, ToProcess, Sources
<1> DEFINE Late == pc # "start" /\ pc' # "start"
<1>3. CASE Start
  <2>1. PICK raised \in SUBSET (IF args.debug THEN ToProcess ELSE {}) :
          status' = [sf \in Sources |-> IF sf \in raised THEN "error_detected"
                                        ELSE SetStatus(ToProcess, "processed")[sf]]
    BY <1>3 DEF Start
  <2>2. \A sf \in Sources :
          status'[sf] = IF sf \in raised THEN "error_detected"
                        ELSE IF sf \in ToProcess THEN "processed" ELSE status[sf]
    BY <2>1 DEF SetStatus
  <2>3. raised \subseteq ToProcess /\ args.ignored \subseteq Sources
    BY <1>1 DEF TypeOK, Args
  <2>4. \A sf \in ToProcess : status'[sf] # "waiting"
    BY <1>2, <2>2
  <2>5. \A sf \in args.ignored : status'[sf] = status[sf]
    BY <1>2, <2>2, <2>3
  <2>6. \A sf \in args.ignored : status[sf] = "waiting" \/ \E d \in diags' : d[2] = sf
    <3>1. diags = {}
      BY <1>3 DEF Start, KnownInv
    <3> QED BY <3>1 DEF KnownInv
  <2>7. pc' # "start"
    BY <1>3 DEF Start
  <2> QED BY <1>1, <2>4, <2>5, <2>6, <2>7 DEF KnownInv
<1>4. CASE SpawnWorker \/ SpawnFails
  <2>1. diags' = diags /\ Late
    BY <1>4 DEF SpawnWorker, SpawnFails, AfterJob
  <2>2. CASE status' = status
    BY <1>1, <2>1, <2>2, MarkingKnown DEF Marking
  <2>3. CASE pc = "spawn" /\ WriteList
    <3>1. job + 1 \in 1..numJobs /\ list \in [1..numJobs -> SUBSET Sources]
      BY <1>1, <2>3 DEF PcOK, TypeOK
    <3>2. list'[job + 1] \subseteq ToProcess
      BY <3>1, <2>3 DEF WriteList, Remaining
    <3>3. status' = SetStatus(list'[job + 1], "processed")
      BY <2>3 DEF WriteList
    <3> QED BY <1>1, <2>1, <3>2, <3>3, MarkingKnown DEF Marking, SetStatus
  <2> QED BY <1>4, <2>2, <2>3 DEF SpawnWorker, SpawnFails
<1>5. CASE \E j \in 1..numJobs : ReapWorker(j)
  <2>1. PICK j \in 1..numJobs : ReapWorker(j)
    BY <1>5
  <2>2. Late
    BY <2>1 DEF ReapWorker, Waiting, AfterWait, AfterJob
  <2>3. CASE UNCHANGED <<status, diags>>
    BY <1>1, <2>2, <2>3, MarkingKnown DEF Marking
  <2>4. CASE LoadReport(j)
    <3> DEFINE new == New("worker", list[j] \cap args.illegal)
               legal == SetStatus(new, "not_a_legal_source")
    <3>1. /\ diags' = diags \cup {<<"worker", sf>> : sf \in new}
          /\ \/ status' = legal
             \/ \E sf \in list[j] : status' = [legal EXCEPT ![sf] = "error_detected"]
      BY <2>4 DEF LoadReport
    <3>2. new \subseteq ToProcess /\ list[j] \subseteq ToProcess
      BY <1>1 DEF New
    <3>3. legal = [sf \in Sources |-> IF sf \in new THEN "not_a_legal_source" ELSE status[sf]]
      BY DEF SetStatus
    <3> HIDE DEF new, legal
    <3>4. ASSUME NEW sf \in Sources
          PROVE  status'[sf] = status[sf] \/ (status'[sf] # "waiting" /\ sf \in ToProcess)
      <4>1. legal[sf] = IF sf \in new THEN "not_a_legal_source" ELSE status[sf]
        BY <3>3
      <4>2. CASE status' = legal
        BY <3>2, <4>1, <4>2
      <4>3. ASSUME NEW s \in list[j], status' = [legal EXCEPT ![s] = "error_detected"]
            PROVE  status'[sf] = status[sf] \/ (status'[sf] # "waiting" /\ sf \in ToProcess)
        <5>1. status'[sf] = IF sf = s THEN "error_detected" ELSE legal[sf]
          BY <3>3, <4>3
        <5> QED BY <3>2, <4>1, <4>3, <5>1
      <4> QED BY <3>1, <4>2, <4>3
    <3>5. Marking
      BY <3>1, <3>4 DEF Marking
    <3> QED BY <1>1, <2>2, <3>5, MarkingKnown
  <2> QED BY <2>1, <2>3, <2>4 DEF ReapWorker
<1>6. CASE ReapGprbuild
  <2>1. PICK rejected \in SUBSET args.uncompilable, boxed \in SUBSET args.uncompilable :
          LET errors == New("gprbuild", rejected \ args.ignored)
              boxes  == New("bug_box", boxed)
              marked == SetStatus(errors, "not_a_legal_source")
          IN /\ diags' = diags \cup {<<"gprbuild", sf>> : sf \in errors}
                               \cup {<<"bug_box", sf>> : sf \in boxes}
             /\ status' = [sf \in Sources |-> IF sf \in boxes
                                             THEN "error_detected" ELSE marked[sf]]
    BY <1>6 DEF ReapGprbuild
  <2> DEFINE errors == New("gprbuild", rejected \ args.ignored)
             boxes  == New("bug_box", boxed)
  <2>2. /\ diags' = diags \cup {<<"gprbuild", sf>> : sf \in errors}
                          \cup {<<"bug_box", sf>> : sf \in boxes}
        /\ \A sf \in Sources :
             status'[sf] = IF sf \in boxes THEN "error_detected"
                           ELSE IF sf \in errors THEN "not_a_legal_source"
                           ELSE status[sf]
    BY <2>1 DEF SetStatus
  <2> HIDE DEF errors, boxes
  <2>3. \A sf \in errors \cup boxes : \E d \in diags' : d[2] = sf
    <3>1. \A sf \in errors : <<"gprbuild", sf>> \in diags' /\ <<"gprbuild", sf>>[2] = sf
      BY <2>2
    <3>2. \A sf \in boxes : <<"bug_box", sf>> \in diags' /\ <<"bug_box", sf>>[2] = sf
      BY <2>2
    <3> QED BY <3>1, <3>2
  <2>4. Marking
    BY <2>2, <2>3 DEF Marking
  <2>5. Late
    BY <1>6 DEF ReapGprbuild, Waiting, AfterWait, AfterJob
  <2> QED BY <1>1, <2>4, <2>5, MarkingKnown
<1>7. CASE SpawnGprbuild \/ WaitFails \/ Finish
  <2>1. Late /\ UNCHANGED <<status, diags>>
    BY <1>7 DEF SpawnGprbuild, WaitFails, Finish, Waiting, AfterWait, AfterJob, found
  <2> QED BY <1>1, <2>1, MarkingKnown DEF Marking
<1>8. CASE (\E j \in 1..numJobs : WorkerExits(j)) \/ GprbuildExits \/ UNCHANGED vars
  <2>1. UNCHANGED <<pc, status, diags>>
    BY <1>8 DEF WorkerExits, GprbuildExits, found, vars
  <2> QED BY <1>1, <2>1 DEF KnownInv
<1> QED BY <1>3, <1>4, <1>5, <1>6, <1>7, <1>8 DEF Next, Driver, Terminated

LEMMA ArgSourcesBound ==
  ASSUME TypeOK
  PROVE  ArgSources \subseteq Sources /\ args.ignored \subseteq Sources
<1>1. args.last \in 1..MaxSources /\ args.ignored \subseteq Sources
  BY DEF TypeOK, Args, Sources
<1> QED BY <1>1, SchedulerAssumption DEF ArgSources, Sources

LEMMA DisjointSum ==
  ASSUME NEW S, NEW T, IsFiniteSet(S), IsFiniteSet(T), S \cap T = {}
  PROVE  /\ IsFiniteSet(S \cup T)
         /\ Cardinality(S \cup T) = Cardinality(S) + Cardinality(T)
<1>1. /\ IsFiniteSet(S \cup T) /\ Cardinality(S) \in Nat /\ Cardinality(T) \in Nat
      /\ Cardinality(S \cup T) = Cardinality(S) + Cardinality(T) - Cardinality(S \cap T)
  BY FS_Union, FS_CardinalityType
<1>2. Cardinality(S \cap T) = 0
  BY FS_EmptySet
<1> QED BY <1>1, <1>2

\* The classes of Compute_Statistics are a partition of the checked sources.
LEMMA SummaryAddsUp ==
  ASSUME TypeOK, KnownInv, pc # "start", analysed \subseteq ToProcess,
         NEW v \in [plain : SUBSET Reportable, exempted : SUBSET Reportable],
         \A d \in diags : d[2] \notin args.ignored
  PROVE  LET s == Statistics(v)
         IN  s.checked = s.compliant + s.violating + s.exempted + s.ignored
<1> DEFINE checked   == ArgSources \ Unverified
           violating == checked \cap v.plain
           exempted  == (checked \cap v.exempted) \ violating
           compliant == {sf \in checked \ (violating \cup exempted) : status[sf] = "processed"}
           ignored   == args.ignored
<1>1. ArgSources \subseteq Sources /\ ToProcess \cap args.ignored = {}
  BY ArgSourcesBound DEF ToProcess
<1>2. \A sf \in ignored : sf \in ArgSources /\ status[sf] = "waiting"
  BY DEF KnownInv
<1>3. ignored \subseteq checked
  BY <1>2 DEF Unverified
<1>4. v.plain \subseteq ToProcess /\ v.exempted \subseteq ToProcess
  BY DEF Reportable
<1>5. ASSUME NEW sf \in checked
      PROVE  sf \in ignored \/ status[sf] = "processed"
  <2>1. sf \in ArgSources /\ status[sf] \notin {"not_a_legal_source", "error_detected"}
    BY DEF Unverified
  <2>2. status[sf] \in Statuses
    BY <1>1, <2>1 DEF TypeOK
  <2>3. sf \in ignored \/ status[sf] # "waiting"
    BY <2>1 DEF ToProcess, KnownInv
  <2> QED BY <2>1, <2>2, <2>3 DEF Statuses
<1>6. checked = ((compliant \cup violating) \cup exempted) \cup ignored
  BY <1>3, <1>5
<1>7. /\ compliant \cap violating = {} /\ (compliant \cup violating) \cap exempted = {}
      /\ ((compliant \cup violating) \cup exempted) \cap ignored = {}
  BY <1>1, <1>2, <1>4
<1>8. /\ IsFiniteSet(compliant) /\ IsFiniteSet(violating)
      /\ IsFiniteSet(exempted) /\ IsFiniteSet(ignored)
  <2>1. /\ compliant \subseteq Sources /\ violating \subseteq Sources
        /\ exempted \subseteq Sources /\ ignored \subseteq Sources
    BY <1>1, <1>2
  <2> QED BY <2>1, SourcesFinite, FS_Subset
<1>9. /\ Statistics(v).checked = Cardinality(checked)
      /\ Statistics(v).compliant = Cardinality(compliant)
      /\ Statistics(v).violating = Cardinality(violating)
      /\ Statistics(v).exempted = Cardinality(exempted)
      /\ Statistics(v).ignored = Cardinality(ignored)
  BY DEF Statistics
<1> HIDE DEF checked, violating, exempted, compliant, ignored
<1>10. /\ IsFiniteSet(compliant \cup violating)
       /\ Cardinality(compliant \cup violating) = Cardinality(compliant) + Cardinality(violating)
  BY <1>7, <1>8, DisjointSum
<1>11. /\ IsFiniteSet((compliant \cup violating) \cup exempted)
       /\ Cardinality((compliant \cup violating) \cup exempted)
            = Cardinality(compliant \cup violating) + Cardinality(exempted)
  BY <1>7, <1>8, <1>10, DisjointSum
<1>12. Cardinality(checked)
         = Cardinality((compliant \cup violating) \cup exempted) + Cardinality(ignored)
  BY <1>6, <1>7, <1>8, <1>11, DisjointSum
<1> QED BY <1>9, <1>10, <1>11, <1>12

LEMMA SummaryTyped ==
  ASSUME TypeOK, KnownInv, NEW v
  PROVE  Statistics(v) \in [DOMAIN NoStats -> Nat]
<1>1. ArgSources \subseteq Sources /\ args.ignored \subseteq Sources
  BY ArgSourcesBound
<1>2. \A S : S \subseteq Sources => Cardinality(S) \in Nat
  BY SourcesFinite, FS_Subset, FS_CardinalityType
<1> DEFINE checked   == ArgSources \ Unverified
           violating == checked \cap v.plain
           exempted  == (checked \cap v.exempted) \ violating
           compliant == {sf \in checked \ (violating \cup exempted) : status[sf] = "processed"}
<1>3. /\ Cardinality(checked) \in Nat /\ Cardinality(Unverified) \in Nat
      /\ Cardinality(violating) \in Nat /\ Cardinality(exempted) \in Nat
      /\ Cardinality(compliant) \in Nat /\ Cardinality(args.ignored) \in Nat
  <2>1. /\ checked \subseteq Sources /\ Unverified \subseteq Sources
        /\ violating \subseteq Sources /\ exempted \subseteq Sources
        /\ compliant \subseteq Sources
    BY <1>1 DEF Unverified
  <2> HIDE DEF checked, violating, exempted, compliant
  <2> QED BY <1>1, <1>2, <2>1
<1>4. Statistics(v) = [checked    |-> Cardinality(checked),
                       unverified |-> Cardinality(Unverified),
                       violating  |-> Cardinality(violating),
                       exempted   |-> Cardinality(exempted),
                       compliant  |-> Cardinality(compliant),
                       ignored    |-> Cardinality(args.ignored)]
  BY DEF Statistics
<1> HIDE DEF checked, violating, exempted, compliant
<1> QED BY <1>3, <1>4 DEF NoStats

\* When every source is ignored the scheduler is never called, otherwise what it
\* does to the statuses is known.
StatusesKnown ==
  /\ ToProcess = {} => TypeOK /\ numJobs = 0 /\ gprbuild = "invalid"
  /\ ToProcess # {} => KnownInv

LEMMA StatesTyped == RunInv /\ StatusesKnown => TypeOK
BY DEF StatusesKnown, RunInv, Scheduled, SchedulerInv, ReportInv, AccountInv, TypeInv

LEMMA CountingKnown ==
  ASSUME TypeOK, CountsErrors
  PROVE  TypeOK' /\ numJobs' = numJobs /\ gprbuild' = gprbuild /\ (KnownInv => KnownInv')
<1>1. internalErrors' \in Nat
  BY DEF CountsErrors, TypeOK
<1>2. TypeOK'
  BY <1>1 DEF TypeOK, CountsErrors, plan, loop, ArgSources
<1> QED BY <1>2 DEF CountsErrors, plan, KnownInv, ToProcess, ArgSources

LEMMA NextStatusesKnown ==
  ASSUME RunInv, StatusesKnown, [CNext]_cvars
  PROVE  StatusesKnown'
<1>1. TypeOK /\ args' = args /\ ToProcess' = ToProcess
  BY StatesTyped, NextScheduled
<1>2. [Next]_vars \/ CountsErrors
  BY <1>1, SchedulerSteps
<1>3. CASE ToProcess # {}
  <2>1. ReportInv /\ KnownInv
    BY <1>3 DEF RunInv, Scheduled, SchedulerInv, StatusesKnown
  <2>2. KnownInv'
    BY <1>1, <1>2, <2>1, NextKnown, CountingKnown
  <2> QED BY <1>1, <1>3, <2>2 DEF StatusesKnown
<1>4. CASE ToProcess = {}
  <2>1. TypeOK /\ numJobs = 0 /\ gprbuild = "invalid" /\ phase # "schedule"
    BY <1>4 DEF StatusesKnown, RunInv, MainInv
  <2>2. CASE CountsErrors
    BY <1>1, <1>4, <2>1, <2>2, CountingKnown DEF StatusesKnown
  <2>3. CASE UNCHANGED vars
    BY <1>1, <1>4, <2>1, <2>3 DEF StatusesKnown, vars, plan, loop, found, TypeOK, ArgSources
  <2>4. CASE Children
    BY <2>1, <2>4 DEF Children, GprbuildExits
  <2>5. CASE ProcessRuleOptions
    BY <2>2, <2>5 DEF ProcessRuleOptions, CountsErrors
  <2>6. CASE ProcessAggregatedProject
    <3>1. \A file : LoadErrors(file) \in Nat
      BY DEF LoadErrors
    <3> QED BY <2>2, <2>6, <3>1 DEF ProcessAggregatedProject, CountsErrors
  <2> QED BY <2>1, <2>3, <2>4, <2>5, <2>6
          DEF CNext, Main, Rejected, Schedule, ScheduleRaises, ExitOnError, CheckParameters,
              Report, Exit, Over, cvars
<1> QED BY <1>3, <1>4

\* The summary is written once, from statuses that are kept until the exit.
SummaryInv ==
  /\ phase \in {"rules", "check", "schedule", "aggregate"} => stats = NoStats
  /\ ClassesAddUp

LEMMA NoStatsAddUp ==
  NoStats.checked = NoStats.compliant + NoStats.violating + NoStats.exempted + NoStats.ignored
BY DEF NoStats

LEMMA NextSummary ==
  ASSUME RunInv, StatusesKnown, SummaryInv, [CNext]_cvars
  PROVE  SummaryInv'
<1>1. CASE Report
  <2>1. /\ phase = "schedule" /\ pc = "done" /\ phase' = "exit"
        /\ UNCHANGED <<args, diags>>
    BY <1>1 DEF Report
  <2>2. PICK v \in [plain : SUBSET Reportable, exempted : SUBSET Reportable] :
          stats' = Statistics(v)
    BY <1>1 DEF Report
  <2>3. TypeOK /\ KnownInv /\ analysed \subseteq ToProcess
    BY <2>1, StatesTyped
       DEF StatusesKnown, RunInv, MainInv, Scheduled, SchedulerInv, ReportInv, Reports
  <2>4. ASSUME \A d \in diags : d[2] \notin args.ignored
        PROVE  stats'.checked = stats'.compliant + stats'.violating
                                  + stats'.exempted + stats'.ignored
    BY <2>1, <2>2, <2>3, <2>4, SummaryAddsUp
  <2> QED BY <2>1, <2>4 DEF SummaryInv, ClassesAddUp
<1>2. CASE CheckParameters
  <2>1. /\ stats = NoStats /\ stats' = stats
        /\ phase' = "exit" => task' # "check_sources"
    BY <1>2 DEF CheckParameters, SummaryInv
  <2> QED BY <2>1 DEF SummaryInv, ClassesAddUp
<1>3. CASE ProcessAggregatedProject
  <2>1. stats' = NoStats
    BY <1>3 DEF ProcessAggregatedProject, SummaryInv
  <2> QED BY <2>1, NoStatsAddUp DEF SummaryInv, ClassesAddUp
<1>4. CASE ProcessRuleOptions \/ Schedule
  <2>1. stats' = NoStats /\ phase' # "exit"
    BY <1>4 DEF ProcessRuleOptions, Schedule, SummaryInv
  <2> QED BY <2>1 DEF SummaryInv, ClassesAddUp
<1>5. CASE Rejected \/ ScheduleRaises \/ Exit
  <2>1. phase' = "exited"
    BY <1>5 DEF Rejected, ScheduleRaises, Exit, ExitOnError
  <2> QED BY <2>1 DEF SummaryInv, ClassesAddUp
<1>6. CASE Children \/ UNCHANGED cvars
  <2>1. UNCHANGED <<args, diags, phase, task, stats>>
    BY <1>6 DEF Children, WorkerExits, GprbuildExits, found, vars, mainVars, cvars
  <2> QED BY <2>1 DEF SummaryInv, ClassesAddUp
<1> QED BY <1>1, <1>2, <1>3, <1>4, <1>5, <1>6 DEF CNext, Main, Over

LEMMA IdleTyped == Idle => TypeOK
BY SchedulerAssumption DEF Idle, TypeOK, Pcs, Sources, Statuses, Diagnostics, Args, Handles

LEMMA InitKnown == CInit => StatusesKnown /\ SummaryInv
<1> SUFFICES ASSUME CInit PROVE StatusesKnown /\ SummaryInv
  OBVIOUS
<1>1. Idle /\ phase = "rules" /\ stats = NoStats
  BY DEF CInit
<1>2. KnownInv
  BY <1>1 DEF Idle, KnownInv, Args
<1>3. TypeOK /\ numJobs = 0 /\ gprbuild = "invalid"
  BY <1>1, IdleTyped DEF Idle
<1> QED BY <1>1, <1>2, <1>3 DEF StatusesKnown, SummaryInv, ClassesAddUp

LEMMA KnownInvariant == CSpec => [](RunInv /\ StatusesKnown)
BY InitKnown, NextStatusesKnown, RunInvariant, PTL DEF CSpec

\* Compute_Statistics counts every source that is checked in one class of the
\* summary, whatever the statuses went through, unless gprbuild crashes on a
\* source that is ignored.
THEOREM SummaryComplete == CSpec => []ClassesAddUp
<1>1. SummaryInv => ClassesAddUp
  BY DEF SummaryInv
<1> QED BY InitKnown, NextSummary, KnownInvariant, <1>1, PTL DEF CSpec

-----------------------------------------------------------------------------
(* Type correctness *)

ValuesInv ==
  /\ task \in Tasks
  /\ violations \in [plain : SUBSET Sources, exempted : SUBSET Sources]
  /\ stats \in [DOMAIN NoStats -> Nat]
  /\ exitCode \in Running..E_Bad_Rules
  /\ children \in Seq(E_Success..Killed)

LEMMA ExitCodeTyped == task \in Tasks => ExitCode \in E_Success..E_Bad_Rules
<1> SUFFICES ASSUME task \in Tasks PROVE ExitCode \in E_Success..E_Bad_Rules
  OBVIOUS
<1> USE DEF E_Success, E_Violation, E_Error, E_Missing_Source, E_Missing_Rule_File,
            E_Missing_Rule, E_Bad_Rules
<1>1. CASE task = "no_detectors"
  BY <1>1 DEF ExitCode
<1>2. CASE task = "nothing_to_do"
  BY <1>2 DEF ExitCode
<1>3. CASE task = "check_sources" /\ Failure
  BY <1>3 DEF ExitCode
<1>4. CASE task = "check_sources" /\ ~Failure
  BY <1>4 DEF ExitCode
<1> QED BY <1>1, <1>2, <1>3, <1>4 DEF Tasks

LEMMA InitValues == CInit => ValuesInv
<1> SUFFICES ASSUME CInit PROVE ValuesInv
  OBVIOUS
<1>1. NoStats \in [DOMAIN NoStats -> Nat]
  BY DEF NoStats
<1> QED BY <1>1 DEF CInit, ValuesInv, Tasks, Running, E_Bad_Rules

LEMMA NextValues ==
  ASSUME RunInv, StatusesKnown, ValuesInv, [CNext]_cvars
  PROVE  ValuesInv'
<1>1. CASE Report
  <2>1. /\ UNCHANGED <<task, exitCode, children>>
        /\ \E v \in [plain : SUBSET Reportable, exempted : SUBSET Reportable] :
             violations' = v /\ stats' = Statistics(v)
    BY <1>1 DEF Report, aggregateVars
  <2>2. TypeOK /\ KnownInv
    BY <1>1, StatesTyped DEF Report, StatusesKnown, RunInv, MainInv
  <2>3. Reportable \subseteq Sources
    BY <2>2, ArgSourcesBound DEF TypeOK, Reportable, ToProcess
  <2> QED BY <2>1, <2>2, <2>3, SummaryTyped DEF ValuesInv
<1>2. CASE CheckParameters
  <2>1. task' \in Tasks /\ UNCHANGED <<violations, stats, exitCode, children>>
    BY <1>2 DEF CheckParameters, Tasks, ValuesInv, aggregateVars
  <2> QED BY <2>1 DEF ValuesInv
<1>3. CASE ProcessAggregatedProject
  <2>1. /\ \E child \in Endings : children' = Append(children, child.code)
        /\ UNCHANGED <<task, violations, stats, exitCode>>
    BY <1>3 DEF ProcessAggregatedProject
  <2>2. \A child \in Endings : child.code \in E_Success..Killed
    BY DEF Endings, E_Success, E_Bad_Rules, E_Error, Killed
  <2> QED BY <2>1, <2>2 DEF ValuesInv
<1>4. CASE Exit
  <2>1. exitCode' = ExitCode /\ UNCHANGED <<task, violations, stats, children>>
    BY <1>4 DEF Exit, aggregateVars
  <2>2. exitCode' \in Running..E_Bad_Rules
    BY <2>1, ExitCodeTyped DEF ValuesInv, E_Success, Running, E_Bad_Rules
  <2> QED BY <2>1, <2>2 DEF ValuesInv
<1>5. CASE Rejected \/ ScheduleRaises
  <2>1. exitCode' = E_Error /\ UNCHANGED <<task, violations, stats, children>>
    BY <1>5 DEF Rejected, ScheduleRaises, ExitOnError, aggregateVars
  <2> QED BY <2>1 DEF ValuesInv, E_Error, Running, E_Bad_Rules
<1>6. CASE ProcessRuleOptions \/ Schedule \/ Children \/ UNCHANGED cvars
  <2>1. UNCHANGED <<task, violations, stats, exitCode, children>>
    BY <1>6 DEF ProcessRuleOptions, Schedule, Children, mainVars, aggregateVars, cvars
  <2> QED BY <2>1 DEF ValuesInv
<1> QED BY <1>1, <1>2, <1>3, <1>4, <1>5, <1>6 DEF CNext, Main, Over

\* The state of a whole run is well typed, in every phase of Main and with every
\* way the children end: the counters of the report are numbers and the exit
\* code is one of the documented ones.
THEOREM RunTypeCorrect == CSpec => []CTypeOK
<1>1. RunInv /\ StatusesKnown /\ AggregateInv /\ ValuesInv => CTypeOK
  BY StatesTyped DEF CTypeOK, RunInv, MainInv, AggregateInv, ValuesInv
<1>2. CSpec => []AggregateInv
  BY InitAggregate, NextAggregate, RunInvariant, PTL DEF CSpec
<1>3. CSpec => []ValuesInv
  BY InitValues, NextValues, KnownInvariant, PTL DEF CSpec
<1> QED BY KnownInvariant, <1>1, <1>2, <1>3, PTL
=============================================================================
