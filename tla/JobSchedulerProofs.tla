-------------------------- MODULE JobSchedulerProofs --------------------------
(***************************************************************************)
(* Proofs about the job scheduler, for every number of sources and jobs.   *)
(***************************************************************************)
EXTENDS JobScheduler, FiniteSetTheorems, TLAPS

USE SchedulerAssumption

-----------------------------------------------------------------------------
(* The plan of the jobs *)

LEMMA SourcesFinite == IsFiniteSet(Sources)
<1>1. IsFiniteSet(1..MaxSources)
  BY FS_Interval
<1> QED
  BY <1>1 DEF Sources

LEMMA ToProcessFinite ==
  ASSUME args \in Args
  PROVE  /\ IsFiniteSet(ToProcess)
         /\ ToProcess \subseteq 1..MaxSources
         /\ ToProcess \subseteq ArgSources
         /\ Cardinality(ToProcess) \in Nat
         /\ ToProcess # {} => Cardinality(ToProcess) >= 1
<1>1. ToProcess \subseteq 1..MaxSources /\ ToProcess \subseteq ArgSources
  BY DEF ToProcess, ArgSources, Args, Sources
<1>2. IsFiniteSet(1..MaxSources)
  BY FS_Interval
<1>3. IsFiniteSet(ToProcess)
  BY <1>1, <1>2, FS_Subset
<1>4. Cardinality(ToProcess) \in Nat
  BY <1>3, FS_CardinalityType
<1>5. ToProcess # {} => Cardinality(ToProcess) >= 1
  BY <1>3, <1>4, FS_EmptySet
<1> QED
  BY <1>1, <1>3, <1>4, <1>5

\* The plan of n files for p processes has a job, asks for no more processes
\* than p, and its lists hold every file.
LEMMA JobPlanFits ==
  ASSUME NEW n \in Nat \ {0}, NEW p \in Nat \ {0}
  PROVE  LET plan0 == JobPlan(n, p)
         IN /\ plan0 \in [files : Nat \ {0}, procs : Nat \ {0}, jobs : Nat \ {0}]
            /\ plan0.procs <= p
            /\ plan0.jobs * plan0.files >= n
<1> DEFINE q == CeilDiv(n, p)
           m == CeilDiv(n, MinimumFiles)
<1>1. q \in Nat \ {0} /\ p * q >= n /\ m \in Nat \ {0} /\ MinimumFiles * m >= n
  <2>1. \A d \in Nat \ {0} : CeilDiv(n, d) \in Nat
    BY SMT DEF CeilDiv
  <2>2. \A d \in Nat \ {0} : d * CeilDiv(n, d) >= n
    BY SMT DEF CeilDiv
  <2>3. \A d \in Nat \ {0} : CeilDiv(n, d) # 0
    BY <2>2, SMT
  <2> QED
    BY <2>1, <2>2, <2>3
<1>2. CASE q >= 2 * MinimumFiles
  <2> DEFINE h == (q + 1) \div 2
  <2>1. h \in Nat \ {0} /\ 2 * h >= q
    BY <1>1, <1>2, SMT
  <2>2. (2 * p) * h >= n
    <3> HIDE DEF q, h
    <3>1. p * (2 * h) >= p * q
      BY <1>1, <2>1, SMT
    <3> QED
      BY <1>1, <2>1, <3>1, SMT
  <2>3. JobPlan(n, p) = [files |-> h, procs |-> p, jobs |-> 2 * p]
    BY <1>2 DEF JobPlan
  <2> QED
    BY <2>1, <2>2, <2>3
<1>3. CASE q < MinimumFiles
  <2>1. m <= p
    <3>1. n <= p * MinimumFiles
      BY <1>1, <1>3, SMT
    <3> QED
      BY <3>1, SMT DEF CeilDiv
  <2>2. JobPlan(n, p) = [files |-> MinimumFiles, procs |-> m, jobs |-> m]
    BY <1>1, <1>3 DEF JobPlan
  <2> QED
    BY <1>1, <2>1, <2>2, SMT
<1>4. CASE q >= MinimumFiles /\ ~(q >= 2 * MinimumFiles)
  <2>1. JobPlan(n, p) = [files |-> q, procs |-> p, jobs |-> p]
    BY <1>1, <1>4 DEF JobPlan
  <2> QED
    BY <1>1, <2>1, SMT
<1> QED
  BY <1>1, <1>2, <1>3, <1>4

-----------------------------------------------------------------------------
(* Type correctness.  Where the driver is bounds the job it spawns next. *)

PcOK ==
  /\ pc = "start" => job = 0 /\ numJobs = 0 /\ ToProcess # {}
  /\ pc = "spawn" => job < numJobs
  /\ pc = "wait" => job \in 1..numJobs

TypeInv == TypeOK /\ PcOK

LEMMA SetStatusType ==
  ASSUME TypeOK, NEW S, NEW s \in Statuses
  PROVE  SetStatus(S, s) \in [Sources -> Statuses]
BY DEF TypeOK, SetStatus

LEMMA AfterJobType ==
  ASSUME NEW j, j \in 0..numJobs, numJobs \in Nat
  PROVE  /\ AfterJob(j) \in {"spawn", "gprbuild"}
         /\ AfterJob(j) = "spawn" => j < numJobs
BY DEF AfterJob

LEMMA WriteListType ==
  ASSUME TypeOK, job < numJobs, WriteList
  PROVE  /\ job' \in 1..numJobs /\ job' = job + 1
         /\ nextSF' \in 1..(MaxSources + 1)
         /\ list' \in [1..numJobs -> SUBSET Sources]
         /\ status' \in [Sources -> Statuses]
         /\ temps' \subseteq 0..numJobs
<1>1. job' \in 1..numJobs /\ job' = job + 1 /\ temps' \subseteq 0..numJobs
  BY DEF TypeOK, WriteList
<1>2. Remaining \subseteq Sources
  BY DEF Remaining, ToProcess, ArgSources, TypeOK, Args, Sources
<1>3. Stops \subseteq Sources
  BY <1>2 DEF Stops
<1>4. nextSF' \in 1..(MaxSources + 1)
  BY <1>3 DEF WriteList, TypeOK, AfterStop, Sources
<1>5. list' \in [1..numJobs -> SUBSET Sources]
  BY <1>2 DEF WriteList, TypeOK
<1>6. status' \in [Sources -> Statuses]
  BY SetStatusType DEF WriteList, Statuses
<1> QED
  BY <1>1, <1>4, <1>5, <1>6

LEMMA InitType == Init => TypeInv
BY FS_EmptySet DEF Init, Idle, TypeInv, TypeOK, PcOK, Pcs, Sources, Statuses, Diagnostics, Args

LEMMA StartType == TypeInv /\ Start => TypeInv'
<1> SUFFICES ASSUME TypeInv, Start PROVE TypeInv'
  OBVIOUS
<1> USE DEF TypeInv
<1> DEFINE n == Cardinality(ToProcess)
           p == JobPlan(n, args.jobs)
<1>1. args \in Args /\ args.jobs \in Nat \ {0}
  BY DEF TypeOK, Args
<1>2. n \in Nat \ {0}
  BY <1>1, ToProcessFinite DEF Start, PcOK
<1>3. p.files \in Nat /\ p.procs \in Nat /\ p.jobs \in Nat \ {0}
  BY <1>1, <1>2, JobPlanFits
<1>4. numJobs' = p.jobs /\ filesPerJob' = p.files /\ processNum' = p.procs
  BY DEF Start
<1>5. totalJobs' \in Int
  BY <1>3 DEF Start, PlannedTotal
<1>6. /\ status' \in [Sources -> Statuses]
      /\ diags' \subseteq Diagnostics
      /\ toolFailures' \in Nat
  <2>1. PICK raised \in SUBSET ToProcess :
          /\ status' = [sf \in Sources |-> IF sf \in raised THEN "error_detected"
                                       ELSE SetStatus(ToProcess, "processed")[sf]]
          /\ diags' = {<<"scan", sf>> : sf \in raised}
          /\ toolFailures' = toolFailures + Cardinality(raised)
    BY DEF Start
  <2>2. SetStatus(ToProcess, "processed") \in [Sources -> Statuses]
    BY SetStatusType DEF Statuses
  <2>3. raised \subseteq Sources /\ Cardinality(raised) \in Nat
    BY <1>1, ToProcessFinite, FS_Subset, FS_CardinalityType DEF Sources
  <2> QED
    BY <2>1, <2>2, <2>3 DEF TypeOK, Statuses, Diagnostics
<1>7. list' \in [1..numJobs' -> SUBSET Sources]
  BY <1>4 DEF Start
<1>8. worker' \in [1..numJobs' -> Handles]
  BY <1>4 DEF Start, Handles
<1>9. TypeOK'
  <2> HIDE DEF p
  <2> QED
    <3>1. job' = 0 /\ temps' = {0} /\ pc' \in Pcs
      BY DEF Start, PcOK, Pcs
    <3> QED
      BY <1>3, <1>4, <1>5, <1>6, <1>7, <1>8, <3>1 DEF TypeOK, Start
<1>10. PcOK'
  <2> HIDE DEF p
  <2> QED
    BY <1>3, <1>4 DEF TypeOK, Start, PcOK
<1> QED
  BY <1>9, <1>10

LEMMA SpawnType ==
  TypeInv /\ (SpawnWorker \/ SpawnGprbuild \/ SpawnFails) => TypeInv'
<1> USE DEF TypeInv
<1>1. ASSUME TypeInv, SpawnWorker PROVE TypeInv'
  <2>1. job < numJobs /\ WriteList
    BY <1>1 DEF SpawnWorker, PcOK
  <2>2. worker' \in [1..numJobs -> Handles]
    BY <1>1 DEF SpawnWorker, TypeOK, Handles
  <2>3. totalJobs' \in Int /\ pc' \in {"gprbuild", "wait", "spawn"}
    BY <1>1 DEF SpawnWorker, TypeOK, ExitTotal, AfterJob, WriteList
  <2>4. TypeOK'
    BY <1>1, <2>1, <2>2, <2>3, WriteListType DEF SpawnWorker, TypeOK, plan, Pcs
  <2>5. PcOK'
    BY <1>1, <2>1, WriteListType, AfterJobType
    DEF SpawnWorker, TypeOK, PcOK, plan, AfterJob
  <2> QED
    BY <2>4, <2>5
<1>2. ASSUME TypeInv, SpawnGprbuild PROVE TypeInv'
  BY <1>2 DEF SpawnGprbuild, TypeOK, PcOK, Pcs, plan, loop, found, ToProcess,
              ArgSources
<1>3. ASSUME TypeInv, SpawnFails PROVE TypeInv'
  <2>1. CASE pc = "spawn" /\ WriteList
    BY <1>3, <2>1, WriteListType DEF SpawnFails, TypeOK, PcOK, Pcs, plan
  <2>2. CASE UNCHANGED <<loop, status, temps>>
    BY <1>3, <2>2 DEF SpawnFails, TypeOK, PcOK, Pcs, plan, loop
  <2> QED
    BY <1>3, <2>1, <2>2 DEF SpawnFails
<1> QED
  BY <1>1, <1>2, <1>3

LEMMA ChildType ==
  TypeInv /\ ((\E j \in 1..numJobs : WorkerExits(j)) \/ GprbuildExits) => TypeInv'
BY DEF TypeInv, TypeOK, PcOK, WorkerExits, GprbuildExits, Handles, plan, loop,
       found, ToProcess, ArgSources

LEMMA AfterWaitType ==
  ASSUME TypeInv, Waiting
  PROVE  /\ AfterWait \in {"spawn", "gprbuild", "drain"}
         /\ AfterWait = "spawn" => job < numJobs
BY AfterJobType DEF TypeInv, PcOK, TypeOK, Waiting, AfterWait

LEMMA ReapWorkerType ==
  ASSUME TypeInv, NEW j \in 1..numJobs, ReapWorker(j)
  PROVE  TypeInv'
<1> USE DEF TypeInv
<1> DEFINE new == New("worker", list[j] \cap args.illegal)
           legal == SetStatus(new, "not_a_legal_source")
<1>1. list[j] \subseteq Sources /\ new \subseteq Sources
  BY DEF TypeOK, New
<1>2. legal \in [Sources -> Statuses]
  BY SetStatusType DEF Statuses
<1>3. /\ status' \in [Sources -> Statuses]
      /\ diags' \subseteq Diagnostics
      /\ analysed' \subseteq Sources
      /\ toolFailures' \in Nat /\ internalErrors' \in Nat
      /\ temps' \subseteq 0..numJobs
  <2>1. CASE LoadReport(j)
    <3>1. diags' \subseteq Diagnostics
      <4>1. diags' = diags \cup {<<"worker", sf>> : sf \in new}
        BY <2>1 DEF LoadReport
      <4> HIDE DEF new
      <4> QED
        BY <1>1, <4>1 DEF TypeOK, Diagnostics
    <3>2. temps' \subseteq 0..numJobs
      BY <2>1 DEF LoadReport, TypeOK, Delete
    <3>3. CASE worker[j] = "sarif"
      BY <2>1, <3>1, <3>2, <3>3, <1>1, <1>2 DEF LoadReport, TypeOK
    <3>4. CASE worker[j] = "failure"
      <4>1. status' \in [Sources -> Statuses]
        <5>1. CASE status' = legal
          BY <1>2, <5>1
        <5>2. CASE \E sf \in list[j] \ args.illegal :
                     status' = [legal EXCEPT ![sf] = "error_detected"]
          <6> HIDE DEF legal
          <6> QED BY <1>2, <5>2 DEF Statuses
        <5> QED
          BY <2>1, <3>4, <5>1, <5>2 DEF LoadReport
      <4> QED
        <5>1. /\ toolFailures' \in {toolFailures, toolFailures + 1}
              /\ internalErrors' = internalErrors + 1
              /\ analysed' = analysed
          BY <2>1, <3>4 DEF LoadReport
        <5> QED
          BY <3>1, <3>2, <4>1, <5>1 DEF TypeOK
    <3> QED
      BY <2>1, <3>3, <3>4 DEF LoadReport
  <2>2. CASE UNCHANGED <<status, diags, analysed, toolFailures, temps>>
             /\ internalErrors' = internalErrors + 1
    BY <2>2 DEF TypeOK
  <2> QED
    BY <2>1, <2>2 DEF ReapWorker
<1>4. worker' \in [1..numJobs -> Handles]
  BY DEF ReapWorker, TypeOK, Handles
<1>5. pc' \in {"spawn", "gprbuild", "drain"} /\ (pc' = "spawn" => job < numJobs)
  BY AfterWaitType DEF ReapWorker
<1> QED
  BY <1>3, <1>4, <1>5 DEF ReapWorker, TypeOK, PcOK, Pcs, plan, loop

LEMMA ReapGprbuildType == TypeInv /\ ReapGprbuild => TypeInv'
<1> SUFFICES ASSUME TypeInv, ReapGprbuild PROVE TypeInv'
  OBVIOUS
<1> USE DEF TypeInv
<1>1. pc' \in {"spawn", "gprbuild", "drain"} /\ (pc' = "spawn" => job < numJobs)
  BY AfterWaitType DEF ReapGprbuild
<1>2. /\ status' \in [Sources -> Statuses]
      /\ diags' \subseteq Diagnostics
      /\ toolFailures' \in Nat
  <2>1. PICK rejected \in SUBSET args.uncompilable :
        \E boxed \in SUBSET (args.uncompilable \ rejected) :
          LET errors == New("gprbuild", rejected \ args.ignored)
              boxes  == New("bug_box", boxed)
              marked == SetStatus(errors, "not_a_legal_source")
          IN /\ diags' = diags \cup {<<"gprbuild", sf>> : sf \in errors}
                              \cup {<<"bug_box", sf>> : sf \in boxes}
             /\ status' = [sf \in Sources |-> IF sf \in boxes
                                     THEN "error_detected" ELSE marked[sf]]
             /\ toolFailures' = toolFailures + Cardinality(boxes)
    BY DEF ReapGprbuild
  <2> DEFINE errors == New("gprbuild", rejected \ args.ignored)
             boxes(b) == New("bug_box", b)
             marked == SetStatus(errors, "not_a_legal_source")
  <2>2. PICK boxed \in SUBSET args.uncompilable :
          /\ diags' = diags \cup {<<"gprbuild", sf>> : sf \in errors}
                           \cup {<<"bug_box", sf>> : sf \in boxes(boxed)}
          /\ status' = [sf \in Sources |-> IF sf \in boxes(boxed)
                                     THEN "error_detected" ELSE marked[sf]]
          /\ toolFailures' = toolFailures + Cardinality(boxes(boxed))
    BY <2>1
  <2>3. args.uncompilable \subseteq Sources
    BY DEF TypeOK, Args
  <2>4. errors \subseteq Sources /\ boxes(boxed) \subseteq Sources
    BY <2>3 DEF New
  <2>5. Cardinality(boxes(boxed)) \in Nat
    <3>1. IsFiniteSet(Sources)
      BY SourcesFinite
    <3> QED
      BY <2>4, <3>1, FS_Subset, FS_CardinalityType
  <2>6. marked \in [Sources -> Statuses]
    BY SetStatusType DEF Statuses
  <2> HIDE DEF errors, boxes, marked
  <2>7. status' \in [Sources -> Statuses]
    BY <2>2, <2>6 DEF Statuses
  <2>8. diags' \subseteq Diagnostics
    BY <2>2, <2>4 DEF Diagnostics, TypeOK
  <2>9. toolFailures' \in Nat
    BY <2>2, <2>5 DEF TypeOK
  <2> QED
    BY <2>7, <2>8, <2>9
<1> QED
  <2>1. /\ current' = current + 1 /\ gprbuild' = "invalid"
        /\ UNCHANGED <<args, plan, totalJobs, loop, worker, analysed, temps>>
    BY DEF ReapGprbuild
  <2>2. internalErrors' \in Nat
    <3>1. \E n \in 0..1 : internalErrors' = internalErrors + n
      BY DEF ReapGprbuild
    <3> QED
      BY <3>1 DEF TypeOK
  <2> QED
    BY <1>1, <1>2, <2>1, <2>2 DEF TypeOK, PcOK, Pcs, plan, loop

LEMMA EndType == TypeInv /\ (WaitFails \/ Finish) => TypeInv'
<1>1. ASSUME TypeInv, WaitFails PROVE TypeInv'
  <2>1. pc' \in {"spawn", "gprbuild", "drain"} /\ (pc' = "spawn" => job < numJobs)
    BY <1>1, AfterWaitType DEF WaitFails
  <2> QED
    BY <1>1, <2>1 DEF WaitFails, TypeInv, TypeOK, PcOK, Pcs, plan, loop, found
<1>2. ASSUME TypeInv, Finish PROVE TypeInv'
  BY <1>2 DEF Finish, TypeInv, TypeOK, PcOK, Pcs, plan, loop, found, Delete
<1> QED
  BY <1>1, <1>2

LEMMA NextType == TypeInv /\ [Next]_vars => TypeInv'
<1> SUFFICES ASSUME TypeInv, [Next]_vars PROVE TypeInv'
  OBVIOUS
<1>1. CASE UNCHANGED vars
  BY <1>1 DEF TypeInv, TypeOK, PcOK, vars, plan, loop, found, ToProcess, ArgSources
<1>2. CASE Next
  BY <1>1, <1>2, StartType, SpawnType, ChildType, ReapWorkerType,
     ReapGprbuildType, EndType
  DEF Next, Driver, Terminated
<1> QED
  BY <1>1, <1>2

\* The variables of Schedule_Files keep their types, and the driver never spawns
\* a job past Num_Jobs, the last entry of Handles.
THEOREM TypeCorrect == Spec => []TypeOK
<1>1. TypeInv => TypeOK
  BY DEF TypeInv
<1> QED
  BY <1>1, InitType, NextType, PTL DEF Spec

-----------------------------------------------------------------------------
(* The accounts of the children.  As long as no wait has failed, Current and *)
(* the active handles add up to the jobs spawned, and Total_Jobs to what is  *)
(* spawned in the end.                                                       *)

WaitsOK  == ~args.badWait \/ toolFailures = 0
Compiled == IF args.compile THEN 1 ELSE 0
Spawning == {"start", "spawn", "wait", "gprbuild"}

Accounts ==
  /\ ActiveWorkers \subseteq 1..job
  /\ pc = "start" => current = 0
  /\ pc \in Spawning => gprbuild = "invalid"
  /\ pc \in {"spawn", "wait"} => totalJobs = numJobs + Compiled
  /\ pc = "gprbuild" => totalJobs = job + Compiled
  /\ pc = "wait" => Active(job)
  /\ WaitsOK /\ pc \in Spawning => current + Cardinality(ActiveWorkers) = job
  /\ WaitsOK /\ pc \in {"drain", "done"} => current + Live = totalJobs
  /\ pc = "done" => current = totalJobs

\* The same counts keep the workers below Process_Num.
Limit ==
  /\ pc # "start" => processNum <= args.jobs
  /\ WaitsOK /\ pc # "start" => Cardinality(ActiveWorkers) <= processNum
  /\ WaitsOK /\ pc = "spawn" => Cardinality(ActiveWorkers) < processNum

AccountInv == TypeInv /\ Accounts /\ Limit

LEMMA ActiveFinite ==
  ASSUME numJobs \in Nat
  PROVE  /\ IsFiniteSet(ActiveWorkers)
         /\ Cardinality(ActiveWorkers) \in Nat
         /\ Cardinality(ActiveWorkers) = 0 <=> ActiveWorkers = {}
<1>1. IsFiniteSet(ActiveWorkers)
  <2>1. IsFiniteSet(1..numJobs) /\ ActiveWorkers \subseteq 1..numJobs
    BY FS_Interval DEF ActiveWorkers
  <2> QED
    BY <2>1, FS_Subset
<1> QED
  BY <1>1, FS_CardinalityType, FS_EmptySet

LEMMA ActiveBelow ==
  ASSUME numJobs \in Nat, job \in Nat, ActiveWorkers \subseteq 1..job
  PROVE  Cardinality(ActiveWorkers) <= job
<1>1. IsFiniteSet(1..job) /\ Cardinality(1..job) = job
  BY FS_Interval
<1> QED
  BY <1>1, FS_Subset

LEMMA LiveType ==
  ASSUME TypeOK
  PROVE  /\ Live \in Nat
         /\ gprbuild = "invalid" => Live = Cardinality(ActiveWorkers)
         /\ gprbuild # "invalid" => Live = Cardinality(ActiveWorkers) + 1
BY ActiveFinite DEF TypeOK, Live, GprbuildActive

LEMMA InitAccount == Init => AccountInv
<1> SUFFICES ASSUME Init PROVE AccountInv
  OBVIOUS
<1>1. TypeInv
  BY InitType
<1>2. ActiveWorkers = {}
  BY DEF Init, Idle, ActiveWorkers
<1>3. Cardinality(ActiveWorkers) = 0
  BY <1>2, FS_EmptySet
<1> QED
  BY <1>1, <1>2, <1>3 DEF Init, Idle, AccountInv, Accounts, Limit, Spawning

LEMMA StartAccount == AccountInv /\ Start => AccountInv'
<1> SUFFICES ASSUME AccountInv, Start PROVE AccountInv'
  OBVIOUS
<1> USE DEF AccountInv
<1>1. TypeInv'
  BY StartType
<1>2. ActiveWorkers' = {}
  BY DEF Start, ActiveWorkers, Active
<1>3. Cardinality(ActiveWorkers') = 0
  BY <1>2, FS_EmptySet
<1>4. job' = 0 /\ current' = 0 /\ gprbuild' = "invalid" /\ args' = args
  BY DEF Start, Accounts, TypeInv, PcOK, Spawning
<1>5. totalJobs' = numJobs' + Compiled'
  BY <1>4 DEF Start, PlannedTotal, Compiled
<1>6. processNum' <= args.jobs /\ processNum' >= 1
  <2>1. Cardinality(ToProcess) \in Nat \ {0} /\ args.jobs \in Nat \ {0}
    BY ToProcessFinite DEF TypeInv, TypeOK, Args, PcOK, Start
  <2>2. processNum' = JobPlan(Cardinality(ToProcess), args.jobs).procs
    BY DEF Start
  <2> QED
    BY <2>1, <2>2, JobPlanFits
<1>7. pc' = "spawn"
  BY DEF Start
<1>8. Accounts'
  BY <1>2, <1>3, <1>4, <1>5, <1>7 DEF Accounts, Spawning
<1>9. Limit'
  BY <1>1, <1>3, <1>4, <1>6, <1>7 DEF Limit, TypeInv, TypeOK
<1> QED
  BY <1>1, <1>8, <1>9

LEMMA SpawnWorkerAccount == AccountInv /\ SpawnWorker => AccountInv'
<1> SUFFICES ASSUME AccountInv, SpawnWorker PROVE AccountInv'
  OBVIOUS
<1> USE DEF AccountInv
<1>1. TypeInv'
  BY SpawnType
<1>2. /\ job' = job + 1 /\ job \in Nat /\ job < numJobs /\ numJobs \in Nat
      /\ numJobs' = numJobs /\ processNum' = processNum /\ processNum \in Nat
      /\ current' = current /\ current \in Int /\ totalJobs \in Int
      /\ gprbuild' = gprbuild /\ gprbuild = "invalid"
      /\ toolFailures' = toolFailures /\ args' = args /\ args.jobs \in Nat
      /\ pc = "spawn"
  BY DEF SpawnWorker, WriteList, TypeInv, TypeOK, PcOK, plan, Accounts, Spawning,
         Args
<1>3. /\ ActiveWorkers' = ActiveWorkers \cup {job'}
      /\ job' \notin ActiveWorkers
  BY <1>2 DEF SpawnWorker, ActiveWorkers, Active, TypeInv, TypeOK, Accounts
<1>4. Cardinality(ActiveWorkers') = Cardinality(ActiveWorkers) + 1
  BY <1>2, <1>3, ActiveFinite, FS_AddElement
<1>5. ActiveWorkers' \subseteq 1..job'
  BY <1>2, <1>3 DEF Accounts
<1>6. Cardinality(ActiveWorkers) \in Nat /\ Cardinality(ActiveWorkers) + 1 <= job'
  <2>1. Cardinality(ActiveWorkers) \in Nat /\ Cardinality(ActiveWorkers) <= job
    BY <1>2, ActiveFinite, ActiveBelow DEF Accounts
  <2> QED
    BY <1>2, <2>1
<1>7. \/ pc' = "gprbuild" /\ totalJobs' = totalJobs - numJobs + job'
      \/ pc' = "wait" /\ totalJobs' = totalJobs
      \/ pc' = "spawn" /\ totalJobs' = totalJobs /\ job' < processNum
      \/ pc' = "gprbuild" /\ totalJobs' = totalJobs /\ job' = numJobs
  BY <1>2 DEF SpawnWorker, ExitTotal, MustWait, AfterJob
<1>8. totalJobs = numJobs + Compiled /\ Compiled' = Compiled /\ Compiled \in {0, 1}
  BY <1>2 DEF Accounts, Compiled
<1>9. Active(job)'
  BY <1>2, <1>3 DEF ActiveWorkers
<1>10. Accounts'
  BY <1>2, <1>4, <1>5, <1>6, <1>7, <1>8, <1>9 DEF Accounts, WaitsOK, Spawning
<1>11. Limit'
  BY <1>2, <1>4, <1>6, <1>7 DEF Limit, WaitsOK
<1> QED
  BY <1>1, <1>10, <1>11

\* A step that leaves the children and the counters of the driver alone.
LEMMA SameAccount ==
  ASSUME AccountInv, TypeInv', ActiveWorkers' = ActiveWorkers,
         UNCHANGED <<args, pc, plan, totalJobs, current, job, toolFailures>>,
         gprbuild' # "invalid" <=> gprbuild # "invalid"
  PROVE  AccountInv'
<1>1. Live' = Live
  BY DEF Live, GprbuildActive
<1>2. pc = "wait" => (Active(job) <=> job \in ActiveWorkers)
                  /\ (Active(job)' <=> job \in ActiveWorkers')
  BY DEF AccountInv, TypeInv, PcOK, ActiveWorkers, plan, Active
<1>3. Accounts'
  BY <1>1, <1>2 DEF AccountInv, Accounts, WaitsOK, Compiled, plan, Spawning, Active
<1>4. Limit'
  BY DEF AccountInv, Limit, WaitsOK, plan
<1> QED
  BY <1>3, <1>4 DEF AccountInv

LEMMA ChildAccount ==
  AccountInv /\ ((\E j \in 1..numJobs : WorkerExits(j)) \/ GprbuildExits) => AccountInv'
<1>1. ASSUME AccountInv, NEW j \in 1..numJobs, WorkerExits(j) PROVE AccountInv'
  <2>1. TypeInv'
    BY <1>1, ChildType DEF AccountInv
  <2>2. ActiveWorkers' = ActiveWorkers
    BY <1>1 DEF WorkerExits, ActiveWorkers, Active, AccountInv, TypeInv, TypeOK,
                Exited, plan
  <2> QED
    BY <1>1, <2>1, <2>2, SameAccount DEF WorkerExits, loop
<1>2. ASSUME AccountInv, GprbuildExits PROVE AccountInv'
  <2>1. TypeInv'
    BY <1>2, ChildType DEF AccountInv
  <2>2. ActiveWorkers' = ActiveWorkers
    BY <1>2 DEF GprbuildExits, ActiveWorkers, Active, plan
  <2> QED
    BY <1>2, <2>1, <2>2, SameAccount DEF GprbuildExits, loop
<1> QED
  BY <1>1, <1>2

LEMMA SpawnOtherAccount ==
  AccountInv /\ (SpawnGprbuild \/ SpawnFails \/ Finish) => AccountInv'
<1> USE DEF AccountInv
<1>1. ASSUME AccountInv, SpawnGprbuild PROVE AccountInv'
  <2>1. TypeInv'
    BY <1>1, SpawnType
  <2>2. ActiveWorkers' = ActiveWorkers
    BY <1>1 DEF SpawnGprbuild, ActiveWorkers, Active, plan
  <2>3. /\ pc = "gprbuild" /\ pc' = "drain"
        /\ UNCHANGED <<args, processNum, totalJobs, current, job, toolFailures>>
        /\ gprbuild = "invalid" /\ totalJobs = job + Compiled
    BY <1>1 DEF SpawnGprbuild, plan, loop, Accounts, Spawning
  <2>4. Live' = Cardinality(ActiveWorkers) + Compiled
    BY <1>1, <2>1, <2>2, LiveType, ActiveFinite
    DEF SpawnGprbuild, Compiled, Live, GprbuildActive, TypeInv, TypeOK
  <2>5. Cardinality(ActiveWorkers) \in Nat /\ Compiled \in Nat
        /\ current \in Int /\ job \in Nat
    BY <1>1, ActiveFinite DEF TypeInv, TypeOK, Compiled
  <2>6. Accounts'
    BY <1>1, <2>2, <2>3, <2>4, <2>5 DEF Accounts, WaitsOK, Spawning
  <2>7. Limit'
    BY <1>1, <2>2, <2>3 DEF Limit, WaitsOK
  <2> QED
    BY <2>1, <2>6, <2>7
<1>2. ASSUME AccountInv, SpawnFails PROVE AccountInv'
  <2>1. TypeInv'
    BY <1>2, SpawnType
  <2>2. ActiveWorkers' = ActiveWorkers
    BY <1>2 DEF SpawnFails, ActiveWorkers, Active, plan
  <2>3. pc' = "aborted" /\ pc \in {"spawn", "gprbuild"}
        /\ UNCHANGED <<args, processNum, toolFailures>>
    BY <1>2 DEF SpawnFails, plan
  <2>4. ActiveWorkers' \subseteq 1..job'
    <3>1. job' \in {job, job + 1} /\ job \in Nat
      BY <1>2 DEF SpawnFails, WriteList, loop, TypeInv, TypeOK
    <3> QED
      BY <1>2, <2>2, <3>1 DEF Accounts
  <2>5. Accounts'
    BY <2>3, <2>4 DEF Accounts, Spawning
  <2>6. Limit'
    BY <1>2, <2>2, <2>3 DEF Limit, WaitsOK
  <2> QED
    BY <2>1, <2>5, <2>6
<1>3. ASSUME AccountInv, Finish PROVE AccountInv'
  <2>1. TypeInv'
    BY <1>3, EndType
  <2>2. ActiveWorkers' = ActiveWorkers /\ Live' = Live
    BY <1>3 DEF Finish, ActiveWorkers, Active, plan, Live, GprbuildActive
  <2>3. /\ pc = "drain" /\ pc' = "done" /\ current = totalJobs
        /\ UNCHANGED <<args, processNum, totalJobs, current, job, toolFailures>>
    BY <1>3 DEF Finish, plan, loop, Drained
  <2>4. Accounts'
    BY <1>3, <2>2, <2>3 DEF Accounts, WaitsOK, Spawning
  <2>5. Limit'
    BY <1>3, <2>2, <2>3 DEF Limit, WaitsOK
  <2> QED
    BY <2>1, <2>4, <2>5
<1> QED
  BY <1>1, <1>2, <1>3

\* Where a wait ends: the count of children waited for has gone down by one, or
\* the wait has failed and the accounts no longer matter.
LEMMA WaitAccount ==
  ASSUME AccountInv, TypeInv', Waiting, pc' = AfterWait,
         UNCHANGED <<args, plan, totalJobs, loop>>,
         ActiveWorkers' \subseteq ActiveWorkers,
         gprbuild' \in {"invalid", gprbuild},
         WaitsOK' => /\ WaitsOK
                     /\ current' = current + 1
                     /\ Live' + 1 = Live
  PROVE  AccountInv'
<1> USE DEF AccountInv
<1>1. /\ pc' \in {"spawn", "gprbuild", "drain"}
      /\ pc = "drain" <=> pc' = "drain"
      /\ pc' = "gprbuild" => job = numJobs
      /\ pc \in {"wait", "drain"}
  BY DEF Waiting, AfterWait, AfterJob, TypeInv, PcOK
<1>2. /\ job' = job /\ processNum' = processNum /\ args' = args
      /\ totalJobs' = totalJobs /\ numJobs' = numJobs
      /\ job \in Nat /\ processNum \in Nat /\ numJobs \in Nat
      /\ current \in Int /\ totalJobs \in Int
  BY DEF plan, loop, TypeInv, TypeOK
<1>3. /\ Cardinality(ActiveWorkers) \in Nat
      /\ Cardinality(ActiveWorkers)' \in Nat
      /\ Live \in Nat /\ Live' \in Nat
  <2>1. IsFiniteSet(ActiveWorkers)
    BY <1>2, ActiveFinite
  <2> QED
    BY <2>1, FS_Subset, FS_CardinalityType, LiveType DEF TypeInv, Live, GprbuildActive
<1>4. pc = "wait" => /\ gprbuild = "invalid" /\ gprbuild' = "invalid"
                     /\ Live = Cardinality(ActiveWorkers)
                     /\ Live' = Cardinality(ActiveWorkers)'
  <2>1. pc = "wait" => gprbuild = "invalid"
    BY DEF Accounts, Spawning
  <2> QED
    BY <1>3, <2>1 DEF Live, GprbuildActive
<1>5. Cardinality(ActiveWorkers)' <= Cardinality(ActiveWorkers)
  BY <1>2, ActiveFinite, FS_Subset
<1>6. pc = "wait" => totalJobs = numJobs + Compiled /\ Compiled' = Compiled
  BY <1>2 DEF Accounts, Compiled
<1>7. Accounts'
  <2>1. ActiveWorkers' \subseteq 1..job'
    BY <1>2 DEF Accounts
  <2>2. CASE pc = "wait"
    <3>1. WaitsOK' => current' + Cardinality(ActiveWorkers)' = job'
      BY <1>2, <1>3, <1>4, <2>2 DEF Accounts, Spawning
    <3>2. pc' = "gprbuild" => totalJobs' = job' + Compiled'
      BY <1>1, <1>2, <1>6, <2>2
    <3>3. pc' = "spawn" => totalJobs' = numJobs' + Compiled'
      BY <1>2, <1>6, <2>2
    <3>4. gprbuild' = "invalid" /\ pc' \in {"spawn", "gprbuild"}
      BY <1>1, <1>4, <2>2
    <3> QED
      BY <2>1, <3>1, <3>2, <3>3, <3>4 DEF Accounts, Spawning
  <2>3. CASE pc = "drain"
    <3>1. pc' = "drain"
      BY <1>1, <2>3
    <3>2. WaitsOK => current + Live = totalJobs
      BY <2>3 DEF Accounts
    <3> DEFINE after == Live'
    <3> HIDE DEF after
    <3>3. after \in Nat /\ (WaitsOK' => after + 1 = Live)
      BY <1>3 DEF after
    <3>4. WaitsOK' => current' + after = totalJobs
      BY <1>2, <1>3, <3>2, <3>3
    <3>5. WaitsOK' => current' + Live' = totalJobs'
      BY <1>2, <3>4 DEF after
    <3> QED
      BY <2>1, <3>1, <3>5 DEF Accounts, Spawning
  <2> QED
    BY <1>1, <2>2, <2>3
<1>8. Limit'
  <2>1. processNum' <= args.jobs' /\ (WaitsOK => Cardinality(ActiveWorkers) <= processNum)
    BY <1>1, <1>2 DEF Limit
  <2>2. pc' = "spawn" => pc = "wait"
    BY <1>1
  <2>3. WaitsOK' /\ pc' = "spawn" => Cardinality(ActiveWorkers)' < processNum'
    BY <1>2, <1>3, <1>4, <2>1, <2>2
  <2>4. WaitsOK' => Cardinality(ActiveWorkers)' <= processNum'
    BY <1>2, <1>3, <1>5, <2>1
  <2> QED
    BY <2>1, <2>3, <2>4 DEF Limit
<1> QED
  BY <1>7, <1>8

LEMMA NeverAlone == AccountInv /\ WaitsOK /\ Waiting => Live > 0
<1> SUFFICES ASSUME AccountInv, WaitsOK, Waiting PROVE Live > 0
  OBVIOUS
<1> USE DEF AccountInv
<1>1. Live \in Nat /\ current \in Int /\ totalJobs \in Int
  BY LiveType DEF TypeInv, TypeOK
<1>2. CASE pc = "drain"
  BY <1>1, <1>2 DEF Accounts, Waiting, Drained
<1>3. CASE pc = "wait"
  <2>1. job \in ActiveWorkers /\ gprbuild = "invalid" /\ numJobs \in Nat
    BY <1>3 DEF Accounts, Spawning, TypeInv, TypeOK, PcOK, ActiveWorkers
  <2>2. Live = Cardinality(ActiveWorkers)
    BY <2>1, LiveType DEF TypeInv
  <2> QED
    BY <1>1, <2>1, <2>2, ActiveFinite
<1> QED
  BY <1>2, <1>3 DEF Waiting

LEMMA ReapGprbuildFailures ==
  ASSUME TypeOK, ReapGprbuild
  PROVE  /\ toolFailures' \in Nat /\ toolFailures' >= toolFailures
         /\ internalErrors' \in Nat /\ internalErrors' >= internalErrors
<1>1. PICK boxed \in SUBSET args.uncompilable :
        toolFailures' = toolFailures + Cardinality(New("bug_box", boxed))
  BY DEF ReapGprbuild
<1>2. New("bug_box", boxed) \subseteq Sources
  BY DEF New, TypeOK, Args
<1>3. IsFiniteSet(Sources)
  BY SourcesFinite
<1>4. Cardinality(New("bug_box", boxed)) \in Nat
  BY <1>2, <1>3, FS_Subset, FS_CardinalityType
<1>5. \E n \in 0..1 : internalErrors' = internalErrors + n
  BY DEF ReapGprbuild
<1> QED
  BY <1>1, <1>4, <1>5 DEF TypeOK

LEMMA ReapAccount ==
  AccountInv /\ ((\E j \in 1..numJobs : ReapWorker(j)) \/ ReapGprbuild \/ WaitFails)
    => AccountInv'
<1> USE DEF AccountInv
<1>1. ASSUME AccountInv, NEW j \in 1..numJobs, ReapWorker(j) PROVE AccountInv'
  <2>1. TypeInv'
    BY <1>1, ReapWorkerType
  <2>2. ActiveWorkers' = ActiveWorkers \ {j} /\ j \in ActiveWorkers
    BY <1>1 DEF ReapWorker, ActiveWorkers, Active, TypeInv, TypeOK, plan, Exited
  <2>3. Cardinality(ActiveWorkers') = Cardinality(ActiveWorkers) - 1
        /\ Cardinality(ActiveWorkers) \in Nat
    BY <1>1, <2>2, ActiveFinite, FS_RemoveElement DEF TypeInv, TypeOK
  <2>4. Live' + 1 = Live
    BY <1>1, <2>3 DEF Live, GprbuildActive, ReapWorker
  <2>5. toolFailures' \in {toolFailures, toolFailures + 1} /\ toolFailures \in Nat
    BY <1>1 DEF ReapWorker, LoadReport, TypeInv, TypeOK
  <2>6. /\ Waiting /\ pc' = AfterWait /\ current' = current + 1
        /\ UNCHANGED <<args, plan, totalJobs, loop, gprbuild>>
    BY <1>1 DEF ReapWorker
  <2>7. WaitsOK' => WaitsOK
    BY <2>5, <2>6 DEF WaitsOK
  <2> QED
    BY <1>1, <2>1, <2>2, <2>4, <2>6, <2>7, WaitAccount
<1>2. ASSUME AccountInv, ReapGprbuild PROVE AccountInv'
  <2>1. TypeInv' /\ toolFailures \in Nat
    BY <1>2, ReapGprbuildType DEF TypeInv, TypeOK
  <2>2. /\ Waiting /\ pc' = AfterWait /\ current' = current + 1
        /\ gprbuild = "exited" /\ gprbuild' = "invalid"
        /\ UNCHANGED <<args, plan, totalJobs, loop, worker>>
    BY <1>2 DEF ReapGprbuild
  <2>3. ActiveWorkers' = ActiveWorkers
    BY <2>2 DEF ActiveWorkers, Active, plan
  <2>4. Live' + 1 = Live
    BY <1>2, <2>2, <2>3, ActiveFinite DEF Live, GprbuildActive, TypeInv, TypeOK
  <2>5. WaitsOK' => WaitsOK
    BY <1>2, <2>2, ReapGprbuildFailures DEF WaitsOK, TypeInv, TypeOK
  <2> QED
    BY <1>2, <2>1, <2>2, <2>3, <2>4, <2>5, WaitAccount
<1>3. ASSUME AccountInv, WaitFails PROVE AccountInv'
  <2>1. TypeInv'
    BY <1>3, EndType
  <2>2. /\ Waiting /\ pc' = AfterWait
        /\ args.badWait \/ Live = 0
        /\ toolFailures' = toolFailures + 1
        /\ UNCHANGED <<args, plan, totalJobs, loop, worker, gprbuild>>
    BY <1>3 DEF WaitFails
  <2>3. ActiveWorkers' = ActiveWorkers
    BY <2>2 DEF ActiveWorkers, Active, plan
  <2>4. args.badWait
    BY <1>3, <2>2, NeverAlone DEF WaitsOK
  <2>5. ~WaitsOK'
    BY <1>3, <2>2, <2>4 DEF WaitsOK, TypeInv, TypeOK
  <2> QED
    BY <1>3, <2>1, <2>2, <2>3, <2>5, WaitAccount
<1> QED
  BY <1>1, <1>2, <1>3

LEMMA NextAccount == AccountInv /\ [Next]_vars => AccountInv'
<1> SUFFICES ASSUME AccountInv, [Next]_vars PROVE AccountInv'
  OBVIOUS
<1>1. CASE UNCHANGED vars
  <2>1. ActiveWorkers' = ActiveWorkers
    BY <1>1 DEF vars, plan, ActiveWorkers, Active
  <2>2. TypeInv'
    BY <1>1, NextType DEF AccountInv
  <2> QED
    BY <1>1, <2>1, <2>2, SameAccount DEF vars, loop
<1>2. CASE Next /\ ~UNCHANGED vars
  BY <1>2, StartAccount, SpawnWorkerAccount, SpawnOtherAccount, ChildAccount,
     ReapAccount
  DEF Next, Driver, Terminated
<1> QED
  BY <1>1, <1>2

LEMMA AccountInvariant == Spec => []AccountInv
BY InitAccount, NextAccount, PTL DEF Spec

\* Wait_Lkql_Checker is never called without an active child: its error for
\* that case shows only failures of the system's wait.
THEOREM SpuriousWait == Spec => []NoSpuriousWait
<1>1. AccountInv => NoSpuriousWait
  BY NeverAlone DEF NoSpuriousWait, WaitsOK, AccountInv, TypeInv
<1> QED
  BY <1>1, AccountInvariant, PTL

\* A run that ends has reaped all it spawned.
THEOREM Orphans == Spec => []NoOrphans
<1>1. AccountInv => NoOrphans
  BY LiveType DEF NoOrphans, WaitsOK, AccountInv, Accounts, TypeInv, TypeOK
<1> QED
  BY <1>1, AccountInvariant, PTL

\* There are never more workers than -j allows.
THEOREM WorkerLimit == Spec => []WorkersWithinJobs
<1>1. AccountInv => WorkersWithinJobs
  <2> SUFFICES ASSUME AccountInv, ~args.badWait
               PROVE  Cardinality(ActiveWorkers) <= args.jobs
    BY DEF WorkersWithinJobs
  <2>1. args.jobs \in Nat /\ processNum \in Nat /\ numJobs \in Nat
    BY DEF AccountInv, TypeInv, TypeOK, Args
  <2>2. CASE pc = "start"
    <3>1. ActiveWorkers = {}
      BY <2>2 DEF AccountInv, TypeInv, PcOK, ActiveWorkers
    <3> QED
      BY <2>1, <3>1, FS_EmptySet
  <2>3. CASE pc # "start"
    BY <2>1, <2>3, ActiveFinite DEF AccountInv, Limit, WaitsOK
  <2> QED
    BY <2>2, <2>3
<1> QED
  BY <1>1, AccountInvariant, PTL
=============================================================================
