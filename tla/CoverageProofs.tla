--------------------------- MODULE CoverageProofs ---------------------------
(***************************************************************************)
(* No source is lost without a trace: proofs for every number of sources   *)
(* and jobs.  The first part is about the splitting of the sources, the    *)
(* second about the reports of the workers.                                *)
(***************************************************************************)
EXTENDS JobSchedulerProofs

-----------------------------------------------------------------------------
(* The lists *)

Sent    == UNION {list[i] : i \in 1..job}
AllSent == ToProcess \subseteq Sent
Before  == {sf \in ToProcess : sf < nextSF}

\* As long as sources remain to be sent, every list sent is full, so that
\* Num_Jobs lists are enough.
Splitting ==
  /\ pc = "start" => nextSF = 1
  /\ \A i \in 1..numJobs : list[i] \subseteq ToProcess
  /\ Before \subseteq Sent
  /\ pc # "start" => /\ filesPerJob \in Nat \ {0}
                     /\ numJobs * filesPerJob >= Cardinality(ToProcess)
  /\ pc \in {"spawn", "wait"} =>
       AllSent \/ Cardinality(Before) = job * filesPerJob
  /\ pc \in {"gprbuild", "drain", "done"} => AllSent

SplitInv == TypeInv /\ Splitting

LEMMA BeforeFinite ==
  ASSUME TypeOK
  PROVE  /\ IsFiniteSet(Before) /\ Cardinality(Before) \in Nat
         /\ Before \subseteq ToProcess
         /\ Cardinality(Before) >= Cardinality(ToProcess) => Before = ToProcess
<1>1. IsFiniteSet(ToProcess) /\ Before \subseteq ToProcess
  BY ToProcessFinite DEF TypeOK, Before
<1>2. Cardinality(Before) <= Cardinality(ToProcess)
      /\ IsFiniteSet(Before)
      /\ (Cardinality(Before) = Cardinality(ToProcess) => Before = ToProcess)
  BY <1>1, FS_Subset
<1>3. Cardinality(Before) \in Nat /\ Cardinality(ToProcess) \in Nat
  BY <1>1, <1>2, FS_CardinalityType
<1> QED
  BY <1>1, <1>2, <1>3

\* When Num_Jobs lists are full, they hold every source.
LEMMA AllListsAreEnough ==
  ASSUME SplitInv, pc # "start", job = numJobs,
         AllSent \/ Cardinality(Before) = job * filesPerJob
  PROVE  AllSent
<1>1. CASE Cardinality(Before) = job * filesPerJob
  <2>1. Before = ToProcess
    BY <1>1, BeforeFinite DEF SplitInv, Splitting, TypeInv
  <2> QED
    BY <2>1 DEF SplitInv, Splitting, AllSent
<1> QED
  BY <1>1

LEMMA InitSplit == Init => SplitInv
<1> SUFFICES ASSUME Init PROVE SplitInv
  OBVIOUS
<1>1. Before = {}
  BY DEF Init, Idle, Before, ToProcess, ArgSources, Args, Sources
<1> QED
  BY <1>1, InitType DEF SplitInv, Splitting, Init, Idle

LEMMA StartSplit == SplitInv /\ Start => SplitInv'
<1> SUFFICES ASSUME SplitInv, Start PROVE SplitInv'
  OBVIOUS
<1> USE DEF SplitInv
<1> DEFINE n == Cardinality(ToProcess)
           p == JobPlan(n, args.jobs)
<1>1. TypeInv'
  BY StartType
<1>2. n \in Nat \ {0} /\ args.jobs \in Nat \ {0}
  BY ToProcessFinite DEF TypeInv, TypeOK, Args, PcOK, Start
<1>3. /\ pc' = "spawn" /\ pc = "start" /\ job' = 0 /\ nextSF' = 1 /\ args' = args
      /\ filesPerJob' = p.files /\ numJobs' = p.jobs
      /\ list' = [j \in 1..p.jobs |-> {}]
  BY DEF Start, TypeInv, PcOK, Splitting
<1>4. p.files \in Nat \ {0} /\ p.jobs * p.files >= n
  BY <1>2, JobPlanFits
<1>5. Before' = {} /\ ToProcess' = ToProcess
  BY <1>3 DEF Before, ToProcess, ArgSources, TypeInv, TypeOK, Args, Sources
<1>6. Cardinality(Before') = 0 /\ 0 * filesPerJob' = 0
  BY <1>3, <1>4, <1>5, FS_EmptySet
<1>7. numJobs' * filesPerJob' >= Cardinality(ToProcess')
  BY <1>3, <1>4, <1>5
<1>8. \A i \in 1..numJobs' : list'[i] \subseteq ToProcess'
  BY <1>3
<1> QED
  BY <1>1, <1>3, <1>4, <1>5, <1>6, <1>7, <1>8 DEF Splitting

\* What WriteList sends: the next list is full, or it completes the sources.
LEMMA WriteListSends ==
  ASSUME SplitInv, pc = "spawn", WriteList, UNCHANGED <<args, plan>>
  PROVE  /\ \A i \in 1..numJobs' : list'[i] \subseteq ToProcess'
         /\ Before' \subseteq Sent'
         /\ AllSent' \/ Cardinality(Before') = job' * filesPerJob'
         /\ nextSF' > args.last => AllSent'
<1> USE DEF SplitInv
<1>1. /\ job \in Nat /\ job' = job + 1 /\ job < numJobs /\ numJobs \in Nat
      /\ filesPerJob \in Nat /\ nextSF \in Nat /\ args.last \in Nat
      /\ filesPerJob' = filesPerJob /\ numJobs' = numJobs
      /\ list \in [1..numJobs -> SUBSET Sources]
  BY DEF TypeInv, TypeOK, PcOK, WriteList, plan, Args, Sources
<1>2. ToProcess' = ToProcess /\ \A sf \in ToProcess : sf \in Nat /\ sf <= args.last
  BY DEF ToProcess, ArgSources, TypeInv, TypeOK, Args, Sources
<1>3. \A i \in 1..job : list'[i] = list[i]
  BY <1>1 DEF WriteList
<1>4. Sent' = Sent \cup list'[job'] /\ 1..job' = 1..job \cup {job'}
  <2>1. 1..job' = 1..job \cup {job'}
    BY <1>1
  <2> QED
    BY <1>3, <2>1 DEF Sent
<1>5. list'[job'] \subseteq Remaining /\ Remaining \subseteq ToProcess
  BY <1>1 DEF WriteList, Remaining
<1>6. \A i \in 1..numJobs' : list'[i] \subseteq ToProcess'
  <2>1. \A i \in 1..numJobs : i # job' => list'[i] = list[i]
    BY <1>1 DEF WriteList
  <2> QED
    BY <1>1, <1>2, <1>5, <2>1 DEF Splitting
<1>7. AllSent => AllSent'
  BY <1>2, <1>4 DEF AllSent
<1>8. Before \cup Remaining = ToProcess /\ Before \cap Remaining = {}
  BY <1>1, <1>2 DEF Before, Remaining
<1>9. CASE /\ Stops = {}
           /\ list' = [list EXCEPT ![job + 1] = Remaining]
           /\ UNCHANGED nextSF
  <2>1. list'[job'] = Remaining /\ Before' = Before
    BY <1>1, <1>2, <1>9 DEF Before
  <2>2. AllSent'
    BY <1>2, <1>4, <1>8, <2>1 DEF AllSent, Splitting
  <2> QED
    BY <1>2, <1>4, <1>6, <2>1, <2>2 DEF Splitting
<1>10. ASSUME NEW stop \in Stops,
              list' = [list EXCEPT ![job + 1] = {sf \in Remaining : sf <= stop}],
              nextSF' = AfterStop(stop)
       PROVE  /\ Before' \subseteq Sent'
              /\ AllSent' \/ Cardinality(Before') = job' * filesPerJob'
              /\ nextSF' > args.last => AllSent'
  <2> DEFINE new == {sf \in Remaining : sf <= stop}
  <2>1. stop \in Remaining /\ stop \in Nat /\ nextSF' = stop + 1 /\ stop >= nextSF
    BY <1>2, <1>5, <1>10 DEF Stops, AfterStop, Remaining
  <2>2. list'[job'] = new
    BY <1>1, <1>10
  <2>3. Before' = Before \cup new
    <3>1. \A sf \in ToProcess :
            sf < nextSF' <=> (sf < nextSF \/ (sf >= nextSF /\ sf <= stop))
      BY <1>1, <1>2, <2>1
    <3> QED
      BY <1>2, <3>1 DEF Before, Remaining
  <2>4. Before' \subseteq Sent'
    BY <1>4, <2>2, <2>3 DEF Splitting
  <2>5. nextSF' > args.last => AllSent'
    <3>1. nextSF' > args.last => Before' = ToProcess
      BY <1>1, <1>2, <2>1 DEF Before
    <3> QED
      BY <1>2, <2>4, <3>1 DEF AllSent
  <2>6. CASE stop = args.last
    BY <1>1, <2>1, <2>4, <2>5, <2>6
  <2>7. CASE Position(stop) = filesPerJob
    <3>1. CASE AllSent
      BY <1>7, <2>4, <2>5, <3>1
    <3>2. CASE Cardinality(Before) = job * filesPerJob
      <4>1. IsFiniteSet(Before) /\ IsFiniteSet(new) /\ Before \cap new = {}
        <5>1. IsFiniteSet(ToProcess) /\ Before \subseteq ToProcess /\ new \subseteq ToProcess
          BY <1>5, ToProcessFinite DEF TypeInv, TypeOK, Before
        <5> QED
          BY <1>8, <5>1, FS_Subset
      <4>2. Cardinality(new) = filesPerJob
        BY <2>7 DEF Position
      <4>3. Cardinality(Before \cup new) = Cardinality(Before) + Cardinality(new)
                                           - Cardinality(Before \cap new)
        BY <4>1, FS_Union
      <4>4. Cardinality(Before \cap new) = 0
        BY <4>1, FS_EmptySet
      <4>5. job * filesPerJob + filesPerJob = (job + 1) * filesPerJob
        BY <1>1
      <4>6. Cardinality(Before') = job * filesPerJob + filesPerJob
        <5>1. job * filesPerJob \in Nat
          BY <1>1
        <5> QED
          BY <1>1, <2>3, <3>2, <4>2, <4>3, <4>4, <5>1
      <4> QED
        BY <1>1, <2>4, <2>5, <4>5, <4>6
    <3> QED
      BY <3>1, <3>2 DEF Splitting
  <2> QED
    BY <2>6, <2>7 DEF Stops
<1> QED
  BY <1>6, <1>9, <1>10 DEF WriteList

LEMMA SpawnWorkerSplit == SplitInv /\ SpawnWorker => SplitInv'
<1> SUFFICES ASSUME SplitInv, SpawnWorker PROVE SplitInv'
  OBVIOUS
<1> USE DEF SplitInv
<1>1. TypeInv'
  BY SpawnType
<1>2. pc = "spawn" /\ WriteList /\ UNCHANGED <<args, plan>>
  BY DEF SpawnWorker
<1>3. /\ \A i \in 1..numJobs' : list'[i] \subseteq ToProcess'
      /\ Before' \subseteq Sent'
      /\ AllSent' \/ Cardinality(Before') = job' * filesPerJob'
      /\ nextSF' > args.last => AllSent'
  BY <1>2, WriteListSends
<1>4. ToProcess' = ToProcess /\ filesPerJob' = filesPerJob /\ numJobs' = numJobs
  BY <1>2 DEF ToProcess, ArgSources, plan
<1>5. /\ filesPerJob' \in Nat \ {0}
      /\ numJobs' * filesPerJob' >= Cardinality(ToProcess')
  BY <1>2, <1>4 DEF Splitting
<1>6. pc' \in {"spawn", "wait", "gprbuild"}
      /\ (pc' = "gprbuild" => nextSF' > args.last \/ job' = numJobs)
  BY DEF SpawnWorker, AfterJob
<1>7. ASSUME job' = numJobs, ~AllSent' PROVE FALSE
  <2>1. Cardinality(Before') = numJobs' * filesPerJob'
    BY <1>3, <1>4, <1>7
  <2>2. IsFiniteSet(ToProcess') /\ Before' \subseteq ToProcess'
    BY <1>1, <1>4, ToProcessFinite DEF TypeInv, TypeOK, Before
  <2>3. Cardinality(Before') <= Cardinality(ToProcess')
        /\ (Cardinality(Before') = Cardinality(ToProcess') => Before' = ToProcess')
    BY <2>2, FS_Subset
  <2>4. Cardinality(Before') \in Nat /\ Cardinality(ToProcess') \in Nat
    BY <2>2, FS_Subset, FS_CardinalityType
  <2>5. Before' = ToProcess'
    BY <1>5, <2>1, <2>3, <2>4
  <2> QED
    BY <1>3, <1>7, <2>5 DEF AllSent
<1>8. pc' = "gprbuild" => AllSent'
  BY <1>3, <1>6, <1>7
<1> QED
  BY <1>1, <1>3, <1>5, <1>6, <1>8 DEF Splitting

\* A step that leaves the lists alone.
LEMMA OtherSplit ==
  ASSUME SplitInv, TypeInv', UNCHANGED <<args, plan, loop>>,
         \/ pc' = pc
         \/ pc # "start" /\ pc' = "aborted"
         \/ pc \in {"gprbuild", "drain"} /\ pc' \in {"drain", "done"}
         \/ Waiting /\ pc' = AfterWait
  PROVE  SplitInv'
<1> USE DEF SplitInv
<1>1. /\ ToProcess' = ToProcess /\ Sent' = Sent /\ Before' = Before
      /\ filesPerJob' = filesPerJob /\ numJobs' = numJobs /\ job' = job
      /\ nextSF' = nextSF /\ list' = list
  BY DEF plan, loop, ToProcess, ArgSources, Sent, Before
<1>2. AllSent' <=> AllSent
  BY <1>1 DEF AllSent
<1>3. CASE pc' = pc \/ (pc # "start" /\ pc' = "aborted")
  BY <1>1, <1>2, <1>3 DEF Splitting
<1>4. CASE pc \in {"gprbuild", "drain"} /\ pc' \in {"drain", "done"}
  BY <1>1, <1>2, <1>4 DEF Splitting
<1>5. CASE Waiting /\ pc' = AfterWait
  <2>1. \/ pc = "drain" /\ pc' = "drain"
        \/ pc = "wait" /\ pc' = "spawn"
        \/ pc = "wait" /\ pc' = "gprbuild" /\ job = numJobs
    BY <1>5 DEF Waiting, AfterWait, AfterJob
  <2>2. pc = "wait" /\ job = numJobs => AllSent
    BY AllListsAreEnough DEF Splitting
  <2> QED
    BY <1>1, <1>2, <2>1, <2>2 DEF Splitting
<1> QED
  BY <1>3, <1>4, <1>5

LEMMA NextSplit == SplitInv /\ [Next]_vars => SplitInv'
<1> SUFFICES ASSUME SplitInv, [Next]_vars PROVE SplitInv'
  OBVIOUS
<1>1. TypeInv'
  BY NextType DEF SplitInv
<1>2. CASE UNCHANGED vars
  BY <1>1, <1>2, OtherSplit DEF vars
<1>3. CASE SpawnGprbuild \/ Finish
  BY <1>1, <1>3, OtherSplit DEF SpawnGprbuild, Finish
<1>4. CASE SpawnFails
  <2>1. CASE WriteList /\ pc = "spawn"
    <3>1. pc' = "aborted" /\ UNCHANGED <<args, plan>>
      BY <1>4 DEF SpawnFails
    <3>2. /\ \A i \in 1..numJobs' : list'[i] \subseteq ToProcess'
          /\ Before' \subseteq Sent'
      BY <2>1, <3>1, WriteListSends
    <3>3. ToProcess' = ToProcess /\ filesPerJob' = filesPerJob /\ numJobs' = numJobs
      BY <3>1 DEF ToProcess, ArgSources, plan
    <3> QED
      BY <1>1, <2>1, <3>1, <3>2, <3>3 DEF SplitInv, Splitting
  <2>2. CASE pc = "gprbuild" /\ UNCHANGED loop
    BY <1>1, <1>4, <2>2, OtherSplit DEF SpawnFails
  <2> QED
    BY <1>4, <2>1, <2>2 DEF SpawnFails
<1>5. CASE (\E j \in 1..numJobs : ReapWorker(j)) \/ ReapGprbuild \/ WaitFails
  BY <1>1, <1>5, OtherSplit DEF ReapWorker, ReapGprbuild, WaitFails
<1>6. CASE (\E j \in 1..numJobs : WorkerExits(j)) \/ GprbuildExits
  BY <1>1, <1>6, OtherSplit DEF WorkerExits, GprbuildExits
<1> QED
  BY <1>2, <1>3, <1>4, <1>5, <1>6, StartSplit, SpawnWorkerSplit
  DEF Next, Driver, Terminated

-----------------------------------------------------------------------------
(* The reports *)

\* The results of job i are there: its sources are analysed, and the illegal
\* ones among them have an error.
Loaded(i) ==
  /\ list[i] \subseteq analysed
  /\ \A sf \in list[i] \cap args.illegal : <<"worker", sf>> \in diags

\* Whatever was reaped is loaded, or a failure is counted.
Reports ==
  /\ pc = "start" => analysed = {}
  /\ analysed \subseteq ToProcess
  /\ pc # "aborted" => \A i \in 1..job : ~Active(i) => Failed \/ Loaded(i)

ReportInv == AccountInv /\ SplitInv /\ Reports

LEMMA InitReport == Init => ReportInv
<1> SUFFICES ASSUME Init PROVE ReportInv
  OBVIOUS
<1>1. 1..job = {}
  BY DEF Init, Idle
<1> QED
  BY <1>1, InitAccount, InitSplit DEF ReportInv, Reports, Init, Idle

\* Counters only grow.
LEMMA FailedGrows ==
  ASSUME TypeOK, Failed, [Next]_vars, pc # "start"
  PROVE  Failed'
<1>1. toolFailures \in Nat /\ internalErrors \in Nat
  BY DEF TypeOK
<1>3. CASE ReapGprbuild
  BY <1>1, <1>3, ReapGprbuildFailures DEF Failed
<1>4. CASE \E j \in 1..numJobs : ReapWorker(j)
  BY <1>1, <1>4 DEF Failed, ReapWorker, LoadReport
<1>5. CASE ~ReapGprbuild /\ ~(\E j \in 1..numJobs : ReapWorker(j))
  BY <1>1, <1>5 DEF Failed, Next, Driver, Start, SpawnWorker, SpawnGprbuild, SpawnFails,
     WaitFails, Finish, WorkerExits, GprbuildExits, Terminated, found, vars
<1> QED
  BY <1>3, <1>4, <1>5

\* What is loaded remains so while the results only grow.
LEMMA LoadedGrows ==
  ASSUME NEW i, Loaded(i), list'[i] = list[i], args' = args,
         analysed \subseteq analysed', diags \subseteq diags'
  PROVE  Loaded(i)'
BY DEF Loaded

LEMMA ReapWorkerReport ==
  ASSUME ReportInv, NEW j \in 1..numJobs, ReapWorker(j), Failed => Failed'
  PROVE  Reports'
<1> USE DEF ReportInv
<1>1. /\ job \in Nat /\ numJobs \in Nat /\ list' = list /\ args' = args /\ job' = job
      /\ toolFailures \in Nat /\ internalErrors \in Nat
      /\ worker \in [1..numJobs -> Handles] /\ diags \subseteq diags'
      /\ worker' = [worker EXCEPT ![j] = "invalid"] /\ pc' # "start"
      /\ 1..job \subseteq 1..numJobs
  BY DEF AccountInv, TypeInv, TypeOK, ReapWorker, LoadReport, loop, AfterWait,
         AfterJob, Waiting
<1>2. ToProcess' = ToProcess /\ list[j] \subseteq ToProcess
  BY <1>1 DEF ToProcess, ArgSources, SplitInv, Splitting
<1>3. CASE Failed' /\ analysed' = analysed
  BY <1>1, <1>2, <1>3 DEF Reports
<1>4. CASE /\ analysed' = analysed \cup list[j]
           /\ diags' = diags \cup {<<"worker", sf>> :
                                     sf \in New("worker", list[j] \cap args.illegal)}
  <2>1. Loaded(j)'
    BY <1>1, <1>4 DEF Loaded, New
  <2>2. analysed' \subseteq ToProcess'
    BY <1>2, <1>4 DEF Reports
  <2>3. ASSUME NEW i \in 1..job, i # j, ~Active(i)'
        PROVE  Failed' \/ Loaded(i)'
    <3>1. ~Active(i)
      BY <1>1, <2>3 DEF Active
    <3>2. Failed \/ Loaded(i)
      <4>1. pc # "aborted"
        BY DEF ReapWorker, Waiting
      <4> QED
        BY <3>1, <4>1 DEF Reports
    <3> QED
      BY <1>1, <1>4, <3>2, LoadedGrows
  <2> QED
    BY <1>1, <2>1, <2>2, <2>3 DEF Reports
<1>5. internalErrors' = internalErrors + 1 => Failed'
  BY <1>1 DEF Failed
<1> QED
  BY <1>3, <1>4, <1>5 DEF ReapWorker, LoadReport

\* A step that loads nothing and starts no job.
LEMMA OtherReport ==
  ASSUME ReportInv, Failed => Failed', pc # "start" \/ pc' = pc,
         UNCHANGED <<args, loop, analysed>>, diags \subseteq diags',
         \A i \in 1..job : Active(i)' <=> Active(i),
         pc = "aborted" => pc' = "aborted",
         pc' = "start" => pc = "start"
  PROVE  Reports'
<1> USE DEF ReportInv
<1>1. ToProcess' = ToProcess /\ job' = job /\ list' = list
  BY DEF ToProcess, ArgSources, loop
<1>2. \A i \in 1..job : Loaded(i) => Loaded(i)'
  BY <1>1, LoadedGrows
<1> QED
  BY <1>1, <1>2 DEF Reports

LEMMA NextReport == ReportInv /\ [Next]_vars => ReportInv'
<1> SUFFICES ASSUME ReportInv, [Next]_vars PROVE ReportInv'
  OBVIOUS
<1> USE DEF ReportInv
<1>1. AccountInv' /\ SplitInv'
  BY NextAccount, NextSplit
<1>2. TypeOK /\ TypeOK'
  BY <1>1 DEF AccountInv, TypeInv
<1>3. pc # "start" /\ Failed => Failed'
  BY <1>2, FailedGrows
<1>4. CASE UNCHANGED vars
  <2>1. Failed' <=> Failed
    BY <1>4 DEF vars, found, Failed
  <2>2. \A i \in 1..job : Active(i)' <=> Active(i)
    BY <1>4 DEF vars, Active
  <2> QED
    BY <1>1, <1>4, <2>1, <2>2, OtherReport DEF vars, found
<1>5. CASE Start
  <2>1. 1..job' = {} /\ analysed' = {}
    BY <1>2, <1>5 DEF Start, Reports, AccountInv, TypeInv, PcOK
  <2>2. pc' # "start"
    BY <1>5 DEF Start
  <2> QED
    BY <1>1, <2>1, <2>2 DEF Reports
<1>6. CASE SpawnWorker
  <2>1. /\ pc = "spawn" /\ WriteList
        /\ worker' = [worker EXCEPT ![job + 1] = "running"]
        /\ args' = args /\ analysed' = analysed /\ diags' = diags
    BY <1>6 DEF SpawnWorker
  <2>2. pc' # "start"
    BY <1>6 DEF SpawnWorker, AfterJob
  <2>3. /\ job \in Nat /\ numJobs \in Nat /\ job < numJobs
        /\ worker \in [1..numJobs -> Handles]
        /\ list \in [1..numJobs -> SUBSET Sources]
    <3>1. /\ job \in 0..numJobs /\ numJobs \in Nat
          /\ worker \in [1..numJobs -> Handles]
          /\ list \in [1..numJobs -> SUBSET Sources]
      BY <1>2 DEF TypeOK
    <3>2. job < numJobs
      BY <2>1 DEF AccountInv, TypeInv, PcOK
    <3> QED
      BY <3>1, <3>2
  <2>4. /\ job' = job + 1
        /\ \A i \in 1..numJobs : i # job + 1 => list'[i] = list[i]
    BY <2>1, <2>3 DEF WriteList
  <2>5. worker'[job + 1] # "invalid"
    BY <2>1, <2>3
  <2>6. \A i \in 1..job : list'[i] = list[i] /\ worker'[i] = worker[i]
    BY <2>1, <2>3, <2>4
  <2>7. ASSUME NEW i \in 1..job', ~Active(i)'
        PROVE  Failed' \/ Loaded(i)'
    <3>1. i \in 1..job
      BY <2>3, <2>4, <2>5, <2>7 DEF Active
    <3>2. ~Active(i)
      BY <2>6, <2>7, <3>1 DEF Active
    <3>3. Failed \/ Loaded(i)
      BY <2>1, <3>1, <3>2 DEF Reports
    <3> QED
      BY <1>3, <2>1, <2>6, <3>1, <3>3, LoadedGrows
  <2>8. analysed' \subseteq ToProcess'
    BY <2>1 DEF ToProcess, ArgSources, Reports
  <2> QED
    BY <1>1, <2>2, <2>7, <2>8 DEF Reports
<1>7. CASE SpawnFails
  <2>1. pc' = "aborted" /\ UNCHANGED <<args, analysed>>
    BY <1>7 DEF SpawnFails
  <2> QED
    BY <1>1, <2>1 DEF Reports, ToProcess, ArgSources
<1>8. CASE SpawnGprbuild \/ Finish
  <2>1. /\ UNCHANGED <<args, loop, analysed, diags, worker>>
        /\ pc \in {"gprbuild", "drain"} /\ pc' \in {"drain", "done"}
    BY <1>8 DEF SpawnGprbuild, Finish, found
  <2>2. \A i \in 1..job : Active(i)' <=> Active(i)
    BY <2>1 DEF Active
  <2> QED
    BY <1>1, <1>3, <2>1, <2>2, OtherReport
<1>9. CASE ReapGprbuild \/ WaitFails
  <2>1. /\ UNCHANGED <<args, loop, analysed, worker>> /\ diags \subseteq diags'
        /\ pc \in {"wait", "drain"} /\ pc' \in {"drain", "spawn", "gprbuild"}
    BY <1>9 DEF ReapGprbuild, WaitFails, found, Waiting, AfterWait, AfterJob
  <2>2. \A i \in 1..job : Active(i)' <=> Active(i)
    BY <2>1 DEF Active
  <2> QED
    BY <1>1, <1>3, <2>1, <2>2, OtherReport
<1>10. CASE (\E j \in 1..numJobs : WorkerExits(j)) \/ GprbuildExits
  <2>1. UNCHANGED <<args, pc, loop, found, toolFailures>>
    BY <1>10 DEF WorkerExits, GprbuildExits
  <2>2. \A i \in 1..job : Active(i)' <=> Active(i)
    <3>1. CASE GprbuildExits
      BY <3>1 DEF GprbuildExits, Active
    <3>2. ASSUME NEW j \in 1..numJobs, WorkerExits(j)
          PROVE  \A i \in 1..job : Active(i)' <=> Active(i)
      <4>1. PICK out \in Exited : worker' = [worker EXCEPT ![j] = out]
        BY <3>2 DEF WorkerExits
      <4>2. worker[j] # "invalid" /\ out # "invalid"
        BY <3>2 DEF WorkerExits, Exited
      <4>3. worker \in [1..numJobs -> Handles] /\ 1..job \subseteq 1..numJobs
        <5>1. worker \in [1..numJobs -> Handles] /\ numJobs \in Nat /\ job \in 0..numJobs
          BY <1>2 DEF TypeOK
        <5> QED
          BY <5>1
      <4> QED
        BY <4>1, <4>2, <4>3 DEF Active
    <3> QED
      BY <1>10, <3>1, <3>2
  <2>3. Failed' <=> Failed
    BY <2>1 DEF Failed, found
  <2> QED
    BY <1>1, <2>1, <2>2, <2>3, OtherReport DEF found
<1>11. ASSUME NEW j \in 1..numJobs, ReapWorker(j) PROVE ReportInv'
  <2>1. pc # "start"
    BY <1>11 DEF ReapWorker, Waiting
  <2> QED
    BY <1>1, <1>3, <1>11, <2>1, ReapWorkerReport
<1> QED
  BY <1>4, <1>5, <1>6, <1>7, <1>8, <1>9, <1>10, <1>11
  DEF Next, Driver, Terminated

\* At the end every handle is free, so every list is loaded.
LEMMA NothingLost == ReportInv => NoSilentLoss
<1> SUFFICES ASSUME ReportInv, pc = "done", ~Failed
             PROVE  /\ analysed = ToProcess
                    /\ \A sf \in ToProcess \cap args.illegal : <<"worker", sf>> \in diags
  BY DEF NoSilentLoss
<1> USE DEF ReportInv
<1>1. TypeOK /\ numJobs \in Nat /\ job \in 0..numJobs /\ toolFailures = 0
  BY DEF AccountInv, TypeInv, TypeOK, Failed
<1>2. Live = 0
  BY <1>1, LiveType DEF AccountInv, Accounts, WaitsOK, TypeOK
<1>3. ActiveWorkers = {}
  BY <1>1, <1>2, LiveType, ActiveFinite
<1>4. \A i \in 1..job : ~Active(i)
  BY <1>1, <1>3 DEF ActiveWorkers
<1>5. \A i \in 1..job : Loaded(i)
  BY <1>4 DEF Reports
<1>6. ToProcess \subseteq Sent
  BY DEF SplitInv, Splitting, AllSent
<1>7. \A sf \in ToProcess : \E i \in 1..job : sf \in list[i] /\ Loaded(i)
  BY <1>5, <1>6 DEF Sent
<1> QED
  BY <1>7 DEF Loaded, Reports

\* A run that ends without counting a failure has the results of all sources,
\* for every plan, every order of exits and every failure of a child or a wait.
THEOREM SilentLoss == Spec => []NoSilentLoss
BY InitReport, NextReport, NothingLost, PTL DEF Spec

-----------------------------------------------------------------------------
(* The scheduler implements the safety part of AnalysisRun. *)

LEMMA InitImplements == Init => Contract!Init
BY ToProcessFinite DEF Init, Idle, Contract!Init, verdict, Sources

\* A driver that has not ended is running; only Finish and SpawnFails end it.
LEMMA NextImplements ==
  ReportInv /\ NoSilentLoss' /\ [Next]_vars => [Contract!Next]_(Contract!vars)
<1> SUFFICES ASSUME ReportInv, NoSilentLoss', [Next]_vars,
                    ~(UNCHANGED <<ToProcess, analysed, verdict>>)
             PROVE  Contract!Next
  BY DEF Contract!vars
<1> USE DEF ReportInv
<1> DEFINE Ended(p) == p \in {"done", "aborted"}
<1>1. args' = args /\ ToProcess' = ToProcess
  <2>1. args' = args
    BY DEF Next, Driver, Start, SpawnWorker, SpawnGprbuild, SpawnFails, ReapWorker,
       ReapGprbuild, WaitFails, Finish, WorkerExits, GprbuildExits, Terminated, vars
  <2> QED
    BY <2>1 DEF ToProcess, ArgSources
<1>2. CASE ~Ended(pc) /\ ~Ended(pc')
  <2>1. verdict = "running" /\ verdict' = "running"
    BY <1>2 DEF verdict
  <2>2. analysed' = analysed \/ \E j \in 1..numJobs : analysed' = analysed \cup list[j]
    BY DEF Next, Driver, Start, SpawnWorker, SpawnGprbuild, SpawnFails, ReapWorker,
       LoadReport, ReapGprbuild, WaitFails, Finish, WorkerExits, GprbuildExits,
       Terminated, vars, found
  <2>3. PICK S \in SUBSET ToProcess : analysed' = analysed \cup S
    <3>1. \A j \in 1..numJobs : list[j] \subseteq ToProcess
      BY DEF SplitInv, Splitting
    <3>2. analysed' = analysed \cup {} \/ \E j \in 1..numJobs : analysed' = analysed \cup list[j]
      BY <2>2
    <3> QED
      BY <3>1, <3>2
  <2> QED
    BY <1>1, <2>1, <2>3 DEF Contract!Next, Contract!Analyse
<1>3. CASE ~Ended(pc) /\ pc' = "done"
  <2>1. Finish
    BY <1>3 DEF Next, Driver, Start, SpawnWorker, SpawnGprbuild, SpawnFails, ReapWorker,
       ReapGprbuild, WaitFails, AfterWait, AfterJob, WorkerExits, GprbuildExits,
       Terminated, vars
  <2>2. analysed' = analysed /\ verdict = "running"
    BY <1>3, <2>1 DEF Finish, found, verdict
  <2>3. CASE Failed'
    BY <1>1, <1>3, <2>2, <2>3 DEF verdict, Contract!Next, Contract!Fail
  <2>4. CASE ~Failed'
    <3>1. analysed' = ToProcess'
      BY <1>3, <2>4 DEF NoSilentLoss
    <3> QED
      BY <1>1, <1>3, <2>2, <2>4, <3>1 DEF verdict, Contract!Next, Contract!Trust
  <2> QED
    BY <2>3, <2>4
<1>4. CASE ~Ended(pc) /\ pc' = "aborted"
  <2>1. SpawnFails
    BY <1>4 DEF Next, Driver, Start, SpawnWorker, SpawnGprbuild, Finish, ReapWorker,
       ReapGprbuild, WaitFails, AfterWait, AfterJob, WorkerExits, GprbuildExits,
       Terminated, vars
  <2>2. analysed' = analysed /\ verdict = "running"
    BY <1>4, <2>1 DEF SpawnFails, verdict
  <2> QED
    BY <1>1, <1>4, <2>2 DEF verdict, Contract!Next, Contract!Fail
<1>5. CASE Ended(pc)
  <2>1. \/ \E j \in 1..numJobs : WorkerExits(j)
        \/ GprbuildExits
        \/ UNCHANGED vars
    BY <1>5 DEF Next, Driver, Start, SpawnWorker, SpawnGprbuild, SpawnFails, ReapWorker,
       ReapGprbuild, WaitFails, Waiting, Finish, Terminated
  <2>2. UNCHANGED <<pc, analysed, toolFailures, internalErrors>>
    BY <2>1 DEF WorkerExits, GprbuildExits, vars, found
  <2>3. verdict' = verdict
    BY <2>2 DEF verdict, Failed
  <2> QED
    BY <1>1, <2>2, <2>3
<1> QED
  BY <1>2, <1>3, <1>4, <1>5

\* Spec implements the safety part of the contract: results are only ever
\* loaded for wanted sources, and a run that is trusted has them all.
THEOREM ContractSafety == Spec => Contract!Safe
<1>1. Init => ReportInv /\ Contract!Init
  BY InitReport, InitImplements
<1>2. ReportInv /\ [Next]_vars => ReportInv'
  BY NextReport
<1>3. ReportInv /\ NoSilentLoss' /\ [Next]_vars => [Contract!Next]_(Contract!vars)
  BY NextImplements
<1> QED
  BY <1>1, <1>2, <1>3, NothingLost, PTL DEF Spec, Contract!Safe
=============================================================================
