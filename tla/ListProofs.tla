----------------------------- MODULE ListProofs -----------------------------
(***************************************************************************)
(* Proofs about JobScheduler, for every number of sources and jobs: the    *)
(* lists of the jobs are disjoint, and so no job takes back what an        *)
(* earlier one found about a source.                                       *)
(***************************************************************************)
EXTENDS CoverageProofs

-----------------------------------------------------------------------------
(* The lists of the jobs *)

\* A list holds sources that are behind Next_SF, or it is the one that did not
\* move it; then no other list will.
Passed(i) == list[i] \subseteq Before \/ (list[i] = Remaining /\ Stops = {})

ListInv ==
  /\ TypeInv
  /\ \A i \in 1..job : Passed(i)
  /\ ListsDisjoint

\* A list that does not move Next_SF holds nothing, or the last argument source
\* is ignored.
LEMMA NoStopIgnored ==
  ASSUME TypeInv, Stops = {}
  PROVE  Remaining = {} \/ args.last \in args.ignored
<1> SUFFICES ASSUME args.last \notin args.ignored PROVE Remaining = {}
  OBVIOUS
<1>1. args.last \in Nat \ {0} /\ nextSF \in Nat
  BY DEF TypeInv, TypeOK, Args, Sources
<1>2. args.last \in ToProcess
  BY <1>1 DEF ToProcess, ArgSources
<1>3. ~(args.last >= nextSF)
  BY <1>2 DEF Stops, Remaining
<1>4. \A sf \in ToProcess : sf \in Nat /\ sf <= args.last
  BY <1>1 DEF ToProcess, ArgSources
<1> QED
  BY <1>1, <1>3, <1>4 DEF Remaining

LEMMA InitList == Init => ListInv
<1> SUFFICES ASSUME Init PROVE ListInv
  OBVIOUS
<1>1. 1..job = {}
  BY DEF Init, Idle
<1> QED
  BY <1>1, InitType DEF ListInv, ListsDisjoint

\* Writing the next list keeps the lists apart.
LEMMA WriteListApart ==
  ASSUME ListInv, TypeInv', pc = "spawn", WriteList, UNCHANGED <<args, plan>>
  PROVE  ListInv'
<1> USE DEF ListInv
<1>1. /\ job \in Nat /\ job' = job + 1 /\ job < numJobs /\ numJobs \in Nat
      /\ nextSF \in Nat /\ filesPerJob' = filesPerJob /\ args' = args
      /\ list \in [1..numJobs -> SUBSET Sources]
  BY DEF TypeInv, TypeOK, PcOK, WriteList, plan
<1>2. ToProcess' = ToProcess /\ \A sf \in ToProcess : sf \in Nat
  BY <1>1 DEF ToProcess, ArgSources, TypeInv, TypeOK, Args, Sources
<1>3. \A i \in 1..job : list'[i] = list[i]
  BY <1>1 DEF WriteList
<1>4. 1..job' = 1..job \cup {job'} /\ job' \notin 1..job
  BY <1>1
<1>5. \A i, j \in 1..job :
        i # j => \/ list'[i] \cap list'[j] = {}
                 \/ list'[i] = list'[j] /\ args.last \in args.ignored
  BY <1>3 DEF ListsDisjoint
<1>6. Before \cap Remaining = {}
  BY <1>1, <1>2 DEF Before, Remaining
<1>7. CASE /\ Stops = {}
           /\ list' = [list EXCEPT ![job + 1] = Remaining]
           /\ UNCHANGED nextSF
  <2>1. Before' = Before /\ Remaining' = Remaining
    BY <1>2, <1>7 DEF Before, Remaining
  <2>2. Stops' = Stops
    BY <1>1, <2>1 DEF Stops, Position
  <2>3. list'[job'] = Remaining
    BY <1>1, <1>7
  <2>4. \A i \in 1..job' : Passed(i)'
    BY <1>3, <1>4, <1>7, <2>1, <2>2, <2>3 DEF Passed
  <2>5. ASSUME NEW i \in 1..job
        PROVE  \/ list'[i] \cap list'[job'] = {}
               \/ list'[i] = list'[job'] /\ args.last \in args.ignored
    <3>1. CASE list[i] \subseteq Before
      BY <1>3, <1>6, <2>3, <3>1
    <3>2. CASE list[i] = Remaining
      BY <1>3, <1>7, <2>3, <3>2, NoStopIgnored
    <3> QED BY <3>1, <3>2 DEF Passed
  <2> QED BY <1>1, <1>4, <1>5, <2>4, <2>5 DEF ListsDisjoint
<1>8. ASSUME NEW stop \in Stops,
             list' = [list EXCEPT ![job + 1] = {sf \in Remaining : sf <= stop}],
             nextSF' = AfterStop(stop)
      PROVE  ListInv'
  <2>1. stop \in Remaining /\ stop \in Nat /\ nextSF' = stop + 1 /\ stop >= nextSF
    BY <1>2, <1>8 DEF Stops, AfterStop, Remaining
  <2>2. list'[job'] = {sf \in Remaining : sf <= stop}
    BY <1>1, <1>8
  <2>3. Before \subseteq Before' /\ list'[job'] \subseteq Before'
    <3>1. \A sf \in ToProcess : sf < nextSF \/ sf <= stop => sf < nextSF'
      BY <1>1, <1>2, <2>1
    <3> QED BY <1>2, <2>2, <3>1 DEF Before, Remaining
  <2>4. \A i \in 1..job : list[i] \subseteq Before
    BY <1>8 DEF Passed
  <2>5. \A i \in 1..job' : Passed(i)'
    BY <1>3, <1>4, <2>3, <2>4 DEF Passed
  <2>6. \A i \in 1..job : list'[i] \cap list'[job'] = {}
    BY <1>3, <1>6, <2>2, <2>4
  <2> QED BY <1>1, <1>4, <1>5, <2>5, <2>6 DEF ListsDisjoint
<1> QED BY <1>7, <1>8 DEF WriteList

LEMMA SameLists ==
  ASSUME ListInv, TypeInv', UNCHANGED <<args, plan, loop>>
  PROVE  ListInv'
<1>1. /\ Before' = Before /\ Remaining' = Remaining /\ Stops' = Stops
      /\ list' = list /\ job' = job /\ args' = args
  BY DEF plan, loop, Before, Remaining, Stops, Position, ToProcess, ArgSources
<1> QED BY <1>1 DEF ListInv, Passed, ListsDisjoint

LEMMA NextList == ListInv /\ [Next]_vars => ListInv'
<1> SUFFICES ASSUME ListInv, [Next]_vars PROVE ListInv'
  OBVIOUS
<1>1. TypeInv'
  BY NextType DEF ListInv
<1>2. CASE Start
  <2>1. 1..job' = {}
    BY <1>2 DEF Start, ListInv, TypeInv, PcOK
  <2> QED BY <1>1, <2>1 DEF ListInv, ListsDisjoint
<1>3. CASE SpawnWorker
  BY <1>1, <1>3, WriteListApart DEF SpawnWorker
<1>4. CASE SpawnFails
  <2>1. UNCHANGED <<args, plan>>
    BY <1>4 DEF SpawnFails
  <2>2. CASE pc = "spawn" /\ WriteList
    BY <1>1, <2>1, <2>2, WriteListApart
  <2>3. CASE UNCHANGED loop
    BY <1>1, <2>1, <2>3, SameLists
  <2> QED BY <1>4, <2>2, <2>3 DEF SpawnFails
<1>5. CASE UNCHANGED <<args, plan, loop>>
  BY <1>1, <1>5, SameLists
<1> QED BY <1>2, <1>3, <1>4, <1>5
        DEF Next, Driver, Terminated, SpawnGprbuild, WorkerExits, GprbuildExits,
            ReapWorker, ReapGprbuild, WaitFails, Finish, vars

\* The lists of two jobs are disjoint; when the last argument source is ignored
\* they may also be the same list.
THEOREM DisjointLists == Spec => []ListsDisjoint
<1>1. ListInv => ListsDisjoint
  BY DEF ListInv
<1> QED BY InitList, NextList, <1>1, PTL DEF Spec

-----------------------------------------------------------------------------
(* The statuses of the sources with an error *)

Marks == {"not_a_legal_source", "error_detected"}

\* While lists are written, every error is about a source that was sent; and it
\* has marked its source.
ErrorsSent == pc \in Spawning => \A d \in diags : d[1] # "scan" => d[2] \in Sent
ErrorsMarked ==
  args.last \notin args.ignored =>
    \A d \in diags : d[1] # "scan" => status[d[2]] \in Marks

MarkInv == AccountInv /\ ListInv /\ ErrorsSent /\ ErrorsMarked

LEMMA DiagSource ==
  ASSUME TypeOK, NEW d \in diags
  PROVE  d[2] \in Sources
BY DEF TypeOK, Diagnostics

LEMMA InitMark == Init => MarkInv
BY InitAccount, InitList DEF MarkInv, ErrorsSent, ErrorsMarked, Init, Idle

\* The next list takes no source that has an error, so that none loses its mark.
LEMMA WriteListMarks ==
  ASSUME MarkInv, ListInv', pc = "spawn", WriteList, UNCHANGED <<args, plan, diags>>
  PROVE  ErrorsSent' /\ ErrorsMarked'
<1>1. /\ job \in Nat /\ job' = job + 1 /\ job < numJobs /\ numJobs \in Nat
      /\ list \in [1..numJobs -> SUBSET Sources]
      /\ args' = args /\ diags' = diags /\ pc \in Spawning /\ TypeOK
  BY DEF MarkInv, AccountInv, TypeInv, TypeOK, PcOK, WriteList, plan, Spawning
<1>2. \A i \in 1..job : list'[i] = list[i]
  BY <1>1 DEF WriteList
<1>3. 1..job' = 1..job \cup {job'} /\ job' \notin 1..job
  BY <1>1
<1>4. Sent \subseteq Sent'
  BY <1>2, <1>3 DEF Sent
<1>5. ErrorsSent'
  BY <1>1, <1>4 DEF MarkInv, ErrorsSent
<1>6. ASSUME args.last \notin args.ignored, NEW d \in diags, d[1] # "scan"
      PROVE  status'[d[2]] \in Marks
  <2>1. d[2] \in Sources /\ status[d[2]] \in Marks /\ d[2] \in Sent
    BY <1>1, <1>6, DiagSource DEF MarkInv, ErrorsSent, ErrorsMarked
  <2>2. PICK i \in 1..job : d[2] \in list[i]
    BY <2>1 DEF Sent
  <2>3. d[2] \notin list'[job']
    BY <1>1, <1>2, <1>3, <1>6, <2>2 DEF ListInv, ListsDisjoint
  <2>4. status' = SetStatus(list'[job'], "processed")
    BY <1>1 DEF WriteList
  <2> QED BY <2>1, <2>3, <2>4 DEF SetStatus
<1> QED BY <1>1, <1>5, <1>6 DEF ErrorsMarked

\* A report that is loaded marks the sources of its errors, and unmarks none.
LEMMA LoadReportMarks ==
  ASSUME MarkInv, NEW j \in 1..numJobs, LoadReport(j)
  PROVE  /\ \A d \in diags' \ diags : d[1] # "scan" => d[2] \in list[j]
         /\ \A sf \in Sources : status[sf] \in Marks => status'[sf] \in Marks
         /\ \A d \in diags' \ diags : status'[d[2]] \in Marks
<1> DEFINE new == New("worker", list[j] \cap args.illegal)
           legal == SetStatus(new, "not_a_legal_source")
<1>1. /\ diags' = diags \cup {<<"worker", sf>> : sf \in new}
      /\ \/ status' = legal
         \/ \E sf \in list[j] : status' = [legal EXCEPT ![sf] = "error_detected"]
  BY DEF LoadReport
<1>2. new \subseteq list[j] /\ new \subseteq Sources
  BY DEF New, MarkInv, AccountInv, TypeInv, TypeOK, Args
<1>3. \A d \in diags' \ diags : d[2] \in new
  BY <1>1
<1>4. \A sf \in Sources : legal[sf] = IF sf \in new THEN "not_a_legal_source"
                                                     ELSE status[sf]
  BY DEF SetStatus
<1>5. \A sf \in Sources : status'[sf] \in {legal[sf], "error_detected"}
  <2>1. DOMAIN legal = Sources
    BY DEF SetStatus
  <2> HIDE DEF legal
  <2> QED BY <1>1, <2>1
<1> HIDE DEF new, legal
<1> QED BY <1>2, <1>3, <1>4, <1>5 DEF Marks

\* gprbuild marks the sources of its errors and bug boxes, and unmarks none.
LEMMA GprbuildMarks ==
  ASSUME MarkInv, ReapGprbuild
  PROVE  /\ \A sf \in Sources : status[sf] \in Marks => status'[sf] \in Marks
         /\ \A d \in diags' \ diags : status'[d[2]] \in Marks
<1>1. PICK rejected \in SUBSET args.uncompilable, boxed \in SUBSET args.uncompilable :
        LET errors == New("gprbuild", rejected \ args.ignored)
            boxes  == New("bug_box", boxed)
            marked == SetStatus(errors, "not_a_legal_source")
        IN /\ diags' = diags \cup {<<"gprbuild", sf>> : sf \in errors}
                            \cup {<<"bug_box", sf>> : sf \in boxes}
           /\ status' = [sf \in Sources |-> IF sf \in boxes
                                           THEN "error_detected" ELSE marked[sf]]
  BY DEF ReapGprbuild
<1> DEFINE errors == New("gprbuild", rejected \ args.ignored)
           boxes  == New("bug_box", boxed)
<1>2. errors \subseteq Sources /\ boxes \subseteq Sources
  BY DEF New, MarkInv, AccountInv, TypeInv, TypeOK, Args
<1>3. \A sf \in Sources :
        status'[sf] = IF sf \in boxes THEN "error_detected"
                      ELSE IF sf \in errors THEN "not_a_legal_source" ELSE status[sf]
  BY <1>1 DEF SetStatus
<1>4. diags' = diags \cup {<<"gprbuild", sf>> : sf \in errors}
                     \cup {<<"bug_box", sf>> : sf \in boxes}
  BY <1>1
<1> HIDE DEF errors, boxes
<1>5. \A d \in diags' \ diags : d[2] \in errors \cup boxes
  BY <1>4
<1> QED BY <1>2, <1>3, <1>5 DEF Marks

\* Errors and marks only grow in a step that writes no list.
LEMMA MarksGrow ==
  ASSUME MarkInv, UNCHANGED <<args, loop>>,
         pc' \in Spawning => pc \in Spawning,
         pc' \in Spawning =>
           \A d \in diags' \ diags : d[1] # "scan" => d[2] \in Sent,
         \A sf \in Sources : status[sf] \in Marks => status'[sf] \in Marks,
         \A d \in diags' \ diags : status'[d[2]] \in Marks
  PROVE  ErrorsSent' /\ ErrorsMarked'
<1>1. Sent' = Sent /\ args' = args
  BY DEF loop, Sent
<1>2. \A d \in diags : d[2] \in Sources
  BY DiagSource DEF MarkInv, AccountInv, TypeInv
<1>3. ErrorsSent'
  BY <1>1 DEF MarkInv, ErrorsSent
<1>4. ErrorsMarked'
  BY <1>1, <1>2 DEF MarkInv, ErrorsMarked
<1> QED BY <1>3, <1>4

LEMMA NextMark == MarkInv /\ [Next]_vars => MarkInv'
<1> SUFFICES ASSUME MarkInv, [Next]_vars PROVE ErrorsSent' /\ ErrorsMarked'
  BY NextAccount, NextList DEF MarkInv
<1>0. ListInv'
  BY NextList DEF MarkInv
<1>1. CASE Start
  <2>1. \A d \in diags' : d[1] = "scan"
    BY <1>1 DEF Start
  <2> QED BY <2>1 DEF ErrorsSent, ErrorsMarked
<1>2. CASE SpawnWorker
  BY <1>0, <1>2, WriteListMarks DEF SpawnWorker
<1>3. CASE SpawnFails
  <2>1. CASE pc = "spawn" /\ WriteList
    BY <1>0, <1>3, <2>1, WriteListMarks DEF SpawnFails
  <2>2. CASE pc = "gprbuild" /\ UNCHANGED <<loop, status>>
    <3>1. pc' \notin Spawning /\ UNCHANGED <<args, loop, diags, status>>
      BY <1>3, <2>2 DEF SpawnFails, Spawning
    <3> QED BY <3>1, MarksGrow
  <2> QED BY <1>3, <2>1, <2>2 DEF SpawnFails
<1>4. CASE \E j \in 1..numJobs : ReapWorker(j)
  <2>1. PICK j \in 1..numJobs : ReapWorker(j)
    BY <1>4
  <2>2. /\ UNCHANGED <<args, loop>> /\ Waiting /\ pc' = AfterWait
        /\ LoadReport(j) \/ UNCHANGED <<status, diags>>
    BY <2>1 DEF ReapWorker
  <2>3. pc' \in Spawning => pc \in Spawning
    BY <2>2 DEF Waiting, AfterWait, Spawning
  <2>4. list[j] \subseteq Sent
    <3>1. j \in 1..job
      BY <2>1 DEF ReapWorker, MarkInv, AccountInv, Accounts, ActiveWorkers, Active, Exited
    <3> QED BY <3>1 DEF Sent
  <2>5. CASE LoadReport(j)
    BY <2>2, <2>3, <2>4, <2>5, LoadReportMarks, MarksGrow
  <2>6. CASE UNCHANGED <<status, diags>>
    BY <2>2, <2>3, <2>6, MarksGrow
  <2> QED BY <2>2, <2>5, <2>6
<1>5. CASE ReapGprbuild
  <2>1. /\ UNCHANGED <<args, loop>> /\ Waiting /\ pc' = AfterWait
        /\ gprbuild = "exited"
    BY <1>5 DEF ReapGprbuild
  <2>2. pc \notin Spawning
    BY <2>1 DEF MarkInv, AccountInv, Accounts
  <2>3. pc' \notin Spawning
    BY <2>1, <2>2 DEF Waiting, AfterWait, Spawning
  <2> QED BY <1>5, <2>1, <2>3, GprbuildMarks, MarksGrow
<1>6. CASE UNCHANGED <<args, loop, found>> /\ (pc' \in Spawning => pc \in Spawning)
  BY <1>6, MarksGrow DEF found
<1>7. CASE SpawnGprbuild \/ WaitFails \/ Finish \/ UNCHANGED vars
  BY <1>6, <1>7 DEF SpawnGprbuild, WaitFails, Finish, vars, Waiting, AfterWait, Spawning
<1>8. CASE (\E j \in 1..numJobs : WorkerExits(j)) \/ GprbuildExits
  BY <1>6, <1>8 DEF WorkerExits, GprbuildExits
<1> QED BY <1>1, <1>2, <1>3, <1>4, <1>5, <1>7, <1>8 DEF Next, Driver, Terminated

\* A source with an error or a bug box is unverified when the run ends, unless
\* the last argument source is ignored: no job sets it back to Processed.
THEOREM UnverifiedErrors == Spec => []ErrorsUnverified
<1>1. MarkInv => ErrorsUnverified
  BY DEF MarkInv, ErrorsMarked, ErrorsUnverified, Marks
<1> QED BY InitMark, NextMark, <1>1, PTL DEF Spec

-----------------------------------------------------------------------------
(* The temporary files *)

\* The jobs that are over and have left their files.
Lost == (temps \ {0}) \ ActiveWorkers

\* Outside debug mode such a job has counted an internal error.
TempsCounted ==
  /\ temps \subseteq 0..job
  /\ Cardinality(Lost) <= internalErrors
  /\ pc = "done" => 0 \notin temps

TempInv == AccountInv /\ (~args.debug /\ pc # "aborted" => TempsCounted)

LEMMA LostFinite ==
  ASSUME job \in Nat, temps \subseteq 0..job
  PROVE  IsFiniteSet(Lost) /\ Cardinality(Lost) \in Nat
<1>1. IsFiniteSet(0..job)
  BY FS_Interval
<1>2. Lost \subseteq 0..job
  BY DEF Lost
<1> QED BY <1>1, <1>2, FS_Subset, FS_CardinalityType

LEMMA InitTemp == Init => TempInv
<1> SUFFICES ASSUME Init PROVE TempsCounted
  BY InitAccount DEF TempInv
<1>1. Lost = {} /\ temps = {} /\ internalErrors = 0 /\ pc = "start"
  BY DEF Init, Idle, Lost
<1>2. Cardinality(Lost) = 0
  BY <1>1, FS_EmptySet
<1> QED BY <1>1, <1>2 DEF TempsCounted

\* A step in which no job is lost.
LEMMA NoneLost ==
  ASSUME TempInv, ~args.debug, pc # "aborted", Lost' = Lost, job' \in Nat,
         job' >= job, temps' \subseteq 0..job', internalErrors' \in Nat,
         internalErrors' >= internalErrors, pc' = "done" => 0 \notin temps'
  PROVE  TempsCounted'
<1>1. /\ Cardinality(Lost) <= internalErrors /\ internalErrors \in Nat
      /\ Cardinality(Lost) \in Nat
  BY LostFinite DEF TempInv, AccountInv, TypeInv, TypeOK, TempsCounted
<1>2. Cardinality(Lost') <= internalErrors'
  BY <1>1
<1> QED BY <1>2 DEF TempsCounted

LEMMA ReapWorkerTemps ==
  ASSUME TempInv, ~args.debug, pc # "aborted", NEW j \in 1..numJobs, ReapWorker(j)
  PROVE  TempsCounted'
<1>1. /\ job \in Nat /\ job' = job /\ temps \subseteq 0..job
      /\ internalErrors \in Nat /\ numJobs' = numJobs
      /\ worker \in [1..numJobs -> Handles] /\ pc' # "done"
      /\ worker' = [worker EXCEPT ![j] = "invalid"] /\ worker[j] # "invalid"
  BY DEF TempInv, AccountInv, TypeInv, TypeOK, TempsCounted, ReapWorker, loop, plan,
         AfterWait, AfterJob, Exited
<1>2. ActiveWorkers' = ActiveWorkers \ {j} /\ j \in ActiveWorkers /\ j # 0
  BY <1>1 DEF ActiveWorkers, Active
<1>3. CASE LoadReport(j)
  <2>1. temps' = temps \ {j}
    BY <1>3 DEF LoadReport, Delete
  <2>2. Lost' = Lost
    BY <1>2, <2>1 DEF Lost
  <2>3. internalErrors' \in {internalErrors, internalErrors + 1}
    BY <1>3 DEF LoadReport
  <2> QED BY <1>1, <2>1, <2>2, <2>3, NoneLost
<1>4. CASE temps' = temps /\ internalErrors' = internalErrors + 1
  <2>1. Lost' \subseteq Lost \cup {j}
    BY <1>2, <1>4 DEF Lost
  <2>2. /\ IsFiniteSet(Lost) /\ Cardinality(Lost) \in Nat
        /\ Cardinality(Lost) <= internalErrors
    BY <1>1, LostFinite DEF TempInv, TempsCounted
  <2>3. /\ IsFiniteSet(Lost \cup {j})
        /\ Cardinality(Lost \cup {j}) <= Cardinality(Lost) + 1
    <3>1. Cardinality(Lost \cup {j}) \in {Cardinality(Lost), Cardinality(Lost) + 1}
          /\ IsFiniteSet(Lost \cup {j})
      BY <2>2, FS_AddElement
    <3> QED BY <2>2, <3>1
  <2>4. /\ Cardinality(Lost') <= Cardinality(Lost \cup {j})
        /\ Cardinality(Lost') \in Nat /\ Cardinality(Lost \cup {j}) \in Nat
    BY <2>1, <2>3, FS_Subset, FS_CardinalityType
  <2> DEFINE c == Cardinality(Lost')
             d == Cardinality(Lost \cup {j})
  <2>5. c <= d /\ c \in Nat /\ d \in Nat /\ d <= Cardinality(Lost) + 1
    BY <2>3, <2>4
  <2> HIDE DEF c, d
  <2>6. c <= internalErrors'
    BY <1>1, <1>4, <2>2, <2>5
  <2>7. Cardinality(Lost') <= internalErrors'
    BY <2>6 DEF c
  <2> QED BY <1>1, <1>4, <2>7 DEF TempsCounted
<1> QED BY <1>3, <1>4 DEF ReapWorker

LEMMA ArgsFixed == [Next]_vars => args' = args
<1>1. Driver => args' = args
  BY DEF Driver, Start, SpawnWorker, SpawnGprbuild, SpawnFails, ReapWorker,
     ReapGprbuild, WaitFails, Finish
<1> QED BY <1>1 DEF Next, WorkerExits, GprbuildExits, Terminated, vars

LEMMA NextTemp == TempInv /\ [Next]_vars => TempInv'
<1> SUFFICES ASSUME TempInv, [Next]_vars, ~args.debug, pc' # "aborted"
             PROVE  TempsCounted'
  BY NextAccount, ArgsFixed DEF TempInv
<1>0. /\ job \in Nat /\ numJobs \in Nat /\ internalErrors \in Nat
      /\ worker \in [1..numJobs -> Handles]
  BY DEF TempInv, AccountInv, TypeInv, TypeOK
<1>1. CASE pc = "aborted"
  <2>1. ~Driver
    BY <1>1 DEF Driver, Start, SpawnWorker, SpawnGprbuild, SpawnFails, ReapWorker,
       ReapGprbuild, WaitFails, Finish, Waiting
  <2>2. pc' = pc
    BY <2>1 DEF Next, WorkerExits, GprbuildExits, Terminated, vars
  <2> QED BY <1>1, <2>2
<1>2. ASSUME pc # "aborted", Start PROVE TempsCounted'
  <2>1. Lost' = {} /\ temps' = {0} /\ job' = job /\ internalErrors' = internalErrors
        /\ pc' = "spawn"
    BY <1>2 DEF Start, Lost
  <2>2. Cardinality(Lost') = 0
    BY <2>1, FS_EmptySet
  <2> QED BY <1>0, <2>1, <2>2 DEF TempsCounted
<1>3. ASSUME pc # "aborted", SpawnWorker PROVE TempsCounted'
  <2>1. /\ job' = job + 1 /\ temps' = temps \cup {job + 1} /\ job < numJobs
        /\ worker' = [worker EXCEPT ![job + 1] = "running"] /\ numJobs' = numJobs
        /\ internalErrors' = internalErrors /\ pc' # "done"
        /\ temps \subseteq 0..job
    BY <1>3 DEF SpawnWorker, WriteList, plan, AfterJob, TempInv, TempsCounted,
       AccountInv, TypeInv, TypeOK, PcOK
  <2>2. ActiveWorkers' = ActiveWorkers \cup {job + 1}
    BY <1>0, <2>1 DEF ActiveWorkers, Active
  <2>3. Lost' = Lost
    BY <1>0, <2>1, <2>2 DEF Lost
  <2> QED BY <1>0, <1>3, <2>1, <2>3, NoneLost
<1>4. ASSUME pc # "aborted", \E j \in 1..numJobs : ReapWorker(j) PROVE TempsCounted'
  BY <1>4, ReapWorkerTemps
<1>5. ASSUME pc # "aborted", Finish PROVE TempsCounted'
  <2>1. /\ temps' = temps \ {0} /\ job' = job /\ internalErrors' = internalErrors
        /\ ActiveWorkers' = ActiveWorkers
    BY <1>5 DEF Finish, Delete, loop, found, plan, ActiveWorkers, Active
  <2>2. Lost' = Lost
    BY <2>1 DEF Lost
  <2>3. temps \subseteq 0..job
    BY <1>5 DEF TempInv, TempsCounted
  <2> QED BY <1>0, <1>5, <2>1, <2>2, <2>3, NoneLost
<1>6. ASSUME pc # "aborted", UNCHANGED <<job, temps>>, ActiveWorkers' = ActiveWorkers,
             internalErrors' \in {internalErrors, internalErrors + 1},
             pc' = pc \/ pc' # "done"
      PROVE  TempsCounted'
  <2>1. Lost' = Lost
    BY <1>6 DEF Lost
  <2>2. temps \subseteq 0..job /\ (pc = "done" => 0 \notin temps)
    BY <1>6 DEF TempInv, TempsCounted
  <2> QED BY <1>0, <1>6, <2>1, <2>2, NoneLost
<1>7. ASSUME pc # "aborted", SpawnGprbuild \/ ReapGprbuild \/ WaitFails
      PROVE  TempsCounted'
  <2>1. /\ UNCHANGED <<plan, worker, loop, temps>> /\ pc' # "done"
        /\ internalErrors' \in {internalErrors, internalErrors + 1}
    BY <1>0, <1>7 DEF SpawnGprbuild, ReapGprbuild, WaitFails, found, AfterWait, AfterJob
  <2>2. ActiveWorkers' = ActiveWorkers
    BY <2>1 DEF plan, ActiveWorkers, Active
  <2> QED BY <1>6, <1>7, <2>1, <2>2 DEF loop
<1>8. ASSUME pc # "aborted",
             (\E j \in 1..numJobs : WorkerExits(j)) \/ GprbuildExits \/ UNCHANGED vars
      PROVE  TempsCounted'
  <2>1. UNCHANGED <<pc, plan, loop, found, temps>>
    BY <1>8 DEF WorkerExits, GprbuildExits, vars
  <2>2. ActiveWorkers' = ActiveWorkers
    BY <1>0, <1>8, <2>1
    DEF WorkerExits, GprbuildExits, vars, plan, ActiveWorkers, Active, Exited
  <2> QED BY <1>6, <1>8, <2>1, <2>2 DEF loop, found
<1>9. CASE SpawnFails
  BY <1>9 DEF SpawnFails
<1> QED BY <1>1, <1>2, <1>3, <1>4, <1>5, <1>7, <1>8, <1>9
        DEF Next, Driver, Terminated

\* Outside debug mode, and unless a wait fails, a run that ends has deleted every
\* temporary file but those of jobs that have counted an internal error.
THEOREM AccountedTemps == Spec => []TempsAccounted
<1>1. TempInv => TempsAccounted
  <2> SUFFICES ASSUME TempInv, pc = "done", ~args.debug, ~args.badWait
               PROVE  0 \notin temps /\ Cardinality(temps) <= internalErrors
    BY DEF TempsAccounted
  <2>1. TempsCounted /\ numJobs \in Nat
    BY DEF TempInv, AccountInv, TypeInv, TypeOK
  <2>2. current + Live = totalJobs /\ current = totalJobs /\ totalJobs \in Int
    BY DEF TempInv, AccountInv, Accounts, WaitsOK, TypeInv, TypeOK
  <2>3. Live = 0 /\ Live = Cardinality(ActiveWorkers)
    <3>1. Live \in Nat /\ Cardinality(ActiveWorkers) \in Nat
      BY <2>1, ActiveFinite, LiveType DEF TempInv, AccountInv, TypeInv
    <3>2. Live \in {Cardinality(ActiveWorkers), Cardinality(ActiveWorkers) + 1}
      BY LiveType DEF TempInv, AccountInv, TypeInv
    <3> DEFINE live == Live  c == Cardinality(ActiveWorkers)
    <3>3. live = 0
      BY <2>2, <3>1
    <3>4. live \in {c, c + 1} /\ c \in Nat
      BY <3>1, <3>2
    <3> HIDE DEF live, c
    <3>5. live = 0 /\ live = c
      BY <3>3, <3>4
    <3> QED BY <3>5 DEF live, c
  <2>4. ActiveWorkers = {}
    BY <2>1, <2>3, ActiveFinite
  <2>5. Lost = temps
    BY <2>1, <2>4 DEF Lost, TempsCounted
  <2> QED BY <2>1, <2>5 DEF TempsCounted
<1> QED BY InitTemp, NextTemp, <1>1, PTL DEF Spec

=============================================================================
