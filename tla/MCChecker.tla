------------------------------ MODULE MCChecker ------------------------------
(***************************************************************************)
(* Instances of Checker for TLC: the ordinary call, and those that differ  *)
(* from it in one switch, or have no rule for a version of GNAT.           *)
(***************************************************************************)
EXTENDS Checker

Ordinary == [listRules |-> FALSE, brief |-> FALSE, strict |-> FALSE,
             sources |-> TRUE, rules |-> TRUE, kpVersion |-> FALSE,
             sarif |-> FALSE, projects |-> 1]

Switches == {"listRules", "brief", "strict", "sources", "rules", "kpVersion"}

MCSetups ==
  {Ordinary}
    \cup {[Ordinary EXCEPT ![switch] = ~Ordinary[switch]] : switch \in Switches}
    \cup {[Ordinary EXCEPT !.rules = FALSE, !.kpVersion = TRUE]}

\* The calls on an aggregate project, which use nothing of args but --debug.
AggregateSetups ==
  {[Ordinary EXCEPT !.projects = n, !.sarif = s, !.strict = w] :
     n \in 2..MaxProjects, s \in BOOLEAN, w \in BOOLEAN}

OnNoSource == [last |-> 1, ignored |-> {}, illegal |-> {}, uncompilable |-> {},
               jobs |-> 1, compile |-> FALSE, debug |-> args.debug, badWait |-> FALSE]

AggregateInit ==
  /\ CInit /\ setup \in AggregateSetups /\ args = OnNoSource
  /\ ~setup.sarif => \A k \in DOMAIN sarifs : sarifs[k] = "none"

\* Without an aggregate project no file of one is there.
MCInit == CInit /\ setup \in MCSetups /\ sarifs = <<"none">>

\* Outside debug mode and with waits that may fail: every setup on two sources
\* and one job, and the ordinary call without compiler-based rules on three
\* sources and two jobs.  And the calls on an aggregate project.  In the
\* ordinary call gprbuild rejects sources too, independently of the workers.
RunInit ==
  \/ /\ MCInit /\ ~args.debug /\ args.badWait
     /\ setup # Ordinary => args.uncompilable = {}
     /\ \/ args.last = 2 /\ args.jobs = 1
        \/ args.last = 3 /\ args.jobs = 2 /\ ~args.compile /\ setup = Ordinary
  \/ AggregateInit
RunSpec == RunInit /\ [][CNext]_cvars /\ CFairness

\* The calls on an aggregate project only.
AggregateSpec == AggregateInit /\ [][CNext]_cvars
=============================================================================
