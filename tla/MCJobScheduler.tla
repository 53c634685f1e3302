--------------------------- MODULE MCJobScheduler ---------------------------
(***************************************************************************)
(* Instances of JobScheduler for TLC.  MinimumFiles is 2 where the code    *)
(* has 10: each of the three plans of JobPlan is then reached with a       *)
(* handful of sources instead of more than a hundred.                      *)
(***************************************************************************)
EXTENDS JobScheduler

\* At most two jobs: any call on three sources, any call outside debug mode on
\* five, with waits that do not fail.  And calls on five sources and four jobs,
\* of which at most one source is ignored: the smallest on which a plan leaves a
\* job over when the last list is not full.
Instances ==
  \/ args.jobs <= 2 /\ args.last <= 3
  \/ args.jobs <= 2 /\ ~args.debug /\ ~args.badWait
  \/ /\ args.jobs = 4 /\ args.last = 5 /\ Cardinality(args.ignored) <= 1
     /\ ~args.debug /\ ~args.badWait

MCInit == Init /\ Instances

MCSpec == MCInit /\ [][Next]_vars /\ Fairness
=============================================================================
