----------------------------- MODULE AnalysisRun -----------------------------
(***************************************************************************)
(* What a run of the checker promises, whatever its children do: it loads  *)
(* the results of the wanted sources in any order and any grouping, it     *)
(* ends, and it ends without an error (exit code other than E_Error) only  *)
(* when it has the results of every wanted source.                         *)
(***************************************************************************)
CONSTANT Source

VARIABLES
  wanted,    \* the sources the user asked for and did not ignore
  analysed,  \* those whose results are loaded
  verdict    \* "running", then how the run ended: "trusted" or "failed"

vars == <<wanted, analysed, verdict>>

Init ==
  /\ wanted \in SUBSET Source
  /\ analysed = {}
  /\ verdict = "running"

Analyse ==
  /\ verdict = "running"
  /\ \E S \in SUBSET wanted : analysed' = analysed \cup S
  /\ UNCHANGED <<wanted, verdict>>

Trust ==
  /\ verdict = "running"
  /\ analysed = wanted
  /\ verdict' = "trusted"
  /\ UNCHANGED <<wanted, analysed>>

Fail ==
  /\ verdict = "running"
  /\ verdict' = "failed"
  /\ UNCHANGED <<wanted, analysed>>

Next == Analyse \/ Trust \/ Fail

Safe == Init /\ [][Next]_vars
Spec == Safe /\ WF_vars(Trust \/ Fail)
=============================================================================
