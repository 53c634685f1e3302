---------------------------- MODULE MCExemptions ----------------------------
(***************************************************************************)
(* Exemptions with an enabled rule that has an instance of another name    *)
(* and, in one run, a compiler rule that has one.                          *)
(***************************************************************************)
EXTENDS Exemptions

MCRuleOf  == [a \in Aliases |-> IF a = "inst" THEN "rule" ELSE "warn"]
MCAllowed == [r \in Rules |-> {"p", "q"} \cap Params]
=============================================================================
