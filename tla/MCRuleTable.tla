---------------------------- MODULE MCRuleTable ----------------------------
(***************************************************************************)
(* An instance of RuleTable: a rule of each kind of parameters, a check of *)
(* the compiler, one alias, two rule files of which one is also found in   *)
(* the current directory.                                                  *)
(***************************************************************************)
EXTENDS RuleTable

CONSTANTS plain, depth, text, names, flags, uses, style, mine, good, other, bad

MCKind == plain :> "none" @@ depth :> "integer" @@ text :> "string"
          @@ names :> "strict" @@ flags :> "required" @@ uses :> "custom"

Option(enable, name, rule, params) ==
  [enable |-> enable, name |-> name, rule |-> rule, params |-> params]

MCOptions ==
  \* For each rule: bare, with a parameter, and turned off.
  { Option(TRUE, None, r, <<>>) : r \in Rules }
  \cup { Option(TRUE, None, r, <<good>>) : r \in AllRules }
  \cup { Option(FALSE, None, r, <<>>) : r \in Rules }
  \* Several parameters.
  \cup { Option(TRUE, None, depth, <<bad, good>>), Option(FALSE, None, plain, <<good, other>>),
         Option(TRUE, None, uses, <<good, bad>>) }
  \* Instances with a name, also with the name of a rule.
  \cup { Option(TRUE, mine, depth, <<good, other>>), Option(TRUE, plain, depth, <<other>>),
         Option(TRUE, mine, style, <<good>>), Option(TRUE, None, mine, <<bad>>),
         Option(TRUE, mine, depth, <<>>), Option(TRUE, None, mine, <<good>>),
         Option(FALSE, mine, plain, <<>>), Option(FALSE, mine, depth, <<>>),
         Option(FALSE, None, mine, <<>>), Option(FALSE, mine, style, <<>>) }

Object(rule, name, mode, params) ==
  [rule |-> rule, name |-> name, mode |-> mode, params |-> params]

MCObjects ==
  { Object(depth, None, "general", {good}), Object(names, mine, "ada", {bad}),
    Object(plain, None, "spark", {}), Object(style, mine, "spark", {good}) }
=============================================================================
