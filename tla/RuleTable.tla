----------------------------- MODULE RuleTable -----------------------------
(***************************************************************************)
(* The table of rule instances (lkql_checker-rules-rule_table.adb) and how *)
(* Process_Rule_Options fills it: from an LKQL rule file, then from the    *)
(* rule options of the command line, of projects and of legacy rule files, *)
(* which include each other.                                               *)
(*                                                                         *)
(* Names are normalised (lower case).  What the checks of the compiler do  *)
(* with the instances is not part of this module; the code gives these     *)
(* instances no mode and reads none, the model calls it general.           *)
(***************************************************************************)
EXTENDS Integers, Sequences, SequencesExt, FiniteSets

CONSTANTS
  Rules,          \* the rules written in LKQL
  CompilerRules,  \* Restrictions, Style_Checks, Warnings
  Aliases,        \* names that the user gives to instances
  Kind,           \* the kind of parameters of a rule
  Defaulted,      \* the rules whose parameters all have defaults
  Params, Wrong,  \* parameter values; those that rules do not accept
  Options,        \* the +R and -R options that are met
  Objects,        \* the instances that an LKQL rule file may define
  Files,          \* legacy rule files
  Located,        \* files found from the project (Get_Rule_File_Name)
  Visible,        \* files found under the name as it is written
  MaxOptions,     \* bound on the options and instances read
  None            \* no instance, rule, name or parameter

Names     == Rules \cup CompilerRules \cup Aliases
AllRules  == Rules \cup CompilerRules

\* The procedures of Create_Rule, by what they do with an instance:
\* "strict" turns it off when a parameter is wrong ("custom" and "required"
\* too, the latter also when there is none), "array" and "string" do not.
Kinds == {"none", "integer", "string", "array", "strict", "custom", "required"}
Modes == {"general", "spark", "ada"}

Instances == [rule : AllRules, alias : BOOLEAN, mode : Modes, params : SUBSET Params]

RuleOptions ==
  [enable : BOOLEAN, name : Names \cup {None}, rule : Names, params : Seq(Params)]

\* An accepted option whose parameters are still to be processed.
Pendings == [name : Names, rule : Rules, enable : BOOLEAN,
             params : Seq(Params \cup {None}) \ {<<>>}]

ASSUME RuleTableAssumption ==
  /\ Rules \cap CompilerRules = {}
  /\ Aliases \cap AllRules = {}
  /\ Kind \in [Rules -> Kinds]
  /\ Defaulted \subseteq Rules
  /\ Wrong \subseteq Params
  /\ Options \subseteq RuleOptions
  /\ Objects \subseteq [rule : AllRules, name : Names \cup {None},
                        mode : Modes, params : SUBSET Params]
  /\ Located \subseteq Files /\ Visible \subseteq Files
  /\ MaxOptions \in Nat
  /\ None \notin Names /\ None \notin Params /\ None \notin Instances
  /\ None \notin Pendings

VARIABLES
  args,      \* Emit_LKQL_Rule_File and Check_Redefinition
  phase,     \* where Process_Rule_Options is
  table,     \* All_Rule_Instances
  listed,    \* All_Rules (rule).Instances: how often an instance is in it
  stack,     \* Rule_File_Stack, with "no option may follow" for each file
  pending,   \* the parameters that are still to be processed, and for whom
  problems,  \* the flags of the exit code
  count,     \* options and instances read
  asked,     \* history: what the user asked for
  doubtful   \* history: names for which the request is not followed

vars == <<args, phase, table, listed, stack, pending, problems, count, asked, doubtful>>

Flags  == {"rule_file", "rule", "rule_option", "internal"}
Phases == {"lkql", "options", "done", "aborted"}

Default(r) == [rule |-> r, alias |-> FALSE, mode |-> "general", params |-> {}]

Init ==
  /\ args \in [emit : BOOLEAN, redefinition : BOOLEAN]
  /\ phase = "lkql"
  /\ table = [n \in Names |-> None]
  /\ listed = [r \in Rules |-> [n \in Names |-> 0]]
  /\ stack = <<>>
  /\ pending = None
  /\ problems = {}
  /\ count = 0
  /\ asked = [n \in Names |-> None]
  /\ doubtful = {}

-----------------------------------------------------------------------------
\* Get_Rule: the rule of that name, or that the instance of that name is of.
GetRule(x) ==
  IF x \in AllRules THEN x ELSE IF table[x] # None THEN table[x].rule ELSE None

\* Turn_Instance_Off, on All_Rules (rule).Instances.
Without(n) ==
  IF table[n] # None /\ table[n].rule \in Rules
  THEN [listed EXCEPT ![table[n].rule][n] = @ - 1]
  ELSE listed

\* Mutant: the instance stays in All_Rule_Instances.
TurnOffListed(n) == UNCHANGED table /\ listed' = Without(n)

TurnOff(n) ==
  /\ table' = [table EXCEPT ![n] = None]
  /\ listed' = Without(n)

\* Mutant: the instance that is replaced stays in its rule's list.
TurnOnBeside(n, instance) ==
  /\ table' = [table EXCEPT ![n] = instance]
  /\ listed' = IF instance.rule \in Rules
               THEN [listed EXCEPT ![instance.rule][n] = @ + 1] ELSE listed

TurnOn(n, instance) ==
  /\ table' = [table EXCEPT ![n] = instance]
  /\ listed' = IF instance.rule \in Rules
               THEN [Without(n) EXCEPT ![instance.rule][n] = @ + 1] ELSE Without(n)

HasParameters(instance) ==
  CASE instance.rule \in CompilerRules   -> instance.params # {}
    [] Kind[instance.rule] = "none"      -> FALSE
    [] Kind[instance.rule] = "custom"    -> instance.params # {}
    [] OTHER                             -> TRUE

\* Check_Instance_Is_Unique warns that an instance is skipped.
Skips(n) ==
  table[n] # None /\ stack = <<>> /\ ~table[n].alias /\ ~HasParameters(table[n])

\* Check_Instance_Is_Unique.
Unique(n) == table[n] = None \/ Skips(n)

Flag(p) == problems' = problems \cup {p}
FlagIf(test, p) == problems' = IF test THEN problems \cup {p} ELSE problems

-----------------------------------------------------------------------------
(***************************************************************************)
(* The LKQL rule file.  Its parser runs first and accepts no two instances *)
(* of one name; the driver reads what it reports.                          *)
(***************************************************************************)
InstanceName(o) == IF o.name = None THEN o.rule ELSE o.name

\* Process_Instance_Object.  Parameters of the wrong type raise before the
\* instance is turned on.
ReadInstance ==
  /\ phase = "lkql" /\ count < MaxOptions
  /\ \E o \in Objects :
       LET instance == [rule |-> o.rule, alias |-> o.name # None,
                        mode |-> IF o.rule \in CompilerRules THEN "general" ELSE o.mode,
                        params |-> o.params]
           name == InstanceName(o)
           badParams == o.params \cap Wrong # {}
       IN  /\ table[name] = None
           /\ IF badParams THEN UNCHANGED <<table, listed>> ELSE TurnOn(name, instance)
           /\ FlagIf(badParams \/ (o.rule \in CompilerRules /\ o.mode # "general"), "rule")
           /\ asked' = [asked EXCEPT ![name] = instance]
  /\ count' = count + 1
  /\ UNCHANGED <<args, phase, stack, pending, doubtful>>

\* There is no such file, the parser fails, or its report cannot be used.
LkqlFileFails ==
  /\ phase = "lkql" /\ count = 0
  /\ phase' = "options"
  /\ \E p \in {"rule_file", "internal", "rule_option"} : Flag(p)
  /\ UNCHANGED <<args, table, listed, stack, pending, count, asked, doubtful>>

\* The end of the report, or no LKQL rule file.
LkqlFileEnds ==
  /\ phase = "lkql"
  /\ phase' = "options"
  /\ UNCHANGED <<args, table, listed, stack, pending, problems, count, asked, doubtful>>

-----------------------------------------------------------------------------
(***************************************************************************)
(* Rule options, of the command line or of the rule file on the stack.     *)
(***************************************************************************)
Reading ==
  /\ phase = "options" /\ pending = None /\ count < MaxOptions
  /\ stack # <<>> => ~Last(stack).ended
  /\ count' = count + 1

\* What an option +R asks for.
Wanted(o, rule) ==
  [rule |-> rule, alias |-> o.name \notin {None, rule} \/ (o.name # None /\ rule \in CompilerRules),
   mode |-> "general",
   params |-> IF rule \in Rules /\ Kind[rule] = "integer" /\ o.params # <<>>
              THEN {Last(o.params)} ELSE ToSet(o.params)]

\* The request is not followed when the instance is there already, nor when
\* no parameter is given to a rule whose only parameter has a default.
Doubted(o, rule, name) ==
  \/ asked[name] # None
  \/ o.params = <<>> /\ rule \in Rules /\ Kind[rule] \in {"integer", "string"}

\* A request through an alias that does not stand for what was asked for.
Unclear(o) == o.rule \in doubtful \ AllRules

\* The history, from the requests alone.
Request(o) ==
  LET rule == IF o.rule \in AllRules \/ asked[o.rule] = None
              THEN o.rule ELSE asked[o.rule].rule
      name == IF o.name = None THEN rule ELSE o.name
  IN  IF Unclear(o)
      THEN /\ doubtful' = doubtful \cup (IF o.name = None THEN AllRules ELSE {name})
           /\ UNCHANGED asked
      ELSE IF rule \notin AllRules THEN UNCHANGED <<asked, doubtful>>
      ELSE IF o.enable
      THEN /\ asked' = IF asked[name] # None THEN asked
                       ELSE [asked EXCEPT ![name] = Wanted(o, rule)]
           /\ doubtful' = IF Doubted(o, rule, name) THEN doubtful \cup {name} ELSE doubtful
      ELSE /\ asked' = [asked EXCEPT ![name] = None]
           /\ doubtful' = doubtful \ {name}

\* Check_Rule_Exists, Check_Instance_Is_Unique, Check_For_Compiler_Rule.
Rejected(o, rule, name) ==
  \/ rule = None
  \/ o.enable /\ ~Unique(name)
  \/ ~o.enable /\ table[name] = None
  \/ rule \in CompilerRules /\ (o.enable <=> o.params = <<>>)

\* Get_Or_Create_Instance.
GetOrCreate(name, rule) ==
  IF table[name] # None THEN UNCHANGED <<table, listed>>
  ELSE TurnOn(name, [rule |-> rule, alias |-> name # rule,
                     mode |-> "general", params |-> {}])

\* Process_Legacy_Rule_Option; no parameter is one parameter, None.
LegacyOption ==
  /\ Reading
  /\ \E o \in Options :
       LET rule == GetRule(o.rule)
           name == IF o.name = None THEN rule ELSE o.name
       IN  /\ Request(o)
           /\ IF Rejected(o, rule, name)
              THEN Flag("rule") /\ UNCHANGED <<table, listed, pending>>
              ELSE IF rule \in CompilerRules
              THEN /\ IF o.enable THEN TurnOn(name, Wanted(o, rule)) ELSE TurnOff(name)
                   /\ UNCHANGED <<pending, problems>>
              ELSE /\ GetOrCreate(name, rule)
                   /\ pending' = [name |-> name, rule |-> rule, enable |-> o.enable,
                                  params |-> IF o.params = <<>> THEN <<None>> ELSE o.params]
                   /\ UNCHANGED problems
  /\ UNCHANGED <<args, phase, stack>>

-----------------------------------------------------------------------------
(***************************************************************************)
(* The Process_Rule_Parameter procedures of rules.adb, one parameter per   *)
(* step.  The procedure is that of the option's rule, the instance may be  *)
(* of another rule.                                                        *)
(***************************************************************************)
Instance == table[pending.name]
Param    == Head(pending.params)
ParamKind == Kind[pending.rule]
HasDefault == Instance.rule \in Defaulted

\* The view conversion that each procedure but No_Param_Process starts with.
MustFit ==
  \/ ParamKind = "none" \/ Instance.rule = pending.rule
  \/ /\ Instance.rule \in Rules /\ Kind[Instance.rule] = ParamKind
     /\ ParamKind \in {"integer", "string", "array", "custom"}

MayFit ==
  MustFit \/ (Instance.rule \in Rules
              /\ {Kind[Instance.rule], ParamKind} \in
                   {{"strict"}, {"required"}, {"strict", "required"}, {"array", "strict"}})

IsWrong == Param = None \/ Param \in Wrong

Removes ==
  \/ ~pending.enable /\ (Param = None \/ ParamKind # "none")
  \/ /\ pending.enable /\ Param = None
     /\ \/ ParamKind \in {"integer", "required"}
        \/ ParamKind = "string" /\ HasDefault
  \/ pending.enable /\ Param \in Wrong /\ ParamKind \in {"integer", "strict", "custom", "required"}

\* Mutant: a wrong value is not reported.
WrongAccepted ==
  \/ /\ pending.enable /\ Param = None
     /\ ParamKind = "required" \/ (ParamKind \in {"integer", "string"} /\ ~HasDefault)
  \/ Param # None /\ (ParamKind = "none" \/ ~pending.enable)

Complains ==
  \/ /\ pending.enable /\ Param = None
     /\ ParamKind = "required" \/ (ParamKind \in {"integer", "string"} /\ ~HasDefault)
  \/ Param # None /\ (ParamKind = "none" \/ ~pending.enable \/ Param \in Wrong)

Accepts == pending.enable /\ ~IsWrong /\ ParamKind # "none"

\* Emit_Redefining, when --check-redefinition is given.  The procedures of
\* several parameters look at the one that is set.
MayRedefine ==
  /\ args.redefinition /\ pending.enable /\ Param # None /\ Instance.params # {}
  /\ Accepts \/ ParamKind \notin {"none", "custom"}
MustRedefine == MayRedefine /\ ParamKind \in {"integer", "string", "array"}

WithParam ==
  [Instance EXCEPT !.params = IF ParamKind = "integer" THEN {Param} ELSE @ \cup {Param}]

NextParameter ==
  pending' = IF Tail(pending.params) = <<>> THEN None
             ELSE [pending EXCEPT !.params = Tail(@)]

ProcessParameter ==
  /\ phase = "options" /\ pending # None /\ Instance # None
  /\ MayFit
  /\ IF Removes THEN TurnOff(pending.name)
     ELSE /\ table' = IF Accepts THEN [table EXCEPT ![pending.name] = WithParam] ELSE table
          /\ UNCHANGED listed
  /\ \E redefined \in BOOLEAN :
       /\ redefined => MayRedefine
       /\ MustRedefine => redefined
       /\ problems' = problems \cup (IF Complains THEN {"rule"} ELSE {})
                               \cup (IF redefined THEN {"rule_option"} ELSE {})
  /\ NextParameter
  /\ UNCHANGED <<args, phase, stack, count, asked, doubtful>>

\* Constraint_Error: the instance is not of the type of the option's rule.
ParameterRaises ==
  /\ phase = "options" /\ pending # None /\ Instance # None
  /\ ~MustFit
  /\ phase' = "aborted"
  /\ FlagIf(stack # <<>>, "rule_option")
  /\ UNCHANGED <<args, table, listed, stack, pending, count, asked, doubtful>>

\* An earlier parameter of the option freed the instance; what is read from
\* it now is undefined.
FreedParameter ==
  /\ phase = "options" /\ pending # None /\ Instance = None
  /\ \/ phase' = "aborted" /\ UNCHANGED pending /\ FlagIf(stack # <<>>, "rule_option")
     \/ /\ NextParameter /\ UNCHANGED phase
        /\ \E more \in SUBSET {"rule", "rule_option"} : problems' = problems \cup more
  /\ UNCHANGED <<args, table, listed, stack, count, asked, doubtful>>

-----------------------------------------------------------------------------
(***************************************************************************)
(* All rules, single rules and rule files.                                 *)
(***************************************************************************)
\* Turn_All_Rules_Off.
AllOff ==
  /\ Reading
  /\ table' = [n \in Names |-> None]
  /\ listed' = [r \in Rules |-> [n \in Names |->
                 IF table[n] # None /\ table[n].rule = r THEN listed[r][n] - 1 ELSE listed[r][n]]]
  /\ asked' = [n \in Names |-> None]
  /\ doubtful' = {}
  /\ UNCHANGED <<args, phase, stack, pending, problems>>

\* Mutant: instances that are there already are replaced.
Replaced == Defaulted

\* The rules that Turn_All_Rules_On creates an instance of.
Missing == {r \in Defaulted : table[r] = None}

\* Turn_All_Rules_On.
AllOn ==
  /\ Reading /\ ~args.emit
  /\ table' = [n \in Names |-> IF n \in Missing THEN Default(n) ELSE table[n]]
  /\ listed' = [r \in Rules |-> [n \in Names |->
                 IF n = r /\ r \in Missing THEN listed[r][n] + 1 ELSE listed[r][n]]]
  /\ asked' = [n \in Names |-> IF n \in Defaulted /\ asked[n] = None
                              THEN Default(n) ELSE asked[n]]
  /\ UNCHANGED <<args, phase, stack, pending, problems, doubtful>>

AllOnRefused ==
  /\ Reading /\ args.emit
  /\ phase' = "aborted"
  /\ FlagIf(stack # <<>>, "rule_option")
  /\ UNCHANGED <<args, table, listed, stack, pending, asked, doubtful>>

\* Process_Single_Rule_Name, for --rule: an instance that is said to be
\* skipped is replaced.
SingleRule ==
  /\ Reading /\ stack = <<>>
  /\ \E x \in Names :
       LET rule == GetRule(x)
       IN  IF rule = None \/ ~Unique(x) \/ rule \in CompilerRules
           THEN /\ Flag("rule")
                /\ UNCHANGED <<table, listed, asked, doubtful>>
           ELSE /\ TurnOn(rule, Default(rule))
                /\ asked' = IF asked[rule] # None THEN asked
                            ELSE [asked EXCEPT ![rule] = Default(rule)]
                /\ doubtful' = IF asked[rule] # None THEN doubtful \cup {rule} ELSE doubtful
                /\ UNCHANGED problems
  /\ UNCHANGED <<args, phase, stack, pending>>

\* An option, or a part of a rule file, that is not a rule option.
Malformed ==
  /\ Reading
  /\ Flag("rule_option")
  /\ UNCHANGED <<args, phase, table, listed, stack, pending, asked, doubtful>>

OnStack(f) == \E i \in 1 .. Len(stack) : stack[i].file = f

\* Process_Legacy_Rule_File up to Check_For_Looping, for -from: the name is
\* looked up from the project, in the middle of a rule file as written too.
Include ==
  /\ Reading
  /\ \E f \in Files, last \in BOOLEAN :
       LET outer == IF stack # <<>> /\ last
                    THEN [stack EXCEPT ![Len(stack)].ended = TRUE] ELSE stack
           found == f \in Located /\ (stack = <<>> \/ last \/ f \in Visible)
       IN  IF ~found
           THEN Flag("rule_file") /\ stack' = outer /\ UNCHANGED phase
           ELSE IF OnStack(f)
           THEN Flag("rule_option") /\ phase' = "aborted" /\ stack' = outer
           ELSE stack' = Append(outer, [file |-> f, ended |-> FALSE]) /\ UNCHANGED <<phase, problems>>
  /\ UNCHANGED <<args, table, listed, pending, asked, doubtful>>

\* Process_Legacy_Rule_File: the last option is processed, Pop_Rule_File.
RuleFileEnds ==
  /\ phase = "options" /\ pending = None /\ stack # <<>>
  /\ stack' = Front(stack)
  /\ UNCHANGED <<args, phase, table, listed, pending, problems, count, asked, doubtful>>

\* A rule file cannot be opened or read.
RuleFileRaises ==
  /\ phase = "options" /\ pending = None /\ stack # <<>>
  /\ phase' = "aborted"
  /\ Flag("rule_option")
  /\ UNCHANGED <<args, table, listed, stack, pending, count, asked, doubtful>>

\* Process_Rule_Options has gone through all the options.
OptionsEnd ==
  /\ phase = "options" /\ pending = None /\ stack = <<>>
  /\ phase' = "done"
  /\ UNCHANGED <<args, table, listed, stack, pending, problems, count, asked, doubtful>>

Terminated == phase \in {"done", "aborted"} /\ UNCHANGED vars

Next ==
  \/ ReadInstance \/ LkqlFileFails \/ LkqlFileEnds
  \/ LegacyOption \/ ProcessParameter \/ ParameterRaises \/ FreedParameter
  \/ AllOff \/ AllOn \/ AllOnRefused \/ SingleRule \/ Malformed
  \/ Include \/ RuleFileEnds \/ RuleFileRaises \/ OptionsEnd \/ Terminated

Spec == Init /\ [][Next]_vars
-----------------------------------------------------------------------------
\* Every variable stays in the set of values that the code gives it.
TypeOK ==
  /\ args \in [emit : BOOLEAN, redefinition : BOOLEAN]
  /\ phase \in Phases
  /\ table \in [Names -> Instances \cup {None}]
  /\ listed \in [Rules -> [Names -> Nat]]
  /\ stack \in Seq([file : Files, ended : BOOLEAN])
  /\ pending \in Pendings \cup {None}
  /\ problems \subseteq Flags
  /\ count \in Nat
  /\ asked \in [Names -> Instances \cup {None}]
  /\ doubtful \subseteq Names

\* The two tables hold the same instances: one of a rule is in the list of
\* that rule once, and in no other list, however it was turned on, replaced
\* by one of the same name or turned off.  What runs is taken from the lists,
\* what is reported and removed from the map.
TablesAgree ==
  \A r \in Rules, n \in Names :
    listed[r][n] = IF table[n] # None /\ table[n].rule = r THEN 1 ELSE 0

\* When no problem with the rules is reported, each name stands for the
\* instance that the options ask for, or for none; the exit codes 4 to 6 are
\* what tells the user otherwise.
AsAsked ==
  pending = None /\ problems = {} =>
    \A n \in Names \ doubtful : table[n] = asked[n]

\* Parameters are processed for an instance that no longer exists only after
\* a wrong one was reported.
FreedReported ==
  pending # None /\ table[pending.name] = None => "rule" \in problems
=============================================================================
