-------------------------- MODULE RuleTableProofs --------------------------
(***************************************************************************)
(* Proofs about the rule table, for every set of rules, instances, options *)
(* and rule files.                                                         *)
(***************************************************************************)
EXTENDS RuleTable, TLAPS

-----------------------------------------------------------------------------
(* Turning an instance on and off *)

\* What the two tables contribute to the invariant; that they agree is what
\* keeps the counts of the lists natural numbers when an instance leaves.
Tables ==
  /\ table \in [Names -> Instances \cup {None}]
  /\ listed \in [Rules -> [Names -> Nat]]
  /\ TablesAgree

LEMMA NoneIsNoInstance == \A i \in Instances : i # None
BY RuleTableAssumption

LEMMA WithoutRemoves ==
  ASSUME Tables, NEW n \in Names
  PROVE  /\ Without(n) \in [Rules -> [Names -> Nat]]
         /\ \A r \in Rules, m \in Names :
              Without(n)[r][m] = IF m # n /\ table[m] # None /\ table[m].rule = r THEN 1 ELSE 0
<1>1. CASE table[n] # None /\ table[n].rule \in Rules
  <2>1. Without(n) = [listed EXCEPT ![table[n].rule][n] = @ - 1]
    BY <1>1 DEF Without
  <2>2. listed[table[n].rule][n] = 1
    BY <1>1 DEF Tables, TablesAgree
  <2> QED
    BY <1>1, <2>1, <2>2 DEF Tables, TablesAgree
<1>2. CASE ~(table[n] # None /\ table[n].rule \in Rules)
  <2>1. Without(n) = listed
    BY <1>2 DEF Without
  <2> QED
    BY <1>2, <2>1 DEF Tables, TablesAgree
<1> QED
  BY <1>1, <1>2

LEMMA TurnOffAgrees ==
  ASSUME Tables, NEW n \in Names, TurnOff(n)
  PROVE  Tables'
<1>1. /\ table' \in [Names -> Instances \cup {None}]
      /\ \A m \in Names : table'[m] = IF m = n THEN None ELSE table[m]
  BY DEF Tables, TurnOff
<1>2. listed' = Without(n)
  BY DEF TurnOff
<1> QED
  BY <1>1, <1>2, WithoutRemoves DEF Tables, TablesAgree

LEMMA TurnOnAgrees ==
  ASSUME Tables, NEW n \in Names, NEW i \in Instances, TurnOn(n, i)
  PROVE  Tables'
<1>1. /\ table' \in [Names -> Instances \cup {None}]
      /\ \A m \in Names : table'[m] = IF m = n THEN i ELSE table[m]
  BY DEF Tables, TurnOn
<1>2. i # None
  BY NoneIsNoInstance
<1>3. CASE i.rule \in Rules
  <2>1. listed' = [Without(n) EXCEPT ![i.rule][n] = @ + 1]
    BY <1>3 DEF TurnOn
  <2>2. Without(n)[i.rule][n] = 0
    BY <1>3, WithoutRemoves
  <2> QED
    BY <1>1, <1>2, <1>3, <2>1, <2>2, WithoutRemoves DEF Tables, TablesAgree
<1>4. CASE i.rule \notin Rules
  <2>1. listed' = Without(n)
    BY <1>4 DEF TurnOn
  <2>2. ASSUME NEW r \in Rules, NEW m \in Names
        PROVE  listed'[r][m] = IF table'[m] # None /\ table'[m].rule = r THEN 1 ELSE 0
    <3>1. CASE m = n
      BY <1>1, <1>4, <2>1, <3>1, WithoutRemoves
    <3>2. CASE m # n
      <4>1. table'[m] = table[m]
        BY <1>1, <3>2
      <4>2. Without(n)[r][m] = IF table[m] # None /\ table[m].rule = r THEN 1 ELSE 0
        BY <3>2, WithoutRemoves
      <4> QED
        BY <2>1, <4>1, <4>2
    <3> QED
      BY <3>1, <3>2
  <2> QED
    BY <1>1, <2>1, <2>2, WithoutRemoves DEF Tables, TablesAgree
<1> QED
  BY <1>3, <1>4

-----------------------------------------------------------------------------
(* What is turned on is an instance *)

LEMMA DefaultIsInstance == \A r \in AllRules : Default(r) \in Instances
BY DEF Default, Instances, Modes

LEMMA WantedIsInstance ==
  ASSUME NEW o \in Options, NEW rule \in AllRules
  PROVE  Wanted(o, rule) \in Instances
<1>1. o.params \in Seq(Params)
  BY RuleTableAssumption DEF RuleOptions
<1>2. ToSet(o.params) \subseteq Params
  BY <1>1 DEF ToSet
<1>3. o.params # <<>> => {Last(o.params)} \subseteq Params
  BY <1>1 DEF Last
<1> QED
  BY <1>2, <1>3 DEF Wanted, Instances, Modes

LEMMA GetRuleFinds ==
  ASSUME Tables, NEW x \in Names
  PROVE  GetRule(x) \in AllRules \cup {None}
BY DEF Tables, GetRule, Instances

LEMMA NoneIsNoRule == None \notin AllRules
BY RuleTableAssumption DEF Names, AllRules

LEMMA RulesAreNames == AllRules \subseteq Names /\ Rules \subseteq AllRules
BY DEF Names, AllRules

-----------------------------------------------------------------------------
(* Every action keeps the tables in agreement *)

LEMMA ReadInstanceAgrees == ASSUME Tables, ReadInstance PROVE Tables'
<1>1. PICK o \in Objects :
        LET instance == [rule |-> o.rule, alias |-> o.name # None,
                         mode |-> IF o.rule \in CompilerRules THEN "general" ELSE o.mode,
                         params |-> o.params]
        IN  \/ UNCHANGED <<table, listed>>
            \/ TurnOn(InstanceName(o), instance)
  BY DEF ReadInstance
<1>2. /\ o.rule \in AllRules /\ o.name \in Names \cup {None}
      /\ o.mode \in Modes /\ o.params \subseteq Params
  BY RuleTableAssumption
<1> DEFINE instance == [rule |-> o.rule, alias |-> o.name # None,
                        mode |-> IF o.rule \in CompilerRules THEN "general" ELSE o.mode,
                        params |-> o.params]
<1>3. instance \in Instances /\ InstanceName(o) \in Names
  BY <1>2, RulesAreNames DEF Instances, InstanceName, Modes
<1>4. CASE UNCHANGED <<table, listed>>
  BY <1>4 DEF Tables, TablesAgree
<1>5. CASE TurnOn(InstanceName(o), instance)
  BY <1>3, <1>5, TurnOnAgrees
<1> QED
  BY <1>1, <1>4, <1>5

LEMMA LegacyOptionAgrees == ASSUME Tables, LegacyOption PROVE Tables'
<1>1. PICK o \in Options :
        LET rule == GetRule(o.rule)
            name == IF o.name = None THEN rule ELSE o.name
        IN  IF Rejected(o, rule, name) THEN UNCHANGED <<table, listed>>
            ELSE IF rule \in CompilerRules
            THEN IF o.enable THEN TurnOn(name, Wanted(o, rule)) ELSE TurnOff(name)
            ELSE GetOrCreate(name, rule)
  BY DEF LegacyOption
<1> DEFINE rule == GetRule(o.rule)
           name == IF o.name = None THEN rule ELSE o.name
<1>2. o.name \in Names \cup {None} /\ o.rule \in Names
  BY RuleTableAssumption DEF RuleOptions
<1>3. CASE Rejected(o, rule, name)
  BY <1>1, <1>3 DEF Tables, TablesAgree
<1>4. CASE ~Rejected(o, rule, name)
  <2>1. rule # None
    BY <1>4 DEF Rejected
  <2>2. rule \in AllRules /\ name \in Names
    BY <1>2, <2>1, GetRuleFinds, RulesAreNames
  <2>3. Wanted(o, rule) \in Instances
    BY <2>2, WantedIsInstance
  <2>4. [rule |-> rule, alias |-> name # rule, mode |-> "general", params |-> {}] \in Instances
    BY <2>2 DEF Instances, Modes
  <2>5. \/ UNCHANGED <<table, listed>>
        \/ TurnOn(name, Wanted(o, rule))
        \/ TurnOff(name)
        \/ TurnOn(name, [rule |-> rule, alias |-> name # rule,
                         mode |-> "general", params |-> {}])
    BY <1>1, <1>4 DEF GetOrCreate
  <2>6. CASE UNCHANGED <<table, listed>>
    BY <2>6 DEF Tables, TablesAgree
  <2> QED
    BY <2>2, <2>3, <2>4, <2>5, <2>6, TurnOnAgrees, TurnOffAgrees
<1> QED
  BY <1>3, <1>4

LEMMA ProcessParameterAgrees ==
  ASSUME Tables, pending \in Pendings \cup {None}, ProcessParameter
  PROVE  Tables'
<1>1. /\ pending \in Pendings /\ Instance # None
      /\ \/ TurnOff(pending.name)
         \/ UNCHANGED <<table, listed>>
         \/ /\ Accepts
            /\ table' = [table EXCEPT ![pending.name] = WithParam]
            /\ UNCHANGED listed
  BY DEF ProcessParameter
<1>2. /\ pending.name \in Names
      /\ Param \in Params \cup {None}
      /\ Instance \in Instances
  BY <1>1 DEF Pendings, Param, Instance, Tables
<1>3. CASE UNCHANGED <<table, listed>>
  BY <1>3 DEF Tables, TablesAgree
<1>4. CASE /\ Accepts
           /\ table' = [table EXCEPT ![pending.name] = WithParam]
           /\ UNCHANGED listed
  <2>1. Param \in Params
    BY <1>2, <1>4 DEF Accepts, IsWrong
  <2>2. WithParam \in Instances /\ WithParam.rule = Instance.rule
    BY <1>2, <2>1 DEF WithParam, Instances
  <2>3. \A m \in Names : /\ table'[m] # None <=> table[m] # None
                         /\ table[m] # None => table'[m].rule = table[m].rule
    BY <1>1, <1>2, <1>4, <2>2, NoneIsNoInstance DEF Tables, Instance
  <2>4. table' \in [Names -> Instances \cup {None}]
    BY <1>2, <1>4, <2>2 DEF Tables
  <2>5. TablesAgree'
    BY <1>4, <2>3 DEF Tables, TablesAgree
  <2> QED
    BY <1>4, <2>4, <2>5 DEF Tables
<1> QED
  BY <1>1, <1>2, <1>3, <1>4, TurnOffAgrees

LEMMA AllOffAgrees == ASSUME Tables, AllOff PROVE Tables'
<1>1. table' = [n \in Names |-> None]
  BY DEF AllOff
<1>2. /\ listed' = [r \in Rules |-> [n \in Names |->
                     IF table[n] # None /\ table[n].rule = r
                     THEN listed[r][n] - 1 ELSE listed[r][n]]]
  BY DEF AllOff
<1>3. \A r \in Rules, n \in Names :
        listed[r][n] = IF table[n] # None /\ table[n].rule = r THEN 1 ELSE 0
  BY DEF Tables, TablesAgree
<1>4. \A r \in Rules, n \in Names : listed'[r][n] = 0
  BY <1>2, <1>3
<1>5. listed' \in [Rules -> [Names -> Nat]]
  <2>1. ASSUME NEW r \in Rules
        PROVE  [n \in Names |-> IF table[n] # None /\ table[n].rule = r
                                THEN listed[r][n] - 1 ELSE listed[r][n]] \in [Names -> Nat]
    BY <1>3
  <2> QED
    BY <1>2, <2>1
<1> QED
  BY <1>1, <1>4, <1>5 DEF Tables, TablesAgree

LEMMA AllOnAgrees == ASSUME Tables, AllOn PROVE Tables'
<1>1. /\ table' = [n \in Names |-> IF n \in Missing THEN Default(n) ELSE table[n]]
      /\ listed' = [r \in Rules |-> [n \in Names |->
                     IF n = r /\ r \in Missing THEN listed[r][n] + 1 ELSE listed[r][n]]]
  BY DEF AllOn
<1>2. Missing \subseteq Rules /\ \A n \in Missing : table[n] = None
  BY RuleTableAssumption DEF Missing
<1>3. \A n \in Missing : Default(n) \in Instances /\ Default(n) # None /\ Default(n).rule = n
  <2>1. \A n \in Missing : Default(n) \in Instances
    BY <1>2, DefaultIsInstance, RulesAreNames
  <2> QED
    BY <2>1, NoneIsNoInstance DEF Default
<1>4. table' \in [Names -> Instances \cup {None}]
  BY <1>1, <1>3 DEF Tables
<1>5. \A r \in Rules, n \in Names : listed[r][n] \in Nat
  BY DEF Tables
<1>6. listed' \in [Rules -> [Names -> Nat]]
  <2>1. ASSUME NEW r \in Rules
        PROVE  [n \in Names |-> IF n = r /\ r \in Missing
                                THEN listed[r][n] + 1 ELSE listed[r][n]] \in [Names -> Nat]
    BY <1>5
  <2> QED
    BY <1>1, <2>1
<1>7. ASSUME NEW r \in Rules, NEW n \in Names
      PROVE  listed'[r][n] = IF table'[n] # None /\ table'[n].rule = r THEN 1 ELSE 0
  <2>1. listed[r][n] = IF table[n] # None /\ table[n].rule = r THEN 1 ELSE 0
    BY DEF Tables, TablesAgree
  <2>2. CASE n \in Missing
    <3>1. table[n] = None /\ table'[n] = Default(n)
      BY <1>1, <1>2, <2>2
    <3>2. listed[r][n] = 0
      BY <2>1, <3>1
    <3>3. listed'[r][n] = IF n = r THEN 1 ELSE 0
      BY <1>1, <2>2, <3>2
    <3> QED
      BY <1>3, <2>2, <3>1, <3>3
  <2>3. CASE n \notin Missing
    <3>1. table'[n] = table[n] /\ listed'[r][n] = listed[r][n]
      BY <1>1, <2>3
    <3> QED
      BY <2>1, <3>1
  <2> QED
    BY <2>2, <2>3
<1> QED
  BY <1>4, <1>6, <1>7 DEF Tables, TablesAgree

LEMMA SingleRuleAgrees == ASSUME Tables, SingleRule PROVE Tables'
<1>1. PICK x \in Names :
        LET rule == GetRule(x)
        IN  \/ UNCHANGED <<table, listed>>
            \/ rule # None /\ TurnOn(rule, Default(rule))
  BY DEF SingleRule
<1> DEFINE rule == GetRule(x)
<1>2. CASE UNCHANGED <<table, listed>>
  BY <1>2 DEF Tables, TablesAgree
<1>3. CASE rule # None /\ TurnOn(rule, Default(rule))
  <2>1. rule \in AllRules
    BY <1>3, GetRuleFinds
  <2>2. Default(rule) \in Instances /\ rule \in Names
    BY <2>1, DefaultIsInstance, RulesAreNames
  <2> QED
    BY <1>3, <2>2, TurnOnAgrees
<1> QED
  BY <1>1, <1>2, <1>3

-----------------------------------------------------------------------------
(* The stack of rule files *)

LEMMA FrontTyped ==
  ASSUME NEW S, NEW s \in Seq(S), s # <<>>
  PROVE  Front(s) \in Seq(S)
<1>1. Len(s) \in Nat \ {0} /\ \A i \in 1 .. Len(s) : s[i] \in S
  OBVIOUS
<1> QED
  BY <1>1 DEF Front

LEMMA LastTyped ==
  ASSUME NEW S, NEW s \in Seq(S), s # <<>>
  PROVE  s[Len(s)] \in S
OBVIOUS

LEMMA AppendTyped ==
  ASSUME NEW S, NEW s \in Seq(S), NEW e \in S
  PROVE  Append(s, e) \in Seq(S)
OBVIOUS

LEMMA LastReplaced ==
  ASSUME NEW S, NEW s \in Seq(S), s # <<>>, NEW e \in S
  PROVE  [s EXCEPT ![Len(s)] = e] \in Seq(S)
OBVIOUS

-----------------------------------------------------------------------------
(* The other variables, and the invariant *)

Others ==
  /\ args \in [emit : BOOLEAN, redefinition : BOOLEAN]
  /\ phase \in Phases
  /\ stack \in Seq([file : Files, ended : BOOLEAN])
  /\ pending \in Pendings \cup {None}
  /\ problems \subseteq Flags
  /\ count \in Nat
  /\ asked \in [Names -> Instances \cup {None}]
  /\ doubtful \subseteq Names

LEMMA RequestTyped ==
  ASSUME Others, NEW o \in Options, Request(o)
  PROVE  asked' \in [Names -> Instances \cup {None}] /\ doubtful' \subseteq Names
<1> DEFINE rule == IF o.rule \in AllRules \/ asked[o.rule] = None
                   THEN o.rule ELSE asked[o.rule].rule
           name == IF o.name = None THEN rule ELSE o.name
<1>1. CASE Unclear(o)
  <2>1. o.name \in Names \cup {None}
    BY RuleTableAssumption DEF RuleOptions
  <2> QED
    BY <1>1, <2>1, RulesAreNames DEF Request, Others
<1>2. CASE ~Unclear(o) /\ rule \notin AllRules
  BY <1>2 DEF Request, Others
<1>3. CASE ~Unclear(o) /\ rule \in AllRules
  <2>1. name \in Names
    BY <1>3, RuleTableAssumption, RulesAreNames DEF RuleOptions
  <2>2. Wanted(o, rule) \in Instances
    BY <1>3, WantedIsInstance
  <2>3. CASE o.enable
    <3>1. /\ asked' = IF asked[name] # None THEN asked
                      ELSE [asked EXCEPT ![name] = Wanted(o, rule)]
          /\ doubtful' = IF Doubted(o, rule, name) THEN doubtful \cup {name} ELSE doubtful
      BY <1>3, <2>3 DEF Request
    <3> QED
      BY <2>1, <2>2, <3>1 DEF Others
  <2>4. CASE ~o.enable
    <3>1. asked' = [asked EXCEPT ![name] = None] /\ doubtful' = doubtful \ {name}
      BY <1>3, <2>4 DEF Request
    <3> QED
      BY <2>1, <3>1 DEF Others
  <2> QED
    BY <2>3, <2>4
<1> QED
  BY <1>1, <1>2, <1>3

LEMMA NextParameterTyped ==
  ASSUME pending \in Pendings, NextParameter
  PROVE  pending' \in Pendings \cup {None}
<1>1. CASE Tail(pending.params) = <<>>
  BY <1>1 DEF NextParameter
<1>2. CASE Tail(pending.params) # <<>>
  <2>1. Tail(pending.params) \in Seq(Params \cup {None}) \ {<<>>}
    BY <1>2 DEF Pendings
  <2>2. pending' = [pending EXCEPT !.params = Tail(pending.params)]
    BY <1>2 DEF NextParameter
  <2> QED
    BY <2>1, <2>2 DEF Pendings
<1> QED
  BY <1>1, <1>2

LEMMA ReadInstanceTyped == ASSUME Others, ReadInstance PROVE Others'
<1>1. PICK o \in Objects :
        /\ problems' \in {problems, problems \cup {"rule"}}
        /\ asked' = [asked EXCEPT ![InstanceName(o)] =
                      [rule |-> o.rule, alias |-> o.name # None,
                       mode |-> IF o.rule \in CompilerRules THEN "general" ELSE o.mode,
                       params |-> o.params]]
  BY DEF ReadInstance, FlagIf
<1>2. /\ o.rule \in AllRules /\ o.name \in Names \cup {None}
      /\ o.mode \in Modes /\ o.params \subseteq Params
  BY RuleTableAssumption
<1>3. asked' \in [Names -> Instances \cup {None}]
  BY <1>1, <1>2, RulesAreNames DEF Others, Instances, InstanceName, Modes
<1>4. count' = count + 1 /\ UNCHANGED <<args, phase, stack, pending, doubtful>>
  BY DEF ReadInstance
<1> QED
  BY <1>1, <1>3, <1>4 DEF Others, Flags

LEMMA LegacyOptionTyped == ASSUME Others, Tables, LegacyOption PROVE Others'
<1>1. PICK o \in Options :
        LET rule == GetRule(o.rule)
            name == IF o.name = None THEN rule ELSE o.name
        IN  /\ Request(o)
            /\ \/ problems' = problems \cup {"rule"} /\ UNCHANGED pending
               \/ UNCHANGED <<problems, pending>>
               \/ /\ UNCHANGED problems
                  /\ ~Rejected(o, rule, name) /\ rule \notin CompilerRules
                  /\ pending' = [name |-> name, rule |-> rule, enable |-> o.enable,
                                 params |-> IF o.params = <<>> THEN <<None>> ELSE o.params]
  BY DEF LegacyOption, Flag
<1> DEFINE rule == GetRule(o.rule)
           name == IF o.name = None THEN rule ELSE o.name
<1>2. /\ o.name \in Names \cup {None} /\ o.rule \in Names
      /\ o.enable \in BOOLEAN /\ o.params \in Seq(Params)
  BY RuleTableAssumption DEF RuleOptions
<1>3. problems' \subseteq Flags
  BY <1>1 DEF Others, Flags
<1>4. pending' \in Pendings \cup {None}
  <2>1. CASE UNCHANGED pending
    BY <2>1 DEF Others
  <2>2. CASE /\ ~Rejected(o, rule, name) /\ rule \notin CompilerRules
             /\ pending' = [name |-> name, rule |-> rule, enable |-> o.enable,
                            params |-> IF o.params = <<>> THEN <<None>> ELSE o.params]
    <3>1. rule \in Rules
      BY <1>2, <2>2, GetRuleFinds DEF Rejected, AllRules
    <3>2. name \in Names
      BY <1>2, <3>1, RulesAreNames
    <3>3. (IF o.params = <<>> THEN <<None>> ELSE o.params)
            \in Seq(Params \cup {None}) \ {<<>>}
      BY <1>2
    <3> QED
      BY <1>2, <2>2, <3>1, <3>2, <3>3 DEF Pendings
  <2> QED
    BY <1>1, <2>1, <2>2
<1>5. asked' \in [Names -> Instances \cup {None}] /\ doubtful' \subseteq Names
  BY <1>1, RequestTyped
<1>6. count' = count + 1 /\ UNCHANGED <<args, phase, stack>>
  BY DEF LegacyOption, Reading
<1> QED
  BY <1>3, <1>4, <1>5, <1>6 DEF Others

LEMMA ParametersTyped ==
  ASSUME Others, ProcessParameter \/ ParameterRaises \/ FreedParameter
  PROVE  Others'
<1>1. UNCHANGED <<args, stack, count, asked, doubtful>>
  BY DEF ProcessParameter, ParameterRaises, FreedParameter
<1>2. phase' \in Phases /\ problems' \subseteq Flags
  BY DEF ProcessParameter, ParameterRaises, FreedParameter, FlagIf, Others, Flags, Phases
<1>3. pending \in Pendings /\ (NextParameter \/ UNCHANGED pending)
  BY DEF ProcessParameter, ParameterRaises, FreedParameter, Others
<1>4. pending' \in Pendings \cup {None}
  BY <1>3, NextParameterTyped
<1> QED
  BY <1>1, <1>2, <1>4 DEF Others

LEMMA WholesaleTyped ==
  ASSUME Others, Tables, AllOff \/ AllOn \/ AllOnRefused \/ SingleRule \/ Malformed
  PROVE  Others'
<1>1. count' = count + 1 /\ UNCHANGED <<args, stack, pending>>
  BY DEF AllOff, AllOn, AllOnRefused, SingleRule, Malformed, Reading
<1>2. phase' \in Phases /\ problems' \subseteq Flags
  BY DEF AllOff, AllOn, AllOnRefused, SingleRule, Malformed, Flag, FlagIf, Others, Flags, Phases
<1>3. asked' \in [Names -> Instances \cup {None}] /\ doubtful' \subseteq Names
  <2>1. CASE AllOff
    BY <2>1 DEF AllOff
  <2>2. CASE AllOn
    <3>1. \A n \in Defaulted : Default(n) \in Instances
      BY DefaultIsInstance, RulesAreNames, RuleTableAssumption
    <3> QED
      BY <2>2, <3>1 DEF AllOn, Others
  <2>3. CASE AllOnRefused \/ Malformed
    BY <2>3 DEF AllOnRefused, Malformed, Others
  <2>4. CASE SingleRule
    <3>1. PICK x \in Names :
            LET rule == GetRule(x)
            IN  \/ UNCHANGED <<asked, doubtful>>
                \/ /\ rule # None
                   /\ asked' = IF asked[rule] # None THEN asked
                               ELSE [asked EXCEPT ![rule] = Default(rule)]
                   /\ doubtful' = IF asked[rule] # None THEN doubtful \cup {rule} ELSE doubtful
      BY <2>4 DEF SingleRule
    <3>2. GetRule(x) # None => GetRule(x) \in Names /\ Default(GetRule(x)) \in Instances
      BY GetRuleFinds, DefaultIsInstance, RulesAreNames
    <3> QED
      BY <3>1, <3>2 DEF Others
  <2> QED
    BY <2>1, <2>2, <2>3, <2>4
<1> QED
  BY <1>1, <1>2, <1>3 DEF Others

LEMMA FilesTyped ==
  ASSUME Others, Include \/ RuleFileEnds \/ RuleFileRaises
  PROVE  Others'
<1> DEFINE Entry == [file : Files, ended : BOOLEAN]
<1>1. /\ count' \in Nat
      /\ UNCHANGED <<args, pending, asked, doubtful>>
  BY DEF Include, RuleFileEnds, RuleFileRaises, Reading, Others
<1>2. phase' \in Phases /\ problems' \subseteq Flags
  BY DEF Include, RuleFileEnds, RuleFileRaises, Flag, Others, Flags, Phases
<1>3. stack' \in Seq(Entry)
  <2>1. CASE Include
    <3>1. PICK f \in Files, last \in BOOLEAN :
            LET outer == IF stack # <<>> /\ last
                         THEN [stack EXCEPT ![Len(stack)].ended = TRUE] ELSE stack
            IN  stack' = outer \/ stack' = Append(outer, [file |-> f, ended |-> FALSE])
      BY <2>1 DEF Include
    <3>2. stack # <<>> => [stack EXCEPT ![Len(stack)].ended = TRUE] \in Seq(Entry)
      <4>1. stack \in Seq(Entry)
        BY DEF Others
      <4>2. SUFFICES ASSUME stack # <<>>
                     PROVE  [stack EXCEPT ![Len(stack)].ended = TRUE] \in Seq(Entry)
        OBVIOUS
      <4>3. stack[Len(stack)] \in Entry
        BY <4>1, <4>2, LastTyped
      <4>4. [stack[Len(stack)] EXCEPT !.ended = TRUE] \in Entry
        BY <4>3
      <4>5. [stack EXCEPT ![Len(stack)].ended = TRUE]
              = [stack EXCEPT ![Len(stack)] = [stack[Len(stack)] EXCEPT !.ended = TRUE]]
        BY <4>1
      <4> QED
        BY <4>1, <4>2, <4>4, <4>5, LastReplaced
    <3>3. [file |-> f, ended |-> FALSE] \in Entry
      OBVIOUS
    <3> DEFINE outer == IF stack # <<>> /\ last
                        THEN [stack EXCEPT ![Len(stack)].ended = TRUE] ELSE stack
    <3>4. outer \in Seq(Entry)
      BY <3>2 DEF Others
    <3>5. Append(outer, [file |-> f, ended |-> FALSE]) \in Seq(Entry)
      BY <3>3, <3>4, AppendTyped
    <3> QED
      BY <3>1, <3>4, <3>5
  <2>2. CASE RuleFileEnds
    <3>1. stack \in Seq(Entry) /\ stack # <<>> /\ stack' = Front(stack)
      BY <2>2 DEF RuleFileEnds, Others
    <3> QED
      BY <3>1, FrontTyped
  <2>3. CASE RuleFileRaises
    BY <2>3 DEF RuleFileRaises, Others
  <2> QED
    BY <2>1, <2>2, <2>3
<1> QED
  BY <1>1, <1>2, <1>3 DEF Others

Inv == Others /\ Tables

LEMMA InitEstablishes == Init => Inv
<1> SUFFICES ASSUME Init PROVE Inv
  OBVIOUS
<1>1. Others
  BY DEF Init, Others, Phases, Flags
<1>2. table = [n \in Names |-> None] /\ listed = [r \in Rules |-> [n \in Names |-> 0]]
  BY DEF Init
<1>3. Tables
  BY <1>2 DEF Tables, TablesAgree
<1> QED
  BY <1>1, <1>3 DEF Inv

LEMMA NextPreserves == Inv /\ [Next]_vars => Inv'
<1> SUFFICES ASSUME Inv, [Next]_vars PROVE Inv'
  OBVIOUS
<1> USE DEF Inv
<1>1. CASE ReadInstance
  BY <1>1, ReadInstanceAgrees, ReadInstanceTyped
<1>2. CASE LkqlFileFails \/ LkqlFileEnds
  <2>1. UNCHANGED <<table, listed>>
    BY <1>2 DEF LkqlFileFails, LkqlFileEnds
  <2>2. Tables'
    BY <2>1 DEF Tables, TablesAgree
  <2>3. Others'
    BY <1>2 DEF LkqlFileFails, LkqlFileEnds, Flag, Others, Flags, Phases
  <2> QED
    BY <2>2, <2>3
<1>3. CASE LegacyOption
  BY <1>3, LegacyOptionAgrees, LegacyOptionTyped
<1>4. CASE ProcessParameter
  <2>1. Tables'
    BY <1>4, ProcessParameterAgrees DEF Others
  <2> QED
    BY <1>4, <2>1, ParametersTyped
<1>5. CASE ParameterRaises \/ FreedParameter
  <2>1. UNCHANGED <<table, listed>>
    BY <1>5 DEF ParameterRaises, FreedParameter
  <2>2. Tables'
    BY <2>1 DEF Tables, TablesAgree
  <2> QED
    BY <1>5, <2>2, ParametersTyped
<1>6. CASE AllOff
  BY <1>6, AllOffAgrees, WholesaleTyped
<1>7. CASE AllOn
  BY <1>7, AllOnAgrees, WholesaleTyped
<1>8. CASE AllOnRefused \/ Malformed
  <2>1. UNCHANGED <<table, listed>>
    BY <1>8 DEF AllOnRefused, Malformed
  <2>2. Tables'
    BY <2>1 DEF Tables, TablesAgree
  <2> QED
    BY <1>8, <2>2, WholesaleTyped
<1>9. CASE SingleRule
  BY <1>9, SingleRuleAgrees, WholesaleTyped
<1>10. CASE Include \/ RuleFileEnds \/ RuleFileRaises
  <2>1. UNCHANGED <<table, listed>>
    BY <1>10 DEF Include, RuleFileEnds, RuleFileRaises
  <2>2. Tables'
    BY <2>1 DEF Tables, TablesAgree
  <2> QED
    BY <1>10, <2>2, FilesTyped
<1>11. CASE OptionsEnd
  <2>1. UNCHANGED <<table, listed>>
    BY <1>11 DEF OptionsEnd
  <2>2. Tables'
    BY <2>1 DEF Tables, TablesAgree
  <2>3. Others'
    BY <1>11 DEF OptionsEnd, Others, Phases
  <2> QED
    BY <2>2, <2>3
<1>12. CASE Terminated \/ UNCHANGED vars
  BY <1>12 DEF Terminated, vars, Others, Tables, TablesAgree
<1> QED
  BY <1>1, <1>2, <1>3, <1>4, <1>5, <1>6, <1>7, <1>8, <1>9, <1>10, <1>11, <1>12 DEF Next

\* The state of the rule table is well typed whatever the options and the
\* files (Process_Rule_Options): no list of a rule loses an instance that is
\* not in it.
THEOREM TypeCorrect == Spec => []TypeOK
<1>1. Inv => TypeOK
  BY DEF Inv, Others, Tables, TypeOK
<1> QED
  BY <1>1, InitEstablishes, NextPreserves, PTL DEF Spec

\* All_Rule_Instances and the lists of All_Rules hold the same instances
\* after every sequence of options (Turn_Instance_On, Turn_Instance_Off).
THEOREM Agreement == Spec => []TablesAgree
<1>1. Inv => TablesAgree
  BY DEF Inv, Tables
<1> QED
  BY <1>1, InitEstablishes, NextPreserves, PTL DEF Spec

-----------------------------------------------------------------------------
(* Parameters that are still to be processed *)

\* Nothing is pending before the options, and "no parameter" stands alone.
Shape ==
  /\ phase = "lkql" => pending = None
  /\ pending # None => pending.params \in Seq(Params) \cup {<<None>>}

LEMMA TurnedOn ==
  ASSUME Tables, NEW n \in Names, NEW i, TurnOn(n, i)
  PROVE  \A m \in Names : table'[m] = IF m = n THEN i ELSE table[m]
BY DEF Tables, TurnOn

LEMMA TurnedOff ==
  ASSUME Tables, NEW n \in Names, TurnOff(n)
  PROVE  \A m \in Names : table'[m] = IF m = n THEN None ELSE table[m]
BY DEF Tables, TurnOff

\* What an option does: the instance of that name is turned on or off, or is
\* there and waits for the parameters.
Effect(o, rule, name) ==
  IF Rejected(o, rule, name)
  THEN problems' = problems \cup {"rule"} /\ UNCHANGED <<table, pending>>
  ELSE /\ UNCHANGED problems
       /\ rule \in AllRules /\ name \in Names
       /\ \A m \in Names \ {name} : table'[m] = table[m]
       /\ IF rule \in CompilerRules
          THEN /\ UNCHANGED pending
               /\ table'[name] = IF o.enable THEN Wanted(o, rule) ELSE None
          ELSE /\ table'[name] =
                    IF table[name] # None THEN table[name]
                    ELSE [rule |-> rule, alias |-> name # rule,
                          mode |-> "general", params |-> {}]
               /\ pending' = [name |-> name, rule |-> rule, enable |-> o.enable,
                              params |-> IF o.params = <<>> THEN <<None>> ELSE o.params]

NameOf(o) == IF o.name = None THEN GetRule(o.rule) ELSE o.name

LEMMA LegacySteps ==
  ASSUME Inv, LegacyOption
  PROVE  \E o \in Options : Request(o) /\ Effect(o, GetRule(o.rule), NameOf(o))
<1>1. PICK o \in Options :
        LET rule == GetRule(o.rule)
            name == NameOf(o)
        IN  /\ Request(o)
            /\ IF Rejected(o, rule, name)
               THEN Flag("rule") /\ UNCHANGED <<table, listed, pending>>
               ELSE IF rule \in CompilerRules
               THEN /\ IF o.enable THEN TurnOn(name, Wanted(o, rule)) ELSE TurnOff(name)
                    /\ UNCHANGED <<pending, problems>>
               ELSE /\ GetOrCreate(name, rule)
                    /\ pending' = [name |-> name, rule |-> rule, enable |-> o.enable,
                                   params |-> IF o.params = <<>> THEN <<None>> ELSE o.params]
                    /\ UNCHANGED problems
  BY DEF LegacyOption, NameOf
<1> DEFINE rule == GetRule(o.rule)
           name == NameOf(o)
<1>2. Tables /\ o.rule \in Names /\ o.name \in Names \cup {None}
  BY RuleTableAssumption DEF Inv, RuleOptions
<1>3. CASE Rejected(o, rule, name)
  BY <1>1, <1>3 DEF Flag, Effect
<1>4. CASE ~Rejected(o, rule, name)
  <2>1. rule \in AllRules /\ name \in Names
    <3>1. rule # None
      BY <1>4 DEF Rejected
    <3> QED BY <1>2, <3>1, GetRuleFinds, RulesAreNames DEF NameOf
  <2>2. CASE rule \in CompilerRules
    <3>1. UNCHANGED <<pending, problems>> /\ Request(o)
      BY <1>1, <1>4, <2>2
    <3>2. CASE o.enable
      <4>1. TurnOn(name, Wanted(o, rule))
        BY <1>1, <1>4, <2>2, <3>2
      <4>2. \A m \in Names : table'[m] = IF m = name THEN Wanted(o, rule) ELSE table[m]
        BY <1>2, <2>1, <4>1, TurnedOn
      <4> QED BY <1>4, <2>1, <2>2, <3>1, <3>2, <4>2 DEF Effect
    <3>3. CASE ~o.enable
      <4>1. TurnOff(name)
        BY <1>1, <1>4, <2>2, <3>3
      <4>2. \A m \in Names : table'[m] = IF m = name THEN None ELSE table[m]
        BY <1>2, <2>1, <4>1, TurnedOff
      <4> QED BY <1>4, <2>1, <2>2, <3>1, <3>3, <4>2 DEF Effect
    <3> QED BY <3>2, <3>3
  <2>3. CASE rule \notin CompilerRules
    <3> DEFINE new == [rule |-> rule, alias |-> name # rule,
                       mode |-> "general", params |-> {}]
    <3>1. /\ GetOrCreate(name, rule) /\ UNCHANGED problems /\ Request(o)
          /\ pending' = [name |-> name, rule |-> rule, enable |-> o.enable,
                         params |-> IF o.params = <<>> THEN <<None>> ELSE o.params]
      BY <1>1, <1>4, <2>3
    <3>2. CASE table[name] # None
      <4>1. table' = table
        BY <3>1, <3>2 DEF GetOrCreate
      <4> QED BY <1>4, <2>1, <2>3, <3>1, <3>2, <4>1 DEF Effect
    <3>3. CASE table[name] = None
      <4>1. TurnOn(name, new)
        BY <3>1, <3>3 DEF GetOrCreate
      <4> HIDE DEF new
      <4>2. \A m \in Names : table'[m] = IF m = name THEN new ELSE table[m]
        BY <1>2, <2>1, <4>1, TurnedOn
      <4> QED BY <1>4, <2>1, <2>3, <3>1, <3>3, <4>2 DEF new, Effect
    <3> QED BY <3>2, <3>3
  <2> QED BY <2>2, <2>3
<1> QED BY <1>3, <1>4

\* A parameter is taken off the list.
LEMMA NextParameterShape ==
  ASSUME pending \in Pendings, Shape, NextParameter
  PROVE  /\ pending.params = <<None>> => pending' = None
         /\ pending.params # <<None>> =>
              /\ pending.params \in Seq(Params) /\ Param \in Params
              /\ pending' # None =>
                   /\ pending' = [pending EXCEPT !.params = Tail(pending.params)]
                   /\ Tail(pending.params) \in Seq(Params) \ {<<>>}
              /\ pending' = None => Tail(pending.params) = <<>>
<1>1. pending # None /\ pending.params # <<>>
  BY RuleTableAssumption DEF Pendings
<1>2. CASE pending.params = <<None>>
  <2>1. Tail(pending.params) = <<>>
    BY <1>2
  <2> QED BY <1>2, <2>1 DEF NextParameter
<1>3. CASE pending.params # <<None>>
  <2> DEFINE ps == pending.params
  <2>1. ps \in Seq(Params) /\ ps # <<>>
    BY <1>1, <1>3 DEF Shape
  <2>2. pending' = IF Tail(ps) = <<>> THEN None ELSE [pending EXCEPT !.params = Tail(ps)]
    BY DEF NextParameter
  <2>3. Head(ps) \in Params /\ Tail(ps) \in Seq(Params)
    BY <2>1
  <2>4. Tail(ps) # <<>> => [pending EXCEPT !.params = Tail(ps)] \in Pendings
    <3>1. ps \in Seq(Params \cup {None})
      BY DEF Pendings
    <3>2. Tail(ps) \in Seq(Params \cup {None})
      BY <2>1, <3>1
    <3> HIDE DEF ps
    <3> QED BY <3>2 DEF Pendings
  <2> QED BY <1>3, <2>1, <2>2, <2>3, <2>4, RuleTableAssumption DEF Param
<1> QED BY <1>2, <1>3


LEMMA NextShape ==
  ASSUME Inv, Shape, [Next]_vars
  PROVE  Shape'
<1>1. CASE LegacyOption
  <2>1. pending = None /\ phase # "lkql" /\ phase' = phase
    BY <1>1 DEF LegacyOption, Reading
  <2>6. PICK o \in Options : Effect(o, GetRule(o.rule), NameOf(o))
    BY <1>1, LegacySteps
  <2>2. \/ UNCHANGED pending
        \/ pending'.params = IF o.params = <<>> THEN <<None>> ELSE o.params
    BY <2>6 DEF Effect
  <2>3. o.params \in Seq(Params)
    BY RuleTableAssumption DEF RuleOptions
  <2>4. CASE UNCHANGED pending
    BY <2>1, <2>4 DEF Shape
  <2>5. CASE pending'.params = IF o.params = <<>> THEN <<None>> ELSE o.params
    BY <2>1, <2>3, <2>5 DEF Shape
  <2> QED BY <2>2, <2>4, <2>5
<1>2. CASE NextParameter /\ phase = "options" /\ phase' = phase /\ pending # None
  <2>1. pending \in Pendings
    BY <1>2 DEF Inv, Others
  <2>2. CASE pending.params = <<None>>
    BY <1>2, <2>1, <2>2, NextParameterShape DEF Shape
  <2>3. CASE pending.params # <<None>> /\ pending' # None
    <3>1. /\ pending' = [pending EXCEPT !.params = Tail(pending.params)]
          /\ Tail(pending.params) \in Seq(Params)
      BY <1>2, <2>1, <2>3, NextParameterShape
    <3>2. pending'.params = Tail(pending.params)
      BY <2>1, <3>1 DEF Pendings
    <3> QED BY <1>2, <3>1, <3>2 DEF Shape
  <2> QED BY <1>2, <2>2, <2>3 DEF Shape
<1>3. CASE UNCHANGED pending /\ (phase' = "lkql" => phase = "lkql")
  BY <1>3 DEF Shape
<1>4. CASE ProcessParameter \/ FreedParameter
  BY <1>2, <1>3, <1>4 DEF ProcessParameter, FreedParameter
<1> QED BY <1>1, <1>3, <1>4
        DEF Next, vars, ReadInstance, LkqlFileFails, LkqlFileEnds, ParameterRaises,
            AllOff, AllOn, AllOnRefused, SingleRule, Malformed, Include, RuleFileEnds,
            RuleFileRaises, OptionsEnd, Terminated, Reading

\* The flags of the exit code are only ever raised.
LEMMA FlagsStay == [Next]_vars => problems \subseteq problems'
<1> SUFFICES ASSUME [Next]_vars PROVE problems \subseteq problems'
  OBVIOUS
<1>1. CASE LegacyOption
  BY <1>1 DEF LegacyOption, Flag
<1>2. CASE ProcessParameter
  BY <1>2 DEF ProcessParameter
<1>3. CASE FreedParameter
  BY <1>3 DEF FreedParameter, FlagIf
<1>4. CASE Include
  BY <1>4 DEF Include, Flag
<1>5. CASE SingleRule
  BY <1>5 DEF SingleRule, Flag
<1> QED BY <1>1, <1>2, <1>3, <1>4, <1>5
        DEF Next, vars, ReadInstance, LkqlFileFails, LkqlFileEnds, ParameterRaises,
            AllOff, AllOn, AllOnRefused, Malformed, RuleFileEnds,
            RuleFileRaises, OptionsEnd, Terminated, Flag, FlagIf

-----------------------------------------------------------------------------
(* Freed instances *)

\* A parameter that is not the last one and turns the instance off is reported.
LEMMA ParameterReported ==
  ASSUME Inv, Shape, ProcessParameter, pending' # None, Removes
  PROVE  "rule" \in problems'
<1>1. pending \in Pendings /\ pending # None /\ NextParameter
  BY DEF ProcessParameter, Inv, Others
<1>2. Param \in Params
  BY <1>1, NextParameterShape
<1>3. Param # None
  BY <1>2, RuleTableAssumption
<1>4. Complains
  BY <1>3 DEF Removes, Complains
<1> QED BY <1>4 DEF ProcessParameter

LEMMA NextFreed ==
  ASSUME Inv, Shape, FreedReported, [Next]_vars
  PROVE  FreedReported'
<1>1. CASE UNCHANGED <<pending, table>>
  BY <1>1, FlagsStay DEF FreedReported
<1>2. CASE pending' = None
  BY <1>2 DEF FreedReported
<1>3. CASE LegacyOption
  <2>1. pending = None
    BY <1>3 DEF LegacyOption, Reading
  <2>2. PICK o \in Options : Effect(o, GetRule(o.rule), NameOf(o))
    BY <1>3, LegacySteps
  <2> DEFINE rule == GetRule(o.rule)
             name == NameOf(o)
             new == [rule |-> rule, alias |-> name # rule,
                     mode |-> "general", params |-> {}]
  <2>3. rule \in AllRules => new # None
    <3>1. rule \in AllRules => new \in Instances
      BY DEF Instances, Modes
    <3> QED BY <3>1, NoneIsNoInstance
  <2> HIDE DEF new
  <2>4. CASE UNCHANGED pending
    BY <2>1, <2>4 DEF FreedReported
  <2>5. CASE pending'.name = name /\ rule \in AllRules
             /\ table'[name] = IF table[name] # None THEN table[name] ELSE new
    <3>1. table'[pending'.name] # None
      BY <2>3, <2>5
    <3> QED BY <3>1 DEF FreedReported
  <2>6. \/ UNCHANGED pending
        \/ /\ pending'.name = name /\ rule \in AllRules
           /\ table'[name] = IF table[name] # None THEN table[name] ELSE new
    BY <2>2 DEF Effect, new
  <2> QED BY <2>4, <2>5, <2>6
<1>4. CASE ProcessParameter /\ pending' # None
  <2>1. pending \in Pendings /\ Instance # None /\ NextParameter
    BY <1>4 DEF ProcessParameter, Inv, Others
  <2>2. pending' = [pending EXCEPT !.params = Tail(pending.params)]
    BY <1>4, <2>1 DEF NextParameter
  <2>3. pending'.name = pending.name /\ pending.name \in Names
    BY <2>1, <2>2 DEF Pendings
  <2>4. CASE Removes
    BY <1>4, <2>4, ParameterReported DEF FreedReported
  <2>5. CASE ~Removes
    <3>1. table' = IF Accepts THEN [table EXCEPT ![pending.name] = WithParam] ELSE table
      BY <1>4, <2>5 DEF ProcessParameter
    <3>2. Accepts => WithParam \in Instances
      <4>1. Instance \in Instances
        BY <2>1, <2>3 DEF Inv, Tables, Instance
      <4>2. Accepts => Param \in Params
        BY <2>1 DEF Accepts, IsWrong, Param, Pendings
      <4> QED BY <4>1, <4>2 DEF WithParam, Instances
    <3>3. table'[pending.name] # None
      BY <2>1, <2>3, <3>1, <3>2, NoneIsNoInstance DEF Inv, Tables, Instance
    <3> QED BY <2>3, <3>3 DEF FreedReported
  <2> QED BY <2>4, <2>5
<1>5. CASE FreedParameter /\ pending' # None
  <2>1. pending # None /\ table[pending.name] = None
    BY <1>5 DEF FreedParameter, Instance
  <2> QED BY <2>1, FlagsStay DEF FreedReported
<1>6. CASE AllOff \/ AllOn \/ SingleRule
  <2>1. pending' = None
    BY <1>6 DEF AllOff, AllOn, SingleRule, Reading
  <2> QED BY <2>1 DEF FreedReported
<1>7. CASE ReadInstance
  <2>1. pending' = None
    BY <1>7 DEF ReadInstance, Shape
  <2> QED BY <2>1 DEF FreedReported
<1> QED BY <1>1, <1>2, <1>3, <1>4, <1>5, <1>6, <1>7
        DEF Next, vars, LkqlFileFails, LkqlFileEnds, ParameterRaises,
            AllOnRefused, Malformed, Include, RuleFileEnds,
            RuleFileRaises, OptionsEnd, Terminated

-----------------------------------------------------------------------------
(* What the user asked for *)

\* An instance once the parameters ps are processed too.
With(i, kind, ps) ==
  [i EXCEPT !.params = IF kind = "integer" THEN {Last(ps)} ELSE @ \cup ToSet(ps)]

\* What is still to be done for the pending instance.
Owes ==
  LET i    == table[pending.name]
      w    == asked[pending.name]
      kind == Kind[pending.rule]
  IN  IF ~pending.enable THEN w = None
      ELSE /\ i # None /\ i.rule = pending.rule
           /\ IF pending.params = <<None>>
              THEN w = i /\ kind \notin {"integer", "string"}
              ELSE w = With(i, kind, pending.params)

FollowsAt(n) ==
  IF pending # None /\ n = pending.name THEN Owes ELSE table[n] = asked[n]

\* AsAsked in the middle of an option.
Follows == problems = {} => \A n \in Names \ doubtful : FollowsAt(n)

\* The rule that the history takes is the one that the table gives.
LEMMA SameRule ==
  ASSUME Inv, NEW o \in Options, pending = None, ~Unclear(o),
         \A n \in Names \ doubtful : table[n] = asked[n],
         GetRule(o.rule) # None
  PROVE  GetRule(o.rule) = IF o.rule \in AllRules \/ asked[o.rule] = None
                           THEN o.rule ELSE asked[o.rule].rule
<1>1. o.rule \in Names
  BY RuleTableAssumption DEF RuleOptions
<1>2. CASE o.rule \in AllRules
  BY <1>2 DEF GetRule
<1>3. CASE o.rule \notin AllRules
  <2>1. table[o.rule] = asked[o.rule]
    BY <1>1, <1>3 DEF Unclear
  <2> QED BY <1>3, <2>1 DEF GetRule
<1> QED BY <1>2, <1>3

\* What a request does to the history, with that rule.
Recorded(o, rule, name) ==
  IF o.enable
  THEN /\ asked' = IF asked[name] # None THEN asked
                   ELSE [asked EXCEPT ![name] = Wanted(o, rule)]
       /\ doubtful' = IF Doubted(o, rule, name) THEN doubtful \cup {name} ELSE doubtful
  ELSE /\ asked' = [asked EXCEPT ![name] = None]
       /\ doubtful' = doubtful \ {name}

LEMMA RequestRecorded ==
  ASSUME Inv, NEW o \in Options, pending = None, ~Unclear(o), Request(o),
         \A n \in Names \ doubtful : table[n] = asked[n],
         GetRule(o.rule) \in AllRules
  PROVE  Recorded(o, GetRule(o.rule), NameOf(o))
<1> DEFINE rule == IF o.rule \in AllRules \/ asked[o.rule] = None
                   THEN o.rule ELSE asked[o.rule].rule
           name == IF o.name = None THEN rule ELSE o.name
<1>1. GetRule(o.rule) # None
  BY RuleTableAssumption, RulesAreNames
<1>2. rule = GetRule(o.rule) /\ name = NameOf(o) /\ rule \in AllRules
  BY <1>1, SameRule DEF NameOf
<1>3. IF rule \notin AllRules THEN UNCHANGED <<asked, doubtful>>
      ELSE Recorded(o, rule, name)
  BY DEF Request, Recorded
<1> HIDE DEF rule, name
<1> QED BY <1>2, <1>3

\* A request through a doubtful alias leaves the history alone.
LEMMA UnclearFollows ==
  ASSUME Inv, NEW o \in Options, pending = None, Unclear(o), Request(o),
         Effect(o, GetRule(o.rule), NameOf(o)), Follows
  PROVE  Follows'
<1> DEFINE rule == GetRule(o.rule)
           name == NameOf(o)
<1>1. CASE Rejected(o, rule, name)
  BY <1>1 DEF Effect, Follows
<1>2. CASE ~Rejected(o, rule, name)
  <2>1. /\ UNCHANGED problems /\ rule \in AllRules /\ name \in Names
        /\ \A m \in Names \ {name} : table'[m] = table[m]
        /\ UNCHANGED pending \/ pending'.name = name
    BY <1>2 DEF Effect
  <2>2. asked' = asked /\ name \in doubtful' /\ doubtful \subseteq doubtful'
    BY <2>1 DEF Request, NameOf
  <2> SUFFICES ASSUME problems' = {}, NEW n \in Names \ doubtful' PROVE FollowsAt(n)'
    BY DEF Follows
  <2>3. n # name /\ n \notin doubtful /\ problems = {}
    BY <2>1, <2>2
  <2>4. table[n] = asked[n]
    BY <2>3 DEF Follows, FollowsAt
  <2>5. table'[n] = asked'[n]
    BY <2>1, <2>2, <2>3, <2>4
  <2>6. ~(pending' # None /\ n = pending'.name)
    BY <2>1, <2>3
  <2> QED BY <2>5, <2>6 DEF FollowsAt
<1> QED BY <1>1, <1>2

\* An instance that is turned on for the parameters of an option owes these.
LEMMA NewOwes ==
  ASSUME NEW o \in Options, NEW rule \in Rules, NEW name \in Names,
         name = IF o.name = None THEN rule ELSE o.name,
         o.enable, ~(o.params = <<>> /\ Kind[rule] \in {"integer", "string"}),
         pending' = [name |-> name, rule |-> rule, enable |-> o.enable,
                     params |-> IF o.params = <<>> THEN <<None>> ELSE o.params],
         table'[name] = [rule |-> rule, alias |-> name # rule,
                         mode |-> "general", params |-> {}],
         asked'[name] = Wanted(o, rule)
  PROVE  Owes'
<1> DEFINE i == [rule |-> rule, alias |-> name # rule, mode |-> "general", params |-> {}]
<1>1. o.params \in Seq(Params) /\ o.name \in Names \cup {None} /\ rule \notin CompilerRules
  BY RuleTableAssumption DEF RuleOptions
<1>2. i \in Instances /\ i # None /\ i.rule = rule
  BY NoneIsNoInstance DEF Instances, Modes, AllRules
<1>3. (name # rule) = (o.name \notin {None, rule} \/ (o.name # None /\ rule \in CompilerRules))
  BY <1>1
<1>4. Wanted(o, rule) =
        [rule |-> rule, alias |-> name # rule, mode |-> "general",
         params |-> IF Kind[rule] = "integer" /\ o.params # <<>>
                    THEN {Last(o.params)} ELSE ToSet(o.params)]
  BY <1>3 DEF Wanted
<1>5. CASE o.params = <<>>
  <2>1. Kind[rule] \notin {"integer", "string"} /\ pending'.params = <<None>>
    BY <1>5
  <2>2. ToSet(o.params) = {}
    BY <1>5 DEF ToSet
  <2>3. Wanted(o, rule) = i
    BY <1>4, <2>1, <2>2
  <2> QED BY <1>2, <2>1, <2>3 DEF Owes
<1>6. CASE o.params # <<>>
  <2>1. pending'.params = o.params
    BY <1>6
  <2>2. o.params # <<None>>
    <3>1. Head(o.params) \in Params
      BY <1>1, <1>6
    <3> QED BY <3>1, RuleTableAssumption
  <2>3. Wanted(o, rule) = With(i, Kind[rule], o.params)
    <3> DEFINE s == ToSet(o.params)
               l == {Last(o.params)}
               ps == IF Kind[rule] = "integer" THEN l ELSE {} \cup s
    <3>1. With(i, Kind[rule], o.params) = [i EXCEPT !.params = ps]
      BY DEF With
    <3>2. ps = IF Kind[rule] = "integer" /\ o.params # <<>> THEN l ELSE s
      BY <1>6
    <3> HIDE DEF ps, l, s
    <3>3. [i EXCEPT !.params = ps] =
            [rule |-> rule, alias |-> name # rule, mode |-> "general", params |-> ps]
      OBVIOUS
    <3> QED BY <1>4, <3>1, <3>2, <3>3 DEF l, s
  <2> QED BY <1>2, <2>1, <2>2, <2>3 DEF Owes
<1> QED BY <1>5, <1>6

LEMMA PendingMade ==
  ASSUME NEW o \in Options, NEW rule \in Rules, NEW name \in Names
  PROVE  [name |-> name, rule |-> rule, enable |-> o.enable,
          params |-> IF o.params = <<>> THEN <<None>> ELSE o.params] \in Pendings
<1>1. o.params \in Seq(Params) /\ o.enable \in BOOLEAN
  BY RuleTableAssumption DEF RuleOptions
<1>2. (IF o.params = <<>> THEN <<None>> ELSE o.params) \in Seq(Params \cup {None}) \ {<<>>}
  BY <1>1
<1> QED BY <1>1, <1>2 DEF Pendings

LEMMA LegacyFollows ==
  ASSUME Inv, LegacyOption, Follows
  PROVE  Follows'
<1>1. pending = None
  BY DEF LegacyOption, Reading
<1>2. PICK o \in Options : Request(o) /\ Effect(o, GetRule(o.rule), NameOf(o))
  BY LegacySteps
<1>3. CASE Unclear(o)
  BY <1>1, <1>2, <1>3, UnclearFollows
<1>4. CASE ~Unclear(o)
  <2> DEFINE rule == GetRule(o.rule)
             name == NameOf(o)
  <2>1. CASE Rejected(o, rule, name)
    BY <1>2, <2>1 DEF Effect, Follows
  <2>2. CASE ~Rejected(o, rule, name)
    <3>1. /\ UNCHANGED problems /\ rule \in AllRules /\ name \in Names
          /\ \A m \in Names \ {name} : table'[m] = table[m]
          /\ IF rule \in CompilerRules
             THEN /\ UNCHANGED pending
                  /\ table'[name] = IF o.enable THEN Wanted(o, rule) ELSE None
             ELSE /\ table'[name] =
                       IF table[name] # None THEN table[name]
                       ELSE [rule |-> rule, alias |-> name # rule,
                             mode |-> "general", params |-> {}]
                  /\ pending' = [name |-> name, rule |-> rule, enable |-> o.enable,
                                 params |-> IF o.params = <<>> THEN <<None>> ELSE o.params]
      BY <1>2, <2>2 DEF Effect
    <3> SUFFICES ASSUME problems' = {}, NEW n \in Names \ doubtful' PROVE FollowsAt(n)'
      BY DEF Follows
    <3>2. \A m \in Names \ doubtful : table[m] = asked[m]
      BY <1>1, <3>1 DEF Follows, FollowsAt
    <3>3. Recorded(o, rule, name)
      BY <1>1, <1>2, <1>4, <3>1, <3>2, RequestRecorded
    <3>4. asked \in [Names -> Instances \cup {None}]
      BY DEF Inv, Others
    <3>5. name = (IF o.name = None THEN rule ELSE o.name) /\ o.enable \in BOOLEAN
      BY RuleTableAssumption DEF NameOf, RuleOptions
    <3> HIDE DEF rule, name
    <3>6. CASE n # name
      <4>1. n \notin doubtful /\ asked'[n] = asked[n]
        BY <3>3, <3>4, <3>6 DEF Recorded
      <4>2. table'[n] = asked'[n]
        BY <3>1, <3>2, <3>6, <4>1
      <4>3. ~(pending' # None /\ n = pending'.name)
        BY <1>1, <3>1, <3>6
      <4> QED BY <4>2, <4>3 DEF FollowsAt
    <3>7. CASE n = name /\ o.enable
      <4>1. ~Doubted(o, rule, name) /\ name \notin doubtful
        BY <3>3, <3>7 DEF Recorded
      <4>2. asked[name] = None /\ table[name] = None
        BY <3>1, <3>2, <4>1 DEF Doubted
      <4>3. asked'[name] = Wanted(o, rule)
        BY <3>1, <3>3, <3>4, <3>7, <4>2 DEF Recorded
      <4>4. CASE rule \in CompilerRules
        BY <1>1, <3>1, <3>7, <4>3, <4>4 DEF FollowsAt
      <4>5. CASE rule \notin CompilerRules
        <5>1. rule \in Rules
          BY <3>1, <4>5 DEF AllRules
        <5>2. /\ table'[name] = [rule |-> rule, alias |-> name # rule,
                                 mode |-> "general", params |-> {}]
              /\ pending' = [name |-> name, rule |-> rule, enable |-> o.enable,
                             params |-> IF o.params = <<>> THEN <<None>> ELSE o.params]
          BY <3>1, <4>2, <4>5
        <5>3. ~(o.params = <<>> /\ Kind[rule] \in {"integer", "string"})
          BY <4>1, <5>1 DEF Doubted
        <5>4. Owes'
          BY <3>1, <3>5, <3>7, <4>3, <5>1, <5>2, <5>3, NewOwes
        <5>5. pending' # None /\ n = pending'.name
          <6>1. pending'.name = name
            BY <5>2
          <6>2. pending' \in Pendings
            BY <5>1, <5>2, <3>1, PendingMade
          <6> QED BY <3>7, <6>1, <6>2, RuleTableAssumption
        <5> QED BY <5>4, <5>5 DEF FollowsAt
      <4> QED BY <4>4, <4>5
    <3>8. CASE n = name /\ ~o.enable
      <4>1. asked'[name] = None
        BY <3>1, <3>3, <3>4, <3>8 DEF Recorded
      <4>2. CASE rule \in CompilerRules
        BY <1>1, <3>1, <3>8, <4>1, <4>2 DEF FollowsAt
      <4>3. CASE rule \notin CompilerRules
        <5>1. pending' = [name |-> name, rule |-> rule, enable |-> o.enable,
                          params |-> IF o.params = <<>> THEN <<None>> ELSE o.params]
          BY <3>1, <4>3
        <5>2. pending'.name = name /\ pending'.enable = o.enable
          BY <5>1
        <5>3. Owes'
          BY <3>8, <4>1, <5>2 DEF Owes
        <5>4. rule \in Rules
          BY <3>1, <4>3 DEF AllRules
        <5>5. pending' # None
          BY <3>1, <5>1, <5>4, PendingMade, RuleTableAssumption
        <5> QED BY <3>8, <5>2, <5>3, <5>5 DEF FollowsAt
      <4> QED BY <4>2, <4>3
    <3> QED BY <3>5, <3>6, <3>7, <3>8
  <2> QED BY <2>1, <2>2
<1> QED BY <1>3, <1>4

\* The parameters that remain, with the first one already there.
LEMMA WithOne ==
  ASSUME NEW i \in Instances, NEW kind, NEW p \in Params
  PROVE  With(i, kind, <<p>>)
           = [i EXCEPT !.params = IF kind = "integer" THEN {p} ELSE @ \cup {p}]
<1>1. Last(<<p>>) = p
  BY DEF Last
<1>2. ToSet(<<p>>) = {p}
  BY DEF ToSet
<1> QED BY <1>1, <1>2 DEF With

LEMMA WithTail ==
  ASSUME NEW i \in Instances, NEW kind, NEW ps \in Seq(Params), ps # <<>>, Tail(ps) # <<>>
  PROVE  With(i, kind, ps)
           = With([i EXCEPT !.params = IF kind = "integer" THEN {Head(ps)}
                                       ELSE @ \cup {Head(ps)}], kind, Tail(ps))
<1> DEFINE h == Head(ps)
           j == [i EXCEPT !.params = IF kind = "integer" THEN {h} ELSE i.params \cup {h}]
<1>1. Last(ps) = Last(Tail(ps))
  BY DEF Last
<1>2. ToSet(ps) = {h} \cup ToSet(Tail(ps))
  <2>1. \A k \in 1 .. Len(Tail(ps)) : Tail(ps)[k] = ps[k + 1]
    OBVIOUS
  <2>2. Len(Tail(ps)) = Len(ps) - 1 /\ h = ps[1] /\ Len(ps) \in Nat \ {0}
    OBVIOUS
  <2>3. \A k \in 1 .. Len(ps) : k = 1 \/ k - 1 \in 1 .. Len(Tail(ps))
    BY <2>2
  <2>4. ASSUME NEW x \in ToSet(ps) PROVE x = h \/ x \in ToSet(Tail(ps))
    <3>1. PICK k \in 1 .. Len(ps) : x = ps[k]
      BY DEF ToSet
    <3>2. CASE k = 1
      BY <2>2, <3>1, <3>2
    <3>3. CASE k # 1
      <4>1. k - 1 \in 1 .. Len(Tail(ps)) /\ (k - 1) + 1 = k
        BY <2>3, <3>3
      <4>2. Tail(ps)[k - 1] = x
        BY <2>1, <3>1, <4>1
      <4>3. DOMAIN Tail(ps) = 1 .. Len(Tail(ps))
        OBVIOUS
      <4> DEFINE t == Tail(ps)
      <4> HIDE DEF t
      <4>4. k - 1 \in DOMAIN t /\ t[k - 1] = x
        BY <4>1, <4>2, <4>3 DEF t
      <4> QED BY <4>4 DEF ToSet, t
    <3> QED BY <3>2, <3>3
  <2>5. ASSUME NEW x \in ToSet(Tail(ps)) PROVE x \in ToSet(ps)
    <3>1. PICK k \in 1 .. Len(Tail(ps)) : x = Tail(ps)[k]
      BY DEF ToSet
    <3>2. k + 1 \in 1 .. Len(ps) /\ x = ps[k + 1]
      BY <2>1, <2>2, <3>1
    <3> QED BY <3>2 DEF ToSet
  <2>6. h \in ToSet(ps)
    BY <2>2 DEF ToSet
  <2> QED BY <2>4, <2>5, <2>6
<1>3. CASE kind = "integer"
  <2>1. With(i, kind, ps) = [i EXCEPT !.params = {Last(ps)}]
    BY <1>3 DEF With
  <2>2. With(j, kind, Tail(ps)) = [j EXCEPT !.params = {Last(Tail(ps))}]
    BY <1>3 DEF With
  <2> QED BY <1>1, <2>1, <2>2 DEF Instances
<1>4. CASE kind # "integer"
  <2> DEFINE s == ToSet(Tail(ps))
  <2>1. With(i, kind, ps) = [i EXCEPT !.params = i.params \cup ({h} \cup s)]
    BY <1>2, <1>4 DEF With
  <2>2. With(j, kind, Tail(ps)) = [j EXCEPT !.params = j.params \cup s]
    BY <1>4 DEF With
  <2> HIDE DEF s, h
  <2>3. j = [i EXCEPT !.params = i.params \cup {h}]
    BY <1>4
  <2>4. j.params = i.params \cup {h}
    BY <2>3 DEF Instances
  <2> HIDE DEF j
  <2>5. [j EXCEPT !.params = j.params \cup s] = [i EXCEPT !.params = i.params \cup ({h} \cup s)]
    BY <2>3, <2>4 DEF Instances
  <2> QED BY <2>1, <2>2, <2>5 DEF h, j
<1> QED BY <1>3, <1>4

LEMMA OnlyOne ==
  ASSUME NEW ps \in Seq(Params), ps # <<>>, Tail(ps) = <<>>
  PROVE  ps = <<Head(ps)>>
<1>1. ASSUME NEW t, t = Tail(ps), t = <<>> PROVE Len(ps) = 1
  <2>1. Len(t) = Len(ps) - 1
    BY <1>1
  <2>2. Len(<<>>) = 0
    OBVIOUS
  <2>3. Len(t) = 0
    BY <1>1, <2>2, Zenon
  <2> QED BY <2>1, <2>3
<1>2. Len(ps) = 1
  BY <1>1
<1> QED BY <1>2

\* The parameter is the one that the pending instance owes next.
LEMMA ProcessOwes ==
  ASSUME Inv, Shape, Follows, ProcessParameter, problems' = {},
         NEW n \in Names \ doubtful, n = pending.name
  PROVE  FollowsAt(n)'
<1> DEFINE i == table[n]
           kind == Kind[pending.rule]
<1>1. /\ pending \in Pendings /\ pending # None /\ NextParameter
      /\ Instance # None /\ Instance = i /\ ParamKind = kind
  BY DEF ProcessParameter, Inv, Others, Instance, ParamKind
<1>2. n \in Names /\ i \in Instances
  BY <1>1 DEF Pendings, Inv, Tables
<1>3. ~Complains /\ problems = {}
  BY DEF ProcessParameter
<1>4. Owes
  BY <1>1, <1>2, <1>3 DEF Follows, FollowsAt
<1>5. UNCHANGED asked
  BY DEF ProcessParameter
<1>6. IF Removes THEN TurnOff(n)
      ELSE table' = IF Accepts THEN [table EXCEPT ![n] = WithParam] ELSE table
  BY DEF ProcessParameter
<1>7. table \in [Names -> Instances \cup {None}] /\ pending.enable \in BOOLEAN
  BY <1>1 DEF Inv, Tables, Pendings
<1>8. None \notin Params
  BY RuleTableAssumption
<1>9. CASE pending.params = <<None>>
  <2>1. Param = None /\ pending' = None
    BY <1>1, <1>9, NextParameterShape DEF Param
  <2>2. CASE ~pending.enable
    <3>1. Removes
      BY <2>1, <2>2 DEF Removes
    <3>2. table'[n] = None
      BY <1>2, <1>6, <1>7, <3>1 DEF TurnOff
    <3>3. asked[n] = None
      BY <1>4, <2>2 DEF Owes
    <3> QED BY <1>5, <2>1, <3>2, <3>3 DEF FollowsAt
  <2>3. CASE pending.enable
    <3>1. kind \notin {"integer", "string"} /\ asked[n] = i
      BY <1>4, <1>9, <2>3 DEF Owes
    <3>2. kind # "required"
      BY <1>1, <1>3, <2>1, <2>3 DEF Complains
    <3>3. ~Removes
      BY <1>1, <1>8, <2>1, <2>3, <3>1, <3>2, RuleTableAssumption DEF Removes
    <3>4. ~Accepts
      BY <2>1 DEF Accepts, IsWrong
    <3>5. table' = table
      BY <1>6, <3>3, <3>4
    <3> QED BY <1>5, <2>1, <3>1, <3>5 DEF FollowsAt
  <2> QED BY <1>7, <2>2, <2>3
<1>10. CASE pending.params # <<None>>
  <2> DEFINE ps == pending.params
             j == [i EXCEPT !.params = IF kind = "integer" THEN {Param} ELSE @ \cup {Param}]
  <2>1. ps \in Seq(Params) /\ ps # <<>> /\ Param \in Params /\ Param # None /\ Param = Head(ps)
    BY <1>1, <1>8, <1>10, NextParameterShape DEF Param, Pendings
  <2>2. pending.enable /\ kind # "none" /\ Param \notin Wrong
    BY <1>1, <1>3, <2>1 DEF Complains
  <2>3. i.rule = pending.rule /\ asked[n] = With(i, kind, ps)
    BY <1>4, <1>10, <2>2 DEF Owes
  <2>4. ~Removes /\ Accepts
    BY <1>1, <2>1, <2>2 DEF Removes, Accepts, IsWrong
  <2>5. table'[n] = j
    BY <1>1, <1>2, <1>6, <1>7, <2>4 DEF WithParam
  <2>6. j \in Instances /\ j.rule = i.rule
    BY <1>2, <2>1 DEF Instances
  <2>7. CASE Tail(ps) = <<>>
    <3>1. pending' = None
      BY <1>1, <2>7 DEF NextParameter
    <3>2. ps = <<Param>>
      BY <2>1, <2>7, OnlyOne
    <3>3. asked[n] = j
      BY <1>2, <2>1, <2>3, <3>2, WithOne
    <3> QED BY <1>5, <2>5, <3>1, <3>3 DEF FollowsAt
  <2>8. CASE Tail(ps) # <<>>
    <3>1. /\ pending' = [pending EXCEPT !.params = Tail(ps)]
          /\ Tail(ps) \in Seq(Params)
      BY <1>1, <2>1, <2>8 DEF NextParameter
    <3>2. /\ pending'.name = n /\ pending'.rule = pending.rule
          /\ pending'.enable = pending.enable /\ pending'.params = Tail(ps)
      BY <1>1, <3>1 DEF Pendings
    <3>3. asked[n] = With(j, kind, Tail(ps))
      BY <1>2, <2>1, <2>3, <2>8, WithTail
    <3>4. Tail(ps) # <<None>>
      <4>1. Head(Tail(ps)) \in Params
        BY <2>8, <3>1
      <4>2. Head(<<None>>) = None
        OBVIOUS
      <4> DEFINE t == Tail(ps)
      <4> HIDE DEF t
      <4>3. t # <<None>>
        BY <1>8, <4>1, <4>2 DEF t
      <4> QED BY <4>3 DEF t
    <3>5. j # None
      BY <2>6, NoneIsNoInstance
    <3> HIDE DEF j, i, ps, kind
    <3>6. Owes'
      <4>1. asked'[n] = With(j, kind, Tail(ps)) /\ Kind[pending'.rule] = kind
        BY <1>5, <3>2, <3>3 DEF kind
      <4>2. j.rule = pending'.rule /\ pending'.enable /\ pending'.params # <<None>>
        BY <2>2, <2>3, <2>6, <3>2, <3>4
      <4> QED BY <2>5, <3>2, <3>5, <4>1, <4>2 DEF Owes
    <3>7. pending' # None
      <4>1. Tail(ps) \in Seq(Params \cup {None}) \ {<<>>}
        BY <1>1, <2>1, <2>8 DEF Pendings, ps
      <4>2. pending' \in Pendings
        BY <1>1, <3>1, <4>1 DEF Pendings
      <4> QED BY <4>2, RuleTableAssumption
    <3> QED BY <3>2, <3>6, <3>7 DEF FollowsAt
  <2> QED BY <2>7, <2>8
<1> QED BY <1>9, <1>10

LEMMA ProcessFollows ==
  ASSUME Inv, Shape, Follows, ProcessParameter
  PROVE  Follows'
<1> SUFFICES ASSUME problems' = {}, NEW n \in Names \ doubtful' PROVE FollowsAt(n)'
  BY DEF Follows
<1>1. /\ pending \in Pendings /\ pending # None /\ NextParameter
      /\ UNCHANGED <<asked, doubtful>> /\ problems = {}
  BY DEF ProcessParameter, Inv, Others
<1>2. CASE n = pending.name
  BY <1>1, <1>2, ProcessOwes
<1>3. CASE n # pending.name
  <2>1. table'[n] = table[n]
    <3>1. table \in [Names -> Instances \cup {None}]
      BY DEF Inv, Tables
    <3>2. CASE Removes
      BY <1>3, <3>1, <3>2 DEF ProcessParameter, TurnOff
    <3>3. CASE ~Removes
      BY <1>3, <3>1, <3>3 DEF ProcessParameter
    <3> QED BY <3>2, <3>3
  <2>2. pending' = None \/ pending' = [pending EXCEPT !.params = Tail(pending.params)]
    BY <1>1 DEF NextParameter
  <2>3. pending' = None \/ pending'.name = pending.name
    BY <1>1, <2>2 DEF Pendings
  <2>4. table[n] = asked[n]
    BY <1>1, <1>3 DEF Follows, FollowsAt
  <2> QED BY <1>1, <1>3, <2>1, <2>3, <2>4 DEF FollowsAt
<1> QED BY <1>2, <1>3

LEMMA ReadFollows ==
  ASSUME Inv, Shape, Follows, ReadInstance
  PROVE  Follows'
<1>1. PICK o \in Objects :
        LET instance == [rule |-> o.rule, alias |-> o.name # None,
                         mode |-> IF o.rule \in CompilerRules THEN "general" ELSE o.mode,
                         params |-> o.params]
            name == InstanceName(o)
            badParams == o.params \cap Wrong # {}
        IN  /\ IF badParams THEN UNCHANGED <<table, listed>> ELSE TurnOn(name, instance)
            /\ FlagIf(badParams \/ (o.rule \in CompilerRules /\ o.mode # "general"), "rule")
            /\ asked' = [asked EXCEPT ![name] = instance]
  BY DEF ReadInstance
<1> DEFINE instance == [rule |-> o.rule, alias |-> o.name # None,
                        mode |-> IF o.rule \in CompilerRules THEN "general" ELSE o.mode,
                        params |-> o.params]
           name == InstanceName(o)
           badParams == o.params \cap Wrong # {}
<1>2. pending' = None /\ pending = None /\ doubtful' = doubtful
  BY DEF ReadInstance, Shape
<1>3. badParams => problems' # {}
  BY <1>1 DEF FlagIf
<1>4. asked' = [asked EXCEPT ![name] = instance]
  BY <1>1
<1>5. name \in Names
  BY RuleTableAssumption DEF InstanceName, Names, AllRules
<1> SUFFICES ASSUME problems' = {}, NEW n \in Names \ doubtful' PROVE FollowsAt(n)'
  BY DEF Follows
<1>6. TurnOn(name, instance)
  BY <1>1, <1>3
<1>7. problems = {}
  BY <1>1 DEF FlagIf
<1>8. table[n] = asked[n]
  BY <1>2, <1>7 DEF Follows, FollowsAt
<1>9. asked \in [Names -> Instances \cup {None}]
  BY DEF Inv, Others
<1> HIDE DEF instance, name, badParams
<1>10. table'[n] = IF n = name THEN instance ELSE table[n]
  BY <1>5, <1>6, TurnedOn DEF Inv
<1>11. asked'[n] = IF n = name THEN instance ELSE asked[n]
  BY <1>4, <1>5, <1>9
<1> QED BY <1>2, <1>8, <1>10, <1>11 DEF FollowsAt

LEMMA WholesaleFollows ==
  ASSUME Inv, Follows, AllOff \/ AllOn \/ SingleRule
  PROVE  Follows'
<1>1. pending = None /\ pending' = None
  BY DEF AllOff, AllOn, SingleRule, Reading
<1> SUFFICES ASSUME problems' = {}, NEW n \in Names \ doubtful' PROVE table'[n] = asked'[n]
  BY <1>1 DEF Follows, FollowsAt
<1>2. CASE AllOff
  BY <1>2 DEF AllOff
<1>3. CASE AllOn
  <2>1. problems = {} /\ n \notin doubtful
    BY <1>3 DEF AllOn
  <2>2. table[n] = asked[n]
    BY <1>1, <2>1 DEF Follows, FollowsAt
  <2>3. n \in Missing <=> n \in Defaulted /\ table[n] = None
    BY DEF Missing
  <2>4. table'[n] = IF n \in Missing THEN Default(n) ELSE table[n]
    BY <1>3 DEF AllOn
  <2>5. asked'[n] = IF n \in Defaulted /\ asked[n] = None THEN Default(n) ELSE asked[n]
    BY <1>3 DEF AllOn
  <2> QED BY <2>2, <2>3, <2>4, <2>5
<1>4. CASE SingleRule
  <2>1. PICK x \in Names :
          LET rule == GetRule(x)
          IN  IF rule = None \/ ~Unique(x) \/ rule \in CompilerRules
              THEN Flag("rule")
              ELSE /\ TurnOn(rule, Default(rule))
                   /\ asked' = IF asked[rule] # None THEN asked
                               ELSE [asked EXCEPT ![rule] = Default(rule)]
                   /\ doubtful' = IF asked[rule] # None THEN doubtful \cup {rule} ELSE doubtful
                   /\ UNCHANGED problems
    BY <1>4 DEF SingleRule
  <2> DEFINE rule == GetRule(x)
  <2>2. ~(rule = None \/ ~Unique(x) \/ rule \in CompilerRules)
    BY <2>1 DEF Flag
  <2>3. /\ TurnOn(rule, Default(rule))
        /\ asked' = IF asked[rule] # None THEN asked
                    ELSE [asked EXCEPT ![rule] = Default(rule)]
        /\ doubtful' = IF asked[rule] # None THEN doubtful \cup {rule} ELSE doubtful
        /\ UNCHANGED problems
    BY <2>1, <2>2
  <2>4. rule \in Names
    BY <2>2, GetRuleFinds, RulesAreNames DEF Inv
  <2> HIDE DEF rule
  <2>5. table'[n] = IF n = rule THEN Default(rule) ELSE table[n]
    BY <2>3, <2>4, TurnedOn DEF Inv
  <2>6. n \notin doubtful /\ problems = {}
    BY <2>3
  <2>7. table[n] = asked[n] /\ asked \in [Names -> Instances \cup {None}]
    BY <1>1, <2>6 DEF Follows, FollowsAt, Inv, Others
  <2>8. CASE n = rule
    <3>1. asked[rule] = None
      BY <2>3, <2>8
    <3> QED BY <2>3, <2>5, <2>7, <2>8, <3>1
  <2>9. CASE n # rule
    BY <2>3, <2>5, <2>7, <2>9
  <2> QED BY <2>8, <2>9
<1> QED BY <1>2, <1>3, <1>4

LEMMA NextFollows ==
  ASSUME Inv, Shape, FreedReported, Follows, [Next]_vars
  PROVE  Follows'
<1>1. CASE UNCHANGED <<table, pending, asked, doubtful>>
  BY <1>1, FlagsStay DEF Follows, FollowsAt, Owes
<1>2. CASE LegacyOption
  BY <1>2, LegacyFollows
<1>3. CASE ProcessParameter
  BY <1>3, ProcessFollows
<1>4. CASE FreedParameter
  <2>1. "rule" \in problems
    BY <1>4 DEF FreedParameter, FreedReported, Instance
  <2> QED BY <2>1, FlagsStay DEF Follows
<1>5. CASE ReadInstance
  BY <1>5, ReadFollows
<1>6. CASE AllOff \/ AllOn \/ SingleRule
  BY <1>6, WholesaleFollows
<1> QED BY <1>1, <1>2, <1>3, <1>4, <1>5, <1>6
        DEF Next, vars, LkqlFileFails, LkqlFileEnds, ParameterRaises,
            AllOnRefused, Malformed, Include, RuleFileEnds,
            RuleFileRaises, OptionsEnd, Terminated

\* The invariant behind both theorems below.
Requested == Inv /\ Shape /\ FreedReported /\ Follows

LEMMA InitRequested == Init => Requested
<1> SUFFICES ASSUME Init PROVE Requested
  OBVIOUS
<1>1. Inv
  BY InitEstablishes
<1>2. pending = None /\ doubtful = {} /\ \A n \in Names : table[n] = asked[n]
  BY DEF Init
<1> QED BY <1>1, <1>2 DEF Requested, Shape, FreedReported, Follows, FollowsAt

LEMMA NextRequested == Requested /\ [Next]_vars => Requested'
<1> SUFFICES ASSUME Requested, [Next]_vars PROVE Requested'
  OBVIOUS
<1>1. Inv /\ Shape /\ FreedReported /\ Follows
  BY DEF Requested
<1> QED BY <1>1, NextPreserves, NextShape, NextFreed, NextFollows DEF Requested

\* A parameter is processed for an instance that an earlier parameter of the
\* option freed only after a wrong one was reported (Turn_Instance_Off in the
\* Process_Rule_Parameter procedures).
THEOREM FreedOnlyReported == Spec => []FreedReported
<1>1. Requested => FreedReported
  BY DEF Requested
<1> QED
  BY <1>1, InitRequested, NextRequested, PTL DEF Spec

\* After any sequence of options, when no problem is reported, the instances
\* are those that the options ask for (Process_Rule_Options).
THEOREM RequestsFollowed == Spec => []AsAsked
<1>1. Requested => AsAsked
  BY DEF Requested, Follows, FollowsAt, AsAsked
<1> QED
  BY <1>1, InitRequested, NextRequested, PTL DEF Spec
=============================================================================
