----------------------------- MODULE Exemptions -----------------------------
(***************************************************************************)
(* Rule exemptions: Process_Sources of source_table.adb scans every source *)
(* for annotations, first the pragmas and then the comments, and keeps the *)
(* sections they delimit in the Diagnostic_Collector;                      *)
(* Process_Postponed_Exemptions of diagnostics-exemptions.adb later maps   *)
(* the violations the workers report onto these sections.                  *)
(*                                                                         *)
(* The annotations of a source are chosen as the scan meets them, and the  *)
(* violations when they are mapped.  A line holds at most one pragma and,  *)
(* after it, one comment.                                                  *)
(***************************************************************************)
EXTENDS Integers, SequencesExt

CONSTANTS
  NumSources,      \* the sources to process are 1..NumSources
  NumLines,        \* lines of a source
  MaxAnnotations,  \* bound on the annotations of a run
  MaxViolations,   \* bound on the violations of a run
  Rules,           \* names of rules
  Aliases,         \* names of instances that are not named as their rule
  RuleOf,          \* the rule of each of them
  Unknown,         \* names that are no rule and no instance
  Kinds,           \* the kinds of annotation that the sources use
  CompilerRules,   \* Restrictions, Style_Checks and Warnings
  Enabled,         \* enabled rules, and Warnings when Restrictions is enabled
  Params,          \* exemption parameters
  Allowed,         \* Allowed[r]: those allowed for rule r
  Idle             \* parameters that denote restrictions which are not active

ASSUME ExemptionsAssumption ==
  /\ NumSources \in Nat \ {0} /\ NumLines \in Nat \ {0}
  /\ MaxAnnotations \in Nat /\ MaxViolations \in Nat
  /\ RuleOf \in [Aliases -> Rules]
  /\ Rules \cap Aliases = {} /\ Unknown \cap (Rules \cup Aliases) = {}
  /\ Kinds \subseteq {"on", "off", "line", "wrong"}
  /\ CompilerRules \subseteq Rules /\ Enabled \subseteq Rules
  /\ Allowed \in [Rules -> SUBSET Params] /\ Idle \subseteq Params

VARIABLES
  sf,         \* the source being scanned, or NumSources + 1
  pass,       \* what the driver is doing
  line,       \* the last line this pass has read an annotation on
  read,       \* the annotations read so far, in reading order
  open,       \* Exemption_Sections and Rule_Param_Exempt_Sections, in opening order
  closed,     \* closed[sf]: the postponed sections of sf, in closing order
  warned,     \* the Exemption_Warning diagnostics
  exempted,   \* the violations that have been given a justification
  reported    \* the violations in the collector

collector == <<open, closed, warned>>
vars == <<sf, pass, line, read, open, closed, warned, exempted, reported>>

-----------------------------------------------------------------------------
Sources == 1..NumSources
Lines   == 1..NumLines
Known   == Rules \cup Aliases
Names   == Known \cup Unknown

\* The rule that Get_Rule finds for a known name.
Own(name) == IF name \in Aliases THEN RuleOf[name] ELSE name

\* Columns: what comes before the pragma of a line, the pragma, what follows
\* it, and the comment that ends the line.  A source location range ends with
\* the column that follows it.
Columns == [before |-> 1, pragma |-> 2, after |-> 3, comment |-> 4]
StartCol(form) == IF form = "pragma" THEN Columns.pragma ELSE Columns.comment
EndCol(form)   == IF form = "pragma" THEN Columns.after ELSE Columns.comment

\* An annotation of kind "line" turns an exemption on and off on its line; one
\* of kind "wrong" has neither Exempt_On nor Exempt_Off.
Annotations ==
  [file : Sources, line : Lines, form : {"pragma", "comment"}, kind : Kinds,
   name : Names, given : SUBSET Params]

\* Those that may follow in the current pass over the current source.
Upcoming(form, kinds, given) ==
  [file : {sf}, line : (line + 1)..NumLines, form : {form}, kind : kinds,
   name : Names, given : given]

\* Exemption_Info and Parametrized_Exemption_Info.  A section without
\* parameters has params = {}; origin, the source a section was opened in, is
\* kept by the code for the others only.
Sections ==
  [origin : Sources, line : Lines, col : {2, 4}, name : Known,
   params : SUBSET Params, endLine : 0..NumLines, endCol : 0..4]

\* A warning about an annotation or about the section it opened.
Warnings ==
  [why : {"rejected", "parameters", "unclosed", "unused"}, file : Sources,
   line : Lines, col : {2, 4}, name : Names]

\* The rule violations of the workers: name is the name of the instance, and
\* param the parameter that Rule_Parameter finds in the message.
Violations ==
  {v \in [file : Sources, line : Lines, col : {Columns.before, Columns.after},
          name : Known, param : Params] :
     /\ Own(v.name) \in Enabled
     /\ Allowed[Own(v.name)] = {} \/ v.param \in Allowed[Own(v.name)] \ Idle}

Warning(why, file, at) ==
  [why |-> why, file |-> file, line |-> at.line, col |-> at.col,
   name |-> at.name]
At(a) == [line |-> a.line, col |-> StartCol(a.form), name |-> a.name]

Init ==
  /\ sf = 1 /\ pass = "pragmas" /\ line = 0 /\ read = <<>>
  /\ open = <<>> /\ closed = [f \in Sources |-> <<>>] /\ warned = {}
  /\ exempted = {} /\ reported = {}

-----------------------------------------------------------------------------
(* Process_Exempt_Action, as the collector c = [open, closed, warned] after *)
(* an annotation a of this kind.                                            *)

\* Parse_Exempt_Parameters keeps the parameters the rule allows.
Parsed(a) == a.given \cap Allowed[Own(a.name)]

\* The annotation is reported and dropped.
Invalid(a) ==
  \/ a.kind = "wrong"
  \/ a.name \in Unknown
  \/ a.name \in Aliases /\ RuleOf[a.name] \in CompilerRules

\* The annotation is dropped silently.
Moot(a) ==
  \/ Own(a.name) \notin Enabled
  \/ Parsed(a) # {} /\ Parsed(a) \subseteq Idle

\* The open sections of a name, in one map or in the other.
IsExempted(c, name) ==
  \E s \in ToSet(c.open) : s.name = name /\ s.params = {}
IsParamExempted(c, name) ==
  \E s \in ToSet(c.open) : s.name = name /\ s.params # {}
HasOneParam(c, name, params) ==
  \E s \in ToSet(c.open) : s.name = name /\ s.params \cap params # {}

\* Mutant: the sections of the rule of an instance are not looked at.
AlreadyInstanceOnly(c, a) ==
  \/ IsExempted(c, a.name)
  \/ Parsed(a) = {} /\ IsParamExempted(c, a.name)
  \/ HasOneParam(c, a.name, Parsed(a))

\* Four comparisons, each with the sections of the name and with those of its
\* rule.  The one of Exemption_Section_With_Params is a case of the last.
AlreadyExempted(c, a) ==
  \E name \in {a.name, Own(a.name)} :
    \/ IsExempted(c, name)
    \/ Parsed(a) = {} /\ IsParamExempted(c, name)
    \/ HasOneParam(c, name, Parsed(a))

Opened(a) ==
  [origin |-> a.file, line |-> a.line, col |-> StartCol(a.form),
   name |-> a.name, params |-> Parsed(a), endLine |-> 0, endCol |-> 0]

ClosedAt(s, l, col) == [s EXCEPT !.endLine = l, !.endCol = col]

Warn(c, why, a) == [c EXCEPT !.warned = @ \cup {Warning(why, a.file, At(a))}]

TurnOn(c, a) ==
  IF AlreadyExempted(c, a)
  THEN Warn(c, "rejected", a)
  ELSE [c EXCEPT !.open = Append(@, Opened(a))]

\* Turn_Off_Exemption and Turn_Off_Parametrized_Exemption: the section is filed
\* under the source that is being scanned.
TurnOff(c, a) ==
  LET match == {k \in DOMAIN c.open : /\ c.open[k].name = a.name
                                      /\ c.open[k].params = Parsed(a)}
      off(k) == ClosedAt(c.open[k], a.line, EndCol(a.form))
  IN IF match = {} THEN Warn(c, "rejected", a)
     ELSE LET k == CHOOSE k \in match : TRUE
          IN [c EXCEPT !.open = RemoveAt(@, k),
                       !.closed[a.file] = Append(@, off(k))]

ExemptAction(c, a, kind) ==
  CASE Invalid(a)   -> Warn(c, "rejected", a)
    [] ~Invalid(a) /\ Moot(a) -> c
    [] ~Invalid(a) /\ ~Moot(a) /\ kind = "on"  -> TurnOn(c, a)
    [] ~Invalid(a) /\ ~Moot(a) /\ kind = "off" -> TurnOff(c, a)

\* A line comment makes two actions.
Effects(c, a) ==
  IF a.kind = "line" THEN ExemptAction(ExemptAction(c, a, "on"), a, "off")
  ELSE ExemptAction(c, a, a.kind)

\* The parameters are parsed, and complained about, before anything else.
Effect(c, a) ==
  IF a.name \in Unknown \/ a.given \subseteq Allowed[Own(a.name)]
  THEN Effects(c, a)
  ELSE Effects(Warn(c, "parameters", a), a)

-----------------------------------------------------------------------------
Collector == [open |-> open, closed |-> closed, warned |-> warned]

SetCollector(c) ==
  open' = c.open /\ closed' = c.closed /\ warned' = c.warned

Read(a) ==
  /\ Len(read) < MaxAnnotations
  /\ read' = Append(read, a)

\* An exception: the parameters of a name that is no rule are looked up in
\* All_Rules before the name is checked.
Raises(a) == a.name \in Unknown /\ a.given # {}

\* Process_Exemption_Pragma.
ReadPragma(a) ==
  /\ Read(a)
  /\ ~Raises(a)
  /\ line' = a.line
  /\ SetCollector(Effect(Collector, a))
  /\ UNCHANGED <<sf, pass, exempted, reported>>

\* The handler of Process_Sources: the rest of the source is not scanned and
\* Check_Unclosed_Rule_Exemptions is not called for it.
ScanRaises(a) ==
  /\ Read(a)
  /\ Raises(a)
  /\ sf' = sf + 1 /\ line' = 0
  /\ UNCHANGED <<pass, open, closed, warned, exempted, reported>>

EndOfPragmas ==
  /\ pass = "pragmas" /\ sf \in Sources
  /\ pass' = "comments" /\ line' = 0
  /\ UNCHANGED <<sf, read, open, closed, warned, exempted, reported>>

\* Process_Exemption_Comment, for a comment of the expected syntax.
ReadComment(a) ==
  /\ Read(a)
  /\ line' = a.line
  /\ SetCollector(Effect(Collector, a))
  /\ UNCHANGED <<sf, pass, exempted, reported>>

\* Mutants: the sections that are still open are forgotten, or end after the
\* last line.
CloseAllForgets(f) == closed[f]
CloseAllPastEnd(f) ==
  closed[f] \o [k \in DOMAIN open |-> ClosedAt(open[k], NumLines + 1, 1)]

\* The sections that are still open, closed at the end of the last line of
\* source f.  The code takes them in the order of its maps, which does not
\* matter: those of one name and no parameters are never two.
CloseAll(f) ==
  closed[f] \o [k \in DOMAIN open |->
                   ClosedAt(open[k], NumLines, Columns.comment)]

\* Mutant: the sections are filed, but remain open.
EndOfSourceKeepsOpen ==
  /\ pass = "comments"
  /\ closed' = [closed EXCEPT ![sf] = CloseAll(sf)]
  /\ sf' = sf + 1 /\ pass' = "pragmas" /\ line' = 0
  /\ UNCHANGED <<read, open, warned, exempted, reported>>

\* Check_Unclosed_Rule_Exemptions, then the next source.
EndOfSource ==
  /\ pass = "comments"
  /\ warned' = warned \cup {Warning("unclosed", sf, s) : s \in ToSet(open)}
  /\ closed' = [closed EXCEPT ![sf] = CloseAll(sf)]
  /\ open' = <<>>
  /\ sf' = sf + 1 /\ pass' = "pragmas" /\ line' = 0
  /\ UNCHANGED <<read, exempted, reported>>

-----------------------------------------------------------------------------
(* Process_Postponed_Exemptions, when the workers have reported. *)

\* The first of the sections without parameters, in closing order, that has
\* this name and holds the line of violation v.
PlainMatch(v, name) ==
  LET secs == closed[v.file]
      hits == {k \in DOMAIN secs : /\ secs[k].name = name
                                  /\ secs[k].params = {}
                                  /\ v.line \in secs[k].line..secs[k].endLine}
  IN {secs[k] : k \in {k \in hits : \A j \in hits : k <= j}}

StartsAfter(v, s) == v.line < s.line \/ (v.line = s.line /\ v.col < s.col)
EndsBefore(v, s)  == v.line > s.endLine \/ (v.line = s.endLine /\ v.col >= s.endCol)

\* The order of Parametrized_Exemption_Sections.
Precedes(s, t) ==
  s.origin < t.origin \/ (s.origin = t.origin /\ s.line < t.line)

\* Get_Exem_Section gives up at the first section that starts after v.
ParamMatch(v, name) ==
  LET secs == {s \in ToSet(closed[v.file]) : s.name = name /\ s.params # {}}
      hits == {s \in secs : /\ ~StartsAfter(v, s) /\ ~EndsBefore(v, s)
                            /\ v.param \in s.params
                            /\ \A t \in secs : Precedes(t, s) => ~StartsAfter(v, t)}
  IN {s \in hits : \A t \in hits \ {s} : Precedes(s, t)}

\* Mutant: the sections of the rule are not looked at.
MatchInstanceOnly(v) == PlainMatch(v, v.name) \cup ParamMatch(v, v.name)

\* The section Map_Diagnostic charges v to, if any: those of the rule come
\* before those of the instance, and parametric sections come last.
Match(v) ==
  LET rule  == Own(v.name)
      tried == <<PlainMatch(v, rule), PlainMatch(v, v.name),
                 ParamMatch(v, rule), ParamMatch(v, v.name)>>
      first == {i \in 1..4 : \A j \in 1..(i - 1) : tried[j] = {}}
  IN UNION {tried[i] : i \in first}

Scanned == sf = NumSources + 1 /\ pass = "pragmas"

MapDiagnostic(v) ==
  /\ Scanned
  /\ v \notin reported /\ Cardinality(reported) < MaxViolations
  /\ reported' = reported \cup {v}
  /\ exempted' = exempted \cup (IF Match(v) # {} THEN {v} ELSE {})
  /\ UNCHANGED <<sf, pass, line, read, open, closed, warned>>

Detected(s) == \E v \in reported : s \in Match(v)

\* "no detection for ... in exemption section starting at line ...".
WarnUnused ==
  /\ Scanned
  /\ warned' = warned \cup
       UNION {{Warning("unused", f, s) :
                 s \in {s \in ToSet(closed[f]) : ~Detected(s)}} : f \in Sources}
  /\ pass' = "done"
  /\ UNCHANGED <<sf, line, read, open, closed, exempted, reported>>

Terminated == pass = "done" /\ UNCHANGED vars

Next ==
  \/ /\ sf \in Sources /\ pass = "pragmas"
     /\ \E a \in Upcoming("pragma", Kinds \ {"line"}, SUBSET Params) :
          ReadPragma(a) \/ ScanRaises(a)
  \/ EndOfPragmas
  \/ /\ pass = "comments"
     /\ \E a \in Upcoming("comment", Kinds \ {"wrong"}, {{}}) : ReadComment(a)
  \/ EndOfSource
  \/ \E v \in Violations : MapDiagnostic(v)
  \/ WarnUnused
  \/ Terminated

Spec == Init /\ [][Next]_vars

-----------------------------------------------------------------------------
\* Everything is of its type.
TypeOK ==
  /\ sf \in 1..(NumSources + 1)
  /\ pass \in {"pragmas", "comments", "done"}
  /\ line \in 0..NumLines
  /\ read \in Seq(Annotations) /\ Len(read) <= MaxAnnotations
  /\ open \in Seq(Sections) /\ closed \in [Sources -> Seq(Sections)]
  /\ warned \subseteq Warnings
  /\ exempted \subseteq reported /\ reported \subseteq Violations

Share(s, t) == s.params = {} \/ t.params = {} \/ s.params \cap t.params # {}

\* An exception ended the scan of source f: the sections it left open are those
\* of source f + 1.
Raised(f) == \E k \in DOMAIN read : read[k].file = f /\ Raises(read[k])

\* The postponed sections of a source are its own, whatever happened in any
\* other source but the one before it, if that one raised.  They end after they
\* start, unless a comment has closed the section of a pragma below it.  Of two
\* that the same pass has opened, for one name or for a rule and its instance
\* within it, and that have parameters in common, the first ends before the second
\* starts: before a section is opened, four kinds of open ones are looked for, Off
\* must close the one it matches, and the end of the source leaves nothing behind.
SectionsWellFormed ==
  \A f \in Sources : ~Raised(f - 1) =>
    \A i \in DOMAIN closed[f] :
      LET s == closed[f][i]
      IN /\ s.origin = f
         /\ \/ s.line <= s.endLine
            \/ s.col = Columns.pragma /\ s.endCol = Columns.comment
         /\ \A j \in DOMAIN closed[f] \ {i} :
              LET t == closed[f][j]
              IN s.col = t.col /\ s.name \in {t.name, Own(t.name)} /\ Share(s, t)
                 /\ s.line <= t.line => s.endLine < t.line

\* Annotation a comes before violation v.  A section without parameters is made
\* of whole lines: a section that starts on the line of v holds v, and so does
\* one that ends there.
StartedBefore(a, v) ==
  a.line < v.line \/ (a.line = v.line /\ (Parsed(a) = {} \/ v.col = Columns.after))
EndedBefore(a, v) ==
  a.line < v.line \/ (a.line = v.line /\ Parsed(a) # {} /\ v.col = Columns.after)

\* Annotation b closes what annotation a opens.
Undoes(b, a) ==
  /\ b.file = a.file /\ b.kind \in {"off", "line"}
  /\ b.name = a.name /\ Parsed(b) = Parsed(a)

\* Violation v is after an accepted exempt_on annotation of its instance or of
\* its rule, and not after the first annotation that matches it in the order in
\* which they are read: all the pragmas of a source come before its comments.
InForce(v) ==
  \E i \in DOMAIN read :
    LET a == read[i]
    IN /\ a.file = v.file /\ a.kind \in {"on", "line"}
       /\ a.name \in {v.name, Own(v.name)}
       /\ Warning("rejected", a.file, At(a)) \notin warned
       /\ Parsed(a) = {} \/ v.param \in Parsed(a)
       /\ StartedBefore(a, v)
       /\ ~\E j \in i..Len(read) :
            /\ Undoes(read[j], a) /\ EndedBefore(read[j], v)
            /\ \A k \in i..(j - 1) : ~Undoes(read[k], a)

\* A violation is exempted only between annotations that exempt it and, if the
\* scan of its source did not end in an exception, whenever it is between such
\* annotations, of one form or of both: the two passes, the closing of sections,
\* the order of the lookup of parametric sections and the exceptions of other
\* sources make no difference.  Only the source that follows one whose scan
\* raised is left out, for it inherits open sections.
ExemptedExactly ==
  \A v \in reported : ~Raised(v.file - 1) =>
    /\ v \in exempted => InForce(v)
    /\ InForce(v) /\ ~Raised(v.file) => v \in exempted

Inside(v, s) ==
  /\ s.name \in {v.name, Own(v.name)}
  /\ IF s.params = {} THEN v.line \in s.line..s.endLine
     ELSE v.param \in s.params /\ ~StartsAfter(v, s) /\ ~EndsBefore(v, s)

\* In the end a section is reported as useless only when every violation it
\* holds is exempted by some other section, and is not reported only when it
\* holds an exempted violation: removing the annotations a warning points at
\* exposes nothing.  A source whose scan raised, and the one after it, are left
\* out.
UnusedAreUseless ==
  \A f \in Sources : pass = "done" /\ ~Raised(f - 1) /\ ~Raised(f) =>
    \A s \in ToSet(closed[f]) :
      LET held == {v \in reported : v.file = f /\ Inside(v, s)}
      IN IF Warning("unused", f, s) \in warned
         THEN \A v \in held : \E t \in ToSet(closed[f]) \ {s} : Inside(v, t)
         ELSE held \cap exempted # {}

(***************************************************************************)
(* What the documentation says of exemptions and the code does not do.     *)
(***************************************************************************)

\* using_gnatcheck.rst: a malformed exemption is reported and ignored.  An
\* annotation that names parameters never exempts the whole rule.
NeverWidened ==
  \A k \in DOMAIN read : read[k].kind = "on" /\ read[k].given # {} =>
    \A f \in Sources : \A s \in ToSet(open) \cup ToSet(closed[f]) :
      At(read[k]) = [line |-> s.line, col |-> s.col, name |-> s.name]
      /\ s.origin = read[k].file => s.params # {}
=============================================================================
