-------------------------- MODULE ExemptionsProofs --------------------------
(***************************************************************************)
(* Proofs about the exemption sections, for any sources, lines, rules,     *)
(* instances, parameters and annotations.                                  *)
(***************************************************************************)
EXTENDS Exemptions, SequenceTheorems, WellFoundedInduction, TLAPS

-----------------------------------------------------------------------------
(* Sequences of sections *)

LEMMA Removed ==
  ASSUME NEW S, NEW s \in Seq(S), NEW k \in 1..Len(s)
  PROVE  /\ RemoveAt(s, k) \in Seq(S)
         /\ Len(RemoveAt(s, k)) = Len(s) - 1
         /\ \A i \in 1..(Len(s) - 1) :
              RemoveAt(s, k)[i] = IF i < k THEN s[i] ELSE s[i + 1]
<1> DEFINE front == SubSeq(s, 1, k - 1)
           back  == SubSeq(s, k + 1, Len(s))
<1>1. Len(s) \in Nat /\ k \in Nat /\ k >= 1 /\ k <= Len(s)
  BY LenProperties
<1>2. /\ front \in Seq(S) /\ Len(front) = k - 1
      /\ \A i \in 1..(k - 1) : front[i] = s[i]
  <2>1. \A i \in 1..(k - 1) : s[i] \in S
    BY <1>1, ElementOfSeq
  <2> QED BY <1>1, <2>1, SubSeqProperties
<1>3. /\ back \in Seq(S) /\ Len(back) = Len(s) - k
      /\ \A i \in 1..(Len(s) - k) : back[i] = s[i + k]
  <2>1. \A i \in (k + 1)..Len(s) : s[i] \in S
    BY <1>1, ElementOfSeq
  <2>2. CASE k + 1 <= Len(s)
    <3>1. /\ SubSeq(s, k + 1, Len(s)) \in Seq(S)
          /\ Len(SubSeq(s, k + 1, Len(s))) = Len(s) - (k + 1) + 1
          /\ \A i \in 1..(Len(s) - (k + 1) + 1) :
               SubSeq(s, k + 1, Len(s))[i] = s[k + 1 + i - 1]
      BY <1>1, <2>1, <2>2, SubSeqProperties
    <3> QED BY <1>1, <3>1
  <2>3. CASE ~(k + 1 <= Len(s))
    <3>1. back = <<>>
      BY <1>1, <2>3, SubSeqEmpty
    <3> QED BY <1>1, <2>3, <3>1, EmptySeq
  <2> QED BY <2>2, <2>3
<1> HIDE DEF front, back
<1>4. RemoveAt(s, k) = front \o back
  BY DEF RemoveAt, front, back
<1>5. /\ front \o back \in Seq(S)
      /\ Len(front \o back) = Len(front) + Len(back)
      /\ \A i \in 1..(Len(front) + Len(back)) :
           (front \o back)[i] = IF i <= Len(front) THEN front[i]
                                                   ELSE back[i - Len(front)]
  BY <1>2, <1>3, ConcatProperties
<1> QED BY <1>1, <1>2, <1>3, <1>4, <1>5

-----------------------------------------------------------------------------
(* The collector after an annotation *)

Collectors == [open : Seq(Sections), closed : [Sources -> Seq(Sections)],
               warned : SUBSET Warnings]

\* The open section s keeps one of this name and parameters from being opened.
Blocks(s, name, params) ==
  /\ s.name \in {name, Own(name)}
  /\ s.params = {} \/ params = {} \/ s.params \cap params # {}

\* The four comparisons, with both names, leave out no open section.
LEMMA NoneBlocks ==
  ASSUME NEW c, c.open \in Seq(Sections), NEW a, ~AlreadyExempted(c, a)
  PROVE  \A i \in 1..Len(c.open) : ~Blocks(c.open[i], a.name, Parsed(a))
<1>1. \A i \in 1..Len(c.open) : c.open[i] \in ToSet(c.open)
  BY DEF ToSet
<1>2. ASSUME NEW i \in 1..Len(c.open), Blocks(c.open[i], a.name, Parsed(a))
      PROVE  FALSE
  <2> DEFINE s == c.open[i]
  <2>1. s \in ToSet(c.open) /\ s.name \in {a.name, Own(a.name)}
    BY <1>1, <1>2 DEF Blocks
  <2>2. CASE s.params = {}
    BY <2>1, <2>2 DEF AlreadyExempted, IsExempted
  <2>3. CASE s.params # {} /\ Parsed(a) = {}
    BY <2>1, <2>3 DEF AlreadyExempted, IsParamExempted
  <2>4. CASE s.params \cap Parsed(a) # {}
    BY <2>1, <2>4 DEF AlreadyExempted, HasOneParam
  <2> QED BY <1>2, <2>2, <2>3, <2>4 DEF Blocks
<1> QED BY <1>2

\* The annotation may open a section.
Opens(c, d, a) ==
  /\ d \in Collectors
  /\ d.closed = c.closed
  /\ \/ d.open = c.open
     \/ /\ Opened(a) \in Sections
        /\ d.open = Append(c.open, Opened(a))
        /\ \A i \in 1..Len(c.open) : ~Blocks(c.open[i], a.name, Parsed(a))

\* The annotation may close the section it matches.
Closes(c, d, a) ==
  /\ d \in Collectors
  /\ \/ d.open = c.open /\ d.closed = c.closed
     \/ \E k \in 1..Len(c.open) :
          /\ ClosedAt(c.open[k], a.line, EndCol(a.form)) \in Sections
          /\ d.open = RemoveAt(c.open, k)
          /\ d.closed = [c.closed EXCEPT ![a.file] =
               Append(@, ClosedAt(c.open[k], a.line, EndCol(a.form)))]

LEMMA Annotated ==
  ASSUME NEW a \in Annotations
  PROVE  /\ a.file \in Sources /\ a.line \in Lines /\ a.name \in Names
         /\ StartCol(a.form) \in {2, 4} /\ EndCol(a.form) \in {3, 4}
         /\ a.given \in SUBSET Params /\ a.kind \in {"on", "off", "line", "wrong"}
         /\ Parsed(a) \subseteq Params
<1>1. /\ a.file \in Sources /\ a.line \in Lines /\ a.name \in Names
      /\ a.form \in {"pragma", "comment"} /\ a.given \in SUBSET Params
      /\ a.kind \in {"on", "off", "line", "wrong"}
  BY ExemptionsAssumption DEF Annotations
<1> QED BY <1>1 DEF StartCol, EndCol, Columns, Parsed

LEMMA Warned ==
  ASSUME NEW c \in Collectors, NEW a \in Annotations,
         NEW why \in {"rejected", "parameters"}
  PROVE  /\ Warn(c, why, a) \in Collectors
         /\ Warn(c, why, a).open = c.open /\ Warn(c, why, a).closed = c.closed
<1>1. Warning(why, a.file, At(a)) \in Warnings
  BY Annotated DEF Warning, At, Warnings
<1> QED BY <1>1 DEF Warn, Collectors

LEMMA TurnOnOpens ==
  ASSUME NEW c \in Collectors, NEW a \in Annotations, ~Invalid(a)
  PROVE  Opens(c, TurnOn(c, a), a)
<1> DEFINE blocked == AlreadyExempted(c, a)
<1>1. c.open \in Seq(Sections)
  BY DEF Collectors
<1>2. CASE blocked
  <2>1. TurnOn(c, a) = Warn(c, "rejected", a)
    BY <1>2 DEF TurnOn
  <2> QED BY <2>1, Warned DEF Opens
<1>3. CASE ~blocked
  <2>1. TurnOn(c, a) = [c EXCEPT !.open = Append(@, Opened(a))]
    BY <1>3 DEF TurnOn
  <2>2. Opened(a) \in Sections
    <3>1. a.name \in Known
      BY Annotated DEF Invalid, Names
    <3> QED BY <3>1, Annotated, ExemptionsAssumption DEF Opened, Sections, Lines
  <2>3. Append(c.open, Opened(a)) \in Seq(Sections)
    BY <1>1, <2>2
  <2>4. \A i \in 1..Len(c.open) : ~Blocks(c.open[i], a.name, Parsed(a))
    BY <1>1, <1>3, NoneBlocks
  <2>5. TurnOn(c, a) \in Collectors /\ TurnOn(c, a).closed = c.closed
        /\ TurnOn(c, a).open = Append(c.open, Opened(a))
    BY <2>1, <2>3 DEF Collectors
  <2> QED BY <2>2, <2>4, <2>5 DEF Opens
<1> QED BY <1>2, <1>3

LEMMA TurnOffCloses ==
  ASSUME NEW c \in Collectors, NEW a \in Annotations
  PROVE  Closes(c, TurnOff(c, a), a)
<1> DEFINE match  == {k \in DOMAIN c.open : /\ c.open[k].name = a.name
                                            /\ c.open[k].params = Parsed(a)}
           off(k) == ClosedAt(c.open[k], a.line, EndCol(a.form))
<1>1. c.open \in Seq(Sections) /\ DOMAIN c.open = 1..Len(c.open)
  BY DEF Collectors
<1>2. CASE match = {}
  <2>1. TurnOff(c, a) = Warn(c, "rejected", a)
    BY <1>2 DEF TurnOff
  <2> QED BY <2>1, Warned DEF Closes
<1>3. CASE match # {}
  <2> DEFINE k == CHOOSE k \in match : TRUE
  <2>1. k \in match
    BY <1>3
  <2>2. TurnOff(c, a) =
          [c EXCEPT !.open = RemoveAt(@, k), !.closed[a.file] = Append(@, off(k))]
    BY <1>3 DEF TurnOff
  <2> HIDE DEF k
  <2>3. k \in 1..Len(c.open)
    BY <1>1, <2>1
  <2>4. off(k) \in Sections
    <3>1. c.open[k] \in Sections
      BY <1>1, <2>3
    <3>2. a.line \in 0..NumLines /\ EndCol(a.form) \in 0..4
      BY Annotated, ExemptionsAssumption DEF Lines
    <3> QED BY <3>1, <3>2 DEF ClosedAt, Sections
  <2>5. RemoveAt(c.open, k) \in Seq(Sections)
    BY <1>1, <2>3, Removed
  <2> HIDE DEF off
  <2>6. [c.closed EXCEPT ![a.file] = Append(@, off(k))] \in [Sources -> Seq(Sections)]
    BY <2>4, Annotated DEF Collectors
  <2>7. /\ TurnOff(c, a) \in Collectors
        /\ TurnOff(c, a).open = RemoveAt(c.open, k)
        /\ TurnOff(c, a).closed = [c.closed EXCEPT ![a.file] = Append(@, off(k))]
    <3> DEFINE o == RemoveAt(c.open, k)
               f == [c.closed EXCEPT ![a.file] = Append(@, off(k))]
    <3>1. TurnOff(c, a) = [c EXCEPT !.open = o, !.closed = f]
      BY <2>2 DEF Collectors
    <3>2. o \in Seq(Sections) /\ f \in [Sources -> Seq(Sections)]
      BY <2>5, <2>6
    <3> HIDE DEF o, f
    <3>3. /\ TurnOff(c, a) \in Collectors
          /\ TurnOff(c, a).open = o /\ TurnOff(c, a).closed = f
      BY <3>1, <3>2 DEF Collectors
    <3> QED BY <3>3 DEF o, f
  <2> QED BY <2>3, <2>4, <2>7 DEF Closes, off
<1> QED BY <1>2, <1>3

\* Process_Exempt_Action opens a section, then closes one, or does less.
LEMMA EffectSteps ==
  ASSUME NEW c \in Collectors, NEW a \in Annotations
  PROVE  \E d \in Collectors : Opens(c, d, a) /\ Closes(d, Effect(c, a), a)
<1> DEFINE w == IF a.name \in Unknown \/ a.given \subseteq Allowed[Own(a.name)]
                THEN c ELSE Warn(c, "parameters", a)
<1>1. Effect(c, a) = Effects(w, a)
  BY DEF Effect
<1>2. w \in Collectors /\ w.open = c.open /\ w.closed = c.closed
  BY Warned
<1> HIDE DEF w
<1>3. ASSUME NEW b \in Collectors, Invalid(a) \/ Moot(a), NEW kind
      PROVE  /\ ExemptAction(b, a, kind) \in Collectors
             /\ ExemptAction(b, a, kind).open = b.open
             /\ ExemptAction(b, a, kind).closed = b.closed
  <2>1. CASE Invalid(a)
    BY <2>1, Warned DEF ExemptAction
  <2>2. CASE ~Invalid(a)
    BY <1>3, <2>2 DEF ExemptAction
  <2> QED BY <2>1, <2>2
<1>4. CASE Invalid(a) \/ Moot(a)
  <2>1. /\ Effects(w, a) \in Collectors
        /\ Effects(w, a).open = c.open /\ Effects(w, a).closed = c.closed
    BY <1>2, <1>3, <1>4 DEF Effects
  <2> QED BY <1>1, <1>2, <2>1 DEF Opens, Closes
<1>5. CASE ~Invalid(a) /\ ~Moot(a)
  <2>1. \A b : /\ ExemptAction(b, a, "on") = TurnOn(b, a)
               /\ ExemptAction(b, a, "off") = TurnOff(b, a)
    BY <1>5 DEF ExemptAction
  <2>2. a.kind \in {"on", "off", "line"}
    BY <1>5, Annotated DEF Invalid
  <2>3. Opens(w, TurnOn(w, a), a)
    BY <1>2, <1>5, TurnOnOpens
  <2>4. TurnOn(w, a) \in Collectors /\ Opens(c, TurnOn(w, a), a)
    BY <1>2, <2>3 DEF Opens
  <2>5. CASE a.kind = "on"
    <3>1. Effect(c, a) = TurnOn(w, a)
      BY <1>1, <2>1, <2>5 DEF Effects
    <3> QED BY <2>4, <3>1 DEF Closes
  <2>6. CASE a.kind = "off"
    <3>1. Effect(c, a) = TurnOff(w, a)
      BY <1>1, <2>1, <2>6 DEF Effects
    <3> QED BY <1>2, <3>1, TurnOffCloses DEF Opens
  <2>7. CASE a.kind = "line"
    <3>1. Effect(c, a) = TurnOff(TurnOn(w, a), a)
      BY <1>1, <2>1, <2>7 DEF Effects
    <3> QED BY <2>4, <3>1, TurnOffCloses
  <2> QED BY <2>2, <2>5, <2>6, <2>7
<1> QED BY <1>4, <1>5

-----------------------------------------------------------------------------
(* Types *)

TypeInv == TypeOK /\ (pass = "comments" => sf \in Sources)

LEMMA InitTypes == Init => TypeInv
<1> SUFFICES ASSUME Init PROVE TypeInv
  OBVIOUS
<1>1. /\ sf = 1 /\ pass = "pragmas" /\ line = 0 /\ read = <<>> /\ open = <<>>
      /\ warned = {} /\ exempted = {} /\ reported = {}
      /\ closed = [f \in Sources |-> <<>>]
  BY DEF Init
<1>2. closed \in [Sources -> Seq(Sections)]
  BY <1>1
<1> QED BY <1>1, <1>2, ExemptionsAssumption DEF TypeInv, TypeOK

LEMMA CollectorType == TypeInv => Collector \in Collectors
BY DEF TypeInv, TypeOK, Collector, Collectors

\* What both ways of reading an annotation do.
Annotates(a) ==
  /\ a \in Annotations /\ a.file = sf /\ a.line > line
  /\ Read(a) /\ line' = a.line
  /\ SetCollector(Effect(Collector, a))
  /\ UNCHANGED <<sf, pass, exempted, reported>>

LEMMA AnnotatesPragma ==
  ASSUME TypeInv, sf \in Sources,
         NEW a \in Upcoming("pragma", Kinds \ {"line"}, SUBSET Params)
  PROVE  /\ a \in Annotations /\ a.file = sf /\ a.line > line /\ a.form = "pragma"
         /\ ReadPragma(a) => Annotates(a)
<1>1. line \in 0..NumLines
  BY DEF TypeInv, TypeOK
<1>2. a \in Annotations /\ a.file = sf /\ a.line > line /\ a.form = "pragma"
  BY <1>1, ExemptionsAssumption DEF Upcoming, Annotations, Lines
<1> QED BY <1>2 DEF ReadPragma, Annotates

LEMMA AnnotatesComment ==
  ASSUME TypeInv, pass = "comments",
         NEW a \in Upcoming("comment", Kinds \ {"wrong"}, {{}})
  PROVE  /\ a \in Annotations /\ a.file = sf /\ a.line > line /\ a.form = "comment"
         /\ ~Raises(a)
         /\ ReadComment(a) => Annotates(a)
<1>1. line \in 0..NumLines /\ sf \in Sources
  BY DEF TypeInv, TypeOK
<1>2. /\ a \in Annotations /\ a.file = sf /\ a.line > line /\ a.form = "comment"
      /\ a.given = {}
  BY <1>1, ExemptionsAssumption DEF Upcoming, Annotations, Lines
<1> QED BY <1>2 DEF ReadComment, Annotates, Raises

LEMMA AnnotatedCollector ==
  ASSUME TypeInv, NEW a, Annotates(a)
  PROVE  /\ Collector' \in Collectors
         /\ \E d \in Collectors : Opens(Collector, d, a) /\ Closes(d, Collector', a)
<1>1. a \in Annotations /\ Collector \in Collectors
  BY CollectorType DEF Annotates
<1>2. PICK d \in Collectors : Opens(Collector, d, a) /\ Closes(d, Effect(Collector, a), a)
  BY <1>1, EffectSteps
<1>3. Effect(Collector, a) \in Collectors
  BY <1>2 DEF Closes
<1> DEFINE e == Effect(Collector, a)
<1>4. open' = e.open /\ closed' = e.closed /\ warned' = e.warned
  BY DEF Annotates, SetCollector
<1>5. e \in Collectors /\ Closes(d, e, a)
  BY <1>2, <1>3
<1> HIDE DEF e
<1>6. e = [open |-> e.open, closed |-> e.closed, warned |-> e.warned]
  BY <1>5 DEF Collectors
<1>7. Collector' = e
  BY <1>4, <1>6 DEF Collector
<1> QED BY <1>2, <1>5, <1>7

LEMMA SectionWarning ==
  ASSUME NEW f \in Sources, NEW s \in Sections, NEW why \in {"unclosed", "unused"}
  PROVE  Warning(why, f, s) \in Warnings
BY DEF Warning, Warnings, Sections, Names

\* Check_Unclosed_Rule_Exemptions appends every open section, closed.
LEMMA AllClosed ==
  ASSUME TypeOK, NEW f \in Sources
  PROVE  /\ CloseAll(f) \in Seq(Sections)
         /\ Len(CloseAll(f)) = Len(closed[f]) + Len(open)
         /\ \A i \in 1..Len(CloseAll(f)) :
              CloseAll(f)[i] =
                IF i <= Len(closed[f]) THEN closed[f][i]
                ELSE ClosedAt(open[i - Len(closed[f])], NumLines, Columns.comment)
<1> DEFINE ended == [k \in DOMAIN open |-> ClosedAt(open[k], NumLines, Columns.comment)]
<1>1. open \in Seq(Sections) /\ closed[f] \in Seq(Sections) /\ DOMAIN open = 1..Len(open)
  BY DEF TypeOK
<1>2. \A s \in Sections : ClosedAt(s, NumLines, Columns.comment) \in Sections
  <2>1. NumLines \in 0..NumLines /\ Columns.comment \in 0..4
    BY ExemptionsAssumption DEF Columns
  <2>2. ASSUME NEW s \in Sections PROVE ClosedAt(s, NumLines, Columns.comment) \in Sections
    BY <2>1 DEF ClosedAt, Sections
  <2> QED BY <2>2
<1>3. Len(open) \in Nat /\ \A k \in 1..Len(open) : open[k] \in Sections
  BY <1>1
<1>4. ended \in [1..Len(open) -> Sections]
  BY <1>1, <1>2, <1>3
<1>5. ended \in Seq(Sections) /\ Len(ended) = Len(open)
  <2>1. ended \in Seq(Sections)
    BY <1>3, <1>4, SeqDef
  <2>2. DOMAIN ended = 1..Len(ended) /\ Len(ended) \in Nat
    BY <2>1, LenProperties
  <2> QED BY <1>1, <1>3, <2>1, <2>2
<1>6. \A k \in 1..Len(open) : ended[k] = ClosedAt(open[k], NumLines, Columns.comment)
  BY <1>1
<1>7. CloseAll(f) = closed[f] \o ended
  BY DEF CloseAll
<1> HIDE DEF ended
<1>8. /\ closed[f] \o ended \in Seq(Sections)
      /\ Len(closed[f] \o ended) = Len(closed[f]) + Len(ended)
      /\ \A i \in 1..(Len(closed[f]) + Len(ended)) :
           (closed[f] \o ended)[i] = IF i <= Len(closed[f]) THEN closed[f][i]
                                     ELSE ended[i - Len(closed[f])]
  BY <1>1, <1>5, ConcatProperties
<1>9. Len(closed[f]) \in Nat
  BY <1>1
<1>10. \A i \in 1..(Len(closed[f]) + Len(open)) :
         i <= Len(closed[f]) \/ i - Len(closed[f]) \in 1..Len(open)
  BY <1>3, <1>9
<1> QED BY <1>5, <1>6, <1>7, <1>8, <1>10

LEMMA NextTypes == TypeInv /\ [Next]_vars => TypeInv'
<1> SUFFICES ASSUME TypeInv, [Next]_vars PROVE TypeInv'
  OBVIOUS
<1> USE DEF TypeInv
<1>1. ASSUME NEW a, Annotates(a), sf \in Sources PROVE TypeInv'
  <2>1. open' \in Seq(Sections) /\ closed' \in [Sources -> Seq(Sections)]
        /\ warned' \subseteq Warnings
    BY <1>1, AnnotatedCollector DEF Collector, Collectors
  <2>2. read' \in Seq(Annotations) /\ Len(read') <= MaxAnnotations
    BY <1>1, ExemptionsAssumption DEF Annotates, Read, TypeOK
  <2>3. line' \in 0..NumLines
    BY <1>1, Annotated, ExemptionsAssumption DEF Annotates, Lines
  <2>4. UNCHANGED <<sf, pass, exempted, reported>>
    BY <1>1 DEF Annotates
  <2> QED BY <2>1, <2>2, <2>3, <2>4 DEF TypeOK
<1>2. CASE sf \in Sources /\ pass = "pragmas"
           /\ \E a \in Upcoming("pragma", Kinds \ {"line"}, SUBSET Params) :
                ReadPragma(a) \/ ScanRaises(a)
  <2>1. PICK a \in Upcoming("pragma", Kinds \ {"line"}, SUBSET Params) :
          ReadPragma(a) \/ ScanRaises(a)
    BY <1>2
  <2>2. CASE ReadPragma(a)
    BY <1>1, <1>2, <2>2, AnnotatesPragma
  <2>3. CASE ScanRaises(a)
    <3>1. a \in Annotations
      BY <1>2, AnnotatesPragma
    <3>2. read' \in Seq(Annotations) /\ Len(read') <= MaxAnnotations
      BY <2>3, <3>1, ExemptionsAssumption DEF ScanRaises, Read, TypeOK
    <3> QED BY <1>2, <2>3, <3>2, ExemptionsAssumption DEF ScanRaises, TypeOK, Sources
  <2> QED BY <2>1, <2>2, <2>3
<1>3. CASE EndOfPragmas
  BY <1>3, ExemptionsAssumption DEF EndOfPragmas, TypeOK
<1>4. CASE pass = "comments"
           /\ \E a \in Upcoming("comment", Kinds \ {"wrong"}, {{}}) : ReadComment(a)
  BY <1>1, <1>4, AnnotatesComment
<1>5. CASE EndOfSource
  <2>1. CloseAll(sf) \in Seq(Sections)
    BY <1>5, AllClosed DEF EndOfSource, TypeOK
  <2>2. closed' \in [Sources -> Seq(Sections)] /\ open' \in Seq(Sections)
    BY <1>5, <2>1 DEF EndOfSource, TypeOK
  <2>3. \A s \in Sections : Warning("unclosed", sf, s) \in Warnings
    BY <1>5, SectionWarning DEF EndOfSource
  <2>4. warned' \subseteq Warnings
    BY <1>5, <2>3 DEF EndOfSource, TypeOK, ToSet
  <2> QED BY <1>5, <2>2, <2>4, ExemptionsAssumption DEF EndOfSource, TypeOK, Sources
<1>6. CASE \E v \in Violations : MapDiagnostic(v)
  BY <1>6 DEF MapDiagnostic, TypeOK
<1>7. CASE WarnUnused
  <2>1. \A f \in Sources, s \in Sections : Warning("unused", f, s) \in Warnings
    BY SectionWarning
  <2>2. \A f \in Sources : ToSet(closed[f]) \subseteq Sections
    BY DEF TypeOK, ToSet
  <2>3. warned' \subseteq Warnings
    BY <1>7, <2>1, <2>2 DEF WarnUnused, TypeOK
  <2> QED BY <1>7, <2>3 DEF WarnUnused, TypeOK
<1>8. CASE UNCHANGED vars
  BY <1>8 DEF vars, TypeOK
<1> QED BY <1>2, <1>3, <1>4, <1>5, <1>6, <1>7, <1>8 DEF Next, Terminated

\* The scan keeps its sections, warnings and violations well typed.
THEOREM TypeCorrect == Spec => []TypeOK
<1>1. Spec => []TypeInv
  BY InitTypes, NextTypes, PTL DEF Spec
<1>2. TypeInv => TypeOK
  BY DEF TypeInv
<1> QED BY <1>1, <1>2, PTL

-----------------------------------------------------------------------------
(* Open sections *)

\* No two open sections could both exempt a violation under the name of the
\* later one or of its rule.
Compatible(o) ==
  \A j \in 1..Len(o) : \A i \in 1..(j - 1) :
    o[i].name \in {o[j].name, Own(o[j].name)} => ~Share(o[i], o[j])

LEMMA OpensCompatible ==
  ASSUME NEW c \in Collectors, NEW d, NEW a, Opens(c, d, a), Compatible(c.open)
  PROVE  Compatible(d.open)
<1>1. CASE d.open = c.open
  BY <1>1
<1>2. CASE d.open # c.open
  <2> DEFINE o == c.open
             s == Opened(a)
  <2>1. /\ s \in Sections /\ d.open = Append(o, s) /\ o \in Seq(Sections)
        /\ \A i \in 1..Len(o) : ~Blocks(o[i], a.name, Parsed(a))
    BY <1>2 DEF Opens, Collectors
  <2>2. s.name = a.name /\ s.params = Parsed(a)
    BY DEF Opened
  <2>3. \A i \in 1..Len(o) :
          o[i].name \in {s.name, Own(s.name)} => ~Share(o[i], s)
    BY <2>1, <2>2 DEF Blocks, Share
  <2>4. Compatible(o)
    OBVIOUS
  <2> HIDE DEF o, s
  <2>5. /\ Len(d.open) = Len(o) + 1 /\ Len(o) \in Nat
        /\ \A i \in 1..Len(o) : d.open[i] = o[i]
        /\ d.open[Len(o) + 1] = s
    BY <2>1
  <2>6. ASSUME NEW j \in 1..Len(d.open), NEW i \in 1..(j - 1)
        PROVE  d.open[i].name \in {d.open[j].name, Own(d.open[j].name)}
                 => ~Share(d.open[i], d.open[j])
    <3>1. i \in 1..Len(o) /\ d.open[i] = o[i]
      BY <2>5
    <3>2. CASE j \in 1..Len(o)
      BY <2>4, <2>5, <3>1, <3>2 DEF Compatible
    <3>3. CASE j = Len(o) + 1
      BY <2>3, <2>5, <3>1, <3>3
    <3> QED BY <2>5, <3>2, <3>3
  <2> QED BY <2>6 DEF Compatible
<1> QED BY <1>1, <1>2

LEMMA ClosesCompatible ==
  ASSUME NEW c \in Collectors, NEW d, NEW a, Closes(c, d, a), Compatible(c.open)
  PROVE  Compatible(d.open)
<1>1. CASE d.open = c.open
  BY <1>1
<1>2. CASE d.open # c.open
  <2> DEFINE o == c.open
  <2>1. PICK k \in 1..Len(o) : d.open = RemoveAt(o, k)
    BY <1>2 DEF Closes
  <2>2. o \in Seq(Sections) /\ Len(o) \in Nat /\ Compatible(o)
    BY DEF Collectors
  <2> HIDE DEF o
  <2>3. /\ Len(d.open) = Len(o) - 1
        /\ \A i \in 1..(Len(o) - 1) : d.open[i] = IF i < k THEN o[i] ELSE o[i + 1]
    BY <2>1, <2>2, Removed
  <2>4. ASSUME NEW j \in 1..Len(d.open), NEW i \in 1..(j - 1)
        PROVE  d.open[i].name \in {d.open[j].name, Own(d.open[j].name)}
                 => ~Share(d.open[i], d.open[j])
    <3> DEFINE n == IF j < k THEN j ELSE j + 1
               m == IF i < k THEN i ELSE i + 1
    <3>1. /\ n \in 1..Len(o) /\ m \in 1..(n - 1)
          /\ i \in 1..(Len(o) - 1) /\ j \in 1..(Len(o) - 1)
      BY <2>2, <2>3
    <3>2. d.open[j] = o[n] /\ d.open[i] = o[m]
      BY <2>3, <3>1
    <3> HIDE DEF n, m
    <3> QED BY <2>2, <3>1, <3>2 DEF Compatible
  <2> QED BY <2>4 DEF Compatible
<1> QED BY <1>1, <1>2

LEMMA AnnotatesCompatible ==
  ASSUME TypeInv, Compatible(open), NEW a, Annotates(a)
  PROVE  Compatible(open')
<1>1. PICK d \in Collectors : Opens(Collector, d, a) /\ Closes(d, Collector', a)
  BY AnnotatedCollector
<1>2. Collector \in Collectors /\ Collector.open = open /\ Collector'.open = open'
  BY CollectorType DEF Collector
<1>3. Compatible(d.open)
  BY <1>1, <1>2, OpensCompatible
<1> QED BY <1>1, <1>2, <1>3, ClosesCompatible

LEMMA NextCompatible ==
  ASSUME TypeInv, Compatible(open), [Next]_vars
  PROVE  Compatible(open')
<1>1. CASE open' = open
  BY <1>1
<1>2. CASE open' = <<>>
  BY <1>2 DEF Compatible
<1>3. CASE \E a : Annotates(a)
  BY <1>3, AnnotatesCompatible
<1>4. CASE sf \in Sources /\ pass = "pragmas"
           /\ \E a \in Upcoming("pragma", Kinds \ {"line"}, SUBSET Params) :
                ReadPragma(a) \/ ScanRaises(a)
  BY <1>1, <1>3, <1>4, AnnotatesPragma DEF ScanRaises
<1>5. CASE pass = "comments"
           /\ \E a \in Upcoming("comment", Kinds \ {"wrong"}, {{}}) : ReadComment(a)
  BY <1>3, <1>5, AnnotatesComment
<1> QED BY <1>1, <1>2, <1>4, <1>5
        DEF Next, EndOfPragmas, EndOfSource, MapDiagnostic, WarnUnused, Terminated, vars

-----------------------------------------------------------------------------
(* The sections of one source *)

\* When section s is closed and t is opened by the same pass, for its name or for
\* that of an instance of its rule, not before s, then s ends before t starts.
Meets(s, t) ==
  s.col = t.col /\ s.name \in {t.name, Own(t.name)} /\ Share(s, t) /\ s.line <= t.line
Clear(s, t) == Meets(s, t) => s.endLine < t.line

\* A section does not end before it starts, but for one of a pragma that a
\* comment closes.
Ended(s) == s.line <= s.endLine \/ (s.col = 2 /\ s.endCol = 4)

\* What is filed for source f.
Filed(secs, f) ==
  \A i \in 1..Len(secs) :
    /\ secs[i].origin = f /\ Ended(secs[i])
    /\ \A j \in 1..Len(secs) : i # j => Clear(secs[i], secs[j])

\* The open sections of one pass are in the order of their lines.
Rising(o) ==
  \A j \in 1..Len(o) : \A i \in 1..(j - 1) : o[i].col = o[j].col => o[i].line < o[j].line

\* The open sections start after the postponed ones that could hold them, and
\* could hold none of these.
Apart(o, secs, f) ==
  \A k \in 1..Len(o) :
    /\ o[k].origin = f
    /\ \A i \in 1..Len(secs) : Clear(secs[i], o[k]) /\ ~Meets(o[k], secs[i])

\* This pass has come to line l: its sections start and end up to there, and the
\* first pass has opened none of the second.
FormOf(p) == IF p = "pragmas" THEN "pragma" ELSE "comment"
Upto(o, secs, p, l) ==
  /\ \A k \in 1..Len(o) : /\ o[k].col = StartCol(FormOf(p)) => o[k].line <= l
                          /\ p = "pragmas" => o[k].col = 2
  /\ \A i \in 1..Len(secs) :
       /\ secs[i].col = StartCol(FormOf(p)) => secs[i].line <= l /\ secs[i].endLine <= l
       /\ p = "pragmas" => secs[i].col = 2

Well(c, f, p, l) ==
  /\ Compatible(c.open) /\ Rising(c.open)
  /\ Filed(c.closed[f], f) /\ Apart(c.open, c.closed[f], f)
  /\ Upto(c.open, c.closed[f], p, l)

\* Two sections that are open are clear of each other in both directions.
LEMMA OpenApart ==
  ASSUME NEW o \in Seq(Sections), Compatible(o), Rising(o),
         NEW k \in 1..Len(o), NEW n \in 1..Len(o), k # n
  PROVE  ~Meets(o[k], o[n])
<1>1. /\ k \in Int /\ n \in Int
      /\ \A m \in 1..Len(o) : o[m].line \in Int
  <2>1. \A m \in 1..Len(o) : o[m] \in Sections
    BY ElementOfSeq
  <2>2. \A m \in 1..Len(o) : o[m].line \in Int
    BY <2>1, ExemptionsAssumption DEF Sections, Lines
  <2> QED BY <2>2
<1>2. CASE k < n
  <2>1. k \in 1..(n - 1)
    BY <1>1, <1>2
  <2> QED BY <2>1 DEF Compatible, Meets
<1>3. CASE n < k
  <2>1. n \in 1..(k - 1)
    BY <1>1, <1>3
  <2>2. o[n].col = o[k].col => o[n].line < o[k].line
    BY <2>1 DEF Rising
  <2> QED BY <1>1, <2>2 DEF Meets
<1> QED BY <1>1, <1>2, <1>3

LEMMA OpensWell ==
  ASSUME NEW c \in Collectors, NEW d, NEW a \in Annotations, Opens(c, d, a),
         NEW p, a.form = FormOf(p), NEW l \in Int, l < a.line, Well(c, a.file, p, l)
  PROVE  Well(d, a.file, p, a.line)
<1> DEFINE f == a.file
           secs == c.closed[f]
           o == c.open
<1>1. /\ f \in Sources /\ a.line \in Int /\ secs \in Seq(Sections) /\ o \in Seq(Sections)
      /\ d.closed = c.closed
  BY Annotated, ExemptionsAssumption DEF Collectors, Opens, Lines
<1>2. Compatible(d.open)
  BY OpensCompatible DEF Well
<1>3. \A i \in 1..Len(secs) : secs[i].endLine \in Int /\ secs[i].line \in Int
  <2>1. ASSUME NEW t \in Sections PROVE t.endLine \in Int /\ t.line \in Int
    BY ExemptionsAssumption DEF Sections, Lines
  <2>2. \A i \in 1..Len(secs) : secs[i] \in Sections
    BY <1>1, ElementOfSeq
  <2> QED BY <2>1, <2>2
<1>4. \A k \in 1..Len(o) : o[k].line \in Int
  <2>1. ASSUME NEW t \in Sections PROVE t.line \in Int
    BY ExemptionsAssumption DEF Sections, Lines
  <2>2. \A k \in 1..Len(o) : o[k] \in Sections
    BY <1>1, ElementOfSeq
  <2> QED BY <2>1, <2>2
<1>5. /\ Rising(o) /\ Filed(secs, f) /\ Apart(o, secs, f) /\ Upto(o, secs, p, l)
  BY DEF Well
<1>6. \A i \in 1..Len(secs) :
        /\ secs[i].col = StartCol(FormOf(p)) =>
             /\ secs[i].endLine < a.line /\ secs[i].endLine <= a.line
             /\ secs[i].line < a.line /\ secs[i].line <= a.line
        /\ p = "pragmas" => secs[i].col = 2
  <2>1. \A i \in 1..Len(secs) :
          /\ secs[i].col = StartCol(FormOf(p)) => secs[i].line <= l /\ secs[i].endLine <= l
          /\ p = "pragmas" => secs[i].col = 2
    BY <1>5 DEF Upto
  <2>2. \A x \in Int : x <= l => x < a.line /\ x <= a.line
    BY <1>1
  <2> HIDE DEF secs
  <2> QED BY <1>3, <2>1, <2>2
<1>7. \A k \in 1..Len(o) :
        /\ o[k].col = StartCol(FormOf(p)) => o[k].line < a.line /\ o[k].line <= a.line
        /\ p = "pragmas" => o[k].col = 2
  BY <1>1, <1>4, <1>5 DEF Upto
<1>8. CASE d.open = o
  <2>1. Upto(o, secs, p, a.line)
    BY <1>6, <1>7 DEF Upto
  <2> QED BY <1>1, <1>2, <1>5, <1>8, <2>1 DEF Well
<1>9. CASE d.open # o
  <2> DEFINE s == Opened(a)
  <2>1. d.open = Append(o, s) /\ s \in Sections
    BY <1>9 DEF Opens
  <2>2. s.line = a.line /\ s.origin = f /\ s.col = StartCol(FormOf(p))
    BY DEF Opened
  <2>3. p = "pragmas" => s.col = 2
    BY <2>2 DEF FormOf, StartCol, Columns
  <2> HIDE DEF s, o, secs, f
  <2>4. /\ Len(d.open) = Len(o) + 1 /\ Len(o) \in Nat
        /\ \A k \in 1..Len(o) : d.open[k] = o[k]
        /\ d.open[Len(o) + 1] = s
    BY <1>1, <2>1
  <2>5. \A k \in 1..Len(d.open) : k \in 1..Len(o) \/ k = Len(o) + 1
    BY <2>4
  <2>6. ASSUME NEW i \in 1..Len(secs)
        PROVE  Clear(secs[i], s) /\ ~Meets(s, secs[i])
    BY <1>1, <1>3, <1>6, <2>2 DEF Clear, Meets
  <2>7. Apart(d.open, secs, f)
    <3>1. ASSUME NEW k \in 1..Len(d.open)
          PROVE  /\ d.open[k].origin = f
                 /\ \A i \in 1..Len(secs) : Clear(secs[i], d.open[k]) /\ ~Meets(d.open[k], secs[i])
      <4>1. CASE k \in 1..Len(o)
        BY <1>5, <2>4, <4>1 DEF Apart
      <4>2. CASE k = Len(o) + 1
        BY <2>2, <2>4, <2>6, <4>2
      <4> QED BY <2>5, <4>1, <4>2
    <3> QED BY <3>1 DEF Apart
  <2>8. Rising(d.open)
    <3>1. ASSUME NEW j \in 1..Len(d.open), NEW i \in 1..(j - 1),
                 d.open[i].col = d.open[j].col
          PROVE  d.open[i].line < d.open[j].line
      <4>1. i \in 1..Len(o) /\ d.open[i] = o[i]
        BY <2>4
      <4>2. CASE j \in 1..Len(o)
        BY <1>5, <2>4, <3>1, <4>1, <4>2 DEF Rising
      <4>3. CASE j = Len(o) + 1
        BY <1>7, <2>2, <2>4, <3>1, <4>1, <4>3
      <4> QED BY <2>5, <4>2, <4>3
    <3> QED BY <3>1 DEF Rising
  <2>9. Upto(d.open, secs, p, a.line)
    <3>1. ASSUME NEW k \in 1..Len(d.open)
          PROVE  /\ d.open[k].col = StartCol(FormOf(p)) => d.open[k].line <= a.line
                 /\ p = "pragmas" => d.open[k].col = 2
      <4>1. CASE k \in 1..Len(o)
        BY <1>7, <2>4, <4>1
      <4>2. CASE k = Len(o) + 1
        BY <1>1, <2>2, <2>3, <2>4, <4>2
      <4> QED BY <2>5, <4>1, <4>2
    <3> QED BY <1>6, <3>1 DEF Upto
  <2>10. d.closed[f] = secs
    BY <1>1 DEF secs
  <2> QED BY <1>2, <1>5, <2>7, <2>8, <2>9, <2>10 DEF Well, f
<1> QED BY <1>8, <1>9

LEMMA ClosesWell ==
  ASSUME NEW c \in Collectors, NEW d, NEW a \in Annotations, Closes(c, d, a),
         NEW p, a.form = FormOf(p), Well(c, a.file, p, a.line)
  PROVE  Well(d, a.file, p, a.line)
<1> DEFINE f == a.file
           l == a.line
           secs == c.closed[f]
           o == c.open
<1>1. /\ f \in Sources /\ l \in Int /\ secs \in Seq(Sections) /\ o \in Seq(Sections)
      /\ DOMAIN c.closed = Sources
  BY Annotated, ExemptionsAssumption DEF Collectors, Lines
<1>2. Compatible(d.open)
  BY ClosesCompatible DEF Well
<1>3. /\ Compatible(o) /\ Rising(o) /\ Filed(secs, f) /\ Apart(o, secs, f)
      /\ Upto(o, secs, p, l)
  BY DEF Well
<1>4. CASE d.open = o /\ d.closed = c.closed
  BY <1>2, <1>3, <1>4 DEF Well
<1>5. CASE ~(d.open = o /\ d.closed = c.closed)
  <2>1. PICK k \in 1..Len(o) :
          /\ ClosedAt(o[k], l, EndCol(a.form)) \in Sections
          /\ d.open = RemoveAt(o, k)
          /\ d.closed = [c.closed EXCEPT ![f] =
               Append(@, ClosedAt(o[k], l, EndCol(a.form)))]
    BY <1>5 DEF Closes
  <2> DEFINE s == ClosedAt(o[k], l, EndCol(a.form))
             new == d.closed[f]
  <2>2. o[k] \in Sections
    BY <1>1
  <2>3. /\ s.name = o[k].name /\ s.params = o[k].params /\ s.line = o[k].line
        /\ s.origin = o[k].origin /\ s.col = o[k].col /\ s.endLine = l
        /\ s.endCol = EndCol(a.form) /\ s \in Sections
    BY <2>1, <2>2 DEF ClosedAt, Sections
  <2>4. new = Append(secs, s)
    BY <1>1, <2>1
  <2>5. s.col \in {2, 4} /\ s.line \in Int
    BY <2>3, ExemptionsAssumption DEF Sections, Lines
  <2> HIDE DEF s, new
  <2>6. /\ Len(new) = Len(secs) + 1 /\ Len(secs) \in Nat
        /\ \A i \in 1..Len(secs) : new[i] = secs[i]
        /\ new[Len(secs) + 1] = s
    BY <1>1, <2>3, <2>4
  <2>7. \A i \in 1..Len(new) : i \in 1..Len(secs) \/ i = Len(secs) + 1
    BY <2>6
  \* The section as it is closed meets what the open one does.
  <2>8. \A t : (Meets(s, t) <=> Meets(o[k], t)) /\ (Meets(t, s) <=> Meets(t, o[k]))
    BY <2>3 DEF Meets, Share
  <2>9. /\ s.origin = f
        /\ \A i \in 1..Len(secs) : Clear(secs[i], s) /\ ~Meets(s, secs[i])
    <3>1. /\ o[k].origin = f
          /\ \A i \in 1..Len(secs) : Clear(secs[i], o[k]) /\ ~Meets(o[k], secs[i])
      BY <1>3 DEF Apart
    <3> QED BY <2>3, <2>8, <3>1 DEF Clear
  <2>10. Ended(s)
    <3>1. CASE s.col = StartCol(FormOf(p))
      <4>1. s.line <= l
        BY <1>3, <2>3, <3>1 DEF Upto
      <4> QED BY <2>3, <4>1 DEF Ended
    <3>2. CASE s.col # StartCol(FormOf(p))
      <4>1. p # "pragmas"
        BY <1>3, <2>3, <3>2 DEF Upto, StartCol, FormOf, Columns
      <4> QED BY <2>3, <2>5, <3>2, <4>1 DEF Ended, StartCol, EndCol, FormOf, Columns
    <3> QED BY <3>1, <3>2
  <2>11. Filed(new, f)
    <3>1. ASSUME NEW i \in 1..Len(new)
          PROVE  /\ new[i].origin = f /\ Ended(new[i])
                 /\ \A j \in 1..Len(new) : i # j => Clear(new[i], new[j])
      <4>1. CASE i \in 1..Len(secs)
        <5>1. /\ new[i] = secs[i] /\ secs[i].origin = f /\ Ended(secs[i])
              /\ \A j \in 1..Len(secs) : i # j => Clear(secs[i], secs[j])
          BY <1>3, <2>6, <4>1 DEF Filed
        <5> QED BY <2>6, <2>7, <2>9, <4>1, <5>1
      <4>2. CASE i = Len(secs) + 1
        <5>1. \A j \in 1..Len(secs) : Clear(s, secs[j])
          BY <2>9 DEF Clear
        <5> QED BY <2>6, <2>7, <2>9, <2>10, <4>2, <5>1
      <4> QED BY <2>7, <4>1, <4>2
    <3> QED BY <3>1 DEF Filed
  <2>12. /\ Len(d.open) = Len(o) - 1 /\ Len(o) \in Nat
         /\ \A i \in 1..(Len(o) - 1) : d.open[i] = IF i < k THEN o[i] ELSE o[i + 1]
    <3>1. d.open = RemoveAt(o, k) /\ o \in Seq(Sections)
      BY <1>1, <2>1
    <3> HIDE DEF o, f, l, secs
    <3>2. /\ Len(RemoveAt(o, k)) = Len(o) - 1
          /\ \A i \in 1..(Len(o) - 1) :
               RemoveAt(o, k)[i] = IF i < k THEN o[i] ELSE o[i + 1]
      BY <3>1, Removed
    <3>3. Len(o) \in Nat
      BY <3>1
    <3> QED BY <3>1, <3>2, <3>3
  <2>13. ASSUME NEW j \in 1..Len(d.open)
         PROVE  \E n \in 1..Len(o) : n # k /\ d.open[j] = o[n]
    <3>1. CASE j < k
      BY <2>12, <3>1
    <3>2. CASE ~(j < k)
      <4>1. j + 1 \in 1..Len(o) /\ j + 1 # k /\ d.open[j] = o[j + 1]
        BY <2>12, <3>2
      <4> QED BY <4>1
    <3> QED BY <3>1, <3>2
  <2>14. Apart(d.open, new, f)
    <3>1. ASSUME NEW j \in 1..Len(d.open)
          PROVE  /\ d.open[j].origin = f
                 /\ \A i \in 1..Len(new) : Clear(new[i], d.open[j]) /\ ~Meets(d.open[j], new[i])
      <4>1. PICK n \in 1..Len(o) : n # k /\ d.open[j] = o[n]
        BY <2>13
      <4>2. /\ o[n].origin = f
            /\ \A i \in 1..Len(secs) : Clear(secs[i], o[n]) /\ ~Meets(o[n], secs[i])
        BY <1>3 DEF Apart
      <4>3. ~Meets(o[k], o[n]) /\ ~Meets(o[n], o[k])
        BY <1>1, <1>3, <4>1, OpenApart
      <4>4. Clear(s, o[n]) /\ ~Meets(o[n], s)
        BY <2>8, <4>3 DEF Clear
      <4> QED BY <2>6, <2>7, <4>1, <4>2, <4>4
    <3> QED BY <3>1 DEF Apart
  <2>15. Rising(d.open)
    <3>1. ASSUME NEW j \in 1..Len(d.open), NEW i \in 1..(j - 1),
                 d.open[i].col = d.open[j].col
          PROVE  d.open[i].line < d.open[j].line
      <4> DEFINE n == IF j < k THEN j ELSE j + 1
                 m == IF i < k THEN i ELSE i + 1
      <4>1. /\ n \in 1..Len(o) /\ m \in 1..(n - 1)
            /\ i \in 1..(Len(o) - 1) /\ j \in 1..(Len(o) - 1)
        BY <2>12
      <4>2. d.open[j] = o[n] /\ d.open[i] = o[m]
        BY <2>12, <4>1
      <4> HIDE DEF n, m
      <4> QED BY <1>3, <3>1, <4>1, <4>2 DEF Rising
    <3> QED BY <3>1 DEF Rising
  <2>16. Upto(d.open, new, p, l)
    <3>1. ASSUME NEW i \in 1..Len(new)
          PROVE  /\ new[i].col = StartCol(FormOf(p)) => new[i].line <= l /\ new[i].endLine <= l
                 /\ p = "pragmas" => new[i].col = 2
      <4>1. CASE i \in 1..Len(secs)
        BY <1>3, <2>6, <4>1 DEF Upto
      <4>2. CASE i = Len(secs) + 1
        <5>1. /\ s.col = StartCol(FormOf(p)) => s.line <= l
              /\ p = "pragmas" => s.col = 2
          BY <1>3, <2>3 DEF Upto
        <5> QED BY <1>1, <2>3, <2>6, <4>2, <5>1
      <4> QED BY <2>7, <4>1, <4>2
    <3>2. ASSUME NEW j \in 1..Len(d.open)
          PROVE  /\ d.open[j].col = StartCol(FormOf(p)) => d.open[j].line <= l
                 /\ p = "pragmas" => d.open[j].col = 2
      <4>1. PICK n \in 1..Len(o) : d.open[j] = o[n]
        BY <2>13
      <4> QED BY <1>3, <4>1 DEF Upto
    <3> QED BY <3>1, <3>2 DEF Upto
  <2> QED BY <1>2, <2>11, <2>14, <2>15, <2>16 DEF Well, new
<1> QED BY <1>4, <1>5

-----------------------------------------------------------------------------
(* The scan of the sources *)

\* The annotations rd of source f are all of this form.
Only(rd, f, form) == \A k \in 1..Len(rd) : rd[k].file = f => rd[k].form = form

\* Raised(f), of the annotations rd.
Broken(rd, f) == \E k \in 1..Len(rd) : rd[k].file = f /\ Raises(rd[k])

\* The annotations read are those of the sources up to src, and of its pragmas
\* in the first pass.
Reading(rd, src, p) ==
  /\ \A k \in 1..Len(rd) : rd[k].file <= src
  /\ p = "pragmas" => Only(rd, src, "pragma")

\* Nothing is filed for the sources to come.
Ahead(c, src) == \A f \in Sources : f > src => c.closed[f] = <<>>

\* What is filed for the sources that have been scanned, and for the one that is
\* being scanned, unless the source before it has left it open sections.
Behind(c, rd, src) ==
  \A f \in Sources : f < src /\ ~Broken(rd, f - 1) => Filed(c.closed[f], f)
Here(c, rd, src, p, l) == src \in Sources /\ ~Broken(rd, src - 1) => Well(c, src, p, l)

Scan(c, rd, src, p, l) ==
  Reading(rd, src, p) /\ Ahead(c, src) /\ Behind(c, rd, src) /\ Here(c, rd, src, p, l)

\* What annotation a adds to the annotations rd.
Grows(rd, a, new) ==
  /\ \A k \in 1..Len(new) : (k \in 1..Len(rd) /\ new[k] = rd[k]) \/ new[k] = a
  /\ \A f : Broken(rd, f) => Broken(new, f)
  /\ Only(rd, a.file, a.form) => Only(new, a.file, a.form)
  /\ Raises(a) => Broken(new, a.file)

LEMMA Grown ==
  ASSUME NEW rd \in Seq(Annotations), NEW a \in Annotations
  PROVE  Grows(rd, a, Append(rd, a))
<1> DEFINE new == Append(rd, a)
<1>1. /\ Len(rd) \in Nat /\ Len(new) = Len(rd) + 1
      /\ \A k \in 1..Len(rd) : new[k] = rd[k]
      /\ new[Len(rd) + 1] = a
  OBVIOUS
<1> HIDE DEF new
<1>2. \A k \in 1..Len(new) : k \in 1..Len(rd) \/ k = Len(rd) + 1
  BY <1>1
<1>3. \A k \in 1..Len(rd) : k \in 1..Len(new)
  BY <1>1
<1>4. Len(rd) + 1 \in 1..Len(new)
  BY <1>1
<1>5. \A f : Broken(rd, f) => Broken(new, f)
  BY <1>1, <1>3 DEF Broken
<1>6. Only(rd, a.file, a.form) => Only(new, a.file, a.form)
  BY <1>1, <1>2 DEF Only
<1>7. Raises(a) => Broken(new, a.file)
  BY <1>1, <1>4 DEF Broken
<1>8. \A k \in 1..Len(new) : (k \in 1..Len(rd) /\ new[k] = rd[k]) \/ new[k] = a
  BY <1>1, <1>2
<1> QED BY <1>5, <1>6, <1>7, <1>8 DEF Grows, new

\* An annotation files sections for its own source only.
LEMMA OthersKept ==
  ASSUME NEW c \in Collectors, NEW d, NEW e, NEW a, Opens(c, d, a), Closes(d, e, a),
         NEW f \in Sources, f # a.file
  PROVE  e.closed[f] = c.closed[f]
<1>1. d.closed = c.closed /\ DOMAIN c.closed = Sources
  BY DEF Opens, Collectors
<1>2. e.closed[f] = d.closed[f]
  BY <1>1 DEF Closes
<1> QED BY <1>1, <1>2

LEMMA AnnotatesScan ==
  ASSUME TypeInv, Scan(Collector, read, sf, pass, line),
         NEW a, Annotates(a), sf \in Sources, a.form = FormOf(pass)
  PROVE  Scan(Collector', read', sf', pass', line')
<1> DEFINE c == Collector
           e == Collector'
           rd == read
           new == read'
<1>1. /\ a \in Annotations /\ rd \in Seq(Annotations) /\ new = Append(rd, a)
      /\ a.file = sf /\ sf' = sf /\ pass' = pass /\ line' = a.line
      /\ line \in Int /\ line < a.line /\ sf \in Int
  BY ExemptionsAssumption, Annotated DEF Annotates, Read, TypeInv, TypeOK, Sources, Lines
<1>2. PICK d \in Collectors : Opens(c, d, a) /\ Closes(d, e, a)
  BY AnnotatedCollector
<1>3. c \in Collectors /\ e \in Collectors
  BY CollectorType, AnnotatedCollector
<1>4. Scan(c, rd, sf, pass, line)
  OBVIOUS
<1> HIDE DEF c, e, rd, new
<1>5. /\ \A k \in 1..Len(new) : (k \in 1..Len(rd) /\ new[k] = rd[k]) \/ new[k] = a
      /\ \A f : Broken(rd, f) => Broken(new, f)
      /\ Only(rd, a.file, a.form) => Only(new, a.file, a.form)
  <2>1. Grows(rd, a, new)
    BY <1>1, Grown
  <2> QED BY <2>1 DEF Grows
<1>6. Reading(new, sf, pass)
  <2>1. \A k \in 1..Len(new) : new[k].file <= sf
    BY <1>1, <1>4, <1>5 DEF Scan, Reading
  <2>2. pass = "pragmas" => Only(new, sf, "pragma")
    BY <1>1, <1>4, <1>5 DEF Scan, Reading, FormOf
  <2> QED BY <2>1, <2>2 DEF Reading
<1>7. ASSUME NEW f \in Sources, f # sf
      PROVE  e.closed[f] = c.closed[f]
  <2>1. f # a.file
    BY <1>1, <1>7
  <2> QED BY <1>2, <1>3, <2>1, OthersKept
<1>8. Ahead(e, sf)
  <2>1. \A f \in Sources : f > sf => f # sf /\ c.closed[f] = <<>>
    BY <1>1, <1>4, ExemptionsAssumption DEF Scan, Ahead, Sources
  <2> QED BY <1>7, <2>1 DEF Ahead
<1>9. Behind(e, new, sf)
  BY <1>1, <1>4, <1>5, <1>7, ExemptionsAssumption DEF Scan, Behind, Sources
<1>10. Here(e, new, sf, pass, a.line)
  <2>1. ASSUME ~Broken(new, sf - 1)
        PROVE  Well(e, sf, pass, a.line)
    <3>1. Well(c, a.file, pass, line)
      BY <1>1, <1>4, <1>5, <2>1 DEF Scan, Here
    <3>2. Well(d, a.file, pass, a.line)
      BY <1>1, <1>2, <1>3, <3>1, OpensWell
    <3>3. Well(e, a.file, pass, a.line)
      BY <1>1, <1>2, <3>2, ClosesWell
    <3> QED BY <1>1, <3>3
  <2> QED BY <2>1 DEF Here
<1>11. Scan(e, new, sf, pass, a.line)
  BY <1>6, <1>8, <1>9, <1>10 DEF Scan
<1> QED BY <1>1, <1>11 DEF e, new

\* An exception ends the scan of the source.
LEMMA RaisesScan ==
  ASSUME TypeInv, Scan(Collector, read, sf, pass, line), pass = "pragmas",
         NEW a \in Annotations, a.file = sf, sf \in Sources, ScanRaises(a)
  PROVE  Scan(Collector', read', sf', pass', line')
<1> DEFINE c == Collector
           rd == read
           new == read'
<1>1. /\ rd \in Seq(Annotations) /\ new = Append(rd, a) /\ sf \in Int
      /\ sf' = sf + 1 /\ pass' = pass /\ Raises(a) /\ Collector' = c
  BY ExemptionsAssumption DEF ScanRaises, Read, TypeInv, TypeOK, Sources, Collector
<1>2. Scan(c, rd, sf, pass, line)
  OBVIOUS
<1> HIDE DEF c, rd, new
<1>3. Grows(rd, a, new)
  BY <1>1, Grown
<1>4. \A k \in 1..Len(new) : new[k].file <= sf
  BY <1>1, <1>2, <1>3 DEF Scan, Reading, Grows
<1>5. \A k \in 1..Len(new) : new[k] \in Annotations
  BY <1>1, ElementOfSeq
<1>6. Reading(new, sf + 1, pass)
  <2>1. \A k \in 1..Len(new) : new[k].file \in Int
    BY <1>5, Annotated, ExemptionsAssumption DEF Sources
  <2> QED BY <1>1, <1>4, <2>1 DEF Reading, Only
<1>7. Ahead(c, sf + 1)
  BY <1>1, <1>2, ExemptionsAssumption DEF Scan, Ahead, Sources
<1>8. Broken(new, sf) /\ (sf + 1) - 1 = sf
  BY <1>1, <1>3 DEF Grows
<1>9. Behind(c, new, sf + 1)
  <2>1. ASSUME NEW f \in Sources, f < sf + 1, ~Broken(new, f - 1)
        PROVE  Filed(c.closed[f], f)
    <3>1. f \in Int /\ (f < sf \/ f = sf)
      BY <1>1, <2>1, ExemptionsAssumption DEF Sources
    <3>2. ~Broken(rd, f - 1)
      BY <1>3, <2>1 DEF Grows
    <3> QED BY <1>2, <2>1, <3>1, <3>2 DEF Scan, Behind, Here, Well
  <2> QED BY <2>1 DEF Behind
<1>10. Here(c, new, sf + 1, pass, line')
  BY <1>8 DEF Here
<1>11. Scan(c, new, sf + 1, pass, line')
  BY <1>6, <1>7, <1>9, <1>10 DEF Scan
<1> QED BY <1>1, <1>11 DEF new

\* The comments are read from the first line again, but nothing was opened by
\* one.
LEMMA PragmasScan ==
  ASSUME TypeInv, Scan(Collector, read, sf, pass, line), EndOfPragmas
  PROVE  Scan(Collector', read', sf', pass', line')
<1> DEFINE c == Collector
<1>1. /\ Collector' = c /\ read' = read /\ sf' = sf /\ sf \in Sources
      /\ pass = "pragmas" /\ pass' = "comments"
  BY DEF EndOfPragmas, Collector
<1>2. Scan(c, read, sf, pass, line)
  OBVIOUS
<1> HIDE DEF c
<1>3. Reading(read, sf, "comments") /\ Ahead(c, sf) /\ Behind(c, read, sf)
  BY <1>2 DEF Scan, Reading
<1>4. ASSUME Upto(c.open, c.closed[sf], "pragmas", line)
      PROVE  Upto(c.open, c.closed[sf], "comments", line')
  <2>1. StartCol(FormOf("comments")) = 4
    BY DEF StartCol, FormOf, Columns
  <2> QED BY <1>4, <2>1 DEF Upto
<1>5. Here(c, read, sf, "comments", line')
  BY <1>1, <1>2, <1>4 DEF Scan, Here, Well
<1>6. Scan(c, read, sf, "comments", line')
  BY <1>3, <1>5 DEF Scan
<1> QED BY <1>1, <1>6

\* The end of a source closes what its annotations left open, beside what they
\* closed.
LEMMA AllFiled ==
  ASSUME TypeInv, sf \in Sources, Compatible(open), Rising(open),
         Filed(closed[sf], sf), Apart(open, closed[sf], sf)
  PROVE  Filed(CloseAll(sf), sf)
<1> DEFINE secs == closed[sf]
           all == CloseAll(sf)
           end(k) == ClosedAt(open[k], NumLines, Columns.comment)
<1>1. secs \in Seq(Sections) /\ open \in Seq(Sections)
  BY DEF TypeInv, TypeOK
<1>2. /\ Len(all) = Len(secs) + Len(open)
      /\ \A i \in 1..Len(all) :
           all[i] = IF i <= Len(secs) THEN secs[i] ELSE end(i - Len(secs))
  BY AllClosed DEF TypeInv
<1>3. \A k \in 1..Len(open) :
        /\ open[k].origin = sf
        /\ \A i \in 1..Len(secs) : Clear(secs[i], open[k]) /\ ~Meets(open[k], secs[i])
  BY DEF Apart
<1>4. Filed(secs, sf)
  OBVIOUS
<1>5. ASSUME NEW k \in 1..Len(open)
      PROVE  /\ end(k).name = open[k].name /\ end(k).params = open[k].params
             /\ end(k).line = open[k].line /\ end(k).origin = open[k].origin
             /\ end(k).col = open[k].col /\ Ended(end(k))
  <2>1. open[k] \in Sections
    BY <1>1, ElementOfSeq
  <2>2. open[k].line <= NumLines
    BY <2>1, ExemptionsAssumption DEF Sections, Lines
  <2>3. /\ end(k).name = open[k].name /\ end(k).params = open[k].params
        /\ end(k).line = open[k].line /\ end(k).origin = open[k].origin
        /\ end(k).col = open[k].col /\ end(k).endLine = NumLines
    BY <2>1 DEF ClosedAt, Sections
  <2> QED BY <2>2, <2>3 DEF Ended
<1> HIDE DEF secs, all, end
<1>6. \A k \in 1..Len(open) : \A t :
        (Meets(end(k), t) <=> Meets(open[k], t)) /\ (Meets(t, end(k)) <=> Meets(t, open[k]))
  BY <1>5 DEF Meets, Share
<1>7. Len(secs) \in Nat /\ Len(open) \in Nat
  BY <1>1
<1>8. ASSUME NEW i \in 1..Len(all)
      PROVE  \/ i \in 1..Len(secs) /\ all[i] = secs[i]
             \/ \E k \in 1..Len(open) : i = k + Len(secs) /\ all[i] = end(k)
  <2>1. CASE i <= Len(secs)
    BY <1>2, <1>7, <2>1
  <2>2. CASE ~(i <= Len(secs))
    <3>1. i - Len(secs) \in 1..Len(open) /\ i = (i - Len(secs)) + Len(secs)
      BY <1>2, <1>7, <2>2
    <3> QED BY <1>2, <2>2, <3>1
  <2> QED BY <2>1, <2>2
<1>9. ASSUME NEW k \in 1..Len(open), NEW m \in 1..Len(open), k # m
      PROVE  Clear(end(k), end(m))
  <2>1. ~Meets(open[k], open[m])
    BY <1>1, <1>9, OpenApart
  <2> QED BY <1>6, <2>1 DEF Clear
<1>10. ASSUME NEW i \in 1..Len(secs), NEW k \in 1..Len(open)
       PROVE  Clear(secs[i], end(k)) /\ Clear(end(k), secs[i])
  BY <1>3, <1>5, <1>6 DEF Clear
<1>11. ASSUME NEW i \in 1..Len(all)
       PROVE  /\ all[i].origin = sf /\ Ended(all[i])
              /\ \A j \in 1..Len(all) : i # j => Clear(all[i], all[j])
  <2>1. CASE i \in 1..Len(secs) /\ all[i] = secs[i]
    <3>1. /\ all[i].origin = sf /\ Ended(all[i])
          /\ \A j \in 1..Len(secs) : i # j => Clear(secs[i], secs[j])
      BY <1>4, <2>1 DEF Filed
    <3> QED BY <1>8, <1>10, <2>1, <3>1
  <2>2. ASSUME NEW k \in 1..Len(open), i = k + Len(secs), all[i] = end(k)
        PROVE  /\ all[i].origin = sf /\ Ended(all[i])
               /\ \A j \in 1..Len(all) : i # j => Clear(all[i], all[j])
    <3>1. all[i].origin = sf /\ Ended(all[i])
      BY <1>3, <1>5, <2>2
    <3>2. ASSUME NEW j \in 1..Len(all), i # j
          PROVE  Clear(all[i], all[j])
      <4>1. CASE j \in 1..Len(secs) /\ all[j] = secs[j]
        BY <1>10, <2>2, <4>1
      <4>2. ASSUME NEW m \in 1..Len(open), j = m + Len(secs), all[j] = end(m)
            PROVE  Clear(all[i], all[j])
        <5>1. k # m
          BY <2>2, <3>2, <4>2
        <5> QED BY <1>9, <2>2, <4>2, <5>1
      <4> QED BY <1>8, <4>1, <4>2
    <3> QED BY <3>1, <3>2
  <2> QED BY <1>8, <2>1, <2>2
<1>12. Filed(all, sf)
  BY <1>11 DEF Filed
<1> QED BY <1>12 DEF all

LEMMA SourceScan ==
  ASSUME TypeInv, Scan(Collector, read, sf, pass, line), EndOfSource
  PROVE  Scan(Collector', read', sf', pass', line')
<1> DEFINE c == Collector
           e == Collector'
<1>1. /\ e.open = <<>> /\ e.closed = [c.closed EXCEPT ![sf] = CloseAll(sf)]
      /\ c.open = open /\ c.closed = closed
      /\ read' = read /\ sf' = sf + 1 /\ pass' = "pragmas" /\ line' = 0
  BY DEF EndOfSource, Collector
<1>2. sf \in Sources /\ sf \in Int /\ DOMAIN c.closed = Sources
  BY <1>1, ExemptionsAssumption DEF EndOfSource, TypeInv, TypeOK, Sources
<1>3. Scan(c, read, sf, pass, line)
  OBVIOUS
<1>4. ASSUME Well(c, sf, pass, line)
      PROVE  Filed(CloseAll(sf), sf)
  BY <1>1, <1>2, <1>4, AllFiled DEF Well
<1> HIDE DEF c, e
<1>5. e.closed[sf] = CloseAll(sf) /\ \A f \in Sources : f # sf => e.closed[f] = c.closed[f]
  BY <1>1, <1>2
<1>6. \A f \in Sources : f \in Int
  BY ExemptionsAssumption DEF Sources
<1>7. \A k \in 1..Len(read) : read[k].file \in Int /\ read[k].file <= sf
  <2>1. read \in Seq(Annotations)
    BY DEF TypeInv, TypeOK
  <2>2. \A k \in 1..Len(read) : read[k] \in Annotations
    BY <2>1, ElementOfSeq
  <2>3. \A k \in 1..Len(read) : read[k].file \in Int
    BY <1>6, <2>2, Annotated
  <2> QED BY <1>3, <2>3 DEF Scan, Reading
<1>8. Reading(read, sf + 1, "pragmas")
  BY <1>2, <1>7 DEF Reading, Only
<1>9. Ahead(e, sf + 1)
  BY <1>2, <1>3, <1>5, <1>6 DEF Scan, Ahead
<1>10. Behind(e, read, sf + 1)
  <2>1. ASSUME NEW f \in Sources, f < sf + 1, ~Broken(read, f - 1)
        PROVE  Filed(e.closed[f], f)
    <3>1. CASE f = sf
      <4>1. Well(c, sf, pass, line)
        BY <1>2, <1>3, <2>1, <3>1 DEF Scan, Here
      <4> QED BY <1>4, <1>5, <3>1, <4>1
    <3>2. CASE f # sf
      <4>1. f < sf
        BY <1>2, <1>6, <2>1, <3>2
      <4> QED BY <1>3, <1>5, <2>1, <3>2, <4>1 DEF Scan, Behind
    <3> QED BY <3>1, <3>2
  <2> QED BY <2>1 DEF Behind
<1>11. Here(e, read, sf + 1, "pragmas", 0)
  <2>1. ASSUME sf + 1 \in Sources
        PROVE  e.open = <<>> /\ e.closed[sf + 1] = <<>>
    BY <1>1, <1>2, <1>3, <1>5, <2>1 DEF Scan, Ahead
  <2>2. ASSUME sf + 1 \in Sources
        PROVE  Well(e, sf + 1, "pragmas", 0)
    BY <2>1, <2>2 DEF Well, Compatible, Rising, Filed, Apart, Upto
  <2> QED BY <2>2 DEF Here
<1>12. Scan(e, read, sf + 1, "pragmas", 0)
  BY <1>8, <1>9, <1>10, <1>11 DEF Scan
<1> QED BY <1>1, <1>12 DEF e

\* Everything that keeps the sections well formed.
ScanInv ==
  TypeInv /\ Compatible(open) /\ Scan(Collector, read, sf, pass, line)

LEMMA NextScan == ScanInv /\ [Next]_vars => ScanInv'
<1> SUFFICES ASSUME ScanInv, [Next]_vars
             PROVE  Scan(Collector', read', sf', pass', line')
  BY NextTypes, NextCompatible DEF ScanInv
<1>1. TypeInv /\ Scan(Collector, read, sf, pass, line)
  BY DEF ScanInv
<1>2. CASE sf \in Sources /\ pass = "pragmas"
           /\ \E a \in Upcoming("pragma", Kinds \ {"line"}, SUBSET Params) :
                ReadPragma(a) \/ ScanRaises(a)
  BY <1>1, <1>2, AnnotatesPragma, AnnotatesScan, RaisesScan DEF FormOf
<1>3. CASE EndOfPragmas
  BY <1>1, <1>3, PragmasScan
<1>4. CASE pass = "comments"
           /\ \E a \in Upcoming("comment", Kinds \ {"wrong"}, {{}}) : ReadComment(a)
  <2>1. PICK a \in Upcoming("comment", Kinds \ {"wrong"}, {{}}) : ReadComment(a)
    BY <1>4
  <2>2. Annotates(a) /\ a.form = FormOf(pass)
    BY <1>1, <1>4, <2>1, AnnotatesComment DEF FormOf
  <2>3. sf \in Sources
    BY <1>1, <1>4 DEF TypeInv
  <2> QED BY <1>1, <1>4, <2>2, <2>3, AnnotatesScan
<1>5. CASE EndOfSource
  BY <1>1, <1>5, SourceScan
<1>6. CASE \E v \in Violations : MapDiagnostic(v)
  <2>1. /\ read' = read /\ sf' = sf /\ pass' = pass /\ line' = line
        /\ Collector' = Collector
    BY <1>6 DEF MapDiagnostic, Collector
  <2> QED BY <1>1, <2>1
<1>7. CASE WarnUnused
  <2>1. /\ read' = read /\ sf' = sf /\ pass' = "done" /\ line' = line
        /\ Collector'.open = Collector.open /\ Collector'.closed = Collector.closed
        /\ sf \notin Sources
    BY <1>7, ExemptionsAssumption DEF WarnUnused, Scanned, Collector, Sources
  <2> DEFINE e == Collector'
             c == Collector
  <2>2. Scan(c, read, sf, pass, line) /\ e.closed = c.closed
    BY <1>1, <2>1
  <2> HIDE DEF e, c
  <2>3. Scan(e, read, sf, "done", line)
    BY <2>1, <2>2 DEF Scan, Reading, Ahead, Behind, Here
  <2> QED BY <2>1, <2>3 DEF e
<1>8. CASE UNCHANGED vars
  <2>1. /\ read' = read /\ sf' = sf /\ pass' = pass /\ line' = line
        /\ Collector' = Collector
    BY <1>8 DEF vars, Collector
  <2> QED BY <1>1, <2>1
<1> QED BY <1>2, <1>3, <1>4, <1>5, <1>6, <1>7, <1>8 DEF Next, Terminated

LEMMA InitScan == Init => ScanInv
<1> SUFFICES ASSUME Init PROVE ScanInv
  OBVIOUS
<1>1. TypeInv /\ Compatible(open)
  BY InitTypes DEF Init, Compatible
<1>2. /\ sf = 1 /\ pass = "pragmas" /\ line = 0 /\ read = <<>> /\ open = <<>>
      /\ closed = [f \in Sources |-> <<>>]
  BY DEF Init
<1>3. Reading(read, sf, pass) /\ Ahead(Collector, sf)
  BY <1>2 DEF Reading, Only, Ahead, Collector
<1>4. \A f \in Sources : Collector.closed[f] = <<>>
  BY <1>2 DEF Collector
<1>5. Behind(Collector, read, sf)
  BY <1>4 DEF Behind, Filed
<1>6. Collector.open = <<>>
  BY <1>2 DEF Collector
<1>7. Here(Collector, read, sf, pass, line)
  BY <1>4, <1>6 DEF Here, Well, Compatible, Rising, Filed, Apart, Upto
<1> QED BY <1>1, <1>3, <1>5, <1>7 DEF ScanInv, Scan

\* What is filed for the source of a later pass, or of this one.
LEMMA ScanWellFormed == ScanInv => SectionsWellFormed
<1> SUFFICES ASSUME ScanInv, NEW f \in Sources, ~Raised(f - 1)
             PROVE  /\ Filed(closed[f], f)
                    /\ DOMAIN closed[f] = 1..Len(closed[f])
  BY DEF SectionsWellFormed, Filed, Ended, Clear, Meets, Columns
<1>1. TypeInv /\ Scan(Collector, read, sf, pass, line)
  BY DEF ScanInv
<1>2. /\ read \in Seq(Annotations) /\ closed[f] \in Seq(Sections)
      /\ sf \in Int /\ f \in Int
  BY <1>1, ExemptionsAssumption DEF TypeInv, TypeOK, Sources
<1>3. ~Broken(read, f - 1)
  BY <1>2 DEF Raised, Broken
<1>4. Collector.closed = closed
  BY DEF Collector
<1>5. CASE f < sf
  BY <1>1, <1>3, <1>4, <1>5 DEF Scan, Behind
<1>6. CASE f = sf
  BY <1>1, <1>3, <1>4, <1>6 DEF Scan, Here, Well
<1>7. CASE f > sf
  <2>1. closed[f] = <<>>
    BY <1>1, <1>4, <1>7 DEF Scan, Ahead
  <2> QED BY <1>2, <2>1 DEF Filed
<1> QED BY <1>2, <1>5, <1>6, <1>7

\* The postponed sections of a source are its own and end after they start, and
\* those that one pass opened for a name, or for a rule and an instance of it, do
\* not meet: for any sources that mix any pragmas and comments, and whatever
\* happened in any source but the one before.
THEOREM WellFormedSections == Spec => []SectionsWellFormed
<1> QED BY InitScan, NextScan, ScanWellFormed, PTL DEF Spec

-----------------------------------------------------------------------------
(* What the annotations say and what is made of them *)

Live(a) == ~Invalid(a) /\ ~Moot(a)
Opening(a) == a.kind \in {"on", "line"} /\ ~Moot(a)

\* Annotation a opens section s, annotation b closes it.
Starts(a, s) ==
  /\ a.kind \in {"on", "line"} /\ Live(a) /\ a.file = s.origin
  /\ a.line = s.line /\ StartCol(a.form) = s.col
  /\ a.name = s.name /\ Parsed(a) = s.params
Ends(b, s) ==
  /\ b.kind \in {"off", "line"} /\ b.file = s.origin
  /\ b.name = s.name /\ Parsed(b) = s.params

\* Annotation a was rejected, by the warnings said.
Refused(said, a) == Warning("rejected", a.file, At(a)) \in said

\* The warnings that annotation a adds are about itself.
Adds(said, more, a) ==
  /\ said \subseteq more
  /\ \A w \in more \ said : /\ w.why \in {"rejected", "parameters"}
                            /\ w.file = a.file /\ w.line = a.line
                            /\ w.col = StartCol(a.form)

\* The first half of Process_Exempt_Action: a section is opened, or the
\* annotation opens none, or is rejected.
TurnsOn(c, d, a) ==
  /\ d \in Collectors /\ Adds(c.warned, d.warned, a) /\ d.closed = c.closed
  /\ \/ d.open = c.open /\ (Opening(a) => Refused(d.warned, a))
     \/ /\ a.kind \in {"on", "line"} /\ Live(a) /\ Opened(a) \in Sections
        /\ d.open = Append(c.open, Opened(a))
        /\ \A i \in 1..Len(c.open) : ~Blocks(c.open[i], a.name, Parsed(a))
        /\ Refused(d.warned, a) => Refused(c.warned, a)

Matches(s, a) == s.name = a.name /\ s.params = Parsed(a)

\* The second half: a section that matches is closed.
TurnsOff(d, e, a) ==
  /\ e \in Collectors /\ Adds(d.warned, e.warned, a)
  /\ \/ /\ e.open = d.open /\ e.closed = d.closed
        /\ a.kind = "on" => e.warned = d.warned
        /\ a.kind \in {"off", "line"} /\ Live(a) =>
             \A k \in 1..Len(d.open) : ~Matches(d.open[k], a)
     \/ \E k \in 1..Len(d.open) :
          /\ a.kind \in {"off", "line"} /\ Matches(d.open[k], a)
          /\ ClosedAt(d.open[k], a.line, EndCol(a.form)) \in Sections
          /\ e.open = RemoveAt(d.open, k) /\ e.warned = d.warned
          /\ e.closed = [d.closed EXCEPT ![a.file] =
               Append(@, ClosedAt(d.open[k], a.line, EndCol(a.form)))]

LEMMA WarnAdds ==
  ASSUME NEW c \in Collectors, NEW a \in Annotations,
         NEW why \in {"rejected", "parameters"}
  PROVE  /\ Warn(c, why, a) \in Collectors
         /\ Warn(c, why, a).open = c.open /\ Warn(c, why, a).closed = c.closed
         /\ Adds(c.warned, Warn(c, why, a).warned, a)
         /\ why = "rejected" => Refused(Warn(c, why, a).warned, a)
         /\ why = "parameters" =>
              (Refused(Warn(c, why, a).warned, a) => Refused(c.warned, a))
<1>1. Warn(c, why, a).warned = c.warned \cup {Warning(why, a.file, At(a))}
  BY DEF Warn, Collectors
<1>2. Warning(why, a.file, At(a)).why = why
  BY DEF Warning
<1>3. /\ Warning(why, a.file, At(a)).file = a.file
      /\ Warning(why, a.file, At(a)).line = a.line
      /\ Warning(why, a.file, At(a)).col = StartCol(a.form)
  BY DEF Warning, At
<1>4. Warning("rejected", a.file, At(a)).why = "rejected"
  BY DEF Warning
<1> QED BY <1>1, <1>2, <1>3, <1>4, Warned DEF Adds, Refused

LEMMA TurnOnTold ==
  ASSUME NEW c \in Collectors, NEW a \in Annotations, Live(a), a.kind \in {"on", "line"}
  PROVE  TurnsOn(c, TurnOn(c, a), a)
<1> DEFINE blocked == AlreadyExempted(c, a)
<1>1. CASE blocked
  <2>1. TurnOn(c, a) = Warn(c, "rejected", a)
    BY <1>1 DEF TurnOn
  <2> QED BY <2>1, WarnAdds DEF TurnsOn
<1>2. CASE ~blocked
  <2>1. TurnOn(c, a) = [c EXCEPT !.open = Append(@, Opened(a))]
    BY <1>2 DEF TurnOn
  <2>2. Opened(a) \in Sections
    <3>1. a.name \in Known
      BY Annotated DEF Live, Invalid, Names
    <3> QED BY <3>1, Annotated, ExemptionsAssumption DEF Opened, Sections, Lines
  <2>3. c.open \in Seq(Sections)
    BY DEF Collectors
  <2>4. \A i \in 1..Len(c.open) : ~Blocks(c.open[i], a.name, Parsed(a))
    BY <1>2, <2>3, NoneBlocks
  <2>5. Append(c.open, Opened(a)) \in Seq(Sections)
    BY <2>2, <2>3
  <2>6. /\ TurnOn(c, a) \in Collectors /\ TurnOn(c, a).closed = c.closed
        /\ TurnOn(c, a).open = Append(c.open, Opened(a))
        /\ TurnOn(c, a).warned = c.warned
    BY <2>1, <2>5 DEF Collectors
  <2> QED BY <2>2, <2>4, <2>6 DEF TurnsOn, Adds
<1> QED BY <1>1, <1>2

LEMMA TurnOffTold ==
  ASSUME NEW d \in Collectors, NEW a \in Annotations, a.kind \in {"off", "line"}
  PROVE  TurnsOff(d, TurnOff(d, a), a)
<1> DEFINE match  == {k \in DOMAIN d.open : /\ d.open[k].name = a.name
                                            /\ d.open[k].params = Parsed(a)}
           off(k) == ClosedAt(d.open[k], a.line, EndCol(a.form))
<1>1. d.open \in Seq(Sections) /\ DOMAIN d.open = 1..Len(d.open)
  BY DEF Collectors
<1>2. CASE match = {}
  <2>1. TurnOff(d, a) = Warn(d, "rejected", a)
    BY <1>2 DEF TurnOff
  <2>2. \A k \in 1..Len(d.open) : ~Matches(d.open[k], a)
    BY <1>1, <1>2 DEF Matches
  <2> QED BY <2>1, <2>2, WarnAdds DEF TurnsOff
<1>3. CASE match # {}
  <2> DEFINE k == CHOOSE k \in match : TRUE
  <2>1. k \in match
    BY <1>3
  <2>2. TurnOff(d, a) =
          [d EXCEPT !.open = RemoveAt(@, k), !.closed[a.file] = Append(@, off(k))]
    BY <1>3 DEF TurnOff
  <2> HIDE DEF k
  <2>3. k \in 1..Len(d.open) /\ Matches(d.open[k], a)
    BY <1>1, <2>1 DEF Matches
  <2>4. off(k) \in Sections
    <3>1. d.open[k] \in Sections
      BY <1>1, <2>3
    <3>2. a.line \in 0..NumLines /\ EndCol(a.form) \in 0..4
      BY Annotated, ExemptionsAssumption DEF Lines
    <3> QED BY <3>1, <3>2 DEF ClosedAt, Sections
  <2>5. RemoveAt(d.open, k) \in Seq(Sections)
    BY <1>1, <2>3, Removed
  <2> HIDE DEF off
  <2> DEFINE o == RemoveAt(d.open, k)
             f == [d.closed EXCEPT ![a.file] = Append(@, off(k))]
  <2>6. f \in [Sources -> Seq(Sections)]
    BY <2>4, Annotated DEF Collectors
  <2>7. TurnOff(d, a) = [d EXCEPT !.open = o, !.closed = f]
    BY <2>2 DEF Collectors
  <2>8. o \in Seq(Sections)
    BY <2>5
  <2> HIDE DEF o, f
  <2>9. /\ TurnOff(d, a) \in Collectors /\ TurnOff(d, a).warned = d.warned
        /\ TurnOff(d, a).open = o /\ TurnOff(d, a).closed = f
    BY <2>6, <2>7, <2>8 DEF Collectors
  <2> QED BY <2>3, <2>4, <2>9 DEF TurnsOff, Adds, o, f, off
<1> QED BY <1>2, <1>3

LEMMA AddsMore ==
  ASSUME NEW x, NEW y, NEW z, NEW a, Adds(x, y, a), Adds(y, z, a)
  PROVE  Adds(x, z, a)
BY DEF Adds

LEMMA EffectTold ==
  ASSUME NEW c \in Collectors, NEW a \in Annotations
  PROVE  \E d : TurnsOn(c, d, a) /\ TurnsOff(d, Effect(c, a), a)
<1> DEFINE w == IF a.name \in Unknown \/ a.given \subseteq Allowed[Own(a.name)]
                THEN c ELSE Warn(c, "parameters", a)
<1>1. Effect(c, a) = Effects(w, a)
  BY DEF Effect
<1>2. /\ w \in Collectors /\ w.open = c.open /\ w.closed = c.closed
      /\ Adds(c.warned, w.warned, a) /\ (Refused(w.warned, a) => Refused(c.warned, a))
  BY WarnAdds DEF Adds
<1> HIDE DEF w
<1>3. a.kind \in {"on", "off", "line", "wrong"}
  BY Annotated
<1>4. CASE Invalid(a)
  <2>1. ASSUME NEW b \in Collectors, NEW kind
        PROVE  /\ ExemptAction(b, a, kind) \in Collectors
               /\ ExemptAction(b, a, kind).open = b.open
               /\ ExemptAction(b, a, kind).closed = b.closed
               /\ Adds(b.warned, ExemptAction(b, a, kind).warned, a)
               /\ Refused(ExemptAction(b, a, kind).warned, a)
    BY <1>4, WarnAdds DEF ExemptAction
  <2> DEFINE d == IF a.kind = "line" THEN ExemptAction(w, a, "on")
                  ELSE ExemptAction(w, a, a.kind)
             e == IF a.kind = "line" THEN ExemptAction(d, a, "off") ELSE d
  <2>2. Effect(c, a) = e
    BY <1>1 DEF Effects
  <2>3. /\ d \in Collectors /\ d.open = c.open /\ d.closed = c.closed
        /\ Adds(w.warned, d.warned, a) /\ Refused(d.warned, a)
    BY <1>2, <2>1
  <2> HIDE DEF d
  <2>4. /\ e \in Collectors /\ e.open = d.open /\ e.closed = d.closed
        /\ Adds(d.warned, e.warned, a)
        /\ a.kind = "on" => e.warned = d.warned
    BY <2>1, <2>3 DEF Adds
  <2> HIDE DEF e
  <2>5. TurnsOn(c, d, a)
    BY <1>2, <2>3, AddsMore DEF TurnsOn
  <2>6. TurnsOff(d, e, a)
    BY <1>4, <2>4 DEF TurnsOff, Live
  <2> QED BY <2>2, <2>5, <2>6
<1>5. CASE ~Invalid(a) /\ Moot(a)
  <2>1. \A b, kind : ExemptAction(b, a, kind) = b
    BY <1>5 DEF ExemptAction
  <2>2. Effect(c, a) = w
    BY <1>1, <2>1 DEF Effects
  <2>3. TurnsOn(c, w, a)
    BY <1>2, <1>5 DEF TurnsOn, Opening
  <2>4. TurnsOff(w, w, a)
    BY <1>2, <1>5 DEF TurnsOff, Live, Adds
  <2> QED BY <2>2, <2>3, <2>4
<1>6. CASE Live(a)
  <2>1. \A b : /\ ExemptAction(b, a, "on") = TurnOn(b, a)
               /\ ExemptAction(b, a, "off") = TurnOff(b, a)
    BY <1>6 DEF ExemptAction, Live
  <2>2. a.kind \in {"on", "off", "line"}
    BY <1>3, <1>6 DEF Live, Invalid
  <2>3. ASSUME NEW d, TurnsOn(w, d, a)
        PROVE  TurnsOn(c, d, a)
    BY <1>2, <2>3, AddsMore DEF TurnsOn
  <2>4. CASE a.kind = "on"
    <3>1. Effect(c, a) = TurnOn(w, a)
      BY <1>1, <2>1, <2>4 DEF Effects
    <3>2. TurnsOn(c, TurnOn(w, a), a)
      BY <1>2, <1>6, <2>3, <2>4, TurnOnTold
    <3>3. TurnsOff(TurnOn(w, a), TurnOn(w, a), a)
      BY <2>4, <3>2 DEF TurnsOff, TurnsOn, Adds
    <3> QED BY <3>1, <3>2, <3>3
  <2>5. CASE a.kind = "off"
    <3>1. Effect(c, a) = TurnOff(w, a)
      BY <1>1, <2>1, <2>5 DEF Effects
    <3>2. TurnsOn(c, w, a)
      BY <1>2, <2>5 DEF TurnsOn, Opening
    <3>3. TurnsOff(w, TurnOff(w, a), a)
      BY <1>2, <2>5, TurnOffTold
    <3> QED BY <3>1, <3>2, <3>3
  <2>6. CASE a.kind = "line"
    <3>1. Effect(c, a) = TurnOff(TurnOn(w, a), a)
      BY <1>1, <2>1, <2>6 DEF Effects
    <3>2. TurnsOn(c, TurnOn(w, a), a)
      BY <1>2, <1>6, <2>3, <2>6, TurnOnTold
    <3>3. TurnsOff(TurnOn(w, a), TurnOff(TurnOn(w, a), a), a)
      BY <2>6, <3>2, TurnOffTold DEF TurnsOn
    <3> QED BY <3>1, <3>2, <3>3
  <2> QED BY <2>2, <2>4, <2>5, <2>6
<1> QED BY <1>4, <1>5, <1>6 DEF Live

-----------------------------------------------------------------------------
(* The annotation of every section *)

\* Annotation i of rd has opened section s.
Begins(said, rd, s, i) == Starts(rd[i], s) /\ ~Refused(said, rd[i])

\* None of the annotations up to n has closed it.
Standing(said, rd, s, n) ==
  \E i \in 1..Len(rd) :
    Begins(said, rd, s, i) /\ \A k \in i..n : ~Ends(rd[k], s)

\* It was closed by the first that could.
ClosedBy(rd, s, i, j) ==
  /\ Ends(rd[j], s) /\ s.endLine = rd[j].line /\ s.endCol = EndCol(rd[j].form)
  /\ \A k \in i..(j - 1) : ~Ends(rd[k], s)
Shut(said, rd, s) ==
  \E i \in 1..Len(rd) :
    Begins(said, rd, s, i) /\ \E j \in i..Len(rd) : ClosedBy(rd, s, i, j)

\* Or at the end of the source.
Left(said, rd, s) ==
  /\ s.endLine = NumLines /\ s.endCol = Columns.comment
  /\ Standing(said, rd, s, Len(rd))

\* What opens a section and is not rejected has one.
Answered(o, secs, said, rd, f) ==
  \A i \in 1..Len(rd) :
    rd[i].file = f /\ Opening(rd[i]) /\ ~Refused(said, rd[i]) =>
      \/ \E k \in 1..Len(o) : Starts(rd[i], o[k])
      \/ \E m \in 1..Len(secs) : Starts(rd[i], secs[m])

\* The open and the postponed sections of source f while it is scanned, of whose
\* annotations n may have closed a section, and afterwards.
During(o, secs, said, rd, f, n) ==
  /\ \A k \in 1..Len(o) : o[k].origin = f /\ Standing(said, rd, o[k], n)
  /\ \A m \in 1..Len(secs) : secs[m].origin = f /\ Shut(said, rd, secs[m])
  /\ Answered(o, secs, said, rd, f)
Marked(secs, said, rd, f) ==
  \A m \in 1..Len(secs) :
    secs[m].origin = f /\ (Shut(said, rd, secs[m]) \/ Left(said, rd, secs[m]))

\* No two sections start at one place.
SameStart(s, t) == s.line = t.line /\ s.col = t.col
Distinct(o, secs) ==
  /\ \A k \in 1..Len(o) : \A m \in 1..Len(o) : SameStart(o[k], o[m]) => k = m
  /\ \A k \in 1..Len(secs) : \A m \in 1..Len(secs) : SameStart(secs[k], secs[m]) => k = m
  /\ \A k \in 1..Len(o) : \A m \in 1..Len(secs) : ~SameStart(o[k], secs[m])

\* The end of a section does not matter to the annotation that opens it.
LEMMA EndsAside ==
  ASSUME NEW s \in Sections, NEW l, NEW col
  PROVE  LET t == ClosedAt(s, l, col) IN
         /\ t.origin = s.origin /\ t.line = s.line /\ t.col = s.col
         /\ t.name = s.name /\ t.params = s.params
         /\ t.endLine = l /\ t.endCol = col
         /\ \A a : Starts(a, t) <=> Starts(a, s)
         /\ \A a : Ends(a, t) <=> Ends(a, s)
<1> DEFINE t == ClosedAt(s, l, col)
<1>1. /\ t.origin = s.origin /\ t.line = s.line /\ t.col = s.col
      /\ t.name = s.name /\ t.params = s.params
      /\ t.endLine = l /\ t.endCol = col
  BY DEF ClosedAt, Sections
<1> HIDE DEF t
<1>2. \A a : Starts(a, t) <=> Starts(a, s)
  BY <1>1 DEF Starts
<1>3. \A a : Ends(a, t) <=> Ends(a, s)
  BY <1>1 DEF Ends
<1> QED BY <1>1, <1>2, <1>3 DEF t

\* One more annotation: rd is a prefix of new, and a is its last.
Extends(rd, new, a) ==
  /\ Len(rd) \in Nat /\ Len(new) = Len(rd) + 1
  /\ \A k \in 1..Len(rd) : new[k] = rd[k]
  /\ new[Len(rd) + 1] = a

LEMMA AppendExtends ==
  ASSUME NEW S, NEW rd \in Seq(S), NEW a \in S
  PROVE  Extends(rd, Append(rd, a), a)
BY DEF Extends

\* It is read at a place of its own.
FreshAt(rd, a) ==
  \A k \in 1..Len(rd) :
    rd[k].file = a.file => rd[k].line # a.line \/ StartCol(rd[k].form) # StartCol(a.form)

LEMMA StillAccepted ==
  ASSUME NEW rd, NEW a, NEW said, NEW more, Adds(said, more, a),
         NEW k \in 1..Len(rd), FreshAt(rd, a) \/ rd[k].file # a.file
  PROVE  Refused(more, rd[k]) <=> Refused(said, rd[k])
<1>1. /\ Warning("rejected", rd[k].file, At(rd[k])).file = rd[k].file
      /\ Warning("rejected", rd[k].file, At(rd[k])).line = rd[k].line
      /\ Warning("rejected", rd[k].file, At(rd[k])).col = StartCol(rd[k].form)
  BY DEF Warning, At
<1> QED BY <1>1 DEF Refused, Adds, FreshAt

LEMMA StillBegun ==
  ASSUME NEW rd, NEW new, NEW a, Extends(rd, new, a), NEW said, NEW more,
         Adds(said, more, a), NEW s, FreshAt(rd, a) \/ s.origin # a.file,
         NEW i \in 1..Len(rd), Begins(said, rd, s, i)
  PROVE  i \in 1..Len(new) /\ Begins(more, new, s, i)
<1>1. new[i] = rd[i] /\ i \in 1..Len(new)
  BY DEF Extends
<1>2. rd[i].file = s.origin
  BY DEF Begins, Starts
<1> QED BY <1>1, <1>2, StillAccepted DEF Begins

LEMMA StillShut ==
  ASSUME NEW rd, NEW new, NEW a, Extends(rd, new, a), NEW said, NEW more,
         Adds(said, more, a), NEW s, FreshAt(rd, a) \/ s.origin # a.file,
         Shut(said, rd, s)
  PROVE  Shut(more, new, s)
<1>1. PICK i \in 1..Len(rd) :
        Begins(said, rd, s, i) /\ \E j \in i..Len(rd) : ClosedBy(rd, s, i, j)
  BY DEF Shut
<1>2. PICK j \in i..Len(rd) : ClosedBy(rd, s, i, j)
  BY <1>1
<1>3. i \in 1..Len(new) /\ Begins(more, new, s, i)
  BY <1>1, StillBegun
<1>4. /\ j \in i..Len(new) /\ new[j] = rd[j]
      /\ \A k \in i..(j - 1) : new[k] = rd[k]
  BY DEF Extends
<1>5. ClosedBy(new, s, i, j)
  BY <1>2, <1>4 DEF ClosedBy
<1> QED BY <1>3, <1>4, <1>5 DEF Shut

LEMMA StillStanding ==
  ASSUME NEW rd, NEW new, NEW a, Extends(rd, new, a), NEW said, NEW more,
         Adds(said, more, a), NEW s, FreshAt(rd, a) \/ s.origin # a.file,
         Standing(said, rd, s, Len(rd))
  PROVE  /\ Standing(more, new, s, Len(rd))
         /\ ~Ends(a, s) => Standing(more, new, s, Len(new))
<1>1. PICK i \in 1..Len(rd) :
        Begins(said, rd, s, i) /\ \A k \in i..Len(rd) : ~Ends(rd[k], s)
  BY DEF Standing
<1>2. i \in 1..Len(new) /\ Begins(more, new, s, i)
  BY <1>1, StillBegun
<1>3. \A k \in i..Len(rd) : new[k] = rd[k]
  BY DEF Extends
<1>4. \A k \in i..Len(new) : k \in i..Len(rd) \/ new[k] = a
  BY DEF Extends
<1> QED BY <1>1, <1>2, <1>3, <1>4 DEF Standing

\* The annotations of one source are nothing to the sections of another.
LEMMA OthersMarked ==
  ASSUME NEW rd, NEW new, NEW a, Extends(rd, new, a), NEW said, NEW more,
         Adds(said, more, a), NEW f, f # a.file, NEW secs, Marked(secs, said, rd, f)
  PROVE  Marked(secs, more, new, f)
<1>1. ASSUME NEW m \in 1..Len(secs)
      PROVE  /\ secs[m].origin = f
             /\ Shut(more, new, secs[m]) \/ Left(more, new, secs[m])
  <2>1. secs[m].origin = f
    BY DEF Marked
  <2>2. CASE Shut(said, rd, secs[m])
    BY <2>1, <2>2, StillShut
  <2>3. CASE Left(said, rd, secs[m])
    <3>1. ~Ends(a, secs[m])
      BY <2>1 DEF Ends
    <3> QED BY <2>1, <2>3, <3>1, StillStanding DEF Left
  <2> QED BY <2>1, <2>2, <2>3 DEF Marked
<1> QED BY <1>1 DEF Marked

LEMMA OthersAnswered ==
  ASSUME NEW rd, NEW new, NEW a, Extends(rd, new, a), NEW said, NEW more,
         Adds(said, more, a), NEW f, f # a.file, NEW secs,
         Answered(<<>>, secs, said, rd, f)
  PROVE  Answered(<<>>, secs, more, new, f)
<1>1. ASSUME NEW i \in 1..Len(new), new[i].file = f, Opening(new[i]),
             ~Refused(more, new[i])
      PROVE  \E m \in 1..Len(secs) : Starts(new[i], secs[m])
  <2>1. i \in 1..Len(rd) /\ new[i] = rd[i]
    BY <1>1 DEF Extends
  <2>2. ~Refused(said, rd[i])
    BY <1>1, <2>1, StillAccepted
  <2> QED BY <1>1, <2>1, <2>2 DEF Answered
<1> QED BY <1>1 DEF Answered

\* After the first half: the open sections are those that were open, and the one
\* that a opens.
LEMMA OnSections ==
  ASSUME NEW rd, NEW new, NEW a \in Annotations, Extends(rd, new, a), FreshAt(rd, a),
         NEW c \in Collectors, NEW d, TurnsOn(c, d, a), ~Refused(c.warned, a),
         During(c.open, c.closed[a.file], c.warned, rd, a.file, Len(rd)),
         Distinct(c.open, c.closed[a.file])
  PROVE  /\ \A k \in 1..Len(d.open) :
              /\ d.open[k] \in Sections
              /\ d.open[k].origin = a.file
              /\ \/ Standing(c.warned, rd, d.open[k], Len(rd))
                 \/ Starts(a, d.open[k]) /\ ~Refused(d.warned, a)
         /\ Distinct(d.open, c.closed[a.file])
         /\ \A k \in 1..Len(c.open) : k \in 1..Len(d.open) /\ d.open[k] = c.open[k]
         /\ Opening(a) /\ ~Refused(d.warned, a) =>
              \E k \in 1..Len(d.open) : Starts(a, d.open[k])
<1>1. c.open \in Seq(Sections) /\ Len(c.open) \in Nat
  BY DEF Collectors
<1>2. \A k \in 1..Len(c.open) :
        c.open[k] \in Sections /\ c.open[k].origin = a.file
          /\ Standing(c.warned, rd, c.open[k], Len(rd))
  BY <1>1, ElementOfSeq DEF During
<1>3. CASE d.open = c.open /\ (Opening(a) => Refused(d.warned, a))
  BY <1>2, <1>3
<1>4. CASE /\ a.kind \in {"on", "line"} /\ Live(a) /\ Opened(a) \in Sections
           /\ d.open = Append(c.open, Opened(a))
           /\ (Refused(d.warned, a) => Refused(c.warned, a))
  <2> DEFINE s == Opened(a)
  <2>1. /\ s \in Sections /\ s.origin = a.file /\ s.line = a.line
        /\ s.col = StartCol(a.form) /\ s.name = a.name /\ s.params = Parsed(a)
    BY <1>4 DEF Opened
  <2>2. /\ Len(d.open) = Len(c.open) + 1 /\ d.open[Len(c.open) + 1] = s
        /\ \A k \in 1..Len(c.open) : d.open[k] = c.open[k]
    BY <1>1, <1>4
  <2> HIDE DEF s
  <2>3. Starts(a, s) /\ ~Refused(d.warned, a)
    BY <1>4, <2>1 DEF Starts
  <2>4. \A k \in 1..Len(d.open) : k \in 1..Len(c.open) \/ k = Len(c.open) + 1
    BY <1>1, <2>2
  <2>5. Len(c.open) + 1 \in 1..Len(d.open)
    BY <1>1, <2>2
  <2>6. ASSUME NEW t, NEW i \in 1..Len(rd), Starts(rd[i], t), t.origin = a.file
        PROVE  ~SameStart(s, t) /\ ~SameStart(t, s)
    BY <2>1, <2>6 DEF FreshAt, Starts, SameStart
  <2>7. \A k \in 1..Len(c.open) : ~SameStart(s, c.open[k]) /\ ~SameStart(c.open[k], s)
    BY <1>2, <2>6 DEF Standing, Begins
  <2>8. \A m \in 1..Len(c.closed[a.file]) : ~SameStart(s, c.closed[a.file][m])
    BY <2>6 DEF During, Shut, Begins
  <2>9. Distinct(d.open, c.closed[a.file])
    <3> DEFINE secs == c.closed[a.file]
               o == d.open
    <3>1. \A k \in 1..Len(o) : \A m \in 1..Len(o) : SameStart(o[k], o[m]) => k = m
      BY <2>2, <2>4, <2>7 DEF Distinct
    <3>2. \A k \in 1..Len(o) : \A m \in 1..Len(secs) : ~SameStart(o[k], secs[m])
      BY <2>2, <2>4, <2>8 DEF Distinct
    <3> QED BY <3>1, <3>2 DEF Distinct
  <2>10. \A k \in 1..Len(c.open) : k \in 1..Len(d.open)
    BY <1>1, <2>2
  <2> QED BY <1>2, <2>1, <2>2, <2>3, <2>4, <2>5, <2>9, <2>10
<1> QED BY <1>3, <1>4 DEF TurnsOn

\* Section k of those open in d is closed, as t, and filed in e.
Moves(d, e, f, k, t) ==
  LET old  == d.closed[f]
      secs == e.closed[f]
  IN /\ \A i \in 1..Len(e.open) : \E j \in 1..Len(d.open) :
          j # k /\ e.open[i] = d.open[j] /\ j = IF i < k THEN i ELSE i + 1
     /\ \A j \in 1..Len(d.open) : j # k =>
          \E i \in 1..Len(e.open) : e.open[i] = d.open[j]
     /\ \A m \in 1..Len(secs) :
          (m \in 1..Len(old) /\ secs[m] = old[m]) \/ (m = Len(old) + 1 /\ secs[m] = t)
     /\ \A m \in 1..Len(old) : m \in 1..Len(secs) /\ secs[m] = old[m]
     /\ Len(old) \in Nat /\ Len(old) + 1 \in 1..Len(secs) /\ secs[Len(old) + 1] = t

LEMMA OffMoves ==
  ASSUME NEW d \in Collectors, NEW e, NEW a \in Annotations,
         NEW k \in 1..Len(d.open), NEW t \in Sections,
         e.open = RemoveAt(d.open, k),
         e.closed = [d.closed EXCEPT ![a.file] = Append(@, t)]
  PROVE  Moves(d, e, a.file, k, t)
<1> DEFINE old == d.closed[a.file]
           secs == e.closed[a.file]
<1>1. d.open \in Seq(Sections) /\ old \in Seq(Sections) /\ a.file \in DOMAIN d.closed
  BY Annotated DEF Collectors
<1>2. secs = Append(old, t)
  BY <1>1
<1>3. /\ Len(old) \in Nat /\ Len(secs) = Len(old) + 1 /\ secs[Len(old) + 1] = t
      /\ \A m \in 1..Len(old) : secs[m] = old[m]
  BY <1>1, <1>2
<1> HIDE DEF old, secs
<1>4. /\ Len(d.open) \in Nat /\ Len(e.open) = Len(d.open) - 1
      /\ \A i \in 1..(Len(d.open) - 1) :
           e.open[i] = IF i < k THEN d.open[i] ELSE d.open[i + 1]
  <2> DEFINE o == d.open
             p == RemoveAt(o, k)
  <2>1. o \in Seq(Sections) /\ k \in 1..Len(o) /\ p = e.open
    BY <1>1
  <2> HIDE DEF o
  <2>2. /\ Len(p) = Len(o) - 1
        /\ \A i \in 1..(Len(o) - 1) : p[i] = IF i < k THEN o[i] ELSE o[i + 1]
    BY <2>1, Removed
  <2>3. Len(o) \in Nat
    BY <2>1
  <2> HIDE DEF p
  <2> QED BY <2>1, <2>2, <2>3 DEF o
<1>5. ASSUME NEW i \in 1..Len(e.open)
      PROVE  \E j \in 1..Len(d.open) :
               j # k /\ e.open[i] = d.open[j] /\ j = IF i < k THEN i ELSE i + 1
  <2>1. CASE i < k
    <3>1. i \in 1..Len(d.open) /\ i # k
      BY <1>4, <2>1
    <3> QED BY <1>4, <2>1, <3>1
  <2>2. CASE ~(i < k)
    <3>1. i + 1 \in 1..Len(d.open) /\ i + 1 # k
      BY <1>4, <2>2
    <3> QED BY <1>4, <2>2, <3>1
  <2> QED BY <2>1, <2>2
<1>6. ASSUME NEW j \in 1..Len(d.open), j # k
      PROVE  \E i \in 1..Len(e.open) : e.open[i] = d.open[j]
  <2>1. CASE j < k
    <3>1. j \in 1..Len(e.open)
      BY <1>4, <2>1
    <3> QED BY <1>4, <2>1, <3>1
  <2>2. CASE ~(j < k)
    <3>1. j - 1 \in 1..Len(e.open) /\ ~(j - 1 < k) /\ (j - 1) + 1 = j
      BY <1>4, <1>6, <2>2
    <3> QED BY <1>4, <3>1
  <2> QED BY <2>1, <2>2
<1>7. \A m \in 1..Len(secs) : m \in 1..Len(old) \/ m = Len(old) + 1
  BY <1>3
<1>8. /\ \A m \in 1..Len(old) : m \in 1..Len(secs)
      /\ Len(old) + 1 \in 1..Len(secs)
  BY <1>3
<1> QED BY <1>3, <1>5, <1>6, <1>7, <1>8 DEF Moves, old, secs

\* An annotation that ends a section is as live as the one that began it.
LEMMA LiveAlike ==
  ASSUME NEW a, NEW b, NEW s, Starts(a, s), Ends(b, s)
  PROVE  Live(b)
<1>1. a.name = b.name /\ Parsed(a) = Parsed(b) /\ Live(a) /\ b.kind # "wrong"
  BY DEF Starts, Ends
<1> QED BY <1>1 DEF Live, Invalid, Moot

\* No two open sections match one annotation.
LEMMA OneMatch ==
  ASSUME NEW o \in Seq(Sections), Compatible(o), NEW a,
         NEW j \in 1..Len(o), NEW k \in 1..Len(o), Matches(o[j], a), Matches(o[k], a)
  PROVE  j = k
<1>1. o[j].name = o[k].name /\ Share(o[j], o[k]) /\ Share(o[k], o[j])
  <2>1. o[j].params = o[k].params /\ o[j].name = o[k].name
    BY DEF Matches
  <2> QED BY <2>1 DEF Share
<1>2. CASE j < k
  <2>1. j \in 1..(k - 1)
    BY <1>2
  <2> QED BY <1>1, <2>1 DEF Compatible
<1>3. CASE k < j
  <2>1. k \in 1..(j - 1)
    BY <1>3
  <2> QED BY <1>1, <2>1 DEF Compatible
<1> QED BY <1>2, <1>3

\* An annotation of the source that is being scanned.
LEMMA AnnotatesDuring ==
  ASSUME NEW rd, NEW new, NEW a \in Annotations, Extends(rd, new, a), FreshAt(rd, a),
         NEW c \in Collectors, NEW d, NEW e, TurnsOn(c, d, a), TurnsOff(d, e, a),
         Compatible(d.open), ~Refused(c.warned, a),
         During(c.open, c.closed[a.file], c.warned, rd, a.file, Len(rd)),
         Distinct(c.open, c.closed[a.file])
  PROVE  /\ During(e.open, e.closed[a.file], e.warned, new, a.file, Len(new))
         /\ Distinct(e.open, e.closed[a.file])
<1> DEFINE f == a.file
           old == c.closed[f]
           secs == e.closed[f]
<1>1. /\ d \in Collectors /\ d.closed = c.closed /\ d.open \in Seq(Sections)
      /\ Adds(c.warned, e.warned, a)
  BY AddsMore DEF TurnsOn, TurnsOff, Collectors
<1>2. /\ \A k \in 1..Len(d.open) :
           /\ d.open[k] \in Sections
           /\ d.open[k].origin = f
           /\ \/ Standing(c.warned, rd, d.open[k], Len(rd))
              \/ Starts(a, d.open[k]) /\ ~Refused(d.warned, a)
      /\ Distinct(d.open, old)
      /\ \A k \in 1..Len(c.open) : k \in 1..Len(d.open) /\ d.open[k] = c.open[k]
      /\ Opening(a) /\ ~Refused(d.warned, a) => \E k \in 1..Len(d.open) : Starts(a, d.open[k])
  BY OnSections
<1>3. \A m \in 1..Len(old) : old[m].origin = f /\ Shut(e.warned, new, old[m])
  BY <1>1, StillShut DEF During
<1>4. \A k \in 1..Len(d.open) : Starts(a, d.open[k]) => Matches(d.open[k], a) /\ Live(a)
  BY DEF Starts, Matches
<1>5. ASSUME NEW k \in 1..Len(d.open), Ends(a, d.open[k])
      PROVE  Live(a) /\ Matches(d.open[k], a) /\ a.kind \in {"off", "line"}
  <2>1. \E b : Starts(b, d.open[k])
    BY <1>2 DEF Standing, Begins
  <2> QED BY <1>5, <2>1, LiveAlike DEF Ends, Matches
<1>6. ASSUME NEW k \in 1..Len(d.open), Starts(a, d.open[k])
      PROVE  e.warned = d.warned
  <2>1. a.kind \in {"on", "line"}
    BY <1>6 DEF Starts
  <2> QED BY <1>4, <1>6, <2>1 DEF TurnsOff
<1>7. /\ Len(rd) \in Nat /\ Len(new) = Len(rd) + 1 /\ Len(new) \in 1..Len(new)
      /\ new[Len(new)] = a /\ \A i \in 1..Len(rd) : new[i] = rd[i] /\ i \in 1..Len(new)
  BY DEF Extends
<1>8. ASSUME NEW k \in 1..Len(d.open)
      PROVE  /\ Standing(e.warned, new, d.open[k], Len(rd))
             /\ ~Ends(a, d.open[k]) => Standing(e.warned, new, d.open[k], Len(new))
  <2>1. CASE Standing(c.warned, rd, d.open[k], Len(rd))
    BY <1>1, <2>1, StillStanding
  <2>2. CASE Starts(a, d.open[k]) /\ ~Refused(d.warned, a)
    <3>1. Begins(e.warned, new, d.open[k], Len(new))
      BY <1>6, <1>7, <2>2 DEF Begins
    <3>2. Len(new)..Len(rd) = {}
      BY <1>7
    <3>3. \A j \in Len(new)..Len(new) : new[j] = a
      BY <1>7
    <3> QED BY <1>7, <3>1, <3>2, <3>3 DEF Standing
  <2> QED BY <1>2, <2>1, <2>2
\* What was opened, accepted and asked for is among the sections after the
\* first half.
<1>9. ASSUME NEW i \in 1..Len(new), new[i].file = f, Opening(new[i]),
             ~Refused(e.warned, new[i])
      PROVE  \/ \E k \in 1..Len(d.open) : Starts(new[i], d.open[k])
             \/ \E m \in 1..Len(old) : Starts(new[i], old[m])
  <2>1. CASE i \in 1..Len(rd)
    <3>1. new[i] = rd[i] /\ ~Refused(c.warned, rd[i])
      BY <1>1, <1>7, <1>9, <2>1, StillAccepted
    <3> QED BY <1>2, <1>9, <2>1, <3>1 DEF During, Answered
  <2>2. CASE i = Len(new)
    <3>1. ~Refused(d.warned, a)
      BY <1>7, <1>9, <2>2 DEF TurnsOff, Adds, Refused
    <3> QED BY <1>2, <1>7, <1>9, <2>2, <3>1
  <2>3. i \in 1..Len(rd) \/ i = Len(new)
    BY <1>7
  <2> QED BY <2>1, <2>2, <2>3
<1>10. CASE /\ e.open = d.open /\ e.closed = d.closed
            /\ a.kind \in {"off", "line"} /\ Live(a) =>
                 \A k \in 1..Len(d.open) : ~Matches(d.open[k], a)
  <2>1. \A k \in 1..Len(d.open) : ~Ends(a, d.open[k])
    BY <1>5, <1>10
  <2>2. secs = old
    BY <1>1, <1>10
  <2>3. Answered(e.open, secs, e.warned, new, f)
    BY <1>9, <1>10, <2>2 DEF Answered
  <2> HIDE DEF secs, old
  <2> QED BY <1>2, <1>3, <1>8, <1>10, <2>1, <2>2, <2>3 DEF During, secs, old
<1>11. ASSUME NEW k \in 1..Len(d.open), a.kind \in {"off", "line"}, Matches(d.open[k], a),
              ClosedAt(d.open[k], a.line, EndCol(a.form)) \in Sections,
              e.open = RemoveAt(d.open, k),
              e.closed = [d.closed EXCEPT ![a.file] =
                Append(@, ClosedAt(d.open[k], a.line, EndCol(a.form)))]
       PROVE  /\ During(e.open, e.closed[a.file], e.warned, new, a.file, Len(new))
              /\ Distinct(e.open, e.closed[a.file])
  <2> DEFINE s == d.open[k]
             t == ClosedAt(s, a.line, EndCol(a.form))
  <2>1. /\ \A i \in 1..Len(e.open) : \E j \in 1..Len(d.open) :
             j # k /\ e.open[i] = d.open[j] /\ j = IF i < k THEN i ELSE i + 1
        /\ \A j \in 1..Len(d.open) : j # k =>
             \E i \in 1..Len(e.open) : e.open[i] = d.open[j]
        /\ \A m \in 1..Len(secs) :
             (m \in 1..Len(old) /\ secs[m] = old[m]) \/ (m = Len(old) + 1 /\ secs[m] = t)
        /\ \A m \in 1..Len(old) : m \in 1..Len(secs) /\ secs[m] = old[m]
        /\ Len(old) \in Nat /\ Len(old) + 1 \in 1..Len(secs) /\ secs[Len(old) + 1] = t
    <3>1. /\ t \in Sections /\ d \in Collectors /\ e.open = RemoveAt(d.open, k)
          /\ e.closed = [d.closed EXCEPT ![a.file] = Append(@, t)]
          /\ old = d.closed[a.file] /\ secs = e.closed[a.file]
      BY <1>1, <1>11
    <3> HIDE DEF old, secs, t
    <3>2. Moves(d, e, a.file, k, t)
      BY <3>1, OffMoves
    <3> QED  BY <3>1, <3>2 DEF Moves
  <2>2. s \in Sections /\ s.origin = f
    BY <1>2
  <2>3. /\ t.origin = s.origin /\ t.line = s.line /\ t.col = s.col
        /\ t.endLine = a.line /\ t.endCol = EndCol(a.form)
        /\ \A x : Starts(x, t) <=> Starts(x, s)
        /\ \A x : Ends(x, t) <=> Ends(x, s)
    BY <2>2, EndsAside
  <2>4. Ends(a, t)
    BY <1>11, <2>2, <2>3 DEF Ends, Matches
  <2> HIDE DEF secs, old, s, t
  <2>5. Shut(e.warned, new, t)
    <3>1. Standing(e.warned, new, s, Len(rd))
      BY <1>8 DEF s
    <3>2. PICK i \in 1..Len(new) :
            Begins(e.warned, new, s, i) /\ \A j \in i..Len(rd) : ~Ends(new[j], s)
      BY <3>1 DEF Standing
    <3>3. Begins(e.warned, new, t, i)
      BY <2>3, <3>2 DEF Begins
    <3>4. Len(new) \in i..Len(new) /\ \A j \in i..(Len(new) - 1) : j \in i..Len(rd)
      BY <1>7
    <3>5. ClosedBy(new, t, i, Len(new))
      BY <1>7, <2>3, <2>4, <3>2, <3>4 DEF ClosedBy
    <3> QED BY <3>2, <3>3, <3>4, <3>5 DEF Shut
  <2>6. ASSUME NEW i \in 1..Len(e.open)
        PROVE  e.open[i].origin = f /\ Standing(e.warned, new, e.open[i], Len(new))
    <3>1. PICK j \in 1..Len(d.open) : j # k /\ e.open[i] = d.open[j]
      BY <2>1
    <3>2. ~Ends(a, d.open[j])
      BY <1>1, <1>5, <1>11, <3>1, OneMatch
    <3> QED BY <1>2, <1>8, <3>1, <3>2
  <2>7. ASSUME NEW m \in 1..Len(secs)
        PROVE  secs[m].origin = f /\ Shut(e.warned, new, secs[m])
    BY <1>3, <2>1, <2>2, <2>3, <2>5
  <2>8. Answered(e.open, secs, e.warned, new, f)
    <3>1. ASSUME NEW i \in 1..Len(new), new[i].file = f, Opening(new[i]),
                 ~Refused(e.warned, new[i])
          PROVE  \/ \E j \in 1..Len(e.open) : Starts(new[i], e.open[j])
                 \/ \E m \in 1..Len(secs) : Starts(new[i], secs[m])
      <4>1. CASE \E m \in 1..Len(old) : Starts(new[i], old[m])
        BY <2>1, <4>1
      <4>2. CASE \E j \in 1..Len(d.open) : Starts(new[i], d.open[j])
        <5>1. PICK j \in 1..Len(d.open) : Starts(new[i], d.open[j])
          BY <4>2
        <5>2. CASE j = k
          BY <2>1, <2>3, <5>1, <5>2 DEF s
        <5>3. CASE j # k
          BY <2>1, <5>1, <5>3
        <5> QED BY <5>2, <5>3
      <4> QED BY <1>9, <3>1, <4>1, <4>2
    <3> QED BY <3>1 DEF Answered
  <2>9. Distinct(e.open, secs)
    <3>1. ASSUME NEW i \in 1..Len(e.open), NEW j \in 1..Len(e.open),
                 SameStart(e.open[i], e.open[j])
          PROVE  i = j
      <4>1. PICK x \in 1..Len(d.open) : e.open[i] = d.open[x] /\ x = IF i < k THEN i ELSE i + 1
        BY <2>1
      <4>2. PICK y \in 1..Len(d.open) : e.open[j] = d.open[y] /\ y = IF j < k THEN j ELSE j + 1
        BY <2>1
      <4>3. x = y
        BY <1>2, <3>1, <4>1, <4>2 DEF Distinct
      <4> QED BY <4>1, <4>2, <4>3
    <3>2. \A x : SameStart(x, t) <=> SameStart(x, s)
      BY <2>3 DEF SameStart
    <3>3. \A x : SameStart(t, x) <=> SameStart(s, x)
      BY <2>3 DEF SameStart
    <3>4. \A m \in 1..Len(old) : ~SameStart(s, old[m])
      BY <1>2 DEF Distinct, s
    <3>5. \A m \in 1..Len(old) : ~SameStart(old[m], s)
      BY <3>4 DEF SameStart
    <3>6. ASSUME NEW m \in 1..Len(secs), NEW n \in 1..Len(secs), SameStart(secs[m], secs[n])
          PROVE  m = n
      BY <1>2, <2>1, <3>2, <3>3, <3>4, <3>5, <3>6 DEF Distinct
    <3>7. ASSUME NEW i \in 1..Len(e.open), NEW m \in 1..Len(secs),
                 SameStart(e.open[i], secs[m])
          PROVE  FALSE
      <4>1. PICK j \in 1..Len(d.open) : j # k /\ e.open[i] = d.open[j]
        BY <2>1
      <4>2. CASE m \in 1..Len(old) /\ secs[m] = old[m]
        BY <1>2, <3>7, <4>1, <4>2 DEF Distinct
      <4>3. CASE secs[m] = t
        <5>1. SameStart(d.open[j], d.open[k])
          BY <3>2, <3>7, <4>1, <4>3 DEF s
        <5> QED BY <1>2, <4>1, <5>1 DEF Distinct
      <4> QED BY <2>1, <4>2, <4>3
    <3> QED BY <3>1, <3>6, <3>7 DEF Distinct
  <2> QED BY <2>6, <2>7, <2>8, <2>9 DEF During, secs
<1> QED BY <1>10, <1>11 DEF TurnsOff

-----------------------------------------------------------------------------
(* The annotations, source by source *)

\* The annotations of a form are read in the order of their lines, and line l is
\* the last that this pass has read.
Passed(rd, src, p, l) ==
  \A k \in 1..Len(rd) : rd[k].file = src /\ rd[k].form = FormOf(p) => rd[k].line <= l
Ordered(rd) ==
  \A j \in 1..Len(rd) : \A i \in 1..(j - 1) :
    rd[i].file = rd[j].file /\ rd[i].form = rd[j].form => rd[i].line < rd[j].line

\* A comment has no parameters, and a rejection is one of an annotation.
Plain(rd) == \A k \in 1..Len(rd) : rd[k].form = "comment" => rd[k].given = {}
Grounded(said, rd) ==
  \A w \in said : w.why = "rejected" =>
    \E k \in 1..Len(rd) : /\ rd[k].file = w.file /\ rd[k].line = w.line
                          /\ StartCol(rd[k].form) = w.col

\* No section of a source is open in another, nor filed under it, unless its scan
\* raised.
Strangers(c, rd, src) ==
  \A f \in Sources : ~Broken(rd, f) =>
    /\ f # src => \A k \in 1..Len(c.open) : c.open[k].origin # f
    /\ \A g \in Sources : g # f => \A m \in 1..Len(c.closed[g]) : c.closed[g][m].origin # f

\* Every postponed section is that of its annotations, and every annotation has
\* its section if no scan raised: the one that is being scanned, and the others.
Told(c, rd, src) ==
  \A f \in Sources : ~Broken(rd, f - 1) =>
    /\ f < src => /\ Marked(c.closed[f], c.warned, rd, f)
                  /\ Distinct(<<>>, c.closed[f])
                  /\ ~Broken(rd, f) => Answered(<<>>, c.closed[f], c.warned, rd, f)
    /\ f = src => /\ During(c.open, c.closed[f], c.warned, rd, f, Len(rd))
                  /\ Distinct(c.open, c.closed[f])

Follows(c, rd, src, p, l) ==
  /\ Passed(rd, src, p, l) /\ Ordered(rd) /\ Plain(rd)
  /\ Grounded(c.warned, rd) /\ Strangers(c, rd, src) /\ Told(c, rd, src)

\* The sections that an annotation of source f leaves were there, or are of f.
Without(c, f, g) ==
  /\ \A k \in 1..Len(c.open) : c.open[k].origin # f
  /\ \A m \in 1..Len(c.closed[g]) : c.closed[g][m].origin # f

LEMMA MovesWithout ==
  ASSUME NEW d, NEW e, NEW g, NEW k, NEW t, Moves(d, e, g, k, t),
         NEW f, Without(d, f, g), t.origin # f
  PROVE  Without(e, f, g)
<1>1. ASSUME NEW i \in 1..Len(e.open)
      PROVE  e.open[i].origin # f
  <2>1. PICK j \in 1..Len(d.open) : e.open[i] = d.open[j]
    BY DEF Moves
  <2> QED BY <2>1 DEF Without
<1>2. ASSUME NEW m \in 1..Len(e.closed[g])
      PROVE  e.closed[g][m].origin # f
  BY DEF Moves, Without
<1> QED BY <1>1, <1>2 DEF Without

LEMMA NoStrangers ==
  ASSUME NEW c \in Collectors, NEW d, NEW e, NEW a \in Annotations,
         TurnsOn(c, d, a), TurnsOff(d, e, a), NEW f, f # a.file,
         Without(c, f, a.file)
  PROVE  Without(e, f, a.file)
<1>0. /\ \A k \in 1..Len(c.open) : c.open[k].origin # f
      /\ \A m \in 1..Len(c.closed[a.file]) : c.closed[a.file][m].origin # f
  BY DEF Without
<1>1. /\ d \in Collectors /\ d.closed = c.closed /\ d.open \in Seq(Sections)
      /\ c.open \in Seq(Sections)
  BY DEF TurnsOn, Collectors
<1>2. \A k \in 1..Len(d.open) : d.open[k].origin # f
  <2>1. CASE d.open = c.open
    BY <1>0, <2>1
  <2>2. CASE d.open = Append(c.open, Opened(a))
    <3>1. Opened(a).origin = a.file
      BY DEF Opened
    <3> HIDE DEF Opened
    <3>2. /\ Len(c.open) \in Nat /\ Len(d.open) = Len(c.open) + 1
          /\ d.open[Len(c.open) + 1] = Opened(a)
          /\ \A k \in 1..Len(c.open) : d.open[k] = c.open[k]
      BY <1>1, <2>2
    <3>3. \A k \in 1..Len(d.open) : k \in 1..Len(c.open) \/ k = Len(c.open) + 1
      BY <3>2
    <3> QED BY <1>0, <3>1, <3>2, <3>3
  <2> QED BY <2>1, <2>2 DEF TurnsOn
<1>3. CASE e.open = d.open /\ e.closed = d.closed
  BY <1>0, <1>1, <1>2, <1>3 DEF Without
<1>4. ASSUME NEW k \in 1..Len(d.open),
             ClosedAt(d.open[k], a.line, EndCol(a.form)) \in Sections,
             e.open = RemoveAt(d.open, k),
             e.closed = [d.closed EXCEPT ![a.file] =
               Append(@, ClosedAt(d.open[k], a.line, EndCol(a.form)))]
      PROVE  Without(e, f, a.file)
  <2> DEFINE t == ClosedAt(d.open[k], a.line, EndCol(a.form))
  <2>1. d.open[k] \in Sections
    BY <1>1
  <2>2. t.origin # f
    BY <1>2, <2>1, EndsAside
  <2>3. t \in Sections
    BY <1>4
  <2>4. e.closed = [d.closed EXCEPT ![a.file] = Append(@, t)]
    BY <1>4
  <2> HIDE DEF t
  <2>5. Moves(d, e, a.file, k, t)
    BY <1>1, <1>4, <2>3, <2>4, OffMoves
  <2>6. Without(d, f, a.file)
    BY <1>0, <1>1, <1>2 DEF Without
  <2> QED BY <2>2, <2>5, <2>6, MovesWithout
<1> QED BY <1>3, <1>4 DEF TurnsOff

LEMMA FilesKept ==
  ASSUME NEW c \in Collectors, NEW d, NEW e, NEW a, TurnsOn(c, d, a), TurnsOff(d, e, a),
         NEW f \in Sources, f # a.file
  PROVE  e.closed[f] = c.closed[f]
<1>1. d.closed = c.closed /\ DOMAIN c.closed = Sources
  BY DEF TurnsOn, Collectors
<1>2. e.closed[f] = d.closed[f]
  BY <1>1 DEF TurnsOff
<1> QED BY <1>1, <1>2

LEMMA AnnotatesFollows ==
  ASSUME TypeInv, Compatible(open), Scan(Collector, read, sf, pass, line),
         Follows(Collector, read, sf, pass, line),
         NEW a, Annotates(a), sf \in Sources, a.form = FormOf(pass),
         a.form = "comment" => a.given = {}
  PROVE  Follows(Collector', read', sf', pass', line')
<1> DEFINE c == Collector
           e == Collector'
           rd == read
           new == read'
<1>1. /\ a \in Annotations /\ a.file = sf /\ a.line > line /\ new = Append(rd, a)
      /\ line' = a.line /\ sf' = sf /\ pass' = pass /\ e = Effect(c, a)
      /\ c \in Collectors /\ rd \in Seq(Annotations) /\ line \in Int /\ sf \in Int
      /\ e \in Collectors /\ c.open = open
  <2>1. a \in Annotations /\ c \in Collectors /\ rd \in Seq(Annotations)
    BY CollectorType DEF Annotates, TypeInv, TypeOK
  <2>2. Effect(c, a) \in Collectors
    BY <2>1, EffectSteps DEF Closes
  <2>3. e = Effect(c, a)
    BY <2>2 DEF Annotates, SetCollector, Collector, Collectors
  <2> QED BY <2>1, <2>2, <2>3, ExemptionsAssumption
          DEF Annotates, Read, TypeInv, TypeOK, Sources, Collector
<1>2. PICK d : TurnsOn(c, d, a) /\ TurnsOff(d, e, a)
  BY <1>1, EffectTold
<1>3. Compatible(d.open)
  <2>1. Opens(c, d, a)
    BY <1>2 DEF TurnsOn, Opens
  <2> QED BY <1>1, <2>1, OpensCompatible
<1>4. Extends(rd, new, a)
  BY <1>1, AppendExtends
<1>5. /\ Follows(c, rd, sf, pass, line) /\ Scan(c, rd, sf, pass, line)
      /\ Adds(c.warned, e.warned, a)
  BY <1>2, AddsMore DEF TurnsOn, TurnsOff
<1> HIDE DEF c, e, new
<1>6. \A k \in 1..Len(rd) : /\ rd[k].line \in Int /\ rd[k].file \in Int
                            /\ rd[k].form \in {"pragma", "comment"}
  <2>1. \A k \in 1..Len(rd) : rd[k] \in Annotations
    BY <1>1
  <2> QED BY <2>1, ExemptionsAssumption DEF Annotations, Lines, Sources
<1>7. /\ a.line \in Int /\ a.form \in {"pragma", "comment"}
  BY <1>1, ExemptionsAssumption DEF Annotations, Lines
<1>8. \A k \in 1..Len(rd) :
        rd[k].file = sf /\ rd[k].form = a.form => rd[k].line < a.line
  BY <1>1, <1>5, <1>6, <1>7 DEF Follows, Passed
<1>9. FreshAt(rd, a)
  BY <1>1, <1>6, <1>7, <1>8 DEF FreshAt, StartCol, Columns
<1>10. ~Refused(c.warned, a)
  <2> DEFINE w == Warning("rejected", a.file, At(a))
  <2>1. w.why = "rejected" /\ w.file = a.file /\ w.line = a.line /\ w.col = StartCol(a.form)
    BY DEF Warning, At
  <2> HIDE DEF w
  <2>2. w \notin c.warned
    BY <1>5, <1>9, <2>1 DEF Follows, Grounded, FreshAt
  <2> QED BY <2>2 DEF Refused, w
<1>11. /\ \A k \in 1..Len(new) : (k \in 1..Len(rd) /\ new[k] = rd[k]) \/ new[k] = a
       /\ \A k \in 1..Len(rd) : k \in 1..Len(new) /\ new[k] = rd[k]
       /\ Len(new) \in 1..Len(new) /\ new[Len(new)] = a /\ Len(rd) \in Nat
       /\ Len(new) = Len(rd) + 1
  <2>1. \A k \in 1..Len(new) : k \in 1..Len(rd) \/ k = Len(rd) + 1
    BY <1>4 DEF Extends
  <2> QED BY <1>4, <2>1 DEF Extends
<1>12. Passed(new, sf, pass, a.line)
  BY <1>5, <1>6, <1>7, <1>8, <1>11 DEF Follows, Passed
<1>13. Ordered(new)
  <2>1. ASSUME NEW j \in 1..Len(new), NEW i \in 1..(j - 1),
               new[i].file = new[j].file, new[i].form = new[j].form
        PROVE  new[i].line < new[j].line
    <3>1. i \in 1..Len(rd) /\ new[i] = rd[i]
      BY <1>11
    <3>2. CASE j \in 1..Len(rd) /\ new[j] = rd[j]
      BY <1>5, <2>1, <3>1, <3>2 DEF Follows, Ordered
    <3>3. CASE new[j] = a
      BY <1>1, <1>8, <2>1, <3>1, <3>3
    <3> QED BY <1>11, <3>2, <3>3
  <2> QED BY <2>1 DEF Ordered
<1>14. Plain(new)
  BY <1>5, <1>11 DEF Follows, Plain
<1>15. Grounded(e.warned, new)
  <2>1. ASSUME NEW w \in e.warned, w.why = "rejected"
        PROVE  \E k \in 1..Len(new) : /\ new[k].file = w.file /\ new[k].line = w.line
                                      /\ StartCol(new[k].form) = w.col
    <3>1. CASE w \in c.warned
      <4>1. PICK k \in 1..Len(rd) : /\ rd[k].file = w.file /\ rd[k].line = w.line
                                    /\ StartCol(rd[k].form) = w.col
        BY <1>5, <2>1, <3>1 DEF Follows, Grounded
      <4> QED BY <1>11, <4>1
    <3>2. CASE w \notin c.warned
      BY <1>5, <1>11, <2>1, <3>2 DEF Adds
    <3> QED BY <3>1, <3>2
  <2> QED BY <2>1 DEF Grounded
<1>16. \A f : Broken(rd, f) => Broken(new, f)
  BY <1>11 DEF Broken
<1>17. \A f \in Sources : f # sf => e.closed[f] = c.closed[f]
  BY <1>1, <1>2, FilesKept
<1>18. \A f \in Sources : f \in Int
  BY ExemptionsAssumption DEF Sources
<1>19. Strangers(e, new, sf)
  <2>1. ASSUME NEW f \in Sources, ~Broken(new, f)
        PROVE  /\ f # sf => \A k \in 1..Len(e.open) : e.open[k].origin # f
               /\ \A g \in Sources : g # f =>
                    \A m \in 1..Len(e.closed[g]) : e.closed[g][m].origin # f
    <3>1. /\ f # sf => \A k \in 1..Len(c.open) : c.open[k].origin # f
          /\ \A g \in Sources : g # f =>
               \A m \in 1..Len(c.closed[g]) : c.closed[g][m].origin # f
      BY <1>5, <1>16, <2>1 DEF Follows, Strangers
    <3>2. CASE f # sf
      <4>1. Without(c, f, a.file) /\ f # a.file
        BY <1>1, <3>1, <3>2 DEF Without
      <4>2. /\ \A k \in 1..Len(e.open) : e.open[k].origin # f
            /\ \A m \in 1..Len(e.closed[sf]) : e.closed[sf][m].origin # f
        <5>1. c \in Collectors /\ a \in Annotations /\ a.file = sf
          BY <1>1
        <5>2. Without(e, f, a.file)
          BY <1>2, <4>1, <5>1, NoStrangers
        <5> QED  BY <5>1, <5>2 DEF Without
      <4> QED BY <1>17, <3>1, <4>2
    <3>3. CASE f = sf
      BY <1>17, <3>1, <3>3
    <3> QED BY <3>2, <3>3
  <2> QED BY <2>1 DEF Strangers
<1>20. Told(e, new, sf)
  <2>1. ASSUME NEW f \in Sources, ~Broken(new, f - 1), f < sf
        PROVE  /\ Marked(e.closed[f], e.warned, new, f) /\ Distinct(<<>>, e.closed[f])
               /\ ~Broken(new, f) => Answered(<<>>, e.closed[f], e.warned, new, f)
    <3>1. /\ Marked(c.closed[f], c.warned, rd, f) /\ Distinct(<<>>, c.closed[f])
          /\ ~Broken(new, f) => Answered(<<>>, c.closed[f], c.warned, rd, f)
          /\ f # sf /\ e.closed[f] = c.closed[f]
      BY <1>5, <1>16, <1>17, <1>18, <2>1 DEF Follows, Told
    <3>2. Marked(e.closed[f], e.warned, new, f)
      BY <1>1, <1>4, <1>5, <3>1, OthersMarked
    <3>3. ~Broken(new, f) => Answered(<<>>, e.closed[f], e.warned, new, f)
      BY <1>1, <1>4, <1>5, <3>1, OthersAnswered
    <3> QED BY <3>1, <3>2, <3>3
  <2>2. ASSUME ~Broken(new, sf - 1)
        PROVE  /\ During(e.open, e.closed[sf], e.warned, new, sf, Len(new))
               /\ Distinct(e.open, e.closed[sf])
    <3>1. /\ During(c.open, c.closed[sf], c.warned, rd, sf, Len(rd))
          /\ Distinct(c.open, c.closed[sf])
      BY <1>5, <1>16, <2>2 DEF Follows, Told
    <3> QED BY <1>1, <1>2, <1>3, <1>4, <1>9, <1>10, <3>1, AnnotatesDuring
  <2> QED BY <2>1, <2>2 DEF Told
<1>21. Follows(e, new, sf, pass, a.line)
  BY <1>12, <1>13, <1>14, <1>15, <1>19, <1>20 DEF Follows
<1> QED BY <1>1, <1>21 DEF e, new

LEMMA RaisesFollows ==
  ASSUME TypeInv, Scan(Collector, read, sf, pass, line),
         Follows(Collector, read, sf, pass, line), pass = "pragmas", sf \in Sources,
         NEW a \in Annotations, a.file = sf, a.form = "pragma", a.line > line, ScanRaises(a)
  PROVE  Follows(Collector', read', sf', pass', line')
<1> DEFINE c == Collector
           rd == read
           new == read'
<1>1. /\ rd \in Seq(Annotations) /\ new = Append(rd, a) /\ sf \in Int
      /\ sf' = sf + 1 /\ pass' = pass /\ line' = 0 /\ Raises(a) /\ Collector' = c
  BY ExemptionsAssumption DEF ScanRaises, Read, TypeInv, TypeOK, Sources, Collector
<1>2. Follows(c, rd, sf, pass, line) /\ Scan(c, rd, sf, pass, line)
  OBVIOUS
<1>3. Extends(rd, new, a)
  BY <1>1, AppendExtends
<1>4. \A k \in 1..Len(rd) : rd[k].line \in Int /\ rd[k].file \in Int
  <2>1. \A k \in 1..Len(rd) : rd[k] \in Annotations
    BY <1>1
  <2> QED BY <2>1, ExemptionsAssumption DEF Annotations, Lines, Sources
<1>5. a.line \in Int /\ line \in Int
  BY ExemptionsAssumption DEF Annotations, Lines, TypeInv, TypeOK
<1> HIDE DEF c, rd, new
<1>6. /\ \A k \in 1..Len(new) : (k \in 1..Len(rd) /\ new[k] = rd[k]) \/ new[k] = a
      /\ \A k \in 1..Len(rd) : k \in 1..Len(new) /\ new[k] = rd[k]
      /\ Len(new) \in 1..Len(new) /\ new[Len(new)] = a /\ Len(rd) \in Nat
      /\ Len(new) = Len(rd) + 1
  <2>1. \A k \in 1..Len(new) : k \in 1..Len(rd) \/ k = Len(rd) + 1
    BY <1>3 DEF Extends
  <2> QED BY <1>3, <2>1 DEF Extends
<1>7. \A k \in 1..Len(new) : new[k].file # sf + 1
  BY <1>1, <1>2, <1>4, <1>6 DEF Scan, Reading
<1>8. Passed(new, sf + 1, pass, 0)
  BY <1>7 DEF Passed
<1>9. Ordered(new)
  <2>1. ASSUME NEW j \in 1..Len(new), NEW i \in 1..(j - 1),
               new[i].file = new[j].file, new[i].form = new[j].form
        PROVE  new[i].line < new[j].line
    <3>1. i \in 1..Len(rd) /\ new[i] = rd[i]
      BY <1>6
    <3>2. CASE j \in 1..Len(rd) /\ new[j] = rd[j]
      BY <1>2, <2>1, <3>1, <3>2 DEF Follows, Ordered
    <3>3. CASE new[j] = a
      <4>1. rd[i].line <= line
        BY <1>2, <2>1, <3>1, <3>3 DEF Follows, Passed, FormOf
      <4> QED BY <1>4, <1>5, <3>1, <3>3, <4>1
    <3> QED BY <1>6, <3>2, <3>3
  <2> QED BY <2>1 DEF Ordered
<1>10. Plain(new)
  BY <1>2, <1>6 DEF Follows, Plain
<1>11. Grounded(c.warned, new)
  <2>1. ASSUME NEW w \in c.warned, w.why = "rejected"
        PROVE  \E k \in 1..Len(new) : /\ new[k].file = w.file /\ new[k].line = w.line
                                      /\ StartCol(new[k].form) = w.col
    <3>1. PICK k \in 1..Len(rd) : /\ rd[k].file = w.file /\ rd[k].line = w.line
                                  /\ StartCol(rd[k].form) = w.col
      BY <1>2, <2>1 DEF Follows, Grounded
    <3> QED BY <1>6, <3>1
  <2> QED BY <2>1 DEF Grounded
<1>12. (\A f : Broken(rd, f) => Broken(new, f)) /\ Broken(new, sf)
  BY <1>1, <1>6 DEF Broken
<1>13. Strangers(c, new, sf + 1)
  BY <1>2, <1>12 DEF Follows, Strangers
<1>14. Told(c, new, sf + 1)
  <2>1. Adds(c.warned, c.warned, a)
    BY DEF Adds
  <2>2. FreshAt(rd, a)
    <3>1. \A k \in 1..Len(rd) :
            rd[k].file = sf => rd[k].form = "pragma" /\ rd[k].line <= line
      BY <1>2 DEF Scan, Reading, Only, Follows, Passed, FormOf
    <3> QED BY <1>4, <1>5, <3>1 DEF FreshAt
  <2>3. ASSUME NEW f \in Sources, ~Broken(new, f - 1)
        PROVE  /\ f < sf + 1 => /\ Marked(c.closed[f], c.warned, new, f)
                                /\ Distinct(<<>>, c.closed[f])
                                /\ ~Broken(new, f) =>
                                     Answered(<<>>, c.closed[f], c.warned, new, f)
               /\ f # sf + 1
    <3>1. f \in Int /\ f # sf + 1 /\ ~Broken(rd, f - 1)
      BY <1>1, <1>12, <2>3, ExemptionsAssumption DEF Sources
    <3>2. CASE f < sf
      <4>1. /\ Marked(c.closed[f], c.warned, rd, f) /\ Distinct(<<>>, c.closed[f])
            /\ ~Broken(new, f) => Answered(<<>>, c.closed[f], c.warned, rd, f)
            /\ f # a.file
        BY <1>1, <1>2, <1>12, <3>1, <3>2 DEF Follows, Told
      <4>2. Marked(c.closed[f], c.warned, new, f)
        BY <1>3, <2>1, <4>1, OthersMarked
      <4>3. ~Broken(new, f) => Answered(<<>>, c.closed[f], c.warned, new, f)
        BY <1>3, <2>1, <4>1, OthersAnswered
      <4> QED BY <3>1, <4>1, <4>2, <4>3
    <3>3. CASE f = sf
      <4>1. /\ During(c.open, c.closed[f], c.warned, rd, f, Len(rd))
            /\ Distinct(c.open, c.closed[f])
        BY <1>2, <3>1, <3>3 DEF Follows, Told
      <4>2. \A m \in 1..Len(c.closed[f]) :
              c.closed[f][m].origin = f /\ Shut(c.warned, rd, c.closed[f][m])
        BY <4>1 DEF During
      <4>3. \A m \in 1..Len(c.closed[f]) : Shut(c.warned, new, c.closed[f][m])
        BY <1>3, <2>1, <2>2, <4>2, StillShut
      <4>4. Marked(c.closed[f], c.warned, new, f)
        BY <4>2, <4>3 DEF Marked
      <4>5. Distinct(<<>>, c.closed[f])
        BY <4>1 DEF Distinct
      <4> QED BY <1>12, <3>1, <3>3, <4>4, <4>5
    <3> QED BY <1>1, <3>1, <3>2, <3>3
  <2> QED BY <2>3 DEF Told
<1>15. Follows(c, new, sf + 1, pass, 0)
  BY <1>8, <1>9, <1>10, <1>11, <1>13, <1>14 DEF Follows
<1> QED BY <1>1, <1>15 DEF new

LEMMA PragmasFollows ==
  ASSUME Scan(Collector, read, sf, pass, line),
         Follows(Collector, read, sf, pass, line), EndOfPragmas
  PROVE  Follows(Collector', read', sf', pass', line')
<1> DEFINE c == Collector
<1>1. /\ Collector' = c /\ read' = read /\ sf' = sf /\ line' = 0
      /\ pass = "pragmas" /\ pass' = "comments"
  BY DEF EndOfPragmas, Collector
<1>2. Follows(c, read, sf, pass, line) /\ Scan(c, read, sf, pass, line)
  OBVIOUS
<1> HIDE DEF c
<1>3. Passed(read, sf, "comments", 0)
  BY <1>1, <1>2 DEF Scan, Reading, Only, Passed, FormOf
<1>4. Follows(c, read, sf, "comments", 0)
  BY <1>2, <1>3 DEF Follows
<1> QED BY <1>1, <1>4

\* Warnings that are no rejections change nothing here.
LEMMA SameAnswers ==
  ASSUME NEW said, NEW more, \A a : Refused(more, a) <=> Refused(said, a), NEW rd
  PROVE  /\ \A s, n : Standing(said, rd, s, n) => Standing(more, rd, s, n)
         /\ \A s : Shut(said, rd, s) => Shut(more, rd, s)
         /\ \A o, secs, f : Answered(o, secs, said, rd, f) => Answered(o, secs, more, rd, f)
         /\ \A secs, f : Marked(secs, said, rd, f) => Marked(secs, more, rd, f)
<1>1. \A s, i : Begins(said, rd, s, i) <=> Begins(more, rd, s, i)
  BY DEF Begins
<1>2. \A s, n : Standing(said, rd, s, n) => Standing(more, rd, s, n)
  BY <1>1 DEF Standing
<1>3. \A s : Shut(said, rd, s) => Shut(more, rd, s)
  BY <1>1 DEF Shut
<1>4. \A o, secs, f : Answered(o, secs, said, rd, f) => Answered(o, secs, more, rd, f)
  BY DEF Answered
<1>5. \A s : Left(said, rd, s) => Left(more, rd, s)
  BY <1>2 DEF Left
<1>6. \A secs, f : Marked(secs, said, rd, f) => Marked(secs, more, rd, f)
  BY <1>3, <1>5 DEF Marked
<1> QED BY <1>2, <1>3, <1>4, <1>6

LEMMA NoRejections ==
  ASSUME NEW said, NEW more, said \subseteq more,
         \A w \in more \ said : w.why # "rejected"
  PROVE  /\ \A a : Refused(more, a) <=> Refused(said, a)
         /\ \A rd : Grounded(said, rd) => Grounded(more, rd)
<1>1. \A f, at : Warning("rejected", f, at).why = "rejected"
  BY DEF Warning
<1> QED BY <1>1 DEF Refused, Grounded

\* The end of a source answers what its annotations left open.
LEMMA SourceTold ==
  ASSUME TypeInv, sf \in Sources,
         During(open, closed[sf], warned, read, sf, Len(read)),
         Distinct(open, closed[sf])
  PROVE  /\ Marked(CloseAll(sf), warned, read, sf) /\ Distinct(<<>>, CloseAll(sf))
         /\ Answered(<<>>, CloseAll(sf), warned, read, sf)
<1> DEFINE secs == closed[sf]
           all == CloseAll(sf)
           end(k) == ClosedAt(open[k], NumLines, Columns.comment)
<1>1. secs \in Seq(Sections) /\ open \in Seq(Sections)
  BY DEF TypeInv, TypeOK
<1>2. /\ Len(all) = Len(secs) + Len(open)
      /\ \A i \in 1..Len(all) :
           all[i] = IF i <= Len(secs) THEN secs[i] ELSE end(i - Len(secs))
  BY AllClosed DEF TypeInv
<1>3. \A k \in 1..Len(open) :
        /\ end(k).origin = open[k].origin /\ end(k).line = open[k].line
        /\ end(k).col = open[k].col
        /\ end(k).endLine = NumLines /\ end(k).endCol = Columns.comment
        /\ \A a : Starts(a, end(k)) <=> Starts(a, open[k])
        /\ \A a : Ends(a, end(k)) <=> Ends(a, open[k])
  <2>1. \A k \in 1..Len(open) : open[k] \in Sections
    BY <1>1
  <2> QED BY <2>1, EndsAside
<1>4. /\ During(open, secs, warned, read, sf, Len(read)) /\ Distinct(open, secs)
      /\ Len(secs) \in Nat /\ Len(open) \in Nat
  BY <1>1
<1> HIDE DEF secs, all, end
<1>5. \A i \in 1..Len(all) :
        \/ i \in 1..Len(secs) /\ all[i] = secs[i]
        \/ i - Len(secs) \in 1..Len(open) /\ all[i] = end(i - Len(secs))
  BY <1>2, <1>4
<1>6. /\ \A m \in 1..Len(secs) : m \in 1..Len(all) /\ all[m] = secs[m]
      /\ \A k \in 1..Len(open) :
           Len(secs) + k \in 1..Len(all) /\ all[Len(secs) + k] = end(k)
  BY <1>2, <1>4
<1>7. ASSUME NEW k \in 1..Len(open)
      PROVE  end(k).origin = sf /\ Left(warned, read, end(k))
  <2>1. open[k].origin = sf /\ Standing(warned, read, open[k], Len(read))
    BY <1>4 DEF During
  <2>2. Standing(warned, read, end(k), Len(read))
    BY <1>3, <2>1 DEF Standing, Begins
  <2> QED BY <1>3, <2>1, <2>2 DEF Left
<1>8. ASSUME NEW i \in 1..Len(all)
      PROVE  /\ all[i].origin = sf
             /\ Shut(warned, read, all[i]) \/ Left(warned, read, all[i])
  <2>1. CASE i \in 1..Len(secs) /\ all[i] = secs[i]
    BY <1>4, <2>1 DEF During
  <2>2. CASE i - Len(secs) \in 1..Len(open) /\ all[i] = end(i - Len(secs))
    BY <1>7, <2>2
  <2> QED BY <1>5, <2>1, <2>2
<1>9. Answered(<<>>, all, warned, read, sf)
  <2>1. ASSUME NEW i \in 1..Len(read), read[i].file = sf, Opening(read[i]),
               ~Refused(warned, read[i])
        PROVE  \E m \in 1..Len(all) : Starts(read[i], all[m])
    <3>1. CASE \E k \in 1..Len(open) : Starts(read[i], open[k])
      BY <1>3, <1>6, <3>1
    <3>2. CASE \E m \in 1..Len(secs) : Starts(read[i], secs[m])
      BY <1>6, <3>2
    <3> QED BY <1>4, <2>1, <3>1, <3>2 DEF During, Answered
  <2> QED BY <2>1 DEF Answered
<1>10. ASSUME NEW i \in 1..Len(all), NEW j \in 1..Len(all), SameStart(all[i], all[j])
       PROVE  i = j
  <2>1. CASE i \in 1..Len(secs) /\ j \in 1..Len(secs)
    BY <1>4, <1>6, <1>10, <2>1 DEF Distinct
  <2>2. CASE i - Len(secs) \in 1..Len(open) /\ j - Len(secs) \in 1..Len(open)
    <3>1. all[i] = end(i - Len(secs)) /\ all[j] = end(j - Len(secs))
      BY <1>2, <1>4, <2>2
    <3>2. SameStart(open[i - Len(secs)], open[j - Len(secs)])
      BY <1>3, <1>10, <2>2, <3>1 DEF SameStart
    <3>3. i - Len(secs) = j - Len(secs)
      BY <1>4, <2>2, <3>2 DEF Distinct
    <3> QED BY <1>4, <3>3
  <2>3. CASE i \in 1..Len(secs) /\ j - Len(secs) \in 1..Len(open)
    <3>1. all[i] = secs[i] /\ all[j] = end(j - Len(secs))
      BY <1>2, <1>4, <2>3
    <3> QED BY <1>3, <1>4, <1>10, <2>3, <3>1 DEF SameStart, Distinct
  <2>4. CASE i - Len(secs) \in 1..Len(open) /\ j \in 1..Len(secs)
    <3>1. all[i] = end(i - Len(secs)) /\ all[j] = secs[j]
      BY <1>2, <1>4, <2>4
    <3> QED BY <1>3, <1>4, <1>10, <2>4, <3>1 DEF SameStart, Distinct
  <2> QED BY <1>5, <2>1, <2>2, <2>3, <2>4
<1>11. Distinct(<<>>, all)
  BY <1>10 DEF Distinct
<1>12. Marked(all, warned, read, sf)
  BY <1>8 DEF Marked
<1> QED BY <1>9, <1>11, <1>12 DEF all

LEMMA SourceFollows ==
  ASSUME TypeInv, Scan(Collector, read, sf, pass, line),
         Follows(Collector, read, sf, pass, line), EndOfSource
  PROVE  Follows(Collector', read', sf', pass', line')
<1> DEFINE c == Collector
           e == Collector'
<1>1. /\ e.open = <<>> /\ e.closed = [c.closed EXCEPT ![sf] = CloseAll(sf)]
      /\ e.warned = c.warned \cup {Warning("unclosed", sf, s) : s \in ToSet(open)}
      /\ c.open = open /\ c.closed = closed /\ c.warned = warned
      /\ read' = read /\ sf' = sf + 1 /\ pass' = "pragmas" /\ line' = 0
  BY DEF EndOfSource, Collector
<1>2. sf \in Sources /\ sf \in Int /\ DOMAIN c.closed = Sources
  BY <1>1, ExemptionsAssumption DEF EndOfSource, TypeInv, TypeOK, Sources
<1>3. Scan(c, read, sf, pass, line) /\ Follows(c, read, sf, pass, line)
  OBVIOUS
<1>4. ASSUME During(c.open, c.closed[sf], c.warned, read, sf, Len(read)),
             Distinct(c.open, c.closed[sf])
      PROVE  /\ Marked(CloseAll(sf), c.warned, read, sf) /\ Distinct(<<>>, CloseAll(sf))
             /\ Answered(<<>>, CloseAll(sf), c.warned, read, sf)
  BY <1>1, <1>2, <1>4, SourceTold
<1>5. \A i \in 1..Len(CloseAll(sf)) :
        \/ \E m \in 1..Len(closed[sf]) : CloseAll(sf)[i] = closed[sf][m]
        \/ \E k \in 1..Len(open) : CloseAll(sf)[i].origin = open[k].origin
  <2>1. closed[sf] \in Seq(Sections) /\ open \in Seq(Sections)
    BY <1>2 DEF TypeInv, TypeOK
  <2>2. /\ Len(CloseAll(sf)) = Len(closed[sf]) + Len(open)
        /\ \A i \in 1..Len(CloseAll(sf)) :
             CloseAll(sf)[i] = IF i <= Len(closed[sf]) THEN closed[sf][i]
               ELSE ClosedAt(open[i - Len(closed[sf])], NumLines, Columns.comment)
    BY <1>2, AllClosed DEF TypeInv
  <2>3. \A k \in 1..Len(open) :
          ClosedAt(open[k], NumLines, Columns.comment).origin = open[k].origin
    BY <2>1, EndsAside
  <2>4. Len(closed[sf]) \in Nat /\ Len(open) \in Nat
    BY <2>1
  <2>5. \A i \in 1..Len(CloseAll(sf)) :
          \/ i \in 1..Len(closed[sf])
          \/ ~(i <= Len(closed[sf])) /\ i - Len(closed[sf]) \in 1..Len(open)
    <3>1. \A x \in Nat, y \in Nat : \A i \in 1..(x + y) :
            i \in 1..x \/ (~(i <= x) /\ i - x \in 1..y)
      OBVIOUS
    <3> QED BY <2>2, <2>4, <3>1
  <2>6. ASSUME NEW i \in 1..Len(CloseAll(sf)), i \in 1..Len(closed[sf])
        PROVE  CloseAll(sf)[i] = closed[sf][i]
    BY <2>2, <2>4, <2>6
  <2>7. ASSUME NEW i \in 1..Len(CloseAll(sf)), ~(i <= Len(closed[sf])),
               i - Len(closed[sf]) \in 1..Len(open)
        PROVE  CloseAll(sf)[i].origin = open[i - Len(closed[sf])].origin
    <3>1. CloseAll(sf)[i]
            = ClosedAt(open[i - Len(closed[sf])], NumLines, Columns.comment)
      BY <2>2, <2>7
    <3> QED BY <2>3, <2>7, <3>1
  <2> QED BY <2>5, <2>6, <2>7
<1> HIDE DEF c, e
<1>6. e.closed[sf] = CloseAll(sf) /\ \A f \in Sources : f # sf => e.closed[f] = c.closed[f]
  BY <1>1, <1>2
<1>7. c.warned \subseteq e.warned /\ \A w \in e.warned \ c.warned : w.why # "rejected"
  <2>1. \A s : Warning("unclosed", sf, s).why # "rejected"
    BY DEF Warning
  <2> QED BY <1>1, <2>1
<1>8. /\ Grounded(e.warned, read)
      /\ \A o, secs, f : Answered(o, secs, c.warned, read, f) => Answered(o, secs, e.warned, read, f)
      /\ \A secs, f : Marked(secs, c.warned, read, f) => Marked(secs, e.warned, read, f)
  <2>1. \A a : Refused(e.warned, a) <=> Refused(c.warned, a)
    BY <1>7, NoRejections
  <2>2. Grounded(e.warned, read)
    BY <1>3, <1>7, NoRejections DEF Follows
  <2> QED BY <2>1, <2>2, SameAnswers
<1>9. \A f \in Sources : f \in Int
  BY ExemptionsAssumption DEF Sources
<1>10. \A k \in 1..Len(read) : read[k].file # sf + 1
  <2>1. \A k \in 1..Len(read) : read[k] \in Annotations
    BY DEF TypeInv, TypeOK
  <2> QED BY <1>2, <1>3, <1>9, <2>1 DEF Annotations, Scan, Reading
<1>11. Passed(read, sf + 1, "pragmas", 0) /\ Ordered(read) /\ Plain(read)
  BY <1>3, <1>10 DEF Follows, Passed
<1>12. Strangers(e, read, sf + 1)
  <2>1. ASSUME NEW f \in Sources, ~Broken(read, f), NEW g \in Sources, g # f,
               NEW m \in 1..Len(e.closed[g])
        PROVE  e.closed[g][m].origin # f
    <3>1. CASE g # sf
      BY <1>3, <1>6, <2>1, <3>1 DEF Follows, Strangers
    <3>2. CASE g = sf
      <4>1. /\ \A k \in 1..Len(c.open) : c.open[k].origin # f
            /\ \A n \in 1..Len(c.closed[sf]) : c.closed[sf][n].origin # f
        BY <1>2, <1>3, <2>1, <3>2 DEF Follows, Strangers
      <4> QED BY <1>1, <1>5, <1>6, <2>1, <3>2, <4>1
    <3> QED BY <3>1, <3>2
  <2> QED BY <1>1, <2>1 DEF Strangers
<1>13. Told(e, read, sf + 1)
  <2>1. ASSUME NEW f \in Sources, ~Broken(read, f - 1), f < sf + 1
        PROVE  /\ Marked(e.closed[f], e.warned, read, f) /\ Distinct(<<>>, e.closed[f])
               /\ ~Broken(read, f) => Answered(<<>>, e.closed[f], e.warned, read, f)
    <3>1. CASE f < sf
      <4>1. /\ Marked(c.closed[f], c.warned, read, f) /\ Distinct(<<>>, c.closed[f])
            /\ ~Broken(read, f) => Answered(<<>>, c.closed[f], c.warned, read, f)
            /\ f # sf
        BY <1>2, <1>3, <2>1, <3>1 DEF Follows, Told
      <4> QED BY <1>6, <1>8, <4>1
    <3>2. CASE f = sf
      <4>1. /\ Marked(CloseAll(sf), c.warned, read, sf) /\ Distinct(<<>>, CloseAll(sf))
            /\ Answered(<<>>, CloseAll(sf), c.warned, read, sf)
        BY <1>3, <1>4, <2>1, <3>2 DEF Follows, Told
      <4> QED BY <1>6, <1>8, <3>2, <4>1
    <3> QED BY <1>2, <1>9, <2>1, <3>1, <3>2
  <2>2. ASSUME sf + 1 \in Sources
        PROVE  /\ During(e.open, e.closed[sf + 1], e.warned, read, sf + 1, Len(read))
               /\ Distinct(e.open, e.closed[sf + 1])
    <3>1. e.open = <<>> /\ e.closed[sf + 1] = <<>>
      BY <1>1, <1>2, <1>3, <1>6, <2>2 DEF Scan, Ahead
    <3>2. Answered(<<>>, <<>>, e.warned, read, sf + 1)
      BY <1>10 DEF Answered
    <3> QED BY <3>1, <3>2 DEF During, Distinct
  <2> QED BY <2>1, <2>2 DEF Told
<1>14. Follows(e, read, sf + 1, "pragmas", 0)
  BY <1>8, <1>11, <1>12, <1>13 DEF Follows
<1> QED BY <1>1, <1>14 DEF e

\* Everything that the lookup of exemptions rests on.
FollowInv == ScanInv /\ Follows(Collector, read, sf, pass, line)

LEMMA NextFollows == FollowInv /\ [Next]_vars => FollowInv'
<1> SUFFICES ASSUME FollowInv, [Next]_vars
             PROVE  Follows(Collector', read', sf', pass', line')
  BY NextScan DEF FollowInv
<1>1. /\ TypeInv /\ Compatible(open) /\ Scan(Collector, read, sf, pass, line)
      /\ Follows(Collector, read, sf, pass, line)
  BY DEF FollowInv, ScanInv
<1>2. CASE sf \in Sources /\ pass = "pragmas"
           /\ \E a \in Upcoming("pragma", Kinds \ {"line"}, SUBSET Params) :
                ReadPragma(a) \/ ScanRaises(a)
  <2>1. PICK a \in Upcoming("pragma", Kinds \ {"line"}, SUBSET Params) :
          ReadPragma(a) \/ ScanRaises(a)
    BY <1>2
  <2>2. /\ a \in Annotations /\ a.file = sf /\ a.line > line /\ a.form = "pragma"
        /\ ReadPragma(a) => Annotates(a)
    BY <1>1, <1>2, AnnotatesPragma
  <2>3. CASE ReadPragma(a)
    <3>1. a.form = FormOf(pass)
      BY <1>2, <2>2 DEF FormOf
    <3> QED BY <1>1, <1>2, <2>2, <2>3, <3>1, AnnotatesFollows
  <2>4. CASE ScanRaises(a)
    BY <1>1, <1>2, <2>2, <2>4, RaisesFollows
  <2> QED BY <2>1, <2>3, <2>4
<1>3. CASE EndOfPragmas
  BY <1>1, <1>3, PragmasFollows
<1>4. CASE pass = "comments"
           /\ \E a \in Upcoming("comment", Kinds \ {"wrong"}, {{}}) : ReadComment(a)
  <2>1. PICK a \in Upcoming("comment", Kinds \ {"wrong"}, {{}}) : ReadComment(a)
    BY <1>4
  <2>2. Annotates(a) /\ a.form = "comment"
    BY <1>1, <1>4, <2>1, AnnotatesComment
  <2>3. a.given = {}
    BY DEF Upcoming
  <2>4. sf \in Sources /\ a.form = FormOf(pass)
    BY <1>1, <1>4, <2>2 DEF TypeInv, FormOf
  <2> QED BY <1>1, <2>2, <2>3, <2>4, AnnotatesFollows
<1>5. CASE EndOfSource
  BY <1>1, <1>5, SourceFollows
<1>6. CASE \E v \in Violations : MapDiagnostic(v)
  <2>1. /\ read' = read /\ sf' = sf /\ pass' = pass /\ line' = line
        /\ Collector' = Collector
    BY <1>6 DEF MapDiagnostic, Collector
  <2> QED BY <1>1, <2>1
<1>7. CASE WarnUnused
  <2> DEFINE e == Collector'
             c == Collector
  <2>1. /\ read' = read /\ sf' = sf /\ pass' = "done" /\ line' = line
        /\ e.open = c.open /\ e.closed = c.closed /\ sf = NumSources + 1
        /\ c.warned \subseteq e.warned /\ \A w \in e.warned \ c.warned : w.why = "unused"
    <3>1. \A f, s : Warning("unused", f, s).why = "unused"
      BY DEF Warning
    <3> QED BY <1>7, <3>1 DEF WarnUnused, Scanned, Collector
  <2>2. Follows(c, read, sf, pass, line)
    BY <1>1
  <2> HIDE DEF e, c
  <2>3. \A f \in Sources : f # sf /\ f \in Int
    BY <2>1, ExemptionsAssumption DEF Sources
  <2>4. \A k \in 1..Len(read) : read[k].file # sf
    <3>1. \A k \in 1..Len(read) : read[k] \in Annotations
      BY <1>1 DEF TypeInv, TypeOK
    <3> QED BY <2>3, <3>1 DEF Annotations
  <2>5. \A w \in e.warned \ c.warned : w.why # "rejected"
    BY <2>1
  <2>6. Grounded(e.warned, read)
    BY <2>1, <2>2, <2>5, NoRejections DEF Follows
  <2>7. /\ \A secs, f : Marked(secs, c.warned, read, f) => Marked(secs, e.warned, read, f)
        /\ \A o, secs, f :
             Answered(o, secs, c.warned, read, f) => Answered(o, secs, e.warned, read, f)
    <3>1. \A a : Refused(e.warned, a) <=> Refused(c.warned, a)
      BY <2>1, <2>5, NoRejections
    <3> QED BY <3>1, SameAnswers
  <2>8. Passed(read, sf, "done", line) /\ Ordered(read) /\ Plain(read)
    BY <2>2, <2>4 DEF Follows, Passed
  <2>9. Strangers(e, read, sf)
    BY <2>1, <2>2 DEF Follows, Strangers
  <2>10. Told(e, read, sf)
    BY <2>1, <2>2, <2>3, <2>7 DEF Follows, Told
  <2>11. Follows(e, read, sf, "done", line)
    BY <2>6, <2>8, <2>9, <2>10 DEF Follows
  <2> QED BY <2>1, <2>11 DEF e
<1>8. CASE UNCHANGED vars
  <2>1. /\ read' = read /\ sf' = sf /\ pass' = pass /\ line' = line
        /\ Collector' = Collector
    BY <1>8 DEF vars, Collector
  <2> QED BY <1>1, <2>1
<1> QED BY <1>2, <1>3, <1>4, <1>5, <1>6, <1>7, <1>8 DEF Next, Terminated

LEMMA InitFollows == Init => FollowInv
<1> SUFFICES ASSUME Init PROVE Follows(Collector, read, sf, pass, line)
  BY InitScan DEF FollowInv
<1> DEFINE c == Collector
<1>1. /\ sf = 1 /\ pass = "pragmas" /\ line = 0 /\ read = <<>>
      /\ c.open = <<>> /\ c.closed = [f \in Sources |-> <<>>] /\ c.warned = {}
  BY DEF Init, Collector
<1> HIDE DEF c
<1>2. Len(read) = 0 /\ 1..Len(read) = {} /\ c.open = <<>> /\ Len(c.open) = 0
  BY <1>1
<1>3. Passed(read, sf, pass, line) /\ Ordered(read) /\ Plain(read) /\ Grounded(c.warned, read)
  BY <1>1, <1>2 DEF Passed, Ordered, Plain, Grounded
<1>4. \A f \in Sources : c.closed[f] = <<>> /\ f >= 1 /\ f \in Int
  BY <1>1, ExemptionsAssumption DEF Sources
<1>5. Strangers(c, read, sf)
  BY <1>2, <1>4 DEF Strangers
<1>6. Told(c, read, sf)
  <2>1. \A f : Answered(<<>>, <<>>, c.warned, read, f)
    BY <1>2 DEF Answered
  <2> QED BY <1>1, <1>2, <1>4, <2>1 DEF Told, During, Distinct
<1>7. Follows(c, read, sf, pass, line)
  BY <1>3, <1>5, <1>6 DEF Follows
<1> QED BY <1>7 DEF c

-----------------------------------------------------------------------------
(* What the violations and the last warnings say *)

\* The violations come after the scan, and are exempted when they are mapped.
Mapped ==
  /\ reported # {} \/ pass = "done" => sf = NumSources + 1
  /\ \A v \in reported : v \in exempted <=> Match(v) # {}

\* A section is reported as useless in the end only, and when it is.
Said ==
  /\ pass # "done" => \A w \in warned : w.why # "unused"
  /\ pass = "done" => \A w \in warned : w.why = "unused" =>
       \E f \in Sources : \E s \in ToSet(closed[f]) :
         ~Detected(s) /\ w = Warning("unused", f, s)
  /\ pass = "done" => \A f \in Sources : \A s \in ToSet(closed[f]) :
       ~Detected(s) => Warning("unused", f, s) \in warned

LookupInv == FollowInv /\ Mapped /\ Said

\* The match of a violation changes with the sections only.
LEMMA SameMatch ==
  ASSUME closed' = closed
  PROVE  \A v : Match(v)' = Match(v)
<1>1. ASSUME NEW v, NEW name PROVE PlainMatch(v, name)' = PlainMatch(v, name)
  BY DEF PlainMatch
<1>2. ASSUME NEW v, NEW name PROVE ParamMatch(v, name)' = ParamMatch(v, name)
  BY DEF ParamMatch
<1> QED BY <1>1, <1>2 DEF Match

\* The steps of the scan.
LEMMA ScanLookup ==
  ASSUME TypeInv, Mapped, Said, sf \in Sources, pass' \in {"pragmas", "comments"},
         exempted' = exempted, reported' = reported,
         warned \subseteq warned', \A w \in warned' \ warned : w.why # "unused"
  PROVE  Mapped' /\ Said'
<1>1. reported = {} /\ pass # "done"
  BY ExemptionsAssumption DEF Mapped, Sources
<1>2. Mapped'
  BY <1>1 DEF Mapped
<1>3. \A w \in warned' : w.why # "unused"
  BY <1>1 DEF Said
<1> QED BY <1>2, <1>3 DEF Said

LEMMA AnnotatesLookup ==
  ASSUME TypeInv, Mapped, Said, NEW a, Annotates(a), sf \in Sources,
         pass \in {"pragmas", "comments"}
  PROVE  Mapped' /\ Said'
<1>1. a \in Annotations /\ Collector \in Collectors
  BY CollectorType DEF Annotates
<1>2. PICK d : TurnsOn(Collector, d, a) /\ TurnsOff(d, Effect(Collector, a), a)
  BY <1>1, EffectTold
<1>3. Adds(Collector.warned, Effect(Collector, a).warned, a)
  BY <1>2, AddsMore DEF TurnsOn, TurnsOff
<1>4. Collector.warned = warned /\ Effect(Collector, a).warned = warned'
  BY DEF Annotates, SetCollector, Collector
<1>5. warned \subseteq warned' /\ \A w \in warned' \ warned : w.why # "unused"
  BY <1>3, <1>4 DEF Adds
<1>6. pass' = pass /\ exempted' = exempted /\ reported' = reported
  BY DEF Annotates
<1> QED BY <1>5, <1>6, ScanLookup

LEMMA NextLookup == LookupInv /\ [Next]_vars => LookupInv'
<1> SUFFICES ASSUME LookupInv, [Next]_vars
             PROVE  Mapped' /\ Said'
  BY NextFollows DEF LookupInv
<1>1. TypeInv /\ Mapped /\ Said
  BY DEF LookupInv, FollowInv, ScanInv
<1>2. CASE sf \in Sources /\ pass = "pragmas"
           /\ \E a \in Upcoming("pragma", Kinds \ {"line"}, SUBSET Params) :
                ReadPragma(a) \/ ScanRaises(a)
  <2>1. PICK a \in Upcoming("pragma", Kinds \ {"line"}, SUBSET Params) :
          ReadPragma(a) \/ ScanRaises(a)
    BY <1>2
  <2>2. CASE ReadPragma(a)
    BY <1>1, <1>2, <2>2, AnnotatesPragma, AnnotatesLookup
  <2>3. CASE ScanRaises(a)
    BY <1>1, <1>2, <2>3, ScanLookup DEF ScanRaises
  <2> QED BY <2>1, <2>2, <2>3
<1>3. CASE EndOfPragmas
  BY <1>1, <1>3, ScanLookup DEF EndOfPragmas
<1>4. CASE pass = "comments"
           /\ \E a \in Upcoming("comment", Kinds \ {"wrong"}, {{}}) : ReadComment(a)
  <2>1. PICK a \in Upcoming("comment", Kinds \ {"wrong"}, {{}}) : ReadComment(a)
    BY <1>4
  <2>2. Annotates(a) /\ sf \in Sources
    BY <1>1, <1>4, <2>1, AnnotatesComment DEF TypeInv
  <2> QED BY <1>1, <1>4, <2>2, AnnotatesLookup
<1>5. CASE EndOfSource
  <2>1. \A s : Warning("unclosed", sf, s).why # "unused"
    BY DEF Warning
  <2>2. sf \in Sources
    BY <1>1, <1>5 DEF EndOfSource, TypeInv
  <2> QED BY <1>1, <1>5, <2>1, <2>2, ScanLookup DEF EndOfSource
<1>6. CASE \E v \in Violations : MapDiagnostic(v)
  <2>1. PICK v \in Violations : MapDiagnostic(v)
    BY <1>6
  <2>2. /\ sf' = sf /\ sf = NumSources + 1 /\ pass' = pass /\ pass = "pragmas"
        /\ closed' = closed /\ warned' = warned /\ reported' = reported \cup {v}
        /\ exempted' = exempted \cup (IF Match(v) # {} THEN {v} ELSE {})
        /\ v \notin reported
    BY <2>1 DEF MapDiagnostic, Scanned
  <2>3. \A u : Match(u)' = Match(u)
    BY <2>2, SameMatch
  <2>4. exempted \subseteq reported
    BY <1>1 DEF TypeInv, TypeOK
  <2>5. Mapped'
    BY <1>1, <2>2, <2>3, <2>4 DEF Mapped
  <2>6. Said'
    BY <1>1, <2>2 DEF Said
  <2> QED BY <2>5, <2>6
<1>7. CASE WarnUnused
  <2>1. /\ sf' = sf /\ sf = NumSources + 1 /\ pass' = "done" /\ pass = "pragmas"
        /\ closed' = closed /\ reported' = reported /\ exempted' = exempted
        /\ warned' = warned \cup
             UNION {{Warning("unused", f, s) :
                       s \in {s \in ToSet(closed[f]) : ~Detected(s)}} : f \in Sources}
    BY <1>7 DEF WarnUnused, Scanned
  <2>2. \A u : Match(u)' = Match(u)
    BY <2>1, SameMatch
  <2>3. \A s : Detected(s)' <=> Detected(s)
    BY <2>1, <2>2 DEF Detected
  <2>4. Mapped'
    BY <1>1, <2>1, <2>2 DEF Mapped
  <2>5. \A f \in Sources : \A s \in ToSet(closed[f]) :
          ~Detected(s) => Warning("unused", f, s) \in warned'
    BY <2>1
  <2>6. ASSUME NEW w \in warned', w.why = "unused"
        PROVE  \E f \in Sources : \E s \in ToSet(closed[f]) :
                 ~Detected(s) /\ w = Warning("unused", f, s)
    <3>1. w \notin warned
      BY <1>1, <2>1, <2>6 DEF Said
    <3> QED BY <2>1, <3>1
  <2>7. Said'
    BY <2>1, <2>3, <2>5, <2>6 DEF Said
  <2> QED BY <2>4, <2>7
<1>8. CASE UNCHANGED vars
  <2>1. /\ sf' = sf /\ pass' = pass /\ warned' = warned /\ closed' = closed
        /\ reported' = reported /\ exempted' = exempted
    BY <1>8 DEF vars
  <2>2. \A u : Match(u)' = Match(u)
    BY <2>1, SameMatch
  <2>3. \A s : Detected(s)' <=> Detected(s)
    BY <2>1, <2>2 DEF Detected
  <2> QED BY <1>1, <2>1, <2>2, <2>3 DEF Mapped, Said
<1> QED BY <1>2, <1>3, <1>4, <1>5, <1>6, <1>7, <1>8 DEF Next, Terminated

LEMMA InitLookup == Init => LookupInv
BY InitFollows DEF Init, LookupInv, Mapped, Said

-----------------------------------------------------------------------------
(* The lookup finds a section whenever there is one *)

\* The sections of source f, when everything has been scanned.
Settled(secs, f) ==
  /\ secs \in Seq(Sections) /\ Marked(secs, warned, read, f) /\ Distinct(<<>>, secs)
  /\ \A m \in 1..Len(secs) : secs[m].params # {} => secs[m].col = Columns.pragma

LEMMA SourceSettled ==
  ASSUME LookupInv, sf = NumSources + 1, NEW f \in Sources, ~Raised(f - 1)
  PROVE  /\ Settled(closed[f], f)
         /\ ~Raised(f) => Answered(<<>>, closed[f], warned, read, f) /\ ~Broken(read, f)
<1>1. TypeInv /\ Follows(Collector, read, sf, pass, line)
  BY DEF LookupInv, FollowInv, ScanInv
<1>2. read \in Seq(Annotations) /\ closed[f] \in Seq(Sections) /\ f < sf
  BY <1>1, ExemptionsAssumption DEF TypeInv, TypeOK, Sources
<1>3. ~Broken(read, f - 1) /\ (~Raised(f) => ~Broken(read, f))
  BY <1>2 DEF Raised, Broken
<1>4. /\ Marked(closed[f], warned, read, f) /\ Distinct(<<>>, closed[f])
      /\ ~Broken(read, f) => Answered(<<>>, closed[f], warned, read, f)
  BY <1>1, <1>2, <1>3 DEF Follows, Told, Collector
<1>5. ASSUME NEW m \in 1..Len(closed[f]), closed[f][m].params # {}
      PROVE  closed[f][m].col = Columns.pragma
  <2>1. \E i \in 1..Len(read) : Starts(read[i], closed[f][m])
    BY <1>4 DEF Marked, Shut, Left, Standing, Begins
  <2>2. PICK i \in 1..Len(read) : Starts(read[i], closed[f][m])
    BY <2>1
  <2>3. Parsed(read[i]) # {} /\ StartCol(read[i].form) = closed[f][m].col
    BY <1>5, <2>2 DEF Starts
  <2>4. read[i].given # {}
    BY <2>3 DEF Parsed
  <2>5. read[i] \in Annotations
    BY <1>2
  <2>6. read[i].form = "pragma"
    BY <1>1, <2>4, <2>5 DEF Follows, Plain, Annotations
  <2> QED BY <2>3, <2>6 DEF StartCol
<1> QED BY <1>2, <1>3, <1>4, <1>5 DEF Settled

\* A non-empty set of natural numbers has a least element.
LEMMA Least ==
  ASSUME NEW S, S \subseteq Nat, S # {}
  PROVE  \E m \in S : \A k \in S : m <= k
<1> DEFINE R == OpToRel(<, Nat)
<1>1. IsWellFoundedOn(R, Nat)
  BY NatLessThanWellFounded
<1>2. \A x \in Nat, y \in Nat : <<y, x>> \in R <=> y < x
  BY DEF OpToRel
<1> HIDE DEF R
<1>3. \E x \in S : \A y \in S : ~(<<y, x>> \in R)
  BY <1>1, WFMin
<1>4. PICK x \in S : \A y \in S : ~(<<y, x>> \in R)
  BY <1>3
<1>5. \A y \in S : ~(y < x) /\ x \in Nat /\ y \in Nat
  BY <1>2, <1>4
<1> QED BY <1>4, <1>5

\* Section s without or with parameters holds violation v under this name.
PlainHit(v, name, s) ==
  s.name = name /\ s.params = {} /\ v.line \in s.line..s.endLine
ParamHit(v, name, s) ==
  /\ s.name = name /\ s.params # {} /\ v.param \in s.params
  /\ ~StartsAfter(v, s) /\ ~EndsBefore(v, s)

LEMMA PlainFinds ==
  ASSUME TypeInv, NEW v \in Violations, NEW name
  PROVE  /\ \A s \in PlainMatch(v, name) : s \in ToSet(closed[v.file]) /\ PlainHit(v, name, s)
         /\ (\E s \in ToSet(closed[v.file]) : PlainHit(v, name, s)) => PlainMatch(v, name) # {}
<1> DEFINE secs == closed[v.file]
           hits == {k \in DOMAIN secs : /\ secs[k].name = name
                                       /\ secs[k].params = {}
                                       /\ v.line \in secs[k].line..secs[k].endLine}
<1>1. v.file \in Sources
  BY DEF Violations
<1>2. secs \in Seq(Sections) /\ DOMAIN secs = 1..Len(secs) /\ ToSet(secs) = {secs[k] : k \in 1..Len(secs)}
  BY <1>1 DEF TypeInv, TypeOK, ToSet
<1>3. PlainMatch(v, name) = {secs[k] : k \in {k \in hits : \A j \in hits : k <= j}}
  BY DEF PlainMatch
<1>4. \A k \in hits : k \in 1..Len(secs) /\ PlainHit(v, name, secs[k])
  BY <1>2 DEF PlainHit
<1>5. \A k \in 1..Len(secs) : PlainHit(v, name, secs[k]) => k \in hits
  BY <1>2 DEF PlainHit
<1>6. hits \subseteq Nat
  BY <1>2
<1> HIDE DEF secs, hits
<1>7. \A s \in PlainMatch(v, name) : s \in ToSet(secs) /\ PlainHit(v, name, s)
  BY <1>2, <1>3, <1>4
<1>8. ASSUME NEW s \in ToSet(secs), PlainHit(v, name, s)
      PROVE  PlainMatch(v, name) # {}
  <2>1. hits # {}
    BY <1>2, <1>5, <1>8
  <2>2. PICK k \in hits : \A j \in hits : k <= j
    BY <1>6, <2>1, Least
  <2> QED BY <1>3, <2>2
<1> QED BY <1>7, <1>8 DEF secs

LEMMA ParamFinds ==
  ASSUME TypeInv, NEW v \in Violations, NEW name, Settled(closed[v.file], v.file)
  PROVE  /\ \A s \in ParamMatch(v, name) : s \in ToSet(closed[v.file]) /\ ParamHit(v, name, s)
         /\ (\E s \in ToSet(closed[v.file]) : ParamHit(v, name, s)) => ParamMatch(v, name) # {}
<1> DEFINE all  == closed[v.file]
           secs == {s \in ToSet(all) : s.name = name /\ s.params # {}}
           hits == {s \in secs : /\ ~StartsAfter(v, s) /\ ~EndsBefore(v, s)
                                 /\ v.param \in s.params
                                 /\ \A t \in secs : Precedes(t, s) => ~StartsAfter(v, t)}
<1>1. v.file \in Sources /\ v.line \in Int /\ v.col \in Int
  BY ExemptionsAssumption DEF Violations, Lines, Columns
<1>2. all \in Seq(Sections) /\ ToSet(all) = {all[k] : k \in 1..Len(all)}
  BY <1>1 DEF TypeInv, TypeOK, ToSet
<1>3. ParamMatch(v, name) = {s \in hits : \A t \in hits \ {s} : Precedes(s, t)}
  BY DEF ParamMatch
<1>4. \A s \in ToSet(all) :
        /\ s.origin = v.file /\ s.line \in Nat /\ s.col \in Int
        /\ s.params # {} => s.col = Columns.pragma
  <2>1. \A k \in 1..Len(all) : all[k] \in Sections
    BY <1>2
  <2>2. \A k \in 1..Len(all) : all[k].line \in Nat /\ all[k].col \in Int
    BY <2>1, ExemptionsAssumption DEF Sections, Lines
  <2>3. \A k \in 1..Len(all) : /\ all[k].origin = v.file
                               /\ all[k].params # {} => all[k].col = Columns.pragma
    BY DEF Settled, Marked
  <2> QED BY <1>2, <2>2, <2>3
\* Parametric sections start on lines of their own.
<1>5. ASSUME NEW s \in secs, NEW t \in secs, s.line = t.line
      PROVE  s = t
  <2>1. SameStart(s, t)
    BY <1>4, <1>5 DEF SameStart
  <2> QED BY <1>2, <2>1 DEF Settled, Distinct
<1>6. \A s \in secs : ParamHit(v, name, s) <=>
        ~StartsAfter(v, s) /\ ~EndsBefore(v, s) /\ v.param \in s.params
  BY DEF ParamHit
<1>7. \A s \in ToSet(all) : ParamHit(v, name, s) => s \in secs
  BY DEF ParamHit
<1>8. \A s \in secs : \A t \in secs :
        Precedes(t, s) /\ ~StartsAfter(v, s) => ~StartsAfter(v, t)
  <2>1. ASSUME NEW s \in secs, NEW t \in secs, Precedes(t, s), ~StartsAfter(v, s)
        PROVE  ~StartsAfter(v, t)
    <3>1. t.line < s.line /\ s.line \in Nat /\ t.line \in Nat
      <4>1. s.origin = v.file /\ t.origin = v.file
        BY <1>4
      <4>2. v.file \in Int
        BY <1>1, ExemptionsAssumption DEF Sources
      <4> QED BY <1>4, <2>1, <4>1, <4>2 DEF Precedes
    <3>2. s.line <= v.line
      BY <1>1, <2>1, <3>1 DEF StartsAfter
    <3> QED BY <1>1, <3>1, <3>2 DEF StartsAfter
  <2> QED BY <2>1
<1>9. \A s \in hits : s \in secs /\ s \in ToSet(all) /\ ParamHit(v, name, s)
  BY <1>6
<1>10. \A s \in secs : ParamHit(v, name, s) => s \in hits
  BY <1>6, <1>8
<1>11. \A s \in secs : s \in ToSet(all)
  OBVIOUS
<1> HIDE DEF all, secs, hits
<1>12. \A s \in ParamMatch(v, name) : s \in ToSet(all) /\ ParamHit(v, name, s)
  BY <1>3, <1>9
<1>13. ASSUME NEW s \in ToSet(all), ParamHit(v, name, s)
       PROVE  ParamMatch(v, name) # {}
  <2> DEFINE S == {t.line : t \in hits}
  <2>1. S # {}
    BY <1>7, <1>10, <1>13
  <2>2. S \subseteq Nat
    BY <1>4, <1>9
  <2>3. PICK m \in S : \A k \in S : m <= k
    BY <2>1, <2>2, Least
  <2>4. PICK t \in hits : t.line = m
    BY <2>3
  <2>5. ASSUME NEW u \in hits \ {t}
        PROVE  Precedes(t, u)
    <3>1. t \in secs /\ u \in secs /\ u # t
      BY <1>9, <2>5
    <3>2. t.line # u.line
      BY <1>5, <3>1
    <3>3. t.line <= u.line
      BY <2>3, <2>4
    <3>4. t.origin = u.origin /\ t.line \in Nat /\ u.line \in Nat
      BY <1>4, <1>11, <3>1
    <3> QED BY <3>2, <3>3, <3>4 DEF Precedes
  <2> QED BY <1>3, <2>5
<1> QED BY <1>12, <1>13 DEF all

\* The violation is charged to a section that holds it, whenever there is one.
LEMMA MatchFinds ==
  ASSUME TypeInv, NEW v \in Violations, Settled(closed[v.file], v.file)
  PROVE  /\ \A s \in Match(v) : s \in ToSet(closed[v.file]) /\ Inside(v, s)
         /\ (\E s \in ToSet(closed[v.file]) : Inside(v, s)) => Match(v) # {}
<1> DEFINE rule  == Own(v.name)
           secs  == ToSet(closed[v.file])
           tried == <<PlainMatch(v, rule), PlainMatch(v, v.name),
                      ParamMatch(v, rule), ParamMatch(v, v.name)>>
           first == {i \in 1..4 : \A j \in 1..(i - 1) : tried[j] = {}}
<1>1. Match(v) = UNION {tried[i] : i \in first}
  BY DEF Match
<1>2. /\ \A s \in tried[1] : s \in secs /\ PlainHit(v, rule, s)
      /\ \A s \in tried[2] : s \in secs /\ PlainHit(v, v.name, s)
      /\ \A s \in tried[3] : s \in secs /\ ParamHit(v, rule, s)
      /\ \A s \in tried[4] : s \in secs /\ ParamHit(v, v.name, s)
  BY PlainFinds, ParamFinds
<1>3. /\ (\E s \in secs : PlainHit(v, rule, s)) => tried[1] # {}
      /\ (\E s \in secs : PlainHit(v, v.name, s)) => tried[2] # {}
      /\ (\E s \in secs : ParamHit(v, rule, s)) => tried[3] # {}
      /\ (\E s \in secs : ParamHit(v, v.name, s)) => tried[4] # {}
  BY PlainFinds, ParamFinds
<1>4. \A s : Inside(v, s) <=> \/ PlainHit(v, rule, s) \/ PlainHit(v, v.name, s)
                              \/ ParamHit(v, rule, s) \/ ParamHit(v, v.name, s)
  BY DEF Inside, PlainHit, ParamHit
<1>5. \A i : i \in first <=> i \in 1..4 /\ \A j \in 1..(i - 1) : tried[j] = {}
  OBVIOUS
<1> HIDE DEF rule, secs, tried, first
<1>6. ASSUME NEW s \in Match(v)
      PROVE  s \in secs /\ Inside(v, s)
  <2>1. PICK i \in first : s \in tried[i]
    BY <1>1, <1>6
  <2>2. i = 1 \/ i = 2 \/ i = 3 \/ i = 4
    BY <1>5
  <2> QED BY <1>2, <1>4, <2>1, <2>2
<1>7. ASSUME NEW s \in secs, Inside(v, s)
      PROVE  Match(v) # {}
  <2> DEFINE S == {i \in 1..4 : tried[i] # {}}
  <2>1. S # {}
    BY <1>3, <1>4, <1>7
  <2>2. PICK m \in S : \A k \in S : m <= k
    BY <2>1, Least
  <2>3. m \in first
    <3>1. \A j \in 1..(m - 1) : j \in 1..4 /\ ~(m <= j)
      OBVIOUS
    <3>2. \A j \in 1..(m - 1) : tried[j] = {}
      BY <2>2, <3>1
    <3> QED BY <1>5, <3>2
  <2> QED BY <1>1, <2>3
<1> QED BY <1>6, <1>7 DEF secs

LEMMA MatchAmong ==
  ASSUME TypeInv, NEW v \in Violations, NEW s \in Match(v)
  PROVE  s \in ToSet(closed[v.file])
<1>1. \A name : \A t \in PlainMatch(v, name) : t \in ToSet(closed[v.file])
  BY PlainFinds
<1>2. \A name : \A t \in ParamMatch(v, name) : t \in ToSet(closed[v.file])
  BY DEF ParamMatch
<1> DEFINE tried == <<PlainMatch(v, Own(v.name)), PlainMatch(v, v.name),
                      ParamMatch(v, Own(v.name)), ParamMatch(v, v.name)>>
<1>3. \A i \in 1..4 : \A t \in tried[i] : t \in ToSet(closed[v.file])
  <2>1. \A t \in tried[1] : t \in ToSet(closed[v.file])
    BY <1>1
  <2>2. \A t \in tried[2] : t \in ToSet(closed[v.file])
    BY <1>1
  <2>3. \A t \in tried[3] : t \in ToSet(closed[v.file])
    BY <1>2
  <2>4. \A t \in tried[4] : t \in ToSet(closed[v.file])
    BY <1>2
  <2> HIDE DEF tried
  <2>5. \A i \in 1..4 : i = 1 \/ i = 2 \/ i = 3 \/ i = 4
    OBVIOUS
  <2> QED BY <2>1, <2>2, <2>3, <2>4, <2>5
<1>4. \E i \in 1..4 : s \in tried[i]
  BY DEF Match
<1> QED BY <1>3, <1>4

\* A section of a settled source can only be charged with violations of it.
LEMMA OwnViolations ==
  ASSUME LookupInv, sf = NumSources + 1, NEW f \in Sources, ~Raised(f - 1), ~Raised(f),
         NEW s \in ToSet(closed[f]), NEW v \in Violations, s \in Match(v)
  PROVE  v.file = f
<1>1. TypeInv /\ Follows(Collector, read, sf, pass, line)
  BY DEF LookupInv, FollowInv, ScanInv
<1>2. Settled(closed[f], f) /\ ~Broken(read, f)
  BY SourceSettled
<1>3. s.origin = f
  BY <1>2 DEF Settled, Marked, ToSet
<1>4. v.file \in Sources
  BY DEF Violations
<1>5. s \in ToSet(closed[v.file])
  BY <1>1, MatchAmong
<1>6. closed[v.file] \in Seq(Sections)
  BY <1>1, <1>4 DEF TypeInv, TypeOK
<1>7. PICK m \in 1..Len(closed[v.file]) : s = closed[v.file][m]
  BY <1>5, <1>6 DEF ToSet
<1> QED BY <1>1, <1>2, <1>3, <1>4, <1>7 DEF Follows, Strangers, Collector

LEMMA LookupUseless == LookupInv => UnusedAreUseless
<1> SUFFICES ASSUME LookupInv, NEW f \in Sources, pass = "done", ~Raised(f - 1),
                    ~Raised(f), NEW s \in ToSet(closed[f])
             PROVE  LET held == {v \in reported : v.file = f /\ Inside(v, s)}
                    IN IF Warning("unused", f, s) \in warned
                       THEN \A v \in held : \E t \in ToSet(closed[f]) \ {s} : Inside(v, t)
                       ELSE held \cap exempted # {}
  BY DEF UnusedAreUseless
<1>1. TypeInv /\ Mapped /\ Said
  BY DEF LookupInv, FollowInv, ScanInv
<1>2. sf = NumSources + 1 /\ reported \subseteq Violations
  BY <1>1 DEF Mapped, TypeInv, TypeOK
<1>3. Settled(closed[f], f)
  BY <1>2, SourceSettled
<1>4. CASE Warning("unused", f, s) \in warned
  <2>1. ~Detected(s)
    <3> DEFINE w == Warning("unused", f, s)
    <3>1. w.why = "unused" /\ w.file = f /\ w.line = s.line /\ w.col = s.col
      BY DEF Warning
    <3>2. \A g, t : /\ Warning("unused", g, t).file = g
                    /\ Warning("unused", g, t).line = t.line
                    /\ Warning("unused", g, t).col = t.col
      BY DEF Warning
    <3> HIDE DEF w
    <3>3. w \in warned
      BY <1>4 DEF w
    <3>4. PICK g \in Sources : \E t \in ToSet(closed[g]) :
                                 ~Detected(t) /\ w = Warning("unused", g, t)
      BY <1>1, <3>1, <3>3 DEF Said
    <3>5. PICK t \in ToSet(closed[g]) : ~Detected(t) /\ w = Warning("unused", g, t)
      BY <3>4
    <3>6. g = f /\ SameStart(s, t)
      BY <3>1, <3>2, <3>5 DEF SameStart
    <3>7. s = t
      BY <1>3, <3>6 DEF Settled, Distinct, ToSet
    <3> QED BY <3>5, <3>7
  <2>2. ASSUME NEW v \in reported, v.file = f, Inside(v, s)
        PROVE  \E t \in ToSet(closed[f]) \ {s} : Inside(v, t)
    <3>1. v \in Violations
      BY <1>2
    <3>2. PICK t : t \in Match(v)
      BY <1>1, <1>3, <2>2, <3>1, MatchFinds
    <3>3. t \in ToSet(closed[f]) /\ Inside(v, t)
      BY <1>1, <1>3, <2>2, <3>1, <3>2, MatchFinds
    <3>4. t # s
      BY <2>1, <3>2 DEF Detected
    <3> QED BY <3>3, <3>4
  <2> QED BY <1>4, <2>2
<1>5. CASE Warning("unused", f, s) \notin warned
  <2>1. PICK v \in reported : s \in Match(v)
    BY <1>1, <1>5 DEF Said, Detected
  <2>2. v \in Violations /\ v \in exempted
    BY <1>1, <1>2, <2>1 DEF Mapped
  <2>3. v.file = f
    BY <1>2, <2>1, <2>2, OwnViolations
  <2>4. Inside(v, s)
    BY <1>1, <1>3, <2>1, <2>2, <2>3, MatchFinds
  <2> QED BY <1>5, <2>1, <2>2, <2>3, <2>4
<1> QED BY <1>4, <1>5

\* A section is reported as useless only when its annotations can be removed
\* without exposing a violation, and every other one exempts a violation: for
\* any number of sources, annotations and violations, in a source whose scan did
\* not raise and that does not follow one whose scan did.
THEOREM UselessSections == Spec => []UnusedAreUseless
<1> QED BY InitLookup, NextLookup, LookupUseless, PTL DEF Spec

-----------------------------------------------------------------------------
(* The sections hold the violations between their annotations *)

\* Types of what is compared.
LEMMA ReadTypes ==
  ASSUME TypeInv
  PROVE  \A k \in 1..Len(read) :
           /\ read[k] \in Annotations /\ read[k].line \in Nat /\ read[k].file \in Int
           /\ read[k].form \in {"pragma", "comment"}
<1>1. \A k \in 1..Len(read) : read[k] \in Annotations
  BY DEF TypeInv, TypeOK
<1> QED BY <1>1, ExemptionsAssumption DEF Annotations, Lines, Sources

\* The first annotation that ends section s, from the i-th on, is before v.
EndsIn(s, i, v) ==
  \E j \in i..Len(read) :
    /\ Ends(read[j], s) /\ EndedBefore(read[j], v)
    /\ \A k \in i..(j - 1) : ~Ends(read[k], s)

\* A section that annotation i has opened holds v under the conditions of
\* InForce.
LEMMA HeldBetween ==
  ASSUME LookupInv, sf = NumSources + 1, NEW v \in Violations,
         Settled(closed[v.file], v.file),
         NEW m \in 1..Len(closed[v.file]), NEW i \in 1..Len(read),
         Begins(warned, read, closed[v.file][m], i),
         closed[v.file][m].name \in {v.name, Own(v.name)},
         \/ Left(warned, read, closed[v.file][m])
            /\ \A k \in i..Len(read) : ~Ends(read[k], closed[v.file][m])
         \/ \E j \in i..Len(read) : ClosedBy(read, closed[v.file][m], i, j)
  PROVE  Inside(v, closed[v.file][m]) <=>
           /\ Parsed(read[i]) = {} \/ v.param \in Parsed(read[i])
           /\ StartedBefore(read[i], v)
           /\ ~EndsIn(closed[v.file][m], i, v)
<1> DEFINE s == closed[v.file][m]
           a == read[i]
<1>1. TypeInv /\ Plain(read)
  BY DEF LookupInv, FollowInv, ScanInv, Follows
<1>2. \A k \in 1..Len(read) :
        read[k].line \in Nat /\ read[k].form \in {"pragma", "comment"}
  BY <1>1, ReadTypes
<1>3. /\ v.line \in Nat /\ v.line <= NumLines /\ v.col \in {1, 3}
      /\ NumLines \in Nat
  BY ExemptionsAssumption DEF Violations, Lines, Columns
<1>4. /\ s.origin = v.file /\ a.file = v.file
      /\ s.line = a.line /\ s.col = StartCol(a.form) /\ s.params = Parsed(a)
      /\ s.name \in {v.name, Own(v.name)}
      /\ s.params # {} => s.col = 2
  BY DEF Settled, Marked, Begins, Starts, Columns
<1>5. \A k \in 1..Len(read) : Parsed(read[k]) # {} => read[k].form = "pragma"
  BY <1>1, <1>2 DEF Plain, Parsed
<1>6. \/ /\ s.endLine = NumLines /\ s.endCol = 4
         /\ \A k \in i..Len(read) : ~Ends(read[k], s)
      \/ \E j \in i..Len(read) : ClosedBy(read, s, i, j)
  BY DEF Left, Columns
<1>7. i \in Nat /\ \A j \in i..Len(read) : j \in 1..Len(read)
  OBVIOUS
<1> HIDE DEF s, a
<1>8. a.line \in Nat
  BY <1>2 DEF a
<1>9. StartedBefore(a, v) <=>
        IF s.params = {} THEN s.line <= v.line ELSE ~StartsAfter(v, s)
  BY <1>3, <1>4, <1>8 DEF StartedBefore, StartsAfter, Columns
\* The annotation that closed the section is the first that ends it.
<1>10. ASSUME NEW j \in i..Len(read), ClosedBy(read, s, i, j)
       PROVE  /\ s.endLine = read[j].line /\ s.endLine \in Nat
              /\ s.params # {} => s.endCol = 3
              /\ Ends(read[j], s)
              /\ \A k \in i..(j - 1) : ~Ends(read[k], s)
  <2>1. /\ j \in 1..Len(read) /\ Ends(read[j], s) /\ s.endLine = read[j].line
        /\ s.endCol = EndCol(read[j].form)
        /\ \A k \in i..(j - 1) : ~Ends(read[k], s)
    BY <1>7, <1>10 DEF ClosedBy
  <2>2. s.params # {} => s.endCol = 3
    BY <1>5, <2>1 DEF Ends, EndCol, Columns
  <2> QED BY <1>2, <2>1, <2>2
<1>11. \A k \in 1..Len(read) : Ends(read[k], s) =>
         (EndedBefore(read[k], v) <=>
            \/ read[k].line < v.line
            \/ read[k].line = v.line /\ s.params # {} /\ v.col = 3)
  BY DEF Ends, EndedBefore, Columns
<1>12. (~EndsIn(s, i, v)) <=>
         IF s.params = {} THEN v.line <= s.endLine ELSE ~EndsBefore(v, s)
  <2>1. CASE /\ s.endLine = NumLines /\ s.endCol = 4
             /\ \A k \in i..Len(read) : ~Ends(read[k], s)
    BY <1>3, <2>1 DEF EndsIn, EndsBefore
  <2>2. CASE \E j \in i..Len(read) : ClosedBy(read, s, i, j)
    <3>1. PICK j \in i..Len(read) : ClosedBy(read, s, i, j)
      BY <2>2
    <3>2. /\ s.endLine = read[j].line /\ s.endLine \in Nat
          /\ s.params # {} => s.endCol = 3
          /\ Ends(read[j], s)
          /\ \A k \in i..(j - 1) : ~Ends(read[k], s)
      BY <1>10, <3>1
    <3>3. EndsIn(s, i, v) <=>
            \/ s.endLine < v.line
            \/ s.endLine = v.line /\ s.params # {} /\ v.col = 3
      <4>1. ASSUME NEW k \in i..Len(read), Ends(read[k], s), EndedBefore(read[k], v),
                   \A n \in i..(k - 1) : ~Ends(read[n], s)
            PROVE  \/ s.endLine < v.line
                   \/ s.endLine = v.line /\ s.params # {} /\ v.col = 3
        <5>1. k \notin i..(j - 1) /\ j \notin i..(k - 1)
          BY <3>2, <4>1
        <5>2. k = j
          BY <1>7, <5>1
        <5> QED BY <1>7, <1>11, <3>2, <4>1, <5>2
      <4>2. ASSUME \/ s.endLine < v.line
                   \/ s.endLine = v.line /\ s.params # {} /\ v.col = 3
            PROVE  EndedBefore(read[j], v)
        BY <1>7, <1>11, <3>2, <4>2
      <4> QED BY <3>2, <4>1, <4>2 DEF EndsIn
    <3> QED BY <1>3, <3>2, <3>3 DEF EndsBefore
  <2> QED BY <1>6, <2>1, <2>2
<1>13. Inside(v, s) <=>
         IF s.params = {} THEN v.line \in s.line..s.endLine
         ELSE v.param \in s.params /\ ~StartsAfter(v, s) /\ ~EndsBefore(v, s)
  BY <1>4 DEF Inside
<1>14. s.line \in Int /\ s.endLine \in Int
  <2>1. CASE \E j \in i..Len(read) : ClosedBy(read, s, i, j)
    BY <1>4, <1>8, <1>10, <2>1
  <2> QED BY <1>3, <1>4, <1>6, <1>8, <2>1
<1>15. v.line \in s.line..s.endLine <=> s.line <= v.line /\ v.line <= s.endLine
  BY <1>3, <1>14
<1> QED BY <1>4, <1>9, <1>12, <1>13, <1>15 DEF s, a

\* One annotation begins a section.
LEMMA BeginsOnce ==
  ASSUME LookupInv, NEW s, NEW i \in 1..Len(read), NEW k \in 1..Len(read),
         Starts(read[i], s), Starts(read[k], s)
  PROVE  i = k
<1>1. TypeInv /\ Ordered(read)
  BY DEF LookupInv, FollowInv, ScanInv, Follows
<1>2. \A j \in 1..Len(read) :
        read[j].line \in Nat /\ read[j].form \in {"pragma", "comment"}
  BY <1>1, ReadTypes
<1>3. /\ read[i].file = read[k].file /\ read[i].line = read[k].line
      /\ StartCol(read[i].form) = StartCol(read[k].form)
  BY DEF Starts
<1>4. read[i].form = read[k].form
  BY <1>2, <1>3 DEF StartCol, Columns
<1>5. CASE i < k
  <2>1. i \in 1..(k - 1)
    BY <1>5
  <2> QED BY <1>1, <1>2, <1>3, <1>4, <2>1 DEF Ordered
<1>6. CASE k < i
  <2>1. k \in 1..(i - 1)
    BY <1>6
  <2> QED BY <1>1, <1>2, <1>3, <1>4, <2>1 DEF Ordered
<1> QED BY <1>5, <1>6

\* An annotation that has begun a section, and how the section ended.
LEMMA BegunAt ==
  ASSUME LookupInv, NEW f \in Sources, Settled(closed[f], f),
         NEW m \in 1..Len(closed[f])
  PROVE  \E i \in 1..Len(read) :
           /\ Begins(warned, read, closed[f][m], i)
           /\ \/ /\ Left(warned, read, closed[f][m])
                 /\ \A k \in i..Len(read) : ~Ends(read[k], closed[f][m])
              \/ \E j \in i..Len(read) : ClosedBy(read, closed[f][m], i, j)
<1>1. Shut(warned, read, closed[f][m]) \/ Left(warned, read, closed[f][m])
  BY DEF Settled, Marked
<1>2. CASE Shut(warned, read, closed[f][m])
  BY <1>2 DEF Shut
<1>3. CASE Left(warned, read, closed[f][m])
  BY <1>3 DEF Left, Standing
<1> QED BY <1>1, <1>2, <1>3

\* An annotation that could exempt v is not dropped silently.
LEMMA NotMoot ==
  ASSUME NEW v \in Violations, NEW a \in Annotations, a.name \in {v.name, Own(v.name)},
         Parsed(a) = {} \/ v.param \in Parsed(a)
  PROVE  ~Moot(a)
<1>1. /\ v.name \in Known /\ Own(v.name) \in Enabled
      /\ Allowed[Own(v.name)] = {} \/ v.param \in Allowed[Own(v.name)] \ Idle
  BY DEF Violations
<1>2. Own(v.name) \in Rules
  BY <1>1, ExemptionsAssumption
<1>3. Own(Own(v.name)) = Own(v.name)
  BY <1>2, ExemptionsAssumption DEF Own
<1>4. Own(a.name) = Own(v.name)
  BY <1>3
<1>5. Parsed(a) \subseteq Allowed[Own(v.name)]
  BY <1>4 DEF Parsed
<1> QED BY <1>1, <1>4, <1>5 DEF Moot

\* What a section that annotation a opens ends with is what undoes a.
LEMMA UndoneAs ==
  ASSUME NEW a, NEW s, Starts(a, s)
  PROVE  \A b : Undoes(b, a) <=> Ends(b, s)
BY DEF Starts, Undoes, Ends

LEMMA InForceHeld ==
  ASSUME LookupInv, sf = NumSources + 1, NEW v \in Violations,
         Settled(closed[v.file], v.file)
  PROVE  /\ (\E s \in ToSet(closed[v.file]) : Inside(v, s)) => InForce(v)
         /\ InForce(v) /\ Answered(<<>>, closed[v.file], warned, read, v.file) =>
              \E s \in ToSet(closed[v.file]) : Inside(v, s)
<1> DEFINE f == v.file
           secs == closed[f]
<1>1. f \in Sources
  BY DEF Violations
<1>2. TypeInv
  BY DEF LookupInv, FollowInv, ScanInv
<1>3. /\ read \in Seq(Annotations) /\ DOMAIN read = 1..Len(read)
      /\ ToSet(secs) = {secs[m] : m \in 1..Len(secs)}
  BY <1>1, <1>2 DEF TypeInv, TypeOK, ToSet
<1>4. ASSUME NEW m \in 1..Len(secs), Inside(v, secs[m])
      PROVE  InForce(v)
  <2>1. PICK i \in 1..Len(read) :
           /\ Begins(warned, read, secs[m], i)
           /\ \/ /\ Left(warned, read, secs[m])
                 /\ \A k \in i..Len(read) : ~Ends(read[k], secs[m])
              \/ \E j \in i..Len(read) : ClosedBy(read, secs[m], i, j)
    BY <1>1, BegunAt
  <2>2. secs[m].name \in {v.name, Own(v.name)}
    BY <1>4 DEF Inside
  <2>3. /\ Parsed(read[i]) = {} \/ v.param \in Parsed(read[i])
        /\ StartedBefore(read[i], v)
        /\ ~EndsIn(secs[m], i, v)
    BY <1>4, <2>1, <2>2, HeldBetween
  <2>4. /\ read[i].kind \in {"on", "line"} /\ read[i].file = secs[m].origin
        /\ read[i].name = secs[m].name
        /\ Warning("rejected", read[i].file, At(read[i])) \notin warned
    BY <2>1 DEF Begins, Starts, Refused
  <2>5. secs[m].origin = f
    BY DEF Settled, Marked
  <2>6. \A b : Undoes(b, read[i]) <=> Ends(b, secs[m])
    BY <2>1, UndoneAs DEF Begins
  <2>7. ~\E j \in i..Len(read) :
           /\ Undoes(read[j], read[i]) /\ EndedBefore(read[j], v)
           /\ \A k \in i..(j - 1) : ~Undoes(read[k], read[i])
    BY <2>3, <2>6 DEF EndsIn
  <2> QED BY <1>3, <2>2, <2>3, <2>4, <2>5, <2>7 DEF InForce
<1>5. ASSUME InForce(v), Answered(<<>>, secs, warned, read, f)
      PROVE  \E m \in 1..Len(secs) : Inside(v, secs[m])
  <2>1. PICK i \in 1..Len(read) :
          /\ read[i].file = f /\ read[i].kind \in {"on", "line"}
          /\ read[i].name \in {v.name, Own(v.name)}
          /\ Warning("rejected", read[i].file, At(read[i])) \notin warned
          /\ Parsed(read[i]) = {} \/ v.param \in Parsed(read[i])
          /\ StartedBefore(read[i], v)
          /\ ~\E j \in i..Len(read) :
               /\ Undoes(read[j], read[i]) /\ EndedBefore(read[j], v)
               /\ \A k \in i..(j - 1) : ~Undoes(read[k], read[i])
    BY <1>3, <1>5 DEF InForce
  <2>2. read[i] \in Annotations
    BY <1>3
  <2>3. Opening(read[i])
    BY <2>1, <2>2, NotMoot DEF Opening
  <2>4. PICK m \in 1..Len(secs) : Starts(read[i], secs[m])
    BY <1>5, <2>1, <2>3 DEF Answered, Refused
  <2>5. PICK k \in 1..Len(read) :
           /\ Begins(warned, read, secs[m], k)
           /\ \/ /\ Left(warned, read, secs[m])
                 /\ \A n \in k..Len(read) : ~Ends(read[n], secs[m])
              \/ \E j \in k..Len(read) : ClosedBy(read, secs[m], k, j)
    BY <1>1, BegunAt
  <2>6. k = i
    BY <2>4, <2>5, BeginsOnce DEF Begins
  <2>7. secs[m].name \in {v.name, Own(v.name)}
    BY <2>1, <2>4 DEF Starts
  <2>8. \A b : Undoes(b, read[i]) <=> Ends(b, secs[m])
    BY <2>4, UndoneAs
  <2>9. ~EndsIn(secs[m], i, v)
    BY <2>1, <2>8 DEF EndsIn
  <2>10. Inside(v, secs[m])
    BY <2>1, <2>5, <2>6, <2>7, <2>9, HeldBetween
  <2> QED BY <2>10
<1> QED BY <1>3, <1>4, <1>5

LEMMA LookupExact == LookupInv => ExemptedExactly
<1> SUFFICES ASSUME LookupInv, NEW v \in reported, ~Raised(v.file - 1)
             PROVE  /\ v \in exempted => InForce(v)
                    /\ InForce(v) /\ ~Raised(v.file) => v \in exempted
  BY DEF ExemptedExactly
<1>1. TypeInv /\ Mapped
  BY DEF LookupInv, FollowInv, ScanInv
<1>2. sf = NumSources + 1 /\ v \in Violations /\ (v \in exempted <=> Match(v) # {})
  BY <1>1 DEF Mapped, TypeInv, TypeOK
<1>3. v.file \in Sources
  BY <1>2 DEF Violations
<1>4. /\ Settled(closed[v.file], v.file)
      /\ ~Raised(v.file) => Answered(<<>>, closed[v.file], warned, read, v.file)
  BY <1>1, <1>2, <1>3, SourceSettled
<1>5. Match(v) # {} <=> \E s \in ToSet(closed[v.file]) : Inside(v, s)
  BY <1>1, <1>2, <1>4, MatchFinds
<1> QED BY <1>2, <1>4, <1>5, InForceHeld

\* In a source that does not follow one whose scan raised, a violation is
\* exempted only between annotations that exempt it and, if the scan of the source
\* did not raise, whenever it is: for any number of sources, annotations of both
\* forms and violations, and whatever happened in the other sources.
THEOREM ExactExemptions == Spec => []ExemptedExactly
<1> QED BY InitLookup, NextLookup, LookupExact, PTL DEF Spec

=============================================================================
