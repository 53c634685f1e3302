---------------------------- MODULE KpScanProofs ----------------------------
(***************************************************************************)
(* Proofs about KpScan, for every listing: its types, that a report is     *)
(* justified, that what is missed is explained, and that the exit code     *)
(* tells whether there is a report.                                        *)
(***************************************************************************)
EXTENDS KpScan, TLAPS

\* The symbols that are read.
Symbols == [insns : Seq(Lines), relocs : SUBSET Nat]

\* Nothing is checked before the end of the listing, and the exit code is only
\* known at the end.
Phases ==
  /\ phase \in {"parse", "check", "exit"}
  /\ phase = "parse" => /\ sym = 1 /\ at = 1 /\ last = None /\ ~detected
                        /\ printed = {} /\ ~errors /\ status = None
  /\ phase = "check" => line > Len(file) /\ status = None
  /\ phase = "exit" => IF line > Len(file) THEN status = IF errors THEN 1 ELSE 0
                                           ELSE status = 1 /\ printed = {}

\* The types, with those of the listing and of the symbols.
Types ==
  /\ file \in Seq(Lines) /\ line \in 1..(Len(file) + 1)
  /\ syms \in Seq(Symbols) /\ sym \in 1..(Len(syms) + 1)
  /\ sym <= Len(syms) => at \in 1..(Len(syms[sym].insns) + 1)
  /\ at \in Nat \ {0}
  /\ last # None => last \in 1..(at - 1)
  /\ detected \in BOOLEAN /\ errors \in BOOLEAN

\* The errors are the reports, each of a symbol that was read.
Reports ==
  /\ \A report \in printed : report[1] \in DOMAIN syms
  /\ errors <=> printed # {}

TypeInv == Types /\ Phases /\ Reports

\* What the scan of a function knows: a return it has just passed is the last
\* instruction, and an increment it has detected is still in force.
ScanInv ==
  sym <= Len(syms) /\ IsLeaf(sym) =>
    /\ at > 1 /\ IsRet(syms[sym].insns[at - 1]) => last = at - 1
    /\ detected => Incremented(sym, at)

-----------------------------------------------------------------------------
LEMMA InitTypes == Init => TypeInv
<1> SUFFICES ASSUME Init PROVE TypeInv
  OBVIOUS
<1>1. file \in Seq(Lines) /\ Len(file) \in Nat /\ Len(syms) = 0
  BY KpScanAssumption DEF Init
<1>2. Types
  <2>1. syms \in Seq(Symbols) /\ sym = 1 /\ ~(sym <= Len(syms))
    BY <1>1 DEF Init
  <2>2. line = 1 /\ at = 1 /\ last = None /\ detected = FALSE /\ errors = FALSE
    BY DEF Init
  <2>3. 1 \in 1..(Len(file) + 1) /\ 1 \in 1..(Len(syms) + 1)
    BY <1>1
  <2>4. /\ last # None => last \in 1..(at - 1)
        /\ detected \in BOOLEAN /\ errors \in BOOLEAN
    BY <2>2, Zenon
  <2> QED BY <1>1, <2>1, <2>2, <2>3, <2>4 DEF Types
<1>3. Phases /\ Reports
  BY DEF Init, Phases, Reports
<1> QED BY <1>2, <1>3 DEF TypeInv

\* Registering a line in a symbol gives a symbol.
LEMMA RegisteredSymbol ==
  ASSUME NEW symbol \in Symbols, NEW l \in Lines, l.type \in {"insn", "reloc"}
  PROVE  Registered(symbol, l) \in Symbols
<1>1. CASE l.type = "insn"
  BY <1>1 DEF Registered, Symbols
<1>2. CASE l.type = "reloc"
  <2>1. l.offset \in Nat
    BY <1>2 DEF Lines
  <2> QED
    BY <1>2, <2>1 DEF Registered, Symbols
<1> QED BY <1>1, <1>2

LEMMA StepTypes == TypeInv /\ [Next]_vars => TypeInv'
<1> SUFFICES ASSUME TypeInv, [Next]_vars PROVE TypeInv'
  OBVIOUS
<1> USE DEF TypeInv
<1>1. CASE ReadLine
  <2> DEFINE l == file[line]
  <2>1. l \in Lines /\ l.type \in {"symbol", "blank", "insn", "reloc"}
    BY <1>1 DEF ReadLine, Types, Lines
  <2>2. syms' \in Seq(Symbols) /\ Len(syms') >= Len(syms)
    <3>1. CASE l.type = "symbol"
      <4>1. NewSymbol \in Symbols
        BY DEF NewSymbol, Symbols
      <4> QED BY <1>1, <3>1, <4>1 DEF ReadLine, Types
    <3>2. CASE l.type = "blank"
      BY <1>1, <3>2 DEF ReadLine, Types
    <3>3. CASE l.type \in {"insn", "reloc"}
      <4>1. syms # <<>>
        BY <1>1, <3>3 DEF ReadLine, Orphan
      <4>2. Len(syms) \in DOMAIN syms /\ syms[Len(syms)] \in Symbols
        BY <4>1 DEF Types
      <4>3. Registered(syms[Len(syms)], l) \in Symbols
        BY <4>2, <3>3, <2>1, RegisteredSymbol
      <4>4. syms' = [syms EXCEPT ![Len(syms)] = Registered(syms[Len(syms)], l)]
        BY <1>1, <3>3 DEF ReadLine
      <4> QED BY <4>2, <4>3, <4>4 DEF Types
    <3> QED BY <2>1, <3>1, <3>2, <3>3
  <2>3. Types'
    <3>1. sym = 1 /\ at = 1
      BY <1>1 DEF ReadLine, Phases
    <3>2. sym' = 1 /\ at' = 1
      BY <1>1, <3>1 DEF ReadLine
    <3>3. sym' <= Len(syms') => Len(syms'[sym'].insns) \in Nat
      BY <2>2, <3>2 DEF Symbols
    <3>4. line' \in 1..(Len(file') + 1) /\ file' \in Seq(Lines)
      BY <1>1 DEF ReadLine, Types
    <3> QED BY <1>1, <2>2, <3>1, <3>2, <3>3, <3>4 DEF ReadLine, Types, Phases
  <2>4. Phases' /\ Reports'
    BY <1>1 DEF ReadLine, Phases, Reports
  <2> QED BY <2>3, <2>4
<1>2. CASE ParseFails
  BY <1>2 DEF ParseFails, Types, Phases, Reports
<1>3. CASE ParseEnds
  BY <1>3 DEF ParseEnds, Types, Phases, Reports
<1>4. CASE DetectIncrement
  BY <1>4 DEF DetectIncrement, Scanning, Types, Phases, Reports
<1>5. CASE IgnoreAccess
  BY <1>5 DEF IgnoreAccess, Scanning, Types, Phases, Reports
<1>6. CASE CheckInsn
  <2>1. Types'
    BY <1>6 DEF CheckInsn, Scanning, StillDetected, Types
  <2>2. Phases'
    BY <1>6 DEF CheckInsn, Scanning, Phases
  <2>3. Reports'
    <3>1. PICK found : /\ \A r \in found : r[1] = sym
                       /\ printed' = printed \cup found
                       /\ errors' = (errors \/ found # {})
      <4> DEFINE F == (IF Suspicious THEN {<<sym, at, "access">>} ELSE {})
                      \cup (IF detected /\ IsLocalBranch(Insn)
                            THEN {<<sym, at, "branch">>} ELSE {})
      <4>1. \A r \in F : r[1] = sym
        OBVIOUS
      <4>2. printed' = printed \cup F /\ errors' = (errors \/ F # {})
        BY <1>6 DEF CheckInsn
      <4> QED BY <4>1, <4>2
    <3>2. sym \in DOMAIN syms /\ syms' = syms
      BY <1>6 DEF CheckInsn, Scanning, Types
    <3>3. \A report \in printed' : report[1] \in DOMAIN syms'
      BY <3>1, <3>2 DEF Reports
    <3>4. errors' <=> printed' # {}
      BY <3>1 DEF Reports
    <3> QED BY <3>3, <3>4 DEF Reports
  <2> QED BY <2>1, <2>2, <2>3
<1>7. CASE CheckEnds
  <2>1. Types'
    <3>1. sym + 1 <= Len(syms) => Len(syms[sym + 1].insns) \in Nat
      BY DEF Types, Symbols
    <3>2. /\ sym' = sym + 1 /\ sym <= Len(syms) /\ at' = 1 /\ last' = None
          /\ detected' = FALSE /\ UNCHANGED <<file, line, syms, errors>>
      BY <1>7 DEF CheckEnds
    <3>3. sym' \in 1..(Len(syms') + 1)
      BY <3>2 DEF Types
    <3>4. sym' <= Len(syms') => at' \in 1..(Len(syms'[sym'].insns) + 1)
      BY <3>1, <3>2
    <3>5. /\ file' \in Seq(Lines) /\ line' \in 1..(Len(file') + 1)
          /\ syms' \in Seq(Symbols) /\ errors' \in BOOLEAN
      BY <3>2 DEF Types
    <3>6. at' \in Nat \ {0}
      BY <3>2
    <3>7. /\ last' # None => last' \in 1..(at' - 1)
          /\ detected' \in BOOLEAN
      BY <3>2, Zenon
    <3> QED BY <3>3, <3>4, <3>5, <3>6, <3>7 DEF Types
  <2> QED BY <1>7, <2>1 DEF CheckEnds, Phases, Reports
<1>8. CASE Exit
  BY <1>8 DEF Exit, Types, Phases, Reports
<1>9. CASE UNCHANGED vars
  BY <1>9 DEF vars, Types, Phases, Reports
<1> QED BY <1>1, <1>2, <1>3, <1>4, <1>5, <1>6, <1>7, <1>8, <1>9
        DEF Next, Terminated

\* Type correctness of the scanner: it never looks behind the end of a function
\* or for a symbol that it has not read.
THEOREM TypeCorrect == Spec => []TypeOK
<1>1. TypeInv => TypeOK
  BY KpScanAssumption DEF TypeInv, Types, Phases, Reports, TypeOK
<1> QED BY InitTypes, StepTypes, <1>1, PTL DEF Spec

\* The exit code of the scanner: 0 when it has nothing to report, 1 when it
\* reports something, in whichever function, or has failed.
THEOREM ExitCode == Spec => []StatusTells
<1>1. TypeInv => StatusTells
  BY DEF TypeInv, Types, Phases, Reports, StatusTells, Reported
<1> QED BY InitTypes, StepTypes, <1>1, PTL DEF Spec

-----------------------------------------------------------------------------
\* One more instruction is passed, which is no return with a delay slot that
\* has been looked at: an increment that was in force is still.
LEMMA IncrementLasts ==
  ASSUME NEW s, NEW i \in Nat, i > 0, Incremented(s, i),
         i > 1 /\ IsRet(syms[s].insns[i - 1]) => Safe(s, i)
  PROVE  Incremented(s, i + 1)
<1>1. PICK j \in 2..(i - 1) :
        /\ IsStackIncr(syms[s].insns[j])
        /\ \A k \in (j + 1)..(i - 2) : IsRet(syms[s].insns[k]) => Safe(s, k + 1)
  BY DEF Incremented
<1>2. ASSUME NEW k \in (j + 1)..((i + 1) - 2), IsRet(syms[s].insns[k])
      PROVE  Safe(s, k + 1)
  <2>1. CASE k = i - 1
    BY <1>2, <2>1
  <2>2. CASE k # i - 1
    BY <1>1, <1>2, <2>2
  <2> QED BY <2>1, <2>2
<1>3. j \in 2..((i + 1) - 1)
  OBVIOUS
<1> QED BY <1>1, <1>2, <1>3 DEF Incremented

\* The facts about a symbol that is read do not change when a step leaves the
\* symbols alone.
LEMMA SameSymbols ==
  ASSUME syms' = syms
  PROVE  /\ \A s : IsLeaf(s)' <=> IsLeaf(s)
         /\ \A s, i : Incremented(s, i)' <=> Incremented(s, i)
  BY DEF IsLeaf, Incremented, Safe, IsSymbolAccess

LEMMA StepScan == TypeInv /\ ScanInv /\ [Next]_vars => ScanInv'
<1> SUFFICES ASSUME TypeInv, ScanInv, [Next]_vars PROVE ScanInv'
  OBVIOUS
<1>1. CASE ReadLine
  BY <1>1 DEF ReadLine, ScanInv, TypeInv, Phases
<1>2. CASE ParseFails \/ ParseEnds \/ Exit \/ UNCHANGED vars
  <2>1. UNCHANGED <<syms, sym, at, detected, last>>
    BY <1>2 DEF ParseFails, ParseEnds, Exit, vars
  <2> QED BY <2>1, SameSymbols DEF ScanInv
<1>3. ASSUME Scanning, syms' = syms, sym' = sym, at' = at + 1
      PROVE  /\ IsLeaf(sym) /\ sym <= Len(syms) /\ at \in Nat \ {0}
             /\ (at + 1) - 1 = at
             /\ ~(at > 1 /\ IsRet(syms[sym].insns[at - 1]) /\ ~AfterRet)
  BY <1>3, KpScanAssumption DEF Scanning, TypeInv, Types, ScanInv, AfterRet
<1>4. CASE DetectIncrement
  <2>1. Scanning /\ syms' = syms /\ sym' = sym /\ at' = at + 1
    BY <1>4 DEF DetectIncrement
  <2>2. at > 1 /\ IsStackIncr(syms[sym].insns[at])
    BY <1>4 DEF DetectIncrement, Detects, Insn, TypeInv, Types
  <2>3. Incremented(sym, at + 1)
    <3>1. at \in 2..((at + 1) - 1) /\ (at + 1)..((at + 1) - 2) = {}
      BY <1>3, <2>1, <2>2
    <3> QED BY <2>2, <3>1 DEF Incremented
  <2>4. ~IsRet(syms[sym].insns[at])
    BY <2>2 DEF IsRet, IsStackIncr
  <2> QED BY <1>3, <2>1, <2>3, <2>4, SameSymbols DEF ScanInv
<1>5. CASE IgnoreAccess
  <2>1. Scanning /\ syms' = syms /\ sym' = sym /\ at' = at + 1
    BY <1>5 DEF IgnoreAccess
  <2>2. detected /\ Safe(sym, at) /\ ~IsRet(syms[sym].insns[at])
    BY <1>5 DEF IgnoreAccess, Ignores, Safe, IsLoadOrStore, IsRet
  <2>3. Incremented(sym, at + 1)
    BY <1>3, <2>1, <2>2, IncrementLasts DEF ScanInv
  <2> QED BY <1>3, <2>1, <2>2, <2>3, SameSymbols DEF ScanInv
<1>6. CASE CheckInsn
  <2>1. Scanning /\ syms' = syms /\ sym' = sym /\ at' = at + 1 /\ last' = at
    BY <1>6 DEF CheckInsn
  <2>2. ASSUME detected' PROVE Incremented(sym, at + 1)
    <3>1. detected /\ ~AfterRet
      BY <1>6, <2>2 DEF CheckInsn, StillDetected
    <3> QED BY <1>3, <2>1, <3>1, IncrementLasts DEF ScanInv
  <2> QED BY <1>3, <2>1, <2>2, SameSymbols DEF ScanInv
<1>7. CASE CheckEnds
  BY <1>7 DEF CheckEnds, ScanInv
<1> QED BY <1>1, <1>2, <1>4, <1>5, <1>6, <1>7 DEF Next, Terminated

\* What a report about the instruction i of the symbol s needs.
Justified(s, i, kind) ==
  /\ IsLeaf(s)
  /\ i \in DOMAIN syms[s].insns
  /\ kind = "access" => /\ syms[s].insns[i].is = "access"
                        /\ i \notin syms[s].relocs
  /\ Incremented(s, i)

LEMMA SameJustified ==
  ASSUME syms' = syms
  PROVE  \A s, i, kind : Justified(s, i, kind)' <=> Justified(s, i, kind)
  BY SameSymbols DEF Justified

LEMMA StepReports ==
  TypeInv /\ ScanInv /\ ReportsJustified /\ [Next]_vars => ReportsJustified'
<1> SUFFICES ASSUME TypeInv, ScanInv, ReportsJustified, [Next]_vars
             PROVE  ReportsJustified'
  OBVIOUS
<1>0. ReportsJustified <=> \A r \in printed : Justified(r[1], r[2], r[3])
  BY DEF ReportsJustified, Justified
<1>1. ReportsJustified' <=> \A r \in printed' : Justified(r[1], r[2], r[3])'
  BY DEF ReportsJustified, Justified
<1>2. CASE ReadLine
  BY <1>2 DEF ReadLine, TypeInv, Phases, ReportsJustified
<1>3. CASE UNCHANGED <<syms, printed>>
  BY <1>0, <1>1, <1>3, SameJustified
<1>4. CASE CheckInsn
  <2>1. syms' = syms /\ Scanning /\ ~Ignores
    BY <1>4 DEF CheckInsn
  <2>2. ASSUME NEW r \in printed', r \notin printed
        PROVE  Justified(r[1], r[2], r[3])
    <3>1. /\ r[1] = sym /\ r[2] = at /\ detected
          /\ r[3] = "access" => IsLoadOrStore(Insn)
          /\ ~Detects
      BY <1>4, <2>2 DEF CheckInsn, Suspicious
    <3>2. IsLeaf(sym) /\ at \in DOMAIN syms[sym].insns /\ Incremented(sym, at)
      BY <2>1, <3>1 DEF Scanning, ScanInv, TypeInv, Types, Symbols
    <3>3. ASSUME r[3] = "access"
          PROVE  syms[sym].insns[at].is = "access" /\ at \notin syms[sym].relocs
      <4>1. IsLoadOrStore(syms[sym].insns[at])
        BY <3>1, <3>3 DEF Insn
      <4>2. ~Safe(sym, at)
        BY <2>1, <3>1 DEF Ignores
      <4> QED
        BY <4>1, <4>2 DEF Safe, IsLoadOrStore, IsSpRelated, IsSymbolAccess
    <3> QED BY <3>1, <3>2, <3>3 DEF Justified
  <2> QED BY <1>0, <1>1, <2>1, <2>2, SameJustified
<1> QED BY <1>2, <1>3, <1>4
        DEF Next, Terminated, ParseFails, ParseEnds, DetectIncrement, IgnoreAccess,
            CheckEnds, Exit, vars

\* A report of the scanner: it is about a leaf function, and comes after a stack
\* increment that is still in force; a reported access is no symbol access and
\* does not name the stack pointer.
THEOREM JustifiedReports == Spec => []ReportsJustified
<1>1. Init => ScanInv /\ ReportsJustified
  BY DEF Init, ScanInv, ReportsJustified
<1> QED BY <1>1, InitTypes, StepTypes, StepScan, StepReports, PTL DEF Spec

-----------------------------------------------------------------------------
(* What is missed *)

\* A stack increment before p, outside the delay slot of a return, with no
\* return between the two whose delay slot is before p.
Pending(s, p) ==
  \E j \in 2..(p - 1) :
    /\ IsStackIncr(syms[s].insns[j]) /\ ~IsRet(syms[s].insns[j - 1])
    /\ \A k \in j..(p - 2) : ~IsRet(syms[s].insns[k])

\* After an increment, instruction p is reported.
Telling(s, p) ==
  \/ IsLocalBranch(syms[s].insns[p])
  \/ syms[s].insns[p].is = "access" /\ p \notin syms[s].relocs

Told(s, p) == Pending(s, p) /\ Telling(s, p) => Reported(s)

\* The second pass has gone beyond instruction p of symbol s.
Passed(s, p) == s < sym \/ (s = sym /\ p < at)

\* In a leaf function that loses no increment, the scan knows of every increment
\* that is still in force; so it has told what comes after it.
Keeps ==
  sym <= Len(syms) /\ IsLeaf(sym) /\ ~Loses(sym) =>
    /\ at > 1 \/ detected => last # None
    /\ last # None /\ IsRet(syms[sym].insns[last]) => last = at - 1
    /\ Pending(sym, at) => detected
Tells ==
  \A s \in DOMAIN syms : IsLeaf(s) /\ ~Loses(s) =>
    \A p \in DOMAIN syms[s].insns : Passed(s, p) => Told(s, p)

\* The script ends after the last function, or in the first pass.
Ended == phase = "exit" /\ line > Len(file) => sym > Len(syms)

MissInv == TypeInv /\ Keeps /\ Tells /\ Ended

LEMMA SameListing ==
  ASSUME syms' = syms
  PROVE  /\ \A s : IsLeaf(s)' <=> IsLeaf(s)
         /\ \A s : Loses(s)' <=> Loses(s)
         /\ \A s, p : Pending(s, p)' <=> Pending(s, p)
         /\ \A s, p : Telling(s, p)' <=> Telling(s, p)
  BY DEF IsLeaf, Loses, Safe, IsSymbolAccess, Pending, Telling

LEMMA SymbolsFacts ==
  ASSUME NEW q \in Seq(Symbols)
  PROVE  \A s \in DOMAIN q : /\ s \in Nat \ {0} /\ Len(q[s].insns) \in Nat
                             /\ DOMAIN q[s].insns = 1..Len(q[s].insns)
                             /\ \A p \in DOMAIN q[s].insns : p \in Nat \ {0}
<1>1. \A s \in DOMAIN q : s \in Nat \ {0} /\ q[s] \in Symbols
  OBVIOUS
<1>2. ASSUME NEW symbol \in Symbols
      PROVE  /\ Len(symbol.insns) \in Nat
             /\ DOMAIN symbol.insns = 1..Len(symbol.insns)
             /\ \A p \in DOMAIN symbol.insns : p \in Nat \ {0}
  <2>1. symbol.insns \in Seq(Lines)
    BY DEF Symbols
  <2> QED BY <2>1
<1> QED BY <1>1, <1>2

LEMMA SymbolTypes ==
  ASSUME TypeInv, NEW s \in DOMAIN syms
  PROVE  /\ s \in Nat \ {0} /\ Len(syms[s].insns) \in Nat
         /\ DOMAIN syms[s].insns = 1..Len(syms[s].insns)
         /\ \A p \in DOMAIN syms[s].insns : p \in Nat \ {0}
BY SymbolsFacts DEF TypeInv, Types

\* An increment is in force after instruction p - 1 when it was before and p - 1
\* is in no delay slot of a return, or p - 1 is one itself.
LEMMA PendingNext ==
  ASSUME NEW s, NEW p \in Nat, Pending(s, p + 1)
  PROVE  \/ IsStackIncr(syms[s].insns[p]) /\ p > 1 /\ ~IsRet(syms[s].insns[p - 1])
         \/ Pending(s, p) /\ p > 1 /\ ~IsRet(syms[s].insns[p - 1])
<1>1. PICK j \in 2..((p + 1) - 1) :
        /\ IsStackIncr(syms[s].insns[j]) /\ ~IsRet(syms[s].insns[j - 1])
        /\ \A k \in j..((p + 1) - 2) : ~IsRet(syms[s].insns[k])
  BY DEF Pending
<1>2. CASE j = p
  BY <1>1, <1>2
<1>3. CASE j # p
  <2>1. j \in 2..(p - 1) /\ p - 1 \in j..((p + 1) - 2)
    BY <1>3
  <2>2. \A k \in j..(p - 2) : k \in j..((p + 1) - 2)
    OBVIOUS
  <2> QED BY <1>1, <2>1, <2>2 DEF Pending
<1> QED BY <1>2, <1>3

\* One instruction is scanned.
LEMMA ScanKeeps ==
  ASSUME TypeInv, Keeps, Tells, Ended, Scanning, syms' = syms, sym' = sym,
         at' = at + 1, phase' = phase, line' = line, file' = file,
         printed \subseteq printed',
         IsLeaf(sym) /\ ~Loses(sym) =>
           /\ last' # None
           /\ IsRet(syms[sym].insns[last']) => last' = at
           /\ Pending(sym, at + 1) => detected'
           /\ Pending(sym, at) /\ Telling(sym, at) => \E r \in printed' : r[1] = sym
  PROVE  Keeps' /\ Tells' /\ Ended'
<1>1. /\ at \in Nat /\ sym \in Nat /\ (at + 1) - 1 = at /\ phase = "check"
      /\ Len(syms) \in Nat
  BY DEF TypeInv, Types, Scanning
<1>2. Keeps'
  BY <1>1, SameListing DEF Keeps
<1>3. \A s : Reported(s) => Reported(s)'
  BY DEF Reported
<1>4. \A s : (\E r \in printed' : r[1] = s) => Reported(s)'
  BY DEF Reported
<1>5. ASSUME NEW s \in DOMAIN syms, IsLeaf(s), ~Loses(s),
             NEW p \in DOMAIN syms[s].insns, Passed(s, p)', Pending(s, p), Telling(s, p)
      PROVE  Reported(s)'
  <2>1. (s = sym /\ p = at) \/ Passed(s, p)
    <3>1. s \in Nat /\ p \in Nat
      BY <1>5, SymbolTypes
    <3> QED BY <1>1, <1>5, <3>1 DEF Passed
  <2>2. CASE Passed(s, p)
    BY <1>3, <1>5, <2>2 DEF Tells, Told
  <2>3. CASE s = sym /\ p = at
    BY <1>4, <1>5, <2>3
  <2> QED BY <2>1, <2>2, <2>3
<1>6. Tells'
  BY <1>5, SameListing DEF Tells, Told
<1> QED BY <1>1, <1>2, <1>6 DEF Ended

LEMMA StepMisses == MissInv /\ [Next]_vars => MissInv'
<1> SUFFICES ASSUME MissInv, [Next]_vars PROVE Keeps' /\ Tells' /\ Ended'
  BY StepTypes DEF MissInv
<1>0. TypeInv /\ Keeps /\ Tells /\ Ended
  BY DEF MissInv
<1>1. CASE ReadLine
  <2>1. sym' = 1 /\ at' = 1 /\ last' = None /\ phase' = "parse" /\ ~detected'
    BY <1>0, <1>1 DEF ReadLine, TypeInv, Phases
  <2>2. Keeps' /\ Ended'
    BY <2>1 DEF Keeps, Ended, Pending
  <2>3. \A s \in DOMAIN syms' : \A p \in DOMAIN syms'[s].insns : ~Passed(s, p)'
    <3>1. syms' \in Seq(Symbols)
      BY <1>0, StepTypes DEF TypeInv, Types
    <3>2. \A s \in DOMAIN syms' : /\ s \in Nat \ {0}
                                  /\ \A p \in DOMAIN syms'[s].insns : p \in Nat \ {0}
      BY <3>1, SymbolsFacts
    <3> QED BY <2>1, <3>2 DEF Passed
  <2> QED BY <2>2, <2>3 DEF Tells
<1>2. CASE UNCHANGED <<syms, sym, at, detected, last, printed, line, file>>
           /\ (phase' = "exit" => phase = "exit" \/ sym > Len(syms) \/ line <= Len(file))
  <2>1. \A s : Reported(s)' <=> Reported(s)
    BY <1>2 DEF Reported
  <2>2. \A s, p : Passed(s, p)' <=> Passed(s, p)
    BY <1>2 DEF Passed
  <2>3. Keeps'
    BY <1>0, <1>2, SameListing DEF Keeps
  <2>4. Tells'
    BY <1>0, <1>2, <2>1, <2>2, SameListing DEF Tells, Told
  <2>5. Ended'
    BY <1>0, <1>2 DEF Ended, TypeInv, Types
  <2> QED BY <2>3, <2>4, <2>5
<1>3. CASE ParseFails \/ ParseEnds \/ Exit \/ UNCHANGED vars
  BY <1>0, <1>2, <1>3 DEF ParseFails, ParseEnds, Exit, vars
\* What the scan knows at its instruction, when no increment is lost.
<1>4. ASSUME Scanning, IsLeaf(sym), ~Loses(sym)
      PROVE  /\ at \in Nat \ {0} /\ at \in DOMAIN syms[sym].insns
             /\ at > 1 \/ detected => last # None
             /\ AfterRet => last = at - 1 /\ at > 1 /\ IsRet(syms[sym].insns[at - 1])
             /\ Pending(sym, at) => detected
             /\ IsStackIncr(Insn) => at > 1
             /\ AfterRet => ~Safe(sym, at)
             /\ Pending(sym, at + 1) => Pending(sym, at) \/ Detects
             /\ Pending(sym, at + 1) => ~AfterRet
  <2>1. /\ at \in Nat \ {0} /\ at \in DOMAIN syms[sym].insns
        /\ last # None => last \in 1..(at - 1)
    BY <1>0, <1>4 DEF Scanning, TypeInv, Types, Symbols
  <2>2. /\ at > 1 \/ detected => last # None
        /\ last # None /\ IsRet(syms[sym].insns[last]) => last = at - 1
        /\ Pending(sym, at) => detected
    BY <1>0, <1>4 DEF Keeps, Scanning
  <2>3. AfterRet => last = at - 1 /\ at > 1 /\ IsRet(syms[sym].insns[at - 1])
    BY <2>1, <2>2 DEF AfterRet
  <2>4. IsStackIncr(Insn) => at > 1
    BY <1>4, <2>1 DEF Loses, Insn
  <2>5. AfterRet => ~Safe(sym, at)
    BY <1>4, <2>1, <2>3 DEF Loses
  <2>6. Pending(sym, at + 1) => (IsStackIncr(Insn) \/ Pending(sym, at)) /\ at > 1
                                /\ ~IsRet(syms[sym].insns[at - 1])
    BY <2>1, PendingNext DEF Insn
  <2> QED BY <2>1, <2>2, <2>3, <2>4, <2>5, <2>6 DEF Detects
<1>5. CASE DetectIncrement
  <2>1. /\ Scanning /\ Detects /\ syms' = syms /\ sym' = sym /\ at' = at + 1
        /\ phase' = phase /\ line' = line /\ file' = file /\ printed' = printed
        /\ last' = last /\ detected' = TRUE
    BY <1>5 DEF DetectIncrement
  <2>2. last # None /\ ~IsRet(syms[sym].insns[last])
    BY <2>1 DEF Detects, AfterRet
  <2>3. ~Telling(sym, at)
    BY <2>1 DEF Detects, Insn, IsStackIncr, Telling, IsLocalBranch
  <2> QED BY <1>0, <2>1, <2>2, <2>3, ScanKeeps
<1>6. CASE IgnoreAccess
  <2>1. /\ Scanning /\ ~Detects /\ detected /\ Safe(sym, at)
        /\ syms' = syms /\ sym' = sym /\ at' = at + 1
        /\ phase' = phase /\ line' = line /\ file' = file /\ printed' = printed
        /\ last' = last /\ detected' = detected
    BY <1>6 DEF IgnoreAccess, Ignores
  <2>2. ~Telling(sym, at)
    BY <2>1 DEF Safe, IsLoadOrStore, IsSpRelated, IsSymbolAccess, Telling, IsLocalBranch
  <2>3. ASSUME IsLeaf(sym), ~Loses(sym)
        PROVE  last # None /\ ~IsRet(syms[sym].insns[last])
    <3>1. ~AfterRet
      BY <1>4, <2>1, <2>3
    <3> QED BY <1>4, <2>1, <2>3, <3>1 DEF AfterRet
  <2> QED BY <1>0, <2>1, <2>2, <2>3, ScanKeeps
<1>7. CASE CheckInsn
  <2>1. /\ Scanning /\ ~Detects /\ ~Ignores
        /\ syms' = syms /\ sym' = sym /\ at' = at + 1
        /\ phase' = phase /\ line' = line /\ file' = file
        /\ last' = at /\ detected' = StillDetected /\ printed \subseteq printed'
        /\ Suspicious => <<sym, at, "access">> \in printed'
        /\ detected /\ IsLocalBranch(Insn) => <<sym, at, "branch">> \in printed'
    BY <1>7 DEF CheckInsn
  <2>2. at # None
    BY <1>0, KpScanAssumption DEF TypeInv, Types
  <2>3. ASSUME IsLeaf(sym), ~Loses(sym), Pending(sym, at + 1)
        PROVE  detected'
    BY <1>4, <2>1, <2>3 DEF StillDetected
  <2>4. ASSUME IsLeaf(sym), ~Loses(sym), Pending(sym, at), Telling(sym, at)
        PROVE  \E r \in printed' : r[1] = sym
    <3>1. detected
      BY <1>4, <2>1, <2>4
    <3>2. CASE IsLocalBranch(Insn)
      BY <2>1, <3>1, <3>2
    <3>3. CASE Insn.is = "access"
      <4>1. Suspicious
        BY <3>1, <3>3 DEF Suspicious, IsLoadOrStore
      <4> QED BY <2>1, <4>1
    <3> QED BY <2>4, <3>2, <3>3 DEF Telling, Insn
  <2> QED BY <1>0, <2>1, <2>2, <2>3, <2>4, ScanKeeps
<1>8. CASE CheckEnds
  <2>1. /\ sym' = sym + 1 /\ at' = 1 /\ last' = None /\ detected' = FALSE /\ syms' = syms
        /\ printed' = printed /\ phase' = "check"
        /\ ~IsLeaf(sym) \/ at > Len(syms[sym].insns)
    BY <1>8 DEF CheckEnds
  <2>2. Keeps' /\ Ended'
    BY <2>1 DEF Keeps, Ended, Pending
  <2>3. \A s : Reported(s)' <=> Reported(s)
    BY <2>1 DEF Reported
  <2>4. ASSUME NEW s \in DOMAIN syms, IsLeaf(s), NEW p \in DOMAIN syms[s].insns,
               Passed(s, p)'
        PROVE  Passed(s, p)
    <3>1. /\ s \in Nat /\ sym \in Nat /\ at \in Nat /\ p \in 1..Len(syms[s].insns)
          /\ Len(syms[s].insns) \in Nat
      BY <1>0, SymbolTypes DEF TypeInv, Types
    <3> QED BY <2>1, <2>4, <3>1 DEF Passed
  <2>5. Tells'
    BY <1>0, <2>1, <2>3, <2>4, SameListing DEF Tells, Told
  <2> QED BY <2>2, <2>5
<1> QED BY <1>1, <1>3, <1>5, <1>6, <1>7, <1>8 DEF Next, Terminated

LEMMA InitMisses == Init => MissInv
<1> SUFFICES ASSUME Init PROVE Keeps /\ Tells /\ Ended
  BY InitTypes DEF MissInv
<1>1. sym = 1 /\ syms = <<>> /\ phase = "parse"
  BY DEF Init
<1>2. ~(sym <= Len(syms)) /\ DOMAIN syms = {}
  BY <1>1
<1> QED BY <1>1, <1>2 DEF Keeps, Tells, Ended

\* From an increment on, the instructions that may be executed are in the reach
\* of the scan: as far as the next return, unless a branch is reported.
LEMMA FreedPending ==
  ASSUME TypeInv, NEW s \in DOMAIN syms, ~Loses(s), NEW i \in Freed(s),
         \A p \in DOMAIN syms[s].insns :
           Pending(s, p) => ~IsLocalBranch(syms[s].insns[p])
  PROVE  Pending(s, i) /\ i \in DOMAIN syms[s].insns
<1> DEFINE insns == syms[s].insns
           R == {p \in DOMAIN insns : Pending(s, p)}
<1>1. \A p \in DOMAIN insns : p \in Nat \ {0}
  BY SymbolTypes
<1>2. PICK j \in DOMAIN insns : IsStackIncr(insns[j]) /\ i \in After(insns, Successors(insns, j))
  BY DEF Freed, After
<1>3. ASSUME NEW p \in R, NEW k \in Successors(insns, p)
      PROVE  k \in R
  <2>1. p \in Nat /\ Pending(s, p) /\ k \in DOMAIN insns
    BY <1>1 DEF Successors
  <2>2. PICK q \in 2..(p - 1) : /\ IsStackIncr(insns[q]) /\ ~IsRet(insns[q - 1])
                                /\ \A n \in q..(p - 2) : ~IsRet(insns[n])
    BY <2>1 DEF Pending
  <2>3. insns[p - 1].is # "branch"
    <3>1. CASE q = p - 1
      BY <2>2, <3>1 DEF IsStackIncr
    <3>2. CASE q # p - 1
      <4>1. q \in 2..((p - 1) - 1) /\ \A n \in q..((p - 1) - 2) : n \in q..(p - 2)
        BY <2>1, <3>2
      <4>2. Pending(s, p - 1)
        BY <2>2, <4>1 DEF Pending
      <4>3. p - 1 \in DOMAIN insns
        <5>1. DOMAIN insns = 1..Len(insns) /\ Len(insns) \in Nat
          BY SymbolTypes
        <5> HIDE DEF insns
        <5> QED BY <2>1, <2>2, <5>1
      <4> QED BY <4>2, <4>3 DEF IsLocalBranch
    <3> QED BY <3>1, <3>2
  <2>4. k = p + 1 /\ insns[p - 1].is # "ret"
    BY <2>1, <2>2, <2>3 DEF Successors
  <2>5. ~IsRet(insns[p - 1])
    BY <2>4 DEF IsRet
  <2>6. q \in 2..((p + 1) - 1) /\ \A n \in q..((p + 1) - 2) : n \in q..(p - 2) \/ n = p - 1
    BY <2>1
  <2>7. Pending(s, p + 1)
    BY <2>2, <2>5, <2>6 DEF Pending
  <2> QED BY <2>1, <2>4, <2>7
<1>4. Successors(insns, j) \subseteq R
  <2>1. ASSUME NEW k \in Successors(insns, j)
        PROVE  k \in R
    <3>1. j \in Nat \ {0} /\ j # 1 /\ ~IsLocalBranch(insns[j - 1])
      BY <1>1, <1>2 DEF Loses
    <3>2. k = j + 1 /\ insns[j - 1].is # "ret" /\ k \in DOMAIN insns
      BY <3>1 DEF Successors, IsLocalBranch
    <3>3. j \in 2..((j + 1) - 1) /\ j..((j + 1) - 2) = {}
      BY <3>1
    <3>4. Pending(s, j + 1)
      BY <1>2, <3>2, <3>3 DEF Pending, IsRet
    <3> QED BY <3>2, <3>4
  <2> QED BY <2>1
<1>5. /\ R \in SUBSET DOMAIN insns
      /\ \A p \in R : Successors(insns, p) \subseteq R
  BY <1>3
<1>6. i \in R
  BY <1>2, <1>4, <1>5 DEF After
<1> QED BY <1>6

LEMMA MissesTold == MissInv => MissesExplained
<1> SUFFICES ASSUME MissInv, phase = "exit", NEW s \in DOMAIN syms, line > Len(file),
                    IsLeaf(s), NEW i \in Freed(s), ~Reported(s), ~Loses(s)
             PROVE  FALSE
  BY DEF MissesExplained
<1>1. TypeInv /\ Tells /\ sym > Len(syms)
  BY DEF MissInv, Ended
<1>2. \A p : Passed(s, p)
  <2>1. s \in Nat /\ s <= Len(syms) /\ Len(syms) \in Nat /\ sym \in Nat
    BY <1>1 DEF TypeInv, Types
  <2> QED BY <1>1, <2>1 DEF Passed
<1>3. \A p \in DOMAIN syms[s].insns : Pending(s, p) => ~Telling(s, p)
  BY <1>1, <1>2 DEF Tells, Told
<1>4. Pending(s, i) /\ i \in DOMAIN syms[s].insns
  BY <1>1, <1>3, FreedPending DEF Telling
<1>5. Telling(s, i)
  BY DEF Freed, Telling
<1> QED BY <1>3, <1>4, <1>5

\* What the scanner misses: a leaf function in which an access may be executed
\* after a stack increment is reported, whatever its branches, unless the
\* increment is lost in one of the three ways that are known.
THEOREM ExplainedMisses == Spec => []MissesExplained
<1> QED BY InitMisses, StepMisses, MissesTold, PTL DEF Spec

=============================================================================
