------------------------------- MODULE KpScan -------------------------------
(***************************************************************************)
(* The scanner of KP-VA20-016, share/lkql/kp/kp_va20_016.py: it reads an   *)
(* objdump -dr listing and looks, in the functions that save no register   *)
(* window, for loads and stores after the stack pointer is incremented.    *)
(*                                                                         *)
(* An instruction is what the predicates of Insn tell of it.               *)
(***************************************************************************)
EXTENDS Naturals, Sequences

CONSTANTS
  Files,   \* the listings: sequences of lines
  None     \* no symbol, no instruction

VARIABLES
  file,      \* the listing that is scanned
  phase,     \* where the script is
  line,      \* the next line that parse_dissas reads
  syms,      \* the symbols, each with its instructions and relocations
  sym,       \* the symbol that check is called on
  at,        \* the next instruction of the second pass
  detected,  \* stack_incr_detected
  last,      \* last_insn, as its index in s_insns
  printed,   \* the reports: <<symbol, instruction, kind>>
  errors,    \* has_errors of the script
  status     \* the exit code

vars == <<file, phase, line, syms, sym, at, detected, last, printed, errors, status>>

-----------------------------------------------------------------------------
(* Instructions.  Sparc code has a delay slot after a branch and a return. *)

Mnemonics == {"save", "incr",       \* save; add %sp, <positive>, %sp
              "ret",                \* ret, retl, jmp %o7
              "access",             \* a load or a store
              "access_sp",          \* one that names %sp
              "access_symbol",      \* one that objdump comments with a symbol
              "branch",             \* within the function
              "other"}              \* a branch elsewhere is one of these

Lines == [type : {"symbol", "blank"}]
         \cup [type : {"insn"}, is : Mnemonics, target : Nat]
         \cup [type : {"reloc"}, offset : Nat]

ASSUME KpScanAssumption ==
  /\ Files \subseteq Seq(Lines)
  /\ None \notin Nat

IsStackIncr(insn)   == insn.is = "incr"
IsRet(insn)         == insn.is = "ret"
IsLoadOrStore(insn) == insn.is \in {"access", "access_sp", "access_symbol"}
IsSpRelated(insn)   == insn.is \in {"access_sp", "incr"}
IsLocalBranch(insn) == insn.is = "branch"
IsSymbolAccess(s, i) ==
  \/ i \in syms[s].relocs
  \/ syms[s].insns[i].is = "access_symbol"
\* The accesses that are let through after an increment.
Safe(s, i) == /\ IsLoadOrStore(syms[s].insns[i])
              /\ IsSpRelated(syms[s].insns[i]) \/ IsSymbolAccess(s, i)
IsLeaf(s) == \A i \in DOMAIN syms[s].insns : syms[s].insns[i].is # "save"

NewSymbol == [insns |-> <<>>, relocs |-> {}]

-----------------------------------------------------------------------------
Init ==
  /\ file \in Files
  /\ phase = "parse" /\ line = 1
  /\ syms = <<>> /\ sym = 1
  /\ at = 1 /\ detected = FALSE /\ last = None
  /\ printed = {} /\ errors = FALSE /\ status = None

\* parse_dissas.  The offset of an instruction is its index in the symbol.
Orphan(l) == l.type \in {"insn", "reloc"} /\ syms = <<>>

Registered(symbol, l) ==
  IF l.type = "insn" THEN [symbol EXCEPT !.insns = Append(@, l)]
                     ELSE [symbol EXCEPT !.relocs = @ \cup {l.offset}]

ReadLine ==
  LET l == file[line] IN
  /\ phase = "parse" /\ line <= Len(file) /\ ~Orphan(l)
  /\ line' = line + 1
  /\ syms' = CASE l.type = "symbol" -> Append(syms, NewSymbol)
               [] l.type = "blank"  -> syms
               [] OTHER -> [syms EXCEPT ![Len(syms)] = Registered(@, l)]
  /\ UNCHANGED <<file, phase, sym, at, detected, last, printed, errors, status>>

\* Without a symbol there is nothing to append to.
ParseFails ==
  /\ phase = "parse" /\ line <= Len(file) /\ Orphan(file[line])
  /\ phase' = "exit" /\ status' = 1
  /\ UNCHANGED <<file, line, syms, sym, at, detected, last, printed, errors>>

\* The warning that the listing has no relocation is not among the reports.
ParseEnds ==
  /\ phase = "parse" /\ line > Len(file)
  /\ phase' = "check"
  /\ UNCHANGED <<file, line, syms, sym, at, detected, last, printed, errors, status>>

-----------------------------------------------------------------------------
(* Symbols.check. *)

Insn == syms[sym].insns[at]
AfterRet == last # None /\ IsRet(syms[sym].insns[last])

\* Mutant: a stack increment is only detected in a row of two.
DetectsSecond == IsStackIncr(Insn) /\ detected

\* A stack increment; the first instruction, and the one in the delay slot of a
\* return, go on to the checks instead.
Detects == IsStackIncr(Insn) /\ last # None /\ ~AfterRet

\* A load or store that is safe: the loop goes on and last_insn stays.
Ignores == ~Detects /\ detected /\ Safe(sym, at)
Suspicious == detected /\ IsLoadOrStore(Insn)

\* Mutant: a return does not undo the increment.
StillDetectedForever == detected

\* After the delay slot of a return the stack pointer is another one.
StillDetected == detected /\ ~AfterRet

Scanning == phase = "check" /\ sym <= Len(syms)
            /\ IsLeaf(sym) /\ at <= Len(syms[sym].insns)

DetectIncrement ==
  /\ Scanning /\ Detects
  /\ detected' = TRUE
  /\ at' = at + 1
  /\ UNCHANGED <<file, phase, line, syms, sym, last, printed, errors, status>>

IgnoreAccess ==
  /\ Scanning /\ Ignores
  /\ at' = at + 1
  /\ UNCHANGED <<file, phase, line, syms, sym, detected, last, printed, errors, status>>

CheckInsn ==
  LET found == (IF Suspicious THEN {<<sym, at, "access">>} ELSE {})
               \cup (IF detected /\ IsLocalBranch(Insn)
                     THEN {<<sym, at, "branch">>} ELSE {})
  IN
  /\ Scanning /\ ~Detects /\ ~Ignores
  /\ printed' = printed \cup found
  /\ errors' = (errors \/ found # {})
  /\ detected' = StillDetected
  /\ last' = at
  /\ at' = at + 1
  /\ UNCHANGED <<file, phase, line, syms, sym, status>>

\* Mutant: the index in the function goes on with the next function.
CheckEndsStale ==
  /\ phase = "check" /\ sym <= Len(syms)
  /\ ~IsLeaf(sym) \/ at > Len(syms[sym].insns)
  /\ sym' = sym + 1
  /\ UNCHANGED <<file, phase, line, syms, at, detected, last, printed, errors, status>>

\* check returns, at the end of a leaf function or at once, and is called for
\* the next symbol with fresh local variables.
CheckEnds ==
  /\ phase = "check" /\ sym <= Len(syms)
  /\ ~IsLeaf(sym) \/ at > Len(syms[sym].insns)
  /\ sym' = sym + 1
  /\ at' = 1 /\ detected' = FALSE /\ last' = None
  /\ UNCHANGED <<file, phase, line, syms, printed, errors, status>>

\* Mutant: the exit code is that of the last function.
ExitLast ==
  /\ phase = "check" /\ sym > Len(syms)
  /\ phase' = "exit"
  /\ status' = IF \E report \in printed : report[1] = Len(syms) THEN 1 ELSE 0
  /\ UNCHANGED <<file, line, syms, sym, at, detected, last, printed, errors>>

Exit ==
  /\ phase = "check" /\ sym > Len(syms)
  /\ phase' = "exit"
  /\ status' = IF errors THEN 1 ELSE 0
  /\ UNCHANGED <<file, line, syms, sym, at, detected, last, printed, errors>>

Terminated == phase = "exit" /\ UNCHANGED vars

Next == ReadLine \/ ParseFails \/ ParseEnds \/ DetectIncrement \/ IgnoreAccess \/ CheckInsn
        \/ CheckEnds \/ Exit \/ Terminated

Spec == Init /\ [][Next]_vars

-----------------------------------------------------------------------------
(* What the scanner is for. *)

\* The instructions that may be executed after instruction i: the delay slot of
\* a branch leads to its target too, the one of a return to none.
Successors(insns, i) ==
  LET slot == i > 1 /\ insns[i - 1].is \in {"branch", "ret"} IN
  {j \in DOMAIN insns :
     IF ~slot THEN j = i + 1
     ELSE insns[i - 1].is = "branch" /\ j \in {i + 1, insns[i - 1].target}}

\* The instructions that may be executed from those of S: the smallest set
\* that holds S and the successors of its members.
After(insns, S) ==
  LET closed == {R \in SUBSET DOMAIN insns :
                   S \subseteq R /\ \A i \in R : Successors(insns, i) \subseteq R}
  IN  {i \in DOMAIN insns : \A R \in closed : i \in R}

\* The accesses that may be executed after a stack increment: the pattern of
\* GCC PR 107248.
Freed(s) ==
  LET insns == syms[s].insns
      incrs == {i \in After(insns, {1} \cap DOMAIN insns) : IsStackIncr(insns[i])}
      after == UNION {After(insns, Successors(insns, i)) : i \in incrs}
  IN  {i \in after : insns[i].is = "access" /\ i \notin syms[s].relocs}

Reported(s) == \E report \in printed : report[1] = s

\* The three ways in which the scan loses an increment: the first instruction;
\* the delay slot of a branch, whose target is not followed; a safe access in
\* the delay slot of a return, which keeps it the last instruction.
Loses(s) ==
  LET insns == syms[s].insns IN
  \E i \in DOMAIN insns :
    \/ i = 1 /\ IsStackIncr(insns[i])
    \/ i > 1 /\ IsLocalBranch(insns[i - 1]) /\ IsStackIncr(insns[i])
    \/ i > 1 /\ IsRet(insns[i - 1]) /\ Safe(s, i)

-----------------------------------------------------------------------------
(* Properties. *)

\* The script is where it may be: the instruction and the symbol it looks at
\* are there, and what it printed is of a symbol it has read.
TypeOK ==
  /\ phase \in {"parse", "check", "exit"}
  /\ line \in 1..(Len(file) + 1)
  /\ sym \in 1..(Len(syms) + 1)
  /\ sym <= Len(syms) => at \in 1..(Len(syms[sym].insns) + 1)
  /\ last # None => last \in 1..(at - 1)
  /\ detected \in BOOLEAN /\ errors \in BOOLEAN
  /\ \A report \in printed : report[1] <= Len(syms)
  /\ status \in {None, 0, 1}

\* Symbols.check: a leaf function in which a load or store may follow a stack
\* increment is reported, unless the scan loses the increment.
MissesExplained ==
  phase = "exit" =>
    \A s \in DOMAIN syms :
      line > Len(file) /\ IsLeaf(s) /\ Freed(s) # {} => Reported(s) \/ Loses(s)

\* A stack increment before i, with no return between the two whose delay slot
\* the scan has looked at.
Incremented(s, i) ==
  \E j \in 2..(i - 1) :
    /\ IsStackIncr(syms[s].insns[j])
    /\ \A k \in (j + 1)..(i - 2) :
         IsRet(syms[s].insns[k]) => Safe(s, k + 1)

\* Symbols.check: what is reported as a load or store is one, of a leaf
\* function, has no relocation, and comes after a stack increment that no
\* return has undone, unless the delay slot of the return is a safe access.
ReportsJustified ==
  \A report \in printed :
    LET insns == syms[report[1]].insns
        i     == report[2]
    IN  /\ IsLeaf(report[1])
        /\ i \in DOMAIN insns
        /\ report[3] = "access" => insns[i].is = "access"
                                   /\ i \notin syms[report[1]].relocs
        /\ Incremented(report[1], i)

\* The script exits with 0 when it reports nothing and with 1 when it reports,
\* in whichever symbol, or fails.
StatusTells ==
  phase = "exit" =>
    status = IF line <= Len(file) \/ \E s \in DOMAIN syms : Reported(s) THEN 1 ELSE 0

\* "This script is free from false negatives": a listing with an access that
\* may follow a stack increment in a leaf function is reported.
NoFalseNegatives ==
  phase = "exit" /\ status = 0 =>
    \A s \in DOMAIN syms : IsLeaf(s) => Freed(s) = {}

=============================================================================
