------------------------------ MODULE MCKpScan ------------------------------
(* Instances of KpScan for TLC. *)
EXTENDS KpScan

CONSTANT Length   \* of the longest function

Symbol           == [type |-> "symbol"]
Blank            == [type |-> "blank"]
RelocAt(i)       == [type |-> "reloc", offset |-> i]
I(is)            == [type |-> "insn", is |-> is, target |-> 0]
BranchTo(target) == [type |-> "insn", is |-> "branch", target |-> target]

Straight == {I(is) : is \in {"incr", "ret", "access", "access_sp", "other"}}
Bodies(n, S) == [1..n -> S]

\* Any short function, with branches.
Short == {<<Symbol>> \o b : b \in UNION {Bodies(n, Straight \cup {BranchTo(1),
             BranchTo(3), BranchTo(4)}) : n \in 0..4}}
\* Longer ones that start with a branch to one of their last instructions.
Long == {<<Symbol, BranchTo(target), I("other")>> \o b :
           target \in (Length - 3)..Length, b \in Bodies(Length - 2, Straight)}
\* A function that saves a register window, relocations, and lines that
\* belong to no symbol.
More == {<<Symbol, I(a), I("incr"), I(b), RelocAt(r), Blank, Symbol>> \o c :
           a \in {"save", "other"}, b \in {"access", "access_symbol", "access_sp"},
           r \in 2..3, c \in UNION {Bodies(n, Straight \cup {I("save")}) : n \in 2..3}}
        \cup {<<Blank, I("other")>>, <<RelocAt(1)>>, <<>>}

\* The longer ones beside a function with a relocation: the script prints no
\* warning that there is none.
Relocated == {f \o <<Blank, Symbol, I("other"), RelocAt(1)>> : f \in Long}

AllFiles == Short \cup Long \cup More

=============================================================================
