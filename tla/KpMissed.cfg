\* Functions of seven instructions that start with a branch, in a listing with
\* a relocation.
SPECIFICATION Spec
CONSTANTS
  Files <- Relocated
  Length = 7
  None = None
INVARIANT
  NoFalseNegatives
