\* Listings of one and two functions.
SPECIFICATION Spec
CONSTANTS
  Files <- AllFiles
  Length = 7
  None = None
INVARIANTS
  TypeOK
  MissesExplained
  ReportsJustified
  StatusTells
