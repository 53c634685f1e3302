CONSTANTS
  MaxSources = 5
  MaxJobs = 4
  MinimumFiles = 2
  MaxIllegal = 1
SPECIFICATION MCSpec
INVARIANTS
  TypeOK
  NoSilentLoss
  NoSpuriousWait
  NoOrphans
  WorkersWithinJobs
  ListsDisjoint
  ErrorsUnverified
  TempsAccounted
PROPERTIES ContractSpec
