CONSTANTS
  MaxSources = 3
  MaxJobs = 2
  MinimumFiles = 1
  MaxIllegal = 1
  MaxProblems = 1
  MaxViolations = 1
  MaxProjects = 2
SPECIFICATION RunSpec
INVARIANTS
  CTypeOK
  CleanExit
  TrustedStatuses
  InternalErrorsExit
  ClassesAddUp
  ProjectsMerged
PROPERTIES
  RunContract
