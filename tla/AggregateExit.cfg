CONSTANTS
  MaxSources = 1
  MaxJobs = 1
  MinimumFiles = 1
  MaxIllegal = 0
  MaxProblems = 1
  MaxViolations = 0
  MaxProjects = 2
SPECIFICATION AggregateSpec
INVARIANT
  AggregateExit
