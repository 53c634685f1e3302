\* Two tests, of one or two subtests, run by one or two threads.
SPECIFICATION Spec
CONSTANTS
  t1 = t1
  t2 = t2
  Tests = {t1, t2}
  Findings <- SomeFindings
  MaxWorkers = 2
  Home = Home
  Console = Console
  None = None
  Calls <- MCCalls
INVARIANTS
  TypeOK
  SnippetsIsolated
  ProcessRestored
  ReportAccounted
  CountedOnce
  OneTarget
PROPERTIES
  EveryTestEnds
