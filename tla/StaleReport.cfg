\* A second subtest that shows the report of the first, in a test that brings none.
SPECIFICATION StaleSpec
CONSTANTS
  t1 = t1
  t2 = t2
  Tests = {t1, t2}
  Findings <- SomeFindings
  MaxWorkers = 2
  Home = Home
  Console = Console
  None = None
  Calls <- MCCalls
INVARIANT
  OwnReport
