SPECIFICATION Spec
CONSTANTS
  Blocks = {"a", "b"}
  Tests <- MCTests
  Plans <- MCPlans
  Suites = {"suite"}
  TestsOf <- MCTestsOf
  Jobs = 2
  SimEnds <- MCAnyEnd
  MaxVersion = 2
  MaxEdits = 2
  MaxRuns = 2
INVARIANT
  VerdictOfThisRun
CHECK_DEADLOCK FALSE
