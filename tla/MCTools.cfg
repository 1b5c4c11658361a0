SPECIFICATION MCSpec
CONSTANTS
  Blocks = {"a", "b"}
  Tests <- MCTests
  Plans <- MCPlans
  Suites = {"suite"}
  TestsOf <- MCTestsOf
  Jobs = 2
  SimEnds <- MCAnyEnd
  MaxVersion = 2
  MaxEdits = 2
  MaxRuns = 2
  Dirs = {"a", "b"}
  Tags <- MCTags
  Lists <- MCLists
  DirOf <- MCDirOf
  NameOf <- MCNameOf
  Contents <- MCContents
  Workers = 2
  MaxInvocations = 2
  StatusTasks = {"compile", "rtl_sim"}
  CacheTasks = {"compile"}
  SimTasks = {"rtl_sim"}
  MaxExecutions = 2
  MaxProcesses = 2
INVARIANTS
  BinaryIsCurrent
  OneBuildServesAll
  ZeroMeansSimulated
  EveryTestReported
  ZeroMeansAllRan
  RowIsOfOneExecution
  ReportsAreWhole
PROPERTIES
  PlanEnds
  MergeIsOfTheRun
CHECK_DEADLOCK FALSE
