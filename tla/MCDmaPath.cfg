SPECIFICATION MCFairSpec
CONSTANTS
  DdrRows = 4
  SramRows = 4
  MaxBurst = 3
  LenMod = 8
  BeatsMod = 16
  Lengths = {1, 2, 3, 4, 5, 6, 7}
  Misaligned = {TRUE, FALSE}
  Stalls = {TRUE, FALSE}
  MaxJobs = 2
  Words <- MCWords
  Jobs <- MCJobs
  BenchJobs <- MCBenchJobs
  RandomWords <- MCRandomWords
  ZeroWord <- MCZero
INVARIANTS
  BurstsAgree
  ShadowsFollow
  VerdictIsExact
PROPERTIES
  CopiesRows
  HeldUntilTaken
  TransferEnds
