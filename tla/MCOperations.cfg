CONSTANTS
  r1 = r1
  r2 = r2
  r3 = r3
  Runs = {r1, r2, r3}
  TargetCount <- MCTargets
  Cases = {a, b}
  MaxParallelRuns = 2
  MaxParallelCases = 1
  MaxDeaths = 1
  Daemons <- MCDaemons
  m1 = m1
  m2 = m2
  source = source
  full = full
  bare = bare
  MaxEdition = 2
  MaxUpdates = 1
  Files <- MCFiles
  Old = Old
  New = New
  Torn = Torn
  Absent = Absent
  MaxTime = 1
  MaxCalls = 2
  CaseOrder <- MCCases
  Baselines <- MCBaselines

SPECIFICATION MCSpec

INVARIANTS
  TypesOK
  Accounted
  UpdateSafe
  VerdictSound

PROPERTIES
  EndsWell

\* Benchmark runs and calls of the updater end, aigw returns.
CHECK_DEADLOCK FALSE
