SPECIFICATION FairSpec
CONSTANTS
  a = a
  b = b
  c = c
  Tests = {a, b, c}
  SuiteOf <- MCSuiteOf
  Tagged = {c}
  Projects <- MCProjects
  Cores = {"typescript", "moonbit"}
  Histories <- MCHistories
  Quarantinable = {a}
  Manifests <- MCManifests
  Listings <- MCListings
  Invocations <- MCInvocations
  Concurrencies = {1, 2}
  BatchSizes = {2}
  RunnerStatuses = {"passed", "failed"}
  MaxRuns = 1
CHECK_DEADLOCK FALSE
INVARIANTS
  
  NoTestTwice
  QuarantinedAreLeftAlone
  EveryTestIsAskedOnce
  ExitTellsFailures
  ReportAgrees
PROPERTIES
  RunEnds
