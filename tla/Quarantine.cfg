SPECIFICATION FairSpec
CONSTANTS
  a = a
  c1 = c1
  c2 = c2
  Tests = {a}
  Commits = {c1, c2}
  ResultStatuses = {"passed", "retried", "failed", "flaky", "skipped"}
  WindowDays = 2
  Threshold = 50
  MinRuns = 2
  DetectionPercent = 2
  LastDay = 2
  MaxResults = 3
  MaxInterrupts = 1
INVARIANTS
  NothingToRepeat
PROPERTIES
  BrokenIsKept
  QuietTestsAreReleased
