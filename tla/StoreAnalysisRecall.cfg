\* Three runs of three tests and two commits over three days.
SPECIFICATION Spec
CHECK_DEADLOCK FALSE
CONSTANTS
  a = a
  b = b
  c = c
  c1 = c1
  c2 = c2
  Tests <- MCTests
  Commits <- MCCommits
  f1 = f1
  f2 = f2
  Files <- MCFiles
  ChangedFiles <- MCChangedFiles
  HasResolver = TRUE
  ChangesNeeded = 1
  CoRunsNeeded = 2
  ProjectSizes <- MCProjectSizes
  DetectionPercent = 2
  MinRuns = 2
  ConfidenceAt <- MCConfidence
  HistoryKept = 2
  RecentDays = 1
  Quarantined <- MCQuarantined
  Promotion <- MCPromotion
  CiReports <- MCCiReports
  LocalReports <- MCLocalReports
  HoldBacks <- MCHoldBacks
  WindowDays = 2
  LastDay = 2
  MaxRuns = 3
INVARIANTS
  CaughtBySampling
