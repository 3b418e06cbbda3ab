SPECIFICATION FairPruneSpec
CONSTANTS
  c1 = c1
  c2 = c2
  RowIds = {1}
  Commits = {c1, c2}
  CommitOf <- SharedCommit
  Selectors = {jev}
  jev = jev
  LastDay = 4
  LongestWindow = 1
  CoFailureDays = 0
  FlakyDays = 1
  Retentions = {1, 2}
  MaxInterrupts = 1
  MaxCalibrations = 2
INVARIANTS
  NoOrphans
PROPERTIES
  ReadableIsKept
  OldRowsGo
