SPECIFICATION FairSpec
CONSTANTS
  s1 = s1
  s2 = s2
  junit = junit
  vitest = vitest
  NumRuns = 2
  Watched = {1}
  Keys = {junit}
  Rerun = {1}
  NumCases = 2
  NumFiles = 2
  Commits = {s1}
  CommitOf <- SameCommit
  Reports = {"report", "empty"}
  PageSize = 1
  MaxApiFaults = 1
  MaxInterrupts = 1
INVARIANTS
  
  OnceUnlessInterrupted
  MissOnlyWhenFailed
  SummaryIsTrue
PROPERTIES
  
  ImplementsLedger
