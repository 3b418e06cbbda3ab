SPECIFICATION Spec
CONSTANTS
  a = a
  b = b
  m1 = m1
  m2 = m2
  Tests = {a, b}
  Heads = {g, h}
  Truth <- MCTruth
  Mutations = {m1, m2}
  Kills <- MCKills
  Gates <- MCGates
  DefaultGate <- MCDefaultGate
  RecordVerdicts <- MCVerdicts
  MinFailures = 1
  PerfectRuns = 2
  AppendAttempts = 2
  MaxRecords = 2
  MaxTrials = 1
  MaxInstant = 2
  MaxChanges = 1
CHECK_DEADLOCK FALSE
INVARIANTS
  CalibrationIsCareful
  Settles
  LatestIsLast
  KilledByItsMutation
