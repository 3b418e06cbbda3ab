SPECIFICATION Spec
CONSTANTS
  a = a
  b = b
  Machines = {a, b}
  MaxClock = 2
  MaxCases = 2
  Sizes <- MCSizes
  MaxRuns = 2
  MaxProcesses = 1
  MaxDeaths = 1
SYMMETRY MCSymmetry
CHECK_DEADLOCK FALSE
INVARIANTS
  StoreAcceptsRows
  SampledRunIsWhole
  MirrorIsFaithful
