SPECIFICATION Spec
CONSTANTS
  a = a
  b = b
  Tests = {a, b}
  Manifests <- MCManifests
  RunnerStatuses = {"passed", "failed", "skipped", "flaky"}
  MaxRetries = 2
CHECK_DEADLOCK FALSE
INVARIANTS
  CrashIsReported
