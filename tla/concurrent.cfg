\* Two drivers on one run at the same time, with fewer container slots than workers,
\* retryable errors, a failing write and a crash.
SPECIFICATION Spec
CONSTANTS
  Drivers = {d1, d2}
  Creator = d1
  RepoCount = 2
  Kind <- TwoRunnable
  MaxWorkers = 2
  MaxActive = 1
  MaxAttempts = 2
  ErrorClasses = {"TIMEOUT"}
  Concurrent = TRUE
  MaxCrashes = 1
  MaxBusy = 1
INVARIANTS
  SoleExecutor
  VerdictsAreEarned
  SlotDriftBounded
PROPERTIES
  AttemptHistory
  VerdictDecidedOnce
