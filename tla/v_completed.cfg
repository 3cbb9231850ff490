\* A crash, then a resume: are all jobs terminal?
SPECIFICATION Spec
CONSTANTS
  Drivers = {d1, d2}
  Creator = d1
  RepoCount = 2
  Kind <- TwoRunnable
  MaxWorkers = 2
  MaxActive = 2
  MaxAttempts = 2
  ErrorClasses = {"PROBE_ERROR"}
  Concurrent = FALSE
  MaxCrashes = 1
  MaxBusy = 0
INVARIANTS
  CompletedRunIsTerminal
