\* One driver at a time; the first may crash anywhere and a second one resumes.
SPECIFICATION FairSpec
CONSTANTS
  Drivers = {d1, d2}
  Creator = d1
  RepoCount = 5
  Kind <- EveryKind
  MaxWorkers = 2
  MaxActive = 2
  MaxAttempts = 2
  ErrorClasses = {"PROBE_ERROR"}
  Concurrent = FALSE
  MaxCrashes = 1
  MaxBusy = 0
INVARIANTS
  CompletedRunReport
  ResumeNeverCollides
  SkippedUnlessCutOff
PROPERTIES
  TerminalRowsFinal
  EventuallyCompleted
