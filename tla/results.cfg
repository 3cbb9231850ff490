\* Four callers of one repository and commit, two adapter versions, a repository
\* that may be registered while they run, a crash and a failing insert.
SPECIFICATION Spec
CONSTANTS
  w1 = w1
  w2 = w2
  cli = cli
  action = action
  v1 = v1
  v2 = v2
  Callers = {w1, w2, cli, action}
  Mode <- ModeOf
  Version <- VersionOf
  Versions = {v1, v2}
  Verdicts = {"PASS", "ERROR"}
  MaxCrashes = 1
  MaxBusy = 1
INVARIANTS
  StoredRecordServes
PROPERTIES
  RecordStoredOnce
  RerunsDoNotProbe
