\* Two attempts and a collector on one entry, with a crash and a failing git command, flock or file.
SPECIFICATION FairSpec
CONSTANTS
  a1 = a1
  a2 = a2
  g1 = g1
  s1 = s1
  s2 = s2
  Attempts = {a1, a2}
  Collectors = {g1}
  Shas = {s1, s2}
  Remote = {s1}
  Unsafe = {s2}
  Wanted <- TwoShas
  ByAge = FALSE
  MaxCrashes = 1
  MaxFailures = 1
INVARIANTS
  OnlyGitOrHostFails
  FailuresAreCleanAndCaused
PROPERTIES
  MirrorIsProtected
  EveryAttemptEnds
