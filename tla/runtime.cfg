\* Every subcommand on every kind of repository, with an adapter's usual budget.
SPECIFICATION FairSpec
CONSTANTS
  Modes = {"inspect", "build", "test", "exec"}
  Checkouts <- SomeCheckouts
  InstallTimeout = 600
  RunTimeout = 120
  Grace = 5
  CopyTime = 55
  Durations <- SomeDurations
INVARIANTS
  ResultIsTrue
  BudgetIsKept
PROPERTIES
  EventuallyOver
