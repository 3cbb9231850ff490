\* Every framework on every executor.
SPECIFICATION FairSpec
CONSTANTS
  Executors = {"subprocess", "container", "prepared"}
  Adapters = {"minisweagent", "gptme", "nanobot", "corecoder", "pocketflow"}
INVARIANTS
  OnlyTrajectoriesDecide
  PassMeansRecorded
  AbsenceIsAbsence
PROPERTIES
  EventuallyDecided
