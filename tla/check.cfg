\* Two invocations, one after the other, while the configuration is
\* written and one of them may raise or be killed.
SPECIFICATION Spec
CONSTANTS
  Checks = {c1, c2}
  Configs <- EveryConfig
  Arguments <- EveryArgument
  Targets <- EveryTarget
  FailOn = {"FAIL", "ERROR"}
  Overlaps = FALSE
  MaxEdits = 1
  MaxFaults = 1
INVARIANTS
  PassMeansRecorded
  NoInvocationInVain
  ArtefactsOfOneCheck
PROPERTIES
  DoctorOkMeansFound
