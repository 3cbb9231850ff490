SPECIFICATION Spec
CONSTANTS
  Numbers = {"n1", "n2"}
  Names = {"a", "b"}
  Metadata <- EveryFact
  Hubs <- TwoRepositories
  Commands = {c1, c2}
  Targets = {"a"}
  Gold = {"a", "b"}
  Queries = 1
  MaxTotal = 2
  Limit = 1
  MaxChanges = 1
  MaxStarts = 3
  MaxFaults = 1
  Drivers = {d1, d2}
  Includes <- EveryInclude
  RunLimit = 2
  Pinnings <- EveryPinning
SYMMETRY Symmetry
INVARIANTS
  FoundOnce
  ClassificationsHold
  GoldIsWhole
  ReturnedManifestIsWhole
  ManifestIsSound
PROPERTIES
  WritersKeepToTheirColumns
CHECK_DEADLOCK FALSE
