SPECIFICATION Spec
CONSTANTS
  Signals <- MCSignals
  Kind <- MCKind
  Short <- MCShort
  Citation <- MCCitation
  Editions <- MCEditions
  BatchSize = 1
  Cuts = {5}
  MaxStarts = 4
  MaxFaults = 1
  Numbers = {5, 12}
  Sections = {5, 12}
  MaxReviews = 1
PROPERTIES
  UnchangedStaysReviewed
CHECK_DEADLOCK FALSE
