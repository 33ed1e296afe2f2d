CONSTANTS
  None = None
  Years = {y1}
  Jobs = {1}
  CalendarIds = {c1, c2}
  Digests = {x1, x2}
  Workers = {w1}
  Operators = {o1, o2}
  Modes <- OnlyPreview
  LeasesHold = TRUE
  CancelsRace = FALSE
  MaxCrashes = 0
  MaxOutages = 0
SPECIFICATION Spec
SYMMETRY Symmetry
CHECK_DEADLOCK FALSE
INVARIANTS
  PreviewPublishesOnce
