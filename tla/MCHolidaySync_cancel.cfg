CONSTANTS
  None = None
  Years = {y1}
  Jobs = {1}
  CalendarIds = {c1, c2}
  Digests = {x1, x2}
  Workers = {w1}
  Operators = {o1}
  Modes <- BothModes
  LeasesHold = TRUE
  CancelsRace = TRUE
  MaxCrashes = 0
  MaxOutages = 0
SPECIFICATION Spec
SYMMETRY Symmetry
CHECK_DEADLOCK FALSE
PROPERTY
  CancelledStaysCancelled
