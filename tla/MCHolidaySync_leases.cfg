CONSTANTS
  None = None
  Years = {y1, y2}
  Jobs = {1, 2}
  CalendarIds = {c1, c2}
  Digests = {x1, x2}
  Workers = {w1, w2}
  Operators = {o1, o2}
  Modes <- BothModes
  LeasesHold = TRUE
  CancelsRace = FALSE
  MaxCrashes = 1
  MaxOutages = 1
SPECIFICATION Spec
SYMMETRY Symmetry
CHECK_DEADLOCK FALSE
INVARIANTS
  TypeOK
  OnePublishedPerYear
  OneRunPerYear
  LockFollowsRunning
PROPERTY
  FinishedStaysFinished
