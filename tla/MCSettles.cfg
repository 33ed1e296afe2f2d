CONSTANTS
  Ids = {1, 2, 3, 4, 5, 6, 7, 8, 9}
  Dates = {1, 2, 3, 4}
  Penalty = 10
  NoRoute = NoRoute
  Principals = {p1}
  Attractions = {a1, a2}
  DraftIds = {1, 2}
  TripIds = {1, 2}
  RevisionIds = {1, 2}
  IntentIds = {1, 2}
  Threads = {h1, h2}
  None = None
  ClientsResend = TRUE
  MaxOpened = 1
  MaxVersion = 3
  MaxAborts = 0
  MaxRedeliveries = 1
  FactChoices <- ReadyFacts
  SelectionChoices <- OneAttraction
  Jobs = {1, 2}
  CalendarIds = {1, 2}
  Workers = {w1, w2}
SPECIFICATION MCFairSpec
CHECK_DEADLOCK FALSE
PROPERTIES
  SubmittedIntentsSettle
  ClaimedIntentsSettle
  JobsSettle
  EveryAttractionGetsADate
