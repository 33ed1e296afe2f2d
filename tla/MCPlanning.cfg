CONSTANTS
  None = None
  a1 = a1
  a2 = a2
  a3 = a3
  Principals = {p1, p2}
  Attractions = {a1, a2}
  DraftIds = {1, 2, 3}
  TripIds = {1, 2}
  RevisionIds = {1, 2, 3}
  IntentIds = {i1, i2, i3}
  Threads = {h1, h2, h3}
  FactChoices <- BothFacts
  SelectionChoices <- TwoChoices
  ClientsResend = TRUE
  MaxOpened = 1
  MaxVersion = 3
  MaxAborts = 1
  MaxRedeliveries = 1
SPECIFICATION FocusSpec
SYMMETRY Symmetry
CHECK_DEADLOCK FALSE
INVARIANTS
  TypeOK
  VersionFixesInput
  OneOwner
  TripHistoryIsLinear
  ConflictsAreReal
  OutcomeIsWhole
  OneSolverPerIntent
PROPERTIES
  ImplementsChain
  HistoryIsKept
