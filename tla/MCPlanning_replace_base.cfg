CONSTANTS
  None = None
  a1 = a1
  a2 = a2
  a3 = a3
  Principals = {p1}
  Attractions = {a1, a2, a3}
  DraftIds = {d1, d2}
  TripIds = {t1, t2}
  RevisionIds = {r1, r2}
  IntentIds = {i1, i2}
  Threads = {h1, h2}
  FactChoices <- ReadyFacts
  SelectionChoices <- TwoChoices
  ClientsResend = FALSE
  MaxOpened = 1
  MaxVersion = 4
  MaxAborts = 0
  MaxRedeliveries = 1
SPECIFICATION AllSpec
CHECK_DEADLOCK FALSE
INVARIANT
  ReplacementChangesOneAttraction
