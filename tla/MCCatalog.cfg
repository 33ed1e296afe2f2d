CONSTANTS
  None = None
  Place = "home"
  ActivePlaces <- MCPlaces
  Revs <- MCRevs
  Sources <- MCSources
  Numbers = {1}
  RelationIds = {x1}
  Threads = {h1, h2}
  Publishers = {g1, g2}
  BatchIds = {d1}
  MaxVersion = 2
  Tasks = {1, 2}
  MaxTaskVersion = 3
  Builders = {b1, b2}
  Modes <- MCModes
  Answers <- MCAnswers
  Failures = {"no_route"}
  Pairs = 1
  Lifetime = 2
  Horizon = 3
  Missing = Missing
  Partial = Partial
  Versions = {"v1", "v2"}
  Intents = {i1}
  Gone = Gone
  Torn = Torn
  BuiltIn = BuiltIn
  Cities = {"hangzhou", "shanghai"}
  City = "hangzhou"
  Places = {1, 2}
  MaxRevision = 2
  MaxDay = 1
  MaxProcess = 2
  MaxPromised = 2
  Settings <- MCSettings
  Inputs <- MCInputs
SPECIFICATION DataSpec
SYMMETRY CatalogSymmetry
CHECK_DEADLOCK FALSE
INVARIANTS
  CatalogTypeOK
  DecidedOnce
  InTurnOnePublished
  BatchTellsTruth
  GatesAgree
  TimesAgree
  RoutesAreKept
  
PROPERTIES
  ApprovedIsFrozen
  DetachedIsUncited
  InTurnRetiredIsFinal
