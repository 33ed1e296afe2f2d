CONSTANTS
  None = None
  Place = "home"
  ActivePlaces <- MCPlaces
  Revs <- MCRevs
  Sources <- MCSources
  Numbers = {1}
  RelationIds = {x1}
  Threads = {h1}
  Publishers = {g1, g2}
  BatchIds = {}
  MaxVersion = 1
  Tasks = {1, 2}
  MaxTaskVersion = 3
SPECIFICATION MCSpec
SYMMETRY Symmetry
CHECK_DEADLOCK FALSE
INVARIANT
  OnePublishedPerPlace
