CONSTANTS
  Ids = {1, 2, 3, 4, 5, 6}
  Dates = {1, 2}
  Penalty = 10
  NoRoute = NoRoute
SPECIFICATION LineSpec
CHECK_DEADLOCK FALSE
INVARIANT
  GroupsAreEven
