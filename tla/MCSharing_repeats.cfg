CONSTANTS
  p1 = p1
  Clients = {c1, c2}
  Principals = {p1}
  FeedbackIntents = {f1, f2}
  Subjects = {b1}
  OwnerOf <- Owner
  Ratings = {1}
  RowIds = {1, 2}
  NoRow = NoRow
SPECIFICATION SharingSpec
CHECK_DEADLOCK FALSE
INVARIANT
  RepeatsGetTheOriginal
