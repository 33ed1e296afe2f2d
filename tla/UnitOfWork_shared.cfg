CONSTANTS
  NoSession = NoSession
  Requests = {h1, h2}
  Shared = TRUE
  MayFail = FALSE
SPECIFICATION UnitSpec
CHECK_DEADLOCK FALSE
INVARIANT
  CompletionIsAtomic
