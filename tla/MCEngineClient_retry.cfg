CONSTANTS
  x = x
  y = y
  d = d
  NoId = NoId
  Ids = {x, y}
  Throwing = {y}
  ScopeOf <- MCScopeOf
  MaxPromises = 3
  MaxInbox = 2
  MayFailToLoad = FALSE
SPECIFICATION Spec
INVARIANT RetryIsNotCancelled
CHECK_DEADLOCK FALSE
