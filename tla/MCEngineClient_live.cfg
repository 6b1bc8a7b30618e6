CONSTANTS
  x = x
  y = y
  d = d
  NoId = NoId
  Ids = {x, d}
  Throwing = {d}
  ScopeOf <- MCScopeOf
  MaxPromises = 2
  MaxInbox = 2
  MayFailToLoad = FALSE
SPECIFICATION FairSpec
PROPERTIES
  PendingIsAnswered
  ImplementsService
CHECK_DEADLOCK FALSE
