CONSTANTS
  x = x
  y = y
  d = d
  NoId = NoId
  Ids = {x, y}
  Throwing = {y}
  ScopeOf <- MCScopeOf
  MaxPromises = 3
  MaxInbox = 2
  MayFailToLoad = TRUE
SPECIFICATION Spec
INVARIANTS
  PendingIsWaiting
  ReplyOwed
  PendingIsTracked
  CancelNeverPoisons
PROPERTIES
  TerminalRecordsAreFinal
  ServiceSafety
CHECK_DEADLOCK FALSE
