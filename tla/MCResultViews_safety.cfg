SPECIFICATION FairSpec
CONSTANTS
  Setups = {"s", "t"}
  Amounts = {"m", "bad"}
  Ledgers = {"k", "l", "bad"}
  Bad = "bad"
  Baskets <- MCBaskets
  Demo <- MCDemo
  Drafts <- MCDrafts
  HasAdapter = TRUE
  NoId = NoId
  None = None
  MaxInputs = 3
  MaxPromises = 6
CHECK_DEADLOCK FALSE
INVARIANTS
  CurrentIsFresh
  FailureIsExplained
  OlderAreCancelled
PROPERTIES
  LoadingEnds
