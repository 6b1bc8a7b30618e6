SPECIFICATION SpecPublication
CONSTANTS
  Instruments = {1, 2}
  NeedsFx = {1}
  LastDay = 6
  DaysPerPack = 3
  MaxFxStaleness = 1
  FxLookback = 2
  Stores <- MCStores
  Scopes <- MCScopes
  Catalog = {1, 2}
  ExcludedIds = {}
  Tier2 = {2}
  NoFile = NoFile
  Torn = Torn
  MaxCrashes = 1
  MaxChanges = 1
CHECK_DEADLOCK FALSE
INVARIANTS
  SupportIsComputable
