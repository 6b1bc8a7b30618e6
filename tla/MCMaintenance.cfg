SPECIFICATION MCSpec
CONSTANTS
  MaxCrashes = 1
  MaxChanges = 1
  Securities = {1, 2, 3}
  MarketOf <- MCMarketOf
  MaxAttempts = 2
  MinBars = 2
  MaxStale = 1
  MaxGap = 0
  BatchSize = 2
  Histories <- MCHistories
  MaxDay = 3
  DaysPerYear = 2
  Payers = {1}
  Policies = {"distributing", "unknown", "accumulating"}
  Horizon = 3
  DaysPerArchive = 1
  Recon = 1
  Delay = 1
  Retries = 1
  Options <- MCOptions
  Lags = {0, 1}
  Currencies = {1, 2}
  Euro = 1
  One = 2
  Level <- MCLevel
  PullEnd = 6
  WindowEnd = 4
  DaysPerMonth = 2
  DaysPerPartition = 2
  MinOverlap = 2
  Prices <- MCPrices
  Quotes <- MCQuotes
  MirrorRows <- MCMirrorRows
  MaxPages = 2
  Instruments = {1, 2, 3}
  NeedsFx = {1}
  LastDay = 6
  DaysPerPack = 3
  MaxFxStaleness = 1
  FxLookback = 2
  Stores <- MCStores
  Scopes <- MCScopes
  Catalog = {1, 2}
  ExcludedIds = {3}
  Tier2 = {2}
  NoFile = NoFile
  Torn = Torn
  Ids = {1, 2}
  Seeds = {1}
  Imported = {1, 2}
  ListingOf <- MCListingOf
  LastPriceFile = 1
  LastFile = 2
  MaxDecisions = 2
CHECK_DEADLOCK FALSE
INVARIANTS
  RequestsAreCounted
  UnknownIsNeverSkipped
  NothingStoredIsAskedAgain
  CheckpointSkipsNothing
  StatusIsHonest
  OneLevel
  PagingStops
  PublishedIsWhole
  FreshSupportIsComputable
  RemovedStaysOut
