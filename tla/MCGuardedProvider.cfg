CONSTANTS
  main = main
  pool = pool
  d05 = d05
  o39 = o39
  usd = usd
  Callers = {main, pool}
  Main = main
  Nobody = nobody
  Listings = {d05, o39}
  Currencies = {usd}
  Limit = 3
  Interval = 1
  Retries = 1
  Backoff <- MCBackoff
  MaxRequests = 5
  MaxSeconds = 4
  MaxNow = 5
  MaxSize = 2
SPECIFICATION FairSpec
CHECK_DEADLOCK FALSE
INVARIANTS
  BudgetKept
  OneHistoryPerListing
PROPERTIES
  Paced
  NothingAfterOpen
  EveryCallReturns
