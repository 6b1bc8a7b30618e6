CONSTANTS
  a = a
  b = b
  Pages = {a, b}
  Editor = a
  packs1 = packs1
  packs2 = packs2
  remote2 = remote2
  Loaders = {packs2}
  PageOf <- MCPageOf
  Origins = {1}
  OriginOf <- MCOriginOf
  Contents = {1}
  Incomplete = {}
  Partial = {}
  Years = {1, 2}
  Retries = 0
  Ttl = 1
  MaxSnapshot = 2
  MaxHour = 1
  MaxVisits = 2
  MaxRequests = 2
SPECIFICATION MCSpec
CHECK_DEADLOCK FALSE
INVARIANTS
  PacksMatchTheManifest
