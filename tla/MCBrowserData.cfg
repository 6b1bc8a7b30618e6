CONSTANTS
  a = a
  b = b
  Pages = {a, b}
  Editor = a
  packs1 = packs1
  packs2 = packs2
  remote2 = remote2
  Loaders = {packs1, packs2, remote2}
  PageOf <- MCPageOf
  Origins = {1, 2}
  OriginOf <- MCOriginOf
  Contents = {1, 2, 3}
  Incomplete = {3}
  Partial = {1}
  Years = {1, 2}
  Retries = 0
  Ttl = 1
  MaxSnapshot = 3
  MaxHour = 1
  MaxVisits = 2
  MaxRequests = 3
SPECIFICATION MCSpec
CHECK_DEADLOCK FALSE
INVARIANTS
  ShownIsSaved
  NoOldPublication
  InputsAreWhole

PROPERTIES
  EverythingSettles
