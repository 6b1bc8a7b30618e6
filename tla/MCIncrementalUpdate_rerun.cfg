SPECIFICATION Spec
CHECK_DEADLOCK FALSE
CONSTANTS
  USD = USD
  SGD = SGD
  Currencies = {USD}
  CurrencyOf <- MCCurrencyOf
  Securities = {1}
  MaxDay = 4
  DaysPerYear = 2
  MaxVersion = 2
  Lookback = 1
  Recon = 1
  Selections <- Everything
  Sinces = {0}
  SkipChoices = {FALSE}
  Seeded = {"price", "fx"}
  MaxPublished = 3
  MaxRuns = 3
  MaxTroubles = 1
INVARIANTS
  CompleteMeansPacksAreCurrent
