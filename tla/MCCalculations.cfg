SPECIFICATION Spec
CONSTANTS
  MaxDay = 6
  PayLag = 2
  PeriodDays = 3
  Unit = 64
  Inputs <- MCInputs
  Securities = {"a", "b"}
  Currencies = {"USD", "EUR"}
  CurrencyOf <- MCCurrencyOf
  Ledgers <- MCLedgers
  Markets <- MCMarkets
  Dates = {2, 3}
CHECK_DEADLOCK FALSE
INVARIANTS
  AgreesWithOracle
  OnePurchaseIsALumpSum
  NothingSettlesUnseen
  MoneyIsConserved
