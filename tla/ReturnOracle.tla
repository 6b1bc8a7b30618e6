----------------------------- MODULE ReturnOracle -----------------------------
(***************************************************************************)
(* The independent expected values of the falsification audit              *)
(* (falsification/oracle.py).  It lists every settlement before it starts  *)
(* and then goes through the days once; a day without an event changes     *)
(* nothing.  The rate of withholding is given to it, as the audit does.    *)
(***************************************************************************)
EXTENDS CalculationRules

CONSTANT PeriodDays

ASSUME ReturnOracleAssumption == PeriodDays \in Nat \ {0}

(* next_trading_day and previous_trading_day, by search; NoDay where they  *)
(* raise.                                                                  *)
FirstFrom(trading, requested) ==
  IF \E day \in trading : day >= requested
  THEN CHOOSE day \in trading : day >= requested /\ \A other \in trading : other >= requested => day <= other
  ELSE NoDay
LastUpTo(trading, requested) ==
  IF \E day \in trading : day <= requested
  THEN CHOOSE day \in trading : day <= requested /\ \A other \in trading : other <= requested => other <= day
  ELSE NoDay

(* fx_at                                                                   *)
FxAt(rates, day) ==
  LET eligible == {other \in DOMAIN rates : other <= day}
  IN  IF eligible = {} THEN 0
      ELSE rates[CHOOSE last \in eligible : \A other \in eligible : other <= last]

(* add_dividends: the settlement of each ex-date of the window that takes  *)
(* part.                                                                   *)
SettleOf(market, window, valuation) ==
  LET Available(ex) == IF market.dividends[ex].pay = NoDay THEN ex + PayLag ELSE market.dividends[ex].pay
      Settle(ex)    == FirstFrom(market.trading, Available(ex))
  IN  [ex \in {day \in DOMAIN market.dividends :
                 /\ window < day /\ day <= valuation
                 /\ Settle(day) # NoDay /\ Settle(day) <= valuation} |-> Settle(ex)]

(* add_splits                                                              *)
SplitDays(market, window, valuation) ==
  {day \in market.splits : window < day /\ day <= valuation}

NoBook(shares) ==
  [shares |-> shares, cash |-> 0, gross |-> 0, tax |-> 0, nets |-> [day \in Days |-> 0]]

(* run: the four steps of a day in the order the convention fixes.         *)
DayAfter(input, settleOf, splits, contributions, book, day) ==
  LET split  == book.shares * (IF day \in splits THEN 2 ELSE 1)
      gross  == IF input.enabled /\ day \in DOMAIN settleOf THEN split ELSE 0
      tax    == IF gross > 0 /\ input.taxed /\ IsHalved(input.market, day) THEN gross \div 2 ELSE 0
      nets   == IF day \in DOMAIN settleOf
                THEN [book.nets EXCEPT ![settleOf[day]] = @ + (gross - tax)] ELSE book.nets
      again  == IF input.reinvest THEN nets[day] \div input.market.close[day] ELSE 0
      bought == IF day \in DOMAIN contributions
                THEN (contributions[day] \div FxAt(input.market.rates, day)) \div input.market.close[day]
                ELSE 0
  IN  [shares |-> split + again + bought,
       cash   |-> IF input.reinvest THEN book.cash ELSE book.cash + nets[day],
       gross  |-> book.gross + gross, tax |-> book.tax + tax, nets |-> nets]

Run(input, window, valuation, initialShares, contributions) ==
  LET settleOf == SettleOf(input.market, window, valuation)
      splits   == SplitDays(input.market, window, valuation)
      books[day \in 0 .. MaxDay] ==
        IF day = 0 THEN NoBook(initialShares)
        ELSE DayAfter(input, settleOf, splits, contributions, books[day - 1], day)
  IN  books[MaxDay]

FinalNative(market, book, valuation) == book.shares * market.close[valuation] + book.cash

(* lump_sum_expected                                                       *)
LumpSumExpected(input) ==
  LET market    == input.market
      purchase  == FirstFrom(market.trading, input.start)
      valuation == LastUpTo(market.trading, input.end)
      book      == Run(input, purchase, valuation,
                       (input.initial \div FxAt(market.rates, purchase)) \div market.close[purchase], <<>>)
      native    == FinalNative(market, book, valuation)
  IN  [shares |-> book.shares, cash |-> book.cash, gross |-> book.gross, tax |-> book.tax,
       native |-> native, sgd |-> native * FxAt(market.rates, valuation)]

(* dca_expected: the first trading day seen of each period is kept.        *)
Contributions(input) ==
  LET period(day) == (day - 1) \div PeriodDays
      seen        == {day \in input.market.trading : input.start <= day /\ day <= input.end}
      first(key)  == CHOOSE day \in seen : period(day) = key /\ ~\E other \in seen : period(other) = key /\ other < day
  IN  [day \in {first(key) : key \in {period(day) : day \in seen}} |-> input.contribution]

DcaExpected(input) ==
  LET market        == input.market
      contributions == Contributions(input)
      window        == CHOOSE day \in DOMAIN contributions : \A other \in DOMAIN contributions : day <= other
      valuation     == LastUpTo(market.trading, input.end)
      book          == Run(input, window, valuation, 0, contributions)
      native        == FinalNative(market, book, valuation)
  IN  [shares |-> book.shares, cash |-> book.cash, native |-> native,
       sgd |-> native * FxAt(market.rates, valuation),
       contributed |-> input.contribution * Cardinality(DOMAIN contributions)]

===============================================================================
