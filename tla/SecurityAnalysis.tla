--------------------------- MODULE SecurityAnalysis ---------------------------
(***************************************************************************)
(* The return of one purchase (analysis.py; frontend/engine/analysis.js is *)
(* its port): the calculation walks a list of dates to which it adds the   *)
(* payment dates of the dividends on its way.  The listed dates that lie   *)
(* ahead are kept here as a set.                                           *)
(*                                                                         *)
(* Left out: warnings, dividends in another currency than the security's,  *)
(* the SGD value of each payment, and the annualised figures.              *)
(***************************************************************************)
EXTENDS CalculationRules

VARIABLES
  input,      (* the request: market, start, end, initial, the scenario    *)
  phase,      (* resolve, walk, done or failed                             *)
  purchase, valuation,
  shares, cash, gross, tax,
  timeline,   (* the dates ahead                                           *)
  settling,   (* the payments that wait for their trading day              *)
  result

vars == <<input, phase, purchase, valuation, shares, cash, gross, tax, timeline, settling, result>>

NoResult == [native |-> 0, sgd |-> 0]
Market   == input.market
FxOn(day) == RateForDate(Market.rates, day)

Dividends == RelevantDividends(Market, purchase, valuation)
Splits    == RelevantSplits(Market, purchase, valuation)

Fail ==
  /\ phase' = "failed"
  /\ UNCHANGED <<input, purchase, valuation, shares, cash, gross, tax, timeline, settling, result>>

(* analyze_security up to the loop: the dates, the rates and the purchase. *)
Resolve ==
  /\ phase = "resolve"
  /\ LET first == ResolvePrice(Market.trading, input.start, input.purchaseRule)
         last  == ResolvePrice(Market.trading, input.end, input.valuationRule)
     IN  IF \/ input.end < input.start \/ first = NoDay \/ last = NoDay \/ last < first
            \/ FxOn(first) = 0 \/ FxOn(last) = 0
         THEN Fail
         ELSE /\ phase' = "walk" /\ purchase' = first /\ valuation' = last
              /\ shares' = (input.initial \div FxOn(first)) \div Market.close[first]
              /\ timeline' = RelevantDividends(Market, first, last) \cup RelevantSplits(Market, first, last)
              /\ UNCHANGED <<input, cash, gross, tax, settling, result>>

(* The trading day at whose close a dividend is available; NoDay if it is  *)
(* left out of the end value.                                              *)
SettlementDay(ex) ==
  LET pay == Market.dividends[ex].pay
      day == ResolvePrice(Market.trading, IF pay = NoDay THEN EstimatedPayDate(ex) ELSE pay,
                          "next_trading_day")
  IN  IF day > valuation THEN NoDay ELSE day

Entitles(day) == input.enabled /\ day \in Dividends /\ SettlementDay(day) # NoDay

(* Variant with a bug: the payment date is not put on the list.            *)
TimelineAsListed(day) == timeline \ {day}

(* The list without the date that is done, with the payment date of the    *)
(* dividend found on it.                                                   *)
TimelineAfter(day) ==
  (timeline \ {day}) \cup
  (IF Entitles(day) /\ day < SettlementDay(day) THEN {SettlementDay(day)} ELSE {})

Held(day) == ApplyActions(shares, Splits, day)

(* Variant with a bug: a dividend is paid on the shares before the split   *)
(* of its ex-date.                                                         *)
EarnedBeforeSplit(day) == IF Entitles(day) THEN shares ELSE 0

Earned(day) == IF Entitles(day) THEN Held(day) ELSE 0
Withheld(day) ==
  IF input.taxed /\ Entitles(day) /\ IsHalved(Market, day) THEN Earned(day) \div 2 ELSE 0

Waiting(day) ==
  IF Entitles(day) THEN [settling EXCEPT ![SettlementDay(day)] = @ + (Earned(day) - Withheld(day))] ELSE settling

(* One turn of the loop: splits, then the dividend of the day on the       *)
(* shares held, then what is paid at its close.                            *)
Visit(day) ==
  /\ gross' = gross + Earned(day) /\ tax' = tax + Withheld(day)
  /\ settling' = [Waiting(day) EXCEPT ![day] = 0]
  /\ IF input.reinvest
     THEN shares' = Held(day) + Waiting(day)[day] \div Market.close[day] /\ UNCHANGED cash
     ELSE shares' = Held(day) /\ cash' = cash + Waiting(day)[day]
  /\ timeline' = TimelineAfter(day)

Step ==
  /\ phase = "walk" /\ timeline # {}
  /\ \E day \in timeline : (\A other \in timeline : day <= other) /\ Visit(day)
  /\ UNCHANGED <<input, phase, purchase, valuation, result>>

(* The position at the close of the valuation day.                         *)
Value ==
  /\ phase = "walk" /\ timeline = {}
  /\ phase' = "done"
  /\ LET native == shares * Market.close[valuation] + cash
     IN  result' = [native |-> native, sgd |-> native * FxOn(valuation)]
  /\ UNCHANGED <<input, purchase, valuation, shares, cash, gross, tax, timeline, settling>>

Begin ==
  /\ phase = "resolve" /\ purchase = NoDay /\ valuation = NoDay
  /\ shares = 0 /\ cash = 0 /\ gross = 0 /\ tax = 0
  /\ timeline = {} /\ settling = [day \in Days |-> 0] /\ result = NoResult

Next == Resolve \/ Step \/ Value

-------------------------------------------------------------------------------
(* Properties                                                              *)

(* A dividend whose payment lies ahead is paid on a date that is still on  *)
(* the list, inside the valued period: when the walk is over nothing is    *)
(* owed, although the list grows while it is walked.                       *)
NothingSettlesUnseen ==
  \A day \in Days : settling[day] # 0 => day \in timeline /\ day <= valuation

===============================================================================
