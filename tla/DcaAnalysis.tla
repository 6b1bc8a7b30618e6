----------------------------- MODULE DcaAnalysis -----------------------------
(***************************************************************************)
(* Recurring investment (calculations/dca.py; frontend/engine/dca.js is    *)
(* its port and has the same loop): a fixed amount is invested at the      *)
(* close of the first trading day of each period, the first time with the  *)
(* initial amount.                                                         *)
(*                                                                         *)
(* Left out: warnings, dividends in another currency than the security's,  *)
(* and the money-weighted return.                                          *)
(***************************************************************************)
EXTENDS CalculationRules

CONSTANT PeriodDays  (* the days of a contribution period                  *)

VARIABLES
  input,      (* the request: market, start, end, contribution, initial    *)
  phase,      (* resolve, walk, done or failed                             *)
  purchases,  (* the contribution dates                                    *)
  valuation, shares, cash, timeline, settling, result

vars == <<input, phase, purchases, valuation, shares, cash, timeline, settling, result>>

NoResult  == [native |-> 0, sgd |-> 0, contributed |-> 0]
Market    == input.market
FxOn(day) == RateForDate(Market.rates, day)

PeriodKey(day) == (day - 1) \div PeriodDays

(* Variant with a bug: the first trading day of a period counts although   *)
(* it precedes the start date.                                             *)
PeriodsFirstDays(trading, start, end) ==
  {day \in trading : /\ start <= day /\ day <= end
                     /\ \A other \in trading : PeriodKey(other) = PeriodKey(day) => day <= other}

(* contributionDates                                                       *)
ContributionDates(trading, start, end) ==
  LET inRange == {day \in trading : start <= day /\ day <= end}
  IN  {day \in inRange : \A other \in inRange : PeriodKey(other) = PeriodKey(day) => day <= other}

First     == Min(purchases)
Dividends == RelevantDividends(Market, First, valuation)
Splits    == RelevantSplits(Market, First, valuation)

(* contributionsByDate                                                     *)
Contribution(day) == input.contribution + (IF day = First THEN input.initial ELSE 0)

(* dcaAnalysis up to the loop.                                             *)
Resolve ==
  /\ phase = "resolve"
  /\ LET days == ContributionDates(Market.trading, input.start, input.end)
         last == ResolvePrice(Market.trading, input.end, "previous_trading_day")
     IN  IF input.end < input.start \/ days = {} \/ last = NoDay
         THEN phase' = "failed" /\ UNCHANGED <<purchases, valuation, timeline>>
         ELSE /\ phase' = "walk" /\ purchases' = days /\ valuation' = last
              /\ timeline' = days \cup RelevantDividends(Market, Min(days), last)
                                  \cup RelevantSplits(Market, Min(days), last)
  /\ UNCHANGED <<input, shares, cash, settling, result>>

(* The trading day at whose close a dividend is available; NoDay if it is  *)
(* left out of the end value.                                              *)
SettlementDay(ex) ==
  LET pay == Market.dividends[ex].pay
      day == ResolvePrice(Market.trading, IF pay = NoDay THEN EstimatedPayDate(ex) ELSE pay,
                          "next_trading_day")
  IN  IF day > valuation THEN NoDay ELSE day

Entitles(day) == input.enabled /\ day \in Dividends /\ SettlementDay(day) # NoDay

TimelineAfter(day) ==
  (timeline \ {day}) \cup
  (IF Entitles(day) /\ day < SettlementDay(day) THEN {SettlementDay(day)} ELSE {})

Held(day) == ApplyActions(shares, Splits, day)
Net(day) ==
  IF input.taxed /\ IsHalved(Market, day) THEN Held(day) - Held(day) \div 2 ELSE Held(day)
Waiting(day) ==
  IF Entitles(day) THEN [settling EXCEPT ![SettlementDay(day)] = @ + Net(day)] ELSE settling

Reinvested(day) == IF input.reinvest THEN Waiting(day)[day] \div Market.close[day] ELSE 0
Bought(day) ==
  IF day \in purchases THEN (Contribution(day) \div FxOn(day)) \div Market.close[day] ELSE 0

(* One turn of the loop: splits, the dividend of the day, what is paid at  *)
(* its close, and the contribution last.  The rate of a contribution may   *)
(* not exist.                                                              *)
Step ==
  /\ phase = "walk" /\ timeline # {}
  /\ \E day \in timeline :
       /\ \A other \in timeline : day <= other
       /\ IF day \in purchases /\ FxOn(day) = 0
          THEN phase' = "failed" /\ UNCHANGED <<shares, cash, settling, timeline>>
          ELSE /\ settling' = [Waiting(day) EXCEPT ![day] = 0]
               /\ cash' = IF input.reinvest THEN cash ELSE cash + Waiting(day)[day]
               /\ shares' = Held(day) + Reinvested(day) + Bought(day)
               /\ timeline' = TimelineAfter(day)
               /\ UNCHANGED phase
  /\ UNCHANGED <<input, purchases, valuation, result>>

Value ==
  /\ phase = "walk" /\ timeline = {}
  /\ phase' = "done"
  /\ LET native == shares * Market.close[valuation] + cash
     IN  result' = [native |-> native, sgd |-> native * FxOn(valuation),
                    contributed |-> input.contribution * Cardinality(purchases) + input.initial]
  /\ UNCHANGED <<input, purchases, valuation, shares, cash, timeline, settling>>

Begin ==
  /\ phase = "resolve" /\ purchases = {} /\ valuation = NoDay
  /\ shares = 0 /\ cash = 0
  /\ timeline = {} /\ settling = [day \in Days |-> 0] /\ result = NoResult

Next == Resolve \/ Step \/ Value

-------------------------------------------------------------------------------
(* Properties                                                              *)

(* As in SecurityAnalysis: a payment that lies ahead is still on the list. *)
NothingSettlesUnseen ==
  \A day \in Days : settling[day] # 0 => day \in timeline /\ day <= valuation

===============================================================================
