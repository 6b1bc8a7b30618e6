--------------------------- MODULE CalculationRules ---------------------------
(***************************************************************************)
(* The date, rate and tax rules that the return calculations share         *)
(* (analysis.py; frontend/engine/prices.js, fx.js, dividends.js and        *)
(* splits.js are their ports).                                             *)
(*                                                                         *)
(* A market is what one calculation is given about one security: its       *)
(* trading days and closes, the SGD rates of its currency, its dividends   *)
(* of one per share, its splits of two for one, and the tax rules that     *)
(* apply to it.  Amounts are integers; the instances start from a power of *)
(* two large enough for every division they make to be exact.  The pay     *)
(* date of an event is NoDay when it is not known; a tax rule that is      *)
(* still in force is effective to MaxDay.                                  *)
(***************************************************************************)
EXTENDS Integers, FiniteSetsExt

CONSTANTS
  MaxDay,  (* bound: the last calendar day                                 *)
  PayLag   (* days after the ex-date when the pay date is not known: 30    *)

ASSUME CalculationRulesAssumption == MaxDay \in Nat \ {0} /\ PayLag \in Nat \ {0}

Days    == 1 .. MaxDay
NoDay   == 0
MayPay  == {"distributing", "unknown"}

(* resolvePrice: the trading day that stands for a requested one.          *)
ResolvePrice(trading, requested, rule) ==
  LET days == IF rule = "next_trading_day" THEN {day \in trading : requested <= day}
                                           ELSE {day \in trading : day <= requested}
  IN  IF days = {} THEN NoDay
      ELSE IF rule = "next_trading_day" THEN Min(days) ELSE Max(days)

(* rateForDate: the last rate published, and none (an error) before the    *)
(* first one.                                                              *)
RateForDate(rates, requested) ==
  LET known == {day \in DOMAIN rates : day <= requested}
  IN  IF known = {} THEN 0 ELSE rates[Max(known)]

EstimatedPayDate(ex) == ex + PayLag

(* taxRateFor: the newest rule in force on the ex-date; without one        *)
(* nothing is withheld, and nothing is withheld from returned capital.     *)
IsHalved(market, ex) ==
  LET matches == {rule \in market.taxRules : rule.from <= ex /\ ex <= rule.to}
      newest  == {rule \in matches : \A other \in matches : other.from <= rule.from}
  IN  ~market.dividends[ex].capital /\ \E rule \in newest : rule.halved

(* filterAccumulatingDividends: the events of a fund that keeps its income *)
(* are ignored.                                                            *)
RelevantDividends(market, first, valuation) ==
  IF market.policy \notin MayPay THEN {}
  ELSE {ex \in DOMAIN market.dividends : first < ex /\ ex <= valuation}

RelevantSplits(market, first, valuation) ==
  {day \in market.splits : first < day /\ day <= valuation}

(* applyActions                                                            *)
ApplyActions(shares, splits, day) == IF day \in splits THEN shares * 2 ELSE shares

===============================================================================
