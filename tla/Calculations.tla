----------------------------- MODULE Calculations -----------------------------
(***************************************************************************)
(* One request to the calculation engine and what the falsification audit  *)
(* expects of it: the return of a purchase and of the same money invested  *)
(* in periods, or the valuation of a ledger.                               *)
(***************************************************************************)
EXTENDS ReturnOracle

CONSTANTS
  Inputs,      (* the requests for returns                                 *)
  Securities, Currencies, CurrencyOf,
  Ledgers, Markets, Dates  (* what a portfolio is valued from, and when    *)

VARIABLES
  job, request, input,
  aPhase, purchase, aValuation, aShares, aCash, gross, tax, aTimeline, aSettling, aResult,
  dPhase, purchases, dValuation, dShares, dCash, dTimeline, dSettling, dResult,
  ledger, market, asOf, pPhase, posted, quantity, basis, realized, money, total

A == INSTANCE SecurityAnalysis WITH
       input <- request, phase <- aPhase, valuation <- aValuation, shares <- aShares, cash <- aCash,
       timeline <- aTimeline, settling <- aSettling, result <- aResult
D == INSTANCE DcaAnalysis WITH
       phase <- dPhase, valuation <- dValuation, shares <- dShares, cash <- dCash,
       timeline <- dTimeline, settling <- dSettling, result <- dResult
P == INSTANCE PortfolioLedger WITH
       phase <- pPhase
O == INSTANCE PortfolioOracle

(* What validation lets through (validation.py:73, models.py): the days of *)
(* a series are days, closes and rates are positive, and no dividend is    *)
(* paid before its ex-date.                                                *)
IsMarket(m) ==
  /\ m.trading \subseteq Days /\ m.splits \subseteq Days
  /\ m.close \in [Days -> Nat \ {0}]
  /\ DOMAIN m.rates \subseteq Days /\ \A day \in DOMAIN m.rates : m.rates[day] \in Nat \ {0}
  /\ DOMAIN m.dividends \subseteq Days
  /\ \A ex \in DOMAIN m.dividends :
       m.dividends[ex].pay = NoDay \/ (m.dividends[ex].pay \in Days /\ ex <= m.dividends[ex].pay)

IsInput(x) ==
  /\ x = [market |-> x.market, start |-> x.start, end |-> x.end, enabled |-> x.enabled,
          reinvest |-> x.reinvest, taxed |-> x.taxed, purchaseRule |-> x.purchaseRule,
          valuationRule |-> x.valuationRule, initial |-> x.initial, contribution |-> x.contribution]
  /\ IsMarket(x.market)
  /\ x.start \in Days /\ x.end \in Days
  /\ x.purchaseRule = "next_trading_day" /\ x.valuationRule = "previous_trading_day"
  /\ {x.enabled, x.reinvest, x.taxed} \subseteq BOOLEAN
  /\ x.initial \in Nat /\ x.contribution \in Nat

IsEntry(entry) ==
  /\ entry.day \in Nat /\ entry.id \in Nat
  /\ entry.type \in {"BUY", "SELL", "DIVIDEND", "CASH_DEPOSIT", "CASH_WITHDRAWAL"}
  /\ entry.security \in Securities /\ entry.currency \in Currencies
  /\ {entry.quantity, entry.cash, entry.fees} \subseteq Nat

IsLedger(entries) ==
  /\ IsFiniteSet(entries) /\ \A entry \in entries : IsEntry(entry)
  /\ \A entry, other \in entries : entry.id = other.id => entry = other

ASSUME CalculationsAssumption ==
  /\ Inputs # {} /\ \A x \in Inputs : IsInput(x)
  /\ IsFiniteSet(Securities) /\ CurrencyOf \in [Securities -> Currencies]
  /\ IsFiniteSet(Currencies)
  /\ \A entries \in Ledgers : IsLedger(entries)
  /\ \A m \in Markets : m.close \in [Securities -> Nat] /\ m.rate \in [Currencies -> Nat]
  /\ Dates \subseteq Nat

aVars == <<aPhase, purchase, aValuation, aShares, aCash, gross, tax, aTimeline, aSettling, aResult>>
dVars == <<dPhase, purchases, dValuation, dShares, dCash, dTimeline, dSettling, dResult>>
pVars == <<ledger, market, asOf, pPhase, posted, quantity, basis, realized, money, total>>
vars  == <<job, request, input, aVars, dVars, pVars>>

Init ==
  /\ A!Begin /\ D!Begin /\ P!Begin
  /\ \/ /\ job = "returns" /\ input \in Inputs
        /\ ledger = {} /\ asOf = NoDay
        /\ market = [close |-> [s \in Securities |-> 0], rate |-> [c \in Currencies |-> 0]]
     \/ /\ job = "portfolio" /\ input = CHOOSE any \in Inputs : TRUE
        /\ ledger \in Ledgers /\ asOf \in Dates /\ market \in Markets
  /\ request = [input EXCEPT !.initial = input.initial + input.contribution]

Next ==
  /\ UNCHANGED <<job, request, input>>
  /\ \/ job = "returns" /\ A!Next /\ UNCHANGED <<dVars, pVars>>
     \/ job = "returns" /\ aPhase \in {"done", "failed"} /\ D!Next /\ UNCHANGED <<aVars, pVars>>
     \/ job = "portfolio" /\ P!Next /\ UNCHANGED <<aVars, dVars>>

Spec == Init /\ [][Next]_vars

-------------------------------------------------------------------------------
(* Properties                                                              *)

(* What the audit is given: no dividends of a fund that keeps its income.  *)
ForOracle(x) == [x EXCEPT !.enabled = @ /\ x.market.policy \in MayPay]

(* And no sale of no shares, on which the oracle divides by zero.          *)
SellsShares(entries) == \A entry \in entries : entry.type = "SELL" => entry.quantity # 0

(* The falsification audit: every figure of a calculation that ends is     *)
(* the one that the oracle finds without a growing list of dates.          *)
AgreesWithOracle ==
  /\ aPhase = "done" =>
       [shares |-> aShares, cash |-> aCash, gross |-> gross, tax |-> tax,
        native |-> aResult.native, sgd |-> aResult.sgd] = LumpSumExpected(ForOracle(request))
  /\ dPhase = "done" /\ input.initial = 0 =>
       [shares |-> dShares, cash |-> dCash, native |-> dResult.native, sgd |-> dResult.sgd,
        contributed |-> dResult.contributed] = DcaExpected(ForOracle(input))
  /\ pPhase = "done" /\ SellsShares(ledger) =>
       [quantity |-> quantity, basis |-> basis, realized |-> realized, cash |-> money,
        total |-> total] = O!PortfolioExpected(ledger, asOf, market)

(* One contribution is a purchase: where the range holds the days of a     *)
(* single period, investing an initial amount and a contribution ends with *)
(* what a purchase for their sum on the same day ends with.                *)
OnePurchaseIsALumpSum ==
  aPhase = "done" /\ dPhase = "done" /\ Cardinality(purchases) = 1
    => /\ dShares = aShares /\ dCash = aCash
       /\ dResult.native = aResult.native /\ dResult.sgd = aResult.sgd

(* No walk ever owes a payment that it has passed by.                      *)
NothingSettlesUnseen == A!NothingSettlesUnseen /\ D!NothingSettlesUnseen

(* The books of a ledger add up after every transaction.                   *)
MoneyIsConserved == P!MoneyIsConserved

===============================================================================
