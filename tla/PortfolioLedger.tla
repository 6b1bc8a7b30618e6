---------------------------- MODULE PortfolioLedger ----------------------------
(***************************************************************************)
(* The transaction ledger of a portfolio (calculations/portfolio.py;       *)
(* frontend/engine/portfolio.js is its port): the transactions up to a date *)
(* are booked one after another at weighted-average cost, and the holdings *)
(* are marked to market.                                                   *)
(*                                                                         *)
(* The rounding of an average cost is left out: what a sale takes from the *)
(* cost basis is the rounded-down integer share of it.                     *)
(***************************************************************************)
EXTENDS Integers, FiniteSetsExt

CONSTANTS Securities, Currencies, CurrencyOf

(* The types of a transaction that names a security; the others move cash. *)
Trades == {"BUY", "SELL", "DIVIDEND"}

VARIABLES
  ledger,   (* the transactions given, of distinct ids                     *)
  market,   (* close and rate of each security and currency on the date,   *)
            (* 0 where there is none                                       *)
  asOf,
  phase,    (* book, done or failed                                        *)
  posted,   (* those booked                                                *)
  quantity, basis, realized, (* of each security                           *)
  money,    (* of each currency                                            *)
  total

vars == <<ledger, market, asOf, phase, posted, quantity, basis, realized, money, total>>

Due == {entry \in ledger : entry.day <= asOf} \ posted

(* The order of the ledger: by date, then by id.                           *)
Precedes(entry, other) ==
  entry.day < other.day \/ (entry.day = other.day /\ entry.id <= other.id)

Fail ==
  /\ phase' = "failed"
  /\ UNCHANGED <<posted, quantity, basis, realized, money>>

Pay(currency, amount) == money' = [money EXCEPT ![currency] = @ + amount]

Buy(entry) ==
  /\ quantity' = [quantity EXCEPT ![entry.security] = @ + entry.quantity]
  /\ basis' = [basis EXCEPT ![entry.security] = @ + entry.cash + entry.fees]
  /\ Pay(entry.currency, 0 - (entry.cash + entry.fees))
  /\ UNCHANGED realized

(* What a sale takes from the basis: its share at the average cost.        *)
DisposedCost(entry) ==
  IF quantity[entry.security] = 0 THEN 0
  ELSE (basis[entry.security] * entry.quantity) \div quantity[entry.security]

(* Variant with a bug: the fees are not taken from the gain of a sale.     *)
SellBeforeFees(entry) ==
  /\ quantity' = [quantity EXCEPT ![entry.security] = @ - entry.quantity]
  /\ basis' = [basis EXCEPT ![entry.security] = @ - DisposedCost(entry)]
  /\ realized' = [realized EXCEPT ![entry.security] = @ + (entry.cash - DisposedCost(entry))]
  /\ Pay(entry.currency, entry.cash - entry.fees)

Sell(entry) ==
  /\ quantity' = [quantity EXCEPT ![entry.security] = @ - entry.quantity]
  /\ basis' = [basis EXCEPT ![entry.security] = @ - DisposedCost(entry)]
  /\ realized' = [realized EXCEPT ![entry.security] = @ + (entry.cash - entry.fees - DisposedCost(entry))]
  /\ Pay(entry.currency, entry.cash - entry.fees)

MoveCash(entry) ==
  /\ Pay(entry.currency, CASE entry.type = "DIVIDEND"        -> entry.cash - entry.fees
                           [] entry.type = "CASH_DEPOSIT"    -> entry.cash
                           [] entry.type = "CASH_WITHDRAWAL" -> 0 - entry.cash)
  /\ UNCHANGED <<quantity, basis, realized>>

(* A trade in another currency than its security's, and a sale of more     *)
(* than is held, end the calculation.                                      *)
Refused(entry) ==
  \/ entry.type \in Trades /\ entry.currency # CurrencyOf[entry.security]
  \/ entry.type = "SELL" /\ entry.quantity > quantity[entry.security]

Post ==
  /\ phase = "book"
  /\ \E entry \in Due :
       /\ \A other \in Due : Precedes(entry, other)
       /\ IF Refused(entry) THEN Fail
          ELSE /\ posted' = posted \cup {entry}
               /\ CASE entry.type = "BUY"  -> Buy(entry)
                    [] entry.type = "SELL" -> Sell(entry)
                    [] OTHER               -> MoveCash(entry)
               /\ UNCHANGED phase
  /\ UNCHANGED <<ledger, market, asOf, total>>

Held    == {s \in Securities : quantity[s] # 0}
Touched == {entry.currency : entry \in posted}

Worth(s)  == quantity[s] * market.close[s] * market.rate[CurrencyOf[s]]
Amount(c) == money[c] * market.rate[c]

(* The valuation: a holding without a close, or an amount without a rate,  *)
(* ends the calculation.                                                   *)
Value ==
  /\ phase = "book" /\ Due = {}
  /\ LET rates == {CurrencyOf[s] : s \in Held} \cup Touched
     IN  IF (\E s \in Held : market.close[s] = 0) \/ (\E c \in rates : market.rate[c] = 0)
         THEN phase' = "failed" /\ UNCHANGED total
         ELSE /\ phase' = "done"
              /\ total' = SumFunction([s \in Held |-> Worth(s)]) + SumFunction([c \in Touched |-> Amount(c)])
  /\ UNCHANGED <<ledger, market, asOf, posted, quantity, basis, realized, money>>

Begin ==
  /\ phase = "book" /\ posted = {} /\ total = 0
  /\ quantity = [s \in Securities |-> 0] /\ basis = [s \in Securities |-> 0]
  /\ realized = [s \in Securities |-> 0] /\ money = [c \in Currencies |-> 0]

Next == Post \/ Value

-------------------------------------------------------------------------------
(* Properties                                                              *)

Booked(type, amounts, c) ==
  SumFunctionOnSet(amounts, {entry \in posted : entry.type = type /\ entry.currency = c})

(* In every currency the cash of the portfolio is what was paid in and     *)
(* received, plus the gains realized, less what the holdings cost: no      *)
(* order of purchases, sales and fees makes or loses money.                *)
MoneyIsConserved ==
  \A c \in Currencies :
    LET cash  == [entry \in posted |-> entry.cash]
        net   == [entry \in posted |-> entry.cash - entry.fees]
        gains == [s \in Securities |-> realized[s] - basis[s]]
    IN  money[c] = Booked("CASH_DEPOSIT", cash, c) - Booked("CASH_WITHDRAWAL", cash, c)
                   + Booked("DIVIDEND", net, c)
                   + SumFunctionOnSet(gains, {s \in Securities : CurrencyOf[s] = c})

===============================================================================
