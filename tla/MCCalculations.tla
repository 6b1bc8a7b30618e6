---------------------------- MODULE MCCalculations ----------------------------
(* Instances of the calculations for TLC: every combination of small       *)
(* series of prices, rates, dividends, splits and tax rules, and every     *)
(* ledger of up to five of nine transactions.                              *)
EXTENDS Calculations, TLC

CONSTANT Unit  (* a power of two: the money of one contribution            *)

MCCurrencyOf == [a |-> "USD", b |-> "EUR"]

Tradings   == {{1, 2, 3, 4, 5, 6}, {2, 3, 5, 6}, {1, 4, 6}, {1, 3, 4}}
Closes     == {[day \in Days |-> 1], [day \in Days |-> 1 + (day % 2)]}
RateTables == {1 :> 1, (1 :> 2) @@ (4 :> 1), (3 :> 1) @@ (6 :> 2)}
Event(pay)   == [pay |-> pay, capital |-> FALSE]
DividendTables ==
  {ex :> Event(pay) : ex \in {2, 3}, pay \in {0, 3, 6}}
    \cup {(2 :> Event(first)) @@ (4 :> Event(second)) : first \in {0, 2, 5}, second \in {4, 0}}
    \cup {(3 :> [pay |-> 4, capital |-> TRUE]) @@ (4 :> Event(6))}
SplitSets  == {{}, {3}, {4}, {2, 5}}
TaxTables  == {{[from |-> 1, to |-> MaxDay, halved |-> TRUE]},
                 {[from |-> 1, to |-> 3, halved |-> FALSE], [from |-> 2, to |-> MaxDay, halved |-> TRUE]}}
Scenarios  == {[enabled |-> TRUE, reinvest |-> TRUE, taxed |-> FALSE, policy |-> "distributing"],
                 [enabled |-> TRUE, reinvest |-> TRUE, taxed |-> TRUE, policy |-> "unknown"],
                 [enabled |-> TRUE, reinvest |-> FALSE, taxed |-> TRUE, policy |-> "distributing"],
                 [enabled |-> TRUE, reinvest |-> TRUE, taxed |-> TRUE, policy |-> "accumulating"],
                 [enabled |-> FALSE, reinvest |-> TRUE, taxed |-> TRUE, policy |-> "distributing"]}
Ranges     == {<<1, 6>>, <<2, 5>>, <<2, 3>>, <<4, 3>>}

MCInputs ==
  {[market |-> [trading |-> trading, close |-> close, rates |-> rates, dividends |-> dividends,
                splits |-> splits, taxRules |-> taxRules, policy |-> scenario.policy],
    start |-> range[1], end |-> range[2], enabled |-> scenario.enabled, reinvest |-> scenario.reinvest,
    taxed |-> scenario.taxed, purchaseRule |-> "next_trading_day", valuationRule |-> "previous_trading_day",
    initial |-> initial, contribution |-> Unit] :
     trading \in Tradings, close \in Closes, rates \in RateTables, dividends \in DividendTables,
     splits \in SplitSets, taxRules \in TaxTables, scenario \in Scenarios, range \in Ranges, initial \in {0, Unit}}

(* Nine transactions, of which at most five make a ledger.                 *)
Entry(id, day, type, s, quant, cash, fees) ==
  [id |-> id, day |-> day, type |-> type, security |-> s, currency |-> MCCurrencyOf[s],
   quantity |-> quant, cash |-> cash, fees |-> fees]
Entries ==
  {Entry(1, 1, "CASH_DEPOSIT", "a", 0, 5, 0), Entry(2, 1, "BUY", "a", 3, 4, 1),
   Entry(3, 2, "SELL", "a", 1, 3, 1), Entry(4, 2, "BUY", "a", 1, 5, 0),
   Entry(5, 3, "SELL", "a", 3, 5, 0), Entry(6, 3, "DIVIDEND", "a", 0, 2, 1),
   Entry(7, 1, "BUY", "b", 2, 3, 0), Entry(8, 3, "CASH_WITHDRAWAL", "b", 0, 1, 0),
   [Entry(9, 2, "SELL", "b", 2, 5, 1) EXCEPT !.currency = "USD"]}
MCLedgers == {entries \in SUBSET Entries : Cardinality(entries) <= 5}
MCMarkets == [close : {[a |-> 2, b |-> 1], [a |-> 2, b |-> 0]},
            rate : {[USD |-> 1, EUR |-> 2], [USD |-> 1, EUR |-> 0]}]

===============================================================================
