---------------------------- MODULE PortfolioOracle ----------------------------
(***************************************************************************)
(* The portfolio simulator of the falsification audit                      *)
(* (portfolio_expected of falsification/oracle.py): the whole ledger is    *)
(* folded at once, in the order of its dates and, within a day, in the     *)
(* order it is given in, which is that of the ids here.  It is only asked  *)
(* about ledgers that the engine accepts.                                  *)
(***************************************************************************)
EXTENDS Integers, FiniteSetsExt

CONSTANTS Securities, Currencies, CurrencyOf

EmptyBook ==
  [quantity |-> [s \in Securities |-> 0], basis |-> [s \in Securities |-> 0],
   realized |-> [s \in Securities |-> 0], cash |-> [c \in Currencies |-> 0]]

InOrder(tx, other) == tx.day < other.day \/ (tx.day = other.day /\ tx.id < other.id)

Signed(tx) ==
  CASE tx.type = "BUY"                            -> 0 - tx.cash - tx.fees
    [] tx.type \in {"SELL", "DIVIDEND"}           -> tx.cash - tx.fees
    [] tx.type = "CASH_DEPOSIT"                   -> tx.cash
    [] tx.type = "CASH_WITHDRAWAL"                -> 0 - tx.cash

(* One transaction; a sale disposes of its share of the cost.              *)
BookAfter(book, tx) ==
  LET s        == tx.security
      disposed == (book.basis[s] * tx.quantity) \div book.quantity[s]
      paid     == [book EXCEPT !.cash[tx.currency] = @ + Signed(tx)]
  IN  CASE tx.type = "BUY"  -> [paid EXCEPT !.quantity[s] = @ + tx.quantity,
                                            !.basis[s] = @ + tx.cash + tx.fees]
        [] tx.type = "SELL" -> [paid EXCEPT !.realized[s] = @ + Signed(tx) - disposed,
                                            !.quantity[s] = @ - tx.quantity,
                                            !.basis[s] = @ - disposed]
        [] OTHER            -> paid

(* The transaction that comes last.                                        *)
Latest(transactions) ==
  CHOOSE tx \in transactions : \A other \in transactions : other = tx \/ InOrder(other, tx)

PortfolioExpected(transactions, asOf, market) ==
  LET due    == {tx \in transactions : tx.day <= asOf}
      book   == MapThenFoldSet(LAMBDA tx, before : BookAfter(before, tx), EmptyBook, LAMBDA tx : tx, Latest, due)
      worth  == [s \in Securities |-> book.quantity[s] * market.close[s] * market.rate[CurrencyOf[s]]]
      amount == [c \in Currencies |-> book.cash[c] * market.rate[c]]
  IN  [quantity |-> book.quantity, basis |-> book.basis, realized |-> book.realized, cash |-> book.cash,
       total |-> SumFunction(worth) + SumFunction(amount)]

===============================================================================
