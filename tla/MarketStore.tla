------------------------------ MODULE MarketStore ------------------------------
(***************************************************************************)
(* The canonical Parquet store (data/storage.py) as a set of rows, and the *)
(* browser packs (data/packs.py) as views of it.                           *)
(*                                                                         *)
(* A row holds what one observation of the provider says: prices,          *)
(* dividends and corporate actions are keyed by security, FX rates by      *)
(* currency.  What the observation says is reduced to a version: version 2 *)
(* of a cell is its restatement.  Days are numbered; day 0 is "no day".    *)
(***************************************************************************)
EXTENDS Integers, FiniteSetsExt

CONSTANTS
  Securities,   (* catalog listings, numbered in catalog order             *)
  Currencies,   (* native currencies other than SGD                        *)
  SGD,          (* the home currency, which needs no rate                  *)
  CurrencyOf,   (* the native currency of each security                    *)
  MaxDay,       (* bound: the last day of a behaviour                      *)
  DaysPerYear,  (* length of a calendar year, in days of the model         *)
  MaxVersion,   (* bound: versions of one observation                      *)
  Lookback      (* FX_LOOKBACK_CALENDAR_DAYS                               *)

ASSUME MarketStoreAssumption ==
  /\ Securities \subseteq Nat
  /\ SGD \notin Currencies
  /\ CurrencyOf \in [Securities -> Currencies \cup {SGD}]
  /\ MaxDay \in Nat \ {0} /\ DaysPerYear \in Nat \ {0}
  /\ MaxVersion \in Nat \ {0}
  /\ Lookback \in Nat /\ Lookback <= DaysPerYear

Days     == 1 .. MaxDay
YearOf(day) == 1 + (day - 1) \div DaysPerYear
Years    == {YearOf(day) : day \in Days}
Datasets == {"price", "dividend", "action", "fx"}
Keys(set) == IF set = "fx" THEN Currencies ELSE Securities
Rows     == UNION {[set : {set}, key : Keys(set), day : Days, version : 1 .. MaxVersion] :
                     set \in Datasets}

(* The identity a write replaces by: every dataset's key_for.              *)
Cell(row) == <<row.set, row.key, row.day>>

Series(rows, set, key) == {r \in rows : r.set = set /\ r.key = key}
LastDay(rows)          == Max({0} \cup {r.day : r \in rows})
Between(rows, first, last) == {r \in rows : first <= r.day /\ r.day <= last}

(* upsert_prices, upsert_dividends, _upsert_events: rows of one partition  *)
(* are merged by cell and the file is replaced in one os.replace.          *)
Upsert(rows, incoming) ==
  {r \in rows : \A new \in incoming : Cell(new) # Cell(r)} \cup incoming

EarliestYear(rows) ==
  {r \in rows : \A q \in rows : YearOf(r.day) <= YearOf(q.day)}

(* The first row of a batch listed by security, then by day.               *)
IsFirst(row, rows) ==
  \A q \in rows : row.key < q.key \/ (row.key = q.key /\ row.day <= q.day)

(* Variant with a bug: partitions are visited from the latest year back.   *)
LatestYearFirst(set, rows) ==
  {{r \in rows : \A q \in rows : YearOf(q.day) <= YearOf(r.day)}}

(* The partitions of a fetched batch that may be written next.  The price  *)
(* partitions are sorted; dividend rows come in the order the threads      *)
(* finish; action rows are grouped by the year of their first appearance;  *)
(* each currency's rates are written in their own order.                   *)
NextPartitions(set, rows) ==
  CASE set = "price"    -> {EarliestYear(rows)}
    [] set = "dividend" -> {{r \in rows : YearOf(r.day) = year} : year \in Years} \ {{}}
    [] set = "action"   -> {{r \in rows : YearOf(r.day) = YearOf(first.day)} :
                              first \in {r \in rows : IsFirst(r, rows)}}
    [] set = "fx"       -> {EarliestYear(Series(rows, "fx", key)) : key \in Currencies} \ {{}}

------------------------------------------------------------------------------
(* Browser packs: one per security and year that has a price.              *)

Pairs == Securities \X Years

PricesOf(rows, pair) ==
  {r \in Series(rows, "price", pair[1]) : YearOf(r.day) = pair[2]}

PricedPairs(rows) == {pair \in Pairs : PricesOf(rows, pair) # {}}

(* A pack's FX block: from Lookback days before the first price of the     *)
(* year to its last price.                                                 *)
RatesOf(rows, pair) ==
  LET days == {r.day : r \in PricesOf(rows, pair)}
  IN  IF days = {} THEN {}
      ELSE Between(Series(rows, "fx", CurrencyOf[pair[1]]), Min(days) - Lookback, Max(days))

(* _build_security_year_pack, reduced to what depends on the market data.  *)
(* The corporate actions are those of every year.  An empty pack stands    *)
(* for no pack.                                                            *)
PackOf(rows, report, pair) ==
  LET priced == PricesOf(rows, pair) # {}
      when(part) == IF priced THEN part ELSE {}
  IN  [prices    |-> PricesOf(rows, pair),
       fx        |-> RatesOf(rows, pair),
       dividends |-> when({r \in Series(rows, "dividend", pair[1]) : YearOf(r.day) = pair[2]}),
       actions   |-> when(Series(rows, "action", pair[1])),
       failed    |-> priced /\ report[pair[1]].status = "provider_error"]

PackParts == {"prices", "fx", "dividends", "actions", "failed"}

==============================================================================
