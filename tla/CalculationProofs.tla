-------------------------- MODULE CalculationProofs --------------------------
(***************************************************************************)
(* What holds of the calculations for every request and ledger that        *)
(* validation lets through, and for any calendar, periods and delays.      *)
(*                                                                         *)
(* Returns: the engine walks a list of dates that grows while it is        *)
(* walked; the falsification oracle keeps a book for every day of a fixed  *)
(* calendar.  They are matched by Stands: after the listed days up to k    *)
(* the shares and the cash are those of the oracle's book of k, what is    *)
(* owed is what the book has yet to settle, and every day still to come on *)
(* which the book changes is in the list.  A day that is not listed is     *)
(* quiet: it leaves the book as it was.                                    *)
(*                                                                         *)
(* Ledgers: what was posted are the first transactions in the engine's     *)
(* order, and the books are the oracle's fold of them; each posting is the *)
(* next step of the fold, and what it moves is explained by the sums of    *)
(* its type and its currency.                                              *)
(***************************************************************************)
EXTENDS Calculations, SumLemmas

-------------------------------------------------------------------------------
(* The requests                                                            *)

(* A run has one input; the purchase it is compared with is for the        *)
(* initial amount and one contribution.                                    *)
GivenInv ==
  /\ IsInput(input) /\ IsInput(request)
  /\ request = [input EXCEPT !.initial = input.initial + input.contribution]

(* Validation admits the input and the request derived from it.            *)
LEMMA GivenInit == Init => GivenInv
<1> SUFFICES ASSUME Init PROVE GivenInv
  OBVIOUS
<1>1. input \in Inputs
  <2>1. (CHOOSE any \in Inputs : TRUE) \in Inputs
    BY CalculationsAssumption
  <2> QED BY <2>1 DEF Init
<1>2. IsInput(input)
  BY <1>1, CalculationsAssumption
<1>3. request = [input EXCEPT !.initial = input.initial + input.contribution]
  BY DEF Init
<1>4. input.initial + input.contribution \in Nat
  BY <1>2 DEF IsInput
<1>5. /\ request.initial = input.initial + input.contribution
      /\ request = [market |-> input.market, start |-> input.start, end |-> input.end, enabled |-> input.enabled,
          reinvest |-> input.reinvest, taxed |-> input.taxed, purchaseRule |-> input.purchaseRule,
          valuationRule |-> input.valuationRule, initial |-> input.initial + input.contribution, contribution |-> input.contribution]
  BY <1>2, <1>3 DEF IsInput
<1> QED BY <1>2, <1>3, <1>4, <1>5 DEF GivenInv, IsInput

-------------------------------------------------------------------------------
(* The rules of dates and rates                                            *)

(* The days of the calendar are finitely many positive numbers.            *)
LEMMA DaysAreNumbers == Days \in SUBSET Nat /\ NoDay \notin Days /\ IsFiniteSet(Days)
BY CalculationRulesAssumption, FS_Interval DEF Days, NoDay

LEMMA ADayIsANumber == \A day \in Days : day \in Int /\ day \in Nat /\ 0 < day
BY CalculationRulesAssumption DEF Days

(* A set of days that is not empty has a first day,                        *)
LEMMA FirstOfDays ==
  ASSUME NEW days \in SUBSET Days, days # {}
  PROVE  Min(days) \in days /\ \A day \in days : Min(days) <= day
<1>1. days \in SUBSET Nat
  BY DaysAreNumbers
<1>2. PICK x \in days : \A y \in days : x <= y
  BY <1>1, LeastOf
<1> QED BY <1>2 DEF Min

(* and a last one: the first when they are counted from the end.           *)
LEMMA LastOfDays ==
  ASSUME NEW days \in SUBSET Days, days # {}
  PROVE  Max(days) \in days /\ \A day \in days : day <= Max(days)
<1> DEFINE rest == {MaxDay - day : day \in days}
<1>1. rest \in SUBSET Nat /\ rest # {}
  <2>1. ASSUME NEW day \in days PROVE MaxDay - day \in Nat
    <3>1. day \in 1 .. MaxDay
      BY DEF Days
    <3> QED BY <3>1, CalculationRulesAssumption
  <2> QED BY <2>1
<1>2. PICK m \in rest : \A y \in rest : m <= y
  BY <1>1, LeastOf
<1>3. PICK x \in days : m = MaxDay - x
  BY <1>2
<1>4. ASSUME NEW y \in days PROVE x >= y
  <2>1. m <= MaxDay - y
    BY <1>2, <1>3
  <2>2. x \in Nat /\ y \in Nat /\ MaxDay \in Nat
    BY DaysAreNumbers, CalculationRulesAssumption
  <2> QED BY <2>1, <2>2, <1>3
<1> QED BY <1>4 DEF Max

(* The rule of the purchase resolves a day to the first with a price from  *)
(* it on,                                                                  *)
LEMMA NextTradingDay ==
  ASSUME NEW trading \in SUBSET Days, NEW requested \in Int,
         ResolvePrice(trading, requested, "next_trading_day") # NoDay
  PROVE  LET day == ResolvePrice(trading, requested, "next_trading_day")
         IN  day \in trading /\ requested <= day /\ \A other \in trading : requested <= other => day <= other
<1> DEFINE ahead == {other \in trading : requested <= other}
<1>1. ahead # {} /\ ResolvePrice(trading, requested, "next_trading_day") = Min(ahead)
  BY DEF ResolvePrice
<1>2. Min(ahead) \in ahead /\ \A y \in ahead : Min(ahead) <= y
  BY <1>1, FirstOfDays
<1> QED BY <1>1, <1>2

(* and the rule of the valuation to the last with a price up to it.        *)
LEMMA PreviousTradingDay ==
  ASSUME NEW trading \in SUBSET Days, NEW requested \in Int,
         ResolvePrice(trading, requested, "previous_trading_day") # NoDay
  PROVE  LET day == ResolvePrice(trading, requested, "previous_trading_day")
         IN  day \in trading /\ day <= requested /\ \A other \in trading : other <= requested => other <= day
<1> DEFINE past == {other \in trading : other <= requested}
<1>1. past # {} /\ ResolvePrice(trading, requested, "previous_trading_day") = Max(past)
  BY DEF ResolvePrice
<1>2. Max(past) \in past /\ \A y \in past : y <= Max(past)
  BY <1>1, LastOfDays
<1> QED BY <1>1, <1>2

(* The oracle's searches find what the engine's rules give.                *)
LEMMA FirstFromIsNext ==
  ASSUME NEW trading \in SUBSET Days, NEW requested \in Int
  PROVE  FirstFrom(trading, requested) = ResolvePrice(trading, requested, "next_trading_day")
<1> DEFINE ahead == {other \in trading : requested <= other}
           day   == ResolvePrice(trading, requested, "next_trading_day")
<1>1. trading \in SUBSET Nat
  BY DaysAreNumbers
<1>2. CASE ahead = {}
  BY <1>1, <1>2 DEF FirstFrom, ResolvePrice
<1>3. CASE ahead # {}
  <2>1. day = Min(ahead) /\ Min(ahead) \in ahead /\ \A y \in ahead : Min(ahead) <= y
    BY <1>3, FirstOfDays DEF ResolvePrice
  <2>2. day \in trading /\ day >= requested /\ \A other \in trading : other >= requested => day <= other
    BY <1>1, <2>1
  <2> HIDE DEF day, ahead
  <2>3. ASSUME NEW other \in trading, other >= requested,
               \A third \in trading : third >= requested => other <= third
        PROVE  other = day
    <3>1. other <= day /\ day <= other /\ other \in Nat /\ day \in Nat
      BY <1>1, <2>2, <2>3
    <3> QED BY <3>1
  <2>4. day = CHOOSE other \in trading :
                other >= requested /\ \A third \in trading : third >= requested => other <= third
    BY <2>2, <2>3
  <2> QED BY <2>2, <2>4 DEF FirstFrom, day
<1> QED BY <1>2, <1>3

(* The oracle's search for the last day is the engine's rule,              *)
LEMMA LastUpToIsPrevious ==
  ASSUME NEW trading \in SUBSET Days, NEW requested \in Int
  PROVE  LastUpTo(trading, requested) = ResolvePrice(trading, requested, "previous_trading_day")
<1> DEFINE past == {other \in trading : other <= requested}
           day  == ResolvePrice(trading, requested, "previous_trading_day")
<1>1. trading \in SUBSET Nat
  BY DaysAreNumbers
<1>2. CASE past = {}
  BY <1>1, <1>2 DEF LastUpTo, ResolvePrice
<1>3. CASE past # {}
  <2>1. day = Max(past) /\ Max(past) \in past /\ \A y \in past : y <= Max(past)
    BY <1>3, LastOfDays DEF ResolvePrice
  <2>2. day \in trading /\ day <= requested /\ \A other \in trading : other <= requested => other <= day
    BY <1>1, <2>1
  <2> HIDE DEF day, past
  <2>3. ASSUME NEW other \in trading, other <= requested,
               \A third \in trading : third <= requested => third <= other
        PROVE  other = day
    <3>1. other <= day /\ day <= other /\ other \in Nat /\ day \in Nat
      BY <1>1, <2>2, <2>3
    <3> QED BY <3>1
  <2>4. day = CHOOSE other \in trading :
                other <= requested /\ \A third \in trading : third <= requested => third <= other
    BY <2>2, <2>3
  <2> QED BY <2>2, <2>4 DEF LastUpTo, day
<1> QED BY <1>2, <1>3

(* and so is its search for the rate of a day.                             *)
LEMMA FxAtIsTheRate ==
  ASSUME NEW rates, DOMAIN rates \subseteq Days, NEW requested \in Int
  PROVE  FxAt(rates, requested) = RateForDate(rates, requested)
<1> DEFINE known == {day \in DOMAIN rates : day <= requested}
<1>1. CASE known = {}
  BY <1>1 DEF FxAt, RateForDate
<1>2. CASE known # {}
  <2>1. Max(known) \in known /\ \A y \in known : y <= Max(known)
    BY <1>2, LastOfDays
  <2>2. known \in SUBSET Nat
    BY DaysAreNumbers
  <2>3. ASSUME NEW last \in known, \A other \in known : other <= last
        PROVE  last = Max(known)
    BY <2>1, <2>2, <2>3
  <2>4. FxAt(rates, requested) = rates[CHOOSE last \in known : \A other \in known : other <= last]
    BY <1>2 DEF FxAt
  <2>5. RateForDate(rates, requested) = rates[Max(known)]
    BY <1>2 DEF RateForDate
  <2> HIDE DEF known
  <2> QED BY <2>1, <2>3, <2>4, <2>5
<1> QED BY <1>1, <1>2

(* A rate of a day is a number; none is 0.                                 *)
LEMMA RatesArePositive ==
  ASSUME NEW m, IsMarket(m), NEW requested \in Int
  PROVE  RateForDate(m.rates, requested) \in Nat
<1> DEFINE known == {day \in DOMAIN m.rates : day <= requested}
<1>1. CASE known # {}
  <2>1. Max(known) \in known
    BY <1>1, LastOfDays DEF IsMarket
  <2> QED BY <1>1, <2>1 DEF RateForDate, IsMarket
<1>2. CASE known = {}
  BY <1>2 DEF RateForDate
<1> QED BY <1>1, <1>2

-------------------------------------------------------------------------------
(* The oracle's books                                                      *)

NextBook(x, window, valuation, contributions, book, day) ==
  DayAfter(x, SettleOf(x.market, window, valuation), SplitDays(x.market, window, valuation),
           contributions, book, day)

BooksOf(x, window, valuation, first, contributions, books, n) ==
  [day \in 0 .. n |->
     IF day = 0 THEN NoBook(first)
     ELSE NextBook(x, window, valuation, contributions, books[day - 1], day)]

Books(x, window, valuation, first, contributions) ==
  CHOOSE books : books = BooksOf(x, window, valuation, first, contributions, books, MaxDay)

(* What the oracle ends with is its book of the last day.                  *)
LEMMA RunIsTheLastBook ==
  ASSUME NEW x, NEW window, NEW valuation, NEW first, NEW contributions
  PROVE  Run(x, window, valuation, first, contributions)
           = Books(x, window, valuation, first, contributions)[MaxDay]
BY DEF Run, Books, BooksOf, NextBook

(* There are books for every number of days, by the least number for which *)
(* there would be none.                                                    *)
LEMMA BooksExist ==
  ASSUME NEW x, NEW window, NEW valuation, NEW first, NEW contributions
  PROVE  LET books == Books(x, window, valuation, first, contributions)
         IN  books = BooksOf(x, window, valuation, first, contributions, books, MaxDay)
<1> DEFINE Of(books, n) == BooksOf(x, window, valuation, first, contributions, books, n)
           Bad == {n \in Nat : ~ \E books : books = Of(books, n)}
<1>1. \E books : books = Of(books, 0)
  <2> DEFINE books == [day \in 0 .. 0 |-> NoBook(first)]
  <2>1. books = Of(books, 0)
    BY DEF BooksOf
  <2> QED BY <2>1
<1>2. ASSUME NEW n \in Nat, \E books : books = Of(books, n)
      PROVE  \E longer : longer = Of(longer, n + 1)
  <2>1. PICK books : books = Of(books, n)
    BY <1>2
  <2> DEFINE longer == Of(books, n + 1)
             After(b, day) == NextBook(x, window, valuation, contributions, b[day - 1], day)
  <2>2. longer = [day \in 0 .. n + 1 |-> IF day = 0 THEN NoBook(first) ELSE After(books, day)]
    BY DEF BooksOf
  <2>3. books = [day \in 0 .. n |-> IF day = 0 THEN NoBook(first) ELSE After(books, day)]
    BY <2>1 DEF BooksOf
  <2> HIDE DEF longer
  <2>4. ASSUME NEW day \in 0 .. n PROVE longer[day] = books[day]
    <3> HIDE DEF After
    <3>1. day \in 0 .. n + 1
      OBVIOUS
    <3>2. longer[day] = IF day = 0 THEN NoBook(first) ELSE After(books, day)
      BY <2>2, <3>1
    <3>3. books[day] = IF day = 0 THEN NoBook(first) ELSE After(books, day)
      BY <2>3
    <3> QED BY <3>2, <3>3
  <2>5. ASSUME NEW day \in 0 .. n + 1, day # 0 PROVE After(longer, day) = After(books, day)
    <3>1. day - 1 \in 0 .. n
      BY <2>5
    <3>2. longer[day - 1] = books[day - 1]
      BY <2>4, <3>1
    <3> QED BY <3>2
  <2>6. longer = [day \in 0 .. n + 1 |-> IF day = 0 THEN NoBook(first) ELSE After(longer, day)]
    <3> HIDE DEF After
    <3> QED BY <2>2, <2>5
  <2>7. longer = Of(longer, n + 1)
    BY <2>6 DEF BooksOf
  <2> QED BY <2>7
<1>3. Bad = {}
  <2> SUFFICES ASSUME Bad # {} PROVE FALSE
    OBVIOUS
  <2>1. PICK n \in Bad : \A m \in Bad : n <= m
    BY LeastOf
  <2> HIDE DEF Of
  <2>2. n \in Nat \ {0}
    BY <1>1
  <2>3. n - 1 \in Nat /\ n - 1 \notin Bad /\ (n - 1) + 1 = n
    BY <2>1, <2>2
  <2>4. \E books : books = Of(books, n - 1)
    BY <2>3
  <2>5. \E books : books = Of(books, (n - 1) + 1)
    BY <1>2, <2>3, <2>4
  <2> QED BY <2>3, <2>5
<1>4. \E books : books = Of(books, MaxDay)
  BY <1>3, CalculationRulesAssumption
<1> QED BY <1>4 DEF Books

(* Each book follows from that of the day before.                          *)
LEMMA BookOfADay ==
  ASSUME NEW x, NEW window, NEW valuation, NEW first, NEW contributions
  PROVE  LET books == Books(x, window, valuation, first, contributions)
         IN  /\ books[0] = NoBook(first)
             /\ \A day \in Days :
                  books[day] = NextBook(x, window, valuation, contributions, books[day - 1], day)
<1> DEFINE books == Books(x, window, valuation, first, contributions)
<1>1. books = BooksOf(x, window, valuation, first, contributions, books, MaxDay)
  BY BooksExist
<1>2. 0 \in 0 .. MaxDay /\ \A day \in Days : day \in 0 .. MaxDay /\ day # 0
  BY CalculationRulesAssumption DEF Days
<1> HIDE DEF books
<1> QED BY <1>1, <1>2 DEF BooksOf, books

IsBook(book) ==
  /\ book = [shares |-> book.shares, cash |-> book.cash, gross |-> book.gross, tax |-> book.tax,
             nets |-> book.nets]
  /\ {book.shares, book.cash, book.gross, book.tax} \subseteq Nat
  /\ book.nets \in [Days -> Nat]

(* What a run is given.                                                    *)
IsPlan(x, first, contributions) ==
  /\ IsInput(x) /\ first \in Nat
  /\ DOMAIN contributions \subseteq Days
  /\ \A day \in DOMAIN contributions :
       contributions[day] \in Nat /\ FxAt(x.market.rates, day) \in Nat \ {0}

(* A settlement is a trading day from the ex-date on.                      *)
LEMMA SettlesLater ==
  ASSUME NEW m, IsMarket(m), NEW window, NEW valuation \in Days, NEW ex \in DOMAIN SettleOf(m, window, valuation)
  PROVE  /\ ex \in Days /\ SettleOf(m, window, valuation)[ex] \in Days
         /\ ex <= SettleOf(m, window, valuation)[ex] /\ SettleOf(m, window, valuation)[ex] <= valuation
<1> DEFINE pay  == IF m.dividends[ex].pay = NoDay THEN ex + PayLag ELSE m.dividends[ex].pay
           next == FirstFrom(m.trading, pay)
<1>1. /\ ex \in DOMAIN m.dividends /\ SettleOf(m, window, valuation)[ex] = next
      /\ next # NoDay /\ next <= valuation
  BY DEF SettleOf
<1>2. ex \in Days /\ ex \in Nat /\ m.trading \in SUBSET Days
  BY <1>1, DaysAreNumbers DEF IsMarket
<1>3. pay \in Int /\ ex <= pay
  BY <1>1, <1>2, CalculationRulesAssumption, DaysAreNumbers DEF IsMarket
<1> HIDE DEF pay
<1>4. next = ResolvePrice(m.trading, pay, "next_trading_day")
  BY <1>2, <1>3, FirstFromIsNext
<1>5. next \in m.trading /\ pay <= next
  BY <1>1, <1>2, <1>3, <1>4, NextTradingDay
<1>6. next \in Nat
  BY <1>2, <1>5, DaysAreNumbers
<1> QED BY <1>1, <1>2, <1>3, <1>5, <1>6

(* One day keeps a book a book.                                            *)
LEMMA DayKeepsABook ==
  ASSUME NEW x, NEW first, NEW contributions, IsPlan(x, first, contributions),
         NEW window, NEW valuation \in Days, NEW book, IsBook(book), NEW day \in Days
  PROVE  IsBook(NextBook(x, window, valuation, contributions, book, day))
<1> DEFINE settleOf == SettleOf(x.market, window, valuation)
           splits == SplitDays(x.market, window, valuation)
           split  == book.shares * (IF day \in splits THEN 2 ELSE 1)
           gr     == IF x.enabled /\ day \in DOMAIN settleOf THEN split ELSE 0
           tx     == IF gr > 0 /\ x.taxed /\ IsHalved(x.market, day) THEN gr \div 2 ELSE 0
           nets   == IF day \in DOMAIN settleOf
                     THEN [book.nets EXCEPT ![settleOf[day]] = @ + (gr - tx)] ELSE book.nets
           close  == x.market.close[day]
           again  == IF x.reinvest THEN nets[day] \div close ELSE 0
           rate   == FxAt(x.market.rates, day)
           bought == IF day \in DOMAIN contributions THEN (contributions[day] \div rate) \div close ELSE 0
<1>1. NextBook(x, window, valuation, contributions, book, day)
        = [shares |-> split + again + bought,
           cash   |-> IF x.reinvest THEN book.cash ELSE book.cash + nets[day],
           gross  |-> book.gross + gr, tax |-> book.tax + tx, nets |-> nets]
  BY DEF DayAfter, NextBook
<1>2. split \in Nat
  BY DEF IsBook
<1>3. gr \in Nat
  BY <1>2
<1>4. tx \in Nat /\ tx <= gr
  BY <1>3
<1>5. nets \in [Days -> Nat]
  <2>1. IsMarket(x.market)
    BY DEF IsPlan, IsInput
  <2>2. day \in DOMAIN settleOf => settleOf[day] \in Days
    BY <2>1, SettlesLater
  <2> HIDE DEF gr, tx, settleOf
  <2>3. gr - tx \in Nat
    BY <1>3, <1>4
  <2> QED BY <2>2, <2>3 DEF IsBook
<1>6. close \in Nat \ {0}
  BY DEF IsPlan, IsInput, IsMarket
<1>7. again \in Nat
  <2>1. nets[day] \in Nat
    BY <1>5
  <2> HIDE DEF nets, close
  <2> QED BY <1>6, <2>1
<1>8. bought \in Nat
  <2>1. day \in DOMAIN contributions => contributions[day] \in Nat /\ rate \in Nat \ {0}
    BY DEF IsPlan
  <2> HIDE DEF close, rate
  <2>2. day \in DOMAIN contributions => contributions[day] \div rate \in Nat
    BY <2>1
  <2> QED BY <1>6, <2>2
<1>9. nets[day] \in Nat
  BY <1>5
<1> HIDE DEF split, gr, tx, nets, again, bought
<1> QED BY <1>1, <1>2, <1>3, <1>4, <1>5, <1>7, <1>8, <1>9 DEF IsBook

(* The books hold amounts of shares, cash and payments owed.               *)
LEMMA BooksAreBooks ==
  ASSUME NEW x, NEW first, NEW contributions, IsPlan(x, first, contributions),
         NEW window, NEW valuation \in Days, NEW last \in 0 .. MaxDay
  PROVE  IsBook(Books(x, window, valuation, first, contributions)[last])
<1> DEFINE books == Books(x, window, valuation, first, contributions)
           Bad   == {n \in Nat : n <= MaxDay /\ ~IsBook(books[n])}
<1>1. IsBook(books[0])
  <2>1. books[0] = NoBook(first)
    BY BookOfADay
  <2> HIDE DEF books
  <2> QED BY <2>1 DEF NoBook, IsBook, IsPlan
<1>2. Bad = {}
  <2> SUFFICES ASSUME Bad # {} PROVE FALSE
    OBVIOUS
  <2>1. PICK n \in Bad : \A m \in Bad : n <= m
    BY LeastOf
  <2> HIDE DEF books
  <2>2. n \in Days /\ n - 1 \in Nat /\ n - 1 <= MaxDay
    BY <1>1, CalculationRulesAssumption DEF Days
  <2>3. IsBook(books[n - 1])
    BY <2>1, <2>2
  <2>4. books[n] = NextBook(x, window, valuation, contributions, books[n - 1], n)
    BY <2>2, BookOfADay DEF books
  <2>5. IsBook(books[n])
    BY <2>2, <2>3, <2>4, DayKeepsABook
  <2> QED BY <2>5
<1> HIDE DEF books
<1> QED BY <1>2, CalculationRulesAssumption DEF books

-------------------------------------------------------------------------------
(* A walk through the listed dates                                         *)

(* What a day does, in the terms of the oracle.                            *)
Pays(x, window, valuation, day) == x.enabled /\ day \in DOMAIN SettleOf(x.market, window, valuation)

SplitOn(x, window, valuation, held, day) ==
  IF day \in SplitDays(x.market, window, valuation) THEN held * 2 ELSE held

GrossOn(x, window, valuation, held, day) ==
  IF Pays(x, window, valuation, day) THEN SplitOn(x, window, valuation, held, day) ELSE 0

TaxOn(x, window, valuation, held, day) ==
  IF x.taxed /\ Pays(x, window, valuation, day) /\ IsHalved(x.market, day)
  THEN GrossOn(x, window, valuation, held, day) \div 2 ELSE 0

Owed(x, window, valuation, held, day, nets) ==
  IF Pays(x, window, valuation, day)
  THEN [nets EXCEPT ![SettleOf(x.market, window, valuation)[day]] =
          @ + (GrossOn(x, window, valuation, held, day) - TaxOn(x, window, valuation, held, day))]
  ELSE nets

BoughtOn(x, contributions, day) ==
  IF day \in DOMAIN contributions
  THEN (contributions[day] \div FxAt(x.market.rates, day)) \div x.market.close[day] ELSE 0

DayOf(x, window, valuation, contributions, book, day, nets) ==
  [shares |-> SplitOn(x, window, valuation, book.shares, day)
                + (IF x.reinvest THEN nets[day] \div x.market.close[day] ELSE 0)
                + BoughtOn(x, contributions, day),
   cash   |-> IF x.reinvest THEN book.cash ELSE book.cash + nets[day],
   gross  |-> book.gross + GrossOn(x, window, valuation, book.shares, day),
   tax    |-> book.tax + TaxOn(x, window, valuation, book.shares, day), nets |-> nets]

(* The oracle's day in these terms: a dividend that is not paid adds none. *)
LEMMA TheOraclesDay ==
  ASSUME NEW x, NEW first, NEW contributions, IsPlan(x, first, contributions),
         NEW window, NEW valuation \in Days, NEW book, IsBook(book), NEW day \in Days
  PROVE  NextBook(x, window, valuation, contributions, book, day)
           = DayOf(x, window, valuation, contributions, book, day,
                   Owed(x, window, valuation, book.shares, day, book.nets))
<1> DEFINE settleOf == SettleOf(x.market, window, valuation)
           splits == SplitDays(x.market, window, valuation)
           split  == book.shares * (IF day \in splits THEN 2 ELSE 1)
           gr     == IF x.enabled /\ day \in DOMAIN settleOf THEN split ELSE 0
           tx     == IF gr > 0 /\ x.taxed /\ IsHalved(x.market, day) THEN gr \div 2 ELSE 0
           nets   == IF day \in DOMAIN settleOf
                     THEN [book.nets EXCEPT ![settleOf[day]] = @ + (gr - tx)] ELSE book.nets
           close  == x.market.close[day]
           again  == IF x.reinvest THEN nets[day] \div close ELSE 0
           rate   == FxAt(x.market.rates, day)
           bought == IF day \in DOMAIN contributions THEN (contributions[day] \div rate) \div close ELSE 0
<1>1. NextBook(x, window, valuation, contributions, book, day)
        = [shares |-> split + again + bought,
           cash   |-> IF x.reinvest THEN book.cash ELSE book.cash + nets[day],
           gross  |-> book.gross + gr, tax |-> book.tax + tx, nets |-> nets]
  BY DEF DayAfter, NextBook
<1>2. split = SplitOn(x, window, valuation, book.shares, day) /\ split \in Nat
  BY DEF SplitOn, IsBook
<1>3. gr = GrossOn(x, window, valuation, book.shares, day) /\ gr \in Nat
  BY <1>2 DEF GrossOn, Pays
<1>4. tx = TaxOn(x, window, valuation, book.shares, day)
  <2>1. CASE gr = 0
    BY <1>3, <2>1 DEF TaxOn
  <2>2. CASE gr > 0
    <3>1. Pays(x, window, valuation, day)
      BY <2>2 DEF Pays
    <3> QED BY <1>3, <2>2, <3>1 DEF TaxOn
  <2> QED BY <1>3, <2>1, <2>2
<1>5. nets = Owed(x, window, valuation, book.shares, day, book.nets)
  <2>1. CASE Pays(x, window, valuation, day)
    <3> HIDE DEF gr, tx
    <3> QED BY <1>3, <1>4, <2>1 DEF Owed, Pays
  <2>2. CASE ~Pays(x, window, valuation, day) /\ day \in DOMAIN settleOf
    <3>1. gr = 0 /\ tx = 0
      BY <1>3, <1>4, <2>2 DEF GrossOn, TaxOn
    <3>2. settleOf[day] \in Days
      BY <2>2, SettlesLater DEF IsPlan, IsInput
    <3>3. [book.nets EXCEPT ![settleOf[day]] = @ + (gr - tx)] = book.nets
      <4> HIDE DEF gr, tx, settleOf
      <4> QED BY <3>1, <3>2 DEF IsBook
    <3> QED BY <2>2, <3>3 DEF Owed
  <2>3. CASE ~Pays(x, window, valuation, day) /\ day \notin DOMAIN settleOf
    BY <2>3 DEF Owed
  <2> QED BY <2>1, <2>2, <2>3
<1>6. bought = BoughtOn(x, contributions, day)
  BY DEF BoughtOn
<1> HIDE DEF split, gr, tx, nets, bought, settleOf, splits
<1> QED BY <1>1, <1>2, <1>3, <1>4, <1>5, <1>6 DEF settleOf, splits, DayOf

(* Where a walk stands after day k: its holdings are those of the oracle,  *)
(* it owes what the oracle will pay, and every day on which something      *)
(* happens is still ahead on its list.                                     *)
Busy(x, window, valuation, contributions, owed, day) ==
  \/ day \in SplitDays(x.market, window, valuation) \/ day \in DOMAIN contributions
  \/ Pays(x, window, valuation, day) \/ owed[day] # 0

Stands(x, window, valuation, first, contributions, k, held, paid, owed, ahead) ==
  LET book == Books(x, window, valuation, first, contributions)[k]
  IN  /\ held = book.shares /\ paid = book.cash
      /\ owed = [day \in Days |-> IF day <= k THEN 0 ELSE book.nets[day]]
      /\ ahead \subseteq Days /\ \A day \in ahead : k < day /\ day <= valuation
      /\ \A day \in Days : k < day /\ Busy(x, window, valuation, contributions, owed, day) => day \in ahead

(* On a day without a split, a dividend, a purchase or a payment nothing   *)
(* changes: the days that the engine does not list.                        *)
LEMMA QuietDay ==
  ASSUME NEW x, NEW first, NEW contributions, IsPlan(x, first, contributions),
         NEW window, NEW valuation \in Days, NEW book, IsBook(book), NEW day \in Days,
         ~Busy(x, window, valuation, contributions, book.nets, day)
  PROVE  NextBook(x, window, valuation, contributions, book, day) = book
<1> DEFINE close == x.market.close[day]
<1>1. /\ SplitOn(x, window, valuation, book.shares, day) = book.shares
      /\ GrossOn(x, window, valuation, book.shares, day) = 0
      /\ TaxOn(x, window, valuation, book.shares, day) = 0
      /\ Owed(x, window, valuation, book.shares, day, book.nets) = book.nets
      /\ BoughtOn(x, contributions, day) = 0 /\ book.nets[day] = 0
  BY DEF Busy, SplitOn, GrossOn, TaxOn, Owed, BoughtOn
<1>2. close \in Nat \ {0}
  BY DEF IsPlan, IsInput, IsMarket
<1> HIDE DEF close
<1>3. 0 \div close = 0
  BY <1>2
<1> DEFINE after == NextBook(x, window, valuation, contributions, book, day)
<1>4. after = [shares |-> book.shares + (IF x.reinvest THEN 0 \div close ELSE 0) + 0,
               cash   |-> IF x.reinvest THEN book.cash ELSE book.cash + 0,
               gross  |-> book.gross + 0, tax |-> book.tax + 0, nets |-> book.nets]
  <2>1. after = DayOf(x, window, valuation, contributions, book, day, book.nets)
    <3>1. after = DayOf(x, window, valuation, contributions, book, day,
                        Owed(x, window, valuation, book.shares, day, book.nets))
      BY TheOraclesDay DEF after
    <3> HIDE DEF after
    <3> QED BY <1>1, <3>1
  <2> HIDE DEF after
  <2> QED BY <1>1, <2>1 DEF DayOf, close
<1> HIDE DEF after
<1>5. /\ book.shares + (IF x.reinvest THEN 0 \div close ELSE 0) + 0 = book.shares
      /\ (IF x.reinvest THEN book.cash ELSE book.cash + 0) = book.cash
      /\ book.gross + 0 = book.gross /\ book.tax + 0 = book.tax
  BY <1>3 DEF IsBook
<1>6. after = [shares |-> book.shares, cash |-> book.cash, gross |-> book.gross, tax |-> book.tax,
               nets |-> book.nets]
  BY <1>4, <1>5
<1> QED BY <1>6 DEF after, IsBook

(* Between two listed days nothing happens.                                *)
LEMMA QuietDays ==
  ASSUME NEW x, NEW first, NEW contributions, IsPlan(x, first, contributions),
         NEW window, NEW valuation \in Days, NEW k \in 0 .. MaxDay, NEW held, NEW paid, NEW owed, NEW ahead,
         Stands(x, window, valuation, first, contributions, k, held, paid, owed, ahead),
         NEW last \in k .. MaxDay, \A day \in ahead : last < day
  PROVE  Books(x, window, valuation, first, contributions)[last]
           = Books(x, window, valuation, first, contributions)[k]
<1> DEFINE books == Books(x, window, valuation, first, contributions)
           Bad   == {n \in Nat : k <= n /\ n <= last /\ books[n] # books[k]}
<1>1. Bad = {}
  <2> SUFFICES ASSUME Bad # {} PROVE FALSE
    OBVIOUS
  <2>1. PICK n \in Bad : \A m \in Bad : n <= m
    BY LeastOf
  <2> HIDE DEF books
  <2>2. /\ n \in Days /\ n \in Nat /\ n - 1 \in Nat /\ k <= n - 1 /\ n - 1 <= last /\ n - 1 < n
        /\ k < n /\ n <= last /\ books[n] # books[k]
    BY CalculationRulesAssumption DEF Days
  <2>3. books[n - 1] = books[k]
    <3>1. n - 1 \notin Bad
      <4> HIDE DEF Bad
      <4> QED BY <2>1, <2>2
    <3> QED BY <2>2, <3>1
  <2>4. n \notin ahead
    BY <2>2
  <2>5. ~Busy(x, window, valuation, contributions, books[k].nets, n)
    <3>1. owed[n] = books[k].nets[n] /\ ~Busy(x, window, valuation, contributions, owed, n)
      BY <2>2, <2>4 DEF Stands, books
    <3> QED BY <3>1 DEF Busy
  <2>6. IsBook(books[k])
    BY BooksAreBooks DEF books
  <2>7. books[n] = NextBook(x, window, valuation, contributions, books[n - 1], n)
    BY <2>2, BookOfADay DEF books
  <2>8. NextBook(x, window, valuation, contributions, books[k], n) = books[k]
    BY <2>2, <2>5, <2>6, QuietDay
  <2> QED BY <2>2, <2>3, <2>7, <2>8
<1>2. last \in Nat /\ k <= last
  OBVIOUS
<1> HIDE DEF books
<1> QED BY <1>1, <1>2 DEF books


(* What one turn of the loop makes of the holdings, the cash, the payments *)
(* owed and the list.                                                      *)
HeldAfter(x, window, valuation, contributions, held, owed, day) ==
  SplitOn(x, window, valuation, held, day)
    + (IF x.reinvest THEN Owed(x, window, valuation, held, day, owed)[day] \div x.market.close[day] ELSE 0)
    + BoughtOn(x, contributions, day)

PaidAfter(x, window, valuation, held, paid, owed, day) ==
  IF x.reinvest THEN paid ELSE paid + Owed(x, window, valuation, held, day, owed)[day]

OwedAfter(x, window, valuation, held, owed, day) ==
  [Owed(x, window, valuation, held, day, owed) EXCEPT ![day] = 0]

AheadAfter(x, window, valuation, ahead, day) ==
  (ahead \ {day}) \cup
    (IF Pays(x, window, valuation, day) /\ day < SettleOf(x.market, window, valuation)[day]
     THEN {SettleOf(x.market, window, valuation)[day]} ELSE {})

(* On the earliest listed day it takes the walk from where it stands after *)
(* day k to where it stands after that day.                                *)
LEMMA Turn ==
  ASSUME NEW x, NEW first, NEW contributions, IsPlan(x, first, contributions),
         NEW window, NEW valuation \in Days, NEW k \in 0 .. MaxDay, NEW held, NEW paid, NEW owed, NEW ahead,
         Stands(x, window, valuation, first, contributions, k, held, paid, owed, ahead),
         NEW day \in ahead, \A other \in ahead : day <= other
  PROVE  /\ day \in Days /\ k < day
         /\ Stands(x, window, valuation, first, contributions, day,
                   HeldAfter(x, window, valuation, contributions, held, owed, day),
                   PaidAfter(x, window, valuation, held, paid, owed, day),
                   OwedAfter(x, window, valuation, held, owed, day),
                   AheadAfter(x, window, valuation, ahead, day))
         /\ Books(x, window, valuation, first, contributions)[day].gross
              = Books(x, window, valuation, first, contributions)[k].gross + GrossOn(x, window, valuation, held, day)
         /\ Books(x, window, valuation, first, contributions)[day].tax
              = Books(x, window, valuation, first, contributions)[k].tax + TaxOn(x, window, valuation, held, day)
<1> DEFINE waiting    == Owed(x, window, valuation, held, day, owed)
           heldAfter  == HeldAfter(x, window, valuation, contributions, held, owed, day)
           paidAfter  == PaidAfter(x, window, valuation, held, paid, owed, day)
           aheadAfter == AheadAfter(x, window, valuation, ahead, day)
<1>0. /\ heldAfter = SplitOn(x, window, valuation, held, day)
                       + (IF x.reinvest THEN waiting[day] \div x.market.close[day] ELSE 0)
                       + BoughtOn(x, contributions, day)
      /\ paidAfter = IF x.reinvest THEN paid ELSE paid + waiting[day]
      /\ aheadAfter = (ahead \ {day}) \cup
                        (IF Pays(x, window, valuation, day) /\ day < SettleOf(x.market, window, valuation)[day]
                         THEN {SettleOf(x.market, window, valuation)[day]} ELSE {})
      /\ OwedAfter(x, window, valuation, held, owed, day) = [waiting EXCEPT ![day] = 0]
  BY DEF HeldAfter, PaidAfter, AheadAfter, OwedAfter
<1> HIDE DEF waiting, heldAfter, paidAfter, aheadAfter
<1> DEFINE books  == Books(x, window, valuation, first, contributions)
           settle == SettleOf(x.market, window, valuation)[day]
           amount == GrossOn(x, window, valuation, held, day) - TaxOn(x, window, valuation, held, day)
           nets   == Owed(x, window, valuation, held, day, books[k].nets)
           pays   == Pays(x, window, valuation, day)
<1>1. /\ day \in Days /\ k < day /\ day <= valuation /\ day \in Nat /\ k \in Nat /\ MaxDay \in Nat
      /\ day - 1 \in k .. MaxDay
  <2>1. ahead \subseteq Days /\ k < day /\ day <= valuation
    BY DEF Stands
  <2>2. day \in 1 .. MaxDay
    BY <2>1 DEF Days
  <2> QED BY <2>1, <2>2, CalculationRulesAssumption
<1>2. books[day - 1] = books[k]
  <2>1. \A other \in ahead : day - 1 < other
    <3>1. ahead \in SUBSET Nat
      BY DaysAreNumbers DEF Stands
    <3> QED BY <1>1, <3>1
  <2>2. PICK last \in k .. MaxDay : last = day - 1
    BY <1>1
  <2>3. \A other \in ahead : last < other
    BY <2>1, <2>2
  <2>4. Books(x, window, valuation, first, contributions)[last]
          = Books(x, window, valuation, first, contributions)[k]
    BY <2>3, QuietDays
  <2> QED BY <2>2, <2>4
<1>3. held = books[k].shares /\ paid = books[k].cash
      /\ owed = [d \in Days |-> IF d <= k THEN 0 ELSE books[k].nets[d]]
      /\ ahead \subseteq Days /\ (\A d \in ahead : k < d /\ d <= valuation)
      /\ \A d \in Days : k < d /\ Busy(x, window, valuation, contributions, owed, d) => d \in ahead
  BY DEF Stands
<1>4. IsBook(books[k])
  BY BooksAreBooks
<1>5. books[day] = DayOf(x, window, valuation, contributions, books[k], day, nets)
  <2>1. books[day] = NextBook(x, window, valuation, contributions, books[day - 1], day)
    BY <1>1, BookOfADay
  <2> HIDE DEF books
  <2>2. books[day] = DayOf(x, window, valuation, contributions, books[k], day,
                           Owed(x, window, valuation, books[k].shares, day, books[k].nets))
    BY <1>1, <1>2, <1>4, <2>1, TheOraclesDay
  <2> QED BY <1>3, <2>2
<1> HIDE DEF books, settle, amount, pays
<1>6. pays => settle \in Days /\ day <= settle /\ settle <= valuation /\ settle \in Nat
  BY <1>1, SettlesLater, DaysAreNumbers DEF pays, settle, Pays, IsPlan, IsInput
<1>7. \A d \in Days : /\ nets[d] = IF pays /\ d = settle THEN books[k].nets[d] + amount ELSE books[k].nets[d]
                      /\ waiting[d] = IF pays /\ d = settle THEN owed[d] + amount ELSE owed[d]
  BY <1>3, <1>4, <1>6 DEF Owed, pays, settle, amount, IsBook, waiting
<1>8. waiting = [d \in Days |-> waiting[d]]
  BY <1>3, <1>6 DEF Owed, pays, settle, waiting
<1>9. \A d \in Days : day <= d => waiting[d] = nets[d]
  BY <1>1, <1>3, <1>7, DaysAreNumbers
<1>10. \A d \in Days : d < day => waiting[d] = 0
  <2> SUFFICES ASSUME NEW d \in Days, d < day PROVE waiting[d] = 0
    OBVIOUS
  <2>1. d \in Nat
    BY DaysAreNumbers
  <2>2. d \notin ahead
    BY <1>1, <2>1
  <2>3. owed[d] = 0
    BY <1>3, <2>1, <2>2, <1>1 DEF Busy
  <2>4. ~(pays /\ d = settle)
    BY <1>1, <1>6, <2>1
  <2> QED BY <1>7, <2>3, <2>4
<1>11. [waiting EXCEPT ![day] = 0] = [d \in Days |-> IF d <= day THEN 0 ELSE nets[d]]
  <2>1. ASSUME NEW d \in Days
        PROVE  [waiting EXCEPT ![day] = 0][d] = IF d <= day THEN 0 ELSE nets[d]
    <3>1. d \in Nat
      BY DaysAreNumbers
    <3>2. [waiting EXCEPT ![day] = 0][d] = IF d = day THEN 0 ELSE waiting[d]
      BY <1>1, <1>8
    <3> HIDE DEF nets
    <3> QED BY <1>1, <1>9, <1>10, <3>1, <3>2
  <2>2. DOMAIN [waiting EXCEPT ![day] = 0] = Days
    BY <1>8
  <2> HIDE DEF nets
  <2>3. [waiting EXCEPT ![day] = 0] = [d \in Days |-> [waiting EXCEPT ![day] = 0][d]]
    BY <1>8, <2>2
  <2> QED BY <2>1, <2>3
<1>12. aheadAfter \subseteq Days /\ \A d \in aheadAfter : day < d /\ d <= valuation
  <2> SUFFICES ASSUME NEW d \in aheadAfter PROVE d \in Days /\ day < d /\ d <= valuation
    OBVIOUS
  <2>1. CASE d \in ahead \ {day}
    <3>1. d \in Days /\ day <= d /\ d # day /\ d <= valuation
      BY <1>3, <2>1
    <3> QED BY <1>1, <3>1, ADayIsANumber
  <2>2. CASE pays /\ day < settle /\ d = settle
    BY <1>6, <2>2
  <2> QED BY <1>0, <2>1, <2>2 DEF pays, settle
<1>13. ASSUME NEW d \in Days, day < d,
              Busy(x, window, valuation, contributions, [waiting EXCEPT ![day] = 0], d)
       PROVE  d \in aheadAfter
  <2>1. d # day /\ k < d
    BY <1>1, <1>13, DaysAreNumbers
  <2>2. [waiting EXCEPT ![day] = 0][d] = waiting[d]
    BY <1>1, <1>8, <2>1
  <2>3. CASE pays /\ d = settle
    BY <1>0, <1>13, <2>3 DEF pays, settle
  <2>4. CASE ~(pays /\ d = settle)
    <3>1. waiting[d] = owed[d]
      BY <1>7, <2>4
    <3>2. Busy(x, window, valuation, contributions, owed, d)
      BY <1>13, <2>2, <3>1 DEF Busy
    <3> QED BY <1>0, <1>3, <2>1, <3>2
  <2> QED BY <2>3, <2>4
<1>14. heldAfter = books[day].shares /\ paidAfter = books[day].cash /\ books[day].nets = nets
  <2>1. waiting[day] = nets[day]
    BY <1>1, <1>9
  <2> HIDE DEF nets
  <2> QED BY <1>0, <1>3, <1>5, <2>1 DEF DayOf
<1>15. Stands(x, window, valuation, first, contributions, day, heldAfter, paidAfter,
              [waiting EXCEPT ![day] = 0], aheadAfter)
  <2> HIDE DEF nets
  <2> QED BY <1>11, <1>12, <1>13, <1>14 DEF Stands, books
<1>16. /\ books[day].gross = books[k].gross + GrossOn(x, window, valuation, held, day)
       /\ books[day].tax = books[k].tax + TaxOn(x, window, valuation, held, day)
  <2> HIDE DEF nets
  <2> QED BY <1>3, <1>5 DEF DayOf
<1> QED BY <1>0, <1>1, <1>15, <1>16 DEF books, heldAfter, paidAfter, aheadAfter

(* When nothing is left on the list, the run of the oracle is over.        *)
LEMMA TheWalkIsOver ==
  ASSUME NEW x, NEW first, NEW contributions, IsPlan(x, first, contributions),
         NEW window, NEW valuation \in Days, NEW k \in 0 .. MaxDay, NEW held, NEW paid, NEW owed, NEW ahead,
         Stands(x, window, valuation, first, contributions, k, held, paid, owed, ahead), ahead = {}
  PROVE  /\ held = Run(x, window, valuation, first, contributions).shares
         /\ paid = Run(x, window, valuation, first, contributions).cash
         /\ Run(x, window, valuation, first, contributions)
              = Books(x, window, valuation, first, contributions)[k]
<1>1. MaxDay \in k .. MaxDay
  BY CalculationRulesAssumption
<1>2. Books(x, window, valuation, first, contributions)[MaxDay]
        = Books(x, window, valuation, first, contributions)[k]
  BY <1>1, QuietDays
<1> QED BY <1>2, RunIsTheLastBook DEF Stands

-------------------------------------------------------------------------------
(* Both analyses use the shared rules                                      *)

(* The modules share the rules of dates and rates: those of the purchase,  *)
LEMMA PurchaseRules ==
  /\ A!Days = Days /\ A!NoDay = NoDay /\ A!MayPay = MayPay
  /\ \A trading, requested : \A rule : A!ResolvePrice(trading, requested, rule) = ResolvePrice(trading, requested, rule)
  /\ \A rates, requested : A!RateForDate(rates, requested) = RateForDate(rates, requested)
  /\ \A m, ex : A!IsHalved(m, ex) = IsHalved(m, ex)
  /\ \A m, first, last : /\ A!RelevantDividends(m, first, last) = RelevantDividends(m, first, last)
                         /\ A!RelevantSplits(m, first, last) = RelevantSplits(m, first, last)
  /\ \A held, splits, day : A!ApplyActions(held, splits, day) = ApplyActions(held, splits, day)
  /\ \A ex : A!EstimatedPayDate(ex) = EstimatedPayDate(ex)
<1>1. A!Days = Days /\ A!NoDay = NoDay /\ A!MayPay = MayPay
  BY DEF Days, NoDay, MayPay, A!Days, A!NoDay, A!MayPay
<1>2. ASSUME NEW trading, NEW requested, NEW rule
      PROVE  A!ResolvePrice(trading, requested, rule) = ResolvePrice(trading, requested, rule)
  BY DEF ResolvePrice, A!ResolvePrice, NoDay, A!NoDay, Min, A!Min, Max, A!Max
<1>3. ASSUME NEW rates, NEW requested
      PROVE  A!RateForDate(rates, requested) = RateForDate(rates, requested)
  BY DEF RateForDate, A!RateForDate, Max, A!Max
<1>4. ASSUME NEW m, NEW ex PROVE A!IsHalved(m, ex) = IsHalved(m, ex)
  BY DEF IsHalved, A!IsHalved
<1>5. ASSUME NEW m, NEW first, NEW last
      PROVE  /\ A!RelevantDividends(m, first, last) = RelevantDividends(m, first, last)
             /\ A!RelevantSplits(m, first, last) = RelevantSplits(m, first, last)
  BY DEF RelevantDividends, A!RelevantDividends, RelevantSplits, A!RelevantSplits, MayPay, A!MayPay
<1>6. ASSUME NEW held, NEW splits, NEW day
      PROVE  A!ApplyActions(held, splits, day) = ApplyActions(held, splits, day)
  BY DEF ApplyActions, A!ApplyActions
<1>7. ASSUME NEW ex PROVE A!EstimatedPayDate(ex) = EstimatedPayDate(ex)
  BY DEF EstimatedPayDate, A!EstimatedPayDate
<1> QED BY <1>1, <1>2, <1>3, <1>4, <1>5, <1>6, <1>7

(* and of the recurring investment.                                        *)
LEMMA PeriodicRules ==
  /\ D!Days = Days /\ D!NoDay = NoDay /\ D!MayPay = MayPay
  /\ \A trading, requested : \A rule : D!ResolvePrice(trading, requested, rule) = ResolvePrice(trading, requested, rule)
  /\ \A rates, requested : D!RateForDate(rates, requested) = RateForDate(rates, requested)
  /\ \A m, ex : D!IsHalved(m, ex) = IsHalved(m, ex)
  /\ \A m, first, last : /\ D!RelevantDividends(m, first, last) = RelevantDividends(m, first, last)
                         /\ D!RelevantSplits(m, first, last) = RelevantSplits(m, first, last)
  /\ \A held, splits, day : D!ApplyActions(held, splits, day) = ApplyActions(held, splits, day)
  /\ \A ex : D!EstimatedPayDate(ex) = EstimatedPayDate(ex)
  /\ \A days : D!Min(days) = Min(days)
<1>1. D!Days = Days /\ D!NoDay = NoDay /\ D!MayPay = MayPay
  BY DEF Days, NoDay, MayPay, D!Days, D!NoDay, D!MayPay
<1>2. ASSUME NEW trading, NEW requested, NEW rule
      PROVE  D!ResolvePrice(trading, requested, rule) = ResolvePrice(trading, requested, rule)
  BY DEF ResolvePrice, D!ResolvePrice, NoDay, D!NoDay, Min, D!Min, Max, D!Max
<1>3. ASSUME NEW rates, NEW requested
      PROVE  D!RateForDate(rates, requested) = RateForDate(rates, requested)
  BY DEF RateForDate, D!RateForDate, Max, D!Max
<1>4. ASSUME NEW m, NEW ex PROVE D!IsHalved(m, ex) = IsHalved(m, ex)
  BY DEF IsHalved, D!IsHalved
<1>5. ASSUME NEW m, NEW first, NEW last
      PROVE  /\ D!RelevantDividends(m, first, last) = RelevantDividends(m, first, last)
             /\ D!RelevantSplits(m, first, last) = RelevantSplits(m, first, last)
  BY DEF RelevantDividends, D!RelevantDividends, RelevantSplits, D!RelevantSplits, MayPay, D!MayPay
<1>6. ASSUME NEW held, NEW splits, NEW day
      PROVE  D!ApplyActions(held, splits, day) = ApplyActions(held, splits, day)
  BY DEF ApplyActions, D!ApplyActions
<1>7. ASSUME NEW ex PROVE D!EstimatedPayDate(ex) = EstimatedPayDate(ex)
  BY DEF EstimatedPayDate, D!EstimatedPayDate
<1>8. ASSUME NEW days PROVE D!Min(days) = Min(days)
  BY DEF Min, D!Min
<1> QED BY <1>1, <1>2, <1>3, <1>4, <1>5, <1>6, <1>7, <1>8

(* The day on which a dividend is available, found with the engine's rules, *)
(* and whether it counts: what the oracle lists before it starts.          *)
Available(m, ex) ==
  ResolvePrice(m.trading, IF m.dividends[ex].pay = NoDay THEN EstimatedPayDate(ex) ELSE m.dividends[ex].pay,
               "next_trading_day")

Settlement(m, valuation, ex) == IF Available(m, ex) > valuation THEN NoDay ELSE Available(m, ex)

(* A dividend is paid on the same day by the engine, which looks for one   *)
(* after the ex-date, and by the oracle, which lists all.                  *)
LEMMA SettlementIsSettleOf ==
  ASSUME NEW m, IsMarket(m), NEW window, NEW valuation \in Days, NEW ex
  PROVE  /\ (ex \in RelevantDividends(m, window, valuation) /\ Settlement(m, valuation, ex) # NoDay)
              <=> (m.policy \in MayPay /\ ex \in DOMAIN SettleOf(m, window, valuation))
         /\ ex \in DOMAIN SettleOf(m, window, valuation)
              => Settlement(m, valuation, ex) = SettleOf(m, window, valuation)[ex]
<1> DEFINE pay  == IF m.dividends[ex].pay = NoDay THEN ex + PayLag ELSE m.dividends[ex].pay
           next == FirstFrom(m.trading, pay)
<1>1. ex \in DOMAIN SettleOf(m, window, valuation)
        <=> ex \in DOMAIN m.dividends /\ window < ex /\ ex <= valuation /\ next # NoDay /\ next <= valuation
  BY DEF SettleOf
<1>2. ex \in DOMAIN SettleOf(m, window, valuation) => SettleOf(m, window, valuation)[ex] = next
  BY DEF SettleOf
<1>3. ex \in RelevantDividends(m, window, valuation)
        <=> m.policy \in MayPay /\ ex \in DOMAIN m.dividends /\ window < ex /\ ex <= valuation
  BY DEF RelevantDividends
<1>4. ASSUME ex \in DOMAIN m.dividends
      PROVE  Available(m, ex) = next /\ (next = NoDay \/ next \in Days)
  <2>1. pay \in Int /\ m.trading \in SUBSET Days
    <3>1. ex \in Days /\ m.trading \in SUBSET Days /\ (m.dividends[ex].pay = NoDay \/ m.dividends[ex].pay \in Days)
      BY <1>4 DEF IsMarket
    <3>2. ex + PayLag \in Int
      BY <3>1, CalculationRulesAssumption, DaysAreNumbers
    <3> QED BY <3>1, <3>2, ADayIsANumber DEF NoDay
  <2>2. Available(m, ex) = ResolvePrice(m.trading, pay, "next_trading_day")
    BY DEF Available, EstimatedPayDate
  <2> HIDE DEF pay
  <2>3. next = ResolvePrice(m.trading, pay, "next_trading_day")
    BY <2>1, FirstFromIsNext
  <2>4. next = NoDay \/ next \in m.trading
    BY <2>1, <2>3, NextTradingDay
  <2> QED BY <2>1, <2>2, <2>3, <2>4
<1> HIDE DEF next, pay
<1>5. ASSUME ex \in DOMAIN m.dividends
      PROVE  /\ Settlement(m, valuation, ex) # NoDay <=> next # NoDay /\ next <= valuation
             /\ next <= valuation => Settlement(m, valuation, ex) = next
  <2>1. next \in Int /\ valuation \in Int
    <3>1. next = 0 \/ next \in Days
      BY <1>4, <1>5 DEF NoDay
    <3> QED BY <3>1, ADayIsANumber
  <2> QED BY <1>4, <1>5, <2>1 DEF Settlement
<1> QED BY <1>1, <1>2, <1>3, <1>5

-------------------------------------------------------------------------------
(* The return of a purchase                                                *)

(* The oracle gets the same request, without the dividends that a fund     *)
(* keeps.                                                                  *)
LEMMA WhatTheOracleIsGiven ==
  ASSUME NEW x, IsInput(x)
  PROVE  /\ IsInput(ForOracle(x)) /\ ForOracle(x).market = x.market
         /\ ForOracle(x).enabled = (x.enabled /\ x.market.policy \in MayPay)
         /\ ForOracle(x).reinvest = x.reinvest /\ ForOracle(x).taxed = x.taxed
         /\ ForOracle(x).start = x.start /\ ForOracle(x).end = x.end
         /\ ForOracle(x).initial = x.initial /\ ForOracle(x).contribution = x.contribution
<1>1. ForOracle(x) = [market |-> x.market, start |-> x.start, end |-> x.end,
                      enabled |-> x.enabled /\ x.market.policy \in MayPay,
                      reinvest |-> x.reinvest, taxed |-> x.taxed, purchaseRule |-> x.purchaseRule,
                      valuationRule |-> x.valuationRule, initial |-> x.initial, contribution |-> x.contribution]
  BY DEF ForOracle, IsInput
<1>2. (x.enabled /\ x.market.policy \in MayPay) \in BOOLEAN
  OBVIOUS
<1> QED BY <1>1, <1>2 DEF IsInput

(* One turn of the loop in the terms of the oracle.                        *)
LEMMA VisitIsADay ==
  ASSUME IsInput(request), aValuation \in Days, NEW day \in Days
  PROVE  LET x == ForOracle(request)
         IN  /\ A!Entitles(day) <=> Pays(x, purchase, aValuation, day)
             /\ Pays(x, purchase, aValuation, day)
                  => A!SettlementDay(day) = SettleOf(x.market, purchase, aValuation)[day]
             /\ A!Held(day) = SplitOn(x, purchase, aValuation, aShares, day)
             /\ A!Earned(day) = GrossOn(x, purchase, aValuation, aShares, day)
             /\ A!Withheld(day) = TaxOn(x, purchase, aValuation, aShares, day)
             /\ A!Waiting(day) = Owed(x, purchase, aValuation, aShares, day, aSettling)
<1> DEFINE x == ForOracle(request)
           m == request.market
<1>1. /\ x.market = m /\ x.enabled = (request.enabled /\ m.policy \in MayPay)
      /\ x.taxed = request.taxed /\ request.enabled \in BOOLEAN
  BY WhatTheOracleIsGiven DEF IsInput
<1>2. IsMarket(m)
  BY DEF IsInput
<1>3. A!SettlementDay(day) = Settlement(m, aValuation, day)
  BY PurchaseRules DEF A!SettlementDay, A!Market, Settlement, Available, NoDay, A!NoDay
<1>4. A!Entitles(day) <=> Pays(x, purchase, aValuation, day)
  <2>1. A!Entitles(day) <=> /\ request.enabled /\ day \in RelevantDividends(m, purchase, aValuation)
                            /\ Settlement(m, aValuation, day) # NoDay
    BY <1>3, PurchaseRules DEF A!Entitles, A!Dividends, A!Market
  <2>2. Pays(x, purchase, aValuation, day)
          <=> /\ request.enabled /\ m.policy \in MayPay
              /\ day \in DOMAIN SettleOf(m, purchase, aValuation)
    BY <1>1 DEF Pays
  <2>3. (day \in RelevantDividends(m, purchase, aValuation) /\ Settlement(m, aValuation, day) # NoDay)
          <=> (m.policy \in MayPay /\ day \in DOMAIN SettleOf(m, purchase, aValuation))
    BY <1>2, SettlementIsSettleOf
  <2> QED BY <2>1, <2>2, <2>3, Zenon
<1>5. Pays(x, purchase, aValuation, day) => A!SettlementDay(day) = SettleOf(m, purchase, aValuation)[day]
  <2> HIDE DEF x, m
  <2> QED BY <1>1, <1>2, <1>3, SettlementIsSettleOf DEF Pays
<1>6. A!Held(day) = SplitOn(x, purchase, aValuation, aShares, day)
  <2>1. A!Splits = SplitDays(m, purchase, aValuation)
    BY PurchaseRules DEF A!Splits, A!Market, RelevantSplits, SplitDays
  <2> HIDE DEF x, m
  <2> QED BY <1>1, <2>1, PurchaseRules DEF A!Held, SplitOn, ApplyActions
<1> HIDE DEF x
<1>7. A!Earned(day) = GrossOn(x, purchase, aValuation, aShares, day)
  BY <1>4, <1>6 DEF A!Earned, GrossOn
<1>8. A!IsHalved(A!Market, day) <=> IsHalved(m, day)
  BY PurchaseRules DEF A!Market
<1>9. A!Withheld(day) = TaxOn(x, purchase, aValuation, aShares, day)
  <2> HIDE DEF m
  <2> QED BY <1>1, <1>4, <1>7, <1>8 DEF A!Withheld, TaxOn
<1>10. A!Waiting(day) = Owed(x, purchase, aValuation, aShares, day, aSettling)
  <2> HIDE DEF m
  <2> QED BY <1>1, <1>4, <1>5, <1>7, <1>9 DEF A!Waiting, Owed
<1> QED BY <1>1, <1>4, <1>5, <1>6, <1>7, <1>9, <1>10 DEF x

(* The list a walk starts with holds every day on which something happens. *)
LEMMA StandsAtTheStart ==
  ASSUME NEW x, IsInput(x), NEW first, NEW contributions, IsPlan(ForOracle(x), first, contributions),
         NEW window \in Days, NEW valuation \in Days,
         \A day \in DOMAIN contributions : day <= valuation,
         NEW ahead,
         ahead = DOMAIN contributions \cup RelevantDividends(x.market, window, valuation)
                   \cup RelevantSplits(x.market, window, valuation)
  PROVE  /\ Stands(ForOracle(x), window, valuation, first, contributions, 0, first, 0, [day \in Days |-> 0], ahead)
         /\ Books(ForOracle(x), window, valuation, first, contributions)[0].gross = 0
         /\ Books(ForOracle(x), window, valuation, first, contributions)[0].tax = 0
<1> DEFINE X == ForOracle(x)
           m == x.market
           owed == [day \in Days |-> 0]
           book == Books(X, window, valuation, first, contributions)[0]
<1>1. /\ X.market = m /\ X.enabled = (x.enabled /\ m.policy \in MayPay)
      /\ IsMarket(m)
  BY WhatTheOracleIsGiven DEF IsInput
<1>2. book = NoBook(first)
  BY BookOfADay
<1> HIDE DEF X, book
<1>3. ahead \subseteq Days /\ \A day \in ahead : 0 < day /\ day <= valuation
  <2>2. /\ RelevantDividends(m, window, valuation) \subseteq Days
        /\ \A day \in RelevantDividends(m, window, valuation) : day <= valuation
    BY <1>1 DEF RelevantDividends, IsMarket
  <2>3. /\ RelevantSplits(m, window, valuation) \subseteq Days
        /\ \A day \in RelevantSplits(m, window, valuation) : day <= valuation
    BY <1>1 DEF RelevantSplits, IsMarket
  <2>4. DOMAIN contributions \subseteq Days
    BY DEF IsPlan
  <2> HIDE DEF m
  <2> SUFFICES ASSUME NEW day \in ahead PROVE day \in Days /\ 0 < day /\ day <= valuation
    OBVIOUS
  <2>5. day \in Days /\ day <= valuation
    BY <2>2, <2>3, <2>4 DEF m
  <2> QED BY <2>5, ADayIsANumber
<1>4. ASSUME NEW day \in Days, Busy(X, window, valuation, contributions, owed, day)
      PROVE  day \in ahead
  <2>1. CASE day \in SplitDays(X.market, window, valuation)
    BY <1>1, <2>1 DEF SplitDays, RelevantSplits
  <2>2. CASE day \in DOMAIN contributions
    BY <2>2
  <2>3. CASE Pays(X, window, valuation, day)
    <3>1. m.policy \in MayPay /\ day \in DOMAIN SettleOf(m, window, valuation)
      BY <1>1, <2>3 DEF Pays
    <3>2. day \in RelevantDividends(m, window, valuation)
      BY <1>1, <3>1, SettlementIsSettleOf
    <3> QED BY <3>2
  <2> QED BY <1>4, <2>1, <2>2, <2>3 DEF Busy
<1>5. \A day \in Days : owed[day] = IF day <= 0 THEN 0 ELSE book.nets[day]
  BY <1>2 DEF NoBook
<1>6. owed = [day \in Days |-> IF day <= 0 THEN 0 ELSE book.nets[day]]
  BY <1>5
<1>7. first = book.shares /\ 0 = book.cash /\ book.gross = 0 /\ book.tax = 0
  BY <1>2 DEF NoBook
<1> HIDE DEF owed, m
<1>8. \A day \in Days : 0 < day /\ Busy(X, window, valuation, contributions, owed, day) => day \in ahead
  BY <1>4
<1>9. Stands(X, window, valuation, first, contributions, 0, first, 0, owed, ahead)
  BY <1>3, <1>6, <1>7, <1>8 DEF Stands, book
<1> QED BY <1>7, <1>9 DEF X, owed, book

(* The dates and the shares of a purchase.                                 *)
AreDatesOf(r, first, last) ==
  /\ first = ResolvePrice(r.market.trading, r.start, "next_trading_day")
  /\ last = ResolvePrice(r.market.trading, r.end, "previous_trading_day")
  /\ first # NoDay /\ last # NoDay
  /\ RateForDate(r.market.rates, first) # 0

SharesOf(r, first) == (r.initial \div RateForDate(r.market.rates, first)) \div r.market.close[first]

(* A purchase that is under way stands where the oracle does after some    *)
(* day.                                                                    *)
PurchaseDates == AreDatesOf(request, purchase, aValuation)
Purchased     == SharesOf(request, purchase)

PurchaseWalk ==
  \E k \in 0 .. MaxDay :
    /\ Stands(ForOracle(request), purchase, aValuation, Purchased, <<>>, k, aShares, aCash, aSettling, aTimeline)
    /\ gross = Books(ForOracle(request), purchase, aValuation, Purchased, <<>>)[k].gross
    /\ tax = Books(ForOracle(request), purchase, aValuation, Purchased, <<>>)[k].tax

(* One that is done was valued with an empty list.                         *)
PurchaseInv ==
  /\ aPhase \in {"resolve", "walk", "done", "failed"}
  /\ aPhase = "resolve" => A!Begin
  /\ aPhase = "failed" => aSettling = [day \in Days |-> 0]
  /\ aPhase \in {"walk", "done"} => PurchaseDates /\ PurchaseWalk
  /\ aPhase = "done" =>
       /\ aTimeline = {}
       /\ aResult.native = aShares * request.market.close[aValuation] + aCash
       /\ aResult.sgd = aResult.native * RateForDate(request.market.rates, aValuation)

(* No purchase is resolved at the start.                                   *)
LEMMA PurchaseInit == Init => PurchaseInv
BY DEF Init, A!Begin, PurchaseInv

(* A resolved purchase is a plan of the oracle: shares on the first day,   *)
(* and no contributions.                                                   *)
LEMMA PurchaseIsPlanned ==
  ASSUME NEW r, IsInput(r), NEW first, NEW last, AreDatesOf(r, first, last)
  PROVE  /\ first \in Days /\ last \in Days
         /\ IsPlan(ForOracle(r), SharesOf(r, first), <<>>)
<1>1. /\ IsMarket(r.market) /\ r.start \in Days /\ r.end \in Days
      /\ r.initial \in Nat /\ r.market.trading \in SUBSET Days
  BY DEF IsInput, IsMarket
<1>2. r.start \in Int /\ r.end \in Int
  BY <1>1, ADayIsANumber
<1>3. first \in Days /\ last \in Days
  BY <1>1, <1>2, NextTradingDay, PreviousTradingDay DEF AreDatesOf
<1>4. SharesOf(r, first) \in Nat
  <2> DEFINE rate == RateForDate(r.market.rates, first)
             close == r.market.close[first]
  <2>1. rate \in Nat \ {0}
    <3>1. first \in Int
      BY <1>3, ADayIsANumber
    <3> QED BY <1>1, <3>1, RatesArePositive DEF AreDatesOf
  <2>2. close \in Nat \ {0}
    BY <1>1, <1>3 DEF IsMarket
  <2>3. SharesOf(r, first) = (r.initial \div rate) \div close
    BY DEF SharesOf
  <2> HIDE DEF rate, close
  <2>4. r.initial \div rate \in Nat
    BY <1>1, <2>1
  <2> QED BY <2>2, <2>3, <2>4
<1>5. DOMAIN <<>> = {}
  OBVIOUS
<1>6. IsPlan(ForOracle(r), SharesOf(r, first), <<>>)
  BY <1>4, <1>5, WhatTheOracleIsGiven DEF IsPlan
<1> QED BY <1>3, <1>6

(* Every step of the purchase keeps it where the oracle's books are.       *)
LEMMA PurchaseStep ==
  ASSUME IsInput(request), PurchaseInv, A!Next, UNCHANGED <<job, request, input>>
  PROVE  PurchaseInv'
<1> DEFINE x == ForOracle(request)
           m == request.market
<1>1. CASE A!Resolve
  <2> DEFINE first == A!ResolvePrice(A!Market.trading, request.start, request.purchaseRule)
             last  == A!ResolvePrice(A!Market.trading, request.end, request.valuationRule)
  <2>1. /\ first = ResolvePrice(m.trading, request.start, "next_trading_day")
        /\ last = ResolvePrice(m.trading, request.end, "previous_trading_day")
    <3>1. request.purchaseRule = "next_trading_day" /\ request.valuationRule = "previous_trading_day"
      BY DEF IsInput
    <3> QED BY <3>1, PurchaseRules DEF A!Market
  <2>2. A!Begin
    BY <1>1 DEF PurchaseInv, A!Resolve
  <2>3. CASE A!Fail
    BY <2>2, <2>3, PurchaseRules DEF A!Fail, A!Begin, PurchaseInv
  <2>4. CASE ~A!Fail
    <3>1. /\ aPhase' = "walk" /\ purchase' = first /\ aValuation' = last
          /\ first # NoDay /\ last # NoDay /\ A!FxOn(first) # 0
          /\ aShares' = (request.initial \div A!FxOn(first)) \div A!Market.close[first]
          /\ aTimeline' = A!RelevantDividends(A!Market, first, last) \cup A!RelevantSplits(A!Market, first, last)
          /\ UNCHANGED <<request, aCash, gross, tax, aSettling, aResult>>
      BY <1>1, <2>4, PurchaseRules DEF A!Resolve
    <3>2. A!FxOn(first) = RateForDate(m.rates, first)
      BY PurchaseRules DEF A!FxOn, A!Market
    <3>3. PurchaseDates'
      BY <2>1, <3>1, <3>2 DEF PurchaseDates, AreDatesOf
    <3>4. aShares' = Purchased'
      BY <3>1, <3>2 DEF Purchased, SharesOf, A!Market
    <3>5. aTimeline' = DOMAIN <<>> \cup RelevantDividends(m, first, last) \cup RelevantSplits(m, first, last)
      <4>1. DOMAIN <<>> = {}
        OBVIOUS
      <4> QED BY <3>1, <4>1, PurchaseRules DEF A!Market
    <3>6. aCash' = 0 /\ gross' = 0 /\ tax' = 0 /\ aSettling' = [day \in Days |-> 0]
      BY <2>2, <3>1, PurchaseRules DEF A!Begin
    <3>7. AreDatesOf(request, first, last)
      BY <3>1, <3>3 DEF PurchaseDates
    <3> HIDE DEF first, last
    <3>8. first \in Days /\ last \in Days /\ IsPlan(x, SharesOf(request, first), <<>>)
      BY <3>7, PurchaseIsPlanned
    <3>9. PICK begun : begun = Purchased' /\ begun = SharesOf(request, first)
      BY <3>1 DEF Purchased
    <3> HIDE DEF x, m
    <3>10. /\ first \in Days /\ last \in Days /\ IsPlan(x, begun, <<>>)
           /\ \A day \in DOMAIN <<>> : day <= last
      <4>1. DOMAIN <<>> = {}
        OBVIOUS
      <4> QED BY <3>1, <3>8, <3>9, <4>1 DEF x
    <3>11. /\ Stands(x, first, last, begun, <<>>, 0, begun, 0, [day \in Days |-> 0], aTimeline')
           /\ Books(x, first, last, begun, <<>>)[0].gross = 0
           /\ Books(x, first, last, begun, <<>>)[0].tax = 0
      BY <3>5, <3>10, StandsAtTheStart DEF x, m
    <3>12. 0 \in 0 .. MaxDay
      BY CalculationRulesAssumption
    <3>13. PurchaseWalk'
      BY <3>1, <3>4, <3>6, <3>9, <3>11, <3>12 DEF PurchaseWalk, x
    <3> QED BY <3>1, <3>3, <3>13 DEF PurchaseInv
  <2> QED BY <2>3, <2>4
<1>2. CASE A!Step
  <2>1. PICK day \in aTimeline : (\A other \in aTimeline : day <= other) /\ A!Visit(day)
    BY <1>2 DEF A!Step
  <2>2. /\ aPhase = "walk" /\ PurchaseDates /\ PurchaseWalk
        /\ UNCHANGED <<request, aPhase, purchase, aValuation, aResult>>
    BY <1>2 DEF PurchaseInv, A!Step
  <2>3. PICK k \in 0 .. MaxDay :
          /\ Stands(x, purchase, aValuation, Purchased, <<>>, k, aShares, aCash, aSettling, aTimeline)
          /\ gross = Books(x, purchase, aValuation, Purchased, <<>>)[k].gross
          /\ tax = Books(x, purchase, aValuation, Purchased, <<>>)[k].tax
    BY <2>2 DEF PurchaseWalk
  <2>4. /\ purchase \in Days /\ aValuation \in Days /\ IsPlan(x, Purchased, <<>>) /\ day \in Days
    BY <2>2, <2>3, PurchaseIsPlanned DEF Stands, PurchaseDates, Purchased
  <2>5. /\ A!Entitles(day) <=> Pays(x, purchase, aValuation, day)
        /\ Pays(x, purchase, aValuation, day)
             => A!SettlementDay(day) = SettleOf(x.market, purchase, aValuation)[day]
        /\ A!Held(day) = SplitOn(x, purchase, aValuation, aShares, day)
        /\ A!Earned(day) = GrossOn(x, purchase, aValuation, aShares, day)
        /\ A!Withheld(day) = TaxOn(x, purchase, aValuation, aShares, day)
        /\ A!Waiting(day) = Owed(x, purchase, aValuation, aShares, day, aSettling)
    BY <2>4, VisitIsADay
  <2>6. x.reinvest = request.reinvest /\ x.market = m
    BY WhatTheOracleIsGiven
  <2> HIDE DEF x
  <2>7. aShares' = SplitOn(x, purchase, aValuation, aShares, day)
                     + (IF x.reinvest THEN A!Waiting(day)[day] \div x.market.close[day] ELSE 0)
                     + BoughtOn(x, <<>>, day)
    <3>1. BoughtOn(x, <<>>, day) = 0
      <4>1. DOMAIN <<>> = {}
        OBVIOUS
      <4> QED BY <4>1 DEF BoughtOn
    <3>2. SplitOn(x, purchase, aValuation, aShares, day) \in Nat
      <4>1. aShares \in Nat
        <5>1. IsBook(Books(x, purchase, aValuation, Purchased, <<>>)[k])
          BY <2>4, BooksAreBooks
        <5> QED BY <2>3, <5>1 DEF Stands, IsBook
      <4> QED BY <4>1 DEF SplitOn
    <3>3. CASE request.reinvest
      <4>1. aShares' = SplitOn(x, purchase, aValuation, aShares, day) + A!Waiting(day)[day] \div m.close[day]
        BY <2>1, <2>5, <3>3 DEF A!Visit, A!Market
      <4>2. A!Waiting(day)[day] \div m.close[day] \in Int
        <5>1. IsBook(Books(x, purchase, aValuation, Purchased, <<>>)[k])
          BY <2>4, BooksAreBooks
        <5>2. aSettling \in [Days -> Nat]
          BY <2>3, <5>1 DEF Stands, IsBook
        <5>3. m.close[day] \in Nat \ {0}
          BY <2>4 DEF IsInput, IsMarket
        <5>4. A!Waiting(day)[day] \in Int
          <6>1. GrossOn(x, purchase, aValuation, aShares, day) \in Nat
            BY <3>2 DEF GrossOn
          <6>2. TaxOn(x, purchase, aValuation, aShares, day) \in Nat
            BY <6>1 DEF TaxOn
          <6>3. Pays(x, purchase, aValuation, day) => SettleOf(x.market, purchase, aValuation)[day] \in Days
            BY <2>4, <2>6, SettlesLater DEF Pays, IsInput
          <6>4. aSettling[day] \in Nat
            BY <2>4, <5>2
          <6>5. A!Waiting(day)[day] \in
                  {aSettling[day], aSettling[day] + (GrossOn(x, purchase, aValuation, aShares, day)
                                                      - TaxOn(x, purchase, aValuation, aShares, day))}
            BY <2>4, <2>5, <5>2, <6>3 DEF Owed
          <6> QED BY <6>1, <6>2, <6>4, <6>5
        <5> HIDE DEF m
        <5> QED BY <5>3, <5>4
      <4> HIDE DEF m
      <4> QED BY <2>6, <3>1, <3>2, <3>3, <4>1, <4>2
    <3>4. CASE ~request.reinvest
      <4>1. aShares' = SplitOn(x, purchase, aValuation, aShares, day)
        BY <2>1, <2>5, <3>4 DEF A!Visit
      <4> QED BY <2>6, <3>1, <3>2, <3>4, <4>1
    <3> QED BY <3>3, <3>4
  <2>8. aCash' = IF x.reinvest THEN aCash ELSE aCash + A!Waiting(day)[day]
    BY <2>1, <2>6 DEF A!Visit
  <2>9. /\ aTimeline' = (aTimeline \ {day}) \cup
               (IF Pays(x, purchase, aValuation, day) /\ day < SettleOf(x.market, purchase, aValuation)[day]
                THEN {SettleOf(x.market, purchase, aValuation)[day]} ELSE {})
        /\ aSettling' = [A!Waiting(day) EXCEPT ![day] = 0]
        /\ gross' = gross + GrossOn(x, purchase, aValuation, aShares, day)
        /\ tax' = tax + TaxOn(x, purchase, aValuation, aShares, day)
    BY <2>1, <2>5 DEF A!Visit, A!TimelineAfter
  <2>10. PICK begun : begun = Purchased /\ begun = Purchased'
    BY <2>2 DEF Purchased
  <2>11. /\ aShares' = HeldAfter(x, purchase, aValuation, <<>>, aShares, aSettling, day)
         /\ aCash' = PaidAfter(x, purchase, aValuation, aShares, aCash, aSettling, day)
         /\ aSettling' = OwedAfter(x, purchase, aValuation, aShares, aSettling, day)
         /\ aTimeline' = AheadAfter(x, purchase, aValuation, aTimeline, day)
    BY <2>5, <2>7, <2>8, <2>9 DEF HeldAfter, PaidAfter, OwedAfter, AheadAfter
  <2>15. /\ Stands(x, purchase, aValuation, begun, <<>>, day, aShares', aCash', aSettling', aTimeline')
         /\ Books(x, purchase, aValuation, begun, <<>>)[day].gross
              = Books(x, purchase, aValuation, begun, <<>>)[k].gross
                  + GrossOn(x, purchase, aValuation, aShares, day)
         /\ Books(x, purchase, aValuation, begun, <<>>)[day].tax
              = Books(x, purchase, aValuation, begun, <<>>)[k].tax
                  + TaxOn(x, purchase, aValuation, aShares, day)
    BY <2>1, <2>3, <2>4, <2>10, <2>11, Turn
  <2>12. day \in 0 .. MaxDay
    BY <2>4, CalculationRulesAssumption DEF Days
  <2>13. PurchaseWalk'
    BY <2>2, <2>3, <2>9, <2>10, <2>12, <2>15 DEF PurchaseWalk, x
  <2>14. PurchaseDates'
    BY <2>2 DEF PurchaseDates
  <2> QED BY <2>2, <2>13, <2>14 DEF PurchaseInv
<1>3. CASE A!Value
  <2>1. /\ PurchaseDates /\ PurchaseWalk /\ aTimeline = {} /\ aPhase' = "done"
        /\ UNCHANGED <<request, purchase, aValuation, aShares, aCash, gross, tax, aTimeline, aSettling>>
    BY <1>3 DEF PurchaseInv, A!Value
  <2>2. PurchaseDates' /\ PurchaseWalk'
    BY <2>1 DEF PurchaseDates, PurchaseWalk, Purchased
  <2>3. /\ aResult'.native = aShares * m.close[aValuation] + aCash
        /\ aResult'.sgd = aResult'.native * RateForDate(m.rates, aValuation)
    BY <1>3, PurchaseRules DEF A!Value, A!Market, A!FxOn
  <2> QED BY <2>1, <2>2, <2>3 DEF PurchaseInv
<1> QED BY <1>1, <1>2, <1>3 DEF A!Next

(* What a purchase is owed lies on a listed day.                           *)
LEMMA PurchasesSettleInSight ==
  ASSUME IsInput(request), PurchaseInv PROVE A!NothingSettlesUnseen
<1> SUFFICES ASSUME NEW day \in Days, aSettling[day] # 0
             PROVE  day \in aTimeline /\ day <= aValuation
  BY PurchaseRules DEF A!NothingSettlesUnseen
<1>1. CASE aPhase \in {"resolve", "failed"}
  BY <1>1, PurchaseRules DEF PurchaseInv, A!Begin
<1>2. CASE aPhase \in {"walk", "done"}
  <2>1. PICK k \in 0 .. MaxDay :
          Stands(ForOracle(request), purchase, aValuation, Purchased, <<>>, k, aShares, aCash, aSettling, aTimeline)
    BY <1>2 DEF PurchaseInv, PurchaseWalk
  <2>2. k < day
    BY <2>1, ADayIsANumber DEF Stands
  <2> QED BY <2>1, <2>2 DEF Stands, Busy
<1> QED BY <1>1, <1>2 DEF PurchaseInv

(* A purchase that ends is what the oracle expects.                        *)
LEMMA PurchasesAgree ==
  ASSUME IsInput(request), PurchaseInv, aPhase = "done"
  PROVE  [shares |-> aShares, cash |-> aCash, gross |-> gross, tax |-> tax,
          native |-> aResult.native, sgd |-> aResult.sgd] = LumpSumExpected(ForOracle(request))
<1> DEFINE x == ForOracle(request)
           m == request.market
           book == Run(x, purchase, aValuation, Purchased, <<>>)
<1>1. /\ x.market = m /\ x.start = request.start /\ x.end = request.end /\ x.initial = request.initial
      /\ m.trading \in SUBSET Days /\ DOMAIN m.rates \subseteq Days /\ x.start \in Int /\ x.end \in Int
  BY WhatTheOracleIsGiven, ADayIsANumber DEF IsInput, IsMarket
<1>2. /\ purchase = ResolvePrice(m.trading, x.start, "next_trading_day")
      /\ aValuation = ResolvePrice(m.trading, x.end, "previous_trading_day")
  BY <1>1 DEF PurchaseInv, PurchaseDates, AreDatesOf
<1>3. purchase \in Days /\ aValuation \in Days /\ IsPlan(x, Purchased, <<>>)
  BY PurchaseIsPlanned DEF PurchaseInv, PurchaseDates, Purchased
<1>4. PICK k \in 0 .. MaxDay :
        /\ Stands(x, purchase, aValuation, Purchased, <<>>, k, aShares, aCash, aSettling, aTimeline)
        /\ gross = Books(x, purchase, aValuation, Purchased, <<>>)[k].gross
        /\ tax = Books(x, purchase, aValuation, Purchased, <<>>)[k].tax
  BY DEF PurchaseInv, PurchaseWalk
<1> HIDE DEF x, m
<1>5. aShares = book.shares /\ aCash = book.cash /\ gross = book.gross /\ tax = book.tax
  BY <1>3, <1>4, TheWalkIsOver DEF PurchaseInv
<1>6. FirstFrom(m.trading, x.start) = purchase /\ LastUpTo(m.trading, x.end) = aValuation
  BY <1>1, <1>2, FirstFromIsNext, LastUpToIsPrevious
<1>7. /\ FxAt(m.rates, purchase) = RateForDate(m.rates, purchase)
      /\ FxAt(m.rates, aValuation) = RateForDate(m.rates, aValuation)
  BY <1>1, <1>3, FxAtIsTheRate, ADayIsANumber
<1>8. Run(x, purchase, aValuation, (x.initial \div FxAt(m.rates, purchase)) \div m.close[purchase], <<>>) = book
  BY <1>1, <1>7 DEF Purchased, SharesOf, m
<1>9. /\ aResult.native = FinalNative(m, book, aValuation)
      /\ aResult.sgd = aResult.native * RateForDate(m.rates, aValuation)
  BY <1>5 DEF PurchaseInv, FinalNative, m
<1> HIDE DEF book
<1> QED BY <1>1, <1>5, <1>6, <1>7, <1>8, <1>9 DEF LumpSumExpected, x

-------------------------------------------------------------------------------
(* Recurring investment                                                    *)

(* Once there is a rate, there is one for every later day.                 *)
LEMMA RatesLast ==
  ASSUME NEW m, IsMarket(m), NEW earlier \in Int, NEW later \in Int, earlier <= later,
         RateForDate(m.rates, earlier) # 0
  PROVE  RateForDate(m.rates, later) \in Nat \ {0}
<1> DEFINE known(day) == {other \in DOMAIN m.rates : other <= day}
<1>1. known(earlier) # {}
  BY DEF RateForDate
<1>2. known(earlier) \subseteq known(later)
  <2>1. \A day \in DOMAIN m.rates : day \in Int
    BY ADayIsANumber DEF IsMarket
  <2> QED BY <2>1
<1>3. Max(known(later)) \in known(later)
  BY <1>1, <1>2, LastOfDays DEF IsMarket
<1> QED BY <1>1, <1>2, <1>3 DEF RateForDate, IsMarket

(* The dates of the contributions are trading days of the range, and the   *)
(* first of the range is the first of them.                                *)
LEMMA DatesOfContributions ==
  ASSUME NEW trading \in SUBSET Days, NEW start \in Days, NEW end \in Days
  PROVE  LET dates == D!ContributionDates(trading, start, end)
             inRange == {day \in trading : start <= day /\ day <= end}
         IN  /\ dates \subseteq inRange
             /\ inRange # {} => Min(inRange) \in dates
             /\ dates # {} => inRange # {} /\ Min(dates) = Min(inRange)
<1> DEFINE dates == D!ContributionDates(trading, start, end)
           inRange == {day \in trading : start <= day /\ day <= end}
<1>1. dates = {day \in inRange : \A other \in inRange : D!PeriodKey(other) = D!PeriodKey(day) => day <= other}
  BY DEF D!ContributionDates
<1>2. inRange \in SUBSET Days
  OBVIOUS
<1> HIDE DEF inRange
<1>3. inRange # {} => Min(inRange) \in inRange /\ \A day \in inRange : Min(inRange) <= day
  BY <1>2, FirstOfDays
<1>4. inRange # {} => Min(inRange) \in dates
  BY <1>1, <1>3
<1>5. dates # {} => inRange # {} /\ Min(dates) = Min(inRange)
  <2> SUFFICES ASSUME dates # {} PROVE inRange # {} /\ Min(dates) = Min(inRange)
    OBVIOUS
  <2>1. dates \in SUBSET Days /\ inRange # {}
    BY <1>1, <1>2
  <2>2. Min(dates) \in dates /\ \A day \in dates : Min(dates) <= day
    BY <2>1, FirstOfDays
  <2>3. Min(dates) <= Min(inRange) /\ Min(inRange) <= Min(dates)
    BY <1>1, <1>3, <1>4, <2>1, <2>2
  <2>4. Min(dates) \in Days /\ Min(inRange) \in Days
    BY <1>2, <1>3, <2>1, <2>2
  <2> QED BY <2>1, <2>3, <2>4, ADayIsANumber
<1> QED BY <1>1, <1>4, <1>5 DEF inRange

(* The contribution dates and the valuation date of a request.             *)
AreContributionsOf(r, dates, last) ==
  /\ dates = D!ContributionDates(r.market.trading, r.start, r.end)
  /\ dates # {}
  /\ last = ResolvePrice(r.market.trading, r.end, "previous_trading_day")
  /\ last # NoDay

PlanOf(r, dates) == [day \in dates |-> r.contribution + (IF day = Min(dates) THEN r.initial ELSE 0)]

ListOf(r, dates, last) ==
  dates \cup RelevantDividends(r.market, Min(dates), last) \cup RelevantSplits(r.market, Min(dates), last)

(* The dates of contributions are trading days up to the valuation.        *)
LEMMA DatesOfAPlan ==
  ASSUME NEW r, IsInput(r), NEW dates, NEW last, AreContributionsOf(r, dates, last)
  PROVE  /\ dates \subseteq Days /\ dates \subseteq r.market.trading
         /\ last \in Days /\ \A day \in dates : day <= last
         /\ Min(dates) \in dates /\ \A day \in dates : Min(dates) <= day
<1>1. r.market.trading \in SUBSET Days /\ r.start \in Days /\ r.end \in Days /\ r.end \in Int
  BY ADayIsANumber DEF IsInput, IsMarket
<1>2. dates \subseteq {day \in r.market.trading : r.start <= day /\ day <= r.end}
  BY <1>1, DatesOfContributions DEF AreContributionsOf
<1>3. last \in r.market.trading /\ \A other \in r.market.trading : other <= r.end => other <= last
  BY <1>1, PreviousTradingDay DEF AreContributionsOf
<1>4. dates \in SUBSET Days /\ dates # {}
  BY <1>1, <1>2 DEF AreContributionsOf
<1>5. Min(dates) \in dates /\ \A day \in dates : Min(dates) <= day
  BY <1>4, FirstOfDays
<1> QED BY <1>1, <1>2, <1>3, <1>4, <1>5

(* Where there is a rate on the first of the dates there is one on each.   *)
LEMMA ContributionsArePlanned ==
  ASSUME NEW r, IsInput(r), NEW dates, NEW last, AreContributionsOf(r, dates, last),
         RateForDate(r.market.rates, Min(dates)) # 0
  PROVE  /\ IsPlan(ForOracle(r), 0, PlanOf(r, dates))
         /\ \A day \in dates : RateForDate(r.market.rates, day) \in Nat \ {0}
<1>1. /\ dates \subseteq Days /\ Min(dates) \in dates /\ \A day \in dates : Min(dates) <= day
  BY DatesOfAPlan
<1>2. IsMarket(r.market) /\ r.contribution \in Nat /\ r.initial \in Nat
  BY DEF IsInput
<1>3. \A day \in dates : RateForDate(r.market.rates, day) \in Nat \ {0}
  BY <1>1, <1>2, RatesLast, ADayIsANumber
<1>4. \A day \in dates : FxAt(r.market.rates, day) = RateForDate(r.market.rates, day)
  BY <1>1, <1>2, FxAtIsTheRate, ADayIsANumber DEF IsMarket
<1>5. DOMAIN PlanOf(r, dates) = dates /\ \A day \in dates : PlanOf(r, dates)[day] \in Nat
  BY <1>2 DEF PlanOf
<1>6. IsInput(ForOracle(r)) /\ ForOracle(r).market = r.market
  BY WhatTheOracleIsGiven
<1> HIDE DEF PlanOf
<1>7. IsPlan(ForOracle(r), 0, PlanOf(r, dates))
  BY <1>1, <1>3, <1>4, <1>5, <1>6 DEF IsPlan
<1> QED BY <1>3, <1>7

(* A plan whose first day has no rate fails on that day, having done       *)
(* nothing; every other stands where the oracle does after some day.       *)
PlanWalk ==
  \E k \in 0 .. MaxDay :
    Stands(ForOracle(input), Min(purchases), dValuation, 0, PlanOf(input, purchases), k,
           dShares, dCash, dSettling, dTimeline)

(* The same of the recurring investment: at day k its figures and its list *)
(* stand where the oracle's book of the day does.                          *)
PlanInv ==
  /\ dPhase \in {"resolve", "walk", "done", "failed"}
  /\ dPhase = "resolve" => D!Begin
  /\ dPhase = "failed" => dSettling = [day \in Days |-> 0]
  /\ dPhase \in {"walk", "done"} =>
       /\ AreContributionsOf(input, purchases, dValuation)
       /\ RateForDate(input.market.rates, Min(purchases)) # 0 => PlanWalk
       /\ RateForDate(input.market.rates, Min(purchases)) = 0 =>
            /\ dPhase = "walk" /\ dSettling = [day \in Days |-> 0]
            /\ dTimeline = ListOf(input, purchases, dValuation)
  /\ dPhase = "done" =>
       /\ dTimeline = {}
       /\ dResult.native = dShares * input.market.close[dValuation] + dCash
       /\ dResult.sgd = dResult.native * RateForDate(input.market.rates, dValuation)
       /\ dResult.contributed = input.contribution * Cardinality(purchases) + input.initial

(* No plan is resolved at the start.                                       *)
LEMMA PlanInit == Init => PlanInv
BY DEF Init, D!Begin, PlanInv

(* One turn of the loop in the terms of the oracle.                        *)
LEMMA StepIsADay ==
  ASSUME IsInput(input), dValuation \in Days, NEW day \in Days, dShares \in Nat
  PROVE  LET x == ForOracle(input)
             w == Min(purchases)
         IN  /\ D!Entitles(day) <=> Pays(x, w, dValuation, day)
             /\ Pays(x, w, dValuation, day)
                  => D!SettlementDay(day) = SettleOf(x.market, w, dValuation)[day]
             /\ D!Held(day) = SplitOn(x, w, dValuation, dShares, day)
             /\ D!Waiting(day) = Owed(x, w, dValuation, dShares, day, dSettling)
<1> DEFINE x == ForOracle(input)
           m == input.market
           w == Min(purchases)
<1>0. D!First = w
  BY PeriodicRules DEF D!First
<1>1. /\ x.market = m /\ x.enabled = (input.enabled /\ m.policy \in MayPay)
      /\ x.taxed = input.taxed /\ input.enabled \in BOOLEAN
  BY WhatTheOracleIsGiven DEF IsInput
<1>2. IsMarket(m)
  BY DEF IsInput
<1>3. D!SettlementDay(day) = Settlement(m, dValuation, day)
  BY PeriodicRules DEF D!SettlementDay, D!Market, Settlement, Available, NoDay, D!NoDay
<1>4. D!Entitles(day) <=> Pays(x, w, dValuation, day)
  <2>1. D!Entitles(day) <=> /\ input.enabled /\ day \in RelevantDividends(m, w, dValuation)
                            /\ Settlement(m, dValuation, day) # NoDay
    BY <1>0, <1>3, PeriodicRules DEF D!Entitles, D!Dividends, D!Market
  <2>2. Pays(x, w, dValuation, day)
          <=> /\ input.enabled /\ m.policy \in MayPay
              /\ day \in DOMAIN SettleOf(m, w, dValuation)
    BY <1>1 DEF Pays
  <2>3. (day \in RelevantDividends(m, w, dValuation) /\ Settlement(m, dValuation, day) # NoDay)
          <=> (m.policy \in MayPay /\ day \in DOMAIN SettleOf(m, w, dValuation))
    BY <1>2, SettlementIsSettleOf
  <2> QED BY <2>1, <2>2, <2>3, Zenon
<1>5. Pays(x, w, dValuation, day) => D!SettlementDay(day) = SettleOf(m, w, dValuation)[day]
  <2> HIDE DEF x, m, w
  <2> QED BY <1>1, <1>2, <1>3, SettlementIsSettleOf DEF Pays
<1>6. D!Held(day) = SplitOn(x, w, dValuation, dShares, day)
  <2>1. D!Splits = SplitDays(m, w, dValuation)
    BY <1>0, PeriodicRules DEF D!Splits, D!Market, RelevantSplits, SplitDays
  <2> HIDE DEF x, m, w
  <2> QED BY <1>1, <2>1, PeriodicRules DEF D!Held, SplitOn, ApplyActions
<1> HIDE DEF x, w
<1>7. D!IsHalved(D!Market, day) <=> IsHalved(m, day)
  BY PeriodicRules DEF D!Market
<1>8. Pays(x, w, dValuation, day)
        => D!Net(day) = GrossOn(x, w, dValuation, dShares, day) - TaxOn(x, w, dValuation, dShares, day)
  <2> HIDE DEF m
  <2>1. SplitOn(x, w, dValuation, dShares, day) \in Nat
    BY DEF SplitOn
  <2> QED BY <1>1, <1>6, <1>7, <2>1 DEF D!Net, GrossOn, TaxOn
<1>9. D!Waiting(day) = Owed(x, w, dValuation, dShares, day, dSettling)
  <2> HIDE DEF m
  <2> QED BY <1>1, <1>4, <1>5, <1>8 DEF D!Waiting, Owed
<1> QED BY <1>1, <1>4, <1>5, <1>6, <1>9 DEF x, w

(* Every step of the investment keeps it where the oracle's books are.     *)
LEMMA PlanStep ==
  ASSUME IsInput(input), PlanInv, D!Next, UNCHANGED <<job, request, input>>
  PROVE  PlanInv'
<1> DEFINE x == ForOracle(input)
           m == input.market
           zeros == [day \in Days |-> 0]
<1>1. CASE D!Resolve
  <2> DEFINE days == D!ContributionDates(m.trading, input.start, input.end)
             last == ResolvePrice(m.trading, input.end, "previous_trading_day")
  <2>1. D!Begin
    BY <1>1 DEF PlanInv, D!Resolve
  <2>2. dShares = 0 /\ dCash = 0 /\ dSettling = zeros
    BY <2>1, PeriodicRules DEF D!Begin
  <2>3. UNCHANGED <<input, dShares, dCash, dSettling, dResult>>
    BY <1>1 DEF D!Resolve
  <2>4. CASE dPhase' = "failed"
    BY <2>2, <2>3, <2>4 DEF PlanInv
  <2>5. CASE dPhase' # "failed"
    <3>1. /\ dPhase' = "walk" /\ purchases' = days /\ dValuation' = last
          /\ days # {} /\ last # NoDay
          /\ dTimeline' = days \cup D!RelevantDividends(m, D!Min(days), last)
                               \cup D!RelevantSplits(m, D!Min(days), last)
      BY <1>1, <2>5, PeriodicRules DEF D!Resolve, D!Market
    <3>2. dTimeline' = ListOf(input, days, last)
      BY <3>1, PeriodicRules DEF ListOf
    <3>3. AreContributionsOf(input, days, last)
      BY <3>1 DEF AreContributionsOf
    <3> HIDE DEF days, last
    <3>4. AreContributionsOf(input, purchases, dValuation)'
      BY <2>3, <3>1, <3>3
    <3>5. CASE RateForDate(m.rates, Min(days)) = 0
      BY <2>2, <2>3, <3>1, <3>2, <3>4, <3>5 DEF PlanInv
    <3>6. CASE RateForDate(m.rates, Min(days)) # 0
      <4>1. IsPlan(x, 0, PlanOf(input, days))
        BY <3>3, <3>6, ContributionsArePlanned
      <4>2. /\ last \in Days /\ Min(days) \in Days /\ DOMAIN PlanOf(input, days) = days
            /\ \A day \in days : day <= last
        BY <3>3, DatesOfAPlan DEF PlanOf
      <4>3. ListOf(input, days, last) = DOMAIN PlanOf(input, days) \cup RelevantDividends(m, Min(days), last)
                                          \cup RelevantSplits(m, Min(days), last)
        BY <4>2 DEF ListOf
      <4> HIDE DEF m
      <4>4. Stands(x, Min(days), last, 0, PlanOf(input, days), 0, 0, 0, zeros, ListOf(input, days, last))
        BY <4>1, <4>2, <4>3, StandsAtTheStart DEF m
      <4> HIDE DEF x, zeros
      <4>5. 0 \in 0 .. MaxDay
        BY CalculationRulesAssumption
      <4>6. PlanWalk'
        BY <2>2, <2>3, <3>1, <3>2, <4>4, <4>5 DEF PlanWalk, x
      <4> QED BY <2>3, <3>1, <3>4, <3>6, <4>6 DEF PlanInv, m
    <3> QED BY <3>5, <3>6
  <2> QED BY <2>4, <2>5
<1>2. CASE D!Step
  <2> DEFINE w == Min(purchases)
             c == PlanOf(input, purchases)
  <2>1. PICK day \in dTimeline :
          /\ \A other \in dTimeline : day <= other
          /\ IF day \in purchases /\ D!FxOn(day) = 0
             THEN dPhase' = "failed" /\ UNCHANGED <<dShares, dCash, dSettling, dTimeline>>
             ELSE /\ dSettling' = [D!Waiting(day) EXCEPT ![day] = 0]
                  /\ dCash' = IF input.reinvest THEN dCash ELSE dCash + D!Waiting(day)[day]
                  /\ dShares' = D!Held(day) + D!Reinvested(day) + D!Bought(day)
                  /\ dTimeline' = D!TimelineAfter(day)
                  /\ UNCHANGED dPhase
    BY <1>2 DEF D!Step
  <2>2. /\ dPhase = "walk" /\ AreContributionsOf(input, purchases, dValuation)
        /\ UNCHANGED <<input, purchases, dValuation, dResult>>
    BY <1>2 DEF PlanInv, D!Step
  <2>3. /\ purchases \subseteq Days /\ dValuation \in Days /\ w \in purchases
        /\ \A other \in purchases : w <= other
    BY <2>2, DatesOfAPlan
  <2>4. D!FxOn(day) = RateForDate(m.rates, day)
    BY PeriodicRules DEF D!FxOn, D!Market
  <2>5. CASE RateForDate(m.rates, w) = 0
    <3>1. dSettling = zeros /\ dTimeline = ListOf(input, purchases, dValuation)
      BY <2>2, <2>5 DEF PlanInv
    <3>2. w \in dTimeline /\ dTimeline \subseteq Days /\ \A other \in dTimeline : w <= other
      <4>1. IsMarket(m)
        BY DEF IsInput
      <4>2. /\ RelevantDividends(m, w, dValuation) \subseteq Days
            /\ \A other \in RelevantDividends(m, w, dValuation) : w < other
        BY <4>1 DEF RelevantDividends, IsMarket
      <4>3. /\ RelevantSplits(m, w, dValuation) \subseteq Days
            /\ \A other \in RelevantSplits(m, w, dValuation) : w < other
        BY <4>1 DEF RelevantSplits, IsMarket
      <4>4. dTimeline = purchases \cup RelevantDividends(m, w, dValuation) \cup RelevantSplits(m, w, dValuation)
        BY <3>1 DEF ListOf
      <4> HIDE DEF w, m
      <4>5. ASSUME NEW other \in dTimeline PROVE other \in Days /\ w <= other
        <5>1. other \in Days /\ w \in Days /\ (w <= other \/ w < other)
          BY <2>3, <4>2, <4>3, <4>4
        <5> QED BY <5>1, ADayIsANumber
      <4> QED BY <2>3, <4>4, <4>5
    <3> HIDE DEF w
    <3>3. day = w
      <4>1. day <= w /\ w <= day /\ day \in Int /\ w \in Int
        BY <2>1, <3>2, ADayIsANumber
      <4> QED BY <4>1
    <3>4. dPhase' = "failed" /\ dSettling' = dSettling
      BY <2>1, <2>3, <2>4, <2>5, <3>3
    <3> QED BY <3>1, <3>4 DEF PlanInv
  <2>6. CASE RateForDate(m.rates, w) # 0
    <3>1. PICK k \in 0 .. MaxDay :
            Stands(x, w, dValuation, 0, c, k, dShares, dCash, dSettling, dTimeline)
      BY <2>2, <2>6 DEF PlanInv, PlanWalk
    <3>2. /\ IsPlan(x, 0, c) /\ day \in Days
          /\ \A date \in purchases : RateForDate(m.rates, date) \in Nat \ {0}
      BY <2>2, <2>6, <3>1, ContributionsArePlanned DEF Stands
    <3>3. /\ dSettling' = [D!Waiting(day) EXCEPT ![day] = 0]
          /\ dCash' = IF input.reinvest THEN dCash ELSE dCash + D!Waiting(day)[day]
          /\ dShares' = D!Held(day) + D!Reinvested(day) + D!Bought(day)
          /\ dTimeline' = D!TimelineAfter(day)
          /\ dPhase' = "walk"
      BY <2>1, <2>2, <2>4, <3>2
    <3>4. dShares \in Nat
      <4>1. IsBook(Books(x, w, dValuation, 0, c)[k])
        BY <2>3, <3>2, BooksAreBooks
      <4> QED BY <3>1, <4>1 DEF Stands, IsBook
    <3>5. /\ D!Entitles(day) <=> Pays(x, w, dValuation, day)
          /\ Pays(x, w, dValuation, day)
               => D!SettlementDay(day) = SettleOf(x.market, w, dValuation)[day]
          /\ D!Held(day) = SplitOn(x, w, dValuation, dShares, day)
          /\ D!Waiting(day) = Owed(x, w, dValuation, dShares, day, dSettling)
      BY <2>3, <3>2, <3>4, StepIsADay
    <3>6. x.reinvest = input.reinvest /\ x.market = m
      BY WhatTheOracleIsGiven
    <3>7. D!Bought(day) = BoughtOn(x, c, day)
      <4>1. DOMAIN c = purchases /\ \A date \in purchases : c[date] = D!Contribution(date)
        BY PeriodicRules DEF PlanOf, D!Contribution, D!First
      <4>2. FxAt(m.rates, day) = RateForDate(m.rates, day)
        <5>1. IsMarket(m) /\ day \in Int
          BY <3>2, ADayIsANumber DEF IsInput
        <5> QED BY <5>1, FxAtIsTheRate DEF IsMarket
      <4> HIDE DEF x, c
      <4> QED BY <2>4, <3>6, <4>1, <4>2 DEF D!Bought, BoughtOn, D!Market
    <3>8. D!Reinvested(day) = IF x.reinvest THEN D!Waiting(day)[day] \div x.market.close[day] ELSE 0
      BY <3>6 DEF D!Reinvested, D!Market
    <3> HIDE DEF x, w, c, m
    <3>9. /\ dShares' = HeldAfter(x, w, dValuation, c, dShares, dSettling, day)
          /\ dCash' = PaidAfter(x, w, dValuation, dShares, dCash, dSettling, day)
          /\ dSettling' = OwedAfter(x, w, dValuation, dShares, dSettling, day)
          /\ dTimeline' = AheadAfter(x, w, dValuation, dTimeline, day)
      BY <3>3, <3>5, <3>6, <3>7, <3>8 DEF HeldAfter, PaidAfter, OwedAfter, AheadAfter, D!TimelineAfter
    <3>10. Stands(x, w, dValuation, 0, c, day, dShares', dCash', dSettling', dTimeline')
      BY <2>1, <2>3, <3>1, <3>2, <3>9, Turn
    <3>11. day \in 0 .. MaxDay
      BY <3>2, CalculationRulesAssumption DEF Days
    <3>12. PlanWalk'
      BY <2>2, <3>10, <3>11 DEF PlanWalk, x, w, c
    <3> QED BY <2>2, <2>6, <3>3, <3>12 DEF PlanInv, w, m
  <2> QED BY <2>5, <2>6
<1>3. CASE D!Value
  <2>1. /\ dPhase = "walk" /\ dTimeline = {} /\ dPhase' = "done"
        /\ UNCHANGED <<input, purchases, dValuation, dShares, dCash, dTimeline, dSettling>>
    BY <1>3 DEF D!Value
  <2>2. AreContributionsOf(input, purchases, dValuation)
    BY <2>1 DEF PlanInv
  <2>3. RateForDate(m.rates, Min(purchases)) # 0
    <3>1. Min(purchases) \in ListOf(input, purchases, dValuation)
      BY <2>2, DatesOfAPlan DEF ListOf
    <3> QED BY <2>1, <3>1 DEF PlanInv
  <2>4. PlanWalk
    BY <2>1, <2>3 DEF PlanInv
  <2>5. PlanWalk' /\ AreContributionsOf(input, purchases, dValuation)'
    BY <2>1, <2>2, <2>4 DEF PlanWalk
  <2>6. /\ dResult'.native = dShares * m.close[dValuation] + dCash
        /\ dResult'.sgd = dResult'.native * RateForDate(m.rates, dValuation)
        /\ dResult'.contributed = input.contribution * Cardinality(purchases) + input.initial
    BY <1>3, PeriodicRules DEF D!Value, D!Market, D!FxOn, D!Cardinality, Cardinality
  <2> QED BY <2>1, <2>3, <2>5, <2>6 DEF PlanInv
<1> QED BY <1>1, <1>2, <1>3 DEF D!Next

(* What an investment is owed lies on a listed day.                        *)
LEMMA PlansSettleInSight ==
  ASSUME IsInput(input), PlanInv PROVE D!NothingSettlesUnseen
<1> SUFFICES ASSUME NEW day \in Days, dSettling[day] # 0
             PROVE  day \in dTimeline /\ day <= dValuation
  BY PeriodicRules DEF D!NothingSettlesUnseen
<1>1. CASE dSettling = [other \in Days |-> 0]
  BY <1>1
<1>2. CASE PlanWalk
  <2>1. PICK k \in 0 .. MaxDay :
          Stands(ForOracle(input), Min(purchases), dValuation, 0, PlanOf(input, purchases), k,
                 dShares, dCash, dSettling, dTimeline)
    BY <1>2 DEF PlanWalk
  <2>2. k < day
    BY <2>1, ADayIsANumber DEF Stands
  <2> QED BY <2>1, <2>2 DEF Stands, Busy
<1> QED BY <1>1, <1>2, PeriodicRules DEF PlanInv, D!Begin

(* The dates the oracle keeps, one for each period it sees, are those that *)
(* the engine lists.                                                       *)
LEMMA ContributionsAreThePlan ==
  ASSUME NEW r, IsInput(r), r.initial = 0, NEW dates, NEW last, AreContributionsOf(r, dates, last)
  PROVE  Contributions(ForOracle(r)) = PlanOf(r, dates)
<1> DEFINE x == ForOracle(r)
           period(day) == (day - 1) \div PeriodDays
           seen == {day \in x.market.trading : x.start <= day /\ day <= x.end}
           first(key) == CHOOSE day \in seen : period(day) = key /\ ~\E other \in seen : period(other) = key /\ other < day
           kept == {first(key) : key \in {period(day) : day \in seen}}
<1>1. /\ x.market = r.market /\ x.start = r.start /\ x.end = r.end /\ x.contribution = r.contribution
  BY WhatTheOracleIsGiven
<1>2. seen \in SUBSET Days
  BY <1>1 DEF IsInput, IsMarket
<1>3. dates = {day \in seen : \A other \in seen : period(other) = period(day) => day <= other}
  BY <1>1 DEF AreContributionsOf, D!ContributionDates, D!PeriodKey
<1>4. Contributions(x) = [day \in kept |-> r.contribution]
  BY <1>1 DEF Contributions
<1> HIDE DEF seen, period
<1>5. ASSUME NEW day \in seen
      PROVE  /\ first(period(day)) \in seen /\ period(first(period(day))) = period(day)
             /\ \A other \in seen : period(other) = period(day) => first(period(day)) <= other
  <2> DEFINE same == {other \in seen : period(other) = period(day)}
  <2>1. same \in SUBSET Days /\ same # {}
    BY <1>2
  <2>2. Min(same) \in same /\ \A other \in same : Min(same) <= other
    BY <2>1, FirstOfDays
  <2>3. \E one \in seen : period(one) = period(day) /\ ~\E other \in seen : period(other) = period(day) /\ other < one
    <3>1. Min(same) \in seen /\ period(Min(same)) = period(day)
      BY <2>2
    <3>2. \A other \in seen : period(other) = period(day) => ~(other < Min(same))
      <4> SUFFICES ASSUME NEW other \in seen, period(other) = period(day) PROVE ~(other < Min(same))
        OBVIOUS
      <4>1. Min(same) <= other
        BY <2>2
      <4>2. Min(same) \in Int /\ other \in Int
        BY <1>2, <3>1, ADayIsANumber
      <4> HIDE DEF same
      <4> QED BY <4>1, <4>2
    <3> QED BY <3>1, <3>2
  <2>4. /\ first(period(day)) \in seen /\ period(first(period(day))) = period(day)
        /\ ~\E other \in seen : period(other) = period(day) /\ other < first(period(day))
    BY <2>3
  <2> HIDE DEF first
  <2>5. ASSUME NEW other \in seen, period(other) = period(day) PROVE first(period(day)) <= other
    <3>1. ~(other < first(period(day)))
      BY <2>4, <2>5
    <3>2. other \in Int /\ first(period(day)) \in Int
      BY <1>2, <2>4, ADayIsANumber
    <3> QED BY <3>1, <3>2
  <2> QED BY <2>4, <2>5
<1> HIDE DEF first
<1>6. kept = dates
  <2>1. ASSUME NEW day \in seen PROVE first(period(day)) \in dates
    BY <1>3, <1>5
  <2>2. ASSUME NEW day \in dates PROVE day = first(period(day))
    <3>1. day \in seen
      BY <1>3
    <3>2. day <= first(period(day)) /\ first(period(day)) <= day
      BY <1>3, <1>5, <3>1
    <3>3. day \in Int /\ first(period(day)) \in Int
      BY <1>2, <1>5, <3>1, ADayIsANumber
    <3> QED BY <3>2, <3>3
  <2>3. dates \subseteq seen
    BY <1>3
  <2> QED BY <2>1, <2>2, <2>3
<1>7. \A day \in dates : r.contribution + (IF day = Min(dates) THEN r.initial ELSE 0) = r.contribution
  BY DEF IsInput
<1> HIDE DEF kept
<1>8. PlanOf(r, dates) = [day \in dates |-> r.contribution]
  BY <1>7 DEF PlanOf
<1> QED BY <1>4, <1>6, <1>8

(* An investment that ends is what the oracle expects.                     *)
LEMMA PlansAgree ==
  ASSUME IsInput(input), PlanInv, dPhase = "done", input.initial = 0
  PROVE  [shares |-> dShares, cash |-> dCash, native |-> dResult.native, sgd |-> dResult.sgd,
          contributed |-> dResult.contributed] = DcaExpected(ForOracle(input))
<1> DEFINE x == ForOracle(input)
           m == input.market
           w == Min(purchases)
           c == PlanOf(input, purchases)
           book == Run(x, w, dValuation, 0, c)
<1>1. /\ x.market = m /\ x.end = input.end /\ x.contribution = input.contribution
      /\ m.trading \in SUBSET Days /\ DOMAIN m.rates \subseteq Days /\ x.end \in Int
      /\ input.contribution \in Nat
  BY WhatTheOracleIsGiven, ADayIsANumber DEF IsInput, IsMarket
<1>2. /\ AreContributionsOf(input, purchases, dValuation)
      /\ RateForDate(m.rates, w) # 0 /\ PlanWalk /\ dTimeline = {}
  BY DEF PlanInv
<1>3. dValuation \in Days /\ IsPlan(x, 0, c)
  BY <1>2, DatesOfAPlan, ContributionsArePlanned
<1>4. PICK k \in 0 .. MaxDay :
        Stands(x, w, dValuation, 0, c, k, dShares, dCash, dSettling, dTimeline)
  BY <1>2 DEF PlanWalk
<1>5. Contributions(x) = c
  BY <1>2, ContributionsAreThePlan
<1>6. DOMAIN c = purchases
  BY DEF PlanOf
<1>7. LastUpTo(m.trading, x.end) = dValuation
  BY <1>1, <1>2, LastUpToIsPrevious DEF AreContributionsOf
<1>8. FxAt(m.rates, dValuation) = RateForDate(m.rates, dValuation)
  BY <1>1, <1>3, FxAtIsTheRate, ADayIsANumber
<1>9. (CHOOSE day \in DOMAIN c : \A other \in DOMAIN c : day <= other) = w
  BY <1>6 DEF Min
<1> HIDE DEF x, c, w, m
<1>10. dShares = book.shares /\ dCash = book.cash
  BY <1>2, <1>3, <1>4, TheWalkIsOver
<1>11. /\ dResult.native = FinalNative(m, book, dValuation)
       /\ dResult.sgd = dResult.native * RateForDate(m.rates, dValuation)
  BY <1>10 DEF PlanInv, FinalNative, m
<1>12. dResult.contributed = x.contribution * Cardinality(DOMAIN c)
  <2>1. dResult.contributed = input.contribution * Cardinality(purchases) + 0
    BY DEF PlanInv
  <2>2. input.contribution * Cardinality(purchases) \in Int
    <3>1. purchases \subseteq Days
      BY <1>2, DatesOfAPlan
    <3>2. Cardinality(purchases) \in Nat
      BY <3>1, DaysAreNumbers, FS_Subset, FS_CardinalityType
    <3> QED BY <1>1, <3>2
  <2> QED BY <1>1, <1>6, <2>1, <2>2
<1> HIDE DEF book
<1>13. DcaExpected(x) = [shares |-> book.shares, cash |-> book.cash,
                         native |-> FinalNative(m, book, dValuation),
                         sgd |-> FinalNative(m, book, dValuation) * FxAt(m.rates, dValuation),
                         contributed |-> x.contribution * Cardinality(DOMAIN c)]
  BY <1>1, <1>5, <1>7, <1>9 DEF DcaExpected, book
<1> QED BY <1>8, <1>10, <1>11, <1>12, <1>13 DEF x

-------------------------------------------------------------------------------
(* One contribution is a purchase                                          *)

(* The only contribution of a range is on the day of the purchase.         *)
LEMMA TheOnePurchase ==
  ASSUME GivenInv, AreDatesOf(request, purchase, aValuation),
         AreContributionsOf(input, purchases, dValuation), Cardinality(purchases) = 1
  PROVE  purchases = {purchase} /\ dValuation = aValuation
<1> DEFINE trading == input.market.trading
           inRange == {day \in trading : input.start <= day /\ day <= input.end}
<1>1. /\ request.market = input.market /\ request.start = input.start /\ request.end = input.end
  BY DEF GivenInv, IsInput
<1>2. trading \in SUBSET Days /\ input.start \in Days /\ input.end \in Days
  BY DEF GivenInv, IsInput, IsMarket
<1>3. dValuation = aValuation
  BY <1>1 DEF AreDatesOf, AreContributionsOf
<1>4. inRange # {} /\ Min(purchases) = Min(inRange) /\ purchases \subseteq inRange /\ Min(inRange) \in purchases
  BY <1>2, DatesOfContributions DEF AreContributionsOf
<1>5. purchase \in trading /\ input.start <= purchase
      /\ \A other \in trading : input.start <= other => purchase <= other
  BY <1>1, <1>2, NextTradingDay, ADayIsANumber DEF AreDatesOf
<1>6. Min(inRange) \in inRange /\ \A day \in inRange : Min(inRange) <= day
  BY <1>2, <1>4, FirstOfDays
<1>7. Min(inRange) = purchase
  <2>1. Min(inRange) \in Days /\ purchase \in Days /\ Min(inRange) <= input.end /\ purchase <= Min(inRange)
    BY <1>2, <1>5, <1>6
  <2>2. purchase <= input.end
    BY <1>2, <2>1, ADayIsANumber
  <2>3. Min(inRange) <= purchase
    BY <1>5, <1>6, <2>2
  <2> HIDE DEF inRange
  <2> QED BY <2>1, <2>3, ADayIsANumber
<1> HIDE DEF inRange, trading
<1>8. IsFiniteSet(purchases)
  <2>1. purchases \subseteq Days
    BY <1>2, <1>4 DEF inRange
  <2> QED BY <2>1, DaysAreNumbers, FS_Subset
<1>9. purchases = {purchase}
  <2>1. \E only : purchases = {only}
    BY <1>8, FS_Singleton
  <2> QED BY <1>4, <1>7, <2>1
<1> QED BY <1>3, <1>9

(* Until the day of the purchase nothing happens to either book, and after *)
(* it the same to both.                                                    *)
LEMMA TheSameBook ==
  ASSUME NEW r, IsInput(r), NEW s, IsInput(s), s = [r EXCEPT !.initial = r.initial + r.contribution],
         NEW p \in Days, NEW v \in Days, p <= v, NEW c, c = PlanOf(r, {p}),
         NEW first, first = SharesOf(s, p),
         IsPlan(ForOracle(r), 0, c), IsPlan(ForOracle(s), first, <<>>)
  PROVE  Run(ForOracle(r), p, v, 0, c) = Run(ForOracle(s), p, v, first, <<>>)
<1> DEFINE x == ForOracle(r)
           y == ForOracle(s)
           m == r.market
           one == Books(x, p, v, 0, c)
           two == Books(y, p, v, first, <<>>)
<1>1. /\ x.market = m /\ y.market = m /\ x.enabled = y.enabled /\ x.reinvest = y.reinvest /\ x.taxed = y.taxed
      /\ s.market = m /\ s.initial = r.initial + r.contribution
      /\ IsMarket(m) /\ r.initial \in Nat /\ r.contribution \in Nat
  <2>1. /\ s.market = m /\ s.enabled = r.enabled /\ s.reinvest = r.reinvest /\ s.taxed = r.taxed
        /\ s.initial = r.initial + r.contribution
    BY DEF IsInput
  <2> HIDE DEF x, y
  <2> QED BY <2>1, WhatTheOracleIsGiven DEF IsInput, x, y
<1>a. IsPlan(x, 0, c) /\ IsPlan(y, first, <<>>)
  OBVIOUS
<1>2. DOMAIN c = {p} /\ c[p] = s.initial
  <2>1. Min({p}) = p
    BY FirstOfDays
  <2>2. c[p] = r.contribution + r.initial
    BY <2>1 DEF PlanOf
  <2> QED BY <1>1, <2>2 DEF PlanOf
<1>3. DOMAIN <<>> = {}
  OBVIOUS
<1>4. p \in Int /\ p \in Nat /\ 0 < p /\ p <= MaxDay /\ v \in Int /\ MaxDay \in Nat
  BY CalculationRulesAssumption, ADayIsANumber DEF Days
<1> DEFINE later == RelevantDividends(m, p, v) \cup RelevantSplits(m, p, v)
<1>5. \A day \in later : p < day
  BY DEF RelevantDividends, RelevantSplits
<1>6. Stands(x, p, v, 0, c, 0, 0, 0, [day \in Days |-> 0], {p} \cup later)
  <2>1. \A day \in DOMAIN c : day <= v
    BY <1>2
  <2>2. {p} \cup later = DOMAIN c \cup RelevantDividends(m, p, v) \cup RelevantSplits(m, p, v)
    BY <1>2
  <2> HIDE DEF later
  <2> QED BY <2>1, <2>2, StandsAtTheStart
<1>7. Stands(y, p, v, first, <<>>, 0, first, 0, [day \in Days |-> 0], later)
  <2>1. \A day \in DOMAIN <<>> : day <= v
    BY <1>3
  <2>2. later = DOMAIN <<>> \cup RelevantDividends(s.market, p, v) \cup RelevantSplits(s.market, p, v)
    BY <1>1, <1>3
  <2> HIDE DEF later
  <2> QED BY <2>1, <2>2, StandsAtTheStart
<1> HIDE DEF later
<1>8. one[p - 1] = NoBook(0)
  <2>1. PICK last \in 0 .. MaxDay : last = p - 1
    BY <1>4
  <2>2. \A day \in {p} \cup later : last < day
    <3>1. later \subseteq Days
      BY <1>7 DEF Stands
    <3> SUFFICES ASSUME NEW day \in {p} \cup later PROVE last < day
      OBVIOUS
    <3>2. day \in Days /\ (day = p \/ p < day)
      BY <1>5, <3>1
    <3> QED BY <1>4, <2>1, <3>2, ADayIsANumber
  <2>3. one[last] = one[0]
    <3>1. 0 \in 0 .. MaxDay
      BY <1>4
    <3> HIDE DEF x
    <3> QED BY <1>6, <1>a, <2>2, <3>1, QuietDays
  <2>4. one[0] = NoBook(0)
    BY BookOfADay
  <2> QED BY <2>1, <2>3, <2>4
<1>9. two[p] = NoBook(first)
  <2>1. p \in 0 .. MaxDay /\ 0 \in 0 .. MaxDay
    BY <1>4
  <2>2. two[p] = two[0]
    <3> HIDE DEF y
    <3> QED BY <1>5, <1>7, <1>a, <2>1, QuietDays
  <2>3. two[0] = NoBook(first)
    BY BookOfADay
  <2> QED BY <2>2, <2>3
<1>10. one[p] = NoBook(first)
  <2> DEFINE empty == NoBook(0)
             close == m.close[p]
  <2>1. IsBook(empty) /\ empty.shares = 0 /\ empty.cash = 0 /\ empty.gross = 0 /\ empty.tax = 0
        /\ empty.nets = [day \in Days |-> 0]
    BY DEF NoBook, IsBook
  <2> HIDE DEF empty
  <2>2. p \notin SplitDays(m, p, v) /\ ~Pays(x, p, v, p)
    BY <1>1, <1>4 DEF SplitDays, Pays, SettleOf
  <2>3. /\ SplitOn(x, p, v, 0, p) = 0 /\ GrossOn(x, p, v, 0, p) = 0 /\ TaxOn(x, p, v, 0, p) = 0
        /\ Owed(x, p, v, 0, p, empty.nets) = empty.nets
    <3> HIDE DEF x
    <3> QED BY <1>1, <2>2 DEF SplitOn, GrossOn, TaxOn, Owed
  <2>4. BoughtOn(x, c, p) = first
    <3>1. FxAt(m.rates, p) = RateForDate(m.rates, p)
      BY <1>1, <1>4, FxAtIsTheRate DEF IsMarket
    <3> HIDE DEF x, m
    <3> QED BY <1>1, <1>2, <3>1 DEF BoughtOn, SharesOf
  <2>5. close \in Nat \ {0} /\ 0 \div close = 0 /\ first \in Nat
    <3>1. close \in Nat \ {0}
      BY <1>1 DEF IsMarket
    <3>2. first \in Nat
      BY DEF IsPlan
    <3> HIDE DEF close
    <3> QED BY <3>1, <3>2
  <2>6. one[p] = DayOf(x, p, v, c, empty, p, empty.nets)
    <3>1. one[p] = NextBook(x, p, v, c, one[p - 1], p)
      BY BookOfADay
    <3> HIDE DEF one, x
    <3>2. one[p] = NextBook(x, p, v, c, empty, p)
      BY <1>8, <3>1 DEF empty
    <3>3. one[p] = DayOf(x, p, v, c, empty, p, Owed(x, p, v, empty.shares, p, empty.nets))
      BY <2>1, <3>2, TheOraclesDay DEF x
    <3> QED BY <2>1, <2>3, <3>3
  <2> HIDE DEF one, x, m
  <2>7. empty.nets[p] = 0
    BY <2>1
  <2>8. one[p] = [shares |-> 0 + (IF x.reinvest THEN 0 \div close ELSE 0) + first,
                  cash |-> IF x.reinvest THEN 0 ELSE 0 + 0,
                  gross |-> 0 + 0, tax |-> 0 + 0, nets |-> empty.nets]
    BY <1>1, <2>1, <2>3, <2>4, <2>6, <2>7 DEF DayOf
  <2>9. 0 + (IF x.reinvest THEN 0 \div close ELSE 0) + first = first
    BY <2>5
  <2>10. (IF x.reinvest THEN 0 ELSE 0 + 0) = 0 /\ 0 + 0 = 0
    OBVIOUS
  <2> QED BY <2>1, <2>8, <2>9, <2>10 DEF NoBook
<1>11. ASSUME NEW day \in Days, p < day, NEW book
       PROVE  NextBook(x, p, v, c, book, day) = NextBook(y, p, v, <<>>, book, day)
  <2>1. day \notin DOMAIN c /\ day \notin DOMAIN <<>>
    BY <1>2, <1>3, <1>4, <1>11
  <2> HIDE DEF x, y, m
  <2> QED BY <1>1, <2>1 DEF NextBook, DayAfter
<1> DEFINE Bad == {n \in Nat : p <= n /\ n <= MaxDay /\ one[n] # two[n]}
<1>12. Bad = {}
  <2> SUFFICES ASSUME Bad # {} PROVE FALSE
    OBVIOUS
  <2>1. PICK n \in Bad : \A other \in Bad : n <= other
    BY LeastOf
  <2>a. \A day \in Days : /\ one[day] = NextBook(x, p, v, c, one[day - 1], day)
                          /\ two[day] = NextBook(y, p, v, <<>>, two[day - 1], day)
    BY BookOfADay
  <2> HIDE DEF one, two, x, y
  <2>2. n # p
    BY <1>9, <1>10
  <2>3. n \in Days /\ p < n /\ n - 1 \in Nat /\ p <= n - 1 /\ n - 1 <= MaxDay /\ n - 1 < n /\ n \in Nat
        /\ one[n] # two[n]
    BY <1>4, <2>2 DEF Days
  <2>4. one[n - 1] = two[n - 1]
    <3>1. n - 1 \notin Bad
      <4> HIDE DEF Bad
      <4> QED BY <2>1, <2>3
    <3> QED BY <2>3, <3>1
  <2>5. /\ one[n] = NextBook(x, p, v, c, one[n - 1], n)
        /\ two[n] = NextBook(y, p, v, <<>>, one[n - 1], n)
    BY <2>3, <2>4, <2>a
  <2>6. NextBook(x, p, v, c, one[n - 1], n) = NextBook(y, p, v, <<>>, one[n - 1], n)
    <3>1. PICK book : book = one[n - 1]
      OBVIOUS
    <3>2. NextBook(x, p, v, c, book, n) = NextBook(y, p, v, <<>>, book, n)
      BY <1>11, <2>3
    <3> QED BY <3>1, <3>2
  <2> QED BY <2>3, <2>5, <2>6
<1>13. one[MaxDay] = two[MaxDay]
  <2> HIDE DEF one, two
  <2> QED BY <1>4, <1>12
<1> QED BY <1>13, RunIsTheLastBook

(* The books of one contribution are those of the purchase from its day    *)
(* on; before it they hold nothing.                                        *)
LEMMA OneIsALumpSum ==
  ASSUME GivenInv, PurchaseInv, PlanInv PROVE OnePurchaseIsALumpSum
<1> SUFFICES ASSUME aPhase = "done", dPhase = "done", Cardinality(purchases) = 1
             PROVE  /\ dShares = aShares /\ dCash = aCash
                    /\ dResult.native = aResult.native /\ dResult.sgd = aResult.sgd
  BY DEF OnePurchaseIsALumpSum
<1>1. /\ AreDatesOf(request, purchase, aValuation) /\ AreContributionsOf(input, purchases, dValuation)
      /\ PurchaseWalk /\ PlanWalk /\ aTimeline = {} /\ dTimeline = {}
      /\ RateForDate(input.market.rates, Min(purchases)) # 0
  BY DEF PurchaseInv, PlanInv, PurchaseDates
<1>2. purchases = {purchase} /\ dValuation = aValuation
  BY <1>1, TheOnePurchase
<1>3. /\ IsInput(input) /\ IsInput(request) /\ request.market = input.market
      /\ request = [input EXCEPT !.initial = input.initial + input.contribution]
  BY DEF GivenInv, IsInput
<1>4. /\ purchase \in Days /\ aValuation \in Days /\ IsPlan(ForOracle(request), Purchased, <<>>)
      /\ purchase <= aValuation /\ Min(purchases) = purchase
      /\ IsPlan(ForOracle(input), 0, PlanOf(input, purchases))
  <2>1. /\ purchase \in Days /\ aValuation \in Days /\ IsPlan(ForOracle(request), Purchased, <<>>)
    BY <1>1, <1>3, PurchaseIsPlanned DEF Purchased
  <2>2. purchase <= dValuation /\ Min(purchases) \in purchases
    BY <1>1, <1>2, <1>3, DatesOfAPlan
  <2>3. IsPlan(ForOracle(input), 0, PlanOf(input, purchases))
    BY <1>1, <1>3, ContributionsArePlanned
  <2> QED BY <1>2, <2>1, <2>2, <2>3
<1>5. PICK k \in 0 .. MaxDay :
        Stands(ForOracle(request), purchase, aValuation, Purchased, <<>>, k, aShares, aCash, aSettling, aTimeline)
  BY <1>1 DEF PurchaseWalk
<1>6. PICK n \in 0 .. MaxDay :
        Stands(ForOracle(input), Min(purchases), dValuation, 0, PlanOf(input, purchases), n,
               dShares, dCash, dSettling, dTimeline)
  BY <1>1 DEF PlanWalk
<1>7. /\ aShares = Run(ForOracle(request), purchase, aValuation, Purchased, <<>>).shares
      /\ aCash = Run(ForOracle(request), purchase, aValuation, Purchased, <<>>).cash
  BY <1>1, <1>4, <1>5, TheWalkIsOver
<1>8. /\ dShares = Run(ForOracle(input), purchase, aValuation, 0, PlanOf(input, purchases)).shares
      /\ dCash = Run(ForOracle(input), purchase, aValuation, 0, PlanOf(input, purchases)).cash
  BY <1>1, <1>2, <1>4, <1>6, TheWalkIsOver
<1>9. Run(ForOracle(input), purchase, aValuation, 0, PlanOf(input, purchases))
        = Run(ForOracle(request), purchase, aValuation, Purchased, <<>>)
  BY <1>2, <1>3, <1>4, TheSameBook DEF Purchased
<1> QED BY <1>2, <1>3, <1>7, <1>8, <1>9 DEF PurchaseInv, PlanInv

-------------------------------------------------------------------------------
(* The ledger of a portfolio                                               *)

Up(entries, date) == {entry \in entries : entry.day <= date}

(* What the runs are about, whatever has been booked.                      *)
BookedInv ==
  /\ IsLedger(ledger) /\ asOf \in Nat
  /\ market.close \in [Securities -> Nat] /\ market.rate \in [Currencies -> Nat]
  /\ pPhase \in {"book", "done", "failed"}
  /\ posted \subseteq Up(ledger, asOf)
  /\ quantity \in [Securities -> Nat]
  /\ basis \in [Securities -> Int] /\ realized \in [Securities -> Int]
  /\ money \in [Currencies -> Int]

(* Nothing is posted at the start.                                         *)
LEMMA BookedInit == Init => BookedInv
<1> SUFFICES ASSUME Init PROVE BookedInv
  OBVIOUS
<1>1. IsLedger({}) /\ NoDay \in Nat
  BY FS_EmptySet DEF IsLedger, NoDay
<1>2. P!Begin
  BY DEF Init
<1>3. /\ IsLedger(ledger) /\ asOf \in Nat
      /\ market.close \in [Securities -> Nat] /\ market.rate \in [Currencies -> Nat]
  <2>1. CASE job = "returns"
    <3>1. /\ ledger = {} /\ asOf = NoDay
          /\ market = [close |-> [s \in Securities |-> 0], rate |-> [c \in Currencies |-> 0]]
      BY <2>1 DEF Init
    <3> QED BY <1>1, <3>1
  <2>2. CASE job = "portfolio"
    <3>1. ledger \in Ledgers /\ asOf \in Dates /\ market \in Markets
      BY <2>2 DEF Init
    <3> QED BY <3>1, CalculationsAssumption
  <2> QED BY <2>1, <2>2 DEF Init
<1> QED BY <1>2, <1>3 DEF P!Begin, BookedInv

(* What a transaction changes: the next in order, that is not refused.     *)
LEMMA WhatIsPosted ==
  ASSUME BookedInv, P!Post, pPhase' # "failed"
  PROVE  \E entry \in Up(ledger, asOf) \ posted :
           /\ IsEntry(entry)
           /\ \A other \in Up(ledger, asOf) \ posted : P!Precedes(entry, other)
           /\ entry.type \in P!Trades => entry.currency = CurrencyOf[entry.security]
           /\ entry.type = "SELL" => entry.quantity <= quantity[entry.security]
           /\ posted' = posted \cup {entry}
           /\ \/ entry.type = "BUY" /\ P!Buy(entry)
              \/ entry.type = "SELL" /\ P!Sell(entry)
              \/ entry.type \notin {"BUY", "SELL"} /\ P!MoveCash(entry)
<1>1. PICK entry \in P!Due :
        /\ \A other \in P!Due : P!Precedes(entry, other)
        /\ IF P!Refused(entry) THEN P!Fail
           ELSE /\ posted' = posted \cup {entry}
                /\ CASE entry.type = "BUY"  -> P!Buy(entry)
                     [] entry.type = "SELL" -> P!Sell(entry)
                     [] OTHER               -> P!MoveCash(entry)
                /\ UNCHANGED pPhase
  BY DEF P!Post
<1>2. ~P!Refused(entry)
  BY <1>1 DEF P!Fail
<1>3. P!Due = Up(ledger, asOf) \ posted
  BY DEF P!Due, Up
<1>4. IsEntry(entry)
  BY <1>3 DEF BookedInv, IsLedger, Up
<1>5. /\ entry.type \in P!Trades => entry.currency = CurrencyOf[entry.security]
      /\ entry.type = "SELL" => entry.quantity <= quantity[entry.security]
  <2>1. entry.quantity \in Int /\ quantity[entry.security] \in Int
    BY <1>4 DEF IsEntry, BookedInv
  <2> QED BY <1>2, <2>1 DEF P!Refused
<1>6. \/ entry.type = "BUY" /\ P!Buy(entry)
      \/ entry.type = "SELL" /\ P!Sell(entry)
      \/ entry.type \notin {"BUY", "SELL"} /\ P!MoveCash(entry)
  BY <1>1, <1>2
<1> QED BY <1>1, <1>2, <1>3, <1>4, <1>5, <1>6

(* Posting takes the transactions in their order and keeps amounts         *)
(* numbers.                                                                *)
LEMMA BookedStep ==
  ASSUME BookedInv, P!Next PROVE BookedInv'
<1>1. CASE P!Post /\ pPhase' # "failed"
  <2>1. PICK entry \in Up(ledger, asOf) \ posted :
          /\ IsEntry(entry)
          /\ entry.type = "SELL" => entry.quantity <= quantity[entry.security]
          /\ posted' = posted \cup {entry}
          /\ \/ entry.type = "BUY" /\ P!Buy(entry)
             \/ entry.type = "SELL" /\ P!Sell(entry)
             \/ entry.type \notin {"BUY", "SELL"} /\ P!MoveCash(entry)
    BY <1>1, WhatIsPosted
  <2>2. UNCHANGED <<ledger, market, asOf>> /\ pPhase' = pPhase
    BY <1>1 DEF P!Post, P!Fail
  <2>3. /\ entry.security \in Securities /\ entry.currency \in Currencies
        /\ entry.cash \in Int /\ entry.fees \in Int /\ entry.quantity \in Nat
        /\ entry.type \in {"BUY", "SELL", "DIVIDEND", "CASH_DEPOSIT", "CASH_WITHDRAWAL"}
    BY <2>1 DEF IsEntry
  <2>4. /\ quantity' \in [Securities -> Nat] /\ basis' \in [Securities -> Int]
        /\ realized' \in [Securities -> Int] /\ money' \in [Currencies -> Int]
    <3>1. CASE entry.type = "BUY" /\ P!Buy(entry)
      BY <2>3, <3>1 DEF BookedInv, P!Buy, P!Pay
    <3>2. CASE entry.type = "SELL" /\ P!Sell(entry)
      <4>1. P!DisposedCost(entry) \in Int
        <5>1. basis[entry.security] \in Int /\ quantity[entry.security] \in Nat
          BY <2>3 DEF BookedInv
        <5>2. basis[entry.security] * entry.quantity \in Int
          BY <2>3, <5>1
        <5> QED BY <5>1, <5>2 DEF P!DisposedCost
      <4>2. quantity[entry.security] - entry.quantity \in Nat
        BY <2>1, <2>3, <3>2 DEF BookedInv
      <4> QED BY <2>3, <3>2, <4>1, <4>2 DEF BookedInv, P!Sell, P!Pay
    <3>3. CASE entry.type \notin {"BUY", "SELL"} /\ P!MoveCash(entry)
      BY <2>3, <3>3 DEF BookedInv, P!MoveCash, P!Pay
    <3> QED BY <2>1, <3>1, <3>2, <3>3
  <2>5. posted' \subseteq Up(ledger, asOf)
    BY <2>1 DEF BookedInv
  <2> QED BY <2>2, <2>4, <2>5 DEF BookedInv
<1>2. CASE P!Post /\ pPhase' = "failed"
  <2>1. UNCHANGED <<ledger, market, asOf, posted, quantity, basis, realized, money>>
    BY <1>2 DEF P!Post, P!Fail
  <2> QED BY <1>2, <2>1 DEF BookedInv
<1>3. CASE P!Value
  BY <1>3 DEF P!Value, BookedInv
<1> QED BY <1>1, <1>2, <1>3 DEF P!Next

(* Named where lemmas with sums in them are cited.                         *)
Plus(n, m) == n + m

(* A sum over the transactions of a type with one transaction more, and a  *)
(* sum in which one term has changed.                                      *)
OfType(entries, type, c) == {entry \in entries : entry.type = type /\ entry.currency = c}

AgreeOn(f, g, S) == \A x \in S : f[x] \in Int /\ g[x] = f[x]

(* A transaction adds its term to the sum of its type and currency and to  *)
(* no other.                                                               *)
LEMMA OneMoreTransaction ==
  ASSUME NEW S, IsFiniteSet(S), NEW e, e \notin S, NEW f, NEW g, NEW type, NEW c,
         AgreeOn(f, g, S), g[e] \in Int
  PROVE  /\ SumFunctionOnSet(f, OfType(S, type, c)) \in Int
         /\ e.type = type /\ e.currency = c =>
              SumFunctionOnSet(g, OfType(S \cup {e}, type, c)) = Plus(SumFunctionOnSet(f, OfType(S, type, c)), g[e])
         /\ ~(e.type = type /\ e.currency = c) =>
              SumFunctionOnSet(g, OfType(S \cup {e}, type, c)) = SumFunctionOnSet(f, OfType(S, type, c))
<1> DEFINE T == OfType(S, type, c)
<1>1. IsFiniteSet(T) /\ T \subseteq S
  BY FS_Subset DEF OfType
<1>2. \A entry \in T : f[entry] \in Int /\ f[entry] = g[entry] /\ g[entry] \in Int
  BY <1>1 DEF AgreeOn
<1> HIDE DEF T
<1>3. SumFunctionOnSet(f, T) \in Int /\ SumFunctionOnSet(f, T) = SumFunctionOnSet(g, T)
  BY <1>1, <1>2, SumsAgree
<1>4. CASE e.type = type /\ e.currency = c
  <2>1. OfType(S \cup {e}, type, c) = T \cup {e} /\ e \notin T
    BY <1>4 DEF OfType, T
  <2>2. SumFunctionOnSet(g, T \cup {e}) = g[e] + SumFunctionOnSet(g, T)
    BY <1>1, <1>2, <2>1, SumWith
  <2>3. SumFunctionOnSet(g, OfType(S \cup {e}, type, c)) = Plus(SumFunctionOnSet(f, T), g[e])
    <3>1. g[e] \in Int
      OBVIOUS
    <3>2. SumFunctionOnSet(g, OfType(S \cup {e}, type, c)) = g[e] + SumFunctionOnSet(f, T)
      BY <1>3, <2>1, <2>2
    <3>3. PICK n \in Int, m \in Int : n = SumFunctionOnSet(f, T) /\ m = g[e]
      BY <1>3, <3>1
    <3>4. m + n = n + m
      OBVIOUS
    <3> QED BY <3>2, <3>3, <3>4 DEF Plus
  <2> QED BY <1>3, <1>4, <2>3 DEF T
<1>5. CASE ~(e.type = type /\ e.currency = c)
  <2>1. OfType(S \cup {e}, type, c) = T
    BY <1>5 DEF OfType, T
  <2> QED BY <1>3, <1>5, <2>1 DEF T
<1> QED BY <1>4, <1>5

(* A sum of which one term changed.                                        *)
LEMMA OneTermChanged ==
  ASSUME NEW T, IsFiniteSet(T), NEW s, NEW f, NEW g,
         \A x \in T : f[x] \in Int /\ g[x] \in Int /\ (x # s => g[x] = f[x])
  PROVE  /\ SumFunctionOnSet(f, T) \in Int
         /\ s \in T => SumFunctionOnSet(g, T) = SumFunctionOnSet(f, T) + (g[s] - f[s])
         /\ s \notin T => SumFunctionOnSet(g, T) = SumFunctionOnSet(f, T)
<1>1. SumFunctionOnSet(f, T) \in Int
  BY SumIsAnInteger
<1>2. CASE s \in T
  <2>1. IsFiniteSet(T \ {s})
    BY FS_RemoveElement
  <2>2. /\ SumFunctionOnSet(f, T) = f[s] + SumFunctionOnSet(f, T \ {s})
        /\ SumFunctionOnSet(g, T) = g[s] + SumFunctionOnSet(g, T \ {s})
    BY <1>2, SumWithout
  <2>3. \A x \in T \ {s} : f[x] \in Int /\ f[x] = g[x]
    OBVIOUS
  <2>4. SumFunctionOnSet(f, T \ {s}) \in Int /\ SumFunctionOnSet(f, T \ {s}) = SumFunctionOnSet(g, T \ {s})
    BY <2>1, <2>3, SumsAgree
  <2>5. f[s] \in Int /\ g[s] \in Int
    BY <1>2
  <2> QED BY <1>2, <2>2, <2>4, <2>5
<1>3. CASE s \notin T
  <2>1. \A x \in T : f[x] \in Int /\ f[x] = g[x]
    BY <1>3
  <2>2. SumFunctionOnSet(f, T) = SumFunctionOnSet(g, T)
    BY <2>1, SumsAgree
  <2> QED BY <1>1, <1>3, <2>2
<1> QED BY <1>1, <1>2, <1>3

(* The ledger's sums are the sums of the lemmas.                           *)
LEMMA LedgerSums ==
  /\ \A f, S : P!SumFunctionOnSet(f, S) = SumFunctionOnSet(f, S)
  /\ \A f : P!SumFunction(f) = SumFunctionOnSet(f, DOMAIN f)
<1>1. \A f, S : P!SumFunctionOnSet(f, S) = SumFunctionOnSet(f, S)
  BY DEF P!SumFunctionOnSet, P!FoldFunctionOnSet, P!MapThenFoldSet,
         SumFunctionOnSet, FoldFunctionOnSet, MapThenFoldSet
<1>2. \A f : P!SumFunction(f) = P!SumFunctionOnSet(f, DOMAIN f)
  BY DEF P!SumFunction
<1> QED BY <1>1, <1>2

CashOf(entries) == [entry \in entries |-> entry.cash]
NetOf(entries)  == [entry \in entries |-> entry.cash - entry.fees]
GainsOf(gained, cost) == [s \in Securities |-> gained[s] - cost[s]]
TradedIn(c)     == {s \in Securities : CurrencyOf[s] = c}

Cash(entries, type, c) == SumFunctionOnSet(CashOf(entries), OfType(entries, type, c))
Net(entries, type, c)  == SumFunctionOnSet(NetOf(entries), OfType(entries, type, c))
Gains(gained, cost, c) == SumFunctionOnSet(GainsOf(gained, cost), TradedIn(c))

NetCash(entry)  == entry.cash - entry.fees

Priced(entries) == \A entry \in entries : entry.cash \in Int /\ entry.cash - entry.fees \in Int

(* The gains less the costs have changed by what one sale or purchase adds. *)
Moved(gained, cost, gainedAfter, costAfter, s, more) ==
  /\ s \in Securities /\ more \in Int /\ {gained, cost, gainedAfter, costAfter} \subseteq [Securities -> Int]
  /\ \A x \in Securities : gainedAfter[x] - costAfter[x] = gained[x] - cost[x] + (IF x = s THEN more ELSE 0)

(* What a currency should hold, from what was booked and from the holdings. *)
Due(entries, gained, cost, c) ==
  Cash(entries, "CASH_DEPOSIT", c) - Cash(entries, "CASH_WITHDRAWAL", c)
    + Net(entries, "DIVIDEND", c) + Gains(gained, cost, c)

(* Conservation in terms of what is due.                                   *)
LEMMA WhatIsConserved ==
  P!MoneyIsConserved <=> \A c \in Currencies : money[c] = Due(posted, realized, basis, c)
BY LedgerSums DEF P!MoneyIsConserved, P!Booked, Due, Cash, Net, Gains, CashOf, NetOf, GainsOf, TradedIn, OfType

(* The cash of one more transaction,                                       *)
LEMMA CashAfter ==
  ASSUME NEW entries, IsFiniteSet(entries), NEW e, e \notin entries, NEW type, NEW c,
         Priced(entries \cup {e})
  PROVE  /\ Cash(entries, type, c) \in Int
         /\ e.type = type /\ e.currency = c =>
              Cash(entries \cup {e}, type, c)
                = Plus(Cash(entries, type, c), e.cash)
         /\ ~(e.type = type /\ e.currency = c) =>
              Cash(entries \cup {e}, type, c)
                = Cash(entries, type, c)
<1> DEFINE f == CashOf(entries)
           g == CashOf(entries \cup {e})
<1>1. AgreeOn(f, g, entries)
  BY DEF CashOf, Priced, AgreeOn
<1>2. g[e] \in Int
  BY DEF CashOf, Priced
<1>4. g[e] = e.cash
  BY DEF CashOf
<1>5. IsFiniteSet(entries) /\ e \notin entries
  OBVIOUS
<1> HIDE DEF f, g
<1>3. /\ SumFunctionOnSet(f, OfType(entries, type, c)) \in Int
      /\ e.type = type /\ e.currency = c =>
           SumFunctionOnSet(g, OfType(entries \cup {e}, type, c)) = Plus(SumFunctionOnSet(f, OfType(entries, type, c)), g[e])
      /\ ~(e.type = type /\ e.currency = c) =>
           SumFunctionOnSet(g, OfType(entries \cup {e}, type, c)) = SumFunctionOnSet(f, OfType(entries, type, c))
  BY ONLY <1>1, <1>2, <1>5, OneMoreTransaction
<1> QED BY <1>3, <1>4 DEF f, g, Cash

(* what it leaves after fees,                                              *)
LEMMA NetAfter ==
  ASSUME NEW entries, IsFiniteSet(entries), NEW e, e \notin entries, NEW type, NEW c,
         Priced(entries \cup {e})
  PROVE  /\ Net(entries, type, c) \in Int
         /\ e.type = type /\ e.currency = c =>
              Net(entries \cup {e}, type, c)
                = Plus(Net(entries, type, c), NetCash(e))
         /\ ~(e.type = type /\ e.currency = c) =>
              Net(entries \cup {e}, type, c)
                = Net(entries, type, c)
<1> DEFINE f == NetOf(entries)
           g == NetOf(entries \cup {e})
<1>1. AgreeOn(f, g, entries)
  BY DEF NetOf, Priced, AgreeOn
<1>2. g[e] \in Int
  BY DEF NetOf, Priced
<1>4. g[e] = NetCash(e)
  BY DEF NetOf, NetCash
<1>5. IsFiniteSet(entries) /\ e \notin entries
  OBVIOUS
<1> HIDE DEF f, g
<1>3. /\ SumFunctionOnSet(f, OfType(entries, type, c)) \in Int
      /\ e.type = type /\ e.currency = c =>
           SumFunctionOnSet(g, OfType(entries \cup {e}, type, c)) = Plus(SumFunctionOnSet(f, OfType(entries, type, c)), g[e])
      /\ ~(e.type = type /\ e.currency = c) =>
           SumFunctionOnSet(g, OfType(entries \cup {e}, type, c)) = SumFunctionOnSet(f, OfType(entries, type, c))
  BY ONLY <1>1, <1>2, <1>5, OneMoreTransaction
<1> QED BY <1>3, <1>4 DEF f, g, Net

(* and the gains less the cost after one security moved.                   *)
LEMMA GainsAfter ==
  ASSUME NEW s, NEW c, NEW gained, NEW cost, NEW more, NEW gainedAfter, NEW costAfter,
         IsFiniteSet(TradedIn(c)), Moved(gained, cost, gainedAfter, costAfter, s, more)
  PROVE  /\ Gains(gained, cost, c) \in Int
         /\ CurrencyOf[s] = c => Gains(gainedAfter, costAfter, c)
                                   = Plus(Gains(gained, cost, c), more)
         /\ CurrencyOf[s] # c => Gains(gainedAfter, costAfter, c)
                                   = Gains(gained, cost, c)
<1> DEFINE f == GainsOf(gained, cost)
           g == GainsOf(gainedAfter, costAfter)
           T == TradedIn(c)
<1> HIDE DEF f, g, T
<1>1. \A x \in T : f[x] \in Int /\ g[x] \in Int /\ (x # s => g[x] = f[x])
  BY DEF f, g, T, GainsOf, TradedIn, Moved
<1>2. g[s] - f[s] = more
  <2>1. /\ g[s] = gainedAfter[s] - costAfter[s] /\ f[s] = gained[s] - cost[s]
        /\ gained[s] \in Int /\ cost[s] \in Int
    BY DEF f, g, GainsOf, Moved
  <2>2. gainedAfter[s] - costAfter[s] = gained[s] - cost[s] + more
    BY DEF Moved
  <2>3. more \in Int
    BY DEF Moved
  <2> QED BY <2>1, <2>2, <2>3
<1>3. s \in T <=> CurrencyOf[s] = c
  BY DEF T, TradedIn, Moved
<1>4. IsFiniteSet(T)
  BY DEF T
<1>5. SumFunctionOnSet(f, T) \in Int
  BY ONLY <1>1, <1>4, OneTermChanged
<1>7. s \in T => SumFunctionOnSet(g, T) = SumFunctionOnSet(f, T) + (g[s] - f[s])
  BY ONLY <1>1, <1>4, OneTermChanged
<1>8. s \notin T => SumFunctionOnSet(g, T) = SumFunctionOnSet(f, T)
  BY ONLY <1>1, <1>4, OneTermChanged
<1>6. /\ CurrencyOf[s] = c => SumFunctionOnSet(g, T) = Plus(SumFunctionOnSet(f, T), more)
      /\ CurrencyOf[s] # c => SumFunctionOnSet(g, T) = SumFunctionOnSet(f, T)
  BY <1>2, <1>3, <1>5, <1>7, <1>8 DEF Moved, Plus
<1> QED BY <1>5, <1>6 DEF f, g, T, Gains

(* One transaction moves what its currency should hold by what it pays.    *)
LEMMA DueAfter ==
  ASSUME NEW entries, IsFiniteSet(entries), \A entry \in entries : IsEntry(entry),
         NEW e, IsEntry(e), e \notin entries,
         e.type \in {"BUY", "SELL"} => e.currency = CurrencyOf[e.security],
         NEW gained, NEW cost, NEW gainedAfter, NEW costAfter, NEW more,
         Moved(gained, cost, gainedAfter, costAfter, e.security, more),
         more = IF e.type \in {"BUY", "SELL"} THEN O!Signed(e) ELSE 0,
         NEW c \in Currencies
  PROVE  /\ Due(entries, gained, cost, c) \in Int
         /\ e.currency = c => Due(entries \cup {e}, gainedAfter, costAfter, c)
                                = Plus(Due(entries, gained, cost, c), O!Signed(e))
         /\ e.currency # c => Due(entries \cup {e}, gainedAfter, costAfter, c) = Due(entries, gained, cost, c)
<1> DEFINE in    == Cash(entries, "CASH_DEPOSIT", c)
           out   == Cash(entries, "CASH_WITHDRAWAL", c)
           net   == Net(entries, "DIVIDEND", c)
           gain  == Gains(gained, cost, c)
           in2   == Cash(entries \cup {e}, "CASH_DEPOSIT", c)
           out2  == Cash(entries \cup {e}, "CASH_WITHDRAWAL", c)
           net2  == Net(entries \cup {e}, "DIVIDEND", c)
           gain2 == Gains(gainedAfter, costAfter, c)
<1>1. Priced(entries \cup {e}) /\ IsFiniteSet(entries) /\ e \notin entries
  BY DEF IsEntry, Priced
<1>2. ASSUME NEW type
      PROVE  /\ Cash(entries, type, c) \in Int
             /\ e.type = type /\ e.currency = c =>
                  Cash(entries \cup {e}, type, c) = Plus(Cash(entries, type, c), e.cash)
             /\ ~(e.type = type /\ e.currency = c) => Cash(entries \cup {e}, type, c) = Cash(entries, type, c)
  BY ONLY <1>1, CashAfter
<1>3. ASSUME NEW type
      PROVE  /\ Net(entries, type, c) \in Int
             /\ e.type = type /\ e.currency = c =>
                  Net(entries \cup {e}, type, c) = Plus(Net(entries, type, c), NetCash(e))
             /\ ~(e.type = type /\ e.currency = c) => Net(entries \cup {e}, type, c) = Net(entries, type, c)
  BY ONLY <1>1, NetAfter
<1>4. IsFiniteSet(TradedIn(c))
  BY CalculationsAssumption, FS_Subset DEF TradedIn
<1>5. /\ gain \in Int
      /\ CurrencyOf[e.security] = c => gain2 = Plus(gain, more)
      /\ CurrencyOf[e.security] # c => gain2 = gain
  <2> DEFINE s == e.security
  <2>1. Moved(gained, cost, gainedAfter, costAfter, s, more)
    OBVIOUS
  <2> HIDE DEF s
  <2>2. /\ Gains(gained, cost, c) \in Int
        /\ CurrencyOf[s] = c => Gains(gainedAfter, costAfter, c) = Plus(Gains(gained, cost, c), more)
        /\ CurrencyOf[s] # c => Gains(gainedAfter, costAfter, c) = Gains(gained, cost, c)
    BY ONLY <1>4, <2>1, GainsAfter
  <2> QED BY <2>2 DEF s
<1>6. /\ in \in Int /\ out \in Int /\ net \in Int
      /\ e.cash \in Int /\ e.fees \in Int
      /\ e.type \in {"BUY", "SELL", "DIVIDEND", "CASH_DEPOSIT", "CASH_WITHDRAWAL"}
  BY <1>2, <1>3 DEF IsEntry
<1>7. more = IF e.type \in {"BUY", "SELL"} THEN O!Signed(e) ELSE 0
  OBVIOUS
<1>8. e.type \in {"BUY", "SELL"} => e.currency = CurrencyOf[e.security]
  OBVIOUS
<1>9. /\ e.type = "CASH_DEPOSIT" /\ e.currency = c => in2 = Plus(in, e.cash)
      /\ ~(e.type = "CASH_DEPOSIT" /\ e.currency = c) => in2 = in
  BY ONLY <1>2
<1>10. /\ e.type = "CASH_WITHDRAWAL" /\ e.currency = c => out2 = Plus(out, e.cash)
       /\ ~(e.type = "CASH_WITHDRAWAL" /\ e.currency = c) => out2 = out
  BY ONLY <1>2
<1>11. /\ e.type = "DIVIDEND" /\ e.currency = c => net2 = Plus(net, NetCash(e))
       /\ ~(e.type = "DIVIDEND" /\ e.currency = c) => net2 = net
  BY ONLY <1>3
<1>12. /\ Due(entries, gained, cost, c) = in - out + net + gain
       /\ Due(entries \cup {e}, gainedAfter, costAfter, c) = in2 - out2 + net2 + gain2
  BY DEF Due
<1> HIDE DEF in, out, net, gain, in2, out2, net2, gain2
<1>13. Due(entries, gained, cost, c) \in Int
  BY ONLY <1>5, <1>6, <1>12
<1>14. CASE e.currency # c
  <2>1. gain2 = gain
    BY ONLY <1>5, <1>6, <1>7, <1>8, <1>14 DEF Plus
  <2>2. in2 = in /\ out2 = out /\ net2 = net
    BY ONLY <1>9, <1>10, <1>11, <1>14
  <2> QED BY ONLY <1>12, <1>13, <1>14, <2>1, <2>2
<1>15. CASE e.currency = c /\ e.type \in {"BUY", "SELL"}
  <2>1. in2 = in /\ out2 = out /\ net2 = net
    BY ONLY <1>9, <1>10, <1>11, <1>15
  <2>2. gain2 = gain + O!Signed(e) /\ O!Signed(e) \in Int
    BY ONLY <1>5, <1>6, <1>7, <1>8, <1>15 DEF Plus, O!Signed
  <2> QED BY ONLY <1>5, <1>6, <1>12, <1>13, <1>15, <2>1, <2>2 DEF Plus
<1>16. CASE e.currency = c /\ e.type \notin {"BUY", "SELL"}
  <2>1. gain2 = gain
    BY ONLY <1>5, <1>7, <1>16 DEF Plus
  <2>2. CASE e.type = "DIVIDEND"
    <3>1. in2 = in /\ out2 = out /\ net2 = net + (e.cash - e.fees)
      BY ONLY <1>9, <1>10, <1>11, <1>16, <2>2 DEF Plus, NetCash
    <3>2. O!Signed(e) = e.cash - e.fees
      BY <2>2 DEF O!Signed
    <3> QED BY ONLY <1>5, <1>6, <1>12, <1>13, <1>16, <2>1, <3>1, <3>2 DEF Plus
  <2>3. CASE e.type = "CASH_DEPOSIT"
    <3>1. in2 = in + e.cash /\ out2 = out /\ net2 = net
      BY ONLY <1>9, <1>10, <1>11, <1>16, <2>3 DEF Plus
    <3>2. O!Signed(e) = e.cash
      BY <2>3 DEF O!Signed
    <3> QED BY ONLY <1>5, <1>6, <1>12, <1>13, <1>16, <2>1, <3>1, <3>2 DEF Plus
  <2>4. CASE e.type = "CASH_WITHDRAWAL"
    <3>1. in2 = in /\ out2 = out + e.cash /\ net2 = net
      BY ONLY <1>9, <1>10, <1>11, <1>16, <2>4 DEF Plus
    <3>2. O!Signed(e) = 0 - e.cash
      BY <2>4 DEF O!Signed
    <3> QED BY ONLY <1>5, <1>6, <1>12, <1>13, <1>16, <2>1, <3>1, <3>2 DEF Plus
  <2> QED BY <1>6, <1>16, <2>2, <2>3, <2>4
<1> QED BY <1>13, <1>14, <1>15, <1>16

(* No transaction moves money that the books do not explain.               *)
LEMMA MoneyIsBooked ==
  ASSUME BookedInv, P!MoneyIsConserved, P!Next PROVE P!MoneyIsConserved'
<1>1. CASE P!Post /\ pPhase' # "failed"
  <2>1. PICK e \in Up(ledger, asOf) \ posted :
          /\ IsEntry(e)
          /\ e.type \in P!Trades => e.currency = CurrencyOf[e.security]
          /\ posted' = posted \cup {e}
          /\ \/ e.type = "BUY" /\ P!Buy(e)
             \/ e.type = "SELL" /\ P!Sell(e)
             \/ e.type \notin {"BUY", "SELL"} /\ P!MoveCash(e)
    BY <1>1, WhatIsPosted
  <2>2. /\ IsFiniteSet(posted) /\ \A entry \in posted : IsEntry(entry)
    BY FS_Subset DEF BookedInv, IsLedger, Up
  <2>3. /\ e.security \in Securities /\ e.currency \in Currencies /\ e \notin posted
        /\ e.cash \in Int /\ e.fees \in Int
        /\ e.type \in {"BUY", "SELL", "DIVIDEND", "CASH_DEPOSIT", "CASH_WITHDRAWAL"}
    BY <2>1 DEF IsEntry
  <2>4. BookedInv'
    BY <1>1, BookedStep DEF P!Next
  <2>5. /\ realized \in [Securities -> Int] /\ basis \in [Securities -> Int] /\ money \in [Currencies -> Int]
        /\ realized' \in [Securities -> Int] /\ basis' \in [Securities -> Int]
    BY <2>4 DEF BookedInv
  <2> DEFINE paid == O!Signed(e)
             more == IF e.type \in {"BUY", "SELL"} THEN O!Signed(e) ELSE 0
  <2>6. paid \in Int /\ more \in Int
    BY <2>3 DEF O!Signed
  <2>7. money' = [money EXCEPT ![e.currency] = @ + paid]
    <3>0. money[e.currency] \in Int
      BY <2>3, <2>5
    <3>1. CASE e.type = "BUY"
      <4>1. 0 - (e.cash + e.fees) = paid
        BY <2>3, <3>1 DEF O!Signed
      <4> QED BY <2>1, <3>1, <4>1 DEF P!Buy, P!Pay
    <3>2. CASE e.type = "SELL"
      BY <2>1, <3>2 DEF P!Sell, P!Pay, O!Signed
    <3>3. CASE e.type = "DIVIDEND"
      BY <2>1, <3>3 DEF P!MoveCash, P!Pay, O!Signed
    <3>4. CASE e.type = "CASH_DEPOSIT"
      BY <2>1, <3>4 DEF P!MoveCash, P!Pay, O!Signed
    <3>5. CASE e.type = "CASH_WITHDRAWAL"
      BY <2>1, <3>5 DEF P!MoveCash, P!Pay, O!Signed
    <3> QED BY <2>3, <3>1, <3>2, <3>3, <3>4, <3>5
  <2>8. ASSUME NEW s \in Securities
        PROVE  realized'[s] - basis'[s] = realized[s] - basis[s] + (IF s = e.security THEN more ELSE 0)
    <3>1. realized[s] \in Int /\ basis[s] \in Int
      BY <2>5
    <3>2. CASE e.type = "BUY"
      <4>1. realized'[s] = realized[s]
            /\ basis'[s] = IF s = e.security THEN basis[s] + e.cash + e.fees ELSE basis[s]
        BY <2>1, <2>5, <3>2 DEF P!Buy
      <4>2. more = 0 - e.cash - e.fees
        BY <3>2 DEF O!Signed
      <4> QED BY <2>3, <3>1, <4>1, <4>2
    <3>3. CASE e.type = "SELL"
      <4> DEFINE cost == P!DisposedCost(e)
      <4>1. cost \in Int
        <5>1. basis[e.security] \in Int /\ quantity[e.security] \in Nat /\ e.quantity \in Int
          BY <2>1, <2>3 DEF BookedInv, IsEntry
        <5>2. basis[e.security] * e.quantity \in Int
          BY <5>1
        <5> QED BY <5>1, <5>2 DEF P!DisposedCost
      <4> HIDE DEF cost
      <4>2. /\ realized'[s] = IF s = e.security THEN realized[s] + (e.cash - e.fees - cost) ELSE realized[s]
            /\ basis'[s] = IF s = e.security THEN basis[s] - cost ELSE basis[s]
        BY <2>1, <2>5, <3>3 DEF P!Sell, cost
      <4>3. more = e.cash - e.fees
        BY <3>3 DEF O!Signed
      <4> QED BY <2>3, <3>1, <4>1, <4>2, <4>3
    <3>4. CASE e.type \notin {"BUY", "SELL"}
      <4>1. realized' = realized /\ basis' = basis /\ more = 0
        BY <2>1, <3>4 DEF P!MoveCash
      <4> QED BY <3>1, <4>1
    <3> QED BY <3>2, <3>3, <3>4
  <2>9. Moved(realized, basis, realized', basis', e.security, more)
    BY <2>3, <2>5, <2>6, <2>8 DEF Moved
  <2>10. e.type \in {"BUY", "SELL"} => e.currency = CurrencyOf[e.security]
    BY <2>1 DEF P!Trades
  <2>11. IsEntry(e) /\ posted' = posted \cup {e}
    BY <2>1
  <2>12. ASSUME NEW c \in Currencies PROVE money'[c] = Due(posted', realized', basis', c)
    <3>1. money[c] = Due(posted, realized, basis, c) /\ money[c] \in Int
      BY <2>5, WhatIsConserved
    <3>2. more = IF e.type \in {"BUY", "SELL"} THEN O!Signed(e) ELSE 0
      OBVIOUS
    <3> HIDE DEF more, paid
    <3>3. /\ e.currency = c => Due(posted \cup {e}, realized', basis', c)
                                = Plus(Due(posted, realized, basis, c), O!Signed(e))
          /\ e.currency # c => Due(posted \cup {e}, realized', basis', c) = Due(posted, realized, basis, c)
      BY <2>2, <2>3, <2>9, <2>10, <2>11, <3>2, DueAfter
    <3>4. money'[c] = IF e.currency = c THEN money[c] + paid ELSE money[c]
      BY <2>5, <2>6, <2>7, <3>1
    <3> QED BY <2>11, <3>1, <3>3, <3>4 DEF Plus, paid
  <2> QED BY <2>12, LedgerSums
        DEF P!MoneyIsConserved, P!Booked, Due, Cash, Net, Gains, CashOf, NetOf, GainsOf, TradedIn, OfType
<1>2. CASE (P!Post /\ pPhase' = "failed") \/ P!Value
  <2>1. UNCHANGED <<posted, realized, basis, money>>
    BY <1>2 DEF P!Post, P!Fail, P!Value
  <2> QED BY <2>1 DEF P!MoneyIsConserved, P!Booked
<1> QED BY <1>1, <1>2 DEF P!Next

-------------------------------------------------------------------------------
(* The oracle folds a ledger from its last transaction back                *)

FoldOf(fold, collection) ==
  [entries \in collection |->
     IF entries = {} THEN O!EmptyBook
     ELSE O!BookAfter(fold[entries \ {O!Latest(entries)}], O!Latest(entries))]

Fold(entries) == CHOOSE fold : fold = FoldOf(fold, SUBSET entries)

(* What the oracle expects is its fold of the transactions that are due.   *)
LEMMA ExpectedIsAFold ==
  ASSUME NEW entries, NEW date, NEW m
  PROVE  LET due  == Up(entries, date)
             book == Fold(due)[due]
         IN  O!PortfolioExpected(entries, date, m)
               = [quantity |-> book.quantity, basis |-> book.basis, realized |-> book.realized, cash |-> book.cash,
                  total |-> O!SumFunction([s \in Securities |-> book.quantity[s] * m.close[s] * m.rate[CurrencyOf[s]]])
                              + O!SumFunction([c \in Currencies |-> book.cash[c] * m.rate[c]])]
BY DEF O!PortfolioExpected, O!MapThenFoldSet, Fold, FoldOf, Up

(* A finite set of numbers has a greatest.                                 *)
LEMMA GreatestOf ==
  ASSUME NEW T \in SUBSET Nat, IsFiniteSet(T), T # {}
  PROVE  \E x \in T : \A y \in T : y <= x
<1> DEFINE above == {n \in Nat : \A y \in T : y <= n}
           Bad   == {n \in Nat : \E s \in SUBSET T : Cardinality(s) = n /\ ~ \E k \in Nat : \A y \in s : y <= k}
<1>1. Bad = {}
  <2> SUFFICES ASSUME Bad # {} PROVE FALSE
    OBVIOUS
  <2>1. PICK n \in Bad : \A m \in Bad : n <= m
    BY LeastOf
  <2>2. PICK s \in SUBSET T : Cardinality(s) = n /\ ~ \E k \in Nat : \A y \in s : y <= k
    OBVIOUS
  <2>3. PICK z \in s : TRUE
    BY <2>2
  <2>4. IsFiniteSet(s) /\ Cardinality(s) \in Nat
    BY FS_Subset, FS_CardinalityType
  <2>5. /\ IsFiniteSet(s \ {z}) /\ Cardinality(s \ {z}) = n - 1
        /\ Cardinality(s \ {z}) \in Nat /\ n \in Nat
    BY <2>2, <2>3, <2>4, FS_RemoveElement, FS_CardinalityType
  <2>6. s \ {z} \in SUBSET T /\ ~ (n <= n - 1)
    BY <2>5
  <2>10. n - 1 \notin Bad
    <3> HIDE DEF Bad
    <3> QED BY <2>1, <2>6
  <2>7. PICK k \in Nat : \A y \in s \ {z} : y <= k
    BY <2>5, <2>6, <2>10
  <2>8. z \in Nat /\ s \subseteq Nat
    OBVIOUS
  <2>9. \E j \in Nat : \A y \in s : y <= j
    <3>1. CASE z <= k
      BY <2>7, <2>8, <3>1
    <3>2. CASE ~(z <= k)
      <4>1. \A y \in s : y <= z
        BY <2>7, <2>8, <3>2
      <4> QED BY <2>8, <4>1
    <3> QED BY <3>1, <3>2
  <2> QED BY <2>2, <2>9
<1>2. above # {}
  <2>1. Cardinality(T) \in Nat
    BY FS_CardinalityType
  <2> QED BY <1>1, <2>1
<1>3. PICK n \in above : \A m \in above : n <= m
  <2> above \in SUBSET Nat
    OBVIOUS
  <2> HIDE DEF above
  <2> QED BY <1>2, LeastOf
<1>4. n \in T
  <2> SUFFICES ASSUME n \notin T PROVE FALSE
    OBVIOUS
  <2>1. PICK y \in T : TRUE
    OBVIOUS
  <2>2. n \in Nat /\ y \in Nat /\ y <= n /\ y # n
    BY <2>1
  <2>3. n - 1 \in Nat
    BY <2>2
  <2>4. n - 1 \in above
    BY <2>3
  <2>5. n <= n - 1
    BY <1>3, <2>4
  <2> QED BY <2>2, <2>5
<1> QED BY <1>4

(* A function has finitely many values on a finite set.                    *)
LEMMA ValuesAreFinite ==
  ASSUME NEW S, IsFiniteSet(S), NEW f
  PROVE  IsFiniteSet({f[x] : x \in S})
<1> DEFINE T == {f[x] : x \in S}
           g == [x \in S |-> f[x]]
<1>1. g \in Surjection(S, T)
  BY DEF Surjection
<1> HIDE DEF T, g
<1>2. IsFiniteSet(T)
  BY <1>1, FS_Surjection
<1> QED BY <1>2 DEF T

(* A ledger that is not empty has one transaction that comes last: the     *)
(* last identifier of the last day.                                        *)
LEMMA LatestIsLast ==
  ASSUME NEW S, IsLedger(S), S # {}
  PROVE  O!Latest(S) \in S /\ \A other \in S : other = O!Latest(S) \/ O!InOrder(other, O!Latest(S))
<1>1. PICK last \in S : \A other \in S : other.day <= last.day
  <2> DEFINE days == {entry.day : entry \in S}
  <2>1. IsFiniteSet(days)
    <3> DEFINE f == [entry \in S |-> entry.day]
    <3>1. IsFiniteSet({f[x] : x \in S})
      <4>1. IsFiniteSet(S)
        BY DEF IsLedger
      <4> HIDE DEF f
      <4> QED BY <4>1, ValuesAreFinite
    <3>2. {f[x] : x \in S} = days
      OBVIOUS
    <3> QED BY <3>1, <3>2
  <2>2. days \in SUBSET Nat /\ days # {}
    BY DEF IsLedger, IsEntry
  <2> HIDE DEF days
  <2>3. PICK x \in days : \A y \in days : y <= x
    BY <2>1, <2>2, GreatestOf
  <2> QED BY <2>3 DEF days
<1> DEFINE T == {entry \in S : entry.day = last.day}
<1>2. PICK tx \in T : \A other \in T : other.id <= tx.id
  <2> DEFINE ids == {entry.id : entry \in T}
  <2>1. IsFiniteSet(ids)
    <3>1. IsFiniteSet(T)
      BY FS_Subset DEF IsLedger
    <3> DEFINE f == [entry \in T |-> entry.id]
    <3>2. IsFiniteSet({f[x] : x \in T})
      <4> HIDE DEF T, f
      <4> QED BY <3>1, ValuesAreFinite
    <3>3. {f[x] : x \in T} = ids
      <4> HIDE DEF T
      <4> QED OBVIOUS
    <3> QED BY <3>2, <3>3
  <2>2. ids \in SUBSET Nat /\ ids # {}
    BY DEF IsLedger, IsEntry
  <2> HIDE DEF ids
  <2>3. PICK x \in ids : \A y \in ids : y <= x
    BY <2>1, <2>2, GreatestOf
  <2> QED BY <2>3 DEF ids
<1>3. ASSUME NEW other \in S PROVE other = tx \/ O!InOrder(other, tx)
  <2>1. other.day \in Nat /\ last.day \in Nat /\ other.id \in Nat /\ tx.id \in Nat /\ tx.day = last.day
    BY DEF IsLedger, IsEntry
  <2>2. other.id = tx.id => other = tx
    BY DEF IsLedger
  <2>3. other.day <= last.day
    BY <1>1
  <2>4. other.day = last.day => other.id <= tx.id
    BY <1>2
  <2> QED BY <2>1, <2>2, <2>3, <2>4 DEF O!InOrder
<1>4. \E x \in S : \A other \in S : other = x \/ O!InOrder(other, x)
  BY <1>3
<1> QED BY <1>4 DEF O!Latest

(* A fold of the ledgers of n transactions goes on to those of n + 1.      *)
LEMMA FoldsAreLonger ==
  ASSUME NEW S, IsLedger(S), NEW n \in Nat,
         \E fold : fold = FoldOf(fold, Small(S, n))
  PROVE  \E longer : longer = FoldOf(longer, Small(S, n + 1))
<1>1. PICK g : g = FoldOf(g, Small(S, n))
  OBVIOUS
<1> DEFINE h == FoldOf(g, Small(S, n + 1))
<1>2. ASSUME NEW s \in Small(S, n + 1), s # {}
      PROVE  h[s \ {O!Latest(s)}] = g[s \ {O!Latest(s)}]
  <2> DEFINE t == s \ {O!Latest(s)}
  <2>1. s \in SUBSET S /\ IsFiniteSet(s) /\ Cardinality(s) \in Nat /\ Cardinality(s) <= n + 1
    BY FS_Subset, FS_CardinalityType DEF Small, IsLedger
  <2>2. IsLedger(s)
    BY <2>1 DEF IsLedger
  <2>3. O!Latest(s) \in s
    BY <1>2, <2>2, LatestIsLast
  <2>4. Cardinality(t) = Cardinality(s) - 1 /\ IsFiniteSet(t)
    BY <2>1, <2>3, FS_RemoveElement
  <2>5. t \in Small(S, n) /\ t \in Small(S, n + 1)
    BY <2>1, <2>4 DEF Small
  <2> DEFINE Next2(w) == IF t = {} THEN O!EmptyBook ELSE O!BookAfter(w[t \ {O!Latest(t)}], O!Latest(t))
  <2> HIDE DEF t
  <2>6. g[t] = Next2(g)
    BY <1>1, <2>5 DEF FoldOf
  <2>7. h[t] = Next2(g)
    BY <2>5 DEF FoldOf
  <2> QED BY <2>6, <2>7 DEF t
<1>3. h = FoldOf(h, Small(S, n + 1))
  <2>1. ASSUME NEW s \in Small(S, n + 1)
        PROVE  h[s] = IF s = {} THEN O!EmptyBook ELSE O!BookAfter(h[s \ {O!Latest(s)}], O!Latest(s))
    <3>1. h[s] = IF s = {} THEN O!EmptyBook ELSE O!BookAfter(g[s \ {O!Latest(s)}], O!Latest(s))
      BY DEF FoldOf
    <3> HIDE DEF h
    <3> QED BY <1>2, <3>1
  <2>2. h = [s \in Small(S, n + 1) |-> h[s]]
    BY DEF FoldOf
  <2> HIDE DEF h
  <2> QED BY <2>1, <2>2 DEF FoldOf
<1> QED BY <1>3

(* The fold of a ledger exists, by the least number of transactions for    *)
(* which it would not.                                                     *)
LEMMA FoldsExist ==
  ASSUME NEW S, IsLedger(S)
  PROVE  Fold(S) = FoldOf(Fold(S), SUBSET S)
<1> DEFINE Bad == {n \in Nat : ~ \E g : g = FoldOf(g, Small(S, n))}
<1>1. \E g : g = FoldOf(g, Small(S, 0))
  <2> DEFINE g == [s \in Small(S, 0) |-> O!EmptyBook]
  <2>1. ASSUME NEW s \in Small(S, 0) PROVE s = {}
    <3>1. IsFiniteSet(s) /\ Cardinality(s) \in Nat /\ Cardinality(s) <= 0
      BY FS_Subset, FS_CardinalityType DEF Small, IsLedger
    <3> QED BY <3>1, FS_EmptySet
  <2>2. g = FoldOf(g, Small(S, 0))
    BY <2>1 DEF FoldOf
  <2> QED BY <2>2
<1>2. Bad = {}
  <2> SUFFICES ASSUME Bad # {} PROVE FALSE
    OBVIOUS
  <2>1. PICK n \in Bad : \A m \in Bad : n <= m
    BY LeastOf
  <2>2. n \in Nat \ {0}
    BY <1>1
  <2>3. n - 1 \in Nat /\ n - 1 \notin Bad /\ (n - 1) + 1 = n
    BY <2>1, <2>2
  <2>4. \E g : g = FoldOf(g, Small(S, n - 1))
    BY <2>3
  <2>5. \E g : g = FoldOf(g, Small(S, (n - 1) + 1))
    BY <2>3, <2>4, FoldsAreLonger
  <2> QED BY <2>3, <2>5
<1>3. Cardinality(S) \in Nat /\ Small(S, Cardinality(S)) = SUBSET S
  <2>1. Cardinality(S) \in Nat /\ \A s \in SUBSET S : Cardinality(s) <= Cardinality(S)
    BY FS_Subset, FS_CardinalityType DEF IsLedger
  <2> QED BY <2>1 DEF Small
<1>4. \E g : g = FoldOf(g, SUBSET S)
  BY <1>2, <1>3
<1> QED BY <1>4 DEF Fold

(* What is booked last is what the oracle takes out first.                 *)
LEMMA FoldOfOneMore ==
  ASSUME NEW S, IsLedger(S), NEW before \in SUBSET S, NEW e \in S, e \notin before,
         \A entry \in before : O!InOrder(entry, e)
  PROVE  Fold(S)[before \cup {e}] = O!BookAfter(Fold(S)[before], e)
<1> DEFINE now == before \cup {e}
<1>1. IsLedger(now) /\ now \in SUBSET S /\ now # {} /\ now \ {e} = before
  BY FS_Subset DEF IsLedger
<1>2. O!Latest(now) = e
  <2> DEFINE last == O!Latest(now)
  <2>1. last \in now /\ \A other \in now : other = last \/ O!InOrder(other, last)
    BY <1>1, LatestIsLast
  <2> HIDE DEF last, now
  <2> SUFFICES ASSUME last # e PROVE FALSE
    BY DEF last
  <2>2. e \in now
    BY DEF now
  <2>3. O!InOrder(e, last) /\ O!InOrder(last, e)
    BY <2>1, <2>2 DEF now
  <2>4. e.day \in Nat /\ e.id \in Nat /\ last.day \in Nat /\ last.id \in Nat
    BY <1>1, <2>1, <2>2 DEF IsLedger, IsEntry
  <2> QED BY <2>3, <2>4 DEF O!InOrder
<1>3. Fold(S) = FoldOf(Fold(S), SUBSET S)
  BY FoldsExist
<1> HIDE DEF now
<1>4. Fold(S)[now] = O!BookAfter(Fold(S)[now \ {e}], e)
  BY <1>1, <1>2, <1>3 DEF FoldOf
<1> QED BY <1>1, <1>4 DEF now


-------------------------------------------------------------------------------
(* The ledger is where the oracle's fold is                                *)

Now == [quantity |-> quantity, basis |-> basis, realized |-> realized, cash |-> money]

HeldTotal    == P!SumFunction([s \in P!Held |-> P!Worth(s)])
TouchedTotal == P!SumFunction([c \in P!Touched |-> P!Amount(c)])

OracleInv ==
  /\ \A entry \in posted, other \in Up(ledger, asOf) \ posted : O!InOrder(entry, other)
  /\ SellsShares(ledger) => Now = Fold(Up(ledger, asOf))[posted]
  /\ \A c \in Currencies : money[c] # 0 => c \in P!Touched
  /\ pPhase = "done" => posted = Up(ledger, asOf) /\ total = HeldTotal + TouchedTotal

(* Those that are due are a ledger again.                                  *)
LEMMA UpIsALedger == ASSUME BookedInv PROVE IsLedger(Up(ledger, asOf))
BY FS_Subset DEF BookedInv, IsLedger, Up

(* The oracle's fold of nothing is the empty ledger.                       *)
LEMMA OracleInit == ASSUME Init, BookedInv PROVE OracleInv /\ P!MoneyIsConserved
<1> DEFINE due == Up(ledger, asOf)
<1>1. /\ pPhase = "book" /\ posted = {} /\ total = 0
      /\ quantity = [s \in Securities |-> 0] /\ basis = [s \in Securities |-> 0]
      /\ realized = [s \in Securities |-> 0] /\ money = [c \in Currencies |-> 0]
  BY DEF Init, P!Begin
<1>2. Fold(due)[{}] = O!EmptyBook
  <2>1. IsLedger(due) /\ {} \in SUBSET due
    BY UpIsALedger
  <2> HIDE DEF due
  <2>2. Fold(due) = FoldOf(Fold(due), SUBSET due)
    BY <2>1, FoldsExist
  <2> QED BY <2>1, <2>2 DEF FoldOf
<1>3. OracleInv
  BY <1>1, <1>2 DEF OracleInv, Now, O!EmptyBook
<1>4. ASSUME NEW c \in Currencies PROVE Due(posted, realized, basis, c) = 0
  <2>1. ASSUME NEW f, NEW type PROVE SumFunctionOnSet(f, OfType(posted, type, c)) = 0
    <3>1. OfType(posted, type, c) = {}
      BY <1>1 DEF OfType
    <3> QED BY <3>1, SumOfNone
  <2>2. Gains(realized, basis, c) = 0
    <3> DEFINE f == GainsOf(realized, basis)
    <3>1. \A s \in TradedIn(c) : f[s] = 0
      BY <1>1 DEF GainsOf, TradedIn
    <3>2. IsFiniteSet(TradedIn(c))
      BY CalculationsAssumption, FS_Subset DEF TradedIn
    <3> HIDE DEF f
    <3>3. SumFunctionOnSet(f, TradedIn(c)) = 0
      BY <3>1, <3>2, SumOfNothing
    <3> QED BY <3>3 DEF Gains, f
  <2> QED BY <2>1, <2>2 DEF Due, Cash, Net
<1>5. \A c \in Currencies : money[c] = Due(posted, realized, basis, c)
  BY <1>1, <1>4
<1> QED BY <1>3, <1>5, WhatIsConserved

(* One transaction booked is one of the oracle's.                          *)
LEMMA BookedLikeTheOracle ==
  ASSUME BookedInv, NEW e, IsEntry(e), SellsShares({e}),
         e.type = "SELL" => e.quantity <= quantity[e.security],
         \/ e.type = "BUY" /\ P!Buy(e)
         \/ e.type = "SELL" /\ P!Sell(e)
         \/ e.type \notin {"BUY", "SELL"} /\ P!MoveCash(e)
  PROVE  Now' = O!BookAfter(Now, e)
<1> DEFINE s == e.security
<1>1. /\ s \in Securities /\ e.currency \in Currencies
      /\ e.cash \in Int /\ e.fees \in Int /\ e.quantity \in Nat
      /\ e.type \in {"BUY", "SELL", "DIVIDEND", "CASH_DEPOSIT", "CASH_WITHDRAWAL"}
  BY DEF IsEntry
<1>2. /\ quantity \in [Securities -> Nat] /\ basis \in [Securities -> Int]
      /\ realized \in [Securities -> Int] /\ money \in [Currencies -> Int]
  BY DEF BookedInv
<1>3. O!Signed(e) \in Int
  BY <1>1 DEF O!Signed
<1> DEFINE paid == [money EXCEPT ![e.currency] = @ + O!Signed(e)]
<1>4. money' = paid
  <2>1. CASE e.type = "BUY"
    <3>1. P!Buy(e) /\ 0 - (e.cash + e.fees) = O!Signed(e)
      BY <1>1, <2>1 DEF O!Signed
    <3> QED BY <3>1 DEF P!Buy, P!Pay
  <2>2. CASE e.type = "SELL"
    BY <2>2 DEF P!Sell, P!Pay, O!Signed
  <2>3. CASE e.type \notin {"BUY", "SELL"}
    <3>1. P!MoveCash(e)
      BY <2>3
    <3>2. CASE e.type = "DIVIDEND"
      BY <3>1, <3>2 DEF P!MoveCash, P!Pay, O!Signed
    <3>3. CASE e.type = "CASH_DEPOSIT"
      BY <3>1, <3>3 DEF P!MoveCash, P!Pay, O!Signed
    <3>4. CASE e.type = "CASH_WITHDRAWAL"
      BY <3>1, <3>4 DEF P!MoveCash, P!Pay, O!Signed
    <3> QED BY <1>1, <2>3, <3>2, <3>3, <3>4
  <2> QED BY <2>1, <2>2, <2>3
<1>5. CASE e.type = "BUY"
  <2>1. O!BookAfter(Now, e) = [quantity |-> [quantity EXCEPT ![s] = @ + e.quantity],
                              basis |-> [basis EXCEPT ![s] = @ + e.cash + e.fees],
                              realized |-> realized, cash |-> paid]
    BY <1>5 DEF O!BookAfter, Now
  <2>2. /\ quantity' = [quantity EXCEPT ![s] = @ + e.quantity]
        /\ basis' = [basis EXCEPT ![s] = @ + e.cash + e.fees] /\ realized' = realized
    BY <1>5 DEF P!Buy
  <2> QED BY <1>4, <2>1, <2>2 DEF Now
<1>6. CASE e.type = "SELL"
  <2> DEFINE cost == (basis[s] * e.quantity) \div quantity[s]
  <2>1. quantity[s] # 0
    <3>1. e.quantity # 0 /\ e.quantity <= quantity[s] /\ quantity[s] \in Nat
      BY <1>1, <1>2, <1>6 DEF SellsShares
    <3> QED BY <1>1, <3>1
  <2>2. P!DisposedCost(e) = cost
    BY <2>1 DEF P!DisposedCost
  <2>3. O!BookAfter(Now, e) = [quantity |-> [quantity EXCEPT ![s] = @ - e.quantity],
                              basis |-> [basis EXCEPT ![s] = @ - cost],
                              realized |-> [realized EXCEPT ![s] = @ + O!Signed(e) - cost], cash |-> paid]
    BY <1>6 DEF O!BookAfter, Now
  <2>4. /\ quantity' = [quantity EXCEPT ![s] = @ - e.quantity]
        /\ basis' = [basis EXCEPT ![s] = @ - cost]
        /\ realized' = [realized EXCEPT ![s] = @ + (e.cash - e.fees - cost)]
    BY <1>6, <2>2 DEF P!Sell
  <2>5. realized[s] + (e.cash - e.fees - cost) = realized[s] + O!Signed(e) - cost
    <3>1. O!Signed(e) = e.cash - e.fees
      BY <1>6 DEF O!Signed
    <3>2. basis[s] \in Int /\ quantity[s] \in Nat /\ realized[s] \in Int
      BY <1>1, <1>2
    <3>3. cost \in Int
      <4>1. basis[s] * e.quantity \in Int
        BY <1>1, <3>2
      <4> QED BY <2>1, <3>2, <4>1
    <3> HIDE DEF cost
    <3> QED BY <1>1, <3>1, <3>2, <3>3
  <2> HIDE DEF cost, paid
  <2> QED BY <1>4, <2>3, <2>4, <2>5 DEF Now
<1>7. CASE e.type \notin {"BUY", "SELL"}
  <2>1. O!BookAfter(Now, e) = [quantity |-> quantity, basis |-> basis, realized |-> realized, cash |-> paid]
    BY <1>7 DEF O!BookAfter, Now
  <2>2. UNCHANGED <<quantity, basis, realized>>
    BY <1>7 DEF P!MoveCash
  <2> QED BY <1>4, <2>1, <2>2 DEF Now
<1> QED BY <1>5, <1>6, <1>7

(* The transaction posted is the last of the posted ones, so the fold      *)
(* takes it last.                                                          *)
LEMMA OracleStep ==
  ASSUME BookedInv, OracleInv, P!Next PROVE OracleInv'
<1> DEFINE due == Up(ledger, asOf)
<1>1. CASE P!Post /\ pPhase' # "failed"
  <2>1. PICK e \in due \ posted :
          /\ IsEntry(e)
          /\ \A other \in due \ posted : P!Precedes(e, other)
          /\ e.type = "SELL" => e.quantity <= quantity[e.security]
          /\ posted' = posted \cup {e}
          /\ \/ e.type = "BUY" /\ P!Buy(e)
             \/ e.type = "SELL" /\ P!Sell(e)
             \/ e.type \notin {"BUY", "SELL"} /\ P!MoveCash(e)
    BY <1>1, WhatIsPosted
  <2>2. UNCHANGED <<ledger, asOf>> /\ pPhase' = "book"
    BY <1>1 DEF P!Post, P!Fail
  <2>3. due' = due
    BY <2>2 DEF Up
  <2>4. posted \in SUBSET due /\ IsLedger(due)
    BY UpIsALedger DEF BookedInv
  <2>5. \A entry \in posted : O!InOrder(entry, e)
    BY <2>1 DEF OracleInv
  <2>6. ASSUME NEW other \in due \ posted' PROVE O!InOrder(e, other)
    <3>1. P!Precedes(e, other) /\ other # e /\ other \in due
      BY <2>1
    <3>2. other.id # e.id /\ other.id \in Nat /\ e.id \in Nat
      BY <2>1, <2>4, <3>1 DEF IsLedger, IsEntry
    <3> QED BY <3>1, <3>2 DEF P!Precedes, O!InOrder
  <2>7. ASSUME NEW entry \in posted', NEW other \in due \ posted' PROVE O!InOrder(entry, other)
    BY <2>1, <2>6 DEF OracleInv
  <2>8. SellsShares(ledger) => Now' = Fold(due)[posted']
    <3> SUFFICES ASSUME SellsShares(ledger) PROVE Now' = Fold(due)[posted']
      OBVIOUS
    <3>1. SellsShares({e})
      BY <2>1 DEF SellsShares, Up
    <3>2. Now' = O!BookAfter(Now, e)
      BY <2>1, <3>1, BookedLikeTheOracle
    <3>3. Fold(due)[posted \cup {e}] = O!BookAfter(Fold(due)[posted], e)
      <4>1. e \in due /\ e \notin posted
        BY <2>1
      <4> HIDE DEF due
      <4> QED BY <2>4, <2>5, <4>1, FoldOfOneMore
    <3>4. Now = Fold(due)[posted]
      BY DEF OracleInv
    <3> QED BY <2>1, <3>2, <3>3, <3>4
  <2>9. ASSUME NEW c \in Currencies, money'[c] # 0 PROVE c \in P!Touched'
    <3>1. P!Touched' = P!Touched \cup {e.currency}
      BY <2>1 DEF P!Touched
    <3>2. money \in [Currencies -> Int]
      BY DEF BookedInv
    <3>3. c # e.currency => money'[c] = money[c]
      BY <2>1, <3>2 DEF P!Buy, P!Sell, P!MoveCash, P!Pay
    <3> QED BY <2>9, <3>1, <3>3 DEF OracleInv
  <2> QED BY <2>2, <2>3, <2>7, <2>8, <2>9 DEF OracleInv
<1>2. CASE P!Post /\ pPhase' = "failed"
  <2>1. UNCHANGED <<ledger, asOf, posted, quantity, basis, realized, money>>
    BY <1>2 DEF P!Post, P!Fail
  <2> QED BY <1>2, <2>1 DEF OracleInv, Now, P!Touched, Up
<1>3. CASE P!Value
  <2>1. UNCHANGED <<ledger, market, asOf, posted, quantity, basis, realized, money>>
    BY <1>3 DEF P!Value
  <2>2. posted = due
    BY <1>3 DEF P!Value, P!Due, Up, BookedInv
  <2>3. pPhase' = "done" => total' = HeldTotal + TouchedTotal
    BY <1>3 DEF P!Value, HeldTotal, TouchedTotal
  <2>4. HeldTotal' = HeldTotal /\ TouchedTotal' = TouchedTotal
    BY <2>1 DEF HeldTotal, TouchedTotal, P!Held, P!Touched, P!Worth, P!Amount, P!SumFunction,
       P!SumFunctionOnSet, P!FoldFunctionOnSet, P!MapThenFoldSet
  <2> QED BY <2>1, <2>2, <2>3, <2>4 DEF OracleInv, Now, P!Touched, Up
<1> QED BY <1>1, <1>2, <1>3 DEF P!Next


(* The oracle's sums are the sums of the lemmas.                           *)
LEMMA OracleSums == \A f : O!SumFunction(f) = SumFunctionOnSet(f, DOMAIN f)
<1>1. \A f, S : O!SumFunctionOnSet(f, S) = SumFunctionOnSet(f, S)
  BY DEF O!SumFunctionOnSet, O!FoldFunctionOnSet, O!MapThenFoldSet,
         SumFunctionOnSet, FoldFunctionOnSet, MapThenFoldSet
<1> QED BY <1>1 DEF O!SumFunction

(* What is not held, or was never moved, is worth nothing.                 *)
LEMMA TotalsAgree ==
  ASSUME BookedInv, OracleInv
  PROVE  /\ HeldTotal = O!SumFunction([s \in Securities |-> quantity[s] * market.close[s] * market.rate[CurrencyOf[s]]])
         /\ TouchedTotal = O!SumFunction([c \in Currencies |-> money[c] * market.rate[c]])
<1> DEFINE worth  == [s \in P!Held |-> P!Worth(s)]
           worths == [s \in Securities |-> quantity[s] * market.close[s] * market.rate[CurrencyOf[s]]]
           moved  == [c \in P!Touched |-> P!Amount(c)]
           moneys == [c \in Currencies |-> money[c] * market.rate[c]]
<1>1. /\ quantity \in [Securities -> Nat] /\ money \in [Currencies -> Int]
      /\ market.close \in [Securities -> Nat] /\ market.rate \in [Currencies -> Nat]
      /\ IsFiniteSet(Securities) /\ IsFiniteSet(Currencies) /\ CurrencyOf \in [Securities -> Currencies]
  BY CalculationsAssumption DEF BookedInv
<1>2. SumFunctionOnSet(worths, Securities) = SumFunctionOnSet(worth, P!Held)
  <2>1. P!Held \in SUBSET Securities
    BY DEF P!Held
  <2>2. ASSUME NEW s \in P!Held PROVE worth[s] \in Int /\ worth[s] = worths[s]
    <3>1. s \in Securities
      BY <2>1
    <3>2. worth[s] = worths[s] /\ worth[s] = quantity[s] * market.close[s] * market.rate[CurrencyOf[s]]
      BY <3>1 DEF P!Worth
    <3>3. /\ quantity[s] \in Int /\ market.close[s] \in Int /\ market.rate[CurrencyOf[s]] \in Int
      BY <1>1, <3>1
    <3> HIDE DEF worth, worths
    <3>4. quantity[s] * market.close[s] \in Int
      BY <3>3
    <3> QED BY <3>2, <3>3, <3>4
  <2>3. ASSUME NEW s \in Securities \ P!Held PROVE worths[s] = 0
    <3>1. quantity[s] = 0
      BY DEF P!Held
    <3>2. worths[s] = quantity[s] * market.close[s] * market.rate[CurrencyOf[s]]
      OBVIOUS
    <3>3. market.close[s] \in Int /\ market.rate[CurrencyOf[s]] \in Int
      BY <1>1
    <3> HIDE DEF worths
    <3>4. 0 * market.close[s] = 0 /\ 0 * market.rate[CurrencyOf[s]] = 0
      BY <3>3
    <3> QED BY <3>1, <3>2, <3>4
  <2> HIDE DEF worth, worths
  <2> QED BY <1>1, <2>1, <2>2, <2>3, SumOfTheRest
<1>3. SumFunctionOnSet(moneys, Currencies) = SumFunctionOnSet(moved, P!Touched)
  <2>1. P!Touched \in SUBSET Currencies
    BY DEF P!Touched, BookedInv, IsLedger, IsEntry, Up
  <2>2. ASSUME NEW c \in P!Touched PROVE moved[c] \in Int /\ moved[c] = moneys[c]
    <3>1. c \in Currencies
      BY <2>1
    <3>2. moved[c] = moneys[c] /\ moved[c] = money[c] * market.rate[c]
      BY <3>1 DEF P!Amount
    <3>3. money[c] \in Int /\ market.rate[c] \in Int
      BY <1>1, <3>1
    <3> HIDE DEF moved, moneys
    <3> QED BY <3>2, <3>3
  <2>3. ASSUME NEW c \in Currencies \ P!Touched PROVE moneys[c] = 0
    <3>1. money[c] = 0
      BY DEF OracleInv
    <3>2. moneys[c] = money[c] * market.rate[c] /\ market.rate[c] \in Int
      BY <1>1
    <3> HIDE DEF moneys
    <3> QED BY <3>1, <3>2
  <2> HIDE DEF moved, moneys
  <2> QED BY <1>1, <2>1, <2>2, <2>3, SumOfTheRest
<1>4. HeldTotal = SumFunctionOnSet(worth, P!Held) /\ TouchedTotal = SumFunctionOnSet(moved, P!Touched)
  <2>1. DOMAIN worth = P!Held /\ DOMAIN moved = P!Touched
    OBVIOUS
  <2>2. HeldTotal = P!SumFunction(worth) /\ TouchedTotal = P!SumFunction(moved)
    BY DEF HeldTotal, TouchedTotal
  <2> HIDE DEF worth, moved
  <2> QED BY <2>1, <2>2, LedgerSums
<1>5. O!SumFunction(worths) = SumFunctionOnSet(worths, Securities)
      /\ O!SumFunction(moneys) = SumFunctionOnSet(moneys, Currencies)
  <2>1. DOMAIN worths = Securities /\ DOMAIN moneys = Currencies
    OBVIOUS
  <2> HIDE DEF worths, moneys
  <2> QED BY <2>1, OracleSums
<1> QED BY <1>2, <1>3, <1>4, <1>5

(* A ledger that is valued is what the oracle expects: what was never held *)
(* or touched is worth nothing.                                            *)
LEMMA LedgersAgree ==
  ASSUME BookedInv, OracleInv, pPhase = "done", SellsShares(ledger)
  PROVE  [quantity |-> quantity, basis |-> basis, realized |-> realized, cash |-> money,
          total |-> total] = O!PortfolioExpected(ledger, asOf, market)
<1> DEFINE due  == Up(ledger, asOf)
           book == Fold(due)[due]
<1>1. book = Now /\ total = HeldTotal + TouchedTotal
  BY DEF OracleInv
<1>2. /\ book.quantity = quantity /\ book.basis = basis /\ book.realized = realized /\ book.cash = money
  BY <1>1 DEF Now
<1> HIDE DEF book
<1>3. O!PortfolioExpected(ledger, asOf, market)
        = [quantity |-> book.quantity, basis |-> book.basis, realized |-> book.realized, cash |-> book.cash,
           total |-> O!SumFunction([s \in Securities |->
                                      book.quantity[s] * market.close[s] * market.rate[CurrencyOf[s]]])
                       + O!SumFunction([c \in Currencies |-> book.cash[c] * market.rate[c]])]
  BY ExpectedIsAFold DEF book
<1>4. O!PortfolioExpected(ledger, asOf, market)
        = [quantity |-> quantity, basis |-> basis, realized |-> realized, cash |-> money,
           total |-> O!SumFunction([s \in Securities |-> quantity[s] * market.close[s] * market.rate[CurrencyOf[s]]])
                       + O!SumFunction([c \in Currencies |-> money[c] * market.rate[c]])]
  BY <1>2, <1>3
<1> QED BY <1>1, <1>4, TotalsAgree


-------------------------------------------------------------------------------
(* The specification                                                       *)

(* Each of the three calculations keeps its own invariant.                 *)
CalculationInv == GivenInv /\ PurchaseInv /\ PlanInv /\ BookedInv /\ OracleInv /\ P!MoneyIsConserved

(* All invariants hold at the start,                                       *)
LEMMA CalculationStart == Init => CalculationInv
<1> SUFFICES ASSUME Init PROVE CalculationInv
  OBVIOUS
<1>1. GivenInv /\ PurchaseInv /\ PlanInv /\ BookedInv
  BY GivenInit, PurchaseInit, PlanInit, BookedInit
<1> QED BY <1>1, OracleInit DEF CalculationInv

(* none is disturbed by the steps of another calculation,                  *)
LEMMA PurchaseStays ==
  ASSUME PurchaseInv, UNCHANGED <<request, aVars>> PROVE PurchaseInv'
BY DEF PurchaseInv, aVars, A!Begin, PurchaseDates, PurchaseWalk, Purchased

LEMMA PlanStays ==
  ASSUME PlanInv, UNCHANGED <<input, dVars>> PROVE PlanInv'
BY DEF PlanInv, dVars, D!Begin, PlanWalk

LEMMA LedgerStays ==
  ASSUME BookedInv, OracleInv, P!MoneyIsConserved, UNCHANGED pVars
  PROVE  BookedInv' /\ OracleInv' /\ P!MoneyIsConserved'
<1>1. UNCHANGED <<ledger, market, asOf, pPhase, posted, quantity, basis, realized, money, total>>
  BY DEF pVars
<1>2. BookedInv'
  BY <1>1 DEF BookedInv
<1>3. HeldTotal' = HeldTotal /\ TouchedTotal' = TouchedTotal
  BY <1>1 DEF HeldTotal, TouchedTotal, P!Held, P!Touched, P!Worth, P!Amount, P!SumFunction,
     P!SumFunctionOnSet, P!FoldFunctionOnSet, P!MapThenFoldSet
<1>4. OracleInv'
  BY <1>1, <1>3 DEF OracleInv, Now, P!Touched
<1>5. P!MoneyIsConserved'
  BY <1>1 DEF P!MoneyIsConserved, P!Booked
<1> QED BY <1>2, <1>4, <1>5

(* and every step keeps them.                                              *)
LEMMA CalculationStep == CalculationInv /\ [Next]_vars => CalculationInv'
<1> SUFFICES ASSUME CalculationInv, [Next]_vars PROVE CalculationInv'
  OBVIOUS
<1>1. GivenInv /\ PurchaseInv /\ PlanInv /\ BookedInv /\ OracleInv /\ P!MoneyIsConserved
  BY DEF CalculationInv
<1>2. UNCHANGED <<job, request, input>>
  BY DEF Next, vars
<1>3. GivenInv'
  BY <1>1, <1>2 DEF GivenInv
<1>4. IsInput(request) /\ IsInput(input)
  BY <1>1 DEF GivenInv
<1>5. \/ A!Next /\ UNCHANGED <<dVars, pVars>>
      \/ D!Next /\ UNCHANGED <<aVars, pVars>>
      \/ P!Next /\ UNCHANGED <<aVars, dVars>>
      \/ UNCHANGED <<aVars, dVars, pVars>>
  BY DEF Next, vars
<1>6. PurchaseInv'
  <2>1. CASE A!Next
    BY <1>1, <1>2, <1>4, <2>1, PurchaseStep
  <2>2. CASE UNCHANGED aVars
    BY <1>1, <1>2, <2>2, PurchaseStays
  <2> QED BY <1>5, <2>1, <2>2
<1>7. PlanInv'
  <2>1. CASE D!Next
    BY <1>1, <1>2, <1>4, <2>1, PlanStep
  <2>2. CASE UNCHANGED dVars
    BY <1>1, <1>2, <2>2, PlanStays
  <2> QED BY <1>5, <2>1, <2>2
<1>8. BookedInv' /\ OracleInv' /\ P!MoneyIsConserved'
  <2>1. CASE P!Next
    BY <1>1, <2>1, BookedStep, OracleStep, MoneyIsBooked
  <2>2. CASE UNCHANGED pVars
    BY <1>1, <2>2, LedgerStays
  <2> QED BY <1>5, <2>1, <2>2
<1> QED BY <1>3, <1>6, <1>7, <1>8 DEF CalculationInv

(* They hold in every execution.                                           *)
LEMMA CalculationHolds == Spec => []CalculationInv
BY CalculationStart, CalculationStep, PTL DEF Spec

(* Every figure that the engine ends with is the one that the              *)
(* falsification audit finds: for every request that validation lets       *)
(* through the walk over a growing list of dates settles, splits,          *)
(* reinvests and buys what the oracle does day by day over a fixed         *)
(* calendar, and every ledger is booked as the oracle folds it.            *)
THEOREM FalsificationNeverFails == Spec => []AgreesWithOracle
<1>1. CalculationInv => AgreesWithOracle
  <2> SUFFICES ASSUME CalculationInv PROVE AgreesWithOracle
    OBVIOUS
  <2>1. /\ IsInput(request) /\ IsInput(input) /\ PurchaseInv /\ PlanInv /\ BookedInv /\ OracleInv
    BY DEF CalculationInv, GivenInv
  <2> QED BY <2>1, PurchasesAgree, PlansAgree, LedgersAgree DEF AgreesWithOracle
<1> QED BY <1>1, CalculationHolds, PTL

(* An investment in one period ends with the shares, the cash and the      *)
(* values of a purchase for the same money on the same day: the two        *)
(* algorithms of the engine agree where their questions do.                *)
THEOREM OnePeriodIsAPurchase == Spec => []OnePurchaseIsALumpSum
<1>1. CalculationInv => OnePurchaseIsALumpSum
  BY OneIsALumpSum DEF CalculationInv
<1> QED BY <1>1, CalculationHolds, PTL

(* Every payment that a walk owes is on a day still in its list and not    *)
(* after the valuation: none is passed by.                                 *)
THEOREM PaymentsAreNeverPassedBy == Spec => []NothingSettlesUnseen
<1>1. CalculationInv => NothingSettlesUnseen
  BY PurchasesSettleInSight, PlansSettleInSight DEF CalculationInv, GivenInv, NothingSettlesUnseen
<1> QED BY <1>1, CalculationHolds, PTL

(* After every transaction the cash of each currency is what was paid in   *)
(* and received plus the gains less what the holdings cost, for every      *)
(* ledger of any length.                                                   *)
THEOREM BooksAlwaysBalance == Spec => []MoneyIsConserved
<1>1. CalculationInv => MoneyIsConserved
  BY DEF CalculationInv, MoneyIsConserved
<1> QED BY <1>1, CalculationHolds, PTL

===============================================================================
