------------------------------ MODULE PackSupport ------------------------------
(***************************************************************************)
(* What the packs of a store contain and which support they are published  *)
(* with (data/packs.py, and supportFor of frontend/engine/pack-loader.js): *)
(* the status of a security's year, of a security and of a range of days.  *)
(*                                                                         *)
(* A store is a record of the days with a price bar of each security and   *)
(* of the days with a rate of their one foreign currency.  Values, counts  *)
(* and the wording of warnings are left out.                               *)
(***************************************************************************)
EXTENDS Integers, FiniteSetsExt

CONSTANTS
  Instruments,    (* securities of one market, numbered as their ids are   *)
  NeedsFx,        (* those that are not quoted in SGD                      *)
  LastDay,        (* bound: the last day                                   *)
  DaysPerPack,    (* length of a year                                      *)
  MaxFxStaleness, (* MAX_FX_STALENESS_DAYS                                 *)
  FxLookback      (* FX_LOOKBACK_CALENDAR_DAYS                             *)

ASSUME PackSupportAssumption ==
  /\ LastDay \in Nat /\ DaysPerPack \in Nat \ {0}
  /\ MaxFxStaleness \in Nat /\ FxLookback \in Nat
  /\ MaxFxStaleness <= FxLookback                  (* 7 and 10 in packs.py *)

PackDays      == 1 .. LastDay
PackYear(day) == (day - 1) \div DaysPerPack
AllYears      == {PackYear(day) : day \in PackDays}

Full        == "fully_supported"
Incomplete  == "incomplete"
Unavailable == "unavailable"

(* The bars of a partition, and the calendar they make up.                 *)
Bars(store, s, year) == {day \in store.bars[s] : PackYear(day) = year}
Calendar(store, year) == UNION {Bars(store, s, year) : s \in Instruments}

YearsWithData(store, s) == {PackYear(day) : day \in store.bars[s]}

(* The engine's rule: the latest rate on or before the day.                *)
Resolves(rates, day) == \E rate \in rates : rate <= day

(* classify_price_dates                                                    *)
MissingFxDates(rates, days) == {day \in days : ~Resolves(rates, day)}
StaleFxDates(rates, days) ==
  {day \in days \ MissingFxDates(rates, days) :
     \A rate \in rates : rate <= day => day - rate > MaxFxStaleness}

(* _classify_year: sessions of the calendar without a bar, between the     *)
(* first and the last one, or days without a rate.                         *)
MissingCalendarDates(store, s, year) ==
  LET days == Bars(store, s, year)
  IN  {day \in Calendar(store, year) \ days : Min(days) <= day /\ day <= Max(days)}

YearStatus(store, s, year) ==
  IF \/ s \in NeedsFx /\ MissingFxDates(store.fx, Bars(store, s, year)) # {}
     \/ MissingCalendarDates(store, s, year) # {}
  THEN Incomplete ELSE Full

(* Variant with a bug: the block begins with the pack's first price.       *)
FxBlockOfTheYear(store, s, year) ==
  LET days == Bars(store, s, year)
  IN  IF s \notin NeedsFx THEN {}
      ELSE {rate \in store.fx : Min(days) <= rate /\ rate <= Max(days)}

(* _fx_block: the rates that go into a pack.                               *)
FxBlock(store, s, year) ==
  LET days == Bars(store, s, year)
  IN  IF s \notin NeedsFx THEN {}
      ELSE {rate \in store.fx : Min(days) - FxLookback <= rate /\ rate <= Max(days)}

(* _rollup_status: a hole between its years makes a security incomplete.   *)
RollupStatus(store, s) ==
  LET years == YearsWithData(store, s)
  IN  IF years = {} THEN Unavailable
      ELSE IF \/ \E year \in years : YearStatus(store, s, year) = Incomplete
              \/ Max(years) - Min(years) + 1 # Cardinality(years)
      THEN Incomplete ELSE Full

(* classify_range: the statuses of the years between the edges, which are  *)
(* moved inside the security's window.                                     *)
ClassifyRange(store, s, start, end) ==
  LET bars     == store.bars[s]
      window   == {year \in AllYears : /\ PackYear(Min(bars)) <= year /\ year <= PackYear(Max(bars))
                                       /\ PackYear(start) <= year /\ year <= PackYear(end)}
      statuses == {IF Bars(store, s, year) = {} THEN Unavailable ELSE YearStatus(store, s, year) :
                     year \in window}
  IN  IF bars = {} THEN Unavailable
      ELSE IF end < Min(bars) \/ Max(bars) < start THEN Unavailable
      ELSE IF statuses = {Full} THEN Full
      ELSE IF statuses = {Unavailable} THEN Unavailable
      ELSE Incomplete

(* supportFor, the browser's own rule: edges outside the years of the      *)
(* entry make the range unavailable.                                       *)
SupportFor(store, s, start, end) ==
  LET years == YearsWithData(store, s)
  IN  IF years = {} THEN Unavailable
      ELSE IF PackYear(start) < Min(years) \/ PackYear(end) > Max(years) THEN Unavailable
      ELSE IF \E year \in PackYear(start) .. PackYear(end) :
                year \notin years \/ YearStatus(store, s, year) # Full THEN Incomplete
      ELSE Full

===============================================================================
