------------------------------- MODULE FxHistory -------------------------------
(***************************************************************************)
(* The backfill of exchange rates before December 2003                     *)
(* (scripts/backfill_fx_history.py): the currencies that stored prices     *)
(* need, the sources tried one after another, the ratio that joins the new *)
(* rows to the stored series, and the year partitions written one by one.  *)
(*                                                                         *)
(* A rate is represented by its level: its ratio to the exact cross of the *)
(* ECB's quotes, One for the cross itself.  What a run only reports (cross *)
(* checks, divergence, gaps, the mirror's unit) is left out; of the mirror *)
(* the loop over its pages is kept.                                        *)
(***************************************************************************)
EXTENDS Integers, FiniteSetsExt, Disturbances

CONSTANTS
  Currencies,   (* foreign currencies, numbered in the order of their codes *)
  Euro,         (* EUR                                                     *)
  One,          (* the level of a rate as the ECB quotes it                *)
  Level,        (* the level of the series the daily provider stores       *)
  PullEnd,      (* NORMALIZATION_PULL_END, the last day                    *)
  WindowEnd,    (* WINDOW_END; the next day is PAIR_CUTOFF                 *)
  DaysPerMonth, DaysPerPartition,
  MinOverlap,   (* MIN_OVERLAP_DATES                                       *)
  Prices,       (* the days with stored prices in each currency, only read *)
  Quotes,       (* the sets of days that a series of a source may quote    *)
  MirrorRows,   (* the rows that a page of the mirror may hold             *)
  MaxPages      (* DATAGOVSG_MAX_PAGES                                     *)

RateDays == 1 .. PullEnd

ASSUME FxHistoryAssumption ==
  /\ PullEnd \in Nat /\ WindowEnd \in 0 .. PullEnd /\ DaysPerMonth \in Nat \ {0} /\ MinOverlap \in Nat \ {0}
  /\ Level \in [Currencies -> Nat \ {0}]
  /\ Quotes \subseteq SUBSET RateDays
  /\ \A ids \in MirrorRows : IsFiniteSet(ids)

NoRate   == 0
Unquoted == [day \in RateDays |-> NoRate]

(* The sources, in the order they are tried.                               *)
Portal      == 1
HistoryFile == 2
Frankfurter == 3

VARIABLES
  rates,    (* data/fx: the stored level of each currency and day          *)
  stage,    (* what the running script does next, or "idle"                *)
  writing,  (* --write                                                     *)
  todo,     (* currencies still to come                                    *)
  pair,     (* the currency at work                                        *)
  path,     (* the source tried next                                       *)
  quoted,   (* rates_raw: the days the source used has quoted              *)
  series,   (* existing: the stored series as read when the pair began     *)
  rows,     (* rows whose partition is not replaced yet                    *)
  ratio,    (* the normalization ratio                                     *)
  pages,    (* pages of the mirror kept, those with rows, ids seen         *)
  asIs      (* history: currencies written with normalization_month null   *)

pairVars == <<stage, writing, todo, pair, path, quoted, series, rows, ratio, pages>>
fxVars  == <<rates, pairVars, asIs, crashes>>

NoPages == [kept |-> 0, full |-> 0, seen |-> {}]

-------------------------------------------------------------------------------
(* The rates of a pair                                                     *)

(* derive_required_pairs: the currencies priced before the cutoff.         *)
RequiredPairs == {c \in Currencies : \E day \in Prices[c] : day <= WindowEnd}

(* derive_cross_from_eur: the days on which both legs are quoted; for the  *)
(* euro the Singapore leg is the answer.                                   *)
CrossDays(c, sgd, other) == IF c = Euro THEN sgd ELSE sgd \cap other

(* _parse_sdmx_csv: the days of one series with a usable observation.      *)
PortalSeries == Quotes

(* fetch_ecb_sdmx: one request for each leg; an empty leg is an error.     *)
PortalAnswers(c) ==
  {CrossDays(c, sgd, other) : sgd \in PortalSeries \ {{}}, other \in PortalSeries \ {{}}}

(* _parse_eurofxref_csv: the rows of one file that quote both currencies.  *)
FileAnswers(c) == {CrossDays(c, sgd, other) : sgd \in Quotes, other \in Quotes}

(* fetch_frankfurter: the days with a rate in SGD.                         *)
FrankfurterAnswers == Quotes

(* PRIMARY_PATHS: the data portal, the history file, the mirror.           *)
Answers(source, c) ==
  CASE source = Portal      -> PortalAnswers(c)
    [] source = HistoryFile -> FileAnswers(c)
    [] source = Frankfurter -> FrankfurterAnswers

MonthOf(day)     == (day - 1) \div DaysPerMonth
PartitionOf(day) == (day - 1) \div DaysPerPartition

(* The days of a month that both series have.                              *)
CommonDays(month) == {day \in quoted : MonthOf(day) = month /\ series[day] # NoRate}

(* The months with enough common days to measure the seam.                 *)
ReferenceMonths == {month \in {MonthOf(day) : day \in quoted} :
                      Cardinality(CommonDays(month)) >= MinOverlap}

(* compute_normalization_ratio: the mean of stored by new rate over the    *)
(* last such month, rounded; without one the new rates are taken as is.    *)
NormalizationRatio ==
  IF ReferenceMonths = {} THEN One
  ELSE LET days == CommonDays(Max(ReferenceMonths))
       IN  MapThenSumSet(LAMBDA day : series[day], days) \div Cardinality(days)

(* build_fx_rows: the window's days that the store does not have.          *)
MissingDays == {day \in quoted : day <= WindowEnd /\ series[day] = NoRate}

-------------------------------------------------------------------------------
(* One run                                                                 *)

(* main: the required currencies, or those of --pairs.                     *)
StartRates ==
  /\ stage = "idle"
  /\ stage' = "pairs"
  /\ writing' \in BOOLEAN
  /\ \/ todo' = RequiredPairs
     \/ todo' \in SUBSET Currencies
  /\ UNCHANGED <<rates, pair, path, quoted, series, rows, ratio, pages, asIs, crashes>>

(* backfill_pair reads the stored series of the next currency.             *)
NextPair ==
  /\ stage = "pairs" /\ todo # {}
  /\ pair' = Min(todo) /\ todo' = todo \ {pair'}
  /\ series' = rates[pair']
  /\ stage' = "source" /\ path' = Portal
  /\ UNCHANGED <<rates, writing, quoted, rows, ratio, pages, asIs, crashes>>

EndOfPair ==
  /\ stage' = "pairs"
  /\ pair' = Euro /\ path' = Portal /\ quoted' = {} /\ series' = Unquoted
  /\ rows' = {} /\ ratio' = One /\ pages' = NoPages

(* fetch_ecb_rates: a path that fails or has nothing is a blocker; after   *)
(* the last one the pair is reported as unavailable.                       *)
PathBlocked ==
  /\ stage = "source"
  /\ IF path = Frankfurter
     THEN EndOfPair
     ELSE path' = path + 1
          /\ UNCHANGED <<stage, pair, quoted, series, rows, ratio, pages>>
  /\ UNCHANGED <<rates, writing, todo, asIs, crashes>>

PathAnswers ==
  /\ stage = "source"
  /\ quoted' \in Answers(path, pair) \ {{}}
  /\ stage' = "mirror"
  /\ UNCHANGED <<rates, writing, todo, pair, path, series, rows, ratio, pages, asIs, crashes>>

(* A page is kept, and the next one asked for while there is a link and    *)
(* the limit is not reached.                                               *)
KeepPage(ids, more) ==
  /\ pages' = [kept |-> pages.kept + 1,
               full |-> IF ids = {} THEN pages.full ELSE pages.full + 1,
               seen |-> pages.seen \cup ids]
  /\ stage' = IF more /\ pages'.kept < MaxPages THEN "mirror" ELSE "build"

(* Variant with a bug: the cursor is followed wherever it leads.           *)
MirrorPageFollowed(ids, more) ==
  /\ stage = "mirror"
  /\ KeepPage(ids, more)
  /\ UNCHANGED <<rates, writing, todo, pair, path, quoted, series, rows, ratio, asIs, crashes>>

(* fetch_datagovsg_mirror: the cursor may lead back to an earlier page, so *)
(* a page with rows that were all seen ends the loop.                      *)
MirrorPage(ids, more) ==
  /\ stage = "mirror"
  /\ IF ids # {} /\ ids \subseteq pages.seen
     THEN stage' = "build" /\ UNCHANGED pages
     ELSE KeepPage(ids, more)
  /\ UNCHANGED <<rates, writing, todo, pair, path, quoted, series, rows, ratio, asIs, crashes>>

(* An error of the mirror is only reported.                                *)
MirrorFails ==
  /\ stage = "mirror"
  /\ stage' = "build"
  /\ UNCHANGED <<rates, writing, todo, pair, path, quoted, series, rows, ratio, pages, asIs, crashes>>

(* Variant with a bug: the rows are written as the source quotes them.     *)
BuildRowsAsQuoted ==
  /\ stage = "build"
  /\ ratio' = One
  /\ IF writing /\ MissingDays # {}
     THEN /\ rows' = MissingDays /\ stage' = "write"
          /\ asIs' = IF ReferenceMonths = {} THEN asIs \cup {pair} ELSE asIs
          /\ UNCHANGED <<pair, path, quoted, series>>
     ELSE EndOfPair /\ UNCHANGED asIs
  /\ pages' = NoPages
  /\ UNCHANGED <<rates, writing, todo, crashes>>

(* The ratio is measured and the missing rows are built; a dry run, or one *)
(* that misses nothing, is done with the pair.                             *)
BuildRows ==
  /\ stage = "build"
  /\ IF writing /\ MissingDays # {}
     THEN /\ ratio' = NormalizationRatio
          /\ rows' = MissingDays /\ stage' = "write"
          /\ asIs' = IF ReferenceMonths = {} THEN asIs \cup {pair} ELSE asIs
          /\ pages' = NoPages
          /\ UNCHANGED <<pair, path, quoted, series>>
     ELSE EndOfPair /\ UNCHANGED asIs
  /\ UNCHANGED <<rates, writing, todo, crashes>>

(* store.upsert_fx replaces the year partitions one after another.         *)
WritePartition ==
  /\ stage = "write"
  /\ LET now == {day \in rows : \A other \in rows : PartitionOf(day) <= PartitionOf(other)}
     IN  /\ rates' = [rates EXCEPT ![pair] =
                        [day \in RateDays |-> IF day \in now THEN ratio ELSE @[day]]]
         /\ IF rows = now THEN EndOfPair
            ELSE rows' = rows \ now
                 /\ UNCHANGED <<stage, pair, path, quoted, series, ratio, pages>>
  /\ UNCHANGED <<writing, todo, asIs, crashes>>

EndRates ==
  /\ stage = "pairs" /\ todo = {}
  /\ stage' = "idle" /\ writing' = FALSE
  /\ UNCHANGED <<rates, todo, pair, path, quoted, series, rows, ratio, pages, asIs, crashes>>

-------------------------------------------------------------------------------
(* The surroundings                                                        *)

(* The script is killed, or an exception nobody catches ends it: a broken  *)
(* archive, a rate the store refuses.                                      *)
RatesCrash ==
  /\ stage # "idle" /\ crashes < MaxCrashes
  /\ crashes' = crashes + 1
  /\ stage' = "idle" /\ writing' = FALSE /\ todo' = {}
  /\ pair' = Euro /\ path' = Portal /\ quoted' = {} /\ series' = Unquoted
  /\ rows' = {} /\ ratio' = One /\ pages' = NoPages
  /\ UNCHANGED <<rates, asIs>>

(* Between two runs the daily provider stores a rate it did not have.      *)
ProviderStores(c, day) ==
  /\ stage = "idle" /\ rates[c][day] = NoRate
  /\ rates' = [rates EXCEPT ![c][day] = Level[c]]
  /\ UNCHANGED <<pairVars, asIs, crashes>>

InitRates ==
  /\ rates = [c \in Currencies |-> Unquoted]
  /\ stage = "idle" /\ writing = FALSE /\ todo = {}
  /\ pair = Euro /\ path = Portal /\ quoted = {} /\ series = Unquoted
  /\ rows = {} /\ ratio = One /\ pages = NoPages
  /\ asIs = {} /\ crashes = 0

NextRates ==
  \/ StartRates \/ NextPair \/ PathBlocked \/ PathAnswers
  \/ \E ids \in MirrorRows, more \in BOOLEAN : MirrorPage(ids, more)
  \/ MirrorFails \/ BuildRows \/ WritePartition \/ EndRates \/ RatesCrash
  \/ \E c \in Currencies, day \in (WindowEnd + 1) .. PullEnd : ProviderStores(c, day)

SpecRates == InitRates /\ [][NextRates]_fxVars

-------------------------------------------------------------------------------
(* Properties                                                              *)

(* The rows written join the stored series without a seam: they have the   *)
(* level of the daily provider's, whichever run wrote them, from whichever *)
(* source, and however often a run was killed between two partitions and   *)
(* its own rows became the reference of the next.  The exception is a pair *)
(* that a run reported with normalization_month null.                      *)
OneLevel ==
  \A c \in Currencies \ asIs, day \in RateDays : rates[c][day] \in {NoRate, Level[c]}

(* "Pages that contain only already-seen vault_id values terminate the     *)
(* loop instead of looping forever": the pages with rows are never more    *)
(* than the rows they brought.                                             *)
PagingStops == pages.full <= Cardinality(pages.seen)

===============================================================================
