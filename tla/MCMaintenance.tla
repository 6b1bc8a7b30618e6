----------------------------- MODULE MCMaintenance -----------------------------
(* Instances of the scripts that are run by hand, each over files of its   *)
(* own: the price, dividend and exchange rate backfills, the build and     *)
(* pruning of the packs, and the removal of listings with the refresh of   *)
(* their catalog.  A behaviour is one of a single script's runs.           *)
EXTENDS PriceBackfill, DividendBackfill, FxHistory, PackPublication, ListingRemoval

VARIABLE script

priceVars   == <<dataVars, catalog, today, runVars, asked>>
payoutVars  == <<published, policy, listings, clock, archive, report, dividendPhase, queryVars, fetched>>
rateVars    == <<rates, pairVars, asIs>>
packVars    == <<snapshot, fileVars, taskVars, replaced, consistent>>
listingVars == <<configured, universe, partitions, counted, activeVars, hosted, removalVars, histVars>>

(* Prices: two listings of one market and one of another, batches of two,  *)
(* years of two days.                                                      *)
MCMarketOf  == [s \in Securities |-> IF s < 3 THEN 1 ELSE 2]
MCHistories == {{}, {1, 2, 3}, {1, 3}}

(* Dividends: one listing, years of one day, a reconciliation window of    *)
(* one day.                                                                *)
Flag(e, v, f, u) == [errorsOnly |-> e, eventsOnly |-> v, full |-> f, includeUnknown |-> u]
MCOptions == {Flag(FALSE, FALSE, FALSE, TRUE), Flag(TRUE, FALSE, FALSE, TRUE),
              Flag(FALSE, TRUE, TRUE, FALSE)}

(* Rates: the euro, in which no price is old enough, and a currency that   *)
(* is required; stored levels other than the ECB's; months and partitions  *)
(* of two days, the last month after the window.                           *)
MCLevel      == <<3, 4>>
MCPrices     == <<{5}, {4}>>
MCQuotes     == {{}, 1 .. 4, 2 .. 6}
MCMirrorRows == {{}, {1}}

(* Packs: a listing in a foreign currency, one of the tier that is not     *)
(* published and one that is excluded; two years of three days, rates of   *)
(* some of four days; merges of one security, and of one year.             *)
MCStores == {[bars |-> <<foreign, {2, 4, 5}, {2, 4, 6}>>, fx |-> days] :
               foreign \in {{2, 3, 4, 6}, {2, 5}}, days \in SUBSET {1, 3, 4, 5}}
MCScopes == {{1} \X AllYears, {1, 2} \X {1}}

(* Listings: two identifiers of one listing, the first of them configured; *)
(* one partition of prices and one of events.                              *)
MCListingOf == <<1, 1>>

MCInit ==
  /\ script \in {"prices", "dividends", "rates", "packs", "listings"}
  /\ Init /\ InitDividends /\ InitRates /\ InitPublication /\ InitListings
  /\ script = "dividends" \/ policy = [s \in Payers |-> "unknown"]
  /\ script = "packs" \/ snapshot = CHOOSE st \in MCStores : TRUE

MCNext ==
  /\ \/ /\ script = "prices" /\ Next
        /\ UNCHANGED <<payoutVars, rateVars, packVars, listingVars>>
     \/ /\ script = "dividends" /\ NextDividends
        /\ UNCHANGED <<priceVars, rateVars, packVars, listingVars>>
     \/ /\ script = "rates" /\ NextRates
        /\ UNCHANGED <<priceVars, payoutVars, packVars, listingVars, changes>>
     \/ /\ script = "packs" /\ NextPublication
        /\ UNCHANGED <<priceVars, payoutVars, rateVars, listingVars>>
     \/ /\ script = "listings" /\ NextListings
        /\ UNCHANGED <<priceVars, payoutVars, rateVars, packVars>>
  /\ UNCHANGED script

MCSpec == MCInit /\ [][MCNext]_<<vars, script, payoutVars, rateVars, packVars, listingVars>>

===============================================================================
