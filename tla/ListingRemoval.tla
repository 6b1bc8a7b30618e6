---------------------------- MODULE ListingRemoval ----------------------------
(***************************************************************************)
(* The universe catalog and the removal of listings (universe/catalog.py,  *)
(* scripts/refresh_universe.py, scripts/remove_excluded_listings.py): the  *)
(* identifiers that the configuration excludes are taken out of the        *)
(* canonical files one after another, in a run that may be killed between  *)
(* any two of them and started again.                                      *)
(*                                                                         *)
(* A file is represented by the identifiers it has rows or records for.    *)
(* The scripts are run one at a time.  Memberships, names and the summary  *)
(* files, which only report, are left out.                                 *)
(***************************************************************************)
EXTENDS FiniteSets, Disturbances

CONSTANTS
  Ids,           (* security identifiers                                   *)
  Seeds,         (* those of config/universe.yaml                          *)
  Imported,      (* those that the importers derive from a listing         *)
  ListingOf,     (* the ISIN, exchange and ticker of each identifier       *)
  LastPriceFile, LastFile,  (* the partitions, price files first           *)
  MaxDecisions   (* bound: decisions to exclude and restored partitions    *)

Partitions == 1 .. LastFile
PriceFiles == 1 .. LastPriceFile

VARIABLES
  configured,  (* excluded_security_ids of config/universe.yaml            *)
  universe,    (* current_catalog.json: listed and excluded identifiers    *)
  partitions,  (* the Parquet files of prices, dividends and actions       *)
  counted,     (* the rows that a price partition's manifest counts        *)
  backfilled,  (* price_backfill_state.json                                *)
  checkpoints, (* query_checkpoints.json                                   *)
  coverage,    (* dividends/coverage_report.json                           *)
  hosted,      (* the securities of the last pack build                    *)
  removal,     (* what a running removal does next, or "idle"              *)
  at,          (* the partition it has come to                             *)
  removed,     (* history: excluded when a removal ended                   *)
  rebuilt      (* history: packs were built since                          *)

activeVars   == <<backfilled, checkpoints, coverage>>
removalVars  == <<removal, at>>
histVars     == <<removed, rebuilt>>
universeVars == <<configured, universe, partitions, counted, activeVars, hosted, removalVars,
                  histVars, crashes, changes>>

-------------------------------------------------------------------------------
(* The catalog                                                             *)

(* load_catalog: an excluded security of the file is not listed.           *)
Loaded(cat) == [cat EXCEPT !.listed = cat.listed \ cat.excluded]

(* The known security of a listing, or the imported one.                   *)
Known(listed, id) ==
  IF \E other \in listed : ListingOf[other] = ListingOf[id]
  THEN CHOOSE other \in listed : ListingOf[other] = ListingOf[id]
  ELSE id

(* Variant with a bug: the merge does not look at the exclusions.          *)
MergeAnyListing(cat, listings) ==
  [cat EXCEPT !.listed = @ \cup {Known(cat.listed, id) : id \in listings}]

(* merge_current_listings                                                  *)
MergeCurrentListings(cat, listings) ==
  [cat EXCEPT !.listed = @ \cup {Known(cat.listed, id) : id \in listings \ cat.excluded}]

(* refresh_universe.py starts from the configuration, not from the current *)
(* catalog, and replaces that once every importer has answered.            *)
RefreshUniverse ==
  /\ removal = "idle"
  /\ \E listings \in SUBSET Imported :
       universe' = MergeCurrentListings(Loaded([listed |-> Seeds, excluded |-> configured]), listings)
  /\ UNCHANGED <<configured, partitions, counted, activeVars, hosted, removalVars, histVars,
                 crashes, changes>>

-------------------------------------------------------------------------------
(* remove_excluded_listings.py                                             *)

StartRemoval ==
  /\ removal = "idle" /\ configured # {}
  /\ removal' = "rows" /\ at' = 1
  /\ UNCHANGED <<configured, universe, partitions, counted, activeVars, hosted, histVars, crashes, changes>>

NextFile ==
  IF at < LastFile THEN removal' = "rows" /\ at' = at + 1 ELSE removal' = "catalog" /\ UNCHANGED at

(* A partition without excluded rows is passed over, its manifest as well. *)
RemoveRows ==
  /\ removal = "rows"
  /\ IF partitions[at] \cap configured = {}
     THEN NextFile /\ UNCHANGED partitions
     ELSE /\ partitions' = [partitions EXCEPT ![at] = @ \ configured]
          /\ IF at \in PriceFiles THEN removal' = "count" /\ UNCHANGED at ELSE NextFile
  /\ UNCHANGED <<configured, universe, counted, activeVars, hosted, histVars, crashes, changes>>

CountRows ==
  /\ removal = "count"
  /\ counted' = [counted EXCEPT ![at] = partitions[at]]
  /\ NextFile
  /\ UNCHANGED <<configured, universe, partitions, activeVars, hosted, histVars, crashes, changes>>

SaveCatalog ==
  /\ removal = "catalog"
  /\ universe' = Loaded([universe EXCEPT !.excluded = @ \cup configured])
  /\ removal' = "records"
  /\ UNCHANGED <<configured, partitions, counted, activeVars, hosted, at, histVars, crashes, changes>>

DropRecords ==
  /\ removal = "records"
  /\ backfilled' = backfilled \ configured
  /\ removal' = "checkpoints"
  /\ UNCHANGED <<configured, universe, partitions, counted, checkpoints, coverage, hosted, at, histVars,
                 crashes, changes>>

DropCheckpoints ==
  /\ removal = "checkpoints"
  /\ checkpoints' = checkpoints \ configured
  /\ removal' = "coverage"
  /\ UNCHANGED <<configured, universe, partitions, counted, backfilled, coverage, hosted, at, histVars,
                 crashes, changes>>

(* The coverage report is rebuilt for the catalog that was saved.          *)
WriteCoverage ==
  /\ removal = "coverage"
  /\ coverage' = universe.listed
  /\ removal' = "idle" /\ at' = 1
  /\ removed' = removed \cup configured /\ rebuilt' = FALSE
  /\ UNCHANGED <<configured, universe, partitions, counted, backfilled, checkpoints, hosted,
                 crashes, changes>>

-------------------------------------------------------------------------------
(* The other scripts                                                       *)

(* build_data_packs hosts what the catalog lists or has prices, and        *)
(* nothing the catalog excludes.                                           *)
BuildPacks ==
  /\ removal = "idle"
  /\ hosted' = universe.listed \cup ((UNION {partitions[file] : file \in PriceFiles}) \ universe.excluded)
  /\ rebuilt' = TRUE
  /\ UNCHANGED <<configured, universe, partitions, counted, activeVars, removalVars, removed,
                 crashes, changes>>

(* A backfill or an update stores rows and keeps records of a listing.     *)
Collect(id) ==
  /\ removal = "idle" /\ id \in universe.listed
  /\ \E files \in SUBSET Partitions :
       /\ partitions' = [file \in Partitions |->
                            IF file \in files THEN partitions[file] \cup {id} ELSE partitions[file]]
       /\ counted' = [file \in PriceFiles |-> IF file \in files THEN partitions'[file] ELSE counted[file]]
  /\ backfilled' = backfilled \cup {id} /\ checkpoints' = checkpoints \cup {id}
  /\ coverage' = universe.listed
  /\ UNCHANGED <<configured, universe, hosted, removalVars, histVars, crashes, changes>>

(* A listing is excluded in the configuration.                             *)
Exclude(id) ==
  /\ removal = "idle" /\ changes < MaxDecisions
  /\ changes' = changes + 1
  /\ configured' = configured \cup {id}
  /\ UNCHANGED <<universe, partitions, counted, activeVars, hosted, removalVars, histVars, crashes>>

(* An older price partition is put back.                                   *)
RestorePartition(file, ids) ==
  /\ removal = "idle" /\ changes < MaxDecisions
  /\ changes' = changes + 1
  /\ partitions' = [partitions EXCEPT ![file] = ids]
  /\ counted' = [counted EXCEPT ![file] = ids]
  /\ UNCHANGED <<configured, universe, activeVars, hosted, removalVars, histVars, crashes>>

RemovalCrash ==
  /\ removal # "idle" /\ crashes < MaxCrashes
  /\ crashes' = crashes + 1
  /\ removal' = "idle" /\ at' = 1
  /\ UNCHANGED <<configured, universe, partitions, counted, activeVars, hosted, histVars, changes>>

InitListings ==
  /\ configured = {} /\ universe = [listed |-> Seeds, excluded |-> {}]
  /\ partitions = [file \in Partitions |-> {}] /\ counted = [file \in PriceFiles |-> {}]
  /\ backfilled = {} /\ checkpoints = {} /\ coverage = {} /\ hosted = {}
  /\ removal = "idle" /\ at = 1 /\ removed = {} /\ rebuilt = FALSE
  /\ crashes = 0 /\ changes = 0

NextListings ==
  \/ RefreshUniverse \/ StartRemoval \/ RemoveRows \/ CountRows \/ SaveCatalog
  \/ DropRecords \/ DropCheckpoints \/ WriteCoverage \/ BuildPacks
  \/ \E id \in Ids : Collect(id) \/ Exclude(id)
  \/ \E file \in PriceFiles, ids \in SUBSET Ids : RestorePartition(file, ids)
  \/ RemovalCrash

SpecListings == InitListings /\ [][NextListings]_universeVars

-------------------------------------------------------------------------------
(* Properties                                                              *)

(* "These IDs must not return on source refresh", and packs "cannot        *)
(* republish either ID even from an older restored price store": what a    *)
(* removal took out, however often it was killed on the way, stays out of  *)
(* the catalog, of every active record and of the packs built since.       *)
RemovedStaysOut ==
  \A id \in removed :
    /\ id \notin universe.listed /\ id \in universe.excluded
    /\ id \notin backfilled \cup checkpoints \cup coverage
    /\ rebuilt => id \notin hosted

===============================================================================
