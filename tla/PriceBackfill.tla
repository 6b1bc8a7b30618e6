----------------------------- MODULE PriceBackfill -----------------------------
(***************************************************************************)
(* The resumable download of missing price histories (data/backfill.py,    *)
(* run_price_backfill.py and reconcile_price_backfill_state.py): one       *)
(* process at a time, its Parquet store and its state file, killed at any  *)
(* point and started again.                                                *)
(*                                                                         *)
(* A price history is the set of its trading days; a day of the model is a *)
(* business day.  Of a record the fields the decisions read are kept; the  *)
(* summary file, the warnings and the error texts only report.             *)
(***************************************************************************)
EXTENDS Integers, FiniteSetsExt, Disturbances

CONSTANTS
  Securities,   (* listings, numbered in the order of their tickers        *)
  MarketOf,     (* the market of each, numbered in the order of their names *)
  MaxAttempts,  (* MAX_ATTEMPTS                                            *)
  MinBars,      (* MIN_ACTIVE_PRICE_BARS                                   *)
  MaxStale,     (* MAX_ACTIVE_PRICE_STALENESS_BUSINESS_DAYS                *)
  MaxGap,       (* MAX_INTERNAL_PRICE_GAP_SESSIONS                         *)
  BatchSize,    (* batch_size                                              *)
  Histories,    (* what the provider may know of a listing; {}: no outcome *)
  MaxDay,       (* bound: the last day                                     *)
  DaysPerYear   (* length of a year partition                              *)

ASSUME PriceBackfillAssumption ==
  /\ Securities \subseteq Nat /\ IsFiniteSet(Securities)
  /\ MarketOf \in [Securities -> Nat]
  /\ MaxAttempts \in Nat \ {0} /\ MinBars \in Nat \ {0}
  /\ MaxStale \in Nat /\ MaxGap \in Nat
  /\ BatchSize \in Nat \ {0} /\ MaxDay \in Nat \ {0} /\ DaysPerYear \in Nat \ {0}
  /\ Histories \subseteq SUBSET (1 .. MaxDay)
  /\ MaxCrashes \in Nat /\ MaxChanges \in Nat

Days        == 1 .. MaxDay
YearOf(day) == (day - 1) \div DaysPerYear
Statuses    == {"pending", "failed", "incomplete", "stored", "unavailable"}
Records     == [status : Statuses \cup {"absent"}, attempts : 0 .. MaxAttempts, listed : BOOLEAN]
Absent      == [status |-> "absent", attempts |-> 0, listed |-> FALSE]

VARIABLES
  store,    (* canonical price rows: the days stored for each security     *)
  file,     (* price_backfill_state.json                                   *)
  catalog,  (* the current universe catalog                                *)
  today,
  job,      (* the running script, or "none"                               *)
  phase,    (* what it does next                                           *)
  records,  (* state["securities"], in memory                              *)
  scanned,  (* the rows the run found when it started                      *)
  left,     (* candidates whose batch is still to come                     *)
  batch,    (* the batch in flight                                         *)
  answer,   (* rows_by_security, {} for a security without an outcome      *)
  unwritten,(* its rows whose partition is not replaced yet                *)
  asked     (* history: provider requests made for a security              *)

dataVars == <<store, file>>
envVars  == <<catalog, today, changes>>
runVars  == <<job, phase, records, scanned, left, batch, answer, unwritten>>
vars     == <<dataVars, envVars, runVars, asked, crashes>>

-------------------------------------------------------------------------------
(* Coverage of the store                                                   *)

(* The observed session calendar of a market.                              *)
Sessions(rows, market) == UNION {rows[s] : s \in {t \in Securities : MarketOf[t] = market}}

(* Two consecutive stored days with too many sessions between them.        *)
HasGap(days, sessions) ==
  \E first, next \in days :
    /\ \A day \in days : day <= first \/ next <= day
    /\ Cardinality({day \in sessions : first < day /\ day < next}) > MaxGap

(* _coverage_status: by its number of bars, its gaps and its last day.     *)
CoverageStatus(bars, gap, last) ==
  IF bars < MinBars \/ gap \/ today - last > MaxStale THEN "incomplete" ELSE "stored"

StatusOf(rows, s) ==
  CoverageStatus(Cardinality(rows[s]), HasGap(rows[s], Sessions(rows, MarketOf[s])), Max(rows[s]))

Covered(rows, s) == rows[s] # {} /\ StatusOf(rows, s) = "stored"

-------------------------------------------------------------------------------
(* The state file against the store and the catalog                        *)

(* Variant with a bug: the recorded status of a stored history is kept, so *)
(* what a crash left unrecorded is not recognised.                         *)
ReconcileKeepingStatus(recs) ==
  [s \in Securities |->
     IF s \notin catalog THEN [recs[s] EXCEPT !.listed = FALSE]
     ELSE [status   |-> IF store[s] # {} /\ recs[s].status = "absent" THEN StatusOf(store, s)
                        ELSE IF recs[s].status \in {"stored", "absent"} /\ store[s] = {} THEN "pending"
                        ELSE recs[s].status,
           attempts |-> recs[s].attempts, listed |-> TRUE]]

(* load_or_reconcile_state: stored rows decide the status, whatever the    *)
(* record says; without rows only a "stored" one falls back to pending.    *)
(* The attempts of a known security survive either way.                    *)
Reconcile(recs) ==
  [s \in Securities |->
     IF s \notin catalog THEN [recs[s] EXCEPT !.listed = FALSE]
     ELSE [status   |-> IF store[s] # {} THEN StatusOf(store, s)
                        ELSE IF recs[s].status \in {"stored", "absent"} THEN "pending"
                        ELSE recs[s].status,
           attempts |-> recs[s].attempts, listed |-> TRUE]]

(* backfill_missing_prices: the securities a run asks the provider for.    *)
Wanted(record) ==
  /\ record.status \in {"pending", "failed", "incomplete"}
  /\ record.attempts < MaxAttempts

Candidates(recs) == {s \in catalog : Wanted(recs[s])}

(* The next batch: market by market, batch_size tickers at a time.         *)
NextBatch ==
  LET market == Min({MarketOf[s] : s \in left})
      peers  == {s \in left : MarketOf[s] = market}
  IN  {s \in peers : Cardinality({t \in peers : t < s}) < BatchSize}

-------------------------------------------------------------------------------
(* One run                                                                 *)

NoAnswer == [s \in Securities |-> {}]

(* Coverage is scanned, the state is loaded and reconciled, in memory.     *)
Start(script) ==
  /\ phase = "idle"
  /\ job' = script /\ phase' = "open"
  /\ scanned' = store
  /\ records' = Reconcile(file)
  /\ left' = IF script = "backfill" THEN Candidates(records') ELSE {}
  /\ UNCHANGED <<dataVars, envVars, batch, answer, unwritten, asked, crashes>>

(* run_price_backfill.py                                                   *)
BackfillMissingPrices == Start("backfill")

(* reconcile_price_backfill_state.py                                       *)
ReconcileState == Start("reconcile")

(* The reconciled state is persisted before the first request; for the     *)
(* maintenance script that is all.                                         *)
Persist ==
  /\ phase = "open"
  /\ file' = records
  /\ IF job = "backfill" THEN phase' = "fetch" /\ UNCHANGED <<job, scanned>>
     ELSE phase' = "idle" /\ job' = "none" /\ scanned' = NoAnswer
  /\ UNCHANGED <<store, envVars, records, left, batch, answer, unwritten, asked, crashes>>

(* provider.get_prices_batch: every ticker of the batch is asked for from  *)
(* the start of history and answered with rows or with no outcome.         *)
Fetch ==
  /\ phase = "fetch" /\ left # {}
  /\ phase' = "upsert"
  /\ batch' = NextBatch /\ left' = left \ batch'
  /\ asked' = [s \in Securities |-> IF s \in batch' THEN asked[s] + 1 ELSE asked[s]]
  /\ \E known \in [batch' -> Histories] :
       answer' = [s \in Securities |-> IF s \in batch' THEN known[s] \cap (1 .. today) ELSE {}]
  /\ unwritten' = answer'
  /\ UNCHANGED <<dataVars, envVars, job, records, scanned, crashes>>

(* store.upsert_prices replaces the year partitions one after another.     *)
Upsert ==
  /\ phase = "upsert"
  /\ LET days == UNION {unwritten[s] : s \in Securities}
         now  == {day \in days : \A other \in days : YearOf(day) <= YearOf(other)}
     IN  /\ store' = [s \in Securities |-> store[s] \cup (unwritten[s] \cap now)]
         /\ unwritten' = [s \in Securities |-> unwritten[s] \ now]
         /\ phase' = IF days = now THEN "record" ELSE "upsert"
  /\ UNCHANGED <<file, envVars, job, records, scanned, left, batch, answer, asked, crashes>>

(* Variant with a bug: the last but one attempt already gives a ticker up. *)
GivingUpEarly(s) ==
  LET attempts == records[s].attempts + 1
      rows     == scanned[s] \cup answer[s]
  IN  [records[s] EXCEPT !.attempts = attempts,
         !.status = IF answer[s] # {}
                    THEN CoverageStatus(Cardinality(scanned[s]) + Cardinality(answer[s]), FALSE, Max(rows))
                    ELSE IF attempts + 1 >= MaxAttempts THEN "unavailable" ELSE "failed"]

(* Variant with a bug: only failed requests count as attempts.             *)
CountingFailures(s) ==
  LET attempts == IF answer[s] = {} THEN records[s].attempts + 1 ELSE records[s].attempts
      rows     == scanned[s] \cup answer[s]
  IN  [records[s] EXCEPT !.attempts = attempts,
         !.status = IF answer[s] # {}
                    THEN CoverageStatus(Cardinality(scanned[s]) + Cardinality(answer[s]), FALSE, Max(rows))
                    ELSE IF attempts >= MaxAttempts THEN "unavailable" ELSE "failed"]

(* The outcome of one security of the batch.  The bars it had are added to *)
(* those fetched, although they may overlap, and gaps are not known here:  *)
(* the status is provisional until the reconciliation at the end.          *)
Outcome(s) ==
  LET attempts == records[s].attempts + 1
      rows     == scanned[s] \cup answer[s]
  IN  [records[s] EXCEPT !.attempts = attempts,
         !.status = IF answer[s] # {}
                    THEN CoverageStatus(Cardinality(scanned[s]) + Cardinality(answer[s]), FALSE, Max(rows))
                    ELSE IF attempts >= MaxAttempts THEN "unavailable" ELSE "failed"]

Record ==
  /\ phase = "record"
  /\ records' = [s \in Securities |-> IF s \in batch THEN Outcome(s) ELSE records[s]]
  /\ file' = records'
  /\ phase' = "fetch" /\ batch' = {} /\ answer' = NoAnswer
  /\ UNCHANGED <<store, envVars, job, scanned, left, unwritten, asked, crashes>>

(* After the last batch the persisted state is reconciled once more.       *)
Finish ==
  /\ phase = "fetch" /\ left = {}
  /\ records' = Reconcile(file) /\ file' = records'
  /\ phase' = "idle" /\ job' = "none" /\ scanned' = NoAnswer
  /\ UNCHANGED <<store, envVars, left, batch, answer, unwritten, asked, crashes>>

-------------------------------------------------------------------------------
(* The surroundings                                                        *)

(* The process is killed, or the provider or the store raises.             *)
Crash ==
  /\ phase # "idle" /\ crashes < MaxCrashes
  /\ crashes' = crashes + 1
  /\ phase' = "idle" /\ job' = "none" /\ left' = {} /\ batch' = {}
  /\ answer' = NoAnswer /\ unwritten' = NoAnswer
  /\ records' = file /\ scanned' = NoAnswer
  /\ UNCHANGED <<dataVars, envVars, asked>>

(* Between two runs: a day passes, the universe is refreshed, a canonical  *)
(* partition is removed.                                                   *)
NewDay ==
  /\ phase = "idle" /\ today < MaxDay
  /\ today' = today + 1
  /\ UNCHANGED <<dataVars, runVars, catalog, changes, asked, crashes>>

RefreshCatalog ==
  /\ phase = "idle" /\ changes < MaxChanges
  /\ changes' = changes + 1
  /\ catalog' \in SUBSET Securities
  /\ UNCHANGED <<dataVars, runVars, today, asked, crashes>>

LosePartition ==
  /\ phase = "idle" /\ changes < MaxChanges
  /\ changes' = changes + 1
  /\ \E market \in {MarketOf[s] : s \in Securities}, year \in {YearOf(day) : day \in Days} :
       store' = [s \in Securities |-> IF MarketOf[s] # market THEN store[s]
                                      ELSE {day \in store[s] : YearOf(day) # year}]
  /\ UNCHANGED <<file, runVars, catalog, today, asked, crashes>>

Init ==
  /\ store = NoAnswer /\ file = [s \in Securities |-> Absent]
  /\ catalog = Securities /\ today = 1 /\ changes = 0
  /\ job = "none" /\ phase = "idle"
  /\ records = file /\ scanned = NoAnswer
  /\ left = {} /\ batch = {} /\ answer = NoAnswer /\ unwritten = NoAnswer
  /\ asked = [s \in Securities |-> 0] /\ crashes = 0

Next ==
  \/ BackfillMissingPrices \/ ReconcileState
  \/ Persist \/ Fetch \/ Upsert \/ Record \/ Finish
  \/ Crash \/ NewDay \/ RefreshCatalog \/ LosePartition

Spec == Init /\ [][Next]_vars

-------------------------------------------------------------------------------
(* Properties                                                              *)

TypeOK ==
  /\ store \in [Securities -> SUBSET Days]
  /\ file \in [Securities -> Records] /\ records \in [Securities -> Records]
  /\ catalog \subseteq Securities /\ today \in Days /\ changes \in Nat
  /\ job \in {"none", "backfill", "reconcile"}
  /\ phase \in {"idle", "open", "fetch", "upsert", "record"}
  /\ scanned \in [Securities -> SUBSET Days]
  /\ left \subseteq Securities /\ batch \subseteq Securities
  /\ answer \in [Securities -> SUBSET Days] /\ unwritten \in [Securities -> SUBSET Days]
  /\ asked \in [Securities -> Nat] /\ crashes \in Nat

(* MAX_ATTEMPTS bounds the provider requests for a security across all     *)
(* process invocations: only a request whose run was killed before the     *)
(* state was written goes uncounted.                                       *)
RequestsAreCounted == \A s \in Securities : asked[s] <= MaxAttempts + crashes

(* "A process interruption must never turn an unknown ticker into a        *)
(* silently skipped ticker": whatever the last run left behind, a catalog  *)
(* security that is not covered and was asked for less than MAX_ATTEMPTS   *)
(* times is a candidate of a run that starts now.                          *)
UnknownIsNeverSkipped ==
  \A s \in catalog : ~Covered(store, s) /\ asked[s] < MaxAttempts => Wanted(Reconcile(file)[s])

(* "Nor cause already-stored histories to be downloaded again": what a     *)
(* run is still going to ask for is not covered by the store, also after a *)
(* crash between the Parquet write and the state write, and although the   *)
(* session calendar changes with the batches written before.               *)
NothingStoredIsAskedAgain == phase = "fetch" => \A s \in left : ~Covered(store, s)

===============================================================================
