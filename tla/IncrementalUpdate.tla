--------------------------- MODULE IncrementalUpdate ---------------------------
(***************************************************************************)
(* scripts/update_incremental.py, run_incremental_update, over the store   *)
(* and the packs of MarketStore.  A run is a sequence of steps between     *)
(* which the process may be killed: each step replaces one file, or reads  *)
(* the provider and the store before the next such write.                  *)
(*                                                                         *)
(* The provider's observations change between runs only: a run reads each  *)
(* series once and reads no series twice, so a change during a run is seen *)
(* as one before it or one after it.                                       *)
(***************************************************************************)
EXTENDS MarketStore

CONSTANTS
  Recon,        (* reconciliation_days; the provider publishes no later    *)
  Selections,   (* choices of --securities                                 *)
  Sinces,       (* choices of --since; 0 is "auto"                         *)
  SkipChoices,  (* choices of --skip-actions                               *)
  Seeded,       (* datasets with an observation on the first day           *)
  MaxPublished, (* bound: observations published, the seeded ones too      *)
  MaxRuns,      (* bound: runs started                                     *)
  MaxTroubles   (* bound: runs killed, queries and pack builds failed      *)

ASSUME IncrementalUpdateAssumption ==
  /\ Recon \in Nat
  /\ Selections \subseteq (SUBSET Securities) \ {{}}
  /\ Sinces \subseteq Nat
  /\ SkipChoices \subseteq BOOLEAN
  /\ Seeded \subseteq Datasets
  /\ MaxPublished \in Nat /\ MaxRuns \in Nat /\ MaxTroubles \in Nat

VARIABLES
  world,        (* rows the provider would answer with                     *)
  today,        (* end_date of a run started now                           *)
  store,        (* rows in data/                                           *)
  report,       (* dividends/coverage_report.json, per security            *)
  checkpoints,  (* corporate_actions/query_checkpoints.json; 0: no entry   *)
  restamped,    (* has the report been rewritten since the last summary?   *)
  packs,        (* pack files, per security and year                       *)
  manifest,     (* pairs that manifest.json lists                          *)
  run,          (* the run in progress, NoRun if none                      *)
  summary,      (* update_summary.json                                     *)
  runs,         (* number of runs started                                  *)
  troubles      (* number of runs killed, of failed queries and builds     *)

files    == <<store, report, checkpoints, restamped, packs, manifest, summary>>
counters == <<runs, troubles>>
vars     == <<world, today, files, run, counters>>

NoRun == [phase |-> "idle", selected |-> {}, since |-> 0, skip |-> FALSE, base |-> 0,
          before |-> {}, coverage |-> [s \in Securities |-> "none"], pending |-> {},
          failed |-> {}, absent |-> {}, empty |-> {}, packError |-> FALSE, fresh |-> {}]

Max2(a, b) == IF a < b THEN b ELSE a
Min2(a, b) == IF a < b THEN a ELSE b

------------------------------------------------------------------------------
(* The provider                                                            *)

(* An observation appears, or is restated, at most Recon days after its    *)
(* date: the premise of the reconciliation window.                         *)
Publish ==
  /\ run = NoRun
  /\ Cardinality(world) < MaxPublished
  /\ \E new \in Rows :
       /\ new.day <= today /\ today <= new.day + Recon
       /\ new.version = 1 + Cardinality({r \in world : Cell(r) = Cell(new)})
       /\ world' = world \cup {new}
  /\ UNCHANGED <<today, files, run, counters>>

Tick ==
  /\ run = NoRun
  /\ today < MaxDay
  /\ today' = today + 1
  /\ UNCHANGED <<world, files, run, counters>>

(* What the provider answers: the latest version of every cell.            *)
Observed == {r \in world : \A q \in world : Cell(q) = Cell(r) => q.version <= r.version}

Answer(set, key, first) == Between(Series(Observed, set, key), first, today)

------------------------------------------------------------------------------
(* The plan of a run                                                       *)

WindowStart(last, since) ==
  IF last = 0 THEN 1
  ELSE Max2(1, IF since # 0 THEN Min2(since, last - Recon) ELSE last - Recon)

PriceStart(s, since) == WindowStart(LastDay(Series(store, "price", s)), since)
RateStart(c, since)  == WindowStart(LastDay(Series(store, "fx", c)), since)

(* Variant with a bug: a query that failed moves the cursor all the same.  *)
CursorOfAnyQuery(s, since) ==
  IF report[s].through # 0 THEN Max2(1, report[s].through - Recon) ELSE 1

DividendStart(s, since) ==
  LET recon == IF since # 0 THEN Max2(Recon, today - since) ELSE Recon
  IN  IF report[s].ok THEN Max2(1, report[s].through - recon) ELSE 1

ActionCursor(s) == Max2(LastDay(Series(store, "action", s)), checkpoints[s])
ActionStart(s, since) == WindowStart(ActionCursor(s), since)

(* _require_complete_pack_baseline *)
CompleteBaseline == PricedPairs(store) \subseteq manifest

Content == [rows |-> store, report |-> report, checkpoints |-> checkpoints]

(* Variant with a bug: the chain goes on whatever happened to the store.   *)
AlwaysContinues == summary.number > 0

(* The store is byte for byte what the previous run left.                  *)
ContinuesChain == /\ summary.number > 0
                  /\ ~restamped
                  /\ summary.content = Content

PackIsCurrent(pair, part) == packs[pair][part] = PackOf(store, report, pair)[part]

(* The parts of a pack that a change key of any kind leads to.             *)
FollowedParts == PackParts \ {"actions"}

------------------------------------------------------------------------------
(* Steps of a run                                                          *)

(* The outcome of one round of queries: failed ones, and ones that the     *)
(* provider answered with a typed absence of history.                      *)
QueryOutcome(keys, mayBeAbsent, failed, absent) ==
  /\ failed \in SUBSET keys
  /\ absent \in SUBSET (IF mayBeAbsent THEN keys \ failed ELSE {})
  /\ troubles + Cardinality(failed) + Cardinality(absent) <= MaxTroubles
  /\ troubles' = troubles + Cardinality(failed) + Cardinality(absent)

Tagged(set, keys) == {<<set, key>> : key \in keys}

(* Plan, check the pack baseline, settle the base id and fetch the prices. *)
Start(selected, since, skip) ==
  /\ run = NoRun
  /\ runs < MaxRuns
  /\ CompleteBaseline
  /\ \E failed, absent \in SUBSET selected :
       LET answers == [s \in selected \ (failed \cup absent) |->
                         Answer("price", s, PriceStart(s, since))]
       IN /\ QueryOutcome(selected, TRUE, failed, absent)
          /\ run' = [NoRun EXCEPT
               !.phase = "price", !.selected = selected, !.since = since, !.skip = skip,
               !.base = IF ContinuesChain THEN summary.id ELSE 0,
               !.before = store,
               !.coverage = [s \in Securities |-> report[s].status],
               !.pending = UNION {answers[s] : s \in DOMAIN answers},
               !.failed = Tagged("price", failed), !.absent = Tagged("price", absent),
               !.empty = {s \in DOMAIN answers : answers[s] = {}},
               !.fresh = {pair \in Pairs : \A part \in FollowedParts : PackIsCurrent(pair, part)}]
  /\ runs' = runs + 1
  /\ UNCHANGED <<world, today, files>>

(* One atomic file replacement of the dataset in hand.                     *)
WritePartition ==
  /\ run.phase \in Datasets
  /\ \E part \in NextPartitions(run.phase, run.pending) :
       /\ part # {}
       /\ store' = Upsert(store, part)
       /\ run' = [run EXCEPT !.pending = @ \ part]
  /\ UNCHANGED <<world, today, report, checkpoints, restamped, packs, manifest, summary, counters>>

(* Sweep the keys of one dataset, each from its first day, and go on to     *)
(* write what they answered.                                               *)
Query(phase, set, keys, mayBeAbsent, start, emptyFails) ==
  /\ run.phase = phase
  /\ run.pending = {}
  /\ \E failed, absent \in SUBSET keys :
       LET answers == [k \in keys \ (failed \cup absent) |-> Answer(set, k, start[k])]
           silent  == {k \in DOMAIN answers : emptyFails /\ answers[k] = {}}
       IN /\ QueryOutcome(keys, mayBeAbsent, failed, absent)
          /\ run' = [run EXCEPT
               !.phase = set,
               !.pending = UNION {answers[k] : k \in DOMAIN answers},
               !.failed = @ \cup Tagged(set, failed \cup silent),
               !.absent = @ \cup Tagged(set, absent)]
  /\ UNCHANGED <<world, today, files, runs>>

QueryDividends ==
  LET start == [s \in run.selected |-> DividendStart(s, run.since)]
  IN  Query("price", "dividend", run.selected, TRUE, start, FALSE)

Rejected(set) == {s \in Securities : <<set, s>> \in run.failed \cup run.absent}

QueriedRecord(s) ==
  IF s \in Rejected("dividend")
  THEN [status |-> "provider_error", ok |-> FALSE, through |-> today]
  ELSE [status |-> IF Series(store, "dividend", s) # {} THEN "data" ELSE "no_events",
        ok |-> TRUE, through |-> today]

RecordAfter(s) ==
  IF s \in run.selected THEN QueriedRecord(s)
  ELSE [report[s] EXCEPT !.status = IF @ = "none" THEN "unknown" ELSE @]

(* write_coverage_report, after every row of the sweep is stored.          *)
WriteReport ==
  /\ run.phase = "dividend"
  /\ run.pending = {}
  /\ report' = [s \in Securities |-> RecordAfter(s)]
  /\ restamped' = TRUE
  /\ run' = [run EXCEPT !.phase = IF run.skip THEN "checkpointed" ELSE "reported"]
  /\ UNCHANGED <<world, today, store, checkpoints, packs, manifest, summary, counters>>

QueryActions ==
  LET start == [s \in run.selected |-> ActionStart(s, run.since)]
  IN  Query("reported", "action", run.selected, TRUE, start, FALSE)

CheckpointAfter(s) ==
  IF s \in run.selected \ Rejected("action") THEN today ELSE checkpoints[s]

WriteCheckpoints ==
  /\ run.phase = "action"
  /\ run.pending = {}
  /\ checkpoints' = [s \in Securities |-> CheckpointAfter(s)]
  /\ run' = [run EXCEPT !.phase = "checkpointed"]
  /\ UNCHANGED <<world, today, store, report, restamped, packs, manifest, summary, counters>>

QueryRates ==
  LET currencies == {CurrencyOf[s] : s \in run.selected} \ {SGD}
      start      == [c \in currencies |-> RateStart(c, run.since)]
  IN  Query("checkpointed", "fx", currencies, FALSE, start, TRUE)

------------------------------------------------------------------------------
(* Change keys and the packs they touch                                    *)

(* Rows that are new or differ from the start of the run.                  *)
Changed == store \ run.before

Restated(row) == \E q \in run.before : Cell(q) = Cell(row)

(* _coverage_change_keys: a first report that claims no failure is no      *)
(* change.                                                                 *)
CoverageChanged ==
  {s \in Securities : /\ report[s].status # run.coverage[s]
                      /\ run.coverage[s] # "none" \/ report[s].status = "provider_error"}

NoChange == Changed = {} /\ CoverageChanged = {}

(* Variant with a bug: only the year of the rate itself is looked at.      *)
RateYearOnly ==
  {pair \in PricedPairs(store) :
     \E r \in Changed :
       /\ r.set = "fx" /\ r.key = CurrencyOf[pair[1]]
       /\ pair[1] \in run.selected
       /\ pair[2] = YearOf(r.day)
       /\ Restated(r) \/ r.day <= LastDay(Series(run.before, "price", pair[1]))}

(* _fx_touches: currencies are looked up among the selected securities.    *)
FxTouched ==
  {pair \in PricedPairs(store) :
     \E r \in Changed :
       /\ r.set = "fx" /\ r.key = CurrencyOf[pair[1]]
       /\ pair[1] \in run.selected
       /\ pair[2] \in {YearOf(r.day), YearOf(r.day + Lookback)}
       /\ Restated(r) \/ r.day <= LastDay(Series(run.before, "price", pair[1]))}

(* _touched_pairs *)
Touched ==
  {<<r.key, YearOf(r.day)>> : r \in {c \in Changed : c.set # "fx"}}
    \cup {pair \in PricedPairs(store) : pair[1] \in CoverageChanged}
    \cup FxTouched

(* --security and --years select the product of the two.                   *)
BuildScope ==
  {pair \in PricedPairs(store) : /\ \E t \in Touched : t[1] = pair[1]
                                 /\ \E t \in Touched : t[2] = pair[2]}

Precedes(p, q) == p[1] < q[1] \/ (p[1] = q[1] /\ p[2] < q[2])

Copied(done) == [pair \in Pairs |-> IF pair \in done THEN PackOf(store, report, pair)
                                                     ELSE packs[pair]]

(* Variant with a bug: the manifest is written before the packs.           *)
ManifestFirst(built) == manifest \cup BuildScope

ManifestAfter(built) == IF built THEN manifest \cup BuildScope ELSE manifest

(* The scoped build copies pack after pack and writes the manifest last.   *)
BuildPacks ==
  /\ run.phase = "fx"
  /\ run.pending = {}
  /\ \/ /\ packs' = Copied(BuildScope)
        /\ manifest' = ManifestAfter(TRUE)
        /\ run' = [run EXCEPT !.phase = "built"]
        /\ UNCHANGED troubles
     \/ /\ Touched # {}
        /\ troubles < MaxTroubles
        /\ troubles' = troubles + 1
        /\ \E done \in SUBSET BuildScope :
             /\ \A p \in BuildScope, q \in done : Precedes(p, q) => p \in done
             /\ packs' = Copied(done)
        /\ manifest' = ManifestAfter(FALSE)
        /\ run' = [run EXCEPT !.phase = "built", !.packError = TRUE]
  /\ UNCHANGED <<world, today, store, report, checkpoints, restamped, summary, runs>>

(* summary["complete"]: the run may be published.                          *)
Complete ==
  /\ run.failed = {}
  /\ run.empty = {}
  /\ ~run.skip
  /\ ~run.packError
  /\ \E s \in run.selected : <<"price", s>> \notin run.absent

(* The id is kept by an empty change set, and new otherwise: ids are named *)
(* by the run that first reports them.                                     *)
Finish ==
  /\ run.phase = "built"
  /\ summary' = [number |-> runs, ready |-> Complete, content |-> Content,
                 id |-> IF run.base # 0 /\ NoChange THEN run.base ELSE runs]
  /\ restamped' = FALSE
  /\ run' = NoRun
  /\ UNCHANGED <<world, today, store, report, checkpoints, packs, manifest, counters>>

(* The process is killed between two steps.                                *)
Crash ==
  /\ run # NoRun
  /\ troubles < MaxTroubles
  /\ troubles' = troubles + 1
  /\ run' = NoRun
  /\ UNCHANGED <<world, today, files, runs>>

(* The operator runs build_data_packs.py without a scope.                  *)
FullBuild ==
  /\ run = NoRun
  /\ packs' = [pair \in Pairs |-> PackOf(store, report, pair)]
  /\ manifest' = PricedPairs(store)
  /\ UNCHANGED <<world, today, store, report, checkpoints, restamped, run, summary, counters>>

------------------------------------------------------------------------------
Init ==
  /\ world = {r \in Rows : r.set \in Seeded /\ r.day = 1 /\ r.version = 1}
  /\ today = 1 /\ store = {}
  /\ report = [s \in Securities |-> [status |-> "none", ok |-> FALSE, through |-> 0]]
  /\ checkpoints = [s \in Securities |-> 0]
  /\ restamped = FALSE
  /\ packs = [pair \in Pairs |-> PackOf({}, report, pair)]
  /\ manifest = {}
  /\ run = NoRun
  /\ summary = [number |-> 0, ready |-> FALSE, content |-> Content, id |-> 0]
  /\ runs = 0 /\ troubles = 0

StartAny == \E selected \in Selections, since \in Sinces, skip \in SkipChoices :
              Start(selected, since, skip)

Next ==
  \/ Publish \/ Tick \/ FullBuild
  \/ StartAny \/ WritePartition
  \/ QueryDividends \/ WriteReport
  \/ QueryActions \/ WriteCheckpoints
  \/ QueryRates \/ BuildPacks \/ Finish
  \/ Crash

Spec == Init /\ [][Next]_vars

------------------------------------------------------------------------------
(* The day up to which the cursor of a series says it has been queried.    *)
Frontier(set, key) ==
  CASE set = "dividend" -> IF report[key].ok THEN report[key].through ELSE 0
    [] set = "action"   -> ActionCursor(key)
    [] OTHER            -> LastDay(Series(store, set, key))

Settled(set) ==
  \A r \in Observed : r.set = set /\ r.day + Recon < Frontier(set, r.key) => r \in store

(* No observation is lost behind a cursor: once the next window of a series *)
(* starts after a day, what the provider says of that day is in the store,  *)
(* whatever runs failed or were killed between two partition writes.        *)
CursorsSkipNothing == Settled("price") /\ Settled("dividend") /\ Settled("fx")

(* A run that is reported complete has brought the prices, dividends and    *)
(* rates of its securities to what the provider says, earlier killed or     *)
(* failed runs notwithstanding ("never report missing observations as       *)
(* publishable", update_succeeded).                                         *)
CompleteMeansUpToDate ==
  run.phase = "built" /\ Complete =>
    \A r \in Observed :
      /\ r.set \in {"price", "dividend"} => r.key \in run.selected
      /\ r.set = "fx" => \E s \in run.selected : CurrencyOf[s] = r.key
      /\ r.set # "action" /\ <<r.set, r.key>> \notin run.absent
      => r \in store

(* A pack of a selected security that was current when a run began is       *)
(* current when its build succeeded: the change keys, the FX windows and    *)
(* the coverage keys miss no pack (prices, dividends, FX block, failure     *)
(* flag of the dividend coverage).                                          *)
PacksFollowTheStore ==
  run.phase = "built" /\ ~run.packError =>
    \A pair \in run.fresh : pair[1] \in run.selected =>
      \A part \in FollowedParts : PackIsCurrent(pair, part)

(* A price in the store but in no pack is never left unnoticed: a pair that *)
(* has no entry in the manifest stops the next run at its baseline check.   *)
NoPackIsForgotten ==
  run = NoRun /\ CompleteBaseline =>
    \A pair \in PricedPairs(store) : packs[pair].prices # {}

(* Two summaries with one incremental id describe one store: an empty       *)
(* change set keeps the id only when nothing changed since it was issued,   *)
(* by a killed run included.                                                *)
SameIdSameStore ==
  [][summary'.id = summary.id /\ summary' # summary =>
       summary'.content.rows = summary.content.rows]_vars

------------------------------------------------------------------------------
(* What the documents say and the code does not do                         *)

(* "Re-runs are safe by construction" (docs/incremental-updates.md): a      *)
(* complete run leaves the packs of its securities with the prices of the   *)
(* store.  A run killed after a store write, or whose pack build failed,    *)
(* leaves a change that the next run no longer sees as one.                 *)
CompleteMeansPacksAreCurrent ==
  run.phase = "built" /\ Complete =>
    \A pair \in Pairs : pair[1] \in run.selected => PackIsCurrent(pair, "prices")

==============================================================================
