--------------------------- MODULE DividendBackfill ---------------------------
(***************************************************************************)
(* The dividend archive and its coverage report (data/dividend_backfill.py,*)
(* data/dividend_quality.py, backfill_dividends.py and                     *)
(* audit_dividend_coverage.py).  A run asks the provider on a thread pool, *)
(* writes the archive once every answer is in, and writes the report, the  *)
(* checkpoint of the next run, last; it may be killed in between.          *)
(*                                                                         *)
(* An event is its ex-date.  Of a record the fields the decisions read are *)
(* kept; the amounts, gaps and other figures of the report are left out.   *)
(* A failure is taken to have a text: backfill_dividends decides by        *)
(* `if error:' (line 244), so one without any would count as a success.    *)
(***************************************************************************)
EXTENDS Integers, FiniteSetsExt, Disturbances

CONSTANTS
  Payers,     (* securities                                                *)
  Policies,   (* bound: the distribution policies that occur               *)
  Horizon,    (* bound: the last day; day 1 is the start of history        *)
  DaysPerArchive, (* length of a year                                      *)
  Recon,      (* reconciliation_days                                       *)
  Delay,      (* how late the provider may publish an event                *)
  Retries,    (* retries                                                   *)
  Options,    (* bound: the combinations of command-line flags used        *)
  Lags        (* bound: how many days before today --end-date may lie      *)

Flags == [errorsOnly : BOOLEAN, eventsOnly : BOOLEAN, full : BOOLEAN, includeUnknown : BOOLEAN]

EventDays      == 1 .. Horizon
EventYear(day) == (day - 1) \div DaysPerArchive
CoverageStatuses ==
  {"data_available", "data_available_policy_unknown", "known_accumulating",
   "known_non_distributing", "known_distributing_with_no_events",
   "dividend_data_missing", "provider_error", "unknown"}

(* through is 0 before the first query.                                    *)
CoverageRecords == [status : CoverageStatuses, ok : BOOLEAN, through : 0 .. Horizon]
NoRecord        == [status |-> "no record", ok |-> FALSE, through |-> 0]

VARIABLES
  published,  (* the events the provider serves                            *)
  policy,     (* distribution policy of each security in the catalog       *)
  listings,   (* the current universe catalog                              *)
  clock,      (* today                                                     *)
  archive,    (* the stored events                                         *)
  report,     (* coverage_report.json                                      *)
  dividendPhase, (* idle, ask or write                                     *)
  flags,      (* of the run                                                *)
  end,        (* its end_date                                              *)
  start,      (* its query start for each security                         *)
  outcome,    (* its result for each security                              *)
  tries,      (* attempts of the call in progress                          *)
  fetched     (* fetched events whose partition is not replaced yet        *)

sourceVars == <<published, policy, listings, clock, changes>>
queryVars  == <<flags, end, start, outcome, tries>>
dividendVars ==
  <<sourceVars, archive, report, dividendPhase, queryVars, fetched, crashes>>

NoFlags == [errorsOnly |-> FALSE, eventsOnly |-> FALSE, full |-> FALSE, includeUnknown |-> FALSE]

(* A finished or killed run leaves nothing of its memory.                  *)
Leave ==
  /\ dividendPhase' = "idle" /\ flags' = NoFlags
  /\ end' = 0 /\ start' = [s \in Payers |-> 0]
  /\ outcome' = [s \in Payers |-> "none"] /\ tries' = [s \in Payers |-> 0]
  /\ fetched' = [s \in Payers |-> {}]

-------------------------------------------------------------------------------
(* The coverage report                                                     *)

Available(s) == IF policy[s] = "distributing" THEN "data_available"
                                              ELSE "data_available_policy_unknown"
WithoutEvents(s) == IF policy[s] = "distributing" THEN "known_distributing_with_no_events"
                                                  ELSE "unknown"
KnownPolicy(s) == IF policy[s] = "accumulating" THEN "known_accumulating"
                                                ELSE "known_non_distributing"

(* _archive_stats: whether a security has stored events.                   *)
HasEvents(s) == archive[s] # {}

Pays(s) == policy[s] \notin {"accumulating", "non_distributing"}

(* Variant with a bug: no stored event is taken for a confirmed zero.      *)
StatusOfSilence(s, prior) ==
  IF ~Pays(s) THEN KnownPolicy(s)
  ELSE IF HasEvents(s) THEN Available(s)
  ELSE IF prior.status = "provider_error" THEN "provider_error"
  ELSE WithoutEvents(s)

(* _status_for: the policy first, then the stored events, then what is     *)
(* known of the last query.                                                *)
StatusFor(s, prior) ==
  IF ~Pays(s) THEN KnownPolicy(s)
  ELSE IF HasEvents(s) THEN Available(s)
  ELSE IF prior.status = "provider_error" THEN "provider_error"
  ELSE IF prior.ok THEN WithoutEvents(s)
  ELSE IF policy[s] = "distributing" THEN "dividend_data_missing"
  ELSE "unknown"

(* build_dividend_coverage: the records of the current catalog from the    *)
(* archive and the persisted report; a listing that left has no record.    *)
Coverage ==
  [s \in Payers |->
     IF s \in listings THEN [report[s] EXCEPT !.status = StatusFor(s, report[s])] ELSE NoRecord]

-------------------------------------------------------------------------------
(* A backfill run                                                          *)

(* _query_start: from the start of history, or a few days before the end   *)
(* of the last query if that succeeded.                                    *)
QueryStart(prior, option) ==
  IF ~option.full /\ prior.ok THEN Max({1, prior.through - Recon}) ELSE 1

(* backfill_dividends: the tickers named on the command line, narrowed by  *)
(* the flags against the records rebuilt at the start of the run.          *)
Selected(tickers, option) ==
  {s \in listings \cap tickers :
     /\ option.errorsOnly => Coverage[s].status = "provider_error"
     /\ option.eventsOnly => HasEvents(s)}

Skipped(s, option) == ~Pays(s) \/ (policy[s] = "unknown" /\ ~option.includeUnknown)

StartQueries(tickers, option) ==
  /\ dividendPhase = "idle"
  /\ dividendPhase' = "ask" /\ flags' = option
  /\ \E lag \in Lags : lag < clock /\ end' = clock - lag
  /\ start' = [s \in Payers |-> QueryStart(Coverage[s], option)]
  /\ outcome' = [s \in Payers |->
                   IF s \notin Selected(tickers, option) THEN "none"
                   ELSE IF Skipped(s, option) THEN "skipped" ELSE "waiting"]
  /\ tries' = [s \in Payers |-> 0]
  /\ UNCHANGED <<sourceVars, archive, report, fetched, crashes>>

(* backfill_dividends.py                                                   *)
Run == \E tickers \in SUBSET Payers \ {{}}, option \in Flags :
         option \in Options /\ StartQueries(tickers, option)

(* _fetch_dividends on the pool: the calls of different securities proceed *)
(* in any order.                                                           *)
Answered(s) ==
  LET rows == {event \in published[s] : start[s] <= event /\ event <= end}
  IN  /\ outcome' = [outcome EXCEPT ![s] = IF rows = {} THEN "empty" ELSE "rows"]
      /\ fetched' = [fetched EXCEPT ![s] = rows]
      /\ UNCHANGED tries

(* A typed absence ends the call; any other exception, an invalid row      *)
(* included, is retried at once.                                           *)
Absence(s) ==
  /\ outcome' = [outcome EXCEPT ![s] = "error"]
  /\ UNCHANGED <<tries, fetched>>

Fails(s) ==
  /\ IF tries[s] < Retries
     THEN tries' = [tries EXCEPT ![s] = @ + 1] /\ UNCHANGED outcome
     ELSE outcome' = [outcome EXCEPT ![s] = "error"] /\ UNCHANGED tries
  /\ UNCHANGED fetched

Ask(s) ==
  /\ dividendPhase = "ask" /\ outcome[s] = "waiting"
  /\ Answered(s) \/ Absence(s) \/ Fails(s)
  /\ UNCHANGED <<sourceVars, archive, report, dividendPhase, flags, end, start, crashes>>

(* The results are complete: nothing was written before.                   *)
CollectAnswers ==
  /\ dividendPhase = "ask" /\ \A s \in Payers : outcome[s] # "waiting"
  /\ dividendPhase' = "write"
  /\ UNCHANGED <<sourceVars, archive, report, queryVars, fetched, crashes>>

Fetched == UNION {fetched[s] : s \in Payers}

(* store.upsert_dividends: one year's partition is replaced, in the order  *)
(* in which the answers came.                                              *)
WriteEvents ==
  /\ dividendPhase = "write"
  /\ \E first \in Fetched :
       LET year == {event \in EventDays : EventYear(event) = EventYear(first)}
       IN  /\ archive' = [s \in Payers |-> archive[s] \cup (fetched[s] \cap year)]
           /\ fetched' = [s \in Payers |-> fetched[s] \ year]
  /\ UNCHANGED <<sourceVars, report, dividendPhase, queryVars, crashes>>

(* The record of one security after the run: a query moves the checkpoint, *)
(* a failed or skipped one withdraws its success.                          *)
RecordAfter(s, base) ==
  LET queried == outcome[s] \in {"rows", "empty", "error"}
  IN  IF outcome[s] = "none" THEN base
      ELSE [status  |-> IF outcome[s] = "error" THEN "provider_error"
                        ELSE IF outcome[s] = "skipped" /\ ~Pays(s) THEN KnownPolicy(s)
                        ELSE IF HasEvents(s) THEN Available(s)
                        ELSE IF outcome[s] = "empty" THEN WithoutEvents(s)
                        ELSE base.status,
            ok      |-> queried /\ outcome[s] # "error",
            through |-> IF queried THEN end ELSE base.through]

(* Variant with a bug: the report is written before the partitions are.    *)
ReportFirst ==
  /\ dividendPhase = "write"
  /\ report' = [s \in Payers |-> IF s \in listings THEN RecordAfter(s, Coverage[s]) ELSE NoRecord]
  /\ IF Fetched = {} THEN Leave ELSE UNCHANGED <<dividendPhase, queryVars, fetched>>
  /\ UNCHANGED <<sourceVars, archive, crashes>>

(* write_coverage_report, after the last partition.                        *)
WriteReport ==
  /\ dividendPhase = "write" /\ Fetched = {}
  /\ report' = [s \in Payers |-> IF s \in listings THEN RecordAfter(s, Coverage[s]) ELSE NoRecord]
  /\ Leave
  /\ UNCHANGED <<sourceVars, archive, crashes>>

QueryCrash ==
  /\ dividendPhase # "idle" /\ crashes < MaxCrashes
  /\ crashes' = crashes + 1
  /\ Leave
  /\ UNCHANGED <<sourceVars, archive, report>>

-------------------------------------------------------------------------------
(* Between the runs                                                        *)

(* audit_dividend_coverage.py: the report rebuilt without any query.       *)
Audit ==
  /\ dividendPhase = "idle"
  /\ report' = Coverage
  /\ UNCHANGED <<sourceVars, archive, dividendPhase, queryVars, fetched, crashes>>

(* The provider publishes an event, at most Delay days after its ex-date.  *)
Announce(s) ==
  /\ dividendPhase = "idle"
  /\ \E event \in EventDays \ published[s] :
       /\ event <= clock /\ clock <= event + Delay
       /\ published' = [published EXCEPT ![s] = @ \cup {event}]
  /\ UNCHANGED <<policy, listings, clock, changes, archive, report, dividendPhase, queryVars,
                 fetched, crashes>>

NextDay ==
  /\ dividendPhase = "idle" /\ clock < Horizon
  /\ clock' = clock + 1
  /\ UNCHANGED <<published, policy, listings, changes, archive, report, dividendPhase, queryVars,
                 fetched, crashes>>

(* The universe is refreshed: listings leave and return, a policy is       *)
(* reclassified.                                                           *)
RefreshPolicies ==
  /\ dividendPhase = "idle" /\ changes < MaxChanges
  /\ changes' = changes + 1
  /\ listings' \in SUBSET Payers /\ policy' \in [Payers -> Policies]
  /\ UNCHANGED <<published, clock, archive, report, dividendPhase, queryVars, fetched, crashes>>

(* A first report exists once the archive was audited or backfilled; until *)
(* then every record is as build_dividend_coverage makes it without one.   *)
InitDividends ==
  /\ published = [s \in Payers |-> {}]
  /\ policy \in [Payers -> Policies]
  /\ listings = Payers /\ clock = 1 /\ changes = 0
  /\ archive = [s \in Payers |-> {}]
  /\ report = [s \in Payers |-> NoRecord]
  /\ dividendPhase = "idle" /\ flags = NoFlags
  /\ end = 0 /\ start = [s \in Payers |-> 0]
  /\ outcome = [s \in Payers |-> "none"] /\ tries = [s \in Payers |-> 0]
  /\ fetched = [s \in Payers |-> {}] /\ crashes = 0

NextDividends ==
  \/ Run
  \/ \E s \in Payers : Ask(s)
  \/ CollectAnswers \/ WriteEvents \/ WriteReport \/ QueryCrash
  \/ Audit \/ NextDay \/ RefreshPolicies
  \/ \E s \in Payers : Announce(s)

SpecDividends == InitDividends /\ [][NextDividends]_dividendVars

-------------------------------------------------------------------------------
(* Properties                                                              *)

(* The checkpoint skips nothing: whatever failed queries, kills, skipped   *)
(* policies, audits and catalog changes came before, every event that the  *)
(* provider has published is archived or still ahead of the next query of  *)
(* its security, which _query_start derives from the report.               *)
CheckpointSkipsNothing ==
  \A s \in listings, option \in Options :
    published[s] \subseteq archive[s] \cup (QueryStart(Coverage[s], option) .. Horizon)

(* "An empty list is never silently treated as a confirmed zero dividend   *)
(* history": a status that speaks of events has them in the archive, and   *)
(* the one that speaks of none stands on a query that succeeded.  A query  *)
(* that failed never counts as one.                                        *)
StatusIsHonest ==
  \A s \in Payers :
    /\ report[s].status \in {"data_available", "data_available_policy_unknown"} => archive[s] # {}
    /\ report[s].status = "known_distributing_with_no_events" => report[s].ok
    /\ report[s].status = "provider_error" => ~report[s].ok

===============================================================================
