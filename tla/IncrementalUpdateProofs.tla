------------------------ MODULE IncrementalUpdateProofs ------------------------
(***************************************************************************)
(* That the incremental update loses no observation, never reports a stale *)
(* store as complete and rebuilds every pack it has made stale, for any    *)
(* catalog, window, number of runs, failures and kills, and any behaviour  *)
(* of the provider within the reconciliation window.                       *)
(*                                                                         *)
(* The argument has four layers, each proved from the ones above it:       *)
(*   - what is stored and what is being written was observed, and a cell   *)
(*     has one row (StoreInv);                                             *)
(*   - a series that a run has been answered for is in the store up to the *)
(*     rows still to be written, because its window starts where the       *)
(*     store is known to be settled (FetchInv, CursorsSkipNothing);        *)
(*   - a run knows the store it started from, and cells never vanish       *)
(*     (BaseInv);                                                          *)
(*   - a pack that was current at the start differs from the store only    *)
(*     where a change key leads to it (PackInv).                           *)
(***************************************************************************)
EXTENDS IncrementalUpdate, WellFoundedInduction, TLAPS

Phases   == {"idle", "reported", "checkpointed", "built"} \cup Datasets
Statuses == {"none", "unknown", "provider_error", "data", "no_events"}
Tags     == {<<set, key>> : set \in Datasets, key \in Securities \cup Currencies}

Records == [status : Statuses, ok : BOOLEAN, through : Nat]

RunType ==
  [phase : Phases, selected : SUBSET Securities, since : Nat, skip : BOOLEAN, base : Nat,
   before : SUBSET Rows, coverage : [Securities -> Statuses], pending : SUBSET Rows,
   failed : SUBSET Tags, absent : SUBSET Tags, empty : SUBSET Securities,
   packError : BOOLEAN, fresh : SUBSET Pairs]

Packs    == [prices : SUBSET Rows, fx : SUBSET Rows, dividends : SUBSET Rows,
             actions : SUBSET Rows, failed : BOOLEAN]
Contents == [rows : SUBSET Rows, report : [Securities -> Records], checkpoints : [Securities -> Nat]]

TypeInv ==
  /\ world \subseteq Rows /\ store \subseteq world
  /\ today \in Days /\ \A r \in world : r.day <= today
  /\ report \in [Securities -> Records] /\ \A s \in Securities : report[s].through <= today
  /\ checkpoints \in [Securities -> Nat]
  /\ restamped \in BOOLEAN
  /\ packs \in [Pairs -> Packs] /\ manifest \subseteq Pairs
  /\ run \in RunType /\ (run = NoRun <=> run.phase = "idle")
  /\ summary \in [number : Nat, ready : BOOLEAN, content : Contents, id : Nat]
  /\ runs \in Nat

OneRowPerCell(rows) == \A q, r \in rows : Cell(q) = Cell(r) => q = r

(* What a run writes is what the provider says, of the dataset in hand.    *)
StoreInv ==
  /\ OneRowPerCell(store)
  /\ run.pending \subseteq Observed
  /\ \A r \in run.pending : r.set = run.phase

-------------------------------------------------------------------------------
(* Series whose answer the run has                                         *)

DividendsAsked == run.phase \notin {"idle", "price"}
RatesAsked     == run.phase \in {"fx", "built"}

Asked(set, key) ==
  CASE set = "price"    -> key \in run.selected
    [] set = "dividend" -> DividendsAsked /\ key \in run.selected
    [] set = "fx"       -> RatesAsked /\ key \in {CurrencyOf[s] : s \in run.selected}
    [] OTHER            -> FALSE

Answered(set, key) == Asked(set, key) /\ <<set, key>> \notin run.failed \cup run.absent

(* A series that was answered is stored but for the rows to be written.    *)
FetchInv ==
  /\ \A r \in Observed : Answered(r.set, r.key) => r \in store \cup run.pending
  /\ \A p \in run.pending, r \in Observed :
       p.set # "action" /\ r.set = p.set /\ r.key = p.key => r \in store \cup run.pending

-------------------------------------------------------------------------------
(* The store the run started from                                          *)

CellsKept == \A q \in run.before : \E r \in store : Cell(r) = Cell(q)

BaseInv ==
  /\ summary.id <= runs
  /\ run # NoRun =>
       /\ OneRowPerCell(run.before) /\ CellsKept
       /\ summary.id < runs
       /\ run.base # 0 => run.base = summary.id /\ summary.content.rows = run.before

-------------------------------------------------------------------------------
(* The packs                                                               *)

StartReport == [s \in Securities |-> [status |-> run.coverage[s]]]

(* Until the build, the packs that were current show the store and the     *)
(* report the run started from.                                            *)
PackInv ==
  /\ \A pair \in manifest : pair \in Pairs /\ packs[pair].prices # {}
  /\ run.phase \notin {"idle", "built"} =>
       \A pair \in run.fresh, part \in FollowedParts :
         packs[pair][part] = PackOf(run.before, StartReport, pair)[part]
  /\ PacksFollowTheStore

IInv == TypeInv /\ StoreInv /\ FetchInv /\ CursorsSkipNothing /\ BaseInv /\ PackInv

-------------------------------------------------------------------------------
(* Rows, days and years                                                    *)

LEMMA RowFields ==
  ASSUME NEW r \in Rows
  PROVE  /\ r.set \in Datasets /\ r.key \in Keys(r.set) /\ r.day \in Days /\ r.version \in 1 .. MaxVersion
         /\ r.day \in Nat /\ r.version \in Nat
         /\ r.key \in Securities \cup Currencies
         /\ r = [set |-> r.set, key |-> r.key, day |-> r.day, version |-> r.version]
<1>1. PICK set \in Datasets :
        r \in [set : {set}, key : Keys(set), day : Days, version : 1 .. MaxVersion]
  BY DEF Rows
<1> QED BY <1>1, MarketStoreAssumption DEF Keys, Days

LEMMA SameCell ==
  ASSUME NEW q \in Rows, NEW r \in Rows, Cell(q) = Cell(r)
  PROVE  /\ q.set = r.set /\ q.key = r.key /\ q.day = r.day
         /\ q.version = r.version => q = r
BY RowFields DEF Cell

(* The provider says one thing of a cell.                                  *)
LEMMA ObservedOnce ==
  ASSUME world \subseteq Rows
  PROVE  Observed \subseteq world /\ OneRowPerCell(Observed)
<1>1. Observed \subseteq world
  BY DEF Observed
<1>2. ASSUME NEW q \in Observed, NEW r \in Observed, Cell(q) = Cell(r) PROVE q = r
  <2>1. q \in Rows /\ r \in Rows
    BY <1>1
  <2>2. q.version <= r.version /\ r.version <= q.version
    BY <1>2, <1>1 DEF Observed
  <2>3. q.version = r.version
    BY <2>1, <2>2, RowFields
  <2> QED BY <1>2, <2>1, <2>3, SameCell
<1> QED BY <1>1, <1>2 DEF OneRowPerCell

LEMMA YearMonotone ==
  ASSUME NEW a \in Int, NEW b \in Int, a <= b
  PROVE  YearOf(a) \in Int /\ YearOf(b) \in Int /\ YearOf(a) <= YearOf(b)
BY MarketStoreAssumption DEF YearOf

(* A day within a year after another is in its year or in the next.        *)
LEMMA YearNext ==
  ASSUME NEW a \in Int, NEW b \in Int, a <= b, b <= a + DaysPerYear
  PROVE  YearOf(b) <= YearOf(a) + 1
BY MarketStoreAssumption DEF YearOf

(* A set of days that is not empty has a first and a last day.             *)
LEMMA NaturalsAreWellFounded ==
  IsWellFoundedOn({ss \in Nat \X Nat : ss[1] < ss[2]}, Nat)
<1>1. OpToRel(<, Nat) = {ss \in Nat \X Nat : ss[1] < ss[2]}
  BY DEF OpToRel
<1> QED BY <1>1, NatLessThanWellFounded

LEMMA MinOfDays ==
  ASSUME NEW days \in SUBSET Nat, days # {}
  PROVE  Min(days) \in days /\ \A day \in days : Min(days) <= day
<1> DEFINE Before == {ss \in Nat \X Nat : ss[1] < ss[2]}
<1>1. \E x \in days : \A y \in days : ~ (<<y, x>> \in Before)
  <2>1. IsWellFoundedOn(Before, Nat)
    BY NaturalsAreWellFounded
  <2> HIDE DEF Before
  <2> QED BY <2>1, WFMin
<1>2. PICK x \in days : \A y \in days : ~ (<<y, x>> \in Before)
  BY <1>1
<1>3. \A y \in days : x <= y
  <2> SUFFICES ASSUME NEW y \in days PROVE x <= y
    OBVIOUS
  <2>1. x \in Nat /\ y \in Nat /\ ~ (y < x)
    BY <1>2
  <2> QED BY <2>1
<1> QED BY <1>3 DEF Min

LEMMA MaxOfDays ==
  ASSUME NEW days \in SUBSET (0 .. MaxDay), days # {}
  PROVE  Max(days) \in days /\ \A day \in days : day <= Max(days)
<1> DEFINE left == {MaxDay - day : day \in days}
<1>1. MaxDay \in Nat
  BY MarketStoreAssumption
<1>2. left \in SUBSET Nat /\ left # {}
  <2>1. ASSUME NEW day \in days PROVE MaxDay - day \in Nat
    <3>1. day \in 0 .. MaxDay
      OBVIOUS
    <3> QED BY <1>1, <3>1
  <2>2. left # {}
    OBVIOUS
  <2> QED BY <2>1, <2>2
<1>3. Min(left) \in left /\ \A y \in left : Min(left) <= y
  BY <1>2, MinOfDays
<1>4. PICK x \in days : Min(left) = MaxDay - x
  BY <1>3
<1>5. \A y \in days : x >= y
  <2> SUFFICES ASSUME NEW y \in days PROVE x >= y
    OBVIOUS
  <2>1. MaxDay - x <= MaxDay - y
    BY <1>3, <1>4
  <2>2. x \in 0 .. MaxDay /\ y \in 0 .. MaxDay
    OBVIOUS
  <2> QED BY <1>1, <2>1, <2>2
<1> QED BY <1>5 DEF Max

LEMMA LastDayIsLast ==
  ASSUME NEW rows \in SUBSET Rows
  PROVE  /\ LastDay(rows) \in Nat
         /\ \A r \in rows : r.day <= LastDay(rows)
         /\ LastDay(rows) # 0 => \E r \in rows : r.day = LastDay(rows)
<1> DEFINE days == {0} \cup {r.day : r \in rows}
<1>1. days \in SUBSET (0 .. MaxDay) /\ days # {}
  BY RowFields, MarketStoreAssumption DEF Days
<1>2. Max(days) \in days /\ \A day \in days : day <= Max(days)
  BY <1>1, MaxOfDays
<1> QED BY <1>1, <1>2 DEF LastDay

-------------------------------------------------------------------------------
(* Queries                                                                 *)

(* What a sweep of the keys of a dataset does, given the first day it asks *)
(* for of each.                                                            *)
Swept(set, keys, start) ==
  /\ run.pending = {}
  /\ run' = [run EXCEPT !.phase = set, !.pending = run'.pending,
                        !.failed = run'.failed, !.absent = run'.absent]
  /\ run.failed \subseteq run'.failed /\ run'.failed \subseteq run.failed \cup Tagged(set, keys)
  /\ run.absent \subseteq run'.absent /\ run'.absent \subseteq run.absent \cup Tagged(set, keys)
  /\ \A r \in run'.pending : r \in Observed /\ r.set = set /\ r.key \in keys
  /\ \A r \in Observed :
       /\ r.set = set /\ r.key \in keys /\ start[r.key] <= r.day
       /\ \/ <<set, r.key>> \notin run'.failed \cup run'.absent
          \/ \E p \in run'.pending : p.key = r.key
       => r \in run'.pending
  /\ UNCHANGED <<world, today, files, runs>>

LEMMA QueriesSweep ==
  ASSUME TypeInv, NEW phase, NEW set, NEW keys, NEW mayBeAbsent, NEW start, NEW emptyFails,
         Query(phase, set, keys, mayBeAbsent, start, emptyFails)
  PROVE  run.phase = phase /\ Swept(set, keys, start)
<1> DEFINE answers(failed, absent) == [k \in keys \ (failed \cup absent) |-> Answer(set, k, start[k])]
           rows(failed, absent) == UNION {answers(failed, absent)[k] : k \in DOMAIN answers(failed, absent)}
           silent(failed, absent) ==
             {k \in DOMAIN answers(failed, absent) : emptyFails /\ answers(failed, absent)[k] = {}}
           fails(failed, absent) == run.failed \cup Tagged(set, failed \cup silent(failed, absent))
           misses(absent) == run.absent \cup Tagged(set, absent)
<1>1. PICK failed \in SUBSET keys, absent \in SUBSET keys :
        run' = [run EXCEPT !.phase = set, !.pending = rows(failed, absent),
                           !.failed = fails(failed, absent), !.absent = misses(absent)]
  BY Zenon DEF Query
<1>2. /\ \A r \in rows(failed, absent) :
           /\ r \in Observed /\ r.set = set /\ r.key \in keys \ (failed \cup absent)
           /\ answers(failed, absent)[r.key] # {}
      /\ \A r \in Observed :
           r.set = set /\ r.key \in keys \ (failed \cup absent) /\ start[r.key] <= r.day /\ r.day <= today
             => r \in rows(failed, absent)
  <2> DEFINE open == keys \ (failed \cup absent)
             ans  == answers(failed, absent)
  <2>1. ASSUME NEW k \in open, NEW r
        PROVE  r \in ans[k] <=> /\ r \in Observed /\ r.set = set /\ r.key = k
                                /\ start[k] <= r.day /\ r.day <= today
    BY DEF Answer, Between, Series
  <2>2. DOMAIN ans = open
    OBVIOUS
  <2>3. \A r : r \in rows(failed, absent) <=> \E k \in open : r \in ans[k]
    <3>1. rows(failed, absent) = UNION {ans[k] : k \in open}
      BY <2>2
    <3> HIDE DEF ans, open, rows
    <3> QED BY <3>1
  <2> HIDE DEF open, ans, rows
  <2>4. ASSUME NEW r \in rows(failed, absent)
        PROVE  r \in Observed /\ r.set = set /\ r.key \in open /\ ans[r.key] # {}
    <3>1. PICK k \in open : r \in ans[k]
      BY <2>3
    <3> QED BY <2>1, <3>1
  <2>5. ASSUME NEW r \in Observed, r.set = set, r.key \in open, start[r.key] <= r.day, r.day <= today
        PROVE  r \in rows(failed, absent)
    BY <2>1, <2>3, <2>5
  <2> QED BY <2>4, <2>5 DEF open, ans
<1>3. silent(failed, absent) \subseteq keys
  OBVIOUS
<1> HIDE DEF rows, silent
<1>4. /\ run'.pending = rows(failed, absent)
      /\ run'.failed = fails(failed, absent) /\ run'.absent = misses(absent)
  <2> HIDE DEF fails, misses
  <2> QED BY <1>1 DEF TypeInv, RunType
<1>5. /\ run'.failed \subseteq run.failed \cup Tagged(set, keys)
      /\ run'.absent \subseteq run.absent \cup Tagged(set, keys)
  BY <1>3, <1>4 DEF Tagged
<1>6. \A r \in Observed : r.day <= today
  BY DEF TypeInv, Observed
<1>7. ASSUME NEW r \in Observed, r.set = set, r.key \in keys, start[r.key] <= r.day,
             \/ <<set, r.key>> \notin run'.failed \cup run'.absent
             \/ \E p \in run'.pending : p.key = r.key
      PROVE  r \in run'.pending
  <2>1. r.key \notin failed \cup absent
    <3>1. CASE <<set, r.key>> \notin run'.failed \cup run'.absent
      BY <1>4, <3>1 DEF Tagged
    <3>2. CASE \E p \in run'.pending : p.key = r.key
      BY <1>2, <1>4, <3>2
    <3> QED BY <1>7, <3>1, <3>2
  <2> QED BY <1>2, <1>4, <1>6, <1>7, <2>1
<1>8. run' = [run EXCEPT !.phase = set, !.pending = run'.pending,
                         !.failed = run'.failed, !.absent = run'.absent]
  <2> HIDE DEF fails, misses
  <2> QED BY <1>1, <1>4
<1>9. \A r \in run'.pending : r \in Observed /\ r.set = set /\ r.key \in keys
  BY <1>2, <1>4
<1>10. run.failed \subseteq run'.failed /\ run.absent \subseteq run'.absent
  BY <1>4
<1>11. run.phase = phase /\ run.pending = {} /\ UNCHANGED <<world, today, files, runs>>
  BY DEF Query
<1> QED BY <1>5, <1>7, <1>8, <1>9, <1>10, <1>11 DEF Swept

(* What the start of a run does, its plan and its price sweep.             *)
LEMMA StartEffect ==
  ASSUME TypeInv, StartAny
  PROVE  /\ run = NoRun /\ runs' = runs + 1 /\ UNCHANGED <<world, today, files>>
         /\ run' \in RunType /\ run'.phase = "price"
         /\ run'.before = store /\ run'.base = IF ContinuesChain THEN summary.id ELSE 0
         /\ run'.coverage = [s \in Securities |-> report[s].status]
         /\ run'.fresh = {pair \in Pairs : \A part \in FollowedParts : PackIsCurrent(pair, part)}
         /\ \A r \in run'.pending : r \in Observed /\ r.set = "price" /\ r.key \in run'.selected
         /\ \A r \in Observed :
              /\ r.set = "price" /\ r.key \in run'.selected
              /\ PriceStart(r.key, run'.since) <= r.day
              /\ \/ <<"price", r.key>> \notin run'.failed \cup run'.absent
                 \/ \E p \in run'.pending : p.key = r.key
              => r \in run'.pending
<1>1. PICK selected \in Selections, since \in Sinces, skip \in SkipChoices : Start(selected, since, skip)
  BY DEF StartAny
<1> DEFINE answers(failed, absent) ==
             [s \in selected \ (failed \cup absent) |-> Answer("price", s, PriceStart(s, since))]
           rows(failed, absent) == UNION {answers(failed, absent)[s] : s \in DOMAIN answers(failed, absent)}
           fails(failed)  == Tagged("price", failed)
           misses(absent) == Tagged("price", absent)
           base     == IF ContinuesChain THEN summary.id ELSE 0
           coverage == [s \in Securities |-> report[s].status]
           empty(failed, absent) ==
             {s \in DOMAIN answers(failed, absent) : answers(failed, absent)[s] = {}}
           fresh == {pair \in Pairs : \A part \in FollowedParts : PackIsCurrent(pair, part)}
<1>2. PICK failed \in SUBSET selected, absent \in SUBSET selected :
        /\ QueryOutcome(selected, TRUE, failed, absent)
        /\ run' = [NoRun EXCEPT
                  !.phase = "price", !.selected = selected, !.since = since, !.skip = skip,
                  !.base = base, !.before = store, !.coverage = coverage,
                  !.pending = rows(failed, absent), !.failed = fails(failed), !.absent = misses(absent),
                  !.empty = empty(failed, absent), !.fresh = fresh]
  <2>1. Start(selected, since, skip)
    BY <1>1
  <2> QED BY <2>1, Zenon DEF Start
<1>3. selected \in SUBSET Securities /\ since \in Nat /\ skip \in BOOLEAN
  BY IncrementalUpdateAssumption
<1>4. /\ \A r \in rows(failed, absent) : r \in Observed /\ r.set = "price" /\ r.key \in selected \ (failed \cup absent)
      /\ \A r \in Observed :
           r.set = "price" /\ r.key \in selected \ (failed \cup absent)
             /\ PriceStart(r.key, since) <= r.day /\ r.day <= today
             => r \in rows(failed, absent)
  <2> DEFINE open == selected \ (failed \cup absent)
             ans  == answers(failed, absent)
  <2>1. ASSUME NEW k \in open, NEW r
        PROVE  r \in ans[k] <=> /\ r \in Observed /\ r.set = "price" /\ r.key = k
                                /\ PriceStart(k, since) <= r.day /\ r.day <= today
    BY DEF Answer, Between, Series
  <2>2. DOMAIN ans = open
    OBVIOUS
  <2>3. \A r : r \in rows(failed, absent) <=> \E k \in open : r \in ans[k]
    <3>1. rows(failed, absent) = UNION {ans[k] : k \in open}
      BY <2>2
    <3> HIDE DEF ans, open, rows
    <3> QED BY <3>1
  <2> HIDE DEF open, ans, rows
  <2>4. ASSUME NEW r \in rows(failed, absent)
        PROVE  r \in Observed /\ r.set = "price" /\ r.key \in open
    <3>1. PICK k \in open : r \in ans[k]
      BY <2>3
    <3> QED BY <2>1, <3>1
  <2>5. ASSUME NEW r \in Observed, r.set = "price", r.key \in open,
               PriceStart(r.key, since) <= r.day, r.day <= today
        PROVE  r \in rows(failed, absent)
    BY <2>1, <2>3, <2>5
  <2> QED BY <2>4, <2>5 DEF open
<1>5. fails(failed) \in SUBSET Tags /\ misses(absent) \in SUBSET Tags
  BY <1>3 DEF Tagged, Tags, Datasets
<1>6. base \in Nat /\ coverage \in [Securities -> Statuses] /\ fresh \in SUBSET Pairs
  BY DEF TypeInv, Records
<1>7. empty(failed, absent) \in SUBSET Securities
  BY <1>3
<1>8. rows(failed, absent) \in SUBSET Rows /\ \A r \in Observed : r.day <= today
  BY <1>4 DEF TypeInv, Observed
<1>9. store \in SUBSET Rows
  BY DEF TypeInv
<1> HIDE DEF answers, rows, base, coverage, empty, fresh
<1>10. /\ run'.phase = "price" /\ run'.selected = selected /\ run'.since = since /\ run'.skip = skip
       /\ run'.base = base /\ run'.before = store /\ run'.coverage = coverage
       /\ run'.pending = rows(failed, absent) /\ run'.failed = fails(failed)
       /\ run'.absent = misses(absent) /\ run'.empty = empty(failed, absent) /\ run'.fresh = fresh
       /\ run' \in RunType
  <2>1. run' = [phase |-> "price", selected |-> selected, since |-> since, skip |-> skip, base |-> base,
                before |-> store, coverage |-> coverage, pending |-> rows(failed, absent),
                failed |-> fails(failed), absent |-> misses(absent), empty |-> empty(failed, absent),
                packError |-> FALSE, fresh |-> fresh]
    <3> DEFINE none == [s \in Securities |-> "none"]
    <3> HIDE DEF fails, misses, none
    <3>1. NoRun = [phase |-> "idle", selected |-> {}, since |-> 0, skip |-> FALSE, base |-> 0,
                   before |-> {}, coverage |-> none, pending |-> {},
                   failed |-> {}, absent |-> {}, empty |-> {}, packError |-> FALSE, fresh |-> {}]
      BY DEF NoRun, none
    <3> QED BY <1>2, <3>1
  <2> HIDE DEF fails, misses
  <2> QED BY <2>1, <1>3, <1>5, <1>6, <1>7, <1>8, <1>9 DEF RunType, Phases, Datasets
<1>11. ASSUME NEW r \in Observed, r.set = "price", r.key \in selected, PriceStart(r.key, since) <= r.day,
              \/ <<"price", r.key>> \notin fails(failed) \cup misses(absent)
              \/ \E p \in rows(failed, absent) : p.key = r.key
       PROVE  r \in rows(failed, absent)
  <2>1. r.key \notin failed \cup absent
    <3>1. CASE <<"price", r.key>> \notin fails(failed) \cup misses(absent)
      BY <3>1 DEF Tagged
    <3>2. CASE \E p \in rows(failed, absent) : p.key = r.key
      BY <1>4, <3>2
    <3> QED BY <1>11, <3>1, <3>2
  <2> QED BY <1>4, <1>8, <1>11, <2>1
<1>12. run = NoRun /\ runs' = runs + 1 /\ UNCHANGED <<world, today, files>>
  BY <1>1 DEF Start
<1> HIDE DEF fails, misses
<1>13. /\ \A r \in run'.pending : r \in Observed /\ r.set = "price" /\ r.key \in run'.selected
       /\ \A r \in Observed :
            /\ r.set = "price" /\ r.key \in run'.selected
            /\ PriceStart(r.key, run'.since) <= r.day
            /\ \/ <<"price", r.key>> \notin run'.failed \cup run'.absent
               \/ \E p \in run'.pending : p.key = r.key
            => r \in run'.pending
  BY <1>4, <1>10, <1>11
<1>14. /\ run'.base = IF ContinuesChain THEN summary.id ELSE 0
       /\ run'.coverage = [s \in Securities |-> report[s].status]
       /\ run'.fresh = {pair \in Pairs : \A part \in FollowedParts : PackIsCurrent(pair, part)}
  BY <1>10 DEF base, coverage, fresh
<1> HIDE DEF fresh, base, coverage
<1> QED BY <1>10, <1>12, <1>13, <1>14, Zenon

-------------------------------------------------------------------------------
(* Writes                                                                  *)

(* A partition is a part of what is to be written; of prices and rates it  *)
(* is the earliest year of a series.                                       *)
LEMMA PartsArePending ==
  ASSUME NEW set \in Datasets, NEW rows, NEW part \in NextPartitions(set, rows)
  PROVE  /\ part \subseteq rows
         /\ set = "price" => part = EarliestYear(rows)
         /\ set = "fx" => \E key \in Currencies : part = EarliestYear(Series(rows, "fx", key))
<1>1. CASE set = "price"
  BY <1>1 DEF NextPartitions, EarliestYear
<1>2. CASE set = "dividend"
  BY <1>2 DEF NextPartitions
<1>3. CASE set = "action"
  BY <1>3 DEF NextPartitions
<1>4. CASE set = "fx"
  BY <1>4 DEF NextPartitions, EarliestYear, Series
<1> QED BY <1>1, <1>2, <1>3, <1>4 DEF Datasets

LEMMA UpsertReplacesCells ==
  ASSUME NEW rows, NEW incoming
  PROVE  /\ Upsert(rows, incoming) \subseteq rows \cup incoming
         /\ incoming \subseteq Upsert(rows, incoming)
         /\ \A r \in rows : r \in Upsert(rows, incoming) \/ \E new \in incoming : Cell(new) = Cell(r)
         /\ OneRowPerCell(rows) /\ OneRowPerCell(incoming) => OneRowPerCell(Upsert(rows, incoming))
<1>1. Upsert(rows, incoming) \subseteq rows \cup incoming /\ incoming \subseteq Upsert(rows, incoming)
  BY DEF Upsert
<1>2. \A r \in rows : r \in Upsert(rows, incoming) \/ \E new \in incoming : Cell(new) = Cell(r)
  BY DEF Upsert
<1>3. ASSUME OneRowPerCell(rows), OneRowPerCell(incoming)
      PROVE  OneRowPerCell(Upsert(rows, incoming))
  BY <1>3 DEF Upsert, OneRowPerCell
<1> QED BY <1>1, <1>2, <1>3

(* Replacing one file moves rows from what is to be written to the store,  *)
(* and takes no row of the provider out of it.                             *)
LEMMA WriteEffect ==
  ASSUME TypeInv, StoreInv, WritePartition
  PROVE  /\ run.phase \in Datasets
         /\ \E part \in NextPartitions(run.phase, run.pending) :
              /\ part \subseteq run.pending /\ part \subseteq Observed
              /\ store' = Upsert(store, part)
              /\ run'.pending = run.pending \ part
              /\ \A r \in Observed : r \in store => r \in store'
              /\ \A r \in Observed : r \in store \cup run.pending => r \in store' \cup run'.pending
         /\ run' = [run EXCEPT !.pending = run'.pending]
         /\ UNCHANGED <<world, today, report, checkpoints, restamped, packs, manifest, summary, counters>>
<1>1. PICK part \in NextPartitions(run.phase, run.pending) :
        part # {} /\ store' = Upsert(store, part) /\ run' = [run EXCEPT !.pending = @ \ part]
  BY DEF WritePartition
<1>2. run.phase \in Datasets
  BY DEF WritePartition
<1>3. part \subseteq run.pending
  BY <1>2, PartsArePending
<1>4. run'.pending = run.pending \ part /\ run' = [run EXCEPT !.pending = run'.pending]
  BY <1>1 DEF TypeInv, RunType
<1>5. part \subseteq Observed
  BY <1>3 DEF StoreInv
<1>6. ASSUME NEW r \in Observed, r \in store PROVE r \in store'
  <2>1. CASE \E new \in part : Cell(new) = Cell(r)
    <3>1. PICK new \in part : Cell(new) = Cell(r)
      BY <2>1
    <3>2. new = r
      BY <1>5, <3>1, ObservedOnce DEF OneRowPerCell, TypeInv
    <3> QED BY <1>1, <3>2, UpsertReplacesCells
  <2> QED BY <1>1, <1>6, <2>1, UpsertReplacesCells
<1>7. ASSUME NEW r \in Observed, r \in store \cup run.pending PROVE r \in store' \cup run'.pending
  BY <1>1, <1>4, <1>6, <1>7, UpsertReplacesCells
<1>8. UNCHANGED <<world, today, report, checkpoints, restamped, packs, manifest, summary, counters>>
  BY DEF WritePartition
<1> QED BY <1>1, <1>2, <1>3, <1>4, <1>5, <1>6, <1>7, <1>8

-------------------------------------------------------------------------------
(* What is stored was observed, and a cell has one row                     *)

LEMMA PackTypes ==
  ASSUME NEW rows \in SUBSET Rows, NEW rep, NEW pair
  PROVE  PackOf(rows, rep, pair) \in Packs
BY DEF PackOf, Packs, PricesOf, RatesOf, Series, Between

LEMMA SweptFields ==
  ASSUME TypeInv, NEW set \in Datasets, NEW keys \in SUBSET (Securities \cup Currencies), NEW start,
         Swept(set, keys, start)
  PROVE  /\ run' \in RunType /\ run'.phase = set /\ run' # NoRun
         /\ run'.selected = run.selected /\ run'.since = run.since /\ run'.base = run.base
         /\ run'.before = run.before /\ run'.coverage = run.coverage /\ run'.fresh = run.fresh
         /\ run'.packError = run.packError
<1>1. run'.pending \in SUBSET Rows
  BY DEF Swept, TypeInv, Observed
<1>2. run'.failed \in SUBSET Tags /\ run'.absent \in SUBSET Tags
  BY DEF Swept, Tagged, Tags, TypeInv, RunType
<1>3. run' = [run EXCEPT !.phase = set, !.pending = run'.pending,
                         !.failed = run'.failed, !.absent = run'.absent]
  BY DEF Swept
<1>4. run \in RunType
  BY DEF TypeInv
<1> DEFINE pending == run'.pending
           fails   == run'.failed
           misses  == run'.absent
<1>5. run' = [run EXCEPT !.phase = set, !.pending = pending, !.failed = fails, !.absent = misses]
  BY <1>3
<1>6. pending \in SUBSET Rows /\ fails \in SUBSET Tags /\ misses \in SUBSET Tags
  BY <1>1, <1>2
<1> HIDE DEF pending, fails, misses
<1>7. /\ run' \in RunType /\ run'.phase = set
      /\ run'.selected = run.selected /\ run'.since = run.since /\ run'.base = run.base
      /\ run'.before = run.before /\ run'.coverage = run.coverage /\ run'.fresh = run.fresh
      /\ run'.packError = run.packError
  BY <1>4, <1>5, <1>6 DEF RunType, Phases
<1>8. run' # NoRun
  BY <1>7 DEF NoRun, Datasets
<1> QED BY <1>7, <1>8

LEMMA QueryEffects ==
  ASSUME TypeInv
  PROVE  /\ QueryDividends =>
              /\ run.phase = "price"
              /\ Swept("dividend", run.selected, [s \in run.selected |-> DividendStart(s, run.since)])
         /\ QueryActions =>
              /\ run.phase = "reported"
              /\ Swept("action", run.selected, [s \in run.selected |-> ActionStart(s, run.since)])
         /\ QueryRates =>
              LET currencies == {CurrencyOf[s] : s \in run.selected} \ {SGD}
              IN  /\ run.phase = "checkpointed"
                  /\ Swept("fx", currencies, [c \in currencies |-> RateStart(c, run.since)])
<1>1. QueryDividends =>
        /\ run.phase = "price"
        /\ Swept("dividend", run.selected, [s \in run.selected |-> DividendStart(s, run.since)])
  BY QueriesSweep, Zenon DEF QueryDividends
<1>2. QueryActions =>
        /\ run.phase = "reported"
        /\ Swept("action", run.selected, [s \in run.selected |-> ActionStart(s, run.since)])
  BY QueriesSweep, Zenon DEF QueryActions
<1>3. QueryRates =>
        LET currencies == {CurrencyOf[s] : s \in run.selected} \ {SGD}
        IN  /\ run.phase = "checkpointed"
            /\ Swept("fx", currencies, [c \in currencies |-> RateStart(c, run.since)])
  BY QueriesSweep, Zenon DEF QueryRates
<1> QED BY <1>1, <1>2, <1>3

LEMMA SelectedCurrencies ==
  ASSUME TypeInv
  PROVE  {CurrencyOf[s] : s \in run.selected} \ {SGD} \in SUBSET Currencies
BY MarketStoreAssumption DEF TypeInv, RunType

LEMMA NoRunIsTyped ==
  NoRun \in RunType /\ NoRun.phase = "idle" /\ NoRun.pending = {} /\ NoRun.selected = {}
BY DEF NoRun, RunType, Phases, Statuses

LEMMA RecordTypes ==
  ASSUME TypeInv, NEW s \in Securities
  PROVE  RecordAfter(s) \in Records /\ RecordAfter(s).through <= today
<1>1. report[s] \in Records /\ report[s].through <= today /\ today \in Nat
  BY DEF TypeInv, Days
<1>2. QueriedRecord(s) \in Records /\ QueriedRecord(s).through <= today
  BY <1>1 DEF QueriedRecord, Records, Statuses
<1> DEFINE status == IF report[s].status = "none" THEN "unknown" ELSE report[s].status
<1>3. status \in Statuses
  BY <1>1 DEF Records, Statuses
<1>4. [report[s] EXCEPT !.status = status] \in Records /\ [report[s] EXCEPT !.status = status].through <= today
  <2> HIDE DEF status
  <2> QED BY <1>1, <1>3 DEF Records
<1>5. [report[s] EXCEPT !.status = IF @ = "none" THEN "unknown" ELSE @] = [report[s] EXCEPT !.status = status]
  OBVIOUS
<1> QED BY <1>2, <1>4, <1>5 DEF RecordAfter

LEMMA TypeInvStep ==
  ASSUME TypeInv, StoreInv, [Next]_vars
  PROVE  TypeInv'
<1> USE DEF files, counters
<1>1. CASE Publish
  BY <1>1 DEF Publish, TypeInv
<1>2. CASE Tick
  <2>1. today' \in Days /\ \A r \in world : r.day <= today'
    <3>1. \A r \in world : r.day \in Nat
      BY RowFields DEF TypeInv
    <3> QED BY <1>2, <3>1, MarketStoreAssumption DEF Tick, TypeInv, Days
  <2>2. \A s \in Securities : report[s].through <= today'
    <3>1. \A s \in Securities : report[s].through \in Nat
      BY DEF TypeInv, Records
    <3> QED BY <1>2, <3>1, MarketStoreAssumption DEF Tick, TypeInv, Days
  <2> QED BY <1>2, <2>1, <2>2 DEF Tick, TypeInv
<1>3. CASE FullBuild
  <2>1. packs' \in [Pairs -> Packs]
    BY <1>3, PackTypes DEF FullBuild, TypeInv
  <2>2. manifest' \subseteq Pairs
    BY <1>3 DEF FullBuild, PricedPairs
  <2> QED BY <1>3, <2>1, <2>2 DEF FullBuild, TypeInv
<1>4. CASE StartAny
  <2>1. run' # NoRun
    BY <1>4, StartEffect, NoRunIsTyped
  <2> QED BY <1>4, <2>1, StartEffect DEF TypeInv
<1>5. CASE WritePartition
  <2>1. PICK part : part \subseteq Observed /\ store' = Upsert(store, part)
    BY <1>5, WriteEffect
  <2>2. store' \subseteq world
    BY <2>1, UpsertReplacesCells DEF TypeInv, Observed
  <2>3. run' \in RunType /\ run'.phase = run.phase
    <3>1. run'.pending \in SUBSET Rows
      BY <1>5, WriteEffect DEF TypeInv, RunType
    <3>2. run' = [run EXCEPT !.pending = run'.pending]
      BY <1>5, WriteEffect
    <3> QED BY <3>1, <3>2 DEF TypeInv, RunType
  <2>4. run' # NoRun /\ run # NoRun
    BY <1>5, <2>3, WriteEffect, NoRunIsTyped DEF Datasets
  <2> QED BY <1>5, <2>2, <2>3, <2>4, WriteEffect DEF TypeInv
<1>6. CASE QueryDividends
  <2>1. run'.phase = "dividend" /\ run' \in RunType /\ UNCHANGED <<world, today, files, runs>>
    BY <1>6, QueryEffects, SweptFields DEF Datasets, Swept, TypeInv, RunType
  <2> QED BY <2>1, NoRunIsTyped DEF TypeInv
<1>7. CASE WriteReport
  <2>1. report' \in [Securities -> Records] /\ \A s \in Securities : report'[s].through <= today
    BY <1>7, RecordTypes DEF WriteReport
  <2>2. run' \in RunType /\ run'.phase \in {"checkpointed", "reported"}
    BY <1>7 DEF WriteReport, TypeInv, RunType, Phases
  <2> QED BY <1>7, <2>1, <2>2, NoRunIsTyped DEF WriteReport, TypeInv
<1>8. CASE QueryActions
  <2>1. run'.phase = "action" /\ run' \in RunType /\ UNCHANGED <<world, today, files, runs>>
    BY <1>8, QueryEffects, SweptFields DEF Datasets, Swept, TypeInv, RunType
  <2> QED BY <2>1, NoRunIsTyped DEF TypeInv
<1>9. CASE WriteCheckpoints
  <2>1. checkpoints' \in [Securities -> Nat]
    BY <1>9 DEF WriteCheckpoints, CheckpointAfter, TypeInv, Days
  <2>2. run' \in RunType /\ run'.phase = "checkpointed"
    BY <1>9 DEF WriteCheckpoints, TypeInv, RunType, Phases
  <2> QED BY <1>9, <2>1, <2>2, NoRunIsTyped DEF WriteCheckpoints, TypeInv
<1>10. CASE QueryRates
  <2> DEFINE currencies == {CurrencyOf[s] : s \in run.selected} \ {SGD}
             start      == [c \in currencies |-> RateStart(c, run.since)]
  <2>2. currencies \in SUBSET (Securities \cup Currencies) /\ "fx" \in Datasets
    BY SelectedCurrencies DEF Datasets
  <2>3. Swept("fx", currencies, start)
    BY <1>10, QueryEffects
  <2> HIDE DEF currencies, start
  <2>1. run'.phase = "fx" /\ run' \in RunType /\ UNCHANGED <<world, today, files, runs>>
    <3>1. run'.phase = "fx" /\ run' \in RunType
      BY <2>2, <2>3, SweptFields
    <3> QED BY <2>3, <3>1 DEF Swept
  <2> QED BY <2>1, NoRunIsTyped DEF TypeInv
<1>11. CASE BuildPacks
  <2>1. \A done : Copied(done) \in [Pairs -> Packs]
    <3>1. \A pair : PackOf(store, report, pair) \in Packs
      BY PackTypes DEF TypeInv
    <3> QED BY <3>1 DEF Copied, TypeInv
  <2>2. packs' \in [Pairs -> Packs]
    <3>1. \E done : packs' = Copied(done)
      BY <1>11 DEF BuildPacks
    <3> QED BY <2>1, <3>1
  <2>3. manifest' \subseteq Pairs
    BY <1>11 DEF BuildPacks, ManifestAfter, BuildScope, PricedPairs, TypeInv
  <2>4. run' \in RunType /\ run'.phase = "built"
    <3>1. \/ run' = [run EXCEPT !.phase = "built"]
          \/ run' = [run EXCEPT !.phase = "built", !.packError = TRUE]
      BY <1>11 DEF BuildPacks
    <3>2. run \in RunType
      BY DEF TypeInv
    <3> QED BY <3>1, <3>2 DEF RunType, Phases
  <2> QED BY <1>11, <2>2, <2>3, <2>4, NoRunIsTyped DEF BuildPacks, TypeInv
<1>12. CASE Finish
  <2>1. Complete \in BOOLEAN
    BY DEF Complete
  <2>2. Content \in Contents
    BY DEF Content, Contents, TypeInv
  <2>3. (IF run.base # 0 /\ NoChange THEN run.base ELSE runs) \in Nat
    BY DEF TypeInv, RunType
  <2>4. summary' \in [number : Nat, ready : BOOLEAN, content : Contents, id : Nat]
    BY <1>12, <2>1, <2>2, <2>3 DEF Finish, TypeInv
  <2> QED BY <1>12, <2>4, NoRunIsTyped DEF Finish, TypeInv
<1>13. CASE Crash
  BY <1>13, NoRunIsTyped DEF Crash, TypeInv
<1>14. CASE UNCHANGED vars
  BY <1>14 DEF vars, TypeInv
<1> QED BY <1>1, <1>2, <1>3, <1>4, <1>5, <1>6, <1>7, <1>8, <1>9, <1>10, <1>11, <1>12, <1>13, <1>14 DEF Next

(* Outside a run nothing is to be written.                                 *)
LEMMA NothingPendingAtRest ==
  ASSUME TypeInv, StoreInv, run.phase \notin Datasets
  PROVE  run.pending = {}
<1>1. \A r \in run.pending : r.set \in Datasets
  BY RowFields DEF TypeInv, RunType
<1> QED BY <1>1 DEF StoreInv

(* The rates of a run are asked for by currency.                           *)
LEMMA RatesSwept ==
  ASSUME TypeInv, QueryRates
  PROVE  /\ run.phase = "checkpointed" /\ run'.phase = "fx"
         /\ \E keys \in SUBSET (Securities \cup Currencies) :
              /\ keys = {CurrencyOf[s] : s \in run.selected} \ {SGD}
              /\ Swept("fx", keys, [c \in keys |-> RateStart(c, run.since)])
<1> DEFINE currencies == {CurrencyOf[s] : s \in run.selected} \ {SGD}
           start      == [c \in currencies |-> RateStart(c, run.since)]
<1>1. currencies \in SUBSET (Securities \cup Currencies) /\ "fx" \in Datasets
  BY SelectedCurrencies DEF Datasets
<1>2. run.phase = "checkpointed" /\ Swept("fx", currencies, start)
  BY QueryEffects
<1>3. run'.phase = "fx"
  <2> HIDE DEF currencies, start
  <2> QED BY <1>1, <1>2, SweptFields
<1> QED BY <1>1, <1>2, <1>3

LEMMA StoreInvStep ==
  ASSUME TypeInv, StoreInv, [Next]_vars
  PROVE  StoreInv'
<1> USE DEF files, counters
<1>1. CASE Publish \/ Tick \/ FullBuild
  <2>1. UNCHANGED <<store, run>> /\ run.pending = {}
    BY <1>1, NoRunIsTyped DEF Publish, Tick, FullBuild
  <2> QED BY <2>1 DEF StoreInv
<1>2. CASE StartAny
  <2>1. /\ UNCHANGED <<world, store>> /\ run'.phase = "price"
        /\ \A r \in run'.pending : r \in Observed /\ r.set = "price"
    BY <1>2, StartEffect
  <2> QED BY <2>1 DEF StoreInv, Observed
<1>3. CASE WritePartition
  <2>1. PICK part : part \subseteq Observed /\ store' = Upsert(store, part) /\ run'.pending = run.pending \ part
    BY <1>3, WriteEffect
  <2>2. OneRowPerCell(part)
    BY <2>1, ObservedOnce DEF TypeInv, OneRowPerCell
  <2>3. OneRowPerCell(store')
    BY <2>1, <2>2, UpsertReplacesCells DEF StoreInv
  <2>4. run'.phase = run.phase /\ world' = world
    <3>1. run' = [run EXCEPT !.pending = run'.pending] /\ world' = world
      BY <1>3, WriteEffect
    <3> QED BY <3>1 DEF TypeInv, RunType
  <2> QED BY <2>1, <2>3, <2>4 DEF StoreInv, Observed
<1>4. ASSUME NEW set \in Datasets, NEW keys \in SUBSET (Securities \cup Currencies), NEW start,
             Swept(set, keys, start)
      PROVE  StoreInv'
  <2>1. run'.phase = set
    BY <1>4, SweptFields
  <2>2. UNCHANGED <<world, store>> /\ \A r \in run'.pending : r \in Observed /\ r.set = set
    BY <1>4 DEF Swept
  <2> QED BY <2>1, <2>2 DEF StoreInv, Observed
<1>5. CASE QueryDividends \/ QueryActions
  <2>1. run.selected \in SUBSET (Securities \cup Currencies) /\ "dividend" \in Datasets /\ "action" \in Datasets
    BY DEF TypeInv, RunType, Datasets
  <2> QED BY <1>4, <1>5, <2>1, QueryEffects
<1>6. CASE QueryRates
  <2>1. "fx" \in Datasets
    BY DEF Datasets
  <2> QED BY <1>4, <1>6, <2>1, RatesSwept
<1>7. CASE WriteReport \/ WriteCheckpoints \/ BuildPacks
  <2>1. run'.pending = {} /\ UNCHANGED <<world, store>>
    BY <1>7 DEF WriteReport, WriteCheckpoints, BuildPacks, TypeInv, RunType
  <2> QED BY <2>1 DEF StoreInv
<1>8. CASE Finish \/ Crash
  <2>1. run'.pending = {} /\ UNCHANGED <<world, store>>
    BY <1>8, NoRunIsTyped DEF Finish, Crash
  <2> QED BY <2>1 DEF StoreInv
<1>9. CASE UNCHANGED vars
  BY <1>9 DEF vars, StoreInv, Observed
<1> QED BY <1>1, <1>2, <1>3, <1>5, <1>6, <1>7, <1>8, <1>9 DEF Next

-------------------------------------------------------------------------------
(* No observation is lost behind a cursor                                  *)

(* A window starts after a day only when its series is settled there.      *)
LEMMA WindowsStartSettled ==
  ASSUME NEW last \in Nat, NEW since \in Nat, NEW day \in Nat, 1 <= day, day < WindowStart(last, since)
  PROVE  day + Recon < last
BY IncrementalUpdateAssumption DEF WindowStart, Max2, Min2

LEMMA BeforeTheWindow ==
  ASSUME TypeInv, CursorsSkipNothing, NEW r \in Observed, NEW since \in Nat,
         \/ r.set = "price" /\ r.day < PriceStart(r.key, since)
         \/ r.set = "dividend" /\ r.day < DividendStart(r.key, since)
         \/ r.set = "fx" /\ r.day < RateStart(r.key, since)
  PROVE  r \in store
<1>1. r \in Rows /\ r.day \in Nat /\ 1 <= r.day /\ r.key \in Keys(r.set)
  BY RowFields DEF TypeInv, Observed, Days
<1>2. \A set, key : Series(store, set, key) \in SUBSET Rows
  BY DEF TypeInv, Series
<1>3. CASE r.set = "price" /\ r.day < PriceStart(r.key, since)
  <2>1. LastDay(Series(store, "price", r.key)) \in Nat
    BY <1>2, LastDayIsLast
  <2>2. r.day + Recon < LastDay(Series(store, "price", r.key))
    BY <1>1, <1>3, <2>1, WindowsStartSettled DEF PriceStart
  <2> QED BY <1>3, <2>2 DEF CursorsSkipNothing, Settled, Frontier
<1>4. CASE r.set = "fx" /\ r.day < RateStart(r.key, since)
  <2>1. LastDay(Series(store, "fx", r.key)) \in Nat
    BY <1>2, LastDayIsLast
  <2>2. r.day + Recon < LastDay(Series(store, "fx", r.key))
    BY <1>1, <1>4, <2>1, WindowsStartSettled DEF RateStart
  <2> QED BY <1>4, <2>2 DEF CursorsSkipNothing, Settled, Frontier
<1>5. CASE r.set = "dividend" /\ r.day < DividendStart(r.key, since)
  <2>1. r.key \in Securities
    BY <1>1, <1>5 DEF Keys
  <2>2. report[r.key].ok \in BOOLEAN /\ report[r.key].through \in Nat
    BY <2>1 DEF TypeInv, Records
  <2>3. report[r.key].ok /\ r.day + Recon < report[r.key].through
    <3> DEFINE recon == IF since # 0 THEN Max2(Recon, today - since) ELSE Recon
    <3>1. recon \in Int /\ Recon <= recon
      BY IncrementalUpdateAssumption DEF Max2, TypeInv, Days
    <3>2. DividendStart(r.key, since) = IF report[r.key].ok THEN Max2(1, report[r.key].through - recon) ELSE 1
      BY DEF DividendStart
    <3> HIDE DEF recon
    <3> QED BY <1>1, <1>5, <2>2, <3>1, <3>2, IncrementalUpdateAssumption DEF Max2
  <2> QED BY <1>5, <2>3 DEF CursorsSkipNothing, Settled, Frontier
<1> QED BY <1>3, <1>4, <1>5

(* A sweep answers its series, and forgets no earlier answer.              *)
LEMMA SweepsAnswer ==
  ASSUME TypeInv, StoreInv, FetchInv, CursorsSkipNothing,
         NEW set \in Datasets, NEW keys \in SUBSET (Securities \cup Currencies), NEW start,
         Swept(set, keys, start),
         \A r \in Observed : r.set = set /\ r.key \in keys /\ set # "action" /\ r.day < start[r.key] => r \in store,
         \A r \in Observed :
           Answered(r.set, r.key)' => Answered(r.set, r.key) \/ (r.set = set /\ r.key \in keys /\ set # "action"),
         \A k \in keys : set # "action" => start[k] \in Int
  PROVE  FetchInv'
<1>1. /\ run.pending = {} /\ UNCHANGED <<world, today, store>>
      /\ \A r \in run'.pending : r \in Observed /\ r.set = set /\ r.key \in keys
      /\ \A r \in Observed :
           /\ r.set = set /\ r.key \in keys /\ start[r.key] <= r.day
           /\ \/ <<set, r.key>> \notin run'.failed \cup run'.absent
              \/ \E p \in run'.pending : p.key = r.key
           => r \in run'.pending
  BY DEF Swept, files
<1>2. Observed' = Observed
  BY <1>1 DEF Observed
<1>3. ASSUME NEW r \in Observed, r.set = set, r.key \in keys, set # "action",
             \/ <<set, r.key>> \notin run'.failed \cup run'.absent
             \/ \E p \in run'.pending : p.key = r.key
      PROVE  r \in store \cup run'.pending
  <2>1. r.day \in Int /\ start[r.key] \in Int
    BY <1>3, RowFields DEF TypeInv, Observed
  <2>2. CASE r.day < start[r.key]
    BY <1>3, <2>2
  <2>3. CASE start[r.key] <= r.day
    BY <1>1, <1>3, <2>3
  <2> QED BY <2>1, <2>2, <2>3
<1>4. ASSUME NEW r \in Observed, Answered(r.set, r.key)'
      PROVE  r \in store \cup run'.pending
  <2>1. CASE Answered(r.set, r.key)
    BY <1>1, <2>1 DEF FetchInv
  <2>2. CASE r.set = set /\ r.key \in keys /\ set # "action"
    BY <1>3, <1>4, <2>2 DEF Answered
  <2> QED BY <1>4, <2>1, <2>2
<1>5. ASSUME NEW p \in run'.pending, NEW r \in Observed, p.set # "action", r.set = p.set, r.key = p.key
      PROVE  r \in store \cup run'.pending
  BY <1>1, <1>3, <1>5
<1> QED BY <1>1, <1>2, <1>4, <1>5 DEF FetchInv

LEMMA WindowsAreDays ==
  ASSUME TypeInv, NEW since \in Nat
  PROVE  /\ \A c : RateStart(c, since) \in Int
         /\ \A s \in Securities : DividendStart(s, since) \in Int
<1>1. \A set, key : LastDay(Series(store, set, key)) \in Nat
  <2>1. \A set, key : Series(store, set, key) \in SUBSET Rows
    BY DEF TypeInv, Series
  <2> QED BY <2>1, LastDayIsLast
<1>2. ASSUME NEW c PROVE RateStart(c, since) \in Int
  <2>1. LastDay(Series(store, "fx", c)) \in Nat
    BY <1>1
  <2> QED BY <2>1, IncrementalUpdateAssumption DEF RateStart, WindowStart, Max2, Min2
<1>3. ASSUME NEW s \in Securities PROVE DividendStart(s, since) \in Int
  <2>1. report[s].through \in Nat
    BY DEF TypeInv, Records
  <2>2. (IF since # 0 THEN Max2(Recon, today - since) ELSE Recon) \in Int
    BY IncrementalUpdateAssumption DEF Max2, TypeInv, Days
  <2> QED BY <2>1, <2>2 DEF DividendStart, Max2
<1> QED BY <1>2, <1>3

LEMMA FetchInvStep ==
  ASSUME TypeInv, StoreInv, FetchInv, CursorsSkipNothing, TypeInv', [Next]_vars
  PROVE  FetchInv'
<1> USE DEF files, counters
<1>1. CASE Publish \/ Tick \/ FullBuild \/ Finish \/ Crash
  <2>1. run' = NoRun
    BY <1>1 DEF Publish, Tick, FullBuild, Finish, Crash
  <2> QED BY <2>1, NoRunIsTyped DEF FetchInv, Answered, Asked, DividendsAsked, RatesAsked
<1>2. CASE StartAny
  <2>1. /\ UNCHANGED <<world, store>> /\ run'.phase = "price" /\ run'.since \in Nat
        /\ \A r \in run'.pending : r \in Observed /\ r.set = "price" /\ r.key \in run'.selected
        /\ \A r \in Observed :
             /\ r.set = "price" /\ r.key \in run'.selected
             /\ PriceStart(r.key, run'.since) <= r.day
             /\ \/ <<"price", r.key>> \notin run'.failed \cup run'.absent
                \/ \E p \in run'.pending : p.key = r.key
             => r \in run'.pending
    <3>1. run'.since \in Nat
      BY <1>2, StartEffect DEF RunType
    <3> QED BY <1>2, <3>1, StartEffect
  <2>2. Observed' = Observed
    BY <2>1 DEF Observed
  <2>3. ASSUME NEW r \in Observed, r.set = "price", r.key \in run'.selected,
               \/ <<"price", r.key>> \notin run'.failed \cup run'.absent
               \/ \E p \in run'.pending : p.key = r.key
        PROVE  r \in store \cup run'.pending
    <3>1. CASE PriceStart(r.key, run'.since) <= r.day
      BY <2>1, <2>3, <3>1
    <3>2. CASE r.day < PriceStart(r.key, run'.since)
      BY <2>1, <2>3, <3>2, BeforeTheWindow
    <3>3. r.day \in Int /\ PriceStart(r.key, run'.since) \in Int
      <4>1. Series(store, "price", r.key) \in SUBSET Rows
        BY DEF TypeInv, Series
      <4>2. LastDay(Series(store, "price", r.key)) \in Nat
        BY <4>1, LastDayIsLast
      <4> QED BY <2>1, <4>2, RowFields, IncrementalUpdateAssumption
              DEF TypeInv, Observed, PriceStart, WindowStart, Max2, Min2
    <3> QED BY <3>1, <3>2, <3>3
  <2>4. ASSUME NEW r \in Observed, Answered(r.set, r.key)' PROVE r \in store \cup run'.pending
    <3>1. r.set = "price" /\ r.key \in run'.selected
      BY <2>1, <2>4 DEF Answered, Asked, DividendsAsked, RatesAsked
    <3> QED BY <2>3, <2>4, <3>1 DEF Answered
  <2> QED BY <2>1, <2>2, <2>3, <2>4 DEF FetchInv
<1>3. CASE WritePartition
  <2>1. /\ run'.pending \subseteq run.pending /\ world' = world
        /\ \A r \in Observed : r \in store \cup run.pending => r \in store' \cup run'.pending
        /\ run' = [run EXCEPT !.pending = run'.pending]
    BY <1>3, WriteEffect
  <2>2. /\ run'.phase = run.phase /\ run'.selected = run.selected
        /\ run'.failed = run.failed /\ run'.absent = run.absent
    BY <2>1 DEF TypeInv, RunType
  <2>3. \A set, key : Answered(set, key)' = Answered(set, key)
    BY <2>2 DEF Answered, Asked, DividendsAsked, RatesAsked
  <2>4. Observed' = Observed
    BY <2>1 DEF Observed
  <2> QED BY <2>1, <2>3, <2>4 DEF FetchInv
<1>4. CASE QueryDividends
  <2> DEFINE start == [s \in run.selected |-> DividendStart(s, run.since)]
  <2>1. run.phase = "price" /\ Swept("dividend", run.selected, start)
    BY <1>4, QueryEffects
  <2>2. run.selected \in SUBSET (Securities \cup Currencies) /\ "dividend" \in Datasets /\ run.since \in Nat
        /\ run.selected \in SUBSET Securities
    BY DEF TypeInv, RunType, Datasets
  <2>3. \A k \in run.selected : start[k] = DividendStart(k, run.since) /\ start[k] \in Int
    BY <2>2, WindowsAreDays
  <2> HIDE DEF start
  <2>4. \A r \in Observed : r.set = "dividend" /\ r.key \in run.selected /\ r.day < start[r.key] => r \in store
    BY <2>2, <2>3, BeforeTheWindow
  <2>5. /\ run'.phase = "dividend" /\ run'.selected = run.selected
        /\ run.failed \subseteq run'.failed /\ run.absent \subseteq run'.absent
    BY <2>1, <2>2, SweptFields DEF Swept
  <2>6. \A r \in Observed : Answered(r.set, r.key)' =>
          Answered(r.set, r.key) \/ (r.set = "dividend" /\ r.key \in run.selected)
    BY <2>1, <2>5 DEF Answered, Asked, DividendsAsked, RatesAsked
  <2> QED BY <2>1, <2>2, <2>3, <2>4, <2>6, SweepsAnswer
<1>5. CASE QueryActions
  <2> DEFINE start == [s \in run.selected |-> ActionStart(s, run.since)]
  <2>1. run.phase = "reported" /\ Swept("action", run.selected, start)
    BY <1>5, QueryEffects
  <2>2. run.selected \in SUBSET (Securities \cup Currencies) /\ "action" \in Datasets
    BY DEF TypeInv, RunType, Datasets
  <2> HIDE DEF start
  <2>3. /\ run'.phase = "action" /\ run'.selected = run.selected
        /\ run.failed \subseteq run'.failed /\ run.absent \subseteq run'.absent
    BY <2>1, <2>2, SweptFields DEF Swept
  <2>4. \A r \in Observed : Answered(r.set, r.key)' => Answered(r.set, r.key)
    BY <2>1, <2>3 DEF Answered, Asked, DividendsAsked, RatesAsked
  <2> QED BY <2>1, <2>2, <2>4, SweepsAnswer
<1>6. CASE QueryRates
  <2>1. PICK keys \in SUBSET (Securities \cup Currencies) :
          /\ keys = {CurrencyOf[s] : s \in run.selected} \ {SGD}
          /\ Swept("fx", keys, [c \in keys |-> RateStart(c, run.since)])
    BY <1>6, RatesSwept
  <2> DEFINE start == [c \in keys |-> RateStart(c, run.since)]
  <2>2. run.phase = "checkpointed" /\ "fx" \in Datasets /\ run.since \in Nat
    BY <1>6, RatesSwept DEF Datasets, TypeInv, RunType
  <2>3. \A k \in keys : start[k] = RateStart(k, run.since) /\ start[k] \in Int
    BY <2>2, WindowsAreDays
  <2>4. Swept("fx", keys, start)
    BY <2>1
  <2> HIDE DEF start
  <2>5. \A r \in Observed : r.set = "fx" /\ r.key \in keys /\ r.day < start[r.key] => r \in store
    BY <2>2, <2>3, BeforeTheWindow
  <2>6. /\ run'.phase = "fx" /\ run'.selected = run.selected
        /\ run.failed \subseteq run'.failed /\ run.absent \subseteq run'.absent
    BY <2>2, <2>4, SweptFields DEF Swept
  <2>7. ASSUME NEW r \in Observed, Answered(r.set, r.key)'
        PROVE  Answered(r.set, r.key) \/ (r.set = "fx" /\ r.key \in keys)
    <3>1. CASE r.set = "fx"
      <4>1. r.key # SGD
        BY <3>1, RowFields, MarketStoreAssumption DEF TypeInv, Observed, Keys
      <4> QED BY <2>1, <2>6, <2>7, <3>1, <4>1 DEF Answered, Asked
    <3>2. CASE r.set # "fx"
      BY <2>2, <2>6, <2>7, <3>2 DEF Answered, Asked, DividendsAsked
    <3> QED BY <3>1, <3>2
  <2> QED BY <2>2, <2>3, <2>4, <2>5, <2>7, SweepsAnswer
<1>7. CASE WriteReport \/ WriteCheckpoints \/ BuildPacks
  <2>1. /\ run'.pending = {} /\ run.pending = {} /\ UNCHANGED <<world, store>>
        /\ run'.selected = run.selected /\ run'.failed = run.failed /\ run'.absent = run.absent
    BY <1>7 DEF WriteReport, WriteCheckpoints, BuildPacks, TypeInv, RunType
  <2>2. /\ run'.phase \in {"reported", "checkpointed", "built"}
        /\ run.phase \in {"dividend", "action", "fx"} /\ (run'.phase = "built" <=> run.phase = "fx")
    BY <1>7 DEF WriteReport, WriteCheckpoints, BuildPacks, TypeInv, RunType
  <2>3. \A set, key : Answered(set, key)' => Answered(set, key)
    BY <2>1, <2>2 DEF Answered, Asked, DividendsAsked, RatesAsked
  <2>4. Observed' = Observed
    BY <2>1 DEF Observed
  <2> QED BY <2>1, <2>3, <2>4 DEF FetchInv
<1>8. CASE UNCHANGED vars
  BY <1>8 DEF vars, FetchInv, Observed, Answered, Asked, DividendsAsked, RatesAsked
<1> QED BY <1>1, <1>2, <1>3, <1>4, <1>5, <1>6, <1>7, <1>8 DEF Next

(* Partitions are written from the earliest year on, so a cursor that moves *)
(* leaves nothing of the series unwritten behind it.                        *)
LEMMA MovedCursorLeavesNothing ==
  ASSUME TypeInv, StoreInv, FetchInv, WritePartition,
         NEW r \in Observed, r.set \in {"price", "fx"}, r \notin store,
         NEW x \in store', x \notin store, x.set = r.set, x.key = r.key, r.day <= x.day
  PROVE  r \in store'
<1>1. PICK part \in NextPartitions(run.phase, run.pending) :
        part \subseteq run.pending /\ store' = Upsert(store, part)
  BY WriteEffect
<1>2. x \in part /\ x \in run.pending /\ part \subseteq store'
  BY <1>1, UpsertReplacesCells
<1>3. r \in run.pending
  BY <1>2 DEF FetchInv
<1>4. run.phase = r.set /\ run.phase \in Datasets
  BY <1>2, WriteEffect DEF StoreInv
<1>5. \A q \in run.pending : q.day \in Int /\ YearOf(q.day) \in Int
  <2>1. \A q \in run.pending : q.day \in Int
    BY RowFields DEF TypeInv, RunType
  <2> QED BY <2>1, YearMonotone
<1>6. YearOf(r.day) <= YearOf(x.day)
  BY <1>2, <1>3, <1>5, YearMonotone
<1>7. ASSUME NEW rows, rows \subseteq run.pending, r \in rows, x \in EarliestYear(rows)
      PROVE  r \in EarliestYear(rows)
  <2>1. \A q \in rows : YearOf(x.day) <= YearOf(q.day)
    BY <1>7 DEF EarliestYear
  <2>2. \A q \in rows : YearOf(r.day) <= YearOf(q.day)
    <3> SUFFICES ASSUME NEW q \in rows PROVE YearOf(r.day) <= YearOf(q.day)
      OBVIOUS
    <3>1. YearOf(r.day) \in Int /\ YearOf(x.day) \in Int /\ YearOf(q.day) \in Int
      BY <1>2, <1>3, <1>5, <1>7
    <3>2. YearOf(x.day) <= YearOf(q.day)
      BY <2>1
    <3> QED BY <1>6, <3>1, <3>2
  <2> QED BY <1>7, <2>2 DEF EarliestYear
<1>8. CASE r.set = "price"
  <2>1. part = EarliestYear(run.pending)
    BY <1>1, <1>4, <1>8, PartsArePending
  <2>2. r \in part
    BY <1>2, <1>3, <1>7, <2>1
  <2> QED BY <1>2, <2>2
<1>9. CASE r.set = "fx"
  <2>1. PICK key \in Currencies : part = EarliestYear(Series(run.pending, "fx", key))
    BY <1>1, <1>4, <1>9, PartsArePending
  <2>2. x.key = key
    BY <1>2, <2>1 DEF EarliestYear, Series
  <2>3. r \in Series(run.pending, "fx", key)
    BY <1>3, <1>9, <2>2 DEF Series
  <2>4. r \in part
    <3>1. Series(run.pending, "fx", key) \subseteq run.pending
      BY DEF Series
    <3> QED BY <1>2, <1>7, <2>1, <2>3, <3>1
  <2> QED BY <1>2, <2>4
<1> QED BY <1>8, <1>9

LEMMA CursorsStayWhenStoreStays ==
  ASSUME CursorsSkipNothing, UNCHANGED <<world, store, report>>
  PROVE  CursorsSkipNothing'
<1>1. \A set \in {"price", "dividend", "fx"} : Settled(set)' = Settled(set)
  BY DEF Settled, Frontier, Observed
<1> QED BY <1>1 DEF CursorsSkipNothing

LEMMA CursorsStep ==
  ASSUME TypeInv, StoreInv, FetchInv, CursorsSkipNothing, [Next]_vars
  PROVE  CursorsSkipNothing'
<1> USE DEF files, counters
<1>1. CASE Publish
  <2>1. PICK new \in Rows : today <= new.day + Recon /\ world' = world \cup {new}
    BY <1>1 DEF Publish
  <2>2. UNCHANGED <<store, report, checkpoints>> /\ today \in Nat
    BY <1>1 DEF Publish, TypeInv, Days
  <2>3. ASSUME NEW set \in {"price", "dividend", "fx"}, NEW r \in Observed', r.set = set,
               r.day + Recon < Frontier(set, r.key)
        PROVE  r \in store
    <3>1. CASE r = new
      <4>1. r \in Rows /\ r.day \in Nat /\ r.key \in Keys(set)
        BY <2>1, <2>3, <3>1, RowFields
      <4>2. Frontier(set, r.key) \in Nat /\ Frontier(set, r.key) <= today
        <5>1. CASE set = "dividend"
          <6>1. r.key \in Securities
            BY <4>1, <5>1 DEF Keys
          <6>2. report[r.key].through \in Nat /\ report[r.key].through <= today
            BY <6>1 DEF TypeInv, Records
          <6> QED BY <2>2, <5>1, <6>2 DEF Frontier
        <5>2. CASE set # "dividend"
          <6>1. Series(store, set, r.key) \in SUBSET Rows
            BY DEF TypeInv, Series
          <6>2. \A q \in Series(store, set, r.key) : q.day <= today
            BY DEF TypeInv, Series
          <6>3. LastDay(Series(store, set, r.key)) \in Nat /\ LastDay(Series(store, set, r.key)) <= today
            BY <2>2, <6>1, <6>2, LastDayIsLast
          <6> QED BY <2>3, <5>2, <6>3 DEF Frontier
        <5> QED BY <5>1, <5>2
      <4> QED BY <2>1, <2>2, <2>3, <3>1, <4>1, <4>2, IncrementalUpdateAssumption
    <3>2. CASE r # new
      <4>1. r \in Observed
        BY <2>1, <2>3, <3>2 DEF Observed
      <4> QED BY <2>3, <4>1 DEF CursorsSkipNothing, Settled
    <3> QED BY <3>1, <3>2
  <2>4. \A set \in {"price", "dividend", "fx"} : \A key : Frontier(set, key)' = Frontier(set, key)
    BY <2>2 DEF Frontier
  <2>5. \A set \in {"price", "dividend", "fx"} : Settled(set)'
    BY <2>2, <2>3, <2>4 DEF Settled
  <2> QED BY <2>5 DEF CursorsSkipNothing
<1>2. CASE WritePartition
  <2>1. /\ world' = world /\ report' = report /\ checkpoints' = checkpoints
        /\ \A r \in Observed : r \in store => r \in store'
    BY <1>2, WriteEffect
  <2>2. Observed' = Observed
    BY <2>1 DEF Observed
  <2>3. ASSUME NEW set \in {"price", "fx"}, NEW r \in Observed, r.set = set,
               r.day + Recon < LastDay(Series(store', set, r.key)), r \notin store
        PROVE  r \in store'
    <3>1. /\ Series(store, set, r.key) \in SUBSET Rows
          /\ Series(store', set, r.key) \in SUBSET Rows
      <4>1. store \subseteq Rows /\ store' \subseteq Rows
        BY <1>2, TypeInvStep DEF TypeInv, Next
      <4> QED BY <4>1 DEF Series
    <3>2. r.day \in Nat /\ LastDay(Series(store, set, r.key)) \in Nat /\ LastDay(Series(store', set, r.key)) \in Nat
      BY <3>1, LastDayIsLast, RowFields DEF TypeInv, Observed
    <3>3. LastDay(Series(store, set, r.key)) <= r.day + Recon
      <4>1. ~ (r.day + Recon < LastDay(Series(store, set, r.key)))
        BY <2>3 DEF CursorsSkipNothing, Settled, Frontier
      <4> QED BY <3>2, <4>1, IncrementalUpdateAssumption
    <3>4. LastDay(Series(store', set, r.key)) # 0
      BY <2>3, <3>2, IncrementalUpdateAssumption
    <3>5. PICK x \in Series(store', set, r.key) : x.day = LastDay(Series(store', set, r.key))
      BY <3>1, <3>4, LastDayIsLast
    <3>6. x \notin store
      <4> SUFFICES ASSUME x \in store PROVE FALSE
        OBVIOUS
      <4>1. x \in Series(store, set, r.key)
        BY <3>5 DEF Series
      <4>2. x.day <= LastDay(Series(store, set, r.key))
        BY <3>1, <4>1, LastDayIsLast
      <4> QED BY <2>3, <3>2, <3>3, <3>5, <4>2, IncrementalUpdateAssumption
    <3>7. r.day <= x.day
      BY <2>3, <3>2, <3>5, IncrementalUpdateAssumption
    <3>8. x \in store' /\ x.set = r.set /\ x.key = r.key
      BY <2>3, <3>5 DEF Series
    <3> QED BY <1>2, <2>3, <3>6, <3>7, <3>8, MovedCursorLeavesNothing
  <2>4. Settled("dividend")'
    BY <2>1, <2>2 DEF CursorsSkipNothing, Settled, Frontier
  <2>5. Settled("price")' /\ Settled("fx")'
    BY <2>1, <2>2, <2>3 DEF Settled, Frontier
  <2> QED BY <2>4, <2>5 DEF CursorsSkipNothing
<1>3. CASE WriteReport
  <2>1. /\ UNCHANGED <<world, store>> /\ run.phase = "dividend" /\ run.pending = {}
        /\ report' = [s \in Securities |-> RecordAfter(s)]
    BY <1>3 DEF WriteReport
  <2>2. Observed' = Observed
    BY <2>1 DEF Observed
  <2>3. ASSUME NEW r \in Observed, r.set = "dividend", r.day + Recon < Frontier("dividend", r.key)'
        PROVE  r \in store
    <3>1. r.key \in Securities /\ r.day \in Nat
      BY <2>3, RowFields DEF TypeInv, Observed, Keys
    <3>2. report'[r.key] = RecordAfter(r.key)
      BY <2>1, <3>1
    <3>3. r.day + Recon < IF RecordAfter(r.key).ok THEN RecordAfter(r.key).through ELSE 0
      BY <2>3, <3>2 DEF Frontier
    <3>4. RecordAfter(r.key).ok
      BY <3>1, <3>3, IncrementalUpdateAssumption
    <3>5. CASE r.key \in run.selected
      <4>1. r.key \notin Rejected("dividend")
        BY <3>4, <3>5 DEF RecordAfter, QueriedRecord
      <4>2. <<"dividend", r.key>> \notin run.failed \cup run.absent
        BY <3>1, <4>1 DEF Rejected
      <4>3. Answered("dividend", r.key)
        BY <2>1, <3>5, <4>2 DEF Answered, Asked, DividendsAsked
      <4> QED BY <2>1, <2>3, <4>3 DEF FetchInv
    <3>6. CASE r.key \notin run.selected
      <4>1. report[r.key] \in Records
        BY <3>1 DEF TypeInv
      <4>2. RecordAfter(r.key).ok = report[r.key].ok /\ RecordAfter(r.key).through = report[r.key].through
        BY <3>6, <4>1 DEF RecordAfter, Records
      <4>3. r.day + Recon < Frontier("dividend", r.key)
        BY <3>3, <4>2 DEF Frontier
      <4> QED BY <2>3, <4>3 DEF CursorsSkipNothing, Settled
    <3> QED BY <3>5, <3>6
  <2>4. Settled("dividend")'
    BY <2>1, <2>2, <2>3 DEF Settled
  <2>5. Settled("price")' /\ Settled("fx")'
    BY <2>1, <2>2 DEF CursorsSkipNothing, Settled, Frontier
  <2> QED BY <2>4, <2>5 DEF CursorsSkipNothing
<1>4. CASE QueryDividends \/ QueryActions \/ QueryRates
  <2>1. UNCHANGED <<world, store, report>>
    BY <1>4, QueryEffects DEF Swept
  <2> QED BY <2>1, CursorsStayWhenStoreStays
<1>5. CASE Tick \/ FullBuild \/ WriteCheckpoints \/ BuildPacks \/ Finish \/ Crash \/ UNCHANGED vars
  <2>1. UNCHANGED <<world, store, report>>
    BY <1>5 DEF Tick, FullBuild, WriteCheckpoints, BuildPacks, Finish, Crash, vars
  <2> QED BY <2>1, CursorsStayWhenStoreStays
<1>6. CASE StartAny
  <2>1. UNCHANGED <<world, store, report>>
    BY <1>6, StartEffect
  <2> QED BY <2>1, CursorsStayWhenStoreStays
<1> QED BY <1>1, <1>2, <1>3, <1>4, <1>5, <1>6 DEF Next

-------------------------------------------------------------------------------
(* The store a run started from                                            *)

LEMMA CellsKeptByWrites ==
  ASSUME TypeInv, StoreInv, CellsKept, WritePartition
  PROVE  CellsKept'
<1>1. PICK part : store' = Upsert(store, part)
  BY WriteEffect
<1>2. run'.before = run.before
  <2>1. run' = [run EXCEPT !.pending = run'.pending]
    BY WriteEffect
  <2> QED BY <2>1 DEF TypeInv, RunType
<1>3. ASSUME NEW q \in run.before PROVE \E r \in store' : Cell(r) = Cell(q)
  <2>1. PICK r \in store : Cell(r) = Cell(q)
    BY DEF CellsKept
  <2>2. r \in store' \/ \E new \in part : Cell(new) = Cell(r)
    BY <1>1, UpsertReplacesCells
  <2> QED BY <1>1, <2>1, <2>2, UpsertReplacesCells
<1> QED BY <1>2, <1>3 DEF CellsKept

(* When a run changes no row, its store is the one it started from.        *)
LEMMA NoChangedRows ==
  ASSUME OneRowPerCell(run.before), CellsKept, Changed = {}
  PROVE  store = run.before
<1>1. store \subseteq run.before
  BY DEF Changed
<1>2. ASSUME NEW q \in run.before PROVE q \in store
  <2>1. PICK r \in store : Cell(r) = Cell(q)
    BY DEF CellsKept
  <2> QED BY <1>1, <2>1 DEF OneRowPerCell
<1> QED BY <1>1, <1>2

LEMMA BaseInvStep ==
  ASSUME TypeInv, StoreInv, BaseInv, [Next]_vars
  PROVE  BaseInv'
<1> USE DEF files, counters
<1>1. CASE Publish \/ Tick \/ FullBuild
  <2>1. UNCHANGED <<run, store, runs, summary>> /\ run = NoRun
    BY <1>1 DEF Publish, Tick, FullBuild
  <2> QED BY <2>1 DEF BaseInv
<1>2. CASE StartAny
  <2>1. /\ runs' = runs + 1 /\ UNCHANGED <<store, summary>> /\ run'.before = store
        /\ run'.base = IF ContinuesChain THEN summary.id ELSE 0
    BY <1>2, StartEffect
  <2>2. run'.base # 0 => run'.base = summary.id /\ summary.content.rows = store
    BY <2>1 DEF ContinuesChain, Content
  <2>3. CellsKept'
    BY <2>1 DEF CellsKept
  <2>4. OneRowPerCell(store) /\ summary.id \in Nat /\ runs \in Nat
    BY DEF StoreInv, TypeInv
  <2> QED BY <2>1, <2>2, <2>3, <2>4 DEF BaseInv
<1>3. CASE WritePartition
  <2>1. /\ UNCHANGED <<runs, summary>> /\ run' = [run EXCEPT !.pending = run'.pending] /\ run # NoRun
    BY <1>3, WriteEffect, NoRunIsTyped DEF Datasets
  <2>2. run'.before = run.before /\ run'.base = run.base
    BY <2>1 DEF TypeInv, RunType
  <2> QED BY <1>3, <2>1, <2>2, CellsKeptByWrites DEF BaseInv
<1>4. ASSUME run # NoRun, run'.before = run.before, run'.base = run.base, UNCHANGED <<store, summary, runs>>
      PROVE  BaseInv'
  BY <1>4 DEF BaseInv, CellsKept
<1>5. CASE QueryDividends
  <2>1. run.phase = "price" /\ run'.before = run.before /\ run'.base = run.base
        /\ UNCHANGED <<store, summary, runs>>
    <3>1. "dividend" \in Datasets /\ run.selected \in SUBSET (Securities \cup Currencies)
      BY DEF Datasets, TypeInv, RunType
    <3> QED BY <1>5, <3>1, QueryEffects, SweptFields DEF Swept
  <2> QED BY <1>4, <2>1, NoRunIsTyped
<1>6. CASE QueryActions
  <2>1. run.phase = "reported" /\ run'.before = run.before /\ run'.base = run.base
        /\ UNCHANGED <<store, summary, runs>>
    <3>1. "action" \in Datasets /\ run.selected \in SUBSET (Securities \cup Currencies)
      BY DEF Datasets, TypeInv, RunType
    <3> QED BY <1>6, <3>1, QueryEffects, SweptFields DEF Swept
  <2> QED BY <1>4, <2>1, NoRunIsTyped
<1>7. CASE QueryRates
  <2>1. run.phase = "checkpointed" /\ run'.before = run.before /\ run'.base = run.base
        /\ UNCHANGED <<store, summary, runs>>
    <3>1. PICK keys \in SUBSET (Securities \cup Currencies) :
            Swept("fx", keys, [c \in keys |-> RateStart(c, run.since)])
      BY <1>7, RatesSwept
    <3> DEFINE start == [c \in keys |-> RateStart(c, run.since)]
    <3>2. "fx" \in Datasets /\ Swept("fx", keys, start)
      BY <3>1 DEF Datasets
    <3> HIDE DEF start
    <3>3. run'.before = run.before /\ run'.base = run.base
      BY <3>2, SweptFields
    <3> QED BY <1>7, <3>2, <3>3, RatesSwept DEF Swept
  <2> QED BY <1>4, <2>1, NoRunIsTyped
<1>8. CASE WriteReport \/ WriteCheckpoints \/ BuildPacks
  <2>1. run.phase # "idle" /\ run'.before = run.before /\ run'.base = run.base
        /\ UNCHANGED <<store, summary, runs>>
    BY <1>8 DEF WriteReport, WriteCheckpoints, BuildPacks, TypeInv, RunType
  <2> QED BY <1>4, <2>1, NoRunIsTyped
<1>9. CASE Finish
  <2>1. /\ run' = NoRun /\ UNCHANGED runs /\ run # NoRun
        /\ summary'.id = IF run.base # 0 /\ NoChange THEN run.base ELSE runs
    BY <1>9, NoRunIsTyped DEF Finish
  <2>2. summary'.id <= runs
    BY <2>1 DEF BaseInv, TypeInv
  <2> QED BY <2>1, <2>2 DEF BaseInv
<1>10. CASE Crash
  BY <1>10 DEF Crash, BaseInv
<1>11. CASE UNCHANGED vars
  BY <1>11 DEF vars, BaseInv, CellsKept
<1> QED BY <1>1, <1>2, <1>3, <1>5, <1>6, <1>7, <1>8, <1>9, <1>10, <1>11 DEF Next

(* An id that is kept is that of the store the run started from, which the *)
(* run has not changed; any other id is new.                               *)
LEMMA KeptIdStep ==
  ASSUME TypeInv, BaseInv, [Next]_vars, summary'.id = summary.id, summary' # summary
  PROVE  summary'.content.rows = summary.content.rows
<1> USE DEF files, counters
<1>1. CASE Finish
  <2>1. /\ summary' = [number |-> runs, ready |-> Complete, content |-> Content,
                       id |-> IF run.base # 0 /\ NoChange THEN run.base ELSE runs]
        /\ run # NoRun
    BY <1>1, NoRunIsTyped DEF Finish
  <2>2. summary'.id = (IF run.base # 0 /\ NoChange THEN run.base ELSE runs) /\ summary'.content.rows = store
    BY <2>1 DEF Content
  <2>3. summary.id < runs /\ summary.id \in Nat /\ runs \in Nat
    BY <2>1 DEF BaseInv, TypeInv
  <2>4. run.base # 0 /\ NoChange
    BY <2>2, <2>3
  <2>5. store = run.before
    BY <2>1, <2>4, NoChangedRows DEF BaseInv, NoChange
  <2> QED BY <2>1, <2>2, <2>4, <2>5 DEF BaseInv
<1>2. CASE ~ Finish
  <2>1. CASE StartAny
    BY <2>1, StartEffect
  <2>2. CASE WritePartition
    BY <2>2 DEF WritePartition
  <2>3. CASE QueryDividends \/ QueryActions \/ QueryRates
    BY <2>3, QueryEffects DEF Swept
  <2>4. CASE Publish \/ Tick \/ FullBuild \/ WriteReport \/ WriteCheckpoints \/ BuildPacks \/ Crash \/ UNCHANGED vars
    BY <2>4 DEF Publish, Tick, FullBuild, WriteReport, WriteCheckpoints, BuildPacks, Crash, vars
  <2> QED BY <1>2, <2>1, <2>2, <2>3, <2>4 DEF Next
<1> QED BY <1>1, <1>2

-------------------------------------------------------------------------------
(* A pack that no change key leads to shows the store as it is             *)

LEMMA PackNeedsTheStatus ==
  ASSUME NEW rows, NEW old, NEW new, NEW pair, old[pair[1]].status = new[pair[1]].status
  PROVE  PackOf(rows, old, pair) = PackOf(rows, new, pair)
BY DEF PackOf

LEMMA StoreAndBefore ==
  ASSUME TypeInv, OneRowPerCell(run.before), CellsKept
  PROVE  /\ store \subseteq Rows /\ run.before \subseteq Rows
         /\ \A r \in store : r \in run.before \/ r \in Changed
         /\ \A q \in run.before : \E r \in store :
              /\ r.set = q.set /\ r.key = q.key /\ r.day = q.day
              /\ r = q \/ r \in Changed
<1>1. store \subseteq Rows /\ run.before \subseteq Rows
  BY DEF TypeInv, RunType
<1>2. \A r \in store : r \in run.before \/ r \in Changed
  BY DEF Changed
<1>3. ASSUME NEW q \in run.before
      PROVE  \E r \in store : r.set = q.set /\ r.key = q.key /\ r.day = q.day /\ (r = q \/ r \in Changed)
  <2>1. PICK r \in store : Cell(r) = Cell(q)
    BY DEF CellsKept
  <2>2. r.set = q.set /\ r.key = q.key /\ r.day = q.day
    BY <1>1, <2>1, SameCell
  <2>3. r \in run.before => r = q
    BY <2>1 DEF OneRowPerCell
  <2> QED BY <1>2, <2>2, <2>3
<1> QED BY <1>1, <1>2, <1>3

(* A rate in the window of a pack is in the year of the pack, or in it     *)
(* Lookback days later.                                                    *)
LEMMA WindowYears ==
  ASSUME NEW first \in Nat, NEW last \in Nat, NEW day \in Nat, NEW year,
         YearOf(first) = year, YearOf(last) = year, first - Lookback <= day, day <= last
  PROVE  year \in {YearOf(day), YearOf(day + Lookback)}
<1>1. Lookback \in Nat /\ Lookback <= DaysPerYear /\ DaysPerYear \in Nat
  BY MarketStoreAssumption
<1>2. day \in Int /\ day + Lookback \in Int /\ first \in Int /\ last \in Int
  BY <1>1
<1>3. YearOf(day) <= YearOf(last) /\ YearOf(day) \in Int /\ YearOf(last) \in Int
  BY <1>2, YearMonotone
<1>4. first <= day + Lookback
  BY <1>1
<1>5. YearOf(first) <= YearOf(day + Lookback) /\ YearOf(day + Lookback) \in Int
  BY <1>2, <1>4, YearMonotone
<1>6. day <= day + Lookback /\ day + Lookback <= day + DaysPerYear
  BY <1>1
<1>7. YearOf(day + Lookback) <= YearOf(day) + 1
  BY <1>2, <1>6, YearNext
<1> QED BY <1>3, <1>5, <1>7

(* The change keys miss no pack whose prices, rates, dividends or failure  *)
(* flag the run has changed.                                               *)
LEMMA UntouchedPack ==
  ASSUME TypeInv, OneRowPerCell(run.before), CellsKept,
         NEW pair \in Pairs, pair[1] \in run.selected, pair \notin BuildScope,
         NEW part \in FollowedParts
  PROVE  PackOf(run.before, StartReport, pair)[part] = PackOf(store, report, pair)[part]
<1> DEFINE s == pair[1]
           year == pair[2]
           days == {r.day : r \in PricesOf(store, pair)}
<1>1. s \in Securities /\ pair = <<s, year>>
  BY DEF Pairs
<1>2. CASE pair \notin PricedPairs(store)
  <2>1. PricesOf(store, pair) = {}
    BY <1>2 DEF PricedPairs
  <2>2. PricesOf(run.before, pair) = {}
    <3> SUFFICES ASSUME NEW q \in PricesOf(run.before, pair) PROVE FALSE
      OBVIOUS
    <3>1. q \in run.before /\ q.set = "price" /\ q.key = s /\ YearOf(q.day) = year
      BY DEF PricesOf, Series
    <3>2. PICK r \in store : r.set = q.set /\ r.key = q.key /\ r.day = q.day
      BY <3>1, StoreAndBefore
    <3>3. r \in PricesOf(store, pair)
      BY <3>1, <3>2 DEF PricesOf, Series
    <3> QED BY <2>1, <3>3
  <2> QED BY <2>1, <2>2 DEF PackOf, RatesOf, FollowedParts, PackParts
<1>3. CASE pair \in PricedPairs(store)
  <2>1. pair \notin Touched
    BY <1>3 DEF BuildScope
  <2>2. \A c \in Changed : c.set # "fx" => c.key # s \/ YearOf(c.day) # year
    <3> SUFFICES ASSUME NEW c \in Changed, c.set # "fx", c.key = s, YearOf(c.day) = year PROVE FALSE
      OBVIOUS
    <3>1. <<c.key, YearOf(c.day)>> \in Touched
      BY DEF Touched
    <3> QED BY <1>1, <2>1, <3>1
  <2>3. ASSUME NEW set \in {"price", "dividend"}
        PROVE  {r \in Series(store, set, s) : YearOf(r.day) = year}
                 = {r \in Series(run.before, set, s) : YearOf(r.day) = year}
    <3>1. ASSUME NEW r \in store, r.set = set, r.key = s, YearOf(r.day) = year PROVE r \in run.before
      BY <2>2, <3>1, StoreAndBefore
    <3>2. ASSUME NEW q \in run.before, q.set = set, q.key = s, YearOf(q.day) = year PROVE q \in store
      <4>1. PICK r \in store : /\ r.set = q.set /\ r.key = q.key /\ r.day = q.day
                               /\ r = q \/ r \in Changed
        BY StoreAndBefore
      <4> QED BY <2>2, <3>2, <4>1
    <3> QED BY <3>1, <3>2 DEF Series
  <2>4. PricesOf(store, pair) = PricesOf(run.before, pair)
    BY <2>3 DEF PricesOf
  <2>5. report[s].status = "provider_error" <=> StartReport[s].status = "provider_error"
    <3>1. s \notin CoverageChanged
      BY <1>3, <2>1 DEF Touched
    <3>2. StartReport[s].status = run.coverage[s]
      BY <1>1 DEF StartReport
    <3> QED BY <1>1, <3>1, <3>2 DEF CoverageChanged
  <2>6. days \in SUBSET (0 .. MaxDay) /\ days # {} /\ \A day \in days : YearOf(day) = year /\ day \in Nat
    <3>1. \A r \in PricesOf(store, pair) : r \in Rows /\ YearOf(r.day) = year
      BY StoreAndBefore DEF PricesOf, Series
    <3>2. PricesOf(store, pair) # {}
      BY <1>3 DEF PricedPairs
    <3>3. \A day \in days : day \in 0 .. MaxDay /\ YearOf(day) = year /\ day \in Nat
      BY <3>1, RowFields, MarketStoreAssumption DEF Days
    <3>4. days # {}
      BY <3>2
    <3> HIDE DEF s, year, days
    <3>5. days \in SUBSET (0 .. MaxDay)
      BY <3>3
    <3> QED BY <3>3, <3>4, <3>5
  <2> HIDE DEF days
  <2>7. Min(days) \in days /\ Max(days) \in days
    BY <2>6, MinOfDays, MaxOfDays
  <2>8. Max(days) <= LastDay(Series(run.before, "price", s))
    <3>1. PICK r \in PricesOf(run.before, pair) : r.day = Max(days)
      BY <2>4, <2>7 DEF days
    <3>2. r \in Series(run.before, "price", s) /\ Series(run.before, "price", s) \in SUBSET Rows
      BY StoreAndBefore, <3>1 DEF PricesOf, Series
    <3> QED BY <3>1, <3>2, LastDayIsLast
  <2>9. ASSUME NEW c \in Changed, c.set = "fx", c.key = CurrencyOf[s],
               Min(days) - Lookback <= c.day, c.day <= Max(days)
        PROVE  FALSE
    <3>1. c.day \in Nat
      BY StoreAndBefore, RowFields DEF Changed
    <3>2. year \in {YearOf(c.day), YearOf(c.day + Lookback)}
      BY <2>6, <2>7, <2>9, <3>1, WindowYears
    <3>3. c.day <= LastDay(Series(run.before, "price", s))
      <4>1. Max(days) \in Nat /\ LastDay(Series(run.before, "price", s)) \in Nat
        <5>1. Series(run.before, "price", s) \in SUBSET Rows
          BY StoreAndBefore DEF Series
        <5> QED BY <2>6, <2>7, <5>1, LastDayIsLast
      <4> QED BY <2>8, <2>9, <3>1, <4>1
    <3>4. pair \in FxTouched
      BY <1>3, <2>9, <3>2, <3>3 DEF FxTouched
    <3> QED BY <2>1, <3>4 DEF Touched
  <2>10. Between(Series(store, "fx", CurrencyOf[s]), Min(days) - Lookback, Max(days))
           = Between(Series(run.before, "fx", CurrencyOf[s]), Min(days) - Lookback, Max(days))
    <3>1. ASSUME NEW r \in store, r.set = "fx", r.key = CurrencyOf[s],
                 Min(days) - Lookback <= r.day, r.day <= Max(days)
          PROVE  r \in run.before
      BY <2>9, <3>1, StoreAndBefore
    <3>2. ASSUME NEW q \in run.before, q.set = "fx", q.key = CurrencyOf[s],
                 Min(days) - Lookback <= q.day, q.day <= Max(days)
          PROVE  q \in store
      <4>1. PICK r \in store : /\ r.set = q.set /\ r.key = q.key /\ r.day = q.day
                               /\ r = q \/ r \in Changed
        BY StoreAndBefore
      <4> QED BY <2>9, <3>2, <4>1
    <3> QED BY <3>1, <3>2 DEF Between, Series
  <2>11. RatesOf(store, pair) = RatesOf(run.before, pair)
    BY <2>4, <2>10 DEF RatesOf, days
  <2> HIDE DEF s, year
  <2>12. {r \in Series(store, "dividend", pair[1]) : YearOf(r.day) = pair[2]}
           = {r \in Series(run.before, "dividend", pair[1]) : YearOf(r.day) = pair[2]}
    BY <2>3 DEF s, year
  <2> DEFINE old == PackOf(run.before, StartReport, pair)
             new == PackOf(store, report, pair)
  <2>13. old.prices = new.prices
    BY <2>4 DEF PackOf
  <2>14. old.fx = new.fx
    BY <2>11 DEF PackOf
  <2>15. old.dividends = new.dividends
    BY <2>4, <2>12 DEF PackOf
  <2>16. old.failed = new.failed
    <3>1. /\ old.failed = (PricesOf(run.before, pair) # {} /\ StartReport[pair[1]].status = "provider_error")
          /\ new.failed = (PricesOf(store, pair) # {} /\ report[pair[1]].status = "provider_error")
      BY DEF PackOf
    <3> QED BY <2>4, <2>5, <3>1 DEF s
  <2>17. part \in {"prices", "fx", "dividends", "failed"}
    BY DEF FollowedParts, PackParts
  <2> HIDE DEF old, new
  <2>18. old[part] = new[part]
    BY <2>13, <2>14, <2>15, <2>16, <2>17
  <2> QED BY <2>18 DEF old, new
<1> QED BY <1>2, <1>3

(* The fields that only the start and the build of a run change.           *)
SameBase == /\ run'.selected = run.selected /\ run'.before = run.before
            /\ run'.coverage = run.coverage /\ run'.fresh = run.fresh

LEMMA RunStepsKeepTheBase ==
  ASSUME TypeInv, StoreInv,
         WritePartition \/ QueryDividends \/ WriteReport \/ QueryActions \/ WriteCheckpoints \/ QueryRates
  PROVE  /\ SameBase /\ UNCHANGED <<packs, manifest>>
         /\ run.phase \notin {"idle", "built"} /\ run'.phase # "built"
<1> USE DEF files, counters
<1>1. CASE WritePartition
  <2>1. run' = [run EXCEPT !.pending = run'.pending] /\ UNCHANGED <<packs, manifest>> /\ run.phase \in Datasets
    BY <1>1, WriteEffect
  <2>2. SameBase /\ run'.phase = run.phase
    BY <2>1 DEF TypeInv, RunType, SameBase
  <2> QED BY <2>1, <2>2 DEF Datasets
<1>2. CASE QueryDividends
  <2>1. "dividend" \in Datasets /\ run.selected \in SUBSET (Securities \cup Currencies)
    BY DEF Datasets, TypeInv, RunType
  <2> DEFINE start == [s \in run.selected |-> DividendStart(s, run.since)]
  <2>2. run.phase = "price" /\ Swept("dividend", run.selected, start)
    BY <1>2, QueryEffects
  <2> HIDE DEF start
  <2>3. SameBase /\ run'.phase = "dividend"
    BY <2>1, <2>2, SweptFields DEF SameBase
  <2>4. UNCHANGED <<packs, manifest>>
    BY <2>2 DEF Swept
  <2> QED BY <2>2, <2>3, <2>4
<1>3. CASE QueryActions
  <2>1. "action" \in Datasets /\ run.selected \in SUBSET (Securities \cup Currencies)
    BY DEF Datasets, TypeInv, RunType
  <2> DEFINE start == [s \in run.selected |-> ActionStart(s, run.since)]
  <2>2. run.phase = "reported" /\ Swept("action", run.selected, start)
    BY <1>3, QueryEffects
  <2> HIDE DEF start
  <2>3. SameBase /\ run'.phase = "action"
    BY <2>1, <2>2, SweptFields DEF SameBase
  <2>4. UNCHANGED <<packs, manifest>>
    BY <2>2 DEF Swept
  <2> QED BY <2>2, <2>3, <2>4
<1>4. CASE QueryRates
  <2>1. PICK keys \in SUBSET (Securities \cup Currencies) :
          Swept("fx", keys, [c \in keys |-> RateStart(c, run.since)])
    BY <1>4, RatesSwept
  <2> DEFINE start == [c \in keys |-> RateStart(c, run.since)]
  <2>2. "fx" \in Datasets /\ Swept("fx", keys, start)
    BY <2>1 DEF Datasets
  <2> HIDE DEF start
  <2>3. SameBase /\ UNCHANGED <<packs, manifest>>
    BY <2>2, SweptFields DEF Swept, SameBase
  <2> QED BY <1>4, <2>3, RatesSwept
<1>5. CASE WriteReport
  BY <1>5 DEF WriteReport, TypeInv, RunType, SameBase
<1>6. CASE WriteCheckpoints
  BY <1>6 DEF WriteCheckpoints, TypeInv, RunType, SameBase
<1> QED BY <1>1, <1>2, <1>3, <1>4, <1>5, <1>6

LEMMA PackInvStep ==
  ASSUME TypeInv, TypeInv', StoreInv, BaseInv, PackInv, [Next]_vars
  PROVE  PackInv'
<1> USE DEF files, counters
<1>1. CASE FullBuild
  <2>1. /\ packs' = [pair \in Pairs |-> PackOf(store, report, pair)]
        /\ manifest' = PricedPairs(store) /\ run' = run /\ run = NoRun
    BY <1>1 DEF FullBuild
  <2>2. \A pair \in manifest' : pair \in Pairs /\ packs'[pair].prices # {}
    BY <2>1 DEF PricedPairs, PackOf
  <2> QED BY <2>1, <2>2, NoRunIsTyped DEF PackInv, PacksFollowTheStore
<1>2. CASE Publish \/ Tick \/ Finish \/ Crash
  <2>1. run' = NoRun /\ UNCHANGED <<packs, manifest>>
    BY <1>2 DEF Publish, Tick, Finish, Crash
  <2> QED BY <2>1, NoRunIsTyped DEF PackInv, PacksFollowTheStore
<1>3. CASE StartAny
  <2>1. /\ UNCHANGED <<store, report, packs, manifest>> /\ run'.phase = "price"
        /\ run'.before = store /\ run'.coverage = [s \in Securities |-> report[s].status]
        /\ run'.fresh = {pair \in Pairs : \A part \in FollowedParts : PackIsCurrent(pair, part)}
    BY <1>3, StartEffect
  <2>2. ASSUME NEW pair \in Pairs PROVE PackOf(store, report, pair) = PackOf(run'.before, StartReport', pair)
    <3>1. pair[1] \in Securities
      BY DEF Pairs
    <3>2. StartReport'[pair[1]].status = report[pair[1]].status
      BY <2>1, <3>1 DEF StartReport
    <3> QED BY <2>1, <3>2, PackNeedsTheStatus
  <2>3. \A pair \in run'.fresh, part \in FollowedParts :
          packs'[pair][part] = PackOf(run'.before, StartReport', pair)[part]
    BY <2>1, <2>2 DEF PackIsCurrent
  <2> QED BY <2>1, <2>3 DEF PackInv, PacksFollowTheStore
<1>4. CASE WritePartition \/ QueryDividends \/ WriteReport \/ QueryActions \/ WriteCheckpoints \/ QueryRates
  <2>1. /\ SameBase /\ UNCHANGED <<packs, manifest>>
        /\ run.phase \notin {"idle", "built"} /\ run'.phase # "built"
    BY <1>4, RunStepsKeepTheBase
  <2>2. StartReport' = StartReport
    BY <2>1 DEF SameBase, StartReport
  <2> QED BY <2>1, <2>2 DEF PackInv, PacksFollowTheStore, SameBase
<1>5. CASE BuildPacks
  <2>1. /\ run.phase = "fx" /\ UNCHANGED <<store, report>>
        /\ run'.phase = "built" /\ run'.selected = run.selected /\ run'.fresh = run.fresh
    <3>1. \/ run' = [run EXCEPT !.phase = "built"]
          \/ run' = [run EXCEPT !.phase = "built", !.packError = TRUE]
      BY <1>5 DEF BuildPacks
    <3>2. run \in RunType
      BY DEF TypeInv
    <3>3. run.phase = "fx" /\ UNCHANGED <<store, report>>
      BY <1>5 DEF BuildPacks
    <3> QED BY <3>1, <3>2, <3>3 DEF RunType
  <2>2. PICK done \in SUBSET BuildScope :
          /\ packs' = Copied(done)
          /\ \/ done = BuildScope /\ manifest' = manifest \cup BuildScope
             \/ manifest' = manifest /\ run' = [run EXCEPT !.phase = "built", !.packError = TRUE]
    BY <1>5 DEF BuildPacks, ManifestAfter
  <2>3. \A pair \in Pairs : packs'[pair] = IF pair \in done THEN PackOf(store, report, pair) ELSE packs[pair]
    BY <2>2 DEF Copied
  <2>4. \A pair \in BuildScope : pair \in Pairs /\ PackOf(store, report, pair).prices # {}
    BY DEF BuildScope, PricedPairs, PackOf
  <2>5. \A pair \in manifest' : pair \in Pairs /\ packs'[pair].prices # {}
    BY <2>2, <2>3, <2>4 DEF PackInv
  <2>6. ASSUME ~ run'.packError, NEW pair \in run.fresh, pair[1] \in run.selected, NEW part \in FollowedParts
        PROVE  packs'[pair][part] = PackOf(store, report, pair)[part]
    <3>1. done = BuildScope
      <4>1. run' # [run EXCEPT !.phase = "built", !.packError = TRUE]
        BY <2>6 DEF TypeInv, RunType
      <4> QED BY <2>2, <4>1
    <3>2. pair \in Pairs
      BY DEF TypeInv, RunType
    <3>3. CASE pair \in BuildScope
      BY <2>3, <3>1, <3>2, <3>3
    <3>4. CASE pair \notin BuildScope
      <4>1. packs[pair][part] = PackOf(run.before, StartReport, pair)[part]
        BY <2>1 DEF PackInv
      <4>2. OneRowPerCell(run.before) /\ CellsKept
        BY <2>1, NoRunIsTyped DEF BaseInv
      <4>3. PackOf(run.before, StartReport, pair)[part] = PackOf(store, report, pair)[part]
        BY <2>6, <3>2, <3>4, <4>2, UntouchedPack
      <4> QED BY <2>3, <3>1, <3>2, <3>4, <4>1, <4>3
    <3> QED BY <3>3, <3>4
  <2>7. PacksFollowTheStore'
    BY <2>1, <2>6 DEF PacksFollowTheStore, PackIsCurrent
  <2> QED BY <2>1, <2>5, <2>7 DEF PackInv
<1>6. CASE UNCHANGED vars
  <2>1. StartReport' = StartReport
    BY <1>6 DEF vars, StartReport
  <2> QED BY <1>6, <2>1 DEF vars, PackInv, PacksFollowTheStore, PackIsCurrent
<1> QED BY <1>1, <1>2, <1>3, <1>4, <1>5, <1>6 DEF Next

-------------------------------------------------------------------------------
(* The invariant                                                           *)

LEMMA InitIInv == Init => IInv
<1> SUFFICES ASSUME Init PROVE IInv
  OBVIOUS
<1>1. TypeInv
  <2>1. world \subseteq Rows /\ store \subseteq world /\ \A r \in world : r.day <= today
    BY DEF Init
  <2>2. today \in Days
    BY MarketStoreAssumption DEF Init, Days
  <2>3. report \in [Securities -> Records] /\ \A s \in Securities : report[s].through <= today
    BY DEF Init, Records, Statuses
  <2>4. packs \in [Pairs -> Packs] /\ manifest \subseteq Pairs
    <3>1. \A pair \in Pairs : PackOf({}, report, pair) \in Packs
      BY PackTypes
    <3> QED BY <3>1 DEF Init
  <2>5. summary \in [number : Nat, ready : BOOLEAN, content : Contents, id : Nat]
    <3>1. Content \in Contents
      BY <2>3 DEF Init, Content, Contents
    <3> QED BY <3>1 DEF Init
  <2>6. checkpoints \in [Securities -> Nat] /\ restamped \in BOOLEAN /\ run = NoRun /\ runs \in Nat
    BY DEF Init
  <2> QED BY <2>1, <2>2, <2>3, <2>4, <2>5, <2>6, NoRunIsTyped DEF TypeInv
<1>2. run = NoRun /\ store = {} /\ manifest = {} /\ runs = 0 /\ summary.id = 0
  BY DEF Init
<1>3. StoreInv /\ FetchInv /\ BaseInv
  BY <1>2, NoRunIsTyped DEF StoreInv, OneRowPerCell, FetchInv, Answered, Asked, DividendsAsked, RatesAsked, BaseInv
<1>4. PackInv
  BY <1>2, NoRunIsTyped DEF PackInv, PacksFollowTheStore
<1>5. CursorsSkipNothing
  <2>1. \A set, key : LastDay(Series(store, set, key)) = 0
    <3>1. \A set, key : Series(store, set, key) = {}
      BY <1>2 DEF Series
    <3>2. LastDay({}) = 0
      <4>1. LastDay({}) # 0 => \E r \in {} : r.day = LastDay({})
        BY LastDayIsLast, Zenon
      <4> QED BY <4>1
    <3> QED BY <3>1, <3>2
  <2>2. ASSUME NEW set \in {"price", "dividend", "fx"}, NEW r \in Observed, r.set = set
        PROVE  ~ (r.day + Recon < Frontier(set, r.key))
    <3>1. r.day \in Nat /\ r.key \in Keys(set)
      BY <1>1, <2>2, RowFields DEF TypeInv, Observed
    <3>2. set = "dividend" => ~ report[r.key].ok
      BY <3>1 DEF Init, Keys
    <3>3. Frontier(set, r.key) = 0
      BY <2>1, <2>2, <3>2 DEF Frontier
    <3> QED BY <3>1, <3>3, IncrementalUpdateAssumption
  <2> QED BY <2>2 DEF CursorsSkipNothing, Settled
<1> QED BY <1>1, <1>3, <1>4, <1>5 DEF IInv

LEMMA StepIInv == IInv /\ [Next]_vars => IInv'
<1> SUFFICES ASSUME IInv, [Next]_vars PROVE IInv'
  OBVIOUS
<1>1. TypeInv'
  BY TypeInvStep DEF IInv
<1>2. StoreInv'
  BY StoreInvStep DEF IInv
<1>3. FetchInv'
  BY <1>1, FetchInvStep DEF IInv
<1>4. CursorsSkipNothing'
  BY CursorsStep DEF IInv
<1>5. BaseInv'
  BY BaseInvStep DEF IInv
<1>6. PackInv'
  BY <1>1, PackInvStep DEF IInv
<1> QED BY <1>1, <1>2, <1>3, <1>4, <1>5, <1>6 DEF IInv

(* Every reachable state satisfies the inductive invariant.                *)
THEOREM Invariance == Spec => []IInv
BY InitIInv, StepIInv, PTL DEF Spec

(* The state of run_incremental_update keeps its types: what is stored was *)
(* once observed, on days that have come.                                  *)
THEOREM TypeCorrect == Spec => []TypeInv
<1>1. IInv => TypeInv
  BY DEF IInv
<1> QED BY <1>1, Invariance, PTL

(* _plan_securities and the partition writes of run_incremental_update: no  *)
(* observation is lost behind a cursor, whatever fails or is killed.        *)
THEOREM NoObservationIsSkipped == Spec => []CursorsSkipNothing
<1>1. IInv => CursorsSkipNothing
  BY DEF IInv
<1> QED BY <1>1, Invariance, PTL

(* summary["complete"]: a run reported complete has stored what the         *)
(* provider says of its securities.                                         *)
THEOREM CompleteRunsAreUpToDate == Spec => []CompleteMeansUpToDate
<1>1. IInv => CompleteMeansUpToDate
  <2> SUFFICES ASSUME IInv, run.phase = "built", Complete, NEW r \in Observed,
                      r.set \in {"price", "dividend"} => r.key \in run.selected,
                      r.set = "fx" => \E s \in run.selected : CurrencyOf[s] = r.key,
                      r.set # "action", <<r.set, r.key>> \notin run.absent
               PROVE  r \in store
    BY DEF CompleteMeansUpToDate
  <2>1. r.set \in {"price", "dividend", "fx"}
    BY RowFields DEF IInv, TypeInv, Observed, Datasets
  <2>2. Answered(r.set, r.key)
    BY <2>1 DEF Answered, Asked, DividendsAsked, RatesAsked, Complete
  <2>3. run.pending = {}
    BY NothingPendingAtRest DEF IInv, Datasets
  <2> QED BY <2>2, <2>3 DEF IInv, FetchInv
<1> QED BY <1>1, Invariance, PTL

(* _touched_pairs and build_packs: the scoped build misses no pack that the *)
(* run has made stale.                                                      *)
THEOREM BuildsMissNoPack == Spec => []PacksFollowTheStore
<1>1. IInv => PacksFollowTheStore
  BY DEF IInv, PackInv
<1> QED BY <1>1, Invariance, PTL

(* _require_complete_pack_baseline: once it passes, every price year has a *)
(* pack.                                                                   *)
THEOREM BaselineFindsEveryPack == Spec => []NoPackIsForgotten
<1>1. IInv => NoPackIsForgotten
  BY DEF IInv, PackInv, NoPackIsForgotten, CompleteBaseline
<1> QED BY <1>1, Invariance, PTL

(* incremental_id: two summaries with one id describe one store.            *)
THEOREM OneIdOneStore == Spec => SameIdSameStore
<1>1. IInv /\ [Next]_vars =>
        [summary'.id = summary.id /\ summary' # summary =>
           summary'.content.rows = summary.content.rows]_vars
  BY KeptIdStep DEF IInv
<1> QED BY <1>1, Invariance, PTL DEF Spec, SameIdSameStore

===============================================================================
