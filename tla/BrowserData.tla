------------------------------ MODULE BrowserData ------------------------------
(***************************************************************************)
(* The tabs of one browser: each restores its ledger when it starts, and   *)
(* its loaders get manifest and packs when they are needed, over one       *)
(* database.                                                               *)
(***************************************************************************)
EXTENDS LedgerPage, PackLoader

CONSTANTS
  Editor,     (* the tab whose user edits the ledger                       *)
  MaxVisits,  (* bound: how often tabs are opened                          *)
  MaxRequests (* bound: requests in progress when the user acts            *)

ASSUME BrowserAssumption == Editor \in Pages /\ MaxVisits \in Nat /\ MaxRequests \in Nat

VARIABLES
  visiting,   (* the tabs that are open                                    *)
  visits

vars == <<dbVars, ledgerVars, loaderVars, visiting, visits>>

Visit(page) ==
  /\ page \notin visiting /\ visits < MaxVisits
  /\ visiting' = visiting \cup {page} /\ visits' = visits + 1
  /\ StartLedger(page)
  /\ requests' = Append(requests, Request(page, "load", Nothing))
  /\ UNCHANGED <<version, stores, leaked, loaderVars>>

Leave(page) ==
  /\ page \in visiting
  /\ visiting' = visiting \ {page}
  /\ Abandon(page) /\ ForgetLoaders(page)
  /\ restoring' = restoring \ {page} /\ edited' = edited \ {page}
  /\ overtaken' = overtaken \ {page} /\ unsaved' = unsaved \ {page}
  /\ UNCHANGED <<record, table, used, visits>>

Act ==
  /\ Editor \in visiting /\ Len(requests) < MaxRequests
  /\ \/ \E rows \in Contents : Edit(Editor, rows) \/ AskImport(Editor, rows)
     \/ AskClear(Editor)
  /\ UNCHANGED <<version, stores, leaked, loaderVars, visiting, visits>>

Load(loader) ==
  /\ PageOf[loader] \in visiting
  /\ \/ Len(requests) < MaxRequests /\ LoadManifest(loader)
     \/ LoadInputs(loader) /\ UNCHANGED requests
  /\ UNCHANGED <<version, stores, leaked, ledgerVars, visiting, visits>>

Network(loader) ==
  /\ \/ FetchManifest(loader)
     \/ (Join(loader) \/ \E year \in Years : FetchPack(loader, year)) /\ UNCHANGED requests
  /\ UNCHANGED <<version, stores, leaked, ledgerVars, visiting, visits>>

Open(i) == Grant(i) /\ UNCHANGED <<ledgerVars, loaderVars, visiting, visits>>

Settle(request, ok) ==
  IF request.kind \in LedgerKinds
  THEN Continue(request, ok) /\ UNCHANGED loaderVars
  ELSE ContinueManifest(request, ok) /\ UNCHANGED ledgerVars

(* The caller is told that its request is blocked or has failed.           *)
Refuse(i) ==
  /\ \/ IsBlocked(i) /\ AfterBlocked(i, FollowUp(requests[i]))
     \/ MayFail(i) /\ AfterSettled(i, FollowUp(requests[i]))
  /\ Settle(requests[i], FALSE)
  /\ requests[i].kind \in LedgerKinds => UNCHANGED record
  /\ UNCHANGED <<version, stores, leaked, visiting, visits>>

(* A transaction commits or aborts.                                        *)
Execute(i, ok) ==
  /\ MayExecute(i)
  /\ AfterSettled(i, FollowUp(requests[i])) /\ Settle(requests[i], ok)
  /\ requests[i].kind \in LedgerKinds => record' = IF ok THEN RecordAfter(requests[i]) ELSE record
  /\ UNCHANGED <<version, stores, leaked, visiting, visits>>

Database(i) == Open(i) \/ Refuse(i) \/ \E ok \in BOOLEAN : Execute(i, ok)

Publish == ((\E origin \in Origins : Deploy(origin)) \/ Hour) /\ UNCHANGED <<dbVars, ledgerVars, visiting, visits>>

Init ==
  /\ version = 0 /\ stores = {} /\ requests = <<>> /\ leaked = {}
  /\ record = Nothing /\ table = [page \in Pages |-> Nothing]
  /\ restoring = {} /\ used = {} /\ edited = {} /\ overtaken = {} /\ unsaved = {}
  /\ site = [origin \in Origins |-> origin] /\ replaced = [snapshot \in Snapshots |-> MaxHour + 1] /\ hour = 0
  /\ entry = NoEntry /\ manifest = [loader \in Loaders |-> NoManifest]
  /\ packs = [loader \in Loaders |-> <<>>] /\ inputs = [loader \in Loaders |-> NoInputs]
  /\ visiting = {} /\ visits = 0

Next ==
  \/ \E page \in Pages : Visit(page) \/ Leave(page)
  \/ \E loader \in Loaders : Load(loader) \/ Network(loader)
  \/ Act \/ Publish
  \/ \E i \in DOMAIN requests : Database(i)

Spec == Init /\ [][Next]_vars

DatabaseStep(kinds) == \E i \in DOMAIN requests : requests[i].kind \in kinds /\ Database(i)

(* The browser answers the requests to each store of its database, and a   *)
(* fetch ends by its timeout at the latest.  (The subscripts name what     *)
(* such a step always changes.)                                            *)
Fairness ==
  /\ WF_requests(DatabaseStep(LedgerKinds)) /\ WF_requests(DatabaseStep(ManifestKinds))
  /\ \A loader \in Loaders : WF_<<manifest, packs>>(Network(loader))

FairSpec == Spec /\ Fairness

-------------------------------------------------------------------------------
(* Properties                                                              *)

(* What is shown is what is saved: once the writes of a tab are through,   *)
(* and the last of them succeeded, the table is the stored ledger, or the  *)
(* way a stored ledger is shown - in whatever order edits, clears, imports *)
(* and the restore of the start came.  Excepted are rows the store         *)
(* refuses, and two orders of answers: a table that the answer to a load   *)
(* or import replaces after an edit made meanwhile (app.js:1507, 1547),    *)
(* and an import asked for while a clear is on its way, over which the     *)
(* default row of the clear is saved while the table shows the import      *)
(* (app.js:1525).                                                          *)
ShownIsSaved ==
  \A page \in edited :
    \/ page \in restoring \cup overtaken \cup unsaved \/ table[page] \in Incomplete
    \/ IsWaitingFor(page, {"save", "remove", "import"})
    \/ table[page] \in {record, Shown(record)}

(* The cached manifest costs at most its time to live: a loader that takes *)
(* up a manifest takes one whose publication was still the current one of  *)
(* its address less than Ttl before, whichever loader of whichever tab     *)
(* stored it and in whatever order.  (Its address may be another than the  *)
(* loader's own.)                                                          *)
NoOldPublication ==
  \A loader \in Loaders :
    manifest[loader].phase = "ready"
      => \/ replaced[manifest[loader].snapshot] >= manifest[loader].hour
         \/ manifest[loader].hour - replaced[manifest[loader].snapshot] < Ttl

(* An assembled request has every year it spans: packs arrive or fail in   *)
(* any order, and the failure of one fails the whole.                      *)
InputsAreWhole ==
  \A loader \in Loaders :
    inputs[loader] # NoInputs
      => DOMAIN inputs[loader].packs = Years /\ \A y \in Years : inputs[loader].packs[y] \in Snapshots

IsLoading(loader) == manifest[loader].phase \in {"reading", "fetching"} \/ packs[loader] # <<>>

(* Nothing hangs: a blocked or failing database, a connection that nobody  *)
(* closes and a network that does not answer end every restore of a ledger *)
(* and every load of a manifest or of packs, unless the tab is closed.     *)
EverythingSettles ==
  /\ \A page \in Pages : []<>(page \notin restoring)
  /\ \A loader \in Loaders : []<>~IsLoading(loader)

(* data-pack-budgets.md: "Each fetched pack is validated (schema_version,  *)
(* data_snapshot_id matching the manifest) before use".                    *)
PacksMatchTheManifest ==
  \A loader \in Loaders, year \in Years :
    inputs[loader] # NoInputs => inputs[loader].packs[year] = manifest[loader].snapshot

===============================================================================
