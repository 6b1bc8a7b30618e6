--------------------------- MODULE BrowserDataProofs ---------------------------
(***************************************************************************)
(* Proofs about BrowserData, for any number of tabs, loaders, addresses,   *)
(* years, retries, publications, contents of the table and requests in     *)
(* progress.                                                               *)
(*                                                                         *)
(* 1. Assembled inputs have a pack for every year: the load in progress    *)
(*    has an entry for each year from its start to its end, or there is    *)
(*    none.                                                                *)
(* 2. No manifest is taken up that was replaced Ttl hours before: what is  *)
(*    stored, or on its way to be stored, was current at its address when  *)
(*    it arrived.                                                          *)
(* 3. What is shown is what is saved: the requests of the ledger are       *)
(*    answered in their order, and while nothing has been overtaken the    *)
(*    last write on its way, or else the record, holds the table.          *)
(***************************************************************************)
EXTENDS BrowserData, FiniteSetTheorems, TLAPS

-------------------------------------------------------------------------------
(* 1. Assembled inputs                                                     *)

Packs == [Years -> [tries : 0 .. Retries, snapshot : 0 .. MaxSnapshot]]

LoadInv == packs \in [Loaders -> Packs \cup {<<>>}]

IsWhole(assembled) ==
  assembled # NoInputs => DOMAIN assembled.packs = Years /\ \A y \in Years : assembled.packs[y] \in Snapshots

InputsInv == DOMAIN inputs = Loaders /\ \A loader \in Loaders : IsWhole(inputs[loader])

IInv == site \in [Origins -> Snapshots] /\ LoadInv /\ InputsInv

dataVars == <<site, packs, inputs>>

-------------------------------------------------------------------------------
(* The steps of the loader                                                 *)

(* Forgetting the loads and the inputs of a tab keeps the others whole.    *)
LEMMA ForgetKeeps == ASSUME IInv, NEW page \in Pages, ForgetLoaders(page) PROVE IInv'
<1>1. /\ packs' = [loader \in Loaders |-> IF PageOf[loader] = page THEN <<>> ELSE packs[loader]]
      /\ inputs' = [loader \in Loaders |-> IF PageOf[loader] = page THEN NoInputs ELSE inputs[loader]]
      /\ site' = site
  BY DEF ForgetLoaders
<1>2. LoadInv'
  BY <1>1 DEF IInv, LoadInv
<1>3. InputsInv'
  BY <1>1 DEF IInv, InputsInv, IsWhole
<1> QED BY <1>1, <1>2, <1>3 DEF IInv

(* What an address serves is a publication.                                *)
LEMMA CurrentIsNumbered == ASSUME IInv, NEW loader \in Loaders PROVE Current(loader) \in Snapshots
BY LoadersAssumption DEF IInv, Current

LEMMA LoadInputsKeeps == ASSUME IInv, NEW loader \in Loaders, LoadInputs(loader) PROVE IInv'
<1>1. /\ site' = site /\ inputs' = [inputs EXCEPT ![loader] = NoInputs]
      /\ packs' = [packs EXCEPT ![loader] = [year \in Years |-> AskedPack]]
  BY DEF LoadInputs
<1>2. [year \in Years |-> AskedPack] \in Packs
  BY PackLoaderAssumption DEF Packs, AskedPack
<1>3. LoadInv'
  BY <1>1, <1>2 DEF IInv, LoadInv
<1>4. \A other \in Loaders : inputs'[other] = NoInputs \/ inputs'[other] = inputs[other]
  BY <1>1 DEF IInv, InputsInv
<1>5. InputsInv'
  BY <1>1, <1>4 DEF IInv, InputsInv, IsWhole
<1> QED BY <1>1, <1>3, <1>5 DEF IInv

(* A load that is examined year by year is one that is in progress.        *)
LEMMA InProgress ==
  ASSUME IInv, NEW loader \in Loaders, packs[loader] # <<>>
  PROVE  packs[loader] \in Packs
BY DEF IInv, LoadInv

LEMMA HasYear ==
  ASSUME IInv, NEW loader \in Loaders, NEW year \in DOMAIN packs[loader]
  PROVE  packs[loader] \in Packs /\ year \in Years
<1>1. packs[loader] # <<>>
  OBVIOUS
<1> QED BY <1>1, InProgress DEF Packs

(* An arrival, a retry or a failure leaves an entry for each year or none. *)
LEMMA FetchPackKeeps ==
  ASSUME IInv, NEW loader \in Loaders, NEW year \in Years, FetchPack(loader, year)
  PROVE  IInv'
<1>1. /\ site' = site /\ inputs' = inputs /\ year \in DOMAIN packs[loader]
      /\ \/ packs' = [packs EXCEPT ![loader] =
                        IF packs[loader][year].tries < Retries THEN [packs[loader] EXCEPT ![year].tries = @ + 1] ELSE <<>>]
         \/ packs' = [packs EXCEPT ![loader][year].snapshot = Current(loader)]
  BY DEF FetchPack
<1> DEFINE load == packs[loader]
           pack == load[year]
           retried == [load EXCEPT ![year] = [pack EXCEPT !.tries = pack.tries + 1]]
           arrived == [load EXCEPT ![year] = [pack EXCEPT !.snapshot = Current(loader)]]
<1>2. load \in Packs
  BY <1>1, HasYear
<1>3. pack \in [tries : 0 .. Retries, snapshot : 0 .. MaxSnapshot]
  BY <1>2 DEF Packs
<1>4. ASSUME pack.tries < Retries PROVE retried \in Packs
  <2>1. [pack EXCEPT !.tries = pack.tries + 1] \in [tries : 0 .. Retries, snapshot : 0 .. MaxSnapshot]
    BY <1>3, <1>4, PackLoaderAssumption
  <2> HIDE DEF load, pack
  <2> QED BY <1>2, <2>1 DEF Packs
<1>5. arrived \in Packs
  <2>1. [pack EXCEPT !.snapshot = Current(loader)] \in [tries : 0 .. Retries, snapshot : 0 .. MaxSnapshot]
    BY <1>3, CurrentIsNumbered, PackLoaderAssumption DEF Snapshots
  <2> HIDE DEF load, pack
  <2> QED BY <1>2, <2>1 DEF Packs
<1>6. \/ pack.tries < Retries /\ packs' = [packs EXCEPT ![loader] = retried]
      \/ packs' = [packs EXCEPT ![loader] = <<>>]
      \/ packs' = [packs EXCEPT ![loader] = arrived]
  <2>1. CASE packs' = [packs EXCEPT ![loader] =
                         IF packs[loader][year].tries < Retries THEN [packs[loader] EXCEPT ![year].tries = @ + 1] ELSE <<>>]
    <3> DEFINE again == [packs[loader] EXCEPT ![year].tries = @ + 1]
               next == IF packs[loader][year].tries < Retries THEN again ELSE <<>>
    <3>1. again = retried
      OBVIOUS
    <3>2. packs' = [packs EXCEPT ![loader] = next]
      BY <2>1
    <3>3. next = IF pack.tries < Retries THEN retried ELSE <<>>
      BY <3>1
    <3> HIDE DEF again, next, load, pack, retried
    <3> QED BY <3>2, <3>3
  <2>2. CASE packs' = [packs EXCEPT ![loader][year].snapshot = Current(loader)]
    BY <2>2
  <2> QED BY <1>1, <2>1, <2>2
<1> HIDE DEF load, pack, retried, arrived
<1>7. LoadInv'
  BY <1>4, <1>5, <1>6 DEF IInv, LoadInv
<1> QED BY <1>1, <1>7 DEF IInv, InputsInv

(* Only a load whose packs have all arrived is joined.                     *)
LEMMA JoinKeeps == ASSUME IInv, NEW loader \in Loaders, Join(loader) PROVE IInv'
<1>1. PICK first :
        /\ packs[loader] # <<>> /\ \A year \in DOMAIN packs[loader] : packs[loader][year].snapshot # 0
        /\ inputs' = [inputs EXCEPT ![loader] =
                        [snapshot |-> first,
                         packs    |-> [year \in DOMAIN packs[loader] |-> packs[loader][year].snapshot]]]
        /\ packs' = [packs EXCEPT ![loader] = <<>>] /\ site' = site
  BY DEF Join
<1>2. packs[loader] \in Packs
  BY <1>1, InProgress
<1> DEFINE joined == [year \in DOMAIN packs[loader] |-> packs[loader][year].snapshot]
<1>3. DOMAIN joined = Years /\ \A year \in Years : joined[year] \in Snapshots
  BY <1>1, <1>2, PackLoaderAssumption DEF Packs, Snapshots
<1> HIDE DEF joined
<1>4. IsWhole([snapshot |-> first, packs |-> joined])
  BY <1>3 DEF IsWhole
<1>5. inputs' = [inputs EXCEPT ![loader] = [snapshot |-> first, packs |-> joined]]
  BY <1>1 DEF joined
<1>6. InputsInv'
  BY <1>4, <1>5 DEF IInv, InputsInv
<1>7. LoadInv'
  BY <1>1 DEF IInv, LoadInv
<1> QED BY <1>1, <1>6, <1>7 DEF IInv

-------------------------------------------------------------------------------
(* The steps of the browser                                                *)

LEMMA InitIsWhole == Init => IInv
BY PackLoaderAssumption DEF Init, IInv, LoadInv, InputsInv, IsWhole, Snapshots

LEMMA UnchangedKeeps == ASSUME IInv, UNCHANGED dataVars PROVE IInv'
BY DEF IInv, dataVars, LoadInv, InputsInv, IsWhole

LEMMA VisitKeeps == ASSUME IInv, NEW page \in Pages, Visit(page) PROVE IInv'
BY UnchangedKeeps DEF Visit, loaderVars, dataVars

LEMMA LeaveKeeps == ASSUME IInv, NEW page \in Pages, Leave(page) PROVE IInv'
BY ForgetKeeps DEF Leave

LEMMA LoadKeeps == ASSUME IInv, NEW loader \in Loaders, Load(loader) PROVE IInv'
<1>1. CASE LoadManifest(loader)
  BY <1>1, UnchangedKeeps DEF LoadManifest, dataVars
<1>2. CASE LoadInputs(loader)
  BY <1>2, LoadInputsKeeps
<1> QED BY <1>1, <1>2 DEF Load

LEMMA NetworkKeeps == ASSUME IInv, NEW loader \in Loaders, Network(loader) PROVE IInv'
<1>1. CASE FetchManifest(loader)
  BY <1>1, UnchangedKeeps DEF FetchManifest, dataVars
<1>2. CASE Join(loader)
  BY <1>2, JoinKeeps
<1>3. ASSUME NEW year \in Years, FetchPack(loader, year) PROVE IInv'
  BY <1>3, FetchPackKeeps
<1> QED BY <1>1, <1>2, <1>3 DEF Network

LEMMA ActKeeps == ASSUME IInv, Act PROVE IInv'
BY UnchangedKeeps DEF Act, loaderVars, dataVars

LEMMA SettleKeeps == ASSUME NEW request, NEW ok, Settle(request, ok) PROVE UNCHANGED dataVars
BY DEF Settle, ContinueManifest, loaderVars, dataVars

LEMMA DatabaseKeeps == ASSUME IInv, NEW i \in DOMAIN requests, Database(i) PROVE IInv'
<1>1. CASE Open(i)
  BY <1>1, UnchangedKeeps DEF Open, loaderVars, dataVars
<1>2. CASE Refuse(i)
  BY <1>2, UnchangedKeeps, SettleKeeps DEF Refuse
<1>3. ASSUME NEW ok \in BOOLEAN, Execute(i, ok) PROVE IInv'
  BY <1>3, UnchangedKeeps, SettleKeeps DEF Execute
<1> QED BY <1>1, <1>2, <1>3 DEF Database

LEMMA PublishKeeps == ASSUME IInv, Publish PROVE IInv'
<1>1. site' \in [Origins -> Snapshots] /\ packs' = packs /\ inputs' = inputs
  BY DEF Publish, Deploy, Hour, IInv
<1> QED BY <1>1 DEF IInv, LoadInv, InputsInv, IsWhole

LEMMA NextKeeps == IInv /\ [Next]_vars => IInv'
<1> SUFFICES ASSUME IInv, [Next]_vars PROVE IInv'
  OBVIOUS
<1>1. ASSUME NEW page \in Pages, Visit(page) \/ Leave(page) PROVE IInv'
  BY <1>1, VisitKeeps, LeaveKeeps
<1>2. ASSUME NEW loader \in Loaders, Load(loader) \/ Network(loader) PROVE IInv'
  BY <1>2, LoadKeeps, NetworkKeeps
<1>3. CASE Act \/ Publish
  BY <1>3, ActKeeps, PublishKeeps
<1>4. ASSUME NEW i \in DOMAIN requests, Database(i) PROVE IInv'
  BY <1>4, DatabaseKeeps
<1>5. CASE UNCHANGED vars
  BY <1>5, UnchangedKeeps DEF vars, loaderVars, dataVars
<1> QED BY <1>1, <1>2, <1>3, <1>4, <1>5 DEF Next

(* In every execution the inputs of an analysis have a pack of some        *)
(* publication for each year that they span (pack-loader.js:201).          *)
THEOREM InputsAreAlwaysWhole == Spec => []InputsAreWhole
<1>1. IInv => InputsAreWhole
  BY DEF IInv, InputsInv, IsWhole, InputsAreWhole
<1> QED BY <1>1, InitIsWhole, NextKeeps, PTL DEF Spec

-------------------------------------------------------------------------------
(* 2. The cached manifest                                                   *)

IsWithout(queue, s, i) ==
  /\ Len(s) \in Nat /\ DOMAIN s = 1 .. Len(s) /\ i \in DOMAIN s /\ Len(queue) = Len(s) - 1
  /\ \A j \in 1 .. Len(s) - 1 : (j < i => queue[j] = s[j]) /\ (j >= i => queue[j] = s[j + 1])

(* Taking out one element and adding others at the end.                    *)
LEMMA RemovedAt ==
  ASSUME NEW S, NEW s \in Seq(S), NEW i \in DOMAIN s
  PROVE  RemoveAt(s, i) \in Seq(S) /\ IsWithout(RemoveAt(s, i), s, i)
<1> DEFINE front == SubSeq(s, 1, i - 1)
           back  == SubSeq(s, i + 1, Len(s))
<1>1. i \in 1 .. Len(s) /\ Len(s) \in Nat
  OBVIOUS
<1>2. front \in Seq(S) /\ Len(front) = i - 1 /\ \A j \in 1 .. i - 1 : front[j] = s[j]
  BY <1>1
<1>3. back \in Seq(S) /\ Len(back) = Len(s) - i /\ \A j \in 1 .. Len(s) - i : back[j] = s[j + i]
  BY <1>1
<1>4. RemoveAt(s, i) = front \o back
  BY DEF RemoveAt
<1> HIDE DEF front, back
<1>5. front \o back \in Seq(S) /\ Len(front \o back) = Len(s) - 1
  BY <1>1, <1>2, <1>3
<1>6. \A j \in 1 .. Len(s) - 1 : (front \o back)[j] = IF j < i THEN front[j] ELSE back[j - (i - 1)]
  BY <1>1, <1>2, <1>3
<1>7. \A j \in 1 .. Len(s) - 1 : (j < i => (front \o back)[j] = s[j]) /\ (j >= i => (front \o back)[j] = s[j + 1])
  <2> TAKE j \in 1 .. Len(s) - 1
  <2>1. CASE j < i
    BY <2>1, <1>1, <1>2, <1>6
  <2>2. CASE ~(j < i)
    <3>1. j - (i - 1) \in 1 .. Len(s) - i /\ (j - (i - 1)) + i = j + 1
      BY <2>2, <1>1
    <3> QED BY <3>1, <2>2, <1>3, <1>6
  <2> QED BY <2>1, <2>2
<1> QED BY <1>1, <1>4, <1>5, <1>7 DEF IsWithout

LEMMA KeptInOrder ==
  ASSUME NEW S, requests \in Seq(S), NEW page
  PROVE  \A at \in InOrder(Kept(page)) :
           /\ [j \in DOMAIN at |-> requests[at[j]]] \in Seq(S)
           /\ \A j \in DOMAIN at : at[j] \in Kept(page)
<1> TAKE at \in InOrder(Kept(page))
<1> DEFINE n == Cardinality(Kept(page))
<1>1. n \in Nat
  <2>1. IsFiniteSet(DOMAIN requests)
    BY FS_Interval
  <2>2. Kept(page) \subseteq DOMAIN requests
    BY DEF Kept
  <2> QED BY <2>1, <2>2, FS_Subset, FS_CardinalityType
<1> HIDE DEF n
<1>2. at \in [1 .. n -> Kept(page)]
  BY DEF InOrder, n
<1>3. \A j \in 1 .. n : requests[at[j]] \in S
  BY <1>2 DEF Kept
<1>4. [j \in 1 .. n |-> requests[at[j]]] \in Seq(S)
  BY <1>1, <1>3
<1> QED BY <1>2, <1>4

Entries == [snapshot : 0 .. MaxSnapshot, at : 0 .. MaxHour]
Phases  == {"none", "reading", "fetching", "ready", "failed"}
States  == {"asked", "open", "blocked"}

Requested ==
  [page : Pages, kind : LedgerKinds \cup ManifestKinds,
   value : Rows \cup {Nothing} \cup Entries \cup Loaders, state : States]

(* A stored manifest, or one to be stored, was current when it arrived.    *)
WasCurrent(value) ==
  value.snapshot # 0 => value.at <= hour /\ value.at <= replaced[value.snapshot]

Queued ==
  {request \in Requested :
     /\ request.kind = "manifestRead" => request.value \in Loaders
     /\ request.kind = "manifestWrite" => request.value \in Entries /\ WasCurrent(request.value)}

(* What a loader has taken up was current less than Ttl before.              *)
TakenUp(taken) ==
  taken.phase = "ready" =>
    /\ taken.snapshot \in Snapshots /\ taken.hour <= hour
    /\ replaced[taken.snapshot] >= taken.hour \/ taken.hour - replaced[taken.snapshot] < Ttl

Clock ==
  /\ site \in [Origins -> Snapshots] /\ hour \in 0 .. MaxHour /\ replaced \in [Snapshots -> 0 .. MaxHour + 1]
  /\ \A origin, other \in Origins : site[origin] = site[other] => origin = other
  /\ \A origin \in Origins : replaced[site[origin]] = MaxHour + 1
  /\ \A snapshot \in Snapshots :
       (\A origin \in Origins : site[origin] < snapshot) => replaced[snapshot] = MaxHour + 1

Taken == [phase : Phases, tries : Nat, snapshot : 0 .. MaxSnapshot, hour : 0 .. MaxHour]

CacheInv ==
  /\ Clock
  /\ requests \in Seq(Queued)
  /\ entry \in Entries /\ WasCurrent(entry)
  /\ manifest \in [Loaders -> Taken] /\ \A loader \in Loaders : TakenUp(manifest[loader])

clockVars == <<site, replaced, hour>>

LEMMA RequestIsQueued ==
  ASSUME NEW page \in Pages, NEW kind \in LedgerKinds, NEW value \in Rows \cup {Nothing}
  PROVE  Request(page, kind, value) \in Queued
BY DEF Request, Queued, Requested, ManifestKinds, LedgerKinds, States

LEMMA ReadIsQueued ==
  ASSUME NEW page \in Pages, NEW loader \in Loaders
  PROVE  Request(page, "manifestRead", loader) \in Queued
BY DEF Request, Queued, Requested, ManifestKinds, LedgerKinds, States

LEMMA WriteIsQueued ==
  ASSUME NEW page \in Pages, NEW value \in Entries, WasCurrent(value)
  PROVE  Request(page, "manifestWrite", value) \in Queued
BY DEF Request, Queued, Requested, ManifestKinds, LedgerKinds, States

LEMMA StateIsQueued ==
  ASSUME NEW request \in Queued, NEW state \in States
  PROVE  [request EXCEPT !.state = state] \in Queued
<1>1. [request EXCEPT !.state = state] \in Requested
  BY DEF Queued, Requested
<1>2. /\ [request EXCEPT !.state = state].kind = request.kind
      /\ [request EXCEPT !.state = state].value = request.value
  BY DEF Queued, Requested
<1> QED BY <1>1, <1>2 DEF Queued

LEMMA SaveIsQueued ==
  ASSUME NEW page \in Pages, NEW rows \in Rows
  PROVE  Save(page, rows) \in Seq(Queued)
<1>1. Request(page, "save", rows) \in Queued
  BY RequestIsQueued DEF LedgerKinds
<1> QED BY <1>1 DEF Save

LEMMA FollowUpIsQueued ==
  ASSUME NEW request \in Queued
  PROVE  FollowUp(request) \in Seq(Queued)
<1>1. request.page \in Pages /\ DefaultRow \in Rows
  BY DEF Queued, Requested, Rows
<1> QED BY <1>1, SaveIsQueued DEF FollowUp

LEMMA QueuedStays ==
  ASSUME CacheInv, UNCHANGED <<replaced, hour>>
  PROVE  Queued' = Queued
BY DEF Queued, WasCurrent

(* The clock and what was taken up are unchanged: the queue and the entry. *)
LEMMA CacheStays ==
  ASSUME CacheInv, UNCHANGED clockVars, UNCHANGED manifest, UNCHANGED entry, requests' \in Seq(Queued)
  PROVE  CacheInv'
<1>1. requests' \in Seq(Queued')
  BY QueuedStays DEF clockVars
<1> QED BY <1>1 DEF CacheInv, clockVars, Clock, WasCurrent, TakenUp

LEMMA QueueIsQueued ==
  ASSUME requests \in Seq(Queued), NEW i \in DOMAIN requests, NEW further \in Seq(Queued)
  PROVE  /\ AfterBlocked(i, further) => requests' \in Seq(Queued)
         /\ AfterSettled(i, further) => requests' \in Seq(Queued)
         /\ Grant(i) => requests' \in Seq(Queued)
<1>1. requests[i] \in Queued
  OBVIOUS
<1>2. [requests EXCEPT ![i].state = "blocked"] \in Seq(Queued)
  <2>1. [requests[i] EXCEPT !.state = "blocked"] \in Queued
    BY <1>1, StateIsQueued DEF States
  <2> QED BY <2>1
<1>3. [requests EXCEPT ![i].state = "open"] \in Seq(Queued)
  <2>1. [requests[i] EXCEPT !.state = "open"] \in Queued
    BY <1>1, StateIsQueued DEF States
  <2> QED BY <2>1
<1>4. RemoveAt(requests, i) \in Seq(Queued)
  BY RemovedAt
<1>5. ASSUME NEW queue \in Seq(Queued) PROVE queue \o further \in Seq(Queued)
  OBVIOUS
<1>6. AfterBlocked(i, further) => requests' \in Seq(Queued)
  BY <1>2, <1>5 DEF AfterBlocked
<1>7. AfterSettled(i, further) => requests' \in Seq(Queued)
  BY <1>4, <1>5 DEF AfterSettled
<1>8. Grant(i) => requests' \in Seq(Queued)
  BY <1>3, <1>4 DEF Grant
<1> QED BY <1>6, <1>7, <1>8

LEMMA CacheInit == Init => CacheInv
BY PackLoaderAssumption DEF Init, CacheInv, Clock, Snapshots, NoEntry, Entries, WasCurrent, NoManifest, Taken, Phases, TakenUp

LEMMA CacheVisit == ASSUME CacheInv, NEW page \in Pages, Visit(page) PROVE CacheInv'
<1>1. Request(page, "load", Nothing) \in Queued
  BY RequestIsQueued DEF LedgerKinds
<1>2. requests' \in Seq(Queued)
  BY <1>1 DEF Visit, CacheInv
<1> QED BY <1>2, CacheStays DEF Visit, loaderVars, clockVars

LEMMA CacheLeave == ASSUME CacheInv, NEW page \in Pages, Leave(page) PROVE CacheInv'
<1>1. requests' \in Seq(Queued)
  BY KeptInOrder DEF Leave, Abandon, CacheInv
<1>2. /\ manifest' = [loader \in Loaders |-> IF PageOf[loader] = page THEN NoManifest ELSE manifest[loader]]
      /\ UNCHANGED clockVars /\ UNCHANGED entry
  BY DEF Leave, ForgetLoaders, clockVars
<1>3. requests' \in Seq(Queued')
  BY <1>1, <1>2, QueuedStays DEF clockVars
<1>4. NoManifest \in Taken /\ NoManifest.phase # "ready"
  BY PackLoaderAssumption DEF NoManifest, Taken, Phases
<1>5. manifest' \in [Loaders -> Taken]
  BY <1>2, <1>4 DEF CacheInv
<1>6. \A loader \in Loaders : TakenUp(manifest[loader])'
  BY <1>2, <1>4 DEF CacheInv, TakenUp, clockVars
<1> QED BY <1>2, <1>3, <1>5, <1>6 DEF CacheInv, clockVars, Clock, WasCurrent

LEMMA CacheAct == ASSUME CacheInv, Act PROVE CacheInv'
<1>1. Editor \in Pages /\ Contents \subseteq Rows
  BY BrowserAssumption DEF Rows
<1>2. ASSUME NEW rows \in Contents, Edit(Editor, rows) PROVE requests' \in Seq(Queued)
  BY <1>1, <1>2, SaveIsQueued DEF Edit, CacheInv
<1>3. ASSUME NEW rows \in Contents, AskImport(Editor, rows) PROVE requests' \in Seq(Queued)
  <2>1. Request(Editor, "import", rows) \in Queued
    BY <1>1, RequestIsQueued DEF LedgerKinds
  <2> QED BY <1>3, <2>1 DEF AskImport, CacheInv
<1>4. ASSUME AskClear(Editor) PROVE requests' \in Seq(Queued)
  <2>1. Request(Editor, "remove", Nothing) \in Queued
    BY <1>1, RequestIsQueued DEF LedgerKinds
  <2> QED BY <1>4, <2>1 DEF AskClear, CacheInv
<1> QED BY <1>2, <1>3, <1>4, CacheStays DEF Act, loaderVars, clockVars

LEMMA CacheTakes ==
  ASSUME CacheInv, NEW loader \in Loaders, NEW taken \in Taken, TakenUp(taken), UNCHANGED clockVars, UNCHANGED entry,
         requests' \in Seq(Queued), manifest' = [manifest EXCEPT ![loader] = taken]
  PROVE  CacheInv'
<1>1. requests' \in Seq(Queued')
  BY QueuedStays DEF clockVars
<1>3. manifest' \in [Loaders -> Taken]
  BY DEF CacheInv
<1>4. \A other \in Loaders : TakenUp(manifest'[other])
  BY DEF CacheInv
<1>5. \A other \in Loaders : TakenUp(manifest[other])'
  BY <1>4 DEF TakenUp, clockVars
<1> QED BY <1>1, <1>3, <1>5 DEF CacheInv, clockVars, Clock, WasCurrent

LEMMA CacheLoad == ASSUME CacheInv, NEW loader \in Loaders, Load(loader) PROVE CacheInv'
<1>1. CASE LoadManifest(loader)
  <2>1. PageOf[loader] \in Pages
    BY LoadersAssumption
  <2>2. Request(PageOf[loader], "manifestRead", loader) \in Queued
    BY <2>1, ReadIsQueued
  <2>3. requests' \in Seq(Queued)
    BY <1>1, <2>2 DEF LoadManifest, CacheInv
  <2> DEFINE taken == [manifest[loader] EXCEPT !.phase = "reading"]
  <2>4. taken \in Taken /\ TakenUp(taken)
    BY DEF CacheInv, Taken, Phases, TakenUp
  <2>5. manifest' = [manifest EXCEPT ![loader] = taken] /\ UNCHANGED clockVars /\ UNCHANGED entry
    BY <1>1 DEF LoadManifest, clockVars
  <2> HIDE DEF taken
  <2> QED BY <2>3, <2>4, <2>5, CacheTakes
<1>2. CASE LoadInputs(loader) /\ UNCHANGED requests
  BY <1>2, CacheStays DEF LoadInputs, clockVars, CacheInv
<1> QED BY <1>1, <1>2 DEF Load

(* What the network answers is the current publication.                    *)
LEMMA CurrentIsReady ==
  ASSUME CacheInv, NEW loader \in Loaders
  PROVE  /\ Ready(Current(loader)) \in Taken /\ TakenUp(Ready(Current(loader)))
         /\ [snapshot |-> Current(loader), at |-> hour] \in Entries
         /\ WasCurrent([snapshot |-> Current(loader), at |-> hour])
<1>1. /\ Current(loader) \in 1 .. MaxSnapshot /\ replaced[Current(loader)] = MaxHour + 1
      /\ hour \in 0 .. MaxHour /\ MaxHour \in Nat /\ MaxSnapshot \in Nat
  BY LoadersAssumption, PackLoaderAssumption DEF CacheInv, Clock, Snapshots, Current
<1> QED BY <1>1 DEF Ready, Taken, Phases, TakenUp, Snapshots, Entries, WasCurrent

LEMMA CacheFetch == ASSUME CacheInv, NEW loader \in Loaders, FetchManifest(loader) PROVE CacheInv'
<1>1. UNCHANGED clockVars /\ UNCHANGED entry
  BY DEF FetchManifest, clockVars
<1> DEFINE value == [snapshot |-> Current(loader), at |-> hour]
<1>2. CASE /\ manifest' = [manifest EXCEPT ![loader] = Ready(Current(loader))]
           /\ requests' = Append(requests, Request(PageOf[loader], "manifestWrite", value))
  <2>1. Request(PageOf[loader], "manifestWrite", value) \in Queued
    BY LoadersAssumption, CurrentIsReady, WriteIsQueued
  <2>2. requests' \in Seq(Queued)
    BY <1>2, <2>1 DEF CacheInv
  <2> QED BY <1>1, <1>2, <2>2, CurrentIsReady, CacheTakes
<1>3. CASE /\ manifest' = IF manifest[loader].tries < Retries THEN [manifest EXCEPT ![loader].tries = @ + 1]
                          ELSE [manifest EXCEPT ![loader].phase = "failed"]
           /\ UNCHANGED requests
  <2> DEFINE m == manifest[loader]
             again == [m EXCEPT !.tries = m.tries + 1]
             failed == [m EXCEPT !.phase = "failed"]
  <2>1. m \in Taken /\ m.phase # "ready"
    BY DEF CacheInv, FetchManifest
  <2>2. again \in Taken /\ failed \in Taken /\ again.phase = m.phase /\ failed.phase = "failed"
    <3> HIDE DEF m
    <3> QED BY <2>1 DEF Taken, Phases
  <2>3. TakenUp(again) /\ TakenUp(failed)
    BY <2>1, <2>2 DEF TakenUp
  <2>4. manifest' = [manifest EXCEPT ![loader] = again] \/ manifest' = [manifest EXCEPT ![loader] = failed]
    BY <1>3
  <2>5. requests' \in Seq(Queued)
    BY <1>3 DEF CacheInv
  <2> HIDE DEF m, again, failed
  <2> QED BY <1>1, <2>2, <2>3, <2>4, <2>5, CacheTakes
<1> QED BY <1>2, <1>3 DEF FetchManifest

LEMMA CacheNetwork == ASSUME CacheInv, NEW loader \in Loaders, Network(loader) PROVE CacheInv'
<1>1. CASE FetchManifest(loader)
  BY <1>1, CacheFetch
<1>2. CASE Join(loader) /\ UNCHANGED requests
  BY <1>2, CacheStays DEF Join, clockVars, CacheInv
<1>3. CASE (\E year \in Years : FetchPack(loader, year)) /\ UNCHANGED requests
  BY <1>3, CacheStays DEF FetchPack, clockVars, CacheInv
<1> QED BY <1>1, <1>2, <1>3 DEF Network

(* A stored manifest that is fresh may be taken up.                        *)
LEMMA FreshIsReady ==
  ASSUME CacheInv, NEW stored \in Entries, WasCurrent(stored), IsFresh(stored)
  PROVE  Ready(stored.snapshot) \in Taken /\ TakenUp(Ready(stored.snapshot))
<1>1. /\ stored.snapshot \in Snapshots /\ stored.at \in 0 .. MaxHour /\ hour - stored.at < Ttl
      /\ stored.at <= replaced[stored.snapshot] /\ hour \in 0 .. MaxHour /\ MaxHour \in Nat /\ Ttl \in Nat /\ MaxSnapshot \in Nat
  BY PackLoaderAssumption DEF Entries, WasCurrent, IsFresh, CacheInv, Clock, Snapshots
<1>2. replaced[stored.snapshot] \in 0 .. MaxHour + 1
  BY <1>1 DEF CacheInv, Clock
<1>3. hour - replaced[stored.snapshot] < Ttl
  BY <1>1, <1>2
<1> QED BY <1>1, <1>2, <1>3 DEF Ready, Taken, Phases, TakenUp, Snapshots

LEMMA CacheContinues ==
  ASSUME CacheInv, NEW request \in Queued, NEW ok \in BOOLEAN, ContinueManifest(request, ok), requests' \in Seq(Queued)
  PROVE  CacheInv'
<1> DEFINE loader == request.value
           stored == IF ok /\ "meta" \in stores THEN entry ELSE NoEntry
           fetching == [manifest[loader] EXCEPT !.phase = "fetching"]
<1>1. stored \in Entries /\ WasCurrent(stored)
  BY PackLoaderAssumption DEF CacheInv, NoEntry, Entries, WasCurrent
<1>2. UNCHANGED clockVars
  BY DEF ContinueManifest, clockVars
<1>3. CASE request.kind = "manifestRead"
  <2>1. loader \in Loaders
    BY <1>3 DEF Queued
  <2>2. entry' = entry
    BY <1>3 DEF ContinueManifest
  <2>3. \/ IsFresh(stored) /\ manifest' = [manifest EXCEPT ![loader] = Ready(stored.snapshot)]
        \/ manifest' = [manifest EXCEPT ![loader] = fetching]
    BY <1>3 DEF ContinueManifest
  <2>4. fetching \in Taken /\ TakenUp(fetching)
    BY <2>1 DEF CacheInv, Taken, Phases, TakenUp
  <2> HIDE DEF loader, stored, fetching
  <2> QED BY <1>1, <1>2, <2>1, <2>2, <2>3, <2>4, FreshIsReady, CacheTakes
<1>4. CASE request.kind # "manifestRead"
  <2>1. manifest' = manifest
    BY <1>4 DEF ContinueManifest
  <2>2. entry' \in Entries /\ WasCurrent(entry')
    BY DEF ContinueManifest, Queued, CacheInv
  <2>3. requests' \in Seq(Queued')
    BY <1>2, QueuedStays DEF clockVars
  <2> QED BY <1>2, <2>1, <2>2, <2>3 DEF CacheInv, clockVars, Clock, WasCurrent, TakenUp
<1> QED BY <1>3, <1>4

LEMMA CacheSettles ==
  ASSUME CacheInv, NEW request \in Queued, NEW ok \in BOOLEAN, Settle(request, ok), requests' \in Seq(Queued)
  PROVE  CacheInv'
BY CacheContinues, CacheStays DEF Settle, loaderVars, clockVars

LEMMA CacheDatabase == ASSUME CacheInv, NEW i \in DOMAIN requests, Database(i) PROVE CacheInv'
<1>1. requests[i] \in Queued /\ requests \in Seq(Queued) /\ FollowUp(requests[i]) \in Seq(Queued)
  BY FollowUpIsQueued DEF CacheInv
<1>2. CASE Open(i)
  BY <1>1, <1>2, QueueIsQueued, CacheStays DEF Open, loaderVars, clockVars
<1>3. CASE Refuse(i)
  <2>1. requests' \in Seq(Queued)
    BY <1>1, <1>3, QueueIsQueued DEF Refuse
  <2>2. Settle(requests[i], FALSE)
    BY <1>3 DEF Refuse
  <2> QED BY <1>1, <2>1, <2>2, CacheSettles
<1>4. ASSUME NEW ok \in BOOLEAN, Execute(i, ok) PROVE CacheInv'
  <2>1. requests' \in Seq(Queued)
    BY <1>1, <1>4, QueueIsQueued DEF Execute
  <2>2. Settle(requests[i], ok)
    BY <1>4 DEF Execute
  <2> QED BY <1>1, <2>1, <2>2, CacheSettles
<1> QED BY <1>2, <1>3, <1>4 DEF Database

(* A later publication or hour leaves what was current then as it was.     *)
LEMMA CachePublish == ASSUME CacheInv, Publish PROVE CacheInv'
<1>1. UNCHANGED <<requests, entry, manifest>>
  BY DEF Publish, Deploy, Hour, dbVars
<1>2. hour \in 0 .. MaxHour /\ MaxHour \in Nat /\ MaxSnapshot \in Nat /\ hour' \in 0 .. MaxHour /\ hour <= hour'
  BY PackLoaderAssumption DEF CacheInv, Clock, Publish, Deploy, Hour
<1>3. /\ replaced' \in [Snapshots -> 0 .. MaxHour + 1]
      /\ \A s \in Snapshots : replaced'[s] = replaced[s] \/ replaced'[s] = hour
  BY <1>2 DEF CacheInv, Clock, Publish, Deploy, Hour
<1>4. Clock'
  <2>1. ASSUME NEW origin \in Origins, Deploy(origin) PROVE Clock'
    <3>1. PICK new \in Snapshots :
            /\ \A other \in Origins : site[other] < new
            /\ \E other \in Origins : site[other] = new - 1
            /\ site' = [site EXCEPT ![origin] = new]
      BY <2>1 DEF Deploy
    <3>2. replaced' = [replaced EXCEPT ![site[origin]] = hour] /\ hour' = hour
      BY <2>1 DEF Deploy
    <3>3. /\ site \in [Origins -> Snapshots] /\ site' \in [Origins -> Snapshots] /\ Snapshots \subseteq Nat
          /\ replaced \in [Snapshots -> 0 .. MaxHour + 1]
          /\ site'[origin] = new /\ \A other \in Origins : other # origin => site'[other] = site[other]
      BY <3>1 DEF CacheInv, Clock, Snapshots
    <3>4. \A other \in Origins, third \in Origins : site'[other] = site'[third] => other = third
      BY <3>1, <3>3 DEF CacheInv, Clock
    <3>5. ASSUME NEW other \in Origins PROVE replaced'[site'[other]] = MaxHour + 1
      <4>1. site'[other] # site[origin]
        BY <3>1, <3>3 DEF CacheInv, Clock
      <4>2. replaced[site'[other]] = MaxHour + 1
        BY <3>1, <3>3 DEF CacheInv, Clock
      <4> QED BY <3>2, <3>3, <4>1, <4>2
    <3>6. ASSUME NEW snapshot \in Snapshots, \A other \in Origins : site'[other] < snapshot
          PROVE  replaced'[snapshot] = MaxHour + 1
      <4>1. \A other \in Origins : site[other] < snapshot
        <5>1. site[origin] < new /\ new < snapshot /\ site[origin] \in Nat /\ new \in Nat /\ snapshot \in Nat
          BY <3>1, <3>3, <3>6
        <5>2. site[origin] < snapshot
          BY <5>1
        <5>3. \A other \in Origins : other # origin => site[other] < snapshot
          BY <3>3, <3>6
        <5> QED BY <5>2, <5>3
      <4>2. replaced[snapshot] = MaxHour + 1 /\ snapshot # site[origin]
        BY <3>3, <4>1 DEF CacheInv, Clock
      <4> QED BY <3>2, <3>3, <4>2
    <3> QED BY <1>2, <1>3, <3>2, <3>3, <3>4, <3>5, <3>6 DEF Clock
  <2>2. CASE Hour
    BY <1>2, <2>2 DEF CacheInv, Clock, Hour
  <2> QED BY <2>1, <2>2 DEF Publish
<1>5. ASSUME NEW value \in Entries, WasCurrent(value) PROVE WasCurrent(value)'
  <2>1. value.snapshot \in 0 .. MaxSnapshot /\ value.at \in 0 .. MaxHour
    BY DEF Entries
  <2>2. value.snapshot # 0 => value.snapshot \in Snapshots
    BY <2>1, <1>2 DEF Snapshots
  <2> QED BY <1>2, <1>3, <1>5, <2>1, <2>2 DEF WasCurrent
<1>6. ASSUME NEW loader \in Loaders PROVE TakenUp(manifest[loader])'
  <2> DEFINE taken == manifest[loader]
  <2>1. taken.hour \in 0 .. MaxHour /\ TakenUp(taken) /\ manifest'[loader] = taken
    BY <1>1 DEF CacheInv, Taken
  <2>2. taken.snapshot \in Snapshots => replaced[taken.snapshot] \in 0 .. MaxHour + 1
    BY DEF CacheInv, Clock
  <2> HIDE DEF taken
  <2> QED BY <1>2, <1>3, <2>1, <2>2 DEF TakenUp
<1>7. requests' \in Seq(Queued')
  <2>1. Queued \subseteq Queued'
    BY <1>5 DEF Queued
  <2> QED BY <1>1, <2>1 DEF CacheInv
<1> QED BY <1>1, <1>4, <1>5, <1>6, <1>7 DEF CacheInv

LEMMA CacheNext == CacheInv /\ [Next]_vars => CacheInv'
<1> SUFFICES ASSUME CacheInv, [Next]_vars PROVE CacheInv'
  OBVIOUS
<1>1. ASSUME NEW page \in Pages, Visit(page) \/ Leave(page) PROVE CacheInv'
  BY <1>1, CacheVisit, CacheLeave
<1>2. ASSUME NEW loader \in Loaders, Load(loader) \/ Network(loader) PROVE CacheInv'
  BY <1>2, CacheLoad, CacheNetwork
<1>3. CASE Act \/ Publish
  BY <1>3, CacheAct, CachePublish
<1>4. ASSUME NEW i \in DOMAIN requests, Database(i) PROVE CacheInv'
  BY <1>4, CacheDatabase
<1>5. CASE UNCHANGED vars
  BY <1>5, CacheStays DEF vars, loaderVars, dbVars, clockVars, CacheInv
<1> QED BY <1>1, <1>2, <1>3, <1>4, <1>5 DEF Next

(* In every execution, whatever loader of whatever tab stored it, from     *)
(* whatever address and in whatever order, a manifest that a loader takes  *)
(* up was the current publication of its address less than Ttl before      *)
(* (pack-loader.js:125-193).                                               *)
THEOREM NoOldPublicationIsTakenUp == Spec => []NoOldPublication
<1>1. CacheInv => NoOldPublication
  BY DEF CacheInv, TakenUp, NoOldPublication
<1> QED BY <1>1, CacheInit, CacheNext, PTL DEF Spec

-------------------------------------------------------------------------------
(* 3. The ledger: where the requests of a queue come from                  *)

Writes == {"save", "remove", "import"}

(* The elements of two sequences, one after the other.                     *)
IsJoined(whole, s, t) ==
  /\ Len(s) \in Nat /\ DOMAIN s = 1 .. Len(s) /\ Len(t) \in Nat /\ DOMAIN t = 1 .. Len(t)
  /\ DOMAIN whole = 1 .. Len(s) + Len(t)
  /\ \A j \in DOMAIN s : whole[j] = s[j]
  /\ \A n \in DOMAIN t : whole[Len(s) + n] = t[n]

LEMMA Joined == ASSUME NEW S, NEW s \in Seq(S), NEW t \in Seq(S) PROVE IsJoined(s \o t, s, t)
BY DEF IsJoined

LEMMA JoinedFrom ==
  ASSUME NEW whole, NEW s, NEW t, IsJoined(whole, s, t), NEW j \in DOMAIN whole
  PROVE  \/ j \in DOMAIN s /\ whole[j] = s[j]
         \/ j > Len(s) /\ j - Len(s) \in DOMAIN t /\ whole[j] = t[j - Len(s)]
<1>1. CASE j <= Len(s)
  BY <1>1 DEF IsJoined
<1>2. CASE j > Len(s)
  <2>1. j - Len(s) \in DOMAIN t /\ Len(s) + (j - Len(s)) = j
    BY <1>2 DEF IsJoined
  <2> QED BY <1>2, <2>1 DEF IsJoined
<1> QED BY <1>1, <1>2 DEF IsJoined

(* Where the elements of a sequence come from, once those of gone have     *)
(* left or changed their state and further ones have been appended.        *)
ComesFrom(s, whole, old, gone, state, further) ==
  /\ old \in [DOMAIN whole -> Nat]
  /\ \A j, k \in DOMAIN whole : j < k => old[j] < old[k]
  /\ \A j \in DOMAIN whole :
       \/ old[j] \in DOMAIN s \ gone /\ whole[j] = s[old[j]]
       \/ old[j] \in gone /\ whole[j] = [s[old[j]] EXCEPT !.state = state]
       \/ old[j] > Len(s) /\ \E n \in DOMAIN further : whole[j] = further[n]
  /\ \A i \in DOMAIN s \ gone : \E j \in DOMAIN whole : old[j] = i
  /\ \A n \in DOMAIN further : \E j \in DOMAIN whole : old[j] > Len(s) /\ whole[j] = further[n]

GoesWithout(s, whole, old, gone, further) ==
  ComesFrom(s, whole, old, gone, "blocked", further) /\ \A j \in DOMAIN whole : old[j] \notin gone

(* With queue in place of s, all elements where they were.                 *)
LEMMA InPlace ==
  ASSUME NEW s, NEW queue, NEW whole, NEW further, NEW gone, NEW state,
         IsJoined(whole, queue, further), Len(queue) = Len(s), DOMAIN queue = DOMAIN s, gone \subseteq DOMAIN s,
         \A j \in DOMAIN s : queue[j] = IF j \in gone THEN [s[j] EXCEPT !.state = state] ELSE s[j]
  PROVE  \E old : ComesFrom(s, whole, old, gone, state, further)
<1> DEFINE old == [j \in DOMAIN whole |-> j]
<1>1. old \in [DOMAIN whole -> Nat] /\ \A j \in DOMAIN whole : old[j] = j
  BY DEF IsJoined
<1> HIDE DEF old
<1>2. \A j, k \in DOMAIN whole : j < k => old[j] < old[k]
  BY <1>1
<1>3. ASSUME NEW j \in DOMAIN whole
      PROVE  \/ old[j] \in DOMAIN s \ gone /\ whole[j] = s[old[j]]
             \/ old[j] \in gone /\ whole[j] = [s[old[j]] EXCEPT !.state = state]
             \/ old[j] > Len(s) /\ \E n \in DOMAIN further : whole[j] = further[n]
  BY <1>1, JoinedFrom
<1>4. ASSUME NEW i \in DOMAIN s \ gone PROVE \E j \in DOMAIN whole : old[j] = i
  <2>1. i \in DOMAIN whole
    BY DEF IsJoined
  <2> QED BY <1>1, <2>1
<1>5. ASSUME NEW n \in DOMAIN further PROVE \E j \in DOMAIN whole : old[j] > Len(s) /\ whole[j] = further[n]
  <2>1. Len(s) + n \in DOMAIN whole /\ Len(s) + n > Len(s) /\ whole[Len(s) + n] = further[n]
    BY DEF IsJoined
  <2> QED BY <1>1, <2>1
<1>6. ComesFrom(s, whole, old, gone, state, further)
  BY <1>1, <1>2, <1>3, <1>4, <1>5 DEF ComesFrom
<1> QED BY <1>6

LEMMA ChangedMoves ==
  ASSUME requests \in Seq(Queued), NEW i \in DOMAIN requests, NEW further \in Seq(Queued), NEW state \in States,
         requests' = [requests EXCEPT ![i].state = state] \o further
  PROVE  \E old : ComesFrom(requests, requests', old, {i}, state, further)
<1> DEFINE queue == [requests EXCEPT ![i].state = state]
<1>1. queue \in Seq(Queued)
  <2>1. [requests[i] EXCEPT !.state = state] \in Queued
    BY StateIsQueued
  <2> QED BY <2>1
<1>2. Len(queue) = Len(requests) /\ DOMAIN queue = DOMAIN requests
  OBVIOUS
<1>3. ASSUME NEW j \in DOMAIN requests
      PROVE  queue[j] = IF j \in {i} THEN [requests[j] EXCEPT !.state = state] ELSE requests[j]
  OBVIOUS
<1>4. requests' = queue \o further
  OBVIOUS
<1> HIDE DEF queue
<1>5. IsJoined(requests', queue, further)
  BY <1>1, <1>4, Joined
<1> QED BY <1>2, <1>3, <1>5, InPlace

LEMMA ExtendedMoves ==
  ASSUME requests \in Seq(Queued), NEW further \in Seq(Queued), requests' = requests \o further
  PROVE  \E old : ComesFrom(requests, requests', old, {}, "blocked", further)
<1>1. IsJoined(requests', requests, further)
  BY Joined
<1> QED BY <1>1, InPlace

LEMMA WithoutOne ==
  ASSUME NEW s, NEW queue, NEW whole, NEW further, NEW i, IsWithout(queue, s, i), IsJoined(whole, queue, further)
  PROVE  \E old : GoesWithout(s, whole, old, {i}, further)
<1> DEFINE old == [j \in DOMAIN whole |-> IF j < i THEN j ELSE j + 1]
<1>0. /\ DOMAIN whole \subseteq Nat /\ DOMAIN queue = 1 .. Len(s) - 1 /\ i \in 1 .. Len(s)
      /\ Len(s) \in Nat /\ DOMAIN s = 1 .. Len(s) /\ Len(queue) = Len(s) - 1
      /\ \A j \in 1 .. Len(s) - 1 : (j < i => queue[j] = s[j]) /\ (j >= i => queue[j] = s[j + 1])
  BY DEF IsJoined, IsWithout
<1>1. old \in [DOMAIN whole -> Nat] /\ \A j \in DOMAIN whole : old[j] = IF j < i THEN j ELSE j + 1
  BY <1>0
<1> HIDE DEF old
<1>2. \A j, k \in DOMAIN whole : j < k => old[j] < old[k]
  BY <1>0, <1>1
<1>3. ASSUME NEW j \in DOMAIN whole
      PROVE  \/ old[j] \in DOMAIN s \ {i} /\ whole[j] = s[old[j]]
             \/ old[j] > Len(s) /\ \E n \in DOMAIN further : whole[j] = further[n]
  <2>1. CASE j \in DOMAIN queue /\ whole[j] = queue[j]
    <3>1. old[j] \in DOMAIN s \ {i}
      BY <1>0, <1>1, <2>1
    <3>2. queue[j] = s[old[j]]
      BY <1>0, <1>1, <2>1
    <3> QED BY <2>1, <3>1, <3>2
  <2>2. CASE j > Len(queue) /\ j - Len(queue) \in DOMAIN further /\ whole[j] = further[j - Len(queue)]
    <3>1. old[j] > Len(s)
      BY <1>0, <1>1, <2>2
    <3> QED BY <2>2, <3>1
  <2> QED BY <2>1, <2>2, JoinedFrom
<1>4. ASSUME NEW k \in DOMAIN s \ {i} PROVE \E j \in DOMAIN whole : old[j] = k
  <2>1. CASE k < i
    <3>1. k \in DOMAIN whole
      BY <1>0, <2>1 DEF IsJoined
    <3> QED BY <1>1, <2>1, <3>1
  <2>2. CASE k > i
    <3>1. k - 1 \in DOMAIN whole
      BY <1>0, <2>2 DEF IsJoined
    <3>2. ~(k - 1 < i) /\ (k - 1) + 1 = k
      BY <1>0, <2>2
    <3> QED BY <1>1, <3>1, <3>2
  <2> QED BY <1>0, <2>1, <2>2
<1>5. ASSUME NEW n \in DOMAIN further PROVE \E j \in DOMAIN whole : old[j] > Len(s) /\ whole[j] = further[n]
  <2>1. Len(queue) + n \in DOMAIN whole /\ whole[Len(queue) + n] = further[n]
    BY DEF IsJoined
  <2>2. old[Len(queue) + n] > Len(s)
    <3>1. n \in Nat /\ n > 0
      BY DEF IsJoined
    <3> QED BY <1>0, <1>1, <2>1, <3>1
  <2> QED BY <2>1, <2>2
<1>6. ComesFrom(s, whole, old, {i}, "blocked", further)
  BY <1>1, <1>2, <1>3, <1>4, <1>5 DEF ComesFrom
<1>7. \A j \in DOMAIN whole : old[j] \notin {i}
  BY <1>0, <1>1
<1> QED BY <1>6, <1>7 DEF GoesWithout

LEMMA SettledMoves ==
  ASSUME requests \in Seq(Queued), NEW i \in DOMAIN requests, NEW further \in Seq(Queued),
         requests' = RemoveAt(requests, i) \o further
  PROVE  \E old : GoesWithout(requests, requests', old, {i}, further)
<1> DEFINE queue == RemoveAt(requests, i)
<1>1. queue \in Seq(Queued) /\ IsWithout(queue, requests, i)
  BY RemovedAt
<1>2. requests' = queue \o further
  OBVIOUS
<1> HIDE DEF queue
<1>3. IsJoined(requests', queue, further)
  BY <1>1, <1>2, Joined
<1> QED BY <1>1, <1>3, WithoutOne

LEMMA AbandonMoves ==
  ASSUME requests \in Seq(Queued), NEW page, Abandon(page)
  PROVE  \E old : GoesWithout(requests, requests', old, DOMAIN requests \ Kept(page), <<>>)
<1>1. PICK at \in InOrder(Kept(page)) : requests' = [j \in DOMAIN at |-> requests[at[j]]]
  BY DEF Abandon
<1> DEFINE n == Cardinality(Kept(page))
<1>2. Kept(page) \subseteq DOMAIN requests /\ IsFiniteSet(Kept(page)) /\ n \in Nat
  <2>1. IsFiniteSet(DOMAIN requests)
    BY FS_Interval
  <2>2. Kept(page) \subseteq DOMAIN requests
    BY DEF Kept
  <2> QED BY <2>1, <2>2, FS_Subset, FS_CardinalityType
<1>3. at \in [1 .. n -> Kept(page)] /\ \A j, k \in 1 .. n : j < k => at[j] < at[k]
  BY <1>1 DEF InOrder
<1>4. \A i \in Kept(page) : \E j \in 1 .. n : at[j] = i
  <2>1. at \in Injection(1 .. n, Kept(page))
    BY <1>2, <1>3 DEF Injection, IsInjective
  <2>2. IsFiniteSet(1 .. n) /\ Cardinality(1 .. n) = n
    BY <1>2, FS_Interval
  <2>3. at \in Surjection(1 .. n, Kept(page))
    BY <2>1, <2>2, <1>2, FS_Injection
  <2> QED BY <2>3 DEF Surjection
<1>5. DOMAIN requests' = 1 .. n /\ \A j \in 1 .. n : requests'[j] = requests[at[j]]
  BY <1>1, <1>3
<1> HIDE DEF n
<1>6. ComesFrom(requests, requests', at, DOMAIN requests \ Kept(page), "blocked", <<>>)
  BY <1>2, <1>3, <1>4, <1>5 DEF ComesFrom
<1> QED BY <1>3, <1>5, <1>6 DEF GoesWithout

-------------------------------------------------------------------------------
(* The queue of the database                                               *)

IsOpen(i) == requests[i].state = "open"

(* A request of the editor that has not been given up.                     *)
Mine(i, kind) == requests[i].page = Editor /\ requests[i].kind = kind /\ requests[i].state # "blocked"

(* Connections are granted in order, to the ledger from version 2 on, and  *)
(* only the editor writes.                                                 *)
QueueInv ==
  /\ version \in 0 .. 2
  /\ \A i, j \in DOMAIN requests : j < i /\ IsOpen(i) => IsOpen(j)
  /\ \A i \in DOMAIN requests : IsOpen(i) /\ requests[i].kind \in LedgerKinds => version = 2
  /\ \A i \in DOMAIN requests : requests[i].kind \in LedgerKinds => requests[i].page \in visiting
  /\ \A i \in DOMAIN requests : requests[i].kind \in Writes => requests[i].page = Editor

IsNew(request) ==
  /\ request.state = "asked" /\ (request.kind \in LedgerKinds => request.page \in visiting')
  /\ request.kind \in Writes => request.page = Editor

LEMMA QueueKeeps ==
  ASSUME QueueInv, requests \in Seq(Queued), NEW old, NEW gone \in SUBSET DOMAIN requests, NEW further,
         ComesFrom(requests, requests', old, gone, "blocked", further),
         \A j \in DOMAIN requests' : old[j] \in gone => ~IsOpen(old[j]),
         \A j \in DOMAIN requests' :
           old[j] \in DOMAIN requests /\ requests[old[j]].kind \in LedgerKinds => requests[old[j]].page \in visiting',
         \A n \in DOMAIN further : IsNew(further[n]), version' \in 0 .. 2, version <= version'
  PROVE  QueueInv'
<1>1. \A i \in DOMAIN requests : requests[i] \in Queued
  OBVIOUS
<1>2. \A request \in Queued : [request EXCEPT !.state = "blocked"].page = request.page
                              /\ [request EXCEPT !.state = "blocked"].kind = request.kind
                              /\ [request EXCEPT !.state = "blocked"].state = "blocked"
  BY DEF Queued, Requested
<1>3. ASSUME NEW j \in DOMAIN requests'
      PROVE  \/ /\ old[j] \in DOMAIN requests
                /\ requests'[j].page = requests[old[j]].page /\ requests'[j].kind = requests[old[j]].kind
                /\ requests'[j].state # requests[old[j]].state => ~IsOpen(old[j]) /\ requests'[j].state # "open"
             \/ IsNew(requests'[j]) /\ old[j] > Len(requests)
  <2>1. CASE old[j] \in gone /\ requests'[j] = [requests[old[j]] EXCEPT !.state = "blocked"]
    BY <1>1, <1>2, <2>1
  <2>2. CASE old[j] \in DOMAIN requests \ gone /\ requests'[j] = requests[old[j]]
    BY <2>2
  <2>3. CASE old[j] > Len(requests) /\ \E n \in DOMAIN further : requests'[j] = further[n]
    BY <2>3
  <2> QED BY <2>1, <2>2, <2>3 DEF ComesFrom
<1>4. ASSUME NEW j \in DOMAIN requests', requests'[j].state = "open"
      PROVE  /\ old[j] \in DOMAIN requests /\ IsOpen(old[j])
             /\ requests'[j].page = requests[old[j]].page /\ requests'[j].kind = requests[old[j]].kind
  BY <1>3, <1>4 DEF IsOpen, IsNew
<1>5. ASSUME NEW i \in DOMAIN requests', NEW j \in DOMAIN requests', j < i, requests'[i].state = "open"
      PROVE  requests'[j].state = "open"
  <2>1. old[j] < old[i] /\ old[i] \in DOMAIN requests /\ IsOpen(old[i]) /\ old[j] \in Nat /\ old[i] <= Len(requests)
    BY <1>4, <1>5 DEF ComesFrom
  <2>2. Len(requests) \in Nat /\ ~(old[j] > Len(requests)) /\ old[j] \in DOMAIN requests
    BY <2>1, <1>3
  <2>3. IsOpen(old[j])
    BY <2>1, <2>2 DEF QueueInv
  <2> QED BY <2>2, <2>3, <1>3 DEF IsOpen
<1>6. \A j \in DOMAIN requests' :
        /\ requests'[j].kind \in LedgerKinds => requests'[j].page \in visiting'
        /\ requests'[j].kind \in Writes => requests'[j].page = Editor
  BY <1>3 DEF QueueInv, IsNew
<1>7. \A j \in DOMAIN requests' : requests'[j].state = "open" /\ requests'[j].kind \in LedgerKinds => version' = 2
  BY <1>4 DEF QueueInv
<1> QED BY <1>5, <1>6, <1>7 DEF QueueInv, IsOpen

(* What an operation does to the requests of the editor's ledger: those of *)
(* lost are gone, further ones are added.                                  *)
Onward(old, lost, further) ==
  /\ Len(requests) \in Nat /\ DOMAIN requests = 1 .. Len(requests)
  /\ \A j \in DOMAIN requests' : j \in Nat /\ old[j] \in Nat
  /\ \A j, k \in DOMAIN requests' : j < k <=> old[j] < old[k]
  /\ \A j \in DOMAIN requests', kind \in LedgerKinds :
       Mine(j, kind)' =>
         \/ /\ old[j] \in DOMAIN requests \ lost /\ Mine(old[j], kind)
            /\ requests'[j].value = requests[old[j]].value
         \/ old[j] > Len(requests) /\ \E n \in DOMAIN further : requests'[j] = further[n]
  /\ \A i \in DOMAIN requests \ lost, kind \in LedgerKinds :
       Mine(i, kind) => \E j \in DOMAIN requests' : old[j] = i /\ Mine(j, kind)'
  /\ \A n \in DOMAIN further : \E j \in DOMAIN requests' : old[j] > Len(requests) /\ requests'[j] = further[n]

LEMMA InOrderBothWays ==
  ASSUME NEW D \in SUBSET Nat, NEW old \in [D -> Nat], \A j, k \in D : j < k => old[j] < old[k]
  PROVE  \A j, k \in D : j < k <=> old[j] < old[k]
<1> TAKE j, k \in D
<1>1. j \in Nat /\ k \in Nat /\ old[j] \in Nat /\ old[k] \in Nat
  OBVIOUS
<1>2. CASE j < k
  BY <1>1, <1>2
<1>3. CASE j = k
  BY <1>1, <1>3
<1>4. CASE k < j
  <2>1. old[k] < old[j]
    BY <1>4
  <2> QED BY <1>1, <1>4, <2>1
<1> QED BY <1>1, <1>2, <1>3, <1>4

LEMMA MovesOnward ==
  ASSUME requests \in Seq(Queued), requests' \in Seq(Queued), NEW old, NEW gone \in SUBSET DOMAIN requests, NEW further,
         ComesFrom(requests, requests', old, gone, "blocked", further)
  PROVE  Onward(old, gone, further)
<1>1. Len(requests) \in Nat /\ DOMAIN requests = 1 .. Len(requests) /\ DOMAIN requests' \subseteq Nat
  OBVIOUS
<1>2. \A j \in DOMAIN requests' : j \in Nat /\ old[j] \in Nat
  BY <1>1 DEF ComesFrom
<1>3. \A j, k \in DOMAIN requests' : j < k <=> old[j] < old[k]
  BY <1>1, InOrderBothWays DEF ComesFrom
<1>4. \A i \in DOMAIN requests : [requests[i] EXCEPT !.state = "blocked"].state = "blocked"
  <2>1. \A i \in DOMAIN requests : requests[i] \in Queued
    OBVIOUS
  <2> QED BY <2>1 DEF Queued, Requested
<1>5. ASSUME NEW j \in DOMAIN requests', NEW kind \in LedgerKinds, Mine(j, kind)'
      PROVE  \/ /\ old[j] \in DOMAIN requests \ gone /\ Mine(old[j], kind)
                /\ requests'[j].value = requests[old[j]].value
             \/ old[j] > Len(requests) /\ \E n \in DOMAIN further : requests'[j] = further[n]
  <2>1. ~(old[j] \in gone /\ requests'[j] = [requests[old[j]] EXCEPT !.state = "blocked"])
    BY <1>4, <1>5 DEF Mine
  <2>2. CASE old[j] \in DOMAIN requests \ gone /\ requests'[j] = requests[old[j]]
    BY <1>5, <2>2 DEF Mine
  <2> QED BY <2>1, <2>2 DEF ComesFrom
<1>6. ASSUME NEW i \in DOMAIN requests \ gone, NEW kind \in LedgerKinds, Mine(i, kind)
      PROVE  \E j \in DOMAIN requests' : old[j] = i /\ Mine(j, kind)'
  <2>1. PICK j \in DOMAIN requests' : old[j] = i
    BY DEF ComesFrom
  <2>2. old[j] \in DOMAIN requests /\ old[j] \notin gone /\ ~(old[j] > Len(requests))
    BY <1>1, <2>1
  <2>3. requests'[j] = requests[i]
    BY <2>1, <2>2 DEF ComesFrom
  <2> QED BY <1>6, <2>1, <2>3 DEF Mine
<1>7. \A n \in DOMAIN further : \E j \in DOMAIN requests' : old[j] > Len(requests) /\ requests'[j] = further[n]
  BY DEF ComesFrom
<1> QED BY <1>1, <1>2, <1>3, <1>5, <1>6, <1>7 DEF Onward

-------------------------------------------------------------------------------
(* What the editor waits for                                               *)

Writing == \E i \in DOMAIN requests, kind \in Writes : Mine(i, kind)

(* The editor waits for its stored ledger as long as there is a request    *)
(* for it, which precedes all its writes.                                  *)
RestoreInv ==
  /\ Editor \in restoring => \E i \in DOMAIN requests : Mine(i, "load")
  /\ \A i \in DOMAIN requests : Mine(i, "load") => Editor \in restoring
  /\ \A i, j \in DOMAIN requests : Mine(i, "load") /\ Mine(j, "load") => i = j
  /\ \A i, j \in DOMAIN requests, kind \in Writes : Mine(i, "load") /\ Mine(j, kind) => i < j

IsImporting == \E i \in DOMAIN requests : Mine(i, "import")

IsClearing == \E i \in DOMAIN requests : Mine(i, "remove")

(* No import after a remove; and a save is followed by an import, unless   *)
(* neither an import nor the restore of the ledger is on its way.          *)
OrderInv ==
  /\ \A i, j \in DOMAIN requests : Mine(i, "import") /\ Mine(j, "remove") => i < j
  /\ \A i \in DOMAIN requests : Mine(i, "save") =>
       \/ Editor \notin restoring /\ ~IsImporting
       \/ \E j \in DOMAIN requests : Mine(j, "import") /\ i < j

Stored ==
  Editor \in unsaved \/ table[Editor] \in Incomplete \/ table[Editor] \in {record, Shown(record)}

(* With no write on its way the table is stored; the last write, if it is  *)
(* a save, stores it.                                                      *)
TableInv ==
  /\ Writing \/ (Editor \notin restoring /\ Stored)
  /\ \A i \in DOMAIN requests :
       Mine(i, "save") /\ (\A j \in DOMAIN requests, kind \in Writes : Mine(j, kind) => j <= i)
         => table[Editor] \in Incomplete \/ requests[i].value = table[Editor]

EditInv == Editor \in edited \ overtaken => OrderInv /\ TableInv

-------------------------------------------------------------------------------
AtMostOne(further) == \A n, m \in DOMAIN further : n = m

AddsWrites(further) ==
  \A n \in DOMAIN further : further[n].page = Editor /\ further[n].state # "blocked" /\ further[n].kind \in Writes

Adds(further, kind) == \E n \in DOMAIN further : further[n].kind = kind

LEMMA RestoreOnward ==
  ASSUME RestoreInv, NEW old, NEW lost, NEW further, Onward(old, lost, further), AddsWrites(further),
         \A i \in lost : ~Mine(i, "load"), Editor \in restoring' <=> Editor \in restoring
  PROVE  RestoreInv'
<1>1. "load" \in LedgerKinds /\ "load" \notin Writes /\ Writes \subseteq LedgerKinds
  BY DEF LedgerKinds, Writes
<1>2. ASSUME NEW j \in DOMAIN requests', Mine(j, "load")'
      PROVE  old[j] \in DOMAIN requests /\ Mine(old[j], "load")
  <2>1. ~\E n \in DOMAIN further : requests'[j] = further[n]
    BY <1>1, <1>2 DEF AddsWrites, Mine
  <2> QED BY <1>1, <1>2, <2>1 DEF Onward
<1>3. Editor \in restoring' => \E i \in DOMAIN requests' : Mine(i, "load")'
  <2> HAVE Editor \in restoring'
  <2>1. PICK i \in DOMAIN requests : Mine(i, "load")
    BY DEF RestoreInv
  <2>2. i \notin lost
    BY <2>1
  <2> QED BY <1>1, <2>1, <2>2 DEF Onward
<1>4. \A i \in DOMAIN requests' : Mine(i, "load")' => Editor \in restoring'
  BY <1>2 DEF RestoreInv
<1>5. ASSUME NEW i \in DOMAIN requests', NEW j \in DOMAIN requests', Mine(i, "load")', Mine(j, "load")' PROVE i = j
  <2>1. old[i] = old[j]
    BY <1>2, <1>5 DEF RestoreInv
  <2>2. i \in Nat /\ j \in Nat /\ old[i] \in Nat /\ ~(old[i] < old[j]) /\ ~(old[j] < old[i])
    BY <2>1 DEF Onward
  <2>3. ~(i < j) /\ ~(j < i)
    BY <2>2 DEF Onward
  <2> QED BY <2>2, <2>3
<1>6. ASSUME NEW i \in DOMAIN requests', NEW j \in DOMAIN requests', NEW kind \in Writes, Mine(i, "load")', Mine(j, kind)'
      PROVE  i < j
  <2>1. old[i] \in DOMAIN requests /\ Mine(old[i], "load")
    BY <1>2, <1>6
  <2>2. CASE old[j] \in DOMAIN requests /\ Mine(old[j], kind)
    <3>1. old[i] < old[j]
      BY <2>1, <2>2 DEF RestoreInv
    <3> QED BY <3>1 DEF Onward
  <2>3. CASE old[j] > Len(requests)
    <3>1. old[i] < old[j]
      BY <2>1, <2>3 DEF Onward
    <3> QED BY <3>1 DEF Onward
  <2> QED BY <1>1, <1>6, <2>2, <2>3 DEF Onward
<1> QED BY <1>3, <1>4, <1>5, <1>6 DEF RestoreInv

(* Two writes of which the first stays behind the second keep their order. *)
LEMMA PairOnward ==
  ASSUME NEW old, NEW lost, NEW further, Onward(old, lost, further), AtMostOne(further),
         NEW first \in LedgerKinds, NEW second \in LedgerKinds, first # second,
         \A i, j \in DOMAIN requests : Mine(i, first) /\ Mine(j, second) => i < j,
         Adds(further, first) => \A i \in DOMAIN requests \ lost : ~Mine(i, second)
  PROVE  \A i, j \in DOMAIN requests' : Mine(i, first)' /\ Mine(j, second)' => i < j
<1> SUFFICES ASSUME NEW i \in DOMAIN requests', NEW j \in DOMAIN requests', Mine(i, first)', Mine(j, second)' PROVE i < j
  OBVIOUS
<1>1. \/ old[i] \in DOMAIN requests \ lost /\ Mine(old[i], first)
      \/ old[i] > Len(requests) /\ \E n \in DOMAIN further : requests'[i] = further[n]
  BY DEF Onward
<1>2. \/ old[j] \in DOMAIN requests \ lost /\ Mine(old[j], second)
      \/ old[j] > Len(requests) /\ \E n \in DOMAIN further : requests'[j] = further[n]
  BY DEF Onward
<1>3. CASE old[i] \in DOMAIN requests \ lost /\ Mine(old[i], first)
  <2>1. CASE old[j] \in DOMAIN requests \ lost /\ Mine(old[j], second)
    <3>1. old[i] < old[j]
      BY <1>3, <2>1
    <3> QED BY <3>1 DEF Onward
  <2>2. CASE old[j] > Len(requests)
    <3>1. old[i] < old[j]
      BY <1>3, <2>2 DEF Onward
    <3> QED BY <3>1 DEF Onward
  <2> QED BY <1>2, <2>1, <2>2
<1>4. CASE old[i] > Len(requests) /\ \E n \in DOMAIN further : requests'[i] = further[n]
  <2>1. PICK n \in DOMAIN further : requests'[i] = further[n]
    BY <1>4
  <2>2. Adds(further, first)
    BY <2>1 DEF Adds, Mine
  <2>3. old[j] > Len(requests) /\ \E m \in DOMAIN further : requests'[j] = further[m]
    BY <1>2, <2>2
  <2>4. requests'[j] = further[n]
    BY <2>3 DEF AtMostOne
  <2> QED BY <2>1, <2>4 DEF Mine
<1> QED BY <1>1, <1>3, <1>4

LEMMA OrderOnward ==
  ASSUME OrderInv, NEW old, NEW lost, NEW further, Onward(old, lost, further), AtMostOne(further),
         ~Adds(further, "import"), Adds(further, "save") => Editor \notin restoring' /\ ~IsImporting,
         \A i \in lost, j \in DOMAIN requests : Mine(i, "import") /\ Mine(j, "save") => i <= j,
         Editor \in restoring' => Editor \in restoring
  PROVE  OrderInv'
<1>1. {"save", "import", "remove"} \subseteq LedgerKinds
  BY DEF LedgerKinds
<1>2. \A i, j \in DOMAIN requests' : Mine(i, "import")' /\ Mine(j, "remove")' => i < j
  BY <1>1, PairOnward DEF OrderInv
<1>3. ASSUME NEW i \in DOMAIN requests', Mine(i, "import")' PROVE old[i] \in DOMAIN requests \ lost /\ Mine(old[i], "import")
  <2>1. ~\E n \in DOMAIN further : requests'[i] = further[n]
    BY <1>3 DEF Adds, Mine
  <2> QED BY <1>1, <1>3, <2>1 DEF Onward
<1>4. IsImporting' => IsImporting
  BY <1>3 DEF IsImporting
<1>5. ASSUME NEW i \in DOMAIN requests', Mine(i, "save")'
      PROVE  \/ Editor \notin restoring' /\ ~IsImporting'
             \/ \E j \in DOMAIN requests' : Mine(j, "import")' /\ i < j
  <2>1. CASE \E n \in DOMAIN further : requests'[i] = further[n]
    <3>1. Adds(further, "save")
      BY <1>5, <2>1 DEF Adds, Mine
    <3> QED BY <1>4, <3>1
  <2>2. CASE ~\E n \in DOMAIN further : requests'[i] = further[n]
    <3>1. old[i] \in DOMAIN requests \ lost /\ Mine(old[i], "save")
      BY <1>1, <1>5, <2>2 DEF Onward
    <3>2. CASE Editor \notin restoring /\ ~IsImporting
      BY <1>4, <3>2
    <3>3. CASE \E j \in DOMAIN requests : Mine(j, "import") /\ old[i] < j
      <4>1. PICK j \in DOMAIN requests : Mine(j, "import") /\ old[i] < j
        BY <3>3
      <4>2. j \notin lost
        <5>1. j \in Nat /\ old[i] \in Nat /\ ~(j <= old[i])
          BY <4>1 DEF Onward
        <5> QED BY <3>1, <4>1, <5>1
      <4>3. PICK k \in DOMAIN requests' : old[k] = j /\ Mine(k, "import")'
        BY <1>1, <4>1, <4>2 DEF Onward
      <4>4. i < k
        BY <4>1, <4>3 DEF Onward
      <4> QED BY <4>3, <4>4
    <3> QED BY <3>1, <3>2, <3>3 DEF OrderInv
  <2> QED BY <2>1, <2>2
<1> QED BY <1>2, <1>5 DEF OrderInv

(* The last write stays the last when an earlier one is through.           *)
LEMMA LastOnward ==
  ASSUME TableInv, NEW old, NEW lost, NEW further, Onward(old, lost, further), DOMAIN further = {},
         \A i \in lost, j \in DOMAIN requests, first, kind \in Writes : Mine(i, first) /\ Mine(j, kind) => i <= j,
         table'[Editor] = table[Editor]
  PROVE  \A i \in DOMAIN requests' :
           Mine(i, "save")' /\ (\A j \in DOMAIN requests', kind \in Writes : Mine(j, kind)' => j <= i)
             => table'[Editor] \in Incomplete \/ requests'[i].value = table'[Editor]
<1>1. Writes \subseteq LedgerKinds /\ "save" \in Writes
  BY DEF LedgerKinds, Writes
<1> SUFFICES ASSUME NEW i \in DOMAIN requests', Mine(i, "save")',
                    \A j \in DOMAIN requests', kind \in Writes : Mine(j, kind)' => j <= i
             PROVE  table'[Editor] \in Incomplete \/ requests'[i].value = table'[Editor]
  OBVIOUS
<1>2. old[i] \in DOMAIN requests \ lost /\ Mine(old[i], "save") /\ requests'[i].value = requests[old[i]].value
  BY <1>1 DEF Onward
<1>3. ASSUME NEW k \in DOMAIN requests, NEW kind \in Writes, Mine(k, kind) PROVE k <= old[i]
  <2>1. CASE k \in lost
    BY <1>1, <1>2, <1>3, <2>1
  <2>2. CASE k \notin lost
    <3>1. PICK j \in DOMAIN requests' : old[j] = k /\ Mine(j, kind)'
      BY <1>1, <1>3, <2>2 DEF Onward
    <3>2. j <= i /\ j \in Nat /\ i \in Nat /\ old[i] \in Nat /\ old[j] \in Nat
      BY <3>1 DEF Onward
    <3>3. ~(old[i] < old[j])
      BY <3>2 DEF Onward
    <3> QED BY <3>1, <3>2, <3>3
  <2> QED BY <2>1, <2>2
<1> QED BY <1>2, <1>3 DEF TableInv

(* A write that is added is the last.                                      *)
LEMMA AddedIsLast ==
  ASSUME NEW old, NEW lost, NEW further, Onward(old, lost, further), AddsWrites(further), AtMostOne(further),
         NEW n \in DOMAIN further, NEW rows,
         further[n].kind = "save" => further[n].value = rows
  PROVE  /\ Writing'
         /\ \A i \in DOMAIN requests' :
              Mine(i, "save")' /\ (\A j \in DOMAIN requests', kind \in Writes : Mine(j, kind)' => j <= i)
                => requests'[i].value = rows
<1>1. PICK j \in DOMAIN requests' : old[j] > Len(requests) /\ requests'[j] = further[n]
  BY DEF Onward
<1>2. further[n].kind \in Writes /\ Mine(j, further[n].kind)'
  BY <1>1 DEF AddsWrites, Mine
<1>3. Writing'
  BY <1>2 DEF Writing
<1>4. ASSUME NEW i \in DOMAIN requests', Mine(i, "save")', \A k \in DOMAIN requests', kind \in Writes : Mine(k, kind)' => k <= i
      PROVE  requests'[i].value = rows
  <2>1. j <= i /\ i \in Nat /\ j \in Nat /\ old[i] \in Nat /\ old[j] \in Nat
    BY <1>2, <1>4 DEF Onward
  <2>2. ~(old[i] < old[j]) /\ Len(requests) \in Nat
    BY <2>1 DEF Onward
  <2>3. old[i] > Len(requests)
    BY <1>1, <2>1, <2>2
  <2>4. old[i] \notin DOMAIN requests
    BY <2>3, <2>1 DEF Onward
  <2>5. PICK m \in DOMAIN further : requests'[i] = further[m]
    BY <1>4, <2>4 DEF Onward, LedgerKinds
  <2>6. requests'[i] = further[n]
    BY <2>5 DEF AtMostOne
  <2> QED BY <1>4, <2>6 DEF Mine
<1> QED BY <1>3, <1>4

LEMMA WritingOnward ==
  ASSUME NEW old, NEW lost, NEW further, Onward(old, lost, further), DOMAIN further = {}
  PROVE  /\ Writing' => Writing
         /\ (\A i \in lost, kind \in Writes : ~Mine(i, kind)) /\ Writing => Writing'
<1>1. Writes \subseteq LedgerKinds
  BY DEF LedgerKinds, Writes
<1> QED BY <1>1 DEF Onward, Writing

(* What the invariant says of the editor's ledger.                         *)
PageInv == RestoreInv /\ EditInv /\ (Writing => Editor \in edited)

LEMMA OthersOnward ==
  ASSUME NEW old, NEW lost, NEW further, Onward(old, lost, further),
         \A n \in DOMAIN further : further[n].page # Editor \/ further[n].kind \notin LedgerKinds
  PROVE  Onward(old, lost, <<>>)
<1>1. ASSUME NEW j \in DOMAIN requests', NEW kind \in LedgerKinds, Mine(j, kind)'
      PROVE  ~\E n \in DOMAIN further : requests'[j] = further[n]
  BY <1>1 DEF Mine
<1>2. DOMAIN <<>> = {}
  OBVIOUS
<1> QED BY <1>1, <1>2 DEF Onward

(* Steps that concern neither the ledger of the editor nor its requests.   *)
LEMMA QuietKeeps ==
  ASSUME PageInv, NEW old, NEW lost, Onward(old, lost, <<>>),
         \A i \in lost, kind \in LedgerKinds : ~Mine(i, kind),
         table'[Editor] = table[Editor], record' = record,
         Editor \in restoring' <=> Editor \in restoring, Editor \in edited' <=> Editor \in edited,
         Editor \in overtaken' <=> Editor \in overtaken, Editor \in unsaved' <=> Editor \in unsaved
  PROVE  PageInv'
<1>1. /\ DOMAIN <<>> = {} /\ AddsWrites(<<>>) /\ AtMostOne(<<>>) /\ ~Adds(<<>>, "save") /\ ~Adds(<<>>, "import")
      /\ Writes \subseteq LedgerKinds /\ "load" \in LedgerKinds
  BY DEF AddsWrites, AtMostOne, Adds, Writes, LedgerKinds
<1>2. RestoreInv'
  BY <1>1, RestoreOnward DEF PageInv
<1>3. Writing' <=> Writing
  BY <1>1, WritingOnward
<1>4. ASSUME Editor \in edited' \ overtaken' PROVE OrderInv' /\ TableInv'
  <2>1. OrderInv /\ TableInv
    BY <1>4 DEF PageInv, EditInv
  <2>2. OrderInv'
    <3>1. "import" \in LedgerKinds
      BY DEF LedgerKinds
    <3> QED BY <1>1, <2>1, <3>1, OrderOnward
  <2>3. \A i \in DOMAIN requests' :
          Mine(i, "save")' /\ (\A j \in DOMAIN requests', kind \in Writes : Mine(j, kind)' => j <= i)
            => table'[Editor] \in Incomplete \/ requests'[i].value = table'[Editor]
    BY <1>1, <2>1, LastOnward
  <2>4. Writing' \/ (Editor \notin restoring' /\ Stored')
    BY <1>3, <2>1 DEF TableInv, Stored
  <2> QED BY <2>2, <2>3, <2>4 DEF TableInv
<1> QED BY <1>2, <1>3, <1>4 DEF PageInv, EditInv

(* A request that is answered, or given up, is the first one of the ledger *)
(* in the queue.                                                           *)
LEMMA AnsweredIsFirst ==
  ASSUME requests \in Seq(Queued), QueueInv, NEW i \in DOMAIN requests, requests[i].kind \in LedgerKinds,
         MayExecute(i) \/ IsBlocked(i) \/ MayFail(i)
  PROVE  /\ Mine(i, requests[i].kind) \/ requests[i].page # Editor
         /\ \A j \in DOMAIN requests, kind \in LedgerKinds : Mine(j, kind) => i <= j
<1>1. DOMAIN requests \subseteq Nat /\ \A j \in DOMAIN requests : j < i => j \in 1 .. (i - 1)
  OBVIOUS
<1>2. ASSUME NEW j \in DOMAIN requests, j < i PROVE requests[j].kind \notin LedgerKinds
  <2>1. CASE MayExecute(i)
    <3>1. IsOpen(j)
      BY <1>2, <2>1 DEF MayExecute, QueueInv, IsOpen
    <3>2. StoreOf(requests[j].kind) # StoreOf(requests[i].kind)
      BY <1>1, <1>2, <2>1, <3>1 DEF MayExecute, IsOpen
    <3> QED BY <3>2 DEF StoreOf
  <2>2. CASE IsBlocked(i) \/ MayFail(i)
    <3>1. IsOpen(j)
      BY <1>1, <1>2, <2>2 DEF IsBlocked, MayFail, IsNext, IsOpen
    <3>2. version < 2
      BY <2>2 DEF IsBlocked, MayFail, Version
    <3> QED BY <3>1, <3>2 DEF QueueInv
  <2> QED BY <2>1, <2>2
<1>3. requests[i].state # "blocked"
  BY DEF MayExecute, IsBlocked, MayFail
<1>4. ASSUME NEW j \in DOMAIN requests, NEW kind \in LedgerKinds, Mine(j, kind) PROVE i <= j
  <2>1. ~(j < i)
    BY <1>2, <1>4 DEF Mine
  <2> QED BY <1>1, <2>1
<1> QED BY <1>3, <1>4 DEF Mine

-------------------------------------------------------------------------------
(* The answers to the editor's requests                                    *)

(* The request i of the editor is answered and leaves the queue.           *)
Answered(i, old, further) ==
  /\ i \in DOMAIN requests /\ Mine(i, requests[i].kind) /\ Onward(old, {i}, further)
  /\ \A j \in DOMAIN requests, kind \in LedgerKinds : Mine(j, kind) => i <= j

LEMMA WriteIsRestored ==
  ASSUME RestoreInv, NEW i, NEW old, NEW further, Answered(i, old, further), requests[i].kind \in Writes
  PROVE  Editor \notin restoring
<1> SUFFICES ASSUME Editor \in restoring PROVE FALSE
  OBVIOUS
<1>1. PICK j \in DOMAIN requests : Mine(j, "load")
  BY DEF RestoreInv
<1>2. j < i /\ i <= j
  BY <1>1 DEF Answered, RestoreInv, LedgerKinds
<1>3. i \in Nat /\ j \in Nat
  BY DEF Answered, Onward
<1> QED BY <1>2, <1>3

LEMMA SaveKeeps ==
  ASSUME PageInv, NEW i, NEW old, Answered(i, old, <<>>), requests[i].kind = "save",
         table' = table, restoring' = restoring, edited' = edited, overtaken' = overtaken,
         \/ record' = requests[i].value
         \/ Editor \in unsaved'
  PROVE  PageInv'
<1>1. /\ DOMAIN <<>> = {} /\ AddsWrites(<<>>) /\ AtMostOne(<<>>) /\ ~Adds(<<>>, "save") /\ ~Adds(<<>>, "import")
      /\ Writes \subseteq LedgerKinds /\ "load" \in LedgerKinds /\ "save" \in Writes
  BY DEF AddsWrites, AtMostOne, Adds, Writes, LedgerKinds
<1>2. Onward(old, {i}, <<>>) /\ i \in DOMAIN requests /\ Mine(i, "save") /\ ~Mine(i, "load")
  BY DEF Answered, Mine
<1>3. RestoreInv'
  BY <1>1, <1>2, RestoreOnward DEF PageInv
<1>4. Writing' => Writing
  BY <1>1, <1>2, WritingOnward
<1>5. Editor \notin restoring
  BY <1>1, WriteIsRestored DEF PageInv
<1>6. ASSUME Editor \in edited \ overtaken PROVE OrderInv' /\ TableInv'
  <2>1. OrderInv /\ TableInv
    BY <1>6 DEF PageInv, EditInv
  <2>2. OrderInv'
    <3>1. ~Mine(i, "import")
      BY DEF Mine
    <3> QED BY <1>1, <1>2, <2>1, <3>1, OrderOnward
  <2>3. \A k \in {i}, j \in DOMAIN requests, first, kind \in Writes : Mine(k, first) /\ Mine(j, kind) => k <= j
    BY <1>1 DEF Answered
  <2>4. \A j \in DOMAIN requests' :
          Mine(j, "save")' /\ (\A k \in DOMAIN requests', kind \in Writes : Mine(k, kind)' => k <= j)
            => table'[Editor] \in Incomplete \/ requests'[j].value = table'[Editor]
    BY <1>1, <1>2, <2>1, <2>3, LastOnward
  <2>5. ASSUME ~Writing' PROVE Stored'
    <3>1. ASSUME NEW j \in DOMAIN requests, NEW kind \in Writes, Mine(j, kind) PROVE j = i
      BY <1>1, <1>2, <2>5, <3>1 DEF Onward, Writing
    <3>2. i \in Nat
      BY DEF Answered, Onward
    <3>3. table[Editor] \in Incomplete \/ requests[i].value = table[Editor]
      BY <1>2, <2>1, <3>1, <3>2 DEF TableInv
    <3> QED BY <3>3 DEF Stored
  <2> QED BY <1>5, <2>2, <2>4, <2>5 DEF TableInv
<1> QED BY <1>3, <1>4, <1>6 DEF PageInv, EditInv

(* An import behind a save stays behind it.                                *)
LEMMA ImportIsLater ==
  ASSUME NEW i, NEW old, Onward(old, {i}, <<>>), NEW j \in DOMAIN requests',
         NEW k \in DOMAIN requests, k # i, Mine(k, "import"), old[j] < k
  PROVE  ~\A l \in DOMAIN requests', kind \in Writes : Mine(l, kind)' => l <= j
<1>1. PICK l \in DOMAIN requests' : old[l] = k /\ Mine(l, "import")'
  BY DEF Onward, LedgerKinds
<1>2. j < l /\ j \in Nat /\ l \in Nat
  BY <1>1 DEF Onward
<1>3. ~(l <= j)
  BY <1>2
<1> QED BY <1>1, <1>3 DEF Writes

LEMMA ImportKeeps ==
  ASSUME PageInv, NEW i, NEW old, Answered(i, old, <<>>), requests[i].kind = "import",
         restoring' = restoring, edited' = edited, overtaken' = overtaken,
         \/ table'[Editor] = Shown(record')
         \/ Editor \in unsaved'
  PROVE  PageInv'
<1>1. /\ DOMAIN <<>> = {} /\ AddsWrites(<<>>) /\ AtMostOne(<<>>) /\ ~Adds(<<>>, "save") /\ ~Adds(<<>>, "import")
      /\ Writes \subseteq LedgerKinds /\ "load" \in LedgerKinds /\ {"save", "import"} \subseteq Writes
  BY DEF AddsWrites, AtMostOne, Adds, Writes, LedgerKinds
<1>2. Onward(old, {i}, <<>>) /\ i \in DOMAIN requests /\ Mine(i, "import") /\ ~Mine(i, "load")
  BY DEF Answered, Mine
<1>3. RestoreInv'
  BY <1>1, <1>2, RestoreOnward DEF PageInv
<1>4. Writing' => Writing
  BY <1>1, <1>2, WritingOnward
<1>5. Editor \notin restoring
  BY <1>1, WriteIsRestored DEF PageInv
<1>6. ASSUME Editor \in edited \ overtaken PROVE OrderInv' /\ TableInv'
  <2>1. OrderInv /\ TableInv
    BY <1>6 DEF PageInv, EditInv
  <2>2. OrderInv'
    <3>1. \A j \in DOMAIN requests : Mine(j, "save") => i <= j
      BY <1>1 DEF Answered
    <3> QED BY <1>1, <1>2, <2>1, <3>1, OrderOnward
  <2>3. ASSUME NEW j \in DOMAIN requests', Mine(j, "save")', \A k \in DOMAIN requests', kind \in Writes : Mine(k, kind)' => k <= j
        PROVE  FALSE
    <3>1. old[j] \in DOMAIN requests /\ Mine(old[j], "save")
      BY <1>1, <1>2, <2>3 DEF Onward
    <3>2. i <= old[j] /\ i \in Nat /\ old[j] \in Nat /\ IsImporting
      BY <1>1, <1>2, <3>1 DEF Answered, Onward, IsImporting
    <3>3. PICK k \in DOMAIN requests : Mine(k, "import") /\ old[j] < k
      BY <2>1, <3>1, <3>2 DEF OrderInv
    <3>4. k # i /\ Onward(old, {i}, <<>>)
      BY <1>2, <3>2, <3>3
    <3> QED BY <2>3, <3>3, <3>4, ImportIsLater
  <2>4. Stored'
    BY DEF Stored
  <2> QED BY <1>5, <2>2, <2>3, <2>4 DEF TableInv
<1> QED BY <1>3, <1>4, <1>6 DEF PageInv, EditInv

LEMMA RemoveKeeps ==
  ASSUME PageInv, NEW i, NEW old, NEW further, Answered(i, old, further), requests[i].kind = "remove",
         AddsWrites(further), AtMostOne(further), NEW n \in DOMAIN further,
         further[n].kind = "save" /\ further[n].value = table'[Editor],
         restoring' = restoring, edited' = edited,
         Editor \notin overtaken' => Editor \notin overtaken \/ ~IsImporting
  PROVE  PageInv'
<1>1. Writes \subseteq LedgerKinds /\ "load" \in LedgerKinds /\ {"save", "import", "remove"} \subseteq Writes
  BY DEF Writes, LedgerKinds
<1>2. Onward(old, {i}, further) /\ i \in DOMAIN requests /\ Mine(i, "remove") /\ ~Mine(i, "load")
  BY DEF Answered, Mine
<1>3. RestoreInv'
  BY <1>1, <1>2, RestoreOnward DEF PageInv
<1>4. Editor \notin restoring
  BY <1>1, WriteIsRestored DEF PageInv
<1>5. Editor \in edited
  BY <1>1, <1>2 DEF PageInv, Writing
<1>6. ASSUME Editor \notin overtaken' PROVE OrderInv' /\ TableInv'
  <2>1. ~IsImporting
    <3>1. CASE Editor \notin overtaken
      <4>1. OrderInv
        BY <1>5, <3>1 DEF PageInv, EditInv
      <4> SUFFICES ASSUME NEW j \in DOMAIN requests, Mine(j, "import") PROVE FALSE
        BY DEF IsImporting
      <4>2. j < i /\ i <= j /\ i \in Nat /\ j \in Nat
        BY <1>1, <1>2, <4>1 DEF OrderInv, Answered, Onward
      <4> QED BY <4>2
    <3> QED BY <1>6, <3>1
  <2>2. OrderInv
    BY <1>4, <2>1 DEF OrderInv, IsImporting
  <2>3. ~Adds(further, "import")
    BY DEF Adds, AtMostOne
  <2>4. OrderInv'
    BY <1>2, <1>4, <2>1, <2>2, <2>3, OrderOnward DEF IsImporting
  <2>5. TableInv'
    BY <1>2, AddedIsLast DEF TableInv
  <2> QED BY <2>4, <2>5
<1> QED BY <1>3, <1>5, <1>6 DEF PageInv, EditInv

LEMMA RestoreKeeps ==
  ASSUME PageInv, NEW i, NEW old, Answered(i, old, <<>>), requests[i].kind = "load",
         Editor \notin restoring', edited' = edited, overtaken' = overtaken
  PROVE  PageInv'
<1>1. /\ DOMAIN <<>> = {} /\ AddsWrites(<<>>) /\ AtMostOne(<<>>) /\ ~Adds(<<>>, "save") /\ ~Adds(<<>>, "import")
      /\ Writes \subseteq LedgerKinds /\ "load" \in LedgerKinds /\ "save" \in LedgerKinds /\ "load" \notin Writes
  BY DEF AddsWrites, AtMostOne, Adds, Writes, LedgerKinds
<1>2. Onward(old, {i}, <<>>) /\ i \in DOMAIN requests /\ Mine(i, "load") /\ Editor \in restoring
  BY DEF Answered, Mine, PageInv, RestoreInv
<1>3. \A j \in DOMAIN requests' : ~Mine(j, "load")'
  BY <1>1, <1>2 DEF Onward, PageInv, RestoreInv
<1>4. RestoreInv'
  BY <1>3 DEF RestoreInv
<1>5. \A kind \in Writes : ~Mine(i, kind)
  BY <1>1, <1>2 DEF Mine
<1>6. Writing' <=> Writing
  BY <1>1, <1>2, <1>5, WritingOnward
<1>7. ASSUME Editor \in edited \ overtaken PROVE OrderInv' /\ TableInv'
  <2>1. OrderInv /\ TableInv
    BY <1>7 DEF PageInv, EditInv
  <2>2. OrderInv'
    <3>1. ~Mine(i, "import")
      BY DEF Mine
    <3> QED BY <1>1, <1>2, <2>1, <3>1, OrderOnward
  <2>3. ASSUME NEW j \in DOMAIN requests', Mine(j, "save")', \A k \in DOMAIN requests', kind \in Writes : Mine(k, kind)' => k <= j
        PROVE  FALSE
    <3>1. old[j] \in DOMAIN requests /\ Mine(old[j], "save")
      BY <1>1, <1>2, <2>3 DEF Onward
    <3>2. PICK k \in DOMAIN requests : Mine(k, "import") /\ old[j] < k
      BY <1>2, <2>1, <3>1 DEF OrderInv
    <3>3. k # i
      BY <3>2 DEF Mine
    <3> QED BY <1>1, <1>2, <2>3, <3>2, <3>3, ImportIsLater
  <2> QED BY <1>2, <1>6, <2>1, <2>2, <2>3 DEF TableInv
<1> QED BY <1>4, <1>6, <1>7 DEF PageInv, EditInv

(* The editor adds a write: a save or an import decides anew what will be  *)
(* shown and stored.                                                       *)
Decides(kind) ==
  CASE kind = "save"   -> Editor \notin restoring /\ ~IsImporting
    [] kind = "import" -> ~IsClearing
    [] kind = "remove" -> Editor \notin overtaken

LEMMA AddKeeps ==
  ASSUME PageInv, NEW old, NEW further, Onward(old, {}, further), AddsWrites(further), AtMostOne(further),
         NEW n \in DOMAIN further, further[n].kind = "save" => further[n].value = table'[Editor],
         restoring' = restoring, Editor \in edited',
         Editor \notin overtaken' => Decides(further[n].kind)
  PROVE  PageInv'
<1>1. Writes \subseteq LedgerKinds /\ {"save", "import", "remove"} \subseteq Writes /\ Writes = {"save", "import", "remove"}
  BY DEF Writes, LedgerKinds
<1>2. RestoreInv'
  BY RestoreOnward DEF PageInv
<1>3. \A kind : Adds(further, kind) => further[n].kind = kind
  BY DEF Adds, AtMostOne
<1>4. further[n].kind \in Writes
  BY DEF AddsWrites
<1>5. ASSUME NEW kind \in LedgerKinds, NEW i \in DOMAIN requests', Mine(i, kind)', kind # further[n].kind
      PROVE  old[i] \in DOMAIN requests /\ Mine(old[i], kind)
  <2>1. ~\E m \in DOMAIN further : requests'[i] = further[m]
    BY <1>3, <1>5 DEF Adds, Mine
  <2> QED BY <1>5, <2>1 DEF Onward
<1>6. ASSUME Editor \notin overtaken', Decides(further[n].kind) PROVE OrderInv'
  <2>1. CASE further[n].kind = "save"
    <3>1. Editor \notin restoring /\ ~IsImporting
      BY <1>6, <2>1 DEF Decides
    <3>2. ~IsImporting'
      BY <1>1, <1>5, <2>1, <3>1 DEF IsImporting
    <3> QED BY <3>1, <3>2 DEF OrderInv, IsImporting
  <2>2. CASE further[n].kind = "import"
    <3>1. ~IsClearing'
      <4>1. ~IsClearing
        BY <1>6, <2>2 DEF Decides
      <4> QED BY <1>1, <1>5, <2>2, <4>1 DEF IsClearing
    <3>2. PICK j \in DOMAIN requests' : old[j] > Len(requests) /\ requests'[j] = further[n]
      BY DEF Onward
    <3>3. Mine(j, "import")'
      BY <2>2, <3>2 DEF AddsWrites, Mine
    <3>4. ASSUME NEW i \in DOMAIN requests', Mine(i, "save")' PROVE i < j
      <4>1. old[i] \in DOMAIN requests
        BY <1>1, <1>5, <2>2, <3>4
      <4>2. old[i] < old[j]
        BY <3>2, <4>1 DEF Onward
      <4> QED BY <4>2 DEF Onward
    <3> QED BY <3>1, <3>3, <3>4 DEF OrderInv, IsClearing
  <2>3. CASE further[n].kind = "remove"
    <3>1. Editor \notin overtaken
      BY <1>6, <2>3 DEF Decides
    <3>2. OrderInv
      BY <1>1, <3>1 DEF PageInv, EditInv, OrderInv, Writing
    <3>3. ~Adds(further, "import") /\ ~Adds(further, "save")
      BY <1>3, <2>3
    <3> QED BY <3>2, <3>3, OrderOnward
  <2> QED BY <1>1, <1>4, <2>1, <2>2, <2>3
<1>7. TableInv'
  BY AddedIsLast DEF TableInv
<1> QED BY <1>2, <1>6, <1>7 DEF PageInv, EditInv

-------------------------------------------------------------------------------
(* The steps                                                               *)

LedgerInv ==
  /\ QueueInv /\ PageInv
  /\ table = [page \in Pages |-> table[page]] /\ edited \subseteq {Editor}

LEMMA NothingMine ==
  ASSUME \A j \in DOMAIN requests', kind \in LedgerKinds : ~Mine(j, kind)',
         Editor \notin restoring', Editor \notin edited'
  PROVE  PageInv'
BY DEF PageInv, RestoreInv, EditInv, Writing, Writes, LedgerKinds

LEMMA LedgerStays ==
  ASSUME LedgerInv, UNCHANGED <<dbVars, ledgerVars, visiting>>
  PROVE  LedgerInv'
BY DEF LedgerInv, dbVars, ledgerVars, QueueInv, IsOpen, PageInv, RestoreInv, EditInv, Writing, Mine, OrderInv, TableInv, Stored,
          IsImporting

LEMMA OneAdded ==
  ASSUME NEW request
  PROVE  /\ DOMAIN <<request>> = {1} /\ <<request>>[1] = request /\ AtMostOne(<<request>>)
BY DEF AtMostOne

LEMMA QueueAdds ==
  ASSUME QueueInv, requests \in Seq(Queued), NEW request \in Queued, requests' = Append(requests, request), IsNew(request),
         version' = version, visiting \subseteq visiting'
  PROVE  QueueInv' /\ \E old : Onward(old, {}, <<request>>)
<1> DEFINE further == <<request>>
<1>1. DOMAIN further = {1} /\ further[1] = request /\ further \in Seq(Queued)
  BY OneAdded
<1>2. requests' = requests \o further /\ requests' \in Seq(Queued)
  OBVIOUS
<1> HIDE DEF further
<1>3. PICK old : ComesFrom(requests, requests', old, {}, "blocked", further)
  BY <1>1, <1>2, ExtendedMoves
<1>4. QueueInv'
  <2>1. \A j \in DOMAIN requests' :
          old[j] \in DOMAIN requests /\ requests[old[j]].kind \in LedgerKinds => requests[old[j]].page \in visiting'
    BY DEF QueueInv
  <2>2. version' \in 0 .. 2 /\ version <= version'
    BY DEF QueueInv
  <2>3. \A n \in DOMAIN further : IsNew(further[n])
    BY <1>1
  <2>4. {} \in SUBSET DOMAIN requests /\ \A j \in DOMAIN requests' : old[j] \in {} => ~IsOpen(old[j])
    OBVIOUS
  <2> QED BY <1>3, <2>1, <2>2, <2>3, <2>4, QueueKeeps
<1>5. Onward(old, {}, further)
  <2>1. {} \in SUBSET DOMAIN requests
    OBVIOUS
  <2> QED BY <1>2, <1>3, <2>1, MovesOnward
<1> QED BY <1>4, <1>5 DEF further

(* A request that a tab adds, besides the ledger of the editor.            *)
LEMMA OtherAdded ==
  ASSUME LedgerInv, requests \in Seq(Queued), NEW request \in Queued, requests' = Append(requests, request), IsNew(request),
         version' = version, visiting \subseteq visiting',
         request.page # Editor \/ request.kind \notin LedgerKinds,
         table'[Editor] = table[Editor], record' = record,
         Editor \in restoring' <=> Editor \in restoring, Editor \in edited' <=> Editor \in edited,
         Editor \in overtaken' <=> Editor \in overtaken, Editor \in unsaved' <=> Editor \in unsaved
  PROVE  QueueInv' /\ PageInv'
<1>1. PICK old : Onward(old, {}, <<request>>)
  BY QueueAdds DEF LedgerInv
<1>2. Onward(old, {}, <<>>)
  BY <1>1, OneAdded, OthersOnward
<1>3. QueueInv'
  BY QueueAdds DEF LedgerInv
<1>4. PageInv'
  BY <1>2, QuietKeeps DEF LedgerInv
<1> QED BY <1>3, <1>4

LEMMA LedgerVisit ==
  ASSUME LedgerInv, requests \in Seq(Queued), NEW page \in Pages, Visit(page)
  PROVE  LedgerInv'
<1> DEFINE request == Request(page, "load", Nothing)
<1>1. request \in Queued
  BY RequestIsQueued DEF LedgerKinds
<1>2. IsNew(request) /\ request.page = page /\ request.kind = "load" /\ request.state = "asked"
  BY DEF IsNew, Request, Visit, Writes
<1>3. /\ requests' = Append(requests, request) /\ version' = version /\ visiting' = visiting \cup {page}
      /\ page \notin visiting
      /\ table' = [table EXCEPT ![page] = Nothing] /\ record' = record
      /\ restoring' = restoring \cup {page} /\ edited' = edited \ {page}
      /\ overtaken' = overtaken \ {page} /\ unsaved' = unsaved \ {page}
  BY DEF Visit, StartLedger
<1> HIDE DEF request
<1>4. table' = [other \in Pages |-> table'[other]] /\ edited' \subseteq {Editor}
  BY <1>3 DEF LedgerInv
<1>5. CASE page # Editor
  <2>1. table'[Editor] = table[Editor]
    BY <1>3, <1>5, BrowserAssumption DEF LedgerInv
  <2>2. QueueInv' /\ PageInv'
    BY <1>1, <1>2, <1>3, <1>5, <2>1, OtherAdded
  <2> QED BY <1>4, <2>2 DEF LedgerInv
<1>6. CASE page = Editor
  <2>1. \A i \in DOMAIN requests, kind \in LedgerKinds : ~Mine(i, kind)
    BY <1>3, <1>6 DEF LedgerInv, QueueInv, Mine
  <2>2. PICK last \in Nat :
          /\ DOMAIN requests' = DOMAIN requests \cup {last} /\ requests'[last] = request
          /\ \A j \in DOMAIN requests : requests'[j] = requests[j]
    <3>1. /\ Len(requests) + 1 \in Nat /\ DOMAIN requests' = DOMAIN requests \cup {Len(requests) + 1}
          /\ requests'[Len(requests) + 1] = request
          /\ \A j \in DOMAIN requests : requests'[j] = requests[j]
      BY <1>1, <1>3
    <3> QED BY <3>1
  <2>3. \A j \in DOMAIN requests', kind \in LedgerKinds : Mine(j, kind)' => j = last /\ kind = "load"
    BY <1>2, <2>1, <2>2 DEF Mine
  <2>4. Mine(last, "load")' /\ last \in DOMAIN requests'
    BY <1>2, <1>6, <2>2 DEF Mine
  <2>5. Editor \in restoring' /\ Editor \notin edited'
    BY <1>3, <1>6
  <2>6. "load" \in LedgerKinds /\ Writes \subseteq LedgerKinds /\ "load" \notin Writes
    BY DEF LedgerKinds, Writes
  <2>7. RestoreInv' /\ ~Writing'
    BY <2>3, <2>4, <2>5, <2>6 DEF RestoreInv, Writing
  <2>8. PageInv'
    BY <2>5, <2>7 DEF PageInv, EditInv
  <2>9. QueueInv'
    BY <1>1, <1>2, <1>3, QueueAdds DEF LedgerInv
  <2> QED BY <1>4, <2>8, <2>9 DEF LedgerInv
<1> QED BY <1>5, <1>6

LEMMA LedgerLeave ==
  ASSUME LedgerInv, requests \in Seq(Queued), requests' \in Seq(Queued), NEW page \in Pages, Leave(page)
  PROVE  LedgerInv'
<1> DEFINE gone == DOMAIN requests \ Kept(page)
<1>1. PICK old : GoesWithout(requests, requests', old, gone, <<>>)
  BY AbandonMoves DEF Leave
<1>2. /\ version' = version /\ visiting' = visiting \ {page} /\ table' = table /\ record' = record
      /\ restoring' = restoring \ {page} /\ edited' = edited \ {page}
      /\ overtaken' = overtaken \ {page} /\ unsaved' = unsaved \ {page}
  BY DEF Leave, Abandon
<1>3. \A i \in DOMAIN requests : i \in gone <=> requests[i].page = page
  BY DEF Kept
<1>4. gone \in SUBSET DOMAIN requests /\ DOMAIN <<>> = {}
  OBVIOUS
<1> HIDE DEF gone
<1>5. ComesFrom(requests, requests', old, gone, "blocked", <<>>) /\ \A j \in DOMAIN requests' : old[j] \notin gone
  BY <1>1 DEF GoesWithout
<1>6. QueueInv'
  BY <1>2, <1>3, <1>4, <1>5, QueueKeeps DEF LedgerInv, QueueInv
<1>7. Onward(old, gone, <<>>)
  BY <1>4, <1>5, MovesOnward
<1>8. PageInv'
  <2>1. CASE page # Editor
    <3>1. \A i \in gone, kind \in LedgerKinds : ~Mine(i, kind)
      BY <1>3, <1>4, <2>1 DEF Mine
    <3> QED BY <1>2, <1>7, <2>1, <3>1, QuietKeeps DEF LedgerInv
  <2>2. CASE page = Editor
    <3>1. \A j \in DOMAIN requests', kind \in LedgerKinds : ~Mine(j, kind)'
      BY <1>3, <1>4, <1>7, <2>2 DEF Onward, Mine
    <3> QED BY <1>2, <2>2, <3>1, NothingMine
  <2> QED BY <2>1, <2>2
<1> QED BY <1>2, <1>6, <1>8 DEF LedgerInv

(* A write that the editor adds.                                           *)
LEMMA WriteAdded ==
  ASSUME LedgerInv, requests \in Seq(Queued), NEW kind \in Writes, NEW value,
         Request(Editor, kind, value) \in Queued, requests' = Append(requests, Request(Editor, kind, value)),
         Editor \in visiting, visiting' = visiting, version' = version,
         kind = "save" => value = table'[Editor], restoring' = restoring, Editor \in edited', Editor \notin overtaken' => Decides(kind)
  PROVE  QueueInv' /\ PageInv'
<1> DEFINE request == Request(Editor, kind, value)
<1>1. /\ request.page = Editor /\ request.kind = kind /\ request.value = value /\ request.state = "asked"
      /\ IsNew(request)
  BY DEF Request, IsNew
<1> HIDE DEF request
<1>2. request \in Queued /\ requests' = Append(requests, request)
  BY DEF request
<1>3. QueueInv'
  BY <1>1, <1>2, QueueAdds DEF LedgerInv
<1>4. PICK old : Onward(old, {}, <<request>>)
  BY <1>1, <1>2, QueueAdds DEF LedgerInv
<1> DEFINE further == <<request>>
<1>5. DOMAIN further = {1} /\ further[1] = request /\ AtMostOne(further)
  BY OneAdded
<1>6. Onward(old, {}, further)
  BY <1>4
<1> HIDE DEF further
<1>7. AddsWrites(further)
  BY <1>1, <1>5 DEF AddsWrites
<1>8. 1 \in DOMAIN further /\ further[1].kind = kind /\ further[1].value = value
  BY <1>1, <1>5
<1>9. PageInv'
  BY <1>5, <1>6, <1>7, <1>8, AddKeeps DEF LedgerInv
<1> QED BY <1>3, <1>9

LEMMA WaitingMeansMine ==
  /\ IsImporting => IsWaitingFor(Editor, {"import"})
  /\ IsClearing => IsWaitingFor(Editor, {"remove"})
BY DEF IsWaitingFor, Mine, IsImporting, IsClearing

LEMMA LedgerEdit ==
  ASSUME LedgerInv, requests \in Seq(Queued), requests' \in Seq(Queued), Editor \in visiting, UNCHANGED <<version, visiting>>,
         NEW rows \in Contents, Edit(Editor, rows)
  PROVE  LedgerInv'
<1>1. /\ table' = [table EXCEPT ![Editor] = rows] /\ edited' = edited \cup {Editor}
      /\ UNCHANGED <<record, restoring, unsaved>>
      /\ Editor \notin overtaken' => Editor \notin restoring /\ ~IsWaitingFor(Editor, {"import"})
  BY DEF Edit
<1>2. Editor \in Pages /\ rows \in Rows
  BY BrowserAssumption DEF Rows
<1>3. table' = [page \in Pages |-> table'[page]] /\ edited' \subseteq {Editor} /\ table'[Editor] = rows /\ Editor \in edited'
  BY <1>1, <1>2 DEF LedgerInv
<1>4. Editor \notin overtaken' => Decides("save")
  BY <1>1, WaitingMeansMine DEF Decides
<1>5. CASE rows \notin Incomplete
  <2>1. requests' = Append(requests, Request(Editor, "save", rows))
    <3>1. requests' = requests \o <<Request(Editor, "save", rows)>>
      BY <1>5 DEF Edit, Save
    <3>2. Request(Editor, "save", rows) \in Queued
      BY <1>2, RequestIsQueued DEF LedgerKinds
    <3> QED BY <3>1, <3>2
  <2>2. Request(Editor, "save", rows) \in Queued /\ "save" \in Writes
    BY <1>2, RequestIsQueued DEF LedgerKinds, Writes
  <2>3. QueueInv' /\ PageInv'
    BY <1>1, <1>3, <1>4, <2>1, <2>2, WriteAdded
  <2> QED BY <1>3, <2>3 DEF LedgerInv
<1>6. CASE rows \in Incomplete
  <2>1. requests' = requests
    <3>1. requests' = requests \o <<>>
      BY <1>6 DEF Edit, Save
    <3> QED BY <3>1
  <2>2. QueueInv'
    BY <2>1 DEF LedgerInv, QueueInv, IsOpen
  <2>3. \A i, kind : Mine(i, kind)' <=> Mine(i, kind)
    BY <2>1 DEF Mine
  <2>4. RestoreInv' /\ (Writing' <=> Writing)
    BY <1>1, <2>1 DEF LedgerInv, PageInv, RestoreInv, Writing, Mine
  <2>5. ASSUME Editor \notin overtaken' PROVE OrderInv' /\ TableInv'
    <3>1. Editor \notin restoring /\ ~IsImporting
      BY <1>4, <2>5 DEF Decides
    <3>2. OrderInv'
      BY <1>1, <2>1, <2>3, <3>1 DEF OrderInv, IsImporting
    <3>3. TableInv'
      BY <1>1, <1>3, <1>6, <2>5 DEF TableInv, Stored
    <3> QED BY <3>2, <3>3
  <2> QED BY <1>3, <2>2, <2>4, <2>5 DEF LedgerInv, PageInv, EditInv
<1> QED BY <1>5, <1>6

LEMMA LedgerAct ==
  ASSUME LedgerInv, requests \in Seq(Queued), requests' \in Seq(Queued), Act
  PROVE  LedgerInv'
<1>1. Editor \in visiting /\ UNCHANGED <<version, visiting>> /\ Editor \in Pages
  BY BrowserAssumption DEF Act
<1>2. ASSUME NEW rows \in Contents, Edit(Editor, rows) PROVE LedgerInv'
  BY <1>1, <1>2, LedgerEdit
<1>3. ASSUME NEW rows \in Contents, AskImport(Editor, rows) PROVE LedgerInv'
  <2>1. Request(Editor, "import", rows) \in Queued /\ "import" \in Writes
    BY <1>1, RequestIsQueued DEF LedgerKinds, Writes, Rows
  <2>2. Editor \notin overtaken' => Decides("import")
    BY <1>3, WaitingMeansMine DEF AskImport, Decides
  <2>3. QueueInv' /\ PageInv'
    BY <1>1, <1>3, <2>1, <2>2, WriteAdded DEF AskImport
  <2> QED BY <1>3, <2>3 DEF LedgerInv, AskImport
<1>4. ASSUME AskClear(Editor) PROVE LedgerInv'
  <2>1. Request(Editor, "remove", Nothing) \in Queued /\ "remove" \in Writes
    BY <1>1, RequestIsQueued DEF LedgerKinds, Writes
  <2>2. Editor \notin overtaken' => Decides("remove")
    BY <1>4 DEF AskClear, Decides
  <2>3. QueueInv' /\ PageInv'
    BY <1>1, <1>4, <2>1, <2>2, WriteAdded DEF AskClear
  <2> QED BY <1>4, <2>3 DEF LedgerInv, AskClear
<1> QED BY <1>2, <1>3, <1>4 DEF Act

(* The loader's requests                                                   *)
LEMMA LoaderAdded ==
  ASSUME LedgerInv, requests \in Seq(Queued), requests' \in Seq(Queued), NEW page \in Pages, NEW kind \in ManifestKinds, NEW value,
         requests' = Append(requests, Request(page, kind, value)), UNCHANGED <<version, visiting, ledgerVars>>
  PROVE  LedgerInv'
<1> DEFINE request == Request(page, kind, value)
<1>1. request \in Queued
  <2>1. PICK last \in DOMAIN requests' : requests'[last] = request
    <3>1. Len(requests) + 1 \in DOMAIN requests' /\ requests'[Len(requests) + 1] = request
      OBVIOUS
    <3> QED BY <3>1
  <2> QED BY <2>1
<1>2. IsNew(request) /\ request.kind \notin LedgerKinds
  BY DEF IsNew, Request, ManifestKinds, LedgerKinds, Writes
<1>3. QueueInv' /\ PageInv'
  <2> HIDE DEF request
  <2>1. requests' = Append(requests, request)
    BY DEF request
  <2> QED BY <1>1, <1>2, <2>1, OtherAdded DEF ledgerVars
<1> QED BY <1>3 DEF LedgerInv, ledgerVars

LEMMA LedgerLoad ==
  ASSUME LedgerInv, requests \in Seq(Queued), requests' \in Seq(Queued), NEW loader \in Loaders, Load(loader) \/ Network(loader)
  PROVE  LedgerInv'
<1>1. UNCHANGED <<version, stores, leaked, ledgerVars, visiting>>
  BY DEF Load, Network
<1> DEFINE page == PageOf[loader]
<1>2. page \in Pages
  BY LoadersAssumption
<1>3. CASE requests' = requests
  BY <1>1, <1>3, LedgerStays DEF dbVars
<1>4. CASE LoadManifest(loader)
  <2>1. requests' = Append(requests, Request(page, "manifestRead", loader))
    BY <1>4 DEF LoadManifest
  <2>2. "manifestRead" \in ManifestKinds
    BY DEF ManifestKinds
  <2> HIDE DEF page
  <2> QED BY <1>1, <1>2, <2>1, <2>2, LoaderAdded
<1>5. CASE FetchManifest(loader)
  <2>1. ASSUME requests' # requests
        PROVE  \E value : requests' = Append(requests, Request(page, "manifestWrite", value))
    BY <1>5, <2>1 DEF FetchManifest
  <2>2. "manifestWrite" \in ManifestKinds
    BY DEF ManifestKinds
  <2> HIDE DEF page
  <2> QED BY <1>1, <1>2, <1>3, <2>1, <2>2, LoaderAdded
<1> QED BY <1>3, <1>4, <1>5 DEF Load, Network

-------------------------------------------------------------------------------
(* The database                                                            *)

LEMMA VersionGrows ==
  ASSUME QueueInv, NEW i \in DOMAIN requests, Grant(i)
  PROVE  /\ version' \in 0 .. 2 /\ version <= version'
         /\ requests[i].kind \in LedgerKinds => version' = 2
BY DEF QueueInv, Grant, Version

LEMMA LedgerOpen ==
  ASSUME LedgerInv, requests \in Seq(Queued), requests' \in Seq(Queued), NEW i \in DOMAIN requests, Open(i)
  PROVE  LedgerInv'
<1>1. Grant(i) /\ UNCHANGED <<ledgerVars, visiting>> /\ IsNext(i) /\ ~IsOpen(i)
  BY DEF Open, Grant, IsNext, IsOpen
<1>2. /\ version' \in 0 .. 2 /\ version <= version'
      /\ requests[i].kind \in LedgerKinds => version' = 2
  BY <1>1, VersionGrows DEF LedgerInv
<1>3. CASE requests[i].state = "blocked"
  <2>1. requests' = RemoveAt(requests, i) \o <<>>
    <3>1. requests' = RemoveAt(requests, i)
      BY <1>1, <1>3 DEF Grant
    <3>2. requests' = requests' \o <<>>
      OBVIOUS
    <3> QED BY <3>1, <3>2
  <2>2. <<>> \in Seq(Queued)
    OBVIOUS
  <2>3. PICK old : GoesWithout(requests, requests', old, {i}, <<>>)
    BY <2>1, <2>2, SettledMoves
  <2>4. ComesFrom(requests, requests', old, {i}, "blocked", <<>>) /\ \A j \in DOMAIN requests' : old[j] \notin {i}
    BY <2>3 DEF GoesWithout
  <2>5. \A j \in DOMAIN requests' :
          old[j] \in DOMAIN requests /\ requests[old[j]].kind \in LedgerKinds => requests[old[j]].page \in visiting'
    BY <1>1 DEF LedgerInv, QueueInv
  <2>6. {i} \in SUBSET DOMAIN requests /\ \A n \in DOMAIN <<>> : IsNew(<<>>[n])
    OBVIOUS
  <2>7. QueueInv'
    BY <1>2, <2>4, <2>5, <2>6, QueueKeeps DEF LedgerInv
  <2>8. Onward(old, {i}, <<>>)
    BY <2>4, <2>6, MovesOnward
  <2>9. PageInv'
    BY <1>1, <1>3, <2>8, QuietKeeps DEF LedgerInv, Mine, ledgerVars
  <2> QED BY <1>1, <2>7, <2>9 DEF LedgerInv, ledgerVars
<1>4. CASE requests[i].state # "blocked"
  <2>1. requests' = [requests EXCEPT ![i].state = "open"]
    BY <1>1, <1>4 DEF Grant
  <2>2. requests[i] \in Queued
    OBVIOUS
  <2>3. /\ DOMAIN requests' = DOMAIN requests
        /\ \A j \in DOMAIN requests : requests'[j].page = requests[j].page /\ requests'[j].kind = requests[j].kind
                                      /\ requests'[j].value = requests[j].value
                                      /\ (j # i => requests'[j].state = requests[j].state)
        /\ requests'[i].state = "open"
    BY <2>1, <2>2 DEF Queued, Requested
  <2>4. QueueInv'
    <3>1. ASSUME NEW k \in DOMAIN requests, NEW j \in DOMAIN requests, j < k, IsOpen(k)' PROVE IsOpen(j)'
      <4>1. CASE k = i
        <5>1. j \in 1 .. (i - 1)
          BY <3>1, <4>1
        <5> QED BY <1>1, <2>3, <5>1 DEF IsNext, IsOpen
      <4>2. CASE k # i
        BY <2>3, <3>1, <4>2 DEF LedgerInv, QueueInv, IsOpen
      <4> QED BY <4>1, <4>2
    <3>2. ASSUME NEW k \in DOMAIN requests, IsOpen(k)', requests'[k].kind \in LedgerKinds PROVE version' = 2
      <4>1. CASE k = i
        BY <1>2, <2>3, <3>2, <4>1
      <4>2. CASE k # i
        <5>1. version = 2
          BY <2>3, <3>2, <4>2 DEF LedgerInv, QueueInv, IsOpen
        <5> QED BY <1>2, <5>1
      <4> QED BY <4>1, <4>2
    <3>3. \A k \in DOMAIN requests :
            /\ requests'[k].kind \in LedgerKinds => requests'[k].page \in visiting'
            /\ requests'[k].kind \in Writes => requests'[k].page = Editor
      BY <1>1, <2>3 DEF LedgerInv, QueueInv
    <3> QED BY <1>2, <2>3, <3>1, <3>2, <3>3 DEF QueueInv
  <2>5. \A j \in DOMAIN requests : \A kind : Mine(j, kind)' <=> Mine(j, kind)
    BY <1>4, <2>3 DEF Mine
  <2>6. PageInv'
    BY <1>1, <2>3, <2>5 DEF LedgerInv, PageInv, RestoreInv, EditInv, Writing, OrderInv, TableInv, Stored,
             IsImporting, ledgerVars
  <2> QED BY <1>1, <2>4, <2>6 DEF LedgerInv, ledgerVars
<1> QED BY <1>3, <1>4

(* What the answer to a request makes of the queue.                        *)
LEMMA AnswerMoves ==
  ASSUME LedgerInv, requests \in Seq(Queued), requests' \in Seq(Queued), NEW i \in DOMAIN requests,
         NEW ok \in BOOLEAN, Refuse(i) \/ Execute(i, ok)
  PROVE  /\ QueueInv'
         /\ \E old : Onward(old, {i}, FollowUp(requests[i]))
<1> DEFINE further == FollowUp(requests[i])
<1>1. requests[i] \in Queued /\ further \in Seq(Queued)
  BY FollowUpIsQueued
<1>2. \A n \in DOMAIN further : IsNew(further[n])
  <2>1. CASE requests[i].kind # "remove"
    BY <2>1 DEF FollowUp
  <2>2. CASE requests[i].kind = "remove"
    <3>1. requests[i].page = Editor /\ Editor \in visiting /\ visiting' = visiting
      BY <2>2 DEF LedgerInv, QueueInv, Writes, LedgerKinds, Refuse, Execute
    <3>2. further = <<>> \/ further = <<Request(Editor, "save", DefaultRow)>>
      BY <2>2, <3>1 DEF FollowUp, Save
    <3>3. IsNew(Request(Editor, "save", DefaultRow))
      BY <3>1 DEF IsNew, Request
    <3> HIDE DEF further
    <3>4. CASE further = <<>>
      BY <3>4
    <3>5. CASE further = <<Request(Editor, "save", DefaultRow)>>
      BY <3>3, <3>5, OneAdded
    <3> QED BY <3>2, <3>4, <3>5
  <2> QED BY <2>1, <2>2
<1>3. (AfterBlocked(i, further) /\ ~IsOpen(i)) \/ AfterSettled(i, further)
  BY DEF Refuse, Execute, IsBlocked, IsNext, IsOpen
<1>4. version' = version /\ visiting' = visiting
  BY DEF Refuse, Execute
<1> HIDE DEF further
<1>5. PICK old : /\ ComesFrom(requests, requests', old, {i}, "blocked", further)
                 /\ \A j \in DOMAIN requests' : old[j] \in {i} => ~IsOpen(old[j])
  <2>1. CASE AfterBlocked(i, further) /\ ~IsOpen(i)
    <3>1. PICK old : ComesFrom(requests, requests', old, {i}, "blocked", further)
      BY <1>1, <2>1, ChangedMoves DEF AfterBlocked, States
    <3>2. \A j \in DOMAIN requests' : old[j] \in {i} => ~IsOpen(old[j])
      BY <2>1
    <3> QED BY <3>1, <3>2
  <2>2. CASE AfterSettled(i, further)
    <3>1. PICK old : GoesWithout(requests, requests', old, {i}, further)
      BY <1>1, <2>2, SettledMoves DEF AfterSettled
    <3> QED BY <3>1 DEF GoesWithout
  <2> QED BY <1>3, <2>1, <2>2
<1>6. {i} \in SUBSET DOMAIN requests
  OBVIOUS
<1>7. QueueInv'
  <2>1. \A j \in DOMAIN requests' :
          old[j] \in DOMAIN requests /\ requests[old[j]].kind \in LedgerKinds => requests[old[j]].page \in visiting'
    BY <1>4 DEF LedgerInv, QueueInv
  <2>2. version' \in 0 .. 2 /\ version <= version'
    BY <1>4 DEF LedgerInv, QueueInv
  <2> QED BY <1>2, <1>5, <1>6, <2>1, <2>2, QueueKeeps DEF LedgerInv
<1>8. Onward(old, {i}, further)
  BY <1>5, <1>6, MovesOnward
<1> QED BY <1>7, <1>8 DEF further

(* Answers to requests of the cache, and of the other tabs.                *)
LEMMA OthersAnswered ==
  ASSUME LedgerInv, requests \in Seq(Queued), requests' \in Seq(Queued), NEW i \in DOMAIN requests,
         NEW ok \in BOOLEAN, Refuse(i) \/ Execute(i, ok), requests[i].kind \notin LedgerKinds \/ requests[i].page # Editor
  PROVE  PageInv'
<1>1. PICK old : Onward(old, {i}, FollowUp(requests[i]))
  BY AnswerMoves
<1>2. requests[i].kind # "remove"
  BY DEF LedgerInv, QueueInv, Writes, LedgerKinds
<1>3. Onward(old, {i}, <<>>)
  BY <1>1, <1>2 DEF FollowUp
<1>4. \A j \in {i}, kind \in LedgerKinds : ~Mine(j, kind)
  BY DEF Mine
<1>5. CASE requests[i].kind \notin LedgerKinds
  <2>1. UNCHANGED ledgerVars
    BY <1>5 DEF Refuse, Execute, Settle
  <2> QED BY <1>3, <1>4, <2>1, QuietKeeps DEF LedgerInv, ledgerVars
<1>6. CASE requests[i].kind \in LedgerKinds
  <2>1. requests[i].page # Editor /\ requests[i].kind = "load"
    BY <1>6 DEF LedgerInv, QueueInv, Writes, LedgerKinds
  <2>2. PICK done : Continue(requests[i], done)
    BY <1>6 DEF Refuse, Execute, Settle
  <2> DEFINE page == requests[i].page
  <2>3. /\ \E rows : table' = [table EXCEPT ![page] = rows]
        /\ restoring' = restoring \ {page} /\ UNCHANGED <<edited, overtaken, unsaved>>
    BY <2>1, <2>2 DEF Continue
  <2>4. record' = record
    BY <1>6, <2>1 DEF Refuse, Execute, RecordAfter
  <2>5. table'[Editor] = table[Editor]
    BY <2>1, <2>3
  <2> HIDE DEF page
  <2>6. Editor \in restoring' <=> Editor \in restoring
    BY <2>1, <2>3 DEF page
  <2> QED BY <1>3, <1>4, <2>3, <2>4, <2>5, <2>6, QuietKeeps DEF LedgerInv
<1> QED BY <1>5, <1>6

LEMMA EditorAnswered ==
  ASSUME LedgerInv, requests \in Seq(Queued), requests' \in Seq(Queued), NEW i \in DOMAIN requests,
         NEW ok \in BOOLEAN, Refuse(i) \/ Execute(i, ok), requests[i].kind \in LedgerKinds, requests[i].page = Editor
  PROVE  PageInv'
<1> DEFINE request == requests[i]
<1>1. PICK old : Onward(old, {i}, FollowUp(request))
  BY AnswerMoves
<1>2. /\ Mine(i, request.kind)
      /\ \A j \in DOMAIN requests, kind \in LedgerKinds : Mine(j, kind) => i <= j
  BY AnsweredIsFirst DEF Refuse, Execute, LedgerInv
<1>3. Answered(i, old, FollowUp(request)) /\ PageInv
  BY <1>1, <1>2 DEF Answered, LedgerInv
<1>4. PICK done \in BOOLEAN :
        /\ Continue(request, done)
        /\ record' = IF done THEN RecordAfter(request) ELSE record
  BY DEF Refuse, Execute, Settle
<1>5. Editor \in Pages /\ DOMAIN table = Pages
  BY BrowserAssumption DEF LedgerInv
<1>6. CASE request.kind = "load"
  <2>1. Answered(i, old, <<>>)
    BY <1>3, <1>6 DEF FollowUp
  <2>2. Editor \notin restoring' /\ edited' = edited /\ overtaken' = overtaken
    BY <1>4, <1>6 DEF Continue
  <2> QED BY <1>3, <1>6, <2>1, <2>2, RestoreKeeps
<1>7. CASE request.kind = "save"
  <2>1. Answered(i, old, <<>>)
    BY <1>3, <1>7 DEF FollowUp
  <2>2. table' = table /\ restoring' = restoring /\ edited' = edited /\ overtaken' = overtaken
    BY <1>4, <1>7 DEF Continue
  <2>3. record' = request.value \/ Editor \in unsaved'
    BY <1>4, <1>7 DEF Continue, RecordAfter
  <2> QED BY <1>3, <1>7, <2>1, <2>2, <2>3, SaveKeeps
<1>8. CASE request.kind = "import"
  <2>1. Answered(i, old, <<>>)
    BY <1>3, <1>8 DEF FollowUp
  <2>2. restoring' = restoring /\ edited' = edited /\ overtaken' = overtaken
    BY <1>4, <1>8 DEF Continue
  <2>3. \/ table'[Editor] = Shown(record')
        \/ Editor \in unsaved'
    BY <1>4, <1>5, <1>8 DEF Continue, RecordAfter
  <2> QED BY <1>3, <1>8, <2>1, <2>2, <2>3, ImportKeeps
<1>9. CASE request.kind = "remove"
  <2> DEFINE further == <<Request(Editor, "save", DefaultRow)>>
  <2>1. DefaultRow \notin Incomplete
    BY LedgerAssumption DEF DefaultRow
  <2>2. FollowUp(request) = further
    BY <1>9, <2>1 DEF FollowUp, Save
  <2>3. /\ table'[Editor] = DefaultRow /\ restoring' = restoring /\ edited' = edited
        /\ Editor \notin overtaken' => Editor \notin overtaken \/ ~IsWaitingFor(Editor, {"import"})
    BY <1>4, <1>5, <1>9 DEF Continue
  <2>4. Editor \notin overtaken' => Editor \notin overtaken \/ ~IsImporting
    BY <2>3, WaitingMeansMine
  <2>5. AtMostOne(further) /\ DOMAIN further = {1} /\ further[1] = Request(Editor, "save", DefaultRow)
    BY OneAdded
  <2> HIDE DEF further
  <2>6. AddsWrites(further)
    BY <2>5 DEF AddsWrites, Request, Writes
  <2>7. 1 \in DOMAIN further /\ further[1].kind = "save" /\ further[1].value = table'[Editor]
    BY <2>3, <2>5 DEF Request
  <2>8. Answered(i, old, further)
    BY <1>3, <2>2
  <2> QED BY <1>3, <1>9, <2>3, <2>4, <2>5, <2>6, <2>7, <2>8, RemoveKeeps
<1> QED BY <1>6, <1>7, <1>8, <1>9 DEF LedgerKinds

LEMMA LedgerDatabase ==
  ASSUME LedgerInv, requests \in Seq(Queued), requests' \in Seq(Queued), NEW i \in DOMAIN requests, Database(i)
  PROVE  LedgerInv'
<1>1. CASE Open(i)
  BY <1>1, LedgerOpen
<1>2. ASSUME NEW ok \in BOOLEAN, Refuse(i) \/ Execute(i, ok) PROVE LedgerInv'
  <2>1. QueueInv' /\ PageInv'
    BY <1>2, AnswerMoves, OthersAnswered, EditorAnswered
  <2>2. table' = [page \in Pages |-> table'[page]] /\ edited' = edited
    <3>1. CASE requests[i].kind \notin LedgerKinds
      BY <1>2, <3>1 DEF Refuse, Execute, Settle, ledgerVars, LedgerInv
    <3>2. CASE requests[i].kind \in LedgerKinds
      <4>1. PICK done : Continue(requests[i], done)
        BY <1>2, <3>2 DEF Refuse, Execute, Settle
      <4>2. table' = table \/ \E rows : table' = [table EXCEPT ![requests[i].page] = rows]
        BY <4>1 DEF Continue
      <4>3. edited' = edited
        BY <4>1 DEF Continue
      <4> QED BY <4>2, <4>3 DEF LedgerInv
    <3> QED BY <3>1, <3>2
  <2> QED BY <2>1, <2>2 DEF LedgerInv
<1> QED BY <1>1, <1>2 DEF Database

LEMMA LedgerInit == Init => LedgerInv
<1> SUFFICES ASSUME Init PROVE LedgerInv
  OBVIOUS
<1>1. DOMAIN requests = {} /\ version = 0 /\ table = [page \in Pages |-> Nothing] /\ restoring = {} /\ edited = {}
  BY DEF Init
<1>2. QueueInv
  BY <1>1 DEF QueueInv
<1>3. PageInv
  BY <1>1 DEF PageInv, RestoreInv, EditInv, Writing
<1> QED BY <1>1, <1>2, <1>3 DEF LedgerInv

BrowserInv == CacheInv /\ LedgerInv

LEMMA BrowserNext == BrowserInv /\ [Next]_vars => BrowserInv'
<1> SUFFICES ASSUME BrowserInv, [Next]_vars PROVE BrowserInv'
  OBVIOUS
<1>1. CacheInv' /\ CacheInv /\ LedgerInv /\ requests \in Seq(Queued)
  BY CacheNext DEF BrowserInv, CacheInv
<1>2. ASSUME UNCHANGED <<replaced, hour>> PROVE requests' \in Seq(Queued)
  <2>1. Queued' = Queued
    BY <1>1, <1>2, QueuedStays
  <2>2. requests' \in Seq(Queued')
    BY <1>1 DEF CacheInv
  <2> QED BY <2>1, <2>2
<1>3. ASSUME NEW page \in Pages, Visit(page) \/ Leave(page) PROVE LedgerInv'
  <2>1. requests' \in Seq(Queued)
    BY <1>2, <1>3 DEF Visit, Leave, ForgetLoaders, loaderVars
  <2> QED BY <1>1, <1>3, <2>1, LedgerVisit, LedgerLeave
<1>4. ASSUME NEW loader \in Loaders, Load(loader) \/ Network(loader) PROVE LedgerInv'
  <2>1. requests' \in Seq(Queued)
    BY <1>2, <1>4 DEF Load, LoadManifest, LoadInputs, Network, FetchManifest, Join, FetchPack
  <2> QED BY <1>1, <1>4, <2>1, LedgerLoad
<1>5. ASSUME Act PROVE LedgerInv'
  <2>1. requests' \in Seq(Queued)
    BY <1>2, <1>5 DEF Act, loaderVars
  <2> QED BY <1>1, <1>5, <2>1, LedgerAct
<1>6. ASSUME NEW i \in DOMAIN requests, Database(i) PROVE LedgerInv'
  <2>1. UNCHANGED <<replaced, hour>>
    BY <1>6 DEF Database, Open, Refuse, Execute, Settle, ContinueManifest, loaderVars
  <2>2. requests' \in Seq(Queued)
    BY <1>2, <2>1
  <2> QED BY <1>1, <1>6, <2>2, LedgerDatabase
<1>7. ASSUME Publish \/ UNCHANGED vars PROVE LedgerInv'
  <2>1. UNCHANGED <<dbVars, ledgerVars, visiting>>
    BY <1>7 DEF Publish, vars
  <2> QED BY <1>1, <2>1, LedgerStays
<1>8. LedgerInv'
  BY <1>3, <1>4, <1>5, <1>6, <1>7 DEF Next
<1> QED BY <1>1, <1>8 DEF BrowserInv

(* In every execution the table on show is the ledger that is stored, or   *)
(* the way it is shown, once the writes are through and the last one       *)
(* succeeded (app.js:1504-1552, ledger-store.js): for every order of       *)
(* edits, clears, imports and the restore of the start, with blocked and   *)
(* failing requests and tabs that are closed and opened again.  Not        *)
(* claimed while an answer asked for earlier may overwrite the last edit,  *)
(* or a clear the last import (`overtaken').                               *)
THEOREM WhatIsShownIsSaved == Spec => []ShownIsSaved
<1>1. BrowserInv => ShownIsSaved
  <2> SUFFICES ASSUME BrowserInv, NEW page \in edited,
                      page \notin restoring \cup overtaken \cup unsaved, table[page] \notin Incomplete,
                      ~IsWaitingFor(page, {"save", "remove", "import"})
               PROVE  table[page] \in {record, Shown(record)}
    BY DEF ShownIsSaved
  <2>1. page = Editor
    BY DEF BrowserInv, LedgerInv
  <2>2. TableInv
    BY <2>1 DEF BrowserInv, LedgerInv, PageInv, EditInv
  <2>3. ~Writing
    BY <2>1 DEF Writing, IsWaitingFor, Mine, Writes
  <2> QED BY <2>1, <2>2, <2>3 DEF TableInv, Stored
<1>2. Init => BrowserInv
  BY CacheInit, LedgerInit DEF BrowserInv
<1> QED BY <1>1, <1>2, BrowserNext, PTL DEF Spec

===============================================================================
