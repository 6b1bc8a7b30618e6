--------------------------- MODULE BrowserDatabase ---------------------------
(***************************************************************************)
(* The IndexedDB database that the pack loader and the ledger share        *)
(* (frontend/engine/pack-loader.js and frontend/ledger-store.js): requests *)
(* to open it are granted in order; one that raises the version waits for  *)
(* the open connections and its caller is told at once that it is blocked. *)
(* The loader opens whatever version there is, the ledger version 2.       *)
(***************************************************************************)
EXTENDS Integers, Sequences, SequencesExt

CONSTANTS Pages  (* the tabs of the browser                                *)

LedgerKinds   == {"load", "save", "remove", "import"}
ManifestKinds == {"manifestRead", "manifestWrite"}

VARIABLES
  version,   (* of the database; 0 before it exists                        *)
  stores,    (* its object stores                                          *)
  requests,  (* the operations in progress, in the order of their requests *)
  leaked     (* the tabs that keep a connection nobody will close          *)

dbVars == <<version, stores, requests, leaked>>

Request(page, kind, value) == [page |-> page, kind |-> kind, value |-> value, state |-> "asked"]

StoreOf(kind) == IF kind \in LedgerKinds THEN "ledger" ELSE "meta"
Version(kind) == IF kind \in LedgerKinds THEN 2 ELSE IF version = 0 THEN 1 ELSE version
Created(kind) == IF kind \in LedgerKinds THEN {"ledger"} ELSE {"packs", "meta"}

InUse == leaked # {} \/ \E i \in DOMAIN requests : requests[i].state = "open"

IsNext(i) ==
  /\ requests[i].state # "open"
  /\ \A j \in 1 .. (i - 1) : requests[j].state = "open"

(* open(): the upgrade creates the stores of the module that asked.  A     *)
(* connection granted after its caller gave up is never closed.            *)
Grant(i) ==
  LET kind == requests[i].kind
  IN  /\ IsNext(i) /\ (Version(kind) <= version \/ ~InUse)
      /\ IF Version(kind) <= version THEN UNCHANGED <<version, stores>>
         ELSE version' = Version(kind) /\ stores' = stores \cup Created(kind)
      /\ IF requests[i].state = "blocked"
         THEN requests' = RemoveAt(requests, i) /\ leaked' = leaked \cup {requests[i].page}
         ELSE requests' = [requests EXCEPT ![i].state = "open"] /\ UNCHANGED leaked

(* onblocked: the caller's promise is rejected, the request stays.         *)
IsBlocked(i) ==
  IsNext(i) /\ requests[i].state = "asked" /\ version < Version(requests[i].kind) /\ InUse

(* onerror: the upgrade fails.  (For its caller, a connection that fails   *)
(* without one is as good as a transaction that aborts.)                   *)
MayFail(i) ==
  IsNext(i) /\ requests[i].state = "asked" /\ version < Version(requests[i].kind) /\ ~InUse

(* Transactions on one store are executed in the order of their            *)
(* connections.                                                            *)
MayExecute(i) ==
  /\ requests[i].state = "open"
  /\ \A j \in 1 .. (i - 1) : StoreOf(requests[j].kind) = StoreOf(requests[i].kind) => requests[j].state # "open"

(* The requests once request i is blocked, or settled and its connection   *)
(* closed; what its caller asks next is appended.                          *)
AfterBlocked(i, further) == requests' = [requests EXCEPT ![i].state = "blocked"] \o further
AfterSettled(i, further) == requests' = RemoveAt(requests, i) \o further

(* A closed tab takes its requests and connections with it; the requests   *)
(* of the others keep their order.                                         *)
Kept(page) == {i \in DOMAIN requests : requests[i].page # page}
InOrder(S) == {at \in [1 .. Cardinality(S) -> S] : \A j, k \in DOMAIN at : j < k => at[j] < at[k]}

Abandon(page) ==
  /\ \E at \in InOrder(Kept(page)) : requests' = [j \in DOMAIN at |-> requests[at[j]]]
  /\ leaked' = leaked \ {page}
  /\ UNCHANGED <<version, stores>>

===============================================================================
