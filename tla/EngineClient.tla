----------------------------- MODULE EngineClient -----------------------------
(***************************************************************************)
(* frontend/engine/engine-client.js, createEngineClient, composed with the *)
(* worker thread it owns (WorkerHost) and the request tracker it feeds     *)
(* (RequestTracker).  One action per exported operation, per callback of   *)
(* the Worker object and per task of the worker thread.                    *)
(*                                                                         *)
(* A call of request() returns a promise; promises are numbered in the     *)
(* order of the calls.  The main thread runs each operation to completion. *)
(***************************************************************************)
EXTENDS WorkerHost, RequestTracker, Naturals

CONSTANTS
  NoId,           (* owner of a promise not yet issued                     *)
  MaxPromises,    (* bound: requests made in a behaviour                   *)
  MaxInbox,       (* bound: cancel() is not called with more queued        *)
  MayFailToLoad   (* may the worker script fail to load?                   *)

ASSUME EngineClientAssumption ==
  /\ NoId \notin Ids
  /\ MaxPromises \in Nat
  /\ MaxInbox \in Nat
  /\ MayFailToLoad \in BOOLEAN

VARIABLES
  worker,    (* the Worker object: "none"; "up"; "failing": its script did *)
             (* not load and the error event is due; "dead": the event was *)
             (* delivered and the object is still in use                   *)
  records,   (* tracker: Map id -> record, see RequestTracker              *)
  pending,   (* Map id -> the promise to settle (NoPromise: no entry)      *)
  issued,    (* number of promises returned so far                         *)
  owner,     (* the id each promise was returned for                       *)
  outcome,   (* what became of each promise                                *)
  asked,     (* history: ids for which cancel() posted a cancel            *)
  withdrawn  (* history: promises that were pending under such a cancel    *)

clientVars == <<worker, records, pending, issued, owner, outcome, asked, withdrawn>>
vars       == <<hostVars, clientVars>>

Promises  == 1 .. MaxPromises
NoPromise == 0
Outcomes  == {"unissued", "waiting", "resolved", "rejected", "cancelled",
              "errored", "terminated"}

TypeOK ==
  /\ HostTypeOK
  /\ worker  \in {"none", "up", "failing", "dead"}
  /\ records \in [Ids -> RecordStates]
  /\ pending \in [Ids -> Promises \union {NoPromise}]
  /\ issued  \in 0 .. MaxPromises
  /\ owner   \in [Promises -> Ids \union {NoId}]
  /\ outcome \in [Promises -> Outcomes]
  /\ asked   \in SUBSET Ids
  /\ withdrawn \in SUBSET Promises

Init ==
  /\ HostInit
  /\ worker  = "none"
  /\ records = [id \in Ids |-> "absent"]
  /\ pending = [id \in Ids |-> NoPromise]
  /\ issued  = 0
  /\ owner   = [p \in Promises |-> NoId]
  /\ outcome = [p \in Promises |-> "unissued"]
  /\ asked   = {}
  /\ withdrawn = {}

-------------------------------------------------------------------------------
(* Operations of the client                                                *)

(* ensureWorker: the Worker object is created once and never replaced on   *)
(* an error.                                                               *)
EnsureWorker ==
  IF worker # "none" THEN worker' = worker
  ELSE \/ worker' = "up"
       \/ MayFailToLoad /\ worker' = "failing"

(* worker.postMessage: nothing reads what is posted to a worker whose      *)
(* script did not load.                                                    *)
PostToWorker(command) ==
  IF worker' = "up" THEN inbox' = Append(inbox, command) ELSE UNCHANGED inbox

(* request(scope, payload): nextId tracks the id, and the new promise takes *)
(* the place of one that is still pending under the same id.               *)
Request(id) ==
  /\ issued < MaxPromises
  /\ EnsureWorker
  /\ records' = Track(records, id)
  /\ issued'  = issued + 1
  /\ owner'   = [owner EXCEPT ![issued + 1] = id]
  /\ outcome' = [outcome EXCEPT ![issued + 1] = "waiting"]
  /\ pending' = [pending EXCEPT ![id] = issued + 1]
  /\ PostToWorker(Envelope("request", id))
  /\ UNCHANGED <<outbox, active, timers, cancelledIds, asked, withdrawn>>

(* cancel(id): posts a cancel and changes nothing else.                    *)
CancelRequest(id) ==
  /\ worker # "none"
  /\ Len(inbox) < MaxInbox
  /\ UNCHANGED worker
  /\ PostToWorker(Envelope("cancel", id))
  /\ asked' = asked \union {id}
  /\ withdrawn' = withdrawn \union ({pending[id]} \ {NoPromise})
  /\ UNCHANGED <<outbox, active, timers, cancelledIds, records, pending,
                 issued, owner, outcome>>

(* supersede(scope, keepId), called with the id of a request just made.    *)
Supersede(keep) ==
  /\ records[keep] # "absent"
  /\ records' = SupersedeScope(records, ScopeOf[keep], keep)
  /\ UNCHANGED <<hostVars, worker, pending, issued, owner, outcome, asked, withdrawn>>

(* Variant with a bug: the entry is left in the map.                       *)
SettleKeepingEntry(id, how) ==
  /\ outcome' = [outcome EXCEPT ![pending[id]] = how]
  /\ UNCHANGED pending

(* The promise pending under id is settled and its entry deleted.          *)
SettlePending(id, how) ==
  /\ outcome' = [outcome EXCEPT ![pending[id]] = how]
  /\ pending' = [pending EXCEPT ![id] = NoPromise]

(* deliver(envelope), the onmessage callback: the tracker observes the     *)
(* envelope, and its verdict is not used.                                  *)
OutcomeOf(kind) ==
  CASE kind = "result"    -> "resolved"
    [] kind = "failure"   -> "rejected"
    [] kind = "cancelled" -> "cancelled"

Deliver(id) ==
  /\ outbox # <<>>
  /\ Head(outbox).id = id
  /\ outbox' = Tail(outbox)
  /\ records' = Observe(records, Head(outbox))
  /\ IF pending[id] # NoPromise /\ Head(outbox).kind \in TerminalKinds
     THEN SettlePending(id, OutcomeOf(Head(outbox).kind))
     ELSE UNCHANGED <<pending, outcome>>
  /\ UNCHANGED <<inbox, active, timers, cancelledIds, worker, issued, owner,
                 asked, withdrawn>>

(* Every entry of the pending map is rejected and the map emptied.         *)
PendingIds == {id \in Ids : pending[id] # NoPromise}

(* Variant with a bug: the map is emptied and its promises are forgotten.  *)
ForgetAllPending(how) ==
  /\ pending' = [id \in Ids |-> NoPromise]
  /\ UNCHANGED outcome

RejectAllPending(how) ==
  /\ outcome' = [p \in Promises |-> IF \E id \in PendingIds : pending[id] = p
                                    THEN how ELSE outcome[p]]
  /\ pending' = [id \in Ids |-> NoPromise]

(* worker.onerror: the tracker is not told and the worker is kept.  (The   *)
(* event would also come of an exception that escapes a task of a running  *)
(* worker; run() and the calculations catch theirs, and what is outside    *)
(* the try handles plain JSON values only.)                                *)
WorkerError ==
  /\ worker = "failing"
  /\ worker' = "dead"
  /\ RejectAllPending("errored")
  /\ UNCHANGED <<hostVars, records, issued, owner, asked, withdrawn>>

(* forceTerminate: terminating the worker discards its state and whatever  *)
(* is queued in either direction; the next request starts a new one.       *)
ForceTerminate ==
  /\ worker # "none"
  /\ worker' = "none"
  /\ records' = MarkCancelled(records, PendingIds)
  /\ RejectAllPending("terminated")
  /\ inbox'  = <<>>
  /\ outbox' = <<>>
  /\ active' = [id \in Ids |-> "absent"]
  /\ timers' = <<>>
  /\ cancelledIds' = {}
  /\ UNCHANGED <<issued, owner, asked, withdrawn>>

-------------------------------------------------------------------------------

HostStep == HostNext /\ UNCHANGED clientVars

Next ==
  \/ \E id \in Ids : \/ Request(id)
                     \/ CancelRequest(id)
                     \/ Supersede(id)
                     \/ Deliver(id)
  \/ WorkerError
  \/ ForceTerminate
  \/ HostStep

Spec == Init /\ [][Next]_vars

(* The event loops of the two threads serve every task queued on them: the *)
(* messages in either direction, the timers, the error event; and a        *)
(* calculation ends.  Nothing makes a panel call an operation.             *)
ReadInbox == \E id \in Ids : HandleRequest(id) \/ HandleCancel(id)
FireTimer == \E id \in Ids : RunStart(id)
Calculate == \E id \in Ids : RunEnd(id)
Receive   == \E id \in Ids : Deliver(id)

Fairness ==
  /\ WF_vars(ReadInbox /\ UNCHANGED clientVars)
  /\ WF_vars(FireTimer /\ UNCHANGED clientVars)
  /\ WF_vars(Calculate /\ UNCHANGED clientVars)
  /\ WF_vars(Receive)
  /\ WF_vars(WorkerError)

FairSpec == Spec /\ Fairness

-------------------------------------------------------------------------------
(* Properties                                                              *)

(* The entry of an id in the pending map is a promise returned for that    *)
(* id and not settled: deliver, onerror and forceTerminate never settle a  *)
(* promise twice nor settle it with the answer to another request.         *)
PendingIsWaiting ==
  \A id \in Ids : pending[id] # NoPromise =>
    /\ pending[id] <= issued
    /\ owner[pending[id]] = id
    /\ outcome[pending[id]] = "waiting"

(* No request is lost between the threads: while the worker lives, every   *)
(* pending id has its request in the inbox, an entry in the host's active  *)
(* map, or a terminal reply on its way back.  It is what makes dropping a  *)
(* duplicate request and deleting an entry on cancel safe.                 *)
ReplyOwed ==
  worker = "up" =>
    \A id \in Ids : pending[id] # NoPromise =>
      \/ Queued(inbox, Envelope("request", id))
      \/ active[id] # "absent"
      \/ \E kind \in TerminalKinds : Queued(outbox, Envelope(kind, id))

(* The tracker and the pending map agree: an id that still awaits an       *)
(* answer has a record that is active or superseded, never one that was    *)
(* already answered, failed or cancelled.                                  *)
PendingIsTracked ==
  \A id \in Ids : pending[id] # NoPromise =>
    records[id] \in ActiveStates \union {"superseded"}

(* Cancel-poison regression: a request the host works on is never flagged  *)
(* as cancelled, so a retry of a cancelled request is really calculated.   *)
CancelNeverPoisons == \A id \in Ids : active[id] # "absent" => id \notin cancelledIds

(* A queued entry has a timer that will run it, although the timers of     *)
(* cancelled requests stay set and may run the entry of a later retry.     *)
QueuedHasTimer == \A id \in Ids : active[id] = "queued" => Queued(timers, id)

(* A cancelled reply exists only for an id somebody asked to cancel.       *)
CancelledWasAsked ==
  \A id \in Ids : \/ Queued(outbox, Envelope("cancelled", id))
                  \/ Queued(inbox, Envelope("cancel", id))
                  \/ id \in cancelledIds
                  => id \in asked

(* Requests are delivered in order: an id leaves a terminal record only by *)
(* a new request for it, which starts a fresh attempt.                     *)
TerminalRecordsAreFinal ==
  [][\A id \in Ids : records[id] \in TerminalStates /\ records'[id] # records[id]
                       => records'[id] = "pending" /\ pending'[id] = issued']_vars

(* A pending request is always answered, whatever the other requests,      *)
(* cancels and terminations do.                                            *)
PendingIsAnswered ==
  \A id \in Ids : (pending[id] # NoPromise) ~> (pending[id] = NoPromise)

(* The client, worker and tracker implement one slot per request id.       *)
Service == INSTANCE EngineService WITH slot <- pending
ServiceSafety   == Service!Spec
ImplementsService == Service!FairSpec

-------------------------------------------------------------------------------
(* What the comments and documents claim, and the code does not do         *)

(* worker.js:246-247: "a fresh request for a previously cancelled id is a  *)
(* legitimate retry" - a request made after the cancel is not rejected as  *)
(* cancelled.                                                              *)
RetryIsNotCancelled ==
  \A p \in Promises : outcome[p] = "cancelled" => p \in withdrawn

===============================================================================
