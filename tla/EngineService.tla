---------------------------- MODULE EngineService -----------------------------
(***************************************************************************)
(* What frontend/engine/engine-client.js promises to the panels of app.js, *)
(* without the worker, its queues and its timers: one slot per request id. *)
(*                                                                         *)
(* A request fills the slot of its id with a new promise and displaces the *)
(* promise that was there.  The slot is emptied by an answer, by the       *)
(* cancelled reply of a cancel asked for that id (now or earlier), by an   *)
(* error of the worker or by its termination.  Under the fairness below a  *)
(* full slot is always emptied.                                            *)
(***************************************************************************)
EXTENDS Naturals

CONSTANTS
  Ids,          (* request ids                                             *)
  NoId,         (* owner of a promise that was not issued                  *)
  MaxPromises   (* bound on the requests of a behaviour                    *)

Promises  == 1 .. MaxPromises
NoPromise == 0

VARIABLES
  issued,   (* number of requests made so far                              *)
  owner,    (* the id each promise was issued for                          *)
  outcome,  (* how each promise ended                                      *)
  slot,     (* the promise an answer to this id will settle                *)
  asked     (* ids for which a cancel was asked                            *)

vars == <<issued, owner, outcome, slot, asked>>

Init ==
  /\ issued  = 0
  /\ owner   = [p \in Promises |-> NoId]
  /\ outcome = [p \in Promises |-> "unissued"]
  /\ slot    = [id \in Ids |-> NoPromise]
  /\ asked   = {}

Place(id) ==
  /\ issued < MaxPromises
  /\ issued'  = issued + 1
  /\ owner'   = [owner EXCEPT ![issued + 1] = id]
  /\ outcome' = [outcome EXCEPT ![issued + 1] = "waiting"]
  /\ slot'    = [slot EXCEPT ![id] = issued + 1]

Ask(id) == Place(id) /\ UNCHANGED asked

Settle(id, how) ==
  /\ slot[id] # NoPromise
  /\ outcome' = [outcome EXCEPT ![slot[id]] = how]
  /\ slot'    = [slot EXCEPT ![id] = NoPromise]
  /\ UNCHANGED <<issued, owner, asked>>

Answer(id) == \E how \in {"resolved", "rejected"} : Settle(id, how)

AskCancel(id) ==
  /\ asked' = asked \union {id}
  /\ UNCHANGED <<issued, owner, outcome, slot>>

Withdraw(id) == id \in asked /\ Settle(id, "cancelled")

(* Every promise in a slot is rejected at once.                            *)
EmptyAll(how) ==
  /\ slot' = [id \in Ids |-> NoPromise]
  /\ outcome' = [p \in Promises |-> IF \E id \in Ids : slot[id] = p THEN how
                                                                   ELSE outcome[p]]
  /\ UNCHANGED <<issued, owner, asked>>

Next ==
  \/ \E id \in Ids : Ask(id) \/ Answer(id) \/ AskCancel(id) \/ Withdraw(id)
  \/ EmptyAll("errored")
  \/ EmptyAll("terminated")

Spec == Init /\ [][Next]_vars

(* The worker answers every slot that stays full.                          *)
FairSpec == Spec /\ \A id \in Ids : WF_vars(Answer(id) \/ Withdraw(id))

===============================================================================
