------------------------------ MODULE WorkerHost ------------------------------
(***************************************************************************)
(* frontend/engine/worker.js, createEngineHost: the worker thread.         *)
(*                                                                         *)
(* The thread is an event loop over two task sources, the messages posted  *)
(* by the client and its own setTimeout timers, which it may serve in any  *)
(* relative order.  The timers all have the same delay, so they fire in    *)
(* the order they were set.  A calculation is synchronous: while an entry  *)
(* is "computing" the thread serves nothing else.                          *)
(***************************************************************************)
EXTENDS EngineProtocol, Sequences

VARIABLES
  inbox,        (* postMessage queue, client to worker                     *)
  outbox,       (* postMessage queue, worker to client                     *)
  active,       (* Map id -> entry.state ("absent": no entry)              *)
  timers,       (* ids of the setTimeout(run) callbacks not yet fired      *)
  cancelledIds  (* Set of the ids flagged by a cancel                      *)

hostVars == <<inbox, outbox, active, timers, cancelledIds>>

EntryStates == {"absent", "queued", "computing"}

HostTypeOK ==
  /\ inbox  \in Seq(Commands)
  /\ outbox \in Seq(Replies)
  /\ active \in [Ids -> EntryStates]
  /\ timers \in Seq(Ids)
  /\ cancelledIds \in SUBSET Ids

HostInit ==
  /\ inbox  = <<>>
  /\ outbox = <<>>
  /\ active = [id \in Ids |-> "absent"]
  /\ timers = <<>>
  /\ cancelledIds = {}

ThreadIdle == \A id \in Ids : active[id] # "computing"

Post(reply) == outbox' = Append(outbox, reply)

-------------------------------------------------------------------------------

(* onmessage: the idle thread takes the next message.                      *)
TakeCommand(kind, id) ==
  /\ ThreadIdle
  /\ inbox # <<>>
  /\ Head(inbox) = Envelope(kind, id)
  /\ inbox' = Tail(inbox)

(* The entry of an accepted request, and its first progress envelope.      *)
Enqueue(id) ==
  /\ active' = [active EXCEPT ![id] = "queued"]
  /\ Post(Envelope("received", id))

(* Variant with a bug: the cancel flag is not cleared on a retry.          *)
HandleRequestKeepingFlag(id) ==
  /\ TakeCommand("request", id)
  /\ UNCHANGED cancelledIds
  /\ IF active[id] # "absent"
     THEN UNCHANGED <<active, timers, outbox>>
     ELSE Enqueue(id) /\ timers' = Append(timers, id)

(* handleRequest: a request for an id that is already active is dropped    *)
(* without an answer; a request for a cancelled id is a legitimate retry,  *)
(* so its cancel flag is cleared.  (The malformed-envelope and id-mismatch *)
(* answers need a client other than engine-client.js, which mints the id   *)
(* from the payload it posts.)                                             *)
HandleRequest(id) ==
  /\ TakeCommand("request", id)
  /\ cancelledIds' = cancelledIds \ {id}
  /\ IF active[id] # "absent"
     THEN UNCHANGED <<active, timers, outbox>>
     ELSE Enqueue(id) /\ timers' = Append(timers, id)

(* Variant with a bug: the cancel is not confirmed.                        *)
HandleCancelSilently(id) ==
  /\ TakeCommand("cancel", id)
  /\ UNCHANGED <<timers, outbox>>
  /\ IF active[id] = "absent"
     THEN UNCHANGED <<active, cancelledIds>>
     ELSE /\ cancelledIds' = cancelledIds \union {id}
          /\ active' = [active EXCEPT ![id] = "absent"]

(* handleCancel: only an active request can be cancelled.  The timer of a  *)
(* cancelled request stays set.                                            *)
HandleCancel(id) ==
  /\ TakeCommand("cancel", id)
  /\ UNCHANGED timers
  /\ IF active[id] = "absent"
     THEN UNCHANGED <<active, cancelledIds, outbox>>
     ELSE /\ cancelledIds' = cancelledIds \union {id}
          /\ active' = [active EXCEPT ![id] = "absent"]
          /\ Post(Envelope("cancelled", id))

(* run, up to the call of the engine: the timer of a request that was      *)
(* cancelled, or already run by an earlier timer of the same id, finds no  *)
(* queued entry and does nothing.                                          *)
RunStart(id) ==
  /\ ThreadIdle
  /\ timers # <<>>
  /\ Head(timers) = id
  /\ timers' = Tail(timers)
  /\ UNCHANGED <<inbox, cancelledIds>>
  /\ IF active[id] # "queued"
     THEN UNCHANGED <<active, outbox>>
     ELSE IF id \in cancelledIds
     THEN /\ active' = [active EXCEPT ![id] = "absent"]
          /\ Post(Envelope("cancelled", id))
     ELSE /\ active' = [active EXCEPT ![id] = "computing"]
          /\ Post(Envelope("computing", id))

(* Variant with a bug: the exception of the engine escapes the host.       *)
RunEndUncaught(id) ==
  /\ active[id] = "computing"
  /\ active' = [active EXCEPT ![id] = "absent"]
  /\ IF id \in Throwing
     THEN UNCHANGED outbox
     ELSE Post(Envelope(IF id \in cancelledIds THEN "cancelled" ELSE "result", id))
  /\ UNCHANGED <<inbox, timers, cancelledIds>>

(* run, from the return of the engine: the answer.                         *)
RunEnd(id) ==
  /\ active[id] = "computing"
  /\ active' = [active EXCEPT ![id] = "absent"]
  /\ outbox' = IF id \in cancelledIds
               THEN Append(outbox, Envelope("cancelled", id))
               ELSE IF id \in Throwing
               THEN Append(outbox, Envelope("failure", id))
               ELSE Append(Append(outbox, Envelope("complete", id)),
                           Envelope("result", id))
  /\ UNCHANGED <<inbox, timers, cancelledIds>>

HostNext ==
  \E id \in Ids : \/ HandleRequest(id)
                  \/ HandleCancel(id)
                  \/ RunStart(id)
                  \/ RunEnd(id)

===============================================================================
