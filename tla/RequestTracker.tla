---------------------------- MODULE RequestTracker ----------------------------
(***************************************************************************)
(* frontend/engine/protocol.js, createRequestTracker: what each method of  *)
(* the tracker makes of its map `records`, as operators on that map.       *)
(* A record is abstracted to its state ("absent": no record).              *)
(***************************************************************************)
EXTENDS EngineProtocol

ActiveStates   == {"pending", "running"}
TerminalStates == {"cancelled", "superseded", "succeeded", "failed"}
RecordStates   == {"absent"} \union ActiveStates \union TerminalStates

IsActive(records, id) == records[id] \in ActiveStates

(* Variant with a bug: an ended record is kept, too.                       *)
TrackOnce(records, id) ==
  IF records[id] # "absent" THEN records ELSE [records EXCEPT ![id] = "pending"]

(* track(id, scope): an active record is kept, anything else starts afresh. *)
Track(records, id) ==
  IF IsActive(records, id) THEN records ELSE [records EXCEPT ![id] = "pending"]

(* The state that an envelope of this kind gives an active record.         *)
StateAfter(state, kind) ==
  CASE kind = "computing" /\ state = "pending" -> "running"
    [] kind = "result"    -> "succeeded"
    [] kind = "failure"   -> "failed"
    [] kind = "cancelled" -> "cancelled"
    [] OTHER              -> state

(* observe(envelope): only an active record is ever changed by an envelope. *)
Observe(records, reply) ==
  IF IsActive(records, reply.id)
  THEN [records EXCEPT ![reply.id] = StateAfter(@, reply.kind)]
  ELSE records

(* markCancelled, for every id of a set.                                   *)
MarkCancelled(records, ids) ==
  [id \in Ids |-> IF id \in ids /\ IsActive(records, id) THEN "cancelled"
                                                         ELSE records[id]]

(* Variant with a bug: ended records are superseded, too.                  *)
SupersedeAll(records, scope, keep) ==
  [id \in Ids |-> IF ScopeOf[id] = scope /\ id # keep /\ records[id] # "absent"
                  THEN "superseded"
                  ELSE records[id]]

(* supersedeScope(scope, keepId)                                           *)
SupersedeScope(records, scope, keep) ==
  [id \in Ids |-> IF ScopeOf[id] = scope /\ id # keep /\ IsActive(records, id)
                  THEN "superseded"
                  ELSE records[id]]

===============================================================================
