---------------------------- MODULE EngineProtocol ----------------------------
(***************************************************************************)
(* The envelopes that frontend/engine/engine-client.js (main thread) and   *)
(* frontend/engine/worker.js (worker thread) exchange, and the vocabulary  *)
(* of frontend/engine/protocol.js.                                         *)
(*                                                                         *)
(* A request id is requestKey(scope, payload): it is derived from the      *)
(* content, so asking the same thing twice reuses the id.  An id therefore *)
(* stands for its (scope, payload) pair, and ScopeOf gives its scope.      *)
(***************************************************************************)
CONSTANTS
  Ids,        (* the (scope, payload) pairs the panels ask for             *)
  ScopeOf,    (* the scope of every id: "analyze", "dca" or "portfolio"    *)
  Throwing    (* the ids whose calculation throws a typed engine error     *)

ASSUME EngineProtocolAssumption == Throwing \subseteq Ids

ProgressStages == {"received", "computing", "complete"}
(* The envelopes that end a request: result ok, result not ok, cancelled.  *)
TerminalKinds  == {"result", "failure", "cancelled"}

Commands == [kind: {"request", "cancel"}, id: Ids]
Replies  == [kind: ProgressStages \union TerminalKinds, id: Ids]

Envelope(kind, id) == [kind |-> kind, id |-> id]

(* Some element of the queue q is m.                                       *)
Queued(q, m) == \E i \in DOMAIN q : q[i] = m

===============================================================================
