-------------------------- MODULE EngineClientProofs --------------------------
(***************************************************************************)
(* Proofs about EngineClient, for every set of ids and every bound.        *)
(***************************************************************************)
EXTENDS EngineClient, TLAPS

(* A worker that does not exist owes no answer: the step that creates one  *)
(* starts with an empty pending map.                                       *)
NoWorkerNoPending == worker = "none" => \A id \in Ids : pending[id] = NoPromise

(* The inductive invariant.                                                *)
IInv ==
  /\ TypeOK
  /\ NoWorkerNoPending
  /\ PendingIsWaiting
  /\ ReplyOwed
  /\ PendingIsTracked
  /\ CancelNeverPoisons
  /\ QueuedHasTimer
  /\ CancelledWasAsked

-------------------------------------------------------------------------------
(* What the operations on the queues preserve                              *)

(* Appending adds one element and loses none.                              *)
LEMMA QueuedAppend ==
  ASSUME NEW S, NEW q \in Seq(S), NEW e \in S, NEW m
  PROVE  Queued(Append(q, e), m) <=> (Queued(q, m) \/ m = e)
<1>1. /\ Len(Append(q, e)) = Len(q) + 1
      /\ Append(q, e)[Len(q) + 1] = e
      /\ \A i \in 1 .. Len(q) : Append(q, e)[i] = q[i]
  OBVIOUS
<1>2. DOMAIN q = 1 .. Len(q) /\ DOMAIN Append(q, e) = 1 .. (Len(q) + 1)
  BY <1>1
<1>3. ASSUME Queued(q, m) PROVE Queued(Append(q, e), m)
  BY <1>1, <1>2, <1>3 DEF Queued
<1>4. ASSUME m = e PROVE Queued(Append(q, e), m)
  BY <1>1, <1>2, <1>4 DEF Queued
<1>5. ASSUME Queued(Append(q, e), m), m # e PROVE Queued(q, m)
  <2>1. PICK i \in 1 .. (Len(q) + 1) : Append(q, e)[i] = m
    BY <1>2, <1>5 DEF Queued
  <2>2. i \in 1 .. Len(q)
    BY <1>1, <1>5, <2>1
  <2> QED BY <1>1, <1>2, <2>1, <2>2 DEF Queued
<1> QED BY <1>3, <1>4, <1>5

(* Removing the head loses no other element and adds none.                 *)
LEMMA QueuedTail ==
  ASSUME NEW S, NEW q \in Seq(S), q # <<>>, NEW m
  PROVE  /\ Queued(Tail(q), m) => Queued(q, m)
         /\ Queued(q, m) /\ Head(q) # m => Queued(Tail(q), m)
<1>1. /\ Len(q) \in Nat /\ Len(q) > 0
      /\ Len(Tail(q)) = Len(q) - 1
      /\ \A i \in 1 .. (Len(q) - 1) : Tail(q)[i] = q[i + 1]
      /\ Head(q) = q[1]
      /\ Tail(q) \in Seq(S)
  OBVIOUS
<1>2. DOMAIN q = 1 .. Len(q) /\ DOMAIN Tail(q) = 1 .. (Len(q) - 1)
  BY <1>1
<1>3. ASSUME Queued(Tail(q), m) PROVE Queued(q, m)
  <2>1. PICK i \in 1 .. (Len(q) - 1) : Tail(q)[i] = m
    BY <1>2, <1>3 DEF Queued
  <2>2. i + 1 \in 1 .. Len(q) /\ q[i + 1] = m
    BY <1>1, <2>1
  <2> QED BY <1>2, <2>2 DEF Queued
<1>4. ASSUME Queued(q, m), Head(q) # m PROVE Queued(Tail(q), m)
  <2>1. PICK i \in 1 .. Len(q) : q[i] = m
    BY <1>2, <1>4 DEF Queued
  <2>2. i # 1
    BY <1>1, <1>4, <2>1
  <2>3. i - 1 \in 1 .. (Len(q) - 1) /\ Tail(q)[i - 1] = m
    BY <1>1, <2>1, <2>2
  <2> QED BY <1>2, <2>3 DEF Queued
<1> QED BY <1>3, <1>4

(* The empty queue holds nothing.                                          *)
LEMMA QueuedEmpty == ASSUME NEW m PROVE ~Queued(<<>>, m)
BY DEF Queued

-------------------------------------------------------------------------------
(* Type correctness                                                        *)

LEMMA EnvelopeType ==
  ASSUME NEW id \in Ids
  PROVE  /\ Envelope("request", id)   \in Commands
         /\ Envelope("cancel", id)    \in Commands
         /\ Envelope("received", id)  \in Replies
         /\ Envelope("computing", id) \in Replies
         /\ Envelope("complete", id)  \in Replies
         /\ Envelope("result", id)    \in Replies
         /\ Envelope("failure", id)   \in Replies
         /\ Envelope("cancelled", id) \in Replies
BY DEF Envelope, Commands, Replies, ProgressStages, TerminalKinds

LEMMA TrackerType ==
  ASSUME NEW r \in [Ids -> RecordStates], NEW id \in Ids
  PROVE  /\ Track(r, id) \in [Ids -> RecordStates]
         /\ \A reply \in Replies : Observe(r, reply) \in [Ids -> RecordStates]
         /\ \A ids \in SUBSET Ids : MarkCancelled(r, ids) \in [Ids -> RecordStates]
         /\ SupersedeScope(r, ScopeOf[id], id) \in [Ids -> RecordStates]
<1>1. Track(r, id) \in [Ids -> RecordStates]
  BY DEF Track, RecordStates, ActiveStates
<1>2. ASSUME NEW reply \in Replies PROVE Observe(r, reply) \in [Ids -> RecordStates]
  <2>1. \A s \in RecordStates : StateAfter(s, reply.kind) \in RecordStates
    BY DEF StateAfter, RecordStates, ActiveStates, TerminalStates
  <2>2. reply.id \in Ids
    BY DEF Replies
  <2> QED BY <2>1, <2>2 DEF Observe
<1>3. \A ids \in SUBSET Ids : MarkCancelled(r, ids) \in [Ids -> RecordStates]
  BY DEF MarkCancelled, RecordStates, TerminalStates
<1>4. SupersedeScope(r, ScopeOf[id], id) \in [Ids -> RecordStates]
  BY DEF SupersedeScope, RecordStates, TerminalStates
<1> QED BY <1>1, <1>2, <1>3, <1>4

LEMMA TypeInit == Init => TypeOK
BY EngineClientAssumption
DEF Init, TypeOK, HostInit, HostTypeOK, EntryStates, RecordStates, Outcomes,
    Promises, NoPromise

LEMMA PostToWorkerType ==
  ASSUME NEW command \in Commands, inbox \in Seq(Commands), PostToWorker(command)
  PROVE  inbox' \in Seq(Commands)
BY DEF PostToWorker

LEMMA PostType ==
  ASSUME NEW reply \in Replies, outbox \in Seq(Replies), Post(reply)
  PROVE  outbox' \in Seq(Replies)
BY DEF Post

LEMMA HostTypeStep ==
  ASSUME HostTypeOK, HostNext
  PROVE  HostTypeOK'
<1> SUFFICES ASSUME NEW id \in Ids,
                    HandleRequest(id) \/ HandleCancel(id) \/ RunStart(id) \/ RunEnd(id)
             PROVE  HostTypeOK'
  BY DEF HostNext
<1>1. CASE HandleRequest(id)
  <2>1. inbox' \in Seq(Commands)
    BY <1>1 DEF HandleRequest, TakeCommand, Enqueue, HostTypeOK
  <2>2. outbox' \in Seq(Replies)
    BY <1>1, EnvelopeType, PostType DEF HandleRequest, TakeCommand, Enqueue, HostTypeOK
  <2>3. active' \in [Ids -> EntryStates]
    BY <1>1 DEF HandleRequest, TakeCommand, Enqueue, HostTypeOK, EntryStates
  <2>4. timers' = timers \/ timers' = Append(timers, id)
    BY <1>1 DEF HandleRequest, TakeCommand, Enqueue
  <2>5. timers' \in Seq(Ids)
    <3>1. timers \in Seq(Ids)  BY DEF HostTypeOK
    <3> QED BY <2>4, <3>1
  <2> QED BY <1>1, <2>1, <2>2, <2>3, <2>5 DEF HandleRequest, TakeCommand, Enqueue, HostTypeOK
<1>2. CASE HandleCancel(id)
  <2>1. inbox' \in Seq(Commands)
    BY <1>2 DEF HandleCancel, TakeCommand, HostTypeOK
  <2>2. outbox' \in Seq(Replies)
    BY <1>2, EnvelopeType, PostType DEF HandleCancel, TakeCommand, HostTypeOK
  <2>3. active' \in [Ids -> EntryStates]
    BY <1>2 DEF HandleCancel, TakeCommand, HostTypeOK, EntryStates
  <2> QED BY <1>2, <2>1, <2>2, <2>3 DEF HandleCancel, TakeCommand, HostTypeOK
<1>3. CASE RunStart(id)
  <2>1. timers' \in Seq(Ids)
    BY <1>3 DEF RunStart, HostTypeOK
  <2>2. outbox' \in Seq(Replies)
    BY <1>3, EnvelopeType, PostType DEF RunStart, HostTypeOK
  <2>3. active' \in [Ids -> EntryStates]
    BY <1>3 DEF RunStart, HostTypeOK, EntryStates
  <2> QED BY <1>3, <2>1, <2>2, <2>3 DEF RunStart, HostTypeOK
<1>4. CASE RunEnd(id)
  <2>1. outbox' \in Seq(Replies)
    BY <1>4, EnvelopeType DEF RunEnd, HostTypeOK
  <2>2. active' \in [Ids -> EntryStates]
    BY <1>4 DEF RunEnd, HostTypeOK, EntryStates
  <2> QED BY <1>4, <2>1, <2>2 DEF RunEnd, HostTypeOK
<1> QED BY <1>1, <1>2, <1>3, <1>4

LEMMA TypeStep ==
  ASSUME TypeOK, [Next]_vars
  PROVE  TypeOK'
<1>1. ASSUME NEW id \in Ids, Request(id) PROVE TypeOK'
  <2>1. issued + 1 \in Promises /\ issued' \in 0 .. MaxPromises
    BY <1>1, EngineClientAssumption DEF Request, Promises, TypeOK
  <2>2. worker' \in {"none", "up", "failing", "dead"}
    BY <1>1 DEF Request, EnsureWorker, TypeOK
  <2>3. inbox' \in Seq(Commands)
    BY <1>1, EnvelopeType, PostToWorkerType DEF Request, TypeOK, HostTypeOK
  <2>4. records' \in [Ids -> RecordStates]
    BY <1>1, TrackerType DEF Request, TypeOK
  <2> QED BY <1>1, <2>1, <2>2, <2>3, <2>4 DEF Request, Outcomes, TypeOK, HostTypeOK
<1>2. ASSUME NEW id \in Ids, CancelRequest(id) PROVE TypeOK'
  <2>1. inbox' \in Seq(Commands)
    BY <1>2, EnvelopeType, PostToWorkerType DEF CancelRequest, TypeOK, HostTypeOK
  <2> QED BY <1>2, <2>1 DEF CancelRequest, TypeOK, HostTypeOK
<1>3. ASSUME NEW id \in Ids, Supersede(id) PROVE TypeOK'
  BY <1>3, TrackerType DEF Supersede, hostVars, TypeOK, HostTypeOK
<1>4. ASSUME NEW id \in Ids, Deliver(id) PROVE TypeOK'
  <2>1. Head(outbox) \in Replies /\ outbox' \in Seq(Replies)
    BY <1>4 DEF Deliver, TypeOK, HostTypeOK
  <2>2. records' \in [Ids -> RecordStates]
    BY <1>4, <2>1, TrackerType DEF Deliver, TypeOK
  <2>3. Head(outbox).kind \in TerminalKinds => OutcomeOf(Head(outbox).kind) \in Outcomes
    BY DEF TerminalKinds, OutcomeOf, Outcomes
  <2> QED BY <1>4, <2>1, <2>2, <2>3 DEF Deliver, SettlePending, TypeOK, HostTypeOK
<1>5. CASE WorkerError
  BY <1>5 DEF WorkerError, RejectAllPending, hostVars, Outcomes, TypeOK, HostTypeOK
<1>6. CASE ForceTerminate
  <2>1. records' \in [Ids -> RecordStates]
    BY <1>6 DEF ForceTerminate, MarkCancelled, RecordStates, TerminalStates, TypeOK
  <2> QED BY <1>6, <2>1 DEF ForceTerminate, RejectAllPending, Outcomes, EntryStates,
                            TypeOK, HostTypeOK
<1>7. CASE HostStep
  BY <1>7, HostTypeStep DEF HostStep, clientVars, TypeOK
<1>8. CASE UNCHANGED vars
  BY <1>8 DEF vars, hostVars, clientVars, TypeOK, HostTypeOK
<1> QED BY <1>1, <1>2, <1>3, <1>4, <1>5, <1>6, <1>7, <1>8 DEF Next

(* The types, for every set of ids, scopes and bounds.                     *)
THEOREM TypeCorrect == Spec => []TypeOK
<1>1. Init => TypeOK  BY TypeInit
<1>2. TypeOK /\ [Next]_vars => TypeOK'  BY TypeStep
<1> QED BY <1>1, <1>2, PTL DEF Spec

-------------------------------------------------------------------------------
(* The safety invariants, action by action.  Each lemma shows what one     *)
(* action does to the conjuncts of IInv it can disturb.                    *)

(* Two ids never share a pending promise.                                  *)
LEMMA PendingInjective ==
  ASSUME PendingIsWaiting, NEW a \in Ids, NEW b \in Ids,
         pending[a] # NoPromise, pending[a] = pending[b]
  PROVE  a = b
BY DEF PendingIsWaiting

LEMMA RequestStep ==
  ASSUME IInv, TypeOK', NEW id \in Ids, Request(id)
  PROVE  IInv'
<1>1. /\ issued \in Nat /\ issued + 1 \in Promises /\ NoPromise \notin Promises
      /\ inbox \in Seq(Commands)
  BY EngineClientAssumption DEF IInv, TypeOK, HostTypeOK, Request, Promises, NoPromise
<1>2. NoWorkerNoPending'
  BY DEF Request, EnsureWorker, NoWorkerNoPending, IInv, TypeOK
<1>3. PendingIsWaiting'
  <2> SUFFICES ASSUME NEW i \in Ids, pending'[i] # NoPromise
               PROVE  /\ pending'[i] <= issued'
                      /\ owner'[pending'[i]] = i
                      /\ outcome'[pending'[i]] = "waiting"
    BY DEF PendingIsWaiting
  <2>1. CASE i = id
    BY <1>1, <2>1 DEF Request, IInv, TypeOK, NoPromise
  <2>2. CASE i # id
    <3>1. pending'[i] = pending[i] /\ pending[i] \in Promises
      BY <2>2 DEF Request, IInv, TypeOK
    <3>2. pending[i] <= issued /\ owner[pending[i]] = i /\ outcome[pending[i]] = "waiting"
      BY <3>1 DEF IInv, PendingIsWaiting
    <3> QED BY <1>1, <3>1, <3>2 DEF Request, IInv, TypeOK, Promises
  <2> QED BY <2>1, <2>2
<1>4. ReplyOwed'
  <2> SUFFICES ASSUME worker' = "up", NEW i \in Ids, pending'[i] # NoPromise
               PROVE  \/ Queued(inbox', Envelope("request", i))
                      \/ active'[i] # "absent"
                      \/ \E kind \in TerminalKinds : Queued(outbox', Envelope(kind, i))
    BY DEF ReplyOwed
  <2>0. inbox' = Append(inbox, Envelope("request", id))
    BY DEF Request, PostToWorker
  <2>1. \A m : Queued(inbox', m) <=> Queued(inbox, m) \/ m = Envelope("request", id)
    BY <1>1, <2>0, QueuedAppend, EnvelopeType
  <2>2. CASE i = id
    BY <2>1, <2>2
  <2>3. CASE i # id
    <3>1. pending[i] # NoPromise
      BY <2>3 DEF Request, IInv, TypeOK
    <3>2. worker = "up"
      BY <3>1 DEF Request, EnsureWorker, IInv, NoWorkerNoPending, TypeOK
    <3> QED BY <2>1, <3>1, <3>2 DEF ReplyOwed, IInv, Request
  <2> QED BY <2>2, <2>3
<1>5. PendingIsTracked'
  BY DEF Request, Track, IsActive, PendingIsTracked, ActiveStates, IInv, TypeOK
<1>6. CancelNeverPoisons' /\ QueuedHasTimer'
  BY DEF Request, CancelNeverPoisons, QueuedHasTimer, IInv
<1>7. CancelledWasAsked'
  <2>1. ASSUME NEW i \in Ids, Queued(inbox', Envelope("cancel", i))
        PROVE  Queued(inbox, Envelope("cancel", i))
    <3>1. Envelope("cancel", i) # Envelope("request", id)
      BY DEF Envelope
    <3>2. inbox' = inbox \/ inbox' = Append(inbox, Envelope("request", id))
      BY DEF Request, PostToWorker
    <3>3. Envelope("request", id) \in Commands
      BY EnvelopeType
    <3>4. \A m : Queued(Append(inbox, Envelope("request", id)), m)
                   <=> Queued(inbox, m) \/ m = Envelope("request", id)
      BY <1>1, <3>3, QueuedAppend
    <3> QED BY <2>1, <3>1, <3>2, <3>4
  <2> QED BY <2>1 DEF Request, CancelledWasAsked, IInv
<1> QED BY <1>2, <1>3, <1>4, <1>5, <1>6, <1>7 DEF IInv

LEMMA CancelStep ==
  ASSUME IInv, TypeOK', NEW id \in Ids, CancelRequest(id)
  PROVE  IInv'
<1>1. inbox \in Seq(Commands) /\ Envelope("cancel", id) \in Commands
  BY EnvelopeType DEF IInv, TypeOK, HostTypeOK
<1>2. \A m : Queued(Append(inbox, Envelope("cancel", id)), m)
               <=> Queued(inbox, m) \/ m = Envelope("cancel", id)
  BY <1>1, QueuedAppend
<1>3. inbox' = inbox \/ inbox' = Append(inbox, Envelope("cancel", id))
  BY DEF CancelRequest, PostToWorker
<1>4. ReplyOwed'
  BY <1>2, <1>3 DEF CancelRequest, ReplyOwed, IInv
<1>5. CancelledWasAsked'
  <2> SUFFICES ASSUME NEW i \in Ids,
                      \/ Queued(outbox', Envelope("cancelled", i))
                      \/ Queued(inbox', Envelope("cancel", i))
                      \/ i \in cancelledIds'
               PROVE  i \in asked'
    BY DEF CancelledWasAsked
  <2>1. Envelope("cancel", i) = Envelope("cancel", id) => i = id
    BY DEF Envelope
  <2> QED BY <1>2, <1>3, <2>1 DEF CancelRequest, CancelledWasAsked, IInv
<1>6. /\ NoWorkerNoPending' /\ PendingIsWaiting' /\ PendingIsTracked'
      /\ CancelNeverPoisons' /\ QueuedHasTimer'
  BY DEF CancelRequest, NoWorkerNoPending, PendingIsWaiting, PendingIsTracked,
         CancelNeverPoisons, QueuedHasTimer, IInv
<1> QED BY <1>4, <1>5, <1>6 DEF IInv

LEMMA SupersedeStep ==
  ASSUME IInv, TypeOK', NEW id \in Ids, Supersede(id)
  PROVE  IInv'
<1>1. PendingIsTracked'
  BY DEF Supersede, SupersedeScope, IsActive, PendingIsTracked, IInv, TypeOK
<1>2. /\ NoWorkerNoPending' /\ PendingIsWaiting' /\ ReplyOwed'
      /\ CancelNeverPoisons' /\ QueuedHasTimer' /\ CancelledWasAsked'
  BY DEF Supersede, hostVars, NoWorkerNoPending, PendingIsWaiting, ReplyOwed,
         CancelNeverPoisons, QueuedHasTimer, CancelledWasAsked, IInv
<1> QED BY <1>1, <1>2 DEF IInv

(* A delivery settles at most the promise of the delivered id, and takes   *)
(* no reply to another id from the queue.                                  *)
LEMMA DeliverStep ==
  ASSUME IInv, TypeOK', NEW id \in Ids, Deliver(id)
  PROVE  IInv'
<1>1. /\ outbox \in Seq(Replies) /\ outbox # <<>>
      /\ Head(outbox) \in Replies /\ Head(outbox).id = id
  BY DEF IInv, TypeOK, HostTypeOK, Deliver
<1>2. \A m : /\ Queued(outbox', m) => Queued(outbox, m)
             /\ Queued(outbox, m) /\ Head(outbox) # m => Queued(outbox', m)
  BY <1>1, QueuedTail DEF Deliver
<1>3. \A i \in Ids : i # id => pending'[i] = pending[i]
  BY DEF Deliver, SettlePending, IInv, TypeOK
<1>4. pending'[id] # NoPromise =>
        /\ pending'[id] = pending[id]
        /\ Head(outbox).kind \notin TerminalKinds
  BY DEF Deliver, SettlePending, IInv, TypeOK
<1>5. PendingIsWaiting'
  <2> SUFFICES ASSUME NEW i \in Ids, pending'[i] # NoPromise
               PROVE  /\ pending'[i] <= issued'
                      /\ owner'[pending'[i]] = i
                      /\ outcome'[pending'[i]] = "waiting"
    BY DEF PendingIsWaiting
  <2>1. pending'[i] = pending[i]
    BY <1>3, <1>4
  <2>2. pending[i] <= issued /\ owner[pending[i]] = i /\ outcome[pending[i]] = "waiting"
    BY <2>1 DEF IInv, PendingIsWaiting
  <2>3. outcome'[pending[i]] = "waiting"
    <3>1. CASE pending[id] # NoPromise /\ Head(outbox).kind \in TerminalKinds
      <4>1. i # id
        BY <1>4, <3>1
      <4>2. pending[i] # pending[id]
        BY <4>1, <3>1, <2>1, PendingInjective DEF IInv
      <4> QED BY <2>2, <3>1, <4>2 DEF Deliver, SettlePending, IInv, TypeOK
    <3>2. CASE ~(pending[id] # NoPromise /\ Head(outbox).kind \in TerminalKinds)
      BY <2>2, <3>2 DEF Deliver
    <3> QED BY <3>1, <3>2
  <2> QED BY <2>1, <2>2, <2>3 DEF Deliver
<1>6. ReplyOwed'
  <2> SUFFICES ASSUME worker' = "up", NEW i \in Ids, pending'[i] # NoPromise
               PROVE  \/ Queued(inbox', Envelope("request", i))
                      \/ active'[i] # "absent"
                      \/ \E kind \in TerminalKinds : Queued(outbox', Envelope(kind, i))
    BY DEF ReplyOwed
  <2>1. \A kind \in TerminalKinds : Head(outbox) # Envelope(kind, i)
    BY <1>1, <1>4 DEF Envelope
  <2>2. pending[i] # NoPromise
    BY <1>3, <1>4
  <2> QED BY <1>2, <2>1, <2>2 DEF ReplyOwed, IInv, Deliver
<1>7. PendingIsTracked'
  <2> SUFFICES ASSUME NEW i \in Ids, pending'[i] # NoPromise
               PROVE  records'[i] \in ActiveStates \union {"superseded"}
    BY DEF PendingIsTracked
  <2>1. records[i] \in ActiveStates \union {"superseded"}
    BY <1>3, <1>4 DEF PendingIsTracked, IInv
  <2>2. CASE i # id
    BY <1>1, <2>1, <2>2 DEF Deliver, Observe, IInv, TypeOK
  <2>3. CASE i = id
    <3>1. Head(outbox).kind \notin TerminalKinds
      BY <1>4, <2>3
    <3>2. \A s \in ActiveStates : StateAfter(s, Head(outbox).kind) \in ActiveStates
      BY <3>1 DEF StateAfter, ActiveStates, TerminalKinds
    <3> QED BY <1>1, <2>1, <2>3, <3>2 DEF Deliver, Observe, IsActive, IInv, TypeOK
  <2> QED BY <2>2, <2>3
<1>8. CancelledWasAsked'
  BY <1>2 DEF Deliver, CancelledWasAsked, IInv
<1>9. NoWorkerNoPending' /\ CancelNeverPoisons' /\ QueuedHasTimer'
  BY <1>3, <1>4 DEF Deliver, NoWorkerNoPending, CancelNeverPoisons, QueuedHasTimer, IInv
<1> QED BY <1>5, <1>6, <1>7, <1>8, <1>9 DEF IInv

LEMMA WorkerErrorStep ==
  ASSUME IInv, TypeOK', WorkerError
  PROVE  IInv'
<1>1. \A id \in Ids : pending'[id] = NoPromise
  BY DEF WorkerError, RejectAllPending
<1>2. NoWorkerNoPending' /\ PendingIsWaiting' /\ ReplyOwed' /\ PendingIsTracked'
  BY <1>1 DEF NoWorkerNoPending, PendingIsWaiting, ReplyOwed, PendingIsTracked
<1>3. CancelNeverPoisons' /\ QueuedHasTimer' /\ CancelledWasAsked'
  BY DEF WorkerError, hostVars, CancelNeverPoisons, QueuedHasTimer, CancelledWasAsked, IInv
<1> QED BY <1>2, <1>3 DEF IInv

LEMMA ForceTerminateStep ==
  ASSUME IInv, TypeOK', ForceTerminate
  PROVE  IInv'
<1>1. \A id \in Ids : pending'[id] = NoPromise
  BY DEF ForceTerminate, RejectAllPending
<1>2. NoWorkerNoPending' /\ PendingIsWaiting' /\ ReplyOwed' /\ PendingIsTracked'
  BY <1>1 DEF NoWorkerNoPending, PendingIsWaiting, ReplyOwed, PendingIsTracked
<1>3. CancelNeverPoisons' /\ QueuedHasTimer'
  BY DEF ForceTerminate, CancelNeverPoisons, QueuedHasTimer
<1>4. CancelledWasAsked'
  BY QueuedEmpty DEF ForceTerminate, CancelledWasAsked
<1> QED BY <1>2, <1>3, <1>4 DEF IInv

-------------------------------------------------------------------------------
(* The steps of the worker thread                                          *)

LEMMA HandleRequestStep ==
  ASSUME IInv, HostTypeOK', UNCHANGED clientVars, NEW id \in Ids, HandleRequest(id)
  PROVE  /\ ReplyOwed' /\ CancelNeverPoisons' /\ QueuedHasTimer' /\ CancelledWasAsked'
<1>1. /\ inbox \in Seq(Commands) /\ inbox # <<>> /\ outbox \in Seq(Replies)
      /\ timers \in Seq(Ids) /\ active \in [Ids -> EntryStates]
  BY DEF IInv, TypeOK, HostTypeOK, HandleRequest, TakeCommand, Enqueue
<1>2. \A m : /\ Queued(inbox', m) => Queued(inbox, m)
             /\ Queued(inbox, m) /\ Envelope("request", id) # m => Queued(inbox', m)
  BY <1>1, QueuedTail DEF HandleRequest, TakeCommand, Enqueue
<1>3. \A m : Queued(Append(outbox, Envelope("received", id)), m)
               <=> Queued(outbox, m) \/ m = Envelope("received", id)
  BY <1>1, EnvelopeType, QueuedAppend
<1>4. \A m : Queued(Append(timers, id), m) <=> Queued(timers, m) \/ m = id
  BY <1>1, QueuedAppend
<1>5. \A m : Queued(outbox, m) => Queued(outbox', m)
  BY <1>3 DEF HandleRequest, TakeCommand, Enqueue, Post
<1>6. \A i \in Ids : Queued(outbox', Envelope("cancelled", i))
                       => Queued(outbox, Envelope("cancelled", i))
  BY <1>3 DEF HandleRequest, TakeCommand, Enqueue, Post, Envelope
<1>7. ReplyOwed'
  <2> SUFFICES ASSUME worker' = "up", NEW i \in Ids, pending'[i] # NoPromise
               PROVE  \/ Queued(inbox', Envelope("request", i))
                      \/ active'[i] # "absent"
                      \/ \E kind \in TerminalKinds : Queued(outbox', Envelope(kind, i))
    BY DEF ReplyOwed
  <2>1. \/ Queued(inbox, Envelope("request", i))
        \/ active[i] # "absent"
        \/ \E kind \in TerminalKinds : Queued(outbox, Envelope(kind, i))
    BY DEF ReplyOwed, IInv, clientVars
  <2>2. active'[id] # "absent"
    BY <1>1 DEF HandleRequest, TakeCommand, Enqueue
  <2>3. active[i] # "absent" => active'[i] # "absent"
    BY <1>1, <2>2 DEF HandleRequest, TakeCommand, Enqueue
  <2>4. i # id => Envelope("request", id) # Envelope("request", i)
    BY DEF Envelope
  <2> QED BY <1>2, <1>5, <2>1, <2>2, <2>3, <2>4
<1>8. CancelNeverPoisons'
  BY <1>1 DEF HandleRequest, TakeCommand, Enqueue, CancelNeverPoisons, IInv
<1>9. QueuedHasTimer'
  BY <1>1, <1>4 DEF HandleRequest, TakeCommand, Enqueue, QueuedHasTimer, IInv
<1>10. CancelledWasAsked'
  BY <1>2, <1>6 DEF HandleRequest, TakeCommand, Enqueue, CancelledWasAsked, IInv, clientVars
<1> QED BY <1>7, <1>8, <1>9, <1>10

LEMMA HandleCancelStep ==
  ASSUME IInv, HostTypeOK', UNCHANGED clientVars, NEW id \in Ids, HandleCancel(id)
  PROVE  /\ ReplyOwed' /\ CancelNeverPoisons' /\ QueuedHasTimer' /\ CancelledWasAsked'
<1>1. /\ inbox \in Seq(Commands) /\ inbox # <<>> /\ outbox \in Seq(Replies)
      /\ active \in [Ids -> EntryStates]
  BY DEF IInv, TypeOK, HostTypeOK, HandleCancel, TakeCommand
<1>2. \A m : /\ Queued(inbox', m) => Queued(inbox, m)
             /\ Queued(inbox, m) /\ Envelope("cancel", id) # m => Queued(inbox', m)
  BY <1>1, QueuedTail DEF HandleCancel, TakeCommand
<1>3. \A m : Queued(Append(outbox, Envelope("cancelled", id)), m)
               <=> Queued(outbox, m) \/ m = Envelope("cancelled", id)
  BY <1>1, EnvelopeType, QueuedAppend
<1>4. id \in asked
  <2>1. Queued(inbox, Envelope("cancel", id))
    BY <1>1 DEF HandleCancel, TakeCommand, Queued
  <2> QED BY <2>1 DEF CancelledWasAsked, IInv
<1>5. \A m : Queued(outbox, m) => Queued(outbox', m)
  BY <1>3 DEF HandleCancel, TakeCommand, Post
<1>6. \A i \in Ids : Queued(outbox', Envelope("cancelled", i))
                       => Queued(outbox, Envelope("cancelled", i)) \/ i = id
  BY <1>3 DEF HandleCancel, TakeCommand, Post, Envelope
<1>7. ReplyOwed'
  <2> SUFFICES ASSUME worker' = "up", NEW i \in Ids, pending'[i] # NoPromise
               PROVE  \/ Queued(inbox', Envelope("request", i))
                      \/ active'[i] # "absent"
                      \/ \E kind \in TerminalKinds : Queued(outbox', Envelope(kind, i))
    BY DEF ReplyOwed
  <2>1. \/ Queued(inbox, Envelope("request", i))
        \/ active[i] # "absent"
        \/ \E kind \in TerminalKinds : Queued(outbox, Envelope(kind, i))
    BY DEF ReplyOwed, IInv, clientVars
  <2>2. Envelope("cancel", id) # Envelope("request", i)
    BY DEF Envelope
  <2>3. active[i] # "absent" =>
          active'[i] # "absent" \/ Queued(outbox', Envelope("cancelled", i))
    BY <1>1, <1>3 DEF HandleCancel, TakeCommand, Post
  <2>4. "cancelled" \in TerminalKinds
    BY DEF TerminalKinds
  <2> QED BY <1>2, <1>5, <2>1, <2>2, <2>3, <2>4
<1>8. CancelNeverPoisons'
  BY <1>1 DEF HandleCancel, TakeCommand, CancelNeverPoisons, IInv
<1>9. QueuedHasTimer'
  BY <1>1 DEF HandleCancel, TakeCommand, QueuedHasTimer, IInv
<1>10. CancelledWasAsked'
  BY <1>2, <1>4, <1>6 DEF HandleCancel, TakeCommand, CancelledWasAsked, IInv, clientVars
<1> QED BY <1>7, <1>8, <1>9, <1>10

LEMMA RunStartStep ==
  ASSUME IInv, HostTypeOK', UNCHANGED clientVars, NEW id \in Ids, RunStart(id)
  PROVE  /\ ReplyOwed' /\ CancelNeverPoisons' /\ QueuedHasTimer' /\ CancelledWasAsked'
<1>1. /\ timers \in Seq(Ids) /\ timers # <<>> /\ outbox \in Seq(Replies)
      /\ active \in [Ids -> EntryStates]
  BY DEF IInv, TypeOK, HostTypeOK, RunStart
<1>2. \A m : Queued(timers, m) /\ id # m => Queued(timers', m)
  BY <1>1, QueuedTail DEF RunStart
<1>3. active[id] = "queued" => id \notin cancelledIds
  BY DEF CancelNeverPoisons, IInv
<1>4. \A m : Queued(Append(outbox, Envelope("computing", id)), m)
               <=> Queued(outbox, m) \/ m = Envelope("computing", id)
  BY <1>1, EnvelopeType, QueuedAppend
<1>5. \A m : Queued(outbox, m) => Queued(outbox', m)
  BY <1>3, <1>4 DEF RunStart, Post
<1>6. \A i \in Ids : Queued(outbox', Envelope("cancelled", i))
                       => Queued(outbox, Envelope("cancelled", i))
  BY <1>3, <1>4 DEF RunStart, Post, Envelope
<1>7. \A i \in Ids : active[i] # "absent" <=> active'[i] # "absent"
  BY <1>1, <1>3 DEF RunStart
<1>8. ReplyOwed'
  BY <1>5, <1>7 DEF RunStart, ReplyOwed, IInv, clientVars
<1>9. CancelNeverPoisons'
  BY <1>7 DEF RunStart, CancelNeverPoisons, IInv
<1>10. QueuedHasTimer'
  BY <1>1, <1>2, <1>3 DEF RunStart, QueuedHasTimer, IInv
<1>11. CancelledWasAsked'
  BY <1>6 DEF RunStart, CancelledWasAsked, IInv, clientVars
<1> QED BY <1>8, <1>9, <1>10, <1>11

LEMMA RunEndStep ==
  ASSUME IInv, HostTypeOK', UNCHANGED clientVars, NEW id \in Ids, RunEnd(id)
  PROVE  /\ ReplyOwed' /\ CancelNeverPoisons' /\ QueuedHasTimer' /\ CancelledWasAsked'
<1>1. outbox \in Seq(Replies) /\ active \in [Ids -> EntryStates]
  BY DEF IInv, TypeOK, HostTypeOK
<1>2. id \notin cancelledIds
  BY DEF RunEnd, CancelNeverPoisons, IInv
<1>3. \E kind \in {"failure", "result"} :
        \A m : /\ Queued(outbox, m) \/ m = Envelope(kind, id) => Queued(outbox', m)
               /\ Queued(outbox', m) => \/ Queued(outbox, m)
                                        \/ m = Envelope(kind, id)
                                        \/ m = Envelope("complete", id)
  <2>1. CASE id \in Throwing
    <3>1. outbox' = Append(outbox, Envelope("failure", id))
      BY <1>2, <2>1 DEF RunEnd
    <3>2. \A m : Queued(Append(outbox, Envelope("failure", id)), m)
                   <=> Queued(outbox, m) \/ m = Envelope("failure", id)
      BY <1>1, EnvelopeType, QueuedAppend
    <3> QED BY <3>1, <3>2
  <2>2. CASE id \notin Throwing
    <3> DEFINE done == Append(outbox, Envelope("complete", id))
    <3>1. outbox' = Append(done, Envelope("result", id))
      BY <1>2, <2>2 DEF RunEnd
    <3>2. done \in Seq(Replies)
      BY <1>1, EnvelopeType
    <3>3. \A m : Queued(done, m) <=> Queued(outbox, m) \/ m = Envelope("complete", id)
      BY <1>1, EnvelopeType, QueuedAppend
    <3> HIDE DEF done
    <3>4. \A m : Queued(Append(done, Envelope("result", id)), m)
                   <=> Queued(done, m) \/ m = Envelope("result", id)
      BY <3>2, EnvelopeType, QueuedAppend
    <3> QED BY <3>1, <3>3, <3>4
  <2> QED BY <2>1, <2>2
<1>4. ReplyOwed'
  <2> SUFFICES ASSUME worker' = "up", NEW i \in Ids, pending'[i] # NoPromise
               PROVE  \/ Queued(inbox', Envelope("request", i))
                      \/ active'[i] # "absent"
                      \/ \E kind \in TerminalKinds : Queued(outbox', Envelope(kind, i))
    BY DEF ReplyOwed
  <2>1. \/ Queued(inbox, Envelope("request", i))
        \/ active[i] # "absent"
        \/ \E kind \in TerminalKinds : Queued(outbox, Envelope(kind, i))
    BY DEF ReplyOwed, IInv, clientVars
  <2>2. i # id => active'[i] = active[i]
    BY <1>1 DEF RunEnd
  <2>3. \E kind \in TerminalKinds : Queued(outbox', Envelope(kind, id))
    BY <1>3 DEF TerminalKinds
  <2> QED BY <1>3, <2>1, <2>2, <2>3 DEF RunEnd
<1>5. CancelNeverPoisons' /\ QueuedHasTimer'
  BY <1>1 DEF RunEnd, CancelNeverPoisons, QueuedHasTimer, IInv
<1>6. CancelledWasAsked'
  <2>1. \A i \in Ids : Queued(outbox', Envelope("cancelled", i))
                         => Queued(outbox, Envelope("cancelled", i))
    BY <1>3 DEF Envelope
  <2> QED BY <2>1 DEF RunEnd, CancelledWasAsked, IInv, clientVars
<1> QED BY <1>4, <1>5, <1>6

LEMMA HostStepStep ==
  ASSUME IInv, TypeOK', HostStep
  PROVE  IInv'
<1>1. UNCHANGED clientVars /\ HostTypeOK' /\ HostNext
  BY DEF HostStep, TypeOK
<1>2. ReplyOwed' /\ CancelNeverPoisons' /\ QueuedHasTimer' /\ CancelledWasAsked'
  BY <1>1, HandleRequestStep, HandleCancelStep, RunStartStep, RunEndStep DEF HostNext
<1>3. NoWorkerNoPending' /\ PendingIsWaiting' /\ PendingIsTracked'
  BY <1>1 DEF clientVars, NoWorkerNoPending, PendingIsWaiting, PendingIsTracked, IInv
<1> QED BY <1>2, <1>3 DEF IInv

-------------------------------------------------------------------------------
(* The theorems                                                            *)

LEMMA InvInit == Init => IInv
<1> SUFFICES ASSUME Init PROVE IInv
  OBVIOUS
<1>1. TypeOK
  BY TypeInit
<1>2. /\ NoWorkerNoPending /\ PendingIsWaiting /\ ReplyOwed /\ PendingIsTracked
      /\ CancelNeverPoisons /\ QueuedHasTimer
  BY DEF Init, HostInit, NoWorkerNoPending, PendingIsWaiting, ReplyOwed,
         PendingIsTracked, CancelNeverPoisons, QueuedHasTimer
<1>3. CancelledWasAsked
  BY QueuedEmpty DEF Init, HostInit, CancelledWasAsked
<1> QED BY <1>1, <1>2, <1>3 DEF IInv

LEMMA InvStep == IInv /\ [Next]_vars => IInv'
<1> SUFFICES ASSUME IInv, [Next]_vars PROVE IInv'
  OBVIOUS
<1>1. TypeOK'
  BY TypeStep DEF IInv
<1>2. CASE UNCHANGED vars
  BY <1>1, <1>2 DEF vars, hostVars, clientVars, IInv, NoWorkerNoPending,
     PendingIsWaiting, ReplyOwed, PendingIsTracked, CancelNeverPoisons,
     QueuedHasTimer, CancelledWasAsked
<1>3. CASE Next
  BY <1>1, <1>3, RequestStep, CancelStep, SupersedeStep, DeliverStep,
     WorkerErrorStep, ForceTerminateStep, HostStepStep DEF Next
<1> QED BY <1>2, <1>3

(* Every reachable state satisfies the inductive invariant.                *)
THEOREM Invariant == Spec => []IInv
<1> QED BY InvInit, InvStep, PTL DEF Spec

(* The pending map of engine-client.js holds, under an id, a promise that  *)
(* was returned for that id and is not settled.                            *)
THEOREM PendingIsWaitingAlways == Spec => []PendingIsWaiting
<1>1. IInv => PendingIsWaiting  BY DEF IInv
<1> QED BY <1>1, Invariant, PTL

(* No request is lost between the client and a worker that lives.          *)
THEOREM ReplyOwedAlways == Spec => []ReplyOwed
<1>1. IInv => ReplyOwed  BY DEF IInv
<1> QED BY <1>1, Invariant, PTL

(* A pending id never has a record that says it was answered.              *)
THEOREM PendingIsTrackedAlways == Spec => []PendingIsTracked
<1>1. IInv => PendingIsTracked  BY DEF IInv
<1> QED BY <1>1, Invariant, PTL

(* The cancel flags of worker.js never hit a request it works on, and a    *)
(* queued request keeps a timer.                                           *)
THEOREM HostIsSound == Spec => [](CancelNeverPoisons /\ QueuedHasTimer)
<1>1. IInv => CancelNeverPoisons /\ QueuedHasTimer  BY DEF IInv
<1> QED BY <1>1, Invariant, PTL

(* The worker cancels only what somebody asked to cancel.                  *)
THEOREM CancelledWasAskedAlways == Spec => []CancelledWasAsked
<1>1. IInv => CancelledWasAsked  BY DEF IInv
<1> QED BY <1>1, Invariant, PTL

(* A record that ended is only ever replaced by that of a new request for  *)
(* the same id: an envelope that arrives late, a supersede or a            *)
(* termination never rewrites it.                                          *)
THEOREM TerminalRecordsStayFinal == Spec => TerminalRecordsAreFinal
<1> DEFINE Final == \A id \in Ids :
              records[id] \in TerminalStates /\ records'[id] # records[id]
                => records'[id] = "pending" /\ pending'[id] = issued'
<1>1. TypeOK /\ [Next]_vars => [Final]_vars
  <2> SUFFICES ASSUME TypeOK, Next, NEW id \in Ids,
                      records[id] \in TerminalStates, records'[id] # records[id]
               PROVE  records'[id] = "pending" /\ pending'[id] = issued'
    OBVIOUS
  <2>1. ~IsActive(records, id)
    BY DEF IsActive, ActiveStates, TerminalStates
  <2>2. ASSUME NEW i \in Ids, Request(i)
        PROVE  records'[id] = "pending" /\ pending'[id] = issued'
    <3>1. i = id
      BY <2>2 DEF Request, Track, TypeOK
    <3> QED BY <2>1, <2>2, <3>1 DEF Request, Track, TypeOK
  <2>3. ASSUME NEW i \in Ids, CancelRequest(i) \/ Supersede(i) PROVE FALSE
    BY <2>1, <2>3 DEF CancelRequest, Supersede, SupersedeScope, TypeOK
  <2>4. ASSUME NEW i \in Ids, Deliver(i) PROVE FALSE
    BY <2>1, <2>4 DEF Deliver, Observe, TypeOK
  <2>5. CASE WorkerError \/ ForceTerminate \/ HostStep
    BY <2>1, <2>5 DEF WorkerError, ForceTerminate, MarkCancelled, HostStep, clientVars
  <2> QED BY <2>2, <2>3, <2>4, <2>5 DEF Next
<1> QED BY <1>1, TypeCorrect, PTL DEF Spec, TerminalRecordsAreFinal

-------------------------------------------------------------------------------
(* The client, its tracker, the two queues and the worker thread implement *)
(* EngineService: one slot per request id.                                 *)

LEMMA SlotInit == Init => Service!Init
BY DEF Init, Service!Init, Promises, NoPromise, Service!Promises, Service!NoPromise

(* A delivery answers the slot, withdraws it, or changes nothing.  It can  *)
(* only withdraw a slot whose id somebody asked to cancel.                 *)
LEMMA SlotDeliver ==
  ASSUME IInv, NEW id \in Ids, Deliver(id)
  PROVE  Service!Answer(id) \/ Service!Withdraw(id) \/ UNCHANGED Service!vars
<1>1. outbox # <<>> /\ outbox \in Seq(Replies) /\ Head(outbox) \in Replies
  BY DEF IInv, TypeOK, HostTypeOK, Deliver
<1>2. CASE pending[id] # NoPromise /\ Head(outbox).kind \in TerminalKinds
  <2>1. \A how : how = OutcomeOf(Head(outbox).kind) => Service!Settle(id, how)
    BY <1>2 DEF Deliver, SettlePending, Service!Settle, Service!NoPromise, NoPromise
  <2>2. CASE Head(outbox).kind = "cancelled"
    <3>1. Head(outbox) = Envelope("cancelled", id)
      BY <1>1, <2>2 DEF Deliver, Envelope, Replies
    <3>2. Queued(outbox, Envelope("cancelled", id))
      BY <1>1, <3>1 DEF Queued
    <3>3. id \in asked
      BY <3>2 DEF IInv, CancelledWasAsked
    <3>4. OutcomeOf(Head(outbox).kind) = "cancelled"
      BY <2>2 DEF OutcomeOf
    <3> QED BY <2>1, <3>3, <3>4 DEF Service!Withdraw
  <2>3. CASE Head(outbox).kind # "cancelled"
    <3>1. OutcomeOf(Head(outbox).kind) \in {"resolved", "rejected"}
      BY <1>2, <2>3 DEF OutcomeOf, TerminalKinds
    <3> QED BY <2>1, <3>1 DEF Service!Answer
  <2> QED BY <2>2, <2>3
<1>3. CASE ~(pending[id] # NoPromise /\ Head(outbox).kind \in TerminalKinds)
  BY <1>3 DEF Deliver, Service!vars
<1> QED BY <1>2, <1>3

LEMMA SlotStep ==
  ASSUME IInv, [Next]_vars
  PROVE  [Service!Next]_(Service!vars)
<1>1. ASSUME NEW id \in Ids, Request(id) PROVE Service!Ask(id)
  BY <1>1 DEF Request, Service!Ask, Service!Place
<1>2. ASSUME NEW id \in Ids, CancelRequest(id) PROVE Service!AskCancel(id)
  BY <1>2 DEF CancelRequest, Service!AskCancel
<1>3. ASSUME NEW id \in Ids, Supersede(id) PROVE UNCHANGED Service!vars
  BY <1>3 DEF Supersede, Service!vars
<1>4. ASSUME NEW how, RejectAllPending(how), UNCHANGED <<issued, owner, asked>>
      PROVE  Service!EmptyAll(how)
  <2>1. \A p \in Promises : (\E id \in PendingIds : pending[id] = p)
                              <=> (\E id \in Ids : pending[id] = p)
    BY EngineClientAssumption DEF PendingIds, Promises, NoPromise
  <2> QED BY <1>4, <2>1 DEF RejectAllPending, Service!EmptyAll, NoPromise, Promises,
                            Service!NoPromise, Service!Promises
<1>5. WorkerError => Service!EmptyAll("errored")
  BY <1>4 DEF WorkerError
<1>6. ForceTerminate => Service!EmptyAll("terminated")
  BY <1>4 DEF ForceTerminate
<1>7. HostStep \/ UNCHANGED vars => UNCHANGED Service!vars
  BY DEF HostStep, clientVars, vars, Service!vars
<1> QED BY <1>1, <1>2, <1>3, <1>5, <1>6, <1>7, SlotDeliver DEF Next, Service!Next

(* Every behaviour of the client and its worker is, seen from the pending  *)
(* map, a behaviour of the one-slot-per-id service: no promise is settled  *)
(* twice, none is settled by the answer to another id, and none is         *)
(* cancelled unless a cancel was asked for its id.                         *)
THEOREM ImplementsServiceSafety == Spec => ServiceSafety
<1>1. IInv /\ [Next]_vars => [Service!Next]_(Service!vars)  BY SlotStep
<1> QED BY <1>1, SlotInit, Invariant, PTL DEF Spec, ServiceSafety, Service!Spec

===============================================================================
