-------------------------- MODULE GuardedProviderProofs --------------------------
(***************************************************************************)
(* Proofs about GuardedProvider, for every set of threads, listings and    *)
(* currencies, every budget and every delay.                               *)
(***************************************************************************)
EXTENDS GuardedProvider, TLAPS

(* Who sleeps before a call wakes late enough, within the request budget.  *)
PacingIsTimed ==
  \A c \in Callers :
    pc[c] = "pacing" => wakeAt[c] >= lastStarted + Interval /\ requests < MaxRequests

(* A thread paces or calls only while the circuit is closed.               *)
GuardedIsClosed == \A c \in Callers : InGuard(c) => circuit = "closed"

(* A thread sleeps before a retry only if it has one left.                 *)
RetryIsLeft == \A c \in Callers : pc[c] = "backoff" => attempt[c] < Retries

(* The inductive invariant.                                                *)
IInv ==
  /\ TypeOK
  /\ Serialised
  /\ BudgetKept
  /\ PacingIsTimed
  /\ GuardedIsClosed
  /\ RetryIsLeft

------------------------------------------------------------------------------
(* The cache                                                               *)

CacheType == [size : [Listings -> 0 .. MaxSize], absent : SUBSET Listings, bytes : Int]

(* Discarding, retaining and remembering keep the cache well formed.       *)
LEMMA CacheOperations ==
  ASSUME NEW kept \in CacheType, NEW key
  PROVE  /\ Discard(kept, key) \in CacheType
         /\ \A method : AfterMethod(method, key, kept) \in CacheType
         /\ RememberAbsence(kept, key) \in CacheType
         /\ \A bytes \in 1 .. MaxSize : Retain(kept, key, bytes) \in CacheType
<1> USE GuardedProviderAssumption
<1>1. Discard(kept, key) \in CacheType
  BY DEF Discard, CacheType
<1>2. \A method : AfterMethod(method, key, kept) \in CacheType
  BY <1>1 DEF AfterMethod
<1>3. RememberAbsence(kept, key) \in CacheType
  BY DEF RememberAbsence, CacheType
<1>4. ASSUME NEW bytes \in 1 .. MaxSize PROVE Retain(kept, key, bytes) \in CacheType
  BY <1>1 DEF Retain, CacheType
<1> QED BY <1>1, <1>2, <1>3, <1>4

------------------------------------------------------------------------------
(* The end of a call                                                       *)

LEMMA NoCallIsNoCall == NoCall \notin Calls
BY DEF NoCall, Calls, EventMethods

(* What End leaves behind, whatever the outcome.                           *)
LEMMA EndTyped ==
  ASSUME TypeOK, NEW c \in Callers, NEW outcome \in Results, call[c] \in Calls, End(c, outcome)
  PROVE  /\ result' \in [Calls -> Results]
         /\ pc' \in [Callers -> Places] /\ pc' = [pc EXCEPT ![c] = "idle"]
         /\ call' \in [Callers -> Calls \cup {NoCall}]
         /\ \A d \in Callers : pc'[d] = "idle" <=> call'[d] = NoCall
         /\ attempt' \in [Callers -> 0 .. Retries]
         /\ wakeAt' \in [Callers -> Int]
         /\ lock' = Nobody
         /\ \A d \in Callers : d # c => pc'[d] = pc[d] /\ attempt'[d] = attempt[d]
                                          /\ wakeAt'[d] = wakeAt[d]
         /\ pc'[c] = "idle"
<1> USE GuardedProviderAssumption
<1>1. /\ result' \in [Calls -> Results] /\ pc' \in [Callers -> Places]
      /\ pc' = [pc EXCEPT ![c] = "idle"] /\ lock' = Nobody
  BY DEF TypeOK, End, Places
<1>2. /\ call' \in [Callers -> Calls \cup {NoCall}]
      /\ \A d \in Callers : pc'[d] = "idle" <=> call'[d] = NoCall
  BY DEF TypeOK, End
<1>3. attempt' \in [Callers -> 0 .. Retries] /\ wakeAt' \in [Callers -> Int]
  BY DEF TypeOK, End
<1>4. \A d \in Callers : d # c => pc'[d] = pc[d] /\ attempt'[d] = attempt[d] /\ wakeAt'[d] = wakeAt[d]
  BY DEF TypeOK, End
<1>5. pc'[c] = "idle"
  BY DEF TypeOK, End
<1> QED BY <1>1, <1>2, <1>3, <1>4, <1>5

(* A call that ends, from outside the guard or as the holder of its lock,  *)
(* keeps the invariant if the circuit and the cache stay well formed.      *)
LEMMA EndStep ==
  ASSUME IInv, NEW c \in Callers, NEW outcome \in Results, pc[c] # "idle",
         End(c, outcome), lock \in {Nobody, c},
         UNCHANGED <<now, requests, lastStarted, todo>>,
         circuit' \in {"closed"} \cup Reasons, cache' \in CacheType
  PROVE  IInv'
<1>1. call[c] \in Calls
  BY DEF IInv, TypeOK
<1>2. TypeOK'
  BY <1>1, EndTyped DEF IInv, TypeOK, CacheType
<1>3. Nobody \notin Callers
  BY GuardedProviderAssumption
<1>4. \A d \in Callers : pc'[d] = "idle" \/ (pc'[d] = pc[d] /\ d # c)
  BY <1>1, EndTyped DEF IInv
<1>5. \A d \in Callers : ~InGuard(d)'
  <2>1. \A d \in Callers : d # c => ~InGuard(d)
    BY <1>3 DEF IInv, Serialised
  <2> QED BY <1>4, <2>1 DEF InGuard
<1>6. Serialised'
  BY <1>1, <1>3, <1>5, EndTyped DEF IInv, Serialised
<1>7. BudgetKept'
  BY DEF IInv, BudgetKept
<1>8. PacingIsTimed' /\ GuardedIsClosed'
  BY <1>5 DEF PacingIsTimed, GuardedIsClosed, InGuard
<1>9. RetryIsLeft'
  BY <1>1, <1>4, EndTyped DEF IInv, RetryIsLeft
<1> QED BY <1>2, <1>6, <1>7, <1>8, <1>9 DEF IInv

------------------------------------------------------------------------------
(* Each step keeps the invariant                                           *)

LEMMA InitInvariant == Init => IInv
<1> SUFFICES ASSUME Init PROVE IInv
  OBVIOUS
<1> USE GuardedProviderAssumption
<1>1. TypeOK
  <2>1. cache \in CacheType
    BY DEF Init, EmptyCache, CacheType
  <2> QED BY <2>1 DEF Init, TypeOK, CacheType, Calls, Results, Places
<1>2. Serialised /\ PacingIsTimed /\ GuardedIsClosed /\ RetryIsLeft
  BY DEF Init, Serialised, PacingIsTimed, GuardedIsClosed, RetryIsLeft, InGuard
<1>3. BudgetKept
  BY DEF Init, BudgetKept
<1> QED BY <1>1, <1>2, <1>3 DEF IInv

LEMMA StutterInvariant == IInv /\ UNCHANGED vars => IInv'
BY DEF IInv, vars, guardVars, callerVars, TypeOK, Serialised, BudgetKept, PacingIsTimed,
       GuardedIsClosed, RetryIsLeft, InGuard

LEMMA TickInvariant == IInv /\ Tick => IInv'
<1> SUFFICES ASSUME IInv, Tick PROVE IInv'
  OBVIOUS
<1>1. TypeOK'
  BY GuardedProviderAssumption DEF IInv, TypeOK, Tick, guardVars, callerVars
<1> QED
  BY <1>1 DEF IInv, Tick, guardVars, callerVars, Serialised, BudgetKept, PacingIsTimed,
              GuardedIsClosed, RetryIsLeft, InGuard

LEMMA InvokeInvariant == \A c \in Callers : IInv /\ Invoke(c) => IInv'
<1> SUFFICES ASSUME NEW c \in Callers, IInv, Invoke(c) PROVE IInv'
  OBVIOUS
<1>1. PICK k \in todo : call' = [call EXCEPT ![c] = k] /\ todo' = todo \ {k}
  BY DEF Invoke
<1>2. k \in Calls /\ k # NoCall
  BY <1>1, NoCallIsNoCall DEF IInv, TypeOK
<1>3. pc' = [pc EXCEPT ![c] = "waiting"] /\ UNCHANGED <<now, guardVars, result, attempt, wakeAt>>
  BY DEF Invoke
<1>4. TypeOK'
  BY <1>1, <1>2, <1>3 DEF IInv, TypeOK, Places, guardVars
<1>5. \A d \in Callers : InGuard(d)' = InGuard(d) /\ (pc'[d] = "backoff" <=> pc[d] = "backoff")
                           /\ (pc'[d] = "pacing" <=> pc[d] = "pacing")
  BY <1>3 DEF Invoke, InGuard, IInv, TypeOK
<1> QED
  BY <1>3, <1>4, <1>5 DEF IInv, Serialised, BudgetKept, PacingIsTimed, GuardedIsClosed,
                          RetryIsLeft, guardVars

LEMMA RetryInvariant == \A c \in Callers : IInv /\ Retry(c) => IInv'
<1> SUFFICES ASSUME NEW c \in Callers, IInv, Retry(c) PROVE IInv'
  OBVIOUS
<1>1. attempt[c] < Retries
  BY DEF IInv, RetryIsLeft, Retry
<1>2. TypeOK'
  <2>1. attempt[c] + 1 \in 0 .. Retries
    BY <1>1, GuardedProviderAssumption DEF IInv, TypeOK
  <2>2. attempt' = [attempt EXCEPT ![c] = attempt[c] + 1]
    BY DEF Retry
  <2>3. attempt' \in [Callers -> 0 .. Retries]
    BY <2>1, <2>2 DEF IInv, TypeOK
  <2> QED BY <2>3 DEF IInv, TypeOK, Places, Retry, guardVars
<1>3. \A d \in Callers : InGuard(d)' = InGuard(d) /\ (pc'[d] = "pacing" <=> pc[d] = "pacing")
                           /\ (pc[d] = "pacing" => wakeAt'[d] = wakeAt[d])
                           /\ (pc'[d] = "backoff" => pc[d] = "backoff" /\ attempt'[d] = attempt[d])
  BY DEF Retry, InGuard, IInv, TypeOK
<1> QED
  BY <1>2, <1>3 DEF IInv, Retry, Serialised, BudgetKept, PacingIsTimed, GuardedIsClosed,
                    RetryIsLeft, guardVars

(* Entering the guard: a refusal or an answer from the cache ends the      *)
(* call, and a call that may be sent waits as the holder of the lock.      *)
LEMMA EnterInvariant == \A c \in Callers : IInv /\ Enter(c) => IInv'
<1> SUFFICES ASSUME NEW c \in Callers, IInv, Enter(c) PROVE IInv'
  OBVIOUS
<1>1. pc[c] # "idle" /\ lock \in {Nobody, c} /\ UNCHANGED <<now, todo>> /\ cache \in CacheType
  BY DEF Enter, IInv, TypeOK, CacheType
<1>2. CASE RefusedAtOnce(c)
  BY <1>1, <1>2, EndStep DEF RefusedAtOnce, Results, IInv, TypeOK
<1>3. CASE ServedFromCache(c)
  <2>1. PICK outcome \in {"cached", "absent", "error"} : End(c, outcome)
    BY <1>3 DEF ServedFromCache
  <2>2. cache' \in CacheType
    BY <1>1, <1>3, CacheOperations DEF ServedFromCache
  <2> QED BY <1>1, <1>3, <2>1, <2>2, EndStep DEF ServedFromCache, Results, IInv, TypeOK
<1>4. CASE RefusedByBudget(c)
  BY <1>1, <1>4, EndStep DEF RefusedByBudget, Open, Results, Reasons
<1>5. CASE Pace(c)
  <2>1. /\ lock' = c /\ pc' = [pc EXCEPT ![c] = "pacing"] /\ circuit = "closed"
        /\ wakeAt' = [wakeAt EXCEPT ![c] = lastStarted + Interval]
        /\ UNCHANGED <<now, todo, circuit, requests, lastStarted, cache, result, call, attempt>>
        /\ requests < MaxRequests
    BY <1>1, <1>5, GuardedProviderAssumption DEF Pace, IsOpen, BudgetSpent, IInv, TypeOK
  <2>2. TypeOK'
    BY <1>1, <2>1, GuardedProviderAssumption DEF IInv, TypeOK, Places, CacheType
  <2>3. \A d \in Callers : /\ d # c => pc'[d] = pc[d] /\ wakeAt'[d] = wakeAt[d] /\ ~InGuard(d)
                           /\ d = c => pc'[d] = "pacing" /\ wakeAt'[d] = lastStarted + Interval
    BY <2>1, GuardedProviderAssumption DEF Enter, IInv, TypeOK, Serialised
  <2>4. Serialised'
    <3>1. \A d \in Callers : InGuard(d)' <=> d = c
      BY <2>3 DEF InGuard
    <3> QED BY <2>1, <3>1 DEF Serialised
  <2>5. PacingIsTimed' /\ GuardedIsClosed' /\ BudgetKept'
    BY <2>1, <2>3, GuardedProviderAssumption
       DEF PacingIsTimed, GuardedIsClosed, BudgetKept, InGuard, IInv, TypeOK
  <2>6. RetryIsLeft'
    BY <2>1, <2>3 DEF RetryIsLeft, IInv
  <2> QED BY <2>2, <2>4, <2>5, <2>6 DEF IInv
<1> QED BY <1>2, <1>3, <1>4, <1>5 DEF Enter

(* After the sleep the call is sent within both budgets or refused.        *)
LEMMA SendInvariant == \A c \in Callers : IInv /\ Send(c) => IInv'
<1> SUFFICES ASSUME NEW c \in Callers, IInv, Send(c) PROVE IInv'
  OBVIOUS
<1>1. pc[c] = "pacing" /\ lock = c /\ UNCHANGED <<now, todo, cache>> /\ cache \in CacheType
  BY DEF Send, IInv, TypeOK, CacheType, Serialised, InGuard
<1>2. CASE now >= MaxSeconds
  BY <1>1, <1>2, EndStep DEF Send, Open, Results, Reasons
<1>3. CASE ~(now >= MaxSeconds)
  <2>1. /\ lastStarted' = now /\ requests' = requests + 1 /\ requests < MaxRequests
        /\ pc' = [pc EXCEPT ![c] = "calling"] /\ wakeAt' = [wakeAt EXCEPT ![c] = 0]
        /\ UNCHANGED <<lock, circuit, result, call, attempt>>
    BY <1>1, <1>3 DEF Send, IInv, PacingIsTimed
  <2>2. TypeOK'
    BY <1>1, <2>1, GuardedProviderAssumption DEF IInv, TypeOK, Places, CacheType
  <2>3. \A d \in Callers : /\ d # c => pc'[d] = pc[d] /\ ~InGuard(d)
                           /\ d = c => pc'[d] = "calling" /\ InGuard(d)
    BY <1>1, <2>1 DEF IInv, TypeOK, Serialised, InGuard
  <2>4. Serialised' /\ GuardedIsClosed' /\ PacingIsTimed'
    <3>1. \A d \in Callers : (InGuard(d)' <=> d = c) /\ pc'[d] # "pacing"
      BY <2>3 DEF InGuard
    <3>2. InGuard(c)
      BY <1>1 DEF InGuard
    <3> QED BY <1>1, <2>1, <3>1, <3>2 DEF Serialised, GuardedIsClosed, PacingIsTimed, IInv
  <2>5. BudgetKept'
    BY <1>1, <1>3, <2>1, GuardedProviderAssumption DEF BudgetKept, IInv, TypeOK
  <2>6. RetryIsLeft'
    BY <2>1, <2>3 DEF RetryIsLeft, IInv
  <2> QED BY <2>2, <2>4, <2>5, <2>6 DEF IInv
<1> QED BY <1>2, <1>3

(* Whatever the provider does, the lock is given back.                     *)
LEMMA ReturnInvariant == \A c \in Callers : IInv /\ Return(c) => IInv'
<1> SUFFICES ASSUME NEW c \in Callers, IInv, Return(c) PROVE IInv'
  OBVIOUS
<1>1. /\ pc[c] = "calling" /\ pc[c] # "idle" /\ lock \in {Nobody, c} /\ lock = c
      /\ UNCHANGED <<now, requests, lastStarted, todo>>
      /\ cache \in CacheType /\ circuit \in {"closed"} \cup Reasons
  BY DEF Return, IInv, TypeOK, CacheType, Serialised, InGuard
<1>2. CASE Answered(c)
  <2>1. cache' \in CacheType
    BY <1>1, <1>2, CacheOperations DEF Answered
  <2>2. PICK outcome \in Results : End(c, outcome)
    BY <1>2 DEF Answered, Open, Results
  <2>3. circuit' \in {"closed"} \cup Reasons
    BY <1>1, <1>2 DEF Answered, Open, Reasons
  <2> QED BY <1>1, <2>1, <2>2, <2>3, EndStep
<1>3. CASE Absent(c)
  <2>1. cache' \in CacheType
    BY <1>1, <1>3, CacheOperations DEF Absent
  <2> QED BY <1>1, <1>3, <2>1, EndStep DEF Absent, Results
<1>4. CASE RateLimited(c)
  <2>1. cache' \in CacheType
    BY <1>1, <1>4, CacheOperations DEF RateLimited
  <2> QED BY <1>1, <1>4, <2>1, EndStep DEF RateLimited, Open, Results, Reasons
<1>5. CASE Failed(c)
  <2>1. cache' \in CacheType
    BY <1>1, <1>5, CacheOperations DEF Failed
  <2> QED BY <1>1, <1>5, <2>1, EndStep DEF Failed, Results
<1>6. CASE Transient(c)
  <2>1. cache' \in CacheType
    BY <1>1, <1>6, CacheOperations DEF Transient
  <2>2. /\ attempt[c] < Retries /\ lock' = Nobody /\ pc' = [pc EXCEPT ![c] = "backoff"]
        /\ wakeAt' = [wakeAt EXCEPT ![c] = now + Backoff[attempt[c]]]
        /\ UNCHANGED <<circuit, result, call, attempt>>
    BY <1>6 DEF Transient
  <2>3. now + Backoff[attempt[c]] \in Int
    BY GuardedProviderAssumption DEF IInv, TypeOK
  <2>4. TypeOK'
    BY <1>1, <2>1, <2>2, <2>3 DEF IInv, TypeOK, Places, CacheType
  <2>5. \A d \in Callers : /\ d # c => pc'[d] = pc[d] /\ ~InGuard(d)
                           /\ d = c => pc'[d] = "backoff"
    BY <1>1, <2>2 DEF IInv, TypeOK, Serialised
  <2>6. Serialised' /\ GuardedIsClosed' /\ PacingIsTimed' /\ BudgetKept'
    <3>1. \A d \in Callers : ~InGuard(d)' /\ pc'[d] # "pacing"
      BY <2>5 DEF InGuard
    <3> QED BY <1>1, <2>2, <3>1, GuardedProviderAssumption
            DEF Serialised, GuardedIsClosed, PacingIsTimed, BudgetKept, IInv
  <2>7. RetryIsLeft'
    BY <2>2, <2>5 DEF RetryIsLeft, IInv
  <2> QED BY <2>4, <2>6, <2>7 DEF IInv
<1> QED BY <1>2, <1>3, <1>4, <1>5, <1>6 DEF Return

LEMMA StepInvariant == IInv /\ [Next]_vars => IInv'
BY StutterInvariant, TickInvariant, InvokeInvariant, RetryInvariant, EnterInvariant,
   SendInvariant, ReturnInvariant DEF Next, Step

LEMMA Invariant == Spec => []IInv
BY InitInvariant, StepInvariant, PTL DEF Spec

------------------------------------------------------------------------------
(* Results                                                                 *)

(* The state of the guard is well typed; no call is retried more than      *)
(* Retries times.                                                          *)
THEOREM TypeCorrect == Spec => []TypeOK
BY Invariant, PTL DEF IInv

(* Only the holder of the lock paces or calls the provider.                *)
THEOREM CallsAreSerialised == Spec => []Serialised
BY Invariant, PTL DEF IInv

(* No call starts beyond the request budget or after the time budget.      *)
THEOREM BudgetIsKept == Spec => []BudgetKept
BY Invariant, PTL DEF IInv

(* Two provider calls start at least an interval apart.                    *)
THEOREM StartsArePaced == Spec => Paced
<1>1. IInv /\ [Next]_vars => [requests' # requests => now >= lastStarted + Interval]_vars
  <2> SUFFICES ASSUME IInv, Next, requests' # requests PROVE now >= lastStarted + Interval
    OBVIOUS
  <2>1. PICK c \in Callers : Send(c)
    BY DEF Next, Tick, Step, Invoke, Enter, RefusedAtOnce, ServedFromCache, RefusedByBudget, Pace,
           Return, Retry, guardVars
  <2>2. ~(now >= MaxSeconds) /\ pc[c] = "pacing" /\ Awake(c)
    BY <2>1 DEF Send
  <2>3. wakeAt[c] <= now
    BY <2>2, GuardedProviderAssumption DEF Awake, IInv, TypeOK
  <2> QED BY <2>2, <2>3, GuardedProviderAssumption DEF IInv, PacingIsTimed, TypeOK
<1> QED BY <1>1, Invariant, PTL DEF Spec, Paced

(* Once the circuit is open, no provider call starts and the reason stays. *)
THEOREM NothingStartsAfterOpen == Spec => NothingAfterOpen
<1> DEFINE Closed == circuit # "closed" => requests' = requests /\ circuit' = circuit
<1>1. IInv /\ [Next]_vars => [Closed]_vars
  <2> SUFFICES ASSUME IInv, Next, circuit # "closed" PROVE requests' = requests /\ circuit' = circuit
    OBVIOUS
  <2>1. \A c \in Callers : pc[c] # "pacing" /\ pc[c] # "calling"
    BY DEF IInv, GuardedIsClosed, InGuard
  <2>2. CASE Tick
    BY <2>2 DEF Tick, guardVars
  <2>3. ASSUME NEW c \in Callers, Enter(c) PROVE requests' = requests /\ circuit' = circuit
    BY <2>3 DEF Enter, RefusedAtOnce, ServedFromCache, RefusedByBudget, Pace, IsOpen
  <2>4. ASSUME NEW c \in Callers, Invoke(c) \/ Retry(c) PROVE requests' = requests /\ circuit' = circuit
    BY <2>4 DEF Invoke, Retry, guardVars
  <2> QED BY <2>1, <2>2, <2>3, <2>4 DEF Next, Step, Send, Return
<1> QED BY <1>1, Invariant, PTL DEF Spec, NothingAfterOpen

------------------------------------------------------------------------------
(* One history per listing                                                 *)

Active(c) == pc[c] # "idle"

(* The calls of the run are made once each, in the order of the sweeps.    *)
SweepsInOrder ==
  /\ \A k \in todo : result[k] = "none"
  /\ \A c \in Callers : Active(c) =>
       /\ result[call[c]] = "none" /\ call[c] \notin todo
       /\ \A k \in todo : Order(call[c][1]) <= Order(k[1])
       /\ \A d \in Callers : Active(d) /\ c # d => call[c] # call[d] /\ call[c][1] = call[d][1]
  /\ \A k \in Calls : result[k] # "none" =>
       /\ \A j \in todo : Order(k[1]) <= Order(j[1])
       /\ \A c \in Callers : Active(c) => Order(k[1]) <= Order(call[c][1])

PricesAnswered(k) == result[<<"get_prices", k>>] \in {"rows", "absent"}
ActionsAsked(k) == result[<<"get_corporate_actions", k>>] # "none"

(* While the circuit is closed, a listing whose prices were answered stays *)
(* in the cache until its corporate actions have been asked for.           *)
Remembered ==
  circuit = "closed" =>
    \A k \in Listings : PricesAnswered(k) /\ ~ActionsAsked(k) => Cached(cache, k)

HistoryInv == IInv /\ SweepsInOrder /\ Remembered /\ OneHistoryPerListing

LEMMA CallShape ==
  ASSUME NEW k \in Calls
  PROVE  /\ k = <<k[1], k[2]>> /\ Order(k[1]) \in 1 .. 4
         /\ k[1] \in EventMethods \/ k[1] = "get_prices" => k[2] \in Listings
BY DEF Calls, EventMethods, Order

(* What an operation on one listing's entry does to it and to the others.  *)
LEMMA CachedAfter ==
  ASSUME NEW kept \in CacheType, NEW key, NEW k \in Listings
  PROVE  /\ k # key => /\ Cached(Discard(kept, key), k) <=> Cached(kept, k)
                       /\ Cached(RememberAbsence(kept, key), k) <=> Cached(kept, k)
                       /\ \A bytes \in 1 .. MaxSize : Cached(Retain(kept, key, bytes), k) <=> Cached(kept, k)
         /\ k = key => /\ Cached(RememberAbsence(kept, key), k)
                       /\ \A bytes \in 1 .. MaxSize : Cached(Retain(kept, key, bytes), k)
BY GuardedProviderAssumption DEF CacheType, Cached, Discard, RememberAbsence, Retain

(* The end of a call answers that call and no other.                       *)
LEMMA EndKeepsOrder ==
  ASSUME HistoryInv, NEW c \in Callers, NEW outcome \in Results, Active(c),
         End(c, outcome), UNCHANGED todo
  PROVE  /\ SweepsInOrder'
         /\ call[c] \in Calls
         /\ \A k \in Calls : k # call[c] => result'[k] = result[k]
         /\ result'[call[c]] = outcome
<1>1. call[c] \in Calls /\ call[c] \notin todo
  BY DEF HistoryInv, IInv, TypeOK, SweepsInOrder, Active
<1>2. /\ result' = [result EXCEPT ![call[c]] = outcome]
      /\ result \in [Calls -> Results] /\ todo \subseteq Calls
  BY DEF End, HistoryInv, IInv, TypeOK
<1>3. (\A k \in Calls : k # call[c] => result'[k] = result[k]) /\ result'[call[c]] = outcome
  BY <1>1, <1>2
<1>4. \A d \in Callers : Active(d)' => Active(d) /\ d # c /\ call'[d] = call[d] /\ call[d] \in Calls
  BY DEF End, HistoryInv, IInv, TypeOK, Active
<1>5. \A k \in todo' : result'[k] = "none"
  BY <1>1, <1>2, <1>3 DEF HistoryInv, SweepsInOrder
<1>6. ASSUME NEW d \in Callers, Active(d)'
      PROVE  /\ result'[call'[d]] = "none" /\ call'[d] \notin todo'
             /\ \A k \in todo' : Order(call'[d][1]) <= Order(k[1])
             /\ \A e \in Callers : Active(e)' /\ d # e => call'[d] # call'[e] /\ call'[d][1] = call'[e][1]
  <2>1. Active(d) /\ d # c /\ call'[d] = call[d] /\ call[d] \in Calls
    BY <1>4, <1>6
  <2>2. call[d] # call[c]
    BY <2>1 DEF HistoryInv, SweepsInOrder
  <2>3. result'[call'[d]] = "none"
    BY <1>3, <2>1, <2>2 DEF HistoryInv, SweepsInOrder
  <2> QED BY <1>4, <2>1, <2>3 DEF HistoryInv, SweepsInOrder
<1>7. ASSUME NEW k \in Calls, result'[k] # "none"
      PROVE  /\ \A j \in todo' : Order(k[1]) <= Order(j[1])
             /\ \A d \in Callers : Active(d)' => Order(k[1]) <= Order(call'[d][1])
  <2>1. CASE k = call[c]
    <3>1. \A d \in Callers : Active(d)' => Order(k[1]) <= Order(call'[d][1])
      <4>1. SUFFICES ASSUME NEW d \in Callers, Active(d)' PROVE Order(k[1]) <= Order(call'[d][1])
        OBVIOUS
      <4>2. call'[d][1] = k[1]
        BY <1>4, <2>1, <4>1 DEF HistoryInv, SweepsInOrder
      <4>3. Order(k[1]) \in 1 .. 4
        BY CallShape
      <4> QED BY <4>2, <4>3
    <3> QED BY <2>1, <3>1 DEF HistoryInv, SweepsInOrder
  <2>2. CASE k # call[c]
    BY <1>3, <1>4, <1>7, <2>2 DEF HistoryInv, SweepsInOrder
  <2> QED BY <2>1, <2>2
<1>8. SweepsInOrder'
  BY <1>5, <1>6, <1>7 DEF SweepsInOrder
<1> QED BY <1>1, <1>3, <1>8

(* A step that ends no call keeps the order.                               *)
LEMMA OtherKeepsOrder ==
  ASSUME HistoryInv, UNCHANGED <<todo, result, call>>,
         \A c \in Callers : Active(c)' <=> Active(c)
  PROVE  SweepsInOrder'
BY DEF HistoryInv, SweepsInOrder

(* After the end of a call, only a caller other than it is in the guard.   *)
LEMMA EndKeepsOneHistory ==
  ASSUME HistoryInv, NEW c \in Callers, NEW outcome \in Results, Active(c),
         End(c, outcome), lock \in {Nobody, c}
  PROVE  OneHistoryPerListing'
<1>1. \A d \in Callers : ~InGuard(d)'
  <2>1. \A d \in Callers : d # c => ~InGuard(d)
    BY GuardedProviderAssumption DEF HistoryInv, IInv, Serialised
  <2>2. \A d \in Callers : pc'[d] = IF d = c THEN "idle" ELSE pc[d]
    BY DEF End, HistoryInv, IInv, TypeOK
  <2> QED BY <2>1, <2>2 DEF InGuard
<1> QED BY <1>1 DEF OneHistoryPerListing

(* The end of a call keeps Remembered if the cache keeps every other entry *)
(* and, unless the call was the corporate-action query, its own.           *)
LEMMA EndRemembers ==
  ASSUME HistoryInv, NEW c \in Callers, NEW outcome \in Results \ {"none"}, Active(c),
         End(c, outcome), UNCHANGED todo, circuit' = "closed" => circuit = "closed",
         \A k \in Listings : k # call[c][2] => (Cached(cache, k) => Cached(cache', k)),
         call[c][1] \in {"get_dividends", "get_fx_rates"} => cache' = cache,
         call[c][1] = "get_prices" /\ outcome \in {"rows", "absent"} => Cached(cache', call[c][2])
  PROVE  Remembered'
<1> SUFFICES ASSUME circuit' = "closed", NEW k \in Listings, PricesAnswered(k)', ~ActionsAsked(k)'
             PROVE  Cached(cache, k)'
  BY DEF Remembered
<1> DEFINE p == <<"get_prices", k>>
           a == <<"get_corporate_actions", k>>
<1>1. p \in Calls /\ a \in Calls
  BY DEF Calls, EventMethods
<1>2. /\ call[c] \in Calls /\ result'[call[c]] = outcome
      /\ \A j \in Calls : j # call[c] => result'[j] = result[j]
  BY EndKeepsOrder
<1>3. a # call[c] /\ ~ActionsAsked(k)
  BY <1>1, <1>2 DEF ActionsAsked
<1>4. CASE p = call[c]
  BY <1>2, <1>4 DEF PricesAnswered
<1>5. CASE p # call[c]
  <2>1. PricesAnswered(k)
    BY <1>1, <1>2, <1>5 DEF PricesAnswered
  <2>2. Cached(cache, k)
    BY <1>3, <2>1 DEF HistoryInv, Remembered
  <2>3. CASE k = call[c][2]
    <3>1. call[c][1] \in {"get_dividends", "get_fx_rates"}
      <4>1. call[c][1] \in {"get_prices", "get_dividends", "get_corporate_actions", "get_fx_rates"}
        BY <1>2 DEF Calls, EventMethods
      <4>2. call[c] = <<call[c][1], k>>
        BY <1>2, <2>3, CallShape
      <4> QED BY <1>3, <1>5, <4>1, <4>2
    <3> QED BY <2>2, <3>1
  <2> QED BY <2>2, <2>3
<1> QED BY <1>4, <1>5

LEMMA EnterHistory == \A c \in Callers : HistoryInv /\ Enter(c) => HistoryInv'
<1> SUFFICES ASSUME NEW c \in Callers, HistoryInv, Enter(c) PROVE HistoryInv'
  OBVIOUS
<1> DEFINE key == call[c][2]
<1>1. IInv'
  BY EnterInvariant DEF HistoryInv
<1>2. /\ Active(c) /\ lock = Nobody /\ UNCHANGED todo /\ cache \in CacheType
      /\ call[c] \in Calls
  BY DEF Enter, Active, HistoryInv, IInv, TypeOK, CacheType
<1>3. CASE RefusedAtOnce(c) \/ RefusedByBudget(c)
  <2>1. End(c, "circuit") /\ circuit' # "closed"
    BY <1>3 DEF RefusedAtOnce, RefusedByBudget, Open, IsOpen
  <2> QED BY <1>1, <1>2, <2>1, EndKeepsOrder, EndKeepsOneHistory DEF HistoryInv, Remembered, Results
<1>4. CASE ServedFromCache(c)
  <2>1. PICK outcome \in {"cached", "absent", "error"} : End(c, outcome)
    BY <1>4 DEF ServedFromCache
  <2>2. UNCHANGED circuit /\ cache' = AfterMethod(call[c][1], key, cache) /\ call[c][1] \in EventMethods
    BY <1>4 DEF ServedFromCache, CanServeCached
  <2>3. \A k \in Listings : k # key => (Cached(cache, k) => Cached(cache', k))
    BY <1>2, <2>2, CachedAfter DEF AfterMethod
  <2>4. call[c][1] \in {"get_dividends", "get_fx_rates"} => cache' = cache
    BY <2>2 DEF AfterMethod
  <2>5. outcome \in Results \ {"none"} /\ call[c][1] # "get_prices"
    BY <2>1, <2>2 DEF Results, EventMethods
  <2>6. Remembered'
    BY <1>2, <2>1, <2>2, <2>3, <2>4, <2>5, EndRemembers
  <2> QED BY <1>1, <1>2, <2>1, <2>5, <2>6, EndKeepsOrder, EndKeepsOneHistory DEF HistoryInv
<1>5. CASE Pace(c)
  <2>1. /\ pc' = [pc EXCEPT ![c] = "pacing"] /\ circuit = "closed"
        /\ UNCHANGED <<circuit, cache, result, call, todo>>
        /\ ~CanServeCached(cache, call[c][1], key)
    BY <1>2, <1>5 DEF Pace, IsOpen
  <2>2. \A d \in Callers : (Active(d)' <=> Active(d)) /\ (InGuard(d)' => d = c)
    <3>1. \A d \in Callers : ~InGuard(d)
      BY <1>2, GuardedProviderAssumption DEF HistoryInv, IInv, Serialised
    <3> QED BY <1>2, <2>1, <3>1 DEF Active, InGuard, HistoryInv, IInv, TypeOK
  <2>3. SweepsInOrder'
    BY <2>1, <2>2, OtherKeepsOrder
  <2>4. Remembered'
    BY <2>1 DEF HistoryInv, Remembered, PricesAnswered, ActionsAsked
  <2>5. call[c][1] \in EventMethods => ~PricesAnswered(key)
    <3>1. SUFFICES ASSUME call[c][1] \in EventMethods, PricesAnswered(key) PROVE FALSE
      OBVIOUS
    <3>2. key \in Listings /\ ~Cached(cache, key)
      BY <1>2, <2>1, <3>1, CallShape DEF CanServeCached
    <3>3. ActionsAsked(key)
      BY <2>1, <3>1, <3>2 DEF HistoryInv, Remembered
    <3>4. <<"get_corporate_actions", key>> \in Calls
      BY <3>2 DEF Calls, EventMethods
    <3>5. Order("get_corporate_actions") <= Order(call[c][1])
      BY <1>2, <3>3, <3>4 DEF HistoryInv, SweepsInOrder, ActionsAsked
    <3>6. call[c][1] = "get_corporate_actions"
      BY <3>1, <3>5 DEF Order, EventMethods
    <3>7. call[c] = <<"get_corporate_actions", key>>
      BY <1>2, <3>6, CallShape
    <3> QED BY <1>2, <3>3, <3>7 DEF HistoryInv, SweepsInOrder, ActionsAsked
  <2>6. OneHistoryPerListing'
    BY <2>1, <2>2, <2>5 DEF OneHistoryPerListing, PricesAnswered
  <2> QED BY <1>1, <2>3, <2>4, <2>6 DEF HistoryInv
<1> QED BY <1>3, <1>4, <1>5 DEF Enter

LEMMA SendHistory == \A c \in Callers : HistoryInv /\ Send(c) => HistoryInv'
<1> SUFFICES ASSUME NEW c \in Callers, HistoryInv, Send(c) PROVE HistoryInv'
  OBVIOUS
<1>1. IInv'
  BY SendInvariant DEF HistoryInv
<1>2. pc[c] = "pacing" /\ Active(c) /\ lock = c /\ UNCHANGED <<todo, cache>>
  BY DEF Send, Active, HistoryInv, IInv, Serialised, InGuard
<1>3. CASE now >= MaxSeconds
  <2>1. End(c, "circuit") /\ circuit' # "closed"
    BY <1>3 DEF Send, Open
  <2> QED BY <1>1, <1>2, <2>1, EndKeepsOrder, EndKeepsOneHistory DEF HistoryInv, Remembered, Results
<1>4. CASE ~(now >= MaxSeconds)
  <2>1. pc' = [pc EXCEPT ![c] = "calling"] /\ UNCHANGED <<circuit, result, call>>
    BY <1>4 DEF Send
  <2>2. \A d \in Callers : (Active(d)' <=> Active(d)) /\ (InGuard(d)' <=> InGuard(d))
    BY <1>2, <2>1 DEF Active, InGuard, HistoryInv, IInv, TypeOK
  <2>3. SweepsInOrder'
    BY <1>2, <2>1, <2>2, OtherKeepsOrder
  <2> QED BY <1>1, <1>2, <2>1, <2>2, <2>3
          DEF HistoryInv, Remembered, OneHistoryPerListing, PricesAnswered, ActionsAsked
<1> QED BY <1>3, <1>4

(* A provider call may drop its entry only if it is the corporate-action   *)
(* query, which ends there or had no answered prices to begin with.        *)
LEMMA ReturnHistory == \A c \in Callers : HistoryInv /\ Return(c) => HistoryInv'
<1> SUFFICES ASSUME NEW c \in Callers, HistoryInv, Return(c) PROVE HistoryInv'
  OBVIOUS
<1> DEFINE key == call[c][2]
           method == call[c][1]
<1>1. IInv'
  BY ReturnInvariant DEF HistoryInv
<1>2. /\ Active(c) /\ lock = c /\ InGuard(c) /\ UNCHANGED todo /\ cache \in CacheType /\ call[c] \in Calls
  BY DEF Return, Active, HistoryInv, IInv, TypeOK, CacheType, Serialised, InGuard
<1>3. ASSUME NEW outcome \in Results \ {"none"}, End(c, outcome), circuit' = "closed" => circuit = "closed",
             \A k \in Listings : k # key => (Cached(cache, k) => Cached(cache', k)),
             method \in {"get_dividends", "get_fx_rates"} => cache' = cache,
             method = "get_prices" /\ outcome \in {"rows", "absent"} => Cached(cache', key)
      PROVE  HistoryInv'
  BY <1>1, <1>2, <1>3, EndKeepsOrder, EndKeepsOneHistory, EndRemembers DEF HistoryInv
<1>4. ASSUME NEW outcome \in Results \ {"none"}, End(c, outcome), circuit' # "closed"
      PROVE  HistoryInv'
  BY <1>1, <1>2, <1>4, EndKeepsOrder, EndKeepsOneHistory DEF HistoryInv, Remembered
<1>5. /\ \A k \in Listings : k # key => (Cached(cache, k) => Cached(AfterMethod(method, key, cache), k))
      /\ method # "get_corporate_actions" => AfterMethod(method, key, cache) = cache
  BY <1>2, CachedAfter DEF AfterMethod
<1>6. CASE Answered(c)
  <2>1. CASE method = "get_prices" /\ key \in Listings
    <3>1. PICK bytes \in 1 .. MaxSize :
            IF Fits(cache, key, bytes)
            THEN /\ cache' = Retain(cache, key, bytes)
                 /\ \E outcome \in {"rows", "absent", "error"} : End(c, outcome)
                 /\ UNCHANGED circuit
            ELSE /\ cache' = Discard(cache, key)
                 /\ Open(c, "memory")
      BY <1>6, <2>1 DEF Answered
    <3>2. CASE Fits(cache, key, bytes)
      <4>1. PICK outcome \in {"rows", "absent", "error"} : End(c, outcome)
        BY <3>1, <3>2
      <4>2. Cached(cache', key) /\ \A k \in Listings : k # key => (Cached(cache, k) => Cached(cache', k))
        <5>1. cache' = Retain(cache, key, bytes)
          BY <3>1, <3>2
        <5> HIDE DEF key, method
        <5>2. key \in Listings
          BY <2>1
        <5>3. \A k \in Listings : k # key => (Cached(Retain(cache, key, bytes), k) <=> Cached(cache, k))
          BY <1>2, CachedAfter
        <5>4. Cached(Retain(cache, key, bytes), key)
          BY <1>2, <5>2, CachedAfter
        <5> QED BY <5>1, <5>3, <5>4
      <4>3. outcome \in Results \ {"none"} /\ method \notin {"get_dividends", "get_fx_rates"}
        BY <2>1, <4>1 DEF Results
      <4>4. UNCHANGED circuit
        BY <3>1, <3>2
      <4> HIDE DEF method, key
      <4> QED BY <1>3, <4>1, <4>2, <4>3, <4>4
    <3>3. CASE ~Fits(cache, key, bytes)
      BY <1>4, <3>1, <3>3 DEF Open, Results
    <3> QED BY <3>2, <3>3
  <2>2. CASE ~(method = "get_prices" /\ key \in Listings)
    <3>1. method # "get_prices"
      BY <1>2, <2>2, CallShape
    <3>2. cache' = AfterMethod(method, key, cache) /\ End(c, "rows") /\ UNCHANGED circuit
      BY <1>6, <2>2 DEF Answered
    <3> QED BY <1>3, <1>5, <3>1, <3>2 DEF Results
  <2> QED BY <2>1, <2>2
<1>7. CASE Absent(c)
  <2>1. End(c, "absent") /\ UNCHANGED circuit
    BY <1>7 DEF Absent
  <2>2. CASE method = "get_prices"
    <3>1. cache' = RememberAbsence(cache, key) /\ key \in Listings
      BY <1>2, <1>7, <2>2, CallShape DEF Absent
    <3>2. Cached(cache', key) /\ \A k \in Listings : k # key => (Cached(cache, k) => Cached(cache', k))
      BY <1>2, <3>1, CachedAfter
    <3> QED BY <1>3, <2>1, <2>2, <3>2 DEF Results
  <2>3. CASE method # "get_prices"
    BY <1>3, <1>5, <1>7, <2>1, <2>3 DEF Absent, Results
  <2> QED BY <2>2, <2>3
<1>8. CASE RateLimited(c)
  BY <1>4, <1>8 DEF RateLimited, Open, Results
<1>9. CASE Failed(c)
  BY <1>3, <1>5, <1>9 DEF Failed, Results
<1>10. CASE Transient(c)
  <2>1. /\ pc' = [pc EXCEPT ![c] = "backoff"] /\ UNCHANGED <<circuit, result, call>>
        /\ cache' = AfterMethod(method, key, cache)
    BY <1>10 DEF Transient
  <2>2. \A d \in Callers : (Active(d)' <=> Active(d)) /\ ~InGuard(d)'
    <3>1. \A d \in Callers : d # c => ~InGuard(d)
      BY <1>2 DEF HistoryInv, IInv, Serialised
    <3> QED BY <1>2, <2>1, <3>1 DEF Active, InGuard, HistoryInv, IInv, TypeOK
  <2>3. SweepsInOrder'
    BY <1>2, <2>1, <2>2, OtherKeepsOrder
  <2>4. method = "get_corporate_actions" => ~PricesAnswered(key)
    BY <1>2 DEF HistoryInv, OneHistoryPerListing, PricesAnswered, EventMethods
  <2>5. Remembered'
    <3>1. SUFFICES ASSUME circuit = "closed", NEW k \in Listings, PricesAnswered(k), ~ActionsAsked(k)
                   PROVE  Cached(cache', k)
      BY <2>1 DEF Remembered, PricesAnswered, ActionsAsked
    <3>2. Cached(cache, k)
      BY <3>1 DEF HistoryInv, Remembered
    <3> QED BY <1>5, <2>1, <2>4, <3>1, <3>2
  <2>6. OneHistoryPerListing'
    BY <2>2 DEF OneHistoryPerListing
  <2> QED BY <1>1, <2>3, <2>5, <2>6 DEF HistoryInv
<1> QED BY <1>6, <1>7, <1>8, <1>9, <1>10 DEF Return

LEMMA InvokeHistory == \A c \in Callers : HistoryInv /\ Invoke(c) => HistoryInv'
<1> SUFFICES ASSUME NEW c \in Callers, HistoryInv, Invoke(c) PROVE HistoryInv'
  OBVIOUS
<1>1. IInv'
  BY InvokeInvariant DEF HistoryInv
<1>2. PICK k \in todo :
        /\ \A other \in todo : Order(k[1]) <= Order(other[1])
        /\ \A d \in Callers : pc[d] # "idle" => call[d][1] = k[1]
        /\ todo' = todo \ {k} /\ call' = [call EXCEPT ![c] = k]
  BY DEF Invoke
<1>3. pc[c] = "idle" /\ pc' = [pc EXCEPT ![c] = "waiting"] /\ UNCHANGED <<guardVars, result>> /\ k \in Calls
  BY <1>2 DEF Invoke, HistoryInv, IInv, TypeOK
<1>4. \A d \in Callers : /\ d # c => (Active(d)' <=> Active(d)) /\ call'[d] = call[d]
                         /\ d = c => ~Active(d) /\ call'[d] = k
                         /\ InGuard(d)' => InGuard(d) /\ d # c
  BY <1>2, <1>3 DEF Active, InGuard, HistoryInv, IInv, TypeOK
<1>5. SweepsInOrder'
  <2>1. \A j \in todo' : j \in todo /\ j # k /\ result'[j] = "none"
    BY <1>2, <1>3 DEF HistoryInv, SweepsInOrder
  <2>2. result'[k] = "none"
    BY <1>2, <1>3 DEF HistoryInv, SweepsInOrder
  <2>3. ASSUME NEW d \in Callers, Active(d)'
        PROVE  /\ result'[call'[d]] = "none" /\ call'[d] \notin todo'
               /\ \A j \in todo' : Order(call'[d][1]) <= Order(j[1])
               /\ \A e \in Callers : Active(e)' /\ d # e => call'[d] # call'[e] /\ call'[d][1] = call'[e][1]
    <3>1. CASE d = c
      <4>1. \A e \in Callers : Active(e)' /\ e # c => call'[e] # k /\ call'[e][1] = k[1]
        BY <1>2, <1>4 DEF HistoryInv, SweepsInOrder, Active
      <4> QED BY <1>2, <1>4, <2>1, <2>2, <3>1, <4>1
    <3>2. CASE d # c
      <4>1. Active(d) /\ call'[d] = call[d] /\ call[d] \notin todo
        BY <1>4, <2>3, <3>2 DEF HistoryInv, SweepsInOrder
      <4>2. result'[call'[d]] = "none"
        BY <1>3, <4>1 DEF HistoryInv, SweepsInOrder
      <4>3. \A j \in todo' : Order(call'[d][1]) <= Order(j[1])
        BY <2>1, <4>1 DEF HistoryInv, SweepsInOrder
      <4>4. ASSUME NEW e \in Callers, Active(e)', d # e
            PROVE  call'[d] # call'[e] /\ call'[d][1] = call'[e][1]
        <5>1. CASE e = c
          BY <1>2, <1>4, <4>1, <5>1 DEF Active
        <5>2. CASE e # c
          BY <1>4, <4>1, <4>4, <5>2 DEF HistoryInv, SweepsInOrder
        <5> QED BY <5>1, <5>2
      <4> QED BY <1>2, <4>1, <4>2, <4>3, <4>4
    <3> QED BY <3>1, <3>2
  <2>4. ASSUME NEW j \in Calls, result'[j] # "none"
        PROVE  /\ \A i \in todo' : Order(j[1]) <= Order(i[1])
               /\ \A d \in Callers : Active(d)' => Order(j[1]) <= Order(call'[d][1])
    <3>1. \A i \in todo : Order(j[1]) <= Order(i[1])
      BY <1>3, <2>4 DEF HistoryInv, SweepsInOrder
    <3>2. \A d \in Callers : Active(d) => Order(j[1]) <= Order(call[d][1])
      BY <1>3, <2>4 DEF HistoryInv, SweepsInOrder
    <3> QED BY <1>2, <1>4, <2>1, <3>1, <3>2
  <2> QED BY <2>1, <2>3, <2>4 DEF SweepsInOrder
<1>6. Remembered'
  BY <1>3 DEF HistoryInv, Remembered, PricesAnswered, ActionsAsked, guardVars
<1>7. OneHistoryPerListing'
  BY <1>3, <1>4 DEF HistoryInv, OneHistoryPerListing
<1> QED BY <1>1, <1>5, <1>6, <1>7 DEF HistoryInv

LEMMA RetryHistory == \A c \in Callers : HistoryInv /\ Retry(c) => HistoryInv'
<1> SUFFICES ASSUME NEW c \in Callers, HistoryInv, Retry(c) PROVE HistoryInv'
  OBVIOUS
<1>1. IInv'
  BY RetryInvariant DEF HistoryInv
<1>2. \A d \in Callers : (Active(d)' <=> Active(d)) /\ (InGuard(d)' <=> InGuard(d))
  BY DEF Retry, Active, InGuard, HistoryInv, IInv, TypeOK
<1>3. UNCHANGED <<todo, result, call, cache, circuit>>
  BY DEF Retry, guardVars
<1>4. SweepsInOrder'
  BY <1>2, <1>3, OtherKeepsOrder
<1> QED BY <1>1, <1>2, <1>3, <1>4
        DEF HistoryInv, Remembered, OneHistoryPerListing, PricesAnswered, ActionsAsked

LEMMA StepHistory == HistoryInv /\ [Next]_vars => HistoryInv'
<1> SUFFICES ASSUME HistoryInv, [Next]_vars PROVE HistoryInv'
  OBVIOUS
<1>1. CASE Tick \/ UNCHANGED vars
  <2>1. UNCHANGED <<todo, result, call, pc, cache, circuit>>
    BY <1>1 DEF Tick, vars, guardVars, callerVars
  <2>2. IInv'
    BY <1>1, TickInvariant, StutterInvariant DEF HistoryInv
  <2>3. \A d \in Callers : (Active(d)' <=> Active(d)) /\ (InGuard(d)' <=> InGuard(d))
    BY <2>1 DEF Active, InGuard
  <2>4. SweepsInOrder'
    BY <2>1, <2>3, OtherKeepsOrder
  <2> QED BY <2>1, <2>2, <2>3, <2>4
          DEF HistoryInv, Remembered, OneHistoryPerListing, PricesAnswered, ActionsAsked
<1> QED BY <1>1, InvokeHistory, EnterHistory, SendHistory, ReturnHistory, RetryHistory DEF Next, Step

LEMMA InitHistory == Init => HistoryInv
<1> SUFFICES ASSUME Init PROVE HistoryInv
  OBVIOUS
<1>1. IInv
  BY InitInvariant
<1>2. \A k \in Calls : result[k] = "none"
  BY DEF Init
<1>3. \A c \in Callers : ~Active(c) /\ ~InGuard(c)
  BY DEF Init, Active, InGuard
<1>4. \A k \in Listings : ~PricesAnswered(k)
  <2>1. \A k \in Listings : <<"get_prices", k>> \in Calls
    BY DEF Calls
  <2> QED BY <1>2, <2>1 DEF PricesAnswered
<1> QED BY <1>1, <1>2, <1>3, <1>4
        DEF HistoryInv, SweepsInOrder, Remembered, OneHistoryPerListing, Init

(* A listing whose prices were answered is never queried again.            *)
THEOREM NoListingTwice == Spec => []OneHistoryPerListing
<1>1. HistoryInv => OneHistoryPerListing
  BY DEF HistoryInv
<1> QED BY <1>1, InitHistory, StepHistory, PTL DEF Spec

================================================================================
