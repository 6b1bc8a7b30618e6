----------------------------- MODULE GuardedProvider -----------------------------
(***************************************************************************)
(* data/providers/guarded.py, GuardedProvider, around a provider with the  *)
(* event cache, called as scripts/update_incremental.py does: the main     *)
(* thread fetches prices, then a pool of threads the dividends, then one   *)
(* the corporate actions, then the main thread the FX rates.               *)
(*                                                                         *)
(* Each step of a caller is a stretch of _call during which no other       *)
(* thread can interfere: from taking the lock to the pacing sleep, from    *)
(* there to the provider call, from its return to the release of the lock. *)
(***************************************************************************)
EXTENDS EventCache, Functions

CONSTANTS
  Callers,      (* threads                                                 *)
  Main,         (* the thread that fetches prices and rates                *)
  Nobody,       (* the owner of a free lock                                *)
  Currencies,   (* the keys of FX queries                                  *)
  Interval,     (* least time between two starts                           *)
  Retries,      (* retries after a transient failure                       *)
  Backoff,      (* the delay before each retry, backoff * 2 ** attempt     *)
  MaxRequests,  (* request budget of the run                               *)
  MaxSeconds,   (* time budget of the run                                  *)
  MaxNow,       (* bound: the horizon of the clock, beyond the time budget *)
  MaxSize       (* bound: bytes of one event frame                         *)

ASSUME GuardedProviderAssumption ==
  /\ Main \in Callers /\ Nobody \notin Callers
  /\ Interval \in Nat /\ Retries \in Nat /\ Backoff \in [0 .. Retries -> Nat]
  /\ MaxRequests \in Nat /\ MaxSeconds \in Nat
  /\ MaxNow \in Nat /\ MaxSeconds <= MaxNow /\ MaxSize \in Nat \ {0}

VARIABLES
  now,          (* the clock, 0 when the guard was made                    *)
  lock,         (* holder of the guard's lock                              *)
  circuit,      (* circuit_reason: "closed" or why it is open              *)
  requests,     (* uncached provider calls                                 *)
  lastStarted,  (* start of the latest of them                             *)
  cache,        (* the provider's event cache                              *)
  todo,         (* calls the run has yet to make                           *)
  result,       (* what each call of the run returned or raised            *)
  pc,           (* where each caller is in _call                           *)
  call,         (* the call it makes                                       *)
  attempt,      (* its retry loop                                          *)
  wakeAt        (* the end of its sleep                                    *)

guardVars  == <<lock, circuit, requests, lastStarted, cache>>
callerVars == <<pc, call, attempt, wakeAt>>
vars       == <<now, guardVars, todo, result, callerVars>>

Calls == ({"get_prices"} \cup EventMethods) \X Listings
           \cup {"get_fx_rates"} \X Currencies

NoCall == <<"none", Nobody>>

Reasons == {"budget", "memory", "rate limit"}
Results == {"none", "rows", "cached", "absent", "error", "circuit"}
Places  == {"idle", "waiting", "pacing", "calling", "backoff"}

(* Beyond the horizon every sleep is over, and so is the time budget.      *)
Awake(c) == wakeAt[c] <= now \/ now = MaxNow

------------------------------------------------------------------------------
(* The run around the guard                                                *)

Order(method) == CASE method = "get_prices"            -> 1
                   [] method = "get_dividends"         -> 2
                   [] method = "get_corporate_actions" -> 3
                   [] method = "get_fx_rates"          -> 4

(* A sweep begins when the one before has been collected.                  *)
Invoke(c) ==
  /\ pc[c] = "idle"
  /\ \E k \in todo :
       /\ \A other \in todo : Order(k[1]) <= Order(other[1])
       /\ \A d \in Callers : pc[d] # "idle" => call[d][1] = k[1]
       /\ k[1] \notin EventMethods => c = Main
       /\ todo' = todo \ {k}
       /\ call' = [call EXCEPT ![c] = k]
  /\ pc' = [pc EXCEPT ![c] = "waiting"]
  /\ UNCHANGED <<now, guardVars, result, attempt, wakeAt>>

Tick ==
  /\ now < MaxNow
  /\ \E c \in Callers : pc[c] # "idle"
  /\ now' = now + 1
  /\ UNCHANGED <<guardVars, todo, result, callerVars>>

------------------------------------------------------------------------------
(* _call                                                                   *)

(* The call ends, by a return or an exception, and the lock is released.   *)
End(c, outcome) ==
  /\ result' = [result EXCEPT ![call[c]] = outcome]
  /\ pc' = [pc EXCEPT ![c] = "idle"]
  /\ call' = [call EXCEPT ![c] = NoCall]
  /\ attempt' = [attempt EXCEPT ![c] = 0]
  /\ wakeAt' = [wakeAt EXCEPT ![c] = 0]
  /\ lock' = Nobody

Open(c, reason) == circuit' = reason /\ End(c, "circuit")

(* Variant with a bug: every event query discards the entry.               *)
AfterAnyEvent(method, key, kept) ==
  IF method \in EventMethods THEN Discard(kept, key) ELSE kept

(* get_corporate_actions discards the entry whatever happened.             *)
AfterMethod(method, key, kept) ==
  IF method = "get_corporate_actions" THEN Discard(kept, key) ELSE kept

(* Variant with a bug: the circuit is looked at before the retry loop.     *)
OpenAtFirst(c) == circuit # "closed" /\ attempt[c] = 0

IsOpen(c) == circuit # "closed"

RefusedAtOnce(c) ==
  /\ IsOpen(c)
  /\ End(c, "circuit")
  /\ UNCHANGED <<circuit, requests, lastStarted, cache>>

ServedFromCache(c) ==
  /\ ~IsOpen(c)
  /\ CanServeCached(cache, call[c][1], call[c][2])
  /\ \E outcome \in IF call[c][2] \in cache.absent THEN {"absent"} ELSE {"cached", "absent", "error"} :
       End(c, outcome)
  /\ cache' = AfterMethod(call[c][1], call[c][2], cache)
  /\ UNCHANGED <<circuit, requests, lastStarted>>

BudgetSpent == requests >= MaxRequests \/ now >= MaxSeconds

RefusedByBudget(c) ==
  /\ ~IsOpen(c)
  /\ ~CanServeCached(cache, call[c][1], call[c][2])
  /\ BudgetSpent
  /\ Open(c, "budget")
  /\ UNCHANGED <<requests, lastStarted, cache>>

(* Variant with a bug: the pacing sleep is taken outside the lock.         *)
PaceUnlocked(c) ==
  /\ ~IsOpen(c)
  /\ ~CanServeCached(cache, call[c][1], call[c][2])
  /\ ~BudgetSpent
  /\ pc' = [pc EXCEPT ![c] = "pacing"]
  /\ wakeAt' = [wakeAt EXCEPT ![c] = lastStarted + Interval]
  /\ UNCHANGED <<lock, circuit, requests, lastStarted, cache, result, call, attempt>>

(* The pacing sleep is taken inside the lock.                              *)
Pace(c) ==
  /\ ~IsOpen(c)
  /\ ~CanServeCached(cache, call[c][1], call[c][2])
  /\ ~BudgetSpent
  /\ lock' = c
  /\ pc' = [pc EXCEPT ![c] = "pacing"]
  /\ wakeAt' = [wakeAt EXCEPT ![c] = lastStarted + Interval]
  /\ UNCHANGED <<circuit, requests, lastStarted, cache, result, call, attempt>>

Enter(c) ==
  /\ pc[c] = "waiting"
  /\ lock = Nobody
  /\ RefusedAtOnce(c) \/ ServedFromCache(c) \/ RefusedByBudget(c) \/ Pace(c)
  /\ UNCHANGED <<now, todo>>

(* Variant with a bug: the time budget is not looked at after the sleep.   *)
SendAfterSleep(c) ==
  /\ pc[c] = "pacing"
  /\ Awake(c)
  /\ lastStarted' = now
  /\ requests' = requests + 1
  /\ pc' = [pc EXCEPT ![c] = "calling"]
  /\ wakeAt' = [wakeAt EXCEPT ![c] = 0]
  /\ UNCHANGED <<lock, circuit, result, call, attempt, now, cache, todo>>

Send(c) ==
  /\ pc[c] = "pacing"
  /\ Awake(c)
  /\ IF now >= MaxSeconds
     THEN Open(c, "budget") /\ UNCHANGED <<lastStarted, requests>>
     ELSE /\ lastStarted' = now
          /\ requests' = requests + 1
          /\ pc' = [pc EXCEPT ![c] = "calling"]
          /\ wakeAt' = [wakeAt EXCEPT ![c] = 0]
          /\ UNCHANGED <<lock, circuit, result, call, attempt>>
  /\ UNCHANGED <<now, cache, todo>>

(* The provider answers with rows.  A price answer brings the event frame  *)
(* of its listing, kept even if no row of it is in the price window or one *)
(* of its prices cannot be read.                                           *)
Answered(c) ==
  LET method == call[c][1]
      key    == call[c][2]
  IN  IF method = "get_prices" /\ key \in Listings
      THEN \E bytes \in 1 .. MaxSize :
             IF Fits(cache, key, bytes)
             THEN /\ cache' = Retain(cache, key, bytes)
                  /\ \E outcome \in {"rows", "absent", "error"} : End(c, outcome)
                  /\ UNCHANGED circuit
             ELSE /\ cache' = Discard(cache, key)
                  /\ Open(c, "memory")
      ELSE /\ cache' = AfterMethod(method, key, cache)
           /\ End(c, "rows")
           /\ UNCHANGED circuit

Absent(c) ==
  /\ cache' = IF call[c][1] = "get_prices" THEN RememberAbsence(cache, call[c][2])
              ELSE AfterMethod(call[c][1], call[c][2], cache)
  /\ End(c, "absent")
  /\ UNCHANGED circuit

RateLimited(c) ==
  /\ cache' = AfterMethod(call[c][1], call[c][2], cache)
  /\ Open(c, "rate limit")

Failed(c) ==
  /\ cache' = AfterMethod(call[c][1], call[c][2], cache)
  /\ End(c, "error")
  /\ UNCHANGED circuit

(* Variant with a bug: the retry is made from inside the lock.             *)
RetryInLock(c) ==
  /\ attempt[c] < Retries
  /\ cache' = AfterMethod(call[c][1], call[c][2], cache)
  /\ wakeAt' = [wakeAt EXCEPT ![c] = now + Backoff[attempt[c]]]
  /\ pc' = [pc EXCEPT ![c] = "backoff"]
  /\ UNCHANGED <<lock, circuit, result, call, attempt>>

(* A transient failure with a retry left; it sleeps without the lock.      *)
Transient(c) ==
  /\ attempt[c] < Retries
  /\ cache' = AfterMethod(call[c][1], call[c][2], cache)
  /\ lock' = Nobody
  /\ wakeAt' = [wakeAt EXCEPT ![c] = now + Backoff[attempt[c]]]
  /\ pc' = [pc EXCEPT ![c] = "backoff"]
  /\ UNCHANGED <<circuit, result, call, attempt>>

Return(c) ==
  /\ pc[c] = "calling"
  /\ Answered(c) \/ Absent(c) \/ RateLimited(c) \/ Failed(c) \/ Transient(c)
  /\ UNCHANGED <<now, requests, lastStarted, todo>>

Retry(c) ==
  /\ pc[c] = "backoff"
  /\ Awake(c)
  /\ attempt' = [attempt EXCEPT ![c] = @ + 1]
  /\ pc' = [pc EXCEPT ![c] = "waiting"]
  /\ wakeAt' = [wakeAt EXCEPT ![c] = 0]
  /\ UNCHANGED <<now, guardVars, todo, result, call>>

------------------------------------------------------------------------------
Init ==
  /\ now = 0 /\ lock = Nobody /\ circuit = "closed"
  /\ requests = 0 /\ lastStarted = 0 - Interval
  /\ cache = EmptyCache
  /\ todo = Calls
  /\ result = [k \in Calls |-> "none"]
  /\ pc = [c \in Callers |-> "idle"]
  /\ call = [c \in Callers |-> NoCall]
  /\ attempt = [c \in Callers |-> 0]
  /\ wakeAt = [c \in Callers |-> 0]

Step(c) == Invoke(c) \/ Enter(c) \/ Send(c) \/ Return(c) \/ Retry(c)

Next == Tick \/ \E c \in Callers : Step(c)

(* Threads are scheduled, sleeps end and every provider call returns, by   *)
(* its timeout if need be.                                                 *)
Fairness == WF_vars(Tick) /\ \A c \in Callers : WF_vars(Step(c))

Spec == Init /\ [][Next]_vars
FairSpec == Spec /\ Fairness

------------------------------------------------------------------------------
(* Properties                                                              *)

(* The state of the guard, of the cache and of each call in progress.      *)
TypeOK ==
  /\ now \in 0 .. MaxNow
  /\ lock \in Callers \cup {Nobody}
  /\ circuit \in {"closed"} \cup Reasons
  /\ requests \in Nat /\ lastStarted \in Int
  /\ cache \in [size : [Listings -> 0 .. MaxSize], absent : SUBSET Listings, bytes : Int]
  /\ todo \subseteq Calls /\ result \in [Calls -> Results]
  /\ pc \in [Callers -> Places]
  /\ call \in [Callers -> Calls \cup {NoCall}]
  /\ \A c \in Callers : pc[c] = "idle" <=> call[c] = NoCall
  /\ attempt \in [Callers -> 0 .. Retries]
  /\ wakeAt \in [Callers -> Int]

InGuard(c) == pc[c] \in {"pacing", "calling"}

(* "Serialize calls as well as starts" (guarded.py:46): whatever datasets  *)
(* the threads fetch, only the holder of the lock paces or calls.          *)
Serialised == \A c \in Callers : InGuard(c) <=> lock = c

(* Two provider calls never start within the interval of each other, with  *)
(* retries of several threads running out of their backoff at once.        *)
Paced == [][requests' # requests => now >= lastStarted + Interval]_vars

(* Once the circuit is open no thread starts a provider call, retries that *)
(* were asleep included, and the reason reported is the first one.         *)
NothingAfterOpen ==
  [][circuit # "closed" => requests' = requests /\ circuit' = circuit]_vars

(* No call starts beyond the request budget, or after the time budget: not *)
(* even one that was within it before the pacing sleep.                    *)
BudgetKept == requests <= MaxRequests /\ (requests > 0 => lastStarted < MaxSeconds)

(* A listing whose prices the provider answered, with rows or with a typed *)
(* absence, is not queried again for its events.                           *)
OneHistoryPerListing ==
  \A c \in Callers :
    InGuard(c) /\ call[c][1] \in EventMethods
      => result[<<"get_prices", call[c][2]>>] \notin {"rows", "absent"}

(* Every call comes back, also when others fail, wait or open the circuit. *)
EveryCallReturns == \A c \in Callers : pc[c] # "idle" ~> pc[c] = "idle"

==============================================================================
