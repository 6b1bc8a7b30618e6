---------------------------- MODULE MCGuardedProvider ----------------------------
(* GuardedProvider for TLC: the main thread and one thread of the pool,    *)
(* two listings, whose event frames need not fit together, and one         *)
(* currency; the request budget, the time budget, the cache limit and the  *)
(* retries each run out on some path.                                      *)
EXTENDS GuardedProvider

CONSTANTS main, pool, d05, o39, usd

MCBackoff == [attempted \in 0 .. Retries |-> 2 ^ attempted]

==============================================================================
