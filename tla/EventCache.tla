------------------------------- MODULE EventCache -------------------------------
(***************************************************************************)
(* The event cache of YahooFinanceProvider (data/providers/yahoo.py): the  *)
(* one history query of a listing is kept for its dividend query and       *)
(* dropped after its corporate-action query.                               *)
(*                                                                         *)
(* Windows are left out: _shared_history_windows lets the price query of a *)
(* listing start at the earliest of its three windows, and all end on one  *)
(* day, so an entry covers every later event query of its listing.         *)
(***************************************************************************)
EXTENDS Integers

CONSTANTS
  Listings,     (* securities with a shared history window                 *)
  Limit         (* max_event_cache_bytes, in units of the model            *)

ASSUME EventCacheAssumption == Limit \in Nat

EventMethods == {"get_dividends", "get_corporate_actions"}

(* size: bytes of the event frame of each listing, 0 for no entry; absent: *)
(* listings whose price query was answered by a typed absence of history;  *)
(* bytes: the running total _event_cache_bytes.                            *)
EmptyCache == [size |-> [k \in Listings |-> 0], absent |-> {}, bytes |-> 0]

Cached(cache, key) == key \in Listings /\ (cache.size[key] > 0 \/ key \in cache.absent)

CanServeCached(cache, method, key) == method \in EventMethods /\ Cached(cache, key)

(* _discard_cached_history *)
Discard(cache, key) ==
  [size   |-> [k \in Listings |-> IF k = key THEN 0 ELSE cache.size[k]],
   absent |-> cache.absent \ {key},
   bytes  |-> cache.bytes - (IF key \in Listings THEN cache.size[key] ELSE 0)]

(* _shared_price_history: the old entry goes first, so an entry that does  *)
(* not fit leaves none behind.                                             *)
Fits(cache, key, bytes) == Discard(cache, key).bytes + bytes <= Limit

Retain(cache, key, bytes) ==
  LET room == Discard(cache, key)
  IN  [size   |-> [k \in Listings |-> IF k = key THEN bytes ELSE room.size[k]],
       absent |-> room.absent,
       bytes  |-> room.bytes + bytes]

RememberAbsence(cache, key) == [cache EXCEPT !.absent = @ \cup ({key} \cap Listings)]

==============================================================================
