------------------------------ MODULE PackLoader ------------------------------
(***************************************************************************)
(* How a page gets its market data (frontend/engine/pack-loader.js): the   *)
(* manifest, from the cache or the network, and the packs of the years of  *)
(* an analysis.  A page has three loaders: `packs' and `s5PackLoader' of   *)
(* the page's own site, and `packsRemote' of the address PACK_BASE.  Each  *)
(* keeps its own manifest, but all of them, in all tabs, store it under    *)
(* one key (MANIFEST_CACHE_KEY).  What an address serves is replaced as a  *)
(* whole from time to time.  The publications of all addresses are         *)
(* numbered in their order; a manifest or pack is known by this number.    *)
(*                                                                         *)
(* Left out: the rows inside a pack, and HTTP caching.                     *)
(***************************************************************************)
EXTENDS BrowserDatabase

CONSTANTS
  Loaders,       (* the loaders of all tabs                                *)
  PageOf,        (* the tab of each                                        *)
  Origins,       (* the addresses, numbered like their first publications  *)
  OriginOf,      (* the address each loader fetches from                   *)
  Years,         (* the years of an analysis                               *)
  Retries,       (* retries of a fetch                                     *)
  Ttl,           (* how long a stored manifest is fresh                    *)
  MaxSnapshot,   (* bound: publications                                    *)
  MaxHour        (* bound: the end of the clock                            *)

ASSUME LoadersAssumption == PageOf \in [Loaders -> Pages] /\ OriginOf \in [Loaders -> Origins]

ASSUME PackLoaderAssumption ==
  /\ Years \subseteq Nat /\ Years # {} /\ Retries \in Nat /\ Ttl \in Nat
  /\ MaxSnapshot \in Nat \ {0} /\ MaxHour \in Nat
  /\ Origins \subseteq 1 .. MaxSnapshot

Snapshots == 1 .. MaxSnapshot
NoEntry   == [snapshot |-> 0, at |-> 0]
NoInputs  == [snapshot |-> 0, packs |-> <<>>]

VARIABLES
  site,      (* the snapshot that each address serves                      *)
  replaced,  (* when each snapshot was replaced; MaxHour + 1 before that   *)
  hour,
  entry,     (* the stored manifest                                        *)
  manifest,  (* of each loader: phase, attempts failed, snapshot, and the  *)
             (* hour of its arrival                                        *)
  packs,     (* the load in progress: attempts failed and snapshot by year *)
  inputs     (* the inputs last assembled                                  *)

loaderVars == <<site, replaced, hour, entry, manifest, packs, inputs>>

NoManifest  == [phase |-> "none", tries |-> 0, snapshot |-> 0, hour |-> 0]
AskedPack   == [tries |-> 0, snapshot |-> 0]

Ready(snapshot) == [phase |-> "ready", tries |-> 0, snapshot |-> snapshot, hour |-> hour]

Current(loader) == site[OriginOf[loader]]

(* The loaders of a closed tab are gone with it.                           *)
ForgetLoaders(page) ==
  LET Forget(f, value) == [loader \in Loaders |-> IF PageOf[loader] = page THEN value ELSE f[loader]]
  IN  /\ manifest' = Forget(manifest, NoManifest)
      /\ packs' = Forget(packs, <<>>) /\ inputs' = Forget(inputs, NoInputs)
      /\ UNCHANGED <<site, replaced, hour, entry>>

(* loadManifest: the promise is kept, also when it is rejected.            *)
LoadManifest(loader) ==
  /\ manifest[loader].phase = "none"
  /\ manifest' = [manifest EXCEPT ![loader].phase = "reading"]
  /\ requests' = Append(requests, Request(PageOf[loader], "manifestRead", loader))
  /\ UNCHANGED <<site, replaced, hour, entry, packs, inputs>>

(* Variant with a bug: any stored manifest is fresh.                       *)
IsStored(stored) == stored.snapshot # 0

IsFresh(stored) == stored.snapshot # 0 /\ hour - stored.at < Ttl

(* The continuation of the cache operations: a read that fails or finds no *)
(* fresh manifest leads to the network.                                    *)
ContinueManifest(request, ok) ==
  LET stored == IF ok /\ "meta" \in stores THEN entry ELSE NoEntry
  IN  /\ manifest' = IF request.kind # "manifestRead" THEN manifest
                     ELSE [manifest EXCEPT ![request.value] =
                             IF IsFresh(stored) THEN Ready(stored.snapshot) ELSE [@ EXCEPT !.phase = "fetching"]]
      /\ entry' = IF request.kind = "manifestWrite" /\ ok /\ "meta" \in stores
                  THEN request.value ELSE entry
      /\ UNCHANGED <<site, replaced, hour, packs, inputs>>

(* fetchJson of the manifest; a fetch that ends without an answer is a     *)
(* failed one (AbortSignal.timeout).                                       *)
FetchManifest(loader) ==
  /\ manifest[loader].phase = "fetching"
  /\ \/ /\ manifest' = [manifest EXCEPT ![loader] = Ready(Current(loader))]
        /\ requests' = Append(requests, Request(PageOf[loader], "manifestWrite", [snapshot |-> Current(loader), at |-> hour]))
     \/ /\ manifest' = IF manifest[loader].tries < Retries THEN [manifest EXCEPT ![loader].tries = @ + 1]
                       ELSE [manifest EXCEPT ![loader].phase = "failed"]
        /\ UNCHANGED requests
  /\ UNCHANGED <<site, replaced, hour, entry, packs, inputs>>

(* loadSecurityInputs: the packs of all years are asked for at once.       *)
LoadInputs(loader) ==
  /\ manifest[loader].phase = "ready" /\ packs[loader] = <<>>
  /\ packs' = [packs EXCEPT ![loader] = [year \in Years |-> AskedPack]]
  /\ inputs' = [inputs EXCEPT ![loader] = NoInputs]
  /\ UNCHANGED <<site, replaced, hour, entry, manifest>>

(* Variant with a bug: a year that fails is left out of the inputs.        *)
FetchPackOrSkip(loader, year) ==
  /\ year \in DOMAIN packs[loader] /\ packs[loader][year].snapshot = 0
  /\ packs' = [packs EXCEPT ![loader] = [other \in DOMAIN @ \ {year} |-> @[other]]]
     \/ packs' = [packs EXCEPT ![loader][year].snapshot = Current(loader)]
  /\ UNCHANGED <<site, replaced, hour, entry, manifest, inputs>>

(* Variant with a bug: the last failure of a pack is not reported.         *)
FetchPackSilently(loader, year) ==
  /\ year \in DOMAIN packs[loader] /\ packs[loader][year].snapshot = 0 /\ packs[loader][year].tries <= Retries
  /\ packs' = [packs EXCEPT ![loader][year].tries = @ + 1] \/ packs' = [packs EXCEPT ![loader][year].snapshot = Current(loader)]
  /\ UNCHANGED <<site, replaced, hour, entry, manifest, inputs>>

(* A pack arrives, or fails: after the last retry the whole load does.     *)
FetchPack(loader, year) ==
  /\ year \in DOMAIN packs[loader] /\ packs[loader][year].snapshot = 0
  /\ packs' = [packs EXCEPT ![loader] =
                 IF packs[loader][year].tries < Retries THEN [packs[loader] EXCEPT ![year].tries = @ + 1] ELSE <<>>]
     \/ packs' = [packs EXCEPT ![loader][year].snapshot = Current(loader)]
  /\ UNCHANGED <<site, replaced, hour, entry, manifest, inputs>>

(* The packs are joined; the last one names the snapshot.                  *)
Join(loader) ==
  /\ packs[loader] # <<>> /\ \A year \in DOMAIN packs[loader] : packs[loader][year].snapshot # 0
  /\ LET last == CHOOSE year \in DOMAIN packs[loader] : \A other \in DOMAIN packs[loader] : other <= year
     IN  inputs' = [inputs EXCEPT ![loader] =
                      [snapshot |-> packs[loader][last].snapshot,
                       packs    |-> [year \in DOMAIN packs[loader] |-> packs[loader][year].snapshot]]]
  /\ packs' = [packs EXCEPT ![loader] = <<>>]
  /\ UNCHANGED <<site, replaced, hour, entry, manifest>>

(* What an address serves is replaced by a newer publication.              *)
Deploy(origin) ==
  /\ \E new \in Snapshots :
       /\ \A other \in Origins : site[other] < new
       /\ \E other \in Origins : site[other] = new - 1
       /\ site' = [site EXCEPT ![origin] = new]
  /\ replaced' = [replaced EXCEPT ![site[origin]] = hour]
  /\ UNCHANGED <<hour, entry, manifest, packs, inputs>>

Hour ==
  /\ hour < MaxHour
  /\ hour' = hour + 1
  /\ UNCHANGED <<site, replaced, entry, manifest, packs, inputs>>

===============================================================================
