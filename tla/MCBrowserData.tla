----------------------------- MODULE MCBrowserData -----------------------------
(* Instances of BrowserData for TLC: two tabs, the ledger edited in one; a *)
(* loader in the first, and two of two addresses in the second.  A         *)
(* behaviour is about the ledger of one tab and the restore in the other,  *)
(* about the manifests of all loaders, about the packs of one, or about    *)
(* the ledger and the packs with less of each.                             *)
EXTENDS BrowserData

CONSTANTS a, b, packs1, packs2, remote2

MCPageOf   == [loader \in Loaders |-> IF loader = packs1 THEN a ELSE b]
MCOriginOf == [loader \in Loaders |-> IF loader = remote2 THEN 2 ELSE 1]

VARIABLE about

MCInit == Init /\ about \in {"ledger", "manifests", "packs", "both"}

MCNext ==
  /\ \/ \E page \in Pages : Visit(page) \/ Leave(page)
     \/ \E i \in DOMAIN requests : Database(i)
     \/ about = "ledger" /\ Act
     \/ about = "both" /\ Act /\ used' \subseteq {1}
     \/ about = "manifests" /\ (\E loader \in Loaders : Load(loader) \/ Network(loader)) /\ UNCHANGED packs
     \/ about \in {"packs", "both"} /\ (Load(packs2) \/ Network(packs2))
     \/ about \in {"manifests", "packs"} /\ Publish
  /\ UNCHANGED about

MCSpec == MCInit /\ [][MCNext]_<<vars, about>> /\ Fairness

===============================================================================
