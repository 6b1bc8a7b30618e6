--------------------------- MODULE MaintenanceProofs ---------------------------
(***************************************************************************)
(* What holds of the five scripts that are run by hand, for any            *)
(* securities, listings, currencies, stores and bounds, and however often  *)
(* a script is killed.                                                     *)
(*                                                                         *)
(* Publication: the check at the end of a prune compares names only.  That *)
(* this is enough rests on the order of the steps: a full build removes    *)
(* the manifest before it writes the first pack and writes it back after   *)
(* the last one; a merge touches only the packs whose entries it is about  *)
(* to replace, and a kill in between leaves exactly these in doubt.        *)
(*                                                                         *)
(* Removal: it completes only after the catalog it saved excludes what the *)
(* configuration excludes, and nothing takes an identifier out of the      *)
(* exclusions again; the catalog lists none of them, and every other file  *)
(* is filled from what the catalog lists.                                  *)
(*                                                                         *)
(* Rates: the mean ratio that a run rescales the mirror's series by is the *)
(* level itself, because the sum of one level over a finite set of months  *)
(* is the level times their number.                                        *)
(*                                                                         *)
(* Prices: memory and file agree on the attempts at every point, a request *)
(* is either on record, in flight, or lost in a crash, and a security is   *)
(* given up at the last attempt only.  What a run still has to ask for was *)
(* not covered when it began; its own writes add no rows to it, and the    *)
(* date of the run stays: it remains uncovered.                            *)
(*                                                                         *)
(* Dividends: an event may be missing from the archive only if it lies     *)
(* within the reconciliation window of the last successful query, or       *)
(* later.  A run starts its query there; what it asked for it holds in     *)
(* memory until the archive is written, and only then moves the            *)
(* checkpoint.                                                             *)
(***************************************************************************)
EXTENDS PackPublication, FxHistory, ListingRemoval, PriceBackfill, DividendBackfill, SumLemmas

-------------------------------------------------------------------------------
(* The publication of the packs                                            *)

(* A pack that is there is the one its entry describes.                    *)
IsOf(pack, m) == m.built[pack] = NoFile \/ packs[pack] \in {NoFile, m.built[pack]}
Agrees(m)     == \A pack \in Files \ replaced : IsOf(pack, m)

(* The step belongs to the script, and a running script is not judged yet. *)
StepInv ==
  /\ DOMAIN packs = Files
  /\ \/ task = "none"  /\ step = "none"
     \/ task = "build" /\ step \in {"reset", "write"}
     \/ task = "merge" /\ step = "copy"
     \/ task = "prune" /\ step \in {"remove", "assert"}
  /\ task # "none" => consistent = FALSE

(* A build lists the packs of one store, and puts no others there.         *)
BuildInv ==
  /\ step \in {"reset", "write"} => \A pack \in Files : loaded.built[pack] \in {NoFile, loaded.id}
  /\ step = "write" => manifest = NoFile /\ \A pack \in Files : packs[pack] \in {NoFile, loaded.id}

(* A merge lists new packs, which it puts in place, and old ones, which it *)
(* leaves as they are.                                                     *)
MergeInv ==
  step = "copy" => \A pack \in Files :
                     IF pack \in staged THEN loaded.built[pack] = loaded.id
                                        ELSE pack \in replaced \/ IsOf(pack, loaded)

(* A prune keeps the entries of what it keeps.                             *)
PruneInv ==
  /\ step = "remove" => manifest = loaded /\ Agrees(loaded)
  /\ step = "assert" => /\ Agrees(loaded) /\ manifest.names \ Tier2 = Kept
                        /\ \A pack \in Files : pack[1] \in Kept => manifest.built[pack] = loaded.built[pack]

FilesInv ==
  /\ manifest \notin {NoFile, Torn} => Agrees(manifest)
  /\ BuildInv /\ MergeInv /\ PruneInv

WholeInv == StepInv /\ FilesInv /\ PublishedIsWhole

-------------------------------------------------------------------------------

LEMMA InitIsWhole == InitPublication => WholeInv
BY DEF InitPublication, WholeInv, StepInv, FilesInv, BuildInv, MergeInv, PruneInv, PublishedIsWhole

(* An entry of a full manifest is of its store; one that a merge lists is  *)
(* new or an old one.                                                      *)
LEMMA FullEntries ==
  ASSUME NEW st, NEW pack \in Files PROVE FullManifest(st).built[pack] \in {NoFile, st}
BY DEF FullManifest

LEMMA MergedEntries ==
  ASSUME NEW old, NEW st, NEW files, NEW pack \in Files
  PROVE  /\ pack \in files => Merged(old, st, files).built[pack] = st
         /\ pack \notin files => Merged(old, st, files).built[pack] \in {NoFile, old.built[pack]}
BY DEF Merged

LEMMA StartBuildIsWhole == ASSUME WholeInv, StartBuild PROVE WholeInv'
<1>1. /\ packs' = packs /\ manifest' = manifest /\ replaced' = replaced /\ consistent' = FALSE
      /\ task' = "build" /\ step' = "reset" /\ loaded' = FullManifest(snapshot)
  BY DEF StartBuild, fileVars
<1>2. StepInv'
  BY <1>1 DEF WholeInv, StepInv
<1>3. \A pack \in Files : loaded'.built[pack] \in {NoFile, loaded'.id}
  BY <1>1, FullEntries DEF FullManifest
<1>4. FilesInv'
  BY <1>1, <1>3 DEF WholeInv, FilesInv, Agrees, IsOf, BuildInv, MergeInv, PruneInv
<1> QED BY <1>1, <1>2, <1>4 DEF WholeInv, PublishedIsWhole

LEMMA StartPruneIsWhole == ASSUME WholeInv, StartPrune PROVE WholeInv'
<1>1. /\ packs' = packs /\ manifest' = manifest /\ replaced' = replaced /\ consistent' = FALSE
      /\ task' = "prune" /\ step' \in {"remove", "assert"}
      /\ loaded' = manifest /\ manifest \notin {NoFile, Torn}
  BY DEF StartPrune, fileVars
<1>2. StepInv'
  BY <1>1 DEF WholeInv, StepInv
<1>3. FilesInv'
  BY <1>1 DEF WholeInv, FilesInv, Agrees, IsOf, BuildInv, MergeInv, PruneInv, Kept
<1> QED BY <1>1, <1>2, <1>3 DEF WholeInv, PublishedIsWhole

(* The old entries describe what is there as well as they did.             *)
LEMMA StartMergeIsWhole == ASSUME WholeInv, NEW scope, StartMerge(scope) PROVE WholeInv'
<1> DEFINE old == IF manifest = NoFile THEN NoManifest ELSE manifest
<1>1. /\ packs' = packs /\ manifest' = manifest /\ replaced' = replaced /\ consistent' = FALSE
      /\ task' = "merge" /\ step' = "copy" /\ loaded' = Merged(old, snapshot, staged')
      /\ manifest # Torn
  BY DEF StartMerge, fileVars
<1>2. StepInv'
  BY <1>1 DEF WholeInv, StepInv
<1>3. loaded'.id = snapshot
  BY <1>1 DEF Merged
<1>4. ASSUME NEW pack \in Files \ replaced PROVE old.built[pack] = NoFile \/ packs[pack] \in {NoFile, old.built[pack]}
  <2>1. CASE manifest = NoFile
    BY <2>1 DEF NoManifest
  <2>2. CASE manifest # NoFile
    BY <1>1, <2>2 DEF WholeInv, FilesInv, Agrees, IsOf
  <2> QED BY <2>1, <2>2
<1> HIDE DEF old
<1>5. ASSUME NEW pack \in Files
      PROVE  IF pack \in staged' THEN loaded'.built[pack] = loaded'.id
             ELSE pack \in replaced \/ IsOf(pack, loaded)'
  <2>1. /\ pack \in staged' => loaded'.built[pack] = snapshot
        /\ pack \notin staged' => loaded'.built[pack] \in {NoFile, old.built[pack]}
    BY <1>1, MergedEntries
  <2> QED BY <1>1, <1>3, <1>4, <2>1 DEF IsOf
<1>6. FilesInv'
  BY <1>1, <1>5 DEF WholeInv, FilesInv, Agrees, IsOf, BuildInv, MergeInv, PruneInv
<1> QED BY <1>1, <1>2, <1>6 DEF WholeInv, PublishedIsWhole

(* A pack that is removed or lost agrees with every entry.                 *)
LEMMA UnlinkKeeps ==
  ASSUME WholeInv, NEW pack \in Files, Unlink(pack), UNCHANGED <<task, step, loaded, staged>>,
         manifest' \in {manifest, NoFile}, step \in {"reset", "remove", "none"},
         step # "reset" => manifest' = manifest
  PROVE  /\ DOMAIN packs' = Files
         /\ FilesInv'
<1>1. /\ DOMAIN packs' = Files /\ packs'[pack] = NoFile /\ replaced' = replaced \ {pack}
      /\ \A other \in Files : packs'[other] \in {packs[other], NoFile}
  BY DEF Unlink, WholeInv, StepInv
<1>2. ASSUME manifest \notin {NoFile, Torn} PROVE \A other \in Files \ replaced' :
         manifest.built[other] = NoFile \/ packs'[other] \in {NoFile, manifest.built[other]}
  BY <1>1, <1>2 DEF WholeInv, FilesInv, Agrees, IsOf
<1>3. ASSUME step = "remove" PROVE \A other \in Files \ replaced' :
         loaded.built[other] = NoFile \/ packs'[other] \in {NoFile, loaded.built[other]}
  BY <1>1, <1>3 DEF WholeInv, FilesInv, PruneInv, Agrees, IsOf
<1>4. (manifest \notin {NoFile, Torn} => Agrees(manifest))'
  BY <1>2 DEF Agrees, IsOf
<1>5. BuildInv' /\ MergeInv'
  BY <1>1 DEF WholeInv, FilesInv, BuildInv, MergeInv
<1>6. PruneInv'
  <2>1. (step = "remove" => manifest = loaded /\ Agrees(loaded))'
    BY <1>3 DEF WholeInv, FilesInv, PruneInv, Agrees, IsOf
  <2> QED BY <2>1 DEF PruneInv
<1> QED BY <1>1, <1>4, <1>5, <1>6 DEF FilesInv

(* Nothing is written before everything is removed, the manifest included. *)
LEMMA ResetIsWhole == ASSUME WholeInv, Reset PROVE WholeInv'
<1>1. /\ step = "reset" /\ task' = task /\ loaded' = loaded /\ staged' = staged
      /\ consistent' = consistent /\ task = "build" /\ consistent = FALSE
  BY DEF Reset, WholeInv, StepInv
<1>2. \A pack \in Files : loaded.built[pack] \in {NoFile, loaded.id}
  BY <1>1 DEF WholeInv, FilesInv, BuildInv
<1>3. CASE OnDisk = {} /\ manifest = NoFile /\ step' = "write" /\ UNCHANGED <<fileVars, replaced>>
  <2>1. packs' = packs /\ manifest' = NoFile /\ step' = "write"
    BY <1>3 DEF fileVars
  <2>2. \A pack \in Files : packs'[pack] = NoFile
    BY <1>3, <2>1 DEF OnDisk
  <2>3. StepInv'
    BY <1>1, <2>1 DEF WholeInv, StepInv
  <2>4. FilesInv'
    BY <1>1, <1>2, <2>1, <2>2 DEF FilesInv, BuildInv, MergeInv, PruneInv
  <2> QED BY <1>1, <2>3, <2>4 DEF WholeInv, PublishedIsWhole
<1>4. CASE manifest' = NoFile /\ UNCHANGED <<packs, replaced, step>>
  <2>1. StepInv'
    BY <1>1, <1>4 DEF WholeInv, StepInv
  <2>2. FilesInv'
    BY <1>1, <1>2, <1>4 DEF FilesInv, BuildInv, MergeInv, PruneInv
  <2> QED BY <1>1, <2>1, <2>2 DEF WholeInv, PublishedIsWhole
<1>5. ASSUME NEW pack \in OnDisk, Unlink(pack), UNCHANGED <<manifest, step>>
      PROVE  WholeInv'
  <2>1. pack \in Files
    BY DEF OnDisk
  <2>2. DOMAIN packs' = Files /\ FilesInv'
    BY <1>1, <1>5, <2>1, UnlinkKeeps
  <2>3. StepInv'
    BY <1>1, <1>5, <2>2 DEF WholeInv, StepInv
  <2> QED BY <1>1, <2>2, <2>3 DEF WholeInv, PublishedIsWhole
<1> QED BY <1>3, <1>4, <1>5 DEF Reset

LEMMA WritePackIsWhole == ASSUME WholeInv, WritePack PROVE WholeInv'
<1>1. /\ step = "write" /\ task = "build" /\ consistent = FALSE /\ consistent' = consistent
      /\ packs' = [packs EXCEPT ![NextPack] = loaded.id]
      /\ UNCHANGED <<manifest, task, step, loaded, staged, replaced>>
  BY DEF WritePack, taskVars, WholeInv, StepInv
<1>2. /\ manifest = NoFile /\ DOMAIN packs = Files
      /\ \A pack \in Files : packs[pack] \in {NoFile, loaded.id} /\ loaded.built[pack] \in {NoFile, loaded.id}
  BY <1>1 DEF WholeInv, FilesInv, BuildInv, StepInv
<1>3. DOMAIN packs' = Files /\ \A pack \in Files : packs'[pack] \in {packs[pack], loaded.id}
  BY <1>1, <1>2
<1>4. StepInv'
  BY <1>1, <1>3 DEF WholeInv, StepInv
<1>5. FilesInv'
  BY <1>1, <1>2, <1>3 DEF FilesInv, BuildInv, MergeInv, PruneInv
<1> QED BY <1>1, <1>4, <1>5 DEF WholeInv, PublishedIsWhole

(* The old manifest stands beside a new pack, of which it says nothing.    *)
LEMMA CopyIsWhole == ASSUME WholeInv, CopyPack PROVE WholeInv'
<1>1. /\ step = "copy" /\ task = "merge" /\ consistent = FALSE /\ consistent' = consistent
      /\ packs' = [packs EXCEPT ![NextPack] = loaded.id] /\ replaced' = replaced \cup {NextPack}
      /\ UNCHANGED <<manifest, task, step, loaded, staged>>
  BY DEF CopyPack, taskVars, WholeInv, StepInv
<1>2. DOMAIN packs' = Files /\ \A pack \in Files \ replaced' : packs'[pack] = packs[pack]
  BY <1>1 DEF WholeInv, StepInv
<1>3. StepInv'
  BY <1>1, <1>2 DEF WholeInv, StepInv
<1>4. (manifest \notin {NoFile, Torn} => Agrees(manifest))'
  BY <1>1, <1>2 DEF WholeInv, FilesInv, Agrees, IsOf
<1>5. MergeInv'
  BY <1>1, <1>2 DEF WholeInv, FilesInv, MergeInv, IsOf
<1>6. FilesInv'
  BY <1>1, <1>4, <1>5 DEF FilesInv, BuildInv, PruneInv
<1> QED BY <1>1, <1>3, <1>6 DEF WholeInv, PublishedIsWhole

(* Once everything is in place, the entries describe what is there.        *)
LEMMA WriteManifestIsWhole == ASSUME WholeInv, WriteManifest PROVE WholeInv'
<1>1. /\ step \in {"write", "copy"} /\ Left = {} /\ consistent' = consistent
      /\ packs' = packs /\ manifest' = loaded /\ replaced' = replaced \ staged
      /\ task' = "none" /\ step' = "none" /\ consistent = FALSE
  BY DEF WriteManifest, WholeInv, StepInv
<1>2. ASSUME NEW pack \in Files \ replaced' PROVE IsOf(pack, loaded)
  <2>1. CASE step = "write"
    BY <2>1 DEF WholeInv, FilesInv, BuildInv, IsOf
  <2>2. CASE step = "copy" /\ pack \in staged
    <3>1. packs[pack] = loaded.id
      BY <1>1, <2>2 DEF Left
    <3> QED BY <2>2, <3>1 DEF WholeInv, FilesInv, MergeInv, IsOf
  <2>3. CASE step = "copy" /\ pack \notin staged
    BY <1>1, <2>3 DEF WholeInv, FilesInv, MergeInv
  <2> QED BY <1>1, <2>1, <2>2, <2>3
<1>3. \A pack \in Files \ replaced' :
         manifest'.built[pack] = NoFile \/ packs'[pack] \in {NoFile, manifest'.built[pack]}
  BY <1>1, <1>2 DEF IsOf
<1>4. Agrees(manifest)'
  BY <1>3 DEF Agrees, IsOf
<1>5. StepInv' /\ FilesInv'
  BY <1>1, <1>4 DEF WholeInv, StepInv, FilesInv, BuildInv, MergeInv, PruneInv
<1> QED BY <1>1, <1>5 DEF WholeInv, PublishedIsWhole

LEMMA RemovePackIsWhole == ASSUME WholeInv, RemovePack PROVE WholeInv'
<1>1. /\ step = "remove" /\ task = "prune" /\ consistent = FALSE
      /\ UNCHANGED <<manifest, task, step, loaded, staged, consistent>>
  BY DEF RemovePack, taskVars, WholeInv, StepInv
<1>2. PICK pack \in OnDisk : Unlink(pack)
  BY DEF RemovePack
<1>3. pack \in Files
  BY DEF OnDisk
<1>4. DOMAIN packs' = Files /\ FilesInv'
  BY <1>1, <1>2, <1>3, UnlinkKeeps
<1>5. StepInv'
  BY <1>1, <1>4 DEF WholeInv, StepInv
<1> QED BY <1>1, <1>4, <1>5 DEF WholeInv, PublishedIsWhole

(* The rewritten manifest has the entries of what is kept.                 *)
LEMMA RewriteIsWhole == ASSUME WholeInv, RewriteManifest PROVE WholeInv'
<1>1. /\ step = "remove" /\ step' = "assert" /\ task = "prune" /\ consistent = FALSE
      /\ UNCHANGED <<packs, task, loaded, replaced, consistent>>
      /\ manifest' = Restricted(loaded, Kept)
  BY DEF RewriteManifest, WholeInv, StepInv
<1>2. /\ manifest'.names \ Tier2 = Kept
      /\ \A pack \in Files : manifest'.built[pack] = IF pack[1] \in Kept THEN loaded.built[pack] ELSE NoFile
  BY <1>1 DEF Restricted, Kept
<1>3. \A pack \in Files \ replaced : IsOf(pack, loaded)
  BY <1>1 DEF WholeInv, FilesInv, PruneInv, Agrees
<1>4. StepInv'
  BY <1>1 DEF WholeInv, StepInv
<1>5. Agrees(loaded)' /\ Agrees(manifest)'
  BY <1>1, <1>2, <1>3 DEF Agrees, IsOf
<1>6. FilesInv'
  BY <1>1, <1>2, <1>5 DEF FilesInv, BuildInv, MergeInv, PruneInv, Kept
<1> QED BY <1>1, <1>4, <1>6 DEF WholeInv, PublishedIsWhole

(* Names that agree are enough: what is there agrees with its entries.     *)
LEMMA AssertIsWhole == ASSUME WholeInv, AssertConsistency PROVE WholeInv'
<1>1. /\ step = "assert" /\ packs' = packs /\ manifest' = manifest /\ replaced' = replaced
      /\ task' = "none" /\ step' = "none" /\ consistent' = (OnDisk = Referenced(loaded, Kept))
  BY DEF AssertConsistency, fileVars
<1>2. /\ Agrees(loaded) /\ manifest.names \ Tier2 = Kept
      /\ \A pack \in Files : pack[1] \in Kept => manifest.built[pack] = loaded.built[pack]
  BY <1>1 DEF WholeInv, FilesInv, PruneInv
<1>3. StepInv' /\ FilesInv'
  BY <1>1 DEF WholeInv, StepInv, FilesInv, Agrees, IsOf, BuildInv, MergeInv, PruneInv
<1>4. Referenced(loaded, Kept) = Referenced(manifest, manifest.names \ Tier2)
  BY <1>2 DEF Referenced
<1>5. ASSUME consistent', NEW pack \in OnDisk \ replaced PROVE packs[pack] = manifest.built[pack]
  <2>1. pack \in Files /\ packs[pack] # NoFile /\ loaded.built[pack] # NoFile /\ pack[1] \in Kept
    BY <1>1, <1>5 DEF OnDisk, Referenced
  <2> QED BY <1>2, <2>1 DEF Agrees, IsOf
<1>6. PublishedIsWhole'
  BY <1>1, <1>4, <1>5 DEF PublishedIsWhole, Referenced, OnDisk
<1> QED BY <1>3, <1>6 DEF WholeInv

(* A kill leaves at most a torn pack without an entry that is read, or a   *)
(* torn manifest.                                                          *)
LEMMA CrashIsWhole == ASSUME WholeInv, PublicationCrash PROVE WholeInv'
<1>1. /\ task # "none" /\ task' = "none" /\ step' = "none" /\ consistent = FALSE
      /\ consistent' = consistent
  BY DEF PublicationCrash, WholeInv, StepInv
<1>2. \/ UNCHANGED <<fileVars, replaced>>
      \/ /\ packs' = [packs EXCEPT ![NextPack] = Torn] /\ manifest' = manifest
         /\ \/ step = "write" /\ replaced' = replaced
            \/ step = "copy" /\ replaced' = replaced \cup {NextPack}
      \/ manifest' = Torn /\ packs' = packs
  BY DEF PublicationCrash
<1>3. DOMAIN packs' = Files
  BY <1>2 DEF WholeInv, StepInv, fileVars
<1>4. StepInv'
  BY <1>1, <1>3 DEF StepInv
<1>5. (manifest \notin {NoFile, Torn} => Agrees(manifest))'
  BY <1>2 DEF WholeInv, StepInv, FilesInv, BuildInv, Agrees, IsOf, fileVars
<1>6. FilesInv'
  BY <1>1, <1>5 DEF FilesInv, BuildInv, MergeInv, PruneInv
<1> QED BY <1>1, <1>4, <1>6 DEF WholeInv, PublishedIsWhole

LEMMA SurroundingsAreWhole == ASSUME WholeInv, NewData \/ LosePack PROVE WholeInv'
<1>1. CASE NewData
  <2>1. UNCHANGED <<packs, manifest, task, step, loaded, staged, replaced, consistent>>
    BY <1>1 DEF NewData, fileVars, taskVars
  <2>2. StepInv' /\ FilesInv'
    BY <2>1 DEF WholeInv, StepInv, FilesInv, Agrees, IsOf, BuildInv, MergeInv, PruneInv, Kept
  <2>3. PublishedIsWhole'
    BY <2>1 DEF WholeInv, PublishedIsWhole, Referenced, OnDisk
  <2> QED BY <2>2, <2>3 DEF WholeInv
<1>2. CASE LosePack
  <2>1. PICK pack \in OnDisk : Unlink(pack)
    BY <1>2 DEF LosePack
  <2>2. /\ consistent' = FALSE /\ UNCHANGED <<manifest, task, step, loaded, staged>>
        /\ task = "none" /\ step = "none" /\ pack \in Files
    BY <1>2, <2>1 DEF LosePack, taskVars, OnDisk, WholeInv, StepInv
  <2>3. DOMAIN packs' = Files /\ FilesInv'
    BY <2>1, <2>2, UnlinkKeeps
  <2>4. StepInv'
    BY <2>2, <2>3 DEF WholeInv, StepInv
  <2> QED BY <2>2, <2>3, <2>4 DEF WholeInv, PublishedIsWhole
<1> QED BY <1>1, <1>2

LEMMA StutterIsWhole == ASSUME WholeInv, UNCHANGED publishVars PROVE WholeInv'
<1>1. UNCHANGED <<packs, manifest, task, step, loaded, staged, replaced, consistent>>
  BY DEF publishVars, fileVars, taskVars
<1>2. StepInv' /\ FilesInv'
  BY <1>1 DEF WholeInv, StepInv, FilesInv, Agrees, IsOf, BuildInv, MergeInv, PruneInv, Kept
<1>3. PublishedIsWhole'
  BY <1>1 DEF WholeInv, PublishedIsWhole, Referenced, OnDisk
<1> QED BY <1>2, <1>3 DEF WholeInv

LEMMA WholeStep == ASSUME WholeInv, [NextPublication]_publishVars PROVE WholeInv'
BY StartBuildIsWhole, StartMergeIsWhole, StartPruneIsWhole, ResetIsWhole, WritePackIsWhole,
   CopyIsWhole, WriteManifestIsWhole, RemovePackIsWhole, RewriteIsWhole, AssertIsWhole,
   CrashIsWhole, SurroundingsAreWhole, StutterIsWhole DEF NextPublication

(* In every execution, merges included, a publication that a prune or a    *)
(* verification found consistent by its names has exactly the packs of the *)
(* kept entries, and each is the one its entry describes, unless a merge   *)
(* replaced it and was killed before it wrote the entries                  *)
(* (prune_packs_for_pages.py:217).                                         *)
THEOREM PublishedIsAlwaysWhole == SpecPublication => []PublishedIsWhole
<1>1. WholeInv /\ [NextPublication]_publishVars => WholeInv'
  BY WholeStep
<1>2. WholeInv => PublishedIsWhole
  BY DEF WholeInv
<1> QED BY <1>1, <1>2, InitIsWhole, PTL DEF SpecPublication


(* Every store that is built, published or pruned is one of days.          *)
IsStore(st) == st \in [bars : [Instruments -> SUBSET PackDays], fx : SUBSET Int]

(* Its manifest names no excluded security.                                *)
IsManifest(m) == IsStore(m.id) /\ m.names \subseteq Instruments \ ExcludedIds

StoresInv ==
  /\ IsStore(snapshot)
  /\ manifest \notin {NoFile, Torn} => IsManifest(manifest)
  /\ task # "none" => IsManifest(loaded)
  /\ step = "assert" \/ consistent => IsManifest(manifest)

LEMMA ListedAreHosted == ASSUME NEW st PROVE Listed(st) \subseteq Instruments \ ExcludedIds
BY PackPublicationAssumption DEF Listed, Built, Files

LEMMA InitStores == InitPublication => StoresInv
BY PackPublicationAssumption DEF InitPublication, StoresInv, IsStore

LEMMA BuildKeepsStores ==
  ASSUME WholeInv, StoresInv, StartBuild \/ Reset \/ WritePack \/ WriteManifest
  PROVE  StoresInv'
<1>1. CASE StartBuild
  <2>1. /\ loaded' = FullManifest(snapshot)
        /\ step' = "reset" /\ consistent' = FALSE /\ UNCHANGED <<snapshot, manifest>>
    BY <1>1 DEF StartBuild, fileVars
  <2>2. IsManifest(loaded')
    BY <2>1, ListedAreHosted DEF IsManifest, StoresInv, FullManifest
  <2> QED BY <2>1, <2>2 DEF StoresInv, IsManifest, IsStore
<1>2. CASE Reset
  <2>1. /\ task = "build" /\ consistent = FALSE /\ step' \in {"reset", "write"}
        /\ manifest' \in {manifest, NoFile} /\ UNCHANGED <<snapshot, task, loaded, consistent>>
    BY <1>2 DEF Reset, fileVars, WholeInv, StepInv
  <2> QED BY <2>1 DEF StoresInv, IsManifest, IsStore
<1>3. CASE WritePack
  <2>1. UNCHANGED <<snapshot, manifest, task, step, loaded, consistent>>
    BY <1>3 DEF WritePack, taskVars
  <2> QED BY <2>1 DEF StoresInv, IsManifest, IsStore
<1>4. CASE WriteManifest
  <2>1. /\ task # "none" /\ consistent = FALSE /\ manifest' = loaded
        /\ task' = "none" /\ step' = "none" /\ UNCHANGED <<snapshot, consistent>>
    BY <1>4 DEF WriteManifest, WholeInv, StepInv
  <2> QED BY <2>1 DEF StoresInv, IsManifest, IsStore
<1> QED BY <1>1, <1>2, <1>3, <1>4

(* What is rebuilt is in the store that the manifest is given the id of.   *)
LEMMA MergeKeepsStores ==
  ASSUME WholeInv, StoresInv, (\E scope \in Scopes : StartMerge(scope)) \/ CopyPack
  PROVE  StoresInv'
<1>1. ASSUME NEW scope, StartMerge(scope) PROVE StoresInv'
  <2> DEFINE old == IF manifest = NoFile THEN NoManifest ELSE manifest
  <2>1. /\ staged' = scope \cap Built(snapshot) /\ loaded' = Merged(old, snapshot, staged')
        /\ task' = "merge" /\ step' = "copy" /\ consistent' = FALSE
        /\ manifest # Torn /\ UNCHANGED <<snapshot, manifest>>
    BY <1>1 DEF StartMerge, fileVars
  <2>2. old.names \subseteq Instruments
    BY <2>1 DEF StoresInv, IsManifest, NoManifest
  <2> HIDE DEF old
  <2>3. {pack[1] : pack \in staged'} \subseteq Instruments \ ExcludedIds
    BY <2>1 DEF Built, Files
  <2>4. /\ loaded'.id = snapshot
        /\ loaded'.names = (old.names \ ExcludedIds) \cup {pack[1] : pack \in staged'}
    BY <2>1 DEF Merged
  <2>5. IsManifest(loaded')
    BY <2>2, <2>3, <2>4 DEF IsManifest, StoresInv
  <2> QED BY <2>1, <2>5 DEF StoresInv, IsManifest, IsStore
<1>2. CASE CopyPack
  <2>1. UNCHANGED <<snapshot, manifest, task, step, loaded, consistent>>
    BY <1>2 DEF CopyPack, taskVars
  <2> QED BY <2>1 DEF StoresInv, IsManifest, IsStore
<1> QED BY <1>1, <1>2

LEMMA PruneKeepsStores ==
  ASSUME WholeInv, StoresInv, StartPrune \/ RemovePack \/ RewriteManifest \/ AssertConsistency
  PROVE  StoresInv'
<1>1. CASE StartPrune
  <2>1. /\ manifest \notin {NoFile, Torn} /\ loaded' = manifest /\ consistent' = FALSE
        /\ UNCHANGED <<snapshot, manifest>>
    BY <1>1 DEF StartPrune, fileVars
  <2> QED BY <2>1 DEF StoresInv, IsManifest, IsStore
<1>2. CASE RemovePack
  <2>1. UNCHANGED <<snapshot, manifest, task, step, loaded, consistent>>
    BY <1>2 DEF RemovePack, taskVars
  <2> QED BY <2>1 DEF StoresInv, IsManifest, IsStore
<1>3. CASE RewriteManifest
  <2>1. /\ task = "prune" /\ manifest' = Restricted(loaded, Kept)
        /\ UNCHANGED <<snapshot, task, loaded, consistent>>
    BY <1>3 DEF RewriteManifest, WholeInv, StepInv
  <2>2. IsManifest(manifest')
    BY <2>1 DEF StoresInv, IsManifest, Kept, Restricted
  <2> QED BY <2>1, <2>2 DEF StoresInv, IsManifest, IsStore
<1>4. CASE AssertConsistency
  <2>1. /\ step = "assert" /\ task' = "none" /\ UNCHANGED <<snapshot, manifest>>
    BY <1>4 DEF AssertConsistency, fileVars
  <2> QED BY <2>1 DEF StoresInv, IsManifest, IsStore
<1> QED BY <1>1, <1>2, <1>3, <1>4

LEMMA SurroundingsKeepStores ==
  ASSUME WholeInv, StoresInv, PublicationCrash \/ NewData \/ LosePack \/ UNCHANGED publishVars
  PROVE  StoresInv'
<1>1. CASE PublicationCrash
  <2>1. /\ consistent = FALSE /\ task' = "none" /\ step' = "none"
        /\ manifest' \in {manifest, Torn} /\ UNCHANGED <<snapshot, consistent>>
    BY <1>1 DEF PublicationCrash, fileVars, WholeInv, StepInv
  <2> QED BY <2>1 DEF StoresInv, IsManifest, IsStore
<1>2. CASE NewData
  <2>1. PICK s \in Instruments, day \in PackDays :
          snapshot' = [snapshot EXCEPT !.bars[s] = @ \cup {day}]
    BY <1>2 DEF NewData
  <2>2. IsStore(snapshot')
    BY <2>1 DEF StoresInv, IsStore
  <2>3. UNCHANGED <<manifest, task, step, loaded, consistent>>
    BY <1>2 DEF NewData, fileVars, taskVars
  <2> QED BY <2>2, <2>3 DEF StoresInv, IsManifest, IsStore
<1>3. CASE LosePack
  <2>1. consistent' = FALSE /\ UNCHANGED <<snapshot, manifest, task, step, loaded>>
    BY <1>3 DEF LosePack, taskVars
  <2> QED BY <2>1 DEF StoresInv, IsManifest, IsStore
<1>4. CASE UNCHANGED publishVars
  BY <1>4 DEF publishVars, fileVars, taskVars, StoresInv, IsManifest, IsStore
<1> QED BY <1>1, <1>2, <1>3, <1>4

(* A set of days that is not empty has a first and a last one.             *)
LEMMA FirstOf ==
  ASSUME NEW days \in SUBSET Nat, days # {}
  PROVE  Min(days) \in days /\ \A day \in days : Min(days) <= day
BY LeastOf DEF Min

LEMMA LastOf ==
  ASSUME NEW n \in Nat, NEW days \in SUBSET (0 .. n), days # {}
  PROVE  Max(days) \in days /\ \A day \in days : day <= Max(days)
<1> DEFINE rest == {n - day : day \in days}
<1>1. rest \in SUBSET Nat /\ rest # {}
  <2>1. ASSUME NEW day \in days PROVE n - day \in Nat
    <3>1. day \in 0 .. n
      OBVIOUS
    <3> QED BY <3>1
  <2> QED BY <2>1
<1>2. Min(rest) \in rest /\ \A y \in rest : Min(rest) <= y
  BY <1>1, FirstOf
<1>3. PICK x \in days : Min(rest) = n - x
  BY <1>2
<1>4. ASSUME NEW y \in days PROVE x >= y
  <2>1. n - x <= n - y
    BY <1>2, <1>3
  <2>2. x \in 0 .. n /\ y \in 0 .. n
    OBVIOUS
  <2> QED BY <2>1, <2>2
<1> QED BY <1>4 DEF Max

(* Years are ordered as their days are.                                    *)
LEMMA YearsAreOrdered ==
  ASSUME NEW a \in PackDays, NEW b \in PackDays, a <= b
  PROVE  PackYear(a) \in Nat /\ PackYear(b) \in Nat /\ PackYear(a) <= PackYear(b)
BY PackSupportAssumption DEF PackYear, PackDays

(* The days and years of a security with bars, and their edges.            *)
LEMMA EdgesOf ==
  ASSUME NEW st, IsStore(st), NEW s \in Instruments, st.bars[s] # {}
  PROVE  /\ st.bars[s] \subseteq PackDays /\ PackDays \subseteq Nat
         /\ Min(st.bars[s]) \in st.bars[s] /\ Max(st.bars[s]) \in st.bars[s]
         /\ \A day \in st.bars[s] : Min(st.bars[s]) <= day /\ day <= Max(st.bars[s])
         /\ YearsWithData(st, s) \subseteq PackYear(Min(st.bars[s])) .. PackYear(Max(st.bars[s]))
         /\ YearsWithData(st, s) # {} /\ YearsWithData(st, s) \subseteq Nat
         /\ Min(YearsWithData(st, s)) = PackYear(Min(st.bars[s]))
         /\ Max(YearsWithData(st, s)) = PackYear(Max(st.bars[s]))
<1> DEFINE bars  == st.bars[s]
           years == YearsWithData(st, s)
           first == Min(bars)
           last  == Max(bars)
<1>1. bars \subseteq PackDays /\ PackDays \subseteq Nat /\ PackDays \subseteq 0 .. LastDay /\ LastDay \in Nat
  BY PackSupportAssumption DEF IsStore, PackDays
<1>2. first \in bars /\ last \in bars /\ \A day \in bars : first <= day /\ day <= last
  <2>1. first \in bars /\ \A day \in bars : first <= day
    BY <1>1, FirstOf
  <2>2. bars \in SUBSET (0 .. LastDay)
    BY <1>1
  <2>3. last \in bars /\ \A day \in bars : day <= last
    BY <1>1, <2>2, LastOf
  <2> QED BY <2>1, <2>3
<1> HIDE DEF first, last, bars
<1>3. ASSUME NEW day \in bars PROVE PackYear(day) \in PackYear(first) .. PackYear(last)
  <2>1. first \in PackDays /\ day \in PackDays /\ last \in PackDays /\ first <= day /\ day <= last
    BY <1>1, <1>2
  <2> QED BY <2>1, YearsAreOrdered
<1>4. PackYear(first) \in Nat /\ PackYear(last) \in Nat
  BY <1>1, <1>2, YearsAreOrdered
<1>5. years = {PackYear(day) : day \in bars}
  BY DEF YearsWithData, bars
<1> HIDE DEF years
<1>6. /\ years \subseteq PackYear(first) .. PackYear(last) /\ years # {} /\ years \subseteq Nat
      /\ PackYear(first) \in years /\ PackYear(last) \in years
  BY <1>2, <1>3, <1>4, <1>5
<1>7. Min(years) = PackYear(first)
  <2>1. Min(years) \in years /\ \A year \in years : Min(years) <= year
    BY <1>6, FirstOf
  <2>2. Min(years) \in PackYear(first) .. PackYear(last) /\ Min(years) <= PackYear(first)
    BY <1>6, <2>1
  <2> QED BY <1>4, <2>2
<1>8. Max(years) = PackYear(last)
  <2>1. years \in SUBSET (0 .. PackYear(last))
    BY <1>4, <1>6
  <2>2. Max(years) \in years /\ \A year \in years : year <= Max(years)
    BY <1>4, <1>6, <2>1, LastOf
  <2>3. Max(years) \in PackYear(first) .. PackYear(last) /\ PackYear(last) <= Max(years)
    BY <1>6, <2>2
  <2> QED BY <1>4, <2>3
<1> QED BY Zenon, <1>1, <1>2, <1>6, <1>7, <1>8 DEF bars, years, first, last

(* The browser's rule promises a range only where every year has bars and  *)
(* is fully supported itself.                                              *)
LEMMA FullRange ==
  ASSUME NEW st, NEW s \in Instruments, NEW from, NEW to,
         SupportFor(st, s, from, to) = Full
  PROVE  /\ YearsWithData(st, s) # {}
         /\ \A year \in PackYear(from) .. PackYear(to) :
              year \in YearsWithData(st, s) /\ YearStatus(st, s, year) = Full
BY DEF SupportFor, Full, Incomplete, Unavailable

(* A year is among a security's years just if it has a bar.                *)
LEMMA YearsHaveBars ==
  ASSUME NEW st, NEW s, NEW year
  PROVE  year \in YearsWithData(st, s) <=> Bars(st, s, year) # {}
BY DEF YearsWithData, Bars

(* A fully supported security has no hole between its years, so that a     *)
(* range between its edges meets the browser's rule.                       *)
LEMMA RollupMeetsTheRule ==
  ASSUME NEW st, IsStore(st), NEW s \in Instruments, st.bars[s] # {}, RollupStatus(st, s) = Full,
         NEW from \in PackDays, NEW to \in PackDays, from <= to,
         Min(st.bars[s]) <= from, to <= Max(st.bars[s])
  PROVE  SupportFor(st, s, from, to) = Full
<1> DEFINE years == YearsWithData(st, s)
           first == PackYear(Min(st.bars[s]))
           last  == PackYear(Max(st.bars[s]))
<1>1. /\ years \subseteq first .. last /\ years # {} /\ Min(years) = first /\ Max(years) = last
      /\ Min(st.bars[s]) \in PackDays /\ Max(st.bars[s]) \in PackDays
  BY EdgesOf
<1>2. /\ first \in Nat /\ last \in Nat /\ PackYear(from) \in Nat /\ PackYear(to) \in Nat
      /\ first <= PackYear(from) /\ PackYear(from) <= PackYear(to) /\ PackYear(to) <= last
  BY <1>1, YearsAreOrdered
<1>3. /\ \A year \in years : YearStatus(st, s, year) # Incomplete
      /\ last - first + 1 = Cardinality(years)
  BY <1>1 DEF RollupStatus, Full, Incomplete, Unavailable
<1> HIDE DEF years, first, last
<1>4. years = first .. last
  <2>1. IsFiniteSet(first .. last) /\ Cardinality(first .. last) = last - first + 1
    BY <1>2, FS_Interval
  <2> QED BY <1>1, <1>3, <2>1, FS_Subset
<1>5. \A year \in PackYear(from) .. PackYear(to) : year \in years /\ YearStatus(st, s, year) = Full
  <2> SUFFICES ASSUME NEW year \in PackYear(from) .. PackYear(to)
               PROVE  year \in years /\ YearStatus(st, s, year) = Full
    OBVIOUS
  <2>1. year \in years
    BY <1>2, <1>4
  <2> QED BY <1>3, <2>1 DEF YearStatus
<1>6. ~ (PackYear(from) < Min(years) \/ PackYear(to) > Max(years))
  BY <1>1, <1>2
<1> QED BY <1>1, <1>5, <1>6 DEF SupportFor, years

(* The status of the pack build for a range with prices is the browser's.  *)
LEMMA RulesAgree ==
  ASSUME NEW st, IsStore(st), NEW s \in Instruments, NEW range \in Ranges,
         InRange(st, s, range) # {}, SupportFor(st, s, range[1], range[2]) = Full
  PROVE  ClassifyRange(st, s, range[1], range[2]) = Full
<1> DEFINE bars   == st.bars[s]
           from  == range[1]
           to    == range[2]
           window == {year \in AllYears : /\ PackYear(Min(bars)) <= year /\ year <= PackYear(Max(bars))
                                          /\ PackYear(from) <= year /\ year <= PackYear(to)}
           status(year) == IF Bars(st, s, year) = {} THEN Unavailable ELSE YearStatus(st, s, year)
           statuses == {status(year) : year \in window}
<1>1. PICK day \in bars : from <= day /\ day <= to
  BY DEF InRange
<1>2. /\ from \in PackDays /\ to \in PackDays /\ bars \subseteq PackDays /\ PackDays \subseteq Nat
      /\ Min(bars) \in PackDays /\ Max(bars) \in PackDays /\ Min(bars) <= day /\ day <= Max(bars)
  BY <1>1, EdgesOf DEF Ranges
<1>3. PackYear(day) \in window
  <2>1. /\ PackYear(Min(bars)) <= PackYear(day) /\ PackYear(day) <= PackYear(Max(bars))
        /\ PackYear(from) <= PackYear(day) /\ PackYear(day) <= PackYear(to)
    <3> HIDE DEF bars, from, to
    <3> QED BY <1>1, <1>2, YearsAreOrdered
  <2>2. PackYear(day) \in AllYears
    BY <1>1, <1>2 DEF AllYears
  <2> QED BY <2>1, <2>2
<1>4. ASSUME NEW year \in window PROVE year \in PackYear(from) .. PackYear(to)
  <2>1. year \in Nat
    <3>1. PICK other \in PackDays : year = PackYear(other)
      BY DEF AllYears
    <3>2. PackYear(other) \in Nat
      BY <1>2, YearsAreOrdered
    <3> QED BY <3>1, <3>2
  <2>2. PackYear(from) \in Nat /\ PackYear(to) \in Nat
    <3> HIDE DEF from, to
    <3> QED BY <1>2, YearsAreOrdered
  <2>3. PackYear(from) <= year /\ year <= PackYear(to)
    OBVIOUS
  <2> HIDE DEF from, to, window
  <2> QED BY <2>1, <2>2, <2>3
<1>5. \A year \in window : status(year) = Full
  BY <1>4, FullRange, YearsHaveBars
<1>6. statuses = {Full}
  <2> HIDE DEF window, status
  <2> QED BY <1>3, <1>5
<1>7. bars # {} /\ ~ (to < Min(bars) \/ Max(bars) < from)
  <2> HIDE DEF bars, from, to
  <2>1. from \in Nat /\ to \in Nat /\ day \in Nat /\ Min(bars) \in Nat /\ Max(bars) \in Nat
    BY <1>1, <1>2
  <2>2. from <= Max(bars) /\ Min(bars) <= to
    BY <1>1, <1>2, <2>1
  <2> QED BY <1>1, <2>1, <2>2
<1>8. ClassifyRange(st, s, from, to)
        = IF bars = {} THEN Unavailable
          ELSE IF to < Min(bars) \/ Max(bars) < from THEN Unavailable
          ELSE IF statuses = {Full} THEN Full
          ELSE IF statuses = {Unavailable} THEN Unavailable
          ELSE Incomplete
  BY DEF ClassifyRange
<1> HIDE DEF statuses, bars, from, to
<1>9. ClassifyRange(st, s, from, to) = Full
  BY <1>6, <1>7, <1>8
<1> QED BY <1>9 DEF from, to

(* A rate that is not stale for a bar is among the rates cut out for its   *)
(* pack: the lookback is at least as long as a rate may be old.            *)
LEMMA BlockHasTheRate ==
  ASSUME NEW st, IsStore(st), NEW s \in NeedsFx \cap Instruments, NEW day \in st.bars[s],
         YearStatus(st, s, PackYear(day)) = Full, day \notin StaleFxDates(st.fx, {day})
  PROVE  \E rate \in FxBlock(st, s, PackYear(day)) : rate <= day
<1> DEFINE year == PackYear(day)
           days == Bars(st, s, year)
<1>1. st.bars[s] \subseteq PackDays /\ PackDays \subseteq Nat /\ LastDay \in Nat
  BY EdgesOf, PackSupportAssumption
<1>2. days \subseteq PackDays /\ day \in days
  BY <1>1 DEF Bars
<1>3. Min(days) \in Nat /\ Max(days) \in Nat /\ Min(days) <= day /\ day <= Max(days)
  <2>1. days \in SUBSET Nat /\ days \in SUBSET (0 .. LastDay) /\ days # {}
    BY <1>1, <1>2, PackSupportAssumption DEF PackDays
  <2> HIDE DEF days
  <2>2. Min(days) \in days /\ \A other \in days : Min(days) <= other
    BY <2>1, FirstOf
  <2>3. Max(days) \in days /\ \A other \in days : other <= Max(days)
    BY <1>1, <2>1, LastOf
  <2> QED BY <1>2, <2>1, <2>2, <2>3
<1>4. MissingFxDates(st.fx, days) = {}
  BY DEF YearStatus, Full, Incomplete
<1>5. Resolves(st.fx, day)
  BY <1>2, <1>4 DEF MissingFxDates
<1>6. PICK rate \in st.fx : rate <= day /\ ~ (day - rate > MaxFxStaleness)
  BY <1>5 DEF StaleFxDates, MissingFxDates
<1>7. rate \in Int /\ day \in Nat
  BY <1>1 DEF IsStore
<1>8. Min(days) - FxLookback <= rate /\ rate <= Max(days)
  BY <1>3, <1>6, <1>7, PackSupportAssumption
<1>9. rate \in FxBlock(st, s, year)
  BY <1>8 DEF FxBlock
<1> QED BY <1>6, <1>9

(* What a page can do with the packs that a consistent publication has.    *)
LEMMA WholeIsComputable ==
  ASSUME WholeInv, StoresInv, consistent, OfOneStore,
         NEW s \in manifest.names \ Tier2, NEW range \in Ranges,
         SupportFor(manifest.id, s, range[1], range[2]) = Full,
         s \in NeedsFx => StaleFxDates(manifest.id.fx, InRange(manifest.id, s, range)) = {}
  PROVE  Computable(s, range)
<1> DEFINE st == manifest.id
<1>1. IsStore(st) /\ s \in Instruments /\ s \notin ExcludedIds
  BY DEF StoresInv, IsManifest
<1>2. /\ range = <<range[1], range[2]>> /\ range[1] \in PackDays /\ range[2] \in PackDays
      /\ range[1] <= range[2]
  BY DEF Ranges
<1>3. \A year \in LoadedYears(range) : Bars(st, s, year) # {} /\ YearStatus(st, s, year) = Full
  BY <1>1, FullRange, YearsHaveBars DEF LoadedYears
<1> HIDE DEF st
<1>4. ASSUME NEW year \in LoadedYears(range) PROVE packs[<<s, year>>] = st
  <2>1. year \in AllYears
    <3>1. PICK day \in st.bars[s] : PackYear(day) = year
      BY <1>3, <1>4 DEF Bars
    <3>2. day \in PackDays
      BY <1>1 DEF IsStore
    <3> QED BY <3>1, <3>2 DEF AllYears
  <2>2. <<s, year>> \in Files /\ <<s, year>> \in Built(st)
    BY <1>1, <1>3, <1>4, <2>1 DEF Files, Built
  <2>3. manifest.built[<<s, year>>] = st
    BY <2>2 DEF OfOneStore, Restricted, FullManifest, st
  <2>4. <<s, year>> \in Referenced(manifest, manifest.names \ Tier2) <=> st # NoFile
    BY <2>2, <2>3 DEF Referenced
  <2> QED BY <2>2, <2>3, <2>4 DEF WholeInv, PublishedIsWhole, OfOneStore, OnDisk
<1>5. ASSUME s \in NeedsFx, NEW day \in InRange(st, s, range)
      PROVE  Resolves(LoadedRates(st, s, range), day)
  <2>1. day \in st.bars[s] /\ day \in PackDays /\ range[1] <= day /\ day <= range[2]
    BY <1>1 DEF InRange, IsStore
  <2>2. PackYear(day) \in LoadedYears(range)
    <3>1. /\ PackYear(range[1]) \in Nat /\ PackYear(day) \in Nat /\ PackYear(range[2]) \in Nat
          /\ PackYear(range[1]) <= PackYear(day) /\ PackYear(day) <= PackYear(range[2])
      BY <1>2, <2>1, YearsAreOrdered
    <3> QED BY <3>1 DEF LoadedYears
  <2>3. day \notin StaleFxDates(st.fx, {day})
    BY <1>5 DEF StaleFxDates, MissingFxDates, st
  <2>4. PICK rate \in FxBlock(st, s, PackYear(day)) : rate <= day
    BY <1>1, <1>3, <1>5, <2>1, <2>2, <2>3, BlockHasTheRate
  <2> QED BY <2>2, <2>4 DEF Resolves, LoadedRates
<1> QED BY <1>4, <1>5 DEF Computable, st

LEMMA SupportHolds == WholeInv /\ StoresInv => FreshSupportIsComputable
<1> SUFFICES ASSUME WholeInv, StoresInv, NEW s \in Published, NEW range \in Ranges, IsSupported(s, range)
             PROVE  /\ SupportFor(manifest.id, s, range[1], range[2]) = Full
                    /\ ClassifyRange(manifest.id, s, range[1], range[2]) = Full
                    /\ \/ s \in NeedsFx /\ StaleFxDates(manifest.id.fx, InRange(manifest.id, s, range)) # {}
                       \/ Computable(s, range)
  BY DEF FreshSupportIsComputable
<1> DEFINE st == manifest.id
<1>1. consistent /\ OfOneStore /\ s \in manifest.names \ Tier2
  BY DEF Published
<1>2. IsStore(st) /\ s \in Instruments
  BY <1>1 DEF StoresInv, IsManifest
<1>3. InRange(st, s, range) # {} /\ Promised(st, s, range)
  BY DEF IsSupported
<1> HIDE DEF st
<1>4. SupportFor(st, s, range[1], range[2]) = Full
  <2>1. range[1] \in PackDays /\ range[2] \in PackDays /\ range[1] <= range[2] /\ st.bars[s] # {}
    BY <1>3 DEF Ranges, InRange
  <2> QED BY <1>2, <1>3, <2>1, RollupMeetsTheRule DEF Promised
<1>5. ClassifyRange(st, s, range[1], range[2]) = Full
  BY <1>2, <1>3, <1>4, RulesAgree
<1> QED BY <1>1, <1>4, <1>5, WholeIsComputable DEF st

(* Whatever was built, merged, pruned, lost or killed: where the packs     *)
(* there are those of one full build, and a published status or the        *)
(* browser's own rule promises full support for a range with prices,       *)
(* classify_range agrees, all packs are published, and unless a rate is    *)
(* stale their own windows of rates resolve every price date               *)
(* (packs.py:381).                                                         *)
THEOREM FullSupportIsComputable == SpecPublication => []FreshSupportIsComputable
<1>1. WholeInv /\ StoresInv /\ [NextPublication]_publishVars => WholeInv' /\ StoresInv'
  BY WholeStep, BuildKeepsStores, MergeKeepsStores, PruneKeepsStores, SurroundingsKeepStores
     DEF NextPublication
<1> QED BY <1>1, InitIsWhole, InitStores, SupportHolds, PTL DEF SpecPublication

-------------------------------------------------------------------------------
(* The paging of the mirror                                                *)

(* Each page that is counted as full brought a row that was not seen.      *)
PagesInv ==
  /\ pages = [kept |-> pages.kept, full |-> pages.full, seen |-> pages.seen]
  /\ pages.full \in Nat /\ IsFiniteSet(pages.seen)
  /\ PagingStops

LEMMA NoPagesAreFew == ASSUME pages' = NoPages PROVE PagesInv'
BY FS_EmptySet DEF NoPages, PagesInv, PagingStops

LEMMA MirrorStops ==
  ASSUME PagesInv, NEW ids \in MirrorRows, NEW more, MirrorPage(ids, more)
  PROVE  PagesInv'
<1>1. CASE pages' = pages
  BY <1>1 DEF PagesInv, PagingStops
<1>2. CASE ~ (ids # {} /\ ids \subseteq pages.seen) /\ KeepPage(ids, more)
  <2> DEFINE all == pages.seen \cup ids
  <2>1. pages' = [kept |-> pages.kept + 1, full |-> IF ids = {} THEN pages.full ELSE pages.full + 1,
                  seen |-> all]
    BY <1>2 DEF KeepPage
  <2>2. IsFiniteSet(ids) /\ IsFiniteSet(pages.seen) /\ pages.full \in Nat
        /\ pages.full <= Cardinality(pages.seen)
    BY FxHistoryAssumption DEF PagesInv, PagingStops
  <2>3. IsFiniteSet(all)
    BY <2>2, FS_Union
  <2>4. CASE ids = {}
    <3>1. all = pages.seen
      BY <2>4
    <3> HIDE DEF all
    <3> QED BY <2>1, <2>2, <2>4, <3>1 DEF PagesInv, PagingStops
  <2>5. CASE ids # {}
    <3>1. pages.seen \in SUBSET all /\ pages.seen # all
      BY <1>2, <2>5
    <3> HIDE DEF all
    <3>2. /\ Cardinality(pages.seen) <= Cardinality(all)
          /\ Cardinality(pages.seen) # Cardinality(all)
          /\ Cardinality(pages.seen) \in Nat /\ Cardinality(all) \in Nat
      BY <2>2, <2>3, <3>1, FS_Subset, FS_CardinalityType
    <3>3. pages.full + 1 <= Cardinality(all)
      BY <2>2, <3>2
    <3> QED BY <2>1, <2>2, <2>3, <2>5, <3>3 DEF PagesInv, PagingStops
  <2> QED BY <2>4, <2>5
<1> QED BY <1>1, <1>2 DEF MirrorPage

LEMMA PagesStep == PagesInv /\ [NextRates]_fxVars => PagesInv'
<1> SUFFICES ASSUME PagesInv, [NextRates]_fxVars PROVE PagesInv'
  OBVIOUS
<1>1. CASE \E ids \in MirrorRows, more \in BOOLEAN : MirrorPage(ids, more)
  BY <1>1, MirrorStops
<1>2. CASE pages' = NoPages
  BY <1>2, NoPagesAreFew
<1>3. CASE pages' = pages
  BY <1>3 DEF PagesInv, PagingStops
<1> QED
  BY <1>1, <1>2, <1>3 DEF NextRates, StartRates, NextPair, PathBlocked, PathAnswers, MirrorFails, BuildRows,
     WritePartition, EndRates, RatesCrash, ProviderStores, EndOfPair, fxVars, pairVars

(* However the mirror's cursor leads, into a cycle or back to any earlier  *)
(* page, the pages with rows that are kept are no more than the rows they  *)
(* brought, whatever the limit of pages (backfill_fx_history.py:644).      *)
THEOREM PagingAlwaysStops == SpecRates => []PagingStops
<1>1. InitRates => PagesInv
  BY FS_EmptySet DEF InitRates, NoPages, PagesInv, PagingStops
<1>2. PagesInv => PagingStops
  BY DEF PagesInv
<1> QED BY <1>1, <1>2, PagesStep, PTL DEF SpecRates

-------------------------------------------------------------------------------
(* The removal of listings                                                 *)

(* No catalog lists what it excludes.                                      *)
IsClean(cat) ==
  /\ cat = [listed |-> cat.listed, excluded |-> cat.excluded]
  /\ cat.listed \cap cat.excluded = {}

(* What the steps of a removal have done so far.                           *)
Progress ==
  /\ removal \in {"records", "checkpoints", "coverage"} => configured \subseteq universe.excluded
  /\ removal \in {"checkpoints", "coverage"} => backfilled \cap configured = {}
  /\ removal = "coverage" => checkpoints \cap configured = {}

RemovalInv ==
  /\ IsClean(universe) /\ Progress
  /\ removed \subseteq configured /\ removed \subseteq universe.excluded
  /\ (backfilled \cup checkpoints \cup coverage) \cap removed = {}
  /\ rebuilt => hosted \cap removed = {}

(* Loading and merging keep a catalog clean and its exclusions.            *)
LEMMA LoadedIsClean ==
  ASSUME NEW listed, NEW excluded
  PROVE  /\ IsClean(Loaded([listed |-> listed, excluded |-> excluded]))
         /\ Loaded([listed |-> listed, excluded |-> excluded]).excluded = excluded
BY DEF Loaded, IsClean

LEMMA MergedIsClean ==
  ASSUME NEW cat, IsClean(cat), NEW found
  PROVE  /\ IsClean(MergeCurrentListings(cat, found))
         /\ MergeCurrentListings(cat, found).excluded = cat.excluded
<1> DEFINE new == {Known(cat.listed, id) : id \in found \ cat.excluded}
<1>1. new \cap cat.excluded = {}
  <2> SUFFICES ASSUME NEW id \in found \ cat.excluded
               PROVE  Known(cat.listed, id) \notin cat.excluded
    OBVIOUS
  <2>1. Known(cat.listed, id) \in cat.listed \/ Known(cat.listed, id) = id
    BY DEF Known
  <2> QED BY <2>1 DEF IsClean
<1>2. MergeCurrentListings(cat, found) = [cat EXCEPT !.listed = @ \cup new]
  BY DEF MergeCurrentListings
<1> HIDE DEF new
<1> QED BY <1>1, <1>2 DEF IsClean

LEMMA RemovalInit == InitListings => RemovalInv
BY DEF InitListings, RemovalInv, IsClean, Progress

LEMMA RefreshKeeps ==
  ASSUME RemovalInv, RefreshUniverse
  PROVE  RemovalInv'
<1>1. PICK found \in SUBSET Imported :
        universe' = MergeCurrentListings(Loaded([listed |-> Seeds, excluded |-> configured]), found)
  BY DEF RefreshUniverse
<1>2. IsClean(universe') /\ universe'.excluded = configured
  BY <1>1, LoadedIsClean, MergedIsClean
<1>3. /\ removal = "idle"
      /\ UNCHANGED <<configured, activeVars, hosted, removalVars, histVars>>
  BY DEF RefreshUniverse
<1> QED BY <1>2, <1>3 DEF RemovalInv, Progress, activeVars, removalVars, histVars, IsClean

LEMMA RowsKeep ==
  ASSUME RemovalInv, StartRemoval \/ RemoveRows \/ CountRows
  PROVE  RemovalInv'
<1>1. removal' \in {"rows", "count", "catalog"}
  BY DEF StartRemoval, RemoveRows, CountRows, NextFile
<1>2. UNCHANGED <<configured, universe, activeVars, hosted, histVars>>
  BY DEF StartRemoval, RemoveRows, CountRows
<1> QED BY <1>1, <1>2 DEF RemovalInv, Progress, IsClean, activeVars, histVars

LEMMA SaveKeeps ==
  ASSUME RemovalInv, SaveCatalog
  PROVE  RemovalInv'
<1>1. PICK listed, excluded : universe = [listed |-> listed, excluded |-> excluded]
  BY DEF RemovalInv, IsClean
<1>2. [universe EXCEPT !.excluded = @ \cup configured]
        = [listed |-> listed, excluded |-> excluded \cup configured]
  BY <1>1
<1>3. universe' = Loaded([listed |-> listed, excluded |-> excluded \cup configured])
  BY <1>2 DEF SaveCatalog
<1>4. IsClean(universe') /\ universe'.excluded = universe.excluded \cup configured
  BY <1>1, <1>3, LoadedIsClean
<1> QED BY <1>4 DEF SaveCatalog, RemovalInv, Progress, IsClean, activeVars, histVars

LEMMA DropsKeep ==
  ASSUME RemovalInv, DropRecords \/ DropCheckpoints
  PROVE  RemovalInv'
BY DEF DropRecords, DropCheckpoints, RemovalInv, Progress, IsClean, histVars

LEMMA CoverageKeeps ==
  ASSUME RemovalInv, WriteCoverage
  PROVE  RemovalInv'
BY DEF WriteCoverage, RemovalInv, Progress, IsClean

LEMMA OthersKeep ==
  ASSUME RemovalInv,
         \/ BuildPacks \/ RemovalCrash
         \/ \E id \in Ids : Collect(id) \/ Exclude(id)
         \/ \E year \in PriceFiles, ids \in SUBSET Ids : RestorePartition(year, ids)
  PROVE  RemovalInv'
<1>1. CASE BuildPacks
  <2>1. hosted' \cap universe.excluded = {}
    <3> DEFINE priced == UNION {partitions[year] : year \in PriceFiles}
    <3>1. hosted' = universe.listed \cup (priced \ universe.excluded)
      BY <1>1 DEF BuildPacks
    <3> HIDE DEF priced
    <3> QED BY <3>1 DEF RemovalInv, IsClean
  <2>2. UNCHANGED <<configured, universe, activeVars, removalVars, removed>>
    BY <1>1 DEF BuildPacks
  <2> QED BY <2>1, <2>2 DEF RemovalInv, Progress, IsClean, activeVars, removalVars
<1>2. CASE RemovalCrash
  BY <1>2 DEF RemovalCrash, RemovalInv, Progress, IsClean, activeVars, histVars
<1>3. ASSUME NEW id \in Ids, Collect(id) PROVE RemovalInv'
  <2>1. /\ removal = "idle" /\ id \in universe.listed
        /\ backfilled' = backfilled \cup {id} /\ checkpoints' = checkpoints \cup {id}
        /\ coverage' = universe.listed
        /\ UNCHANGED <<configured, universe, hosted, removalVars, histVars>>
    BY <1>3 DEF Collect
  <2> QED BY <2>1 DEF RemovalInv, Progress, IsClean, removalVars, histVars
<1>4. ASSUME NEW id \in Ids, Exclude(id) PROVE RemovalInv'
  BY <1>4 DEF Exclude, RemovalInv, Progress, IsClean, activeVars, removalVars, histVars
<1>5. ASSUME NEW year \in PriceFiles, NEW ids \in SUBSET Ids, RestorePartition(year, ids) PROVE RemovalInv'
  BY <1>5 DEF RestorePartition, RemovalInv, Progress, IsClean, activeVars, removalVars, histVars
<1> QED BY <1>1, <1>2, <1>3, <1>4, <1>5

LEMMA RemovalStep == RemovalInv /\ [NextListings]_universeVars => RemovalInv'
<1> SUFFICES ASSUME RemovalInv, [NextListings]_universeVars PROVE RemovalInv'
  OBVIOUS
<1>1. CASE UNCHANGED universeVars
  BY <1>1 DEF universeVars, activeVars, removalVars, histVars, RemovalInv, Progress, IsClean
<1> QED BY <1>1, RefreshKeeps, RowsKeep, SaveKeeps, DropsKeep, CoverageKeeps, OthersKeep DEF NextListings

(* The exclusions and the progress of a removal hold in every execution.   *)
THEOREM RemovalInvariant == SpecListings => []RemovalInv
BY RemovalInit, RemovalStep, PTL DEF SpecListings

(* What remove_excluded_listings.py has taken out is listed, recorded and  *)
(* packed again by nothing, whatever is refreshed or restored later.       *)
THEOREM RemovedStaysOutAlways == SpecListings => []RemovedStaysOut
<1>1. RemovalInv => RemovedStaysOut
  BY DEF RemovalInv, IsClean, RemovedStaysOut
<1> QED BY <1>1, RemovalInvariant, PTL

-------------------------------------------------------------------------------
(* The level of the rates                                                  *)

(* A pair at work that no run took as quoted was read at the level of the  *)
(* provider, and is written at that level.                                 *)
LevelInv ==
  /\ DOMAIN rates = Currencies /\ quoted \in SUBSET RateDays
  /\ path \in {Portal, HistoryFile, Frankfurter}
  /\ OneLevel
  /\ pair \in Currencies \ asIs =>
       /\ \A day \in RateDays : series[day] \in {NoRate, Level[pair]}
       /\ stage = "write" => ratio = Level[pair]

LEMMA AnswersAreDays ==
  ASSUME NEW source \in {Portal, HistoryFile, Frankfurter}, NEW c
  PROVE  Answers(source, c) \subseteq SUBSET RateDays
<1>1. ASSUME NEW sgd \in Quotes, NEW other \in Quotes PROVE CrossDays(c, sgd, other) \in SUBSET RateDays
  BY FxHistoryAssumption DEF CrossDays
<1> QED BY <1>1, FxHistoryAssumption DEF Answers, PortalAnswers, FileAnswers, FrankfurterAnswers, PortalSeries, Portal, HistoryFile, Frankfurter

(* The mean over days of one level is that level.                          *)
LEMMA MeanOfALevel ==
  ASSUME NEW f, NEW days, IsFiniteSet(days), days # {}, NEW k \in Nat, \A day \in days : f[day] = k
  PROVE  SumFunctionOnSet(f, days) \div Cardinality(days) = k
<1>1. SumFunctionOnSet(f, days) = k * Cardinality(days)
  BY SumOfAConstant
<1>2. Cardinality(days) \in Nat /\ Cardinality(days) # 0
  BY FS_CardinalityType, FS_EmptySet
<1> DEFINE n == Cardinality(days)
<1>3. n \in Nat \ {0}
  BY <1>2
<1> HIDE DEF n
<1>4. (k * n) \div n = k
  BY <1>3
<1> QED BY <1>1, <1>4 DEF n

LEMMA MonthsAreFew ==
  ASSUME NEW day \in RateDays
  PROVE  MonthOf(day) \in 0 .. PullEnd
<1> DEFINE m == MonthOf(day)
           d == DaysPerMonth
<1>1. day - 1 \in Nat /\ day - 1 <= PullEnd /\ d \in Nat \ {0} /\ PullEnd \in Nat
  BY FxHistoryAssumption DEF RateDays
<1>2. m = (day - 1) \div d
  BY DEF MonthOf
<1> HIDE DEF m, d
<1>3. m \in Int /\ m * d <= day - 1 /\ day - 1 < (m + 1) * d
  BY <1>1, <1>2
<1>4. m >= 0
  <2>1. CASE m < 0
    <3>1. (m + 1) * d <= 0
      BY <1>1, <1>3, <2>1
    <3> QED BY <1>1, <1>3, <3>1
  <2> QED BY <2>1, <1>3
<1>5. m <= m * d
  BY <1>1, <1>3, <1>4
<1>6. m * d \in Int
  BY <1>1, <1>3
<1>7. m <= PullEnd
  BY <1>1, <1>3, <1>5, <1>6
<1> QED BY <1>1, <1>3, <1>4, <1>7 DEF m

(* The seam that is measured is the level of the series.                   *)
LEMMA RatioIsTheLevel ==
  ASSUME LevelInv, pair \in Currencies \ asIs, ReferenceMonths # {}
  PROVE  NormalizationRatio = Level[pair]
<1> DEFINE last == Max(ReferenceMonths)
           days == CommonDays(last)
<1>1. ReferenceMonths \in SUBSET (0 .. PullEnd)
  BY MonthsAreFew DEF ReferenceMonths, LevelInv
<1>2. last \in ReferenceMonths
  BY <1>1, LastOf, FxHistoryAssumption
<1>3. Cardinality(days) >= MinOverlap
  BY <1>2 DEF ReferenceMonths
<1>4. days \in SUBSET RateDays /\ IsFiniteSet(days)
  <2>1. days \in SUBSET RateDays
    BY DEF CommonDays, LevelInv
  <2>2. IsFiniteSet(RateDays)
    BY FS_Interval, FxHistoryAssumption DEF RateDays
  <2> HIDE DEF days
  <2> QED BY <2>1, <2>2, FS_Subset
<1>5. days # {}
  <2>1. Cardinality({}) = 0 /\ MinOverlap \in Nat \ {0}
    BY FS_EmptySet, FxHistoryAssumption
  <2> QED BY <1>3, <2>1
<1>6. \A day \in days : series[day] = Level[pair]
  BY <1>4 DEF LevelInv, CommonDays
<1>7. NormalizationRatio = MapThenSumSet(LAMBDA day : series[day], days) \div Cardinality(days)
  BY DEF NormalizationRatio
<1>8. Level[pair] \in Nat
  BY FxHistoryAssumption
<1> HIDE DEF days
<1>9. MapThenSumSet(LAMBDA day : series[day], days) = SumFunctionOnSet(series, days)
  BY DEF SumFunctionOnSet, FoldFunctionOnSet, MapThenSumSet
<1>10. SumFunctionOnSet(series, days) \div Cardinality(days) = Level[pair]
  BY <1>4, <1>5, <1>6, <1>8, MeanOfALevel
<1> QED BY <1>7, <1>9, <1>10

LEMMA BuildKeepsTheLevel == ASSUME LevelInv, BuildRows PROVE LevelInv'
<1>1. rates' = rates /\ asIs \subseteq asIs'
  BY DEF BuildRows
<1>2. OneLevel'
  BY <1>1 DEF LevelInv, OneLevel
<1>3. CASE EndOfPair
  <2>1. series' = Unquoted /\ quoted' = {} /\ stage' # "write" /\ path' = Portal
    BY <1>3 DEF EndOfPair
  <2> QED BY <1>1, <1>2, <2>1 DEF LevelInv, Unquoted
<1>4. CASE /\ ratio' = NormalizationRatio /\ UNCHANGED <<pair, path, quoted, series>>
           /\ asIs' = IF ReferenceMonths = {} THEN asIs \cup {pair} ELSE asIs
  <2>1. pair' \in Currencies \ asIs' => pair \in Currencies \ asIs /\ ReferenceMonths # {}
    BY <1>4
  <2>2. pair' \in Currencies \ asIs' => ratio' = Level[pair']
    BY <1>4, <2>1, RatioIsTheLevel
  <2> QED BY <1>1, <1>2, <1>4, <2>1, <2>2 DEF LevelInv
<1> QED BY <1>3, <1>4 DEF BuildRows

LEMMA WriteKeepsTheLevel == ASSUME LevelInv, WritePartition PROVE LevelInv'
<1>1. asIs' = asIs /\ stage = "write"
  BY DEF WritePartition
<1>2. PICK now : rates' = [rates EXCEPT ![pair] =
                             [day \in RateDays |-> IF day \in now THEN ratio ELSE @[day]]]
  BY DEF WritePartition
<1>3. DOMAIN rates' = Currencies
  BY <1>2 DEF LevelInv
<1>4. ASSUME NEW c \in Currencies \ asIs', NEW day \in RateDays
      PROVE  rates'[c][day] \in {NoRate, Level[c]}
  <2>1. CASE c # pair
    BY <1>1, <1>2, <2>1 DEF LevelInv, OneLevel
  <2>2. CASE c = pair
    <3>1. rates'[c][day] = IF day \in now THEN ratio ELSE rates[c][day]
      BY <1>2, <2>2 DEF LevelInv
    <3>2. ratio = Level[c] /\ rates[c][day] \in {NoRate, Level[c]}
      BY <1>1, <2>2 DEF LevelInv, OneLevel
    <3> QED BY <3>1, <3>2
  <2> QED BY <2>1, <2>2
<1>5. OneLevel'
  BY <1>4 DEF OneLevel
<1>6. CASE EndOfPair
  <2>1. series' = Unquoted /\ quoted' = {} /\ stage' # "write" /\ path' = Portal
    BY <1>6 DEF EndOfPair
  <2> QED BY <1>3, <1>5, <2>1 DEF LevelInv, Unquoted
<1>7. CASE UNCHANGED <<stage, pair, path, quoted, series, ratio, pages>>
  BY <1>1, <1>3, <1>5, <1>7 DEF LevelInv
<1> QED BY <1>6, <1>7 DEF WritePartition

LEMMA PairKeepsTheLevel == ASSUME LevelInv, NextPair \/ PathBlocked \/ PathAnswers PROVE LevelInv'
<1>1. CASE NextPair
  <2>1. /\ rates' = rates /\ asIs' = asIs /\ quoted' = quoted /\ stage' = "source"
        /\ series' = rates[pair'] /\ path' = Portal
    BY <1>1 DEF NextPair
  <2> QED BY <2>1 DEF LevelInv, OneLevel
<1>2. CASE PathBlocked
  <2>1. rates' = rates /\ asIs' = asIs
    BY <1>2 DEF PathBlocked
  <2>2. CASE path = Frankfurter
    <3>1. series' = Unquoted /\ quoted' = {} /\ stage' = "pairs" /\ path' = Portal
      BY <1>2, <2>2 DEF PathBlocked, EndOfPair
    <3> QED BY <2>1, <3>1 DEF LevelInv, OneLevel, Unquoted
  <2>3. CASE path # Frankfurter
    <3>1. path' \in {Portal, HistoryFile, Frankfurter} /\ UNCHANGED <<stage, pair, quoted, series, ratio>>
      BY <1>2, <2>3 DEF PathBlocked, LevelInv, Portal, HistoryFile, Frankfurter
    <3> QED BY <2>1, <3>1 DEF LevelInv, OneLevel
  <2> QED BY <2>2, <2>3
<1>3. CASE PathAnswers
  <2>1. quoted' \in SUBSET RateDays
    BY <1>3, AnswersAreDays DEF PathAnswers, LevelInv
  <2> QED BY <1>3, <2>1 DEF PathAnswers, LevelInv, OneLevel
<1> QED BY <1>1, <1>2, <1>3

LEMMA OthersKeepTheLevel ==
  ASSUME LevelInv, stage' = "write" => stage = "write",
         UNCHANGED <<path, quoted, ratio, asIs>>, UNCHANGED <<rates, pair, series>>
  PROVE  LevelInv'
BY DEF LevelInv, OneLevel

LEMMA SurroundingsKeepTheLevel ==
  ASSUME LevelInv, RatesCrash \/ \E c \in Currencies, day \in RateDays : ProviderStores(c, day)
  PROVE  LevelInv'
<1>1. CASE RatesCrash
  <2>1. /\ rates' = rates /\ asIs' = asIs
        /\ series' = Unquoted /\ quoted' = {} /\ stage' = "idle" /\ path' = Portal
    BY <1>1 DEF RatesCrash
  <2> QED BY <2>1 DEF LevelInv, OneLevel, Unquoted
<1>2. ASSUME NEW c \in Currencies, NEW day \in RateDays, ProviderStores(c, day) PROVE LevelInv'
  <2>1. /\ UNCHANGED <<stage, path, quoted, ratio, asIs, pair, series>>
        /\ rates' = [rates EXCEPT ![c][day] = Level[c]]
    BY <1>2 DEF ProviderStores, pairVars
  <2>2. OneLevel'
    BY <2>1 DEF LevelInv, OneLevel
  <2> QED BY <2>1, <2>2 DEF LevelInv
<1> QED BY <1>1, <1>2

LEMMA LevelStep == LevelInv /\ [NextRates]_fxVars => LevelInv'
<1> SUFFICES ASSUME LevelInv, [NextRates]_fxVars PROVE LevelInv'
  OBVIOUS
<1>1. CASE BuildRows
  BY <1>1, BuildKeepsTheLevel
<1>2. CASE WritePartition
  BY <1>2, WriteKeepsTheLevel
<1>3. CASE NextPair \/ PathBlocked \/ PathAnswers
  BY <1>3, PairKeepsTheLevel
<1>4. CASE \E ids \in MirrorRows, more \in BOOLEAN : MirrorPage(ids, more)
  BY <1>4, OthersKeepTheLevel DEF MirrorPage, KeepPage
<1>5. CASE StartRates \/ MirrorFails \/ EndRates
  BY <1>5, OthersKeepTheLevel DEF StartRates, MirrorFails, EndRates
<1>6. CASE RatesCrash \/ \E c \in Currencies, day \in (WindowEnd + 1) .. PullEnd : ProviderStores(c, day)
  <2>1. (WindowEnd + 1) .. PullEnd \subseteq RateDays
    BY FxHistoryAssumption DEF RateDays
  <2> QED BY <1>6, <2>1, SurroundingsKeepTheLevel
<1>7. CASE UNCHANGED fxVars
  BY <1>7, OthersKeepTheLevel DEF fxVars, pairVars
<1> QED BY <1>1, <1>2, <1>3, <1>4, <1>5, <1>6, <1>7 DEF NextRates

(* The rows of every run join the provider's series without a seam,        *)
(* whichever source quoted them and however often a run was killed and its *)
(* own rows were measured by the next: a mean over days of one level is    *)
(* that level (backfill_fx_history.py:compute_normalization_ratio).        *)
THEOREM SeriesHaveOneLevel == SpecRates => []OneLevel
<1>1. InitRates => LevelInv
  BY DEF InitRates, LevelInv, OneLevel, Unquoted
<1>2. LevelInv => OneLevel
  BY DEF LevelInv
<1> QED BY <1>1, <1>2, LevelStep, PTL DEF SpecRates

-------------------------------------------------------------------------------
(* The attempts of the price backfill                                      *)

InFlight(s) == IF s \in batch THEN 1 ELSE 0

GivenUp(record) == record.status = "unavailable" => record.attempts = MaxAttempts

(* A run in progress asks only for securities with an attempt left, and no *)
(* security twice.                                                         *)
RequestInv ==
  /\ phase \in {"idle", "open", "fetch"} => batch = {}
  /\ left \cap batch = {}
  /\ \A s \in left \cup batch : file[s].attempts < MaxAttempts

CountInv ==
  \A s \in Securities :
    /\ records[s].attempts = file[s].attempts
    /\ GivenUp(file[s]) /\ GivenUp(records[s])
    /\ file[s].attempts + InFlight(s) <= asked[s]
    /\ asked[s] <= file[s].attempts + InFlight(s) + crashes

AttemptInv == TypeOK /\ RequestInv /\ CountInv

-------------------------------------------------------------------------------
(* The operators                                                           *)

LEMMA StatusIsAStatus ==
  ASSUME NEW bars, NEW gap, NEW last
  PROVE  CoverageStatus(bars, gap, last) \in {"incomplete", "stored"}
BY DEF CoverageStatus

(* Reconciling changes no attempts and gives no security up.               *)
LEMMA ReconcileKeepsAttempts ==
  ASSUME NEW recs \in [Securities -> Records]
  PROVE  /\ Reconcile(recs) \in [Securities -> Records]
         /\ \A s \in Securities :
              /\ Reconcile(recs)[s].attempts = recs[s].attempts
              /\ Reconcile(recs)[s].status = "unavailable" => recs[s].status = "unavailable"
<1>1. ASSUME NEW s \in Securities
      PROVE  /\ Reconcile(recs)[s] \in Records
             /\ Reconcile(recs)[s].attempts = recs[s].attempts
             /\ Reconcile(recs)[s].status = "unavailable" => recs[s].status = "unavailable"
  <2>1. recs[s] \in Records
    OBVIOUS
  <2>2. CASE s \notin catalog
    <3>1. Reconcile(recs)[s] = [recs[s] EXCEPT !.listed = FALSE]
      BY <2>2 DEF Reconcile
    <3> QED BY <2>1, <3>1 DEF Records
  <2>3. CASE s \in catalog
    <3> DEFINE status == IF store[s] # {} THEN StatusOf(store, s)
                         ELSE IF recs[s].status \in {"stored", "absent"} THEN "pending"
                         ELSE recs[s].status
    <3>1. Reconcile(recs)[s] = [status |-> status, attempts |-> recs[s].attempts, listed |-> TRUE]
      BY <2>3 DEF Reconcile
    <3>2. StatusOf(store, s) \in {"incomplete", "stored"}
      BY StatusIsAStatus DEF StatusOf
    <3>3. status \in Statuses \cup {"absent"} /\ (status = "unavailable" => recs[s].status = "unavailable")
      BY <2>1, <3>2 DEF Records, Statuses
    <3>4. recs[s].attempts \in 0 .. MaxAttempts
      BY <2>1 DEF Records
    <3> HIDE DEF status
    <3> QED BY <3>1, <3>3, <3>4 DEF Records
  <2> QED BY <2>2, <2>3
<1>2. Reconcile(recs) \in [Securities -> Records]
  <2>1. Reconcile(recs) = [s \in Securities |-> Reconcile(recs)[s]]
    BY DEF Reconcile
  <2> HIDE DEF Reconcile
  <2> QED BY <1>1, <2>1
<1> QED BY <1>1, <1>2

(* An outcome counts one attempt and gives up at the last one.             *)
LEMMA OutcomeCounts ==
  ASSUME NEW s \in Securities, records[s] \in Records, records[s].attempts < MaxAttempts
  PROVE  /\ Outcome(s) \in Records
         /\ Outcome(s).attempts = records[s].attempts + 1
         /\ GivenUp(Outcome(s))
<1> DEFINE attempts == records[s].attempts + 1
           status   == IF answer[s] # {}
                       THEN CoverageStatus(Cardinality(scanned[s]) + Cardinality(answer[s]), FALSE,
                                           Max(scanned[s] \cup answer[s]))
                       ELSE IF attempts >= MaxAttempts THEN "unavailable" ELSE "failed"
<1>1. Outcome(s) = [records[s] EXCEPT !.attempts = attempts, !.status = status]
  BY DEF Outcome
<1>2. attempts \in 0 .. MaxAttempts /\ attempts \in Nat
  BY PriceBackfillAssumption DEF Records
<1>3. status \in Statuses
  BY StatusIsAStatus DEF Statuses
<1>4. status = "unavailable" => attempts = MaxAttempts
  <2>1. CASE answer[s] # {}
    <3>1. status \in {"incomplete", "stored"}
      BY <2>1, StatusIsAStatus
    <3> QED BY <3>1
  <2>2. CASE answer[s] = {}
    BY <1>2, <2>2, PriceBackfillAssumption
  <2> QED BY <2>1, <2>2
<1> HIDE DEF attempts, status
<1>5. Outcome(s) \in Records /\ Outcome(s).attempts = attempts /\ Outcome(s).status = status
  BY <1>1, <1>2, <1>3 DEF Records
<1> QED BY <1>4, <1>5 DEF GivenUp, attempts

-------------------------------------------------------------------------------
(* The steps of a run                                                      *)

LEMMA AttemptInit == Init => AttemptInv
<1> SUFFICES ASSUME Init PROVE AttemptInv
  OBVIOUS
<1>1. MaxAttempts \in Nat \ {0} /\ MaxDay \in Nat \ {0}
  BY PriceBackfillAssumption
<1>2. Absent \in Records /\ Absent.attempts = 0 /\ Absent.status = "absent"
  BY <1>1 DEF Absent, Records
<1>3. TypeOK
  BY <1>1, <1>2 DEF Init, TypeOK, NoAnswer, Days
<1>4. RequestInv /\ CountInv
  BY <1>1, <1>2 DEF Init, RequestInv, CountInv, InFlight, GivenUp
<1> QED BY <1>3, <1>4 DEF AttemptInv

LEMMA StartKeeps ==
  ASSUME AttemptInv, NEW script \in {"backfill", "reconcile"}, Start(script)
  PROVE  AttemptInv'
<1> USE DEF Start, dataVars, envVars
<1>1. records' \in [Securities -> Records]
  BY ReconcileKeepsAttempts DEF AttemptInv, TypeOK
<1>2. \A s \in Securities : /\ records'[s].attempts = file[s].attempts
                            /\ records'[s].status = "unavailable" => file[s].status = "unavailable"
  BY ReconcileKeepsAttempts DEF AttemptInv, TypeOK
<1>3. left' \subseteq Securities /\ \A s \in left' : records'[s].attempts < MaxAttempts
  BY DEF Candidates, Wanted, AttemptInv, TypeOK
<1>4. TypeOK'
  BY <1>1, <1>3 DEF AttemptInv, TypeOK
<1>5. RequestInv'
  BY <1>2, <1>3 DEF AttemptInv, RequestInv
<1>6. CountInv'
  BY <1>2 DEF AttemptInv, CountInv, InFlight, GivenUp
<1> QED BY <1>4, <1>5, <1>6 DEF AttemptInv

LEMMA PersistKeeps ==
  ASSUME AttemptInv, Persist
  PROVE  AttemptInv'
<1> USE DEF Persist, envVars
<1>1. TypeOK'
  BY DEF AttemptInv, TypeOK, NoAnswer
<1>2. RequestInv'
  BY DEF AttemptInv, RequestInv, CountInv, TypeOK
<1>3. CountInv'
  BY DEF AttemptInv, CountInv, InFlight, GivenUp
<1> QED BY <1>1, <1>2, <1>3 DEF AttemptInv

LEMMA FetchKeeps ==
  ASSUME AttemptInv, Fetch
  PROVE  AttemptInv'
<1> USE DEF Fetch, dataVars, envVars
<1>1. batch = {}
  BY DEF AttemptInv, RequestInv
<1>2. batch' \subseteq left /\ left' = left \ batch'
  BY DEF NextBatch
<1>3. TypeOK'
  <2>1. answer' \in [Securities -> SUBSET Days]
    <3>1. PICK known \in [batch' -> Histories] :
            answer' = [s \in Securities |-> IF s \in batch' THEN known[s] \cap (1 .. today) ELSE {}]
      OBVIOUS
    <3>2. \A s \in batch' : known[s] \subseteq Days
      BY PriceBackfillAssumption DEF Days
    <3> QED BY <3>1, <3>2
  <2>2. asked' \in [Securities -> Nat]
    BY DEF AttemptInv, TypeOK
  <2> QED BY <1>2, <2>1, <2>2 DEF AttemptInv, TypeOK
<1>4. RequestInv'
  BY <1>2 DEF AttemptInv, RequestInv
<1>5. CountInv'
  <2> SUFFICES ASSUME NEW s \in Securities
               PROVE  /\ file[s].attempts + InFlight(s)' <= asked'[s]
                      /\ asked'[s] <= file[s].attempts + InFlight(s)' + crashes
    BY DEF AttemptInv, CountInv, GivenUp
  <2>1. file[s].attempts \in Int /\ asked[s] \in Int /\ crashes \in Int
    BY PriceBackfillAssumption DEF AttemptInv, TypeOK, Records
  <2>2. file[s].attempts <= asked[s] /\ asked[s] <= file[s].attempts + crashes
    BY <1>1, <2>1 DEF AttemptInv, CountInv, InFlight
  <2>3. asked'[s] = asked[s] + InFlight(s)' /\ InFlight(s)' \in {0, 1}
    BY <2>1 DEF InFlight, AttemptInv, TypeOK
  <2> QED BY <2>1, <2>2, <2>3
<1> QED BY <1>3, <1>4, <1>5 DEF AttemptInv

LEMMA UpsertKeeps ==
  ASSUME AttemptInv, Upsert
  PROVE  AttemptInv'
<1> DEFINE days == UNION {unwritten[s] : s \in Securities}
           now  == {day \in days : \A other \in days : YearOf(day) <= YearOf(other)}
<1>1. /\ store' = [s \in Securities |-> store[s] \cup (unwritten[s] \cap now)]
      /\ unwritten' = [s \in Securities |-> unwritten[s] \ now]
      /\ phase' \in {"upsert", "record"} /\ phase = "upsert"
      /\ UNCHANGED <<file, envVars, job, records, scanned, left, batch, answer, asked, crashes>>
  BY DEF Upsert
<1> HIDE DEF now
<1>2. TypeOK'
  BY <1>1 DEF AttemptInv, TypeOK, envVars
<1>3. RequestInv'
  BY <1>1 DEF AttemptInv, RequestInv
<1>4. CountInv'
  BY <1>1 DEF AttemptInv, CountInv, InFlight, GivenUp
<1> QED BY <1>2, <1>3, <1>4 DEF AttemptInv

LEMMA RecordKeeps ==
  ASSUME AttemptInv, Record
  PROVE  AttemptInv'
<1> USE DEF Record, envVars
<1>1. ASSUME NEW s \in Securities
      PROVE  /\ records'[s] \in Records /\ GivenUp(records'[s])
             /\ records'[s].attempts = file[s].attempts + InFlight(s)
  <2>1. /\ records[s] \in Records /\ GivenUp(records[s]) /\ file[s].attempts \in Int
        /\ records[s].attempts = file[s].attempts
    BY PriceBackfillAssumption DEF AttemptInv, TypeOK, CountInv, Records
  <2>2. CASE s \in batch
    <3>1. records[s].attempts < MaxAttempts
      BY <2>1, <2>2 DEF AttemptInv, RequestInv
    <3>2. records'[s] = Outcome(s) /\ InFlight(s) = 1
      BY <2>2 DEF InFlight
    <3> QED BY <2>1, <3>1, <3>2, OutcomeCounts
  <2>3. CASE s \notin batch
    <3>1. records'[s] = records[s] /\ InFlight(s) = 0
      BY <2>3 DEF InFlight
    <3> QED BY <2>1, <3>1
  <2> QED BY <2>2, <2>3
<1>2. records' \in [Securities -> Records]
  BY <1>1
<1>3. TypeOK'
  BY <1>2 DEF AttemptInv, TypeOK, NoAnswer
<1>4. RequestInv'
  <2>1. \A s \in left : s \in Securities /\ s \notin batch
    BY DEF AttemptInv, RequestInv, TypeOK
  <2>2. \A s \in left : file'[s] = records[s] /\ records[s].attempts = file[s].attempts
    BY <2>1 DEF AttemptInv, CountInv
  <2> QED BY <2>1, <2>2 DEF AttemptInv, RequestInv
<1>5. CountInv'
  <2> SUFFICES ASSUME NEW s \in Securities
               PROVE  /\ file'[s].attempts + InFlight(s)' <= asked[s]
                      /\ asked[s] <= file'[s].attempts + InFlight(s)' + crashes
    BY <1>1 DEF CountInv
  <2>1. InFlight(s)' = 0 /\ file'[s].attempts = file[s].attempts + InFlight(s)
    BY <1>1 DEF InFlight
  <2>2. InFlight(s) \in Int /\ file[s].attempts \in Int /\ asked[s] \in Int /\ crashes \in Int
    BY PriceBackfillAssumption DEF InFlight, AttemptInv, TypeOK, Records
  <2>3. /\ file[s].attempts + InFlight(s) <= asked[s]
        /\ asked[s] <= file[s].attempts + InFlight(s) + crashes
    BY DEF AttemptInv, CountInv
  <2> QED BY <2>1, <2>2, <2>3
<1> QED BY <1>3, <1>4, <1>5 DEF AttemptInv

LEMMA FinishKeeps ==
  ASSUME AttemptInv, Finish
  PROVE  AttemptInv'
<1> USE DEF Finish, envVars
<1>1. records' \in [Securities -> Records]
  BY ReconcileKeepsAttempts DEF AttemptInv, TypeOK
<1>2. \A s \in Securities : /\ records'[s].attempts = file[s].attempts
                            /\ records'[s].status = "unavailable" => file[s].status = "unavailable"
  BY ReconcileKeepsAttempts DEF AttemptInv, TypeOK
<1>3. TypeOK'
  BY <1>1 DEF AttemptInv, TypeOK, NoAnswer
<1>4. RequestInv'
  BY DEF AttemptInv, RequestInv
<1>5. CountInv'
  BY <1>2 DEF AttemptInv, CountInv, InFlight, GivenUp
<1> QED BY <1>3, <1>4, <1>5 DEF AttemptInv

-------------------------------------------------------------------------------
(* Kills and the surroundings                                              *)

(* The request in flight is lost: it stays asked and is not on record.     *)
LEMMA CrashKeeps ==
  ASSUME AttemptInv, Crash
  PROVE  AttemptInv'
<1> USE DEF Crash, dataVars, envVars
<1>1. TypeOK'
  BY DEF AttemptInv, TypeOK, NoAnswer
<1>2. RequestInv'
  BY DEF RequestInv
<1>3. CountInv'
  <2> SUFFICES ASSUME NEW s \in Securities
               PROVE  /\ file[s].attempts + InFlight(s)' <= asked[s]
                      /\ asked[s] <= file[s].attempts + InFlight(s)' + crashes'
    BY DEF AttemptInv, CountInv
  <2>1. InFlight(s)' = 0 /\ InFlight(s) \in {0, 1} /\ crashes' = crashes + 1
    BY DEF InFlight
  <2>2. file[s].attempts \in Int /\ asked[s] \in Int /\ crashes \in Int
    BY PriceBackfillAssumption DEF AttemptInv, TypeOK, Records
  <2>3. /\ file[s].attempts + InFlight(s) <= asked[s]
        /\ asked[s] <= file[s].attempts + InFlight(s) + crashes
    BY DEF AttemptInv, CountInv
  <2> QED BY <2>1, <2>2, <2>3
<1> QED BY <1>1, <1>2, <1>3 DEF AttemptInv

LEMMA SurroundingsKeep ==
  ASSUME AttemptInv, NewDay \/ RefreshCatalog \/ LosePartition
  PROVE  AttemptInv'
<1>1. UNCHANGED <<file, runVars, asked, crashes>>
  BY DEF NewDay, RefreshCatalog, LosePartition, dataVars
<1>2. store' \in [Securities -> SUBSET Days] /\ catalog' \subseteq Securities
      /\ today' \in Days /\ changes' \in Nat
  <2>1. CASE NewDay
    BY <2>1, PriceBackfillAssumption DEF NewDay, dataVars, AttemptInv, TypeOK, Days
  <2>2. CASE RefreshCatalog
    BY <2>2 DEF RefreshCatalog, dataVars, AttemptInv, TypeOK
  <2>3. CASE LosePartition
    BY <2>3 DEF LosePartition, AttemptInv, TypeOK
  <2> QED BY <2>1, <2>2, <2>3
<1>3. TypeOK'
  BY <1>1, <1>2 DEF AttemptInv, TypeOK, runVars
<1>4. RequestInv' /\ CountInv'
  BY <1>1 DEF AttemptInv, RequestInv, CountInv, InFlight, GivenUp, runVars
<1> QED BY <1>3, <1>4 DEF AttemptInv

LEMMA AttemptStep == AttemptInv /\ [Next]_vars => AttemptInv'
<1> SUFFICES ASSUME AttemptInv, [Next]_vars PROVE AttemptInv'
  OBVIOUS
<1>1. CASE BackfillMissingPrices
  BY <1>1, StartKeeps DEF BackfillMissingPrices
<1>2. CASE ReconcileState
  BY <1>2, StartKeeps DEF ReconcileState
<1>3. CASE Persist
  BY <1>3, PersistKeeps
<1>4. CASE Fetch
  BY <1>4, FetchKeeps
<1>5. CASE Upsert
  BY <1>5, UpsertKeeps
<1>6. CASE Record
  BY <1>6, RecordKeeps
<1>7. CASE Finish
  BY <1>7, FinishKeeps
<1>8. CASE Crash
  BY <1>8, CrashKeeps
<1>9. CASE NewDay \/ RefreshCatalog \/ LosePartition
  BY <1>9, SurroundingsKeep
<1>10. CASE UNCHANGED vars
  BY <1>10 DEF vars, dataVars, envVars, runVars, AttemptInv, TypeOK, RequestInv, CountInv, InFlight, GivenUp
<1> QED BY <1>1, <1>2, <1>3, <1>4, <1>5, <1>6, <1>7, <1>8, <1>9, <1>10 DEF Next

-------------------------------------------------------------------------------
(* Theorems                                                                *)

(* The attempts and their records hold in every execution.                 *)
THEOREM BackfillInvariant == Spec => []AttemptInv
BY AttemptInit, AttemptStep, PTL DEF Spec

(* The store, the state file and the run keep their types.                 *)
THEOREM BackfillTypeCorrect == Spec => []TypeOK
<1>1. AttemptInv => TypeOK
  BY DEF AttemptInv
<1> QED BY <1>1, BackfillInvariant, PTL

(* backfill.py asks the provider for a security at most MAX_ATTEMPTS times *)
(* and once more for every kill, in all its invocations together.          *)
THEOREM RequestsAreAlwaysCounted == Spec => []RequestsAreCounted
<1>1. AttemptInv => RequestsAreCounted
  <2> SUFFICES ASSUME AttemptInv, NEW s \in Securities PROVE asked[s] <= MaxAttempts + crashes
    BY DEF RequestsAreCounted
  <2>1. /\ file[s].attempts \in 0 .. MaxAttempts /\ MaxAttempts \in Int
        /\ asked[s] \in Int /\ crashes \in Int
    BY PriceBackfillAssumption DEF AttemptInv, TypeOK, Records
  <2>2. asked[s] <= file[s].attempts + InFlight(s) + crashes
    BY DEF AttemptInv, CountInv
  <2>3. CASE s \in batch
    BY <2>1, <2>2, <2>3 DEF InFlight, AttemptInv, RequestInv
  <2>4. CASE s \notin batch
    BY <2>1, <2>2, <2>4 DEF InFlight
  <2> QED BY <2>3, <2>4
<1> QED BY <1>1, BackfillInvariant, PTL

(* A catalog security that backfill.py has not got and has not given up is *)
(* a candidate of the next run, whatever was killed, lost or delisted.     *)
THEOREM UnknownIsAlwaysWanted == Spec => []UnknownIsNeverSkipped
<1>1. AttemptInv => UnknownIsNeverSkipped
  <2> SUFFICES ASSUME AttemptInv, NEW s \in catalog, ~Covered(store, s), asked[s] < MaxAttempts
               PROVE  Wanted(Reconcile(file)[s])
    BY DEF UnknownIsNeverSkipped
  <2>1. s \in Securities /\ file[s] \in Records
    BY DEF AttemptInv, TypeOK
  <2>2. file[s].attempts < MaxAttempts
    <3>1. /\ file[s].attempts \in Int /\ InFlight(s) \in {0, 1}
          /\ asked[s] \in Int /\ MaxAttempts \in Int
      BY <2>1, PriceBackfillAssumption DEF InFlight, AttemptInv, TypeOK, Records
    <3>2. file[s].attempts + InFlight(s) <= asked[s]
      BY <2>1 DEF AttemptInv, CountInv
    <3> QED BY <3>1, <3>2
  <2>3. file[s].status # "unavailable"
    BY <2>1, <2>2, PriceBackfillAssumption DEF AttemptInv, CountInv, GivenUp, Records
  <2>4. Reconcile(file)[s] =
          [status   |-> IF store[s] # {} THEN StatusOf(store, s)
                        ELSE IF file[s].status \in {"stored", "absent"} THEN "pending"
                        ELSE file[s].status,
           attempts |-> file[s].attempts, listed |-> TRUE]
    BY <2>1 DEF Reconcile
  <2>5. CASE store[s] # {}
    <3>1. StatusOf(store, s) = "incomplete"
      BY <2>5, StatusIsAStatus DEF Covered, StatusOf
    <3> QED BY <2>2, <2>4, <2>5, <3>1 DEF Wanted
  <2>6. CASE store[s] = {}
    <3>1. file[s].status \in {"stored", "absent", "pending", "failed", "incomplete"}
      BY <2>1, <2>3 DEF Records, Statuses
    <3> QED BY <2>2, <2>4, <2>6, <3>1 DEF Wanted
  <2> QED BY <2>5, <2>6
<1> QED BY <1>1, BackfillInvariant, PTL

-------------------------------------------------------------------------------
(* What is stored is not asked for                                         *)

(* What a run holds in memory: rows to write only of the batch, candidates *)
(* only of a backfill, none of them covered.                               *)
AskInv ==
  /\ \A s \in left : ~Covered(store, s)
  /\ \A s \in Securities : unwritten[s] # {} => s \in batch /\ phase = "upsert"
  /\ job = "backfill" \/ left = {}
  /\ phase = "idle" => left = {}

(* More sessions close no gap.                                             *)
LEMMA GapsStay ==
  ASSUME NEW days, NEW many \in SUBSET Days, NEW few \in SUBSET many, HasGap(days, few)
  PROVE  HasGap(days, many)
<1>1. PICK first \in days, next \in days :
        /\ \A day \in days : day <= first \/ next <= day
        /\ Cardinality({day \in few : first < day /\ day < next}) > MaxGap
  BY DEF HasGap
<1> DEFINE between(sessions) == {day \in sessions : first < day /\ day < next}
<1>2. IsFiniteSet(between(many))
  <2>1. IsFiniteSet(Days)
    BY PriceBackfillAssumption, FS_Interval DEF Days
  <2> QED BY <2>1, FS_Subset
<1>3. between(few) \in SUBSET between(many)
  OBVIOUS
<1>4. Cardinality(between(few)) > MaxGap
  BY <1>1
<1> HIDE DEF between
<1>5. /\ Cardinality(between(few)) <= Cardinality(between(many))
      /\ Cardinality(between(few)) \in Nat /\ Cardinality(between(many)) \in Nat
  BY <1>2, <1>3, FS_Subset, FS_CardinalityType
<1>6. Cardinality(between(many)) > MaxGap
  BY <1>4, <1>5, PriceBackfillAssumption
<1> QED BY <1>1, <1>6 DEF HasGap, between

(* Rows of other securities cover none that was not covered.               *)
LEMMA OthersCoverNothing ==
  ASSUME NEW fewer \in [Securities -> SUBSET Days], NEW more \in [Securities -> SUBSET Days],
         \A t \in Securities : fewer[t] \subseteq more[t],
         NEW s \in Securities, more[s] = fewer[s], ~Covered(fewer, s)
  PROVE  ~Covered(more, s)
<1> DEFINE seen == Sessions(fewer, MarketOf[s])
           after  == Sessions(more, MarketOf[s])
<1>1. after \in SUBSET Days /\ seen \in SUBSET after
  BY DEF Sessions
<1> HIDE DEF seen, after
<1>2. HasGap(fewer[s], seen) => HasGap(fewer[s], after)
  BY <1>1, GapsStay
<1>3. CASE fewer[s] = {}
  BY <1>3 DEF Covered
<1>4. CASE StatusOf(fewer, s) # "stored"
  <2>1. \/ Cardinality(fewer[s]) < MinBars \/ HasGap(fewer[s], seen)
        \/ today - Max(fewer[s]) > MaxStale
    BY <1>4 DEF StatusOf, CoverageStatus, seen
  <2>2. StatusOf(more, s) = "incomplete"
    BY <1>2, <2>1 DEF StatusOf, CoverageStatus, after
  <2> QED BY <2>2 DEF Covered
<1> QED BY <1>3, <1>4 DEF Covered

LEMMA InitAsksNothing == Init => AskInv
BY DEF Init, AskInv, NoAnswer

LEMMA StartAsks ==
  ASSUME AttemptInv, AskInv, NEW script \in {"backfill", "reconcile"}, Start(script)
  PROVE  AskInv'
<1>1. /\ job' = script /\ phase' = "open" /\ phase = "idle" /\ records' = Reconcile(file)
      /\ left' = IF script = "backfill" THEN Candidates(records') ELSE {}
      /\ UNCHANGED <<store, today, batch, unwritten>>
  BY DEF Start, dataVars, envVars
<1>2. ASSUME NEW s \in left' PROVE ~Covered(store, s)
  <2>1. s \in catalog /\ s \in Securities /\ Wanted(Reconcile(file)[s])
    BY <1>1, <1>2 DEF Candidates, Start, envVars, AttemptInv, TypeOK
  <2>2. CASE store[s] # {}
    <3>1. Reconcile(file)[s].status = StatusOf(store, s)
      BY <2>1, <2>2 DEF Reconcile
    <3> QED BY <2>1, <3>1 DEF Wanted, Covered
  <2>3. CASE store[s] = {}
    BY <2>3 DEF Covered
  <2> QED BY <2>2, <2>3
<1>3. \A s \in left' : ~Covered(store, s)'
  BY <1>1, <1>2 DEF Covered, StatusOf, CoverageStatus
<1>4. \A s \in Securities : unwritten'[s] = {}
  BY <1>1 DEF AskInv
<1> QED BY <1>1, <1>3, <1>4 DEF AskInv

(* The batch leaves the candidates, and what it brings is to be written.   *)
LEMMA FetchAsks ==
  ASSUME AttemptInv, AskInv, Fetch
  PROVE  AskInv'
<1>1. /\ phase' = "upsert" /\ left' = left \ batch' /\ unwritten' = answer' /\ left # {}
      /\ \A s \in Securities : answer'[s] # {} => s \in batch'
      /\ UNCHANGED <<store, today, job>>
  BY DEF Fetch, dataVars, envVars
<1>2. \A s \in left' : ~Covered(store, s)'
  BY <1>1 DEF AskInv, Covered, StatusOf, CoverageStatus
<1> QED BY <1>1, <1>2 DEF AskInv

LEMMA UpsertAsks ==
  ASSUME AttemptInv, AskInv, Upsert
  PROVE  AskInv'
<1> DEFINE days == UNION {unwritten[s] : s \in Securities}
           now  == {day \in days : \A other \in days : YearOf(day) <= YearOf(other)}
<1>1. /\ store' = [s \in Securities |-> store[s] \cup (unwritten[s] \cap now)]
      /\ unwritten' = [s \in Securities |-> unwritten[s] \ now]
      /\ phase' = (IF days = now THEN "record" ELSE "upsert") /\ phase = "upsert"
      /\ UNCHANGED <<today, job, left, batch>>
  BY DEF Upsert, envVars
<1>2. ASSUME days = now, NEW s \in Securities PROVE unwritten'[s] = {}
  <2>1. unwritten[s] \subseteq days
    OBVIOUS
  <2> HIDE DEF now, days
  <2> QED BY <1>1, <1>2, <2>1
<1> HIDE DEF now, days
<1>3. \A s \in left : ~Covered(store', s)
  <2> SUFFICES ASSUME NEW s \in left PROVE ~Covered(store', s)
    OBVIOUS
  <2>1. s \in Securities /\ s \notin batch /\ ~Covered(store, s)
    BY DEF AttemptInv, TypeOK, RequestInv, AskInv
  <2>2. store'[s] = store[s]
    BY <1>1, <2>1 DEF AskInv, AttemptInv, TypeOK
  <2>3. /\ store \in [Securities -> SUBSET Days] /\ store' \in [Securities -> SUBSET Days]
        /\ \A t \in Securities : store[t] \subseteq store'[t]
    BY <1>1 DEF AttemptInv, TypeOK
  <2> QED BY <2>1, <2>2, <2>3, OthersCoverNothing
<1>4. \A s \in left' : ~Covered(store, s)'
  BY <1>1, <1>3 DEF Covered, StatusOf, CoverageStatus
<1>5. \A s \in Securities : unwritten'[s] # {} => s \in batch' /\ phase' = "upsert"
  BY <1>1, <1>2 DEF AskInv
<1> QED BY <1>1, <1>4, <1>5 DEF AskInv

LEMMA OthersAsk ==
  ASSUME AttemptInv, AskInv, Persist \/ Record \/ Finish \/ Crash \/ NewDay \/ RefreshCatalog \/ LosePartition
  PROVE  AskInv'
<1>1. CASE Persist \/ Record \/ Finish
  <2>1. /\ phase \in {"open", "record", "fetch"} /\ UNCHANGED <<store, today, left, unwritten>>
        /\ job' = job \/ left = {}
        /\ phase' = "idle" => left = {}
    BY <1>1 DEF Persist, Record, Finish, envVars, AskInv
  <2>2. \A s \in Securities : unwritten'[s] = {}
    BY <2>1 DEF AskInv
  <2>3. \A s \in left' : ~Covered(store, s)'
    BY <2>1 DEF AskInv, Covered, StatusOf, CoverageStatus
  <2> QED BY <2>1, <2>2, <2>3 DEF AskInv
<1>2. CASE Crash
  BY <1>2 DEF Crash, AskInv, NoAnswer
<1>3. CASE NewDay \/ RefreshCatalog \/ LosePartition
  <2>1. phase = "idle" /\ UNCHANGED <<job, phase, left, batch, unwritten>>
    BY <1>3 DEF NewDay, RefreshCatalog, LosePartition, runVars
  <2> QED BY <2>1 DEF AskInv
<1> QED BY <1>1, <1>2, <1>3

LEMMA AskStep == AttemptInv /\ AskInv /\ [Next]_vars => AskInv'
<1> SUFFICES ASSUME AttemptInv, AskInv, [Next]_vars PROVE AskInv'
  OBVIOUS
<1>1. CASE UNCHANGED vars
  BY <1>1 DEF vars, dataVars, envVars, runVars, AskInv, Covered, StatusOf, CoverageStatus
<1> QED
  BY <1>1, StartAsks, FetchAsks, UpsertAsks, OthersAsk DEF Next, BackfillMissingPrices, ReconcileState

(* backfill_missing_prices asks for no history that the store covers, also *)
(* after a kill between the Parquet write and the state write, and while   *)
(* its own batches extend the session calendar.                            *)
THEOREM NothingStoredIsEverAskedAgain == Spec => []NothingStoredIsAskedAgain
<1>1. AskInv => NothingStoredIsAskedAgain
  BY DEF AskInv, NothingStoredIsAskedAgain
<1> QED BY <1>1, InitAsksNothing, AskStep, AttemptInit, AttemptStep, PTL DEF Spec

-------------------------------------------------------------------------------
(* The checkpoint of the dividend archive                                  *)

(* What the arguments of the script and the provider are assumed to be.    *)
Bounds ==
  /\ Horizon \in Nat /\ Recon \in Nat /\ Delay \in 0 .. Recon
  /\ Lags \subseteq Nat /\ Options \subseteq Flags

Outcomes == {"none", "skipped", "waiting", "rows", "empty", "error"}

IsRecord(prior) ==
  /\ prior = [status |-> prior.status, ok |-> prior.ok, through |-> prior.through]
  /\ prior.ok \in BOOLEAN /\ prior.through \in Nat

(* Every published event before the day is archived.                       *)
NoneBefore(s, day) == \A event \in published[s] : event \in archive[s] \/ day <= event

DividendTypeInv ==
  /\ published \in [Payers -> SUBSET EventDays] /\ archive \in [Payers -> SUBSET EventDays]
  /\ fetched \in [Payers -> SUBSET EventDays]
  /\ clock \in Nat /\ end \in Nat /\ start \in [Payers -> Int]
  /\ outcome \in [Payers -> Outcomes]
  /\ listings \subseteq Payers
  /\ dividendPhase \in {"idle", "ask", "write"}

(* The checkpoint of a security.                                           *)
IsCheckpoint(s, prior) ==
  /\ IsRecord(prior)
  /\ prior.ok => prior.through <= clock /\ NoneBefore(s, prior.through - Recon)

ReportInv == \A s \in Payers : IsCheckpoint(s, report[s])

(* What a run knows of a security.                                         *)
Asked(s) ==
  \A event \in published[s] :
    start[s] <= event /\ event <= end => event \in archive[s] \cup fetched[s]

QueryInv ==
  dividendPhase # "idle" =>
    /\ end <= clock
    /\ \A s \in Payers :
         /\ NoneBefore(s, start[s])
         /\ outcome[s] \in {"rows", "empty"} => Asked(s)
         /\ outcome[s] = "rows" => archive[s] \cup fetched[s] # {}
         /\ outcome[s] = "skipped" => ~Pays(s) \/ policy[s] = "unknown"
         /\ dividendPhase = "write" => outcome[s] # "waiting"

(* A status and what it stands on.                                         *)
IsHonest(s, prior) ==
  /\ prior.status \in {"data_available", "data_available_policy_unknown"} => archive[s] # {}
  /\ prior.status = "known_distributing_with_no_events" => prior.ok
  /\ prior.status = "provider_error" => ~prior.ok

HonestInv == \A s \in Payers : IsHonest(s, report[s])

ArchiveInv == DividendTypeInv /\ ReportInv /\ QueryInv /\ HonestInv

-------------------------------------------------------------------------------
(* The operators                                                           *)

LEMMA MaxOfTwo ==
  ASSUME NEW x \in Int
  PROVE  Max({1, x}) \in {1, x}
<1>1. \E m \in {1, x} : \A y \in {1, x} : m >= y
  <2>1. CASE x <= 1
    BY <2>1
  <2>2. CASE ~(x <= 1)
    BY <2>2
  <2> QED BY <2>1, <2>2
<1> QED BY <1>1 DEF Max

LEMMA NoRecordIsSafe == ASSUME NEW s PROVE IsCheckpoint(s, NoRecord) /\ IsHonest(s, NoRecord)
<1>1. NoRecord.status = "no record" /\ NoRecord.ok = FALSE /\ NoRecord.through = 0
  BY DEF NoRecord
<1>2. IsRecord(NoRecord)
  BY DEF NoRecord, IsRecord
<1> HIDE DEF NoRecord
<1> QED BY <1>1, <1>2 DEF IsCheckpoint, IsHonest

(* Rebuilding a record changes its status only, and to an honest one.      *)
LEMMA CoverageIsCheckpoint ==
  ASSUME ArchiveInv, NEW s \in Payers
  PROVE  IsCheckpoint(s, Coverage[s]) /\ IsHonest(s, Coverage[s])
<1>1. IsCheckpoint(s, report[s]) /\ IsHonest(s, report[s])
  BY DEF ArchiveInv, ReportInv, HonestInv
<1>2. CASE s \notin listings
  <2>1. Coverage[s] = NoRecord
    BY <1>2 DEF Coverage
  <2> QED BY <2>1, NoRecordIsSafe
<1>3. CASE s \in listings
  <2> DEFINE status == StatusFor(s, report[s])
  <2>1. Coverage[s] = [report[s] EXCEPT !.status = status]
    BY <1>3 DEF Coverage
  <2>2. /\ status \in {"data_available", "data_available_policy_unknown"} => archive[s] # {}
        /\ status = "known_distributing_with_no_events" => report[s].ok
        /\ status = "provider_error" => ~report[s].ok
    BY <1>1 DEF StatusFor, IsHonest, HasEvents, Available, WithoutEvents, KnownPolicy
  <2> HIDE DEF status
  <2>3. Coverage[s] = [status |-> status, ok |-> report[s].ok, through |-> report[s].through]
    BY <1>1, <2>1 DEF IsCheckpoint, IsRecord
  <2> QED BY <1>1, <2>2, <2>3 DEF IsCheckpoint, IsRecord, IsHonest
<1> QED BY <1>2, <1>3

(* A query that starts from a checkpoint leaves nothing behind it.         *)
LEMMA QueryStartIsSafe ==
  ASSUME Bounds, DividendTypeInv, NEW s \in Payers, NEW prior, IsCheckpoint(s, prior), NEW option
  PROVE  QueryStart(prior, option) \in Int /\ NoneBefore(s, QueryStart(prior, option))
<1>1. NoneBefore(s, 1)
  BY DEF Bounds, DividendTypeInv, NoneBefore, EventDays
<1>2. CASE ~(~option.full /\ prior.ok)
  BY <1>1, <1>2 DEF QueryStart
<1>3. CASE ~option.full /\ prior.ok
  <2> DEFINE back == prior.through - Recon
  <2>1. back \in Int /\ NoneBefore(s, back)
    BY <1>3 DEF IsCheckpoint, IsRecord, Bounds
  <2>2. QueryStart(prior, option) = Max({1, back})
    BY <1>3 DEF QueryStart
  <2> HIDE DEF back
  <2> QED BY <1>1, <2>1, <2>2, MaxOfTwo
<1> QED BY <1>2, <1>3

-------------------------------------------------------------------------------
(* The steps                                                               *)

LEMMA InitIsSafe == ASSUME Bounds, InitDividends PROVE ArchiveInv
<1>1. DividendTypeInv
  BY DEF InitDividends, DividendTypeInv, Outcomes, EventDays
<1>2. ReportInv /\ HonestInv
  BY DEF InitDividends, ReportInv, HonestInv, IsCheckpoint, IsRecord, IsHonest, NoRecord
<1>3. QueryInv
  BY DEF InitDividends, QueryInv
<1> QED BY <1>1, <1>2, <1>3 DEF ArchiveInv

(* Nothing that the invariant speaks of changes but the phase, to idle.    *)
LEMMA LeaveIsSafe ==
  ASSUME Bounds, ArchiveInv, Leave, UNCHANGED <<published, listings, clock, archive, report>>
  PROVE  ArchiveInv'
<1>1. DividendTypeInv'
  BY DEF ArchiveInv, DividendTypeInv, Leave, Outcomes
<1>2. ReportInv' /\ HonestInv'
  BY DEF ArchiveInv, ReportInv, HonestInv, IsCheckpoint, IsRecord, IsHonest, NoneBefore
<1>3. QueryInv'
  BY DEF Leave, QueryInv
<1> QED BY <1>1, <1>2, <1>3 DEF ArchiveInv

LEMMA UnchangedIsSafe == ASSUME ArchiveInv, UNCHANGED dividendVars PROVE ArchiveInv'
BY DEF ArchiveInv, DividendTypeInv, ReportInv, QueryInv, HonestInv, IsCheckpoint, IsRecord, IsHonest, NoneBefore, Asked, Pays,
       dividendVars, sourceVars, queryVars

LEMMA RunIsSafe == ASSUME Bounds, ArchiveInv, Run PROVE ArchiveInv'
<1>1. PICK tickers \in SUBSET Payers, option \in Flags : StartQueries(tickers, option)
  BY DEF Run
<1>2. /\ dividendPhase' = "ask" /\ UNCHANGED <<published, policy, listings, clock, archive, report, fetched>>
      /\ start' = [s \in Payers |-> QueryStart(Coverage[s], option)]
      /\ outcome' = [s \in Payers |->
                       IF s \notin Selected(tickers, option) THEN "none"
                       ELSE IF Skipped(s, option) THEN "skipped" ELSE "waiting"]
  BY <1>1 DEF StartQueries, sourceVars
<1>3. end' \in Nat /\ end' <= clock
  <2>1. PICK lag \in Lags : lag < clock /\ end' = clock - lag
    BY <1>1 DEF StartQueries
  <2> QED BY <2>1 DEF Bounds, ArchiveInv, DividendTypeInv
<1>4. \A s \in Payers : start'[s] \in Int /\ NoneBefore(s, start'[s])
  BY <1>2, CoverageIsCheckpoint, QueryStartIsSafe DEF ArchiveInv
<1>5. \A s \in Payers :
        /\ outcome'[s] \in {"none", "skipped", "waiting"}
        /\ outcome'[s] = "skipped" => ~Pays(s) \/ policy[s] = "unknown"
  BY <1>2 DEF Skipped
<1>6. DividendTypeInv'
  <2>1. start' \in [Payers -> Int]
    BY <1>2, <1>4
  <2>2. outcome' \in [Payers -> Outcomes]
    BY <1>2, <1>5 DEF Outcomes
  <2> QED BY <1>2, <1>3, <2>1, <2>2 DEF ArchiveInv, DividendTypeInv
<1>7. ReportInv' /\ HonestInv'
  BY <1>2 DEF ArchiveInv, ReportInv, HonestInv, IsCheckpoint, IsRecord, IsHonest, NoneBefore
<1>8. QueryInv'
  BY <1>2, <1>3, <1>4, <1>5 DEF QueryInv, NoneBefore, Pays
<1> QED BY <1>6, <1>7, <1>8 DEF ArchiveInv

(* An answer holds every event that was asked for.                         *)
LEMMA AskIsSafe == ASSUME Bounds, ArchiveInv, NEW s \in Payers, Ask(s) PROVE ArchiveInv'
<1>1. /\ dividendPhase = "ask" /\ dividendPhase' = "ask" /\ outcome[s] = "waiting"
      /\ UNCHANGED <<published, policy, listings, clock, archive, report, end, start>>
  BY DEF Ask, sourceVars
<1>2. ReportInv' /\ HonestInv'
  BY <1>1 DEF ArchiveInv, ReportInv, HonestInv, IsCheckpoint, IsRecord, IsHonest, NoneBefore
<1>3. CASE Answered(s)
  <2> DEFINE found == {event \in published[s] : start[s] <= event /\ event <= end}
  <2>1. /\ outcome' = [outcome EXCEPT ![s] = IF found = {} THEN "empty" ELSE "rows"]
        /\ fetched' = [fetched EXCEPT ![s] = found]
    BY <1>3 DEF Answered
  <2>2. found \subseteq EventDays
    BY DEF ArchiveInv, DividendTypeInv
  <2>3. \A event \in published[s] : start[s] <= event /\ event <= end => event \in found
    OBVIOUS
  <2> HIDE DEF found
  <2>4. DividendTypeInv'
    BY <1>1, <2>1, <2>2 DEF ArchiveInv, DividendTypeInv, Outcomes
  <2>5. /\ outcome'[s] \in {"rows", "empty"} /\ (outcome'[s] = "rows" => fetched'[s] # {})
        /\ fetched'[s] = found
        /\ \A t \in Payers \ {s} : outcome'[t] = outcome[t] /\ fetched'[t] = fetched[t]
    BY <2>1 DEF ArchiveInv, DividendTypeInv
  <2>6. QueryInv'
    BY <1>1, <2>3, <2>5 DEF ArchiveInv, QueryInv, NoneBefore, Asked, Pays
  <2> QED BY <1>2, <2>4, <2>6 DEF ArchiveInv
<1>4. CASE Absence(s) \/ Fails(s)
  <2>1. /\ fetched' = fetched
        /\ outcome' = outcome \/ outcome' = [outcome EXCEPT ![s] = "error"]
    BY <1>4 DEF Absence, Fails
  <2>2. DividendTypeInv'
    BY <1>1, <2>1 DEF ArchiveInv, DividendTypeInv, Outcomes
  <2>3. \A t \in Payers : outcome'[t] = outcome[t] \/ outcome'[t] = "error"
    BY <2>1 DEF ArchiveInv, DividendTypeInv
  <2>4. QueryInv'
    BY <1>1, <2>1, <2>3 DEF ArchiveInv, QueryInv, NoneBefore, Asked, Pays
  <2> QED BY <1>2, <2>2, <2>4 DEF ArchiveInv
<1> QED BY <1>3, <1>4 DEF Ask

LEMMA CollectIsSafe == ASSUME ArchiveInv, CollectAnswers PROVE ArchiveInv'
<1>1. /\ dividendPhase = "ask" /\ dividendPhase' = "write" /\ \A s \in Payers : outcome[s] # "waiting"
      /\ UNCHANGED <<published, policy, listings, clock, archive, report, end, start, outcome, fetched>>
  BY DEF CollectAnswers, sourceVars, queryVars
<1>2. DividendTypeInv'
  BY <1>1 DEF ArchiveInv, DividendTypeInv
<1>3. ReportInv' /\ HonestInv'
  BY <1>1 DEF ArchiveInv, ReportInv, HonestInv, IsCheckpoint, IsRecord, IsHonest, NoneBefore
<1>4. QueryInv'
  BY <1>1 DEF ArchiveInv, QueryInv, NoneBefore, Asked, Pays
<1> QED BY <1>2, <1>3, <1>4 DEF ArchiveInv

(* A partition moves events from memory to the archive; none is lost.      *)
LEMMA WritePartitionIsSafe == ASSUME ArchiveInv, WriteEvents PROVE ArchiveInv'
<1>1. PICK year \in SUBSET EventDays :
        /\ archive' = [s \in Payers |-> archive[s] \cup (fetched[s] \cap year)]
        /\ fetched' = [s \in Payers |-> fetched[s] \ year]
  BY DEF WriteEvents
<1>2. UNCHANGED <<published, policy, listings, clock, report, dividendPhase, end, start, outcome>>
  BY DEF WriteEvents, sourceVars, queryVars
<1>3. \A s \in Payers :
        archive[s] \subseteq archive'[s] /\ archive[s] \cup fetched[s] = archive'[s] \cup fetched'[s]
  BY <1>1
<1>4. DividendTypeInv'
  BY <1>1, <1>2 DEF ArchiveInv, DividendTypeInv
<1>5. ReportInv'
  BY <1>2, <1>3 DEF ArchiveInv, ReportInv, IsCheckpoint, IsRecord, NoneBefore
<1>6. HonestInv'
  BY <1>2, <1>3 DEF ArchiveInv, HonestInv, IsHonest
<1>7. QueryInv'
  BY <1>2, <1>3 DEF ArchiveInv, QueryInv, NoneBefore, Asked, Pays
<1> QED BY <1>4, <1>5, <1>6, <1>7 DEF ArchiveInv

(* A record after a run is a checkpoint of the archive that the run left.  *)
LEMMA RecordAfterIsSafe ==
  ASSUME Bounds, ArchiveInv, dividendPhase = "write", NEW s \in Payers, Fetched = {}
  PROVE  IsCheckpoint(s, RecordAfter(s, Coverage[s])) /\ IsHonest(s, RecordAfter(s, Coverage[s]))
<1> DEFINE base  == Coverage[s]
           after == RecordAfter(s, base)
<1> SUFFICES IsCheckpoint(s, after) /\ IsHonest(s, after)
  OBVIOUS
<1>1. IsCheckpoint(s, base) /\ IsHonest(s, base)
  BY CoverageIsCheckpoint
<1>2. fetched[s] = {}
  BY DEF Fetched
<1>3. /\ end <= clock /\ end \in Nat /\ outcome[s] \in Outcomes \ {"waiting"}
      /\ NoneBefore(s, start[s])
      /\ outcome[s] \in {"rows", "empty"} => Asked(s)
      /\ outcome[s] = "rows" => archive[s] # {}
      /\ outcome[s] = "skipped" => ~Pays(s) \/ policy[s] = "unknown"
  BY <1>2 DEF ArchiveInv, QueryInv, DividendTypeInv
<1>4. base.status = "known_distributing_with_no_events" => policy[s] = "distributing" /\ archive[s] = {}
  <2>1. CASE s \notin listings
    BY <2>1 DEF Coverage, NoRecord
  <2>2. CASE s \in listings
    <3> DEFINE status == StatusFor(s, report[s])
    <3>1. base = [report[s] EXCEPT !.status = status]
      BY <2>2 DEF Coverage
    <3>2. report[s] = [status |-> report[s].status, ok |-> report[s].ok, through |-> report[s].through]
      BY DEF ArchiveInv, ReportInv, IsCheckpoint, IsRecord
    <3> HIDE DEF base, status
    <3>3. base.status = status
      BY <3>1, <3>2
    <3>4. status = "known_distributing_with_no_events" => policy[s] = "distributing" /\ archive[s] = {}
      BY DEF status, StatusFor, HasEvents, Available, WithoutEvents, KnownPolicy
    <3> QED BY <3>3, <3>4
  <2> QED BY <2>1, <2>2
<1> HIDE DEF base
<1>5. CASE outcome[s] = "none"
  <2>1. after = base
    BY <1>5 DEF RecordAfter
  <2> HIDE DEF after
  <2> QED BY <1>1, <2>1
<1>6. CASE outcome[s] \in {"rows", "empty"}
  <2>1. after.ok = TRUE /\ after.through = end /\ IsRecord(after)
    BY <1>3, <1>6 DEF RecordAfter, IsRecord
  <2>2. NoneBefore(s, end - Recon)
    <3> SUFFICES ASSUME NEW event \in published[s], event \notin archive[s]
                 PROVE  end - Recon <= event
      BY DEF NoneBefore
    <3>1. start[s] <= event /\ start[s] \in Int /\ event \in Int
      BY <1>3 DEF NoneBefore, ArchiveInv, DividendTypeInv, EventDays
    <3>2. ~(event <= end)
      BY <1>2, <1>3, <1>6, <3>1 DEF Asked
    <3> QED BY <1>3, <3>1, <3>2 DEF Bounds
  <2>3. /\ after.status \in {"data_available", "data_available_policy_unknown"} => archive[s] # {}
        /\ after.status # "provider_error"
    <3>1. CASE archive[s] # {}
      <4>1. after.status = Available(s)
        BY <1>6, <3>1 DEF RecordAfter, HasEvents
      <4> QED BY <3>1, <4>1 DEF Available
    <3>2. CASE archive[s] = {}
      <4>1. after.status = WithoutEvents(s)
        BY <1>3, <1>6, <3>2 DEF RecordAfter, HasEvents
      <4> QED BY <4>1 DEF WithoutEvents
    <3> QED BY <3>1, <3>2
  <2> HIDE DEF after
  <2> QED BY <1>3, <2>1, <2>2, <2>3 DEF IsCheckpoint, IsHonest
<1>7. CASE outcome[s] = "error"
  <2>1. after.ok = FALSE /\ after.status = "provider_error" /\ IsRecord(after)
    BY <1>3, <1>7 DEF RecordAfter, IsRecord
  <2> HIDE DEF after
  <2> QED BY <2>1 DEF IsCheckpoint, IsHonest
<1>8. CASE outcome[s] = "skipped"
  <2>1. after.ok = FALSE /\ IsRecord(after)
    BY <1>1, <1>8 DEF RecordAfter, IsRecord, IsCheckpoint
  <2>2. /\ after.status \in {"data_available", "data_available_policy_unknown"} => archive[s] # {}
        /\ after.status # "known_distributing_with_no_events"
    <3>1. CASE ~Pays(s)
      <4>1. after.status = KnownPolicy(s)
        BY <1>8, <3>1 DEF RecordAfter
      <4> QED BY <4>1 DEF KnownPolicy
    <3>2. CASE Pays(s) /\ archive[s] # {}
      <4>1. after.status = Available(s)
        BY <1>8, <3>2 DEF RecordAfter, HasEvents
      <4> QED BY <3>2, <4>1 DEF Available
    <3>3. CASE Pays(s) /\ archive[s] = {}
      <4>1. after.status = base.status
        BY <1>8, <3>3 DEF RecordAfter, HasEvents
      <4>2. policy[s] = "unknown"
        BY <1>3, <1>8, <3>3
      <4> QED BY <1>1, <1>4, <4>1, <4>2 DEF IsHonest
    <3> QED BY <3>1, <3>2, <3>3
  <2> HIDE DEF after
  <2> QED BY <2>1, <2>2 DEF IsCheckpoint, IsHonest
<1> HIDE DEF after
<1> QED BY <1>3, <1>5, <1>6, <1>7, <1>8 DEF Outcomes

LEMMA WriteReportIsSafe == ASSUME Bounds, ArchiveInv, WriteReport PROVE ArchiveInv'
<1>1. /\ dividendPhase = "write" /\ Fetched = {} /\ Leave
      /\ UNCHANGED <<published, policy, listings, clock, archive>>
      /\ report' = [s \in Payers |-> IF s \in listings THEN RecordAfter(s, Coverage[s]) ELSE NoRecord]
  BY DEF WriteReport, sourceVars
<1>2. \A s \in Payers : IsCheckpoint(s, report'[s]) /\ IsHonest(s, report'[s])
  <2> SUFFICES ASSUME NEW s \in Payers PROVE IsCheckpoint(s, report'[s]) /\ IsHonest(s, report'[s])
    OBVIOUS
  <2>1. CASE s \in listings
    <3>1. report'[s] = RecordAfter(s, Coverage[s])
      BY <1>1, <2>1
    <3> QED BY <1>1, <3>1, RecordAfterIsSafe
  <2>2. CASE s \notin listings
    <3>1. report'[s] = NoRecord
      BY <1>1, <2>2
    <3> QED BY <3>1, NoRecordIsSafe
  <2> QED BY <2>1, <2>2
<1>3. DividendTypeInv'
  BY <1>1 DEF ArchiveInv, DividendTypeInv, Leave, Outcomes
<1>4. ReportInv' /\ HonestInv'
  BY <1>1, <1>2 DEF ReportInv, HonestInv, IsCheckpoint, IsRecord, IsHonest, NoneBefore
<1>5. QueryInv'
  BY <1>1 DEF Leave, QueryInv
<1> QED BY <1>3, <1>4, <1>5 DEF ArchiveInv

(* The audit keeps checkpoints and makes statuses honest.                  *)
LEMMA AuditIsSafe == ASSUME Bounds, ArchiveInv, Audit PROVE ArchiveInv'
<1>1. /\ dividendPhase = "idle" /\ report' = Coverage
      /\ UNCHANGED <<published, policy, listings, clock, archive, dividendPhase, end,
                     start, outcome, fetched>>
  BY DEF Audit, sourceVars, queryVars
<1>2. \A s \in Payers : IsCheckpoint(s, report'[s]) /\ IsHonest(s, report'[s])
  BY <1>1, CoverageIsCheckpoint
<1>3. DividendTypeInv' /\ QueryInv'
  BY <1>1 DEF ArchiveInv, DividendTypeInv, QueryInv
<1>4. ReportInv' /\ HonestInv'
  BY <1>1, <1>2 DEF ReportInv, HonestInv, IsCheckpoint, IsRecord, IsHonest, NoneBefore
<1> QED BY <1>3, <1>4 DEF ArchiveInv

(* A late event lies within the window of every checkpoint there is.       *)
LEMMA AnnounceIsSafe == ASSUME Bounds, ArchiveInv, NEW s \in Payers, Announce(s) PROVE ArchiveInv'
<1>1. PICK event \in EventDays :
        /\ clock <= event + Delay /\ published' = [published EXCEPT ![s] = @ \cup {event}]
  BY DEF Announce
<1>2. /\ dividendPhase = "idle"
      /\ UNCHANGED <<policy, listings, clock, archive, report, dividendPhase, end,
                     start, outcome, fetched>>
  BY DEF Announce, queryVars
<1>3. DividendTypeInv'
  BY <1>1, <1>2 DEF ArchiveInv, DividendTypeInv
<1>4. QueryInv' /\ HonestInv'
  BY <1>2 DEF ArchiveInv, QueryInv, HonestInv, IsHonest
<1>5. ASSUME NEW t \in Payers, report[t].ok
      PROVE  NoneBefore(t, report[t].through - Recon)'
  <2>1. NoneBefore(t, report[t].through - Recon) /\ report[t].through \in Nat /\ report[t].through <= clock
    BY <1>5 DEF ArchiveInv, ReportInv, IsCheckpoint, IsRecord
  <2>2. event \in Int /\ report[t].through - Recon <= event
    BY <1>1, <2>1 DEF Bounds, ArchiveInv, DividendTypeInv, EventDays
  <2>3. published'[t] \subseteq published[t] \cup {event}
    BY <1>1 DEF ArchiveInv, DividendTypeInv
  <2> QED BY <1>2, <2>1, <2>2, <2>3 DEF NoneBefore
<1>6. ReportInv'
  BY <1>2, <1>5 DEF ArchiveInv, ReportInv, IsCheckpoint, IsRecord
<1> QED BY <1>3, <1>4, <1>6 DEF ArchiveInv

LEMMA NextDayIsSafe == ASSUME ArchiveInv, NextDay PROVE ArchiveInv'
<1>1. /\ dividendPhase = "idle" /\ clock' = clock + 1
      /\ UNCHANGED <<published, policy, listings, archive, report, dividendPhase, end,
                     start, outcome, fetched>>
  BY DEF NextDay, queryVars
<1>2. DividendTypeInv' /\ QueryInv' /\ HonestInv'
  BY <1>1 DEF ArchiveInv, DividendTypeInv, QueryInv, HonestInv, IsHonest
<1>3. ReportInv'
  BY <1>1 DEF ArchiveInv, DividendTypeInv, ReportInv, IsCheckpoint, IsRecord, NoneBefore
<1> QED BY <1>2, <1>3 DEF ArchiveInv

LEMMA RefreshIsSafe == ASSUME ArchiveInv, RefreshPolicies PROVE ArchiveInv'
<1>1. /\ dividendPhase = "idle" /\ listings' \subseteq Payers
      /\ UNCHANGED <<published, clock, archive, report, dividendPhase, end, start, outcome, fetched>>
  BY DEF RefreshPolicies, queryVars
<1>2. DividendTypeInv' /\ QueryInv'
  BY <1>1 DEF ArchiveInv, DividendTypeInv, QueryInv
<1>3. ReportInv' /\ HonestInv'
  BY <1>1 DEF ArchiveInv, ReportInv, HonestInv, IsCheckpoint, IsRecord, IsHonest, NoneBefore
<1> QED BY <1>2, <1>3 DEF ArchiveInv

LEMMA NextIsSafe == Bounds /\ ArchiveInv /\ [NextDividends]_dividendVars => ArchiveInv'
<1> SUFFICES ASSUME Bounds, ArchiveInv, [NextDividends]_dividendVars PROVE ArchiveInv'
  OBVIOUS
<1>1. CASE Run \/ CollectAnswers \/ WriteEvents \/ WriteReport \/ Audit \/ NextDay \/ RefreshPolicies
  BY <1>1, RunIsSafe, CollectIsSafe, WritePartitionIsSafe, WriteReportIsSafe, AuditIsSafe,
     NextDayIsSafe, RefreshIsSafe
<1>2. CASE QueryCrash
  BY <1>2, LeaveIsSafe DEF QueryCrash, sourceVars
<1>3. ASSUME NEW s \in Payers, Ask(s) \/ Announce(s) PROVE ArchiveInv'
  BY <1>3, AskIsSafe, AnnounceIsSafe
<1>4. CASE UNCHANGED dividendVars
  BY <1>4, UnchangedIsSafe
<1> QED BY <1>1, <1>2, <1>3, <1>4 DEF NextDividends

(* In every execution the next query of a security starts before all that  *)
(* was published and is not archived (dividend_backfill.py:355), provided  *)
(* that the reconciliation window covers the provider's delay.             *)
THEOREM CheckpointNeverSkips == Bounds => (SpecDividends => []CheckpointSkipsNothing)
<1> SUFFICES ASSUME Bounds PROVE SpecDividends => []CheckpointSkipsNothing
  OBVIOUS
<1>1. InitDividends => ArchiveInv
  BY InitIsSafe
<1>2. ArchiveInv /\ [NextDividends]_dividendVars => ArchiveInv'
  BY NextIsSafe
<1>3. ArchiveInv => CheckpointSkipsNothing
  <2> SUFFICES ASSUME ArchiveInv, NEW s \in listings, NEW option \in Options, NEW event \in published[s],
                      event \notin archive[s]
               PROVE  event \in QueryStart(Coverage[s], option) .. Horizon
    BY DEF CheckpointSkipsNothing
  <2>1. s \in Payers
    BY DEF ArchiveInv, DividendTypeInv
  <2>2. QueryStart(Coverage[s], option) \in Int /\ NoneBefore(s, QueryStart(Coverage[s], option))
    BY <2>1, CoverageIsCheckpoint, QueryStartIsSafe DEF ArchiveInv
  <2>3. event \in 1 .. Horizon
    BY <2>1 DEF ArchiveInv, DividendTypeInv, EventDays
  <2> QED BY <2>2, <2>3 DEF NoneBefore, Bounds
<1> QED BY <1>1, <1>2, <1>3, PTL DEF SpecDividends

(* In every execution a status of the report stands on the archive or on a *)
(* query that succeeded (dividend_quality.py:393).                         *)
THEOREM StatusIsAlwaysHonest == Bounds => (SpecDividends => []StatusIsHonest)
<1> SUFFICES ASSUME Bounds PROVE SpecDividends => []StatusIsHonest
  OBVIOUS
<1>1. InitDividends => ArchiveInv
  BY InitIsSafe
<1>2. ArchiveInv /\ [NextDividends]_dividendVars => ArchiveInv'
  BY NextIsSafe
<1>3. ArchiveInv => StatusIsHonest
  BY DEF ArchiveInv, HonestInv, IsHonest, StatusIsHonest
<1> QED BY <1>1, <1>2, <1>3, PTL DEF SpecDividends

===============================================================================
