---------------------------- MODULE PackPublication ----------------------------
(***************************************************************************)
(* The full build of the data packs (build_data_packs of data/packs.py),   *)
(* the rebuild of a few of them that is merged into the directory          *)
(* (scripts/build_data_packs.py), and their pruning to the tier that is    *)
(* published (scripts/prune_packs_for_pages.py), run one at a time over    *)
(* one directory, in any order, and killed at any point.  None replaces    *)
(* its files atomically.                                                   *)
(*                                                                         *)
(* A pack and its entry in the manifest hold the store they were built     *)
(* from, in place of its digest and of the content that PackSupport        *)
(* derives from it.                                                        *)
(***************************************************************************)
EXTENDS PackSupport, Disturbances

CONSTANTS
  Stores,      (* the stores the first build may find                      *)
  Catalog,     (* the securities of the current catalog                    *)
  ExcludedIds, (* catalog.excluded_security_ids                            *)
  Tier2,       (* members of an excluded universe                          *)
  Scopes,      (* the packs that --security, --market and --years select   *)
  NoFile, Torn

(* load_catalog never lists an excluded security.                          *)
ASSUME PackPublicationAssumption ==
  /\ Stores \subseteq [bars : [Instruments -> SUBSET PackDays], fx : SUBSET Int]
  /\ Catalog \subseteq Instruments \ ExcludedIds

VARIABLES
  snapshot, (* the canonical data                                          *)
  packs,    (* security=<id>/year=<year>.json: the store it was built from *)
  manifest, (* manifest.json: its snapshot, the securities it names, and   *)
            (* the store that the entry of each pack was made from         *)
  task,     (* the running script: "build", "merge", "prune", or "none"    *)
  step,     (* what it does next                                           *)
  loaded,   (* the manifest that it builds, or that is pruned              *)
  staged,   (* the packs that a merge puts in place                        *)
  replaced, (* history: packs that a merge replaced, but not their entries *)
  consistent (* whether the last script was a prune or check that succeeded *)

taskVars    == <<task, step, loaded, staged>>
fileVars    == <<packs, manifest>>
publishVars == <<snapshot, fileVars, taskVars, replaced, consistent, crashes, changes>>

Files   == Instruments \X AllYears
OnDisk  == {file \in Files : packs[file] # NoFile}

ASSUME ScopesAssumption == Scopes \subseteq SUBSET Files

(* The packs a build of a store writes, and the entries it lists.          *)
Built(st)  == {file \in Files : file[1] \notin ExcludedIds /\ Bars(st, file[1], file[2]) # {}}
Listed(st) == {file[1] : file \in Built(st)} \cup Catalog

FullManifest(st) ==
  [id |-> st, names |-> Listed(st),
   built |-> [file \in Files |-> IF file \in Built(st) THEN st ELSE NoFile]]

(* referenced_pack_paths                                                   *)
Referenced(m, names) == {file \in Files : m.built[file] # NoFile /\ file[1] \in names}

Restricted(m, names) ==
  [id |-> m.id, names |-> names,
   built |-> [file \in Files |-> IF file[1] \in names THEN m.built[file] ELSE NoFile]]

-------------------------------------------------------------------------------
(* build_data_packs                                                        *)

(* Variant with a bug: what is on disk is taken for already built.         *)
ResumeBuild ==
  /\ task = "none"
  /\ task' = "build" /\ step' = "write" /\ loaded' = FullManifest(snapshot)
  /\ consistent' = FALSE
  /\ UNCHANGED <<snapshot, fileVars, staged, replaced, crashes, changes>>

(* The snapshot id is computed, then the directory is emptied.             *)
StartBuild ==
  /\ task = "none"
  /\ task' = "build" /\ step' = "reset" /\ loaded' = FullManifest(snapshot)
  /\ consistent' = FALSE
  /\ UNCHANGED <<snapshot, fileVars, staged, replaced, crashes, changes>>

Unlink(file) == packs' = [packs EXCEPT ![file] = NoFile] /\ replaced' = replaced \ {file}

(* _reset_output_dir: rmtree takes one file after another, in any order.   *)
Reset ==
  /\ step = "reset"
  /\ \/ OnDisk = {} /\ manifest = NoFile /\ step' = "write" /\ UNCHANGED <<fileVars, replaced>>
     \/ manifest' = NoFile /\ manifest # NoFile /\ UNCHANGED <<packs, replaced, step>>
     \/ (\E file \in OnDisk : Unlink(file)) /\ UNCHANGED <<manifest, step>>
  /\ UNCHANGED <<snapshot, task, loaded, staged, consistent, crashes, changes>>

(* Partition by partition, security by security; a merge security by       *)
(* security, year by year.  (A pack that is already of the store a merge   *)
(* copies from counts as copied.)                                          *)
IsBefore(file, other) ==
  LET x == IF step = "write" THEN 2 ELSE 1
  IN  file[x] < other[x] \/ (file[x] = other[x] /\ file[3 - x] <= other[3 - x])

Left == IF step = "write" THEN Built(loaded.id) \ OnDisk
        ELSE {file \in staged : packs[file] # loaded.id}

NextPack == CHOOSE file \in Left : \A other \in Left : IsBefore(file, other)

WritePack ==
  /\ step = "write" /\ Left # {}
  /\ packs' = [packs EXCEPT ![NextPack] = loaded.id]
  /\ UNCHANGED <<snapshot, manifest, taskVars, replaced, consistent, crashes, changes>>

(* The manifest is written last.                                           *)
WriteManifest ==
  /\ step \in {"write", "copy"} /\ Left = {}
  /\ manifest' = loaded /\ replaced' = replaced \ staged
  /\ task' = "none" /\ step' = "none" /\ loaded' = NoFile /\ staged' = {}
  /\ UNCHANGED <<snapshot, packs, consistent, crashes, changes>>

-------------------------------------------------------------------------------
(* _scoped_merge_build                                                     *)

NoManifest == [names |-> {}, built |-> [file \in Files |-> NoFile]]

(* The entries of the old manifest, and those of the packs that were       *)
(* rebuilt, under the id of the store they were rebuilt from.              *)
Merged(old, st, files) ==
  [id |-> st, names |-> (old.names \ ExcludedIds) \cup {file[1] : file \in files},
   built |-> [file \in Files |-> IF file \in files THEN st
                                 ELSE IF file[1] \in ExcludedIds THEN NoFile ELSE old.built[file]]]

(* Everything in the scope is built aside; then the old manifest is read,  *)
(* which has to parse.  (The packs of excluded securities, which are       *)
(* removed here, are never there: no build writes them.  ListingRemoval    *)
(* has those of a security that is excluded later.)                        *)
StartMerge(scope) ==
  /\ task = "none" /\ manifest # Torn
  /\ task' = "merge" /\ step' = "copy"
  /\ staged' = scope \cap Built(snapshot)
  /\ loaded' = Merged(IF manifest = NoFile THEN NoManifest ELSE manifest, snapshot, staged')
  /\ consistent' = FALSE
  /\ UNCHANGED <<snapshot, fileVars, replaced, crashes, changes>>

(* One pack after another is copied over the old one, while the old        *)
(* manifest stands.                                                        *)
CopyPack ==
  /\ step = "copy" /\ Left # {}
  /\ packs' = [packs EXCEPT ![NextPack] = loaded.id]
  /\ replaced' = replaced \cup {NextPack}
  /\ UNCHANGED <<snapshot, manifest, taskVars, consistent, crashes, changes>>

-------------------------------------------------------------------------------
(* prune_packs_for_pages.py                                                *)

(* main: a manifest that is missing or does not parse, and one of which    *)
(* nothing is kept, end it at once.                                        *)
Kept == loaded.names \ Tier2

StartPrune ==
  /\ task = "none" /\ manifest \notin {NoFile, Torn}
  /\ manifest.names \ Tier2 # {}
  /\ task' = "prune" /\ loaded' = manifest
  /\ step' \in {"remove", "assert"}          (* "assert": --verify-only    *)
  /\ consistent' = FALSE
  /\ UNCHANGED <<snapshot, fileVars, staged, replaced, crashes, changes>>

(* The directories of all other securities are removed, file by file.      *)
RemovePack ==
  /\ step = "remove"
  /\ \E file \in {f \in OnDisk : f[1] \notin Kept} : Unlink(file)
  /\ UNCHANGED <<snapshot, manifest, taskVars, consistent, crashes, changes>>

(* rewrite_manifest                                                        *)
RewriteManifest ==
  /\ step = "remove" /\ \A file \in OnDisk : file[1] \in Kept
  /\ manifest' = Restricted(loaded, Kept)
  /\ step' = "assert"
  /\ UNCHANGED <<snapshot, packs, task, loaded, staged, replaced, consistent, crashes, changes>>

(* assert_consistency: missing and orphaned packs end the script with an   *)
(* error.                                                                  *)
AssertConsistency ==
  /\ step = "assert"
  /\ consistent' = (OnDisk = Referenced(loaded, Kept))
  /\ task' = "none" /\ step' = "none" /\ loaded' = NoFile
  /\ UNCHANGED <<snapshot, fileVars, staged, replaced, crashes, changes>>

-------------------------------------------------------------------------------
(* The surroundings                                                        *)

(* A script is killed; the file it was writing may be left truncated.      *)
PublicationCrash ==
  /\ task # "none" /\ crashes < MaxCrashes
  /\ crashes' = crashes + 1
  /\ \/ UNCHANGED <<fileVars, replaced>>
     \/ /\ step \in {"write", "copy"} /\ Left # {}
        /\ packs' = [packs EXCEPT ![NextPack] = Torn] /\ UNCHANGED manifest
        /\ replaced' = IF step = "copy" THEN replaced \cup {NextPack} ELSE replaced
     \/ /\ \/ step \in {"write", "copy"} /\ Left = {}
           \/ step = "remove" /\ \A file \in OnDisk : file[1] \in Kept
        /\ manifest' = Torn /\ UNCHANGED <<packs, replaced>>
  /\ task' = "none" /\ step' = "none" /\ loaded' = NoFile /\ staged' = {}
  /\ UNCHANGED <<snapshot, consistent, changes>>

(* Between two scripts a bar is added to the store or a pack is lost.      *)
NewData ==
  /\ task = "none" /\ changes < MaxChanges
  /\ changes' = changes + 1
  /\ \E s \in Instruments : \E day \in PackDays \ snapshot.bars[s] :
       snapshot' = [snapshot EXCEPT !.bars[s] = @ \cup {day}]
  /\ UNCHANGED <<fileVars, taskVars, replaced, consistent, crashes>>

LosePack ==
  /\ task = "none" /\ changes < MaxChanges
  /\ changes' = changes + 1
  /\ \E file \in OnDisk : Unlink(file)
  /\ consistent' = FALSE
  /\ UNCHANGED <<snapshot, manifest, taskVars, crashes>>

InitPublication ==
  /\ snapshot \in Stores
  /\ packs = [file \in Files |-> NoFile] /\ manifest = NoFile
  /\ task = "none" /\ step = "none" /\ loaded = NoFile /\ staged = {} /\ replaced = {}
  /\ consistent = FALSE /\ crashes = 0 /\ changes = 0

NextPublication ==
  \/ StartBuild \/ Reset \/ WritePack \/ WriteManifest
  \/ (\E scope \in Scopes : StartMerge(scope)) \/ CopyPack
  \/ StartPrune \/ RemovePack \/ RewriteManifest \/ AssertConsistency
  \/ PublicationCrash \/ NewData \/ LosePack

SpecPublication == InitPublication /\ [][NextPublication]_publishVars

-------------------------------------------------------------------------------
(* Properties                                                              *)

(* A prune, or a verification, that reports consistency although it only   *)
(* compares names: the packs there are those of the kept entries, none is  *)
(* truncated, and each is the one that its entry describes, whatever was   *)
(* killed, merged or lost before.  Excepted are the packs that a merge had *)
(* put in place when it was killed: their entries are of an older store,   *)
(* or they are truncated, until a merge or a build has replaced both.      *)
(* (What their entries describe may be of several stores, under the one    *)
(* data_snapshot_id of the last merge.)                                    *)
PublishedIsWhole ==
  consistent =>
    /\ OnDisk = Referenced(manifest, manifest.names \ Tier2)
    /\ \A file \in OnDisk \ replaced : packs[file] = manifest.built[file]

Ranges == {range \in PackDays \X PackDays : range[1] <= range[2]}

(* What a page that loads the years of a range gets.                       *)
LoadedYears(range) == PackYear(range[1]) .. PackYear(range[2])
LoadedRates(st, s, range) == UNION {FxBlock(st, s, year) : year \in LoadedYears(range)}
InRange(st, s, range) == {day \in st.bars[s] : range[1] <= day /\ day <= range[2]}

Computable(s, range) ==
  /\ \A year \in LoadedYears(range) : packs[<<s, year>>] = manifest.id
  /\ s \in NeedsFx =>
       \A day \in InRange(manifest.id, s, range) : Resolves(LoadedRates(manifest.id, s, range), day)

(* A range is promised full support by the browser's rule, or by the       *)
(* status of its security when it lies between the security's edges.       *)
Promised(st, s, range) ==
  \/ SupportFor(st, s, range[1], range[2]) = Full
  \/ /\ RollupStatus(st, s) = Full
     /\ Min(st.bars[s]) <= range[1] /\ range[2] <= Max(st.bars[s])

(* Packs and manifest are those of one full build, as far as they were     *)
(* kept; no merge has put packs of another store among them.               *)
OfOneStore ==
  replaced = {} /\ manifest.built = Restricted(FullManifest(manifest.id), manifest.names).built

(* The securities published, and their ranges with prices that are         *)
(* promised full support.                                                  *)
Published == IF consistent /\ OfOneStore THEN manifest.names \ Tier2 ELSE {}

IsSupported(s, range) ==
  InRange(manifest.id, s, range) # {} /\ Promised(manifest.id, s, range)

(* Where full support is promised, classify_range and supportFor agree on  *)
(* it and the packs of all years are published; and where no rate is stale *)
(* the rates cut out for these packs resolve every price date, the first   *)
(* ones of a year included, although the status was decided on the whole   *)
(* series.  It is stated of packs of one store: after a merge the rates of *)
(* two years may have been cut out of two stores.                          *)
FreshSupportIsComputable ==
  \A s \in Published, range \in Ranges :
    IsSupported(s, range) =>
      /\ SupportFor(manifest.id, s, range[1], range[2]) = Full
      /\ ClassifyRange(manifest.id, s, range[1], range[2]) = Full
      /\ \/ s \in NeedsFx /\ StaleFxDates(manifest.id.fx, InRange(manifest.id, s, range)) # {}
         \/ Computable(s, range)

(* "FX staleness beyond the engine's 7-day limit is surfaced as            *)
(* stale_fx_dates plus a warning: the engine still computes such ranges,   *)
(* so they remain fully_supported" (docs/data-pack-schema.md).             *)
SupportIsComputable ==
  \A s \in Published, range \in Ranges : IsSupported(s, range) => Computable(s, range)

===============================================================================
