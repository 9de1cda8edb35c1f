---------------------------- MODULE SyncDecision ----------------------------
(***************************************************************************)
(* The pure decision logic of the sync engine                              *)
(* (internal/p2p/syncengine/decision.go) and the manifest operations it    *)
(* rests on (internal/delta/manifest.go, syncengine/engine.go): what is a  *)
(* conflict, what a sync pass will pull, push and delete, and which paths  *)
(* count as synced on both sides afterwards.  No state, no I/O.            *)
(*                                                                         *)
(* Abstractions.  A file content is one value of Versions, and its SHA-256 *)
(* is the value itself (no collisions).  A manifest is a total function    *)
(* over Paths: NoFile stands for "no entry".  The manifest hash is the     *)
(* content map it summarises, so two hashes are equal exactly when the     *)
(* code's are.  Block lists and sizes are left out (they decide how a file *)
(* is transferred, not whether it is).                                     *)
(***************************************************************************)
EXTENDS Integers, FiniteSets

CONSTANTS
    Paths,          \* relative file paths of one save folder
    Dirs,           \* relative folder paths of the same save folder
    Versions,       \* file contents
    Mtimes,         \* modification times, in the unit of the model's clock
    NoFile,         \* "no entry under this path"
    NoHash,         \* the empty string where a manifest hash is expected
    SkewTolerance,  \* clockSkewToleranceMs
    MassDeletionMin \* massDeletionMinFiles

ASSUME DecisionAssumption ==
    /\ Mtimes \subseteq Nat
    /\ NoFile \notin Versions
    /\ NoFile \notin [hash : Versions, mtime : Mtimes]
    /\ NoHash \notin [files : [Paths -> Versions \cup {NoFile}],
                      dirs  : SUBSET Dirs]
    /\ SkewTolerance \in Nat
    /\ MassDeletionMin \in Nat

-----------------------------------------------------------------------------
(* Manifests                                                               *)

FileEntry    == [hash : Versions, mtime : Mtimes]
Manifest     == [files : [Paths -> FileEntry \cup {NoFile}],
                 dirs  : SUBSET Dirs]
ContentHash  == [files : [Paths -> Versions \cup {NoFile}],
                 dirs  : SUBSET Dirs]
Lineage      == [files : SUBSET Paths, dirs : SUBSET Dirs]

EmptyManifest == [files |-> [p \in Paths |-> NoFile], dirs |-> {}]
EmptyLineage  == [files |-> {}, dirs |-> {}]

\* The paths a manifest lists.
Files(m) == {p \in Paths : m.files[p] # NoFile}

HashAt(m, p) == IF m.files[p] = NoFile THEN NoFile ELSE m.files[p].hash

\* File contents and folders, never times.
ManifestHash(m) == [files |-> [p \in Paths |-> HashAt(m, p)], dirs |-> m.dirs]

\* "local.LatestMtime > t", the only use the decision makes of it.
ModifiedAfter(m, t) == \E p \in Files(m) : m.files[p].mtime > t

SameFiles(l, r) ==
    /\ Files(l) = Files(r)
    /\ \A p \in Files(l) : l.files[p].hash = r.files[p].hash

-----------------------------------------------------------------------------
(* Conflict detection                                                      *)

\* Mutants (operators that only a mutant run uses carry this word): a first
\* contact judged by times, and a known merge-base that nobody looks at.
MutantFirstContactByTimes(l, r, lastSync) ==
    /\ ModifiedAfter(l, lastSync + SkewTolerance)
    /\ ModifiedAfter(r, lastSync + SkewTolerance)

\* Three regimes: a known merge-base, a first contact, and the legacy
\* comparison of times with the last sync.
BothMovedOff(l, r, agreed) ==
    ManifestHash(l) # agreed /\ ManifestHash(r) # agreed

BothModifiedSince(l, r, lastSync) ==
    IF lastSync = 0
    THEN Files(l) # {} /\ Files(r) # {}
    ELSE /\ ModifiedAfter(l, lastSync + SkewTolerance)
         /\ ModifiedAfter(r, lastSync + SkewTolerance)

MutantDetectByTimes(l, r, lastSync, agreed) ==
    /\ ManifestHash(l) # ManifestHash(r)
    /\ BothModifiedSince(l, r, lastSync)

DetectConflict(l, r, lastSync, agreed) ==
    /\ ManifestHash(l) # ManifestHash(r)
    /\ ~SameFiles(l, r)
    /\ IF agreed # NoHash THEN BothMovedOff(l, r, agreed)
                          ELSE BothModifiedSince(l, r, lastSync)

-----------------------------------------------------------------------------
(* Classification                                                          *)

Decision == [pull : SUBSET Paths,           push : SUBSET Paths,
             deleteOnPeer : SUBSET Paths,   deleteLocally : SUBSET Paths,
             pullDirs : SUBSET Dirs,        pushDirs : SUBSET Dirs,
             deleteDirsOnPeer : SUBSET Dirs, deleteDirsLocally : SUBSET Dirs]

NoDecision == [pull |-> {}, push |-> {}, deleteOnPeer |-> {}, deleteLocally |-> {},
               pullDirs |-> {}, pushDirs |-> {},
               deleteDirsOnPeer |-> {}, deleteDirsLocally |-> {}]

\* Paths on both sides whose content differs: the newer time decides the
\* direction, and the remote side wins a tie.
Differing(l, r)   == {p \in Files(l) \cap Files(r) : l.files[p].hash # r.files[p].hash}
MutantOlderWins(l, r) == {p \in Differing(l, r) : l.files[p].mtime < r.files[p].mtime}
LocalNewer(l, r)  == {p \in Differing(l, r) : l.files[p].mtime > r.files[p].mtime}
MutantRemoteWins(l, r) == Differing(l, r)
RemoteNewer(l, r) == Differing(l, r) \ LocalNewer(l, r)

\* What one side alone holds is new there if it was not shared at the last sync,
\* and deleted on the other side if it was.
MutantNewLeftToPush(l, r, lineage) == RemoteNewer(l, r)
FilesToPull(l, r, lineage) == ((Files(r) \ Files(l)) \ lineage.files) \cup RemoteNewer(l, r)
MutantFoldersReturn(l, r, lineage) == r.dirs \ l.dirs
DirsToPull(l, r, lineage)  == (r.dirs \ l.dirs) \ lineage.dirs

Compute(l, r, lineage) ==
    [pull              |-> FilesToPull(l, r, lineage),
     push              |-> ((Files(l) \ Files(r)) \ lineage.files) \cup LocalNewer(l, r),
     deleteOnPeer      |-> (Files(r) \ Files(l)) \cap lineage.files,
     deleteLocally     |-> (Files(l) \ Files(r)) \cap lineage.files,
     pullDirs          |-> DirsToPull(l, r, lineage),
     pushDirs          |-> (l.dirs \ r.dirs) \ lineage.dirs,
     deleteDirsOnPeer  |-> (r.dirs \ l.dirs) \cap lineage.dirs,
     deleteDirsLocally |-> (l.dirs \ r.dirs) \cap lineage.dirs]

HasPush(d) == d.push # {} \/ d.pushDirs # {}

HasChanges(d) == \E field \in DOMAIN d : d[field] # {}

\* A pass that would delete at least MassDeletionMin files here, and at least
\* half of what was synced before (the fraction is 0.5 in the code).
IsMassDeletion(d, lineage) ==
    LET deleted == Cardinality(d.deleteLocally)
        synced  == Cardinality(lineage.files)
    IN  deleted >= MassDeletionMin /\ synced # 0 /\ 2 * deleted >= synced

-----------------------------------------------------------------------------
(* Lineage                                                                 *)

MutantFilesAsFolders(l, r) == [files |-> Files(l) \cap Files(r),
                               dirs  |-> Files(l) \cap Files(r)]
\* Recording local-only paths, "as this once did".
MutantLocalLineage(l, r) == [files |-> Files(l), dirs |-> l.dirs]

IntersectLineage(l, r) == [files |-> Files(l) \cap Files(r),
                           dirs  |-> l.dirs \cap r.dirs]

\* The union of two manifests; a wins where both list a path.
MergeManifestPaths(a, b) ==
    [files |-> [p \in Paths |-> IF a.files[p] # NoFile THEN a.files[p] ELSE b.files[p]],
     dirs  |-> a.dirs \cup b.dirs]
=============================================================================
