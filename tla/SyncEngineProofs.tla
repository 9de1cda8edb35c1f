-------------------------- MODULE SyncEngineProofs --------------------------
(***************************************************************************)
(* Type correctness of SyncEngine and two invariants of it, for any set of *)
(* devices, paths and folders and any bounds: what a device takes for      *)
(* synced with a peer, both have had.  From these, what a sync overwrites  *)
(* unasked: of two devices, only what the other has had too, and of any    *)
(* number, only what a snapshot holds once the save was captured.          *)
(***************************************************************************)
EXTENDS SyncEngine, TLAPS

USE DEF rows, backups, pass, history, vars

-----------------------------------------------------------------------------
(* Manifests and decisions                                                 *)
(* (SyncExchangeProofs has four of these lemmas too: the two modules have  *)
(* names in common and cannot be extended together.)                       *)

\* The paths a manifest lists, and what its hash tells of one path.
LEMMA HashAtPath ==
    ASSUME NEW m \in Manifest, NEW p \in Paths
    PROVE  /\ p \in Files(m) => m.files[p] \in FileEntry /\ HashAt(m, p) = m.files[p].hash
           /\ p \notin Files(m) => m.files[p] = NoFile /\ HashAt(m, p) = NoFile
           /\ HashAt(m, p) = NoFile <=> p \notin Files(m)
    BY DecisionAssumption DEF Manifest, Files, HashAt, FileEntry

\* Two manifests have one hash exactly when they agree on every path and on the
\* folders.
LEMMA SameHash ==
    ASSUME NEW l \in Manifest, NEW r \in Manifest
    PROVE  ManifestHash(l) = ManifestHash(r) <=>
               /\ \A p \in Paths : HashAt(l, p) = HashAt(r, p)
               /\ l.dirs = r.dirs
    BY DEF ManifestHash

\* sameFiles is the same comparison without the folders.
LEMMA SameFilesPathwise ==
    ASSUME NEW l \in Manifest, NEW r \in Manifest
    PROVE  SameFiles(l, r) <=> \A p \in Paths : HashAt(l, p) = HashAt(r, p)
<1>1. ASSUME SameFiles(l, r), NEW p \in Paths
      PROVE  HashAt(l, p) = HashAt(r, p)
  BY <1>1, HashAtPath DEF SameFiles
<1>2. ASSUME \A p \in Paths : HashAt(l, p) = HashAt(r, p)
      PROVE  SameFiles(l, r)
  <2>1. \A p \in Paths : p \in Files(l) <=> p \in Files(r)
    BY <1>2, HashAtPath
  <2>2. Files(l) = Files(r)
    BY <2>1 DEF Files
  <2>3. \A p \in Files(l) : l.files[p].hash = r.files[p].hash
    BY <1>2, <2>2, HashAtPath DEF Files
  <2> QED BY <2>2, <2>3 DEF SameFiles
<1> QED BY <1>1, <1>2

\* Hashing, intersecting and merging stay within the types.
LEMMA ManifestHashType ==
    ASSUME NEW m \in Manifest
    PROVE  ManifestHash(m) \in ContentHash /\ ManifestHash(m) # NoHash
<1>1. \A p \in Paths : HashAt(m, p) \in Versions \cup {NoFile}
  BY HashAtPath DEF FileEntry
<1>2. ManifestHash(m) \in ContentHash
  BY <1>1 DEF ManifestHash, ContentHash, Manifest
<1> QED BY <1>2, DecisionAssumption DEF ContentHash

\* A manifest with other files, other folders or both is a manifest.
LEMMA ManifestWith ==
    ASSUME NEW m \in Manifest, NEW X \in SUBSET Dirs,
           NEW fs \in [Paths -> FileEntry \cup {NoFile}]
    PROVE  /\ [m EXCEPT !.dirs = X] \in Manifest
           /\ [m EXCEPT !.files = fs] \in Manifest
           /\ [m EXCEPT !.files = fs, !.dirs = X] \in Manifest
    BY DEF Manifest

\* What two manifests share is a lineage.
LEMMA IntersectLineageType ==
    ASSUME NEW l \in Manifest, NEW r \in Manifest
    PROVE  IntersectLineage(l, r) \in Lineage
    BY DEF IntersectLineage, Lineage, Files, Manifest

\* The union of two manifests is a manifest.
LEMMA MergeType ==
    ASSUME NEW a \in Manifest, NEW b \in Manifest
    PROVE  MergeManifestPaths(a, b) \in Manifest
    BY DEF MergeManifestPaths, Manifest

\* What Compute returns on two manifests.
LEMMA ComputeType ==
    ASSUME NEW l \in Manifest, NEW r \in Manifest, NEW common \in Lineage
    PROVE  Compute(l, r, common) \in Decision
<1> DEFINE d == Compute(l, r, common)
<1>1. /\ d.pull \subseteq Paths /\ d.push \subseteq Paths
      /\ d.deleteOnPeer \subseteq Paths /\ d.deleteLocally \subseteq Paths
  BY DEF Compute, FilesToPull, RemoteNewer, LocalNewer, Differing, Files
<1>2. /\ d.pullDirs \subseteq Dirs /\ d.pushDirs \subseteq Dirs
      /\ d.deleteDirsOnPeer \subseteq Dirs /\ d.deleteDirsLocally \subseteq Dirs
  BY DEF Compute, DirsToPull, Manifest
<1> QED BY <1>1, <1>2 DEF Compute, Decision

\* With nothing to do, both sides hold the same files and folders.
LEMMA NoChangesMeansSame ==
    ASSUME NEW l \in Manifest, NEW r \in Manifest, NEW common \in Lineage,
           ~HasChanges(Compute(l, r, common))
    PROVE  ManifestHash(l) = ManifestHash(r)
<1> DEFINE d == Compute(l, r, common)
<1>1. /\ d.pull = {} /\ d.push = {} /\ d.deleteOnPeer = {} /\ d.deleteLocally = {}
      /\ d.pullDirs = {} /\ d.pushDirs = {} /\ d.deleteDirsOnPeer = {} /\ d.deleteDirsLocally = {}
  BY DEF HasChanges, Compute
<1>2. Files(l) = Files(r)
  BY <1>1 DEF Compute, FilesToPull
<1>3. Differing(l, r) = {}
  BY <1>1 DEF Compute, FilesToPull, RemoteNewer
<1>4. \A p \in Paths : HashAt(l, p) = HashAt(r, p)
  BY <1>2, <1>3, HashAtPath DEF Differing
<1>5. l.dirs = r.dirs
  BY <1>1 DEF Compute, DirsToPull
<1> QED BY <1>4, <1>5, SameHash

\* A plan accounts for every file the peer lists: it is here with the same
\* content, or pulled, or left to the peer as a push or a deletion.
LEMMA PlanAccountsForRemote ==
    ASSUME NEW l \in Manifest, NEW r \in Manifest, NEW common \in Lineage, NEW p \in Files(r)
    PROVE  LET d == Compute(l, r, common)
           IN  \/ p \in Files(l) /\ l.files[p].hash = r.files[p].hash
               \/ p \in d.pull \cup d.push \cup d.deleteOnPeer
    BY DEF Compute, FilesToPull, RemoteNewer, Differing

-----------------------------------------------------------------------------
(* The pieces the actions are built from                                   *)

\* Clocks stay within their bounds.
LEMMA TickType == TypeOK /\ Tick => clock + 1 \in 1..MaxClock /\ clock' \in 1..MaxClock
    BY EngineAssumption DEF TypeOK, Tick

\* An edit's tick is a tick.
LEMMA EditTickType == TypeOK /\ EditTick => clock + 1 \in 1..MaxClock /\ clock' \in 1..MaxClock
    BY TickType DEF EditTick

\* Fault counters do too.
LEMMA FaultType == TypeOK /\ (Fault \/ UNCHANGED faults) => faults' \in 0..MaxFaults
    BY EngineAssumption DEF TypeOK, Fault

\* A finished pass leaves every field of the pass well typed.
LEMMA EndPassType ==
    ASSUME TypeOK, NEW d \in Devices, EndPass(d)
    PROVE  /\ pc' \in [Devices -> Steps]
           /\ partner' \in [Devices -> Devices \cup {NoPeer}]
           /\ resolving' \in [Devices -> BOOLEAN]
           /\ seen' \in [Devices -> View]
           /\ plan' \in [Devices -> Decision]
           /\ todo' \in [Devices -> SUBSET (Paths \cup Dirs)]
<1>1. EmptyManifest \in Manifest
  BY DEF EmptyManifest, Manifest
<1>2. NothingSeen \in View
  BY <1>1 DEF NothingSeen, View, Hashes
<1>3. NoDecision \in Decision
  BY DEF NoDecision, Decision
<1> QED BY <1>2, <1>3 DEF TypeOK, EndPass, Steps

\* So does the next stage of a plan.
LEMMA EnterType ==
    ASSUME TypeOK, NEW d \in Devices, NEW stage \in Steps, NEW pl \in Decision, Enter(d, stage, pl)
    PROVE  pc' \in [Devices -> Steps] /\ todo' \in [Devices -> SUBSET (Paths \cup Dirs)]
    BY DEF TypeOK, Enter, Decision

\* Whatever is left of a plan, the next stage is a step of a pass.
LEMMA StageType ==
    ASSUME NEW pl \in Decision, NEW r \in Manifest
    PROVE  /\ AfterCreating(pl) \in Steps
           /\ AfterPropagating(pl, r) \in Steps
           /\ AfterDeleting(pl, r) \in Steps
           /\ AfterJudging(pl, r) \in Steps
    BY DEF AfterCreating, AfterPropagating, AfterDeleting, AfterJudging, Steps

\* Reports, snapshots and rows.
LEMMA SendType ==
    ASSUME TypeOK, NEW from \in Devices, NEW to \in Devices, NEW hash \in Hashes, Send(from, to, hash)
    PROVE  reports' \subseteq ReportOf
    BY DEF TypeOK, Send, ReportOf

\* A snapshot holds the hash of a save.
LEMMA SnapshotType ==
    ASSUME TypeOK, NEW d \in Devices, Snapshot(d) \/ UNCHANGED archived
    PROVE  archived' \in [Devices -> SUBSET ContentHash]
<1>1. ManifestHash(save[d]) \in ContentHash
  BY ManifestHashType DEF TypeOK
<1>2. CASE UNCHANGED archived
  BY <1>2 DEF TypeOK
<1>3. CASE Snapshot(d)
  BY <1>1, <1>3 DEF TypeOK, Snapshot
<1> QED BY <1>2, <1>3

\* What a convergence writes fits the rows.
LEMMA RecordConvergenceType ==
    ASSUME TypeOK, NEW d \in Devices, NEW e \in Devices, NEW m \in Manifest, NEW now \in 0..MaxClock,
           RecordConvergence(d, e, m, now)
    PROVE  /\ lineage' \in [Devices -> [Devices -> Lineage]]
           /\ agreed' \in [Devices -> [Devices -> Hashes]]
           /\ pushed' \in [Devices -> [Devices -> Hashes]]
           /\ lastSynced' \in [Devices -> [Devices -> 0..MaxClock]]
<1>1. IntersectLineage(m, m) \in Lineage /\ ManifestHash(m) \in Hashes /\ NoHash \in Hashes
  BY IntersectLineageType, ManifestHashType DEF Hashes
<1> QED BY <1>1 DEF TypeOK, RecordConvergence

\* Judging an active pass reads two manifests and gives a plan and two hashes.
LEMMA JudgementType ==
    ASSUME TypeOK, NEW d \in Devices, partner[d] \in Devices
    PROVE  /\ Verdict(d) \in Decision
           /\ HealedRow(d).agreed \in Hashes /\ HealedRow(d).pushed \in Hashes
<1>1. save[d] \in Manifest /\ seen[d].remote \in Manifest /\ lineage[d][partner[d]] \in Lineage
  BY DEF TypeOK, View
<1>2. Verdict(d) \in Decision
  BY <1>1, ComputeType DEF Verdict
<1>3. /\ ManifestHash(save[d]) \in Hashes /\ ManifestHash(seen[d].remote) \in Hashes /\ NoHash \in Hashes
      /\ agreed[d][partner[d]] \in Hashes /\ pushed[d][partner[d]] \in Hashes
  BY <1>1, ManifestHashType DEF TypeOK, Hashes
<1>4. HealedRow(d).agreed \in Hashes /\ HealedRow(d).pushed \in Hashes
  BY <1>3 DEF HealedRow, Healed
<1> QED BY <1>2, <1>4

\* A row forgets a decree and stays one.
LEMMA DecreeType ==
    ASSUME NEW row \in Decree
    PROVE  /\ LineageSynced(row) \in Decree /\ BaseSynced(row) \in Decree
           /\ RowSynced(row) \in Decree
    BY DEF Decree, LineageSynced, BaseSynced, RowSynced

\* So does a healed row.
LEMMA StoreHealingType ==
    ASSUME TypeOK, NEW d \in Devices, partner[d] \in Devices, StoreHealing(d)
    PROVE  /\ agreed' \in [Devices -> [Devices -> Hashes]]
           /\ pushed' \in [Devices -> [Devices -> Hashes]]
           /\ decreed' \in [Devices -> [Devices -> Decree]]
<1>1. /\ agreed' \in [Devices -> [Devices -> Hashes]]
      /\ pushed' \in [Devices -> [Devices -> Hashes]]
  BY JudgementType DEF TypeOK, StoreHealing
<1>2. decreed[d][partner[d]] \in Decree
  BY DEF TypeOK
<1>3. decreed' \in [Devices -> [Devices -> Decree]]
  BY <1>2, DecreeType DEF TypeOK, StoreHealing
<1> QED BY <1>1, <1>3

-----------------------------------------------------------------------------
(* Type correctness                                                        *)

\* TypeOK alone is not inductive: a pass reads the rows of its peer, so it must
\* have one.
PassHasPeer == \A d \in Devices : pc[d] # "idle" => partner[d] \in Devices

Typed == TypeOK /\ PassHasPeer

\* The starts are well typed.
LEMMA TypedInit == Init => Typed
<1> SUFFICES ASSUME Init PROVE Typed
  OBVIOUS
<1>1. EmptyManifest \in Manifest /\ EmptyLineage \in Lineage /\ NoDecision \in Decision
  BY DEF EmptyManifest, Manifest, EmptyLineage, Lineage, NoDecision, Decision
<1>2. SharedSave \in Manifest /\ ManifestHash(SharedSave) \in ContentHash
  <2>1. 1 \in Versions /\ 1 \in Mtimes
    BY EngineAssumption
  <2>2. SharedSave \in Manifest
    BY <2>1 DEF SharedSave, Manifest, FileEntry
  <2> QED BY <2>2, ManifestHashType
<1>3. NothingSeen \in View /\ Undecreed \in Decree /\ 0 \in 0..MaxClock /\ 1 \in 1..MaxClock /\ 0 \in 0..MaxFaults
  BY <1>1, EngineAssumption DEF NothingSeen, View, Hashes, Undecreed, Decree
<1>4. /\ save \in [Devices -> Manifest]
      /\ agreed \in [Devices -> [Devices -> Hashes]]
      /\ lineage \in [Devices -> [Devices -> Lineage]]
      /\ lastSynced \in [Devices -> [Devices -> 0..MaxClock]]
      /\ captured \in [Devices -> Hashes]
      /\ archived \in [Devices -> SUBSET ContentHash]
      /\ known \in [Devices -> [Paths -> SUBSET Versions]]
  <2>1. CASE FreshStart
    BY <1>1, <1>3, <2>1 DEF FreshStart, Hashes
  <2>2. CASE SyncedStart
    <3>1. [files |-> Paths, dirs |-> Dirs] \in Lineage /\ 1 \in 0..MaxClock /\ {1} \in SUBSET Versions
      BY EngineAssumption DEF Lineage
    <3> QED BY <1>2, <2>2, <3>1 DEF SyncedStart, Hashes
  <2> QED BY <2>1, <2>2 DEF Init
<1> QED BY <1>1, <1>3, <1>4 DEF Init, Typed, TypeOK, PassHasPeer, Steps, Hashes

\* What a user does to a save folder.
LEMMA TypedEdit ==
    ASSUME Typed, Edit
    PROVE  Typed'
<1> USE DEF Typed, TypeOK, PassHasPeer
<1>1. ASSUME NEW d \in Devices, NEW p \in Paths, Write(d, p)
      PROVE  Typed'
  <2>1. clock + 1 \in 1..MaxClock /\ clock' \in 1..MaxClock
    BY <1>1, EditTickType DEF Write
  <2>2. [hash |-> clock + 1, mtime |-> clock + 1] \in FileEntry
    BY <2>1, EngineAssumption DEF FileEntry
  <2>3. save' \in [Devices -> Manifest]
    BY <1>1, <2>2 DEF Write, Manifest
  <2>4. known' \in [Devices -> [Paths -> SUBSET Versions]]
    BY <1>1, <2>1, EngineAssumption DEF Write
  <2> QED BY <1>1, <2>1, <2>3, <2>4 DEF Write
<1>2. ASSUME NEW d \in Devices, NEW p \in Paths, Remove(d, p)
      PROVE  Typed'
  <2>1. save' \in [Devices -> Manifest]
    BY <1>2 DEF Remove, Manifest
  <2> QED BY <1>2, <2>1, EditTickType DEF Remove
<1>3. ASSUME NEW d \in Devices, NEW x \in Dirs, MakeDir(d, x) \/ RemoveDir(d, x)
      PROVE  Typed'
  <2>1. save' \in [Devices -> Manifest]
    <3> DEFINE more == save[d].dirs \cup {x}
               less == save[d].dirs \ {x}
    <3>1. save[d] \in Manifest /\ more \in SUBSET Dirs /\ less \in SUBSET Dirs
      BY DEF Manifest
    <3>2. [save[d] EXCEPT !.dirs = more] \in Manifest /\ [save[d] EXCEPT !.dirs = less] \in Manifest
      BY <3>1, ManifestWith DEF Manifest
    <3>3. \/ save' = [save EXCEPT ![d] = [save[d] EXCEPT !.dirs = more]]
          \/ save' = [save EXCEPT ![d] = [save[d] EXCEPT !.dirs = less]]
      BY <1>3 DEF MakeDir, RemoveDir
    <3> QED BY <3>2, <3>3
  <2> QED BY <1>3, <2>1, EditTickType DEF MakeDir, RemoveDir
<1>4. ASSUME NEW d \in Devices, NEW s \in archived[d], Restore(d, s)
      PROVE  Typed'
  <2>1. clock + 1 \in Mtimes /\ clock' \in 1..MaxClock
    BY <1>4, EditTickType, EngineAssumption DEF Restore
  <2>2. s \in ContentHash
    BY <1>4
  <2>3. save' \in [Devices -> Manifest]
    <3> DEFINE restored == [files |-> [p \in Paths |-> IF s.files[p] = NoFile THEN NoFile
                                                      ELSE [hash |-> s.files[p], mtime |-> clock + 1]],
                            dirs  |-> s.dirs]
    <3>1. \A p \in Paths : s.files[p] \in Versions \cup {NoFile}
      BY <2>2 DEF ContentHash
    <3>2. restored \in Manifest
      BY <2>1, <2>2, <3>1 DEF Manifest, ContentHash, FileEntry
    <3>3. save' = [save EXCEPT ![d] = restored]
      BY <1>4 DEF Restore
    <3> QED BY <3>2, <3>3
  <2>4. known' \in [Devices -> [Paths -> SUBSET Versions]]
    BY <1>4, <2>2 DEF Restore, ContentHash
  <2>5. archived' \in [Devices -> SUBSET ContentHash] /\ faults' \in 0..MaxFaults
    BY <1>4, SnapshotType, FaultType DEF Restore
  <2> QED BY <1>4, <2>1, <2>3, <2>4, <2>5 DEF Restore
<1> QED BY <1>1, <1>2, <1>3, <1>4 DEF Edit

\* Snapshots, crashes, lost reports.
LEMMA TypedCapture ==
    ASSUME Typed, NEW d \in Devices, Capture(d)
    PROVE  Typed'
<1>1. ManifestHash(save[d]) \in Hashes
  BY ManifestHashType DEF Typed, TypeOK, Hashes
<1>2. archived' \in [Devices -> SUBSET ContentHash]
  BY SnapshotType DEF Capture, Typed
<1> QED BY <1>1, <1>2 DEF Capture, Typed, TypeOK, PassHasPeer

\* A crash forgets the device's pass, conflict and refreshes.
LEMMA TypedCrash ==
    ASSUME Typed, NEW d \in Devices, Crash(d)
    PROVE  Typed'
<1>1. EndPass(d) /\ faults' \in 0..MaxFaults
  BY FaultType DEF Crash, Typed
<1>2. PassHasPeer'
  BY <1>1 DEF EndPass, Typed, TypeOK, PassHasPeer
<1>3. TypeOK'
  BY <1>1, EndPassType DEF Crash, Typed, TypeOK
<1> QED BY <1>2, <1>3 DEF Typed

\* The start of a pass and the judgement.
LEMMA TypedStartPass ==
    ASSUME Typed, NEW d \in Devices, NEW e \in Devices, StartPass(d, e)
    PROVE  Typed'
<1>1. [captured |-> captured[d], local |-> EmptyManifest, remote |-> save[e]] \in View
  BY DEF Typed, TypeOK, View, EmptyManifest, Manifest
<1> QED BY <1>1 DEF StartPass, Typed, TypeOK, PassHasPeer, Steps

\* A judgement gives up, raises a conflict, finds nothing to do, or makes a plan.
LEMMA TypedJudge ==
    ASSUME Typed, NEW d \in Devices, Judge(d)
    PROVE  Typed'
<1>1. pc[d] = "fetched" /\ partner[d] \in Devices
  BY DEF Judge, GiveUp, RaiseConflict, FindInSync, BeginApply, Judging, Typed, PassHasPeer
<1>2. ASSUME GiveUp(d)
      PROVE  Typed'
  <2>1. EndPass(d)
    BY <1>2 DEF GiveUp
  <2>2. PassHasPeer'
    BY <2>1 DEF EndPass, Typed, TypeOK, PassHasPeer
  <2>3. TypeOK'
    BY <1>2, <2>1, EndPassType DEF GiveUp, Typed, TypeOK
  <2> QED BY <2>2, <2>3 DEF Typed
<1>3. ASSUME RaiseConflict(d)
      PROVE  Typed'
  <2>1. EndPass(d) /\ StoreHealing(d)
    BY <1>3 DEF RaiseConflict
  <2>2. PassHasPeer'
    BY <2>1 DEF EndPass, Typed, TypeOK, PassHasPeer
  <2>3. TypeOK'
    BY <1>1, <1>3, <2>1, EndPassType, StoreHealingType DEF RaiseConflict, Typed, TypeOK
  <2> QED BY <2>2, <2>3 DEF Typed
<1>4. ASSUME FindInSync(d)
      PROVE  Typed'
  <2>1. EndPass(d) /\ RecordConvergence(d, partner[d], save[d], clock) /\ SendInSync(d, partner[d])
    BY <1>4 DEF FindInSync
  <2>2. PassHasPeer'
    BY <2>1 DEF EndPass, Typed, TypeOK, PassHasPeer
  <2>3. save[d] \in Manifest /\ clock \in 0..MaxClock /\ ManifestHash(save[d]) \in Hashes
    BY ManifestHashType DEF Typed, TypeOK, Hashes
  <2>4. reports' \subseteq ReportOf
    BY <1>1, <2>1, <2>3, SendType DEF SendInSync, Typed
  <2>5. decreed' \in [Devices -> [Devices -> Decree]]
    <3>1. decreed[d][partner[d]] \in Decree
      BY <1>1 DEF Typed, TypeOK
    <3>2. decreed' = [decreed EXCEPT ![d][partner[d]] = RowSynced(decreed[d][partner[d]])]
      BY <1>4 DEF FindInSync
    <3> QED BY <1>1, <3>1, <3>2, DecreeType DEF Typed, TypeOK
  <2>6. TypeOK'
    BY <1>1, <1>4, <2>1, <2>3, <2>4, <2>5, EndPassType, RecordConvergenceType DEF FindInSync, Typed, TypeOK
  <2> QED BY <2>2, <2>6 DEF Typed
<1>5. ASSUME BeginApply(d)
      PROVE  Typed'
  <2>1. Verdict(d) \in Decision /\ save[d] \in Manifest /\ seen[d].remote \in Manifest
    BY <1>1, JudgementType DEF Typed, TypeOK, View
  <2>2. AfterJudging(Verdict(d), seen[d].remote) \in Steps
    BY <2>1, StageType
  <2>3. pc' \in [Devices -> Steps] /\ todo' \in [Devices -> SUBSET (Paths \cup Dirs)]
    BY <1>5, <2>1, <2>2, EnterType DEF BeginApply, Typed
  <2>4. seen' \in [Devices -> View]
    BY <1>5, <2>1 DEF BeginApply, Typed, TypeOK, View
  <2>5. PassHasPeer'
    BY <1>1, <1>5 DEF BeginApply, Enter, Typed, TypeOK, PassHasPeer
  <2>6. TypeOK'
    BY <1>1, <1>5, <2>1, <2>3, <2>4, StoreHealingType DEF BeginApply, Typed, TypeOK
  <2> QED BY <2>5, <2>6 DEF Typed
<1> QED BY <1>2, <1>3, <1>4, <1>5 DEF Judge

\* The steps that apply a plan: deletions here and on the peer, folders, files.
LEMMA TypedRemovePlanned ==
    ASSUME Typed, NEW d \in Devices, DeleteLocally(d) \/ FailLocalDeletion(d)
    PROVE  Typed'
<1>1. PICK kept : RemovePlanned(d, kept)
  BY DEF DeleteLocally, FailLocalDeletion
<1>2. partner[d] \in Devices /\ plan[d] \in Decision /\ seen[d].remote \in Manifest
  BY <1>1 DEF RemovePlanned, Typed, TypeOK, PassHasPeer, View
<1>3. save' \in [Devices -> Manifest]
  <2> DEFINE fs == [p \in Paths |-> IF p \in plan[d].deleteLocally \ kept THEN NoFile
                                    ELSE save[d].files[p]]
             X  == save[d].dirs \ plan[d].deleteDirsLocally
  <2>1. save[d] \in Manifest /\ fs \in [Paths -> FileEntry \cup {NoFile}] /\ X \in SUBSET Dirs
    BY DEF Typed, TypeOK, Manifest
  <2>2. [save[d] EXCEPT !.files = fs, !.dirs = X] \in Manifest
    BY <2>1, ManifestWith
  <2>3. save' = [save EXCEPT ![d] = [save[d] EXCEPT !.files = fs, !.dirs = X]]
    BY <1>1 DEF RemovePlanned
  <2> QED BY <2>2, <2>3 DEF Typed, TypeOK
<1>4. pc' \in [Devices -> Steps] /\ todo' \in [Devices -> SUBSET (Paths \cup Dirs)]
  BY <1>1, <1>2, StageType, EnterType DEF RemovePlanned, Typed
<1>5. faults' \in 0..MaxFaults
  BY FaultType DEF DeleteLocally, FailLocalDeletion, Typed
<1>6. PassHasPeer'
  BY <1>1, <1>2 DEF RemovePlanned, Enter, Typed, TypeOK, PassHasPeer
<1>7. TypeOK'
  BY <1>1, <1>3, <1>4, <1>5 DEF RemovePlanned, Typed, TypeOK
<1> QED BY <1>6, <1>7 DEF Typed

\* A request of propagateDeletions that is over.
LEMMA PropagatedType ==
    ASSUME Typed, NEW d \in Devices, NEW x, Propagated(d, x), UNCHANGED partner
    PROVE  /\ partner[d] \in Devices
           /\ pc' \in [Devices -> Steps] /\ todo' \in [Devices -> SUBSET (Paths \cup Dirs)]
           /\ PassHasPeer'
<1>1. partner[d] \in Devices /\ plan[d] \in Decision /\ seen[d].remote \in Manifest
  BY DEF Propagated, Typed, TypeOK, PassHasPeer, View
<1>2. CASE todo[d] = {x}
  <2>1. Enter(d, AfterPropagating(plan[d], seen[d].remote), plan[d])
    BY <1>2 DEF Propagated
  <2>2. pc' \in [Devices -> Steps] /\ todo' \in [Devices -> SUBSET (Paths \cup Dirs)]
    BY <1>1, <2>1, StageType, EnterType DEF Typed
  <2>3. PassHasPeer'
    BY <1>1, <2>1 DEF Enter, Typed, TypeOK, PassHasPeer
  <2> QED BY <1>1, <2>2, <2>3
<1>3. CASE todo[d] # {x}
  <2>1. todo' = [todo EXCEPT ![d] = @ \ {x}] /\ UNCHANGED pc
    BY <1>3 DEF Propagated
  <2>2. todo' \in [Devices -> SUBSET (Paths \cup Dirs)]
    BY <2>1 DEF Typed, TypeOK
  <2> QED BY <1>1, <2>1, <2>2 DEF Typed, TypeOK, PassHasPeer
<1> QED BY <1>2, <1>3

\* A deletion changes the peer's save and may send a report.
LEMMA TypedDeleteOnPeer ==
    ASSUME Typed, NEW d \in Devices, NEW x \in Paths \cup Dirs, DeleteOnPeer(d, x)
    PROVE  Typed'
<1> DEFINE e == partner[d]
<1>1. Propagated(d, x) /\ UNCHANGED partner
  BY DEF DeleteOnPeer
<1>2. /\ e \in Devices /\ PassHasPeer'
      /\ pc' \in [Devices -> Steps] /\ todo' \in [Devices -> SUBSET (Paths \cup Dirs)]
  BY <1>1, PropagatedType
<1>3. save' \in [Devices -> Manifest]
  <2> DEFINE fs == [p \in Paths |-> IF p = x THEN NoFile ELSE save[e].files[p]]
             X  == save[e].dirs \ {x}
  <2>1. save[e] \in Manifest /\ fs \in [Paths -> FileEntry \cup {NoFile}] /\ X \in SUBSET Dirs
    BY <1>2 DEF Typed, TypeOK, Manifest
  <2>2. [save[e] EXCEPT !.files = fs, !.dirs = X] \in Manifest
    BY <2>1, ManifestWith
  <2>3. save' = [save EXCEPT ![e] = [save[e] EXCEPT !.files = fs, !.dirs = X]]
    BY DEF DeleteOnPeer
  <2> QED BY <2>2, <2>3 DEF Typed, TypeOK
<1>4. reports' \subseteq ReportOf
  <2>1. CASE Send(d, e, NoHash)
    BY <1>2, <2>1, SendType DEF Typed, Hashes
  <2>2. CASE UNCHANGED reports
    BY <2>2 DEF Typed, TypeOK
  <2> QED BY <2>1, <2>2 DEF DeleteOnPeer
<1>5. TypeOK'
  BY <1>2, <1>3, <1>4 DEF DeleteOnPeer, Typed, TypeOK
<1> QED BY <1>2, <1>5 DEF Typed

\* A failed one changes nothing but the pass.
LEMMA TypedFailDeleteOnPeer ==
    ASSUME Typed, NEW d \in Devices, NEW x \in Paths \cup Dirs, FailDeleteOnPeer(d, x)
    PROVE  Typed'
<1>1. Propagated(d, x) /\ UNCHANGED partner
  BY DEF FailDeleteOnPeer
<1>2. /\ PassHasPeer'
      /\ pc' \in [Devices -> Steps] /\ todo' \in [Devices -> SUBSET (Paths \cup Dirs)]
  BY <1>1, PropagatedType
<1>3. faults' \in 0..MaxFaults
  BY FaultType DEF FailDeleteOnPeer, Typed
<1> QED BY <1>2, <1>3 DEF FailDeleteOnPeer, Typed, TypeOK

\* Folders are created from the plan and from the peer's manifest.
LEMMA TypedCreateDirs ==
    ASSUME Typed, NEW d \in Devices, CreateDirs(d)
    PROVE  Typed'
<1>1. partner[d] \in Devices /\ plan[d] \in Decision /\ seen[d].remote \in Manifest
  BY DEF CreateDirs, Typed, TypeOK, PassHasPeer, View
<1>2. DirsToCreate(plan[d], seen[d].remote) \subseteq Dirs
  BY <1>1 DEF DirsToCreate, Decision, Manifest
<1> DEFINE X == save[d].dirs \cup DirsToCreate(plan[d], seen[d].remote)
<1>3. save[d] \in Manifest /\ X \in SUBSET Dirs
  BY <1>2 DEF Typed, TypeOK, Manifest
<1>4. save' \in [Devices -> Manifest]
  <2>1. [save[d] EXCEPT !.dirs = X] \in Manifest
    BY <1>3, ManifestWith DEF Manifest
  <2>2. save' = [save EXCEPT ![d] = [save[d] EXCEPT !.dirs = X]]
    BY DEF CreateDirs
  <2> QED BY <2>1, <2>2 DEF Typed, TypeOK
<1>5. pc' \in [Devices -> Steps] /\ todo' \in [Devices -> SUBSET (Paths \cup Dirs)]
  BY <1>1, StageType, EnterType DEF CreateDirs, Typed
<1>6. PassHasPeer'
  BY <1>1 DEF CreateDirs, Enter, Typed, TypeOK, PassHasPeer
<1> QED BY <1>4, <1>5, <1>6 DEF CreateDirs, Typed, TypeOK

\* The peer still holds what the pass saw, so there is something to commit.
LEMMA TypedPullFile ==
    ASSUME Typed, NEW d \in Devices, NEW p \in Paths, PullFile(d, p),
           p \in Files(seen[d].remote)
    PROVE  Typed'
<1> DEFINE entry == seen[d].remote.files[p]
<1>1. seen[d].remote \in Manifest
  BY DEF Typed, TypeOK, View
<1>2. entry \in FileEntry /\ entry.hash \in Versions
  BY <1>1, HashAtPath DEF FileEntry
<1>3. save' \in [Devices -> Manifest]
  BY <1>2 DEF PullFile, Typed, TypeOK, Manifest
<1>4. known' \in [Devices -> [Paths -> SUBSET Versions]]
  BY <1>2 DEF PullFile, Typed, TypeOK
<1>5. todo' \in [Devices -> SUBSET (Paths \cup Dirs)]
  BY DEF PullFile, Typed, TypeOK
<1> QED BY <1>3, <1>4, <1>5 DEF PullFile, Typed, TypeOK, PassHasPeer

\* A pull that stops ends the pass.
LEMMA TypedAbortPull ==
    ASSUME Typed, NEW d \in Devices, PeerMovedOn(d) \/ FailPull(d)
    PROVE  Typed'
<1>1. AbortPull(d) /\ EndPass(d) /\ faults' \in 0..MaxFaults
  BY FaultType DEF PeerMovedOn, FailPull, AbortPull, Typed
<1>2. PassHasPeer'
  BY <1>1 DEF EndPass, Typed, TypeOK, PassHasPeer
<1>3. TypeOK'
  BY <1>1, EndPassType DEF AbortPull, Typed, TypeOK
<1> QED BY <1>2, <1>3 DEF Typed

\* A pull that is complete may leave a snapshot and sends a report.
LEMMA TypedCompletePull ==
    ASSUME Typed, NEW d \in Devices, CompletePull(d)
    PROVE  Typed'
<1>1. partner[d] \in Devices
  BY DEF CompletePull, Typed, PassHasPeer
<1>2. archived' \in [Devices -> SUBSET ContentHash]
  BY SnapshotType DEF CompletePull, Typed
<1>3. reports' \subseteq ReportOf
  BY <1>1, SendType DEF CompletePull, Typed, Hashes
<1>4. pc' \in [Devices -> Steps]
  BY DEF CompletePull, Typed, TypeOK, Steps
<1>5. PassHasPeer'
  BY <1>1 DEF CompletePull, Typed, TypeOK, PassHasPeer
<1> QED BY <1>2, <1>3, <1>4, <1>5 DEF CompletePull, Typed, TypeOK

\* The last step of a pass writes the rows of its peer.
LEMMA TypedRecord ==
    ASSUME Typed, NEW d \in Devices, Record(d)
    PROVE  Typed'
<1> DEFINE e == partner[d]
           shared == IntersectLineage(MergeManifestPaths(save[d], seen[d].local), seen[d].remote)
<1>1. /\ e \in Devices /\ save[d] \in Manifest
      /\ seen[d].local \in Manifest /\ seen[d].remote \in Manifest
  BY DEF Record, Typed, TypeOK, PassHasPeer, View
<1>2. shared \in Lineage
  BY <1>1, MergeType, IntersectLineageType
<1>3. lineage' \in [Devices -> [Devices -> Lineage]]
  BY <1>2 DEF Record, Typed, TypeOK
<1>4. ManifestHash(save[d]) \in Hashes /\ ManifestHash(seen[d].remote) \in Hashes /\ NoHash \in Hashes
  BY <1>1, ManifestHashType DEF Hashes
<1>5. decreed[d][e] \in Decree /\ LineageSynced(decreed[d][e]) \in Decree /\ RowSynced(decreed[d][e]) \in Decree
  <2>1. decreed[d][e] \in Decree
    BY <1>1 DEF Typed, TypeOK
  <2> QED BY <2>1, DecreeType
<1>6. /\ agreed' \in [Devices -> [Devices -> Hashes]]
      /\ pushed' \in [Devices -> [Devices -> Hashes]]
      /\ decreed' \in [Devices -> [Devices -> Decree]]
  <2>1. CASE HandsOver(d)
    <3>1. /\ pushed' = [pushed EXCEPT ![d][e] = ManifestHash(save[d])]
          /\ decreed' = [decreed EXCEPT ![d][e] = LineageSynced(@)]
          /\ UNCHANGED agreed
      BY <2>1 DEF Record
    <3> QED BY <1>1, <1>4, <1>5, <3>1 DEF Typed, TypeOK
  <2>2. CASE ~HandsOver(d)
    <3>1. /\ agreed' = [agreed EXCEPT ![d][e] = ManifestHash(seen[d].remote)]
          /\ pushed' = [pushed EXCEPT ![d][e] = NoHash]
          /\ decreed' = [decreed EXCEPT ![d][e] = RowSynced(@)]
      BY <2>2 DEF Record
    <3> QED BY <1>1, <1>4, <1>5, <3>1 DEF Typed, TypeOK
  <2> QED BY <2>1, <2>2
<1>7. lastSynced' \in [Devices -> [Devices -> 0..MaxClock]]
  <2>1. lastSynced' = [lastSynced EXCEPT ![d][e] = clock] /\ clock \in 0..MaxClock
    BY DEF Record, Typed, TypeOK
  <2> QED BY <1>1, <2>1 DEF Typed, TypeOK
<1>8. EndPass(d)
  BY DEF Record
<1>9. PassHasPeer'
  BY <1>8 DEF EndPass, Typed, TypeOK, PassHasPeer
<1>10. TypeOK'
  BY <1>3, <1>6, <1>7, <1>8, EndPassType DEF Record, Typed, TypeOK
<1> QED BY <1>9, <1>10 DEF Typed

\* The reports and what hearing one of them leads to.
LEMMA TypedReact ==
    ASSUME Typed, React
    PROVE  Typed'
<1>1. ASSUME NEW m \in reports, ConfirmInSync(m)
      PROVE  Typed'
  <2>1. /\ m.to \in Devices /\ m.from \in Devices /\ clock \in 0..MaxClock
        /\ save[m.to] \in Manifest
    BY DEF Typed, TypeOK, ReportOf
  <2>2. RecordConvergence(m.to, m.from, save[m.to], clock)
    BY <1>1 DEF ConfirmInSync
  <2>3. RowSynced(decreed[m.to][m.from]) \in Decree
    BY <2>1, DecreeType DEF Typed, TypeOK
  <2>4. decreed' \in [Devices -> [Devices -> Decree]]
    <3>1. decreed' = [decreed EXCEPT ![m.to][m.from] = RowSynced(decreed[m.to][m.from])]
      BY <1>1 DEF ConfirmInSync
    <3> QED BY <2>1, <2>3, <3>1 DEF Typed, TypeOK
  <2> QED BY <1>1, <2>1, <2>2, <2>4, RecordConvergenceType
          DEF ConfirmInSync, Typed, TypeOK, PassHasPeer
<1>2. ASSUME NEW m \in reports, StartRefresh(m)
      PROVE  Typed'
  <2>1. [on |-> m.to, of |-> m.from, remote |-> save[m.from]] \in RefreshOf
    BY DEF Typed, TypeOK, ReportOf, RefreshOf
  <2> QED BY <1>2, <2>1 DEF StartRefresh, Typed, TypeOK, PassHasPeer
<1>3. ASSUME NEW m \in reports, LoseReport(m)
      PROVE  Typed'
  <2>1. faults' \in 0..MaxFaults
    BY <1>3, FaultType DEF LoseReport, Typed
  <2> QED BY <1>3, <2>1 DEF LoseReport, Typed, TypeOK, PassHasPeer
<1>4. ASSUME NEW r \in refreshes, RecordRefresh(r)
      PROVE  Typed'
  <2> DEFINE d == r.on
             e == r.of
  <2>1. d \in Devices /\ e \in Devices /\ save[d] \in Manifest /\ r.remote \in Manifest
    BY DEF Typed, TypeOK, RefreshOf
  <2>2. IntersectLineage(save[d], r.remote) \in Lineage
    BY <2>1, IntersectLineageType
  <2>3. lineage' \in [Devices -> [Devices -> Lineage]]
    BY <1>4, <2>2 DEF RecordRefresh, Typed, TypeOK
  <2>4. ManifestHash(save[d]) \in Hashes /\ NoHash \in Hashes
    BY <2>1, ManifestHashType DEF Hashes
  <2>5. agreed' \in [Devices -> [Devices -> Hashes]] /\ pushed' \in [Devices -> [Devices -> Hashes]]
    BY <1>4, <2>4 DEF RecordRefresh, Typed, TypeOK
  <2>6. decreed[d][e] \in Decree
    BY <2>1 DEF Typed, TypeOK
  <2>7. LineageSynced(decreed[d][e]) \in Decree /\ RowSynced(decreed[d][e]) \in Decree
    BY <2>6, DecreeType
  <2>8. decreed' \in [Devices -> [Devices -> Decree]]
    BY <1>4, <2>1, <2>7 DEF RecordRefresh, Typed, TypeOK
  <2> QED BY <1>4, <2>3, <2>5, <2>8 DEF RecordRefresh, Typed, TypeOK, PassHasPeer
<1> QED BY <1>1, <1>2, <1>3, <1>4 DEF React

\* The resolutions of a conflict.
LEMMA TypedKeepLocal ==
    ASSUME Typed, NEW d \in Devices, KeepLocal(d)
    PROVE  Typed'
<1>1. clock + 1 \in 1..MaxClock /\ clock' = clock + 1
  BY TickType DEF KeepLocal, Tick, Typed
<1>2. conflict[d] \in Devices /\ save[d] \in Manifest
  BY DEF KeepLocal, Typed, TypeOK
<1>3. Touched(save[d], clock + 1) \in Manifest
  <2> DEFINE fs == [p \in Paths |-> IF save[d].files[p] = NoFile THEN NoFile
                                    ELSE [hash |-> save[d].files[p].hash, mtime |-> clock + 1]]
  <2>1. \A p \in Paths : save[d].files[p] \in FileEntry \cup {NoFile}
    BY <1>2 DEF Manifest
  <2>2. fs \in [Paths -> FileEntry \cup {NoFile}]
    BY <1>1, <2>1, EngineAssumption DEF FileEntry
  <2>3. save[d].dirs \in SUBSET Dirs
    BY <1>2 DEF Manifest
  <2>4. [save[d] EXCEPT !.files = fs] \in Manifest
    BY <1>2, <2>2, <2>3, ManifestWith
  <2> QED BY <2>4 DEF Touched
<1>4. save' \in [Devices -> Manifest]
  BY <1>3 DEF KeepLocal, Typed, TypeOK
<1>5. clock + 1 \in 0..MaxClock
  BY <1>1
<1>6. RecordConvergence(d, conflict[d], save[d], clock + 1)
  BY DEF KeepLocal
<1>7. [lineage |-> TRUE, base |-> TRUE, kept |-> clock + 1] \in Decree
  BY <1>5 DEF Decree
<1>8. decreed' \in [Devices -> [Devices -> Decree]]
  BY <1>2, <1>7 DEF KeepLocal, Typed, TypeOK
<1>9. ManifestHash(save[d]) \in Hashes
  BY <1>2, ManifestHashType DEF Hashes
<1>10. captured' \in [Devices -> Hashes]
  BY <1>9 DEF KeepLocal, Typed, TypeOK
<1> QED BY <1>1, <1>2, <1>4, <1>5, <1>6, <1>8, <1>10, RecordConvergenceType
        DEF KeepLocal, Typed, TypeOK, PassHasPeer

\* A keep-remote resolution starts a pass with the peer of the conflict.
LEMMA TypedKeepRemote ==
    ASSUME Typed, NEW d \in Devices, KeepRemote(d)
    PROVE  Typed'
<1>1. conflict[d] \in Devices
  BY DEF KeepRemote, Typed, TypeOK
<1>2. archived' \in [Devices -> SUBSET ContentHash] /\ faults' \in 0..MaxFaults
  BY SnapshotType, FaultType DEF KeepRemote, Typed
<1>3. [seen[d] EXCEPT !.remote = save[conflict[d]]] \in View
  BY <1>1 DEF Typed, TypeOK, View
<1>4. seen' \in [Devices -> View]
  BY <1>3 DEF KeepRemote, Typed, TypeOK
<1> QED BY <1>1, <1>2, <1>4 DEF KeepRemote, Typed, TypeOK, PassHasPeer, Steps

\* Its plan is to take the peer's files over.
LEMMA TypedBeginOverwrite ==
    ASSUME Typed, NEW d \in Devices, BeginOverwrite(d)
    PROVE  Typed'
<1> DEFINE pl == OverwritePlan(save[d], seen[d].remote)
<1>1. partner[d] \in Devices /\ save[d] \in Manifest /\ seen[d].remote \in Manifest
  BY DEF BeginOverwrite, Typed, TypeOK, PassHasPeer, View
<1>2. pl \in Decision
  BY <1>1 DEF OverwritePlan, NoDecision, Decision, Files, Differing
<1>3. Enter(d, AfterJudging(pl, seen[d].remote), pl)
  BY DEF BeginOverwrite
<1>4. pc' \in [Devices -> Steps] /\ todo' \in [Devices -> SUBSET (Paths \cup Dirs)]
  BY <1>1, <1>2, <1>3, StageType, EnterType DEF Typed
<1>5. [seen[d] EXCEPT !.local = save[d]] \in View
  BY <1>1 DEF Typed, TypeOK, View
<1>6. seen' \in [Devices -> View] /\ plan' \in [Devices -> Decision]
  BY <1>2, <1>5 DEF BeginOverwrite, Typed, TypeOK
<1>7. PassHasPeer'
  BY <1>1, <1>3 DEF BeginOverwrite, Enter, Typed, TypeOK, PassHasPeer
<1>8. TypeOK'
  BY <1>4, <1>6 DEF BeginOverwrite, Typed, TypeOK
<1> QED BY <1>7, <1>8 DEF Typed

\* Its last step writes the rows as a convergence does.
LEMMA TypedFinishOverwrite ==
    ASSUME Typed, NEW d \in Devices, FinishOverwrite(d)
    PROVE  Typed'
<1>1. /\ partner[d] \in Devices /\ save[d] \in Manifest /\ clock \in 0..MaxClock
      /\ ManifestHash(save[d]) \in Hashes
  BY ManifestHashType DEF FinishOverwrite, Typed, TypeOK, PassHasPeer, Hashes
<1>2. /\ EndPass(d) /\ RecordConvergence(d, partner[d], save[d], clock)
      /\ Send(d, partner[d], ManifestHash(save[d]))
  BY DEF FinishOverwrite, SendInSync
<1>3. reports' \subseteq ReportOf
  BY <1>1, <1>2, SendType DEF Typed
<1>4. archived' \in [Devices -> SUBSET ContentHash]
  BY SnapshotType DEF FinishOverwrite, Typed
<1>5. [lineage |-> TRUE, base |-> TRUE, kept |-> 0] \in Decree
  BY EngineAssumption DEF Decree
<1>6. decreed' \in [Devices -> [Devices -> Decree]]
  BY <1>1, <1>5 DEF FinishOverwrite, Typed, TypeOK
<1>7. captured' \in [Devices -> Hashes] /\ conflict' \in [Devices -> Devices \cup {NoPeer}]
  BY <1>1 DEF FinishOverwrite, Typed, TypeOK
<1>8. PassHasPeer'
  BY <1>2 DEF EndPass, Typed, TypeOK, PassHasPeer
<1>9. TypeOK'
  BY <1>1, <1>2, <1>3, <1>4, <1>6, <1>7, EndPassType, RecordConvergenceType
     DEF FinishOverwrite, Typed, TypeOK
<1> QED BY <1>8, <1>9 DEF Typed

-----------------------------------------------------------------------------
(* What a pass pulls, the peer listed                                      *)

\* A pull of a file that the peer did not list would have no content to commit.
PullsListedFiles ==
    \A d \in Devices :
        /\ pc[d] \notin {"idle", "fetched"} => plan[d].pull \subseteq Files(seen[d].remote)
        /\ pc[d] = "pulling" => todo[d] \subseteq Files(seen[d].remote)

\* A pass that ends, or has not judged yet, pulls nothing.
LEMMA PullsAfterEndPass ==
    ASSUME Typed, PullsListedFiles, NEW d \in Devices, EndPass(d)
    PROVE  PullsListedFiles'
<1> SUFFICES ASSUME NEW d2 \in Devices, pc'[d2] \notin {"idle", "fetched"}
             PROVE  /\ plan'[d2].pull \subseteq Files(seen'[d2].remote)
                    /\ pc'[d2] = "pulling" => todo'[d2] \subseteq Files(seen'[d2].remote)
  BY DEF PullsListedFiles, Files
<1>1. d2 # d
  BY DEF EndPass, Typed, TypeOK
<1>2. pc'[d2] = pc[d2] /\ plan'[d2] = plan[d2] /\ seen'[d2] = seen[d2] /\ todo'[d2] = todo[d2]
  BY <1>1 DEF EndPass, Typed, TypeOK
<1> QED BY <1>2 DEF PullsListedFiles

\* A pass that judged enters a stage with a plan whose pulls the peer listed.
LEMMA PullsAfterEnter ==
    ASSUME Typed, PullsListedFiles, NEW d \in Devices, NEW stage \in Steps, NEW pl \in Decision,
           Enter(d, stage, pl), plan'[d] = pl, pl.pull \subseteq Files(seen'[d].remote),
           \A d2 \in Devices \ {d} : plan'[d2] = plan[d2] /\ seen'[d2] = seen[d2]
    PROVE  PullsListedFiles'
<1> SUFFICES ASSUME NEW d2 \in Devices, pc'[d2] \notin {"idle", "fetched"}
             PROVE  /\ plan'[d2].pull \subseteq Files(seen'[d2].remote)
                    /\ pc'[d2] = "pulling" => todo'[d2] \subseteq Files(seen'[d2].remote)
  BY DEF PullsListedFiles, Files
<1>1. CASE d2 = d
  BY <1>1 DEF Enter, Typed, TypeOK
<1>2. CASE d2 # d
  BY <1>2 DEF Enter, Typed, TypeOK, PullsListedFiles
<1> QED BY <1>1, <1>2

\* At the start no pass pulls anything.
LEMMA PullsInit == Init => PullsListedFiles
    BY DEF Init, PullsListedFiles

\* A pass only ever pulls files that the peer listed.
LEMMA PullsNext ==
    ASSUME Typed, PullsListedFiles, Next
    PROVE  PullsListedFiles'
<1>1. CASE Edit
  BY <1>1 DEF Edit, Write, Remove, MakeDir, RemoveDir, Restore, PullsListedFiles, Files
<1>2. CASE React
  BY <1>2 DEF React, ConfirmInSync, StartRefresh, LoseReport, RecordRefresh, PullsListedFiles, Files
<1>3. ASSUME NEW d \in Devices, Capture(d) \/ KeepLocal(d)
      PROVE  PullsListedFiles'
  BY <1>3 DEF Capture, KeepLocal, PullsListedFiles, Files
<1>4. ASSUME NEW d \in Devices, \/ Crash(d) \/ GiveUp(d) \/ RaiseConflict(d) \/ FindInSync(d)
                                \/ PeerMovedOn(d) \/ FailPull(d) \/ Record(d) \/ FinishOverwrite(d)
      PROVE  PullsListedFiles'
  <2>1. EndPass(d)
    BY <1>4 DEF Crash, GiveUp, RaiseConflict, FindInSync, PeerMovedOn, FailPull, AbortPull,
                Record, FinishOverwrite
  <2> QED BY <2>1, PullsAfterEndPass
<1>5. ASSUME NEW d \in Devices, NEW e \in Devices, StartPass(d, e)
      PROVE  PullsListedFiles'
  BY <1>5 DEF StartPass, Typed, TypeOK, PullsListedFiles, Files
<1>6. ASSUME NEW d \in Devices, KeepRemote(d)
      PROVE  PullsListedFiles'
  BY <1>6 DEF KeepRemote, Typed, TypeOK, PullsListedFiles, Files
<1>7. ASSUME NEW d \in Devices, BeginApply(d)
      PROVE  PullsListedFiles'
  <2>1. partner[d] \in Devices /\ save[d] \in Manifest /\ seen[d] \in View /\ lineage[d][partner[d]] \in Lineage
    BY <1>7 DEF BeginApply, Judging, Typed, TypeOK, PassHasPeer
  <2>2. Verdict(d) \in Decision /\ Verdict(d).pull \subseteq Files(seen[d].remote)
    BY <2>1, ComputeType DEF Verdict, Compute, FilesToPull, RemoteNewer, Differing, View
  <2>3. AfterJudging(Verdict(d), seen[d].remote) \in Steps
    BY <2>1, <2>2, StageType DEF View
  <2>4. /\ Enter(d, AfterJudging(Verdict(d), seen[d].remote), Verdict(d))
        /\ plan' = [plan EXCEPT ![d] = Verdict(d)]
        /\ seen' = [seen EXCEPT ![d].local = save[d]]
    BY <1>7 DEF BeginApply
  <2>5. seen'[d].remote = seen[d].remote /\ plan'[d] = Verdict(d)
    BY <2>1, <2>4 DEF View, Typed, TypeOK
  <2> QED BY <2>2, <2>3, <2>4, <2>5, PullsAfterEnter DEF Typed, TypeOK, Files
<1>8. ASSUME NEW d \in Devices, BeginOverwrite(d)
      PROVE  PullsListedFiles'
  <2> DEFINE pl == OverwritePlan(save[d], seen[d].remote)
  <2>1. save[d] \in Manifest /\ seen[d] \in View
    BY DEF Typed, TypeOK
  <2>2. pl \in Decision /\ pl.pull \subseteq Files(seen[d].remote)
    BY <2>1 DEF OverwritePlan, NoDecision, Decision, Files, Differing
  <2>3. AfterJudging(pl, seen[d].remote) \in Steps
    BY <2>1, <2>2, StageType DEF View
  <2>4. /\ Enter(d, AfterJudging(pl, seen[d].remote), pl)
        /\ plan' = [plan EXCEPT ![d] = pl]
        /\ seen' = [seen EXCEPT ![d].local = save[d]]
    BY <1>8 DEF BeginOverwrite
  <2>5. seen'[d].remote = seen[d].remote /\ plan'[d] = pl
    BY <2>1, <2>4 DEF View, Typed, TypeOK
  <2> HIDE DEF pl
  <2> QED BY <2>2, <2>3, <2>4, <2>5, PullsAfterEnter DEF Typed, TypeOK, Files
<1>9. ASSUME NEW d \in Devices, DeleteLocally(d) \/ FailLocalDeletion(d)
      PROVE  PullsListedFiles'
  <2>1. PICK kept : RemovePlanned(d, kept)
    BY <1>9 DEF DeleteLocally, FailLocalDeletion
  <2>2. plan[d] \in Decision /\ seen[d].remote \in Manifest
    BY DEF Typed, TypeOK, View
  <2>3. Enter(d, AfterDeleting(plan[d], seen[d].remote), plan[d]) /\ UNCHANGED <<seen, plan>>
    BY <2>1 DEF RemovePlanned
  <2>4. plan[d].pull \subseteq Files(seen[d].remote)
    BY <2>1 DEF RemovePlanned, PullsListedFiles
  <2> QED BY <2>2, <2>3, <2>4, StageType, PullsAfterEnter DEF Files
<1>10. ASSUME NEW d \in Devices, NEW x \in Paths \cup Dirs, DeleteOnPeer(d, x) \/ FailDeleteOnPeer(d, x)
       PROVE  PullsListedFiles'
  <2>1. Propagated(d, x) /\ UNCHANGED <<seen, plan>>
    BY <1>10 DEF DeleteOnPeer, FailDeleteOnPeer
  <2>2. CASE todo[d] = {x}
    <3>1. plan[d] \in Decision /\ seen[d].remote \in Manifest
      BY DEF Typed, TypeOK, View
    <3>2. Enter(d, AfterPropagating(plan[d], seen[d].remote), plan[d])
      BY <2>1, <2>2 DEF Propagated
    <3>3. plan[d].pull \subseteq Files(seen[d].remote)
      BY <2>1 DEF Propagated, PullsListedFiles
    <3> QED BY <2>1, <3>1, <3>2, <3>3, StageType, PullsAfterEnter DEF Files
  <2>3. CASE todo[d] # {x}
    BY <2>1, <2>3 DEF Propagated, Typed, TypeOK, PullsListedFiles, Files
  <2> QED BY <2>2, <2>3
<1>11. ASSUME NEW d \in Devices, CreateDirs(d)
       PROVE  PullsListedFiles'
  <2>1. plan[d] \in Decision /\ seen[d].remote \in Manifest
    BY DEF Typed, TypeOK, View
  <2>2. Enter(d, AfterCreating(plan[d]), plan[d]) /\ UNCHANGED <<seen, plan>>
    BY <1>11 DEF CreateDirs
  <2>3. plan[d].pull \subseteq Files(seen[d].remote)
    BY <1>11 DEF CreateDirs, PullsListedFiles
  <2> QED BY <2>1, <2>2, <2>3, StageType, PullsAfterEnter DEF Files
<1>12. ASSUME NEW d \in Devices, NEW p \in Paths, PullFile(d, p)
       PROVE  PullsListedFiles'
  BY <1>12 DEF PullFile, Typed, TypeOK, PullsListedFiles, Files
<1>13. ASSUME NEW d \in Devices, CompletePull(d)
       PROVE  PullsListedFiles'
  BY <1>13 DEF CompletePull, Typed, TypeOK, PullsListedFiles, Files
<1> QED BY <1>1, <1>2, <1>3, <1>4, <1>5, <1>6, <1>7, <1>8, <1>9, <1>10, <1>11, <1>12, <1>13
        DEF Next, Resolve, PassStep, Judge, FailingStep

-----------------------------------------------------------------------------
(* The theorem                                                             *)

\* Every step keeps the types.
LEMMA TypedNext ==
    ASSUME Typed, PullsListedFiles, Next
    PROVE  Typed'
<1>1. CASE Edit
  BY <1>1, TypedEdit
<1>2. CASE React
  BY <1>2, TypedReact
<1>3. ASSUME NEW d \in Devices, \/ Capture(d) \/ Crash(d) \/ Resolve(d)
                                \/ PassStep(d) \/ FailingStep(d)
      PROVE  Typed'
  <2>1. CASE Capture(d) \/ Crash(d)
    BY <2>1, TypedCapture, TypedCrash
  <2>2. CASE Resolve(d)
    BY <2>2, TypedKeepLocal, TypedKeepRemote DEF Resolve
  <2>3. CASE Judge(d) \/ BeginOverwrite(d) \/ Record(d) \/ FinishOverwrite(d)
    BY <2>3, TypedJudge, TypedBeginOverwrite, TypedRecord, TypedFinishOverwrite
  <2>4. CASE DeleteLocally(d) \/ FailLocalDeletion(d)
    BY <2>4, TypedRemovePlanned
  <2>5. ASSUME NEW x \in Paths \cup Dirs, DeleteOnPeer(d, x) \/ FailDeleteOnPeer(d, x)
        PROVE  Typed'
    BY <2>5, TypedDeleteOnPeer, TypedFailDeleteOnPeer
  <2>6. CASE CreateDirs(d) \/ CompletePull(d)
    BY <2>6, TypedCreateDirs, TypedCompletePull
  <2>7. ASSUME NEW p \in Paths, PullFile(d, p)
        PROVE  Typed'
    <3>1. p \in Files(seen[d].remote)
      BY <2>7 DEF PullFile, PullsListedFiles
    <3> QED BY <2>7, <3>1, TypedPullFile
  <2>8. CASE PeerMovedOn(d) \/ FailPull(d)
    BY <2>8, TypedAbortPull
  <2> QED BY <1>3, <2>1, <2>2, <2>3, <2>4, <2>5, <2>6, <2>7, <2>8 DEF PassStep, FailingStep
<1>4. ASSUME NEW d \in Devices, NEW e \in Devices, StartPass(d, e)
      PROVE  Typed'
  BY <1>4, TypedStartPass
<1> QED BY <1>1, <1>2, <1>3, <1>4 DEF Next

\* A step that changes nothing keeps them too.
LEMMA TypedStutter ==
    ASSUME Typed, PullsListedFiles, UNCHANGED vars
    PROVE  Typed' /\ PullsListedFiles'
    BY DEF Typed, TypeOK, PassHasPeer, PullsListedFiles, Files

\* Whatever the users, the network and the passes do, every variable stays in its
\* type, every active pass has a peer, and a pass only pulls what its peer listed.
THEOREM EngineTyped == Spec => [](Typed /\ PullsListedFiles)
<1>1. Init => Typed /\ PullsListedFiles
  BY TypedInit, PullsInit
<1>2. Typed /\ PullsListedFiles /\ [Next]_vars => Typed' /\ PullsListedFiles'
  BY TypedNext, PullsNext, TypedStutter
<1> QED BY <1>1, <1>2, PTL DEF Spec

\* Type correctness of the sync engine.
THEOREM EngineTypeCorrect == Spec => []TypeOK
<1>1. Typed => TypeOK
  BY DEF Typed
<1> QED BY <1>1, EngineTyped, PTL

-----------------------------------------------------------------------------
(* What both have had: the inductive invariant                             *)

\* Every content of a manifest, or of the manifest a hash stands for, is among k.
HeldIn(m, k) == \A p \in Files(m) : m.files[p].hash \in k[p]

HashHeldIn(h, k) == h # NoHash => \A p \in Paths : h.files[p] # NoFile => h.files[p] \in k[p]

Judged(d) == pc[d] \notin {"idle", "fetched"}

\* Whatever copy of a manifest is around, it is one its owner had: in a pass, in
\* a refresh under way, in a report on its way, in the record of a push.
CopiesAreHeld ==
    /\ \A d \in Devices : HeldIn(save[d], known[d])
    /\ \A d \in Devices : pc[d] # "idle" => HeldIn(seen[d].remote, known[partner[d]])
    /\ \A d \in Devices : Judged(d) => HeldIn(seen[d].local, known[d])
    /\ \A r \in refreshes : HeldIn(r.remote, known[r.of])
    /\ \A m \in reports : HashHeldIn(m.hash, known[m.from])
    /\ \A d, e \in Devices : HashHeldIn(pushed[d][e], known[d])

\* What a pass still has to pull.
StillToPull(d) == CASE pc[d] = "pulling"   -> todo[d]
                    [] pc[d] = "finishing" -> {}
                    [] OTHER               -> plan[d].pull

\* A file of the peer that a pass has not had by now is one it is still to pull or,
\* unless the user asked for the peer's version, one it leaves to the peer.
Accounted(d, p) ==
    \/ seen[d].remote.files[p].hash \in known[d][p]
    \/ p \in StillToPull(d)
    \/ ~resolving[d] /\ p \in plan[d].push \cup plan[d].deleteOnPeer

PassAccountsForRemote ==
    \A d \in Devices : Judged(d) => \A p \in Files(seen[d].remote) : Accounted(d, p)

\* LineageHeldByBoth and MergeBaseHeldByBoth, for the row one device keeps of one
\* other.
LineageRowHeld(d, e) ==
    \A p \in lineage[d][e].files :
        d # e /\ ~decreed[d][e].lineage => known[d][p] # {} /\ known[e][p] # {}

BaseRowHeld(d, e) ==
    d # e /\ ~decreed[d][e].base
        => HashHeldIn(agreed[d][e], known[d]) /\ HashHeldIn(agreed[d][e], known[e])

RowHeld(d, e) == LineageRowHeld(d, e) /\ BaseRowHeld(d, e)

Remembered == CopiesAreHeld /\ PassAccountsForRemote /\ \A d, e \in Devices : RowHeld(d, e)

-----------------------------------------------------------------------------
(* Nothing a device has had is forgotten                                   *)

Grows == \A d \in Devices : \A p \in Paths : known[d][p] \subseteq known'[d][p]

\* No step takes a content away from what a device has had.
LEMMA NextGrows == ASSUME Typed, [Next]_vars PROVE Grows
<1>1. ASSUME NEW d \in Devices, NEW p \in Paths, Write(d, p)
      PROVE  Grows
  BY <1>1 DEF Write, Typed, TypeOK, Grows
<1>2. ASSUME NEW d \in Devices, NEW s \in archived[d], Restore(d, s)
      PROVE  Grows
  BY <1>2 DEF Restore, Typed, TypeOK, Grows
<1>3. ASSUME NEW d \in Devices, NEW p \in Paths, PullFile(d, p)
      PROVE  Grows
  BY <1>3 DEF PullFile, Typed, TypeOK, Grows
<1>4. ASSUME UNCHANGED known
      PROVE  Grows
  BY <1>4 DEF Grows
<1>5. CASE Edit
  <2>1. ASSUME NEW d \in Devices, NEW p \in Paths, Remove(d, p)
        PROVE  UNCHANGED known
    BY <2>1 DEF Remove
  <2>2. ASSUME NEW d \in Devices, NEW x \in Dirs, MakeDir(d, x) \/ RemoveDir(d, x)
        PROVE  UNCHANGED known
    BY <2>2 DEF MakeDir, RemoveDir
  <2> QED BY <1>1, <1>2, <1>4, <1>5, <2>1, <2>2 DEF Edit
<1>6. CASE React
  BY <1>4, <1>6 DEF React, ConfirmInSync, StartRefresh, LoseReport, RecordRefresh
<1>7. ASSUME NEW d \in Devices, Capture(d) \/ Crash(d) \/ Resolve(d) \/ FailingStep(d)
      PROVE  UNCHANGED known
  BY <1>7 DEF Capture, Crash, Resolve, KeepLocal, KeepRemote, FailingStep, FailLocalDeletion, RemovePlanned,
              FailPull, AbortPull, FailDeleteOnPeer
<1>8. ASSUME NEW d \in Devices, PassStep(d)
      PROVE  Grows
  <2>1. \/ UNCHANGED known
        \/ \E p \in Paths : PullFile(d, p)
    BY <1>8 DEF PassStep, Judge, GiveUp, RaiseConflict, FindInSync, BeginApply, BeginOverwrite, DeleteLocally,
                RemovePlanned, DeleteOnPeer, CreateDirs, PeerMovedOn, AbortPull, CompletePull, Record, FinishOverwrite
  <2> QED BY <1>3, <1>4, <2>1
<1>9. ASSUME NEW d \in Devices, NEW e \in Devices, StartPass(d, e)
      PROVE  UNCHANGED known
  BY <1>9 DEF StartPass
<1>10. CASE UNCHANGED vars
  BY <1>4, <1>10
<1> QED BY <1>4, <1>5, <1>6, <1>7, <1>8, <1>9, <1>10 DEF Next

\* What was held stays held.
LEMMA HeldForGood ==
    ASSUME Grows, NEW d \in Devices
    PROVE  /\ \A m \in Manifest : HeldIn(m, known[d]) => HeldIn(m, known'[d])
           /\ \A h : HashHeldIn(h, known[d]) => HashHeldIn(h, known'[d])
<1>1. \A m \in Manifest : Files(m) \subseteq Paths
  BY DEF Files
<1>2. \A p \in Paths : known[d][p] \subseteq known'[d][p]
  BY DEF Grows
<1> QED BY <1>1, <1>2 DEF HeldIn, HashHeldIn

\* A manifest is held where its hash is.
LEMMA HeldHash ==
    ASSUME NEW m \in Manifest, NEW k, HeldIn(m, k)
    PROVE  HashHeldIn(ManifestHash(m), k)
<1>1. \A p \in Paths : ManifestHash(m).files[p] = HashAt(m, p)
  BY DEF ManifestHash
<1> QED BY <1>1, HashAtPath DEF HeldIn, HashHeldIn

-----------------------------------------------------------------------------
(* The copies                                                              *)

\* A save folder keeps what it held, loses it, or gets something recorded as known.
LEMMA SaveStep ==
    ASSUME Typed, PullsListedFiles, [Next]_vars, NEW d \in Devices, NEW p \in Files(save'[d])
    PROVE  \/ p \in Files(save[d]) /\ save'[d].files[p].hash = save[d].files[p].hash
           \/ save'[d].files[p].hash \in known'[d][p]
<1>1. p \in Paths
  BY DEF Files
<1>2. UNCHANGED save => p \in Files(save[d]) /\ save'[d].files[p].hash = save[d].files[p].hash
  BY DEF Files
<1>3. ASSUME NEW c \in Devices, NEW q \in Paths, Write(c, q)
      PROVE  \/ p \in Files(save[d]) /\ save'[d].files[p].hash = save[d].files[p].hash
             \/ save'[d].files[p].hash \in known'[d][p]
  <2>1. CASE c = d /\ q = p
    <3>1. save'[d].files[p] = [hash |-> clock + 1, mtime |-> clock + 1]
      BY <1>1, <1>3, <2>1 DEF Write, Typed, TypeOK, Manifest
    <3>2. known'[d][p] = known[d][p] \cup {clock + 1}
      BY <1>1, <1>3, <2>1 DEF Write, Typed, TypeOK
    <3> QED BY <3>1, <3>2
  <2>2. CASE ~(c = d /\ q = p)
    <3>1. save'[d].files[p] = save[d].files[p]
      BY <1>1, <1>3, <2>2 DEF Write, Typed, TypeOK, Manifest
    <3> QED BY <3>1 DEF Files
  <2> QED BY <2>1, <2>2
<1>4. ASSUME NEW c \in Devices, NEW q \in Paths, Remove(c, q)
      PROVE  p \in Files(save[d]) /\ save'[d].files[p].hash = save[d].files[p].hash
  <2>1. save'[d].files[p] \in {NoFile, save[d].files[p]}
    BY <1>1, <1>4 DEF Remove, Typed, TypeOK, Manifest
  <2> QED BY <2>1 DEF Files
<1>5. ASSUME NEW c \in Devices, NEW x \in Dirs, MakeDir(c, x) \/ RemoveDir(c, x)
      PROVE  p \in Files(save[d]) /\ save'[d].files[p].hash = save[d].files[p].hash
  <2>1. save'[d].files = save[d].files
    <3>1. ASSUME MakeDir(c, x)
          PROVE  save'[d].files = save[d].files
      BY <3>1 DEF MakeDir, Typed, TypeOK, Manifest
    <3>2. ASSUME RemoveDir(c, x)
          PROVE  save'[d].files = save[d].files
      BY <3>2 DEF RemoveDir, Typed, TypeOK, Manifest
    <3> QED BY <1>5, <3>1, <3>2
  <2> QED BY <2>1 DEF Files
<1>6. ASSUME NEW c \in Devices, NEW s \in archived[c], Restore(c, s)
      PROVE  \/ p \in Files(save[d]) /\ save'[d].files[p].hash = save[d].files[p].hash
             \/ save'[d].files[p].hash \in known'[d][p]
  <2>1. CASE c = d
    <3>1. s \in ContentHash
      BY DEF Typed, TypeOK
    <3>2. save'[d].files[p] = IF s.files[p] = NoFile THEN NoFile
                              ELSE [hash |-> s.files[p], mtime |-> clock + 1]
      BY <1>1, <1>6, <2>1 DEF Restore, Typed, TypeOK
    <3>3. s.files[p] # NoFile /\ save'[d].files[p].hash = s.files[p]
      BY <3>2 DEF Files
    <3>4. known'[d][p] = known[d][p] \cup ({s.files[p]} \ {NoFile})
      BY <1>1, <1>6, <2>1 DEF Restore, Typed, TypeOK
    <3> QED BY <3>3, <3>4
  <2>2. CASE c # d
    <3>1. save'[d] = save[d]
      BY <1>6, <2>2 DEF Restore, Typed, TypeOK
    <3> QED BY <3>1 DEF Files
  <2> QED BY <2>1, <2>2
<1>7. ASSUME NEW c \in Devices, DeleteLocally(c) \/ FailLocalDeletion(c)
      PROVE  p \in Files(save[d]) /\ save'[d].files[p].hash = save[d].files[p].hash
  <2>1. PICK kept : RemovePlanned(c, kept)
    BY <1>7 DEF DeleteLocally, FailLocalDeletion
  <2>2. save'[d].files[p] \in {NoFile, save[d].files[p]}
    BY <1>1, <2>1 DEF RemovePlanned, Typed, TypeOK, Manifest
  <2> QED BY <2>2 DEF Files
<1>8. ASSUME NEW c \in Devices, NEW x \in Paths \cup Dirs, DeleteOnPeer(c, x)
      PROVE  p \in Files(save[d]) /\ save'[d].files[p].hash = save[d].files[p].hash
  <2>1. save'[d].files[p] \in {NoFile, save[d].files[p]}
    BY <1>1, <1>8 DEF DeleteOnPeer, Typed, TypeOK, Manifest
  <2> QED BY <2>1 DEF Files
<1>9. ASSUME NEW c \in Devices, CreateDirs(c)
      PROVE  p \in Files(save[d]) /\ save'[d].files[p].hash = save[d].files[p].hash
  <2>1. save'[d].files = save[d].files
    BY <1>9 DEF CreateDirs, Typed, TypeOK, Manifest
  <2> QED BY <2>1 DEF Files
<1>10. ASSUME NEW c \in Devices, NEW q \in Paths, PullFile(c, q)
       PROVE  \/ p \in Files(save[d]) /\ save'[d].files[p].hash = save[d].files[p].hash
              \/ save'[d].files[p].hash \in known'[d][p]
  <2>1. CASE c = d /\ q = p
    <3>1. save'[d].files[p] = seen[d].remote.files[p]
      BY <1>1, <1>10, <2>1 DEF PullFile, Typed, TypeOK, Manifest
    <3>2. known'[d][p] = known[d][p] \cup {seen[d].remote.files[p].hash}
      BY <1>1, <1>10, <2>1 DEF PullFile, Typed, TypeOK
    <3> QED BY <3>1, <3>2
  <2>2. CASE ~(c = d /\ q = p)
    <3>1. save'[d].files[p] = save[d].files[p]
      BY <1>1, <1>10, <2>2 DEF PullFile, Typed, TypeOK, Manifest
    <3> QED BY <3>1 DEF Files
  <2> QED BY <2>1, <2>2
<1>11. ASSUME NEW c \in Devices, KeepLocal(c)
       PROVE  p \in Files(save[d]) /\ save'[d].files[p].hash = save[d].files[p].hash
  <2>1. CASE c = d
    <3>1. save'[d] = Touched(save[d], clock + 1) /\ save[d] \in Manifest
      BY <1>11, <2>1 DEF KeepLocal, Typed, TypeOK
    <3>2. save'[d].files[p] = IF save[d].files[p] = NoFile THEN NoFile
                              ELSE [hash |-> save[d].files[p].hash, mtime |-> clock + 1]
      BY <1>1, <3>1 DEF Touched, Manifest
    <3> QED BY <1>1, <3>2 DEF Files
  <2>2. CASE c # d
    <3>1. save'[d] = save[d]
      BY <1>11, <2>2 DEF KeepLocal, Typed, TypeOK
    <3> QED BY <3>1 DEF Files
  <2> QED BY <2>1, <2>2
<1>12. ASSUME NEW c \in Devices, \/ Capture(c) \/ Crash(c) \/ KeepRemote(c) \/ FailPull(c)
                                 \/ Judge(c) \/ BeginOverwrite(c) \/ PeerMovedOn(c) \/ CompletePull(c)
                                 \/ Record(c) \/ FinishOverwrite(c)
       PROVE  UNCHANGED save
  BY <1>12 DEF Capture, Crash, KeepRemote, FailPull, AbortPull, Judge, GiveUp, RaiseConflict, FindInSync,
               BeginApply, BeginOverwrite, PeerMovedOn, CompletePull, Record, FinishOverwrite
<1>13. ASSUME NEW c \in Devices, NEW x \in Paths \cup Dirs, FailDeleteOnPeer(c, x)
       PROVE  UNCHANGED save
  BY <1>13 DEF FailDeleteOnPeer
<1>14. ASSUME NEW c \in Devices, NEW e \in Devices, StartPass(c, e)
       PROVE  UNCHANGED save
  BY <1>14 DEF StartPass
<1>15. CASE React
  BY <1>2, <1>15 DEF React, ConfirmInSync, StartRefresh, LoseReport, RecordRefresh
<1>16. CASE Edit
  BY <1>3, <1>4, <1>5, <1>6, <1>16 DEF Edit
<1>17. CASE UNCHANGED vars
  BY <1>2, <1>17
<1> QED BY <1>2, <1>7, <1>8, <1>9, <1>10, <1>11, <1>12, <1>13, <1>14, <1>15, <1>16, <1>17
        DEF Next, Resolve, PassStep, FailingStep

\* What a device has in its save folder, it has had.
LEMMA SavesStayHeld ==
    ASSUME Typed, PullsListedFiles, CopiesAreHeld, [Next]_vars
    PROVE  \A d \in Devices : HeldIn(save'[d], known'[d])
<1> SUFFICES ASSUME NEW d \in Devices, NEW p \in Files(save'[d])
             PROVE  save'[d].files[p].hash \in known'[d][p]
  BY DEF HeldIn, Files
<1>1. CASE save'[d].files[p].hash \in known'[d][p]
  BY <1>1
<1>2. CASE p \in Files(save[d]) /\ save'[d].files[p].hash = save[d].files[p].hash
  <2>1. save[d].files[p].hash \in known[d][p] /\ p \in Paths
    BY <1>2 DEF CopiesAreHeld, HeldIn, Files
  <2> QED BY <1>2, <2>1, NextGrows DEF Grows
<1> QED BY <1>1, <1>2, SaveStep

\* How a step may change where a pass stands and what it saw: the pass is over, it
\* has just fetched its peer's save, it has just looked at its own, or it goes on
\* with what it has.
PassOver(d)    == pc'[d] = "idle" /\ ~resolving'[d]
PassFetched(d) == /\ pc'[d] = "fetched" /\ partner'[d] \in Devices
                  /\ seen'[d].remote = save[partner'[d]]
                  /\ StartPass(d, partner'[d]) \/ KeepRemote(d)
PassJudged(d)  == /\ pc[d] = "fetched" /\ pc'[d] # "idle"
                  /\ partner'[d] = partner[d] /\ resolving'[d] = resolving[d]
                  /\ seen'[d].remote = seen[d].remote /\ seen'[d].local = save[d]
PassGoesOn(d)  == /\ partner'[d] = partner[d] /\ resolving'[d] = resolving[d] /\ seen'[d] = seen[d]
                  /\ pc[d] = "idle" <=> pc'[d] = "idle"
                  /\ pc[d] = "fetched" <=> pc'[d] = "fetched"

\* Every step is one of these four for every device.
LEMMA PassMoves ==
    ASSUME Typed, [Next]_vars, NEW d \in Devices
    PROVE  PassOver(d) \/ PassFetched(d) \/ PassJudged(d) \/ PassGoesOn(d)
<1>1. UNCHANGED pass => PassGoesOn(d)
  BY DEF PassGoesOn
<1>2. ASSUME NEW c \in Devices, EndPass(c)
      PROVE  PassOver(d) \/ PassGoesOn(d)
  BY <1>2 DEF EndPass, PassOver, PassGoesOn, Typed, TypeOK
<1>3. ASSUME NEW c \in Devices, NEW e \in Devices, StartPass(c, e)
      PROVE  PassFetched(d) \/ PassGoesOn(d)
  <2>1. CASE c = d
    <3>1. partner'[d] = e /\ pc'[d] = "fetched" /\ seen'[d].remote = save[e]
      BY <1>3, <2>1 DEF StartPass, Typed, TypeOK
    <3> QED BY <1>3, <2>1, <3>1 DEF PassFetched
  <2>2. CASE c # d
    BY <1>3, <2>2 DEF StartPass, PassGoesOn, Typed, TypeOK
  <2> QED BY <2>1, <2>2
<1>4. ASSUME NEW c \in Devices, KeepRemote(c)
      PROVE  PassFetched(d) \/ PassGoesOn(d)
  <2>1. conflict[c] \in Devices /\ seen[c] \in View
    BY <1>4 DEF KeepRemote, Typed, TypeOK
  <2>2. CASE c = d
    <3>1. partner'[d] = conflict[d] /\ pc'[d] = "fetched" /\ seen'[d].remote = save[conflict[d]]
      BY <1>4, <2>1, <2>2 DEF KeepRemote, Typed, TypeOK, View
    <3> QED BY <1>4, <2>1, <2>2, <3>1 DEF PassFetched
  <2>3. CASE c # d
    BY <1>4, <2>3 DEF KeepRemote, PassGoesOn, Typed, TypeOK
  <2> QED BY <2>2, <2>3
<1>5. ASSUME NEW c \in Devices, BeginApply(c) \/ BeginOverwrite(c)
      PROVE  PassJudged(d) \/ PassGoesOn(d)
  <2>1. /\ pc[c] = "fetched" /\ UNCHANGED <<partner, resolving>>
        /\ seen' = [seen EXCEPT ![c].local = save[c]]
    BY <1>5 DEF BeginApply, BeginOverwrite, Judging
  <2>2. CASE c = d
    <3>1. /\ AfterJudging(Verdict(d), seen[d].remote) # "idle"
          /\ AfterJudging(OverwritePlan(save[d], seen[d].remote), seen[d].remote) # "idle"
      BY DEF AfterJudging, AfterDeleting, AfterPropagating, AfterCreating
    <3>2. pc'[d] # "idle"
      BY <1>5, <2>2, <3>1 DEF BeginApply, BeginOverwrite, Enter, Typed, TypeOK
    <3> QED BY <2>1, <2>2, <3>2 DEF PassJudged, Typed, TypeOK, View
  <2>3. CASE c # d
    <3>1. pc'[d] = pc[d]
      BY <1>5, <2>3 DEF BeginApply, BeginOverwrite, Enter, Typed, TypeOK
    <3> QED BY <2>1, <2>3, <3>1 DEF PassGoesOn, Typed, TypeOK
  <2> QED BY <2>2, <2>3
<1>6. ASSUME NEW c \in Devices, NEW stage, NEW pl, Enter(c, stage, pl),
             UNCHANGED <<partner, resolving, seen>>, pc[c] \notin {"idle", "fetched"}, stage \notin {"idle", "fetched"}
      PROVE  PassGoesOn(d)
  BY <1>6 DEF Enter, PassGoesOn, Typed, TypeOK
<1>7. \A pl, r : /\ AfterCreating(pl) \notin {"idle", "fetched"}
                 /\ AfterPropagating(pl, r) \notin {"idle", "fetched"}
                 /\ AfterDeleting(pl, r) \notin {"idle", "fetched"}
  BY DEF AfterCreating, AfterPropagating, AfterDeleting
<1>8. ASSUME NEW c \in Devices, DeleteLocally(c) \/ FailLocalDeletion(c)
      PROVE  PassGoesOn(d)
  <2>1. /\ pc[c] = "deleting" /\ UNCHANGED <<partner, resolving, seen>>
        /\ Enter(c, AfterDeleting(plan[c], seen[c].remote), plan[c])
    BY <1>8 DEF DeleteLocally, FailLocalDeletion, RemovePlanned
  <2> QED BY <1>6, <1>7, <2>1
<1>9. ASSUME NEW c \in Devices, NEW x \in Paths \cup Dirs, DeleteOnPeer(c, x) \/ FailDeleteOnPeer(c, x)
      PROVE  PassGoesOn(d)
  <2>1. Propagated(c, x) /\ pc[c] = "propagating" /\ UNCHANGED <<partner, resolving, seen>>
    BY <1>9 DEF DeleteOnPeer, FailDeleteOnPeer, Propagated
  <2>2. CASE todo[c] = {x}
    BY <1>6, <1>7, <2>1, <2>2 DEF Propagated
  <2>3. CASE todo[c] # {x}
    BY <2>1, <2>3 DEF Propagated, PassGoesOn
  <2> QED BY <2>2, <2>3
<1>10. ASSUME NEW c \in Devices, CreateDirs(c)
       PROVE  PassGoesOn(d)
  <2>1. /\ pc[c] = "creating" /\ UNCHANGED <<partner, resolving, seen>>
        /\ Enter(c, AfterCreating(plan[c]), plan[c])
    BY <1>10 DEF CreateDirs
  <2> QED BY <1>6, <1>7, <2>1
<1>11. ASSUME NEW c \in Devices, NEW p \in Paths, PullFile(c, p)
       PROVE  PassGoesOn(d)
  BY <1>11 DEF PullFile, PassGoesOn
<1>12. ASSUME NEW c \in Devices, CompletePull(c)
       PROVE  PassGoesOn(d)
  BY <1>12 DEF CompletePull, PassGoesOn, Typed, TypeOK
<1>13. CASE Edit
  BY <1>1, <1>13 DEF Edit, Write, Remove, MakeDir, RemoveDir, Restore
<1>14. CASE React
  BY <1>1, <1>14 DEF React, ConfirmInSync, StartRefresh, LoseReport, RecordRefresh
<1>15. ASSUME NEW c \in Devices, Capture(c) \/ KeepLocal(c)
       PROVE  UNCHANGED pass
  BY <1>15 DEF Capture, KeepLocal
<1>16. ASSUME NEW c \in Devices, \/ Crash(c) \/ GiveUp(c) \/ RaiseConflict(c) \/ FindInSync(c)
                                 \/ PeerMovedOn(c) \/ FailPull(c) \/ Record(c) \/ FinishOverwrite(c)
       PROVE  EndPass(c)
  BY <1>16 DEF Crash, GiveUp, RaiseConflict, FindInSync, PeerMovedOn, FailPull, AbortPull,
               Record, FinishOverwrite
<1>17. CASE UNCHANGED vars
  BY <1>1, <1>17
<1> QED BY <1>1, <1>2, <1>3, <1>4, <1>5, <1>8, <1>9, <1>10, <1>11, <1>12, <1>13, <1>14, <1>15, <1>16, <1>17
        DEF Next, Resolve, PassStep, Judge, FailingStep

\* What a pass saw was held when it looked.
LEMMA SeenStaysHeld ==
    ASSUME Typed, CopiesAreHeld, [Next]_vars, NEW d \in Devices
    PROVE  /\ pc'[d] # "idle" => HeldIn(seen'[d].remote, known'[partner'[d]])
           /\ Judged(d)' => HeldIn(seen'[d].local, known'[d])
<1>1. Grows
  BY NextGrows
<1>2. \A e \in Devices : HeldIn(save[e], known'[e])
  BY <1>1, HeldForGood DEF CopiesAreHeld, Typed, TypeOK
<1>3. pc[d] # "idle" => HeldIn(seen[d].remote, known'[partner[d]])
  <2>1. pc[d] # "idle" => partner[d] \in Devices /\ seen[d].remote \in Manifest
    BY DEF Typed, TypeOK, PassHasPeer, View
  <2> QED BY <1>1, <2>1, HeldForGood DEF CopiesAreHeld
<1>4. Judged(d) => HeldIn(seen[d].local, known'[d])
  <2>1. seen[d].local \in Manifest
    BY DEF Typed, TypeOK, View
  <2> QED BY <1>1, <2>1, HeldForGood DEF CopiesAreHeld
<1>5. CASE PassOver(d)
  BY <1>5 DEF PassOver, Judged
<1>6. CASE PassFetched(d)
  BY <1>2, <1>6 DEF PassFetched, Judged
<1>7. CASE PassJudged(d)
  BY <1>2, <1>3, <1>7 DEF PassJudged
<1>8. CASE PassGoesOn(d)
  BY <1>3, <1>4, <1>8 DEF PassGoesOn, Judged
<1> QED BY <1>5, <1>6, <1>7, <1>8, PassMoves

\* So was what a refresh fetched ...
LEMMA RefreshesStayHeld ==
    ASSUME Typed, CopiesAreHeld, [Next]_vars
    PROVE  \A r \in refreshes' : HeldIn(r.remote, known'[r.of])
<1> SUFFICES ASSUME NEW r \in refreshes'
             PROVE  HeldIn(r.remote, known'[r.of])
  OBVIOUS
<1>1. ASSUME r \in refreshes
      PROVE  HeldIn(r.remote, known'[r.of])
  <2>1. r.of \in Devices /\ r.remote \in Manifest
    BY <1>1 DEF Typed, TypeOK, RefreshOf
  <2> QED BY <1>1, <2>1, NextGrows, HeldForGood DEF CopiesAreHeld
<1>2. ASSUME NEW m \in reports, StartRefresh(m), r \notin refreshes
      PROVE  HeldIn(r.remote, known'[r.of])
  <2>1. r.of = m.from /\ r.remote = save[m.from] /\ m.from \in Devices
    BY <1>2 DEF StartRefresh, Typed, TypeOK, ReportOf
  <2> QED BY <2>1, NextGrows, HeldForGood DEF CopiesAreHeld, Typed, TypeOK
<1>3. refreshes' \subseteq refreshes \/ \E m \in reports : StartRefresh(m)
  <2>1. CASE Edit
    BY <2>1 DEF Edit, Write, Remove, MakeDir, RemoveDir, Restore
  <2>2. CASE React
    BY <2>2 DEF React, ConfirmInSync, LoseReport, RecordRefresh
  <2>3. ASSUME NEW c \in Devices, Capture(c) \/ Crash(c) \/ Resolve(c) \/ FailingStep(c)
        PROVE  refreshes' \subseteq refreshes
    BY <2>3 DEF Capture, Crash, Resolve, KeepLocal, KeepRemote, FailingStep, FailLocalDeletion, RemovePlanned,
                FailPull, AbortPull, FailDeleteOnPeer
  <2>4. ASSUME NEW c \in Devices, PassStep(c)
        PROVE  refreshes' \subseteq refreshes
    BY <2>4 DEF PassStep, Judge, GiveUp, RaiseConflict, FindInSync, BeginApply, BeginOverwrite, DeleteLocally,
                RemovePlanned, DeleteOnPeer, CreateDirs, PullFile, PeerMovedOn, AbortPull, CompletePull, Record,
                FinishOverwrite
  <2>5. ASSUME NEW c \in Devices, NEW e \in Devices, StartPass(c, e)
        PROVE  refreshes' \subseteq refreshes
    BY <2>5 DEF StartPass
  <2> QED BY <2>1, <2>2, <2>3, <2>4, <2>5 DEF Next
<1> QED BY <1>1, <1>2, <1>3

\* ... and what a report vouches for ...
LEMMA ReportsStayHeld ==
    ASSUME Typed, CopiesAreHeld, [Next]_vars
    PROVE  \A m \in reports' : HashHeldIn(m.hash, known'[m.from])
<1> SUFFICES ASSUME NEW m \in reports'
             PROVE  HashHeldIn(m.hash, known'[m.from])
  OBVIOUS
<1>1. ASSUME m \in reports
      PROVE  HashHeldIn(m.hash, known'[m.from])
  <2>1. m.from \in Devices
    BY <1>1 DEF Typed, TypeOK, ReportOf
  <2> QED BY <1>1, <2>1, NextGrows, HeldForGood DEF CopiesAreHeld
<1>2. ASSUME NEW d \in Devices, NEW e, NEW hash, Send(d, e, hash), hash \in {NoHash, ManifestHash(save[d])},
             m \notin reports
      PROVE  HashHeldIn(m.hash, known'[m.from])
  <2>1. m.from = d /\ m.hash = hash
    BY <1>2 DEF Send
  <2>2. HashHeldIn(ManifestHash(save[d]), known[d])
    BY HeldHash DEF CopiesAreHeld, Typed, TypeOK
  <2>3. HashHeldIn(hash, known[d])
    BY <1>2, <2>2 DEF HashHeldIn
  <2> QED BY <2>1, <2>3, NextGrows, HeldForGood
<1>3. ASSUME NEW d \in Devices, PassStep(d)
      PROVE  \/ reports' \subseteq reports
             \/ \E e, hash : Send(d, e, hash) /\ hash \in {NoHash, ManifestHash(save[d])}
  BY <1>3 DEF PassStep, Judge, GiveUp, RaiseConflict, FindInSync, SendInSync, BeginApply, BeginOverwrite,
              DeleteLocally, RemovePlanned, DeleteOnPeer, CreateDirs, PullFile, PeerMovedOn, AbortPull,
              CompletePull, Record, FinishOverwrite
<1>4. ASSUME NEW d \in Devices, Capture(d) \/ Crash(d) \/ Resolve(d) \/ FailingStep(d)
      PROVE  reports' \subseteq reports
  BY <1>4 DEF Capture, Crash, Resolve, KeepLocal, KeepRemote, FailingStep, FailLocalDeletion, RemovePlanned,
              FailPull, AbortPull, FailDeleteOnPeer
<1>5. CASE Edit
  BY <1>1, <1>5 DEF Edit, Write, Remove, MakeDir, RemoveDir, Restore
<1>6. CASE React
  BY <1>1, <1>6 DEF React, ConfirmInSync, StartRefresh, LoseReport, RecordRefresh
<1>7. ASSUME NEW d \in Devices, NEW e \in Devices, StartPass(d, e)
      PROVE  reports' = reports
  BY <1>7 DEF StartPass
<1> QED BY <1>1, <1>2, <1>3, <1>4, <1>5, <1>6, <1>7 DEF Next

\* ... and the record of a push.
LEMMA PushedStaysHeld ==
    ASSUME Typed, CopiesAreHeld, [Next]_vars, NEW d \in Devices, NEW e \in Devices
    PROVE  HashHeldIn(pushed'[d][e], known'[d])
<1>1. pushed'[d][e] \in {NoHash, pushed[d][e], ManifestHash(save[d])}
  <2>1. ASSUME NEW c \in Devices, StoreHealing(c)
        PROVE  pushed'[d][e] \in {NoHash, pushed[d][e]}
    <3>1. HealedRow(c).pushed \in {NoHash, pushed[c][partner[c]]}
      BY DEF HealedRow, Healed
    <3> QED BY <2>1, <3>1 DEF StoreHealing, Typed, TypeOK
  <2>2. ASSUME NEW c \in Devices, NEW f, NEW m, NEW now, RecordConvergence(c, f, m, now)
        PROVE  pushed'[d][e] \in {NoHash, pushed[d][e]}
    BY <2>2 DEF RecordConvergence, Typed, TypeOK
  <2>3. ASSUME NEW c \in Devices, Record(c)
        PROVE  pushed'[d][e] \in {NoHash, pushed[d][e], ManifestHash(save[d])}
    <3>1. \/ pushed' = [pushed EXCEPT ![c][partner[c]] = ManifestHash(save[c])]
          \/ pushed' = [pushed EXCEPT ![c][partner[c]] = NoHash]
      BY <2>3 DEF Record
    <3>2. pushed \in [Devices -> [Devices -> Hashes]]
      BY DEF Typed, TypeOK
    <3>3. CASE c = d
      BY <3>1, <3>2, <3>3
    <3>4. CASE c # d
      BY <3>1, <3>2, <3>4
    <3> QED BY <3>3, <3>4
  <2>4. ASSUME NEW r \in refreshes, RecordRefresh(r)
        PROVE  pushed'[d][e] \in {NoHash, pushed[d][e]}
    BY <2>4 DEF RecordRefresh, Typed, TypeOK
  <2>5. ASSUME NEW c \in Devices, PassStep(c)
        PROVE  \/ UNCHANGED pushed \/ StoreHealing(c) \/ Record(c)
               \/ \E f, m, now : RecordConvergence(c, f, m, now)
    BY <2>5 DEF PassStep, Judge, GiveUp, RaiseConflict, FindInSync, BeginApply, BeginOverwrite,
                DeleteLocally, RemovePlanned, DeleteOnPeer, CreateDirs, PullFile, PeerMovedOn, AbortPull,
                CompletePull, FinishOverwrite
  <2>6. ASSUME NEW c \in Devices, Resolve(c)
        PROVE  \/ UNCHANGED pushed
               \/ \E f, m, now : RecordConvergence(c, f, m, now)
    BY <2>6 DEF Resolve, KeepLocal, KeepRemote
  <2>7. ASSUME NEW c \in Devices, Capture(c) \/ Crash(c) \/ FailingStep(c)
        PROVE  UNCHANGED pushed
    BY <2>7 DEF Capture, Crash, FailingStep, FailLocalDeletion, RemovePlanned, FailPull, AbortPull,
                FailDeleteOnPeer
  <2>8. CASE Edit
    BY <2>8 DEF Edit, Write, Remove, MakeDir, RemoveDir, Restore
  <2>9. ASSUME NEW m \in reports, ConfirmInSync(m) \/ StartRefresh(m) \/ LoseReport(m)
        PROVE  pushed'[d][e] \in {NoHash, pushed[d][e]}
    <3>1. m.to \in Devices
      BY <2>9 DEF Typed, TypeOK, ReportOf
    <3>2. CASE ConfirmInSync(m)
      BY <2>2, <3>1, <3>2 DEF ConfirmInSync
    <3>3. CASE StartRefresh(m) \/ LoseReport(m)
      BY <3>3 DEF StartRefresh, LoseReport
    <3> QED BY <2>9, <3>2, <3>3
  <2>10. ASSUME NEW c \in Devices, NEW f \in Devices, StartPass(c, f)
         PROVE  UNCHANGED pushed
    BY <2>10 DEF StartPass
  <2>11. CASE UNCHANGED vars
    BY <2>11
  <2> QED BY <2>1, <2>2, <2>3, <2>4, <2>5, <2>6, <2>7, <2>8, <2>9, <2>10, <2>11 DEF Next, React
<1>2. HashHeldIn(ManifestHash(save[d]), known[d]) /\ HashHeldIn(pushed[d][e], known[d])
  BY HeldHash DEF CopiesAreHeld, Typed, TypeOK
<1>3. HashHeldIn(pushed'[d][e], known[d])
  BY <1>1, <1>2 DEF HashHeldIn
<1> QED BY <1>3, NextGrows, HeldForGood

\* Together: every copy of a manifest stays held.
LEMMA CopiesStayHeld ==
    ASSUME Typed, PullsListedFiles, CopiesAreHeld, [Next]_vars
    PROVE  CopiesAreHeld'
<1>1. \A d \in Devices : HeldIn(save'[d], known'[d])
  BY SavesStayHeld
<1>2. \A d \in Devices : pc'[d] # "idle" => HeldIn(seen'[d].remote, known'[partner'[d]])
  BY SeenStaysHeld
<1>3. \A d \in Devices : Judged(d)' => HeldIn(seen'[d].local, known'[d])
  BY SeenStaysHeld
<1>4. \A r \in refreshes' : HeldIn(r.remote, known'[r.of])
  BY RefreshesStayHeld
<1>5. \A m \in reports' : HashHeldIn(m.hash, known'[m.from])
  BY ReportsStayHeld
<1>6. \A d, e \in Devices : HashHeldIn(pushed'[d][e], known'[d])
  BY PushedStaysHeld
<1> QED BY <1>1, <1>2, <1>3, <1>4, <1>5, <1>6 DEF CopiesAreHeld

-----------------------------------------------------------------------------
(* What a pass accounts for                                                *)

\* The stages that follow a judgement leave all the plan's files to pull.
LEMMA StagesPullThePlan ==
    ASSUME Typed, NEW d \in Devices, NEW pl \in Decision, NEW r, NEW stage, Enter(d, stage, pl),
           plan'[d] = pl,
           stage \in {AfterJudging(pl, r), AfterDeleting(pl, r), AfterPropagating(pl, r), AfterCreating(pl)}
    PROVE  StillToPull(d)' = pl.pull
<1>1. pc'[d] = stage /\ (stage = "pulling" => todo'[d] = pl.pull)
  BY DEF Enter, Typed, TypeOK
<1>2. stage = "finishing" => pl.pull = {}
  BY DEF AfterJudging, AfterDeleting, AfterPropagating, AfterCreating
<1> QED BY <1>1, <1>2 DEF StillToPull

\* A step that moves a judged pass on accounts for every file it accounted for.
LEMMA AccountedGoesOn ==
    ASSUME Typed, [Next]_vars, NEW d \in Devices, NEW p \in Paths, Accounted(d, p),
           resolving'[d] = resolving[d], seen'[d] = seen[d], plan'[d] = plan[d],
           p \in StillToPull(d) =>
               p \in StillToPull(d)' \/ seen[d].remote.files[p].hash \in known'[d][p]
    PROVE  Accounted(d, p)'
    BY NextGrows DEF Accounted, Grows

\* Taking the peer's version leaves out only what is here already.
LEMMA OverwritePlanType ==
    ASSUME NEW l \in Manifest, NEW r \in Manifest
    PROVE  OverwritePlan(l, r) \in Decision
    BY DEF OverwritePlan, NoDecision, Decision, Files, Differing

LEMMA OverwriteAccountsForRemote ==
    ASSUME NEW l \in Manifest, NEW r \in Manifest, NEW p \in Files(r)
    PROVE  \/ p \in Files(l) /\ l.files[p].hash = r.files[p].hash
           \/ p \in OverwritePlan(l, r).pull
    BY DEF OverwritePlan, NoDecision, Files, Differing

\* Every step keeps a judged pass accounting for the peer's files.
LEMMA PassStillAccounts ==
    ASSUME Typed, PullsListedFiles, CopiesAreHeld, PassAccountsForRemote, [Next]_vars
    PROVE  PassAccountsForRemote'
<1> SUFFICES ASSUME NEW d \in Devices, Judged(d)', NEW p \in Files(seen'[d].remote)
             PROVE  Accounted(d, p)'
  BY DEF PassAccountsForRemote
<1>1. p \in Paths
  BY DEF Files
<1>2. ASSUME pc'[d] = pc[d], resolving'[d] = resolving[d], seen'[d] = seen[d], plan'[d] = plan[d], todo'[d] = todo[d]
      PROVE  Accounted(d, p)'
  <2>1. Accounted(d, p)
    BY <1>2 DEF Judged, PassAccountsForRemote
  <2>2. StillToPull(d)' = StillToPull(d)
    BY <1>2 DEF StillToPull
  <2> QED BY <1>1, <1>2, <2>1, <2>2, AccountedGoesOn
<1>3. UNCHANGED pass => Accounted(d, p)'
  BY <1>2
<1>4. ASSUME NEW c \in Devices, EndPass(c)
      PROVE  Accounted(d, p)'
  <2>1. c # d
    BY <1>4 DEF EndPass, Judged, Typed, TypeOK
  <2> QED BY <1>2, <1>4, <2>1 DEF EndPass, Typed, TypeOK
<1>5. ASSUME NEW c \in Devices, NEW e \in Devices, StartPass(c, e)
      PROVE  Accounted(d, p)'
  <2>1. c # d
    BY <1>5 DEF StartPass, Judged, Typed, TypeOK
  <2> QED BY <1>2, <1>5, <2>1 DEF StartPass, Typed, TypeOK
<1>6. ASSUME NEW c \in Devices, KeepRemote(c)
      PROVE  Accounted(d, p)'
  <2>1. c # d
    BY <1>6 DEF KeepRemote, Judged, Typed, TypeOK
  <2> QED BY <1>2, <1>6, <2>1 DEF KeepRemote, Typed, TypeOK
<1>7. ASSUME NEW c \in Devices, BeginOverwrite(c)
      PROVE  Accounted(d, p)'
  <2>1. CASE c # d
    BY <1>2, <1>7, <2>1 DEF BeginOverwrite, Enter, Typed, TypeOK
  <2>2. CASE c = d
    <3> DEFINE pl == OverwritePlan(save[d], seen[d].remote)
    <3>1. save[d] \in Manifest /\ seen[d] \in View /\ seen[d].remote \in Manifest
      BY DEF Typed, TypeOK, View
    <3>2. /\ plan'[d] = pl /\ seen'[d].remote = seen[d].remote
          /\ Enter(d, AfterJudging(pl, seen[d].remote), pl)
      BY <1>7, <2>2, <3>1 DEF BeginOverwrite, Typed, TypeOK, View
    <3>3. pl \in Decision
      BY <3>1, OverwritePlanType
    <3>4. StillToPull(d)' = pl.pull
      <4> HIDE DEF pl
      <4> QED BY <3>2, <3>3, StagesPullThePlan
    <3>5. \/ p \in Files(save[d]) /\ save[d].files[p].hash = seen[d].remote.files[p].hash
          \/ p \in pl.pull
      BY <3>1, <3>2, OverwriteAccountsForRemote
    <3>6. p \in Files(save[d]) => save[d].files[p].hash \in known'[d][p]
      BY <1>1, NextGrows DEF CopiesAreHeld, HeldIn, Grows
    <3> QED BY <2>2, <3>2, <3>4, <3>5, <3>6 DEF Accounted
  <2> QED BY <2>1, <2>2
<1>8. ASSUME NEW c \in Devices, BeginApply(c)
      PROVE  Accounted(d, p)'
  <2>1. CASE c # d
    BY <1>2, <1>8, <2>1 DEF BeginApply, Enter, Typed, TypeOK
  <2>2. CASE c = d
    <3>1. partner[d] \in Devices /\ save[d] \in Manifest /\ seen[d] \in View
          /\ lineage[d][partner[d]] \in Lineage
      BY <1>8, <2>2 DEF BeginApply, Judging, Typed, TypeOK, PassHasPeer
    <3>2. /\ plan'[d] = Verdict(d) /\ seen'[d].remote = seen[d].remote /\ ~resolving'[d]
          /\ Enter(d, AfterJudging(Verdict(d), seen[d].remote), Verdict(d))
      BY <1>8, <2>2, <3>1 DEF BeginApply, Judging, Typed, TypeOK, View
    <3>3. seen[d].remote \in Manifest
      BY <3>1 DEF View
    <3>4. Verdict(d) \in Decision
      BY <3>1, <3>3, ComputeType DEF Verdict
    <3>5. StillToPull(d)' = Verdict(d).pull
      BY <3>2, <3>4, StagesPullThePlan
    <3>6. \/ p \in Files(save[d]) /\ save[d].files[p].hash = seen[d].remote.files[p].hash
          \/ p \in Verdict(d).pull \cup Verdict(d).push \cup Verdict(d).deleteOnPeer
      BY <3>1, <3>2, <3>3, PlanAccountsForRemote DEF Verdict
    <3>7. p \in Files(save[d]) => save[d].files[p].hash \in known'[d][p]
      BY <1>1, NextGrows DEF CopiesAreHeld, HeldIn, Grows
    <3> QED BY <2>2, <3>2, <3>5, <3>6, <3>7 DEF Accounted
  <2> QED BY <2>1, <2>2
\* A stage with nothing pulled yet gives way to the next.
<1>9. ASSUME NEW c \in Devices, pc[c] \in {"deleting", "propagating", "creating"},
             UNCHANGED <<resolving, seen, plan>>, NEW r, NEW stage, Enter(c, stage, plan[c]),
             stage \in {AfterDeleting(plan[c], r), AfterPropagating(plan[c], r), AfterCreating(plan[c])}
      PROVE  Accounted(d, p)'
  <2>1. CASE c # d
    BY <1>2, <1>9, <2>1 DEF Enter, Typed, TypeOK
  <2>2. CASE c = d
    <3>1. Accounted(d, p)
      BY <1>9, <2>2 DEF Judged, PassAccountsForRemote
    <3>2. plan[d] \in Decision /\ plan'[d] = plan[d]
      BY <1>9 DEF Typed, TypeOK
    <3>3. StillToPull(d)' = plan[d].pull
      BY <1>9, <2>2, <3>2, StagesPullThePlan
    <3>4. StillToPull(d) = plan[d].pull
      BY <1>9, <2>2 DEF StillToPull
    <3> QED BY <1>1, <1>9, <3>1, <3>3, <3>4, AccountedGoesOn
  <2> QED BY <2>1, <2>2
<1>10. ASSUME NEW c \in Devices, DeleteLocally(c) \/ FailLocalDeletion(c)
       PROVE  Accounted(d, p)'
  <2>1. /\ pc[c] = "deleting" /\ UNCHANGED <<resolving, seen, plan>>
        /\ Enter(c, AfterDeleting(plan[c], seen[c].remote), plan[c])
    BY <1>10 DEF DeleteLocally, FailLocalDeletion, RemovePlanned
  <2> QED BY <1>9, <2>1
<1>11. ASSUME NEW c \in Devices, NEW x \in Paths \cup Dirs, DeleteOnPeer(c, x) \/ FailDeleteOnPeer(c, x)
       PROVE  Accounted(d, p)'
  <2>1. Propagated(c, x) /\ pc[c] = "propagating" /\ UNCHANGED <<resolving, seen, plan>>
    BY <1>11 DEF DeleteOnPeer, FailDeleteOnPeer, Propagated
  <2>2. CASE todo[c] = {x}
    BY <1>9, <2>1, <2>2 DEF Propagated
  <2>3. CASE todo[c] # {x}
    <3>1. UNCHANGED pc /\ todo' = [todo EXCEPT ![c] = @ \ {x}]
      BY <2>1, <2>3 DEF Propagated
    <3>2. CASE c # d
      BY <1>2, <2>1, <3>1, <3>2 DEF Typed, TypeOK
    <3>3. CASE c = d
      <4>1. Accounted(d, p)
        BY <2>1, <3>3 DEF Judged, PassAccountsForRemote
      <4>2. StillToPull(d)' = StillToPull(d)
        BY <2>1, <3>1, <3>3 DEF StillToPull
      <4> QED BY <1>1, <2>1, <4>1, <4>2, AccountedGoesOn
    <3> QED BY <3>2, <3>3
  <2> QED BY <2>2, <2>3
<1>12. ASSUME NEW c \in Devices, CreateDirs(c)
       PROVE  Accounted(d, p)'
  <2>1. /\ pc[c] = "creating" /\ UNCHANGED <<resolving, seen, plan>>
        /\ Enter(c, AfterCreating(plan[c]), plan[c])
    BY <1>12 DEF CreateDirs
  <2> QED BY <1>9, <2>1
<1>13. ASSUME NEW c \in Devices, NEW q \in Paths, PullFile(c, q)
       PROVE  Accounted(d, p)'
  <2>1. CASE c # d
    BY <1>2, <1>13, <2>1 DEF PullFile, Typed, TypeOK
  <2>2. CASE c = d
    <3>1. /\ pc[d] = "pulling" /\ pc'[d] = "pulling" /\ UNCHANGED <<resolving, seen, plan>>
          /\ todo'[d] = todo[d] \ {q}
      BY <1>13, <2>2 DEF PullFile, Typed, TypeOK
    <3>2. Accounted(d, p)
      BY <3>1 DEF Judged, PassAccountsForRemote
    <3>3. StillToPull(d)' = StillToPull(d) \ {q}
      BY <3>1 DEF StillToPull
    <3>4. q = p => seen[d].remote.files[p].hash \in known'[d][p]
      BY <1>1, <1>13, <2>2 DEF PullFile, Typed, TypeOK
    <3> QED BY <1>1, <3>1, <3>2, <3>3, <3>4, AccountedGoesOn
  <2> QED BY <2>1, <2>2
<1>14. ASSUME NEW c \in Devices, CompletePull(c)
       PROVE  Accounted(d, p)'
  <2>1. CASE c # d
    BY <1>2, <1>14, <2>1 DEF CompletePull, Typed, TypeOK
  <2>2. CASE c = d
    <3>1. /\ pc[d] = "pulling" /\ todo[d] = {} /\ UNCHANGED <<resolving, seen, plan>>
      BY <1>14, <2>2 DEF CompletePull
    <3>2. Accounted(d, p)
      BY <3>1 DEF Judged, PassAccountsForRemote
    <3>3. StillToPull(d) = {}
      BY <3>1 DEF StillToPull
    <3> QED BY <1>1, <3>1, <3>2, <3>3, AccountedGoesOn
  <2> QED BY <2>1, <2>2
<1>15. CASE Edit
  BY <1>3, <1>15 DEF Edit, Write, Remove, MakeDir, RemoveDir, Restore
<1>16. CASE React
  BY <1>3, <1>16 DEF React, ConfirmInSync, StartRefresh, LoseReport, RecordRefresh
<1>17. ASSUME NEW c \in Devices, Capture(c) \/ KeepLocal(c)
       PROVE  UNCHANGED pass
  BY <1>17 DEF Capture, KeepLocal
<1>18. ASSUME NEW c \in Devices, \/ Crash(c) \/ GiveUp(c) \/ RaiseConflict(c) \/ FindInSync(c)
                                 \/ PeerMovedOn(c) \/ FailPull(c) \/ Record(c) \/ FinishOverwrite(c)
       PROVE  EndPass(c)
  BY <1>18 DEF Crash, GiveUp, RaiseConflict, FindInSync, PeerMovedOn, FailPull, AbortPull,
               Record, FinishOverwrite
<1>19. CASE UNCHANGED vars
  BY <1>3, <1>19
<1> QED BY <1>3, <1>4, <1>5, <1>6, <1>7, <1>8, <1>10, <1>11, <1>12, <1>13, <1>14, <1>15, <1>16, <1>17, <1>18, <1>19
        DEF Next, Resolve, PassStep, Judge, FailingStep

-----------------------------------------------------------------------------
(* The rows                                                                *)

\* Held rows are what the two properties ask for.
LEMMA RowsAreHeld ==
    ASSUME \A d, e \in Devices : RowHeld(d, e)
    PROVE  LineageHeldByBoth /\ MergeBaseHeldByBoth
<1>1. LineageHeldByBoth
  BY DEF RowHeld, LineageRowHeld, LineageHeldByBoth
<1>2. MergeBaseHeldByBoth
  BY DEF RowHeld, BaseRowHeld, HashHeldIn, MergeBaseHeldByBoth
<1> QED BY <1>1, <1>2

\* A row that stays as it was is still held.
LEMMA SameRow ==
    ASSUME Typed, [Next]_vars, NEW d \in Devices, NEW e \in Devices, RowHeld(d, e),
           lineage'[d][e] = lineage[d][e] \/ LineageRowHeld(d, e)',
           decreed'[d][e].lineage = decreed[d][e].lineage \/ LineageRowHeld(d, e)',
           agreed'[d][e] = agreed[d][e] \/ BaseRowHeld(d, e)',
           decreed'[d][e].base = decreed[d][e].base \/ BaseRowHeld(d, e)'
    PROVE  RowHeld(d, e)'
<1>1. Grows
  BY NextGrows
<1>2. LineageRowHeld(d, e)'
  <2>1. lineage[d][e].files \subseteq Paths
    BY DEF Typed, TypeOK, Lineage
  <2> QED BY <1>1, <2>1 DEF RowHeld, LineageRowHeld, Grows
<1>3. BaseRowHeld(d, e)'
  BY <1>1, HeldForGood DEF RowHeld, BaseRowHeld
<1> QED BY <1>2, <1>3 DEF RowHeld

\* A lineage of two manifests that the two sides had is held.
LEMMA IntersectionHeld ==
    ASSUME NEW l \in Manifest, NEW r \in Manifest, NEW k1, NEW k2, HeldIn(l, k1), HeldIn(r, k2)
    PROVE  \A p \in IntersectLineage(l, r).files : k1[p] # {} /\ k2[p] # {}
    BY DEF IntersectLineage, HeldIn

\* Rows that a convergence writes are held, or marked as decreed.
LEMMA ConvergenceHeld ==
    ASSUME Typed, [Next]_vars, NEW c \in Devices, NEW f \in Devices, NEW m \in Manifest, NEW now, NEW row \in Decree,
           RecordConvergence(c, f, m, now), decreed' = [decreed EXCEPT ![c][f] = row],
           \/ row.lineage /\ row.base
           \/ HashHeldIn(ManifestHash(m), known[c]) /\ HashHeldIn(ManifestHash(m), known[f]),
           NEW d \in Devices, NEW e \in Devices, RowHeld(d, e)
    PROVE  RowHeld(d, e)'
<1>1. /\ lineage \in [Devices -> [Devices -> Lineage]] /\ agreed \in [Devices -> [Devices -> Hashes]]
      /\ decreed \in [Devices -> [Devices -> Decree]]
  BY DEF Typed, TypeOK
<1>2. CASE d = c /\ e = f
  <2>1. /\ lineage'[d][e] = IntersectLineage(m, m) /\ agreed'[d][e] = ManifestHash(m)
        /\ decreed'[d][e] = row
    BY <1>1, <1>2 DEF RecordConvergence
  <2>2. CASE row.lineage /\ row.base
    BY <2>1, <2>2 DEF RowHeld, LineageRowHeld, BaseRowHeld
  <2>3. CASE HashHeldIn(ManifestHash(m), known[c]) /\ HashHeldIn(ManifestHash(m), known[f])
    <3>1. HashHeldIn(ManifestHash(m), known'[c]) /\ HashHeldIn(ManifestHash(m), known'[f])
      BY <2>3, NextGrows, HeldForGood
    <3>2. \A p \in Files(m) : ManifestHash(m).files[p] # NoFile /\ p \in Paths
      BY HashAtPath DEF ManifestHash, Files
    <3>3. \A p \in Files(m) : known'[c][p] # {} /\ known'[f][p] # {}
      BY <3>1, <3>2, ManifestHashType DEF HashHeldIn
    <3>4. IntersectLineage(m, m).files = Files(m)
      BY DEF IntersectLineage
    <3> QED BY <1>2, <2>1, <3>1, <3>3, <3>4 DEF RowHeld, LineageRowHeld, BaseRowHeld
  <2> QED BY <2>2, <2>3
<1>3. CASE ~(d = c /\ e = f)
  <2>1. lineage'[d][e] = lineage[d][e] /\ agreed'[d][e] = agreed[d][e] /\ decreed'[d][e] = decreed[d][e]
    BY <1>1, <1>3 DEF RecordConvergence
  <2> QED BY <2>1, SameRow
<1> QED BY <1>2, <1>3

\* A heal adopts files that both sides hold, or a push that both sides held.
LEMMA HealHeld ==
    ASSUME Typed, CopiesAreHeld, [Next]_vars, NEW c \in Devices, pc[c] # "idle", StoreHealing(c), UNCHANGED lineage,
           NEW d \in Devices, NEW e \in Devices, RowHeld(d, e)
    PROVE  RowHeld(d, e)'
<1> DEFINE f == partner[c]
<1>1. /\ agreed \in [Devices -> [Devices -> Hashes]] /\ decreed \in [Devices -> [Devices -> Decree]]
  BY DEF Typed, TypeOK
<1>2. f \in Devices /\ save[c] \in Manifest /\ seen[c].remote \in Manifest
  BY DEF Typed, TypeOK, PassHasPeer, View
<1>3. /\ HashHeldIn(ManifestHash(save[c]), known[c])
      /\ HashHeldIn(ManifestHash(seen[c].remote), known[f])
      /\ HashHeldIn(pushed[c][f], known[c])
  BY <1>2, HeldHash DEF CopiesAreHeld
<1>4. CASE d = c /\ e = f
  <2>1. agreed'[d][e] = HealedRow(c).agreed
    BY <1>1, <1>2, <1>4 DEF StoreHealing
  <2>2. decreed'[d][e] = IF HealedRow(c).agreed = agreed[c][f] THEN decreed[d][e] ELSE BaseSynced(decreed[d][e])
    BY <1>1, <1>2, <1>4 DEF StoreHealing
  <2>3. decreed'[d][e].lineage = decreed[d][e].lineage
    BY <1>1, <2>2 DEF BaseSynced, Decree
  <2>4. CASE HealedRow(c).agreed = agreed[c][f]
    BY <1>4, <2>1, <2>2, <2>4, SameRow
  <2>5. CASE HealedRow(c).agreed = ManifestHash(save[c]) /\ SameFiles(save[c], seen[c].remote)
    <3>1. \A p \in Paths : ManifestHash(save[c]).files[p] = ManifestHash(seen[c].remote).files[p]
      BY <1>2, <2>5, SameFilesPathwise DEF ManifestHash
    <3>2. HashHeldIn(ManifestHash(save[c]), known[f])
      BY <1>2, <1>3, <3>1, ManifestHashType DEF HashHeldIn
    <3>3. HashHeldIn(agreed'[d][e], known'[d]) /\ HashHeldIn(agreed'[d][e], known'[e])
      BY <1>2, <1>3, <1>4, <2>1, <2>5, <3>2, NextGrows, HeldForGood
    <3> QED BY <2>3, <3>3, SameRow DEF BaseRowHeld
  <2>6. CASE HealedRow(c).agreed = ManifestHash(seen[c].remote) /\ pushed[c][f] = ManifestHash(seen[c].remote)
    <3>1. HashHeldIn(agreed'[d][e], known'[d]) /\ HashHeldIn(agreed'[d][e], known'[e])
      BY <1>2, <1>3, <1>4, <2>1, <2>6, NextGrows, HeldForGood
    <3> QED BY <2>3, <3>1, SameRow DEF BaseRowHeld
  <2>7. \/ HealedRow(c).agreed = agreed[c][f]
        \/ HealedRow(c).agreed = ManifestHash(save[c]) /\ SameFiles(save[c], seen[c].remote)
        \/ HealedRow(c).agreed = ManifestHash(seen[c].remote) /\ pushed[c][f] = ManifestHash(seen[c].remote)
    BY <1>2, ManifestHashType DEF HealedRow, Healed, SameFilesHeal, LandedPushHeal
  <2> QED BY <2>4, <2>5, <2>6, <2>7
<1>5. CASE ~(d = c /\ e = f)
  <2>1. agreed'[d][e] = agreed[d][e] /\ decreed'[d][e] = decreed[d][e]
    BY <1>1, <1>5 DEF StoreHealing
  <2> QED BY <2>1, SameRow
<1> QED BY <1>4, <1>5

\* A pass records as shared what it had and saw, and as agreed the peer's state
\* if it left nothing to the peer: it has had all of that by then.
LEMMA RecordHeld ==
    ASSUME Typed, CopiesAreHeld, PassAccountsForRemote, [Next]_vars, NEW c \in Devices, Record(c),
           NEW d \in Devices, NEW e \in Devices, RowHeld(d, e)
    PROVE  RowHeld(d, e)'
<1> DEFINE f == partner[c]
           ours == MergeManifestPaths(save[c], seen[c].local)
           base == ManifestHash(seen[c].remote)
<1>1. /\ agreed \in [Devices -> [Devices -> Hashes]] /\ decreed \in [Devices -> [Devices -> Decree]]
      /\ lineage \in [Devices -> [Devices -> Lineage]]
  BY DEF Typed, TypeOK
<1>2. pc[c] = "finishing" /\ ~resolving[c] /\ Judged(c)
  BY DEF Record, Judged
<1>3. /\ f \in Devices /\ save[c] \in Manifest /\ seen[c].local \in Manifest /\ seen[c].remote \in Manifest
      /\ decreed[c][f] \in Decree
  BY <1>2 DEF Typed, TypeOK, PassHasPeer, View
<1>4. HeldIn(save[c], known[c]) /\ HeldIn(seen[c].local, known[c]) /\ HeldIn(seen[c].remote, known[f])
  BY <1>2 DEF CopiesAreHeld
<1>5. CASE d = c /\ e = f
  <2>1. LineageRowHeld(d, e)'
    <3>1. lineage'[d][e] = IntersectLineage(ours, seen[c].remote)
      BY <1>1, <1>3, <1>5 DEF Record
    <3>2. HeldIn(ours, known[c]) /\ ours \in Manifest
      BY <1>3, <1>4, MergeType DEF MergeManifestPaths, HeldIn, Files
    <3>3. HeldIn(ours, known'[c]) /\ HeldIn(seen[c].remote, known'[f])
      BY <1>3, <1>4, <3>2, NextGrows, HeldForGood
    <3> QED BY <1>3, <1>5, <3>1, <3>2, <3>3, IntersectionHeld DEF LineageRowHeld
  <2>2. CASE HandsOver(c)
    <3>1. agreed'[d][e] = agreed[d][e] /\ decreed'[d][e] = LineageSynced(decreed[d][e])
      BY <1>1, <1>3, <1>5, <2>2 DEF Record
    <3>2. decreed'[d][e].base = decreed[d][e].base
      BY <1>3, <1>5, <3>1 DEF LineageSynced, Decree
    <3> QED BY <2>1, <3>1, <3>2, SameRow
  <2>3. CASE ~HandsOver(c)
    <3>1. agreed'[d][e] = base
      BY <1>1, <1>3, <1>5, <2>3 DEF Record
    <3>2. \A p \in Files(seen[c].remote) : seen[c].remote.files[p].hash \in known[c][p]
      BY <1>2, <2>3 DEF PassAccountsForRemote, Accounted, HandsOver, HasPush, StillToPull
    <3>3. HashHeldIn(base, known[c]) /\ HashHeldIn(base, known[f])
      BY <1>3, <1>4, <3>2, HeldHash DEF HeldIn
    <3>4. HashHeldIn(base, known'[c]) /\ HashHeldIn(base, known'[f])
      BY <1>3, <3>3, NextGrows, HeldForGood
    <3> QED BY <1>5, <2>1, <3>1, <3>4 DEF RowHeld, BaseRowHeld
  <2> QED BY <2>2, <2>3
<1>6. CASE ~(d = c /\ e = f)
  <2>1. lineage'[d][e] = lineage[d][e]
    BY <1>1, <1>6 DEF Record
  <2>2. agreed'[d][e] = agreed[d][e]
    BY <1>1, <1>6 DEF Record
  <2>3. decreed'[d][e] = decreed[d][e]
    BY <1>1, <1>6 DEF Record
  <2> QED BY <2>1, <2>2, <2>3, SameRow
<1> QED BY <1>5, <1>6

\* A refresh records what is here now and was there when it fetched.
LEMMA RefreshHeld ==
    ASSUME Typed, CopiesAreHeld, [Next]_vars, NEW r \in refreshes, RecordRefresh(r),
           NEW d \in Devices, NEW e \in Devices, RowHeld(d, e)
    PROVE  RowHeld(d, e)'
<1> DEFINE c == r.on
           f == r.of
           base == ManifestHash(save[c])
           same == base = ManifestHash(r.remote)
<1>1. /\ agreed \in [Devices -> [Devices -> Hashes]] /\ decreed \in [Devices -> [Devices -> Decree]]
      /\ lineage \in [Devices -> [Devices -> Lineage]]
  BY DEF Typed, TypeOK
<1>2. c \in Devices /\ f \in Devices /\ r.remote \in Manifest /\ save[c] \in Manifest
  BY DEF Typed, TypeOK, RefreshOf
<1>3. HeldIn(save[c], known[c]) /\ HeldIn(r.remote, known[f])
  BY <1>2 DEF CopiesAreHeld
<1>4. HeldIn(save[c], known'[c]) /\ HeldIn(r.remote, known'[f])
  BY <1>2, <1>3, NextGrows, HeldForGood
<1>5. CASE d = c /\ e = f
  <2>1. LineageRowHeld(d, e)'
    <3>1. lineage'[d][e] = IntersectLineage(save[c], r.remote)
      BY <1>1, <1>2, <1>5 DEF RecordRefresh
    <3>2. \A p \in IntersectLineage(save[c], r.remote).files : known'[c][p] # {} /\ known'[f][p] # {}
      BY <1>2, <1>4, IntersectionHeld
    <3> QED BY <1>5, <3>1, <3>2 DEF LineageRowHeld
  <2>2. CASE same
    <3>1. agreed'[d][e] = base
      BY <1>1, <1>2, <1>5, <2>2 DEF RecordRefresh
    <3>2. HashHeldIn(base, known'[c]) /\ HashHeldIn(base, known'[f])
      BY <1>2, <1>4, <2>2, HeldHash
    <3> QED BY <1>5, <2>1, <3>1, <3>2 DEF RowHeld, BaseRowHeld
  <2>3. CASE ~same
    <3>1. agreed'[d][e] = agreed[d][e] /\ decreed'[d][e] = LineageSynced(decreed[d][e])
      BY <1>1, <1>2, <1>5, <2>3 DEF RecordRefresh
    <3>2. decreed'[d][e].base = decreed[d][e].base
      BY <1>1, <3>1 DEF LineageSynced, Decree
    <3> QED BY <2>1, <3>1, <3>2, SameRow
  <2> QED BY <2>2, <2>3
<1>6. CASE ~(d = c /\ e = f)
  <2>1. lineage'[d][e] = lineage[d][e]
    BY <1>1, <1>6 DEF RecordRefresh
  <2>2. agreed'[d][e] = agreed[d][e]
    BY <1>1, <1>6 DEF RecordRefresh
  <2>3. decreed'[d][e] = decreed[d][e]
    BY <1>1, <1>6 DEF RecordRefresh
  <2> QED BY <2>1, <2>2, <2>3, SameRow
<1> QED BY <1>5, <1>6

\* Whatever step is taken, every row is held.
LEMMA RowsStayHeld ==
    ASSUME Typed, CopiesAreHeld, PassAccountsForRemote, [Next]_vars,
           NEW d \in Devices, NEW e \in Devices, RowHeld(d, e)
    PROVE  RowHeld(d, e)'
<1>1. UNCHANGED <<lineage, agreed, decreed>> => RowHeld(d, e)'
  BY SameRow
<1>2. ASSUME NEW c \in Devices, RaiseConflict(c) \/ BeginApply(c)
      PROVE  RowHeld(d, e)'
  BY <1>2, HealHeld DEF RaiseConflict, BeginApply, Judging
<1>3. ASSUME NEW c \in Devices, FindInSync(c)
      PROVE  RowHeld(d, e)'
  <2>1. /\ partner[c] \in Devices /\ save[c] \in Manifest /\ seen[c].remote \in Manifest
        /\ lineage[c][partner[c]] \in Lineage
    BY <1>3 DEF FindInSync, Judging, Typed, TypeOK, PassHasPeer, View
  <2>2. ManifestHash(save[c]) = ManifestHash(seen[c].remote)
    BY <1>3, <2>1, NoChangesMeansSame DEF FindInSync, Verdict
  <2>3. /\ HashHeldIn(ManifestHash(save[c]), known[c])
        /\ HashHeldIn(ManifestHash(save[c]), known[partner[c]])
    BY <1>3, <2>1, <2>2, HeldHash DEF CopiesAreHeld, FindInSync, Judging
  <2>4. RowSynced(decreed[c][partner[c]]) \in Decree
    BY <2>1, DecreeType DEF Typed, TypeOK
  <2> QED BY <1>3, <2>1, <2>3, <2>4, ConvergenceHeld DEF FindInSync
<1>4. ASSUME NEW c \in Devices, FinishOverwrite(c)
      PROVE  RowHeld(d, e)'
  <2> DEFINE row == [lineage |-> TRUE, base |-> TRUE, kept |-> 0]
  <2>1. partner[c] \in Devices /\ save[c] \in Manifest
    BY <1>4 DEF FinishOverwrite, Typed, TypeOK, PassHasPeer
  <2>2. row \in Decree
    BY EngineAssumption DEF Decree
  <2> QED BY <1>4, <2>1, <2>2, ConvergenceHeld DEF FinishOverwrite
<1>5. ASSUME NEW c \in Devices, KeepLocal(c)
      PROVE  RowHeld(d, e)'
  <2> DEFINE row == [lineage |-> TRUE, base |-> TRUE, kept |-> clock + 1]
  <2>1. conflict[c] \in Devices /\ save[c] \in Manifest
    BY <1>5 DEF KeepLocal, Typed, TypeOK
  <2>2. row \in Decree
    BY <1>5, TickType DEF KeepLocal, Decree, Typed
  <2> QED BY <1>5, <2>1, <2>2, ConvergenceHeld DEF KeepLocal
<1>6. ASSUME NEW m \in reports, ConfirmInSync(m)
      PROVE  RowHeld(d, e)'
  <2>1. m.to \in Devices /\ m.from \in Devices /\ save[m.to] \in Manifest
    BY <1>6 DEF Typed, TypeOK, ReportOf
  <2>2. /\ HashHeldIn(ManifestHash(save[m.to]), known[m.to])
        /\ HashHeldIn(ManifestHash(save[m.to]), known[m.from])
    BY <1>6, <2>1, HeldHash DEF CopiesAreHeld, ConfirmInSync
  <2>3. RowSynced(decreed[m.to][m.from]) \in Decree
    BY <2>1, DecreeType DEF Typed, TypeOK
  <2> QED BY <1>6, <2>1, <2>2, <2>3, ConvergenceHeld DEF ConfirmInSync
<1>7. CASE Edit
  BY <1>1, <1>7 DEF Edit, Write, Remove, MakeDir, RemoveDir, Restore
<1>8. CASE React
  BY <1>1, <1>6, <1>8, RefreshHeld DEF React, StartRefresh, LoseReport
<1>9. ASSUME NEW c \in Devices, Capture(c) \/ Crash(c) \/ KeepRemote(c) \/ FailingStep(c)
      PROVE  UNCHANGED <<lineage, agreed, decreed>>
  BY <1>9 DEF Capture, Crash, KeepRemote, FailingStep, FailLocalDeletion, RemovePlanned, FailPull, AbortPull,
              FailDeleteOnPeer
<1>10. ASSUME NEW c \in Devices, PassStep(c)
       PROVE  \/ RaiseConflict(c) \/ BeginApply(c) \/ FindInSync(c) \/ Record(c) \/ FinishOverwrite(c)
              \/ UNCHANGED <<lineage, agreed, decreed>>
  BY <1>10 DEF PassStep, Judge, GiveUp, BeginOverwrite, DeleteLocally, RemovePlanned, DeleteOnPeer, CreateDirs,
               PullFile, PeerMovedOn, AbortPull, CompletePull
<1>11. ASSUME NEW c \in Devices, NEW f \in Devices, StartPass(c, f)
       PROVE  UNCHANGED <<lineage, agreed, decreed>>
  BY <1>11 DEF StartPass
<1>12. CASE UNCHANGED vars
  BY <1>1, <1>12
<1> QED BY <1>1, <1>2, <1>3, <1>4, <1>5, <1>7, <1>8, <1>9, <1>10, <1>11, <1>12, RecordHeld DEF Next, Resolve

-----------------------------------------------------------------------------
(* The theorems                                                            *)

\* At the start every device has had what it holds.
LEMMA RememberedInit == Init => Remembered
<1> SUFFICES ASSUME Init PROVE Remembered
  OBVIOUS
<1>1. \A d \in Devices : HeldIn(save[d], known[d])
  <2>1. CASE FreshStart
    BY <2>1 DEF FreshStart, HeldIn, Files, EmptyManifest
  <2>2. CASE SyncedStart
    BY <2>2 DEF SyncedStart, HeldIn, Files, SharedSave
  <2> QED BY <2>1, <2>2 DEF Init
<1>2. CopiesAreHeld
  BY <1>1 DEF Init, CopiesAreHeld, Judged, HashHeldIn
<1>3. PassAccountsForRemote
  BY DEF Init, PassAccountsForRemote, Judged
<1>4. \A d, e \in Devices : RowHeld(d, e)
  <2>1. CASE FreshStart
    BY <2>1 DEF FreshStart, EmptyLineage, RowHeld, LineageRowHeld, BaseRowHeld, HashHeldIn
  <2>2. CASE SyncedStart
    <3> SUFFICES ASSUME NEW d \in Devices, NEW e \in Devices
                 PROVE  RowHeld(d, e)
      OBVIOUS
    <3>1. LineageRowHeld(d, e)
      BY <2>2 DEF SyncedStart, LineageRowHeld
    <3>2. SharedSave \in Manifest
      BY EngineAssumption DEF SharedSave, Manifest, FileEntry
    <3>3. HashHeldIn(agreed[d][e], known[d]) /\ HashHeldIn(agreed[d][e], known[e])
      BY <1>1, <2>2, <3>2, HeldHash DEF SyncedStart
    <3> QED BY <3>1, <3>3 DEF RowHeld, BaseRowHeld
  <2> QED BY <2>1, <2>2 DEF Init
<1> QED BY <1>2, <1>3, <1>4 DEF Remembered

\* What is remembered stays remembered.
LEMMA RememberedNext == Typed /\ PullsListedFiles /\ Remembered /\ [Next]_vars => Remembered'
<1> SUFFICES ASSUME Typed, PullsListedFiles, Remembered, [Next]_vars
             PROVE  Remembered'
  OBVIOUS
<1>1. CopiesAreHeld' /\ PassAccountsForRemote'
  BY CopiesStayHeld, PassStillAccounts DEF Remembered
<1>2. \A d, e \in Devices : RowHeld(d, e)'
  BY RowsStayHeld DEF Remembered
<1> QED BY <1>1, <1>2 DEF Remembered

\* The invariant that carries both properties: every copy of a manifest and
\* every row on some device is of files that their owners have had.
THEOREM EngineRemembers == Spec => []Remembered
<1>1. Init => Remembered
  BY RememberedInit
<1>2. Typed /\ PullsListedFiles /\ Remembered /\ [Next]_vars => Remembered'
  BY RememberedNext
<1> QED BY <1>1, <1>2, EngineTyped, PTL DEF Spec

\* A path in the lineage is one that both sides have had, whatever the users,
\* the failures and the late reports did, unless a resolution wrote that row
\* (persistLineage, IntersectLineage, RefreshLineage, ConfirmInSync).
THEOREM LineageIsShared == Spec => []LineageHeldByBoth
<1>1. Remembered => LineageHeldByBoth
  BY RowsAreHeld DEF Remembered
<1> QED BY <1>1, EngineRemembers, PTL

\* The merge-base is made of contents both sides have had (SetAgreedHash, the
\* heals and the ratchet of SyncWithPeer).
THEOREM MergeBaseIsShared == Spec => []MergeBaseHeldByBoth
<1>1. Remembered => MergeBaseHeldByBoth
  BY RowsAreHeld DEF Remembered
<1> QED BY <1>1, EngineRemembers, PTL

-----------------------------------------------------------------------------
(* Overwriting what the peer never had: the inductive invariant            *)

TwoDevices == \A a, b, c \in Devices : a = b \/ b = c \/ a = c

RestoreStep == \E d \in Devices : \E s \in archived[d] : Restore(d, s)

\* No device syncs with itself, or is in conflict with itself.
PassesAreWithOthers ==
    \A d \in Devices : /\ pc[d] # "idle" => partner[d] # d
                       /\ resolving[d] => pc[d] # "idle"
                       /\ conflict[d] # d

\* A file's time is not before its content was written, and not after now.
TimesFit(m) ==
    \A p \in Files(m) : m.files[p].hash <= m.files[p].mtime /\ m.files[p].mtime <= clock

TimesInOrder ==
    \A d \in Devices :
        /\ TimesFit(save[d])
        /\ pc[d] # "idle" => TimesFit(seen[d].remote)
        /\ \A p \in Paths : \A c \in known[d][p] : c <= clock

\* d holds under p what e has never had.
Unseen(d, e, p) == p \in Files(save[d]) /\ save[d].files[p].hash \notin known[e][p]

\* With one peer to pull from, that is the last thing d has had there.
UnseenIsNewest ==
    \A d, e \in Devices : \A p \in Paths : d # e /\ Unseen(d, e, p) =>
        \A c \in known[d][p] : c <= save[d].files[p].hash

\* What e still holds under p, d has had and replaced.
MovedOn(d, e, p) ==
    Unseen(d, e, p) /\ p \in Files(save[e]) /\ save[e].files[p].hash \in known[d][p]

LaterThan(d, e, p) == save[d].files[p].mtime > save[e].files[p].mtime

\* So its time is later, unless the user of e kept the older version since.
UnseenIsLater ==
    \A d, e \in Devices : \A p \in Paths : d # e /\ MovedOn(d, e, p) =>
        LaterThan(d, e, p) \/ decreed[e][d].kept > 0

\* A resolution for the peer's version forgets that choice: it has taken what it saw
\* of the peer, and what the peer wrote meanwhile is later.
OverwritesWithLater ==
    \A e \in Devices : resolving[e] =>
        \A p \in Paths : MovedOn(partner[e], e, p) =>
            \/ LaterThan(partner[e], e, p)
            \/ HashAt(seen[e].remote, p) = save[partner[e]].files[p].hash

LaterWins ==
    /\ PassesAreWithOthers /\ TimesInOrder
    /\ UnseenIsNewest /\ UnseenIsLater /\ OverwritesWithLater

-----------------------------------------------------------------------------
(* What a step does to the saves                                           *)

\* Files only go, or nothing changes.
OnlyRemoves ==
    /\ UNCHANGED known /\ clock' \in {clock, clock + 1}
    /\ \A d \in Devices : \A p \in Paths : save'[d].files[p] \in {NoFile, save[d].files[p]}

\* Restores apart, a step writes a file, pulls one, touches them all, or only removes.
LEMMA SaveKinds ==
    ASSUME Typed, [Next]_vars, [~RestoreStep]_vars
    PROVE  \/ OnlyRemoves
           \/ \E d \in Devices : \E p \in Paths : Write(d, p) \/ PullFile(d, p)
           \/ \E d \in Devices : KeepLocal(d)
<1>1. UNCHANGED <<save, known, clock>> => OnlyRemoves
  BY DEF OnlyRemoves
<1>2. CASE UNCHANGED vars
  BY <1>1, <1>2
<1>3. ASSUME NEW c \in Devices, NEW q \in Paths, Remove(c, q)
      PROVE  OnlyRemoves
  BY <1>3 DEF Remove, EditTick, Tick, OnlyRemoves, Typed, TypeOK, Manifest
<1>4. ASSUME NEW c \in Devices, NEW x \in Dirs, MakeDir(c, x) \/ RemoveDir(c, x)
      PROVE  OnlyRemoves
  <2>1. UNCHANGED known /\ clock' \in {clock, clock + 1}
    BY <1>4 DEF MakeDir, RemoveDir, EditTick, Tick
  <2>2. \A d \in Devices : save'[d].files = save[d].files
    <3>1. MakeDir(c, x) => \A d \in Devices : save'[d].files = save[d].files
      BY DEF MakeDir, Typed, TypeOK, Manifest
    <3>2. RemoveDir(c, x) => \A d \in Devices : save'[d].files = save[d].files
      BY DEF RemoveDir, Typed, TypeOK, Manifest
    <3> QED BY <1>4, <3>1, <3>2
  <2> QED BY <2>1, <2>2 DEF OnlyRemoves
<1>5. ASSUME NEW c \in Devices, DeleteLocally(c) \/ FailLocalDeletion(c)
      PROVE  OnlyRemoves
  <2>1. PICK kept : RemovePlanned(c, kept)
    BY <1>5 DEF DeleteLocally, FailLocalDeletion
  <2>2. UNCHANGED <<known, clock>>
    BY <2>1 DEF RemovePlanned
  <2>3. \A d \in Devices : \A p \in Paths : save'[d].files[p] \in {NoFile, save[d].files[p]}
    BY <2>1 DEF RemovePlanned, Typed, TypeOK, Manifest
  <2> QED BY <2>2, <2>3 DEF OnlyRemoves
<1>6. ASSUME NEW c \in Devices, NEW x \in Paths \cup Dirs, DeleteOnPeer(c, x)
      PROVE  OnlyRemoves
  <2>1. UNCHANGED <<known, clock>>
    BY <1>6 DEF DeleteOnPeer
  <2>2. \A d \in Devices : \A p \in Paths : save'[d].files[p] \in {NoFile, save[d].files[p]}
    BY <1>6 DEF DeleteOnPeer, Typed, TypeOK, Manifest
  <2> QED BY <2>1, <2>2 DEF OnlyRemoves
<1>7. ASSUME NEW c \in Devices, CreateDirs(c)
      PROVE  OnlyRemoves
  <2>1. UNCHANGED <<known, clock>>
    BY <1>7 DEF CreateDirs
  <2>2. \A d \in Devices : save'[d].files = save[d].files
    BY <1>7 DEF CreateDirs, Typed, TypeOK, Manifest
  <2> QED BY <2>1, <2>2 DEF OnlyRemoves
<1>8. ASSUME NEW c \in Devices, \/ Capture(c) \/ Crash(c) \/ KeepRemote(c) \/ FailPull(c)
                                \/ Judge(c) \/ BeginOverwrite(c) \/ PeerMovedOn(c) \/ CompletePull(c)
                                \/ Record(c) \/ FinishOverwrite(c)
      PROVE  UNCHANGED <<save, known, clock>>
  BY <1>8 DEF Capture, Crash, KeepRemote, FailPull, AbortPull, Judge, GiveUp, RaiseConflict, FindInSync,
              BeginApply, BeginOverwrite, PeerMovedOn, CompletePull, Record, FinishOverwrite
<1>9. ASSUME NEW c \in Devices, NEW x \in Paths \cup Dirs, FailDeleteOnPeer(c, x)
      PROVE  UNCHANGED <<save, known, clock>>
  BY <1>9 DEF FailDeleteOnPeer
<1>10. ASSUME NEW c \in Devices, NEW e \in Devices, StartPass(c, e)
       PROVE  UNCHANGED <<save, known, clock>>
  BY <1>10 DEF StartPass
<1>11. CASE React
  BY <1>1, <1>11 DEF React, ConfirmInSync, StartRefresh, LoseReport, RecordRefresh
<1>12. CASE Edit
  BY <1>2, <1>3, <1>4, <1>12 DEF Edit, RestoreStep
<1> QED BY <1>1, <1>2, <1>5, <1>6, <1>7, <1>8, <1>9, <1>10, <1>11, <1>12
        DEF Next, Resolve, PassStep, FailingStep

\* What a write, a pull and a touch do to one file.
LEMMA WriteFile ==
    ASSUME Typed, NEW w \in Devices, NEW q \in Paths, Write(w, q), NEW d \in Devices, NEW p \in Paths
    PROVE  /\ clock' = clock + 1
           /\ w = d /\ q = p => /\ save'[d].files[p] = [hash |-> clock + 1, mtime |-> clock + 1]
                                /\ known'[d][p] = known[d][p] \cup {clock + 1}
           /\ ~(w = d /\ q = p) => /\ save'[d].files[p] = save[d].files[p]
                                   /\ known'[d][p] = known[d][p]
<1>1. clock' = clock + 1
  BY DEF Write, EditTick, Tick
<1>2. CASE w = d /\ q = p
  BY <1>1, <1>2 DEF Write, Typed, TypeOK, Manifest
<1>3. CASE ~(w = d /\ q = p)
  BY <1>1, <1>3 DEF Write, Typed, TypeOK, Manifest
<1> QED BY <1>1, <1>2, <1>3

LEMMA PulledFile ==
    ASSUME Typed, PullsListedFiles, CopiesAreHeld,
           NEW w \in Devices, NEW q \in Paths, PullFile(w, q), NEW d \in Devices, NEW p \in Paths
    PROVE  /\ UNCHANGED clock
           /\ w = d /\ q = p =>
                  /\ p \in Files(seen[d].remote) /\ save'[d].files[p] = seen[d].remote.files[p]
                  /\ known'[d][p] = known[d][p] \cup {save'[d].files[p].hash}
                  /\ pc[d] # "idle" /\ partner[d] \in Devices /\ p \in Files(save[partner[d]])
                  /\ save[partner[d]].files[p].hash = save'[d].files[p].hash
           /\ ~(w = d /\ q = p) => /\ save'[d].files[p] = save[d].files[p]
                                   /\ known'[d][p] = known[d][p]
<1>1. UNCHANGED clock
  BY DEF PullFile
<1>2. CASE w = d /\ q = p
  <2>1. pc[d] # "idle" /\ partner[d] \in Devices /\ p \in Files(seen[d].remote)
    BY <1>2 DEF PullFile, PullsListedFiles, Typed, PassHasPeer
  <2>2. save'[d].files[p] = seen[d].remote.files[p]
    BY <1>2 DEF PullFile, Typed, TypeOK, Manifest
  <2>3. known'[d][p] = known[d][p] \cup {seen[d].remote.files[p].hash}
    BY <1>2 DEF PullFile, Typed, TypeOK
  <2>4. HashAt(save[partner[d]], p) = seen[d].remote.files[p].hash
    BY <1>2 DEF PullFile
  <2>5. seen[d].remote.files[p].hash \in Versions
    BY <2>1 DEF Typed, TypeOK, View, Manifest, FileEntry, Files
  <2>6. p \in Files(save[partner[d]]) /\ save[partner[d]].files[p].hash = seen[d].remote.files[p].hash
    BY <2>4, <2>5, DecisionAssumption DEF HashAt, Files
  <2> QED BY <1>1, <1>2, <2>1, <2>2, <2>3, <2>6
<1>3. CASE ~(w = d /\ q = p)
  BY <1>1, <1>3 DEF PullFile, Typed, TypeOK, Manifest
<1> QED BY <1>2, <1>3

LEMMA KeepLocalFile ==
    ASSUME Typed, NEW w \in Devices, KeepLocal(w), NEW d \in Devices, NEW p \in Paths
    PROVE  /\ clock' = clock + 1 /\ known' = known
           /\ p \in Files(save'[d]) <=> p \in Files(save[d])
           /\ p \in Files(save[d]) => save'[d].files[p].hash = save[d].files[p].hash
           /\ w = d /\ p \in Files(save[d]) => save'[d].files[p].mtime = clock + 1
           /\ w # d => save'[d] = save[d]
<1>1. clock' = clock + 1 /\ known' = known
  BY DEF KeepLocal, Tick
<1>2. CASE w = d
  <2>1. save'[d] = Touched(save[d], clock + 1) /\ save[d] \in Manifest
    BY <1>2 DEF KeepLocal, Typed, TypeOK
  <2>2. save'[d].files[p] = IF save[d].files[p] = NoFile THEN NoFile
                            ELSE [hash |-> save[d].files[p].hash, mtime |-> clock + 1]
    BY <2>1 DEF Touched, Manifest
  <2>3. [hash |-> save[d].files[p].hash, mtime |-> clock + 1] # NoFile \/ save[d].files[p] = NoFile
    <3>1. clock + 1 \in Mtimes
      BY EngineAssumption, TickType DEF KeepLocal, Typed
    <3>2. save[d].files[p] # NoFile => save[d].files[p].hash \in Versions
      BY DEF Typed, TypeOK, Manifest, FileEntry
    <3> QED BY <3>1, <3>2, DecisionAssumption
  <2> QED BY <1>1, <1>2, <2>2, <2>3 DEF Files
<1>3. CASE w # d
  BY <1>1, <1>3 DEF KeepLocal, Typed, TypeOK
<1> QED BY <1>2, <1>3

-----------------------------------------------------------------------------
(* The inductive step                                                      *)

\* Who writes down, and who forgets, that a user kept the local version.
LEMMA KeptMoves ==
    ASSUME Typed, [Next]_vars, NEW d \in Devices, NEW e \in Devices
    PROVE  \/ decreed'[d][e].kept = decreed[d][e].kept
           \/ KeepLocal(d)
           \/ FinishOverwrite(d) /\ partner[d] = e
<1>1. decreed \in [Devices -> [Devices -> Decree]]
  BY DEF Typed, TypeOK
<1>2. UNCHANGED decreed => decreed'[d][e].kept = decreed[d][e].kept
  OBVIOUS
<1>3. ASSUME NEW c \in Devices, NEW f \in Devices, NEW row,
             decreed' = [decreed EXCEPT ![c][f] = row],
             row \in {decreed[c][f], LineageSynced(decreed[c][f]), BaseSynced(decreed[c][f]),
                      RowSynced(decreed[c][f])}
      PROVE  decreed'[d][e].kept = decreed[d][e].kept
  <2>1. decreed[c][f] \in Decree
    BY <1>1
  <2>2. row.kept = decreed[c][f].kept
    <3>1. \A old \in Decree : /\ LineageSynced(old).kept = old.kept /\ BaseSynced(old).kept = old.kept
                             /\ RowSynced(old).kept = old.kept
      BY DEF LineageSynced, BaseSynced, RowSynced, Decree
    <3> QED BY <1>3, <2>1, <3>1
  <2> QED BY <1>1, <1>3, <2>2
<1>4. ASSUME NEW c \in Devices, RaiseConflict(c) \/ BeginApply(c)
      PROVE  decreed'[d][e].kept = decreed[d][e].kept
  <2>1. partner[c] \in Devices /\ StoreHealing(c)
    BY <1>4 DEF RaiseConflict, BeginApply, Judging, Typed, PassHasPeer
  <2> QED BY <1>1, <1>3, <2>1 DEF StoreHealing
<1>5. ASSUME NEW c \in Devices, FindInSync(c)
      PROVE  decreed'[d][e].kept = decreed[d][e].kept
  <2>1. partner[c] \in Devices
    BY <1>5 DEF FindInSync, Judging, Typed, PassHasPeer
  <2> QED BY <1>1, <1>3, <1>5, <2>1 DEF FindInSync
<1>6. ASSUME NEW c \in Devices, Record(c)
      PROVE  decreed'[d][e].kept = decreed[d][e].kept
  <2>1. partner[c] \in Devices
    BY <1>6 DEF Record, Typed, PassHasPeer
  <2>2. CASE HandsOver(c)
    BY <1>1, <1>3, <1>6, <2>1, <2>2 DEF Record
  <2>3. CASE ~HandsOver(c)
    <3>1. decreed' = [decreed EXCEPT ![c][partner[c]] = RowSynced(decreed[c][partner[c]])]
      BY <1>6, <2>3 DEF Record
    <3> QED BY <1>3, <2>1, <3>1
  <2> QED BY <2>2, <2>3
<1>7. ASSUME NEW c \in Devices, FinishOverwrite(c)
      PROVE  decreed'[d][e].kept = decreed[d][e].kept \/ (c = d /\ partner[d] = e)
  BY <1>1, <1>7 DEF FinishOverwrite
<1>8. ASSUME NEW c \in Devices, KeepLocal(c)
      PROVE  decreed'[d][e].kept = decreed[d][e].kept \/ c = d
  BY <1>1, <1>8 DEF KeepLocal
<1>9. CASE Edit
  BY <1>2, <1>9 DEF Edit, Write, Remove, MakeDir, RemoveDir, Restore
<1>10. ASSUME NEW m \in reports, ConfirmInSync(m)
       PROVE  decreed'[d][e].kept = decreed[d][e].kept
  <2>1. m.to \in Devices /\ m.from \in Devices
    BY DEF Typed, TypeOK, ReportOf
  <2> QED BY <1>1, <1>3, <1>10, <2>1 DEF ConfirmInSync
<1>11. ASSUME NEW r \in refreshes, RecordRefresh(r)
       PROVE  decreed'[d][e].kept = decreed[d][e].kept
  <2>1. r.on \in Devices /\ r.of \in Devices
    BY DEF Typed, TypeOK, RefreshOf
  <2> QED BY <1>1, <1>3, <1>11, <2>1 DEF RecordRefresh
<1>12. CASE React
  BY <1>2, <1>10, <1>11, <1>12 DEF React, StartRefresh, LoseReport
<1>13. ASSUME NEW c \in Devices, Capture(c) \/ Crash(c) \/ KeepRemote(c) \/ FailingStep(c)
       PROVE  UNCHANGED decreed
  BY <1>13 DEF Capture, Crash, KeepRemote, FailingStep, FailLocalDeletion, RemovePlanned, FailPull, AbortPull,
               FailDeleteOnPeer
<1>14. ASSUME NEW c \in Devices, PassStep(c)
       PROVE  \/ RaiseConflict(c) \/ BeginApply(c) \/ FindInSync(c) \/ Record(c) \/ FinishOverwrite(c)
              \/ UNCHANGED decreed
  BY <1>14 DEF PassStep, Judge, GiveUp, BeginOverwrite, DeleteLocally, RemovePlanned, DeleteOnPeer, CreateDirs,
               PullFile, PeerMovedOn, AbortPull, CompletePull
<1>15. ASSUME NEW c \in Devices, NEW f \in Devices, StartPass(c, f)
       PROVE  UNCHANGED decreed
  BY <1>15 DEF StartPass
<1>16. CASE UNCHANGED vars
  BY <1>2, <1>16
<1> QED BY <1>2, <1>4, <1>5, <1>6, <1>7, <1>8, <1>9, <1>12, <1>13, <1>14, <1>15, <1>16 DEF Next, Resolve

\* A conflict comes from a pass, which is with another device.
LEMMA OthersNext ==
    ASSUME Typed, PassesAreWithOthers, [Next]_vars
    PROVE  PassesAreWithOthers'
<1> SUFFICES ASSUME NEW d \in Devices
             PROVE  /\ pc'[d] # "idle" => partner'[d] # d
                    /\ resolving'[d] => pc'[d] # "idle"
                    /\ conflict'[d] # d
  BY DEF PassesAreWithOthers
<1>1. pc'[d] # "idle" => partner'[d] # d
  <2>1. CASE PassFetched(d)
    <3>1. StartPass(d, partner'[d]) => partner'[d] # d
      BY DEF StartPass
    <3>2. KeepRemote(d) => partner'[d] # d
      BY DEF KeepRemote, PassesAreWithOthers, Typed, TypeOK
    <3> QED BY <2>1, <3>1, <3>2 DEF PassFetched
  <2> QED BY <2>1, PassMoves DEF PassOver, PassJudged, PassGoesOn, PassesAreWithOthers
<1>2. resolving'[d] => pc'[d] # "idle"
  BY PassMoves DEF PassOver, PassFetched, PassJudged, PassGoesOn, PassesAreWithOthers
<1>3. conflict'[d] # d
  <2>1. \/ UNCHANGED conflict
        \/ \E c \in Devices : conflict' = [conflict EXCEPT ![c] = NoPeer]
        \/ \E c \in Devices : RaiseConflict(c)
    <3>1. CASE Edit
      BY <3>1 DEF Edit, Write, Remove, MakeDir, RemoveDir, Restore
    <3>2. CASE React
      BY <3>2 DEF React, ConfirmInSync, StartRefresh, LoseReport, RecordRefresh
    <3>3. ASSUME NEW c \in Devices, Capture(c) \/ Crash(c) \/ Resolve(c) \/ FailingStep(c)
          PROVE  UNCHANGED conflict \/ conflict' = [conflict EXCEPT ![c] = NoPeer]
      BY <3>3 DEF Capture, Crash, Resolve, KeepLocal, KeepRemote, FailingStep, FailLocalDeletion, RemovePlanned,
                  FailPull, AbortPull, FailDeleteOnPeer
    <3>4. ASSUME NEW c \in Devices, PassStep(c)
          PROVE  UNCHANGED conflict \/ conflict' = [conflict EXCEPT ![c] = NoPeer] \/ RaiseConflict(c)
      BY <3>4 DEF PassStep, Judge, GiveUp, FindInSync, BeginApply, BeginOverwrite, DeleteLocally,
                  RemovePlanned, DeleteOnPeer, CreateDirs, PullFile, PeerMovedOn, AbortPull, CompletePull, Record,
                  FinishOverwrite
    <3>5. ASSUME NEW c \in Devices, NEW e \in Devices, StartPass(c, e)
          PROVE  UNCHANGED conflict
      BY <3>5 DEF StartPass
    <3> QED BY <3>1, <3>2, <3>3, <3>4, <3>5 DEF Next
  <2>2. conflict \in [Devices -> Devices \cup {NoPeer}] /\ conflict[d] # d /\ d # NoPeer
    BY EngineAssumption DEF Typed, TypeOK, PassesAreWithOthers
  <2>3. ASSUME NEW c \in Devices, RaiseConflict(c)
        PROVE  conflict'[d] # d
    BY <2>2, <2>3 DEF RaiseConflict, Judging, PassesAreWithOthers
  <2> QED BY <2>1, <2>2, <2>3
<1> QED BY <1>1, <1>2, <1>3

\* Clocks only move on, and stay numbers; so do versions and times.
LEMMA NumbersOfAPath ==
    ASSUME TypeOK, NEW d \in Devices, NEW p \in Paths
    PROVE  /\ clock \in Nat /\ known[d][p] \subseteq Nat
           /\ p \in Files(save[d]) => save[d].files[p].hash \in Nat /\ save[d].files[p].mtime \in Nat
           /\ p \in Files(seen[d].remote) =>
                  seen[d].remote.files[p].hash \in Nat /\ seen[d].remote.files[p].mtime \in Nat
<1>1. clock \in Nat /\ known[d][p] \subseteq Nat
  BY EngineAssumption DEF TypeOK
<1>2. \A m \in Manifest : p \in Files(m) => m.files[p].hash \in Nat /\ m.files[p].mtime \in Nat
  BY EngineAssumption DEF Manifest, FileEntry, Files
<1>3. save[d] \in Manifest /\ seen[d].remote \in Manifest
  BY DEF TypeOK, View
<1> QED BY <1>1, <1>2, <1>3

\* New contents and new times are those of the clock.
LEMMA TimesNext ==
    ASSUME Typed, PullsListedFiles, CopiesAreHeld, TimesInOrder, [Next]_vars, [~RestoreStep]_vars
    PROVE  TimesInOrder'
<1> DEFINE InOrder(d, p) ==
               /\ clock \in Nat /\ clock' \in Nat /\ clock <= clock'
               /\ \A c \in known'[d][p] : c <= clock'
               /\ p \in Files(save'[d]) => /\ save'[d].files[p].hash <= save'[d].files[p].mtime
                                           /\ save'[d].files[p].mtime <= clock'
<1>1. ASSUME NEW d \in Devices, NEW p \in Paths
      PROVE  InOrder(d, p)
  <2>1. /\ \A c \in known[d][p] : c <= clock
        /\ p \in Files(save[d]) => /\ save[d].files[p].hash <= save[d].files[p].mtime
                                   /\ save[d].files[p].mtime <= clock
        /\ pc[d] # "idle" /\ p \in Files(seen[d].remote) =>
               /\ seen[d].remote.files[p].hash <= seen[d].remote.files[p].mtime
               /\ seen[d].remote.files[p].mtime <= clock
    BY DEF TimesInOrder, TimesFit
  <2>2. /\ clock \in Nat /\ known[d][p] \subseteq Nat
        /\ p \in Files(save[d]) => save[d].files[p].hash \in Nat /\ save[d].files[p].mtime \in Nat
        /\ p \in Files(seen[d].remote) =>
               seen[d].remote.files[p].hash \in Nat /\ seen[d].remote.files[p].mtime \in Nat
    BY NumbersOfAPath DEF Typed
  <2>3. CASE OnlyRemoves
    <3>1. clock' \in {clock, clock + 1} /\ known'[d][p] = known[d][p]
          /\ save'[d].files[p] \in {NoFile, save[d].files[p]}
      BY <2>3 DEF OnlyRemoves
    <3>2. p \in Files(save'[d]) => p \in Files(save[d]) /\ save'[d].files[p] = save[d].files[p]
      BY <3>1 DEF Files
    <3> QED BY <2>1, <2>2, <3>1, <3>2
  <2>4. ASSUME NEW w \in Devices, NEW q \in Paths, Write(w, q)
        PROVE  InOrder(d, p)
    <3>1. CASE w = d /\ q = p
      <4>1. /\ clock' = clock + 1 /\ known'[d][p] = known[d][p] \cup {clock + 1}
            /\ save'[d].files[p].hash = clock + 1 /\ save'[d].files[p].mtime = clock + 1
        BY <2>4, <3>1, WriteFile
      <4> QED BY <2>1, <2>2, <4>1
    <3>2. CASE ~(w = d /\ q = p)
      <4>1. /\ clock' = clock + 1 /\ known'[d][p] = known[d][p]
            /\ save'[d].files[p] = save[d].files[p]
        BY <2>4, <3>2, WriteFile
      <4>2. p \in Files(save'[d]) <=> p \in Files(save[d])
        BY <4>1 DEF Files
      <4> QED BY <2>1, <2>2, <4>1, <4>2
    <3> QED BY <3>1, <3>2
  <2>5. ASSUME NEW w \in Devices, NEW q \in Paths, PullFile(w, q)
        PROVE  InOrder(d, p)
    <3>1. CASE w = d /\ q = p
      <4>1. /\ clock' = clock /\ known'[d][p] = known[d][p] \cup {seen[d].remote.files[p].hash}
            /\ save'[d].files[p] = seen[d].remote.files[p] /\ p \in Files(seen[d].remote)
            /\ pc[d] # "idle"
        BY <2>5, <3>1, PulledFile
      <4> QED BY <2>1, <2>2, <4>1
    <3>2. CASE ~(w = d /\ q = p)
      <4>1. /\ clock' = clock /\ known'[d][p] = known[d][p]
            /\ save'[d].files[p] = save[d].files[p]
        BY <2>5, <3>2, PulledFile
      <4>2. p \in Files(save'[d]) <=> p \in Files(save[d])
        BY <4>1 DEF Files
      <4> QED BY <2>1, <2>2, <4>1, <4>2
    <3> QED BY <3>1, <3>2
  <2>6. ASSUME NEW w \in Devices, KeepLocal(w)
        PROVE  InOrder(d, p)
    <3>1. /\ clock' = clock + 1 /\ known' = known
          /\ p \in Files(save'[d]) <=> p \in Files(save[d])
          /\ p \in Files(save[d]) => save'[d].files[p].hash = save[d].files[p].hash
          /\ w = d /\ p \in Files(save[d]) => save'[d].files[p].mtime = clock + 1
          /\ w # d => save'[d] = save[d]
      BY <2>6, KeepLocalFile
    <3>2. CASE w = d
      BY <2>1, <2>2, <3>1, <3>2
    <3>3. CASE w # d
      BY <2>1, <2>2, <3>1, <3>3
    <3> QED BY <3>2, <3>3
  <2> QED BY <2>3, <2>4, <2>5, <2>6, SaveKinds
<1> SUFFICES ASSUME NEW d \in Devices
             PROVE  /\ TimesFit(save[d])'
                    /\ pc'[d] # "idle" => TimesFit(seen[d].remote)'
                    /\ \A p \in Paths : \A c \in known'[d][p] : c <= clock'
  BY DEF TimesInOrder
<1>2. TimesFit(save[d])'
  BY <1>1 DEF TimesFit, Files
<1>3. \A m \in Manifest : TimesFit(m) => \A p \in Files(m) : /\ m.files[p].hash <= m.files[p].mtime
                                                           /\ m.files[p].mtime <= clock'
  <2> SUFFICES ASSUME NEW m \in Manifest, TimesFit(m), NEW p \in Files(m)
               PROVE  m.files[p].hash <= m.files[p].mtime /\ m.files[p].mtime <= clock'
    OBVIOUS
  <2>1. p \in Paths /\ m.files[p].mtime \in Nat
    BY EngineAssumption DEF Manifest, FileEntry, Files
  <2>2. clock \in Nat /\ clock' \in Nat /\ clock <= clock'
    BY <1>1, <2>1
  <2> QED BY <2>1, <2>2 DEF TimesFit
<1>4. pc'[d] # "idle" => TimesFit(seen[d].remote)'
  <2>1. \A e \in Devices : save[e] \in Manifest /\ TimesFit(save[e])
    BY DEF Typed, TypeOK, TimesInOrder
  <2>2. pc[d] # "idle" => seen[d].remote \in Manifest /\ TimesFit(seen[d].remote)
    BY DEF Typed, TypeOK, View, TimesInOrder
  <2>3. CASE PassFetched(d)
    BY <1>3, <2>1, <2>3 DEF PassFetched, TimesFit
  <2>4. CASE PassJudged(d)
    BY <1>3, <2>2, <2>4 DEF PassJudged, TimesFit
  <2>5. CASE PassGoesOn(d)
    BY <1>3, <2>2, <2>5 DEF PassGoesOn, TimesFit
  <2> QED BY <2>3, <2>4, <2>5, PassMoves DEF PassOver
<1> QED BY <1>1, <1>2, <1>4

\* Of two devices, one that has a pass or a conflict has it with the other.
LEMMA TheOther ==
    ASSUME TwoDevices, Typed, PassesAreWithOthers, NEW d \in Devices, NEW e \in Devices, d # e
    PROVE  /\ pc[d] # "idle" => partner[d] = e
           /\ conflict[d] # NoPeer => conflict[d] = e
           /\ \A c \in Devices : c = d \/ c = e
    BY DEF TwoDevices, Typed, TypeOK, PassHasPeer, PassesAreWithOthers

\* What the peer had, it still has had after a pull; what is pulled, it has.
LEMMA PulledIsSeen ==
    ASSUME TwoDevices, Typed, PullsListedFiles, CopiesAreHeld, PassesAreWithOthers, [Next]_vars,
           NEW d \in Devices, NEW e \in Devices, d # e, NEW p \in Paths, PullFile(d, p)
    PROVE  ~Unseen(d, e, p)' /\ ~Unseen(e, d, p)'
<1>1. /\ p \in Files(save[e]) /\ save[e].files[p].hash = save'[d].files[p].hash
      /\ known'[d][p] = known[d][p] \cup {save'[d].files[p].hash}
  BY PulledFile, TheOther
<1>2. save'[e].files[p] = save[e].files[p] /\ known'[e][p] = known[e][p]
  BY PulledFile
<1>3. save[e].files[p].hash \in known[e][p]
  BY <1>1 DEF CopiesAreHeld, HeldIn
<1> QED BY <1>1, <1>2, <1>3 DEF Unseen

\* A step that leaves p of d alone, or only its time, shows nothing new to e.
LEMMA SameUnseen ==
    ASSUME Typed, [Next]_vars, NEW d \in Devices, NEW e \in Devices, NEW p \in Paths, Unseen(d, e, p)',
           p \in Files(save'[d]) =>
               p \in Files(save[d]) /\ save'[d].files[p].hash = save[d].files[p].hash
    PROVE  Unseen(d, e, p)
    BY NextGrows DEF Unseen, Grows

\* With one peer, what that peer has not seen is the newest content of a device.
LEMMA NewestNext ==
    ASSUME TwoDevices, Typed, PullsListedFiles, CopiesAreHeld, PassesAreWithOthers, TimesInOrder,
           UnseenIsNewest, [Next]_vars, [~RestoreStep]_vars
    PROVE  UnseenIsNewest'
<1> SUFFICES ASSUME NEW d \in Devices, NEW e \in Devices, NEW p \in Paths, d # e, Unseen(d, e, p)',
                    NEW c \in known'[d][p]
             PROVE  c <= save'[d].files[p].hash
  BY DEF UnseenIsNewest
<1>1. ASSUME known'[d][p] = known[d][p], p \in Files(save[d]), save'[d].files[p].hash = save[d].files[p].hash
      PROVE  c <= save'[d].files[p].hash
  BY <1>1, SameUnseen DEF UnseenIsNewest
<1>2. p \in Files(save'[d])
  BY DEF Unseen
<1>3. CASE OnlyRemoves
  BY <1>1, <1>2, <1>3 DEF OnlyRemoves, Files
<1>4. ASSUME NEW w \in Devices, NEW q \in Paths, Write(w, q)
      PROVE  c <= save'[d].files[p].hash
  <2>1. CASE w = d /\ q = p
    <3>1. save'[d].files[p].hash = clock + 1 /\ known'[d][p] = known[d][p] \cup {clock + 1}
      BY <1>4, <2>1, WriteFile
    <3>2. \A k \in known[d][p] : k <= clock
      BY DEF TimesInOrder
    <3>3. clock \in Nat /\ known[d][p] \subseteq Nat
      BY NumbersOfAPath DEF Typed
    <3> QED BY <3>1, <3>2, <3>3
  <2>2. CASE ~(w = d /\ q = p)
    <3>1. save'[d].files[p] = save[d].files[p] /\ known'[d][p] = known[d][p]
      BY <1>4, <2>2, WriteFile
    <3> QED BY <1>1, <1>2, <3>1 DEF Files
  <2> QED BY <2>1, <2>2
<1>5. ASSUME NEW w \in Devices, NEW q \in Paths, PullFile(w, q)
      PROVE  c <= save'[d].files[p].hash
  <2>1. ~(w = d /\ q = p)
    BY <1>5, PulledIsSeen
  <2>2. save'[d].files[p] = save[d].files[p] /\ known'[d][p] = known[d][p]
    BY <1>5, <2>1, PulledFile
  <2> QED BY <1>1, <1>2, <2>2 DEF Files
<1>6. ASSUME NEW w \in Devices, KeepLocal(w)
      PROVE  c <= save'[d].files[p].hash
  BY <1>1, <1>2, <1>6, KeepLocalFile
<1> QED BY <1>3, <1>4, <1>5, <1>6, SaveKinds

\* d comes to have moved on from what e holds by writing, later; else it had already.
LEMMA MovedOnNext ==
    ASSUME TwoDevices, Typed, PullsListedFiles, CopiesAreHeld, PassesAreWithOthers, TimesInOrder,
           [Next]_vars, [~RestoreStep]_vars,
           NEW d \in Devices, NEW e \in Devices, d # e, NEW p \in Paths, MovedOn(d, e, p)'
    PROVE  \/ LaterThan(d, e, p)'
           \/ KeepLocal(e)
           \/ /\ MovedOn(d, e, p)
              /\ save'[d].files[p] = save[d].files[p] /\ save'[e].files[p] = save[e].files[p]
<1>1. /\ Unseen(d, e, p)' /\ p \in Files(save'[d]) /\ p \in Files(save'[e])
      /\ save'[e].files[p].hash \in known'[d][p]
  BY DEF MovedOn, Unseen
<1>2. ASSUME save'[d].files[p] = save[d].files[p], save'[e].files[p] = save[e].files[p],
             known'[d][p] = known[d][p]
      PROVE  MovedOn(d, e, p)
  BY <1>1, <1>2, SameUnseen DEF MovedOn, Files
<1>3. /\ clock \in Nat /\ known[d][p] \subseteq Nat
      /\ p \in Files(save[e]) => save[e].files[p].mtime \in Nat /\ save[e].files[p].mtime <= clock
      /\ \A k \in known[d][p] : k <= clock
  BY NumbersOfAPath DEF Typed, TimesInOrder, TimesFit
<1>4. CASE OnlyRemoves
  <2>1. /\ save'[d].files[p] \in {NoFile, save[d].files[p]} /\ save'[e].files[p] \in {NoFile, save[e].files[p]}
        /\ known' = known
    BY <1>4 DEF OnlyRemoves
  <2>2. save'[d].files[p] = save[d].files[p] /\ save'[e].files[p] = save[e].files[p]
    BY <1>1, <2>1 DEF Files
  <2> QED BY <1>2, <2>1, <2>2
<1>5. ASSUME NEW w \in Devices, NEW q \in Paths, Write(w, q)
      PROVE  LaterThan(d, e, p)' \/ (/\ MovedOn(d, e, p) /\ save'[d].files[p] = save[d].files[p]
                                     /\ save'[e].files[p] = save[e].files[p])
  <2>1. CASE w = d /\ q = p
    <3>1. save'[d].files[p].mtime = clock + 1 /\ save'[e].files[p] = save[e].files[p]
      BY <1>5, <2>1, WriteFile
    <3> QED BY <1>1, <1>3, <3>1 DEF LaterThan, Files
  <2>2. CASE w = e /\ q = p
    <3>1. save'[e].files[p].hash = clock + 1 /\ known'[d][p] = known[d][p]
      BY <1>5, <2>2, WriteFile
    <3> QED BY <1>1, <1>3, <3>1
  <2>3. CASE q # p \/ w \notin {d, e}
    BY <1>2, <1>5, <2>3, WriteFile
  <2> QED BY <2>1, <2>2, <2>3
<1>6. ASSUME NEW w \in Devices, NEW q \in Paths, PullFile(w, q)
      PROVE  /\ MovedOn(d, e, p) /\ save'[d].files[p] = save[d].files[p]
             /\ save'[e].files[p] = save[e].files[p]
  <2>1. ~(w \in {d, e} /\ q = p)
    BY <1>1, <1>6, PulledIsSeen
  <2> QED BY <1>2, <1>6, <2>1, PulledFile
<1>7. ASSUME NEW w \in Devices, KeepLocal(w), w # e
      PROVE  LaterThan(d, e, p)'
  <2>1. w = d
    BY <1>7, TheOther
  <2>2. /\ p \in Files(save[d]) /\ save'[d].files[p].mtime = clock + 1 /\ save'[e] = save[e]
    BY <1>1, <1>7, <2>1, KeepLocalFile
  <2> QED BY <1>1, <1>3, <2>2 DEF LaterThan
<1> QED BY <1>4, <1>5, <1>6, <1>7, SaveKinds

\* A resolution that is over has taken all that it saw of the peer.
LEMMA OverwriteHasTaken ==
    ASSUME PassAccountsForRemote, NEW e \in Devices, FinishOverwrite(e), NEW p \in Files(seen[e].remote)
    PROVE  seen[e].remote.files[p].hash \in known[e][p]
<1>1. resolving[e] /\ Judged(e) /\ StillToPull(e) = {}
  BY DEF FinishOverwrite, Judged, StillToPull
<1> QED BY <1>1 DEF PassAccountsForRemote, Accounted

\* What has moved on is later, or its peer's user kept the older version.
LEMMA LaterNext ==
    ASSUME TwoDevices, Typed, PullsListedFiles, CopiesAreHeld, PassAccountsForRemote, LaterWins,
           [Next]_vars, [~RestoreStep]_vars
    PROVE  UnseenIsLater'
<1> SUFFICES ASSUME NEW d \in Devices, NEW e \in Devices, NEW p \in Paths, d # e, MovedOn(d, e, p)',
                    ~LaterThan(d, e, p)'
             PROVE  decreed'[e][d].kept > 0
  BY DEF UnseenIsLater
<1>1. CASE KeepLocal(e)
  <2>1. conflict[e] = d /\ clock \in Nat
    BY <1>1, TheOther, NumbersOfAPath DEF KeepLocal, LaterWins, Typed
  <2>2. decreed'[e][d].kept = clock + 1
    BY <1>1, <2>1 DEF KeepLocal, Typed, TypeOK
  <2> QED BY <2>1, <2>2
<1>2. CASE ~KeepLocal(e)
  <2>1. /\ MovedOn(d, e, p)
        /\ save'[d].files[p] = save[d].files[p] /\ save'[e].files[p] = save[e].files[p]
    BY <1>2, MovedOnNext DEF LaterWins
  <2>2. ~LaterThan(d, e, p)
    BY <2>1 DEF LaterThan
  <2>3. decreed[e][d].kept > 0
    BY <2>1, <2>2 DEF LaterWins, UnseenIsLater
  <2>4. ~(FinishOverwrite(e) /\ partner[e] = d)
    <3> SUFFICES ASSUME FinishOverwrite(e), partner[e] = d
                 PROVE  FALSE
      OBVIOUS
    <3>1. HashAt(seen[e].remote, p) = save[d].files[p].hash
      BY <2>1, <2>2 DEF FinishOverwrite, LaterWins, OverwritesWithLater
    <3>2. save[d].files[p].hash \in Versions
      BY <2>1 DEF MovedOn, Unseen, Files, Typed, TypeOK, Manifest, FileEntry
    <3>3. p \in Files(seen[e].remote) /\ seen[e].remote.files[p].hash = save[d].files[p].hash
      BY <3>1, <3>2, DecisionAssumption DEF HashAt, Files
    <3> QED BY <2>1, <3>3, OverwriteHasTaken DEF MovedOn, Unseen
  <2> QED BY <1>2, <2>3, <2>4, KeptMoves
<1> QED BY <1>1, <1>2

\* A resolution under way takes what it saw, and what came after is later.
LEMMA OverwritesNext ==
    ASSUME TwoDevices, Typed, PullsListedFiles, CopiesAreHeld, LaterWins,
           Typed', PassesAreWithOthers', [Next]_vars, [~RestoreStep]_vars
    PROVE  OverwritesWithLater'
<1> SUFFICES ASSUME NEW e \in Devices, resolving'[e], NEW p \in Paths, NEW d \in Devices, d = partner'[e],
                    MovedOn(d, e, p)', ~LaterThan(d, e, p)'
             PROVE  HashAt(seen'[e].remote, p) = save'[d].files[p].hash
  <2>1. \A e \in Devices : resolving'[e] => partner'[e] \in Devices
    BY DEF PassesAreWithOthers, Typed, PassHasPeer
  <2> QED BY <2>1 DEF OverwritesWithLater, MovedOn, Unseen, LaterThan
<1>1. PassesAreWithOthers /\ (resolving[e] => pc[e] # "idle")
  BY DEF LaterWins, PassesAreWithOthers
<1>2. CASE KeepRemote(e)
  <2>1. seen'[e].remote = save[d] /\ UNCHANGED save
    BY <1>2 DEF KeepRemote, Typed, TypeOK, View
  <2> QED BY <2>1 DEF MovedOn, Unseen, Files, HashAt
<1>3. CASE PassJudged(e) \/ PassGoesOn(e)
  <2>1. resolving[e] /\ partner[e] = d /\ seen'[e].remote = seen[e].remote
    BY <1>3 DEF PassJudged, PassGoesOn
  <2>2. d # e
    BY <1>1, <2>1 DEF PassesAreWithOthers
  <2>3. ~KeepLocal(e)
    BY <2>1 DEF KeepLocal
  <2>4. /\ MovedOn(d, e, p)
        /\ save'[d].files[p] = save[d].files[p] /\ save'[e].files[p] = save[e].files[p]
    BY <2>2, <2>3, MovedOnNext DEF LaterWins
  <2>5. ~LaterThan(d, e, p)
    BY <2>4 DEF LaterThan
  <2> QED BY <2>1, <2>4, <2>5 DEF LaterWins, OverwritesWithLater
<1>4. CASE PassFetched(e) /\ ~KeepRemote(e)
  <2>1. StartPass(e, partner'[e])
    BY <1>4 DEF PassFetched
  <2>2. resolving[e] /\ pc[e] = "idle"
    BY <2>1 DEF StartPass
  <2> QED BY <1>1, <2>2
<1> QED BY <1>2, <1>3, <1>4, PassMoves DEF PassOver

\* Together.
LEMMA LaterWinsInit == Init => LaterWins
<1> SUFFICES ASSUME Init
             PROVE  LaterWins
  OBVIOUS
<1>1. PassesAreWithOthers
  BY EngineAssumption DEF Init, PassesAreWithOthers
<1>2. \A d \in Devices : \A p \in Files(save[d]) : /\ save[d].files[p] = [hash |-> 1, mtime |-> 1]
                                                   /\ \A e \in Devices : known[e][p] = {1}
  <2>1. CASE FreshStart
    BY <2>1 DEF FreshStart, EmptyManifest, Files
  <2>2. CASE SyncedStart
    BY <2>2 DEF SyncedStart, SharedSave, Files
  <2> QED BY <2>1, <2>2 DEF Init
<1>3. \A d \in Devices : \A p \in Paths : known[d][p] \subseteq {1}
  BY DEF Init, FreshStart, SyncedStart
<1>4. TimesInOrder
  BY <1>2, <1>3 DEF Init, TimesInOrder, TimesFit
<1>5. \A d, e \in Devices : \A p \in Paths : ~Unseen(d, e, p)
  BY <1>2 DEF Unseen
<1> QED BY <1>1, <1>4, <1>5 DEF LaterWins, UnseenIsNewest, UnseenIsLater, MovedOn, Init, OverwritesWithLater

LEMMA LaterWinsNext ==
    ASSUME TwoDevices, Typed, PullsListedFiles, Remembered, LaterWins,
           [Next]_vars, [~RestoreStep]_vars
    PROVE  LaterWins'
<1>1. PassesAreWithOthers'
  BY OthersNext DEF LaterWins
<1>2. TimesInOrder'
  BY TimesNext DEF LaterWins, Remembered
<1>3. UnseenIsNewest'
  BY NewestNext DEF LaterWins, Remembered
<1>4. UnseenIsLater'
  BY LaterNext DEF Remembered
<1>5. OverwritesWithLater'
  BY <1>1, TypedNext, TypedStutter, OverwritesNext DEF Remembered
<1> QED BY <1>1, <1>2, <1>3, <1>4, <1>5 DEF LaterWins

\* What a sync that asks nobody overwrites, once a merge-base is known, the peer has had.
LEMMA OverwritesKnown ==
    ASSUME Typed, Remembered, LaterWins, NEW d \in Devices, JudgesPeerAsItIs(d),
           agreed'[d][partner[d]] # NoHash, NEW p \in Paths, Overwrites(d, p)
    PROVE  HashAt(save[d], p) \in known[partner[d]][p]
<1> DEFINE e == partner[d]
           l == save[d]
           r == save[e]
<1>1. /\ BeginApply(d) /\ seen[d].remote = r /\ pc[d] = "fetched"
      /\ ~decreed[d][e].base /\ decreed[e][d].kept = 0
  BY DEF JudgesPeerAsItIs, BeginApply, Judging
<1>2. e \in Devices /\ e # d /\ l \in Manifest /\ r \in Manifest
  BY <1>1 DEF Typed, TypeOK, PassHasPeer, LaterWins, PassesAreWithOthers
<1>3. /\ p \in Files(l) /\ p \in Files(r) /\ l.files[p].hash # r.files[p].hash
      /\ ~(l.files[p].mtime > r.files[p].mtime)
  <2>1. plan'[d] = Compute(l, r, lineage[d][e])
    BY <1>1 DEF BeginApply, Verdict, Typed, TypeOK
  <2>2. p \in FilesToPull(l, r, lineage[d][e]) /\ p \in Files(l)
    BY <2>1 DEF Overwrites, Compute
  <2> QED BY <2>2 DEF FilesToPull, RemoteNewer, LocalNewer, Differing
<1>4. HashAt(l, p) = l.files[p].hash /\ HashAt(r, p) = r.files[p].hash
  BY <1>3 DEF HashAt, Files
<1>5. ManifestHash(l).files[p] = l.files[p].hash /\ ManifestHash(r).files[p] = r.files[p].hash
  BY <1>4 DEF ManifestHash
<1>6. l.files[p].hash # NoFile /\ r.files[p].hash # NoFile
  BY <1>2, <1>3, DecisionAssumption DEF Manifest, FileEntry, Files
<1>7. ManifestHash(l) # ManifestHash(r) /\ ~SameFiles(l, r)
  BY <1>3, <1>5 DEF SameFiles
<1> SUFFICES ASSUME l.files[p].hash \notin known[e][p]
             PROVE  FALSE
  BY <1>4
<1>8. /\ HealedRow(d).agreed = agreed'[d][e]
      /\ HealedRow(d) = Healed(l, r, agreed[d][e], pushed[d][e])
  BY <1>1, <1>2 DEF BeginApply, StoreHealing, HealedRow, Typed, TypeOK
<1>9. agreed'[d][e] \in {ManifestHash(l), ManifestHash(r)}
  <2>1. ~DetectConflict(l, r, lastSynced[d][e], agreed'[d][e])
    BY <1>1, <1>8 DEF BeginApply, MustAsk
  <2> QED BY <1>7, <2>1 DEF DetectConflict, BothMovedOff
<1>10. agreed[d][e] = agreed'[d][e] \/ (pushed[d][e] = ManifestHash(r) /\ agreed'[d][e] = ManifestHash(r))
  BY <1>7, <1>8 DEF Healed, SameFilesHeal, LandedPushHeal
<1>11. agreed[d][e] # NoHash =>
          HashHeldIn(agreed[d][e], known[d]) /\ HashHeldIn(agreed[d][e], known[e])
  BY <1>1, <1>2 DEF Remembered, RowHeld, BaseRowHeld
<1>12. CASE agreed'[d][e] = ManifestHash(l)
  <2>1. agreed[d][e] = ManifestHash(l) /\ agreed[d][e] # NoHash
    BY <1>7, <1>10, <1>12
  <2>2. l.files[p].hash \in known[e][p]
    BY <1>5, <1>6, <1>11, <2>1 DEF HashHeldIn
  <2> QED BY <2>2
<1>13. CASE agreed'[d][e] = ManifestHash(r)
  <2>1. HashHeldIn(ManifestHash(r), known[d])
    <3>1. HashHeldIn(pushed[d][e], known[d])
      BY <1>2 DEF Remembered, CopiesAreHeld
    <3> QED BY <1>10, <1>11, <1>13, <3>1
  <2>2. r.files[p].hash \in known[d][p]
    BY <1>5, <1>6, <1>13, <2>1 DEF HashHeldIn
  <2>3. MovedOn(d, e, p)
    BY <1>3, <2>2 DEF MovedOn, Unseen
  <2>4. LaterThan(d, e, p) \/ decreed[e][d].kept > 0
    BY <1>2, <2>3 DEF LaterWins, UnseenIsLater
  <2> QED BY <1>1, <1>3, <2>4 DEF LaterThan
<1> QED BY <1>9, <1>12, <1>13

\* Of two devices whose users restore no snapshot, none loses to a sync, unasked,
\* what the other never had: through overlapping passes, crashes, lost and late
\* reports, deletions and resolutions, a merge-base that equals one side means that
\* the other side is the later one on every path (DetectConflict, Compute, pullFiles).
THEOREM OverwritesOnlyWhatPeerHad ==
    ASSUME TwoDevices
    PROVE  Spec /\ [][~RestoreStep]_vars => NoSilentOverwrite
<1> DEFINE Sees == \A d \in Devices : JudgesPeerAsItIs(d) /\ agreed'[d][partner[d]] # NoHash =>
                       \A p \in Paths : Overwrites(d, p) => HashAt(save[d], p) \in known[partner[d]][p]
<1>1. Init => LaterWins
  BY LaterWinsInit
<1>2. /\ Typed /\ PullsListedFiles /\ Remembered /\ LaterWins
      /\ [Next]_vars /\ [~RestoreStep]_vars
      => LaterWins'
  BY LaterWinsNext
<1>3. Typed /\ Remembered /\ LaterWins => [Sees]_vars
  BY OverwritesKnown
<1>4. NoSilentOverwrite <=> [][Sees]_vars
  BY PTL DEF NoSilentOverwrite
<1> HIDE DEF Sees
<1> QED BY <1>1, <1>2, <1>3, <1>4, EngineTyped, EngineRemembers, PTL DEF Spec

-----------------------------------------------------------------------------
(* Overwriting what no snapshot holds                                      *)

\* The hash a device counts as captured, and the one a pass read, are of snapshots it
\* has: for users who resolve nothing, who never start an overwrite.
CapturedIsArchived ==
    \A d \in Devices : /\ ~resolving[d]
                       /\ captured[d] \in archived[d] \cup {NoHash}
                       /\ seen[d].captured \in archived[d] \cup {NoHash}

\* Snapshots stay.
LEMMA ArchivesGrow ==
    ASSUME Typed, [Next]_vars, NEW d \in Devices
    PROVE  archived[d] \subseteq archived'[d]
<1>1. ASSUME NEW c \in Devices, Snapshot(c) \/ UNCHANGED archived
      PROVE  archived[d] \subseteq archived'[d]
  BY <1>1 DEF Snapshot, Typed, TypeOK
<1>2. CASE Edit
  <2>1. \/ UNCHANGED archived
        \/ \E c \in Devices : Snapshot(c)
    BY <1>2 DEF Edit, Write, Remove, MakeDir, RemoveDir, Restore
  <2> QED BY <1>1, <2>1
<1>3. CASE React
  BY <1>1, <1>3 DEF React, ConfirmInSync, StartRefresh, LoseReport, RecordRefresh
<1>4. ASSUME NEW c \in Devices, Capture(c) \/ Crash(c) \/ Resolve(c) \/ FailingStep(c)
      PROVE  Snapshot(c) \/ UNCHANGED archived
  BY <1>4 DEF Capture, Crash, Resolve, KeepLocal, KeepRemote, FailingStep, FailLocalDeletion, RemovePlanned,
              FailPull, AbortPull, FailDeleteOnPeer
<1>5. ASSUME NEW c \in Devices, PassStep(c)
      PROVE  Snapshot(c) \/ UNCHANGED archived
  BY <1>5 DEF PassStep, Judge, GiveUp, RaiseConflict, FindInSync, BeginApply, BeginOverwrite, DeleteLocally,
              RemovePlanned, DeleteOnPeer, CreateDirs, PullFile, PeerMovedOn, AbortPull, CompletePull, Record,
              FinishOverwrite
<1>6. ASSUME NEW c \in Devices, NEW e \in Devices, StartPass(c, e)
      PROVE  UNCHANGED archived
  BY <1>6 DEF StartPass
<1>7. CASE UNCHANGED vars
  BY <1>1, <1>7
<1> QED BY <1>1, <1>2, <1>3, <1>4, <1>5, <1>6, <1>7 DEF Next

\* Where nobody resolves, only a capture and the start of a pass touch these fields.
LEMMA CapturedNext ==
    ASSUME Answers = {}, Typed, CapturedIsArchived, [Next]_vars
    PROVE  CapturedIsArchived'
<1> SUFFICES ASSUME NEW d \in Devices
             PROVE  /\ ~resolving'[d]
                    /\ captured'[d] \in archived'[d] \cup {NoHash}
                    /\ seen'[d].captured \in archived'[d] \cup {NoHash}
  BY DEF CapturedIsArchived
<1> DEFINE moves == /\ resolving'[d] \in {resolving[d], FALSE} /\ captured'[d] = captured[d]
                    /\ seen'[d].captured \in {seen[d].captured, captured[d], NoHash}
           takes == /\ resolving'[d] = resolving[d] /\ seen'[d] = seen[d]
                    /\ captured'[d] \in archived'[d]
<1> SUFFICES moves \/ takes
  BY ArchivesGrow DEF CapturedIsArchived
<1>1. \A c \in Devices : ~KeepLocal(c) /\ ~KeepRemote(c) /\ ~BeginOverwrite(c) /\ ~FinishOverwrite(c)
  BY DEF CapturedIsArchived, KeepLocal, KeepRemote, BeginOverwrite, FinishOverwrite
<1>2. UNCHANGED <<resolving, captured, seen>> => moves
  OBVIOUS
<1>3. ASSUME NEW c \in Devices, EndPass(c), UNCHANGED captured
      PROVE  moves
  BY <1>3 DEF EndPass, NothingSeen, Typed, TypeOK
<1>4. ASSUME NEW c \in Devices, Capture(c)
      PROVE  moves \/ takes
  BY <1>4 DEF Capture, Snapshot, Typed, TypeOK
<1>5. ASSUME NEW c \in Devices, NEW e \in Devices, StartPass(c, e)
      PROVE  moves
  BY <1>5 DEF StartPass, Typed, TypeOK
<1>6. ASSUME NEW c \in Devices, BeginApply(c)
      PROVE  moves
  BY <1>6 DEF BeginApply, Typed, TypeOK, View
<1>7. CASE Edit
  BY <1>2, <1>7 DEF Edit, Write, Remove, MakeDir, RemoveDir, Restore
<1>8. CASE React
  BY <1>2, <1>8 DEF React, ConfirmInSync, StartRefresh, LoseReport, RecordRefresh
<1>9. ASSUME NEW c \in Devices, \/ Crash(c) \/ GiveUp(c) \/ RaiseConflict(c) \/ FindInSync(c)
                                \/ PeerMovedOn(c) \/ FailPull(c) \/ Record(c)
      PROVE  EndPass(c) /\ UNCHANGED captured
  BY <1>9 DEF Crash, GiveUp, RaiseConflict, FindInSync, PeerMovedOn, FailPull, AbortPull, Record
<1>10. ASSUME NEW c \in Devices, \/ DeleteLocally(c) \/ FailLocalDeletion(c) \/ CreateDirs(c) \/ CompletePull(c)
                                 \/ \E x \in Paths \cup Dirs : DeleteOnPeer(c, x) \/ FailDeleteOnPeer(c, x)
                                 \/ \E p \in Paths : PullFile(c, p)
       PROVE  UNCHANGED <<resolving, captured, seen>>
  BY <1>10 DEF DeleteLocally, FailLocalDeletion, RemovePlanned, CreateDirs, CompletePull, DeleteOnPeer,
               FailDeleteOnPeer, PullFile
<1>11. CASE UNCHANGED vars
  BY <1>2, <1>11
<1> QED BY <1>1, <1>2, <1>3, <1>4, <1>5, <1>6, <1>7, <1>8, <1>9, <1>10, <1>11
        DEF Next, Resolve, PassStep, Judge, FailingStep

\* Where no user resolves a conflict, a sync overwrites no file that a capture missed:
\* what a pass read as captured is a snapshot's, and the judgement compares it with
\* the save as it is by then (the uncaptured-changes check of SyncWithPeer).
THEOREM OverwritesOnlyCaptured ==
    ASSUME Answers = {}
    PROVE  Spec => JudgesCapturedFiles
<1> DEFINE Keeps == \A d \in Devices : BeginApply(d) /\ seen[d].captured # NoHash =>
                        \A p \in Paths : Overwrites(d, p) => Archived(d, p)
<1>1. Init => CapturedIsArchived
  BY DEF Init, FreshStart, SyncedStart, NothingSeen, CapturedIsArchived
<1>2. Typed /\ CapturedIsArchived /\ [Next]_vars => CapturedIsArchived'
  BY CapturedNext
<1>3. Typed /\ CapturedIsArchived => [Keeps]_vars
  <2> SUFFICES ASSUME Typed, CapturedIsArchived, NEW d \in Devices, BeginApply(d), seen[d].captured # NoHash,
                      NEW p \in Paths, Overwrites(d, p)
               PROVE  Archived(d, p)
    OBVIOUS
  <2>1. Verdict(d).pull # {}
    BY DEF BeginApply, Overwrites, Typed, TypeOK
  <2>2. seen[d].captured = ManifestHash(save[d])
    BY <2>1 DEF BeginApply, MustAsk, UncapturedOverwrite
  <2>3. ManifestHash(save[d]) \in archived[d]
    BY <2>2 DEF CapturedIsArchived
  <2> QED BY <2>3 DEF Archived, ManifestHash
<1>4. JudgesCapturedFiles <=> [][Keeps]_vars
  BY PTL DEF JudgesCapturedFiles
<1> HIDE DEF Keeps
<1> QED BY <1>1, <1>2, <1>3, <1>4, EngineTyped, PTL DEF Spec
================================================================================
