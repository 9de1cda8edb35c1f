----------------------------- MODULE SyncEngine -----------------------------
(***************************************************************************)
(* The sync engine (internal/p2p/syncengine/engine.go, conflict.go) on     *)
(* every device that tracks one game, with everything that happens between *)
(* two of its steps: the users play, the watchers take snapshots, reports  *)
(* are lost or arrive late, a peer deletes a file, a user resolves a       *)
(* conflict, the app restarts.                                             *)
(*                                                                         *)
(* A pass of SyncWithPeer is split where the code lets the world move: the *)
(* fetch of the peer's manifest, the judgement on the local manifest, the  *)
(* local deletions, each deletion on the peer, each pulled file, and the   *)
(* final bookkeeping.  A device runs one pass at a time (SyncGame's        *)
(* activeSyncs).  Left out: branches, block transfer (a pulled file either *)
(* commits as a whole or fails), progress reports.  TriggerPeerPull only    *)
(* hints that the peer may start a pass, which a peer of the model may do  *)
(* whenever it is idle.  Clocks agree: SyncExchange.tla is where they do   *)
(* not.  Folders hold none of Paths (the code removes only empty ones).    *)
(***************************************************************************)
EXTENDS SyncDecision

CONSTANTS
    Devices,        \* paired devices that track the game
    NoPeer,         \* "no active conflict", "no pass"
    Watched,        \* the devices whose snapshots are followed
    Answers,        \* how users answer conflicts: "keep-local", "keep-remote"
    MaxClock,       \* bound: ticks of the clock, by edits and (the last one) answers
    MaxFaults,      \* bound: crashes, lost reports, failed steps
    MaxReports      \* bound: reports and refreshes under way; further reports are lost

ASSUME EngineAssumption ==
    /\ NoPeer \notin Devices
    /\ Watched \subseteq Devices
    /\ Answers \subseteq {"keep-local", "keep-remote"}
    /\ MaxClock \in Nat \ {0} /\ MaxFaults \in Nat /\ MaxReports \in Nat
    /\ Versions = 1..MaxClock
    /\ Mtimes = 1..MaxClock
    /\ Paths \cap Dirs = {}

VARIABLES
    \* On disk, per device: the save folder and the database.
    save,           \* the save folder
    agreed,         \* game_peer_sync_state.agreed_hash, per peer
    pushed,         \* game_peer_sync_state.pushed_hash, per peer
    lineage,        \* last_synced_files and last_synced_dirs, per peer
    lastSynced,     \* peers.last_synced, per peer; 0 if never
    captured,       \* games.last_manifest_hash
    archived,       \* what the snapshots of a watched device hold
    \* In memory, per device.
    conflict,       \* activeConflicts[game]: the peer it is with, or NoPeer
    pc,             \* where the device's pass stands
    partner,        \* the peer of that pass
    resolving,      \* the pass is a keep-remote resolution
    seen,           \* what the pass read: captured hash, local and remote manifest
    plan,           \* what the pass decided
    todo,           \* what of it is left in the present stage
    refreshes,      \* RefreshLineage calls that fetched and did not record yet
    \* Between the devices.
    reports,        \* what a device still has to hear and react to
    \* The environment.
    clock, faults,
    \* History, which no action reads: what the properties need to remember.
    known,          \* known[d][p]: contents device d has had under p
    decreed         \* decreed[d][e]: rows that a resolution wrote, not a sync

rows    == <<agreed, pushed, lineage, lastSynced>>
backups == <<captured, archived>>
pass    == <<pc, partner, resolving, seen, plan, todo>>
history == <<known, decreed>>
vars    == <<save, rows, backups, conflict, pass, refreshes, reports,
             clock, faults, history>>

-----------------------------------------------------------------------------
(* State                                                                   *)

Hashes == ContentHash \cup {NoHash}

Steps == {"idle", "fetched", "deleting", "propagating", "creating", "pulling", "finishing"}

View == [captured : Hashes, local : Manifest, remote : Manifest]

NothingSeen == [captured |-> NoHash, local |-> EmptyManifest, remote |-> EmptyManifest]

\* An "in-sync" report carries a manifest hash.  A "sync-complete" does not, and
\* neither does the refresh handleDeleteFile owes after a peer's deletion: both
\* make the receiver refresh its lineage.
ReportOf == [to : Devices, from : Devices, hash : Hashes]

RefreshOf == [on : Devices, of : Devices, remote : Manifest]

\* Rows a resolution wrote and no sync since, and when the user last chose to keep the
\* local version.
Decree == [lineage : BOOLEAN, base : BOOLEAN, kept : 0..MaxClock]

Undecreed == [lineage |-> FALSE, base |-> FALSE, kept |-> 0]

LineageSynced(row) == [row EXCEPT !.lineage = FALSE]

BaseSynced(row) == [row EXCEPT !.base = FALSE]

RowSynced(row) == [row EXCEPT !.lineage = FALSE, !.base = FALSE]

Send(from, to, hash) ==
    reports' = IF Cardinality(reports) + Cardinality(refreshes) < MaxReports
               THEN reports \cup {[to |-> to, from |-> from, hash |-> hash]}
               ELSE reports

Snapshot(d) ==
    archived' = IF d \in Watched
                THEN [archived EXCEPT ![d] = @ \cup {ManifestHash(save[d])}]
                ELSE archived

TypeOK ==
    /\ save \in [Devices -> Manifest]
    /\ agreed \in [Devices -> [Devices -> Hashes]]
    /\ pushed \in [Devices -> [Devices -> Hashes]]
    /\ lineage \in [Devices -> [Devices -> Lineage]]
    /\ lastSynced \in [Devices -> [Devices -> 0..MaxClock]]
    /\ captured \in [Devices -> Hashes]
    /\ archived \in [Devices -> SUBSET ContentHash]
    /\ conflict \in [Devices -> Devices \cup {NoPeer}]
    /\ pc \in [Devices -> Steps]
    /\ partner \in [Devices -> Devices \cup {NoPeer}]
    /\ resolving \in [Devices -> BOOLEAN]
    /\ seen \in [Devices -> View]
    /\ plan \in [Devices -> Decision]
    /\ todo \in [Devices -> SUBSET (Paths \cup Dirs)]
    /\ refreshes \subseteq RefreshOf
    /\ reports \subseteq ReportOf
    /\ clock \in 1..MaxClock
    /\ faults \in 0..MaxFaults
    /\ known \in [Devices -> [Paths -> SUBSET Versions]]
    /\ decreed \in [Devices -> [Devices -> Decree]]

\* Each start is a state the devices really reach: nothing on either side, or
\* one save both hold, synced, and captured where it is watched.
FreshStart ==
    /\ save = [d \in Devices |-> EmptyManifest]
    /\ agreed = [d \in Devices |-> [e \in Devices |-> NoHash]]
    /\ lineage = [d \in Devices |-> [e \in Devices |-> EmptyLineage]]
    /\ lastSynced = [d \in Devices |-> [e \in Devices |-> 0]]
    /\ captured = [d \in Devices |-> NoHash]
    /\ archived = [d \in Devices |-> {}]
    /\ known = [d \in Devices |-> [p \in Paths |-> {}]]

SharedSave == [files |-> [p \in Paths |-> [hash |-> 1, mtime |-> 1]], dirs |-> Dirs]

SyncedStart ==
    /\ save = [d \in Devices |-> SharedSave]
    /\ agreed = [d \in Devices |-> [e \in Devices |-> ManifestHash(SharedSave)]]
    /\ lineage = [d \in Devices |-> [e \in Devices |-> [files |-> Paths, dirs |-> Dirs]]]
    /\ lastSynced = [d \in Devices |-> [e \in Devices |-> 1]]
    /\ captured = [d \in Devices |-> IF d \in Watched THEN ManifestHash(SharedSave) ELSE NoHash]
    /\ archived = [d \in Devices |-> IF d \in Watched THEN {ManifestHash(SharedSave)} ELSE {}]
    /\ known = [d \in Devices |-> [p \in Paths |-> {1}]]

Init ==
    /\ FreshStart \/ SyncedStart
    /\ pushed = [d \in Devices |-> [e \in Devices |-> NoHash]]
    /\ conflict = [d \in Devices |-> NoPeer]
    /\ pc = [d \in Devices |-> "idle"]
    /\ partner = [d \in Devices |-> NoPeer]
    /\ resolving = [d \in Devices |-> FALSE]
    /\ seen = [d \in Devices |-> NothingSeen]
    /\ plan = [d \in Devices |-> NoDecision]
    /\ todo = [d \in Devices |-> {}]
    /\ refreshes = {} /\ reports = {}
    /\ clock = 1 /\ faults = 0
    /\ decreed = [d \in Devices |-> [e \in Devices |-> Undecreed]]

-----------------------------------------------------------------------------
(* The users, the watchers and the failures                                *)

Tick == clock < MaxClock /\ clock' = clock + 1

\* Edits leave the last tick to an answer, so that what the last edit stirred up can
\* still be resolved.
EditTick == clock + 1 < MaxClock /\ Tick

Fault == faults < MaxFaults /\ faults' = faults + 1

\* A new content nobody has had.
Write(d, p) ==
    /\ EditTick
    /\ save' = [save EXCEPT ![d].files[p] = [hash |-> clock + 1, mtime |-> clock + 1]]
    /\ known' = [known EXCEPT ![d][p] = @ \cup {clock + 1}]
    /\ UNCHANGED <<rows, backups, conflict, pass, refreshes, reports, faults, decreed>>

Remove(d, p) ==
    /\ EditTick
    /\ p \in Files(save[d])
    /\ save' = [save EXCEPT ![d].files[p] = NoFile]
    /\ UNCHANGED <<rows, backups, conflict, pass, refreshes, reports, faults, history>>

MakeDir(d, x) ==
    /\ EditTick
    /\ x \notin save[d].dirs
    /\ save' = [save EXCEPT ![d].dirs = @ \cup {x}]
    /\ UNCHANGED <<rows, backups, conflict, pass, refreshes, reports, faults, history>>

RemoveDir(d, x) ==
    /\ EditTick
    /\ x \in save[d].dirs
    /\ save' = [save EXCEPT ![d].dirs = @ \ {x}]
    /\ UNCHANGED <<rows, backups, conflict, pass, refreshes, reports, faults, history>>

\* The watcher's handleChange: snapshot what the last snapshot does not hold.
Capture(d) ==
    /\ d \in Watched
    /\ ManifestHash(save[d]) # captured[d]
    /\ captured' = [captured EXCEPT ![d] = ManifestHash(save[d])]
    /\ Snapshot(d)
    /\ UNCHANGED <<save, rows, conflict, pass, refreshes, reports, clock, faults, history>>

\* Restore: the snapshot replaces the save, its files' times are now, and what
\* it replaces is snapshotted first (a failure of that is only logged).
Restore(d, s) ==
    /\ EditTick
    /\ s # ManifestHash(save[d])
    /\ save' = [save EXCEPT ![d] =
           [files |-> [p \in Paths |-> IF s.files[p] = NoFile THEN NoFile
                                       ELSE [hash |-> s.files[p], mtime |-> clock + 1]],
            dirs  |-> s.dirs]]
    /\ known' = [known EXCEPT ![d] = [p \in Paths |-> @[p] \cup ({s.files[p]} \ {NoFile})]]
    /\ \/ save[d] # EmptyManifest /\ Snapshot(d) /\ UNCHANGED faults
       \/ save[d] = EmptyManifest /\ UNCHANGED <<archived, faults>>
       \/ Fault /\ UNCHANGED archived
    /\ UNCHANGED <<rows, captured, conflict, pass, refreshes, reports, decreed>>

EndPass(d) ==
    /\ pc' = [pc EXCEPT ![d] = "idle"]
    /\ partner' = [partner EXCEPT ![d] = NoPeer]
    /\ resolving' = [resolving EXCEPT ![d] = FALSE]
    /\ seen' = [seen EXCEPT ![d] = NothingSeen]
    /\ plan' = [plan EXCEPT ![d] = NoDecision]
    /\ todo' = [todo EXCEPT ![d] = {}]

\* The app dies: passes, conflicts and background refreshes are only in memory.
Crash(d) ==
    /\ Fault
    /\ EndPass(d)
    /\ conflict' = [conflict EXCEPT ![d] = NoPeer]
    /\ refreshes' = {r \in refreshes : r.on # d}
    /\ UNCHANGED <<save, rows, backups, reports, clock, history>>

\* ReportSyncEvent is fire-and-forget, and a refresh whose fetch fails returns.
LoseReport(m) ==
    /\ Fault
    /\ reports' = reports \ {m}
    /\ UNCHANGED <<save, rows, backups, conflict, pass, refreshes, clock, history>>

-----------------------------------------------------------------------------
(* The stages of a pass, without the ones that have nothing to do          *)

\* createPulledDirs, then pullFiles recreates every folder the peer had.
DirsToCreate(pl, r) == pl.pullDirs \cup (IF pl.pull = {} THEN {} ELSE r.dirs)

AfterCreating(pl) == IF pl.pull = {} THEN "finishing" ELSE "pulling"

AfterPropagating(pl, r) == IF DirsToCreate(pl, r) = {} THEN AfterCreating(pl) ELSE "creating"

AfterDeleting(pl, r) ==
    IF pl.deleteOnPeer \cup pl.deleteDirsOnPeer = {} THEN AfterPropagating(pl, r) ELSE "propagating"

AfterJudging(pl, r) ==
    IF pl.deleteLocally \cup pl.deleteDirsLocally = {} THEN AfterDeleting(pl, r) ELSE "deleting"

Enter(d, stage, pl) ==
    /\ pc' = [pc EXCEPT ![d] = stage]
    /\ todo' = [todo EXCEPT ![d] =
           CASE stage = "propagating" -> pl.deleteOnPeer \cup pl.deleteDirsOnPeer
             [] stage = "pulling"     -> pl.pull
             [] OTHER                 -> {}]

-----------------------------------------------------------------------------
(* SyncWithPeer: fetch and judge                                           *)

StartPass(d, e) ==
    /\ d # e
    /\ pc[d] = "idle"
    /\ pc' = [pc EXCEPT ![d] = "fetched"]
    /\ partner' = [partner EXCEPT ![d] = e]
    /\ seen' = [seen EXCEPT ![d] = [captured |-> captured[d],
                                    local    |-> EmptyManifest,
                                    remote   |-> save[e]]]
    /\ UNCHANGED <<save, rows, backups, conflict, resolving, plan, todo,
                   refreshes, reports, clock, faults, history>>

\* The two repairs of a merge-base that a lost report left behind: the sides
\* hold the same files, or the peer holds exactly what was last pushed to it.
\* SetAgreedHash forgets the push either way.
SameFilesHeal(l, r, base) == base \notin {NoHash, ManifestHash(l)} /\ SameFiles(l, r)

MutantAnyPushLanded(r, base, push) == push # NoHash
LandedPushHeal(r, base, push) == base # ManifestHash(r) /\ push = ManifestHash(r)

Healed(l, r, base, push) ==
    LET base1 == IF SameFilesHeal(l, r, base) THEN ManifestHash(l) ELSE base
        push1 == IF SameFilesHeal(l, r, base) THEN NoHash ELSE push
    IN  IF LandedPushHeal(r, base1, push1)
        THEN [agreed |-> ManifestHash(r), pushed |-> NoHash]
        ELSE [agreed |-> base1, pushed |-> push1]

HealedRow(d) == Healed(save[d], seen[d].remote,
                       agreed[d][partner[d]], pushed[d][partner[d]])

Verdict(d) == Compute(save[d], seen[d].remote, lineage[d][partner[d]])

\* The three reasons to ask the user instead of syncing: a two-way divergence,
\* a mass deletion, local changes no snapshot holds yet about to be overwritten.
MutantGuardsFirstContact(d) ==
    /\ Verdict(d).pull # {}
    /\ agreed[d][partner[d]] = NoHash
    /\ seen[d].captured \notin {NoHash, ManifestHash(save[d])}

UncapturedOverwrite(d) ==
    /\ Verdict(d).pull # {}
    /\ seen[d].captured \notin {NoHash, ManifestHash(save[d])}

MustAsk(d) ==
    \/ DetectConflict(save[d], seen[d].remote, lastSynced[d][partner[d]], HealedRow(d).agreed)
    \/ IsMassDeletion(Verdict(d), lineage[d][partner[d]])
    \/ UncapturedOverwrite(d)

Judging(d) == pc[d] = "fetched" /\ ~resolving[d]

StoreHealing(d) ==
    /\ agreed' = [agreed EXCEPT ![d][partner[d]] = HealedRow(d).agreed]
    /\ pushed' = [pushed EXCEPT ![d][partner[d]] = HealedRow(d).pushed]
    /\ decreed' = [decreed EXCEPT ![d][partner[d]] =
                       IF HealedRow(d).agreed = agreed[d][partner[d]] THEN @ ELSE BaseSynced(@)]

\* An unresolved conflict blocks the game.
GiveUp(d) ==
    /\ Judging(d)
    /\ conflict[d] # NoPeer
    /\ EndPass(d)
    /\ UNCHANGED <<save, rows, backups, conflict, refreshes, reports, clock, faults, history>>

RaiseConflict(d) ==
    /\ Judging(d)
    /\ conflict[d] = NoPeer
    /\ MustAsk(d)
    /\ StoreHealing(d)
    /\ conflict' = [conflict EXCEPT ![d] = partner[d]]
    /\ EndPass(d)
    /\ UNCHANGED <<save, lineage, lastSynced, backups, refreshes, reports,
                   clock, faults, known>>

\* What persistLineage, SetAgreedHash and UpdatePeerLastSynced write together
\* when the caller took d and e to hold the same save m.
RecordConvergence(d, e, m, now) ==
    /\ lineage' = [lineage EXCEPT ![d][e] = IntersectLineage(m, m)]
    /\ agreed' = [agreed EXCEPT ![d][e] = ManifestHash(m)]
    /\ pushed' = [pushed EXCEPT ![d][e] = NoHash]
    /\ lastSynced' = [lastSynced EXCEPT ![d][e] = now]

SendInSync(d, e) == Send(d, e, ManifestHash(save[d]))

\* Nothing to do means equal paths: the intersection with the peer's manifest
\* is the intersection of the local manifest with itself.
FindInSync(d) ==
    /\ Judging(d)
    /\ conflict[d] = NoPeer
    /\ ~MustAsk(d)
    /\ ~HasChanges(Verdict(d))
    /\ RecordConvergence(d, partner[d], save[d], clock)
    /\ decreed' = [decreed EXCEPT ![d][partner[d]] = RowSynced(@)]
    /\ SendInSync(d, partner[d])
    /\ EndPass(d)
    /\ UNCHANGED <<save, backups, conflict, refreshes, clock, faults, known>>

BeginApply(d) ==
    /\ Judging(d)
    /\ conflict[d] = NoPeer
    /\ ~MustAsk(d)
    /\ HasChanges(Verdict(d))
    /\ StoreHealing(d)
    /\ seen' = [seen EXCEPT ![d].local = save[d]]
    /\ plan' = [plan EXCEPT ![d] = Verdict(d)]
    /\ Enter(d, AfterJudging(Verdict(d), seen[d].remote), Verdict(d))
    /\ UNCHANGED <<save, lineage, lastSynced, backups, conflict, partner, resolving,
                   refreshes, reports, clock, faults, known>>

Judge(d) == GiveUp(d) \/ RaiseConflict(d) \/ FindInSync(d) \/ BeginApply(d)

-----------------------------------------------------------------------------
(* SyncWithPeer: apply                                                     *)

\* The planned paths go whatever they hold by now; kept are those os.Remove
\* failed on, which nothing records.
RemovePlanned(d, kept) ==
    /\ pc[d] = "deleting"
    /\ save' = [save EXCEPT
           ![d].files = [p \in Paths |-> IF p \in plan[d].deleteLocally \ kept THEN NoFile ELSE @[p]],
           ![d].dirs  = @ \ plan[d].deleteDirsLocally]
    /\ Enter(d, AfterDeleting(plan[d], seen[d].remote), plan[d])
    /\ UNCHANGED <<rows, backups, conflict, partner, resolving, seen, plan,
                   refreshes, reports, clock, history>>

DeleteLocally(d) == RemovePlanned(d, {}) /\ UNCHANGED faults

FailLocalDeletion(d) ==
    /\ Fault
    /\ \E kept \in SUBSET plan[d].deleteLocally : kept # {} /\ RemovePlanned(d, kept)

\* One request of propagateDeletions is over; the last one ends the stage.
Propagated(d, x) ==
    /\ pc[d] = "propagating"
    /\ x \in todo[d]
    /\ IF todo[d] = {x}
       THEN Enter(d, AfterPropagating(plan[d], seen[d].remote), plan[d])
       ELSE todo' = [todo EXCEPT ![d] = @ \ {x}] /\ UNCHANGED pc

\* DeleteRemote and the peer's handleDeleteFile: the peer removes whatever it
\* holds under the path, then re-derives its own rows in the background.
DeleteOnPeer(d, x) ==
    LET e == partner[d]
        present == x \in Files(save[e]) \cup save[e].dirs
    IN  /\ Propagated(d, x)
        /\ save' = [save EXCEPT
               ![e].files = [p \in Paths |-> IF p = x THEN NoFile ELSE @[p]],
               ![e].dirs  = @ \ {x}]
        /\ IF present THEN Send(d, e, NoHash) ELSE UNCHANGED reports
        /\ UNCHANGED <<rows, backups, conflict, partner, resolving, seen, plan,
                       refreshes, clock, faults, history>>

\* The request failed: a warning is logged and the pass goes on.
FailDeleteOnPeer(d, x) ==
    /\ Fault
    /\ Propagated(d, x)
    /\ UNCHANGED <<save, rows, backups, conflict, partner, resolving, seen, plan,
                   refreshes, reports, clock, history>>

CreateDirs(d) ==
    /\ pc[d] = "creating"
    /\ save' = [save EXCEPT ![d].dirs = @ \cup DirsToCreate(plan[d], seen[d].remote)]
    /\ Enter(d, AfterCreating(plan[d]), plan[d])
    /\ UNCHANGED <<rows, backups, conflict, partner, resolving, seen, plan,
                   refreshes, reports, clock, faults, history>>

\* The blocks come from the peer's file as it is now, and Commit checks the
\* hash of the manifest: the pull works only while the peer still holds it.
PullFile(d, p) ==
    LET entry == seen[d].remote.files[p]
    IN  /\ pc[d] = "pulling"
        /\ p \in todo[d]
        /\ HashAt(save[partner[d]], p) = entry.hash
        /\ save' = [save EXCEPT ![d].files[p] = entry]
        /\ known' = [known EXCEPT ![d][p] = @ \cup {entry.hash}]
        /\ todo' = [todo EXCEPT ![d] = @ \ {p}]
        /\ UNCHANGED <<rows, backups, conflict, pc, partner, resolving, seen, plan,
                       refreshes, reports, clock, faults, decreed>>

\* The pass ends with an error; what was applied stays and nothing is recorded.
AbortPull(d) ==
    /\ pc[d] = "pulling"
    /\ EndPass(d)
    /\ UNCHANGED <<save, rows, backups, conflict, refreshes, reports, clock, history>>

PeerMovedOn(d) ==
    /\ AbortPull(d)
    /\ \E p \in todo[d] : HashAt(save[partner[d]], p) # HashAt(seen[d].remote, p)
    /\ UNCHANGED faults

FailPull(d) == Fault /\ AbortPull(d)

\* The peer's latest snapshot, if it has one not mirrored yet, is recorded here
\* as an archive of this device's own files.
CompletePull(d) ==
    /\ pc[d] = "pulling"
    /\ todo[d] = {}
    /\ \/ Snapshot(d)
       \/ UNCHANGED archived
    /\ Send(d, partner[d], NoHash)
    /\ pc' = [pc EXCEPT ![d] = "finishing"]
    /\ UNCHANGED <<save, rows, captured, conflict, partner, resolving, seen, plan, todo,
                   refreshes, clock, faults, history>>

\* A pass that changed nothing on the peer now holds the peer's state.
HandsOver(d) ==
    \/ HasPush(plan[d])
    \/ plan[d].deleteOnPeer # {} \/ plan[d].deleteDirsOnPeer # {}

Record(d) ==
    LET e == partner[d]
        fresh == save[d]
    IN  /\ pc[d] = "finishing"
        /\ ~resolving[d]
        /\ lineage' = [lineage EXCEPT ![d][e] =
               IntersectLineage(MergeManifestPaths(fresh, seen[d].local), seen[d].remote)]
        /\ IF HandsOver(d)
           THEN /\ pushed' = [pushed EXCEPT ![d][e] = ManifestHash(fresh)]
                /\ decreed' = [decreed EXCEPT ![d][e] = LineageSynced(@)]
                /\ UNCHANGED agreed
           ELSE /\ agreed' = [agreed EXCEPT ![d][e] = ManifestHash(seen[d].remote)]
                /\ pushed' = [pushed EXCEPT ![d][e] = NoHash]
                /\ decreed' = [decreed EXCEPT ![d][e] = RowSynced(@)]
        /\ lastSynced' = [lastSynced EXCEPT ![d][e] = clock]
        /\ EndPass(d)
        /\ UNCHANGED <<save, backups, conflict, refreshes, reports, clock, faults, known>>

-----------------------------------------------------------------------------
(* Reports and RefreshLineage                                              *)

\* ConfirmInSync: identity proved again on this side's own files ...
ConfirmInSync(m) ==
    /\ m.hash = ManifestHash(save[m.to])
    /\ reports' = reports \ {m}
    /\ RecordConvergence(m.to, m.from, save[m.to], clock)
    /\ decreed' = [decreed EXCEPT ![m.to][m.from] = RowSynced(@)]
    /\ UNCHANGED <<save, backups, conflict, pass, refreshes, clock, faults, known>>

\* ... or not any more, or it was a report of another kind: RefreshLineage
\* fetches the peer's manifest,
StartRefresh(m) ==
    /\ m.hash # ManifestHash(save[m.to])
    /\ reports' = reports \ {m}
    /\ refreshes' = refreshes \cup {[on |-> m.to, of |-> m.from, remote |-> save[m.from]]}
    /\ UNCHANGED <<save, rows, backups, conflict, pass, clock, faults, history>>

\* and records what it finds shared by then.
RecordRefresh(r) ==
    LET d == r.on
        e == r.of
        same == ManifestHash(save[d]) = ManifestHash(r.remote)
    IN  /\ refreshes' = refreshes \ {r}
        /\ lineage' = [lineage EXCEPT ![d][e] = IntersectLineage(save[d], r.remote)]
        /\ agreed' = IF same THEN [agreed EXCEPT ![d][e] = ManifestHash(save[d])] ELSE agreed
        /\ pushed' = IF same THEN [pushed EXCEPT ![d][e] = NoHash] ELSE pushed
        /\ decreed' = [decreed EXCEPT ![d][e] = IF same THEN RowSynced(@) ELSE LineageSynced(@)]
        /\ UNCHANGED <<save, lastSynced, backups, conflict, pass, reports, clock, faults, known>>

-----------------------------------------------------------------------------
(* ResolveConflict                                                         *)

\* Every file's time becomes now, and this version counts as agreed.
Touched(m, now) ==
    [m EXCEPT !.files = [p \in Paths |-> IF @[p] = NoFile THEN NoFile
                                         ELSE [hash |-> @[p].hash, mtime |-> now]]]

KeepLocal(d) ==
    /\ "keep-local" \in Answers
    /\ conflict[d] # NoPeer
    /\ ~resolving[d]
    /\ Tick
    /\ save' = [save EXCEPT ![d] = Touched(save[d], clock + 1)]
    /\ RecordConvergence(d, conflict[d], save[d], clock + 1)
    /\ decreed' = [decreed EXCEPT ![d][conflict[d]] =
                       [lineage |-> TRUE, base |-> TRUE, kept |-> clock + 1]]
    /\ captured' = [captured EXCEPT ![d] = ManifestHash(save[d])]
    /\ conflict' = [conflict EXCEPT ![d] = NoPeer]
    /\ UNCHANGED <<archived, pass, refreshes, reports, faults, known>>

\* Keep-remote: a safety snapshot (a failure of it is only logged), then the
\* peer's state over this one through the same steps as a pass.
KeepRemote(d) ==
    /\ "keep-remote" \in Answers
    /\ conflict[d] # NoPeer
    /\ pc[d] = "idle"
    /\ \/ Snapshot(d) /\ UNCHANGED faults
       \/ Fault /\ UNCHANGED archived
    /\ pc' = [pc EXCEPT ![d] = "fetched"]
    /\ partner' = [partner EXCEPT ![d] = conflict[d]]
    /\ resolving' = [resolving EXCEPT ![d] = TRUE]
    /\ seen' = [seen EXCEPT ![d].remote = save[conflict[d]]]
    /\ UNCHANGED <<save, rows, captured, conflict, plan, todo, refreshes, reports,
                   clock, history>>

OverwritePlan(l, r) ==
    [NoDecision EXCEPT !.deleteLocally = Files(l) \ Files(r),
                       !.pull = (Files(r) \ Files(l)) \cup Differing(l, r)]

BeginOverwrite(d) ==
    /\ pc[d] = "fetched"
    /\ resolving[d]
    /\ seen' = [seen EXCEPT ![d].local = save[d]]
    /\ LET pl == OverwritePlan(save[d], seen[d].remote)
       IN  /\ plan' = [plan EXCEPT ![d] = pl]
           /\ Enter(d, AfterJudging(pl, seen[d].remote), pl)
    /\ UNCHANGED <<save, rows, backups, conflict, partner, resolving,
                   refreshes, reports, clock, faults, history>>

\* markResolvedConverged: whatever the save holds now counts as agreed.
FinishOverwrite(d) ==
    /\ pc[d] = "finishing"
    /\ resolving[d]
    /\ RecordConvergence(d, partner[d], save[d], clock)
    /\ decreed' = [decreed EXCEPT ![d][partner[d]] = [lineage |-> TRUE, base |-> TRUE, kept |-> 0]]
    /\ captured' = [captured EXCEPT ![d] = ManifestHash(save[d])]
    /\ conflict' = [conflict EXCEPT ![d] = NoPeer]
    /\ SendInSync(d, partner[d])
    /\ EndPass(d)
    /\ \/ plan[d].pull = {} /\ Snapshot(d)
       \/ UNCHANGED archived
    /\ UNCHANGED <<save, refreshes, clock, faults, known>>

-----------------------------------------------------------------------------
(* The system                                                              *)

Edit == \E d \in Devices : \/ \E p \in Paths : Write(d, p) \/ Remove(d, p)
                           \/ \E x \in Dirs : MakeDir(d, x) \/ RemoveDir(d, x)
                           \/ \E s \in archived[d] : Restore(d, s)

Resolve(d) == KeepLocal(d) \/ KeepRemote(d)

\* The steps a running pass takes by itself.
PassStep(d) ==
    \/ Judge(d) \/ BeginOverwrite(d)
    \/ DeleteLocally(d)
    \/ \E x \in Paths \cup Dirs : DeleteOnPeer(d, x)
    \/ CreateDirs(d)
    \/ \E p \in Paths : PullFile(d, p)
    \/ PeerMovedOn(d) \/ CompletePull(d)
    \/ Record(d) \/ FinishOverwrite(d)

FailingStep(d) ==
    \/ FailLocalDeletion(d) \/ FailPull(d)
    \/ \E x \in Paths \cup Dirs : FailDeleteOnPeer(d, x)

React ==
    \/ \E m \in reports : ConfirmInSync(m) \/ StartRefresh(m) \/ LoseReport(m)
    \/ \E r \in refreshes : RecordRefresh(r)

Next ==
    \/ Edit \/ React
    \/ \E d \in Devices : Capture(d) \/ Crash(d) \/ Resolve(d) \/ PassStep(d) \/ FailingStep(d)
    \/ \E d, e \in Devices : StartPass(d, e)

Spec == Init /\ [][Next]_vars

\* The reconcile loop keeps starting passes while the peer is online, and a
\* started pass runs on.  Reports, refreshes, watchers and users owe nothing.
FairSpec ==
    /\ Spec
    /\ \A d \in Devices : WF_vars(PassStep(d))
    /\ \A d, e \in Devices : WF_vars(StartPass(d, e))

-----------------------------------------------------------------------------
(* Properties                                                              *)

\* A path enters the lineage only when both sides have had it: "in the lineage
\* but missing over there" is what the engine reads as a deletion.  (The
\* lineage that a conflict resolution decreed is judged by KeptVersionStays.)
LineageHeldByBoth ==
    \A d, e \in Devices : \A p \in lineage[d][e].files :
        d # e /\ ~decreed[d][e].lineage => known[d][p] # {} /\ known[e][p] # {}

\* Every file of the merge-base is a content that both sides have had, through
\* every heal, ratchet, late report and late refresh (SetAgreedHash).
MergeBaseHeldByBoth ==
    \A d, e \in Devices : \A p \in Paths :
        d # e /\ agreed[d][e] # NoHash /\ ~decreed[d][e].base
              /\ agreed[d][e].files[p] # NoFile
            => agreed[d][e].files[p] \in known[d][p] \cap known[e][p]

\* d passes the judgement and is about to pull p over a content of its own.
Overwrites(d, p) == p \in plan'[d].pull \cap Files(save[d])

\* d judges, unasked, a peer it sees as it is: no resolution decreed its rows, and the
\* peer's user has never kept a version against d's.
JudgesPeerAsItIs(d) ==
    LET e == partner[d]
    IN  /\ BeginApply(d) /\ seen[d].remote = save[e]
        /\ ~decreed[d][e].lineage /\ ~decreed[d][e].base /\ decreed[e][d].kept = 0

\* Once a merge-base is known, a sync that nobody was asked about overwrites
\* only contents the peer has had: what it offers instead came after them
\* (DetectConflict flags a conflict whenever both sides changed).  A version its
\* user kept may replace one it never had: the user chose so.  For two devices, and
\* users who restore no snapshot: a peer restored to the merge-base itself, or
\* one that holds it while this device went back to an older save of a third,
\* counts as unchanged, yet its files' times are newer than what is here.
NoSilentOverwrite ==
    [][\A d \in Devices : JudgesPeerAsItIs(d) /\ agreed'[d][partner[d]] # NoHash =>
          \A p \in Paths : Overwrites(d, p) =>
              HashAt(save[d], p) \in known[partner[d]][p]]_vars

\* The same from the very first contact on: "Nothing is overwritten without
\* your choice" (USER_GUIDE.md).
NothingOverwrittenUnasked ==
    [][\A d \in Devices : JudgesPeerAsItIs(d) =>
          \A p \in Paths : Overwrites(d, p) =>
              HashAt(save[d], p) \in known[partner[d]][p]]_vars

\* A sync that sees the peer as it is deletes a file here only if the peer had
\* had that very content: only then can the peer have deleted it.
NoSilentDeletion ==
    [][\A d \in Devices : JudgesPeerAsItIs(d) /\ agreed'[d][partner[d]] # NoHash =>
          \A p \in plan'[d].deleteLocally : HashAt(save[d], p) \in known[partner[d]][p]]_vars

\* What the user chose to keep is not deleted by a later sync, unless the peer
\* had that content and deleted it: "keep this device's version as-is"
\* (ResolveConflict).
KeptVersionStays ==
    [][\A d \in Devices : BeginApply(d) /\ seen[d].remote = save[partner[d]]
                            /\ decreed[d][partner[d]].lineage =>
          \A p \in plan'[d].deleteLocally : HashAt(save[d], p) \in known[partner[d]][p]]_vars

\* After "keep this version" a sync overwrites a file only with one whose time is
\* not before the answer, so never with the version the user turned down.
\* (Otherwise "OUR version would be pulled away, silently undoing the user's
\* choice", markResolvedLocal.)
KeptVersionWins ==
    [][\A d \in Devices : BeginApply(d) /\ seen[d].remote = save[partner[d]] =>
          \A p \in Paths : Overwrites(d, p) =>
              seen[d].remote.files[p].mtime >= decreed[d][partner[d]].kept]_vars

\* Some snapshot of d holds what it has under p.
Archived(d, p) == \E s \in archived[d] : s.files[p] = HashAt(save[d], p)

\* Once a save has been captured, a sync decides to overwrite a file only if a
\* snapshot holds it: else "those unsaved changes would be lost"
\* (SyncWithPeer).  For users who resolve no conflict: a resolution declares the
\* save captured without a snapshot of it.
JudgesCapturedFiles ==
    [][\A d \in Devices : BeginApply(d) /\ seen[d].captured # NoHash =>
          \A p \in Paths : Overwrites(d, p) => Archived(d, p)]_vars

\* The devices hold the same files, or one of them asks its user.
Settled == \/ \E d \in Devices : conflict[d] # NoPeer
           \/ \A d, e \in Devices : SameFiles(save[d], save[e])

Overlap == \E d, e \in Devices : d # e /\ pc[d] # "idle" /\ pc[e] # "idle"

\* When edits and failures stop, the devices settle: the reconcile loop is "the
\* eventual-consistency backstop" (StartResyncLoop).  Provided that two devices
\* do not keep running their passes against each other at the same time: then
\* each may for ever pull the file that the other deletes.
SettledUnlessPassesKeepOverlapping == <>[]~Overlap => <>[]Settled
=============================================================================
