---------------------------- MODULE SyncExchange ----------------------------
(***************************************************************************)
(* What one undisturbed sync between two devices amounts to.  Both devices *)
(* start from a state of the past they agreed on (or from nothing in       *)
(* common), their users change the save folder, and each device then       *)
(* judges the same pair of manifests with SyncDecision, exactly as         *)
(* SyncWithPeer does, and applies its own plan.  No message is lost and    *)
(* nobody edits meanwhile: SyncEngine.tla is the same exchange taken apart *)
(* into the steps between which all of that happens.                       *)
(*                                                                         *)
(* The module answers a question about the decision alone: is the outcome  *)
(* a three-way merge?                                                      *)
(***************************************************************************)
EXTENDS SyncDecision

CONSTANTS
    BaseVersion,    \* the content every file of the common past has
    BaseMtime,      \* the time every file of the common past has
    NoBase          \* "the two devices never converged on this game"

ASSUME ExchangeAssumption ==
    /\ BaseVersion \in Versions
    /\ BaseMtime \in Mtimes
    /\ NoBase \notin Manifest

VARIABLES
    base,       \* manifest both devices held at their last convergence, or NoBase
    here,       \* this device's save
    there,      \* the peer's save
    stage,      \* "apart", then "exchanged" or "asked" (a conflict was raised)
    before      \* <<here, there>> as the users left them

vars == <<base, here, there, stage, before>>

-----------------------------------------------------------------------------
(* The pass of one device against the peer's manifest                      *)

Agreed == IF base = NoBase THEN NoHash ELSE ManifestHash(base)

LastLineage == IF base = NoBase THEN EmptyLineage ELSE IntersectLineage(base, base)

\* Never synced, or synced when the common past was current.
LastSync == IF base = NoBase THEN 0 ELSE BaseMtime

\* The peer holds the same files: SyncWithPeer moves the base first.
HealedBase(l, r) ==
    IF Agreed # NoHash /\ Agreed # ManifestHash(l) /\ SameFiles(l, r)
    THEN ManifestHash(l) ELSE Agreed

Asks(l, r) ==
    \/ DetectConflict(l, r, LastSync, HealedBase(l, r))
    \/ IsMassDeletion(Compute(l, r, LastLineage), LastLineage)

MutantPullsLater(l, r, mine, theirs) ==
    [files |-> [p \in Paths |-> IF p \in mine.pull
                                THEN [r.files[p] EXCEPT !.mtime = @ + 1] ELSE l.files[p]],
     dirs  |-> l.dirs \cup mine.pullDirs]

\* The save of a device after it applied its plan and the peer's deletions.
Applied(l, r, mine, theirs) ==
    LET gone == mine.deleteLocally \cup theirs.deleteOnPeer
        goneDirs == mine.deleteDirsLocally \cup theirs.deleteDirsOnPeer
    IN  [files |-> [p \in Paths |-> IF p \in mine.pull THEN r.files[p]
                                    ELSE IF p \in gone THEN NoFile
                                    ELSE l.files[p]],
         dirs  |-> (l.dirs \ goneDirs) \cup mine.pullDirs]

-----------------------------------------------------------------------------

CommonPast == {m \in Manifest : \A p \in Files(m) :
                   m.files[p] = [hash |-> BaseVersion, mtime |-> BaseMtime]}

\* A user edits, deletes or creates; an untouched file keeps its old entry.
LeftBehindBy(b) ==
    {m \in Manifest : \A p \in Files(m) :
        m.files[p].hash = BaseVersion => b # NoBase /\ m.files[p] = b.files[p]}

Init ==
    /\ base \in CommonPast \cup {NoBase}
    /\ here \in LeftBehindBy(base)
    /\ there \in LeftBehindBy(base)
    /\ before = <<here, there>>
    /\ stage = "apart"

\* One side or the other cannot decide and asks its user.
Ask ==
    /\ stage = "apart"
    /\ Asks(here, there) \/ Asks(there, here)
    /\ stage' = "asked"
    /\ UNCHANGED <<base, here, there, before>>

Exchange ==
    /\ stage = "apart"
    /\ ~Asks(here, there) /\ ~Asks(there, here)
    /\ LET mine   == Compute(here, there, LastLineage)
           theirs == Compute(there, here, LastLineage)
       IN  /\ here'  = Applied(here, there, mine, theirs)
           /\ there' = Applied(there, here, theirs, mine)
    /\ stage' = "exchanged"
    /\ UNCHANGED <<base, before>>

Next == Ask \/ Exchange

Spec == Init /\ [][Next]_vars

-----------------------------------------------------------------------------
(* What an exchange promises                                               *)

TypeOK ==
    /\ base \in Manifest \cup {NoBase}
    /\ here \in Manifest /\ there \in Manifest
    /\ stage \in {"apart", "exchanged", "asked"}
    /\ before \in Manifest \X Manifest

\* Two different contents under one path with one and the same time.
Tie == \E p \in Differing(before[1], before[2]) :
           before[1].files[p].mtime = before[2].files[p].mtime

\* After an exchange both devices hold the same files and folders, whatever
\* their clocks said: what one side pulls is what the other decided to push,
\* and what one deletes is what the other asked it to delete.  (With a tie
\* each side pulls the other's copy: "remote winning ties" is not symmetric.)
ExchangeConverges ==
    stage = "exchanged" /\ ~Tie => ManifestHash(here) = ManifestHash(there)

Unchanged(m) == base # NoBase /\ ManifestHash(m) = ManifestHash(base)

\* Every file a user wrote since the common past is newer than the past.
HonestClocks == \A s \in {1, 2} : \A p \in Files(before[s]) :
    before[s].files[p].hash # BaseVersion => before[s].files[p].mtime > BaseMtime

\* Once both sides know their common past, an exchange keeps exactly the files
\* of the side that changed: nothing it edited is reverted, nothing it deleted
\* comes back, nothing it created is dropped.  This is what a merge-base is for
\* (SyncWithPeer), provided that the clocks agree that an edit came later.
ChangedSideWins ==
    stage = "exchanged" /\ HonestClocks =>
        /\ Unchanged(before[2]) => SameFiles(here, before[1]) /\ SameFiles(there, before[1])
        /\ Unchanged(before[1]) => SameFiles(here, before[2]) /\ SameFiles(there, before[2])

\* Folders merge three ways even where both sides changed them, because they
\* never raise a conflict by themselves: kept if both have it, or if one side
\* made it; gone if one side removed it.
FoldersMerge ==
    stage = "exchanged" /\ base # NoBase =>
        here.dirs = {x \in before[1].dirs \cup before[2].dirs :
                        x \in before[1].dirs \cap before[2].dirs \/ x \notin base.dirs}

\* Two devices that never agreed on anything lose nothing in their first
\* exchange: every file either side had survives on both, with its content.
FirstContactKeepsEverything ==
    stage = "exchanged" /\ base = NoBase =>
        \A s \in {1, 2} : \A p \in Files(before[s]) :
            /\ HashAt(here, p) = before[s].files[p].hash
            /\ HashAt(there, p) = before[s].files[p].hash
=============================================================================
