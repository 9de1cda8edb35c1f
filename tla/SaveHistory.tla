------------------------------ MODULE SaveHistory ------------------------------
(***************************************************************************)
(* The save folder of one game, its branches and its snapshots, on one     *)
(* device: Create, Restore, CreateBranch, SwitchBranch, DeleteBranch and   *)
(* PruneAllGames of snapshot/snapshot.go, and the import of a backup file  *)
(* (api/routes_backup.go).  Nothing but the choice of a snapshot's id is   *)
(* under a lock: goroutines work on the folder, the archives and the rows  *)
(* one step at a time, and a second process shares all three.              *)
(*                                                                         *)
(* A save is a number, 1 for an empty folder.  A snapshot's id is the      *)
(* millisecond it was claimed for.                                         *)
(***************************************************************************)
EXTENDS Naturals, FiniteSets

CONSTANTS
    Actors,         \* goroutines
    Processes,
    ProcessOf,      \* the process a goroutine runs in: each has its own lock on ids
    Does,           \* what a goroutine may be asked to do
    Branches, Main, NoBranch,
    Leftovers,      \* branches with a conflict- name
    MaxAuto,        \* game.MaxSnapshots, automatic snapshots kept per branch (0: all)
    MaxManual,      \* game.MaxManualSnapshots
    MaxClock,       \* bound: milliseconds
    MaxId,          \* bound: ids walked to
    MaxSave,        \* bound: contents of the save
    MaxTasks,       \* bound: operations begun
    MaxFaults       \* bound: failed steps and crashes

Ids == 1..MaxId
Empty == 1
Missing == 0
Contents == 0..MaxSave
Ops == {"create", "restore", "switch", "branch", "delete", "cleanup", "import", "track"}

ASSUME HistoryAssumption ==
    /\ Main \in Branches /\ NoBranch \notin Branches
    /\ Leftovers \subseteq Branches
    /\ ProcessOf \in [Actors -> Processes]
    /\ Does \in [Actors -> SUBSET Ops]
    /\ MaxAuto \in Nat /\ MaxManual \in Nat
    /\ MaxClock \in Nat \ {0} /\ MaxId \in Nat /\ MaxClock <= MaxId
    /\ MaxSave \in Nat \ {0, 1} /\ MaxTasks \in Nat /\ MaxFaults \in Nat

VARIABLES
    save,           \* what the save folder holds
    tracked,        \* there is a row for the game
    active,         \* games.active_branch
    branches,       \* branch rows
    rows,           \* snapshot rows, by id
    archives,       \* the backups directory: backups/game/branch/id.zip
    aside,          \* copies in backups/_import-safety
    tasks,          \* what each goroutine is at
    clock,
    newest,         \* contents of the save so far
    begun, faults,
    taken,          \* history: what the save held when a snapshot was taken of it
    imported,       \* history: ids that imports chose, without the lock
    given,          \* history: contents whose snapshot the user gave up
    home,           \* history: the branch whose save the folder holds
    seeded          \* history: branches made with a copy of the save

disk    == <<save, archives, aside>>
game    == <<tracked, active, branches, rows>>
bounds  == <<clock, newest, begun, faults>>
history == <<taken, imported, given, home, seeded>>
vars    == <<disk, game, tasks, bounds, history>>

-----------------------------------------------------------------------------
(* State                                                                   *)

Row == [branch : Branches \cup {NoBranch}, auto : BOOLEAN]
NoRow == [branch |-> NoBranch, auto |-> FALSE]

Steps == {"idle", "zip", "claim", "name", "insert", "prune", "open", "fill", "clear", "flip",
          "latest", "drop", "sweep", "place", "register", "aside", "enter"}

Task == [op     : Ops \cup {"none"},
         step   : Steps,
         onto   : Branches \cup {NoBranch},     \* the branch the snapshot lands on
         target : Branches \cup {NoBranch},     \* the branch switched to, made or deleted
         auto   : BOOLEAN,
         staged : Contents,                     \* the staging archive
         id     : 0..MaxId,                     \* the id to claim
         old    : 0..MaxId,                     \* the snapshot to restore
         source : Contents,                     \* the copy to restore from
         safe   : BOOLEAN,                      \* that copy was made
         listed : SUBSET Branches,
         doomed : SUBSET Ids]

NoTask == [op |-> "none", step |-> "idle", onto |-> NoBranch, target |-> NoBranch, auto |-> TRUE,
           staged |-> Missing, id |-> 0, old |-> 0, source |-> Missing, safe |-> FALSE, listed |-> {}, doomed |-> {}]

TypeOK ==
    /\ save \in Contents \ {Missing}
    /\ tracked \in BOOLEAN
    /\ active \in Branches
    /\ branches \subseteq Branches
    /\ rows \in [Ids -> Row]
    /\ archives \in [Branches -> [Ids -> Contents]]
    /\ aside \subseteq Contents
    /\ tasks \in [Actors -> Task]
    /\ clock \in 1..MaxClock /\ newest \in 1..MaxSave
    /\ begun \in 0..MaxTasks /\ faults \in 0..MaxFaults
    /\ taken \in [Ids -> Contents]
    /\ imported \subseteq Ids /\ given \subseteq Contents
    /\ home \in Branches
    /\ seeded \subseteq Branches

\* A game just tracked, with or without a save.
Init ==
    /\ newest = 2 /\ save \in {Empty, newest}
    /\ tracked = TRUE /\ active = Main /\ branches = {Main}
    /\ rows = [i \in Ids |-> NoRow]
    /\ archives = [b \in Branches |-> [i \in Ids |-> Missing]]
    /\ aside = {}
    /\ tasks = [a \in Actors |-> NoTask]
    /\ clock = 1 /\ begun = 0 /\ faults = 0
    /\ taken = [i \in Ids |-> Missing]
    /\ imported = {} /\ given = {} /\ home = Main /\ seeded = {}

Fault == faults < MaxFaults /\ faults' = faults + 1

At(a, step) == tasks[a].step = step
Go(a, task) == tasks' = [tasks EXCEPT ![a] = task]
Finish(a) == Go(a, NoTask)

Begin(a, op) ==
    /\ tasks[a] = NoTask
    /\ op \in Does[a]
    /\ begun < MaxTasks
    /\ begun' = begun + 1
    /\ UNCHANGED <<clock, newest, faults>>

Recorded(i) == rows[i] # NoRow
OnBranch(b) == {i \in Ids : rows[i].branch = b}
ArchiveOf(i) == IF Recorded(i) THEN archives[rows[i].branch][i] ELSE Missing

-----------------------------------------------------------------------------
(* The folder's owner and the clock                                        *)

\* Nobody plays while a switch has the folder cleared.
Cleared(a) == tasks[a].op = "switch" /\ tasks[a].step \in {"flip", "latest", "fill"}

Play ==
    /\ newest < MaxSave
    /\ \A a \in Actors : ~Cleared(a)
    /\ newest' = newest + 1
    /\ save' = newest'
    /\ home' = IF save = Empty THEN active ELSE home
    /\ UNCHANGED <<archives, aside, game, tasks, clock, begun, faults, taken, imported, given, seeded>>

Tick ==
    /\ clock < MaxClock
    /\ clock' = clock + 1
    /\ UNCHANGED <<disk, game, tasks, newest, begun, faults, history>>

-----------------------------------------------------------------------------
(* Taking a snapshot: createOnBranch                                       *)

\* Where an operation goes on after its snapshot, and after a snapshot that failed:
\* a restore goes on regardless, a switch does not, and a branch that could not be
\* seeded is deleted.  (Mutants: the switch goes on, as it used to; the branch stays.)
MutantGoOn(t) ==
    CASE t.op = "restore" -> [t EXCEPT !.step = "open"]
      [] t.op = "switch"  -> [t EXCEPT !.step = "clear"]
      [] OTHER -> NoTask

AfterSnapshot(t) ==
    CASE t.op = "restore" -> [t EXCEPT !.step = "open"]
      [] t.op = "switch"  -> [t EXCEPT !.step = "clear"]
      [] OTHER -> NoTask

Deleting(t, b) == [t EXCEPT !.step = "drop", !.target = b, !.doomed = OnBranch(b)]

MutantKeepBranch(t) == IF t.op = "restore" THEN [t EXCEPT !.step = "open"] ELSE NoTask

AfterFailure(t) ==
    CASE t.op = "restore" -> [t EXCEPT !.step = "open"]
      [] t.op = "branch" /\ t.target # active -> Deleting(t, t.target)
      [] OTHER -> NoTask

BeginCreate(a, auto) ==
    /\ Begin(a, "create")
    /\ tracked
    /\ Go(a, [NoTask EXCEPT !.op = "create", !.step = "zip", !.onto = active, !.auto = auto])
    /\ UNCHANGED <<disk, game, history>>

Zip(a) ==
    /\ At(a, "zip")
    /\ Go(a, [tasks[a] EXCEPT !.step = "claim", !.staged = save])
    /\ UNCHANGED <<disk, game, bounds, history>>

\* Files that cannot be read, a full disk, a database error.
FailSnapshot(a) ==
    /\ tasks[a].step \in {"zip", "claim"}
    /\ Fault
    /\ Go(a, AfterFailure(tasks[a]))
    /\ UNCHANGED <<disk, game, clock, newest, begun, history>>

\* idMu, of this process only, is held from here to the row.
Unlocked(p) == \A b \in Actors : ProcessOf[b] = p => tasks[b].step \notin {"name", "insert"}

\* Timing: no snapshot is made and deleted again within one millisecond.
NothingGoneYet == \A i \in Ids : taken[i] # Missing /\ ~Recorded(i) => i < clock

Claim(a) ==
    /\ At(a, "claim")
    /\ Unlocked(ProcessOf[a])
    /\ NothingGoneYet
    /\ Go(a, [tasks[a] EXCEPT !.step = "name", !.id = clock])
    /\ UNCHANGED <<disk, game, bounds, history>>

\* An id with a row is passed over.  (Mutant: it is not looked for.)
MutantTaken(i) == FALSE
Taken(i) == Recorded(i)

WalkOn(a) ==
    /\ At(a, "name")
    /\ Taken(tasks[a].id)
    /\ tasks[a].id < MaxId
    /\ Go(a, [tasks[a] EXCEPT !.id = @ + 1])
    /\ UNCHANGED <<disk, game, bounds, history>>

\* The staged archive is moved under its name, over whatever bears that name.
Name(a) ==
    LET t == tasks[a] IN
    /\ At(a, "name")
    /\ ~Taken(t.id)
    /\ archives' = [archives EXCEPT ![t.onto][t.id] = t.staged]
    /\ Go(a, [t EXCEPT !.step = "insert"])
    /\ UNCHANGED <<save, aside, game, bounds, history>>

Prunes == MaxAuto > 0 \/ MaxManual > 0

Pruning(t) == IF Prunes THEN [t EXCEPT !.step = "prune", !.listed = branches, !.id = 0]
              ELSE AfterSnapshot(t)

Insert(a) ==
    LET t == tasks[a] IN
    /\ At(a, "insert")
    /\ tracked /\ t.onto \in branches
    /\ ~Recorded(t.id)
    /\ rows' = [rows EXCEPT ![t.id] = [branch |-> t.onto, auto |-> t.auto]]
    /\ taken' = [taken EXCEPT ![t.id] = t.staged]
    /\ Go(a, Pruning(t))
    /\ UNCHANGED <<disk, tracked, active, branches, bounds, imported, given, home, seeded>>

\* The archive is moved back: on a collision the next id is tried, any other error is
\* the end.  What is moved back is what bears the name by now.
TakeBack(t) == archives' = [archives EXCEPT ![t.onto][t.id] = Missing]

Collide(a) ==
    LET t == tasks[a] IN
    /\ At(a, "insert")
    /\ Recorded(t.id)
    /\ t.id < MaxId
    /\ TakeBack(t)
    /\ Go(a, IF archives[t.onto][t.id] = Missing THEN AfterFailure(t)
             ELSE [t EXCEPT !.step = "name", !.id = @ + 1, !.staged = archives[t.onto][t.id]])
    /\ UNCHANGED <<save, aside, game, bounds, history>>

FailInsert(a) ==
    LET t == tasks[a] IN
    /\ At(a, "insert")
    /\ TakeBack(t)
    /\ Go(a, AfterFailure(t))
    /\ UNCHANGED <<save, aside, game, clock, newest, begun, history>>

RefuseRow(a) == ~(tracked /\ tasks[a].onto \in branches) /\ FailInsert(a) /\ UNCHANGED faults
LoseRow(a) == Fault /\ FailInsert(a)

-----------------------------------------------------------------------------
(* Retention: pruneGameAllBranches                                         *)

Limit(auto) == IF auto THEN MaxAuto ELSE MaxManual

NewerOfKind(i) == {j \in OnBranch(rows[i].branch) : rows[j].auto = rows[i].auto /\ j > i}

SnapshotsBeyondRetentionByKind(b) ==
    {i \in OnBranch(b) : /\ Limit(rows[i].auto) > 0
                         /\ Cardinality(NewerOfKind(i)) >= Limit(rows[i].auto)}

PruneBranch(a) ==
    LET t == tasks[a] IN
    /\ At(a, "prune")
    /\ t.doomed = {}
    /\ \E b \in t.listed :
         Go(a, [t EXCEPT !.listed = @ \ {b}, !.doomed = SnapshotsBeyondRetentionByKind(b)])
    /\ UNCHANGED <<disk, game, bounds, history>>

\* Row and archive go; a row that somebody else deleted is passed over.
Forget(a, i) ==
    /\ rows' = [rows EXCEPT ![i] = NoRow]
    /\ archives' = IF Recorded(i) THEN [archives EXCEPT ![rows[i].branch][i] = Missing] ELSE archives
    /\ Go(a, [tasks[a] EXCEPT !.doomed = @ \ {i}])

PruneSnapshot(a) ==
    /\ At(a, "prune")
    /\ \E i \in tasks[a].doomed : Forget(a, i)
    /\ UNCHANGED <<save, aside, tracked, active, branches, bounds, history>>

EndPrune(a) ==
    LET t == tasks[a] IN
    /\ At(a, "prune")
    /\ t.listed = {} /\ t.doomed = {}
    /\ Go(a, IF t.op = "cleanup" THEN [t EXCEPT !.step = "sweep", !.listed = branches \cap Leftovers]
             ELSE AfterSnapshot(t))
    /\ UNCHANGED <<disk, game, bounds, history>>

\* PruneAllGames: retention, then every conflict- branch that is not active.
BeginCleanup(a) ==
    /\ Begin(a, "cleanup")
    /\ tracked
    /\ Go(a, [NoTask EXCEPT !.op = "cleanup", !.step = "prune", !.listed = IF Prunes THEN branches ELSE {}])
    /\ UNCHANGED <<disk, game, history>>

\* (Mutant: the branch in play is a leftover like any other.)
MutantSpared(b) == FALSE
Spared(b) == b = active

Sweep(a) ==
    LET t == tasks[a] IN
    /\ At(a, "sweep")
    /\ IF t.listed = {} THEN Finish(a)
       ELSE \E b \in t.listed :
              Go(a, IF Spared(b) THEN [t EXCEPT !.listed = @ \ {b}]
                    ELSE Deleting([t EXCEPT !.listed = @ \ {b}], b))
    /\ UNCHANGED <<disk, game, bounds, history>>

-----------------------------------------------------------------------------
(* Restore                                                                 *)

\* With something to lose the archive is copied first, then a safety snapshot taken.
\* (Mutant: no copy.)
MutantCopied(t) == t
Copied(t) == [t EXCEPT !.source = ArchiveOf(t.old)]

Restoring(t, i) ==
    LET s == [t EXCEPT !.op = "restore", !.step = "open", !.old = i, !.target = rows[i].branch]
    IN  IF save = Empty THEN s
        ELSE [Copied(s) EXCEPT !.step = "zip", !.onto = active, !.safe = ArchiveOf(i) # Missing]

BeginRestore(a, i) ==
    /\ Begin(a, "restore")
    /\ tracked /\ Recorded(i)
    /\ Go(a, Restoring(NoTask, i))
    /\ UNCHANGED <<disk, game, history>>

\* UnzipTo: without an archive nothing is touched; else the folder is cleared, and
\* then filled.
Readable(t) == IF t.source # Missing THEN t.source
            ELSE IF t.old = 0 THEN Missing
            ELSE archives[t.target][t.old]

Open(a) ==
    LET t == tasks[a] IN
    /\ At(a, "open")
    /\ IF Readable(t) = Missing THEN Finish(a) /\ UNCHANGED save
       ELSE Go(a, [t EXCEPT !.step = "fill", !.source = Readable(t)]) /\ save' = Empty
    /\ UNCHANGED <<archives, aside, game, bounds, history>>

Fill(a) ==
    LET t == tasks[a] IN
    /\ At(a, "fill")
    /\ save' = t.source
    /\ home' = IF t.op = "switch" THEN t.target ELSE active
    /\ Go(a, IF t.op = "track" THEN [t EXCEPT !.step = "enter"] ELSE NoTask)
    /\ UNCHANGED <<archives, aside, game, bounds, taken, imported, given, seeded>>

\* An entry cannot be written: the folder stays cleared.
FailFill(a) ==
    /\ At(a, "fill")
    /\ Fault
    /\ Finish(a)
    /\ UNCHANGED <<disk, game, clock, newest, begun, history>>

-----------------------------------------------------------------------------
(* Branches                                                                *)

\* SwitchBranch: back up, clear, move the pointer, restore the newest of the target.
BeginSwitch(a, b) ==
    /\ Begin(a, "switch")
    /\ tracked /\ b \in branches /\ b # active
    /\ Go(a, [NoTask EXCEPT !.op = "switch", !.target = b, !.onto = active,
                            !.step = IF save = Empty THEN "clear" ELSE "zip"])
    /\ UNCHANGED <<disk, game, history>>

Clear(a) ==
    /\ At(a, "clear")
    /\ save' = Empty
    /\ Go(a, [tasks[a] EXCEPT !.step = "flip"])
    /\ UNCHANGED <<archives, aside, game, bounds, history>>

\* (Mutant: the pointer stays.)
MutantFlipped(t) == active
Flipped(t) == t.target

Flip(a) ==
    /\ At(a, "flip")
    /\ IF tracked
       THEN active' = Flipped(tasks[a]) /\ Go(a, [tasks[a] EXCEPT !.step = "latest"])
       ELSE Finish(a) /\ UNCHANGED active
    /\ UNCHANGED <<disk, tracked, branches, rows, bounds, history>>

\* A branch without a snapshot was started empty; an archive that cannot be read is
\* logged, and the switch stands.
Latest(a) ==
    LET t == tasks[a]
        on == OnBranch(t.target)
    IN
    /\ At(a, "latest")
    /\ Go(a, IF on = {} THEN NoTask
             ELSE [t EXCEPT !.step = "open", !.old = CHOOSE i \in on : \A j \in on : j <= i])
    /\ UNCHANGED <<disk, game, bounds, history>>

\* CreateBranch, from the save as it stands or empty.
BeginBranch(a, b, copy) ==
    /\ Begin(a, "branch")
    /\ tracked /\ b \notin branches
    /\ branches' = branches \cup {b}
    /\ IF copy /\ save # Empty
       THEN /\ Go(a, [NoTask EXCEPT !.op = "branch", !.step = "zip", !.onto = b, !.target = b])
            /\ seeded' = seeded \cup {b}
       ELSE UNCHANGED <<tasks, seeded>>
    /\ UNCHANGED <<disk, tracked, active, rows, taken, imported, given, home>>

BeginDelete(a, b) ==
    /\ Begin(a, "delete")
    /\ tracked /\ b \in branches /\ b # active
    /\ Go(a, Deleting([NoTask EXCEPT !.op = "delete"], b))
    /\ UNCHANGED <<disk, game, history>>

\* DeleteBranch: each snapshot, then the branch; rows still on it go with it.
DropSnapshot(a) ==
    /\ At(a, "drop")
    /\ \E i \in tasks[a].doomed : Forget(a, i) /\ given' = given \cup {ArchiveOf(i)}
    /\ UNCHANGED <<save, aside, tracked, active, branches, bounds, taken, imported, home, seeded>>

DropBranch(a) ==
    LET t == tasks[a] IN
    /\ At(a, "drop")
    /\ t.doomed = {}
    /\ branches' = branches \ {t.target}
    /\ rows' = [i \in Ids |-> IF rows[i].branch = t.target THEN NoRow ELSE rows[i]]
    /\ given' = given \cup {ArchiveOf(i) : i \in OnBranch(t.target)}
    /\ seeded' = seeded \ {t.target}
    /\ Go(a, IF t.op = "cleanup" THEN [t EXCEPT !.step = "sweep", !.target = NoBranch] ELSE NoTask)
    /\ UNCHANGED <<disk, tracked, active, bounds, taken, imported, home>>

\* DeleteSnapshot, on the user's word.
DeleteSnapshot(a, i) ==
    /\ Begin(a, "delete")
    /\ Recorded(i)
    /\ rows' = [rows EXCEPT ![i] = NoRow]
    /\ archives' = [archives EXCEPT ![rows[i].branch][i] = Missing]
    /\ given' = given \cup {ArchiveOf(i)}
    /\ seeded' = seeded \ {rows[i].branch}
    /\ UNCHANGED <<save, aside, tracked, active, branches, tasks, taken, imported, home>>

-----------------------------------------------------------------------------
(* Backup files, tracking                                                  *)

\* The imported save of a tracked game becomes a snapshot under an id taken from
\* the clock, without the lock and over any archive of that name ...
BeginImport(a, content, overwrite) ==
    /\ Begin(a, "import")
    /\ tracked /\ NothingGoneYet
    /\ Go(a, [NoTask EXCEPT !.op = "import", !.step = "place", !.onto = active, !.id = clock,
                            !.staged = content, !.safe = overwrite])
    /\ UNCHANGED <<disk, game, history>>

Place(a) ==
    LET t == tasks[a] IN
    /\ At(a, "place")
    /\ archives' = [archives EXCEPT ![t.onto][t.id] = t.staged]
    /\ imported' = imported \cup {t.id}
    /\ Go(a, [t EXCEPT !.step = "register"])
    /\ UNCHANGED <<save, aside, game, bounds, taken, given, home, seeded>>

\* ... EnsureImportedSnapshot, which leaves a row of that id alone; overwriting
\* restores it like any other.
Register(a) ==
    LET t == tasks[a] IN
    /\ At(a, "register")
    /\ IF tracked
       THEN /\ IF Recorded(t.id) THEN UNCHANGED <<branches, rows, taken>>
               ELSE /\ branches' = branches \cup {t.onto}
                    /\ rows' = [rows EXCEPT ![t.id] = [branch |-> t.onto, auto |-> TRUE]]
                    /\ taken' = [taken EXCEPT ![t.id] = t.staged]
            /\ Go(a, IF t.safe THEN [NoTask EXCEPT !.op = "import", !.step = "enter", !.old = t.id] ELSE NoTask)
       ELSE Finish(a) /\ UNCHANGED <<branches, rows, taken>>
    /\ UNCHANGED <<disk, tracked, active, bounds, imported, given, home, seeded>>

RestoreImported(a) ==
    LET i == tasks[a].old IN
    /\ At(a, "enter")
    /\ tasks[a].op = "import"
    /\ Go(a, IF tracked /\ Recorded(i) THEN Restoring(NoTask, i) ELSE NoTask)
    /\ UNCHANGED <<disk, game, bounds, history>>

\* An untracked game's save goes straight into its folder, what is there being
\* copied aside first; then the game is tracked.  The error of that copy is lost
\* (it is assigned to a variable of an inner scope), so the import goes on.
BeginBring(a, content) ==
    /\ Begin(a, "import")
    /\ ~tracked
    /\ Go(a, [NoTask EXCEPT !.op = "track", !.source = content,
                            !.step = IF save = Empty THEN "open" ELSE "aside"])
    /\ UNCHANGED <<disk, game, history>>

CopyAside(a) ==
    /\ At(a, "aside")
    /\ aside' = aside \cup {save}
    /\ Go(a, [tasks[a] EXCEPT !.step = "open"])
    /\ UNCHANGED <<save, archives, game, bounds, history>>

FailCopyAside(a) ==
    /\ At(a, "aside")
    /\ Fault
    /\ Go(a, [tasks[a] EXCEPT !.step = "open"])
    /\ UNCHANGED <<disk, game, clock, newest, begun, history>>

\* TrackGame: the row, its main branch, and an initial snapshot.
Tracked ==
    /\ tracked' = TRUE
    /\ active' = Main
    /\ branches' = {Main}
    /\ home' = Main

Initial == [NoTask EXCEPT !.op = "create", !.step = "zip", !.onto = Main]

Track(a) ==
    /\ Begin(a, "track")
    /\ ~tracked /\ Tracked
    /\ Go(a, Initial)
    /\ UNCHANGED <<disk, rows, taken, imported, given, seeded>>

TrackImported(a) ==
    /\ At(a, "enter")
    /\ tasks[a].op = "track"
    /\ IF tracked THEN Finish(a) /\ UNCHANGED <<tracked, active, branches, home>>
       ELSE Tracked /\ Go(a, Initial)
    /\ UNCHANGED <<disk, rows, bounds, taken, imported, given, seeded>>

\* UntrackGame: the rows go with the game, the archives stay.
Untrack(a) ==
    /\ Begin(a, "track")
    /\ tracked
    /\ tracked' = FALSE
    /\ branches' = {}
    /\ rows' = [i \in Ids |-> NoRow]
    /\ given' = given \cup {ArchiveOf(i) : i \in Ids}
    /\ seeded' = {}
    /\ UNCHANGED <<disk, active, tasks, taken, imported, home>>

\* A process dies with all its goroutines.
Crash(p) ==
    LET dead == {a \in Actors : ProcessOf[a] = p} IN
    /\ Fault
    /\ \E a \in dead : tasks[a] # NoTask
    /\ tasks' = [a \in Actors |-> IF a \in dead THEN NoTask ELSE tasks[a]]
    /\ seeded' = seeded \ {tasks[a].target : a \in dead}
    /\ UNCHANGED <<disk, game, clock, newest, begun, taken, imported, given, home>>

-----------------------------------------------------------------------------

Asked(a) ==
    \/ \E auto \in BOOLEAN : BeginCreate(a, auto)
    \/ BeginCleanup(a) \/ Track(a) \/ Untrack(a)
    \/ \E i \in Ids : BeginRestore(a, i) \/ DeleteSnapshot(a, i)
    \/ \E b \in Branches : \/ BeginSwitch(a, b) \/ BeginDelete(a, b)
                            \/ \E copy \in BOOLEAN : BeginBranch(a, b, copy)
    \/ \E c \in 2..newest : \/ BeginBring(a, c)
                            \/ \E overwrite \in BOOLEAN : BeginImport(a, c, overwrite)

Working(a) ==
    \/ Zip(a) \/ Claim(a) \/ WalkOn(a) \/ Name(a) \/ Insert(a) \/ Collide(a) \/ RefuseRow(a)
    \/ PruneBranch(a) \/ PruneSnapshot(a) \/ EndPrune(a) \/ Sweep(a)
    \/ Open(a) \/ Fill(a) \/ Clear(a) \/ Flip(a) \/ Latest(a)
    \/ DropSnapshot(a) \/ DropBranch(a)
    \/ Place(a) \/ Register(a) \/ RestoreImported(a)
    \/ CopyAside(a) \/ TrackImported(a)

Failing(a) == FailSnapshot(a) \/ LoseRow(a) \/ FailFill(a) \/ FailCopyAside(a)

Next ==
    \/ Play \/ Tick
    \/ \E a \in Actors : Asked(a) \/ Working(a) \/ Failing(a)
    \/ \E p \in Processes : Crash(p)

Spec == Init /\ [][Next]_vars

-----------------------------------------------------------------------------
(* Properties                                                              *)

\* A snapshot that is listed is there, with what the save held when it was taken
\* (claimAndInsert: "a backup that silently did not get taken").  Not for an id that
\* an import chose: it may be the id of a snapshot of the same millisecond.
SnapshotsKeepTheirContent ==
    \A i \in Ids : Recorded(i) /\ i \notin imported => ArchiveOf(i) = taken[i]

Kept == {ArchiveOf(i) : i \in Ids}

\* "A switch that cannot be undone is not a switch worth making" (SwitchBranch): what
\* a switch clears is in a snapshot, whatever else took, pruned or failed to take
\* one in between.  Not what was written after the backup, or given up by the user.
\* (For the operations of the run; four snapshots of one millisecond can break it.)
SwitchKeepsABackup ==
    [][\A a \in Actors : Clear(a) =>
         save \in {Empty} \cup Kept \cup given \/ save # tasks[a].staged]_vars

AtRest == \A a \in Actors : tasks[a] = NoTask

\* One switch at a time given, the folder holds the save of the branch in play or
\* nothing, also after a switch that failed or died half-way: the next snapshot
\* never records one branch's save as another's.
SaveMatchesBranch == AtRest /\ tracked /\ save # Empty => home = active

\* A restore finds its archive, also when its own safety snapshot pushed it out.
RestoreHasItsArchive ==
    \A a \in Actors : At(a, "open") /\ tasks[a].safe => Readable(tasks[a]) # Missing

\* The branch in play is never deleted, by a cleanup or the undoing of a copy.
ActiveBranchExists == tracked => active \in branches

\* A branch made with a copy of the save has one by the time somebody can switch to
\* it and clear the folder, or is gone again (CreateBranch).
SeededBranchHasSave ==
    \A b \in seeded : (\A a \in Actors : tasks[a].target # b) => OnBranch(b) # {}

\* "Nothing is ever overwritten without a copy" (handleBackupRestore), of the folder
\* of a game that is not tracked.
NothingOverwrittenWithoutCopy ==
    [][\A a \in Actors : Open(a) /\ tasks[a].op = "track" => save \in {Empty} \cup aside]_vars
=============================================================================
