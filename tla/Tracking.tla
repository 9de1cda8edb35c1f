------------------------------- MODULE Tracking -------------------------------
(***************************************************************************)
(* Which games two paired devices track: TrackGame, UntrackGame, LinkGames, *)
(* UnlinkGame and ResyncWatchers of daemon/daemon.go, the auto-tracking of  *)
(* a peer's game (p2p/routes.go, ensureManifestGame), and the untrack and   *)
(* retrack notices between peers (p2p/engine.go).                          *)
(*                                                                         *)
(* A database statement is atomic, an operation is several of them, and a   *)
(* command of the CLI is a process of its own: it writes the database but   *)
(* cannot reach the watches of the app that runs beside it.  A game's row   *)
(* is the folder it is tracked at; its covers and limits are left out.     *)
(***************************************************************************)
EXTENDS Naturals, FiniteSets

CONSTANTS
    Devices,
    Ids, NoId,          \* game ids; the same title may have two
    Folders, NoFolder,
    MatchByAppID,       \* settings.MatchByAppID: all of Ids have one App ID
    Starts,             \* what the devices track at first
    MaxOps,             \* bound: operations of the users
    MaxAsked,           \* bound: manifest requests
    MaxFaults           \* bound: notices lost

ASSUME TrackingAssumption ==
    /\ IsFiniteSet(Ids) /\ NoId \notin Ids /\ NoFolder \notin Folders
    /\ MatchByAppID \in BOOLEAN
    /\ Starts \subseteq [Devices -> [Ids -> Folders \cup {NoFolder}]]
    /\ MaxOps \in Nat /\ MaxAsked \in Nat /\ MaxFaults \in Nat

VARIABLES
    rows,               \* games: the folder of each tracked id
    guests,             \* games.peer_placeholder
    tombs,              \* untracked_games
    alias,              \* game_aliases: the id it stands for
    remembered,         \* game_aliases.alias_save_path
    watched,            \* Watcher.games of the running app
    work,               \* operations and requests under way
    wire,               \* notices sent to a device
    ops, asked, faults,
    lastWord,           \* history: the last operation on an id, and whether it ran undisturbed
    absorbed,           \* history: games a link has removed
    steady,             \* history: nothing but a resync has run on a device since it began
    undone              \* history: links that were removed while they were being made

tables  == <<rows, guests, tombs, alias, remembered>>
history == <<lastWord, absorbed>>
vars    == <<tables, watched, work, wire, ops, asked, faults, history, steady, undone>>

Folder == Folders \cup {NoFolder}
Task == [dev    : Devices,
         op     : {"track", "untrack", "mirror", "clear", "link", "unlink", "relocate", "resync", "ensure"},
         step   : {"clear", "create", "check", "watch", "unwatch", "delete", "entomb", "alias", "absorb",
                   "restore", "update", "list", "apply", "look", "judge"},
         id     : Ids,
         other  : Ids \cup {NoId},          \* a link's canonical id
         folder : Folder,
         app    : BOOLEAN,                  \* in the running app, else by the CLI
         want   : [Ids -> Folder],          \* what ResyncWatchers read
         left   : SUBSET Ids]

Notice == [op : {"untrack", "retrack"}, to : Devices, id : Ids, nr : 1..MaxOps]

Words == {"none", "track", "untrack"}

TypeOK ==
    /\ rows \in [Devices -> [Ids -> Folder]]
    /\ guests \in [Devices -> SUBSET Ids]
    /\ tombs \in [Devices -> SUBSET Ids]
    /\ alias \in [Devices -> [Ids -> Ids \cup {NoId}]]
    /\ remembered \in [Devices -> [Ids -> Folder]]
    /\ watched \in [Devices -> [Ids -> Folder]]
    /\ work \subseteq Task
    /\ wire \subseteq Notice
    /\ ops \in 0..MaxOps /\ asked \in 0..MaxAsked /\ faults \in 0..MaxFaults
    /\ lastWord \in [Ids -> [word : Words, alone : BOOLEAN]]
    /\ absorbed \in [Devices -> SUBSET Ids]
    /\ steady \in [Devices -> BOOLEAN]
    /\ undone \in [Devices -> SUBSET Ids]

Tracked(d, i) == rows[d][i] # NoFolder

\* Devices that track what they like, watched, and nobody linked anything.
Init ==
    /\ rows \in Starts
    /\ guests = [d \in Devices |-> {}]
    /\ tombs = [d \in Devices |-> {}]
    /\ alias = [d \in Devices |-> [i \in Ids |-> NoId]]
    /\ remembered = [d \in Devices |-> [i \in Ids |-> NoFolder]]
    /\ watched = rows
    /\ work = {} /\ wire = {} /\ ops = 0 /\ asked = 0 /\ faults = 0
    /\ lastWord = [i \in Ids |-> [word |-> "none", alone |-> TRUE]]
    /\ absorbed = [d \in Devices |-> {}]
    /\ steady = [d \in Devices |-> TRUE]
    /\ undone = [d \in Devices |-> {}]

NoWant == [i \in Ids |-> NoFolder]
NewTask(d, op, step, i) ==
    [dev |-> d, op |-> op, step |-> step, id |-> i, other |-> NoId, folder |-> NoFolder,
     app |-> TRUE, want |-> NoWant, left |-> {}]

At(t, op, step) == t \in work /\ t.op = op /\ t.step = step
End(t) == work' = work \ {t}
Go(t, u) == work' = (work \ {t}) \cup {u}
GoTo(t, step) == Go(t, [t EXCEPT !.step = step])

Row(d, i, f) == rows' = [rows EXCEPT ![d][i] = f]
Watch(t, i, f) == watched' = IF t.app THEN [watched EXCEPT ![t.dev][i] = f] ELSE watched

\* To every paired device, each notice by a goroutine of its own.
Notify(d, op, i) == wire' = wire \cup {[op |-> op, to |-> e, id |-> i, nr |-> ops] : e \in Devices \ {d}}

\* The CLI asks the running app to look again when its command is over.
Resync(d) == NewTask(d, "resync", "list", CHOOSE i \in Ids : TRUE)
EndOf(t) == work' = (work \ {t}) \cup (IF t.app THEN {} ELSE {Resync(t.dev)})

-----------------------------------------------------------------------------
(* The users' operations                                                   *)

About(i) == {t \in work : i \in {t.id, t.other}} \cup {m \in wire : m.id = i}

Said(i, word) == lastWord' = [lastWord EXCEPT ![i] = [word |-> word, alone |-> About(i) = {}]]

Disturbed(i) == lastWord' = [lastWord EXCEPT ![i].alone = FALSE]

Ask(t) ==
    /\ ops < MaxOps
    /\ ops' = ops + 1
    /\ t \notin work
    /\ work' = work \cup {t}
    /\ UNCHANGED <<tables, watched, wire, asked, faults, absorbed>>

\* A folder that nothing tracks (ValidateSavePath), under an id that is free; a
\* namesake that only a peer's sync put here is to be relocated instead.
Track(d, i, f, app) ==
    /\ \A j \in Ids : rows[d][j] # f
    /\ ~Tracked(d, i) /\ guests[d] = {}
    /\ Ask([NewTask(d, "track", "clear", i) EXCEPT !.folder = f, !.app = app])
    /\ Said(i, "track")

Untrack(d, i, app) ==
    /\ Tracked(d, i)
    /\ Ask([NewTask(d, "untrack", "unwatch", i) EXCEPT !.app = app])
    /\ Said(i, "untrack")

Link(d, i, canonical) ==
    /\ i # canonical /\ Tracked(d, canonical)
    /\ Ask([NewTask(d, "link", "alias", i) EXCEPT !.other = canonical])
    /\ Disturbed(i)

Unlink(d, i) ==
    /\ alias[d][i] # NoId
    /\ Ask([NewTask(d, "unlink", "alias", i) EXCEPT !.folder = remembered[d][i]])
    /\ Disturbed(i)

Relocate(d, i, f, app) ==
    /\ Tracked(d, i)
    /\ \A j \in Ids : rows[d][j] # f
    /\ Ask([NewTask(d, "relocate", "update", i) EXCEPT !.folder = f, !.app = app])
    /\ Disturbed(i)

-----------------------------------------------------------------------------
(* TrackGame                                                               *)

\* The tombstone here, and by notice those of the peers.  (Mutant: the peers are
\* not told.)
MutantRetrack(d, i) == wire
Retrack(d, i) == wire \cup {[op |-> "retrack", to |-> e, id |-> i, nr |-> ops] : e \in Devices \ {d}}

TrackClears(t) ==
    /\ At(t, "track", "clear")
    /\ tombs' = [tombs EXCEPT ![t.dev] = @ \ {t.id}]
    /\ wire' = Retrack(t.dev, t.id)
    /\ GoTo(t, "create")
    /\ UNCHANGED <<rows, guests, alias, remembered, watched, ops, asked, faults, history>>

\* An id that was taken meanwhile is an error.
TrackCreates(t) ==
    /\ At(t, "track", "create")
    /\ IF Tracked(t.dev, t.id)
       THEN EndOf(t) /\ UNCHANGED rows
       ELSE Row(t.dev, t.id, t.folder) /\ GoTo(t, "check")
    /\ UNCHANGED <<guests, tombs, alias, remembered, watched, wire, ops, asked, faults, history>>

\* In the background, after the initial snapshot: a game untracked meanwhile is not watched.
TrackChecks(t) ==
    /\ At(t, "track", "check")
    /\ IF Tracked(t.dev, t.id) THEN GoTo(t, "watch") ELSE EndOf(t)
    /\ UNCHANGED <<tables, watched, wire, ops, asked, faults, history>>

BeginWatch(t) ==
    /\ t.op \in {"track", "relocate", "unlink"} /\ At(t, t.op, "watch")
    /\ Watch(t, t.id, t.folder)
    /\ EndOf(t)
    /\ UNCHANGED <<tables, wire, ops, asked, faults, history>>

Relocates(t) ==
    /\ At(t, "relocate", "update")
    /\ IF Tracked(t.dev, t.id)
       THEN /\ Row(t.dev, t.id, t.folder)
            /\ guests' = IF t.app THEN guests ELSE [guests EXCEPT ![t.dev] = @ \ {t.id}]
            /\ GoTo(t, "watch")
       ELSE EndOf(t) /\ UNCHANGED <<rows, guests>>
    /\ UNCHANGED <<tombs, alias, remembered, watched, wire, ops, asked, faults, history>>

-----------------------------------------------------------------------------
(* UntrackGame, and untrackFromPeer, which tells nobody                    *)

StopsWatch(t) ==
    /\ t.op \in {"untrack", "mirror"} /\ At(t, t.op, "unwatch")
    /\ Watch(t, t.id, NoFolder)
    /\ GoTo(t, "delete")
    /\ UNCHANGED <<tables, wire, ops, asked, faults, history>>

\* The aliases of a game go with it.
Cascade(d, i) ==
    LET gone == {j \in Ids : alias[d][j] = i} IN
    /\ Row(d, i, NoFolder)
    /\ guests' = [guests EXCEPT ![d] = @ \ {i}]
    /\ alias' = [alias EXCEPT ![d] = [j \in Ids |-> IF j \in gone THEN NoId ELSE @[j]]]
    /\ remembered' = [remembered EXCEPT ![d] = [j \in Ids |-> IF j \in gone THEN NoFolder ELSE @[j]]]

Lost(d, i) == {j \in absorbed[d] : alias[d][j] = i}

\* The user's own untrack of a game that is gone is an error; a peer's goes on.
Deletes(t) ==
    /\ t.op \in {"untrack", "mirror"} /\ At(t, t.op, "delete")
    /\ IF Tracked(t.dev, t.id) \/ t.op = "mirror"
       THEN /\ Cascade(t.dev, t.id)
            /\ absorbed' = [absorbed EXCEPT ![t.dev] = @ \ Lost(t.dev, t.id)]
            /\ GoTo(t, "entomb") /\ UNCHANGED lastWord
       ELSE EndOf(t) /\ Disturbed(t.id) /\ UNCHANGED <<rows, guests, alias, remembered, absorbed>>
    /\ UNCHANGED <<tombs, watched, wire, ops, asked, faults>>

Entombed(t) == [tombs EXCEPT ![t.dev] = @ \cup {t.id}]

Entombs(t) ==
    /\ t.op \in {"untrack", "mirror"} /\ At(t, t.op, "entomb")
    /\ tombs' = Entombed(t)
    /\ IF t.op = "untrack" THEN Notify(t.dev, "untrack", t.id) ELSE UNCHANGED wire
    /\ EndOf(t)
    /\ UNCHANGED <<rows, guests, alias, remembered, watched, ops, asked, faults, history>>

\* Notices arrive in any order.
Deliver(m) ==
    /\ m \in wire
    /\ wire' = wire \ {m}
    /\ LET t == IF m.op = "untrack" THEN NewTask(m.to, "mirror", "unwatch", m.id)
                ELSE NewTask(m.to, "clear", "clear", m.id)
       IN  t \notin work /\ work' = work \cup {t}
    /\ UNCHANGED <<tables, watched, ops, asked, faults, history>>

LoseNotice(m) ==
    /\ m \in wire
    /\ faults < MaxFaults /\ faults' = faults + 1
    /\ wire' = wire \ {m}
    /\ Disturbed(m.id)
    /\ UNCHANGED <<tables, watched, work, ops, asked, absorbed>>

RetrackFromPeer(t) ==
    /\ At(t, "clear", "clear")
    /\ tombs' = [tombs EXCEPT ![t.dev] = @ \ {t.id}]
    /\ End(t)
    /\ UNCHANGED <<rows, guests, alias, remembered, watched, wire, ops, asked, faults, history>>

-----------------------------------------------------------------------------
(* LinkGames, UnlinkGame                                                   *)

\* A second link of an id moves it and keeps what it remembers.  (Mutant: the row
\* is replaced.)
MutantRemembered(d, i) == [remembered EXCEPT ![d][i] = NoFolder]
Remembered(d, i) == remembered

AddGameAlias(d, i, canonical) ==
    /\ alias' = [alias EXCEPT ![d][i] = canonical]
    /\ remembered' = Remembered(d, i)

LinkRecords(t) ==
    /\ At(t, "link", "alias")
    /\ IF Tracked(t.dev, t.other)
       THEN AddGameAlias(t.dev, t.id, t.other) /\ GoTo(t, "absorb")
       ELSE End(t) /\ UNCHANGED <<alias, remembered>>
    /\ UNCHANGED <<rows, guests, tombs, watched, wire, ops, asked, faults, history>>

\* A game tracked under that id is remembered on the alias, then removed.
LinkAbsorbs(t) ==
    /\ At(t, "link", "absorb")
    /\ IF Tracked(t.dev, t.id)
       THEN /\ remembered' = IF alias[t.dev][t.id] = NoId THEN remembered
                             ELSE [remembered EXCEPT ![t.dev][t.id] = rows[t.dev][t.id]]
            /\ Watch(t, t.id, NoFolder)
            /\ GoTo(t, "delete")
       ELSE End(t) /\ UNCHANGED <<remembered, watched>>
    /\ UNCHANGED <<rows, guests, tombs, alias, wire, ops, asked, faults, history>>

LinkDeletes(t) ==
    LET linked == alias[t.dev][t.id] # NoId IN
    /\ At(t, "link", "delete")
    /\ Cascade(t.dev, t.id)
    /\ absorbed' = [absorbed EXCEPT ![t.dev] =
                      (@ \ Lost(t.dev, t.id)) \cup (IF Tracked(t.dev, t.id) /\ linked THEN {t.id} ELSE {})]
    /\ End(t)
    /\ UNCHANGED <<tombs, watched, wire, ops, asked, faults, lastWord>>

UnlinkRemoves(t) ==
    /\ At(t, "unlink", "alias")
    /\ alias' = [alias EXCEPT ![t.dev][t.id] = NoId]
    /\ remembered' = [remembered EXCEPT ![t.dev][t.id] = NoFolder]
    /\ absorbed' = [absorbed EXCEPT ![t.dev] = @ \ {t.id}]
    /\ IF t.folder = NoFolder THEN End(t) ELSE GoTo(t, "restore")
    /\ UNCHANGED <<rows, guests, tombs, watched, wire, ops, asked, faults, lastWord>>

\* What was merged in comes back, unless it is there already.
UnlinkRestores(t) ==
    /\ At(t, "unlink", "restore")
    /\ IF Tracked(t.dev, t.id) THEN End(t) /\ UNCHANGED rows
       ELSE Row(t.dev, t.id, t.folder) /\ GoTo(t, "watch")
    /\ UNCHANGED <<guests, tombs, alias, remembered, watched, wire, ops, asked, faults, history>>

-----------------------------------------------------------------------------
(* A sync asks the peer for its manifest: ensureManifestGame               *)

AskManifest(d, e, i) ==
    LET t == [NewTask(e, "ensure", "look", i) EXCEPT !.folder = rows[d][i]] IN
    /\ d # e /\ Tracked(d, i)
    /\ asked < MaxAsked /\ asked' = asked + 1
    /\ t \notin work
    /\ work' = work \cup {t}
    /\ UNCHANGED <<tables, watched, wire, ops, faults, history>>

EnsureLooks(t) ==
    LET d == t.dev IN
    /\ At(t, "ensure", "look")
    /\ IF Tracked(d, t.id) \/ (alias[d][t.id] # NoId /\ Tracked(d, alias[d][t.id]))
       THEN End(t) ELSE GoTo(t, "judge")
    /\ UNCHANGED <<tables, watched, wire, ops, asked, faults, history>>

\* By App ID when exactly one game has it; a tombstone refuses.
SameApp(d) == {i \in Ids : Tracked(d, i)}

EnsureJudges(t) ==
    LET d == t.dev
        matches == MatchByAppID /\ Cardinality(SameApp(d)) = 1
        match == CHOOSE i \in SameApp(d) : TRUE
    IN
    /\ At(t, "ensure", "judge")
    /\ IF matches
       THEN /\ End(t)
            /\ IF match = t.id THEN UNCHANGED <<alias, remembered>> ELSE AddGameAlias(d, t.id, match)
       ELSE /\ IF t.id \in tombs[d] THEN End(t) ELSE GoTo(t, "create")
            /\ UNCHANGED <<alias, remembered>>
    /\ UNCHANGED <<rows, guests, tombs, watched, wire, ops, asked, faults, history>>

\* CreateGameUnlessAliased, one transaction.  (Mutant: it does not look at the aliases.)
MutantUnlessAliased(d, i) == ~Tracked(d, i)
UnlessAliased(d, i) == ~Tracked(d, i) /\ alias[d][i] = NoId

EnsureCreates(t) ==
    /\ At(t, "ensure", "create")
    /\ IF UnlessAliased(t.dev, t.id)
       THEN Row(t.dev, t.id, t.folder) /\ guests' = [guests EXCEPT ![t.dev] = @ \cup {t.id}]
       ELSE UNCHANGED <<rows, guests>>
    /\ End(t)
    /\ UNCHANGED <<tombs, alias, remembered, watched, wire, ops, asked, faults, history>>

-----------------------------------------------------------------------------
(* ResyncWatchers                                                          *)

ResyncLists(t) ==
    /\ At(t, "resync", "list")
    /\ Go(t, [t EXCEPT !.step = "apply", !.want = rows[t.dev], !.left = Ids])
    /\ UNCHANGED <<tables, watched, wire, ops, asked, faults, history>>

\* (Mutant: a watch that is there is left alone, wherever it is.)
MutantReconciled(current, wanted) == IF wanted = NoFolder \/ current = NoFolder THEN wanted ELSE current
Reconciled(current, wanted) == wanted

ResyncApplies(t) ==
    /\ At(t, "resync", "apply")
    /\ \E i \in t.left :
         /\ watched' = [watched EXCEPT ![t.dev][i] = Reconciled(@, t.want[i])]
         /\ IF t.left = {i} THEN End(t) ELSE Go(t, [t EXCEPT !.left = @ \ {i}])
    /\ UNCHANGED <<tables, wire, ops, asked, faults, history>>

-----------------------------------------------------------------------------

Operation ==
    \E d \in Devices, i \in Ids, app \in BOOLEAN :
        \/ \E f \in Folders : Track(d, i, f, app) \/ Relocate(d, i, f, app)
        \/ Untrack(d, i, app)
        \/ app /\ Unlink(d, i)
        \/ \E j \in Ids : app /\ Link(d, i, j)

Step(t) ==
    \/ TrackClears(t) \/ TrackCreates(t) \/ TrackChecks(t) \/ BeginWatch(t) \/ Relocates(t)
    \/ StopsWatch(t) \/ Deletes(t) \/ Entombs(t) \/ RetrackFromPeer(t)
    \/ LinkRecords(t) \/ LinkAbsorbs(t) \/ LinkDeletes(t) \/ UnlinkRemoves(t) \/ UnlinkRestores(t)
    \/ EnsureLooks(t) \/ EnsureJudges(t) \/ EnsureCreates(t)
    \/ ResyncLists(t) \/ ResyncApplies(t)

Applying(d, tasks) == \E u \in tasks : u.dev = d /\ u.op = "resync" /\ u.step = "apply"
Linking(d, i) == \E u \in work : u.dev = d /\ u.op = "link" /\ u.id = i /\ u.step # "alias"

Next ==
    /\ \/ Operation
       \/ \E t \in work : Step(t)
       \/ \E m \in wire : Deliver(m) \/ LoseNotice(m)
       \/ \E d, e \in Devices, i \in Ids : AskManifest(d, e, i)
    /\ steady' = [d \in Devices |-> /\ \A u \in work' : u.dev = d => u.op = "resync"
                                    /\ steady[d] \/ ~Applying(d, work)]
    /\ undone' = [d \in Devices |-> undone[d] \cup
                     {i \in Ids : alias[d][i] # NoId /\ alias'[d][i] = NoId /\ Linking(d, i)}]

Spec == Init /\ [][Next]_vars

-----------------------------------------------------------------------------
(* Properties                                                              *)

AtRest == work = {} /\ wire = {}

\* A peer's game that was linked to one of this device is never tracked a second time
\* under its own id beside it, however the link and the auto-tracking interleave
\* (CreateGameUnlessAliased).
LinkedOnce ==
    \A d \in Devices : \A i \in guests[d] :
        alias[d][i] # NoId => \E t \in work : t.dev = d /\ t.op = "link" /\ t.id = i

\* What a link merged away can be brought back by unlinking (0008_alias_restore.sql),
\* after any number of links of it: its folder is remembered until the game it was
\* merged into goes.  Not when the link was removed before LinkGames was done with it.
MergedCanComeBack ==
    \A d \in Devices : \A i \in absorbed[d] \ undone[d] :
        alias[d][i] # NoId /\ remembered[d][i] # NoFolder

\* The last word on a game reaches everybody: with notices that arrive, untracking
\* leaves a tombstone on every device and tracking again leaves none, so that no
\* device goes on refusing a game the others share.
TombstonesFollowTheLastWord ==
    AtRest => \A i \in Ids :
        lastWord[i].alone => /\ lastWord[i].word = "untrack" => \A d \in Devices : i \in tombs[d]
                             /\ lastWord[i].word = "track" => \A d \in Devices : i \notin tombs[d]

\* A resync that nothing interrupts makes the running app watch what the tables say,
\* each game where it is, whatever another process did to them (ResyncWatchers).
ResyncRepairs ==
    \A t \in work :
        t.op = "resync" /\ t.step = "apply" /\ steady[t.dev] =>
        \A i \in Ids \ t.left : watched[t.dev][i] = rows[t.dev][i]

\* "Every time a save changes, SideSave takes a snapshot automatically"
\* (USER_GUIDE.md): at rest, a game tracked on a peer's request is watched.
GuestsAreWatched ==
    AtRest => \A d \in Devices : \A i \in guests[d] : watched[d][i] = rows[d][i]
=============================================================================
