------------------------------ MODULE SaveWatch ------------------------------
(***************************************************************************)
(* The save watcher of one game and the shutdown of the daemon around it   *)
(* (watcher/watcher.go, daemon/daemon.go, p2p/engine.go's GoSync and Stop).*)
(*                                                                         *)
(* A watch registers for file events, then runs a goroutine: an event arms *)
(* a timer, the timer leads to handleChange, which waits until no file is  *)
(* locked, compares the folder's hash with the one recorded at the last    *)
(* snapshot and takes a snapshot.  Handlers and the goroutine of TrackGame *)
(* start, replace and end watches.  Stop ends everything that can start a  *)
(* snapshot, then waits for what is still under way, each wait but the     *)
(* watcher's own for a limited time.                                       *)
(*                                                                         *)
(* The contents of the save are numbered in the order they come into       *)
(* being; only a restore brings an old one back.                           *)
(***************************************************************************)
EXTENDS Naturals, FiniteSets, Sequences

CONSTANTS
    Slots,          \* watches that may exist at once
    Tracker,        \* TrackGame's goroutine
    Handler,        \* a request that starts, replaces or ends the watch
    Quitter,        \* the goroutine that runs Stop
    MaxContent,     \* bound: contents the save takes
    MaxRequests,    \* bound: requests and restores
    MaxTries        \* snapshotMaxRetries

ASSUME WatchAssumption ==
    /\ IsFiniteSet(Slots) /\ Slots # {} /\ 0 \notin Slots
    /\ Cardinality({Tracker, Handler, Quitter}) = 3
    /\ MaxContent \in Nat /\ MaxRequests \in Nat /\ MaxTries \in Nat \ {0}

VARIABLES
    save,           \* the content of the folder
    newest,         \* the last content to come into being
    busy,           \* a game holds one of its files
    recorded,       \* games.last_manifest_hash; Unknown when empty
    captured,       \* contents some snapshot holds
    passedOver,     \* history: this content was given up, or kept in a conflict, without a snapshot
    watch,          \* per slot: the watch
    games,          \* Engine.games: the slot of the game's watch, or 0
    closed,         \* Engine.closed of the watcher
    caller,         \* where they are, and the watches they hold
    requests,       \* requests made
    syncs,          \* a sync begun through GoSync, and the follow-up a sync leaves queued
    uploading,      \* some snapshot is on its way to the cloud
    stage,          \* what Stop has come to
    rushed,         \* history: a wait ran out, or a snapshot began after the wait for them
    leaked          \* history: watches no call will ever stop

folder == <<save, newest, busy>>
history == <<recorded, captured, passedOver, uploading>>
watching == <<watch, games, closed, leaked>>
running == <<caller, requests, syncs, stage, rushed>>
vars == <<folder, history, watching, running>>

-----------------------------------------------------------------------------
(* State                                                                   *)

Contents == 0..MaxContent
Unknown == MaxContent + 1

\* at: "free", "registered" (file events arrive, no goroutine yet), "listen", and the
\* steps of handleChange.  saw: the save last changed under this watch's registration.
Watch == [at : {"free", "registered", "listen", "guard", "zip", "insert", "pause", "record"},
          event : BOOLEAN, armed : BOOLEAN, cancelled : BOOLEAN, saw : BOOLEAN,
          hash : Contents, zipped : Contents, tries : 0..MaxTries]

Free == [at |-> "free", event |-> FALSE, armed |-> FALSE, cancelled |-> FALSE,
         saw |-> FALSE, hash |-> 0, zipped |-> 0, tries |-> 0]

Callers == {Tracker, Handler, Quitter}

Caller == [at : {"idle", "zip", "insert", "gone", "register", "lock", "await"},
           new : Slots \cup {0}, old : Slots \cup {0}, again : BOOLEAN]

NoCall == [at |-> "idle", new |-> 0, old |-> 0, again |-> FALSE]

\* Mutant: uploads are waited for before the snapshots that queue them.
MutantStages == <<"up", "server", "syncs", "watches", "uploads", "snapshots", "initial", "closed">>

\* daemon.Stop: the server's grace, P2P.Stop, Watcher.Stop, then the three waits.
Stages == <<"up", "server", "syncs", "watches", "snapshots", "initial", "uploads", "closed">>
Nth(s) == CHOOSE i \in 1..Len(Stages) : Stages[i] = s
Past(s) == Nth(stage) > Nth(s)

\* The process ends with Stop, and every goroutine with it.
Alive == stage # "closed"

TypeOK ==
    /\ newest \in Contents /\ save \in 0..newest /\ busy \in BOOLEAN
    /\ recorded \in Contents \cup {Unknown}
    /\ captured \subseteq Contents /\ passedOver \in BOOLEAN
    /\ watch \in [Slots -> Watch]
    /\ games \in Slots \cup {0} /\ (games # 0 => watch[games].at \notin {"free", "registered"})
    /\ closed \in BOOLEAN
    /\ caller \in [Callers -> Caller]
    /\ requests \in 0..MaxRequests
    /\ syncs \in [{"tied", "loose"} -> {"none", "running", "zipping"}]
    /\ uploading \in BOOLEAN
    /\ stage \in {Stages[i] : i \in 1..Len(Stages)}
    /\ rushed \in BOOLEAN /\ leaked \subseteq Slots

\* The daemon started with the game watched (Start), or the game was just tracked.
Init ==
    /\ save = 0 /\ newest = 0 /\ busy = FALSE /\ recorded = Unknown
    /\ captured = {} /\ passedOver = FALSE
    /\ \/ /\ games = CHOOSE s \in Slots : TRUE
          /\ watch = [s \in Slots |-> IF s = games THEN [Free EXCEPT !.at = "listen"] ELSE Free]
          /\ caller = [c \in Callers |-> NoCall]
       \/ /\ watch = [t \in Slots |-> Free] /\ games = 0
          /\ caller = [c \in Callers |->
                          IF c = Tracker THEN [NoCall EXCEPT !.at = "zip"] ELSE NoCall]
    /\ closed = FALSE /\ requests = 0
    /\ syncs = [k \in {"tied", "loose"} |-> "none"]
    /\ uploading = FALSE
    /\ stage = "up" /\ rushed = FALSE /\ leaked = {}

-----------------------------------------------------------------------------
(* The save folder                                                         *)

\* A change reaches every watch whose registration stands.
Notified == [s \in Slots |->
    IF watch[s].at = "free" \/ watch[s].cancelled THEN watch[s]
    ELSE [watch[s] EXCEPT !.event = TRUE, !.saw = TRUE]]

Rewritten == /\ newest < MaxContent /\ newest' = newest + 1 /\ save' = newest'
             /\ watch' = Notified

\* The game writes its save; it may hold a file open from here on, or let go of it.
Play ==
    /\ Alive /\ Rewritten
    /\ busy' \in BOOLEAN /\ passedOver' = FALSE
    /\ UNCHANGED <<recorded, captured, uploading, games, closed, leaked, running>>

Release ==
    /\ Alive /\ busy /\ busy' = FALSE
    /\ UNCHANGED <<save, newest, history, watching, running>>

-----------------------------------------------------------------------------
(* Snapshots: Manager.Create as the watcher, the tracker and syncs call it *)

\* A snapshot that Stop does not wait for, begun when its wait for snapshots is over.
Late == rushed \/ Past("snapshots")

Taken(content) ==
    /\ captured' = captured \cup {content}
    /\ uploading' = TRUE

FinishUploads ==
    /\ Alive /\ uploading /\ uploading' = FALSE
    /\ UNCHANGED <<folder, recorded, captured, passedOver, watching, running>>

-----------------------------------------------------------------------------
(* The watch goroutine                                                     *)

Goes(s, at) == [watch EXCEPT ![s].at = at]

\* handleChange is over, and its variables are gone.
Over(s) == [watch EXCEPT ![s] = [Free EXCEPT !.at = "listen", !.event = watch[s].event,
                                 !.cancelled = watch[s].cancelled, !.saw = watch[s].saw]]

\* A sync asked for once Stop has begun is dropped (GoSync).
Synced == IF syncs["tied"] = "none" /\ ~Past("server")
          THEN [syncs EXCEPT !["tied"] = "running"] ELSE syncs

\* Mutant: the gameplay guard polls on without looking at the context.
MutantReturn(s) ==
    /\ watch[s].at \in {"listen", "pause"} /\ watch[s].cancelled
    /\ watch' = [watch EXCEPT ![s] = Free]
    /\ leaked' = leaked \ {s}
    /\ UNCHANGED <<folder, history, games, closed, running>>

\* run: the context is done, or the registration closed.
Return(s) ==
    /\ watch[s].at \in {"listen", "guard", "pause"} /\ watch[s].cancelled
    /\ watch[s].at = "guard" => busy
    /\ watch' = [watch EXCEPT ![s] = Free]
    /\ leaked' = leaked \ {s}
    /\ UNCHANGED <<folder, history, games, closed, running>>

Arm(s) ==
    /\ watch[s].at = "listen" /\ watch[s].event
    /\ watch' = [watch EXCEPT ![s].event = FALSE, ![s].armed = TRUE]
    /\ UNCHANGED <<folder, history, games, closed, leaked, running>>

TimerFires(s) ==
    /\ watch[s].at = "listen" /\ watch[s].armed
    /\ watch' = [watch EXCEPT ![s].at = "guard", ![s].armed = FALSE]
    /\ UNCHANGED <<folder, history, games, closed, leaked, running>>

\* The files are free: hash the folder, and go on if the hash is not the recorded one.
Check(s) ==
    /\ watch[s].at = "guard" /\ ~busy
    /\ watch' = IF save = recorded THEN Over(s)
                ELSE [watch EXCEPT ![s].at = "zip", ![s].hash = save]
    /\ UNCHANGED <<folder, history, games, closed, leaked, running>>

\* The folder cannot be read: nothing more is done until the next event.
FailCheck(s) ==
    /\ watch[s].at = "guard" /\ ~busy
    /\ watch' = Over(s)
    /\ passedOver' = TRUE
    /\ UNCHANGED <<folder, recorded, captured, uploading, games, closed, leaked, running>>

Zip(s) ==
    /\ watch[s].at = "zip"
    /\ watch' = [watch EXCEPT ![s].at = "insert", ![s].zipped = save]
    /\ rushed' = IF s \in leaked THEN Late ELSE rushed
    /\ UNCHANGED <<folder, history, games, closed, leaked, caller, requests, syncs, stage>>

Insert(s) ==
    /\ watch[s].at = "insert"
    /\ Taken(watch[s].zipped)
    /\ watch' = [watch EXCEPT ![s].at = "record", ![s].zipped = 0]
    /\ UNCHANGED <<folder, recorded, passedOver, games, closed, leaked, running>>

FailSnapshot(s) ==
    /\ watch[s].at \in {"zip", "insert"}
    /\ watch' = [watch EXCEPT ![s].at = "pause", ![s].tries = @ + 1,
                              ![s].zipped = 0]
    /\ UNCHANGED <<folder, history, games, closed, leaked, running>>

Retry(s) ==
    /\ watch[s].at = "pause" /\ watch[s].tries < MaxTries
    /\ watch' = Goes(s, "zip")
    /\ UNCHANGED <<folder, history, games, closed, leaked, running>>

GiveUp(s) ==
    /\ watch[s].at = "pause" /\ watch[s].tries = MaxTries
    /\ watch' = Over(s)
    /\ passedOver' = (passedOver \/ save = watch[s].hash)
    /\ UNCHANGED <<folder, recorded, captured, uploading, games, closed, leaked, running>>

\* Mutant: the hash recorded is that of the folder when the snapshot is done.
MutantRecord(s) ==
    /\ watch[s].at = "record"
    /\ recorded' = save
    /\ watch' = Over(s)
    /\ syncs' = Synced
    /\ UNCHANGED <<folder, captured, passedOver, uploading, games, closed, leaked,
                   caller, requests, stage, rushed>>

\* SetLastManifestHash and OnChanged.
Record(s) ==
    /\ watch[s].at = "record"
    /\ recorded' = watch[s].hash
    /\ watch' = Over(s)
    /\ syncs' = Synced
    /\ UNCHANGED <<folder, captured, passedOver, uploading, games, closed, leaked,
                   caller, requests, stage, rushed>>

HandleChange(s) ==
    \/ Check(s) \/ FailCheck(s) \/ Zip(s) \/ Insert(s) \/ FailSnapshot(s)
    \/ Retry(s) \/ GiveUp(s) \/ Record(s)

Run(s) == Alive /\ (Return(s) \/ Arm(s) \/ TimerFires(s) \/ HandleChange(s))

-----------------------------------------------------------------------------
(* Watch and Unwatch, from a request or from TrackGame's goroutine         *)

\* Taken out of the games under the lock; its goroutine ends in its own time.
Cancelled == IF games = 0 THEN watch ELSE [watch EXCEPT ![games].cancelled = TRUE, ![games].saw = FALSE]

Held == {caller[c].new : c \in Callers} \cup {caller[c].old : c \in Callers}

\* The tracker's first snapshot; if it fails the game is watched all the same.
BeginFirstSnapshot ==
    /\ Alive /\ caller[Tracker].at = "zip"
    /\ caller' = [caller EXCEPT ![Tracker].at = "insert"]
    /\ UNCHANGED <<folder, history, watching, requests, syncs, stage, rushed>>

FirstSnapshot ==
    /\ Alive /\ caller[Tracker].at = "insert"
    /\ Taken(save) \/ UNCHANGED <<captured, uploading>>
    /\ caller' = [caller EXCEPT ![Tracker].at = "register"]
    /\ UNCHANGED <<folder, recorded, passedOver, watching, requests, syncs, stage, rushed>>

\* Unwatch, alone or as the first half of handleUpdateGame; then the wait for the goroutine.
Unwatch(again) ==
    /\ caller' = [caller EXCEPT ![Handler] =
           [at |-> "gone", new |-> 0, old |-> games, again |-> again]]
    /\ watch' = Cancelled /\ games' = 0
    /\ UNCHANGED <<closed, leaked>>

\* A request of the API: end the watch, move it (handleUpdateGame), or start one
\* for a game that came from outside (ResyncWatchers).
Request ==
    /\ stage = "up" /\ requests < MaxRequests /\ caller[Handler].at = "idle"
    /\ requests' = requests + 1
    /\ \/ \E again \in BOOLEAN : Unwatch(again)
       \/ /\ games = 0 /\ caller' = [caller EXCEPT ![Handler].at = "register"]
          /\ UNCHANGED watching
    /\ UNCHANGED <<folder, history, syncs, stage, rushed>>

\* The old watch's goroutine has ended.
Ended(c) == caller[c].old # 0 => watch[caller[c].old].at = "free"

Unwatched ==
    /\ Alive /\ caller[Handler].at = "gone" /\ Ended(Handler)
    /\ caller' = [caller EXCEPT ![Handler] =
           IF @.again THEN [NoCall EXCEPT !.at = "register"] ELSE NoCall]
    /\ UNCHANGED <<folder, history, watching, requests, syncs, stage, rushed>>

Unused == {s \in Slots \ Held : watch[s].at = "free"}

\* The walk that registers the folders comes before the engine's lock.
Register(c) ==
    /\ Alive /\ caller[c].at = "register"
    /\ Unused # {}
    /\ LET s == CHOOSE t \in Unused : TRUE
       IN  /\ watch' = [watch EXCEPT ![s].at = "registered"]
           /\ caller' = [caller EXCEPT ![c].at = "lock", ![c].new = s]
    /\ UNCHANGED <<folder, history, games, closed, leaked, requests, syncs, stage, rushed>>

\* The call is over; the tracker asks for a first sync, when the settings say so.
EndWatch(c) ==
    /\ caller' = [caller EXCEPT ![c] = NoCall]
    /\ syncs' \in IF c = Tracker THEN {syncs, Synced} ELSE {syncs}

\* The new watch goes into games over whatever is there, also when Stop has come since.
Put(c) ==
    /\ watch' = [watch EXCEPT ![caller[c].new].at = "listen"]
    /\ games' = caller[c].new
    /\ leaked' = leaked \cup ({games} \ {0}) \cup (IF closed THEN {caller[c].new} ELSE {})
    /\ EndWatch(c)

\* Under the lock: refuse, put the watch in, or take the old one out first.
Lock(c) ==
    /\ Alive /\ caller[c].at = "lock"
    /\ \/ /\ closed
          /\ watch' = [watch EXCEPT ![caller[c].new] = Free]
          /\ UNCHANGED <<games, leaked>> /\ EndWatch(c)
       \/ ~closed /\ games = 0 /\ Put(c)
       \/ /\ ~closed /\ games # 0
          /\ caller' = [caller EXCEPT ![c].at = "await", ![c].old = games]
          /\ watch' = Cancelled /\ games' = 0
          /\ UNCHANGED <<leaked, syncs>>
    /\ UNCHANGED <<folder, history, closed, requests, stage, rushed>>

\* Locked again, with no second look at closed or at the games.
Replace(c) ==
    /\ Alive /\ caller[c].at = "await" /\ Ended(c)
    /\ Put(c)
    /\ UNCHANGED <<folder, history, closed, requests, stage, rushed>>

-----------------------------------------------------------------------------
(* What else changes the save: restores, conflicts and syncs               *)

\* Restore takes a safety snapshot, goes on if that fails, and records no hash.
Restore ==
    /\ stage = "up" /\ requests < MaxRequests /\ caller[Handler].at = "idle"
    /\ requests' = requests + 1
    /\ save' \in captured
    /\ Taken(save) \/ UNCHANGED <<captured, uploading>>
    /\ watch' = Notified /\ passedOver' = FALSE
    /\ UNCHANGED <<newest, busy, recorded, games, closed, leaked, caller, syncs,
                   stage, rushed>>

\* A conflict is resolved: the hash of the version kept, or of the peer's written over
\* it after a safety snapshot, is recorded with no snapshot of that version.
ResolveConflict ==
    /\ stage = "up" /\ requests < MaxRequests /\ caller[Handler].at = "idle"
    /\ requests' = requests + 1
    /\ \/ UNCHANGED <<save, newest, captured, uploading>> /\ watch' = Notified
       \/ Rewritten /\ Taken(save)
    /\ recorded' = save' /\ passedOver' = TRUE
    /\ UNCHANGED <<busy, games, closed, leaked, caller, syncs, stage, rushed>>

\* A sync pulls the peer's files, or follows the peer to a branch with a safety copy first.
SyncPulls(k) ==
    /\ Alive /\ syncs[k] = "running"
    /\ Rewritten /\ passedOver' = FALSE
    /\ UNCHANGED <<busy, recorded, captured, uploading, games, closed, leaked, running>>

BeginSyncSnapshot(k) ==
    /\ Alive /\ syncs[k] = "running"
    /\ syncs' = [syncs EXCEPT ![k] = "zipping"]
    /\ rushed' = IF k = "loose" THEN Late ELSE rushed
    /\ UNCHANGED <<folder, history, watching, caller, requests, stage>>

SyncSnapshot(k) ==
    /\ Alive /\ syncs[k] = "zipping"
    /\ Taken(save)
    /\ syncs' = [syncs EXCEPT ![k] = "running"]
    /\ UNCHANGED <<folder, recorded, passedOver, watching, caller, requests, stage, rushed>>

\* A queued follow-up runs on a context of its own, outside GoSync.
EndSync(k) ==
    /\ Alive /\ syncs[k] = "running"
    /\ \/ syncs' = [syncs EXCEPT ![k] = "none"]
       \/ k = "tied" /\ syncs["loose"] = "none" /\ syncs' = [syncs EXCEPT !["tied"] = "none", !["loose"] = "running"]
    /\ UNCHANGED <<folder, history, watching, caller, requests, stage, rushed>>

-----------------------------------------------------------------------------
(* Shutdown                                                                *)

\* Snapshots whose writing has begun (Manager.inFlight).
InFlight == \/ \E s \in Slots : watch[s].at = "insert"
            \/ caller[Tracker].at = "insert"
            \/ \E k \in DOMAIN syncs : syncs[k] = "zipping"

\* What the stage waits for.
Drained ==
    CASE stage = "server"    -> caller[Handler].at = "idle"
      [] stage = "syncs"     -> syncs["tied"] = "none"
      [] stage = "watches"   -> Ended(Quitter)
      [] stage = "snapshots" -> ~InFlight
      [] stage = "initial"   -> caller[Tracker].at = "idle"
      [] stage = "uploads"   -> ~uploading

\* Watcher.Stop takes every watch out of the games.
StopWatcher ==
    /\ closed' = TRUE /\ games' = 0
    /\ watch' = Cancelled
    /\ caller' = [caller EXCEPT ![Quitter].old = games]
    /\ UNCHANGED leaked

Quit ==
    /\ stage = "up" /\ stage' = "server"
    /\ UNCHANGED <<folder, history, watching, caller, requests, syncs, rushed>>

\* A wait ends when there is nothing to wait for, or its time is up; Watcher.Stop
\* has no time of its own.
Advance ==
    /\ stage \notin {"up", "closed"}
    /\ stage = "watches" => Drained
    /\ stage' = Stages[Nth(stage) + 1]
    /\ rushed' = (rushed \/ ~Drained)
    /\ IF stage' = "watches" THEN StopWatcher ELSE UNCHANGED <<watching, caller>>
    /\ UNCHANGED <<folder, history, requests, syncs>>

-----------------------------------------------------------------------------
Next ==
    \/ Play \/ Release
    \/ FinishUploads
    \/ \E s \in Slots : Run(s)
    \/ BeginFirstSnapshot \/ FirstSnapshot
    \/ Request \/ Unwatched
    \/ \E c \in {Tracker, Handler} : Register(c) \/ Lock(c) \/ Replace(c)
    \/ Restore \/ ResolveConflict
    \/ \E k \in {"tied", "loose"} :
           SyncPulls(k) \/ BeginSyncSnapshot(k) \/ SyncSnapshot(k) \/ EndSync(k)
    \/ Quit \/ Advance

Spec == Init /\ [][Next]_vars

\* The watch goroutines run, and Stop's waits end; games need not let go of their files,
\* nor need requests, syncs or uploads ever come to an end.
FairSpec == Spec /\ WF_vars(Advance) /\ \A s \in Slots : WF_vars(Run(s))

-----------------------------------------------------------------------------
(* Properties                                                              *)

\* When the watch is at rest, a change it was told of is in some snapshot, whatever
\* ran while the snapshots were taken: the hash recorded is the one from before the
\* archive was written, so what changed in between is seen as a change again.  Given
\* up snapshots and the versions of resolved conflicts are the exceptions.
SeenIsCaptured ==
    games # 0 =>
        LET w == watch[games]
        IN  w.at = "listen" /\ ~w.event /\ ~w.armed /\ w.saw
                => save \in captured \/ passedOver

\* When the database closes, nothing that Stop waits for is under way, provided no
\* wait ran out and nothing outside the waits began a snapshot late: the waits come
\* in an order in which no finished one can be undone by what still runs.
DrainedBeforeClose ==
    stage = "closed" /\ ~rushed =>
        /\ ~InFlight /\ ~uploading
        /\ syncs["tied"] = "none" /\ caller[Tracker].at = "idle"
        /\ \A s \in Slots \ leaked : watch[s].at = "free"

\* "Engine owns one watch goroutine per tracked game" (watcher.go:56).  Two Watch calls
\* that wait for old watches at once leave one that no call stops, and so do Watch and Stop.
OneWatchGoroutine == leaked = {}

\* The shutdown comes to its end, also when a game never lets go of its save.
ShutdownEnds == stage = "server" ~> stage = "closed"
=============================================================================
