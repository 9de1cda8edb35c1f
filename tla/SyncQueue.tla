------------------------------ MODULE SyncQueue ------------------------------
(***************************************************************************)
(* Who may sync one game of one device, and what becomes of a request that *)
(* finds a sync running and of a sync that fails: SyncGame's activeSyncs   *)
(* and pendingSyncs (syncengine/engine.go), and around it the failsafe of  *)
(* p2p/engine.go: trackSyncOutcome, pendingResync and the resync loop.     *)
(*                                                                         *)
(* A pass with one peer (SyncWithPeer, see SyncEngine.tla) is two steps    *)
(* here: it reads the local save, and later it has brought the peer up to  *)
(* that state or it fails.  A change of the save is a number.  Peer        *)
(* presence as stored is taken to be true.                                 *)
(***************************************************************************)
EXTENDS Naturals

CONSTANTS
    Peers,          \* paired peers
    NoPeer,         \* "between two peers"
    Callers,        \* goroutines that ask for a sync: watcher, API, a peer's trigger
    Loop,           \* the resync loop
    FollowUps,      \* bound: goroutines of queued follow-ups alive at a time
    ReconcileEvery, \* reconcileEveryNTicks
    MaxChanges,     \* bound: changes of the save
    MaxFaults       \* bound: failed passes and lost peers

ASSUME QueueAssumption ==
    /\ NoPeer \notin Peers
    /\ Callers \cap FollowUps = {} /\ Loop \notin Callers \cup FollowUps
    /\ ReconcileEvery \in Nat \ {0}
    /\ MaxChanges \in Nat /\ MaxFaults \in Nat

VARIABLES
    online,         \* peers whose stored status is "online"
    change,         \* the newest change of the save
    reached,        \* per peer: the newest change it is in sync with
    active,         \* activeSyncs[game]
    queued,         \* pendingSyncs[game]
    retry,          \* pendingResync[game]
    calls,          \* where each goroutine stands in SyncGame
    ticks,          \* ticks of the resync loop since the last reconcile
    due,            \* the loop still has to reconcile in this tick
    faults

queue == <<active, queued, retry>>
world == <<online, change, reached>>
loop  == <<ticks, due>>
vars  == <<world, queue, calls, loop, faults>>

-----------------------------------------------------------------------------
(* State                                                                   *)

Goroutines == Callers \cup {Loop} \cup FollowUps

\* A goroutine asks, runs its passes, and may then note the outcome.
Call == [step   : {"idle", "asking", "running", "noting"},
         tracks : {"always", "unless-queued", "never"},
         left   : SUBSET Peers,
         peers  : SUBSET Peers,
         with   : Peers \cup {NoPeer},
         read   : 0..MaxChanges,
         failed : BOOLEAN]

Idle == [step |-> "idle", tracks |-> "never", left |-> {}, peers |-> {},
         with |-> NoPeer, read |-> 0, failed |-> FALSE]

Asking(peers, tracks) == [Idle EXCEPT !.step = "asking", !.peers = peers, !.tracks = tracks]

TypeOK ==
    /\ online \subseteq Peers
    /\ change \in 0..MaxChanges
    /\ reached \in [Peers -> 0..MaxChanges]
    /\ active \in BOOLEAN /\ queued \in BOOLEAN /\ retry \in BOOLEAN
    /\ calls \in [Goroutines -> Call]
    /\ ticks \in 0..(ReconcileEvery - 1)
    /\ due \in BOOLEAN
    /\ faults \in 0..MaxFaults

Init ==
    /\ online = Peers
    /\ change = 0
    /\ reached = [p \in Peers |-> 0]
    /\ active = FALSE /\ queued = FALSE /\ retry = FALSE
    /\ calls = [g \in Goroutines |-> Idle]
    /\ ticks = 0 /\ due = FALSE
    /\ faults = 0

Fault == faults < MaxFaults /\ faults' = faults + 1

-----------------------------------------------------------------------------
(* Requests                                                                *)

\* P2P SyncGame asks for every online peer and notes the outcome whatever it is;
\* with nobody online it returns.
Request(g) ==
    /\ calls[g].step = "idle"
    /\ calls' = IF online = {} THEN calls
                ELSE [calls EXCEPT ![g] = Asking(online, "always")]

\* The save changes and the watcher asks.
Change(g) ==
    /\ change < MaxChanges
    /\ change' = change + 1
    /\ Request(g)
    /\ UNCHANGED <<online, reached, queue, loop, faults>>

\* A user or a peer's trigger asks.
Ask(g) ==
    /\ online # {}
    /\ Request(g)
    /\ UNCHANGED <<world, queue, loop, faults>>

\* A peer goes away, or is found again: then all games are synced (SyncAllGames),
\* which notes no outcome of a sync that was only queued.
Disconnect(p) ==
    /\ Fault
    /\ p \in online
    /\ online' = online \ {p}
    /\ UNCHANGED <<change, reached, queue, calls, loop>>

Connect(g, p) ==
    /\ calls[g].step = "idle"
    /\ p \notin online
    /\ online' = online \cup {p}
    /\ calls' = [calls EXCEPT ![g] = Asking(online', "unless-queued")]
    /\ UNCHANGED <<change, reached, queue, loop, faults>>

-----------------------------------------------------------------------------
(* SyncGame                                                                *)

\* One sync of a game at a time: a second request is queued, not run.  (Mutants:
\* nobody looks at the flag; a request that finds the game busy is dropped.)
MutantEnterAnyway(g) ==
    /\ active' = TRUE
    /\ calls' = [calls EXCEPT ![g].step = "running", ![g].left = calls[g].peers]
    /\ UNCHANGED queued

EnterIdle(g) ==
    /\ ~active
    /\ active' = TRUE
    /\ calls' = [calls EXCEPT ![g].step = "running", ![g].left = calls[g].peers]
    /\ UNCHANGED queued

MutantDropRequest(g) ==
    /\ active
    /\ calls' = [calls EXCEPT ![g] = Idle]
    /\ UNCHANGED <<active, queued>>

\* ErrSyncQueued: no results.
EnterBusy(g) ==
    /\ active
    /\ queued' = TRUE
    /\ calls' = [calls EXCEPT ![g] = IF @.tracks = "always" THEN [@ EXCEPT !.step = "noting"] ELSE Idle]
    /\ UNCHANGED active

Enter(g) ==
    /\ calls[g].step = "asking"
    /\ EnterIdle(g) \/ EnterBusy(g)
    /\ UNCHANGED <<world, retry, loop, faults>>

\* A pass with the next peer reads the save ...
Read(g, p) ==
    /\ calls[g].step = "running"
    /\ calls[g].with = NoPeer
    /\ p \in calls[g].left
    /\ calls' = [calls EXCEPT ![g].left = @ \ {p}, ![g].with = p, ![g].read = change]
    /\ UNCHANGED <<world, queue, loop, faults>>

\* ... and brings the peer there,
Reach(g) ==
    /\ calls[g].with \in online
    /\ reached' = [reached EXCEPT ![calls[g].with] = calls[g].read]
    /\ calls' = [calls EXCEPT ![g].with = NoPeer, ![g].read = 0]
    /\ UNCHANGED <<online, change, queue, loop, faults>>

\* or fails: the next peer has its turn all the same.
Fail(g) ==
    /\ calls[g].with # NoPeer
    /\ calls' = [calls EXCEPT ![g].with = NoPeer, ![g].read = 0, ![g].failed = TRUE]
    /\ UNCHANGED <<world, queue, loop>>

Interrupt(g) == Fault /\ Fail(g)

MissPeer(g) ==
    /\ calls[g].with \notin online
    /\ Fail(g)
    /\ UNCHANGED faults

\* The deferred end: a queued request becomes one follow-up with the peers of the
\* sync that just ended, and nobody notes the outcome of that follow-up.  (One
\* follow-up may leave another; it is over by then.)
Outcome(call) == IF call.tracks = "never" THEN Idle
                 ELSE [Idle EXCEPT !.step = "noting", !.failed = call.failed]

Leave(g) ==
    /\ calls[g].step = "running"
    /\ calls[g].left = {} /\ calls[g].with = NoPeer
    /\ active' = FALSE
    /\ queued' = FALSE
    /\ IF queued
       THEN \E f \in FollowUps :
                /\ calls[f].step = "idle" \/ f = g
                /\ calls' = [calls EXCEPT ![g] = Outcome(calls[g]),
                                          ![f] = Asking(calls[g].peers, "never")]
       ELSE calls' = [calls EXCEPT ![g] = Outcome(calls[g])]
    /\ UNCHANGED <<world, retry, loop, faults>>

\* trackSyncOutcome: any failed peer queues the game for the next tick.
Note(g) ==
    /\ calls[g].step = "noting"
    /\ retry' = calls[g].failed
    /\ calls' = [calls EXCEPT ![g] = Idle]
    /\ UNCHANGED <<world, active, queued, loop, faults>>

-----------------------------------------------------------------------------
(* The resync loop                                                         *)

LoopFree == calls[Loop].step = "idle" /\ ~due

\* Every tick retries an interrupted game, every ReconcileEvery-th one then also
\* syncs whatever there is.  (Mutants: a count that is never reduced, a reconcile
\* of interrupted games only.)
MutantNextTick == ticks + 1
NextTick == (ticks + 1) % ReconcileEvery

Tick ==
    /\ LoopFree
    /\ ticks' = NextTick
    /\ due' = (ticks' = 0)
    /\ calls' = IF retry /\ online # {}
                THEN [calls EXCEPT ![Loop] = Asking(online, "unless-queued")]
                ELSE calls
    /\ UNCHANGED <<world, queue, faults>>

MutantWorthReconciling == online # {} /\ retry
WorthReconciling == online # {}

Reconcile ==
    /\ due
    /\ calls[Loop].step = "idle"
    /\ due' = FALSE
    /\ calls' = IF ~WorthReconciling THEN calls
                ELSE [calls EXCEPT ![Loop] = Asking(online, "unless-queued")]
    /\ UNCHANGED <<world, queue, ticks, faults>>

-----------------------------------------------------------------------------

\* What a goroutine does by itself once it has asked.
Proceed(g) ==
    \/ Enter(g)
    \/ \E p \in Peers : Read(g, p)
    \/ Reach(g) \/ MissPeer(g)
    \/ Leave(g) \/ Note(g)

Next ==
    \/ \E g \in Callers : Change(g) \/ Ask(g) \/ \E p \in Peers : Connect(g, p)
    \/ \E p \in Peers : Disconnect(p)
    \/ \E g \in Goroutines : Proceed(g) \/ Interrupt(g)
    \/ Tick \/ Reconcile

Spec == Init /\ [][Next]_vars

\* Goroutines go on, passes are capped in time (perPeerSyncTimeout), and the ticker
\* ticks.
FairSpec ==
    /\ Spec
    /\ \A g \in Goroutines : WF_vars(Proceed(g))
    /\ WF_vars(Tick \/ Reconcile)

-----------------------------------------------------------------------------
(* Properties                                                              *)

\* The flag and the goroutines agree: never two syncs of one game at once, never
\* a flag left set with nobody running, "which would silently block every future
\* sync of this game" (SyncGame).
OneSyncAtATime ==
    /\ \A g, h \in Goroutines : calls[g].step = "running" /\ calls[h].step = "running" => g = h
    /\ active <=> \E g \in Goroutines : calls[g].step = "running"

Quiet == ~queued /\ \A g \in Goroutines : calls[g].step = "idle"

\* A request that met a running sync is not lost: when everything has come to
\* rest and nothing ever failed, every peer has the newest change, without any
\* help of the resync loop (SyncGame's queue).
QueuedChangesArrive ==
    Quiet /\ faults = 0 => \A p \in Peers : reached[p] = change

\* An interrupted sync is retried "until it completes" (StartResyncLoop): at rest,
\* an online peer that misses a change is one that the next tick serves.
InterruptedIsRetried ==
    Quiet => \A p \in online : reached[p] = change \/ retry

\* The loop finds the game busy.
LoopTurnedAway == calls[Loop].step = "asking" /\ EnterBusy(Loop)

\* The backstop: once all peers stay online they all get the last change, whatever
\* was interrupted, mislaid or queued behind whom (StartResyncLoop).  Provided that
\* the loop does not find the game busy for ever: a chain of follow-ups would then
\* serve for ever the peers of the sync that began it.
BackstopDelivers ==
    <>[](online = Peers) /\ <>[][~LoopTurnedAway]_vars
        => <>[](\A p \in Peers : reached[p] = change)
=============================================================================
