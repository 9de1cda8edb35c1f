----------------------------- MODULE WanClient -----------------------------
(***************************************************************************)
(* One device's connection to the WAN relay room (internal/p2p/wanclient)  *)
(* and the presence of one paired peer, which the relay's traffic, the     *)
(* expiry sweeps and LAN discovery all write.                              *)
(*                                                                         *)
(* Every connection runs in a goroutine of its own, the loop, which holds  *)
(* the generation it was started with and a context that the next Connect  *)
(* or Disconnect cancels.  The code's generation only grows and is only    *)
(* compared for equality, so a generation is a slot here, taken again once *)
(* nothing holds it.  Timers are untimed: a deadline may pass whenever the *)
(* code would let it.                                                      *)
(***************************************************************************)
EXTENDS Naturals, FiniteSets

CONSTANTS Rooms,       \* the sync codes a user may configure
          Handlers,    \* HTTP handlers that may run at the same time
          MaxLoops,    \* bound: generations alive at once
          MaxChanges   \* bound: settings changes and manual reconnects

NoRoom  == "no room"
NoCall  == "no call"
Called  == "called"
Marking == "marking"

ASSUME WanAssumption ==
    /\ MaxLoops \in Nat \ {0}
    /\ MaxChanges \in Nat
    /\ Rooms # {} /\ Rooms \cap {NoRoom, NoCall, Called, Marking} = {}
    /\ Handlers # {} /\ Handlers \cap Nat = {}

Gens    == 1..MaxLoops
Callers == Gens \cup Handlers

VARIABLES setting,     \* settings.sync_code
          changes,     \* settings changes so far
          up,          \* the relay can be reached
          generation,  \* w.generation
          open,        \* generations whose context is not cancelled
          conn,        \* the generation whose socket w.conn is, 0 for nil
          state,       \* w.state
          loops,       \* generation -> its goroutine
          calls,       \* caller -> how far its Connect() got
          chatty,      \* the peer is in the relay room and sends
          fresh,       \* the peer was heard within wanPeerExpiry
          discovered,  \* the peer is in w.discovered
          sighted,     \* the peer is in the LAN discovery map
          row          \* the peer's row of the peers table

client   == <<generation, open, conn, state, loops, calls>>
presence == <<fresh, discovered, sighted, row>>
clientVars     == <<setting, changes, up, client, chatty, presence>>

NoLoop == [pc |-> "none", beats |-> FALSE]

ClientTypeOK ==
    /\ setting \in Rooms \cup {NoRoom}
    /\ changes \in 0..MaxChanges
    /\ generation \in Gens
    /\ open \subseteq {generation}
    /\ conn \in Gens \cup {0}
    /\ state \in {"disconnected", "connecting", "connected", "error"}
    /\ loops \in [Gens -> [pc : {"none", "dial", "read", "handle", "wait"}, beats : BOOLEAN]]
    /\ calls \in [Callers -> Rooms \cup {NoRoom, NoCall, Called, Marking}]
    /\ {up, chatty, fresh, discovered, sighted} \subseteq BOOLEAN
    /\ row \in [address : {"lan", "relay"}, status : {"online", "offline"}]

\* The daemon's Start has just called Connect.
ClientInit ==
    /\ setting \in Rooms \cup {NoRoom}
    /\ changes = 0
    /\ up \in BOOLEAN /\ chatty \in BOOLEAN
    /\ generation = 1 /\ open = {} /\ conn = 0 /\ state = "disconnected"
    /\ loops = [g \in Gens |-> NoLoop]
    /\ \E h \in Handlers : calls = [c \in Callers |-> IF c = h THEN Called ELSE NoCall]
    /\ fresh = FALSE /\ discovered = FALSE /\ sighted = FALSE
    /\ row \in [address : {"lan", "relay"}, status : {"offline"}]

(***************************************************************************)
(* Connect and Disconnect, in the steps other goroutines can come between. *)
(***************************************************************************)
\* The next generation number: a slot that nothing but its taker holds.
NextGeneration(c) ==
    LET free == {g \in Gens \ {generation, conn} :
                    loops[g] = NoLoop /\ (calls[g] = NoCall \/ g = c)}
    IN  {g \in free : \A other \in free : g <= other}

\* PATCH /api/settings stores the sync code and then calls Connect.
ChangeRoom(h, r) ==
    /\ calls[h] = NoCall /\ changes < MaxChanges /\ r # setting
    /\ setting' = r
    /\ changes' = changes + 1
    /\ calls' = [calls EXCEPT ![h] = Called]
    /\ UNCHANGED <<up, generation, open, conn, state, loops, chatty, presence>>

\* The dashboard's "try again now".
Reconnect(h) ==
    /\ calls[h] = NoCall /\ changes < MaxChanges
    /\ changes' = changes + 1
    /\ calls' = [calls EXCEPT ![h] = Called]
    /\ UNCHANGED <<setting, up, generation, open, conn, state, loops, chatty, presence>>

\* Connect reads the settings before it takes the client's lock.
ReadSettings(c) ==
    /\ calls[c] = Called
    /\ calls' = [calls EXCEPT ![c] = setting]
    /\ UNCHANGED <<setting, changes, up, generation, open, conn, state, loops, chatty, presence>>

\* A new generation: the previous context is cancelled, a loop is started.
TakeOver(c) ==
    /\ calls[c] \in Rooms
    /\ \E g \in NextGeneration(c) :
         /\ generation' = g
         /\ open' = {g}
         /\ loops' = [loops EXCEPT ![g] = [NoLoop EXCEPT !.pc = "dial"]]
    /\ state' = "connecting"
    /\ calls' = [calls EXCEPT ![c] = NoCall]
    /\ UNCHANGED <<setting, changes, up, conn, chatty, presence>>

\* Disconnect cancels the context; the connection itself is left in w.conn.
Disconnect(c) ==
    /\ calls[c] = NoRoom
    /\ generation' \in NextGeneration(c)
    /\ open' = {}
    /\ state' = "disconnected"
    /\ discovered' = FALSE
    /\ calls' = [calls EXCEPT ![c] = Marking]
    /\ UNCHANGED <<setting, changes, up, conn, loops, chatty, fresh, sighted, row>>

\* ... and then marks the relay's peers offline.
MarkWanPeersOffline(c) ==
    /\ calls[c] = Marking
    /\ row' = IF row.address = "relay" THEN [row EXCEPT !.status = "offline"] ELSE row
    /\ calls' = [calls EXCEPT ![c] = NoCall]
    /\ UNCHANGED <<setting, changes, up, generation, open, conn, state, loops, chatty,
                   fresh, discovered, sighted>>

(***************************************************************************)
(* The loop of one generation.                                             *)
(***************************************************************************)
EndOf(g) == loops' = [loops EXCEPT ![g] = NoLoop]

\* A superseded loop takes the connection down as well.
MutantLostAnyway(g, why) ==
    /\ conn' = 0
    /\ state' = why
    /\ loops' = [loops EXCEPT ![g].pc = "wait"]

\* A superseded loop ends; the current one drops w.conn and waits to retry.
ConnectionLost(g, why) ==
    IF g # generation
    THEN EndOf(g) /\ UNCHANGED <<conn, state>>
    ELSE /\ conn' = 0
         /\ state' = why
         /\ loops' = [loops EXCEPT ![g].pc = "wait"]

\* The dial succeeded: the connection is dropped if a later Connect ran.
Joined(g) ==
    IF g # generation
    THEN EndOf(g) /\ UNCHANGED <<conn, state>>
    ELSE /\ conn' = g
         /\ state' = "connected"
         /\ loops' = [loops EXCEPT ![g].pc = "read", ![g].beats = TRUE]

Dial(g) ==
    /\ loops[g].pc = "dial"
    /\ \/ up /\ Joined(g)
       \/ (~up \/ g \notin open) /\ ConnectionLost(g, "error")
    /\ UNCHANGED <<setting, changes, up, generation, open, calls, chatty, presence>>

\* A message of the peer has been read and is about to be handled.
Receive(g) ==
    /\ loops[g].pc = "read" /\ g \in open /\ up /\ chatty
    /\ loops' = [loops EXCEPT ![g].pc = "handle"]
    /\ UNCHANGED <<setting, changes, up, generation, open, conn, state, calls, chatty, presence>>

\* trackPresence and recordDiscovered, whatever became of the generation.
HandleMessage(g) ==
    /\ loops[g].pc = "handle"
    /\ loops' = [loops EXCEPT ![g].pc = "read"]
    /\ row' = [address |-> "relay", status |-> "online"]
    /\ fresh' = TRUE /\ discovered' = TRUE
    /\ UNCHANGED <<setting, changes, up, generation, open, conn, state, calls, chatty, sighted>>

LinkDrops(g) ==
    /\ loops[g].pc = "read"
    /\ ~up \/ g \notin open
    /\ ConnectionLost(g, "disconnected")
    /\ UNCHANGED <<setting, changes, up, generation, open, calls, chatty, presence>>

\* Only the first failed attempt is retried.
MutantTimerGivesUp(g) ==
    /\ loops[g].pc = "wait" /\ g \in open
    /\ EndOf(g)
    /\ calls' = IF loops[g].beats THEN [calls EXCEPT ![g] = Called] ELSE calls
    /\ UNCHANGED <<setting, changes, up, generation, open, conn, state, chatty, presence>>

\* The backoff ran out: the loop's last act is another Connect.
TimerFires(g) ==
    /\ loops[g].pc = "wait" /\ g \in open
    /\ EndOf(g)
    /\ calls' = [calls EXCEPT ![g] = Called]
    /\ UNCHANGED <<setting, changes, up, generation, open, conn, state, chatty, presence>>

\* A newer Connect or Disconnect cancelled the wait.
Cancelled(g) ==
    /\ loops[g].pc = "wait" /\ g \notin open
    /\ EndOf(g)
    /\ UNCHANGED <<setting, changes, up, generation, open, conn, state, calls, chatty, presence>>

\* The sweep forgets the room's entry and leaves the paired peer alone.
MutantSweepRoomOnly(g) ==
    /\ loops[g].beats /\ g \in open /\ ~fresh
    /\ discovered' = FALSE
    /\ discovered
    /\ UNCHANGED <<setting, changes, up, client, chatty, fresh, sighted, row>>

(***************************************************************************)
(* Presence.                                                               *)
(***************************************************************************)
\* The heartbeat's sweep. It lives with the context of a loop that connected.
ExpireStalePeers(g) ==
    /\ loops[g].beats /\ g \in open /\ ~fresh
    /\ discovered' = FALSE
    /\ row' = IF row.address = "relay" THEN [row EXCEPT !.status = "offline"] ELSE row
    /\ <<discovered, row>>' # <<discovered, row>>
    /\ UNCHANGED <<setting, changes, up, client, chatty, fresh, sighted>>

\* Discovery hears the peer on the LAN.
OnPeerSeen ==
    /\ sighted' = TRUE
    /\ row' = [address |-> "lan", status |-> "online"]
    /\ <<sighted, row>>' # <<sighted, row>>
    /\ UNCHANGED <<setting, changes, up, client, chatty, fresh, discovered>>

HasDiscovered == discovered /\ fresh

\* LAN expiry does not look at the relay.
MutantExpired ==
    /\ sighted
    /\ sighted' = FALSE
    /\ row' = IF row.status = "online" /\ row.address = "lan"
              THEN [row EXCEPT !.status = "offline"] ELSE row
    /\ UNCHANGED <<setting, changes, up, client, chatty, fresh, discovered>>

\* The LAN sighting aged out: the relay keeps the peer if it still hears it.
OnExpired ==
    /\ sighted
    /\ sighted' = FALSE
    /\ row' = IF row.status = "online" /\ row.address = "lan"
              THEN IF HasDiscovered THEN [row EXCEPT !.address = "relay"]
                                    ELSE [row EXCEPT !.status = "offline"]
              ELSE row
    /\ UNCHANGED <<setting, changes, up, client, chatty, fresh, discovered>>

(***************************************************************************)
(* The environment: the relay comes and goes, so does the peer, time runs. *)
(***************************************************************************)
RelayToggles ==
    /\ up' = ~up
    /\ UNCHANGED <<setting, changes, client, chatty, presence>>

PeerToggles ==
    /\ chatty' = ~chatty
    /\ UNCHANGED <<setting, changes, up, client, presence>>

\* wanPeerExpiry passes without a message: not while the peer is being heard.
Silence ==
    /\ fresh
    /\ ~(chatty /\ up /\ state = "connected")
    /\ fresh' = FALSE
    /\ UNCHANGED <<setting, changes, up, client, chatty, discovered, sighted, row>>

Loop(g) == Dial(g) \/ HandleMessage(g) \/ LinkDrops(g) \/ TimerFires(g) \/ Cancelled(g)
Call(c) == ReadSettings(c) \/ TakeOver(c) \/ Disconnect(c) \/ MarkWanPeersOffline(c)

ClientNext ==
    \/ \E h \in Handlers : Reconnect(h) \/ \E r \in Rooms \cup {NoRoom} : ChangeRoom(h, r)
    \/ \E c \in Callers : Call(c)
    \/ \E g \in Gens : Loop(g) \/ Receive(g) \/ ExpireStalePeers(g)
    \/ OnPeerSeen \/ OnExpired
    \/ RelayToggles \/ PeerToggles \/ Silence

\* Goroutines run, a dial and a backoff end, tickers tick, silence lasts.
ClientFairness ==
    /\ \A c \in Callers : WF_clientVars(Call(c))
    /\ \A g \in Gens : WF_clientVars(Loop(g)) /\ WF_clientVars(ExpireStalePeers(g)) /\ WF_clientVars(Receive(g))
    /\ WF_clientVars(Silence)

ClientSpec == ClientInit /\ [][ClientNext]_clientVars /\ ClientFairness

(***************************************************************************)
(* Properties.                                                             *)
(***************************************************************************)
RelayOnline == row = [address |-> "relay", status |-> "online"]

\* A superseded loop that learns late that its socket is gone must not take
\* down the connection of its successor: while the current generation reads,
\* w.conn is its socket and the client says connected (wanclient.go:385).
LiveLoopOwnsConnection ==
    loops[generation].pc \in {"read", "handle"} => conn = generation /\ state = "connected"

\* However often the relay drops the client, a client whose user keeps a
\* room configured ends up connected once the relay can be reached for good
\* (the retry that every lost connection schedules, wanclient.go:432).
Reconnects ==
    ([](setting # NoRoom) /\ <>[]up) => <>[](state = "connected")

\* A peer that goes quiet while the connection lasts does not stay "online
\* via the relay", whatever LAN discovery does to its row meanwhile
\* (expireStalePeers, wanclient.go:575).
QuietPeerGoesOffline ==
    <>[](state = "connected" /\ ~chatty /\ ~sighted) => <>[]~RelayOnline

\* Two sources keep one row: a peer the relay heard within the window is not
\* shown offline because its LAN sighting aged out (engine.go:178).
HeardPeerStaysOnline ==
    [][row.status = "online" /\ HasDiscovered /\ state = "connected" /\ row'.status = "offline"
         => state' # "connected" \/ \E c \in Callers : calls[c] = Marking]_clientVars

\* "Paired relay-routed peers go offline after silence too": also when the
\* silence is the relay's own.
SilentPeerGoesOffline == <>[](~chatty /\ ~sighted) => <>[]~RelayOnline

\* "An empty sync code disconnects": once nothing is in flight, a device
\* whose user left the room is not in one.
LeftMeansDisconnected ==
    (setting = NoRoom /\ \A c \in Callers : calls[c] = NoCall) => open = {}
=============================================================================
