------------------------------ MODULE Pairing ------------------------------
(***************************************************************************)
(* Pairing and unpairing of two devices (internal/p2p/pairing, the         *)
(* handshake routes of internal/p2p, store.UpsertPeer and UnpairPeer) over *)
(* the LAN, whose requests may overtake each other, and over the relay,    *)
(* which keeps the order of what one device sends and may lose any of it.  *)
(*                                                                         *)
(* A device's row for the other is "none" or the address it is reached at. *)
(* The presence writers of both paths (discovery, relay traffic, pings,    *)
(* the guard of the peer routes) read the row and later upsert it whole.   *)
(* Left out: names, ports, the pruning of other identities at an address,  *)
(* and the merge bases UnpairPeer deletes with the row.                    *)
(***************************************************************************)
EXTENDS Naturals, Sequences, FiniteSets, SequencesExt

CONSTANTS Devices,
          Relayed,   \* both devices have joined the same relay room
          MaxAsks,   \* bound: what users do
          MaxHellos, \* bound: hellos under way to one device
          MaxPipe    \* bound: relay messages under way to one device

ASSUME PairingAssumption ==
    /\ Cardinality(Devices) = 2
    /\ Relayed \in BOOLEAN
    /\ MaxAsks \in Nat /\ MaxHellos \in Nat /\ MaxPipe \in Nat

Other(d) == CHOOSE e \in Devices : e # d
Paths    == IF Relayed THEN {"lan", "relay"} ELSE {"lan"}

VARIABLES row,       \* device -> its peers row for the other
          incoming,  \* device -> path of the handshake awaiting its user
          sent,      \* device -> keys of its open approve-confirm windows
          seen,      \* device -> path of a presence update about to be written
          net,       \* LAN requests under way
          pipe,      \* device -> relay messages under way to it
          asks       \* what the users did so far

vars == <<row, incoming, sent, seen, net, pipe, asks>>

Requests == {"handshake", "confirm", "unpair"}
Greetings == {"hello", "claim"}   \* a claim is a hello that names the receiver

TypeOK ==
    /\ row \in [Devices -> Paths \cup {"none"}]
    /\ incoming \in [Devices -> Paths \cup {"none"}]
    /\ sent \in [Devices -> SUBSET {"lan", "peer", "relay"}]
    /\ seen \in [Devices -> Paths \cup {"none"}]
    /\ net \subseteq Devices \X Requests
    /\ \A d \in Devices : pipe[d] \in BoundedSeq(Requests \cup Greetings, MaxPipe)
    /\ asks \in 0..MaxAsks

\* Two devices that never met, or were paired over one path.
Init ==
    /\ \E p \in Paths \cup {"none"} : row = [d \in Devices |-> p]
    /\ incoming = [d \in Devices |-> "none"]
    /\ sent = [d \in Devices |-> {}]
    /\ seen = [d \in Devices |-> "none"]
    /\ net = {}
    /\ pipe = [d \in Devices |-> <<>>]
    /\ asks = 0

(***************************************************************************)
(* Sending. A LAN request that cannot be made and a relay message that is  *)
(* dropped are lost; the caller's error changes no state.                  *)
(***************************************************************************)
Post(to, via, kind) ==
    \/ UNCHANGED <<net, pipe>>
    \/ /\ via = "lan"
       /\ net' = net \cup {<<to, kind>>}
       /\ UNCHANGED pipe
    \/ /\ via = "relay" /\ Len(pipe[to]) < MaxPipe
       /\ pipe' = [pipe EXCEPT ![to] = Append(@, kind)]
       /\ UNCHANGED net

(***************************************************************************)
(* What users do.                                                          *)
(***************************************************************************)
Asks == asks < MaxAsks /\ asks' = asks + 1

\* InitiatePair and InitiatePairWan open the window, then send.
InitiatePair(d, via) ==
    /\ Asks
    /\ sent' = [sent EXCEPT ![d] = @ \cup (IF via = "lan" THEN {"lan"} ELSE {"peer", "relay"})]
    /\ Post(Other(d), via, "handshake")
    /\ UNCHANGED <<row, incoming, seen>>

\* ApprovePairing takes the request, saves the peer and confirms.
ApprovePairing(d) ==
    /\ Asks
    /\ incoming[d] # "none"
    /\ incoming' = [incoming EXCEPT ![d] = "none"]
    /\ row' = [row EXCEPT ![d] = incoming[d]]
    /\ Post(Other(d), incoming[d], "confirm")
    /\ UNCHANGED <<sent, seen>>

RejectPairing(d) ==
    /\ Asks
    /\ incoming[d] # "none"
    /\ incoming' = [incoming EXCEPT ![d] = "none"]
    /\ UNCHANGED <<row, sent, seen, net, pipe>>

\* Unpair removes the row and tells the peer where the row said it is.
Unpair(d) ==
    /\ Asks
    /\ row[d] # "none"
    /\ row' = [row EXCEPT ![d] = "none"]
    /\ Post(Other(d), row[d], "unpair")
    /\ UNCHANGED <<incoming, sent, seen>>

(***************************************************************************)
(* What a message does to the device d that receives it over a path.       *)
(***************************************************************************)
HandleHandshake(d, via) ==
    /\ incoming' = [incoming EXCEPT ![d] = via]
    /\ UNCHANGED <<row, sent>>

Keys(via) == {"peer", via}

\* ValidateConfirm: already paired, asked by the other too, or a handshake of
\* ours to this peer or address is still within its grace window.
ValidateConfirm(d, via) ==
    row[d] # "none" \/ incoming[d] # "none" \/ sent[d] \cap Keys(via) # {}

\* A valid confirmation saves the peer; only a window that decided is used up.
HandleApproveConfirm(d, via) ==
    IF ValidateConfirm(d, via)
    THEN /\ row' = [row EXCEPT ![d] = via]
         /\ incoming' = [incoming EXCEPT ![d] = "none"]
         /\ sent' = IF row[d] # "none" \/ incoming[d] # "none" THEN sent
                    ELSE [sent EXCEPT ![d] = @ \ Keys(via)]
    ELSE UNCHANGED <<row, incoming, sent>>

\* The LAN route only serves the address a paired peer is registered at.
HandleUnpair(d, via) ==
    /\ row' = IF via = "relay" \/ row[d] = "lan" THEN [row EXCEPT ![d] = "none"] ELSE row
    /\ UNCHANGED <<incoming, sent>>

Handle(d, via, m) ==
    \/ m = "handshake" /\ HandleHandshake(d, via)
    \/ m = "confirm" /\ HandleApproveConfirm(d, via)
    \/ m = "unpair" /\ HandleUnpair(d, via)

ReceiveLan(d, m) ==
    /\ <<d, m>> \in net
    /\ Handle(d, "lan", m)
    /\ net' = net \ {<<d, m>>}
    /\ UNCHANGED <<seen, pipe, asks>>

ReceiveRelay(d) ==
    /\ pipe[d] # <<>> /\ Head(pipe[d]) \in Requests
    /\ Handle(d, "relay", Head(pipe[d]))
    /\ pipe' = [pipe EXCEPT ![d] = Tail(@)]
    /\ UNCHANGED <<seen, net, asks>>

\* A (re)connection to the relay announces whom the device is paired with.
Hello(d) ==
    /\ Relayed
    /\ Len(SelectSeq(pipe[Other(d)], LAMBDA m : m \in Greetings)) < MaxHellos
    /\ Len(pipe[Other(d)]) < MaxPipe
    /\ pipe' = [pipe EXCEPT ![Other(d)] =
                   Append(@, IF row[d] = "none" THEN "hello" ELSE "claim")]
    /\ UNCHANGED <<row, incoming, sent, seen, net, asks>>

\* They claim a pairing we do not have: a hello is only read.
MutantReceiveHello(d) ==
    /\ pipe[d] # <<>> /\ Head(pipe[d]) \in Greetings
    /\ pipe' = [pipe EXCEPT ![d] = Tail(@)]
    /\ UNCHANGED <<row, incoming, sent, seen, net, asks>>

\* They claim a pairing we do not have: tell them, unless they are asking.
ReceiveHello(d) ==
    /\ pipe[d] # <<>> /\ Head(pipe[d]) \in Greetings
    /\ LET read == [pipe EXCEPT ![d] = Tail(@)]
       IN  IF /\ Head(pipe[d]) = "claim" /\ row[d] = "none" /\ incoming[d] = "none"
              /\ Len(pipe[Other(d)]) < MaxPipe
           THEN pipe' = [read EXCEPT ![Other(d)] = Append(@, "unpair")]
           ELSE pipe' = read
    /\ UNCHANGED <<row, incoming, sent, seen, net, asks>>

\* The relay drops a message for a slow member; its order stays.
RelayDrops(d) ==
    /\ pipe[d] # <<>>
    /\ pipe' = [pipe EXCEPT ![d] = Tail(@)]
    /\ UNCHANGED <<row, incoming, sent, seen, net, asks>>

(***************************************************************************)
(* Time, and the presence of a paired peer.                                *)
(***************************************************************************)
GraceWindowEnds(d) ==
    /\ sent[d] # {}
    /\ \E k \in sent[d] : sent' = [sent EXCEPT ![d] = @ \ {k}]
    /\ UNCHANGED <<row, incoming, seen, net, pipe, asks>>

\* A restart keeps the peers table; handshakes and windows live in memory.
Restart(d) ==
    /\ incoming' = [incoming EXCEPT ![d] = "none"]
    /\ sent' = [sent EXCEPT ![d] = {}]
    /\ seen' = [seen EXCEPT ![d] = "none"]
    /\ <<incoming, sent, seen>>' # <<incoming, sent, seen>>
    /\ UNCHANGED <<row, net, pipe, asks>>

\* GetPeer found the row; the address is the one the peer is now heard at.
PresenceReads(d, via) ==
    /\ row[d] # "none" /\ seen[d] = "none"
    /\ seen' = [seen EXCEPT ![d] = via]
    /\ UNCHANGED <<row, incoming, sent, net, pipe, asks>>

\* UpsertPeer inserts the row if it is not there.
PresenceWrites(d) ==
    /\ seen[d] # "none"
    /\ row' = [row EXCEPT ![d] = seen[d]]
    /\ seen' = [seen EXCEPT ![d] = "none"]
    /\ UNCHANGED <<incoming, sent, net, pipe, asks>>

Next == \E d \in Devices :
    \/ \E via \in Paths : InitiatePair(d, via) \/ PresenceReads(d, via)
    \/ ApprovePairing(d) \/ RejectPairing(d) \/ Unpair(d)
    \/ \E m \in Requests : ReceiveLan(d, m)
    \/ ReceiveRelay(d) \/ Hello(d) \/ ReceiveHello(d) \/ RelayDrops(d)
    \/ GraceWindowEnds(d) \/ Restart(d) \/ PresenceWrites(d)

\* A presence update that read the row writes it. Devices reconnect to the
\* relay again and again, and it does not drop every message of a kind.
Fairness == \A d \in Devices :
    /\ WF_vars(PresenceWrites(d)) /\ WF_vars(Hello(d))
    /\ SF_vars(ReceiveHello(d)) /\ SF_vars(ReceiveRelay(d))

Spec == Init /\ [][Next]_vars /\ Fairness

(***************************************************************************)
(* Properties.                                                             *)
(***************************************************************************)
\* One side never keeps a pairing the other dropped: with the relay between
\* them, what its notice misses the next hello repairs - unless a request still
\* awaits its user's answer (engine.go:667, wanclient_handlers.go:36).
PairingSettles ==
    []<>(\/ \A d, e \in Devices : row[d] = "none" <=> row[e] = "none"
         \/ \E d \in Devices : incoming[d] # "none")

\* "You can unpair a device at any time ... which stops all sync with it":
\* an unpaired device is paired again only by a user or a confirmation.
UnpairStopsSync ==
    [][\A d \in Devices : row[d] = "none" /\ row'[d] # "none" => seen'[d] = seen[d]]_vars
=============================================================================
