------------------------------- MODULE WanRpc -------------------------------
(***************************************************************************)
(* Requests between devices tunnelled through the relay's room: Request,   *)
(* serveRequest and the response half of handleMessage                     *)
(* (internal/p2p/wanclient*.go), composed with the relay.                  *)
(*                                                                         *)
(* What a socket still buffers when it closes is lost: a message a device  *)
(* writes reaches the relay or not, one the relay writes is handled.       *)
(***************************************************************************)
EXTENDS RelayRoom

CONSTANTS Calls,      \* bound: the calls that are ever made
          MaxFaults   \* bound: sockets that close, writes that fail

VARIABLES session,   \* device -> the session w.conn belongs to, 0 for nil
          outcome,   \* call -> what Request returned
          party,     \* call -> who asks whom
          inbox,     \* calls whose response sits in the pending channel
          serving,   \* requests whose serveRequest goroutine runs
          served,    \* call -> how often its handler ran
          faults     \* sockets closed and writes failed so far

rpc  == <<session, outcome, party, inbox, serving, served, faults>>
vars == <<relay, rpc>>

Message == [type : {"request", "response"}, call : Calls, to : Devices]

ASSUME SizeAssumption == \A m \in Message : Size(m) \in Nat \ {0}
ASSUME RpcAssumption == Cardinality(Devices) > 1 /\ Calls # {} /\ MaxFaults \in Nat

Nobody == <<>>

TypeOK ==
    /\ RelayTypeOK
    /\ \A d \in Devices : session[d] \in 0..MaxSessions
    /\ outcome \in [Calls -> {"none", "waiting", "answered", "failed"}]
    /\ \A c \in Calls : party[c] \in {Nobody} \cup Devices \X Devices
    /\ inbox \subseteq Calls /\ serving \subseteq Calls
    /\ served \in [Calls -> Nat]
    /\ faults \in 0..MaxFaults

Init ==
    /\ RelayInit
    /\ session = [d \in Devices |-> 0]
    /\ outcome = [c \in Calls |-> "none"]
    /\ party = [c \in Calls |-> Nobody]
    /\ inbox = {} /\ serving = {}
    /\ served = [c \in Calls |-> 0]
    /\ faults = 0

From(c) == party[c][1]
To(c)   == party[c][2]
Current(d) == <<d, session[d]>>

\* w.send: without a connection, or with a broken one, the message is lost.
Send(d, m) ==
    \/ UNCHANGED relay
    \/ session[d] # 0 /\ socket[Current(d)] /\ Forward(Current(d), m)

\* A dial succeeded: the device reads and writes the new session from now on.
Connect(d) ==
    /\ session[d] = 0
    /\ \E k \in 1..MaxSessions : Join(<<d, k>>) /\ session' = [session EXCEPT ![d] = k]
    /\ UNCHANGED <<outcome, party, inbox, serving, served, faults>>

\* The device notices that its connection is gone.
Disconnected(d) ==
    /\ session[d] # 0 /\ ~socket[Current(d)]
    /\ session' = [session EXCEPT ![d] = 0]
    /\ UNCHANGED <<relay, outcome, party, inbox, serving, served, faults>>

\* A connected device registers the call and sends the request.
Request(c, a, b) ==
    /\ outcome[c] = "none" /\ a # b /\ session[a] # 0
    /\ outcome' = [outcome EXCEPT ![c] = "waiting"]
    /\ party' = [party EXCEPT ![c] = <<a, b>>]
    /\ Send(a, [type |-> "request", call |-> c, to |-> b])
    /\ UNCHANGED <<session, inbox, serving, served, faults>>

\* handleMessage: not for this device is dropped; a request gets a goroutine;
\* a response goes to the pending channel, if its call still waits.
Handle(d, m) ==
    /\ serving' = IF m.to = d /\ m.type = "request" THEN serving \cup {m.call} ELSE serving
    /\ inbox' = IF m.to = d /\ m.type = "response" /\ outcome[m.call] = "waiting"
                THEN inbox \cup {m.call} ELSE inbox

Deliver(s) ==
    /\ Wrote(s)
    /\ IF session[Owner(s)] = s[2]
       THEN Handle(Owner(s), Head(writing[s]))
       ELSE UNCHANGED <<serving, inbox>>
    /\ UNCHANGED <<session, outcome, party, served, faults>>

\* serveRequest runs the handler and answers over the present connection.
ServeRequest(c) ==
    /\ c \in serving
    /\ serving' = serving \ {c}
    /\ served' = [served EXCEPT ![c] = @ + 1]
    /\ Send(To(c), [type |-> "response", call |-> c, to |-> From(c)])
    /\ UNCHANGED <<session, outcome, party, inbox, faults>>

\* The call returns and forgets its pending entry.
Return(c) ==
    /\ outcome[c] = "waiting" /\ c \in inbox
    /\ outcome' = [outcome EXCEPT ![c] = "answered"]
    /\ inbox' = inbox \ {c}
    /\ UNCHANGED <<relay, session, party, serving, served, faults>>

\* The timeout sends the request once more before it gives up.
MutantTimeout(c) ==
    /\ outcome[c] = "waiting"
    /\ Send(From(c), [type |-> "request", call |-> c, to |-> To(c)])
    /\ UNCHANGED <<rpc>>

\* The deadline passes, or the caller's context is cancelled.
Timeout(c) ==
    /\ outcome[c] = "waiting"
    /\ outcome' = [outcome EXCEPT ![c] = "failed"]
    /\ inbox' = inbox \ {c}
    /\ UNCHANGED <<relay, session, party, serving, served, faults>>

Relayed(s) ==
    /\ Take(s) \/ WriterEnds(s) \/ Leave(s)
    /\ UNCHANGED rpc

\* A connection breaks, or a member is too slow for its writer.
Breaks(s) ==
    /\ WriteFails(s) \/ SocketCloses(s)
    /\ faults' = IF socket[s] THEN faults + 1 ELSE faults
    /\ socket[s] => faults < MaxFaults
    /\ UNCHANGED <<session, outcome, party, inbox, serving, served>>

Next ==
    \/ \E d \in Devices : Connect(d) \/ Disconnected(d)
    \/ \E c \in Calls : \/ \E a, b \in Devices : Request(c, a, b)
                        \/ ServeRequest(c) \/ Return(c) \/ Timeout(c)
    \/ \E s \in Sessions : Relayed(s) \/ Breaks(s) \/ Deliver(s)

\* Goroutines run and deadlines pass; no socket ever has to close or open.
Fairness ==
    /\ \A c \in Calls : WF_vars(Return(c) \/ Timeout(c))
    /\ \A s \in Sessions : WF_vars(Leave(s) /\ UNCHANGED rpc)

Spec == Init /\ [][Next]_vars /\ Fairness

\* The tunnel keeps the promise of a remote call: it ends, an answer means it
\* was served, it is served at most once - through drops, full queues,
\* reconnects of both sides and answers that come too late
\* (wanclient.go:460-520, wanclient_handlers.go:139-152).
Contract == INSTANCE RemoteCall WITH Calls <- Calls, outcome <- outcome, served <- served
KeepsContract == Contract!Spec
=============================================================================
