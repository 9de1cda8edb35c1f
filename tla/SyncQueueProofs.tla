--------------------------- MODULE SyncQueueProofs ---------------------------
(***************************************************************************)
(* Type correctness of SyncQueue, that a game is synced by one goroutine   *)
(* at a time, and that a queued change arrives, for any number of peers,   *)
(* goroutines, changes and faults.                                         *)
(***************************************************************************)
EXTENDS SyncQueue, TLAPS

USE DEF queue, world, loop, vars

-----------------------------------------------------------------------------
(* Type correctness                                                        *)

\* The counters can be zero.
LEMMA Zeroes == 0 \in 0..MaxChanges /\ 0 \in 0..MaxFaults /\ 0 \in 0..(ReconcileEvery - 1)
BY QueueAssumption

\* The calls a goroutine makes, one after the other.
LEMMA CallType ==
    /\ Idle \in Call
    /\ \A peers \in SUBSET Peers : Asking(peers, "always") \in Call
    /\ \A peers \in SUBSET Peers : Asking(peers, "unless-queued") \in Call
    /\ \A peers \in SUBSET Peers : Asking(peers, "never") \in Call
    /\ \A call \in Call : Outcome(call) \in Call
<1>1. Idle \in Call
  BY Zeroes DEF Call, Idle
<1>2. ASSUME NEW peers \in SUBSET Peers, NEW tracks \in {"always", "unless-queued", "never"}
      PROVE  Asking(peers, tracks) \in Call
  BY <1>1 DEF Call, Asking
<1>3. ASSUME NEW call \in Call
      PROVE  Outcome(call) \in Call
  BY <1>1 DEF Call, Outcome
<1> QED BY <1>1, <1>2, <1>3

\* Every step keeps the types.
LEMMA TypeNext == TypeOK /\ [Next]_vars => TypeOK'
<1> SUFFICES ASSUME TypeOK, [Next]_vars PROVE TypeOK'
  OBVIOUS
<1> USE DEF TypeOK
<1>1. Loop \in Goroutines /\ FollowUps \subseteq Goroutines /\ Callers \subseteq Goroutines
  BY DEF Goroutines
<1>2. ASSUME NEW g \in Callers, Change(g)
      PROVE  TypeOK'
  <2>1. calls' \in [Goroutines -> Call]
    BY <1>1, <1>2, CallType DEF Change, Request
  <2> QED BY <1>2, <2>1, QueueAssumption DEF Change
<1>3. ASSUME NEW g \in Callers, Ask(g)
      PROVE  TypeOK'
  BY <1>1, <1>3, CallType DEF Ask, Request
<1>4. ASSUME NEW p \in Peers, Disconnect(p)
      PROVE  TypeOK'
  BY <1>4, QueueAssumption DEF Disconnect, Fault
<1>5. ASSUME NEW g \in Callers, NEW p \in Peers, Connect(g, p)
      PROVE  TypeOK'
  <2>1. online' \subseteq Peers
    BY <1>5 DEF Connect
  <2>2. calls' \in [Goroutines -> Call]
    BY <1>1, <1>5, <2>1, CallType DEF Connect
  <2> QED BY <1>5, <2>1, <2>2 DEF Connect
<1>6. ASSUME NEW g \in Goroutines, Enter(g)
      PROVE  TypeOK'
  <2>1. [calls[g] EXCEPT !.step = "running", !.left = calls[g].peers] \in Call
    BY DEF Call
  <2>2. [calls[g] EXCEPT !.step = "noting"] \in Call
    BY DEF Call
  <2>3. CASE EnterIdle(g)
    <3>1. calls' = [calls EXCEPT ![g] = [calls[g] EXCEPT !.step = "running", !.left = calls[g].peers]]
      BY <2>3 DEF EnterIdle
    <3>2. calls' \in [Goroutines -> Call]
      BY <2>1, <3>1
    <3> QED BY <1>6, <2>3, <3>2 DEF Enter, EnterIdle
  <2>4. CASE EnterBusy(g)
    <3>1. calls' \in [Goroutines -> Call]
      BY <2>2, <2>4, CallType DEF EnterBusy
    <3> QED BY <1>6, <2>4, <3>1 DEF Enter, EnterBusy
  <2> QED BY <1>6, <2>3, <2>4 DEF Enter
<1>7. ASSUME NEW g \in Goroutines, NEW p \in Peers, Read(g, p)
      PROVE  TypeOK'
  <2>1. [calls[g] EXCEPT !.left = @ \ {p}, !.with = p, !.read = change] \in Call
    BY DEF Call
  <2>2. calls' = [calls EXCEPT ![g] = [calls[g] EXCEPT !.left = @ \ {p}, !.with = p, !.read = change]]
    BY <1>7 DEF Read
  <2> QED BY <1>7, <2>1, <2>2 DEF Read
<1>8. ASSUME NEW g \in Goroutines, Reach(g)
      PROVE  TypeOK'
  <2>1. [calls[g] EXCEPT !.with = NoPeer, !.read = 0] \in Call
    BY Zeroes DEF Call
  <2>2. calls' = [calls EXCEPT ![g] = [calls[g] EXCEPT !.with = NoPeer, !.read = 0]]
    BY <1>8 DEF Reach
  <2>3. calls[g].read \in 0..MaxChanges
    BY DEF Call
  <2> QED BY <1>8, <2>1, <2>2, <2>3 DEF Reach
<1>9. ASSUME NEW g \in Goroutines, Fail(g), faults' \in 0..MaxFaults
      PROVE  TypeOK'
  <2>1. [calls[g] EXCEPT !.with = NoPeer, !.read = 0, !.failed = TRUE] \in Call
    BY Zeroes DEF Call
  <2>2. calls' = [calls EXCEPT ![g] = [calls[g] EXCEPT !.with = NoPeer, !.read = 0, !.failed = TRUE]]
    BY <1>9 DEF Fail
  <2> QED BY <1>9, <2>1, <2>2 DEF Fail
<1>10. ASSUME NEW g \in Goroutines, Interrupt(g) \/ MissPeer(g)
       PROVE  TypeOK'
  BY <1>9, <1>10, QueueAssumption DEF Interrupt, MissPeer, Fault
<1>11. ASSUME NEW g \in Goroutines, Leave(g)
       PROVE  TypeOK'
  <2>1. Outcome(calls[g]) \in Call /\ Asking(calls[g].peers, "never") \in Call
    BY CallType DEF Call
  <2>2. calls' \in [Goroutines -> Call]
    BY <1>1, <1>11, <2>1 DEF Leave
  <2> QED BY <1>11, <2>2 DEF Leave
<1>12. ASSUME NEW g \in Goroutines, Note(g)
       PROVE  TypeOK'
  <2>1. calls[g].failed \in BOOLEAN
    BY DEF Call
  <2> QED BY <1>12, <2>1, CallType DEF Note
<1>13. CASE Tick
  <2>1. NextTick \in 0..(ReconcileEvery - 1)
    BY QueueAssumption DEF NextTick
  <2> QED BY <1>1, <1>13, <2>1, CallType DEF Tick
<1>14. CASE Reconcile
  BY <1>1, <1>14, CallType DEF Reconcile
<1>15. CASE UNCHANGED vars
  BY <1>15
<1> QED BY <1>2, <1>3, <1>4, <1>5, <1>6, <1>7, <1>8, <1>10, <1>11, <1>12, <1>13, <1>14, <1>15
        DEF Next, Proceed

\* The start is well typed.
LEMMA TypeInit == Init => TypeOK
BY CallType, Zeroes DEF Init, TypeOK

\* Type correctness of the queue and the resync loop.
THEOREM QueueTypeCorrect == Spec => []TypeOK
BY TypeInit, TypeNext, PTL DEF Spec

-----------------------------------------------------------------------------
(* One sync at a time                                                      *)

Running(g) == calls[g].step = "running"

\* With the flag, what a queued request relies on: somebody is there to take it up.
Exclusive == OneSyncAtATime /\ (queued => active)

\* A step that neither takes the flag nor gives it back leaves the running alone.
LEMMA SameRunners ==
    ASSUME Exclusive, UNCHANGED active, queued' => queued \/ active,
           \A g \in Goroutines : Running(g)' <=> Running(g)
    PROVE  Exclusive'
BY DEF Exclusive, OneSyncAtATime, Running

\* Requests, passes and notes do that.
LEMMA CallsKeepRunners ==
    ASSUME TypeOK, NEW g \in Goroutines, NEW call \in Call,
           calls' = [calls EXCEPT ![g] = call] \/ UNCHANGED calls,
           call.step = "running" <=> Running(g)
    PROVE  \A h \in Goroutines : Running(h)' <=> Running(h)
BY DEF TypeOK, Running

\* Every step keeps the flag and the goroutines in step.
LEMMA ExclusiveNext == TypeOK /\ Exclusive /\ [Next]_vars => Exclusive'
<1> SUFFICES ASSUME TypeOK, Exclusive, [Next]_vars PROVE Exclusive'
  OBVIOUS
<1>1. Loop \in Goroutines /\ FollowUps \subseteq Goroutines /\ Callers \subseteq Goroutines
  BY DEF Goroutines
<1>2. ASSUME NEW g \in Goroutines, NEW peers \in SUBSET Peers, NEW tracks \in {"always", "unless-queued", "never"},
             calls[g].step = "idle", calls' = [calls EXCEPT ![g] = Asking(peers, tracks)] \/ UNCHANGED calls,
             UNCHANGED <<active, queued>>
      PROVE  Exclusive'
  <2>1. Asking(peers, tracks) \in Call /\ Asking(peers, tracks).step = "asking"
    BY CallType DEF Asking, Idle
  <2>2. \A h \in Goroutines : Running(h)' <=> Running(h)
    BY <1>2, <2>1, CallsKeepRunners DEF Running
  <2> QED BY <1>2, <2>2, SameRunners
<1>3. ASSUME NEW g \in Callers, Change(g) \/ Ask(g)
      PROVE  Exclusive'
  BY <1>1, <1>2, <1>3 DEF Change, Ask, Request, TypeOK
<1>4. ASSUME NEW p \in Peers, Disconnect(p)
      PROVE  Exclusive'
  BY <1>4, SameRunners DEF Disconnect, Running
<1>5. ASSUME NEW g \in Callers, NEW p \in Peers, Connect(g, p)
      PROVE  Exclusive'
  <2>1. online' \in SUBSET Peers
    BY <1>5 DEF Connect, TypeOK
  <2> QED BY <1>1, <1>2, <1>5, <2>1 DEF Connect
<1>6. CASE Tick \/ Reconcile
  <2>1. online \in SUBSET Peers
    BY DEF TypeOK
  <2> QED BY <1>1, <1>2, <1>6, <2>1 DEF Tick, Reconcile, LoopFree
<1>7. ASSUME NEW g \in Goroutines, Enter(g)
      PROVE  Exclusive'
  <2>1. CASE EnterIdle(g)
    <3>1. \A h \in Goroutines : ~Running(h)
      BY <2>1 DEF EnterIdle, Exclusive, OneSyncAtATime, Running
    <3>2. \A h \in Goroutines : Running(h)' <=> h = g
      BY <2>1, <3>1 DEF EnterIdle, TypeOK, Call, Running
    <3> QED BY <2>1, <3>2 DEF EnterIdle, Exclusive, OneSyncAtATime, Running
  <2>2. CASE EnterBusy(g)
    <3>1. \A h \in Goroutines : Running(h)' <=> Running(h)
      BY <1>7, <2>2 DEF Enter, EnterBusy, TypeOK, Call, Running, Idle
    <3> QED BY <2>2, <3>1, SameRunners DEF EnterBusy
  <2> QED BY <1>7, <2>1, <2>2 DEF Enter
<1>8. ASSUME NEW g \in Goroutines, \/ \E p \in Peers : Read(g, p)
                                   \/ Reach(g) \/ Interrupt(g) \/ MissPeer(g)
      PROVE  Exclusive'
  <2>1. UNCHANGED <<active, queued>>
    BY <1>8 DEF Read, Reach, Interrupt, MissPeer, Fail
  <2>2. \A h \in Goroutines : Running(h)' <=> Running(h)
    <3>1. ASSUME NEW p \in Peers, Read(g, p)
          PROVE  \A h \in Goroutines : Running(h)' <=> Running(h)
      BY <3>1 DEF Read, TypeOK, Call, Running
    <3>2. ASSUME Reach(g)
          PROVE  \A h \in Goroutines : Running(h)' <=> Running(h)
      BY <3>2 DEF Reach, TypeOK, Call, Running
    <3>3. ASSUME Fail(g)
          PROVE  \A h \in Goroutines : Running(h)' <=> Running(h)
      BY <3>3 DEF Fail, TypeOK, Call, Running
    <3> QED BY <1>8, <3>1, <3>2, <3>3 DEF Interrupt, MissPeer
  <2> QED BY <2>1, <2>2, SameRunners
<1>9. ASSUME NEW g \in Goroutines, Leave(g)
      PROVE  Exclusive'
  <2>1. Running(g)
    BY <1>9 DEF Leave, Running
  <2>2. \A h \in Goroutines : h # g => ~Running(h)
    BY <2>1 DEF Exclusive, OneSyncAtATime, Running
  <2>3. Outcome(calls[g]).step # "running" /\ \A peers : Asking(peers, "never").step = "asking"
    BY DEF Outcome, Idle, Asking
  <2>4. \A h \in Goroutines : ~Running(h)'
    BY <1>1, <1>9, <2>2, <2>3 DEF Leave, TypeOK, Running
  <2> QED BY <1>9, <2>4 DEF Leave, Exclusive, OneSyncAtATime, Running
<1>10. ASSUME NEW g \in Goroutines, Note(g)
       PROVE  Exclusive'
  <2>1. \A h \in Goroutines : Running(h)' <=> Running(h)
    BY <1>10 DEF Note, TypeOK, Running, Idle
  <2> QED BY <1>10, <2>1, SameRunners DEF Note
<1>11. CASE UNCHANGED vars
  BY <1>11 DEF Exclusive, OneSyncAtATime
<1> QED BY <1>3, <1>4, <1>5, <1>6, <1>7, <1>8, <1>9, <1>10, <1>11 DEF Next, Proceed

\* A game is synced by one goroutine at a time, and is marked as being synced
\* exactly then (SyncGame's activeSyncs).
THEOREM OneSyncAtATimeAlways == Spec => []OneSyncAtATime
<1>1. Init => Exclusive
  BY DEF Init, Exclusive, OneSyncAtATime, Idle
<1>2. Exclusive => OneSyncAtATime
  BY DEF Exclusive
<1> QED BY <1>1, <1>2, ExclusiveNext, QueueTypeCorrect, PTL DEF Spec

-----------------------------------------------------------------------------
(* A queued change arrives                                                 *)

\* A goroutine between reading the save and reaching its peer runs, and what it
\* read is not older than what the peer has.
InOrder ==
    /\ \A p \in Peers : reached[p] <= change
    /\ \A g \in Goroutines : calls[g].with # NoPeer =>
          /\ calls[g].step = "running"
          /\ reached[calls[g].with] <= calls[g].read /\ calls[g].read <= change

\* No peer moves back to an older state.
LEMMA InOrderNext == TypeOK /\ Exclusive /\ InOrder /\ [Next]_vars => InOrder'
<1> SUFFICES ASSUME TypeOK, Exclusive, InOrder, [Next]_vars PROVE InOrder'
  OBVIOUS
<1>1. Loop \in Goroutines /\ FollowUps \subseteq Goroutines /\ Callers \subseteq Goroutines
  BY DEF Goroutines
<1>2. change \in Nat /\ reached \in [Peers -> Nat] /\ \A g \in Goroutines : calls[g].read \in Nat
  BY QueueAssumption DEF TypeOK, Call
<1>3. Idle.with = NoPeer /\ \A peers, tracks : Asking(peers, tracks).with = NoPeer
  BY DEF Idle, Asking
\* A step that touches only calls between two peers.
<1>4. ASSUME UNCHANGED reached, change' \in Nat, change' >= change,
             \A g \in Goroutines : calls'[g] = calls[g] \/ calls'[g].with = NoPeer
      PROVE  InOrder'
  <2>1. \A g \in Goroutines : calls'[g].with # NoPeer => calls'[g] = calls[g]
    BY <1>4
  <2>2. \A p \in Peers : reached'[p] <= change'
    BY <1>2, <1>4 DEF InOrder
  <2>3. ASSUME NEW g \in Goroutines, calls'[g].with # NoPeer
        PROVE  /\ calls'[g].step = "running"
               /\ reached'[calls'[g].with] <= calls'[g].read /\ calls'[g].read <= change'
    BY <1>2, <1>4, <2>1, <2>3 DEF InOrder
  <2> QED BY <2>2, <2>3 DEF InOrder
<1>5. ASSUME NEW g \in Callers, Change(g) \/ Ask(g) \/ \E p \in Peers : Connect(g, p)
      PROVE  InOrder'
  <2>1. UNCHANGED reached /\ change' \in Nat /\ change' >= change
    BY <1>2, <1>5 DEF Change, Ask, Connect
  <2>2. \A h \in Goroutines : calls'[h] = calls[h] \/ calls'[h].with = NoPeer
    BY <1>1, <1>3, <1>5 DEF Change, Ask, Connect, Request, TypeOK
  <2> QED BY <1>4, <2>1, <2>2
<1>6. ASSUME NEW p \in Peers, Disconnect(p)
      PROVE  InOrder'
  BY <1>2, <1>4, <1>6 DEF Disconnect
<1>7. CASE Tick \/ Reconcile
  <2>1. \A h \in Goroutines : calls'[h] = calls[h] \/ calls'[h].with = NoPeer
    BY <1>1, <1>3, <1>7 DEF Tick, Reconcile, TypeOK
  <2> QED BY <1>2, <1>4, <1>7, <2>1 DEF Tick, Reconcile
<1>8. ASSUME NEW g \in Goroutines, Enter(g)
      PROVE  InOrder'
  <2>1. calls[g].step = "asking" /\ calls[g].with = NoPeer
    BY <1>8 DEF Enter, InOrder
  <2>2. \A h \in Goroutines : calls'[h] = calls[h] \/ calls'[h].with = NoPeer
    BY <1>3, <1>8, <2>1 DEF Enter, EnterIdle, EnterBusy, TypeOK, Call
  <2> QED BY <1>2, <1>4, <1>8, <2>2 DEF Enter
<1>9. ASSUME NEW g \in Goroutines, NEW q \in Peers, Read(g, q)
      PROVE  InOrder'
  <2>1. calls[g].step = "running" /\ UNCHANGED <<reached, change>>
    BY <1>9 DEF Read
  <2>2. /\ calls'[g].step = "running" /\ calls'[g].with = q /\ calls'[g].read = change
        /\ \A h \in Goroutines : h # g => calls'[h] = calls[h]
    BY <1>9, <2>1 DEF Read, TypeOK, Call
  <2> QED BY <1>2, <2>1, <2>2 DEF InOrder
<1>10. ASSUME NEW g \in Goroutines, Reach(g)
       PROVE  InOrder'
  <2>1. calls[g].with \in Peers /\ calls[g].with # NoPeer /\ calls[g].step = "running"
    BY <1>10, QueueAssumption DEF Reach, TypeOK, InOrder
  <2>2. \A h \in Goroutines : h # g => calls[h].with = NoPeer
    BY <2>1 DEF InOrder, Exclusive, OneSyncAtATime
  <2>3. \A h \in Goroutines : calls'[h].with = NoPeer
    BY <1>10, <2>2 DEF Reach, TypeOK, Call
  <2>4. \A p \in Peers : reached'[p] <= change'
    BY <1>2, <1>10, <2>1 DEF Reach, InOrder
  <2> QED BY <2>3, <2>4 DEF InOrder
<1>11. ASSUME NEW g \in Goroutines, Interrupt(g) \/ MissPeer(g)
       PROVE  InOrder'
  <2>1. \A h \in Goroutines : calls'[h] = calls[h] \/ calls'[h].with = NoPeer
    BY <1>11 DEF Interrupt, MissPeer, Fail, TypeOK, Call
  <2> QED BY <1>2, <1>4, <1>11, <2>1 DEF Interrupt, MissPeer, Fail
<1>12. ASSUME NEW g \in Goroutines, Leave(g) \/ Note(g)
       PROVE  InOrder'
  <2>1. Outcome(calls[g]).with = NoPeer
    BY DEF Outcome, Idle
  <2>2. \A h \in Goroutines : calls'[h] = calls[h] \/ calls'[h].with = NoPeer
    BY <1>1, <1>3, <1>12, <2>1 DEF Leave, Note, TypeOK
  <2> QED BY <1>2, <1>4, <1>12, <2>2 DEF Leave, Note
<1>13. CASE UNCHANGED vars
  BY <1>13 DEF InOrder
<1> QED BY <1>5, <1>6, <1>7, <1>8, <1>9, <1>10, <1>11, <1>12, <1>13 DEF Next, Proceed

\* A goroutine that will serve p with the newest change, or does so now.
Serves(g, p) ==
    \/ calls[g].step = "asking"
    \/ /\ calls[g].step = "running"
       /\ p \in calls[g].left \/ (calls[g].with = p /\ calls[g].read = change)

Served(p) == reached[p] = change \/ queued \/ \E g \in Goroutines : Serves(g, p)

\* As long as nothing fails: everybody is online, whoever asks asks for everybody,
\* and a change that a peer misses is on its way to it.
OnItsWay ==
    faults = 0 =>
        /\ online = Peers
        /\ \A g \in Goroutines : calls[g].step \in {"asking", "running"} => calls[g].peers = Peers
        /\ \A p \in Peers : Served(p)

\* A step of one goroutine that leaves the save alone and goes on serving whoever
\* it served keeps everything on its way.
LEMMA GoesOnServing ==
    ASSUME TypeOK, OnItsWay, faults = 0, NEW g \in Goroutines, NEW call \in Call,
           calls' = [calls EXCEPT ![g] = call], UNCHANGED <<online, change>>,
           call.step \in {"asking", "running"} => call.peers = Peers,
           \A p \in Peers : reached[p] = change => reached'[p] = change,
           \A p \in Peers : Serves(g, p) => reached'[p] = change \/ queued' \/ Serves(g, p)',
           queued => queued' \/ \A p \in Peers : Serves(g, p)'
    PROVE  OnItsWay'
<1>1. \A h \in Goroutines : h # g => calls'[h] = calls[h]
  BY DEF TypeOK
<1>2. calls'[g] = call
  BY DEF TypeOK
<1>3. ASSUME NEW p \in Peers
      PROVE  Served(p)'
  <2>1. ASSUME NEW h \in Goroutines, Serves(h, p), h # g
        PROVE  Serves(h, p)'
    BY <1>1, <2>1 DEF Serves
  <2>2. Served(p)
    BY DEF OnItsWay
  <2> QED BY <2>1, <2>2 DEF Served
<1>4. \A h \in Goroutines : calls'[h].step \in {"asking", "running"} => calls'[h].peers = Peers
  BY <1>1, <1>2 DEF OnItsWay
<1>5. online' = Peers
  BY DEF OnItsWay
<1> QED BY <1>3, <1>4, <1>5 DEF OnItsWay

\* Nothing that is on its way gets lost, unless something fails.
LEMMA OnItsWayNext == TypeOK /\ Exclusive /\ InOrder /\ OnItsWay /\ [Next]_vars => OnItsWay'
<1> SUFFICES ASSUME TypeOK, Exclusive, InOrder, OnItsWay, [Next]_vars, faults' = 0 PROVE OnItsWay'
  BY DEF OnItsWay
<1>1. Loop \in Goroutines /\ FollowUps \subseteq Goroutines /\ Callers \subseteq Goroutines
  BY DEF Goroutines
<1>2. faults \in Nat
  BY QueueAssumption DEF TypeOK
<1>3. ASSUME NEW p \in Peers, Disconnect(p)
      PROVE  FALSE
  BY <1>2, <1>3 DEF Disconnect, Fault
<1>4. ASSUME NEW g \in Goroutines, Interrupt(g)
      PROVE  FALSE
  BY <1>2, <1>4 DEF Interrupt, Fault
\* A goroutine that was idle asks for everybody.
<1>5. ASSUME NEW g \in Goroutines, NEW tracks \in {"always", "unless-queued", "never"}, calls[g].step = "idle",
             \/ calls' = [calls EXCEPT ![g] = Asking(online, tracks)]
             \/ calls' = calls /\ (change' = change \/ online = {}),
             UNCHANGED <<online, reached, queued, faults>>
      PROVE  OnItsWay'
  <2>1. online = Peers
    BY <1>5 DEF OnItsWay
  <2>2. CASE calls' = [calls EXCEPT ![g] = Asking(online, tracks)]
    <3>1. calls'[g].step = "asking" /\ calls'[g].peers = Peers
      BY <2>1, <2>2 DEF TypeOK, Asking, Idle
    <3>2. \A h \in Goroutines : h # g => calls'[h] = calls[h]
      BY <2>2 DEF TypeOK
    <3>3. \A p \in Peers : Served(p)'
      BY <3>1 DEF Served, Serves
    <3> QED BY <1>5, <2>1, <3>1, <3>2, <3>3 DEF OnItsWay
  <2>3. CASE calls' = calls /\ (change' = change \/ online = {})
    BY <1>5, <2>1, <2>3 DEF OnItsWay, Served, Serves
  <2> QED BY <1>5, <2>2, <2>3
<1>6. ASSUME NEW g \in Callers, Change(g) \/ Ask(g)
      PROVE  OnItsWay'
  BY <1>1, <1>5, <1>6 DEF Change, Ask, Request
<1>7. ASSUME NEW g \in Callers, NEW p \in Peers, Connect(g, p)
      PROVE  OnItsWay'
  BY <1>7 DEF Connect, OnItsWay
<1>8. CASE Tick \/ Reconcile
  BY <1>1, <1>5, <1>8 DEF Tick, Reconcile, LoopFree
<1>9. ASSUME NEW g \in Goroutines, Enter(g)
      PROVE  OnItsWay'
  <2>1. calls[g].step = "asking" /\ UNCHANGED <<online, change, reached, faults>> /\ faults = 0
    BY <1>9 DEF Enter
  <2>2. calls[g] \in Call /\ calls[g].peers = Peers
    BY <2>1 DEF TypeOK, OnItsWay
  <2>3. CASE EnterIdle(g)
    <3> DEFINE call == [calls[g] EXCEPT !.step = "running", !.left = calls[g].peers]
    <3>1. call \in Call /\ calls' = [calls EXCEPT ![g] = call]
      BY <2>2, <2>3 DEF EnterIdle, Call
    <3>2. \A p \in Peers : Serves(g, p)'
      BY <2>2, <3>1 DEF Serves, TypeOK, Call
    <3>3. call.peers = Peers
      BY <2>2 DEF Call
    <3> QED BY <2>1, <3>1, <3>2, <3>3, GoesOnServing
  <2>4. CASE EnterBusy(g)
    <3> DEFINE call == IF calls[g].tracks = "always" THEN [calls[g] EXCEPT !.step = "noting"] ELSE Idle
    <3>1. call \in Call /\ calls' = [calls EXCEPT ![g] = call] /\ queued'
      BY <2>2, <2>4, CallType DEF EnterBusy, Call
    <3>2. call.step \notin {"asking", "running"}
      BY <2>2 DEF Idle, Call
    <3> QED BY <2>1, <3>1, <3>2, GoesOnServing
  <2> QED BY <1>9, <2>3, <2>4 DEF Enter
<1>10. ASSUME NEW g \in Goroutines, NEW q \in Peers, Read(g, q)
       PROVE  OnItsWay'
  <2> DEFINE call == [calls[g] EXCEPT !.left = @ \ {q}, !.with = q, !.read = change]
  <2>1. call \in Call /\ calls' = [calls EXCEPT ![g] = call]
    BY <1>10 DEF Read, TypeOK, Call
  <2>2. /\ UNCHANGED <<online, change, reached, queued, faults>> /\ faults = 0
        /\ calls[g].step = "running" /\ calls[g].with = NoPeer
    BY <1>10 DEF Read
  <2>3. call.peers = Peers
    BY <2>2 DEF OnItsWay, TypeOK, Call
  <2>4. call.step = "running" /\ call.left = calls[g].left \ {q} /\ call.with = q /\ call.read = change
    BY <2>2 DEF TypeOK, Call
  <2>5. calls'[g] = call
    BY <2>1 DEF TypeOK
  <2>6. \A p \in Peers : Serves(g, p) => Serves(g, p)'
    BY <2>2, <2>4, <2>5, QueueAssumption DEF Serves
  <2> QED BY <2>1, <2>2, <2>3, <2>6, GoesOnServing
<1>11. ASSUME NEW g \in Goroutines, Reach(g)
       PROVE  OnItsWay'
  <2> DEFINE call == [calls[g] EXCEPT !.with = NoPeer, !.read = 0]
             q == calls[g].with
  <2>1. call \in Call /\ calls' = [calls EXCEPT ![g] = call]
    BY <1>11, Zeroes DEF Reach, TypeOK, Call
  <2>2. /\ UNCHANGED <<online, change, queued, faults>> /\ faults = 0
        /\ q \in Peers /\ reached' = [reached EXCEPT ![q] = calls[g].read]
    BY <1>11 DEF Reach, TypeOK
  <2>3. call.step = calls[g].step /\ call.left = calls[g].left /\ call.peers = calls[g].peers
    BY DEF TypeOK, Call
  <2>4. calls'[g] = call
    BY <2>1 DEF TypeOK
  <2>5. calls[g].step = "running" /\ \A h \in Goroutines : calls[h].step = "running" => h = g
    BY <2>2, QueueAssumption DEF InOrder, Exclusive, OneSyncAtATime
  <2>6. /\ calls[g].read \in Nat /\ change \in Nat /\ reached[q] \in Nat
        /\ reached[q] <= calls[g].read /\ calls[g].read <= change
    BY <2>2, QueueAssumption DEF InOrder, TypeOK, Call
  <2>7. \A p \in Peers : reached[p] = change => reached'[p] = change
    BY <2>2, <2>6 DEF TypeOK
  <2>8. \A p \in Peers : Serves(g, p) => reached'[p] = change \/ Serves(g, p)'
    BY <2>2, <2>3, <2>4, <2>5 DEF Serves, TypeOK
  <2> HIDE DEF call
  <2>9. call.peers = Peers
    BY <2>2, <2>3, <2>5 DEF OnItsWay
  <2> QED BY <2>1, <2>2, <2>7, <2>8, <2>9, GoesOnServing
<1>12. ASSUME NEW g \in Goroutines, MissPeer(g)
       PROVE  FALSE
  BY <1>12 DEF MissPeer, Fail, OnItsWay, TypeOK, Call
<1>13. ASSUME NEW g \in Goroutines, Leave(g)
       PROVE  OnItsWay'
  <2>1. /\ calls[g].step = "running" /\ calls[g].left = {} /\ calls[g].with = NoPeer
        /\ calls[g].peers = Peers /\ online = Peers
        /\ UNCHANGED <<online, change, reached, faults>> /\ faults = 0
    BY <1>13 DEF Leave, OnItsWay
  <2>2. \A p \in Peers : ~Serves(g, p)
    BY <2>1, QueueAssumption DEF Serves
  <2>3. Outcome(calls[g]).step \notin {"asking", "running"} /\ Outcome(calls[g]) \in Call
    BY CallType DEF Outcome, Idle, TypeOK
  <2>4. CASE queued
    <3>1. PICK f \in FollowUps : calls' = [calls EXCEPT ![g] = Outcome(calls[g]),
                                                    ![f] = Asking(calls[g].peers, "never")]
      BY <1>13, <2>4 DEF Leave
    <3>2. /\ calls'[f].step = "asking" /\ calls'[f].peers = Peers
          /\ \A h \in Goroutines : h # f => calls'[h] = calls[h] \/ calls'[h] = Outcome(calls[g])
      BY <1>1, <2>1, <3>1 DEF TypeOK, Asking, Idle
    <3>3. \A h \in Goroutines : calls'[h].step \in {"asking", "running"} => calls'[h].peers = Peers
      BY <2>1, <2>3, <3>2 DEF OnItsWay
    <3>4. \A p \in Peers : Served(p)'
      BY <1>1, <3>2 DEF Served, Serves
    <3> QED BY <2>1, <3>3, <3>4 DEF OnItsWay
  <2>5. CASE ~queued
    <3> DEFINE call == Outcome(calls[g])
    <3>1. calls' = [calls EXCEPT ![g] = call]
      BY <1>13, <2>5 DEF Leave
    <3> QED BY <2>1, <2>2, <2>3, <2>5, <3>1, GoesOnServing
  <2> QED BY <2>4, <2>5
<1>14. ASSUME NEW g \in Goroutines, Note(g)
       PROVE  OnItsWay'
  <2>1. calls' = [calls EXCEPT ![g] = Idle] /\ UNCHANGED <<online, change, reached, queued, faults>> /\ faults = 0
    BY <1>14 DEF Note
  <2>2. \A p \in Peers : ~Serves(g, p)
    BY <1>14 DEF Note, Serves
  <2>3. Idle \in Call /\ Idle.step = "idle"
    BY CallType DEF Idle
  <2> QED BY <2>1, <2>2, <2>3, GoesOnServing
<1>15. CASE UNCHANGED vars
  BY <1>15 DEF OnItsWay, Served, Serves
<1> QED BY <1>3, <1>4, <1>6, <1>7, <1>8, <1>9, <1>10, <1>11, <1>12, <1>13, <1>14, <1>15 DEF Next, Proceed

\* A request that found the game busy is not lost: at rest, and if nothing ever
\* failed, every peer has the newest change (SyncGame's pendingSyncs).
THEOREM QueuedChangesArriveAlways == Spec => []QueuedChangesArrive
<1>1. Init => Exclusive /\ InOrder /\ OnItsWay
  BY DEF Init, Exclusive, OneSyncAtATime, InOrder, OnItsWay, Served, Idle
<1>2. OnItsWay => QueuedChangesArrive
  BY DEF OnItsWay, QueuedChangesArrive, Quiet, Served, Serves
<1> QED BY <1>1, <1>2, ExclusiveNext, InOrderNext, OnItsWayNext, QueueTypeCorrect, PTL DEF Spec
=============================================================================
