------------------------------ MODULE WanProofs ------------------------------
(***************************************************************************)
(* The theorems about the way through the relay.                           *)
(*                                                                         *)
(* The calls of WanRpc implement RemoteCall and the relay's books balance, *)
(* for any finite set of devices, any calls, any number of sessions and    *)
(* any budgets of the relay: what the run of MCWanRpc checks for two       *)
(* devices and two calls.  The first argument follows the request of a     *)
(* call.  It is sent once; the relay gives every other session at most one *)
(* copy; and a device has at most one session whose socket is open, so it  *)
(* gets at most one of the copies to handle, however often it reconnects.  *)
(* The second needs what the folds of RelayRoom add up to.  A fold is a    *)
(* function f of the subsets of its indices: f[T] = f[T \ {x}] + w[x] for  *)
(* the x that CHOOSE picks.  That the same holds for every x of T, and all *)
(* else about sums, follows by looking at a smallest subset for which it   *)
(* fails.                                                                  *)
(*                                                                         *)
(* The connection of WanClient and the presence it reports come last, for  *)
(* any number of generations, HTTP handlers, rooms and settings changes.   *)
(***************************************************************************)
EXTENDS WanRpc, WanClient, FiniteSetTheorems, TLAPS

Asks(m, c) == m.type = "request" /\ m.call = c

\* What a session still has to write: the message at its writer, then the queue.
Held(s, m) == \/ \E i \in 1..Len(queue[s]) : queue[s][i] = m
              \/ \E i \in 1..Len(writing[s]) : writing[s][i] = m

-----------------------------------------------------------------------------
(* The inductive invariant                                                 *)

\* The part of the type that the counters of the relay have no say in.
RoomTyped ==
    /\ room \in SUBSET Sessions
    /\ socket \in [Sessions -> BOOLEAN]
    /\ writer \in [Sessions -> BOOLEAN]
    /\ queue \in [Sessions -> Seq(Message)]
    /\ writing \in [Sessions -> Seq(Message)]
    /\ \A s \in Sessions : Len(writing[s]) <= 1
CallsTyped ==
    /\ session \in [Devices -> 0..MaxSessions]
    /\ outcome \in [Calls -> {"none", "waiting", "answered", "failed"}]
    /\ party \in [Calls -> {Nobody} \cup (Devices \X Devices)]
    /\ inbox \in SUBSET Calls
    /\ serving \in SUBSET Calls
    /\ served \in [Calls -> {0, 1}]

\* A device has no open socket but that of the connection it knows, and a
\* session that has ended leaves nothing behind for the one that reuses it.
OneOpenSocket == \A s \in Sessions : socket[s] => session[Owner(s)] = s[2]
NothingLeft ==
    \A s \in Sessions : /\ s \notin room => queue[s] = <<>>
                        /\ ~writer[s] => writing[s] = <<>>

\* Whatever travels belongs to a call that was made; a response exists only
\* when the call was served.
OnlyMadeCalls ==
    /\ \A s \in Sessions : \A m \in Message :
         Held(s, m) => /\ outcome[m.call] # "none"
                       /\ m.type = "request" => m.to = To(m.call)
                       /\ m.type = "response" => served[m.call] = 1
    /\ \A c \in Calls : outcome[c] # "none" => party[c] \in Devices \X Devices
    /\ \A c \in serving : outcome[c] # "none" /\ served[c] = 0
    /\ \A c \in inbox : served[c] = 1
    /\ \A c \in Calls : served[c] = 1 => outcome[c] # "none"

\* No session holds two copies of a request ...
OneCopy ==
    \A s \in Sessions, c \in Calls :
      /\ \A i, j \in 1..Len(queue[s]) :
           Asks(queue[s][i], c) /\ Asks(queue[s][j], c) => i = j
      /\ \A i \in 1..Len(queue[s]), j \in 1..Len(writing[s]) :
           ~(Asks(queue[s][i], c) /\ Asks(writing[s][j], c))

\* ... and once its device got the request, no open session of it holds one.
NoCopyAfter ==
    \A s \in Sessions : \A m \in Message :
      (socket[s] /\ Held(s, m) /\ m.type = "request" /\ Owner(s) = To(m.call))
      => m.call \notin serving /\ served[m.call] = 0

CallInv == RoomTyped /\ CallsTyped /\ OneOpenSocket /\ NothingLeft /\ OnlyMadeCalls /\ OneCopy /\ NoCopyAfter

-----------------------------------------------------------------------------
(* The relay                                                               *)

\* A step of the relay other than a forward hands nobody a new message.
LEMMA RelayOnlyMoves ==
    ASSUME RoomTyped, NothingLeft, OneCopy, NEW s \in Sessions,
           Join(s) \/ Leave(s) \/ SocketCloses(s) \/ Take(s) \/ Wrote(s) \/ WriteFails(s) \/ WriterEnds(s)
    PROVE  /\ RoomTyped' /\ NothingLeft' /\ OneCopy'
           /\ \A t \in Sessions, m \in Message : Held(t, m)' => Held(t, m)
<1>1. CASE Join(s)
  BY <1>1 DEF Join, RoomTyped, NothingLeft, OneCopy, Held
<1>2. CASE Leave(s)
  BY <1>2 DEF Leave, RoomTyped, NothingLeft, OneCopy, Held
<1>3. CASE SocketCloses(s)
  BY <1>3 DEF SocketCloses, RoomTyped, NothingLeft, OneCopy, Held
<1>4. CASE Take(s)
  <2>1. /\ queue[s] \in Seq(Message) /\ queue[s] # <<>> /\ writing[s] = <<>>
        /\ queue'[s] = Tail(queue[s]) /\ writing'[s] = <<Head(queue[s])>>
        /\ \A t \in Sessions \ {s} : queue'[t] = queue[t] /\ writing'[t] = writing[t]
        /\ s \in room /\ writer[s] /\ UNCHANGED <<room, socket, writer>>
    BY <1>4 DEF Take, RoomTyped, NothingLeft
  <2>2. /\ Head(queue[s]) = queue[s][1] /\ Len(queue[s]) >= 1
        /\ Len(Tail(queue[s])) = Len(queue[s]) - 1
        /\ \A i \in 1..Len(Tail(queue[s])) : Tail(queue[s])[i] = queue[s][i + 1] /\ i + 1 \in 1..Len(queue[s])
        /\ Len(<<Head(queue[s])>>) = 1 /\ <<Head(queue[s])>>[1] = queue[s][1]
    BY <2>1
  <2>3. RoomTyped'
    BY <1>4, <2>1, <2>2 DEF Take, RoomTyped
  <2>4. NothingLeft'
    BY <2>1 DEF NothingLeft
  <2>5. OneCopy'
    <3> SUFFICES ASSUME NEW t \in Sessions, NEW c \in Calls
                 PROVE  /\ \A i, j \in 1..Len(queue'[t]) :
                             Asks(queue'[t][i], c) /\ Asks(queue'[t][j], c) => i = j
                        /\ \A i \in 1..Len(queue'[t]), j \in 1..Len(writing'[t]) :
                             ~(Asks(queue'[t][i], c) /\ Asks(writing'[t][j], c))
      BY DEF OneCopy, Asks
    <3>1. CASE t # s
      BY <3>1, <2>1 DEF OneCopy
    <3>2. CASE t = s
      <4>1. ASSUME NEW i \in 1..Len(queue'[s]), NEW j \in 1..Len(queue'[s]),
                   Asks(queue'[s][i], c), Asks(queue'[s][j], c)
            PROVE  i = j
        <5>1. i + 1 = j + 1
          BY <4>1, <2>1, <2>2 DEF OneCopy
        <5> QED BY <5>1, <2>1, <2>2
      <4>2. ASSUME NEW i \in 1..Len(queue'[s]), NEW j \in 1..Len(writing'[s]),
                   Asks(queue'[s][i], c), Asks(writing'[s][j], c)
            PROVE  FALSE
        <5>1. j = 1 /\ writing'[s][j] = queue[s][1] /\ queue'[s][i] = queue[s][i + 1]
          BY <4>2, <2>1, <2>2
        <5>2. i + 1 = 1
          BY <4>2, <5>1, <2>1, <2>2 DEF OneCopy
        <5> QED BY <5>2, <2>1, <2>2
      <4> QED BY <3>2, <4>1, <4>2
    <3> QED BY <3>1, <3>2
  <2>6. ASSUME NEW t \in Sessions, NEW m \in Message, Held(t, m)'
        PROVE  Held(t, m)
    <3>1. CASE t # s
      BY <3>1, <2>6, <2>1 DEF Held
    <3>2. ASSUME t = s, NEW i \in 1..Len(queue'[s]), queue'[s][i] = m
          PROVE  Held(t, m)
      <4>1. i + 1 \in 1..Len(queue[s]) /\ queue[s][i + 1] = m
        BY <3>2, <2>1, <2>2
      <4> QED BY <4>1, <3>2 DEF Held
    <3>3. ASSUME t = s, NEW i \in 1..Len(writing'[s]), writing'[s][i] = m
          PROVE  Held(t, m)
      <4>1. 1 \in 1..Len(queue[s]) /\ queue[s][1] = m
        BY <3>3, <2>1, <2>2
      <4> QED BY <4>1, <3>3 DEF Held
    <3> QED BY <2>6, <3>1, <3>2, <3>3 DEF Held
  <2> QED BY <2>3, <2>4, <2>5, <2>6
<1>5. CASE Wrote(s) \/ WriteFails(s)
  <2>1. /\ queue' = queue /\ room' = room /\ writing' = [writing EXCEPT ![s] = <<>>]
        /\ writer' \in [Sessions -> BOOLEAN] /\ socket' \in [Sessions -> BOOLEAN]
        /\ \A t \in Sessions \ {s} : writer'[t] = writer[t]
    BY <1>5 DEF Wrote, WriteFails, Released, RoomTyped
  <2> QED BY <2>1 DEF RoomTyped, NothingLeft, OneCopy, Held
<1>6. CASE WriterEnds(s)
  BY <1>6 DEF WriterEnds, RoomTyped, NothingLeft, OneCopy, Held
<1> QED BY <1>1, <1>2, <1>3, <1>4, <1>5, <1>6

\* A forward adds one copy to the queues of some members and changes nothing else.
LEMMA ForwardAppends ==
    ASSUME NEW s \in Sessions, NEW m \in Message, Forward(s, m)
    PROVE  \E ts \in SUBSET room :
             /\ queue' = [t \in Sessions |-> IF t \in ts THEN Append(queue[t], m) ELSE queue[t]]
             /\ UNCHANGED <<room, socket, writer, writing>>
    BY DEF Forward, Served

\* What a device sends reaches each session at most once.
LEMMA SendAddsOne ==
    ASSUME RoomTyped, CallsTyped, NothingLeft, OneCopy,
           NEW d \in Devices, NEW m \in Message, Send(d, m),
           m.type = "request" => \A t \in Sessions, n \in Message : Held(t, n) => n.call # m.call
    PROVE  /\ RoomTyped' /\ NothingLeft' /\ OneCopy'
           /\ UNCHANGED <<room, socket, writer, writing>>
           /\ \A t \in Sessions, n \in Message : Held(t, n)' => Held(t, n) \/ n = m
<1>1. CASE UNCHANGED relay
  BY <1>1 DEF relay, RoomTyped, NothingLeft, OneCopy, Held
<1>2. CASE session[d] # 0 /\ Forward(Current(d), m)
  <2>1. Current(d) \in Sessions
    BY <1>2, RelayAssumption DEF Current, Sessions, CallsTyped
  <2>2. PICK ts \in SUBSET room :
             /\ queue' = [t \in Sessions |-> IF t \in ts THEN Append(queue[t], m) ELSE queue[t]]
             /\ UNCHANGED <<room, socket, writer, writing>>
    BY <1>2, <2>1, ForwardAppends
  <2>3. \A t \in Sessions : queue[t] \in Seq(Message) /\ writing[t] \in Seq(Message)
    BY DEF RoomTyped
  <2>4. \A t \in ts : /\ t \in Sessions /\ Len(queue'[t]) = Len(queue[t]) + 1
                      /\ queue'[t][Len(queue[t]) + 1] = m
                      /\ \A i \in 1..Len(queue[t]) : queue'[t][i] = queue[t][i]
                      /\ queue'[t] \in Seq(Message)
    BY <2>2, <2>3 DEF RoomTyped
  <2>5. \A t \in Sessions \ ts : queue'[t] = queue[t]
    BY <2>2
  <2>6. RoomTyped'
    BY <2>2, <2>3, <2>4, <2>5 DEF RoomTyped
  <2>7. NothingLeft'
    BY <2>2, <2>5 DEF NothingLeft
  <2>8. ASSUME NEW t \in Sessions, NEW n \in Message, Held(t, n)'
        PROVE  Held(t, n) \/ n = m
    <3>1. CASE t \in ts
      BY <2>8, <3>1, <2>2, <2>3, <2>4 DEF Held
    <3>2. CASE t \notin ts
      BY <2>8, <3>2, <2>2, <2>5 DEF Held
    <3> QED BY <3>1, <3>2
  <2>9. OneCopy'
    <3> SUFFICES ASSUME NEW t \in Sessions, NEW c \in Calls
                 PROVE  /\ \A i, j \in 1..Len(queue'[t]) :
                             Asks(queue'[t][i], c) /\ Asks(queue'[t][j], c) => i = j
                        /\ \A i \in 1..Len(queue'[t]), j \in 1..Len(writing'[t]) :
                             ~(Asks(queue'[t][i], c) /\ Asks(writing'[t][j], c))
      BY DEF OneCopy, Asks
    <3>1. CASE t \notin ts
      BY <3>1, <2>2, <2>5 DEF OneCopy
    <3>2. CASE t \in ts
      <4>1. ASSUME Asks(m, c)
            PROVE  /\ \A i \in 1..Len(queue[t]) : ~Asks(queue[t][i], c)
                   /\ \A i \in 1..Len(writing[t]) : ~Asks(writing[t][i], c)
        <5>1. \A n \in Message : Held(t, n) => n.call # c
          BY <4>1 DEF Asks
        <5>2. \A i \in 1..Len(queue[t]) : queue[t][i] \in Message /\ Held(t, queue[t][i])
          BY <2>3 DEF Held
        <5>3. \A i \in 1..Len(writing[t]) : writing[t][i] \in Message /\ Held(t, writing[t][i])
          BY <2>3 DEF Held
        <5> QED BY <5>1, <5>2, <5>3 DEF Asks
      <4>2. \A i \in 1..Len(queue'[t]) : \/ i \in 1..Len(queue[t]) /\ queue'[t][i] = queue[t][i]
                                         \/ i = Len(queue[t]) + 1 /\ queue'[t][i] = m
        BY <3>2, <2>3, <2>4
      <4>3. writing'[t] = writing[t]
        BY <2>2
      <4> QED BY <4>1, <4>2, <4>3 DEF OneCopy
    <3> QED BY <3>1, <3>2
  <2> QED BY <2>2, <2>6, <2>7, <2>8, <2>9
<1> QED BY <1>1, <1>2 DEF Send

-----------------------------------------------------------------------------
(* The calls                                                               *)

\* Only Request, ServeRequest and the relay's steps touch what travels.
LEMMA CallInvInit == Init => CallInv
<1> SUFFICES ASSUME Init PROVE CallInv
  OBVIOUS
<1>1. RoomTyped /\ CallsTyped /\ OneOpenSocket /\ NothingLeft
  BY RelayAssumption DEF Init, RelayInit, RoomTyped, CallsTyped, OneOpenSocket, NothingLeft
<1>2. \A s \in Sessions, m \in Message : ~Held(s, m)
  BY DEF Init, RelayInit, Held
<1>3. OnlyMadeCalls /\ NoCopyAfter
  BY <1>2 DEF OnlyMadeCalls, NoCopyAfter, Init
<1>4. OneCopy
  BY DEF OneCopy, Init, RelayInit
<1> QED BY <1>1, <1>3, <1>4 DEF CallInv

LEMMA CallInvConnect ==
    ASSUME CallInv, NEW d \in Devices, Connect(d)
    PROVE  CallInv'
<1> USE DEF CallInv
<1>1. PICK k \in 1..MaxSessions : Join(<<d, k>>) /\ session' = [session EXCEPT ![d] = k]
  BY DEF Connect
<1> DEFINE s == <<d, k>>
<1>2. s \in Sessions /\ Owner(s) = d /\ s[2] = k
  BY DEF Sessions, Owner
<1>3. /\ UNCHANGED <<outcome, party, inbox, serving, served, queue, writing>>
      /\ socket' = [socket EXCEPT ![s] = TRUE] /\ session[d] = 0
      /\ s \notin room /\ ~writer[s]
  BY <1>1 DEF Connect, Join, Unused
<1>4. /\ RoomTyped' /\ NothingLeft' /\ OneCopy'
      /\ \A t \in Sessions, m \in Message : Held(t, m)' => Held(t, m)
  BY <1>1, <1>2, RelayOnlyMoves
<1>5. CallsTyped'
  BY <1>1, <1>3 DEF CallsTyped
<1>6. OneOpenSocket'
  <2>1. \A t \in Sessions : t = <<Owner(t), t[2]>> /\ Owner(t) \in Devices /\ t[2] \in 1..MaxSessions
    BY DEF Sessions, Owner
  <2>2. \A t \in Sessions : t # s /\ Owner(t) = d => ~socket[t]
    BY <1>3, <2>1, RelayAssumption DEF OneOpenSocket
  <2> QED BY <1>1, <1>2, <1>3, <2>1, <2>2 DEF OneOpenSocket, CallsTyped, RoomTyped
<1>7. OnlyMadeCalls'
  BY <1>3, <1>4 DEF OnlyMadeCalls, To
<1>8. NoCopyAfter'
  <2>1. \A m \in Message : ~Held(s, m)
    BY <1>2, <1>3 DEF NothingLeft, Held
  <2>2. \A t \in Sessions : t # s => socket'[t] = socket[t]
    BY <1>3 DEF RoomTyped
  <2> QED BY <1>2, <1>3, <1>4, <2>1, <2>2 DEF NoCopyAfter, To
<1> QED BY <1>4, <1>5, <1>6, <1>7, <1>8

LEMMA CallInvLost ==
    ASSUME CallInv, NEW d \in Devices, Disconnected(d)
    PROVE  CallInv'
<1> USE DEF CallInv
<1>1. /\ UNCHANGED <<room, socket, writer, queue, writing, outcome, party, inbox, serving, served>>
      /\ session' = [session EXCEPT ![d] = 0] /\ ~socket[<<d, session[d]>>]
  BY DEF Disconnected, Current, relay
<1>2. RoomTyped' /\ NothingLeft' /\ OneCopy' /\ OnlyMadeCalls' /\ NoCopyAfter' /\ CallsTyped'
  BY <1>1, RelayAssumption DEF RoomTyped, NothingLeft, OneCopy, OnlyMadeCalls, NoCopyAfter, CallsTyped, Held, To
<1>3. OneOpenSocket'
  <2>1. \A t \in Sessions : t = <<Owner(t), t[2]>> /\ Owner(t) \in Devices
    BY DEF Sessions, Owner
  <2> QED BY <1>1, <2>1 DEF OneOpenSocket, CallsTyped
<1> QED BY <1>2, <1>3

LEMMA CallInvRequest ==
    ASSUME CallInv, NEW c \in Calls, NEW a \in Devices, NEW b \in Devices, Request(c, a, b)
    PROVE  CallInv'
<1> USE DEF CallInv
<1> DEFINE m == [type |-> "request", call |-> c, to |-> b]
<1>1. /\ outcome[c] = "none" /\ outcome' = [outcome EXCEPT ![c] = "waiting"]
      /\ party' = [party EXCEPT ![c] = <<a, b>>] /\ Send(a, m)
      /\ UNCHANGED <<session, inbox, serving, served>>
  BY DEF Request
<1>2. m \in Message
  BY DEF Message
<1>3. \A t \in Sessions, n \in Message : Held(t, n) => n.call # c
  BY <1>1 DEF OnlyMadeCalls
<1>4. /\ RoomTyped' /\ NothingLeft' /\ OneCopy'
      /\ UNCHANGED <<room, socket, writer, writing>>
      /\ \A t \in Sessions, n \in Message : Held(t, n)' => Held(t, n) \/ n = m
  BY <1>1, <1>2, <1>3, SendAddsOne
<1>5. CallsTyped'
  BY <1>1 DEF CallsTyped
<1>6. OneOpenSocket'
  BY <1>1, <1>4 DEF OneOpenSocket
<1>7. served[c] = 0 /\ c \notin serving
  BY <1>1 DEF OnlyMadeCalls, CallsTyped
<1>8. \A n \in Message : n.call \in Calls /\ n.to \in Devices /\ n.type \in {"request", "response"}
  BY DEF Message
<1>9. OnlyMadeCalls'
  <2>1. ASSUME NEW t \in Sessions, NEW n \in Message, Held(t, n)'
        PROVE  (outcome[n.call] # "none" /\ (n.type = "request" => n.to = To(n.call))
                /\ (n.type = "response" => served[n.call] = 1))'
    BY <2>1, <1>1, <1>3, <1>4, <1>8 DEF OnlyMadeCalls, To, CallsTyped
  <2>2. /\ \A e \in Calls : outcome'[e] # "none" => party'[e] \in Devices \X Devices
        /\ \A e \in serving' : outcome'[e] # "none" /\ served'[e] = 0
        /\ \A e \in inbox' : served'[e] = 1
        /\ \A e \in Calls : served'[e] = 1 => outcome'[e] # "none"
    BY <1>1, <1>7 DEF OnlyMadeCalls, CallsTyped
  <2> QED BY <2>1, <2>2 DEF OnlyMadeCalls
<1>10. NoCopyAfter'
  <2> SUFFICES ASSUME NEW t \in Sessions, NEW n \in Message,
                      (socket[t] /\ Held(t, n) /\ n.type = "request" /\ Owner(t) = To(n.call))'
               PROVE  (n.call \notin serving /\ served[n.call] = 0)'
    BY DEF NoCopyAfter
  <2>1. CASE n = m
    BY <2>1, <1>1, <1>7
  <2>2. CASE Held(t, n)
    <3>1. n.call # c /\ n.call \in Calls
      BY <2>2, <1>3, <1>8
    <3>2. To(n.call)' = To(n.call)
      BY <3>1, <1>1 DEF To, CallsTyped
    <3> QED BY <2>2, <3>2, <1>1, <1>4 DEF NoCopyAfter
  <2> QED BY <2>1, <2>2, <1>4
<1> QED BY <1>4, <1>5, <1>6, <1>9, <1>10

\* The one handled copy is the last an open session of the device holds.
LEMMA CallInvDeliver ==
    ASSUME CallInv, NEW s \in Sessions, Deliver(s)
    PROVE  CallInv'
<1> USE DEF CallInv
<1> DEFINE m == Head(writing[s])
<1>1. /\ Wrote(s) /\ UNCHANGED <<session, outcome, party, served, room, socket, writer, queue>>
      /\ writing' = [writing EXCEPT ![s] = <<>>] /\ writing[s] # <<>> /\ socket[s]
      /\ session[Owner(s)] = s[2]
  BY DEF Deliver, Wrote, Released, OneOpenSocket
<1>2. /\ RoomTyped' /\ NothingLeft' /\ OneCopy'
      /\ \A t \in Sessions, n \in Message : Held(t, n)' => Held(t, n)
  BY <1>1, RelayOnlyMoves
<1>3. writing[s] \in Seq(Message) /\ 1 \in 1..Len(writing[s]) /\ m = writing[s][1]
  BY <1>1 DEF RoomTyped
<1>4. m \in Message /\ Held(s, m) /\ m.call \in Calls
  <2>1. m \in Message
    BY <1>3
  <2> QED BY <2>1, <1>3 DEF Held, Message
<1>5. Handle(Owner(s), m)
  BY <1>1 DEF Deliver
<1>6. CASE m.to = Owner(s) /\ m.type = "request"
  <2>1. serving' = serving \cup {m.call} /\ inbox' = inbox
    BY <1>5, <1>6 DEF Handle
  <2>2. /\ To(m.call) = Owner(s) /\ outcome[m.call] # "none"
        /\ m.call \notin serving /\ served[m.call] = 0
    BY <1>1, <1>4, <1>6 DEF OnlyMadeCalls, NoCopyAfter
  <2>3. CallsTyped' /\ OneOpenSocket'
    BY <1>1, <1>4, <2>1 DEF CallsTyped, OneOpenSocket
  <2>4. OnlyMadeCalls'
    BY <1>1, <1>2, <2>1, <2>2 DEF OnlyMadeCalls, To
  <2>5. NoCopyAfter'
    <3> SUFFICES ASSUME NEW t \in Sessions, NEW n \in Message, socket[t], Held(t, n)',
                        n.type = "request", Owner(t) = To(n.call)
                 PROVE  n.call \notin serving' /\ served[n.call] = 0
      BY <1>1 DEF NoCopyAfter, To
    <3>1. n.call \notin serving /\ served[n.call] = 0
      BY <1>2 DEF NoCopyAfter
    <3>2. ASSUME n.call = m.call PROVE FALSE
      <4>1. t = s
        <5>1. t = <<Owner(t), t[2]>> /\ s = <<Owner(s), s[2]>>
          BY DEF Sessions, Owner
        <5> QED BY <5>1, <3>2, <1>1, <2>2 DEF OneOpenSocket
      <4>2. PICK i \in 1..Len(queue[s]) : queue[s][i] = n
        BY <4>1, <1>1 DEF Held, RoomTyped
      <4>3. Asks(queue[s][i], m.call) /\ Asks(writing[s][1], m.call)
        BY <4>2, <3>2, <1>3, <1>6 DEF Asks
      <4> QED BY <4>3, <4>2, <1>3, <1>4 DEF OneCopy
    <3> QED BY <3>1, <3>2, <2>1
  <2> QED BY <1>2, <2>3, <2>4, <2>5
<1>7. CASE ~(m.to = Owner(s) /\ m.type = "request")
  <2>1. /\ serving' = serving
        /\ inbox' = inbox \/ (inbox' = inbox \cup {m.call} /\ m.type = "response")
    BY <1>5, <1>7 DEF Handle
  <2>2. m.type = "response" => served[m.call] = 1
    BY <1>4 DEF OnlyMadeCalls
  <2>3. CallsTyped' /\ OneOpenSocket'
    BY <1>1, <1>4, <2>1 DEF CallsTyped, OneOpenSocket
  <2>4. OnlyMadeCalls'
    BY <1>1, <1>2, <2>1, <2>2 DEF OnlyMadeCalls, To
  <2>5. NoCopyAfter'
    BY <1>1, <1>2, <2>1 DEF NoCopyAfter, To
  <2> QED BY <1>2, <2>3, <2>4, <2>5
<1> QED BY <1>6, <1>7

LEMMA CallInvServe ==
    ASSUME CallInv, NEW c \in Calls, ServeRequest(c)
    PROVE  CallInv' /\ outcome[c] # "none" /\ served[c] = 0
<1> USE DEF CallInv
<1> DEFINE m == [type |-> "response", call |-> c, to |-> From(c)]
<1>1. /\ c \in serving /\ serving' = serving \ {c} /\ served' = [served EXCEPT ![c] = @ + 1]
      /\ Send(To(c), m) /\ UNCHANGED <<session, outcome, party, inbox>>
  BY DEF ServeRequest
<1>2. outcome[c] # "none" /\ served[c] = 0 /\ party[c] \in Devices \X Devices
  BY <1>1 DEF OnlyMadeCalls
<1>3. To(c) \in Devices /\ m \in Message
  BY <1>2 DEF To, From, Message
<1>4. /\ RoomTyped' /\ NothingLeft' /\ OneCopy'
      /\ UNCHANGED <<room, socket, writer, writing>>
      /\ \A t \in Sessions, n \in Message : Held(t, n)' => Held(t, n) \/ n = m
  BY <1>1, <1>3, SendAddsOne
<1>5. CallsTyped' /\ OneOpenSocket' /\ served'[c] = 1
  BY <1>1, <1>2, <1>4 DEF CallsTyped, OneOpenSocket
<1>6. \A n \in Message : n.call \in Calls
  BY DEF Message
<1>7. OnlyMadeCalls'
  <2>1. \A e \in Calls : served[e] = 1 => served'[e] = 1
    BY <1>1, <1>5 DEF CallsTyped
  <2>2. ASSUME NEW t \in Sessions, NEW n \in Message, Held(t, n)'
        PROVE  /\ outcome'[n.call] # "none"
               /\ n.type = "request" => n.to = To(n.call)'
               /\ n.type = "response" => served'[n.call] = 1
    BY <2>1, <2>2, <1>1, <1>2, <1>4, <1>5, <1>6 DEF OnlyMadeCalls, To
  <2>3. /\ \A e \in Calls : outcome'[e] # "none" => party'[e] \in Devices \X Devices
        /\ \A e \in serving' : outcome'[e] # "none" /\ served'[e] = 0
        /\ \A e \in inbox' : served'[e] = 1
        /\ \A e \in Calls : served'[e] = 1 => outcome'[e] # "none"
    BY <2>1, <1>1, <1>2, <1>5 DEF OnlyMadeCalls, CallsTyped
  <2> QED BY <2>2, <2>3 DEF OnlyMadeCalls
<1>8. NoCopyAfter'
  <2> SUFFICES ASSUME NEW t \in Sessions, NEW n \in Message, socket[t], Held(t, n)',
                      n.type = "request", Owner(t) = To(n.call)
               PROVE  n.call \notin serving' /\ served'[n.call] = 0
    BY <1>1, <1>4 DEF NoCopyAfter, To
  <2>1. Held(t, n)
    BY <1>4
  <2>2. n.call \notin serving /\ served[n.call] = 0
    BY <2>1 DEF NoCopyAfter
  <2>3. n.call # c
    BY <2>2, <1>1
  <2> QED BY <2>2, <2>3, <1>1, <1>6 DEF CallsTyped
<1> QED BY <1>2, <1>4, <1>5, <1>7, <1>8

LEMMA CallInvEnds ==
    ASSUME CallInv, NEW c \in Calls, Return(c) \/ Timeout(c)
    PROVE  CallInv'
<1> USE DEF CallInv
<1>1. /\ UNCHANGED <<room, socket, writer, queue, writing, session, party, serving, served>>
      /\ \/ outcome' = [outcome EXCEPT ![c] = "answered"]
         \/ outcome' = [outcome EXCEPT ![c] = "failed"]
      /\ inbox' = inbox \ {c} /\ outcome[c] = "waiting"
  BY DEF Return, Timeout, relay
<1>2. RoomTyped' /\ OneOpenSocket' /\ NothingLeft' /\ OneCopy' /\ NoCopyAfter'
  BY <1>1 DEF RoomTyped, OneOpenSocket, NothingLeft, OneCopy, NoCopyAfter, Held, To
<1>3. CallsTyped' /\ (\A e \in Calls : (outcome'[e] # "none") = (outcome[e] # "none"))
  BY <1>1 DEF CallsTyped
<1>4. OnlyMadeCalls'
  BY <1>1, <1>3 DEF OnlyMadeCalls, Held, To, CallsTyped, Message
<1> QED BY <1>2, <1>3, <1>4

LEMMA CallInvRelay ==
    ASSUME CallInv, NEW s \in Sessions, Relayed(s) \/ Breaks(s)
    PROVE  CallInv'
<1> USE DEF CallInv
<1>1. /\ Take(s) \/ WriterEnds(s) \/ Leave(s) \/ WriteFails(s) \/ SocketCloses(s)
      /\ UNCHANGED <<session, outcome, party, inbox, serving, served>>
  BY DEF Relayed, Breaks, rpc
<1>2. /\ RoomTyped' /\ NothingLeft' /\ OneCopy'
      /\ \A t \in Sessions, n \in Message : Held(t, n)' => Held(t, n)
  BY <1>1, RelayOnlyMoves
<1>3. \A t \in Sessions : socket'[t] => socket[t]
  BY <1>1 DEF Take, WriterEnds, Leave, WriteFails, SocketCloses, RoomTyped
<1>4. CallsTyped' /\ OneOpenSocket' /\ OnlyMadeCalls' /\ NoCopyAfter'
  BY <1>1, <1>2, <1>3 DEF CallsTyped, OneOpenSocket, OnlyMadeCalls, NoCopyAfter, To
<1> QED BY <1>2, <1>4

LEMMA CallInvNext == CallInv /\ [Next]_vars => CallInv'
<1> SUFFICES ASSUME CallInv, [Next]_vars PROVE CallInv'
  OBVIOUS
<1>1. CASE UNCHANGED vars
  BY <1>1 DEF vars, relay, rpc, CallInv, RoomTyped, CallsTyped, OneOpenSocket, NothingLeft,
              OnlyMadeCalls, OneCopy, NoCopyAfter, Held, To
<1> QED BY <1>1, CallInvConnect, CallInvLost, CallInvRequest, CallInvDeliver, CallInvServe,
           CallInvEnds, CallInvRelay DEF Next

LEMMA CallInvariant == Spec => []CallInv
    BY CallInvInit, CallInvNext, PTL DEF Spec

\* Whatever the relay loses, however often both sides reconnect: an answer
\* means that the peer's handler ran (handleMessage gives a response to the
\* pending channel of its own call only), and a handler runs at most once for
\* a call, even when its caller gave up before (wanclient.go:460-520,
\* wanclient_handlers.go:139-152).  That every call ends is left to TLC.
THEOREM CallsAreServedAtMostOnce == Spec => Contract!Safety
<1>1. Init => Contract!Init
  BY DEF Init, Contract!Init
<1>2. CallInv /\ [Next]_vars => [Contract!Next]_Contract!abstract
  <2> SUFFICES ASSUME CallInv, [Next]_vars
               PROVE  Contract!Next \/ UNCHANGED <<outcome, served>>
    BY DEF Contract!abstract
  <2>1. ASSUME NEW c \in Calls, NEW a \in Devices, NEW b \in Devices, Request(c, a, b)
        PROVE  Contract!Begin(c)
    BY <2>1 DEF Request, Contract!Begin
  <2>2. ASSUME NEW c \in Calls, ServeRequest(c)
        PROVE  Contract!Serve(c)
    <3>1. outcome[c] # "none" /\ served[c] = 0
      BY <2>2, CallInvServe
    <3> QED BY <2>2, <3>1 DEF ServeRequest, Contract!Serve
  <2>3. ASSUME NEW c \in Calls, Return(c)
        PROVE  Contract!Answer(c)
    BY <2>3 DEF Return, Contract!Answer, CallInv, OnlyMadeCalls
  <2>4. ASSUME NEW c \in Calls, Timeout(c)
        PROVE  Contract!Fail(c)
    BY <2>4 DEF Timeout, Contract!Fail
  <2>5. ASSUME NEW d \in Devices, Connect(d) \/ Disconnected(d)
        PROVE  UNCHANGED <<outcome, served>>
    BY <2>5 DEF Connect, Disconnected
  <2>6. ASSUME NEW s \in Sessions, Relayed(s) \/ Breaks(s) \/ Deliver(s)
        PROVE  UNCHANGED <<outcome, served>>
    BY <2>6 DEF Relayed, Breaks, Deliver, rpc
  <2>7. CASE UNCHANGED vars
    BY <2>7 DEF vars, rpc
  <2> QED BY <2>1, <2>2, <2>3, <2>4, <2>5, <2>6, <2>7 DEF Next, Contract!Next
<1> QED BY <1>1, <1>2, CallInvariant, PTL DEF Spec, Contract!Safety

-----------------------------------------------------------------------------
(* Sums                                                                    *)

\* f[T] adds the weights w of the indices in T, one that CHOOSE picks last.
IsSum(f, w, S) ==
    f = [s \in SUBSET S |-> IF s = {} THEN 0
                            ELSE f[s \ {CHOOSE x \in s : TRUE}] + w[CHOOSE x \in s : TRUE]]

\* A family of sets of which some are to be exceptions has a smallest one.
LEMMA SmallestSet ==
    ASSUME NEW S, IsFiniteSet(S), NEW B \in SUBSET (SUBSET S), B # {}
    PROVE  \E T \in B : \A U \in SUBSET T : U \in B => U = T
<1>1. IsWellFoundedOn(StrictSubsetOrdering(S), FiniteSubsetsOf(S))
  BY FS_StrictSubsetOrderingWellFounded
<1>2. FiniteSubsetsOf(S) = SUBSET S
  BY FS_Subset DEF FiniteSubsetsOf
<1>3. \E T \in B : \A U \in B : <<U, T>> \notin StrictSubsetOrdering(S)
  BY <1>1, <1>2, WFMin
<1> QED BY <1>3 DEF StrictSubsetOrdering

\* Two sums agree where their weights do.
LEMMA SumsAgree ==
    ASSUME NEW S, NEW R, NEW f, NEW g, NEW v, NEW w, IsSum(f, v, S), IsSum(g, w, R),
           NEW T, IsFiniteSet(T), T \subseteq S, T \subseteq R, \A x \in T : v[x] = w[x]
    PROVE  f[T] = g[T]
<1> DEFINE B == {U \in SUBSET T : f[U] # g[U]}
<1> SUFFICES ASSUME B # {} PROVE FALSE
  OBVIOUS
<1>1. PICK U \in B : \A V \in SUBSET U : V \in B => V = U
  <2>1. B \in SUBSET (SUBSET T)
    OBVIOUS
  <2> HIDE DEF B
  <2> QED BY <2>1, SmallestSet
<1> DEFINE x == CHOOSE x \in U : TRUE
<1>2. CASE U = {}
  BY <1>2 DEF IsSum
<1>3. CASE U # {}
  <2>1. x \in U
    BY <1>3
  <2>2. f[U \ {x}] = g[U \ {x}]
    BY <1>1, <2>1
  <2>3. f[U] = f[U \ {x}] + v[x] /\ g[U] = g[U \ {x}] + w[x]
    BY <1>3 DEF IsSum
  <2> QED BY <2>1, <2>2, <2>3
<1> QED BY <1>2, <1>3

\* What the CHOOSE in the folds' definition picks is a sum.
LEMMA SumExists ==
    ASSUME NEW S, IsFiniteSet(S), NEW w
    PROVE  \E f : IsSum(f, w, S)
<1> DEFINE B == {U \in SUBSET S : ~\E f : IsSum(f, w, U)}
<1> SUFFICES ASSUME B # {} PROVE FALSE
  OBVIOUS
<1>1. PICK T \in B : \A V \in SUBSET T : V \in B => V = T
  <2>1. B \in SUBSET (SUBSET S)
    OBVIOUS
  <2> HIDE DEF B
  <2> QED BY <2>1, SmallestSet
<1> DEFINE g(U) == CHOOSE f : IsSum(f, w, U)
           x(U) == CHOOSE x \in U : TRUE
           h == [s \in SUBSET T |-> IF s = {} THEN 0 ELSE g(s \ {x(s)})[s \ {x(s)}] + w[x(s)]]
<1>2. ASSUME NEW U \in SUBSET T, U # T PROVE IsSum(g(U), w, U)
  BY <1>1, <1>2
<1>3. ASSUME NEW U \in SUBSET T, U # T PROVE h[U] = g(U)[U]
  <2>1. CASE U = {}
    <3>1. h[U] = 0
      BY <2>1
    <3>2. IsSum(g(U), w, U)
      BY <1>2, <1>3
    <3> HIDE DEF g, h
    <3> QED BY <2>1, <3>1, <3>2 DEF IsSum
  <2>2. CASE U # {}
    <3>1. x(U) \in U
      BY <2>2
    <3> DEFINE V == U \ {x(U)}
    <3>2. IsSum(g(U), w, U) /\ IsSum(g(V), w, V)
      BY <1>2, <1>3, <3>1
    <3>3. IsFiniteSet(V)
      BY <1>3, FS_Subset
    <3>4. g(U)[V] = g(V)[V]
      <4> HIDE DEF g, V
      <4> QED BY <3>2, <3>3, SumsAgree DEF V
    <3>5. g(U)[U] = g(U)[V] + w[x(U)]
      <4> HIDE DEF g
      <4> QED BY <2>2, <3>2 DEF IsSum
    <3>6. h[U] = g(V)[V] + w[x(U)]
      BY <2>2
    <3> QED BY <3>4, <3>5, <3>6
  <2> QED BY <2>1, <2>2
<1>4. IsSum(h, w, T)
  <2> SUFFICES ASSUME NEW s \in SUBSET T, s # {}
               PROVE  g(s \ {x(s)})[s \ {x(s)}] = h[s \ {x(s)}]
    <3>1. h = [s \in SUBSET T |-> IF s = {} THEN 0 ELSE h[s \ {x(s)}] + w[x(s)]]
      <4> HIDE DEF g, x
      <4> QED OBVIOUS
    <3> HIDE DEF h
    <3> QED BY <3>1 DEF IsSum
  <2>1. x(s) \in s
    OBVIOUS
  <2> QED BY <1>3, <2>1
<1> QED BY <1>1, <1>4

\* The fold over a queue is a sum over its positions.
LEMMA BytesIsSum ==
    ASSUME NEW q, IsFiniteSet(DOMAIN q)
    PROVE  \E f : IsSum(f, [i \in DOMAIN q |-> Size(q[i])], DOMAIN q) /\ Bytes(q) = f[DOMAIN q]
<1> DEFINE w == [i \in DOMAIN q |-> Size(q[i])]
           Step(f) == [s \in SUBSET DOMAIN q |-> IF s = {} THEN 0
                            ELSE f[s \ {CHOOSE x \in s : TRUE}] + Size(q[CHOOSE x \in s : TRUE])]
           it == CHOOSE f : f = Step(f)
<1>1. PICK f : IsSum(f, w, DOMAIN q)
  BY SumExists
<1>2. \A s \in SUBSET DOMAIN q : s # {} => w[CHOOSE x \in s : TRUE] = Size(q[CHOOSE x \in s : TRUE])
  OBVIOUS
<1>3. f = Step(f)
  BY <1>1, <1>2 DEF IsSum
<1>4. it = Step(it)
  <2> HIDE DEF Step
  <2> QED BY <1>3
<1>5. IsSum(it, w, DOMAIN q)
  <2> HIDE DEF it, w
  <2> QED BY <1>2, <1>4 DEF IsSum
<1>6. Bytes(q) = it[DOMAIN q]
  BY DEF Bytes, FoldSeq, FoldFunction, FoldFunctionOnSet, MapThenFoldSet
<1> QED BY <1>5, <1>6

\* Any element may come last.
LEMMA SumWithout ==
    ASSUME NEW S, IsFiniteSet(S), NEW w \in [S -> Nat], NEW f, IsSum(f, w, S)
    PROVE  \A T \in SUBSET S : /\ f[T] \in Nat
                               /\ \A x \in T : f[T] = f[T \ {x}] + w[x]
<1> DEFINE Good(T) == f[T] \in Nat /\ \A x \in T : f[T] = f[T \ {x}] + w[x]
           B == {T \in SUBSET S : ~Good(T)}
<1> SUFFICES ASSUME B # {} PROVE FALSE
  OBVIOUS
<1>1. PICK T \in B : \A V \in SUBSET T : V \in B => V = T
  <2>1. B \in SUBSET (SUBSET S)
    OBVIOUS
  <2> HIDE DEF B
  <2> QED BY <2>1, SmallestSet
<1>2. \A V \in SUBSET T : V # T => Good(V)
  BY <1>1
<1> DEFINE y == CHOOSE x \in T : TRUE
<1>3. T # {}
  <2>1. f[{}] = 0
    BY DEF IsSum
  <2>2. Good({})
    BY <2>1
  <2> QED BY <1>1, <2>2
<1>4. y \in T /\ y \in S
  BY <1>3
<1>5. f[T] = f[T \ {y}] + w[y]
  BY <1>3 DEF IsSum
<1> HIDE DEF y
<1>6. f[T] \in Nat
  BY <1>2, <1>4, <1>5
<1>7. ASSUME NEW x \in T, x # y
      PROVE  f[T] = f[T \ {x}] + w[x]
  <2>1. (T \ {y}) \ {x} = (T \ {x}) \ {y}
    OBVIOUS
  <2>2. f[T \ {y}] = f[(T \ {y}) \ {x}] + w[x] /\ f[(T \ {y}) \ {x}] \in Nat
    BY <1>2, <1>4, <1>7
  <2>3. f[T \ {x}] = f[(T \ {x}) \ {y}] + w[y]
    BY <1>2, <1>4, <1>7
  <2>4. w[x] \in Nat /\ w[y] \in Nat
    BY <1>4, <1>7
  <2>5. f[(T \ {y}) \ {x}] = f[(T \ {x}) \ {y}]
    BY <2>1
  <2> HIDE DEF B, Good
  <2> QED BY <1>5, <2>2, <2>3, <2>4, <2>5
<1> QED BY <1>1, <1>5, <1>6, <1>7

LEMMA SumNat ==
    ASSUME NEW S, IsFiniteSet(S), NEW w \in [S -> Nat], NEW f, IsSum(f, w, S), NEW T \in SUBSET S
    PROVE  f[T] \in Nat
    BY SumWithout

LEMMA SumLess ==
    ASSUME NEW S, IsFiniteSet(S), NEW w \in [S -> Nat], NEW f, IsSum(f, w, S),
           NEW T \in SUBSET S, NEW x \in T
    PROVE  f[T] = f[T \ {x}] + w[x]
    BY SumWithout

LEMMA SumEmpty == ASSUME NEW S, NEW w, NEW f, IsSum(f, w, S) PROVE f[{}] = 0
    BY DEF IsSum

\* A sum changes by what changes under one index.
LEMMA SumChanged ==
    ASSUME NEW S, IsFiniteSet(S), NEW v \in [S -> Nat], NEW w \in [S -> Nat], NEW f, NEW g,
           IsSum(f, v, S), IsSum(g, w, S), NEW x \in S, \A y \in S \ {x} : v[y] = w[y]
    PROVE  f[S] + w[x] = g[S] + v[x]
<1>1. f[S] = f[S \ {x}] + v[x] /\ g[S] = g[S \ {x}] + w[x] /\ f[S \ {x}] \in Nat
  BY SumLess, SumNat
<1>2. f[S \ {x}] = g[S \ {x}]
  BY SumsAgree, FS_Subset
<1> QED BY <1>1, <1>2

\* ... or by the same amount under several.
LEMMA SumRaised ==
    ASSUME NEW S, IsFiniteSet(S), NEW v \in [S -> Nat], NEW w \in [S -> Nat], NEW f, NEW g,
           IsSum(f, v, S), IsSum(g, w, S), NEW ts \in SUBSET S, NEW n \in Nat,
           \A y \in S : w[y] = IF y \in ts THEN v[y] + n ELSE v[y]
    PROVE  g[S] = f[S] + n * Cardinality(ts)
<1> DEFINE Good(T) == g[T] = f[T] + n * Cardinality(T \cap ts)
           B == {T \in SUBSET S : ~Good(T)}
<1>0. S \cap ts = ts
  OBVIOUS
<1> SUFFICES ASSUME B # {} PROVE FALSE
  BY <1>0
<1>1. PICK T \in B : \A V \in SUBSET T : V \in B => V = T
  <2>1. B \in SUBSET (SUBSET S)
    OBVIOUS
  <2> HIDE DEF B
  <2> QED BY <2>1, SmallestSet
<1>2. \A V \in SUBSET T : V # T => Good(V)
  BY <1>1
<1>3. T # {}
  <2>1. f[{}] = 0 /\ g[{}] = 0 /\ {} \cap ts = {} /\ Cardinality({}) = 0
    BY SumEmpty, FS_EmptySet
  <2>2. Good({})
    BY <2>1
  <2> QED BY <1>1, <2>2
<1>4. PICK x \in T : TRUE
  BY <1>3
<1> DEFINE V == T \ {x}
<1>5. g[T] = g[V] + w[x] /\ f[T] = f[V] + v[x] /\ f[V] \in Nat /\ g[V] \in Nat
  <2>1. T \in SUBSET S /\ V \in SUBSET S
    OBVIOUS
  <2> HIDE DEF B, Good
  <2> HIDE DEF V
  <2>2. g[T] = g[T \ {x}] + w[x]
    BY <2>1, SumLess
  <2>3. f[T] = f[T \ {x}] + v[x]
    BY <2>1, SumLess
  <2>4. g[V] \in Nat /\ f[V] \in Nat
    BY <2>1, SumNat
  <2> QED BY <2>2, <2>3, <2>4 DEF V
<1>6. g[V] = f[V] + n * Cardinality(V \cap ts)
  BY <1>2
<1>7. IsFiniteSet(T \cap ts) /\ Cardinality(V \cap ts) \in Nat
  BY FS_Subset, FS_CardinalityType
<1>8. CASE x \in ts
  <2>1. V \cap ts = (T \cap ts) \ {x}
    OBVIOUS
  <2>2. Cardinality(T \cap ts) = Cardinality(V \cap ts) + 1
    <3>1. x \in T \cap ts /\ Cardinality(T \cap ts) \in Nat
      BY <1>7, <1>8, FS_CardinalityType
    <3>2. Cardinality((T \cap ts) \ {x}) = Cardinality(T \cap ts) - 1
      BY <1>7, <3>1, FS_RemoveElement
    <3>3. Cardinality(V \cap ts) = Cardinality(T \cap ts) - 1
      BY <2>1, <3>2
    <3> HIDE DEF V
    <3> QED BY <3>1, <3>3
  <2>3. n * (Cardinality(V \cap ts) + 1) = n * Cardinality(V \cap ts) + n
    BY <1>7
  <2>4. w[x] = v[x] + n /\ v[x] \in Nat
    BY <1>8
  <2>5. n * Cardinality(V \cap ts) \in Nat
    BY <1>7
  <2>6. Good(T)
    <3> HIDE DEF V
    <3> QED BY <1>5, <1>6, <2>2, <2>3, <2>4, <2>5
  <2> QED BY <1>1, <2>6
<1>9. CASE x \notin ts
  <2>1. V \cap ts = T \cap ts
    BY <1>9
  <2>2. w[x] = v[x] /\ v[x] \in Nat
    BY <1>9
  <2>3. n * Cardinality(V \cap ts) \in Nat
    BY <1>7
  <2>4. Good(T)
    <3> HIDE DEF V
    <3> QED BY <1>5, <1>6, <2>1, <2>2, <2>3
  <2> QED BY <1>1, <2>4
<1> QED BY <1>8, <1>9

\* A sum of natural numbers, and what SumWithout says of it.
Sums(f, w, S) == IsFiniteSet(S) /\ w \in [S -> Nat] /\ IsSum(f, w, S)

Splits(f, w, S) == \A T \in SUBSET S : f[T] \in Nat /\ \A x \in T : f[T] = f[T \ {x}] + w[x]

LEMMA SumSplits == ASSUME NEW S, NEW w, NEW f, Sums(f, w, S) PROVE Splits(f, w, S)
<1>1. IsFiniteSet(S) /\ w \in [S -> Nat] /\ IsSum(f, w, S)
  BY DEF Sums
<1> QED BY <1>1, SumWithout DEF Splits

\* h names the indices of v, in D, by indices of w, in E, of the same weight.
Renames(h, v, w, D, E) ==
    /\ h \in [D -> E]
    /\ \A i \in D : v[i] = w[h[i]]
    /\ \A i, j \in D : h[i] = h[j] => i = j
Image(h, T) == {h[i] : i \in T}

\* A sum over names of indices is the sum over the indices.
LEMMA SumOver ==
    ASSUME NEW D, NEW E, NEW w, NEW v, NEW f, NEW g, Sums(f, w, E), Sums(g, v, D),
           NEW h, Renames(h, v, w, D, E)
    PROVE  f[Image(h, D)] = g[D]
<1> DEFINE Good(T) == f[Image(h, T)] = g[T]
           B == {T \in SUBSET D : ~Good(T)}
<1>0. Splits(f, w, E)
  BY SumSplits
<1>1. Splits(g, v, D)
  BY SumSplits
<1> SUFFICES ASSUME B # {} PROVE FALSE
  OBVIOUS
<1>2. PICK T \in B : \A V \in SUBSET T : V \in B => V = T
  <2>1. B \in SUBSET (SUBSET D) /\ IsFiniteSet(D)
    BY DEF Sums
  <2> HIDE DEF B
  <2> QED BY <2>1, SmallestSet
<1>3. \A V \in SUBSET T : V # T => Good(V)
  BY <1>2
<1>4. T # {}
  <2>1. Image(h, {}) = {} /\ f[{}] = 0 /\ g[{}] = 0
    BY SumEmpty DEF Sums, Image
  <2>2. Good({})
    BY <2>1
  <2> QED BY <1>2, <2>2
<1>5. PICK x \in T : TRUE
  BY <1>4
<1>6. x \in D /\ T \in SUBSET D /\ ~Good(T)
  OBVIOUS
<1>7. Image(h, T) \in SUBSET E /\ h[x] \in Image(h, T) /\ Image(h, T) \ {h[x]} = Image(h, T \ {x})
  BY <1>5, <1>6 DEF Renames, Image
<1>8. f[Image(h, T \ {x})] = g[T \ {x}]
  BY <1>3, <1>5
<1>9. g[T] = g[T \ {x}] + v[x]
  BY <1>1, <1>5, <1>6 DEF Splits
<1> HIDE DEF B
<1>10. f[Image(h, T)] = f[Image(h, T) \ {h[x]}] + w[h[x]]
  BY <1>0, <1>7 DEF Splits
<1> QED BY <1>5, <1>6, <1>7, <1>8, <1>9, <1>10 DEF Renames

\* The sum of a sequence's tail.
LEMMA SumTail ==
    ASSUME NEW n \in Nat, NEW w, NEW v, NEW f, NEW g,
           Sums(f, w, 1..n + 1), Sums(g, v, 1..n), \A i \in 1..n : v[i] = w[i + 1]
    PROVE  f[1..n + 1] = g[1..n] + w[1]
<1> DEFINE h == [i \in 1..n |-> i + 1]
<1>1. IsFiniteSet(1..n) /\ IsFiniteSet(1..n + 1)
  <2>1. 1 \in Int /\ n \in Int /\ n + 1 \in Int
    OBVIOUS
  <2> QED BY <2>1, FS_Interval
<1>2. Renames(h, v, w, 1..n, 1..n + 1)
  BY DEF Renames
<1>3. Image(h, 1..n) = (1..n + 1) \ {1}
  <2>1. \A i \in (1..n + 1) \ {1} : i - 1 \in 1..n /\ h[i - 1] = i
    OBVIOUS
  <2>2. \A i \in 1..n : h[i] \in (1..n + 1) \ {1}
    OBVIOUS
  <2> HIDE DEF h
  <2> QED BY <2>1, <2>2 DEF Image
<1> HIDE DEF h
<1>4. f[Image(h, 1..n)] = g[1..n]
  BY <1>2, SumOver
<1>5. f[1..n + 1] = f[(1..n + 1) \ {1}] + w[1]
  <2>1. 1 \in 1..n + 1 /\ 1..n + 1 \in SUBSET (1..n + 1)
    OBVIOUS
  <2> DEFINE E == 1..n + 1
  <2>2. Sums(f, w, E)
    BY <1>1 DEF Sums
  <2> HIDE DEF E
  <2>3. Splits(f, w, E)
    BY <2>2, SumSplits
  <2> QED BY <2>1, <2>3 DEF E, Splits
<1> QED BY <1>3, <1>4, <1>5

(***************************************************************************)
(* The bytes of a queue.                                                   *)
(***************************************************************************)
Weights(q) == [i \in 1..Len(q) |-> Size(q[i])]

LEMMA BytesSum ==
    ASSUME NEW q \in Seq(Message)
    PROVE  \E f : Sums(f, Weights(q), 1..Len(q)) /\ Bytes(q) = f[1..Len(q)]
<1>1. DOMAIN q = 1..Len(q) /\ \A i \in 1..Len(q) : q[i] \in Message
  OBVIOUS
<1>2. IsFiniteSet(1..Len(q))
  <2>1. 1 \in Int /\ Len(q) \in Int
    OBVIOUS
  <2> QED BY <2>1, FS_Interval
<1>3. PICK f : IsSum(f, Weights(q), 1..Len(q)) /\ Bytes(q) = f[1..Len(q)]
  BY <1>1, <1>2, BytesIsSum DEF Weights
<1>4. Weights(q) \in [1..Len(q) -> Nat]
  BY <1>1, SizeAssumption DEF Weights
<1> QED BY <1>2, <1>3, <1>4 DEF Sums

LEMMA BytesType == ASSUME NEW q \in Seq(Message) PROVE Bytes(q) \in Nat
<1>1. PICK f : Sums(f, Weights(q), 1..Len(q)) /\ Bytes(q) = f[1..Len(q)]
  BY BytesSum
<1>2. Splits(f, Weights(q), 1..Len(q))
  BY <1>1, SumSplits
<1> QED BY <1>1, <1>2 DEF Splits

LEMMA BytesEmpty == Bytes(<<>>) = 0
<1>1. <<>> \in Seq(Message) /\ 1..Len(<<>>) = {}
  OBVIOUS
<1>2. PICK f : Sums(f, Weights(<<>>), 1..Len(<<>>)) /\ Bytes(<<>>) = f[1..Len(<<>>)]
  BY <1>1, BytesSum
<1>3. IsSum(f, Weights(<<>>), {})
  BY <1>1, <1>2 DEF Sums
<1> QED BY <1>1, <1>2, <1>3, SumEmpty

\* A message queued last, or taken from the front, counts with its size.
LEMMA BytesAppend ==
    ASSUME NEW q \in Seq(Message), NEW m \in Message
    PROVE  Bytes(Append(q, m)) = Bytes(q) + Size(m)
<1> DEFINE p == Append(q, m)
           n == Len(q)
           D == 1..Len(q)
           E == 1..Len(p)
<1>1. /\ p \in Seq(Message) /\ D \subseteq E /\ Len(p) \in E /\ E \ {Len(p)} = D
      /\ \A i \in D : Weights(p)[i] = Weights(q)[i]
      /\ Weights(p)[Len(p)] = Size(m)
  <2>1. Len(p) = n + 1 /\ n \in Nat /\ p[n + 1] = m /\ \A i \in 1..n : p[i] = q[i]
    OBVIOUS
  <2>2. p \in Seq(Message)
    OBVIOUS
  <2> HIDE DEF p
  <2> QED BY <2>1, <2>2 DEF Weights
<1>2. PICK f : Sums(f, Weights(q), D) /\ Bytes(q) = f[D]
  BY BytesSum
<1>3. PICK g : Sums(g, Weights(p), E) /\ Bytes(p) = g[E]
  <2> HIDE DEF p
  <2> QED BY <1>1, BytesSum
<1> HIDE DEF p, D, E
<1>4. Splits(g, Weights(p), E)
  BY <1>3, SumSplits
<1>5. g[E] = g[D] + Size(m)
  BY <1>1, <1>4 DEF Splits
<1>6. f[D] = g[D]
  <2>1. IsSum(f, Weights(q), D) /\ IsSum(g, Weights(p), E) /\ IsFiniteSet(D)
    BY <1>2, <1>3 DEF Sums
  <2> QED BY <1>1, <2>1, SumsAgree
<1> QED BY <1>2, <1>3, <1>5, <1>6 DEF p

LEMMA BytesOne == ASSUME NEW m \in Message PROVE Bytes(<<m>>) = Size(m)
<1>1. <<>> \in Seq(Message) /\ Append(<<>>, m) = <<m>>
  OBVIOUS
<1>2. Bytes(<<m>>) = 0 + Size(m)
  BY <1>1, BytesAppend, BytesEmpty
<1> QED BY <1>2, SizeAssumption

LEMMA BytesTail ==
    ASSUME NEW q \in Seq(Message), q # <<>>
    PROVE  Bytes(q) = Bytes(Tail(q)) + Size(Head(q))
<1> DEFINE p == Tail(q)
           n == Len(p)
<1>1. /\ p \in Seq(Message) /\ n \in Nat /\ Len(q) = n + 1
      /\ Weights(q)[1] = Size(Head(q))
      /\ \A i \in 1..n : Weights(p)[i] = Weights(q)[i + 1]
  BY DEF Weights
<1> HIDE DEF p
<1>2. PICK f : Sums(f, Weights(q), 1..n + 1) /\ Bytes(q) = f[1..n + 1]
  BY <1>1, BytesSum
<1>3. PICK g : Sums(g, Weights(p), 1..n) /\ Bytes(p) = g[1..n]
  BY <1>1, BytesSum
<1>4. f[1..n + 1] = g[1..n] + Weights(q)[1]
  BY <1>1, <1>2, <1>3, SumTail
<1> QED BY <1>1, <1>2, <1>3, <1>4 DEF p

\* The fold over the sessions is a sum, too.
LEMMA TotalIsSum ==
    ASSUME NEW S, IsFiniteSet(S), NEW w \in [S -> Nat]
    PROVE  \E f : Sums(f, w, S) /\ FoldSet(LAMBDA s, sum : sum + w[s], 0, S) = f[S]
<1> DEFINE Step(f) == [s \in SUBSET S |-> IF s = {} THEN 0
                            ELSE f[s \ {CHOOSE x \in s : TRUE}] + w[CHOOSE x \in s : TRUE]]
           it == CHOOSE f : f = Step(f)
<1>1. PICK f : IsSum(f, w, S)
  BY SumExists
<1>2. f = Step(f)
  BY <1>1 DEF IsSum
<1>3. it = Step(it)
  <2> HIDE DEF Step
  <2> QED BY <1>2
<1>4. IsSum(it, w, S)
  <2> HIDE DEF it
  <2> QED BY <1>3 DEF IsSum
<1>5. FoldSet(LAMBDA s, sum : sum + w[s], 0, S) = it[S]
  BY DEF FoldSet, MapThenFoldSet
<1> QED BY <1>4, <1>5 DEF Sums

-----------------------------------------------------------------------------
(* The relay's books                                                       *)

Total(w) == FoldSet(LAMBDA s, sum : sum + w[s], 0, Sessions)

LEMMA SessionsFinite == IsFiniteSet(Sessions)
<1>1. IsFiniteSet(1..MaxSessions)
  BY RelayAssumption, FS_Interval
<1> QED BY <1>1, RelayAssumption, FS_Product DEF Sessions

LEMMA TotalSums ==
    ASSUME NEW w \in [Sessions -> Nat]
    PROVE  \E f : Sums(f, w, Sessions) /\ Total(w) = f[Sessions]
    BY SessionsFinite, TotalIsSum DEF Total

LEMMA TotalType == ASSUME NEW w \in [Sessions -> Nat] PROVE Total(w) \in Nat
<1>1. PICK f : Sums(f, w, Sessions) /\ Total(w) = f[Sessions]
  BY TotalSums
<1>2. Splits(f, w, Sessions)
  BY <1>1, SumSplits
<1> QED BY <1>1, <1>2 DEF Splits

\* The total changes by what changes for one session ...
LEMMA TotalChanged ==
    ASSUME NEW v \in [Sessions -> Nat], NEW w \in [Sessions -> Nat], NEW s \in Sessions,
           \A t \in Sessions \ {s} : v[t] = w[t]
    PROVE  Total(v) + w[s] = Total(w) + v[s]
<1>1. PICK f : Sums(f, v, Sessions) /\ Total(v) = f[Sessions]
  BY TotalSums
<1>2. PICK g : Sums(g, w, Sessions) /\ Total(w) = g[Sessions]
  BY TotalSums
<1>3. IsSum(f, v, Sessions) /\ IsSum(g, w, Sessions) /\ IsFiniteSet(Sessions)
  BY <1>1, <1>2 DEF Sums
<1>4. f[Sessions] + w[s] = g[Sessions] + v[s]
  BY <1>3, SumChanged
<1> QED BY <1>1, <1>2, <1>4

\* ... or by the same amount for several.
LEMMA TotalRaised ==
    ASSUME NEW v \in [Sessions -> Nat], NEW w \in [Sessions -> Nat], NEW ts \in SUBSET Sessions, NEW n \in Nat,
           \A t \in Sessions : w[t] = IF t \in ts THEN v[t] + n ELSE v[t]
    PROVE  Total(w) = Total(v) + n * Cardinality(ts)
<1>1. PICK f : Sums(f, v, Sessions) /\ Total(v) = f[Sessions]
  BY TotalSums
<1>2. PICK g : Sums(g, w, Sessions) /\ Total(w) = g[Sessions]
  BY TotalSums
<1>3. IsSum(f, v, Sessions) /\ IsSum(g, w, Sessions) /\ IsFiniteSet(Sessions)
  BY <1>1, <1>2 DEF Sums
<1>4. g[Sessions] = f[Sessions] + n * Cardinality(ts)
  BY <1>3, SumRaised
<1> QED BY <1>1, <1>2, <1>4

LEMMA TotalZero == Total([s \in Sessions |-> 0]) = 0
<1> DEFINE w == [s \in Sessions |-> 0]
           g == [T \in SUBSET Sessions |-> 0]
<1>1. PICK f : Sums(f, w, Sessions) /\ Total(w) = f[Sessions]
  BY TotalSums
<1>2. IsSum(g, w, Sessions)
  BY DEF IsSum
<1>3. IsSum(f, w, Sessions) /\ IsFiniteSet(Sessions) /\ g[Sessions] = 0
  BY <1>1 DEF Sums
<1> HIDE DEF g
<1>4. f[Sessions] = g[Sessions]
  BY <1>2, <1>3, SumsAgree
<1> QED BY <1>1, <1>3, <1>4

\* RelayBooks with the folds named, and the type of the counters.
Books == /\ queued \in [Sessions -> Nat]
         /\ total \in Nat
         /\ \A s \in Sessions : queued[s] = Bytes(queue[s]) + Bytes(writing[s])
         /\ total = Total(queued)
         /\ BudgetsHold

LEMMA BooksInit == Init => Books
<1> SUFFICES ASSUME Init PROVE Books
  OBVIOUS
<1>1. /\ queued = [s \in Sessions |-> 0] /\ total = 0
      /\ \A s \in Sessions : queue[s] = <<>> /\ writing[s] = <<>>
  BY DEF Init, RelayInit
<1>2. total = Total(queued)
  BY <1>1, TotalZero
<1> QED BY <1>1, <1>2, BytesEmpty, RelayAssumption DEF Books, BudgetsHold

LEMMA BooksUntouched ==
    ASSUME Books, UNCHANGED <<queue, writing, queued, total>>
    PROVE  Books'
    BY DEF Books, BudgetsHold

\* A session holds b bytes less, and gives them back.
GivesBack(s, b) ==
    /\ b \in Nat
    /\ queued' = [queued EXCEPT ![s] = @ - b]
    /\ total' = total - b
    /\ \A t \in Sessions \ {s} : queue'[t] = queue[t] /\ writing'[t] = writing[t]
    /\ Bytes(queue'[s]) \in Nat /\ Bytes(writing'[s]) \in Nat
    /\ Bytes(queue[s]) + Bytes(writing[s]) = Bytes(queue'[s]) + Bytes(writing'[s]) + b

LEMMA BooksGivenBack ==
    ASSUME Books, NEW s \in Sessions, NEW b, GivesBack(s, b)
    PROVE  Books'
<1> USE DEF GivesBack
<1>1. /\ queued \in [Sessions -> Nat] /\ total \in Nat
      /\ \A t \in Sessions : queued[t] = Bytes(queue[t]) + Bytes(writing[t]) /\ queued[t] <= ClientBudget
      /\ total = Total(queued) /\ total <= TotalBudget
  BY DEF Books, BudgetsHold
<1>2. /\ queued'[s] = queued[s] - b /\ queued'[s] = Bytes(queue'[s]) + Bytes(writing'[s])
      /\ \A t \in Sessions \ {s} : queued'[t] = queued[t]
  BY <1>1
<1>3. queued' \in [Sessions -> Nat] /\ queued[s] \in Nat /\ queued'[s] \in Nat
  BY <1>1, <1>2
<1>4. Total(queued) + queued'[s] = Total(queued') + queued[s] /\ Total(queued') \in Nat
  BY <1>1, <1>2, <1>3, TotalChanged, TotalType
<1>5. total' = Total(queued') /\ total' \in Nat /\ total' <= total
  BY <1>1, <1>2, <1>3, <1>4
<1>6. \A t \in Sessions : queued'[t] = Bytes(queue'[t]) + Bytes(writing'[t])
  BY <1>1, <1>2
<1>7. BudgetsHold'
  BY <1>1, <1>2, <1>3, <1>5, RelayAssumption DEF BudgetsHold
<1> QED BY <1>3, <1>5, <1>6, <1>7 DEF Books

LEMMA BooksLeave ==
    ASSUME RoomTyped, Books, NEW s \in Sessions, Leave(s)
    PROVE  Books'
<1>1. queue[s] \in Seq(Message) /\ writing[s] \in Seq(Message)
  BY DEF RoomTyped
<1>2. /\ Bytes(queue[s]) \in Nat /\ Bytes(writing[s]) \in Nat
      /\ queue'[s] = <<>> /\ writing' = writing
      /\ \A t \in Sessions \ {s} : queue'[t] = queue[t]
  BY <1>1, BytesType DEF Leave, RoomTyped
<1>3. /\ queued' = [queued EXCEPT ![s] = @ - Bytes(queue[s])] /\ total' = total - Bytes(queue[s])
      /\ Bytes(queue'[s]) = 0 /\ writing'[s] = writing[s]
  BY <1>2, BytesEmpty DEF Leave
<1>4. GivesBack(s, Bytes(queue[s]))
  BY <1>2, <1>3 DEF GivesBack
<1> QED BY <1>4, BooksGivenBack

LEMMA BooksReleased ==
    ASSUME RoomTyped, Books, NEW s \in Sessions, Released(s), queue' = queue
    PROVE  Books'
<1>1. queue[s] \in Seq(Message) /\ writing[s] \in Seq(Message)
  BY DEF RoomTyped
<1>2. /\ Bytes(queue[s]) \in Nat /\ Bytes(writing[s]) \in Nat
      /\ writing'[s] = <<>>
      /\ \A t \in Sessions \ {s} : writing'[t] = writing[t]
  BY <1>1, BytesType DEF Released, RoomTyped
<1>3. /\ queued' = [queued EXCEPT ![s] = @ - Bytes(writing[s])] /\ total' = total - Bytes(writing[s])
      /\ Bytes(writing'[s]) = 0 /\ queue'[s] = queue[s]
  BY <1>2, BytesEmpty DEF Released
<1>4. GivesBack(s, Bytes(writing[s]))
  BY <1>2, <1>3 DEF GivesBack
<1> QED BY <1>4, BooksGivenBack

\* The writer moves a message from the queue into its hand.
LEMMA BooksTake ==
    ASSUME RoomTyped, Books, NEW s \in Sessions, Take(s)
    PROVE  Books'
<1>1. queue[s] \in Seq(Message) /\ queue[s] # <<>> /\ writing[s] = <<>>
  BY DEF RoomTyped, Take
<1>2. /\ queue'[s] = Tail(queue[s]) /\ writing'[s] = <<Head(queue[s])>>
      /\ \A t \in Sessions \ {s} : queue'[t] = queue[t] /\ writing'[t] = writing[t]
      /\ UNCHANGED <<queued, total>>
  BY DEF Take, RoomTyped
<1>3. Head(queue[s]) \in Message /\ Tail(queue[s]) \in Seq(Message)
  BY <1>1
<1>4. /\ Bytes(queue[s]) = Bytes(queue'[s]) + Bytes(writing'[s])
      /\ Bytes(queue'[s]) \in Nat /\ Bytes(writing'[s]) \in Nat /\ Bytes(writing[s]) = 0
  BY <1>1, <1>2, <1>3, BytesTail, BytesOne, BytesType, BytesEmpty, SizeAssumption
<1>5. \A t \in Sessions : queued'[t] = Bytes(queue'[t]) + Bytes(writing'[t])
  BY <1>2, <1>4 DEF Books
<1> QED BY <1>2, <1>5 DEF Books, BudgetsHold

\* No burst takes more than the server's budget leaves, or a member's.
LEMMA BooksForward ==
    ASSUME RoomTyped, Books, NEW s \in Sessions, NEW m \in Message, Forward(s, m)
    PROVE  Books'
<1> DEFINE n == Size(m)
<1>1. n \in Nat /\ n > 0
  BY SizeAssumption
<1>2. PICK ts \in Served(s, m) :
         /\ queue' = [t \in Sessions |-> IF t \in ts THEN Append(queue[t], m) ELSE queue[t]]
         /\ queued' = [t \in Sessions |-> IF t \in ts THEN queued[t] + n ELSE queued[t]]
         /\ total' = total + n * Cardinality(ts)
         /\ writing' = writing
  BY DEF Forward
<1>3. /\ ts \in SUBSET Sessions /\ Cardinality(ts) <= (TotalBudget - total) \div n
      /\ \A t \in ts : queued[t] + n <= ClientBudget
  BY <1>2 DEF Served, Fits, RoomTyped
<1>4. Cardinality(ts) \in Nat
  BY <1>3, SessionsFinite, FS_Subset, FS_CardinalityType
<1>5. /\ queued \in [Sessions -> Nat] /\ total \in Nat
      /\ \A t \in Sessions : queued[t] = Bytes(queue[t]) + Bytes(writing[t]) /\ queued[t] <= ClientBudget
      /\ total = Total(queued) /\ total <= TotalBudget
  BY DEF Books, BudgetsHold
<1> HIDE DEF n
<1>6. n * Cardinality(ts) \in Nat /\ total' \in Nat /\ total' <= TotalBudget
  <2>1. TotalBudget - total \in Nat
    BY <1>5, RelayAssumption
  <2> DEFINE r == TotalBudget - total
             q == r \div n
  <2>2. q \in Nat /\ n * q <= r
    BY <1>1, <2>1
  <2>3. n * Cardinality(ts) \in Nat /\ n * Cardinality(ts) <= n * q
    <3> HIDE DEF q
    <3> QED BY <1>1, <1>3, <1>4, <2>2 DEF q
  <2>4. n * q \in Nat
    <3> HIDE DEF q
    <3> QED BY <1>1, <2>2
  <2> DEFINE p == n * q
             k == n * Cardinality(ts)
  <2>5. k \in Nat /\ p \in Nat /\ k <= p /\ p <= TotalBudget - total /\ total' = total + k
    BY <1>2, <2>2, <2>3, <2>4
  <2> HIDE DEF p, k
  <2>6. total' \in Nat /\ total' <= TotalBudget
    BY <1>5, <2>5, RelayAssumption
  <2> QED BY <2>3, <2>6
<1>7. queued' \in [Sessions -> Nat]
  BY <1>1, <1>2, <1>5
<1>8. total' = Total(queued')
  <2>1. \A t \in Sessions : queued'[t] = IF t \in ts THEN queued[t] + n ELSE queued[t]
    BY <1>2
  <2>2. Total(queued') = Total(queued) + n * Cardinality(ts)
    BY <1>1, <1>3, <1>5, <1>7, <2>1, TotalRaised
  <2> QED BY <1>2, <1>5, <2>2
<1>9. \A t \in Sessions : /\ queued'[t] = Bytes(queue'[t]) + Bytes(writing'[t])
                          /\ queued'[t] <= ClientBudget
  <2>1. \A t \in Sessions : queue[t] \in Seq(Message) /\ Bytes(queue[t]) \in Nat /\ Bytes(writing[t]) \in Nat
    BY BytesType DEF RoomTyped
  <2>2. \A t \in Sessions : Bytes(Append(queue[t], m)) = Bytes(queue[t]) + n
    BY <2>1, BytesAppend DEF n
  <2> QED BY <1>1, <1>2, <1>3, <1>5, <2>1, <2>2
<1> QED BY <1>6, <1>7, <1>8, <1>9 DEF Books, BudgetsHold

LEMMA BooksSend ==
    ASSUME RoomTyped, CallsTyped, Books, NEW d \in Devices, NEW m \in Message, Send(d, m)
    PROVE  Books'
<1>1. CASE UNCHANGED relay
  BY <1>1, BooksUntouched DEF relay
<1>2. CASE session[d] # 0 /\ Forward(Current(d), m)
  <2>1. Current(d) \in Sessions
    BY <1>2, RelayAssumption DEF Current, Sessions, CallsTyped
  <2> QED BY <1>2, <2>1, BooksForward
<1> QED BY <1>1, <1>2 DEF Send

LEMMA BooksNext == CallInv /\ Books /\ [Next]_vars => Books'
<1> SUFFICES ASSUME CallInv, Books, [Next]_vars PROVE Books'
  OBVIOUS
<1>0. RoomTyped /\ CallsTyped /\ OnlyMadeCalls
  BY DEF CallInv
<1>1. ASSUME NEW d \in Devices, Connect(d) PROVE Books'
  BY <1>1, BooksUntouched DEF Connect, Join
<1>2. ASSUME NEW d \in Devices, Disconnected(d) PROVE Books'
  BY <1>2, BooksUntouched DEF Disconnected, relay
<1>3. ASSUME NEW c \in Calls, NEW a \in Devices, NEW b \in Devices, Request(c, a, b) PROVE Books'
  <2>1. [type |-> "request", call |-> c, to |-> b] \in Message
    BY DEF Message
  <2> QED BY <1>0, <1>3, <2>1, BooksSend DEF Request
<1>4. ASSUME NEW c \in Calls, ServeRequest(c) PROVE Books'
  <2>1. party[c] \in Devices \X Devices
    BY <1>0, <1>4 DEF ServeRequest, OnlyMadeCalls
  <2>2. To(c) \in Devices /\ [type |-> "response", call |-> c, to |-> From(c)] \in Message
    BY <2>1 DEF To, From, Message
  <2> QED BY <1>0, <1>4, <2>2, BooksSend DEF ServeRequest
<1>5. ASSUME NEW c \in Calls, Return(c) \/ Timeout(c) PROVE Books'
  BY <1>5, BooksUntouched DEF Return, Timeout, relay
<1>6. ASSUME NEW s \in Sessions, Relayed(s) PROVE Books'
  <2>1. CASE WriterEnds(s)
    BY <2>1, BooksUntouched DEF WriterEnds
  <2> QED BY <1>0, <1>6, <2>1, BooksTake, BooksLeave DEF Relayed
<1>7. ASSUME NEW s \in Sessions, Breaks(s) PROVE Books'
  <2>1. CASE SocketCloses(s)
    BY <2>1, BooksUntouched DEF SocketCloses
  <2>2. CASE WriteFails(s)
    BY <1>0, <2>2, BooksReleased DEF WriteFails
  <2> QED BY <1>7, <2>1, <2>2 DEF Breaks
<1>8. ASSUME NEW s \in Sessions, Deliver(s) PROVE Books'
  BY <1>0, <1>8, BooksReleased DEF Deliver, Wrote
<1>9. CASE UNCHANGED vars
  BY <1>9, BooksUntouched DEF vars, relay
<1> QED BY <1>1, <1>2, <1>3, <1>4, <1>5, <1>6, <1>7, <1>8, <1>9 DEF Next

\* However many members join, stall, break off and come back: what the relay
\* counts for a member and for itself is what it holds, so no byte of the
\* budget is ever lost to a disconnect, and neither budget is ever exceeded
\* (server.go:86-133).
THEOREM RelayBooksBalance == Spec => []RelayBooks
<1>1. Books => RelayBooks
  BY DEF Books, RelayBooks, BytesAccountedFor, Total
<1> QED BY <1>1, CallInvariant, BooksInit, BooksNext, PTL DEF Spec

-----------------------------------------------------------------------------
(* The client                                                              *)

USE DEF client, presence, clientVars

\* Type correctness of the client.

\* A generation that Connect or Disconnect may take is a slot no goroutine is in.
LEMMA FreeGeneration ==
    ASSUME NEW c \in Callers, NEW g \in NextGeneration(c)
    PROVE  g \in Gens /\ g # generation /\ g # conn /\ loops[g] = NoLoop
    BY DEF NextGeneration

LoopRecord == [pc : {"none", "dial", "read", "handle", "wait"}, beats : BOOLEAN]

\* A goroutine ends or goes on to another step.
LEMMA LoopMoves ==
    ASSUME NEW l \in LoopRecord, NEW step \in {"none", "dial", "read", "handle", "wait"}
    PROVE  /\ [l EXCEPT !.pc = step] \in LoopRecord
           /\ [l EXCEPT !.pc = step, !.beats = TRUE] \in LoopRecord
           /\ NoLoop \in LoopRecord /\ [NoLoop EXCEPT !.pc = step] \in LoopRecord
    BY DEF LoopRecord, NoLoop

\* The end of a loop, a lost connection and a joined room keep the types.
LEMMA LoopTypes ==
    ASSUME ClientTypeOK, NEW g \in Gens, NEW why \in {"error", "disconnected"},
           ConnectionLost(g, why) \/ Joined(g)
    PROVE  /\ conn' \in Gens \cup {0}
           /\ state' \in {"disconnected", "connecting", "connected", "error"}
           /\ loops' \in [Gens -> LoopRecord]
<1>1. loops \in [Gens -> LoopRecord] /\ conn \in Gens \cup {0}
      /\ state \in {"disconnected", "connecting", "connected", "error"}
  BY DEF ClientTypeOK, LoopRecord
<1>2. /\ NoLoop \in LoopRecord
      /\ [loops[g] EXCEPT !.pc = "wait"] \in LoopRecord
      /\ [loops[g] EXCEPT !.pc = "read", !.beats = TRUE] \in LoopRecord
  BY <1>1, LoopMoves
<1>3. CASE ConnectionLost(g, why)
  BY <1>1, <1>2, <1>3 DEF ConnectionLost, EndOf
<1>4. CASE Joined(g)
  BY <1>1, <1>2, <1>4 DEF Joined, EndOf
<1> QED BY <1>3, <1>4

\* What a connection, the calls on their way and the rows of the peer are made of.
THEOREM WanTypeCorrect == ClientSpec => []ClientTypeOK
<1>1. ClientInit => ClientTypeOK
  <2> SUFFICES ASSUME ClientInit PROVE ClientTypeOK
    OBVIOUS
  <2>1. generation \in Gens /\ open \subseteq {generation} /\ conn \in Gens \cup {0} /\ changes \in 0..MaxChanges
    BY WanAssumption DEF ClientInit, Gens
  <2>2. loops \in [Gens -> [pc : {"none", "dial", "read", "handle", "wait"}, beats : BOOLEAN]]
    BY DEF ClientInit, NoLoop
  <2>3. calls \in [Callers -> Rooms \cup {NoRoom, NoCall, Called, Marking}]
    BY DEF ClientInit
  <2>4. {up, chatty, fresh, discovered, sighted} \subseteq BOOLEAN
    BY DEF ClientInit
  <2> QED BY <2>1, <2>2, <2>3, <2>4 DEF ClientInit, ClientTypeOK
<1>2. ClientTypeOK /\ [ClientNext]_clientVars => ClientTypeOK'
  <2> SUFFICES ASSUME ClientTypeOK, [ClientNext]_clientVars PROVE ClientTypeOK'
    OBVIOUS
  <2>1. ASSUME NEW h \in Handlers, Reconnect(h) \/ \E r \in Rooms \cup {NoRoom} : ChangeRoom(h, r)
        PROVE  ClientTypeOK'
    <3>1. changes + 1 \in 0..MaxChanges
      BY <2>1, WanAssumption DEF ClientTypeOK, Reconnect, ChangeRoom
    <3> QED BY <2>1, <3>1 DEF ClientTypeOK, Reconnect, ChangeRoom, Callers
  <2>2. ASSUME NEW c \in Callers, ReadSettings(c)
        PROVE  ClientTypeOK'
    BY <2>2 DEF ClientTypeOK, ReadSettings
  <2>3. ASSUME NEW c \in Callers, TakeOver(c)
        PROVE  ClientTypeOK'
    BY <2>3, FreeGeneration DEF ClientTypeOK, TakeOver, NoLoop
  <2>4. ASSUME NEW c \in Callers, Disconnect(c)
        PROVE  ClientTypeOK'
    BY <2>4, FreeGeneration DEF ClientTypeOK, Disconnect
  <2>5. ASSUME NEW c \in Callers, MarkWanPeersOffline(c)
        PROVE  ClientTypeOK'
    BY <2>5 DEF ClientTypeOK, MarkWanPeersOffline
  <2>6. ASSUME NEW g \in Gens, Dial(g) \/ LinkDrops(g)
        PROVE  ClientTypeOK'
    <3>1. \/ ConnectionLost(g, "error") \/ ConnectionLost(g, "disconnected") \/ Joined(g)
      BY <2>6 DEF Dial, LinkDrops
    <3>2. UNCHANGED <<setting, changes, up, generation, open, calls, chatty, presence>>
      BY <2>6 DEF Dial, LinkDrops
    <3> QED BY <3>1, <3>2, LoopTypes DEF ClientTypeOK, LoopRecord
  <2>7. ASSUME NEW g \in Gens, Receive(g) \/ HandleMessage(g)
        PROVE  ClientTypeOK'
    <3>1. loops' \in [Gens -> LoopRecord]
      <4>1. loops \in [Gens -> LoopRecord]
        BY DEF ClientTypeOK, LoopRecord
      <4>2. [loops[g] EXCEPT !.pc = "read"] \in LoopRecord /\ [loops[g] EXCEPT !.pc = "handle"] \in LoopRecord
        BY <4>1, LoopMoves
      <4> QED BY <2>7, <4>1, <4>2 DEF Receive, HandleMessage
    <3>2. row' \in [address : {"lan", "relay"}, status : {"online", "offline"}]
      BY <2>7 DEF ClientTypeOK, Receive, HandleMessage
    <3>3. {up, chatty, fresh, discovered, sighted}' \subseteq BOOLEAN
      BY <2>7 DEF ClientTypeOK, Receive, HandleMessage
    <3> QED BY <2>7, <3>1, <3>2, <3>3 DEF ClientTypeOK, LoopRecord, Receive, HandleMessage
  <2>8. ASSUME NEW g \in Gens, TimerFires(g) \/ Cancelled(g)
        PROVE  ClientTypeOK'
    <3>1. loops' \in [Gens -> LoopRecord]
      <4>1. loops \in [Gens -> LoopRecord] /\ NoLoop \in LoopRecord
        BY LoopMoves DEF ClientTypeOK, LoopRecord
      <4> QED BY <2>8, <4>1 DEF TimerFires, Cancelled, EndOf
    <3>2. calls' \in [Callers -> Rooms \cup {NoRoom, NoCall, Called, Marking}]
      BY <2>8 DEF ClientTypeOK, TimerFires, Cancelled, Callers
    <3> QED BY <2>8, <3>1, <3>2 DEF ClientTypeOK, LoopRecord, TimerFires, Cancelled
  <2>9. CASE (\E g \in Gens : ExpireStalePeers(g)) \/ OnPeerSeen \/ OnExpired
    <3>1. row' \in [address : {"lan", "relay"}, status : {"online", "offline"}]
      <4>1. /\ row \in [address : {"lan", "relay"}, status : {"online", "offline"}]
            /\ [row EXCEPT !.status = "offline"] \in [address : {"lan", "relay"}, status : {"online", "offline"}]
            /\ [row EXCEPT !.address = "relay"] \in [address : {"lan", "relay"}, status : {"online", "offline"}]
            /\ [address |-> "lan", status |-> "online"] \in
                   [address : {"lan", "relay"}, status : {"online", "offline"}]
        BY DEF ClientTypeOK
      <4> QED BY <2>9, <4>1 DEF ExpireStalePeers, OnPeerSeen, OnExpired
    <3>2. {up, chatty, fresh, discovered, sighted}' \subseteq BOOLEAN
      BY <2>9 DEF ClientTypeOK, ExpireStalePeers, OnPeerSeen, OnExpired
    <3> QED BY <2>9, <3>1, <3>2 DEF ClientTypeOK, ExpireStalePeers, OnPeerSeen, OnExpired
  <2>10. CASE RelayToggles \/ PeerToggles \/ Silence
    BY <2>10 DEF ClientTypeOK, RelayToggles, PeerToggles, Silence
  <2>11. CASE UNCHANGED clientVars
    BY <2>11 DEF ClientTypeOK
  <2> QED BY <2>1, <2>2, <2>3, <2>4, <2>5, <2>6, <2>7, <2>8, <2>9, <2>10, <2>11 DEF ClientNext, Call, Loop
<1> QED BY <1>1, <1>2, PTL DEF ClientSpec

-----------------------------------------------------------------------------
(* The connection                                                          *)

\* While the current generation's loop reads, the socket is its own and the client
\* says connected, however many superseded loops learn meanwhile that theirs is gone
\* (connectionLost and the second look at the generation after the dial).
THEOREM LiveLoopOwnsConnectionAlways == ClientSpec => []LiveLoopOwnsConnection
<1>1. ClientInit => LiveLoopOwnsConnection
  BY WanAssumption DEF ClientInit, LiveLoopOwnsConnection, NoLoop, Gens
<1>2. ClientTypeOK /\ LiveLoopOwnsConnection /\ [ClientNext]_clientVars => LiveLoopOwnsConnection'
  <2> SUFFICES ASSUME ClientTypeOK, LiveLoopOwnsConnection, [ClientNext]_clientVars
               PROVE  LiveLoopOwnsConnection'
    OBVIOUS
  <2>1. CASE UNCHANGED <<generation, conn, state, loops>>
    BY <2>1 DEF LiveLoopOwnsConnection
  <2>2. ASSUME NEW c \in Callers, TakeOver(c) \/ Disconnect(c)
        PROVE  LiveLoopOwnsConnection'
    BY <2>2, FreeGeneration DEF TakeOver, Disconnect, LiveLoopOwnsConnection, NoLoop, ClientTypeOK
  <2>3. ASSUME NEW g \in Gens, Dial(g) \/ LinkDrops(g)
        PROVE  LiveLoopOwnsConnection'
    BY <2>3 DEF Dial, LinkDrops, ConnectionLost, Joined, EndOf, LiveLoopOwnsConnection, ClientTypeOK
  <2>4. ASSUME NEW g \in Gens, Receive(g) \/ HandleMessage(g)
        PROVE  LiveLoopOwnsConnection'
    BY <2>4 DEF Receive, HandleMessage, LiveLoopOwnsConnection, ClientTypeOK
  <2>5. ASSUME NEW g \in Gens, TimerFires(g) \/ Cancelled(g)
        PROVE  LiveLoopOwnsConnection'
    BY <2>5 DEF TimerFires, Cancelled, EndOf, NoLoop, LiveLoopOwnsConnection, ClientTypeOK
  <2>6. ASSUME NEW h \in Handlers, Reconnect(h) \/ \E r \in Rooms \cup {NoRoom} : ChangeRoom(h, r)
        PROVE  UNCHANGED <<generation, conn, state, loops>>
    BY <2>6 DEF Reconnect, ChangeRoom
  <2>7. ASSUME NEW c \in Callers, ReadSettings(c) \/ MarkWanPeersOffline(c)
        PROVE  UNCHANGED <<generation, conn, state, loops>>
    BY <2>7 DEF ReadSettings, MarkWanPeersOffline
  <2>8. CASE \/ \E g \in Gens : ExpireStalePeers(g)
             \/ OnPeerSeen \/ OnExpired \/ RelayToggles \/ PeerToggles \/ Silence
    BY <2>1, <2>8 DEF ExpireStalePeers, OnPeerSeen, OnExpired, RelayToggles, PeerToggles, Silence
  <2> QED BY <2>1, <2>2, <2>3, <2>4, <2>5, <2>6, <2>7, <2>8 DEF ClientNext, Call, Loop
<1> QED BY <1>1, <1>2, WanTypeCorrect, PTL DEF ClientSpec

-----------------------------------------------------------------------------
(* Presence                                                                *)

\* Of all that writes a peer's row, only a Disconnect marks a peer offline that the
\* relay heard within the window: neither the heartbeat's sweep nor the expiry of a
\* LAN sighting does (engine.go's OnExpired asks HasDiscovered first).
THEOREM HeardPeerStaysOnlineAlways == ClientSpec => HeardPeerStaysOnline
<1> DEFINE Stays ==
        row.status = "online" /\ HasDiscovered /\ state = "connected" /\ row'.status = "offline"
            => state' # "connected" \/ \E c \in Callers : calls[c] = Marking
<1>1. ClientTypeOK /\ [ClientNext]_clientVars => [Stays]_clientVars
  <2> SUFFICES ASSUME ClientTypeOK, ClientNext,
                      row.status = "online", HasDiscovered, row'.status = "offline"
               PROVE  \E c \in Callers : calls[c] = Marking
    OBVIOUS
  <2>1. row' # row
    OBVIOUS
  <2>2. ASSUME NEW c \in Callers, MarkWanPeersOffline(c)
        PROVE  calls[c] = Marking
    BY <2>2 DEF MarkWanPeersOffline
  <2>3. ~\E g \in Gens : HandleMessage(g) \/ ExpireStalePeers(g)
    BY DEF HandleMessage, ExpireStalePeers, HasDiscovered
  <2>4. ~OnPeerSeen /\ ~OnExpired
    <3>1. ~OnPeerSeen
      BY DEF OnPeerSeen
    <3>2. [row EXCEPT !.address = "relay"].status = row.status
      BY DEF ClientTypeOK
    <3>3. ~OnExpired
      BY <3>2 DEF OnExpired, HasDiscovered
    <3> QED BY <3>1, <3>3
  <2>5. ~\E h \in Handlers : Reconnect(h) \/ \E r \in Rooms \cup {NoRoom} : ChangeRoom(h, r)
    BY <2>1 DEF Reconnect, ChangeRoom
  <2>6. ~\E c \in Callers : ReadSettings(c) \/ TakeOver(c) \/ Disconnect(c)
    BY <2>1 DEF ReadSettings, TakeOver, Disconnect
  <2>7. ~\E g \in Gens : Dial(g) \/ LinkDrops(g) \/ TimerFires(g) \/ Cancelled(g) \/ Receive(g)
    BY <2>1 DEF Dial, LinkDrops, TimerFires, Cancelled, Receive
  <2>8. ~RelayToggles /\ ~PeerToggles /\ ~Silence
    BY <2>1 DEF RelayToggles, PeerToggles, Silence
  <2> QED BY <2>2, <2>3, <2>4, <2>5, <2>6, <2>7, <2>8 DEF ClientNext, Call, Loop
<1>2. HeardPeerStaysOnline <=> [][Stays]_clientVars
  BY PTL DEF HeardPeerStaysOnline
<1> HIDE DEF Stays
<1> QED BY <1>1, <1>2, WanTypeCorrect, PTL DEF ClientSpec
=============================================================================
