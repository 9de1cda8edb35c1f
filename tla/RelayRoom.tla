----------------------------- MODULE RelayRoom -----------------------------
(***************************************************************************)
(* One room of the WAN relay (relay/server.go): every message a member     *)
(* sends is queued for all the others, within a byte budget per member and *)
(* one for the whole server, and dropped for a member that cannot keep up. *)
(*                                                                         *)
(* A session is one accepted WebSocket with its reader, which owns the     *)
(* membership, and its writer, which drains the queue.  A device that      *)
(* reconnects has a new session while the old one may still be ending.     *)
(***************************************************************************)
EXTENDS Naturals, Sequences, FiniteSets, SequencesExt

CONSTANTS Devices,
          MaxSessions,   \* bound: sessions of one device that overlap
          MaxPerRoom,    \* cfg.MaxPerRoom
          ClientBudget,  \* maxQueuedBytesPerClient
          TotalBudget,   \* maxQueuedBytesTotal
          SendSlots,     \* sendQueueSlots
          Size(_)        \* the bytes of a message, never 0

Sessions == Devices \X (1..MaxSessions)
Owner(s) == s[1]

ASSUME RelayAssumption ==
    /\ IsFiniteSet(Devices)
    /\ MaxSessions \in Nat \ {0} /\ MaxPerRoom \in Nat \ {0}
    /\ ClientBudget \in Nat /\ TotalBudget \in Nat /\ SendSlots \in Nat \ {0}

VARIABLES room,     \* the sessions that are members
          socket,   \* session -> its connection is open
          writer,   \* session -> its writer goroutine runs
          queue,    \* session -> c.send
          writing,  \* session -> the message its writer took, as a sequence
          queued,   \* session -> c.queued
          total     \* s.totalQueued

relay == <<room, socket, writer, queue, writing, queued, total>>

RelayInit ==
    /\ room = {}
    /\ socket = [s \in Sessions |-> FALSE]
    /\ writer = [s \in Sessions |-> FALSE]
    /\ queue = [s \in Sessions |-> <<>>]
    /\ writing = [s \in Sessions |-> <<>>]
    /\ queued = [s \in Sessions |-> 0]
    /\ total = 0

Bytes(q) == FoldSeq(LAMBDA m, sum : sum + Size(m), 0, q)

\* A session slot that nothing of an earlier connection holds.
Unused(s) == s \notin room /\ ~socket[s] /\ ~writer[s]

\* handleWS up to the start of the two goroutines; a full room refuses.
Join(s) ==
    /\ Unused(s)
    /\ Cardinality(room) < MaxPerRoom
    /\ room' = room \cup {s}
    /\ socket' = [socket EXCEPT ![s] = TRUE]
    /\ writer' = [writer EXCEPT ![s] = TRUE]
    /\ UNCHANGED <<queue, writing, queued, total>>

(***************************************************************************)
(* The reader.                                                             *)
(***************************************************************************)
\* Room for m in t's own budget and queue; the members are served in an
\* order the map chooses, so the total decides who is left out.
Fits(t, m) ==
    /\ queued[t] + Size(m) <= ClientBudget
    /\ Len(queue[t]) < SendSlots

\* The sets of members that the loop over the room can have served.
Served(s, m) ==
    LET able == {t \in room \ {s} : Fits(t, m)}
        most == (TotalBudget - total) \div Size(m)
    IN  {ts \in SUBSET able : /\ Cardinality(ts) <= most
                              /\ ts = able \/ Cardinality(ts) = most}

\* One message of s relayed to the others, under the server's lock.
Forward(s, m) ==
    /\ s \in room
    /\ \E ts \in Served(s, m) :
         /\ queue' = [t \in Sessions |-> IF t \in ts THEN Append(queue[t], m) ELSE queue[t]]
         /\ queued' = [t \in Sessions |-> IF t \in ts THEN queued[t] + Size(m) ELSE queued[t]]
         /\ total' = total + Size(m) * Cardinality(ts)
    /\ UNCHANGED <<room, socket, writer, writing>>

\* Not given back at the end: the bytes still queued.
MutantLeave(s) ==
    /\ s \in room /\ ~socket[s]
    /\ room' = room \ {s}
    /\ queue' = [queue EXCEPT ![s] = <<>>]
    /\ queued' = [queued EXCEPT ![s] = Bytes(writing[s])]
    /\ UNCHANGED <<socket, writer, writing, total>>

\* The read failed: out of the room and drained in one critical section.
Leave(s) ==
    /\ s \in room /\ ~socket[s]
    /\ room' = room \ {s}
    /\ queue' = [queue EXCEPT ![s] = <<>>]
    /\ queued' = [queued EXCEPT ![s] = @ - Bytes(queue[s])]
    /\ total' = total - Bytes(queue[s])
    /\ UNCHANGED <<socket, writer, writing>>

\* The peer went away, or the network between.
SocketCloses(s) ==
    /\ socket[s]
    /\ socket' = [socket EXCEPT ![s] = FALSE]
    /\ UNCHANGED <<room, writer, queue, writing, queued, total>>

(***************************************************************************)
(* The writer.                                                             *)
(***************************************************************************)
Take(s) ==
    /\ writer[s] /\ writing[s] = <<>> /\ queue[s] # <<>>
    /\ writing' = [writing EXCEPT ![s] = <<Head(queue[s])>>]
    /\ queue' = [queue EXCEPT ![s] = Tail(@)]
    /\ UNCHANGED <<room, socket, writer, queued, total>>

Released(s) ==
    /\ writing' = [writing EXCEPT ![s] = <<>>]
    /\ queued' = [queued EXCEPT ![s] = @ - Bytes(writing[s])]
    /\ total' = total - Bytes(writing[s])

\* The message reached the client's socket.
Wrote(s) ==
    /\ writing[s] # <<>> /\ socket[s]
    /\ Released(s)
    /\ UNCHANGED <<room, socket, writer, queue>>

\* The write failed, or its ten seconds ran out, and the connection stays.
MutantWriteFails(s) ==
    /\ writing[s] # <<>>
    /\ Released(s)
    /\ writer' = [writer EXCEPT ![s] = FALSE]
    /\ UNCHANGED <<room, socket, queue>>

\* The write failed, or its ten seconds ran out: the writer closes the
\* connection on its way out.
WriteFails(s) ==
    /\ writing[s] # <<>>
    /\ Released(s)
    /\ writer' = [writer EXCEPT ![s] = FALSE]
    /\ socket' = [socket EXCEPT ![s] = FALSE]
    /\ UNCHANGED <<room, queue>>

\* The handler returned, so the request's context ends the writer too.
WriterEnds(s) ==
    /\ writer[s] /\ s \notin room /\ writing[s] = <<>>
    /\ writer' = [writer EXCEPT ![s] = FALSE]
    /\ socket' = [socket EXCEPT ![s] = FALSE]
    /\ UNCHANGED <<room, queue, writing, queued, total>>

(***************************************************************************)
(* What the relay owes its members.                                        *)
(***************************************************************************)
RelayTypeOK ==
    /\ room \subseteq Sessions
    /\ {socket, writer} \subseteq [Sessions -> BOOLEAN]
    /\ \A s \in Sessions : Len(queue[s]) <= SendSlots /\ Len(writing[s]) <= 1
    /\ queued \in [Sessions -> Nat]
    /\ total \in Nat

\* The counters are what is really held.
BytesAccountedFor ==
    /\ \A s \in Sessions : queued[s] = Bytes(queue[s]) + Bytes(writing[s])
    /\ total = FoldSet(LAMBDA s, sum : sum + queued[s], 0, Sessions)

BudgetsHold ==
    /\ \A s \in Sessions : queued[s] <= ClientBudget
    /\ total <= TotalBudget

\* Members, writers and teardowns reserve and give back bytes in any order
\* and none is lost, so a churn of disconnects cannot eat the budget, and no
\* burst takes more than a member's or the server's (server.go:86-133).
RelayBooks == BytesAccountedFor /\ BudgetsHold

\* A member whose writer has stopped receives nothing ever again, so it must
\* not go on looking connected (server.go:276-285).
WedgedMemberLeaves ==
    \A s \in Sessions : (s \in room /\ ~writer[s]) ~> (s \notin room \/ writer[s])
=============================================================================
