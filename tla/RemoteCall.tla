----------------------------- MODULE RemoteCall -----------------------------
(***************************************************************************)
(* What a caller of WanClient.Request may rely on, whatever the relay      *)
(* loses: every call ends, an answer means that the peer served the call,  *)
(* and the peer serves a call at most once - possibly after the caller     *)
(* gave up, so a failed call may have taken effect.                        *)
(***************************************************************************)
EXTENDS Naturals

CONSTANT Calls
VARIABLES outcome,  \* call -> what its caller knows
          served    \* call -> how often the peer served it

abstract == <<outcome, served>>

Init ==
    /\ outcome = [c \in Calls |-> "none"]
    /\ served = [c \in Calls |-> 0]

Begin(c) ==
    /\ outcome[c] = "none"
    /\ outcome' = [outcome EXCEPT ![c] = "waiting"]
    /\ UNCHANGED served

Serve(c) ==
    /\ outcome[c] # "none" /\ served[c] = 0
    /\ served' = [served EXCEPT ![c] = 1]
    /\ UNCHANGED outcome

Answer(c) ==
    /\ outcome[c] = "waiting" /\ served[c] = 1
    /\ outcome' = [outcome EXCEPT ![c] = "answered"]
    /\ UNCHANGED served

Fail(c) ==
    /\ outcome[c] = "waiting"
    /\ outcome' = [outcome EXCEPT ![c] = "failed"]
    /\ UNCHANGED served

Next == \E c \in Calls : Begin(c) \/ Serve(c) \/ Answer(c) \/ Fail(c)

\* What may happen to a call, and that every call ends.
Safety == Init /\ [][Next]_abstract
Ends   == \A c \in Calls : WF_abstract(Answer(c) \/ Fail(c))

Spec == Safety /\ Ends
=============================================================================
