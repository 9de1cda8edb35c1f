----------------------------- MODULE MCSyncQueue -----------------------------
(* Bounded instances of SyncQueue. *)
EXTENDS SyncQueue
CONSTANTS p, q, c1, c2, f1
TwoPeers == {p, q}
OneCaller == {c1}
OnePeer == {p}
TwoCallers == {c1, c2}
OneFollowUp == {f1}
=============================================================================
