----------------------------- MODULE MCSaveWatch -----------------------------
(* A bounded instance of SaveWatch. *)
EXTENDS SaveWatch
TwoSlots == 1..2
=============================================================================
