------------------------------ MODULE MCTracking ------------------------------
(* Bounded instances of Tracking. *)
EXTENDS Tracking, TLC
CONSTANTS d1, d2, g, h, f1, f2
TwoDevices == {d1, d2}
TwoIds == {g, h}
TwoFolders == {f1, f2}
\* One device tracks a title; the other nothing, the title under another id, or both.
OneTitle == {[d \in TwoDevices |-> IF d = d1 THEN (g :> f1 @@ h :> NoFolder) ELSE r] :
             r \in {g :> NoFolder @@ h :> NoFolder, g :> NoFolder @@ h :> f2, g :> f1 @@ h :> f2}}
=============================================================================
