---------------------------- MODULE MCCloudMirror ----------------------------
(* Bounded instances of CloudMirror. *)
EXTENDS CloudMirror
CONSTANTS local, google_drive
BothKinds == {local, google_drive}
OnlyFolder == {local}
OnlyDrive == {google_drive}
TwoSnapshots == 1..2
ThreeSnapshots == 1..3
Goroutines == Ids \cup {Push, Clean, Fetch}
=============================================================================
