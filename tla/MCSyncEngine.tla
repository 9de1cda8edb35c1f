---------------------------- MODULE MCSyncEngine ----------------------------
(* Bounded instances of SyncEngine. *)
EXTENDS SyncEngine, TLC
CONSTANTS d1, d2, d3, f, g, x
MCDevices == {d1, d2}
ThreeDevices == {d1, d2, d3}
OnePath == {f}
TwoPaths == {f, g}
OneDir == {x}
NoDirs == {}
MCTimes == 1..MaxClock
KeepLocalOnly == {"keep-local"}
BothAnswers == {"keep-local", "keep-remote"}
NoOne == {}
FreshInit == Init /\ FreshStart
SyncedInit == Init /\ SyncedStart
FreshSpec == FreshInit /\ [][Next]_vars
SyncedSpec == SyncedInit /\ [][Next]_vars
DeviceSymmetry == Permutations(Devices)
BothSymmetry == Permutations(Devices) \cup Permutations(TwoPaths)
\* States are one that differ only in a last-synced time that no action reads any
\* more, because a merge-base is known.
ReadLastSynced == [d \in Devices |-> [e \in Devices |->
    IF agreed[d][e] = NoHash THEN lastSynced[d][e] ELSE 0]]
ReadState == <<save, agreed, pushed, lineage, ReadLastSynced, backups, conflict, pass,
               refreshes, reports, clock, faults, history>>
=============================================================================
