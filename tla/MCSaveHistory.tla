---------------------------- MODULE MCSaveHistory ----------------------------
(* Bounded instances of SaveHistory. *)
EXTENDS SaveHistory
CONSTANTS user, watcher, app, cli, main, alt
UserAndWatcher == {user, watcher}
OneProcess == {app}
InOneProcess == [a \in UserAndWatcher |-> app]
\* The app and the CLI: each with a lock of its own.
TwoProcesses == {app, cli}
InTwoProcesses == [a \in UserAndWatcher |-> IF a = user THEN app ELSE cli]
UserDoesAll == [a \in UserAndWatcher |-> IF a = user THEN Ops ELSE {"create"}]
TwoBranches == {main, alt}
AltIsLeftover == {alt}
=============================================================================
