--------------------------- MODULE MCSyncExchange ---------------------------
(* A bounded instance of SyncExchange.  Three contents tell the common past *)
(* and two edits apart; three times allow an edit to be older than, as old  *)
(* as and newer than the past.                                              *)
EXTENDS SyncExchange
CONSTANTS f, g, x
MCPaths == {f, g}
MCDirs == {x}
MCVersions == 0..2
MCMtimes == 1..3
=============================================================================
