---- MODULE MCPairing ----
EXTENDS Pairing
\* Devices are told apart by nothing but their names; liveness is checked, so
\* no symmetry is used.
====
