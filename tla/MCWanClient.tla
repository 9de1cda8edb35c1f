---- MODULE MCWanClient ----
EXTENDS WanClient
\* One HTTP handler and one room to join or leave, named in the configurations.
====
