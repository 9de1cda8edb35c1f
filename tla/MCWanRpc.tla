---- MODULE MCWanRpc ----
EXTENDS WanRpc
\* A response carries save data, base64 encoded; a request is small.
Bulk(m) == IF m.type = "response" THEN 2 ELSE 1
====
