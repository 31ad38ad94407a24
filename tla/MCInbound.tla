---------------------------- MODULE MCInbound ----------------------------
EXTENDS InboundCall
MCHome == [p \in Actor |-> IF p = "worker" THEN "worker" ELSE "api"]
MCHost == {"worker", "api"}
=============================================================================
