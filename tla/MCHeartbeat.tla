---------------------------- MODULE MCHeartbeat ----------------------------
(* Instances of Heartbeat, with the values MCIngestion has for Ingestion.  *)
EXTENDS MCIngestion, Heartbeat
=============================================================================
