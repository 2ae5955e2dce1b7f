---------------------------- MODULE MCReconcile ----------------------------
(* Instances of Reconcile, with the values MCIngestion has for Ingestion.  *)
EXTENDS MCIngestion, Reconcile
=============================================================================
