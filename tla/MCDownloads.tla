----------------------------- MODULE MCDownloads -----------------------------
(* Values of the constants of Downloads for TLC.                           *)
EXTENDS Downloads
=============================================================================
