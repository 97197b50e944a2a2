------------------------------- MODULE MCDataSync -------------------------------
(* For the run of DataSync.                                                   *)
EXTENDS DataSync, TLC
=================================================================================
