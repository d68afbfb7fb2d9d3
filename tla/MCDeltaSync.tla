----------------------------- MODULE MCDeltaSync -----------------------------
(* A small instance of DeltaSync.                                          *)
EXTENDS DeltaSync, TLC
=============================================================================
