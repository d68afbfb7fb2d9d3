-------------------------------- MODULE MCUsm --------------------------------
(* Two request goroutines calling the session manager about one user (and  *)
(* about the empty uid), with one token id and two share groups.           *)
EXTENDS Usm
=============================================================================
