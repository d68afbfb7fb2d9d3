----------------------------- MODULE MCSessions ------------------------------
(* A client with up to two requests at a time, which may log in while it   *)
(* is logged in; a token lives for two ticks.                              *)
EXTENDS Sessions, TLC

CONSTANTS c1, u1, p1, p2

MCUser == c1 :> u1

Symmetry == Permutations({p1, p2})
=============================================================================
