--------------------------- MODULE MCSharingSerial ---------------------------
(* One request at a time, no failing mutation, every node readable: an     *)
(* owner o, another user a and a sys user s; n1 and n2 are in one group,   *)
(* n3 (of a) in another.                                                   *)
EXTENDS Sharing, TLC

CONSTANTS o, a, s, n1, n2, n3, g1, g2, p1

MCOwner     == n1 :> o @@ n2 :> o @@ n3 :> a
MCSgi       == n1 :> g1 @@ n2 :> g1 @@ n3 :> g2
MCReadPerm  == [n \in Nodes |-> "true"]
MCSharePerm == [n \in Nodes |-> TRUE]
MCEdges     == {}
MCNodeLists   == {{n1}, {n1, n2}, {n2, n3}}
MCTargetLists == {{a}, {o, a}, {a, s}}

ASSUME SerialInstance == OneAtATime
=============================================================================
