------------------------------ MODULE MCSharing ------------------------------
(* Two goroutines, an owner o and two others, and two nodes of one group:  *)
(* n1 is readable and may be shared on, n2 is neither (r is stored false). *)
(* An e edge leads from n1 to n2.                                          *)
EXTENDS Sharing, TLC

CONSTANTS o, a, b, n1, n2, g1, p1, p2

MCOwner     == n1 :> o @@ n2 :> o
MCSgi       == n1 :> g1 @@ n2 :> g1
MCReadPerm  == n1 :> "true" @@ n2 :> "false"
MCSharePerm == n1 :> TRUE @@ n2 :> FALSE
MCEdges     == {<<n1, n2>>}
MCNodeLists   == {{n1}, {n1, n2}}
MCTargetLists == {{a}, {b}}
MCTargetsA    == {{a}}

(* For two of the runs that show where the code leaves its documentation:  *)
(* every node readable, and n2 without an r predicate.                     *)
MCAllReadable == [n \in Nodes |-> "true"]
MCNoR         == n1 :> "true" @@ n2 :> "absent"

(* The goroutines are alike, and so are the users other than the owner.    *)
Symmetry == {f @@ g : f \in Permutations({p1, p2}), g \in Permutations({a, b})}
=============================================================================
