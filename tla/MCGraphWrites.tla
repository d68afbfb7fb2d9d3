---------------------------- MODULE MCGraphWrites ----------------------------
(* A small instance of GraphWrites: the requests that are tried.           *)
EXTENDS GraphWrites, TLC

CONSTANTS u1, u2, t1, t2, t3

RootPermsMC == {{"r", "o"}}

(* Two nodes in a chain, a cycle, a placeholder used twice, one that is    *)
(* not defined, a link to an existing node and to the node itself.         *)
New(uid, e) == [uid |-> uid, e |-> e, perms |-> {"r", "i"}]

CreateListsMC ==
  { << New(t1, {}), New(t2, {t1}) >>,
    << New(t1, {t2}), New(t2, {t1}) >>,
    << New(t1, {}), New(t1, {}) >>,
    << New(t1, {t3}) >>, << New(t1, {1}) >>, << New(t1, {t1}) >> }

BodiesMC == {[own |-> u1, sgi |-> 2, perms |-> {"r", "w"}]}

(* Objects nested in PATCH nodes: entries of the e list with and without   *)
(* fields, of placeholders and of a uid that is not assigned, an object in *)
(* the e list of an entry, and objects in the nodes and shr lists of an    *)
(* own object.                                                             *)
Object(via, uid, sets) ==
  [via |-> via, parent |-> 1, user |-> u2, uid |-> uid,
   env |-> [own |-> u2, sgi |-> 1, perms |-> {"r"}], sets |-> sets]

NestedListsMC ==
  { {}, {Object("e", 1, {})}, {Object("e", 2, {})}, {Object("e", t3, {})},
    {Object("e", 2, {"own"})}, {Object("e", Unassigned, {})},
    {Object("e", 1, {}), Object("below", t3, {})}, {Object("nodes", t3, {})},
    {Object("shr", 1, {"sgi", "perms"})} }

GrantsMC == {<<u2, 1>>}

Symmetry == Permutations(Procs)
=============================================================================
