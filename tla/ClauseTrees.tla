----------------------------- MODULE ClauseTrees -----------------------------
(***************************************************************************)
(* Clause trees as the request carries them, clauses within clauses, and   *)
(* the functions of services/db.go that recurse over them.  Module Queries *)
(* has the same trees as sequences, over which nothing needs to recurse;   *)
(* Flat goes from the one to the other, and SameAsNested says that the     *)
(* definitions of Queries mean what these do.                              *)
(***************************************************************************)
EXTENDS Queries, SequencesExt

(* A clause with its lists; hasAnd tells an empty and list from none.      *)
Nested(c, hasAnd, and, or) ==
  [top |-> [c EXCEPT !.hasAnd = hasAnd], and |-> and, or |-> or]

Single(c) == Nested(c, FALSE, <<>>, <<>>)

(* Tree t put into a list of the root of s.                                *)
Graft(s, list, t) ==
  s \o [i \in DOMAIN t |-> IF i = 1 THEN [t[i] EXCEPT !.up = 1, !.list = list]
                           ELSE [t[i] EXCEPT !.up = @ + Len(s)]]

RECURSIVE Flat(_)
Flat(c) ==
  LET ands == FoldLeft(LAMBDA s, x : Graft(s, "and", Flat(x)), <<c.top>>, c.and)
  IN FoldLeft(LAMBDA s, x : Graft(s, "or", Flat(x)), ands, c.or)

(* services.clauseNamesField.                                              *)
RECURSIVE NestedNamesField(_, _)
NestedNamesField(c, f) ==
  \/ ToLower(c.top.field) = f
  \/ \E i \in DOMAIN c.and : NestedNamesField(c.and[i], f)
  \/ \E i \in DOMAIN c.or : NestedNamesField(c.or[i], f)

(* services.validateGeoClauses.                                            *)
RECURSIVE NestedGeoValid(_)
NestedGeoValid(c) ==
  /\ c.top.geo # "none" =>
       c.top.geo = "good" /\ c.top.field = "" /\ c.top.op = "" /\ c.top.val = ""
  /\ \A i \in DOMAIN c.and : NestedGeoValid(c.and[i])
  /\ \A i \in DOMAIN c.or : NestedGeoValid(c.or[i])

(* services.constructQueryStringAndAddVars: the leaves in their order.     *)
RECURSIVE NestedLeaves(_)
NestedLeaves(c) ==
  LET subclauses == IF c.top.hasAnd THEN c.and ELSE c.or
  IN IF subclauses = <<>> THEN <<c.top>>
     ELSE FlattenSeq([i \in DOMAIN subclauses |-> NestedLeaves(subclauses[i])])

(* The leaves of a sequence in their order, without their places.          *)
LeafSeq(t) ==
  LET ls == SetToSortSeq(Leaves(t, 0), LAMBDA l, k : l.at < k.at)
  IN [i \in DOMAIN ls |-> [ls[i].clause EXCEPT !.up = 0, !.list = "and"]]

(* The recursive functions and the definitions of Queries agree on c.      *)
SameAsNested(c) ==
  /\ Flat(c) \in Tree
  /\ \A f \in {"p", "g"} : clauseNamesField(Flat(c), f) <=> NestedNamesField(c, f)
  /\ validateGeoClauses(Flat(c)) <=> NestedGeoValid(c)
  /\ LeafSeq(Flat(c)) = NestedLeaves(c)
=============================================================================
