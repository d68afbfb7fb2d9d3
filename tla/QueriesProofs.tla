---------------------------- MODULE QueriesProofs ----------------------------
(***************************************************************************)
(* Theorems about queries, for requests with clause trees of any size and  *)
(* shape, any number of nodes and groups and any page.                     *)
(***************************************************************************)
EXTENDS Queries, FiniteSetTheorems, WellFoundedInduction, TLAPS

(* The inductive invariant: what the request in progress knows at each of  *)
(* its steps.                                                              *)

(* The listings have no root query.                                        *)
BoundOK(j) == j.q.kind # "query" => j.q.rootQuery = Absent

(* The groups read are those granted, unless somebody shared meanwhile;    *)
(* the last step of a shared listing grants more.                          *)
GroupsOK(j, sgis) ==
  j.pc # "idle" /\ ~j.changed /\ (j.pc = "done" => j.q.kind # "shared") => j.sgis = sgis

(* What was compiled belongs to a request that passed the checks.          *)
CompiledOK(j) ==
  j.pc \in {"query", "answer", "done"} =>
    /\ checkQueryFields(j.q) /\ j.leaves = QueryLeaves(j.q)
    /\ j.authz = NeedsAuthzFilter(j.q) /\ j.root = RootMode(j.q)

(* The page is one of what the read filter admits.                         *)
PageOK(j) ==
  j.pc \in {"answer", "done"} =>
    /\ j.page = Page(j.q, Admitted(j, j.selected))
    /\ j.q.kind = "own" /\ j.root = "ids" => \A n \in j.selected : Owner[n] = Caller

(* The answer is what of the page may be read with the groups granted now, *)
(* those of the listed nodes among them.                                   *)
OutOK(j, sgis) ==
  j.pc = "done" =>
    /\ j.out = {n \in j.page : MayRead(n, sgis)}
    /\ j.q.kind = "shared" /\ ~j.q.sys =>
         \A n \in j.page : PermRead[n] /\ Owner[n] # Caller => Sgi[n] \in sgis

IInv ==
  /\ TypeOK
  /\ BoundOK(job) /\ GroupsOK(job, SgiAllowlist) /\ CompiledOK(job) /\ PageOK(job)
  /\ OutOK(job, SgiAllowlist)
-----------------------------------------------------------------------------
(* Least and greatest members.                                             *)
LEMMA LeastNumber ==
  ASSUME NEW S, S \subseteq Nat, S # {}
  PROVE  \E x \in S : \A y \in S : x <= y
<1>1. PICK x \in S : \A y \in S : ~(<<y, x>> \in OpToRel(<, Nat))
  BY NatLessThanWellFounded, WFMin, Zenon
<1>2. \A y \in S : ~(y < x)
  BY <1>1, Zenon DEF OpToRel
<1>3. ASSUME NEW y \in S PROVE x <= y
  <2>1. x \in Nat /\ y \in Nat
    OBVIOUS
  <2>2. ~(y < x)
    BY <1>2
  <2> QED BY <2>1, <2>2
<1> QED BY <1>3

LEMMA GreatestNumber ==
  ASSUME NEW S, S \subseteq Nat, S # {}, NEW b \in Nat, \A x \in S : x <= b
  PROVE  \E x \in S : \A y \in S : y <= x
<1> DEFINE T == {b - x : x \in S}
<1>1. T \subseteq Nat /\ T # {}
  <2>1. ASSUME NEW x \in S PROVE b - x \in Nat
    OBVIOUS
  <2> QED BY <2>1
<1>2. \A y \in S : b - y \in T
  OBVIOUS
<1>3. \A z \in T : \E x \in S : z = b - x
  OBVIOUS
<1> HIDE DEF T
<1>4. PICK z \in T : \A y \in T : z <= y
  BY <1>1, LeastNumber
<1>5. PICK x \in S : z = b - x
  BY <1>3
<1>6. ASSUME NEW y \in S PROVE y <= x
  BY <1>2, <1>4, <1>5
<1> QED BY <1>6

LEMMA NodesFinite == ASSUME NEW S \in SUBSET Nodes PROVE IsFiniteSet(S) /\ Cardinality(S) \in Nat
<1>1. IsFiniteSet(Nodes)
  BY ConstantsOK, FS_Interval DEF Nodes
<1> QED BY <1>1, FS_Subset, FS_CardinalityType
-----------------------------------------------------------------------------
(* Pages.                                                                  *)

(* Places are numbers, and no two nodes share one.                         *)
LEMMA Places ==
  ASSUME NEW q \in Request
  PROVE  /\ \A n \in Nodes : Place(q, n) \in Nat /\ Place(q, n) <= NumNodes
         /\ \A n, k \in Nodes : Place(q, n) = Place(q, k) => n = k
<1>1. \A n \in Nodes : /\ n \in Nat /\ n <= NumNodes
                       /\ Rank[n] \in Nat /\ Rank[n] <= NumNodes
  BY ConstantsOK DEF Nodes
<1>2. \A n, k \in Nodes : Rank[n] = Rank[k] => n = k
  BY ConstantsOK
<1>3. NumNodes \in Nat
  BY ConstantsOK
<1>4. CASE renderField(q.orderBy) = ""
  <2>1. \A n \in Nodes : Place(q, n) = n
    BY <1>4 DEF Place
  <2> QED BY <2>1, <1>1
<1>5. CASE renderField(q.orderBy) # "" /\ q.orderDesc
  <2>1. \A n \in Nodes : Place(q, n) = NumNodes - Rank[n]
    BY <1>5 DEF Place
  <2>2. \A n, k \in Nodes : NumNodes - Rank[n] = NumNodes - Rank[k] => Rank[n] = Rank[k]
    BY <1>1, <1>3
  <2> QED BY <2>1, <2>2, <1>1, <1>2, <1>3
<1>6. CASE renderField(q.orderBy) # "" /\ ~q.orderDesc
  <2>1. \A n \in Nodes : Place(q, n) = Rank[n]
    BY <1>6 DEF Place
  <2> QED BY <2>1, <1>1, <1>2
<1> QED BY <1>4, <1>5, <1>6

(* A nonempty set of nodes has a first and a last.                         *)
LEMMA FirstAndLast ==
  ASSUME NEW q \in Request, NEW S \in SUBSET Nodes, S # {}
  PROVE  /\ \E x \in S : \A y \in S : Place(q, x) <= Place(q, y)
         /\ \E x \in S : \A y \in S : Place(q, y) <= Place(q, x)
<1> DEFINE T == {Place(q, x) : x \in S}
<1>1. T \subseteq Nat /\ T # {} /\ \A t \in T : t <= NumNodes
  BY Places
<1>2. NumNodes \in Nat /\ (\A t \in T : \E x \in S : t = Place(q, x)) /\ \A y \in S : Place(q, y) \in T
  BY ConstantsOK
<1> HIDE DEF T
<1>3. PICK l \in T : \A t \in T : l <= t
  BY <1>1, LeastNumber
<1>4. PICK g \in T : \A t \in T : t <= g
  BY <1>1, <1>2, GreatestNumber
<1> QED BY <1>2, <1>3, <1>4

LEMMA BeforeFinite ==
  ASSUME NEW q, NEW S \in SUBSET Nodes, NEW n
  PROVE  Before(q, S, n) \subseteq S /\ Cardinality(Before(q, S, n)) \in Nat
<1>1. Before(q, S, n) \subseteq S
  BY DEF Before
<1> QED BY <1>1, NodesFinite

(* No more than o nodes have fewer than o nodes before them.               *)
LEMMA Skipped ==
  ASSUME NEW q \in Request, NEW S \in SUBSET Nodes, NEW o \in Nat,
         NEW D, D = {n \in S : q.after < n /\ Cardinality(Before(q, S, n)) < o}
  PROVE  IsFiniteSet(D) /\ Cardinality(D) \in Nat /\ Cardinality(D) <= o
<1>1. D \subseteq S /\ D \in SUBSET Nodes
  OBVIOUS
<1>2. IsFiniteSet(D) /\ Cardinality(D) \in Nat
  BY <1>1, NodesFinite
<1>3. CASE D = {}
  BY <1>2, <1>3, FS_EmptySet
<1>4. CASE D # {}
  <2>1. PICK z \in D : \A y \in D : Place(q, y) <= Place(q, z)
    BY <1>1, <1>4, FirstAndLast
  <2> DEFINE B == Before(q, S, z)
  <2>2. D \subseteq B \union {z}
    <3> SUFFICES ASSUME NEW y \in D, y # z PROVE y \in B
      OBVIOUS
    <3>1. y \in S /\ q.after < y /\ Place(q, y) <= Place(q, z)
      BY <2>1
    <3>2. Place(q, y) \in Nat /\ Place(q, z) \in Nat /\ Place(q, y) # Place(q, z)
      BY <1>1, Places
    <3> QED BY <3>1, <3>2 DEF Before
  <2>3. B \subseteq S /\ Cardinality(B) \in Nat /\ IsFiniteSet(B) /\ z \notin B
    <3>1. Place(q, z) \in Nat
      BY <1>1, Places
    <3> QED BY <3>1, BeforeFinite, NodesFinite DEF Before
  <2>4. Cardinality(B) < o
    BY <2>1
  <2> HIDE DEF B
  <2>5. IsFiniteSet(B \union {z}) /\ Cardinality(B \union {z}) = Cardinality(B) + 1
    BY <2>3, FS_AddElement
  <2>6. Cardinality(D) <= Cardinality(B \union {z})
    BY <2>2, <2>5, FS_Subset
  <2> QED BY <1>2, <2>3, <2>4, <2>5, <2>6
<1> QED BY <1>2, <1>3, <1>4

(* A page with fewer nodes than its limit is the last: whatever of S is    *)
(* not on it is skipped.                                                   *)
LEMMA ShortPage ==
  ASSUME NEW q \in Request, NEW S \in SUBSET Nodes,
         Cardinality(Page(q, S)) < q.first,
         NEW n \in S, q.after < n
  PROVE  n \in Page(q, S) \/ Cardinality(Before(q, S, n)) < q.offset
<1> DEFINE P == Page(q, S)
           C(m) == Cardinality(Before(q, S, m))
           X == {m \in S : q.after < m /\ q.offset + q.first <= C(m)}
           D == {m \in S : q.after < m /\ C(m) < q.offset}
<1>1. (\A m : C(m) \in Nat) /\ q.offset \in Nat /\ q.first \in Nat
  BY BeforeFinite DEF Request
<1>2. P \subseteq S /\ IsFiniteSet(P) /\ Cardinality(P) \in Nat
  BY NodesFinite DEF Page
<1>3. IsFiniteSet(D) /\ Cardinality(D) \in Nat /\ Cardinality(D) <= q.offset
  BY <1>1, Skipped
<1>4. ASSUME X # {} PROVE FALSE
  <2>1. PICK x \in X : \A y \in X : Place(q, x) <= Place(q, y)
    BY <1>4, FirstAndLast
  <2> DEFINE B == Before(q, S, x)
  <2>2. B \subseteq P \union D
    <3> SUFFICES ASSUME NEW m \in B PROVE m \in P \/ m \in D
      OBVIOUS
    <3>1. m \in S /\ q.after < m /\ Place(q, m) < Place(q, x)
      BY DEF Before
    <3>2. m \notin X
      <4>1. Place(q, m) \in Nat /\ Place(q, x) \in Nat
        BY <3>1, Places
      <4> QED BY <2>1, <3>1, <4>1
    <3>3. C(m) \in Nat /\ ~(q.offset + q.first <= C(m))
      BY <1>1, <3>1, <3>2
    <3> QED BY <1>1, <3>1, <3>3 DEF Page
  <2>3. q.offset + q.first <= Cardinality(B) /\ Cardinality(B) \in Nat /\ IsFiniteSet(B)
    BY BeforeFinite, NodesFinite
  <2> HIDE DEF B, P, D
  <2>4. IsFiniteSet(P \union D)
        /\ Cardinality(P \union D) = Cardinality(P) + Cardinality(D) - Cardinality(P \intersect D)
    BY <1>2, <1>3, FS_Union
  <2>5. Cardinality(P \intersect D) \in Nat
    BY <1>2, FS_Intersection, FS_CardinalityType
  <2>6. Cardinality(B) <= Cardinality(P \union D)
    BY <2>2, <2>4, FS_Subset
  <2>7. Cardinality(P) < q.first
    BY DEF P
  <2> QED BY <1>1, <1>2, <1>3, <2>3, <2>4, <2>5, <2>6, <2>7
<1>5. C(n) \in Nat /\ ~(q.offset + q.first <= C(n))
  BY <1>1, <1>4
<1> QED BY <1>1, <1>5 DEF Page
-----------------------------------------------------------------------------
(* Clause trees and their leaves.                                          *)

LEMMA TreeFacts ==
  ASSUME NEW t \in Tree
  PROVE  Len(t) \in Nat /\ DOMAIN t = 1 .. Len(t) /\ \A i \in DOMAIN t : t[i] \in Clause
<1>1. t \in Seq(Clause)
  BY DEF Tree
<1> QED BY <1>1

LEMMA AbsentTree == Absent \in Tree /\ Len(Absent) = 0
BY DEF Tree, Absent

LEMMA DefaultTree ==
  /\ Leaf("m", "gt", Epoch) \in Clause
  /\ <<Leaf("m", "gt", Epoch)>> \in Tree
  /\ \A i \in DOMAIN <<Leaf("m", "gt", Epoch)>> : <<Leaf("m", "gt", Epoch)>>[i] = Leaf("m", "gt", Epoch)
<1>1. Leaf("m", "gt", Epoch) \in Clause
  BY ConstantsOK DEF Leaf, Clause
<1>2. Leaf("m", "gt", Epoch).up = 0
  BY DEF Leaf
<1> QED BY <1>1, <1>2 DEF Tree

LEMMA LeavesFrom ==
  ASSUME NEW t, NEW n, NEW l \in Leaves(t, n)
  PROVE  \E i \in DOMAIN t : l = [at |-> n + i, clause |-> t[i]]
<1>1. LeafPlaces(t) \subseteq DOMAIN t
  BY DEF LeafPlaces
<1> QED BY <1>1 DEF Leaves

(* The leaves of a tree are placed clauses of it.                          *)
LEMMA LeavesTyped ==
  ASSUME NEW t \in Tree, NEW n \in Nat, NEW l \in Leaves(t, n)
  PROVE  /\ l \in Placed /\ l.at <= n + Len(t)
         /\ \E i \in DOMAIN t : l.clause = t[i]
<1>1. PICK i \in DOMAIN t : l = [at |-> n + i, clause |-> t[i]]
  BY LeavesFrom
<1>2. Len(t) \in Nat /\ i \in 1 .. Len(t) /\ t[i] \in Clause
  BY TreeFacts
<1>3. n + i \in Nat /\ n + i <= n + Len(t)
  BY <1>2
<1> QED BY <1>1, <1>2, <1>3 DEF Placed

(* Every leaf of a compiled query is a clause of the request, or the one   *)
(* that stands for a missing filter.                                       *)
FromRequest(l, q) ==
  \/ \E i \in DOMAIN q.filters : l.clause = q.filters[i]
  \/ \E i \in DOMAIN q.rootQuery : l.clause = q.rootQuery[i]
  \/ l.clause = Leaf("m", "gt", Epoch)

LEMMA RequestTrees ==
  ASSUME NEW q \in Request
  PROVE  q.filters \in Tree /\ q.rootQuery \in Tree /\ Filters(q) \in Tree
<1>1. q.filters \in Tree /\ q.rootQuery \in Tree
  BY DEF Request
<1> QED BY <1>1, DefaultTree DEF Filters

LEMMA QueryLeavesTyped ==
  ASSUME NEW q \in Request, NEW l \in QueryLeaves(q)
  PROVE  /\ l \in Placed /\ FromRequest(l, q)
         /\ l.at <= Len(q.rootQuery) + Len(Filters(q))
<1> DEFINE root == IF RootMode(q) = "query" THEN q.rootQuery ELSE Absent
<1>1. root \in Tree /\ Len(root) \in Nat /\ Filters(q) \in Tree /\ Len(Filters(q)) \in Nat
      /\ Len(q.rootQuery) \in Nat /\ Len(root) <= Len(q.rootQuery)
  BY RequestTrees, AbsentTree, TreeFacts
<1>2. CASE l \in Leaves(root, 0)
  <2>1. l \in Placed /\ l.at <= 0 + Len(root) /\ \E i \in DOMAIN root : l.clause = root[i]
    BY <1>1, <1>2, LeavesTyped
  <2>2. l.at \in Nat
    BY <2>1 DEF Placed
  <2>3. FromRequest(l, q)
    <3>1. DOMAIN Absent = {}
      BY DEF Absent
    <3> QED BY <2>1, <3>1 DEF FromRequest
  <2> QED BY <1>1, <2>1, <2>2, <2>3
<1>3. CASE l \in Leaves(Filters(q), Len(root))
  <2>1. l \in Placed /\ l.at <= Len(root) + Len(Filters(q))
        /\ \E i \in DOMAIN Filters(q) : l.clause = Filters(q)[i]
    BY <1>1, <1>3, LeavesTyped
  <2>2. l.at \in Nat
    BY <2>1 DEF Placed
  <2>3. FromRequest(l, q)
    BY <2>1, DefaultTree DEF FromRequest, Filters
  <2> QED BY <1>1, <2>1, <2>2, <2>3
<1> QED BY <1>2, <1>3 DEF QueryLeaves

(* A variable holds the value of one of the leaves that bind it: the last  *)
(* one exists.                                                             *)
LEMMA QueryVarValue ==
  ASSUME NEW q \in Request, NEW x, Binding(QueryLeaves(q), x) # {}
  PROVE  \E k \in Binding(QueryLeaves(q), x) : QueryVar(QueryLeaves(q), x) = Value(k.clause)
<1> DEFINE B == Binding(QueryLeaves(q), x)
           b == Len(q.rootQuery) + Len(Filters(q))
           A == {l.at : l \in B}
<1>1. \A l \in B : l.at \in Nat /\ l.at <= b
  <2>1. \A l \in B : l \in Placed /\ l.at <= b
    BY QueryLeavesTyped DEF Binding
  <2> QED BY <2>1 DEF Placed
<1>2. b \in Nat
  BY RequestTrees, TreeFacts
<1>3. A \subseteq Nat /\ A # {} /\ \A y \in A : y <= b
  BY <1>1
<1>4. PICK y \in A : \A z \in A : z <= y
  BY <1>2, <1>3, GreatestNumber
<1>5. \E l \in B : \A k \in B : k.at <= l.at
  BY <1>4
<1> DEFINE last == CHOOSE l \in B : \A k \in B : k.at <= l.at
<1>6. last \in B
  BY <1>5
<1> QED BY <1>6 DEF QueryVar
-----------------------------------------------------------------------------
(* The invariant is inductive.                                             *)

LEMMA IdleJobOK ==
  /\ IdleJob \in Job /\ IdleJob.pc = "idle" /\ IdleJob.limit = 0 /\ IdleJob.q.kind = "query"
  /\ NoRequest \in Request
<1>1. NoRequest \in Request
  BY ConstantsOK, AbsentTree DEF NoRequest, Request
<1>2. IdleJob.q.kind = "query"
  BY DEF IdleJob, NoRequest
<1> QED BY <1>1, <1>2 DEF IdleJob, Job

(* Nothing is known of a request when there is none.                       *)
LEMMA IdleInv ==
  ASSUME TypeOK, job' = IdleJob, SgiAllowlist' \subseteq Sgis
  PROVE  IInv'
<1>1. TypeOK'
  BY IdleJobOK DEF TypeOK, MAX_SIMILAR_TOPK, MAX_QUERY_RECURSE_DEPTH
<1> QED BY <1>1, IdleJobOK DEF IInv, BoundOK, GroupsOK, CompiledOK, PageOK, OutOK

LEMMA BindTyped ==
  ASSUME NEW q \in Request
  PROVE  Bind(q) \in Request /\ (Bind(q).kind # "query" => Bind(q).rootQuery = Absent)
BY AbsentTree DEF Bind, Request

LEMMA RootModeTyped ==
  ASSUME NEW q
  PROVE  /\ RootMode(q) \in {"similar", "geo", "query", "ids"}
         /\ q.rootQuery = Absent => RootMode(q) # "query"
BY DEF RootMode

(* Clamping: the limit of a compiled query is one the server allows.       *)
LEMMA RootLimitClamped ==
  ASSUME NEW q \in Request
  PROVE  /\ RootLimit(q) \in Nat
         /\ RootLimit(q) <= IF RootMode(q) = "similar" THEN MAX_SIMILAR_TOPK
                            ELSE MAX_QUERY_RECURSE_DEPTH
<1>1. q.topK \in Nat /\ q.depth \in Nat
  BY DEF Request
<1> QED BY <1>1 DEF RootLimit, DEFAULT_SIMILAR_TOPK, MAX_SIMILAR_TOPK, MAX_QUERY_RECURSE_DEPTH

LEMMA PostNodesInv ==
  ASSUME IInv, NEW q \in Requests, PostNodes(q)
  PROVE  IInv'
<1>1. q \in Request /\ Bind(q) \in Request
  BY ConstantsOK, BindTyped
<1>2. job' = [IdleJob EXCEPT !.pc = "compile", !.q = Bind(q), !.sgis = SgiAllowlist]
      /\ SgiAllowlist' = SgiAllowlist /\ SgiAllowlist \subseteq Sgis
  BY DEF PostNodes, IInv, TypeOK
<1>3. job' \in Job /\ job'.pc = "compile" /\ job'.q = Bind(q) /\ job'.sgis = SgiAllowlist
      /\ job'.limit = 0
  BY <1>1, <1>2, IdleJobOK DEF Job
<1>4. TypeOK'
  BY <1>2, <1>3 DEF TypeOK, MAX_SIMILAR_TOPK, MAX_QUERY_RECURSE_DEPTH
<1>5. BoundOK(job')
  BY <1>1, <1>3, BindTyped DEF BoundOK
<1> QED BY <1>2, <1>3, <1>4, <1>5 DEF IInv, BoundOK, GroupsOK, CompiledOK, PageOK, OutOK

LEMMA CompileInv ==
  ASSUME IInv, Compile
  PROVE  IInv'
<1> DEFINE q == job.q
           new == [job EXCEPT !.pc = "query", !.leaves = QueryLeaves(q),
                     !.authz = NeedsAuthzFilter(q),
                     !.root = RootMode(q), !.limit = RootLimit(q)]
<1>1. job \in Job /\ q \in Request /\ SgiAllowlist' = SgiAllowlist /\ SgiAllowlist \subseteq Sgis
      /\ TypeOK /\ job.pc = "compile"
  BY DEF IInv, TypeOK, Job, Compile
<1>2. CASE checkQueryFields(q) /\ RootValid(q)
  <2>1. job' = new
    BY <1>2 DEF Compile
  <2>2. QueryLeaves(q) \subseteq Placed
    BY <1>1, QueryLeavesTyped
  <2>3. NeedsAuthzFilter(q) \in BOOLEAN
    BY DEF NeedsAuthzFilter
  <2>4. RootMode(q) \in {"none", "similar", "geo", "query", "ids"} /\ RootLimit(q) \in Nat
    BY <1>1, RootModeTyped, RootLimitClamped
  <2>5. new \in Job
    BY <1>1, <2>2, <2>3, <2>4 DEF Job
  <2>6. /\ new.pc = "query" /\ new.q = q /\ new.leaves = QueryLeaves(q)
        /\ new.authz = NeedsAuthzFilter(q) /\ new.root = RootMode(q) /\ new.limit = RootLimit(q)
        /\ new.sgis = job.sgis /\ new.changed = job.changed
    BY <1>1 DEF Job
  <2> HIDE DEF new
  <2>7. TypeOK'
    BY <1>1, <2>1, <2>5, <2>6, RootLimitClamped DEF TypeOK
  <2>8. BoundOK(job') /\ GroupsOK(job', SgiAllowlist')
    BY <1>1, <2>1, <2>6 DEF IInv, BoundOK, GroupsOK
  <2>9. CompiledOK(job')
    BY <1>2, <2>1, <2>6 DEF CompiledOK
  <2> QED BY <2>1, <2>6, <2>7, <2>8, <2>9 DEF IInv, BoundOK, GroupsOK, CompiledOK, PageOK, OutOK
<1>3. CASE ~(checkQueryFields(q) /\ RootValid(q))
  <2>1. job' = IdleJob
    BY <1>3 DEF Compile
  <2> QED BY <1>1, <2>1, IdleInv
<1> QED BY <1>2, <1>3

LEMMA RunQueryInv ==
  ASSUME IInv, RunQuery
  PROVE  IInv'
<1>1. job \in Job /\ SgiAllowlist' = SgiAllowlist /\ SgiAllowlist \subseteq Sgis /\ job.pc = "query"
  BY DEF IInv, TypeOK, RunQuery
<1>2. PICK found \in RootNodes(job.q), matching \in SUBSET Nodes :
        job' = [job EXCEPT !.pc = "answer", !.selected = found \intersect matching,
                  !.page = Page(job.q, Admitted(job, found \intersect matching))]
  BY DEF RunQuery
<1> DEFINE selected == found \intersect matching
           page == Page(job.q, Admitted(job, selected))
<1>3. selected \subseteq Nodes /\ page \subseteq Nodes
  BY DEF Page, Admitted
<1>4. /\ job'.pc = "answer" /\ job'.q = job.q /\ job'.leaves = job.leaves
      /\ job'.authz = job.authz /\ job'.root = job.root /\ job'.limit = job.limit
      /\ job'.sgis = job.sgis /\ job'.changed = job.changed
      /\ job'.selected = selected /\ job'.page = page
  BY <1>1, <1>2 DEF Job
<1>5. job' \in Job
  BY <1>1, <1>2, <1>3 DEF Job
<1>6. job.q.kind = "own" /\ job.root = "ids" => \A n \in selected : Owner[n] = Caller
  BY DEF RootNodes
<1>7. Admitted(job', selected) = Admitted(job, selected)
  BY <1>4 DEF Admitted
<1> HIDE DEF selected, page
<1>8. TypeOK'
  BY <1>1, <1>4, <1>5 DEF IInv, TypeOK
<1>9. BoundOK(job') /\ GroupsOK(job', SgiAllowlist') /\ CompiledOK(job')
  BY <1>1, <1>4 DEF IInv, BoundOK, GroupsOK, CompiledOK
<1>10. PageOK(job')
  BY <1>4, <1>6, <1>7 DEF PageOK, page
<1> QED BY <1>4, <1>8, <1>9, <1>10 DEF IInv, BoundOK, GroupsOK, CompiledOK, PageOK, OutOK

LEMMA AnswerInv ==
  ASSUME IInv, Answer
  PROVE  IInv'
<1> DEFINE out == {n \in job.page : MayRead(n, Primed)}
<1>1. job \in Job /\ SgiAllowlist \subseteq Sgis /\ job.pc = "answer" /\ job.page \subseteq Nodes
      /\ SgiAllowlist' = Primed /\ job' = [job EXCEPT !.pc = "done", !.out = out]
  BY DEF IInv, TypeOK, Answer, Job
<1>2. Primed \subseteq Sgis
  <2>1. \A n \in job.page : Sgi[n] \in Sgis
    BY <1>1 DEF Sgis
  <2> QED BY <1>1, <2>1 DEF Primed
<1>3. out \subseteq Nodes
  BY <1>1
<1>4. /\ job'.pc = "done" /\ job'.q = job.q /\ job'.leaves = job.leaves
      /\ job'.authz = job.authz /\ job'.root = job.root /\ job'.limit = job.limit
      /\ job'.sgis = job.sgis /\ job'.changed = job.changed
      /\ job'.selected = job.selected /\ job'.page = job.page /\ job'.out = out
  BY <1>1 DEF Job
<1>5. job' \in Job
  BY <1>1, <1>3 DEF Job
<1>6. TypeOK'
  BY <1>1, <1>2, <1>4, <1>5 DEF IInv, TypeOK
<1>7. BoundOK(job') /\ CompiledOK(job')
  BY <1>1, <1>4 DEF IInv, BoundOK, CompiledOK
<1>8. GroupsOK(job', SgiAllowlist')
  BY <1>1, <1>4 DEF IInv, GroupsOK, Primed
<1>9. PageOK(job')
  BY <1>1, <1>4 DEF IInv, PageOK, Admitted
<1>10. OutOK(job, SgiAllowlist)'
  <2>1. job'.out = {n \in job.page : Owner[n] = Caller \/ job.q.sys \/ (Sgi[n] \in SgiAllowlist' /\ PermRead[n])}
    BY <1>1, <1>4 DEF MayRead
  <2>2. job.q.kind = "shared" /\ ~job.q.sys =>
          \A n \in job.page : PermRead[n] /\ Owner[n] # Caller => Sgi[n] \in SgiAllowlist'
    BY <1>1 DEF Primed
  <2> QED BY <1>4, <2>1, <2>2 DEF OutOK, MayRead
<1> QED BY <1>6, <1>7, <1>8, <1>9, <1>10 DEF IInv, BoundOK, GroupsOK, CompiledOK, PageOK

LEMMA ReshareInv ==
  ASSUME IInv, NEW sgis \in SUBSET Sgis, Reshare(sgis)
  PROVE  IInv'
<1>1. job \in Job /\ job.pc # "done" /\ SgiAllowlist' \subseteq Sgis
      /\ job' = IF job.pc = "idle" THEN job ELSE [job EXCEPT !.changed = TRUE]
  BY DEF IInv, TypeOK, Reshare
<1>2. /\ job'.pc = job.pc /\ job'.q = job.q /\ job'.leaves = job.leaves
      /\ job'.authz = job.authz /\ job'.root = job.root /\ job'.limit = job.limit
      /\ job'.sgis = job.sgis /\ (job.pc # "idle" => job'.changed = TRUE)
      /\ job'.selected = job.selected /\ job'.page = job.page
  BY <1>1 DEF Job
<1>3. job' \in Job
  BY <1>1 DEF Job
<1>4. TypeOK'
  BY <1>1, <1>2, <1>3 DEF IInv, TypeOK
<1>5. BoundOK(job') /\ CompiledOK(job') /\ GroupsOK(job', SgiAllowlist')
  BY <1>1, <1>2 DEF IInv, BoundOK, GroupsOK, CompiledOK
<1>6. PageOK(job')
  BY <1>1, <1>2 DEF IInv, PageOK, Admitted
<1> QED BY <1>1, <1>2, <1>4, <1>5, <1>6 DEF IInv, BoundOK, GroupsOK, CompiledOK, PageOK, OutOK

LEMMA StutterInv ==
  ASSUME IInv, UNCHANGED vars
  PROVE  IInv'
<1>1. job' = job /\ SgiAllowlist' = SgiAllowlist
  BY DEF vars
<1> QED BY <1>1 DEF IInv, TypeOK, BoundOK, GroupsOK, CompiledOK, PageOK, OutOK, MayRead

LEMMA Inductive == Spec => []IInv
<1>1. Init => IInv
  <2> SUFFICES ASSUME Init PROVE IInv
    OBVIOUS
  <2>1. TypeOK
    BY IdleJobOK DEF Init, TypeOK, MAX_SIMILAR_TOPK, MAX_QUERY_RECURSE_DEPTH
  <2> QED BY <2>1, IdleJobOK DEF Init, IInv, BoundOK, GroupsOK, CompiledOK, PageOK, OutOK
<1>2. IInv /\ [Next]_vars => IInv'
  <2> SUFFICES ASSUME IInv, [Next]_vars PROVE IInv'
    OBVIOUS
  <2>1. ASSUME NEW q \in Requests, PostNodes(q) PROVE IInv'
    BY <2>1, PostNodesInv
  <2>2. CASE Compile
    BY <2>2, CompileInv
  <2>3. CASE RunQuery
    BY <2>3, RunQueryInv
  <2>4. CASE QueryFails \/ Finish
    BY <2>4, IdleInv DEF QueryFails, Finish, IInv, TypeOK
  <2>5. CASE Answer
    BY <2>5, AnswerInv
  <2>6. ASSUME NEW sgis \in SUBSET Sgis, Reshare(sgis) PROVE IInv'
    BY <2>6, ReshareInv
  <2>7. CASE UNCHANGED vars
    BY <2>7, StutterInv
  <2> QED BY <2>1, <2>2, <2>3, <2>4, <2>5, <2>6, <2>7 DEF Next
<1> QED BY <1>1, <1>2, PTL DEF Spec
-----------------------------------------------------------------------------
(* The theorems.                                                           *)

(* Types, and the clamp: whatever the client asks for, no query that       *)
(* services.QueryWithOptions compiles has more levels or neighbours than   *)
(* MAX_QUERY_RECURSE_DEPTH and MAX_SIMILAR_TOPK.                           *)
THEOREM TypeCorrect == Spec => []TypeOK
<1>1. IInv => TypeOK
  BY DEF IInv
<1> QED BY <1>1, Inductive, PTL

(* A leaf of a compiled query, of a tree of any size and shape, is bound   *)
(* to its own value unless a text search has the very same value           *)
(* (constructQueryStringAndAddVars names a variable after the value).      *)
THEOREM ValuesKept == Spec => []LeavesKeepTheirValues
<1>1. ASSUME IInv PROVE LeavesKeepTheirValues
  <2> SUFFICES ASSUME job.pc = "query", NEW l \in job.leaves, l.clause.geo = "none",
                      QueryVar(job.leaves, VarName(l.clause)) # Value(l.clause)
               PROVE  \E k \in job.leaves :
                        /\ k.clause.geo = "none" /\ Clash(l.clause, k.clause)
                        /\ renderOp(l.clause.op) = "has" \/ renderOp(k.clause.op) = "has"
    BY DEF LeavesKeepTheirValues
  <2>1. job.q \in Request /\ job.leaves = QueryLeaves(job.q)
    BY <1>1 DEF IInv, TypeOK, Job, CompiledOK
  <2> DEFINE x == VarName(l.clause)
  <2>2. l \in Binding(job.leaves, x)
    BY DEF Binding
  <2>3. PICK k \in Binding(job.leaves, x) : QueryVar(job.leaves, x) = Value(k.clause)
    BY <2>1, <2>2, QueryVarValue
  <2>4. k \in job.leaves /\ k.clause.geo = "none" /\ RawValue(l.clause) = RawValue(k.clause)
    BY DEF Binding, VarName
  <2>5. Value(l.clause) # Value(k.clause)
    BY <2>3
  <2>6. renderOp(l.clause.op) = "has" \/ renderOp(k.clause.op) = "has"
    BY <2>4, <2>5 DEF Value
  <2> QED BY <2>4, <2>5, <2>6 DEF Clash
<1> QED BY <1>1, Inductive, PTL

(* A field that checkQueryFields bars is in no clause of the request, as   *)
(* the compiler renders it.                                                *)
LEMMA BarredNotRendered ==
  ASSUME NEW t, NEW f \in {"p", "g"}, ~clauseNamesField(t, f), NEW i \in DOMAIN t
  PROVE  renderField(t[i].field) # f
<1>1. ToLower(t[i].field) # f
  BY DEF clauseNamesField
<1> QED BY <1>1 DEF renderField

(* However a client spells a barred predicate and wherever in a tree of    *)
(* any size it puts it, no query that reaches the database filters or      *)
(* orders by it, and no geo leaf is unvalidated: checkQueryFields looks at *)
(* every clause, the compiler only at some.                                *)
THEOREM FieldsChecked == Spec => []CompiledFieldsChecked
<1>1. ASSUME IInv PROVE CompiledFieldsChecked
  <2> DEFINE q == job.q
             barred == IF q.sys THEN {"g"} ELSE {"p", "g"}
  <2> SUFFICES ASSUME job.pc = "query"
               PROVE  /\ \A l \in job.leaves :
                           IF l.clause.geo = "none" THEN renderField(l.clause.field) \notin barred
                           ELSE l.clause.geo = "good"
                      /\ renderField(q.orderBy) \notin barred
    BY DEF CompiledFieldsChecked
  <2>1. q \in Request /\ checkQueryFields(q) /\ job.leaves = QueryLeaves(q)
    BY <1>1 DEF IInv, TypeOK, Job, CompiledOK
  <2>2. \A f \in barred : f \in {"p", "g"} /\ ~queryNamesField(q, f)
    BY <2>1 DEF checkQueryFields
  <2> HIDE DEF barred
  <2>3. renderField(q.orderBy) \notin barred
    BY <2>2 DEF queryNamesField, renderField
  <2>4. ASSUME NEW l \in job.leaves, l.clause.geo = "none"
        PROVE  renderField(l.clause.field) \notin barred
    <3>1. FromRequest(l, q)
      BY <2>1, QueryLeavesTyped
    <3>2. SUFFICES ASSUME NEW f \in barred PROVE renderField(l.clause.field) # f
      OBVIOUS
    <3>3. f \in {"p", "g"} /\ ~clauseNamesField(q.filters, f) /\ ~clauseNamesField(q.rootQuery, f)
      BY <2>2 DEF queryNamesField
    <3>4. renderField(Leaf("m", "gt", Epoch).field) = "m"
      BY DEF Leaf, renderField, ToLower, allowedFields
    <3> QED BY <3>1, <3>3, <3>4, BarredNotRendered DEF FromRequest
  <2>5. ASSUME NEW l \in job.leaves, l.clause.geo # "none"
        PROVE  l.clause.geo = "good"
    <3>1. FromRequest(l, q)
      BY <2>1, QueryLeavesTyped
    <3>2. Leaf("m", "gt", Epoch).geo = "none"
      BY DEF Leaf
    <3> QED BY <2>1, <2>5, <3>1, <3>2 DEF FromRequest, checkQueryFields, validateGeoClauses
  <2> QED BY <2>3, <2>4, <2>5
<1> QED BY <1>1, Inductive, PTL

(* Where the read filter of the query and the one on the answer agree.     *)
LEMMA FiltersAgree ==
  ASSUME IInv, job.pc = "done", ~job.changed,
         job.q.kind = "query" \/ (job.q.kind = "own" /\ job.root = "ids")
  PROVE  /\ Readable(job, SgiAllowlist) = Admitted(job, job.selected)
         /\ job.out = job.page
<1>1. /\ job.sgis = SgiAllowlist /\ job.authz = NeedsAuthzFilter(job.q)
      /\ job.page = Page(job.q, Admitted(job, job.selected))
      /\ job.out = {n \in job.page : MayRead(n, SgiAllowlist)}
  BY DEF IInv, GroupsOK, CompiledOK, PageOK, OutOK
<1>2. job.q.kind = "own" => \A n \in job.selected : Owner[n] = Caller
  BY DEF IInv, PageOK
<1>3. Readable(job, SgiAllowlist) = Admitted(job, job.selected)
  BY <1>1, <1>2 DEF Readable, Admitted, MayRead, NeedsAuthzFilter, PassesFilter
<1>4. \A n \in job.page : n \in Readable(job, SgiAllowlist)
  BY <1>1, <1>3 DEF Page
<1> QED BY <1>1, <1>3, <1>4 DEF Readable

(* A short page means the end of the results (docs/frontend-guide.md:603), *)
(* for any database, any page and any groups: the page is taken after the  *)
(* read filter, and packing the answer drops nothing of it.                *)
THEOREM ShortPageIsLast == Spec => []ShortPageMeansEnd
<1>1. ASSUME IInv PROVE ShortPageMeansEnd
  <2> SUFFICES ASSUME job.pc = "done", ~job.changed, Cardinality(job.out) < job.q.first,
                      job.q.kind = "query" \/ (job.q.kind = "own" /\ job.root = "ids"),
                      NEW n \in Readable(job, SgiAllowlist), job.q.after < n
               PROVE  \/ n \in job.out
                      \/ Cardinality(Before(job.q, Readable(job, SgiAllowlist), n)) < job.q.offset
    BY DEF ShortPageMeansEnd
  <2> DEFINE S == Readable(job, SgiAllowlist)
  <2>1. S = Admitted(job, job.selected) /\ job.out = job.page
    BY <1>1, FiltersAgree
  <2>2. job.page = Page(job.q, S)
    BY <1>1, <2>1 DEF IInv, PageOK
  <2>3. job.q \in Request /\ job.selected \subseteq Nodes
    BY <1>1 DEF IInv, TypeOK, Job
  <2>4. S \in SUBSET Nodes
    BY <2>3 DEF Readable
  <2> HIDE DEF S
  <2> QED BY <2>1, <2>2, <2>3, <2>4, ShortPage DEF S
<1> QED BY <1>1, Inductive, PTL

(* AuthzDataPack thins a page out in three cases only: a grant changed     *)
(* meanwhile, a shared listing with a node whose r is false, a search      *)
(* in the shape of a listing, which gets no read filter.                   *)
THEOREM PagesKept == Spec => []PagesArriveWhole
<1>1. ASSUME IInv PROVE PagesArriveWhole
  <2> SUFFICES ASSUME job.pc = "done", ~job.changed,
                      ~(job.q.kind = "shared" /\ \E n \in job.page : ~PermRead[n]),
                      ~(job.q.kind # "query" /\ job.root \in {"similar", "geo"})
               PROVE  job.out = job.page
    BY DEF PagesArriveWhole
  <2>1. job.q.kind \in {"query", "own", "shared"} /\ job.root = RootMode(job.q)
        /\ (job.q.kind # "query" => job.q.rootQuery = Absent)
    BY <1>1 DEF IInv, TypeOK, Job, Request, CompiledOK, BoundOK
  <2>2. CASE job.q.kind = "query"
    BY <1>1, <2>2, FiltersAgree
  <2>3. CASE job.q.kind = "own"
    <3>1. job.root = "ids"
      BY <2>1, <2>3, RootModeTyped
    <3> QED BY <1>1, <2>3, <3>1, FiltersAgree
  <2>4. CASE job.q.kind = "shared"
    BY <1>1, <2>4 DEF IInv, OutOK, MayRead
  <2> QED BY <2>1, <2>2, <2>3, <2>4
<1> QED BY <1>1, Inductive, PTL
=============================================================================
