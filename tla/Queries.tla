------------------------------- MODULE Queries -------------------------------
(***************************************************************************)
(* A query from request to answer: POST graph/nodes and POST               *)
(* user/nodes/own and /shared (api/graph.go, api/user.go), the checks and  *)
(* the compiler of services.QueryWithOptions, the page Dgraph returns, and *)
(* the packing of the answer (responses/cogged.go).                        *)
(*                                                                         *)
(* The compiler turns a tree of clauses into a filter whose values are     *)
(* query variables; here a compiled query is the set of its leaves, each   *)
(* with its place in the order of compilation, and the limits of its root. *)
(* What a filter matches in the database is left open: any set of nodes.   *)
(* Nodes are numbered in the order of their uids.                          *)
(***************************************************************************)
EXTENDS Naturals, Sequences, FiniteSets

CONSTANTS
  NumNodes,   \* nodes 1 .. NumNodes
  Caller,     \* the user that asks
  Owner,      \* node -> its owner
  Sgi,        \* node -> its group
  PermRead,   \* node -> its r predicate (a listing that meets a node without one
              \*         panics: module Sharing)
  Rank,       \* node -> its place among the nodes ordered by a predicate
  Shr,        \* the nodes the caller's shr edges reach
  TrimSpace,  \* value -> the value without surrounding blanks
  LongVals,   \* the values that are longer than two characters
  Text,       \* the strings a request may carry
  Requests    \* bound: the requests that are tried

Nodes == 1 .. NumNodes
Sgis == {Sgi[n] : n \in Nodes}
Epoch == "1970"
MAX_QUERY_RECURSE_DEPTH == 20
DEFAULT_SIMILAR_TOPK == 10
MAX_SIMILAR_TOPK == 1000

(* Predicates a clause may name, as a client may write them.               *)
allowedFields == {"s1", "m", "p", "g"}
allowedOps == {"has", "eq", "gt"}

(* A tree of clauses is the sequence of its clauses, each before those in  *)
(* its lists; up is the place of the clause whose list a clause is in (0   *)
(* for the root) and list which of the two lists that is; hasAnd says that *)
(* there is an and list, empty or not (an empty or list is like none).  No *)
(* tree at all is the empty sequence.                                      *)
Clause == [up : Nat, list : {"and", "or"}, hasAnd : BOOLEAN, field : Text,
           op : Text, val : Text, geo : {"none", "good", "bad"}]

Absent == <<>>

Tree ==
  {t \in Seq(Clause) : \A i \in DOMAIN t :
     IF i = 1 THEN t[i].up = 0 ELSE t[i].up \in 1 .. (i - 1)}

Leaf(f, o, v) == [up |-> 0, list |-> "and", hasAnd |-> FALSE,
                  field |-> f, op |-> o, val |-> v, geo |-> "none"]

(* A request: which listing it is, the role of the caller, the blocks that *)
(* choose the root, how deep to traverse, the filter, order and page.  A   *)
(* count of 0 stands for a field that is absent.                           *)
Request == [kind : {"query", "own", "shared"}, sys : BOOLEAN,
            similar : {"none", "good", "bad"}, topK : Nat, geo : {"none", "good", "bad"},
            rootQuery : Tree, rootIDs : BOOLEAN, depth : Nat, filters : Tree,
            orderBy : Text, orderDesc : BOOLEAN, first : Nat, offset : Nat, after : Nat]

NoRequest == [kind |-> "query", sys |-> FALSE, similar |-> "none", topK |-> 0,
              geo |-> "none", rootQuery |-> Absent, rootIDs |-> TRUE, depth |-> 1,
              filters |-> Absent, orderBy |-> "none", orderDesc |-> FALSE, first |-> 0,
              offset |-> 0, after |-> 0]

ASSUME ConstantsOK ==
  /\ NumNodes \in Nat
  /\ PermRead \in [Nodes -> BOOLEAN] /\ Shr \subseteq Nodes
  /\ Rank \in [Nodes -> Nodes] /\ \A n, k \in Nodes : Rank[n] = Rank[k] => n = k
  /\ {"m", "gt", Epoch, "none"} \subseteq Text
  /\ Requests \subseteq Request

VARIABLES
  SgiAllowlist,  \* session manager: the groups granted to the caller
  job            \* the request in progress

vars == <<SgiAllowlist, job>>

(* The request, the groups read for it, what was compiled, the page the    *)
(* query returned, the answer, and (observer's notes) the nodes that the   *)
(* root and the filter select and whether the allowlist has changed since  *)
(* the groups were read.                                                   *)
Placed == [at : Nat, clause : Clause]

Job == [pc : {"idle", "compile", "query", "answer", "done"}, q : Request,
        sgis : SUBSET Sgis, leaves : SUBSET Placed, authz : BOOLEAN,
        root : {"none", "similar", "geo", "query", "ids"}, limit : Nat,
        page : SUBSET Nodes, out : SUBSET Nodes, selected : SUBSET Nodes,
        changed : BOOLEAN]

IdleJob == [pc |-> "idle", q |-> NoRequest, sgis |-> {}, leaves |-> {}, authz |-> FALSE,
            root |-> "none", limit |-> 0, page |-> {}, out |-> {}, selected |-> {},
            changed |-> FALSE]

Init == SgiAllowlist \in SUBSET Sgis /\ job = IdleJob
-----------------------------------------------------------------------------
(* The checks before anything is compiled.                                 *)

(* strings.ToLower, on the capitals that are tried.                        *)
ToLower(f) ==
  CASE f = "P" -> "p" [] f = "G" -> "g" [] f = "EQ" -> "eq" [] OTHER -> f

(* services.clauseNamesField: every clause of the tree, compiled or not.   *)
(* (strings.EqualFold and strings.ToLower agree on p and g.)               *)
clauseNamesField(t, f) == \E i \in DOMAIN t : ToLower(t[i].field) = f

(* A variant that wants the case to agree.                                 *)
queryNamesFieldExactly(q, f) ==
  \/ \E i \in DOMAIN q.filters : q.filters[i].field = f
  \/ \E i \in DOMAIN q.rootQuery : q.rootQuery[i].field = f
  \/ q.orderBy = f

queryNamesField(q, f) ==
  \/ clauseNamesField(q.filters, f)
  \/ clauseNamesField(q.rootQuery, f)
  \/ ToLower(q.orderBy) = f

(* services.validateGeoClauses, with the ranges of validateGeo abstracted  *)
(* to good and bad blocks.                                                 *)
validateGeoClauses(t) ==
  \A i \in DOMAIN t :
    t[i].geo # "none" => t[i].geo = "good" /\ t[i].field = "" /\ t[i].op = "" /\ t[i].val = ""

checkQueryFields(q) ==
  /\ q.sys \/ ~queryNamesField(q, "p")
  /\ ~queryNamesField(q, "g")
  /\ q.similar = "none" \/ q.geo = "none"
  /\ validateGeoClauses(q.filters) /\ validateGeoClauses(q.rootQuery)

(* requests.QueryRequest.AuthzDataUnpack for the root query (root_ids are  *)
(* checked in module Sharing), and what the listings overwrite after it.   *)
AuthzDataUnpack(q) == q.sys \/ q.rootQuery = Absent

Bind(q) ==
  IF q.kind = "query" THEN q
  ELSE [q EXCEPT !.rootIDs = TRUE, !.rootQuery = Absent, !.depth = 1]

(* The root function, and whether the request has a valid one.             *)
RootMode(q) ==
  IF q.similar # "none" THEN "similar"
  ELSE IF q.geo # "none" THEN "geo"
  ELSE IF q.rootQuery # Absent THEN "query"
  ELSE "ids"

RootValid(q) ==
  CASE RootMode(q) = "similar" -> q.similar = "good"
    [] RootMode(q) = "geo"     -> q.geo = "good"
    [] RootMode(q) = "query"   -> TRUE
    [] RootMode(q) = "ids"     -> q.rootIDs

(* How many nodes, or levels, the root function may yield.  A variant      *)
(* does not clamp the request.                                             *)
RootLimitAsked(q) ==
  IF RootMode(q) = "similar"
  THEN IF q.topK = 0 THEN DEFAULT_SIMILAR_TOPK ELSE q.topK
  ELSE q.depth

RootLimit(q) ==
  IF RootMode(q) = "similar"
  THEN IF q.topK = 0 THEN DEFAULT_SIMILAR_TOPK
       ELSE IF q.topK > MAX_SIMILAR_TOPK THEN MAX_SIMILAR_TOPK ELSE q.topK
  ELSE IF q.depth > MAX_QUERY_RECURSE_DEPTH THEN MAX_QUERY_RECURSE_DEPTH ELSE q.depth
-----------------------------------------------------------------------------
(* The compiler.                                                           *)

renderOp(op) == IF ToLower(op) \in allowedOps THEN ToLower(op) ELSE "has"

renderField(f) == IF ToLower(f) \in allowedFields THEN ToLower(f) ELSE ""

(* services.constructQueryStringAndAddVars: a present and list hides the   *)
(* or list, and a list that is empty leaves the clause a leaf.  Compiled   *)
(* clauses are the root and those in the lists that are not hidden.        *)
Taken(c) == IF c.hasAnd THEN "and" ELSE "or"

TakenIn(t, i) == {k \in DOMAIN t : t[k].up = i /\ t[k].list = Taken(t[i])}

LeafPlaces(t) ==
  LET compiled[i \in DOMAIN t] == i = 1 \/ (i \in TakenIn(t, t[i].up) /\ compiled[t[i].up])
  IN {i \in DOMAIN t : compiled[i] /\ TakenIn(t, i) = {}}

(* The leaves of a tree, compiled after n other clauses.                   *)
Leaves(t, n) == {[at |-> n + i, clause |-> t[i]] : i \in LeafPlaces(t)}

(* The value of a leaf: an empty one is 0, and 0 as a time the epoch.  The *)
(* variable is named after it.                                             *)
RawValue(l) ==
  LET v == IF l.val = "" THEN "0" ELSE l.val
  IN IF renderField(l.field) = "m" /\ v = "0" THEN Epoch ELSE v

(* A variant that names the variable after the value without blanks.       *)
VarNameTrimmed(l) == TrimSpace[RawValue(l)]

VarName(l) == RawValue(l)

IsRegexp(l) == renderOp(l.op) = "has" /\ TrimSpace[RawValue(l)] \in LongVals

(* The value a leaf binds: a text search trims it, and makes a regular     *)
(* expression of a long one.                                               *)
Value(l) ==
  IF renderOp(l.op) # "has" THEN <<"value", RawValue(l)>>
  ELSE <<IF IsRegexp(l) THEN "regexp" ELSE "value", TrimSpace[RawValue(l)]>>

(* The variables after all leaves have been compiled in their order: a     *)
(* later one of the same name overwrites.                                  *)
Binding(leaves, x) == {l \in leaves : l.clause.geo = "none" /\ VarName(l.clause) = x}

QueryVar(leaves, x) ==
  Value((CHOOSE l \in Binding(leaves, x) : \A k \in Binding(leaves, x) : k.at <= l.at).clause)

(* services.renderReadAuthzFilter.  Its test of the characters of a group  *)
(* is one that every generated group passes.  A variant leaves r out.      *)
PassesFilterByGroup(n, sgis) == Owner[n] = Caller \/ Sgi[n] \in sgis

PassesFilter(n, sgis) == Owner[n] = Caller \/ (Sgi[n] \in sgis /\ PermRead[n])

NeedsAuthzFilter(q) == q.kind = "query" /\ ~q.sys

(* The filter compiled when the request has none.                          *)
Filters(q) == IF q.filters = Absent THEN <<Leaf("m", "gt", Epoch)>> ELSE q.filters

(* The root query is compiled before the filter.                           *)
QueryLeaves(q) ==
  LET root == IF RootMode(q) = "query" THEN q.rootQuery ELSE Absent
  IN Leaves(root, 0) \union Leaves(Filters(q), Len(root))
-----------------------------------------------------------------------------
(* The handlers.                                                           *)

(* Binding, and the groups of the caller read for the query.  A request    *)
(* that is refused leaves nothing behind.                                  *)
PostNodes(q) ==
  /\ job.pc = "idle" /\ AuthzDataUnpack(q)
  /\ job' = [IdleJob EXCEPT !.pc = "compile", !.q = Bind(q), !.sgis = SgiAllowlist]
  /\ UNCHANGED SgiAllowlist

(* QueryWithOptions up to the database, or an error response.              *)
Compile ==
  /\ job.pc = "compile"
  /\ LET q == job.q
     IN job' = IF checkQueryFields(q) /\ RootValid(q)
               THEN [job EXCEPT !.pc = "query", !.leaves = QueryLeaves(q),
                       !.authz = NeedsAuthzFilter(q),
                       !.root = RootMode(q), !.limit = RootLimit(q)]
               ELSE IdleJob
  /\ UNCHANGED SgiAllowlist

(* services.renderPagination, and what Dgraph makes of it: of the nodes    *)
(* with a uid beyond the cursor, in the order of their uids or of the      *)
(* predicate that order_by names, those after the first offset, and no     *)
(* more than first (0 for no limit).  Bound: first is not negative.        *)
Place(q, n) ==
  IF renderField(q.orderBy) = "" THEN n
  ELSE IF q.orderDesc THEN NumNodes - Rank[n] ELSE Rank[n]

Before(q, S, n) == {k \in S : q.after < k /\ Place(q, k) < Place(q, n)}

Page(q, S) ==
  {n \in S : /\ q.after < n
             /\ q.offset <= Cardinality(Before(q, S, n))
             /\ q.first = 0 \/ Cardinality(Before(q, S, n)) < q.offset + q.first}

(* What a root function may yield: a listing from the caller's uid stays   *)
(* among the caller's nodes; a search or traversal may reach any node.     *)
RootNodes(q) ==
  IF job.root # "ids" THEN SUBSET Nodes
  ELSE CASE q.kind = "own"    -> {{n \in Nodes : Owner[n] = Caller}}
         [] q.kind = "shared" -> {Shr}
         [] q.kind = "query"  -> SUBSET Nodes

(* The query runs: selected is what root and filter admit; the page is     *)
(* taken after the authorisation filter.                                   *)
Admitted(j, selected) ==
  IF j.authz THEN {n \in selected : PassesFilter(n, j.sgis)} ELSE selected

RunQuery ==
  /\ job.pc = "query"
  /\ \E found \in RootNodes(job.q), matching \in SUBSET Nodes :
       LET selected == found \intersect matching
       IN /\ job.root = "similar" => Cardinality(found) <= job.limit
          /\ job' = [job EXCEPT !.pc = "answer", !.selected = selected,
                       !.page = Page(job.q, Admitted(job, selected))]
  /\ UNCHANGED SgiAllowlist

(* The database reports an error: the answer has no nodes.                 *)
QueryFails ==
  /\ job.pc = "query" /\ job' = IdleJob
  /\ UNCHANGED SgiAllowlist

(* AllowListSharedSgis for a listing of shared nodes: the readable ones of *)
(* others.  A variant leaves it out.                                       *)
Unprimed == SgiAllowlist

Primed ==
  IF job.q.kind = "shared" /\ ~job.q.sys
  THEN SgiAllowlist \union {Sgi[n] : n \in {k \in job.page : PermRead[k] /\ Owner[k] # Caller}}
  ELSE SgiAllowlist

MayRead(n, sgis) == Owner[n] = Caller \/ job.q.sys \/ (Sgi[n] \in sgis /\ PermRead[n])

(* MarshalJSON: responses.AuthzDataPack drops what the caller may not read *)
(* now.  One step here; module Sharing has a step for each node.           *)
Answer ==
  /\ job.pc = "answer"
  /\ SgiAllowlist' = Primed
  /\ job' = [job EXCEPT !.pc = "done",
               !.out = {n \in job.page : MayRead(n, Primed)}]

Finish ==
  /\ job.pc = "done" /\ job' = IdleJob
  /\ UNCHANGED SgiAllowlist

(* Another request shares with the caller or withdraws (module Sharing).   *)
Reshare(sgis) ==
  /\ job.pc # "done" /\ sgis # SgiAllowlist
  /\ SgiAllowlist' = sgis
  /\ job' = IF job.pc = "idle" THEN job ELSE [job EXCEPT !.changed = TRUE]

Next ==
  \/ \E q \in Requests : PostNodes(q)
  \/ Compile \/ RunQuery \/ QueryFails \/ Answer \/ Finish
  \/ \E sgis \in SUBSET Sgis : Reshare(sgis)

Spec == Init /\ [][Next]_vars
-----------------------------------------------------------------------------
(* Properties.                                                             *)

(* Types; and no query asks for more levels or neighbours than the server  *)
(* allows, whatever the client asked for.                                  *)
TypeOK ==
  /\ SgiAllowlist \subseteq Sgis /\ job \in Job
  /\ job.limit <= (IF job.root = "similar" THEN MAX_SIMILAR_TOPK ELSE MAX_QUERY_RECURSE_DEPTH)

(* The text a leaf searches for is also compared by another leaf: one      *)
(* variable, two values.                                                   *)
Clash(l, k) == RawValue(l) = RawValue(k) /\ Value(l) # Value(k)

(* A leaf of a compiled query is bound to its own value, so it selects     *)
(* what it would select alone, unless the request also has a text search   *)
(* for the very same value (the variable is named before the value is      *)
(* rewritten, in constructQueryStringAndAddVars).                          *)
LeavesKeepTheirValues ==
  job.pc = "query" =>
    \A l \in job.leaves :
      l.clause.geo = "none" =>
        \/ QueryVar(job.leaves, VarName(l.clause)) = Value(l.clause)
        \/ \E k \in job.leaves :
             /\ k.clause.geo = "none" /\ Clash(l.clause, k.clause)
             /\ renderOp(l.clause.op) = "has" \/ renderOp(k.clause.op) = "has"

(* No query that reaches the database filters or orders by p unless a sys  *)
(* user sent it, or by g at all, however the client wrote the name and     *)
(* wherever in the tree it put it; and every geo leaf has been validated   *)
(* (services.checkQueryFields runs on the request, not on what is          *)
(* compiled).                                                              *)
CompiledFieldsChecked ==
  job.pc = "query" =>
    LET barred == IF job.q.sys THEN {"g"} ELSE {"p", "g"} IN
    /\ \A l \in job.leaves :
         IF l.clause.geo = "none" THEN renderField(l.clause.field) \notin barred
         ELSE l.clause.geo = "good"
    /\ renderField(job.q.orderBy) \notin barred

(* The guide: read filtering happens inside the query, so a short page     *)
(* means the end of the results.  It does for POST graph/nodes and for the *)
(* caller's own nodes as long as the allowlist does not change while the   *)
(* query runs: nothing the caller may read is left beyond a page with      *)
(* fewer nodes than were asked for, but what offset skipped, and the uids  *)
(* up to the cursor, wherever order_by puts those.                         *)
Readable(j, sgis) == {n \in j.selected : MayRead(n, sgis)}

ShortPageMeansEnd ==
  job.pc = "done" /\ ~job.changed /\ Cardinality(job.out) < job.q.first
    /\ (job.q.kind = "query" \/ (job.q.kind = "own" /\ job.root = "ids")) =>
      \A n \in Readable(job, SgiAllowlist) :
        job.q.after < n =>
          \/ n \in job.out
          \/ Cardinality(Before(job.q, Readable(job, SgiAllowlist), n)) < job.q.offset

(* A page that was admitted is not thinned out on the way to the client,   *)
(* except for a grant withdrawn meanwhile, the nodes of a shared listing   *)
(* whose r is false, and a search-shaped listing, which nothing restricts  *)
(* to the caller's nodes (api/user.go passes no groups for those).         *)
PagesArriveWhole ==
  job.pc = "done" /\ job.out # job.page =>
    \/ job.changed
    \/ job.q.kind = "shared" /\ \E n \in job.page : ~PermRead[n]
    \/ job.q.kind # "query" /\ job.root \in {"similar", "geo"}
=============================================================================
