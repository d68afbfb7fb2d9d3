------------------------------- MODULE Sharing -------------------------------
(***************************************************************************)
(* Sharing nodes between users.  Who a node is shared with lives in two    *)
(* places that no transaction spans: the shr edges in the database, which  *)
(* persist, and the share-group allowlist of the session manager, which is *)
(* in memory.  The handlers of api/user.go (PUT share, PATCH share and     *)
(* POST nodes/shared) and of api/graph.go (POST nodes) read and write them *)
(* in separate steps, and requests run concurrently.                       *)
(*                                                                         *)
(* A node's owner, group and permissions are constants: the handlers       *)
(* modelled here never change them, nor does any write but the fields of   *)
(* objects nested in the nodes of PATCH nodes (module GraphWrites).  The   *)
(* e edges are constants too.  A call to the session manager is one step,  *)
(* which theorem CallsAreAtomic of UsmProofs justifies.                    *)
(*                                                                         *)
(* Two things users can do leave what docs/about.md says of sharing: a     *)
(* shared listing with a similar or geo search, and a PATCH nodes with a   *)
(* shr list in a nested object.  They are actions like the others, and the *)
(* variable strays counts them.  What holds until the first of them is     *)
(* stated with AsDocumented as the hypothesis.                             *)
(***************************************************************************)
EXTENDS Naturals

CONSTANTS
  Procs,           \* request goroutines
  Users, Sys,      \* the users and those with the sys role
  NoUser,          \* nobody: the user of an idle goroutine
  Nodes, Sgis,     \* graph nodes and share group ids
  Owner, Sgi,      \* of each node
  Edges,           \* the e edges: pairs of nodes
  ReadPerm,        \* the r predicate of each node: "true", "false" or "absent"
  SharePerm,       \* whether the s predicate of each node is true
  NodeLists,       \* bound: the node lists requests may name
  TargetLists,     \* bound: the user lists share requests may name
  DBMayFail,       \* whether the share mutation may fail
  SelectE,         \* whether listings and queries may select e
  MaxRestarts,     \* bound: how often the server is restarted
  MaxStrays,       \* bound: searching listings, and PATCH nodes with shr lists
  StrayLists       \* bound: the nodes those find, or name

ASSUME ConstantsOK ==
  /\ Sys \subseteq Users /\ NoUser \notin Users
  /\ Owner \in [Nodes -> Users] /\ Sgi \in [Nodes -> Sgis]
  /\ ReadPerm \in [Nodes -> {"true", "false", "absent"}]
  /\ SharePerm \in [Nodes -> BOOLEAN]
  /\ NodeLists \subseteq (SUBSET Nodes) \ {{}}
  /\ TargetLists \subseteq (SUBSET Users) \ {{}}
  /\ Edges \subseteq Nodes \X Nodes
  /\ DBMayFail \in BOOLEAN /\ SelectE \in BOOLEAN
  /\ MaxRestarts \in Nat /\ MaxStrays \in Nat /\ StrayLists \subseteq SUBSET Nodes

VARIABLES
  shr,           \* database: user -> nodes reached by its shr edges
  SgiAllowlist,  \* session manager: user -> groups granted to it
  job,           \* what each request goroutine is doing
  restarts,      \* how often the server has restarted
  reached,       \* history: user -> nodes an authorised share request named for it
  rooted,        \* history: groups of nodes shared by their owner or by a sys user
  strays         \* history: searching listings and PATCH nodes with shr lists so far

vars == <<shr, SgiAllowlist, job, restarts, reached, rooted, strays>>

history == <<reached, rooted, strays>>

(* A request in progress: its step, its kind, the caller, the nodes it     *)
(* names or has read, those it still has to check, the users it still has  *)
(* to update, the groups it read, the nodes of its response so far and the *)
(* entries in their e lists, and (an observer's note) the groups granted   *)
(* to the caller at some time since the request read the database.         *)
Job == [pc      : {"idle", "unpack", "mutate", "update", "query",
                   "prime", "pack", "panicked"},
        kind    : {"none", "share", "unshare", "list", "query"},
        user    : Users \union {NoUser},
        nodes   : SUBSET Nodes, todo  : SUBSET Nodes,
        targets : SUBSET Users, sgis  : SUBSET Sgis,
        out     : SUBSET Nodes, below : SUBSET Nodes, fresh : SUBSET Sgis]

IdleJob == [pc |-> "idle", kind |-> "none", user |-> NoUser, nodes |-> {}, todo |-> {},
            targets |-> {}, sgis |-> {}, out |-> {}, below |-> {}, fresh |-> {}]

Init ==
  /\ shr = [u \in Users |-> {}]
  /\ SgiAllowlist = [u \in Users |-> {}]
  /\ job = [p \in Procs |-> IdleJob]
  /\ restarts = 0
  /\ reached = [u \in Users |-> {}]
  /\ rooted = {} /\ strays = 0

-----------------------------------------------------------------------------
(* The access rules.                                                       *)

(* models.HasRequiredPermissions, for the permission each kind of request  *)
(* needs on the nodes it names: s to share, r to query from.               *)
HasRequiredPermissions(n, kind) ==
  IF kind = "query" THEN ReadPerm[n] = "true" ELSE SharePerm[n]

(* Variants that MayUse and MayRead are told apart from: the session       *)
(* manager is not asked, or the permission is not looked at.               *)
MayUseByPermission(u, n, kind) ==
  u = Owner[n] \/ u \in Sys \/ HasRequiredPermissions(n, kind)

MayReadByPermission(u, n) ==
  u = Owner[n] \/ u \in Sys \/ ReadPerm[n] = "true"

MayReadByGroup(u, n) ==
  u = Owner[n] \/ u \in Sys \/ Sgi[n] \in SgiAllowlist[u]

(* models.AuthzDataUnpackADString: the caller may use the node it names.   *)
MayUse(u, n, kind) ==
  \/ u = Owner[n]
  \/ u \in Sys
  \/ Sgi[n] \in SgiAllowlist[u] /\ HasRequiredPermissions(n, kind)

(* responses.AuthzDataPack: the node stays in the caller's response.       *)
MayRead(u, n) ==
  \/ u = Owner[n]
  \/ u \in Sys
  \/ Sgi[n] \in SgiAllowlist[u] /\ ReadPerm[n] = "true"

(* services.renderReadAuthzFilter with the groups read beforehand.         *)
PassesFilter(u, n, sgis) ==
  \/ u = Owner[n]
  \/ u \in Sys
  \/ Sgi[n] \in sgis /\ ReadPerm[n] = "true"

(* The *bool in a node's PermRead field.  A node read from the database    *)
(* has what is stored.  A node decoded from the client's signed data has   *)
(* only the permissions that are true (GraphNodeFromUnpackedAD); the       *)
(* others stay nil unless HasRequiredPermissions ran, which the check of   *)
(* an owner or a sys user skips.                                           *)
PermReadIsNil(j, n) ==
  /\ ReadPerm[n] # "true"
  /\ IF j.kind = "list" THEN ReadPerm[n] = "absent"
     ELSE j.user = Owner[n] \/ j.user \in Sys

(* api.UpdateAllowListSharedSgis for user u and the nodes of request j: it *)
(* passes over u's own nodes, dereferences PermRead of the others, and     *)
(* collects the groups of the readable ones.                               *)
DereferencesNil(j, u) == \E n \in j.nodes : Owner[n] # u /\ PermReadIsNil(j, n)

(* A variant collects the nodes themselves.                                *)
SharedNodes(j, u) == {n \in j.nodes : Owner[n] # u /\ ReadPerm[n] = "true"}

SharedSgis(j, u) == {Sgi[n] : n \in {m \in j.nodes : Owner[m] # u /\ ReadPerm[m] = "true"}}

(* Granting sgis to u; requests of u that have read the database note it.  *)
NoteGrant(q, u, sgis) ==
  IF job[q].user = u /\ job[q].pc \in {"prime", "pack"}
  THEN [job[q] EXCEPT !.fresh = @ \union sgis] ELSE job[q]
-----------------------------------------------------------------------------
(* PUT share and PATCH share.                                              *)

SetJob(p, j) == job' = [job EXCEPT ![p] = j]

BeginShare(p, kind, u, ns, ts) ==
  /\ job[p].pc = "idle"
  /\ SetJob(p, [IdleJob EXCEPT !.pc = "unpack", !.kind = kind, !.user = u,
                               !.nodes = ns, !.todo = ns, !.targets = ts])
  /\ UNCHANGED <<shr, SgiAllowlist, restarts, history>>

(* BindToRequest checks the nodes one by one, each with a call to the      *)
(* session manager, and refuses the request at the first that fails.       *)
UnpackNode(p) ==
  /\ job[p].pc = "unpack"
  /\ \E n \in job[p].todo :
       SetJob(p, IF MayUse(job[p].user, n, job[p].kind)
                 THEN [job[p] EXCEPT !.todo = @ \ {n}] ELSE IdleJob)
  /\ UNCHANGED <<shr, SgiAllowlist, restarts, history>>

(* All nodes passed; a sys user among the targets ends the request.        *)
CheckTargets(p) ==
  /\ job[p].pc = "unpack" /\ job[p].todo = {} /\ job[p].kind \in {"share", "unshare"}
  /\ LET j == job[p] IN
     IF j.targets \intersect Sys # {}
     THEN SetJob(p, IdleJob) /\ UNCHANGED history
     ELSE /\ SetJob(p, [j EXCEPT !.pc = "mutate"])
          /\ IF j.kind = "share"
             THEN /\ reached' = [u \in Users |-> IF u \in j.targets THEN reached[u] \union j.nodes
                                                 ELSE reached[u]]
                  /\ rooted' = rooted \union
                       {Sgi[n] : n \in {m \in j.nodes : Owner[m] = j.user \/ j.user \in Sys}}
                  /\ UNCHANGED strays
             ELSE UNCHANGED history
  /\ UNCHANGED <<shr, SgiAllowlist, restarts>>

(* services.UpdateUserShareEdges: one transaction for all targets.  The    *)
(* handler goes on in the same way whether or not it succeeded.            *)
UpdateUserShareEdges(p) ==
  /\ job[p].pc = "mutate"
  /\ \/ LET j == job[p] IN
        shr' = [u \in Users |-> IF u \notin j.targets THEN shr[u]
                                ELSE IF j.kind = "share" THEN shr[u] \union j.nodes
                                ELSE shr[u] \ j.nodes]
     \/ DBMayFail /\ UNCHANGED shr
  /\ SetJob(p, [job[p] EXCEPT !.pc = "update"])
  /\ UNCHANGED <<SgiAllowlist, restarts, history>>

(* A variant in which PATCH share calls AllowListSharedSgis too.           *)
UpdateTargetGranting(p) ==
  /\ job[p].pc = "update"
  /\ \E t \in job[p].targets :
       LET sgis == SharedSgis(job[p], t)
           rest == job[p].targets \ {t}
       IN /\ SgiAllowlist' = [SgiAllowlist EXCEPT ![t] = @ \union sgis]
          /\ SetJob(p, IF rest = {} THEN IdleJob ELSE [job[p] EXCEPT !.targets = rest])
  /\ UNCHANGED <<shr, restarts, history>>

(* A variant that grants to the caller in place of the target.             *)
UpdateTargetCaller(p) ==
  /\ job[p].pc = "update"
  /\ \E t \in job[p].targets :
       LET rest == job[p].targets \ {t}
       IN /\ SgiAllowlist' = [SgiAllowlist EXCEPT ![job[p].user] = @ \union SharedSgis(job[p], t)]
          /\ SetJob(p, IF rest = {} THEN IdleJob ELSE [job[p] EXCEPT !.targets = rest])
  /\ UNCHANGED <<shr, restarts, history>>

(* One turn of the loop over the targets: AllowListSharedSgis or           *)
(* RevokeSharedSgis.  No message is sent when there is no group to name.   *)
UpdateTarget(p) ==
  /\ job[p].pc = "update"
  /\ \E t \in job[p].targets :
       LET j    == job[p]
           sgis == SharedSgis(j, t)
           rest == j.targets \ {t}
           next == IF rest = {} THEN IdleJob ELSE [j EXCEPT !.targets = rest]
       IN IF DereferencesNil(j, t)
          THEN SetJob(p, [j EXCEPT !.pc = "panicked"]) /\ UNCHANGED SgiAllowlist
          ELSE IF j.kind = "share"
          THEN /\ SgiAllowlist' = [SgiAllowlist EXCEPT ![t] = @ \union sgis]
               /\ job' = [q \in Procs |-> IF q = p THEN next ELSE NoteGrant(q, t, sgis)]
          ELSE /\ SgiAllowlist' = [SgiAllowlist EXCEPT ![t] = @ \ sgis]
               /\ SetJob(p, next)
  /\ UNCHANGED <<shr, restarts, history>>

-----------------------------------------------------------------------------
(* POST nodes/shared.                                                      *)

(* One more request that the documentation does not foresee.               *)
Stray == strays < MaxStrays /\ strays' = strays + 1

(* The request as the database has answered it, with nodes ns.             *)
Listing(u, ns) == [IdleJob EXCEPT !.pc = "prime", !.kind = "list", !.user = u,
                                  !.nodes = ns, !.fresh = SgiAllowlist[u]]

(* The database answers with the nodes behind the caller's shr edges that  *)
(* the caller's filter and page select; a failed query answers with none.  *)
ListShared(p, u, ns) ==
  /\ job[p].pc = "idle"
  /\ ns \subseteq shr[u]
  /\ SetJob(p, Listing(u, ns))
  /\ UNCHANGED <<shr, SgiAllowlist, restarts, history>>

(* With similar or geo set, QueryWithOptions takes its search branch and   *)
(* the root ids the handler wrote into the request are not looked at.      *)
ListSearch(p, u, ns) ==
  /\ job[p].pc = "idle"
  /\ Stray
  /\ SetJob(p, Listing(u, ns))
  /\ UNCHANGED <<shr, SgiAllowlist, restarts, reached, rooted>>

(* A listing that does not prime.                                          *)
PrimeNothing(p) ==
  /\ job[p].pc = "prime"
  /\ SetJob(p, [job[p] EXCEPT !.pc = "pack", !.todo = job[p].nodes, !.nodes = {}])
  /\ UNCHANGED <<shr, SgiAllowlist, restarts, history>>

(* AllowListSharedSgis for the caller itself, which sys users do not need. *)
Prime(p) ==
  /\ job[p].pc = "prime"
  /\ LET j    == job[p]
         sgis == SharedSgis(j, j.user)
         next == [j EXCEPT !.pc = "pack", !.todo = j.nodes, !.nodes = {}]
     IN IF j.user \in Sys
        THEN SetJob(p, next) /\ UNCHANGED SgiAllowlist
        ELSE IF DereferencesNil(j, j.user)
        THEN SetJob(p, [j EXCEPT !.pc = "panicked"]) /\ UNCHANGED SgiAllowlist
        ELSE /\ SgiAllowlist' = [SgiAllowlist EXCEPT ![j.user] = @ \union sgis]
             /\ job' = [q \in Procs |->
                          IF q = p THEN [next EXCEPT !.fresh = @ \union sgis]
                          ELSE NoteGrant(q, j.user, sgis)]
  /\ UNCHANGED <<shr, restarts, history>>

-----------------------------------------------------------------------------
(* POST /graph/nodes.                                                      *)

(* The root nodes, if any, are checked first (UnpackNode); a search has    *)
(* none.                                                                   *)
BeginQuery(p, u, ns) ==
  /\ job[p].pc = "idle"
  /\ SetJob(p, [IdleJob EXCEPT !.pc = "unpack", !.kind = "query", !.user = u, !.todo = ns])
  /\ UNCHANGED <<shr, SgiAllowlist, restarts, history>>

(* UsmUserAllowedSgis, evaluated before the database is queried.           *)
ReadAllowedSgis(p) ==
  /\ job[p].pc = "unpack" /\ job[p].todo = {} /\ job[p].kind = "query"
  /\ SetJob(p, [job[p] EXCEPT !.pc = "query", !.sgis = SgiAllowlist[job[p].user]])
  /\ UNCHANGED <<shr, SgiAllowlist, restarts, history>>

(* QueryWithOptions: any nodes the traversal may reach, cut down by the    *)
(* read filter built from the groups read in the step before.              *)
QueryWithOptions(p) ==
  /\ job[p].pc = "query"
  /\ \E ns \in SUBSET {n \in Nodes : PassesFilter(job[p].user, n, job[p].sgis)} :
       SetJob(p, [job[p] EXCEPT !.pc = "pack", !.todo = ns, !.sgis = {},
                                !.fresh = SgiAllowlist[job[p].user]])
  /\ UNCHANGED <<shr, SgiAllowlist, restarts, history>>

-----------------------------------------------------------------------------
(* The response path of both, and what can happen to any request.          *)

(* The e list of a node, rendered without the read filter: all of it when  *)
(* the request selects e.  (That is decided node by node here, which has   *)
(* every request's choice among its cases.)                                *)
OutEdges(n) == {m \in Nodes : <<n, m>> \in Edges}

EntryLists(n) == {{}} \union (IF SelectE THEN {OutEdges(n)} ELSE {})

(* responses.AuthzDataPack looks at each node in turn, with a call to the  *)
(* session manager for each, and keeps those the caller may read.  A node  *)
(* it keeps is signed together with the entries of its e list, which       *)
(* nothing checks.                                                         *)
PackNode(p) ==
  /\ job[p].pc = "pack"
  /\ \E n \in job[p].todo : \E es \in EntryLists(n) :
       LET rest == [job[p] EXCEPT !.todo = @ \ {n}]
       IN SetJob(p, IF MayRead(job[p].user, n)
                    THEN [rest EXCEPT !.out = @ \union {n}, !.below = @ \union es] ELSE rest)
  /\ UNCHANGED <<shr, SgiAllowlist, restarts, history>>

Respond(p) ==
  /\ job[p].pc = "pack" /\ job[p].todo = {}
  /\ SetJob(p, IdleJob)
  /\ UNCHANGED <<shr, SgiAllowlist, restarts, history>>

(* net/http recovers a handler's panic: the connection is dropped without  *)
(* an answer and the server goes on.                                       *)
Recover(p) ==
  /\ job[p].pc = "panicked"
  /\ SetJob(p, IdleJob)
  /\ UNCHANGED <<shr, SgiAllowlist, restarts, history>>

(* The server stops and starts again: requests in progress are gone and    *)
(* UsmInit makes empty tables.                                             *)
Restart ==
  /\ restarts < MaxRestarts
  /\ restarts' = restarts + 1
  /\ SgiAllowlist' = [u \in Users |-> {}]
  /\ job' = [p \in Procs |-> IdleJob]
  /\ UNCHANGED <<shr, history>>

(* PATCH nodes with a shr list in an own object: AuthzFieldsAreEqual       *)
(* compares only the uid of a listed node's owner, and the objects further *)
(* down are not looked at, so the mutation adds the edges to the user it   *)
(* names.  GraphWrites has the rest of that request.                       *)
PatchShr(u, ns) ==
  /\ Stray
  /\ shr' = [shr EXCEPT ![u] = @ \union ns]
  /\ UNCHANGED <<SgiAllowlist, job, restarts, reached, rooted>>

Begin(p) ==
  \E u \in Users :
    \/ \E kind \in {"share", "unshare"}, ns \in NodeLists, ts \in TargetLists :
         BeginShare(p, kind, u, ns, ts)
    \/ \E ns \in SUBSET shr[u] : ListShared(p, u, ns)
    \/ \E ns \in StrayLists : ListSearch(p, u, ns)
    \/ \E ns \in NodeLists \union {{}} : BeginQuery(p, u, ns)

Continue(p) ==
  \/ UnpackNode(p) \/ CheckTargets(p) \/ UpdateUserShareEdges(p) \/ UpdateTarget(p)
  \/ Prime(p) \/ ReadAllowedSgis(p) \/ QueryWithOptions(p)
  \/ PackNode(p) \/ Respond(p) \/ Recover(p)

Next ==
  \/ Restart
  \/ \E u \in Users, ns \in StrayLists : PatchShr(u, ns)
  \/ \E p \in Procs : Begin(p) \/ Continue(p)

(* A request that has begun is carried on, as the Go scheduler runs its    *)
(* goroutine.  Users keep listing what is shared with them, without a      *)
(* filter: the priming that docs/frontend-guide.md asks of every client    *)
(* and names as the recovery from a lost grant.                            *)
Fairness ==
  \A p \in Procs : /\ WF_vars(Continue(p))
                   /\ \A u \in Users : SF_vars(ListShared(p, u, shr[u]))

Spec == Init /\ [][Next]_vars /\ Fairness
-----------------------------------------------------------------------------
(* Every variable keeps its type: what reaches the allowlist is a group.   *)
TypeOK ==
  /\ shr \in [Users -> SUBSET Nodes]
  /\ SgiAllowlist \in [Users -> SUBSET Sgis]
  /\ job \in [Procs -> Job]
  /\ restarts \in 0 .. MaxRestarts
  /\ reached \in [Users -> SUBSET Nodes]
  /\ rooted \in SUBSET Sgis
  /\ strays \in 0 .. MaxStrays

(* What the next three properties are stated under: no listing so far      *)
(* carried a search and no PATCH nodes a shr list.                         *)
AsDocumented == strays = 0

(* Where a grant of group g to user u can come from.                       *)
Origin(u, g) ==
  \E n \in reached[u] : Sgi[n] = g /\ Owner[n] # u /\ ReadPerm[n] = "true"

(* A user holds a grant for a group only because a readable node of that   *)
(* group, owned by someone else, was named for it in an authorised share   *)
(* request, whatever the requests do in whatever order, with failed        *)
(* mutations, panics and restarts among them (docs/about.md:375, 383).     *)
(* The listing api/user.go:95-96 calls "already scoped to the caller" is   *)
(* not when it carries a search: those are the exception.                  *)
GrantsHaveOrigin == AsDocumented => \A u \in Users : \A g \in SgiAllowlist[u] : Origin(u, g)

(* Sharing on is not a way to start: every grant of a group, through       *)
(* however many users it was passed on, goes back to a share by the owner  *)
(* of a node of that group or by a sys user; shr edges that a PATCH nodes  *)
(* wrote, and searching listings, are the exception.                       *)
GrantsRootedInOwner == AsDocumented => \A u \in Users : SgiAllowlist[u] \subseteq rooted

(* What a user may be sent: its own nodes, and readable ones of groups     *)
(* that have reached it.                                                   *)
Readable(u, n) ==
  \/ Owner[n] = u
  \/ u \in Sys
  \/ ReadPerm[n] = "true" /\ Origin(u, Sgi[n])

(* The nodes of a response are readable to the caller.  The entries of     *)
(* their e lists, when e is selected, need not be: nothing checks them.    *)
(* But a response holds nothing further away, every entry is one edge from *)
(* a node that was served (docs/about.md:288-292).                         *)
ResponsesReadable ==
  \A p \in Procs :
    /\ AsDocumented => \A n \in job[p].out : Readable(job[p].user, n)
    /\ \A m \in job[p].below : \E n \in job[p].out : m \in OutEdges(n)

(* A node is not served because of a group that was revoked before the     *)
(* request read the database and not granted again since, from the groups  *)
(* the request read earlier: AuthzDataPack asks the session manager again. *)
(* (The entries of e lists are served with their node, unchecked.)         *)
NoStaleGrantServed ==
  \A p \in Procs : \A n \in job[p].out :
    \/ Owner[n] = job[p].user
    \/ job[p].user \in Sys
    \/ Sgi[n] \in job[p].fresh

Quiescent == \A p \in Procs : job[p].pc = "idle"

(* Requests come one at a time, mutations succeed, listings carry no       *)
(* search and PATCH nodes no shr list, and no request names readable and   *)
(* unreadable nodes together (a panic would leave it half done).           *)
OneAtATime ==
  /\ \A p, q \in Procs : p = q
  /\ ~DBMayFail /\ MaxStrays = 0
  /\ \A ns \in NodeLists : \A m, n \in ns : ReadPerm[m] = "true" <=> ReadPerm[n] = "true"

(* With no request in progress, the allowlist says no more than the shr    *)
(* edges: a granted group has a readable node shared with the user.        *)
(* docs/about.md:288-292.                                                  *)
QuiescentGrantsBacked ==
  Quiescent =>
    \A u \in Users : \A g \in SgiAllowlist[u] :
      \E n \in shr[u] : Sgi[n] = g /\ Owner[n] # u /\ ReadPerm[n] = "true"

(* The grant of a group one of whose readable nodes stays shared with a    *)
(* user comes back, however it was lost: in a restart, or because un-sharing *)
(* another node of the group revokes the group as a whole.                 *)
PrimingRecovers ==
  \A u \in Users \ Sys : \A n \in Nodes :
    (Owner[n] # u /\ ReadPerm[n] = "true" /\ <>[](n \in shr[u]))
      => []<>(Sgi[n] \in SgiAllowlist[u])

(* A user's listing of what is shared with it is answered, whether or not  *)
(* the owners set r on the nodes: "if a node has been shared with another  *)
(* user, it is implied that they can read without explicit PermRead set"   *)
(* (api/user.go:79).                                                       *)
ListingsAnswered == \A p \in Procs : ~(job[p].kind = "list" /\ job[p].pc = "panicked")
=============================================================================
