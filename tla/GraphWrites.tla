----------------------------- MODULE GraphWrites -----------------------------
(***************************************************************************)
(* Writing the graph: PUT user/node, PUT graph/nodes, PATCH graph/nodes    *)
(* and PUT and PATCH graph/edges (api/graph.go, api/user.go), with the     *)
(* binding of their requests and services/db.go down to the transaction.   *)
(*                                                                         *)
(* A client names an existing node by the authorisation data it was sent   *)
(* with it: the node's uid and envelope (owner, group and permissions),    *)
(* signed for that user.  The server authorises a request on the signed    *)
(* envelope alone and never reads the node, so what a request is allowed   *)
(* to do rests on who was sent what, on the allowlist at the moment of the *)
(* check, and on envelopes that do not change behind the signatures.       *)
(*                                                                         *)
(* A refused request leaves the graph alone; where the refusal comes       *)
(* before anything was read in a second step, it is not an action.         *)
(*                                                                         *)
(* PATCH nodes hands each node it lists to the database as it was          *)
(* received, with the objects nested in it: the entries of its e list,     *)
(* those of the nodes and shr lists of its own object, and what these hold *)
(* in turn.  The listed node and the uids of its e entries are checked,    *)
(* the rest is not.  The variable carried has the nested objects that have *)
(* come with requests so far; what holds only as long as they were bare e  *)
(* entries is stated with BareEntries as the hypothesis.  The account      *)
(* fields of own objects are in module Accounts, the shr edges in module   *)
(* Sharing.                                                                *)
(***************************************************************************)
EXTENDS Naturals, Sequences, FiniteSets

CONSTANTS
  Procs,         \* request goroutines
  Users, Sys,    \* the users and those with the sys role
  NoUser,        \* the owner of a node that has none
  Temps,         \* temporary uids ($-placeholders) a request may use
  MaxNodes,      \* bound: nodes the database has room for
  MaxSgis,       \* bound: groups that are generated
  MaxRequests,   \* bound: requests that are begun
  RootPerms,     \* bound: the permissions PUT node may give
  CreateLists,   \* bound: the node lists PUT nodes may carry
  Bodies,        \* bound: the envelopes PATCH nodes may carry, beside the signed one
  NestedLists,   \* bound: the nested objects PATCH nodes may carry
  Grants         \* bound: the user and group pairs the allowlist may hold

Uids == 1 .. MaxNodes
Sgis == 1 .. MaxSgis
NoSgi == 0
Perms == {"r", "w", "o", "i"}

(* The owner, group and permission predicates of a node; a permission that *)
(* is false and one that is absent are the same to every check made here.  *)
Env == [own : Users \union {NoUser}, sgi : Sgis \union {NoSgi}, perms : SUBSET Perms]

NoEnv == [own |-> NoUser, sgi |-> NoSgi, perms |-> {}]

(* The signed authorisation data of a node.                                *)
AuthzData == [uid : Uids, env : Env]

(* A write to the envelope of an existing node: the fields it gives.       *)
Fields == {"own", "sgi", "perms"}

(* What an object may be named by: a placeholder, the uid of a node, or a  *)
(* real uid that is not assigned.  Uids are numbered in the order in which *)
(* they come into being, so an unassigned one has no number yet.           *)
Unassigned == 0
Refs == Temps \union Uids \union {Unassigned}

Write == [uid : Refs, env : Env, sets : SUBSET Fields]

(* The node entries of PUT nodes (uids as received).                       *)
NewNode == [uid : Temps \union Uids, e : SUBSET (Temps \union Uids), perms : SUBSET Perms]

(* An object nested in a node of PATCH nodes: the list that holds it, the  *)
(* object whose list that is (for via = "below" the object named by        *)
(* parent; for "nodes" the user; the others need none), its uid, and the   *)
(* envelope fields it gives.                                               *)
Nested == [via : {"e", "below", "nodes", "shr"}, parent : Refs, user : Users,
           uid : Refs, env : Env, sets : SUBSET Fields]

ASSUME ConstantsOK ==
  /\ Sys \subseteq Users /\ NoUser \notin Users
  /\ MaxNodes \in Nat /\ MaxSgis \in Nat /\ MaxRequests \in Nat
  /\ Temps \intersect (Uids \union {Unassigned}) = {} /\ Temps # {}
  /\ RootPerms \subseteq SUBSET Perms
  /\ \A list \in CreateLists : list \in Seq(NewNode) /\ list # <<>>
  /\ Bodies \subseteq Env
  /\ NestedLists \subseteq SUBSET Nested
  /\ \A list \in NestedLists : \A x, y \in list :
       /\ x.uid = y.uid => x = y
       /\ x.uid \notin Uids /\ y.uid \notin Uids => x = y
       /\ x.env.own \in Users
       /\ x.via = "below" => \E z \in list : z.uid = x.parent /\ z.via # "below"
  /\ Grants \subseteq Users \X Sgis

VARIABLES
  env,           \* database: the envelope of each node
  edges,         \* database: the e edges
  nodes,         \* database: user -> the nodes its nodes edges reach
  minted,        \* database: uids 1 .. minted exist
  generated,     \* groups 1 .. generated have been generated
  SgiAllowlist,  \* session manager: the user and group pairs granted
  sent,          \* user -> the authorisation data it was sent
  job,           \* what each request goroutine is doing
  begun,         \* requests begun
  given,         \* history: node -> the envelope it came into being with
  carried        \* history: the objects that were nested in PATCH nodes

database == <<env, edges, nodes, minted>>
vars == <<database, generated, SgiAllowlist, sent, job, begun, given, carried>>

(* One mutation: the nodes to create, the e edges of listed nodes, those   *)
(* of objects further down, the nodes edges of own objects, and the        *)
(* envelope fields written: those of the listed node and those of nested   *)
(* objects.                                                                *)
Batch == [list : Seq([uid : Temps \union Uids, env : Env]),
          links : SUBSET (Refs \X Refs), below : SUBSET (Refs \X Refs),
          owned : SUBSET (Users \X Refs), top : SUBSET Write, nested : SUBSET Write]

NewBatch(list, links) ==
  [list |-> list, links |-> links, below |-> {}, owned |-> {}, top |-> {}, nested |-> {}]

(* A request in progress: its step, its kind, the caller, the              *)
(* authorisation data still to be checked with the permissions each needs, *)
(* the mutation it builds, the uids that existed before the mutation,      *)
(* whether it reported success, and (an observer's note) the grants that   *)
(* have been in the allowlist since the request began.                     *)
Job == [pc    : {"idle", "unpack", "mutate", "reply"},
        kind  : {"none", "root", "create", "patch", "link", "unlink"},
        user  : Users \union {NoUser},
        todo  : SUBSET [ad : AuthzData, perms : SUBSET Perms],
        batch : Batch, base : 0 .. MaxNodes, ok : BOOLEAN,
        fresh : SUBSET (Users \X Sgis)]

IdleJob == [pc |-> "idle", kind |-> "none", user |-> NoUser, todo |-> {},
            batch |-> NewBatch(<<>>, {}), base |-> 0, ok |-> FALSE, fresh |-> {}]

Init ==
  /\ env = [n \in Uids |-> NoEnv] /\ edges = {} /\ minted = 0
  /\ nodes = [u \in Users |-> {}]
  /\ generated = 0 /\ SgiAllowlist = {} /\ begun = 0
  /\ sent = [u \in Users |-> {}]
  /\ job = [p \in Procs |-> IdleJob]
  /\ given = [n \in Uids |-> NoEnv] /\ carried = {}

SetJob(p, j) == job' = [job EXCEPT ![p] = j]

(* A request with the checks that are left and the mutation to make then.  *)
Request(kind, u, todo, batch) ==
  [pc |-> IF todo = {} THEN "mutate" ELSE "unpack", kind |-> kind, user |-> u,
   todo |-> todo, batch |-> batch, base |-> 0, ok |-> FALSE, fresh |-> SgiAllowlist]

Free(p) == job[p].pc = "idle" /\ begun < MaxRequests

Begin(p, j) == Free(p) /\ begun' = begun + 1 /\ SetJob(p, j)
-----------------------------------------------------------------------------
(* The checks.                                                             *)

HasRequiredPermissions(e, ps) == ps \subseteq e.perms

(* Variants: the permission is not looked at; the allowlist is not asked.  *)
MayUseByGroup(u, e, ps) == u = e.own \/ u \in Sys \/ <<u, e.sgi>> \in SgiAllowlist

MayUseByPermission(u, e, ps) == u = e.own \/ u \in Sys \/ HasRequiredPermissions(e, ps)

(* models.AuthzDataUnpackADString.                                         *)
MayUse(u, e, ps) ==
  \/ u = e.own
  \/ u \in Sys
  \/ <<u, e.sgi>> \in SgiAllowlist /\ HasRequiredPermissions(e, ps)

(* responses.AuthzDataPack: the node stays in the caller's response.       *)
MayRead(u, e) ==
  \/ u = e.own
  \/ u \in Sys
  \/ <<u, e.sgi>> \in SgiAllowlist /\ "r" \in e.perms

(* models.AuthzFieldsAreEqual of what PATCH nodes carries and what was     *)
(* signed.  A body without sgi is a nil dereference once the owners agree: *)
(* the handler panics, and net/http ends the request with no answer.       *)
(* A variant that leaves the group and the permissions out.                *)
AuthzOwnersAreEqual(body, signed) == body.own = signed.own /\ body.own # NoUser

AuthzFieldsAreEqual(body, signed) ==
  /\ body.own = signed.own /\ body.own # NoUser
  /\ body.sgi = signed.sgi
  /\ body.perms = signed.perms

(* models.AuthzDataUnpackNodeSlice for a node of PATCH nodes.              *)
AuthzDataUnpackNode(u, ad, body) ==
  AuthzFieldsAreEqual(body, ad.env) /\ MayUse(u, ad.env, {"w"})

(* requests.CheckUidsArePlaceholders.  It recurses; one level is enough    *)
(* here, since the handler reduces the entries to their uids.  A variant   *)
(* looks at the listed nodes alone.                                        *)
CheckTopUidsArePlaceholders(list) == \A i \in DOMAIN list : list[i].uid \in Temps

CheckUidsArePlaceholders(list) ==
  \A i \in DOMAIN list : list[i].uid \in Temps /\ list[i].e \subseteq Temps

SelfLinked(list) == \E i \in DOMAIN list : list[i].uid \in list[i].e

Defined(list) == {list[i].uid : i \in DOMAIN list}

(* services.checkUpsertNodeList: a placeholder names one node, and an e    *)
(* entry of a listed node names a placeholder that is defined or a real    *)
(* uid, assigned or not.  Nothing else in the batch is looked at.          *)
(* Variants: without the first test; without the second.                   *)
CheckReferencesOnly(b) ==
  \A l \in b.links : l[2] \in Uids \union {Unassigned} \union Defined(b.list)

CheckDuplicatesOnly(b) ==
  \A i, k \in DOMAIN b.list : b.list[i].uid = b.list[k].uid => i = k

checkUpsertNodeList(b) ==
  /\ \A i, k \in DOMAIN b.list : b.list[i].uid = b.list[k].uid => i = k
  /\ \A l \in b.links : l[2] \in Uids \union {Unassigned} \union Defined(b.list)
-----------------------------------------------------------------------------
(* The mutations the handlers build.                                       *)

(* PUT node: one node.                                                     *)
RootBatch(e) == NewBatch(<< [uid |-> CHOOSE t \in Temps : TRUE, env |-> e] >>, {})

(* The edges among the nodes of a PUT nodes request.                       *)
InnerLinks(list) == UNION {{<<list[i].uid, x>> : x \in list[i].e} : i \in DOMAIN list}

(* The new nodes that get an edge from the parent: those that no new node  *)
(* links to, or the first one when there are none.  A variant takes those  *)
(* that link to no new node.                                               *)
ParentLinksToLeaves(list) == {list[i].uid : i \in {k \in DOMAIN list : list[k].e = {}}}

ParentLinks(list) ==
  LET unlinked == Defined(list) \ {l[2] : l \in InnerLinks(list)}
  IN IF unlinked # {} THEN unlinked ELSE {list[1].uid}

(* services.StoreNodeOutgoingEdgeData: the parent as a node of the batch.  *)
ParentEdges(parent, list) == {<<parent, x>> : x \in ParentLinks(list)}

(* PUT nodes: the caller owns the new nodes, they share one group, their e *)
(* entries are reduced to uids, and the parent is a node of the batch.     *)
CreateBatch(u, parent, list, sgi) ==
  NewBatch([i \in DOMAIN list |->
              [uid |-> list[i].uid,
               env |-> [own |-> u, sgi |-> sgi, perms |-> list[i].perms]]],
           InnerLinks(list) \union ParentEdges(parent, list))

(* A node that PATCH nodes lists gives all of its envelope: owner and      *)
(* group equal the signed ones, and a permission that is absent has become *)
(* false (models.ConvertNullBoolFieldsToFalse).  Of its own object only    *)
(* the uid was compared; what else that holds is among the nested objects. *)
ListedWrite(uid, body) == [uid |-> uid, env |-> body, sets |-> Fields]

(* PATCH nodes: the node as received, with all the objects nested in it.   *)
Via(nested, list) == {x \in nested : x.via = list}

PatchBatch(uid, body, nested) ==
  [list   |-> <<>>,
   links  |-> {<<uid, x.uid>> : x \in Via(nested, "e")},
   below  |-> {<<x.parent, x.uid>> : x \in Via(nested, "below")},
   owned  |-> {<<x.user, x.uid>> : x \in Via(nested, "nodes")},
   top    |-> {ListedWrite(uid, body)},
   nested |-> {[uid |-> x.uid, env |-> x.env, sets |-> x.sets] :
                 x \in {y \in nested : y.sets # {} \/ y.uid \notin Uids}}]

(* services.AddIncomingEdges and AddOutgoingEdges.                         *)
EdgeBatch(subjects, incoming, outgoing) ==
  NewBatch(<<>>, {<<a.uid, b.uid>> : a \in incoming, b \in subjects}
                 \union {<<a.uid, b.uid>> : a \in subjects, b \in outgoing})

(* requests.EdgesRequest.AuthzDataUnpack: what each list must carry.       *)
(* A variant asks incoming nodes for i and outgoing ones for o.            *)
EdgeChecksSwapped(subjects, incoming, outgoing) ==
  {[ad |-> a, perms |-> (IF incoming # {} THEN {"i"} ELSE {})
                        \union (IF outgoing # {} THEN {"o"} ELSE {})] : a \in subjects}
  \union {[ad |-> a, perms |-> {"i"}] : a \in incoming}
  \union {[ad |-> a, perms |-> {"o"}] : a \in outgoing}

EdgeChecks(subjects, incoming, outgoing) ==
  {[ad |-> a, perms |-> (IF incoming # {} THEN {"i"} ELSE {})
                        \union (IF outgoing # {} THEN {"o"} ELSE {})] : a \in subjects}
  \union {[ad |-> a, perms |-> {"o"}] : a \in incoming}
  \union {[ad |-> a, perms |-> {"i"}] : a \in outgoing}
-----------------------------------------------------------------------------
(* The handlers up to the mutation.                                        *)

(* security.GenerateSgi: a group never used before.                        *)
GenerateSgi == generated < MaxSgis /\ generated' = generated + 1

(* PUT user/node.                                                          *)
PutUserNode(p, u, perms) ==
  /\ GenerateSgi
  /\ Begin(p, Request("root", u, {},
                      RootBatch([own |-> u, sgi |-> generated + 1, perms |-> perms])))
  /\ UNCHANGED <<database, SgiAllowlist, sent, given, carried>>

(* PUT graph/nodes under the node of ad.                                   *)
PutNodes(p, u, ad, list, resetSgi) ==
  /\ MayUse(u, ad.env, {"o"})
  /\ CheckUidsArePlaceholders(list) /\ ~SelfLinked(list)
  /\ IF resetSgi THEN GenerateSgi ELSE UNCHANGED generated
  /\ Begin(p, Request("create", u, {},
                      CreateBatch(u, ad.uid, list,
                                  IF resetSgi THEN generated + 1 ELSE ad.env.sgi)))
  /\ UNCHANGED <<database, SgiAllowlist, sent, given, carried>>

(* PATCH graph/nodes.  Bounds: it lists one node, names no node twice and  *)
(* at most one that does not exist.                                        *)
PatchNodes(p, u, ad, body, nested) ==
  /\ \A x \in nested : x.uid # ad.uid /\ x.uid \notin (minted + 1) .. MaxNodes
  /\ AuthzDataUnpackNode(u, ad, body)
  /\ Begin(p, Request("patch", u, {}, PatchBatch(ad.uid, body, nested)))
  /\ carried' = carried \union nested
  /\ UNCHANGED <<database, generated, SgiAllowlist, sent, given>>

(* EdgesRequest.Validate: one direction at least.                          *)
EdgesValid(subjects, incoming, outgoing) ==
  subjects # {} /\ (incoming # {} \/ outgoing # {})

(* PUT and PATCH graph/edges.                                              *)
Edges(p, kind, u, subjects, incoming, outgoing) ==
  /\ EdgesValid(subjects, incoming, outgoing)
  /\ Begin(p, Request(kind, u, EdgeChecks(subjects, incoming, outgoing),
                      EdgeBatch(subjects, incoming, outgoing)))
  /\ UNCHANGED <<database, generated, SgiAllowlist, sent, given, carried>>

(* One string of an edge request: a call to the session manager each, and  *)
(* the first that fails ends the request.                                  *)
UnpackAD(p) ==
  /\ job[p].pc = "unpack"
  /\ \E c \in job[p].todo :
       SetJob(p, IF MayUse(job[p].user, c.ad.env, c.perms)
                 THEN [job[p] EXCEPT !.todo = @ \ {c},
                                     !.pc = IF job[p].todo = {c} THEN "mutate" ELSE @]
                 ELSE IdleJob)
  /\ UNCHANGED <<database, generated, SgiAllowlist, sent, begun, given, carried>>
-----------------------------------------------------------------------------
(* The mutation and the answer.                                            *)

Answer(p, ok) == SetJob(p, [job[p] EXCEPT !.pc = "reply", !.ok = ok, !.base = minted])

(* The uid a reference stands for: blank nodes get new uids, those that no *)
(* node of the list defines included, and an unassigned uid is a new one.  *)
Resolve(b, base, x) ==
  IF x \in Uids THEN x
  ELSE IF x \in Defined(b.list)
  THEN base + (CHOOSE i \in DOMAIN b.list : b.list[i].uid = x)
  ELSE base + Len(b.list) + 1

(* A variant in which makeSafeUid is not applied to the e entries.         *)
LinksAsReceived(b, base, ls) == ls

ResolveLinks(b, base, ls) == {<<Resolve(b, base, l[1]), Resolve(b, base, l[2])>> : l \in ls}

(* The write of the batch to a node, and the node after it.                *)
WritesTo(b, base, n) == {w \in b.top \union b.nested : Resolve(b, base, w.uid) = n}

Merge(old, ws) ==
  IF ws = {} THEN old
  ELSE LET w == CHOOSE w \in ws : TRUE
       IN [own   |-> IF "own" \in w.sets THEN w.env.own ELSE old.own,
           sgi   |-> IF "sgi" \in w.sets THEN w.env.sgi ELSE old.sgi,
           perms |-> IF "perms" \in w.sets THEN w.env.perms ELSE old.perms]

(* The entry of the list that new node n is created from, if any.          *)
EntryOf(b, base, n) == {i \in DOMAIN b.list : Resolve(b, base, b.list[i].uid) = n}

(* What the batch names that is neither a node nor defined by it: the      *)
(* mutation brings it into being.                                          *)
Named(b) == {l[2] : l \in b.links \union b.below \union b.owned}
            \union {w.uid : w \in b.nested}

Undefined(b) == Named(b) \ (Uids \union Defined(b.list))

(* The transaction of an upsert: all of the batch at once.                 *)
Commit(p) ==
  LET b     == job[p].batch
      top   == minted + Len(b.list) + (IF Undefined(b) = {} THEN 0 ELSE 1)
      Of(n) == EntryOf(b, minted, n)
  IN /\ top <= MaxNodes /\ minted' = top
     /\ env' = [n \in Uids |->
          IF Of(n) # {} THEN b.list[CHOOSE i \in Of(n) : TRUE].env
          ELSE Merge(env[n], WritesTo(b, minted, n))]
     /\ edges' = edges \union ResolveLinks(b, minted, b.links \union b.below)
     /\ given' = [n \in Uids |-> IF n \in (minted + 1) .. top THEN env'[n] ELSE given[n]]

(* services.Mutate and what its caller makes of it: the transaction        *)
(* commits and reports it, commits and fails to report it, or does not     *)
(* commit.                                                                 *)
Unwritten(p) == Answer(p, FALSE) /\ UNCHANGED <<database, given>>

UpsertNodes(p) ==
  /\ job[p].pc = "mutate" /\ job[p].kind \in {"create", "patch"}
  /\ \/ /\ checkUpsertNodeList(job[p].batch)
        /\ Commit(p) /\ \E ok \in BOOLEAN : Answer(p, ok)
        /\ nodes' = [u \in Users |-> nodes[u] \union
                       {Resolve(job[p].batch, minted, o[2]) :
                          o \in {o \in job[p].batch.owned : o[1] = u}}]
     \/ Unwritten(p)
  /\ UNCHANGED <<generated, SgiAllowlist, sent, begun, carried>>

UpsertUserNode(p) ==
  /\ job[p].pc = "mutate" /\ job[p].kind = "root"
  /\ \/ /\ Commit(p) /\ \E ok \in BOOLEAN : Answer(p, ok)
        /\ nodes' = [nodes EXCEPT ![job[p].user] = @ \union {minted + 1}]
     \/ Unwritten(p)
  /\ UNCHANGED <<generated, SgiAllowlist, sent, begun, carried>>

(* services.UpdateEdges.  The second transaction of a removal sets times   *)
(* of modification only (module DeltaSync); when it fails the edges are    *)
(* gone and the answer is an error, which is a commit not reported here.   *)
UpdateEdges(p) ==
  /\ job[p].pc = "mutate" /\ job[p].kind \in {"link", "unlink"}
  /\ \/ /\ edges' = IF job[p].kind = "link" THEN edges \union job[p].batch.links
                     ELSE edges \ job[p].batch.links
        /\ \E ok \in BOOLEAN : Answer(p, ok)
        /\ UNCHANGED <<env, nodes, minted, given>>
     \/ Unwritten(p)
  /\ UNCHANGED <<generated, SgiAllowlist, sent, begun, carried>>

(* created_nodes: each placeholder with the new uid and the envelope sent  *)
(* (models.NewGraphNodeJustOwnerAndPerms), signed for the caller.          *)
CreatedNodes(j) ==
  [t \in Defined(j.batch.list) |->
     [uid |-> Resolve(j.batch, j.base, t),
      env |-> j.batch.list[CHOOSE i \in DOMAIN j.batch.list : j.batch.list[i].uid = t].env]]

Reply(p) ==
  /\ job[p].pc = "reply"
  /\ LET j == job[p] IN
     sent' = IF j.ok THEN [sent EXCEPT ![j.user] = @ \union
                             {CreatedNodes(j)[t] : t \in Defined(j.batch.list)}]
             ELSE sent
  /\ SetJob(p, IdleJob)
  /\ UNCHANGED <<database, generated, SgiAllowlist, begun, given, carried>>
-----------------------------------------------------------------------------
(* What the rest of the server does to this state.                         *)

(* A query returns to u what it may read, and with select e the nodes one  *)
(* edge away as well, all of them signed for u (module Sharing, and        *)
(* models.AuthzDataPack).  It returns all it can: a client that was sent   *)
(* less can ask for less.                                                  *)
PostNodes(u) ==
  /\ LET served == {n \in 1 .. minted : MayRead(u, env[n])}
         below  == {l[2] : l \in {l \in edges : l[1] \in served}}
     IN sent' = [sent EXCEPT ![u] = @ \union
                   {[uid |-> n, env |-> env[n]] : n \in served \union below}]
  /\ UNCHANGED <<database, generated, SgiAllowlist, job, begun, given, carried>>

(* Shares come and go (module Sharing).                                    *)
Grant(u, g) ==
  /\ <<u, g>> \in Grants /\ g <= generated
  /\ SgiAllowlist' = SgiAllowlist \union {<<u, g>>}
  /\ job' = [p \in Procs |-> IF job[p].pc = "idle" THEN job[p]
                              ELSE [job[p] EXCEPT !.fresh = @ \union {<<u, g>>}]]
  /\ UNCHANGED <<database, generated, sent, begun, given, carried>>

Withdraw(u, g) ==
  /\ SgiAllowlist' = SgiAllowlist \ {<<u, g>>}
  /\ UNCHANGED <<database, generated, sent, job, begun, given, carried>>

(* The requests u may make.                                                *)
Handle(p, u) ==
  \/ \E perms \in RootPerms : PutUserNode(p, u, perms)
  \/ \E ad \in sent[u], list \in CreateLists, resetSgi \in BOOLEAN :
       PutNodes(p, u, ad, list, resetSgi)
  \/ \E ad \in sent[u], nested \in NestedLists :
       \E body \in Bodies \union {ad.env} : PatchNodes(p, u, ad, body, nested)
  \/ \E kind \in {"link", "unlink"}, subject \in sent[u] :
       \E incoming, outgoing \in {{}} \union {{ad} : ad \in sent[u]} :
         Edges(p, kind, u, {subject}, incoming, outgoing)

Next ==
  \/ \E p \in Procs, u \in Users : Free(p) /\ Handle(p, u)
  \/ \E p \in Procs : \/ UnpackAD(p) \/ UpsertNodes(p)
                      \/ UpsertUserNode(p) \/ UpdateEdges(p)
                      \/ Reply(p)
  \/ \E u \in Users : PostNodes(u)
  \/ \E u \in Users, g \in Sgis : Grant(u, g) \/ Withdraw(u, g)

Spec == Init /\ [][Next]_vars
-----------------------------------------------------------------------------
(* The hypothesis of three properties: the objects nested in PATCH nodes   *)
(* so far were entries of e lists that name existing nodes or              *)
(* placeholders, by their uids alone: the form the guide's examples have.  *)
BareIn(objects) == \A x \in objects : x.via = "e" /\ x.uid # Unassigned /\ x.sets = {}

BareEntries == BareIn(carried)
-----------------------------------------------------------------------------
(* Properties.                                                             *)

TypeOK ==
  /\ env \in [Uids -> Env] /\ edges \subseteq Uids \X Uids
  /\ nodes \in [Users -> SUBSET Uids] /\ minted \in 0 .. MaxNodes
  /\ generated \in 0 .. MaxSgis /\ SgiAllowlist \subseteq Users \X Sgis
  /\ sent \in [Users -> SUBSET AuthzData]
  /\ job \in [Procs -> Job] /\ begun \in 0 .. MaxRequests
  /\ given \in [Uids -> Env] /\ carried \subseteq Nested

(* A node's owner, group and permissions are those it came into being      *)
(* with: no later write, with whatever signature, changes what the         *)
(* signatures of it say (docs/about.md:347, 363-367;                       *)
(* models.AuthzFieldsAreEqual).  The exception are nested objects that     *)
(* carry fields, which nothing compares with a signature.                  *)
EnvelopesKept == BareEntries => \A n \in 1 .. minted : env[n] = given[n]

(* Every node has an owner, so that somebody may read it: what             *)
(* checkUpsertNodeList is for ("the caller could never read it back - an   *)
(* orphan", services/db.go:979-981).  The exception are nested objects the *)
(* check does not look at: unassigned uids, and whatever is further down   *)
(* or in an own object.                                                    *)
NoOrphans == BareEntries => \A n \in 1 .. minted : env[n].own # NoUser

(* The caller of request j may use node n with permission c by the         *)
(* envelope n came into being with, with a grant that was in force at some *)
(* time since the request began.                                           *)
Entitled(j, n, c) ==
  LET e == given[n]
  IN j.user = e.own \/ j.user \in Sys \/ (<<j.user, e.sgi>> \in j.fresh /\ c \in e.perms)

(* No mutation goes to the database unless its caller was entitled to it   *)
(* while the request ran, whatever was shared and withdrawn meanwhile: to  *)
(* w on each node whose fields it writes, and for each edge it adds or     *)
(* removes, to o on the source and i on the target (a new node is the      *)
(* caller's own): docs/about.md:238.  The exceptions are the edges that e  *)
(* entries of PATCH nodes add, whose ends nothing checks, and all that     *)
(* follows once a nested object carried more.                              *)
WritesAuthorised ==
  BareEntries => \A p \in Procs : job[p].pc \in {"mutate", "reply"} =>
    LET j == job[p] IN
    /\ \A w \in j.batch.top \union j.batch.nested : w.uid \in Uids => Entitled(j, w.uid, "w")
    /\ j.kind # "patch" => \A l \in j.batch.links \union j.batch.below :
         /\ l[1] \in Uids => Entitled(j, l[1], "o")
         /\ l[2] \in Uids => Entitled(j, l[2], "i")

(* A creation that reports success made one node for each node of the      *)
(* request, all of the caller's and in one group, and tells the caller of  *)
(* each under its placeholder (services.UpsertNodes, UpsertUserNode).      *)
CreationsComplete ==
  \A p \in Procs : job[p].pc = "reply" /\ job[p].ok =>
    LET list == job[p].batch.list
        Made(i) == CreatedNodes(job[p])[list[i].uid].uid
    IN \A i \in DOMAIN list :
         /\ Made(i) \in 1 .. minted /\ list[i].env = given[Made(i)]
         /\ list[i].env.own = job[p].user /\ list[i].env.sgi = list[1].env.sgi
         /\ \A k \in DOMAIN list : Made(i) = Made(k) => i = k

(* The new nodes of a PUT nodes can all be reached from the parent along   *)
(* the edges of its mutation: a set closed under the links that holds the  *)
(* parent's children holds them all.                                       *)
AllReached(b) ==
  \A S \in SUBSET Temps :
    (\A l \in b.links : l[1] \in S \union Uids => l[2] \in S) => Defined(b.list) \subseteq S

Acyclic(links) ==
  \A S \in (SUBSET Temps) \ {{}} : \E x \in S : \A y \in S : <<y, x>> \notin links

Creating(j) == j.pc = "mutate" /\ j.kind = "create" /\ checkUpsertNodeList(j.batch)

(* Unless some of its new nodes form a cycle, a PUT nodes leaves none of   *)
(* them out of reach (api/graph.go, nodesLinkedFromOtherNewNodes).         *)
NewNodesReachable ==
  \A p \in Procs :
    Creating(job[p]) /\ Acyclic(job[p].batch.links) => AllReached(job[p].batch)
=============================================================================
