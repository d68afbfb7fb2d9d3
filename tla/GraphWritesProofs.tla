-------------------------- MODULE GraphWritesProofs --------------------------
(***************************************************************************)
(* Theorems about GraphWrites, for any number of requests, users, nodes    *)
(* and groups, and any lists and permissions a request may carry.          *)
(*                                                                         *)
(* A request is authorised on what was signed, so the invariant follows    *)
(* the signed envelopes: until a PATCH nodes carries more than bare        *)
(* entries, each is the envelope its node came into being with.            *)
(***************************************************************************)
EXTENDS GraphWrites, TLAPS

(* Entitled, with the given envelopes and the number of nodes as           *)
(* parameters; below, c stands for the nested objects carried so far.      *)
By(j, n, a, g, k) ==
  /\ n \in 1 .. k
  /\ \/ j.user = g[n].own
     \/ j.user \in Sys
     \/ <<j.user, g[n].sgi>> \in j.fresh /\ a \in g[n].perms

ListEntry == [uid : Temps \union Uids, env : Env]

Distinct(list) == \A i, k \in DOMAIN list : list[i].uid = list[k].uid => i = k

(* PUT node and PUT nodes: the new nodes are the caller's, in one group.   *)
NewOK(j, g, k, c) ==
  LET b == j.batch IN
  j.kind \in {"root", "create"} =>
    /\ b.below = {} /\ b.owned = {} /\ b.top = {} /\ b.nested = {}
    /\ \A i \in DOMAIN b.list : /\ b.list[i].uid \in Temps
                                /\ b.list[i].env.own = j.user
                                /\ b.list[i].env.sgi = b.list[1].env.sgi
    /\ \A l \in b.links : /\ l[1] \in Uids \union Defined(b.list) /\ l[2] \in Temps
                          /\ BareIn(c) /\ l[1] \in Uids => By(j, l[1], "o", g, k)

RootOK(j) == j.kind = "root" => j.batch.links = {} /\ Len(j.batch.list) = 1

(* Each new node has an edge from the parent or from another new node.     *)
CreateOK(j) ==
  j.kind = "create" =>
    \A x \in Defined(j.batch.list) :
      \E y \in Uids \union Defined(j.batch.list) : <<y, x>> \in j.batch.links

(* PATCH nodes: what holds the nested objects is named by the request      *)
(* itself.  With bare entries, the listed node repeats the envelope it was *)
(* given, and a nested object that is no node is the target of a link.     *)
PatchBare(j, g, k) ==
  LET b == j.batch IN
  /\ b.below = {} /\ b.owned = {}
  /\ \A l \in b.links : /\ l[1] \in 1 .. k /\ l[2] # Unassigned
                        /\ l[2] \in Uids => l[2] \in 1 .. k
  /\ \A w \in b.nested : w.uid \notin Uids /\ \E l \in b.links : l[2] = w.uid
  /\ \A w \in b.top : /\ w.uid \in 1 .. k /\ w.env = g[w.uid] /\ w.sets = Fields
                      /\ By(j, w.uid, "w", g, k)

PatchOK(j, g, k, c) ==
  LET b == j.batch IN
  j.kind = "patch" =>
    /\ b.list = <<>>
    /\ \A l \in b.links : l[1] \in Uids
    /\ \A l \in b.below : l[1] \in Uids \union Named(b)
    /\ BareIn(c) => PatchBare(j, g, k)

(* PUT and PATCH edges: each end has been checked, or is still to be.      *)
EndOK(j, n, a, g, k) ==
  By(j, n, a, g, k) \/ \E t \in j.todo : t.ad.uid = n /\ a \in t.perms

EdgesOK(j, g, k, c) ==
  LET b == j.batch IN
  j.kind \in {"link", "unlink"} =>
    /\ b.list = <<>> /\ b.below = {} /\ b.owned = {} /\ b.top = {} /\ b.nested = {}
    /\ \A l \in b.links : l[1] \in Uids /\ l[2] \in Uids
    /\ BareIn(c) =>
         /\ \A t \in j.todo : t.ad.uid \in 1 .. k /\ t.ad.env = g[t.ad.uid]
         /\ \A l \in b.links : EndOK(j, l[1], "o", g, k) /\ EndOK(j, l[2], "i", g, k)

(* A success that is about to be reported: the nodes of the list were      *)
(* minted in its order.                                                    *)
ReplyOK(j, g, k) ==
  j.pc = "reply" /\ j.ok =>
    /\ Distinct(j.batch.list) /\ j.base + Len(j.batch.list) <= k
    /\ \A i \in DOMAIN j.batch.list : j.batch.list[i].env = g[j.base + i]

JobOK(j, g, k, c) ==
  j.pc # "idle" =>
    /\ j.user \in Users /\ j.kind # "none"
    /\ j.pc # "unpack" => j.todo = {}
    /\ NewOK(j, g, k, c) /\ RootOK(j) /\ CreateOK(j) /\ PatchOK(j, g, k, c) /\ EdgesOK(j, g, k, c)
    /\ ReplyOK(j, g, k)

FreshOK == \A p \in Procs : job[p].pc # "idle" => SgiAllowlist \subseteq job[p].fresh

(* With bare entries: what was signed is what was given.                   *)
SentOK == \A u \in Users : \A ad \in sent[u] : ad.uid \in 1 .. minted /\ ad.env = given[ad.uid]

EdgesIn == \A l \in edges : l[1] \in 1 .. minted /\ l[2] \in 1 .. minted

KeptEnvelopes == \A n \in 1 .. minted : env[n] = given[n]

KeptOwners == \A n \in 1 .. minted : env[n].own # NoUser

Kept == KeptEnvelopes /\ KeptOwners /\ SentOK /\ EdgesIn

IInv ==
  /\ TypeOK /\ FreshOK
  /\ \A p \in Procs : JobOK(job[p], given, minted, carried)
  /\ BareIn(carried) => Kept
-----------------------------------------------------------------------------
LEMMA Bounds == MaxNodes \in Nat /\ MaxSgis \in Nat /\ MaxRequests \in Nat
BY ConstantsOK

LEMMA TempsAreNoUids == \A x \in Temps : x \notin Uids
BY ConstantsOK

LEMMA IdleJobOK == IdleJob \in Job /\ \A g, k, c : JobOK(IdleJob, g, k, c)
<1>1. NewBatch(<<>>, {}) \in Batch
  BY DEF NewBatch, Batch
<1>2. IdleJob \in Job
  BY <1>1, Bounds DEF IdleJob, Job
<1>3. IdleJob.pc = "idle"
  BY DEF IdleJob
<1> QED BY <1>2, <1>3 DEF JobOK

LEMMA InitInv == Init => IInv
<1> SUFFICES ASSUME Init PROVE IInv
  OBVIOUS
<1>1. NoEnv \in Env
  BY DEF NoEnv, Env
<1>2. TypeOK
  BY <1>1, IdleJobOK, Bounds DEF Init, TypeOK
<1>3. Kept
  BY DEF Init, Kept, KeptEnvelopes, KeptOwners, SentOK, EdgesIn
<1>4. FreshOK
  BY DEF Init, FreshOK, IdleJob
<1>5. \A p \in Procs : JobOK(job[p], given, minted, carried)
  BY IdleJobOK DEF Init
<1> QED BY <1>2, <1>3, <1>4, <1>5 DEF IInv

(* What a request rests on is not lost when more nodes come into being and *)
(* more nested objects are carried.                                        *)
LEMMA JobGrows ==
  ASSUME NEW g, NEW h, NEW k \in 0 .. MaxNodes, NEW m \in 0 .. MaxNodes, k <= m,
         \A n \in 1 .. k : h[n] = g[n], NEW c, NEW d, BareIn(d) => BareIn(c),
         NEW j \in Job, JobOK(j, g, k, c)
  PROVE  JobOK(j, h, m, d)
<1> DEFINE b == j.batch
<1>1. 1 .. k \subseteq 1 .. m
  BY Bounds
<1>2. \A n, a : By(j, n, a, g, k) => By(j, n, a, h, m)
  BY <1>1 DEF By
<1>3. \A n, a : EndOK(j, n, a, g, k) => EndOK(j, n, a, h, m)
  BY <1>2 DEF EndOK
<1> SUFFICES ASSUME j.pc # "idle" PROVE JobOK(j, h, m, d)
  BY DEF JobOK
<1>4. NewOK(j, h, m, d)
  BY <1>2 DEF JobOK, NewOK
<1>5. PatchOK(j, h, m, d)
  <2>1. PatchBare(j, g, k) => PatchBare(j, h, m)
    BY <1>1, <1>2 DEF PatchBare
  <2> QED BY <2>1 DEF JobOK, PatchOK
<1>6. EdgesOK(j, h, m, d)
  BY <1>1, <1>3 DEF JobOK, EdgesOK
<1>7. ReplyOK(j, h, m)
  <2> SUFFICES ASSUME j.pc = "reply", j.ok PROVE ReplyOK(j, h, m)
    BY DEF ReplyOK
  <2>1. Distinct(b.list) /\ j.base + Len(b.list) <= k
        /\ \A i \in DOMAIN b.list : b.list[i].env = g[j.base + i]
    BY DEF JobOK, ReplyOK
  <2>2. j.base \in Nat /\ b \in Batch
    BY Bounds DEF Job
  <2>3. b.list \in Seq(ListEntry)
    BY <2>2 DEF Batch, ListEntry
  <2>4. Len(b.list) \in Nat /\ DOMAIN b.list = 1 .. Len(b.list)
    BY <2>3
  <2> HIDE DEF b
  <2>5. \A i \in DOMAIN b.list : j.base + i \in 1 .. k
    BY <2>1, <2>2, <2>4, Bounds
  <2>6. j.base + Len(b.list) <= m
    BY <2>1, <2>2, <2>4, Bounds
  <2> QED BY <2>1, <2>5, <2>6 DEF ReplyOK, b
<1> QED BY <1>4, <1>5, <1>6, <1>7 DEF JobOK

(* A step of one request that leaves the graph and the answers alone.      *)
LEMMA JobStep ==
  ASSUME IInv, NEW p \in Procs, NEW j \in Job, SetJob(p, j), JobOK(j, given, minted, carried'),
         j.pc # "idle" => SgiAllowlist \subseteq j.fresh,
         generated' \in 0 .. MaxSgis, begun' \in 0 .. MaxRequests,
         carried' \subseteq Nested, BareIn(carried') => BareIn(carried),
         UNCHANGED <<database, SgiAllowlist, sent, given>>
  PROVE  IInv'
<1>1. UNCHANGED <<env, edges, nodes, minted, SgiAllowlist, sent, given>>
  BY DEF database
<1>2. job' \in [Procs -> Job] /\ \A q \in Procs : job'[q] = job[q] \/ job'[q] = j
  BY DEF IInv, TypeOK, SetJob
<1>3. TypeOK'
  BY <1>1, <1>2 DEF IInv, TypeOK
<1>4. Kept => Kept'
  BY <1>1 DEF Kept, KeptEnvelopes, KeptOwners, SentOK, EdgesIn
<1>5. \A q \in Procs : JobOK(job'[q], given', minted', carried')
  <2>1. \A q \in Procs : job[q] \in Job /\ JobOK(job[q], given, minted, carried)
    BY DEF IInv, TypeOK
  <2>2. minted \in 0 .. MaxNodes /\ minted <= minted
    BY Bounds DEF IInv, TypeOK
  <2>3. \A q \in Procs : JobOK(job[q], given, minted, carried')
    BY <2>1, <2>2, JobGrows
  <2> QED BY <2>3, <1>1, <1>2
<1>6. FreshOK'
  BY <1>1, <1>2 DEF IInv, FreshOK
<1> QED BY <1>3, <1>4, <1>5, <1>6 DEF IInv

(* A handler begins a request.                                             *)
LEMMA BeginInv ==
  ASSUME IInv, NEW p \in Procs, NEW j \in Job, Begin(p, j), JobOK(j, given, minted, carried'),
         j.fresh = SgiAllowlist, generated' \in 0 .. MaxSgis,
         carried' \subseteq Nested, BareIn(carried') => BareIn(carried),
         UNCHANGED <<database, SgiAllowlist, sent, given>>
  PROVE  IInv'
<1>1. begun' \in 0 .. MaxRequests
  BY Bounds DEF IInv, TypeOK, Begin, Free
<1>2. SetJob(p, j)
  BY DEF Begin
<1> QED BY <1>1, <1>2, JobStep

LEMMA RequestTyped ==
  ASSUME TypeOK, NEW kind \in {"root", "create", "patch", "link", "unlink"}, NEW u \in Users,
         NEW todo \in SUBSET [ad : AuthzData, perms : SUBSET Perms], NEW b \in Batch
  PROVE  Request(kind, u, todo, b) \in Job
BY Bounds DEF Request, Job, TypeOK

(* The batch of each kind of request is a batch.                           *)
LEMMA ListBatch ==
  ASSUME NEW list \in Seq(ListEntry), NEW links \in SUBSET (Refs \X Refs)
  PROVE  NewBatch(list, links) \in Batch
BY DEF NewBatch, Batch, ListEntry

LEMMA PutUserNodeInv ==
  ASSUME IInv, NEW p \in Procs, NEW u \in Users, NEW perms \in RootPerms,
         PutUserNode(p, u, perms)
  PROVE  IInv'
<1> DEFINE t == CHOOSE t \in Temps : TRUE
           e == [own |-> u, sgi |-> generated + 1, perms |-> perms]
           list == << [uid |-> t, env |-> e] >>
           b == NewBatch(list, {})
           j == Request("root", u, {}, b)
<1>1. t \in Temps /\ perms \in SUBSET Perms
  BY ConstantsOK
<1>2. generated + 1 \in Sgis /\ generated' \in 0 .. MaxSgis
  BY Bounds DEF IInv, TypeOK, PutUserNode, GenerateSgi, Sgis
<1>3. e \in Env
  BY <1>1, <1>2 DEF Env
<1>4. b \in Batch
  <2>1. [uid |-> t, env |-> e] \in ListEntry
    BY <1>1, <1>3 DEF ListEntry
  <2> HIDE DEF t, e
  <2>2. list \in Seq(ListEntry)
    BY <2>1
  <2> QED BY <2>2, ListBatch
<1>5. j \in Job
  BY <1>4, RequestTyped DEF IInv
<1>6. JobOK(j, given, minted, carried)
  <2> HIDE DEF t, e
  <2>1. Len(list) = 1 /\ DOMAIN list = {1} /\ list[1] = [uid |-> t, env |-> e]
    OBVIOUS
  <2>2. e.own = u
    BY DEF e
  <2> HIDE DEF list
  <2> QED BY <1>1, <2>1, <2>2 DEF Request, NewBatch, JobOK, NewOK, RootOK, CreateOK, PatchOK, EdgesOK, ReplyOK
<1>7. Begin(p, j) /\ UNCHANGED <<database, SgiAllowlist, sent, given, carried>>
  BY DEF PutUserNode, RootBatch
<1>8. j.fresh = SgiAllowlist
  BY DEF Request
<1> HIDE DEF j
<1>9. carried' \subseteq Nested
  BY <1>7 DEF IInv, TypeOK
<1> QED BY <1>2, <1>5, <1>6, <1>7, <1>8, <1>9, BeginInv

(* A check that a request passes entitles its caller.                      *)
LEMMA MayUseEntitles ==
  ASSUME NEW j, NEW ad, ad.uid \in 1 .. minted, ad.env = given[ad.uid], NEW ps,
         MayUse(j.user, ad.env, ps), SgiAllowlist \subseteq j.fresh, NEW c \in ps
  PROVE  By(j, ad.uid, c, given, minted)
<1>1. \/ j.user = ad.env.own
      \/ j.user \in Sys
      \/ <<j.user, ad.env.sgi>> \in j.fresh /\ c \in ad.env.perms
  BY DEF MayUse, HasRequiredPermissions
<1> QED BY <1>1 DEF By

LEMMA PutNodesInv ==
  ASSUME IInv, NEW p \in Procs, NEW u \in Users, NEW ad \in sent[u], NEW list \in CreateLists,
         NEW resetSgi \in BOOLEAN, PutNodes(p, u, ad, list, resetSgi)
  PROVE  IInv'
<1> DEFINE sgi == IF resetSgi THEN generated + 1 ELSE ad.env.sgi
           Made(i) == [uid |-> list[i].uid,
                       env |-> [own |-> u, sgi |-> sgi, perms |-> list[i].perms]]
           new == [i \in DOMAIN list |-> Made(i)]
           links == InnerLinks(list) \union ParentEdges(ad.uid, list)
           b == NewBatch(new, links)
           j == Request("create", u, {}, b)
<1>1. /\ ad \in AuthzData /\ ad.uid \in Uids /\ ad.env \in Env
      /\ ad.env.sgi \in Sgis \union {NoSgi}
      /\ BareIn(carried) => ad.uid \in 1 .. minted /\ ad.env = given[ad.uid]
  BY DEF IInv, TypeOK, Kept, SentOK, AuthzData, Env
<1>2. generated' \in 0 .. MaxSgis /\ sgi \in Sgis \union {NoSgi}
  BY <1>1, Bounds DEF IInv, TypeOK, PutNodes, GenerateSgi, Sgis
<1>3. /\ list \in Seq(NewNode) /\ list # <<>> /\ Len(list) \in Nat
      /\ DOMAIN list = 1 .. Len(list)
  BY ConstantsOK
<1>4. \A i \in DOMAIN list : /\ list[i] \in NewNode /\ list[i].uid \in Temps
                             /\ list[i].e \subseteq Temps /\ list[i].perms \in SUBSET Perms
  <2>1. \A i \in DOMAIN list : list[i] \in NewNode
    BY <1>3
  <2>2. \A i \in DOMAIN list : list[i].uid \in Temps /\ list[i].e \subseteq Temps
    BY DEF PutNodes, CheckUidsArePlaceholders
  <2> QED BY <2>1, <2>2 DEF NewNode
<1>5. new \in Seq(ListEntry)
  <2>1. \A i \in 1 .. Len(list) : Made(i) \in ListEntry
    BY <1>2, <1>3, <1>4 DEF Env, ListEntry
  <2> HIDE DEF Made
  <2> QED BY <2>1, <1>3
<1>6. /\ DOMAIN new = DOMAIN list /\ Defined(new) = Defined(list)
      /\ \A i \in DOMAIN list : /\ new[i].uid = list[i].uid /\ new[i].env.own = u
                                /\ new[i].env.sgi = sgi
  BY DEF Defined
<1>7. \A l \in InnerLinks(list) : l[1] \in Defined(list) /\ l[2] \in Temps
  BY <1>4 DEF InnerLinks, Defined
<1>8. Defined(list) \subseteq Temps /\ list[1].uid \in Defined(list)
  BY <1>3, <1>4 DEF Defined
<1>9. ParentLinks(list) \subseteq Defined(list)
  BY <1>8 DEF ParentLinks
<1>10. \A l \in ParentEdges(ad.uid, list) : l[1] = ad.uid /\ l[2] \in Temps
  BY <1>8, <1>9 DEF ParentEdges
<1>11. \A x \in Defined(list) : \E y \in Uids \union Defined(list) : <<y, x>> \in links
  <2> SUFFICES ASSUME NEW x \in Defined(list)
               PROVE  \E y \in Uids \union Defined(list) : <<y, x>> \in links
    OBVIOUS
  <2>1. CASE x \in {l[2] : l \in InnerLinks(list)}
    <3>1. PICK l \in InnerLinks(list) : x = l[2]
      BY <2>1
    <3>2. l = <<l[1], x>>
      BY <3>1 DEF InnerLinks
    <3> QED BY <3>1, <3>2, <1>7
  <2>2. CASE x \notin {l[2] : l \in InnerLinks(list)}
    <3>1. x \in ParentLinks(list)
      BY <2>2 DEF ParentLinks
    <3>2. <<ad.uid, x>> \in ParentEdges(ad.uid, list)
      BY <3>1 DEF ParentEdges
    <3> QED BY <3>2, <1>1
  <2> QED BY <2>1, <2>2
<1>12. links \in SUBSET (Refs \X Refs)
  <2>1. InnerLinks(list) \subseteq Refs \X Refs
    BY <1>4 DEF InnerLinks, Refs
  <2>2. ParentEdges(ad.uid, list) \subseteq Refs \X Refs
    BY <1>1, <1>8, <1>9 DEF ParentEdges, Refs
  <2> QED BY <2>1, <2>2
<1>13. b \in Batch /\ b.list = new /\ b.links = links
       /\ b.below = {} /\ b.owned = {} /\ b.top = {} /\ b.nested = {}
  <2> HIDE DEF new, links
  <2>1. b \in Batch
    BY <1>5, <1>12, ListBatch
  <2> QED BY <2>1 DEF NewBatch
<1> HIDE DEF b
<1>14. /\ j \in Job /\ j.kind = "create" /\ j.pc = "mutate" /\ j.user = u /\ j.batch = b
       /\ j.todo = {} /\ j.fresh = SgiAllowlist
  BY <1>13, RequestTyped DEF IInv, Request
<1>15. Begin(p, j) /\ MayUse(u, ad.env, {"o"})
       /\ UNCHANGED <<database, SgiAllowlist, sent, given, carried>>
  BY DEF PutNodes, CreateBatch, b
<1> HIDE DEF j, new, links, sgi
<1>16. BareIn(carried) => By(j, ad.uid, "o", given, minted)
  BY <1>1, <1>14, <1>15, MayUseEntitles
<1>17. NewOK(j, given, minted, carried)
  <2>1. \A l \in links : /\ l[1] \in Uids \union Defined(new) /\ l[2] \in Temps
                         /\ BareIn(carried) /\ l[1] \in Uids => By(j, l[1], "o", given, minted)
    BY <1>1, <1>6, <1>7, <1>8, <1>10, <1>16, TempsAreNoUids DEF links
  <2>2. \A i \in DOMAIN new : new[i].uid \in Temps /\ new[i].env.own = u
                              /\ new[i].env.sgi = new[1].env.sgi
    BY <1>3, <1>4, <1>6
  <2> QED BY <2>1, <2>2, <1>13, <1>14 DEF NewOK
<1>18. CreateOK(j)
  BY <1>6, <1>11, <1>13, <1>14 DEF CreateOK
<1>19. JobOK(j, given, minted, carried)
  BY <1>14, <1>17, <1>18 DEF JobOK, RootOK, PatchOK, EdgesOK, ReplyOK
<1>20. carried' \subseteq Nested
  BY <1>15 DEF IInv, TypeOK
<1> QED BY <1>2, <1>14, <1>15, <1>19, <1>20, BeginInv

LEMMA PatchNodesInv ==
  ASSUME IInv, NEW p \in Procs, NEW u \in Users, NEW ad \in sent[u], NEW nested \in NestedLists,
         NEW body \in Bodies \union {ad.env}, PatchNodes(p, u, ad, body, nested)
  PROVE  IInv'
<1> DEFINE b == PatchBatch(ad.uid, body, nested)
           j == Request("patch", u, {}, b)
<1>1. /\ ad \in AuthzData /\ ad.uid \in Uids /\ ad.env \in Env
      /\ BareIn(carried) => ad.uid \in 1 .. minted /\ ad.env = given[ad.uid]
  BY DEF IInv, TypeOK, Kept, SentOK, AuthzData
<1>2. /\ body \in Env /\ body.own = ad.env.own /\ body.sgi = ad.env.sgi
      /\ body.perms = ad.env.perms /\ MayUse(u, ad.env, {"w"})
  BY <1>1, ConstantsOK DEF PatchNodes, AuthzDataUnpackNode, AuthzFieldsAreEqual
<1>3. body = ad.env
  BY <1>1, <1>2 DEF Env
<1>4. \A x \in nested : /\ x \in Nested /\ x.uid \in Refs /\ x.env \in Env /\ x.parent \in Refs
                        /\ x.sets \in SUBSET Fields /\ x.user \in Users
                        /\ x.via \in {"e", "below", "nodes", "shr"}
  <2>1. nested \subseteq Nested
    BY ConstantsOK
  <2> QED BY <2>1 DEF Nested
<1>5. /\ b.list = <<>> /\ b.links = {<<ad.uid, x.uid>> : x \in Via(nested, "e")}
      /\ b.below = {<<x.parent, x.uid>> : x \in Via(nested, "below")}
      /\ b.owned = {<<x.user, x.uid>> : x \in Via(nested, "nodes")}
      /\ b.top = {ListedWrite(ad.uid, body)}
      /\ b.nested = {[uid |-> x.uid, env |-> x.env, sets |-> x.sets] :
                       x \in {y \in nested : y.sets # {} \/ y.uid \notin Uids}}
  BY DEF PatchBatch
<1>6. /\ b.links \in SUBSET (Refs \X Refs) /\ b.below \in SUBSET (Refs \X Refs)
      /\ b.owned \in SUBSET (Users \X Refs)
  BY <1>1, <1>4, <1>5 DEF Refs, Via
<1>7. b.top \in SUBSET Write /\ b.nested \in SUBSET Write
  <2>1. ListedWrite(ad.uid, body) \in Write
    BY <1>1, <1>2 DEF Write, ListedWrite, Refs
  <2>2. b.nested \in SUBSET Write
    BY <1>4, <1>5 DEF Write
  <2> QED BY <2>1, <2>2, <1>5
<1>8. b \in Batch
  BY <1>6, <1>7 DEF Batch, PatchBatch
<1>9. \A x \in nested : x.uid \in Uids => x.uid \in 1 .. minted
  <2>1. \A x \in nested : x.uid \notin (minted + 1) .. MaxNodes
    BY DEF PatchNodes
  <2>2. minted \in Nat
    BY Bounds DEF IInv, TypeOK
  <2> QED BY <2>1, <2>2, Bounds DEF Uids
<1> HIDE DEF b
<1>10. /\ j \in Job /\ j.kind = "patch" /\ j.pc = "mutate" /\ j.user = u /\ j.batch = b
       /\ j.todo = {} /\ j.fresh = SgiAllowlist
  BY <1>8, RequestTyped DEF IInv, Request
<1>11. Begin(p, j) /\ generated' \in 0 .. MaxSgis /\ carried' = carried \union nested
       /\ UNCHANGED <<database, SgiAllowlist, sent, given>>
  BY DEF PatchNodes, b, IInv, TypeOK
<1> HIDE DEF j
<1>12. (\A l \in b.links : l[1] \in Uids) /\ \A l \in b.below : l[1] \in Uids \union Named(b)
  <2>1. \A l \in b.links : l[1] \in Uids
    BY <1>1, <1>5
  <2>2. ASSUME NEW x \in nested, x.via = "below" PROVE x.parent \in Uids \union Named(b)
    <3>1. PICK z \in nested : z.uid = x.parent /\ z.via # "below"
      BY <2>2, ConstantsOK
    <3>2. CASE z.via = "e"
      <4>1. <<ad.uid, z.uid>> \in b.links /\ <<ad.uid, z.uid>>[2] = z.uid
        BY <3>2, <1>5 DEF Via
      <4> QED BY <3>1, <4>1 DEF Named
    <3>3. CASE z.via = "nodes"
      <4>1. <<z.user, z.uid>> \in b.owned /\ <<z.user, z.uid>>[2] = z.uid
        BY <3>3, <1>5 DEF Via
      <4> QED BY <3>1, <4>1 DEF Named
    <3>4. CASE z.uid \notin Uids
      <4> DEFINE w == [uid |-> z.uid, env |-> z.env, sets |-> z.sets]
      <4>1. w \in b.nested /\ w.uid = z.uid
        BY <3>4, <1>5
      <4> HIDE DEF w
      <4> QED BY <3>1, <4>1 DEF Named
    <3> QED BY <1>4, <3>1, <3>2, <3>3, <3>4
  <2> QED BY <2>1, <2>2, <1>5 DEF Via
<1>13. ASSUME BareIn(carried') PROVE PatchBare(j, given, minted)
  <2>1. BareIn(carried) /\ \A x \in nested : x.via = "e" /\ x.uid # Unassigned /\ x.sets = {}
    BY <1>11, <1>13 DEF BareIn
  <2>2. b.below = {} /\ b.owned = {}
    BY <2>1, <1>5 DEF Via
  <2>3. \A l \in b.links : /\ l[1] \in 1 .. minted /\ l[2] # Unassigned
                           /\ l[2] \in Uids => l[2] \in 1 .. minted
    BY <2>1, <1>1, <1>5, <1>9 DEF Via
  <2>4. ASSUME NEW w \in b.nested PROVE w.uid \notin Uids /\ \E l \in b.links : l[2] = w.uid
    <3>1. PICK x \in nested : x.uid \notin Uids /\ w.uid = x.uid
      BY <2>1, <1>5
    <3>2. <<ad.uid, x.uid>> \in b.links /\ <<ad.uid, x.uid>>[2] = w.uid
      BY <2>1, <3>1, <1>5 DEF Via
    <3> QED BY <3>1, <3>2
  <2>5. \A w \in b.top : w.uid = ad.uid /\ w.env = body /\ w.sets = Fields
    BY <1>5 DEF ListedWrite
  <2>6. By(j, ad.uid, "w", given, minted)
    BY <2>1, <1>1, <1>2, <1>10, MayUseEntitles
  <2> QED BY <2>1, <2>2, <2>3, <2>4, <2>5, <2>6, <1>1, <1>3, <1>10 DEF PatchBare
<1>14. PatchOK(j, given, minted, carried')
  BY <1>5, <1>10, <1>12, <1>13 DEF PatchOK
<1>15. JobOK(j, given, minted, carried')
  BY <1>10, <1>14 DEF JobOK, NewOK, RootOK, CreateOK, EdgesOK, ReplyOK
<1>16. carried' \subseteq Nested /\ (BareIn(carried') => BareIn(carried))
  BY <1>4, <1>11 DEF IInv, TypeOK, BareIn
<1> QED BY <1>10, <1>11, <1>15, <1>16, BeginInv

LEMMA EdgesInv ==
  ASSUME IInv, NEW p \in Procs, NEW kind \in {"link", "unlink"}, NEW u \in Users,
         NEW subjects \in SUBSET sent[u], NEW incoming \in SUBSET sent[u],
         NEW outgoing \in SUBSET sent[u], Edges(p, kind, u, subjects, incoming, outgoing)
  PROVE  IInv'
<1> DEFINE b == EdgeBatch(subjects, incoming, outgoing)
           todo == EdgeChecks(subjects, incoming, outgoing)
           j == Request(kind, u, todo, b)
<1>1. \A ad \in subjects \union incoming \union outgoing :
        /\ ad \in AuthzData /\ ad.uid \in Uids
        /\ BareIn(carried) => ad.uid \in 1 .. minted /\ ad.env = given[ad.uid]
  BY DEF IInv, TypeOK, Kept, SentOK, AuthzData
<1>2. b.links \subseteq Uids \X Uids
  BY <1>1 DEF EdgeBatch, NewBatch
<1>3. /\ b.list = <<>> /\ b.below = {} /\ b.owned = {} /\ b.top = {} /\ b.nested = {}
      /\ b.links = {<<x.uid, y.uid>> : x \in incoming, y \in subjects}
                   \union {<<x.uid, y.uid>> : x \in subjects, y \in outgoing}
  BY DEF EdgeBatch, NewBatch
<1>4. b \in Batch
  <2>1. b.links \in SUBSET (Refs \X Refs) /\ <<>> \in Seq(ListEntry)
    BY <1>2 DEF Refs
  <2>2. b = NewBatch(<<>>, b.links)
    BY DEF EdgeBatch, NewBatch
  <2> QED BY <2>1, <2>2, ListBatch
<1>5. /\ todo \in SUBSET [ad : AuthzData, perms : SUBSET Perms] /\ todo # {}
      /\ BareIn(carried) => \A t \in todo : t.ad.uid \in 1 .. minted /\ t.ad.env = given[t.ad.uid]
  <2>1. ASSUME NEW t \in todo
        PROVE  \E x \in subjects \union incoming \union outgoing, ps \in SUBSET Perms :
                 t = [ad |-> x, perms |-> ps]
    BY DEF EdgeChecks, Perms
  <2>2. todo # {}
    BY DEF EdgeChecks, Edges, EdgesValid
  <2> HIDE DEF todo
  <2>3. ASSUME NEW t \in todo
        PROVE  /\ t \in [ad : AuthzData, perms : SUBSET Perms]
               /\ BareIn(carried) => t.ad.uid \in 1 .. minted /\ t.ad.env = given[t.ad.uid]
    BY <2>1, <1>1
  <2> QED BY <2>2, <2>3
<1>6. /\ \A x \in incoming : \E t \in todo : t.ad.uid = x.uid /\ "o" \in t.perms
      /\ \A x \in outgoing : \E t \in todo : t.ad.uid = x.uid /\ "i" \in t.perms
  <2>1. ASSUME NEW x \in incoming PROVE [ad |-> x, perms |-> {"o"}] \in todo
    BY DEF EdgeChecks
  <2>2. ASSUME NEW x \in outgoing PROVE [ad |-> x, perms |-> {"i"}] \in todo
    BY DEF EdgeChecks
  <2> HIDE DEF todo
  <2>3. \A x, c : [ad |-> x, perms |-> {c}].ad = x /\ c \in [ad |-> x, perms |-> {c}].perms
    OBVIOUS
  <2> QED BY <2>1, <2>2, <2>3
<1>7. \A x \in subjects : /\ incoming # {} => \E t \in todo : t.ad.uid = x.uid /\ "i" \in t.perms
                          /\ outgoing # {} => \E t \in todo : t.ad.uid = x.uid /\ "o" \in t.perms
  <2> SUFFICES ASSUME NEW x \in subjects
               PROVE  /\ incoming # {} => \E t \in todo : t.ad.uid = x.uid /\ "i" \in t.perms
                      /\ outgoing # {} => \E t \in todo : t.ad.uid = x.uid /\ "o" \in t.perms
    OBVIOUS
  <2> DEFINE ps == (IF incoming # {} THEN {"i"} ELSE {}) \union (IF outgoing # {} THEN {"o"} ELSE {})
             t == [ad |-> x, perms |-> ps]
  <2>1. t \in todo
    BY DEF EdgeChecks
  <2>2. t.ad = x /\ t.perms = ps /\ (incoming # {} => "i" \in ps) /\ (outgoing # {} => "o" \in ps)
    OBVIOUS
  <2> HIDE DEF t, ps, todo
  <2> QED BY <2>1, <2>2
<1> HIDE DEF b, todo
<1>8. /\ j \in Job /\ j.kind = kind /\ j.pc = "unpack" /\ j.user = u /\ j.batch = b
      /\ j.todo = todo /\ j.fresh = SgiAllowlist
  BY <1>4, <1>5, RequestTyped DEF IInv, Request
<1>9. Begin(p, j) /\ generated' \in 0 .. MaxSgis
      /\ UNCHANGED <<database, SgiAllowlist, sent, given, carried>>
  BY DEF Edges, b, todo, IInv, TypeOK
<1> HIDE DEF j
<1>10. \A l \in b.links : EndOK(j, l[1], "o", given, minted) /\ EndOK(j, l[2], "i", given, minted)
  <2> SUFFICES ASSUME NEW l \in b.links
               PROVE  /\ \E t \in todo : t.ad.uid = l[1] /\ "o" \in t.perms
                      /\ \E t \in todo : t.ad.uid = l[2] /\ "i" \in t.perms
    BY <1>8 DEF EndOK
  <2>1. CASE \E x \in incoming, y \in subjects : l = <<x.uid, y.uid>>
    BY <2>1, <1>6, <1>7
  <2>2. CASE \E x \in subjects, y \in outgoing : l = <<x.uid, y.uid>>
    BY <2>2, <1>6, <1>7
  <2> QED BY <2>1, <2>2, <1>3
<1>11. EdgesOK(j, given, minted, carried)
  BY <1>2, <1>3, <1>5, <1>8, <1>10 DEF EdgesOK
<1>12. JobOK(j, given, minted, carried)
  BY <1>8, <1>11 DEF JobOK, NewOK, RootOK, CreateOK, PatchOK, ReplyOK
<1>13. carried' \subseteq Nested
  BY <1>9 DEF IInv, TypeOK
<1> QED BY <1>8, <1>9, <1>12, <1>13, BeginInv

LEMMA UnpackADInv ==
  ASSUME IInv, NEW p \in Procs, UnpackAD(p)
  PROVE  IInv'
<1>1. PICK c \in job[p].todo :
        SetJob(p, IF MayUse(job[p].user, c.ad.env, c.perms)
                  THEN [job[p] EXCEPT !.todo = @ \ {c},
                                      !.pc = IF job[p].todo = {c} THEN "mutate" ELSE @]
                  ELSE IdleJob)
  BY DEF UnpackAD
<1>2. /\ UNCHANGED <<database, SgiAllowlist, sent, given, carried>> /\ generated' \in 0 .. MaxSgis
      /\ begun' \in 0 .. MaxRequests /\ carried' \subseteq Nested /\ job[p].pc = "unpack"
  BY DEF UnpackAD, IInv, TypeOK
<1>3. CASE ~MayUse(job[p].user, c.ad.env, c.perms)
  <2>1. SetJob(p, IdleJob) /\ IdleJob.pc = "idle"
    BY <1>1, <1>3 DEF IdleJob
  <2> QED BY <2>1, <1>2, IdleJobOK, JobStep
<1>4. CASE MayUse(job[p].user, c.ad.env, c.perms)
  <2> DEFINE o == job[p]
             j == [o EXCEPT !.todo = @ \ {c}, !.pc = IF o.todo = {c} THEN "mutate" ELSE @]
  <2>1. SetJob(p, j)
    BY <1>1, <1>4
  <2>2. o \in Job /\ JobOK(o, given, minted, carried) /\ SgiAllowlist \subseteq o.fresh /\ o.pc = "unpack"
    BY <1>2 DEF IInv, TypeOK, FreshOK
  <2> HIDE DEF o
  <2>3. /\ j \in Job /\ j.pc \in {"unpack", "mutate"} /\ j.kind = o.kind /\ j.user = o.user
        /\ j.batch = o.batch /\ j.todo = o.todo \ {c} /\ j.fresh = o.fresh
        /\ j.pc # "unpack" => j.todo = {}
    BY <2>2 DEF Job
  <2> HIDE DEF j
  <2>5. \A n, a : By(o, n, a, given, minted) => By(j, n, a, given, minted)
    BY <2>3 DEF By
  <2>6. NewOK(j, given, minted, carried) /\ RootOK(j) /\ CreateOK(j) /\ PatchOK(j, given, minted, carried)
    BY <2>2, <2>3, <2>5 DEF JobOK, NewOK, RootOK, CreateOK, PatchOK, PatchBare
  <2>7. EdgesOK(j, given, minted, carried)
    <3> SUFFICES ASSUME j.kind \in {"link", "unlink"} PROVE EdgesOK(j, given, minted, carried)
      BY DEF EdgesOK
    <3>1. EdgesOK(o, given, minted, carried) /\ o.kind \in {"link", "unlink"}
      BY <2>2, <2>3 DEF JobOK
    <3>2. BareIn(carried) => c.ad.uid \in 1 .. minted /\ c.ad.env = given[c.ad.uid]
      BY <3>1 DEF EdgesOK, o
    <3>3. BareIn(carried) => \A a \in c.perms : By(j, c.ad.uid, a, given, minted)
      BY <1>4, <2>2, <2>3, <3>2, MayUseEntitles DEF o
    <3>4. BareIn(carried) =>
            \A n, a : EndOK(o, n, a, given, minted) => EndOK(j, n, a, given, minted)
      BY <2>3, <2>5, <3>3 DEF EndOK
    <3> QED BY <2>3, <3>1, <3>4 DEF EdgesOK
  <2>8. JobOK(j, given, minted, carried)
    BY <2>2, <2>3, <2>6, <2>7 DEF JobOK, ReplyOK
  <2> QED BY <1>2, <2>1, <2>2, <2>3, <2>8, JobStep
<1> QED BY <1>3, <1>4
-----------------------------------------------------------------------------
(* The mutation.                                                           *)

(* Dgraph gives the nodes of a list of distinct placeholders new uids in   *)
(* the order of the list.                                                  *)
LEMMA ResolveNew ==
  ASSUME NEW b \in Batch, NEW base \in Nat, Distinct(b.list),
         \A i \in DOMAIN b.list : b.list[i].uid \in Temps
  PROVE  \A i \in DOMAIN b.list : Resolve(b, base, b.list[i].uid) = base + i
<1> SUFFICES ASSUME NEW i \in DOMAIN b.list PROVE Resolve(b, base, b.list[i].uid) = base + i
  OBVIOUS
<1>1. b.list[i].uid \notin Uids /\ b.list[i].uid \in Defined(b.list)
  BY TempsAreNoUids DEF Defined
<1>2. (CHOOSE k \in DOMAIN b.list : b.list[k].uid = b.list[i].uid) = i
  BY DEF Distinct
<1> QED BY <1>1, <1>2 DEF Resolve

LEMMA ResolveTyped ==
  ASSUME NEW b \in Batch, NEW base \in Nat, Distinct(b.list), NEW k \in Nat, k <= MaxNodes,
         \A i \in DOMAIN b.list : b.list[i].uid \in Temps, base + Len(b.list) <= k,
         NEW x, x \in Uids \union Defined(b.list) \/ base + Len(b.list) + 1 <= k
  PROVE  /\ Resolve(b, base, x) \in Uids
         /\ (x \in Uids => x \in 1 .. k) => Resolve(b, base, x) \in 1 .. k
<1>1. b.list \in Seq(ListEntry) /\ Len(b.list) \in Nat /\ DOMAIN b.list = 1 .. Len(b.list)
  <2>1. b.list \in Seq(ListEntry)
    BY DEF Batch, ListEntry
  <2> QED BY <2>1
<1>2. CASE x \in Uids
  BY <1>2 DEF Resolve
<1>3. CASE x \notin Uids /\ x \in Defined(b.list)
  <2>1. PICK i \in DOMAIN b.list : x = b.list[i].uid
    BY <1>3 DEF Defined
  <2>2. Resolve(b, base, x) = base + i
    BY <2>1, ResolveNew
  <2> QED BY <1>1, <2>1, <2>2, Bounds DEF Uids
<1>4. CASE x \notin Uids /\ x \notin Defined(b.list)
  <2>1. Resolve(b, base, x) = base + Len(b.list) + 1
    BY <1>4 DEF Resolve
  <2> QED BY <1>1, <1>4, <2>1, Bounds DEF Uids
<1> QED BY <1>2, <1>3, <1>4

LEMMA MergeTyped ==
  ASSUME NEW old \in Env, NEW ws \in SUBSET Write
  PROVE  Merge(old, ws) \in Env
<1>1. CASE ws = {}
  BY <1>1 DEF Merge
<1>2. CASE ws # {}
  <2> DEFINE w == CHOOSE w \in ws : TRUE
  <2>1. w \in Write
    BY <1>2
  <2> HIDE DEF w
  <2>2. w.env \in Env
    BY <2>1 DEF Write
  <2>3. Merge(old, ws) = [own   |-> IF "own" \in w.sets THEN w.env.own ELSE old.own,
                          sgi   |-> IF "sgi" \in w.sets THEN w.env.sgi ELSE old.sgi,
                          perms |-> IF "perms" \in w.sets THEN w.env.perms ELSE old.perms]
    BY <1>2 DEF Merge, w
  <2> QED BY <2>2, <2>3 DEF Env
<1> QED BY <1>1, <1>2

(* A write of an envelope as a whole leaves that envelope.                 *)
LEMMA MergeWhole ==
  ASSUME NEW old, NEW ws, ws # {}, \A w \in ws : w \in Write /\ w.sets = Fields
  PROVE  \E w \in ws : Merge(old, ws) = w.env
<1> DEFINE w == CHOOSE w \in ws : TRUE
<1>1. w \in ws /\ w \in Write /\ w.sets = Fields
  OBVIOUS
<1> HIDE DEF w
<1>2. w.env \in Env
  BY <1>1 DEF Write
<1>3. w.env = [own |-> w.env.own, sgi |-> w.env.sgi, perms |-> w.env.perms]
  BY <1>2 DEF Env
<1>4. Merge(old, ws) = [own |-> w.env.own, sgi |-> w.env.sgi, perms |-> w.env.perms]
  BY <1>1 DEF Merge, w, Fields
<1> QED BY <1>1, <1>3, <1>4

(* The transaction of an upsert keeps what the requests rest on.           *)
LEMMA CommitKeeps ==
  ASSUME IInv, NEW p \in Procs, job[p].pc = "mutate", job[p].kind \in {"root", "create", "patch"},
         checkUpsertNodeList(job[p].batch), Commit(p)
  PROVE  /\ env' \in [Uids -> Env] /\ edges' \subseteq Uids \X Uids /\ minted' \in 0 .. MaxNodes
         /\ given' \in [Uids -> Env] /\ minted <= minted'
         /\ \A n \in 1 .. minted : given'[n] = given[n]
         /\ BareIn(carried) => KeptEnvelopes' /\ KeptOwners' /\ EdgesIn'
         /\ Distinct(job[p].batch.list) /\ minted + Len(job[p].batch.list) <= minted'
         /\ \A i \in DOMAIN job[p].batch.list : job[p].batch.list[i].env = given'[minted + i]
         /\ \A x \in Named(job[p].batch) : Resolve(job[p].batch, minted, x) \in Uids
<1> DEFINE o == job[p]
           b == job[p].batch
           list == b.list
           top == minted + Len(list) + (IF Undefined(b) = {} THEN 0 ELSE 1)
           Of(n) == EntryOf(b, minted, n)
<1>1. /\ TypeOK /\ o \in Job /\ b \in Batch /\ JobOK(o, given, minted, carried) /\ o.pc # "idle"
      /\ minted \in Nat /\ minted <= MaxNodes
  BY Bounds DEF IInv, TypeOK, Job
<1>2. /\ list \in Seq(ListEntry) /\ b.top \in SUBSET Write /\ b.nested \in SUBSET Write
  BY <1>1 DEF Batch, ListEntry
<1>3. Len(list) \in Nat /\ DOMAIN list = 1 .. Len(list)
  BY <1>2
<1>4. NewOK(o, given, minted, carried) /\ PatchOK(o, given, minted, carried) /\ o.user # NoUser
  BY <1>1, ConstantsOK DEF JobOK
<1>5. \A i \in DOMAIN list : list[i].uid \in Temps /\ list[i].env.own # NoUser /\ list[i].env \in Env
  <2>1. \A i \in DOMAIN list : list[i].env \in Env
    <3>1. list \in Seq(ListEntry)
      BY <1>2
    <3> HIDE DEF list
    <3>2. \A i \in DOMAIN list : list[i] \in ListEntry
      BY <3>1
    <3> QED BY <3>2 DEF ListEntry
  <2>2. CASE o.kind \in {"root", "create"}
    BY <2>1, <2>2, <1>4 DEF NewOK
  <2>3. CASE o.kind = "patch"
    BY <2>3, <1>4 DEF PatchOK
  <2> QED BY <2>2, <2>3
<1>6. Distinct(list) /\ \A l \in b.links : l[2] \in Uids \union {Unassigned} \union Defined(list)
  BY DEF checkUpsertNodeList, Distinct
<1>7. /\ top <= MaxNodes /\ minted' = top
      /\ env' = [n \in Uids |->
           IF Of(n) # {} THEN list[CHOOSE i \in Of(n) : TRUE].env
           ELSE Merge(env[n], WritesTo(b, minted, n))]
      /\ edges' = edges \union ResolveLinks(b, minted, b.links \union b.below)
      /\ given' = [n \in Uids |-> IF n \in (minted + 1) .. top THEN env'[n] ELSE given[n]]
  BY DEF Commit
<1>8. /\ top \in Nat /\ minted + Len(list) <= top /\ minted <= top
      /\ Undefined(b) = {} => top = minted + Len(list)
      /\ Undefined(b) # {} => top = minted + Len(list) + 1
  <2>1. CASE Undefined(b) = {}
    <3>1. top = minted + Len(list) + 0
      BY <2>1
    <3> HIDE DEF top, list
    <3> QED BY <2>1, <3>1, <1>1, <1>3
  <2>2. CASE Undefined(b) # {}
    <3>1. top = minted + Len(list) + 1
      BY <2>2
    <3> HIDE DEF top, list
    <3> QED BY <2>2, <3>1, <1>1, <1>3
  <2> QED BY <2>1, <2>2
<1> HIDE DEF top, list, b, o
<1>9. \A i \in DOMAIN list : Resolve(b, minted, list[i].uid) = minted + i
  BY <1>1, <1>5, <1>6, ResolveNew DEF list
<1>10. /\ \A n : \A i \in Of(n) : i \in DOMAIN list /\ n = minted + i
       /\ \A i \in DOMAIN list : i \in Of(minted + i)
  BY <1>9 DEF EntryOf, list
<1> HIDE DEF Of
<1>11. \A i \in DOMAIN list : minted + i \in (minted + 1) .. top /\ minted + i \in Uids
  BY <1>1, <1>3, <1>7, <1>8, Bounds DEF Uids
<1>12. ASSUME NEW n \in Uids, Of(n) # {}
       PROVE  env'[n] \in Env /\ env'[n].own # NoUser
  <2>1. (CHOOSE i \in Of(n) : TRUE) \in DOMAIN list
    BY <1>10, <1>12
  <2> QED BY <2>1, <1>5, <1>7, <1>12
<1>13. ASSUME NEW i \in DOMAIN list
       PROVE  env'[minted + i] = list[i].env
  <2>1. \A k \in Of(minted + i) : k = i
    BY <1>1, <1>3, <1>10
  <2>2. i \in Of(minted + i)
    BY <1>10
  <2>3. (CHOOSE k \in Of(minted + i) : TRUE) = i
    BY <2>1, <2>2
  <2> QED BY <2>2, <2>3, <1>7, <1>11
<1>14. ASSUME NEW n \in Uids, Of(n) = {}
       PROVE  env'[n] = Merge(env[n], WritesTo(b, minted, n))
  BY <1>7, <1>14
<1>15. \A n \in Uids : env'[n] \in Env
  <2> TAKE n \in Uids
  <2>1. CASE Of(n) # {}
    BY <2>1, <1>12
  <2>2. CASE Of(n) = {}
    <3>1. env[n] \in Env
      BY <1>1 DEF TypeOK
    <3>2. WritesTo(b, minted, n) \in SUBSET Write
      BY <1>2 DEF WritesTo
    <3> QED BY <2>2, <3>1, <3>2, <1>14, MergeTyped
  <2> QED BY <2>1, <2>2
<1>16. env' \in [Uids -> Env]
  BY <1>7, <1>15
<1>17. given' \in [Uids -> Env] /\ \A n \in 1 .. minted : given'[n] = given[n]
  <2>1. \A n \in Uids : given[n] \in Env
    BY <1>1 DEF TypeOK
  <2>2. \A n \in 1 .. minted : n \in Uids /\ n \notin (minted + 1) .. top
    BY <1>1, <1>7, <1>8, Bounds DEF Uids
  <2> QED BY <2>1, <2>2, <1>7, <1>15
<1>18. ASSUME NEW x \in Uids \union Defined(list) \union Named(b)
       PROVE  /\ Resolve(b, minted, x) \in Uids
              /\ (x \in Uids => x \in 1 .. minted) => Resolve(b, minted, x) \in 1 .. top
  <2>1. x \in Uids \union Defined(list) \/ minted + Len(list) + 1 <= top
    BY <1>1, <1>3, <1>8 DEF Undefined, list
  <2>2. (x \in Uids => x \in 1 .. minted) => (x \in Uids => x \in 1 .. top)
    BY <1>1, <1>8
  <2> QED BY <1>1, <1>5, <1>6, <1>7, <1>8, <2>1, <2>2, ResolveTyped DEF list
<1>19. \A l \in b.links \union b.below :
         /\ l[1] \in Uids \union Defined(list) \union Named(b)
         /\ l[2] \in Named(b)
  <2>1. CASE o.kind \in {"root", "create"}
    BY <2>1, <1>4 DEF NewOK, Named, list, o, b
  <2>2. CASE o.kind = "patch"
    BY <2>2, <1>4 DEF PatchOK, Named, list, o, b
  <2> QED BY <2>1, <2>2 DEF o
<1>20. edges' \subseteq Uids \X Uids
  BY <1>1, <1>7, <1>18, <1>19 DEF ResolveLinks, TypeOK
<1>21. ASSUME BareIn(carried)
       PROVE  /\ Undefined(b) = {} /\ b.nested = {}
              /\ \A w \in b.top : w \in Write /\ w.uid \in Uids /\ w.env = given[w.uid]
                                  /\ w.sets = Fields
              /\ \A l \in b.links \union b.below :
                   (l[1] \in Uids => l[1] \in 1 .. minted) /\ (l[2] \in Uids => l[2] \in 1 .. minted)
  <2>1. CASE o.kind \in {"root", "create"}
    <3>1. /\ b.below = {} /\ b.owned = {} /\ b.top = {} /\ b.nested = {}
          /\ \A l \in b.links : l[2] \in Temps /\ (l[1] \in Uids => By(o, l[1], "o", given, minted))
      BY <2>1, <1>4, <1>21 DEF NewOK, b, o
    <3>2. \A l \in b.links : l[2] \notin Uids /\ l[2] \in Defined(list)
      BY <3>1, <1>6, ConstantsOK
    <3>3. Undefined(b) = {}
      BY <3>1, <3>2 DEF Undefined, Named, list
    <3> QED BY <3>1, <3>2, <3>3 DEF By
  <2>2. CASE o.kind = "patch"
    <3>1. PatchBare(o, given, minted) /\ list = <<>>
      BY <2>2, <1>4, <1>21 DEF PatchOK, list, b, o
    <3>2. \A l \in b.links : l[2] \in Uids
      <4>1. Defined(list) = {}
        BY <3>1 DEF Defined
      <4> QED BY <4>1, <3>1, <1>6 DEF PatchBare, b, o
    <3>3. b.nested = {} /\ b.below = {} /\ b.owned = {}
      BY <3>1, <3>2 DEF PatchBare, b, o
    <3>4. Undefined(b) = {}
      BY <3>2, <3>3 DEF Undefined, Named
    <3>5. 1 .. minted \subseteq Uids
      BY <1>1, Bounds DEF Uids
    <3> QED BY <3>1, <3>2, <3>3, <3>4, <3>5, <1>2 DEF PatchBare, b, o
  <2> QED BY <2>1, <2>2 DEF o
<1>22. ASSUME BareIn(carried) PROVE EdgesIn'
  <2>1. \A l \in edges : l[1] \in 1 .. top /\ l[2] \in 1 .. top
    <3>1. 1 .. minted \subseteq 1 .. top
      BY <1>1, <1>8
    <3> QED BY <3>1, <1>22 DEF IInv, Kept, EdgesIn
  <2>2. \A l \in b.links \union b.below :
          Resolve(b, minted, l[1]) \in 1 .. top /\ Resolve(b, minted, l[2]) \in 1 .. top
    BY <1>18, <1>19, <1>21, <1>22
  <2>3. \A l \in edges' : l[1] \in 1 .. top /\ l[2] \in 1 .. top
    BY <2>1, <2>2, <1>7 DEF ResolveLinks
  <2> QED BY <2>3, <1>7 DEF EdgesIn
<1>23. ASSUME BareIn(carried), NEW n \in 1 .. minted
       PROVE  env'[n] = env[n] /\ env[n] = given[n]
  <2>1. n \in Uids /\ n \notin (minted + 1) .. top
    BY <1>1, <1>7, <1>8, Bounds DEF Uids
  <2>2. env[n] = given[n]
    BY <1>23 DEF IInv, Kept, KeptEnvelopes
  <2>3. Of(n) = {}
    BY <1>10, <1>11, <2>1
  <2> DEFINE ws == WritesTo(b, minted, n)
  <2>4. env'[n] = Merge(env[n], ws)
    BY <2>1, <2>3, <1>14
  <2>5. \A w \in ws : w \in Write /\ w.env = given[n] /\ w.sets = Fields
    BY <1>21, <1>23 DEF WritesTo, Resolve
  <2> HIDE DEF ws
  <2>6. CASE ws = {}
    BY <2>2, <2>4, <2>6 DEF Merge
  <2>7. CASE ws # {}
    <3>1. \E w \in ws : Merge(env[n], ws) = w.env
      BY <2>5, <2>7, MergeWhole
    <3> QED BY <3>1, <2>2, <2>4, <2>5
  <2> QED BY <2>6, <2>7
<1>24. ASSUME BareIn(carried) PROVE KeptEnvelopes' /\ KeptOwners'
  <2> SUFFICES ASSUME NEW n \in 1 .. top PROVE env'[n] = given'[n] /\ env'[n].own # NoUser
    BY <1>7 DEF KeptEnvelopes, KeptOwners
  <2>1. CASE n \in 1 .. minted
    <3>1. env'[n] = given'[n]
      BY <2>1, <1>17, <1>23, <1>24
    <3>2. env[n].own # NoUser
      BY <2>1, <1>24 DEF IInv, Kept, KeptOwners
    <3> QED BY <3>1, <3>2, <2>1, <1>23, <1>24
  <2>2. CASE n \notin 1 .. minted
    <3>1. n \in (minted + 1) .. top /\ n \in Uids /\ n - minted \in 1 .. Len(list)
          /\ minted + (n - minted) = n
      BY <2>2, <1>1, <1>3, <1>7, <1>8, <1>21, <1>24, Bounds DEF Uids
    <3>2. env'[n] = given'[n]
      BY <3>1, <1>7
    <3>3. Of(n) # {}
      BY <3>1, <1>3, <1>10
    <3> QED BY <3>1, <3>2, <3>3, <1>12
  <2> QED BY <2>1, <2>2
<1>25. \A i \in DOMAIN list : list[i].env = given'[minted + i]
  BY <1>7, <1>11, <1>13
<1>26. minted' \in 0 .. MaxNodes /\ minted <= minted' /\ minted + Len(list) <= minted'
  BY <1>7, <1>8, Bounds
<1>27. \A x \in Named(b) : Resolve(b, minted, x) \in Uids
  BY <1>18
<1>28. BareIn(carried) => KeptEnvelopes' /\ KeptOwners' /\ EdgesIn'
  BY <1>22, <1>24, Zenon
<1> QED BY <1>6, <1>16, <1>17, <1>20, <1>25, <1>26, <1>27, <1>28, Zenon DEF list, b

(* A mutation that commits or not: the database part and the request's.    *)
LEMMA AnswerStep ==
  ASSUME IInv, NEW p \in Procs, NEW ok \in BOOLEAN, Answer(p, ok), job[p].pc = "mutate",
         env' \in [Uids -> Env], edges' \subseteq Uids \X Uids, minted' \in 0 .. MaxNodes,
         nodes' \in [Users -> SUBSET Uids], given' \in [Uids -> Env],
         minted <= minted', \A n \in 1 .. minted : given'[n] = given[n],
         BareIn(carried) => KeptEnvelopes' /\ KeptOwners' /\ EdgesIn',
         ok => /\ Distinct(job[p].batch.list) /\ minted + Len(job[p].batch.list) <= minted'
               /\ \A i \in DOMAIN job[p].batch.list :
                    job[p].batch.list[i].env = given'[minted + i],
         UNCHANGED <<generated, SgiAllowlist, sent, begun, carried>>
  PROVE  IInv'
<1> DEFINE o == job[p]
           j == [o EXCEPT !.pc = "reply", !.ok = ok, !.base = minted]
<1>1. TypeOK /\ o \in Job /\ JobOK(o, given, minted, carried) /\ minted \in 0 .. MaxNodes
      /\ SgiAllowlist \subseteq o.fresh
  BY DEF IInv, TypeOK, FreshOK
<1>2. SetJob(p, j)
  BY DEF Answer
<1> HIDE DEF o
<1>3. /\ j \in Job /\ j.pc = "reply" /\ j.ok = ok /\ j.base = minted /\ j.kind = o.kind
      /\ j.user = o.user /\ j.batch = o.batch /\ j.todo = o.todo /\ j.fresh = o.fresh
  BY <1>1 DEF Job
<1> HIDE DEF j
<1>4. JobOK(o, given', minted', carried')
  BY <1>1, JobGrows
<1>5. \A n, c : By(o, n, c, given', minted') => By(j, n, c, given', minted')
  BY <1>3 DEF By
<1>6. \A n, c : EndOK(o, n, c, given', minted') => EndOK(j, n, c, given', minted')
  BY <1>3, <1>5 DEF EndOK
<1>7. o.pc = "mutate"
  BY DEF o
<1>8. NewOK(j, given', minted', carried') /\ RootOK(j) /\ CreateOK(j)
  BY <1>3, <1>4, <1>5, <1>7 DEF JobOK, NewOK, RootOK, CreateOK
<1>9. PatchOK(j, given', minted', carried')
  <2>1. PatchBare(o, given', minted') => PatchBare(j, given', minted')
    BY <1>3, <1>5 DEF PatchBare
  <2> QED BY <1>3, <1>4, <1>7, <2>1 DEF JobOK, PatchOK
<1>10. EdgesOK(j, given', minted', carried')
  BY <1>3, <1>4, <1>6, <1>7 DEF JobOK, EdgesOK
<1>11. ReplyOK(j, given', minted')
  BY <1>3 DEF ReplyOK, o
<1>12. JobOK(j, given', minted', carried')
  BY <1>3, <1>4, <1>7, <1>8, <1>9, <1>10, <1>11 DEF JobOK
<1>13. job' \in [Procs -> Job] /\ \A q \in Procs : job'[q] = job[q] \/ job'[q] = j
  BY <1>1, <1>2, <1>3 DEF TypeOK, SetJob
<1>14. \A q \in Procs : JobOK(job'[q], given', minted', carried')
  <2>1. \A q \in Procs : job[q] \in Job /\ JobOK(job[q], given, minted, carried)
    BY <1>1 DEF IInv, TypeOK
  <2>2. \A q \in Procs : JobOK(job[q], given', minted', carried')
    BY <2>1, <1>1, JobGrows
  <2> QED BY <2>2, <1>12, <1>13
<1>15. TypeOK'
  BY <1>1, <1>13 DEF TypeOK
<1>16. BareIn(carried) => SentOK'
  <2>1. 1 .. minted \subseteq 1 .. minted'
    BY <1>1, Bounds
  <2> QED BY <2>1 DEF IInv, Kept, SentOK
<1>17. FreshOK'
  BY <1>1, <1>3, <1>13 DEF IInv, FreshOK
<1>18. BareIn(carried) => Kept'
  BY <1>16 DEF Kept
<1> QED BY <1>14, <1>15, <1>17, <1>18 DEF IInv

(* A mutation that does not touch what AnswerStep is about.                *)
LEMMA UnwrittenInv ==
  ASSUME IInv, NEW p \in Procs, job[p].pc = "mutate", Unwritten(p),
         UNCHANGED <<generated, SgiAllowlist, sent, begun, carried>>
  PROVE  IInv'
<1>1. Answer(p, FALSE) /\ UNCHANGED <<env, edges, nodes, minted, given>>
  BY DEF Unwritten, database
<1>2. /\ env' \in [Uids -> Env] /\ edges' \subseteq Uids \X Uids /\ minted' \in 0 .. MaxNodes
      /\ nodes' \in [Users -> SUBSET Uids] /\ given' \in [Uids -> Env] /\ minted <= minted'
  BY <1>1, Bounds DEF IInv, TypeOK
<1>3. BareIn(carried) => KeptEnvelopes' /\ KeptOwners' /\ EdgesIn'
  BY <1>1 DEF IInv, Kept, KeptEnvelopes, KeptOwners, EdgesIn
<1> QED BY <1>1, <1>2, <1>3, AnswerStep

LEMMA UpsertNodesInv ==
  ASSUME IInv, NEW p \in Procs, UpsertNodes(p)
  PROVE  IInv'
<1> DEFINE b == job[p].batch
           Owned(u) == {Resolve(b, minted, o[2]) : o \in {o \in b.owned : o[1] = u}}
<1>1. /\ job[p].pc = "mutate" /\ job[p].kind \in {"root", "create", "patch"}
      /\ UNCHANGED <<generated, SgiAllowlist, sent, begun, carried>>
  BY DEF UpsertNodes
<1>2. CASE Unwritten(p)
  BY <1>1, <1>2, UnwrittenInv
<1>3. CASE ~Unwritten(p)
  <2>1. /\ checkUpsertNodeList(b) /\ Commit(p) /\ \E ok \in BOOLEAN : Answer(p, ok)
        /\ nodes' = [u \in Users |-> nodes[u] \union Owned(u)]
    BY <1>3 DEF UpsertNodes
  <2>2. PICK ok \in BOOLEAN : Answer(p, ok)
    BY <2>1
  <2>3. \A x \in Named(b) : Resolve(b, minted, x) \in Uids
    BY <1>1, <2>1, CommitKeeps
  <2>4. \A u \in Users : Owned(u) \subseteq Uids
    BY <2>3 DEF Named
  <2> HIDE DEF Owned
  <2>5. nodes' \in [Users -> SUBSET Uids]
    BY <2>1, <2>4 DEF IInv, TypeOK
  <2> QED BY <1>1, <2>1, <2>2, <2>5, CommitKeeps, AnswerStep
<1> QED BY <1>2, <1>3

LEMMA UpsertUserNodeInv ==
  ASSUME IInv, NEW p \in Procs, UpsertUserNode(p)
  PROVE  IInv'
<1>1. /\ job[p].pc = "mutate" /\ job[p].kind = "root"
      /\ UNCHANGED <<generated, SgiAllowlist, sent, begun, carried>>
  BY DEF UpsertUserNode
<1>2. CASE Unwritten(p)
  BY <1>1, <1>2, UnwrittenInv
<1>3. CASE /\ Commit(p) /\ \E ok \in BOOLEAN : Answer(p, ok)
           /\ nodes' = [nodes EXCEPT ![job[p].user] = @ \union {minted + 1}]
  <2>1. PICK ok \in BOOLEAN : Answer(p, ok)
    BY <1>3
  <2>2. job[p] \in Job /\ job[p].batch.list \in Seq(ListEntry)
        /\ minted \in Nat /\ minted <= MaxNodes
    <3>1. job[p] \in Job /\ minted \in Nat /\ minted <= MaxNodes
      BY Bounds DEF IInv, TypeOK
    <3>2. job[p].batch \in Batch
      BY <3>1 DEF Job
    <3> QED BY <3>1, <3>2 DEF Batch, ListEntry
  <2>3. job[p].batch.links = {} /\ Len(job[p].batch.list) = 1 /\ job[p].user \in Users
    BY <1>1 DEF IInv, JobOK, RootOK
  <2>4. checkUpsertNodeList(job[p].batch)
    <3>1. DOMAIN job[p].batch.list = {1}
      BY <2>2, <2>3
    <3> QED BY <2>3, <3>1 DEF checkUpsertNodeList
  <2>5. minted' \in 0 .. MaxNodes /\ minted + Len(job[p].batch.list) <= minted'
    BY <1>1, <1>3, <2>4, CommitKeeps
  <2>6. minted + 1 \in Uids
    BY <2>2, <2>3, <2>5, Bounds DEF Uids
  <2>7. nodes' \in [Users -> SUBSET Uids]
    BY <1>3, <2>3, <2>6 DEF IInv, TypeOK
  <2> QED BY <1>1, <1>3, <2>1, <2>4, <2>7, CommitKeeps, AnswerStep
<1> QED BY <1>2, <1>3 DEF UpsertUserNode

LEMMA UpdateEdgesInv ==
  ASSUME IInv, NEW p \in Procs, UpdateEdges(p)
  PROVE  IInv'
<1> DEFINE j == job[p]
<1>1. /\ j.pc = "mutate" /\ j.kind \in {"link", "unlink"}
      /\ UNCHANGED <<generated, SgiAllowlist, sent, begun, carried>>
  BY DEF UpdateEdges
<1>2. CASE Unwritten(p)
  BY <1>1, <1>2, UnwrittenInv
<1>3. CASE ~Unwritten(p)
  <2>1. PICK ok \in BOOLEAN : Answer(p, ok)
    BY <1>3 DEF UpdateEdges
  <2>2. /\ edges' \subseteq edges \union j.batch.links
        /\ UNCHANGED <<env, nodes, minted, given>>
    BY <1>3 DEF UpdateEdges
  <2>3. EdgesOK(j, given, minted, carried) /\ j.todo = {}
    BY <1>1 DEF IInv, JobOK
  <2>4. j.batch.links \in SUBSET (Refs \X Refs)
    BY DEF IInv, TypeOK, Job, Batch
  <2> HIDE DEF j
  <2>5. /\ j.batch.list = <<>> /\ \A l \in j.batch.links : l[1] \in Uids /\ l[2] \in Uids
        /\ BareIn(carried) => \A l \in j.batch.links : l[1] \in 1 .. minted /\ l[2] \in 1 .. minted
    BY <1>1, <2>3 DEF EdgesOK, EndOK, By
  <2>6. edges' \subseteq Uids \X Uids
    BY <2>2, <2>4, <2>5 DEF IInv, TypeOK
  <2>7. /\ env' \in [Uids -> Env] /\ minted' \in 0 .. MaxNodes /\ minted \in Nat
        /\ nodes' \in [Users -> SUBSET Uids] /\ given' \in [Uids -> Env] /\ minted <= minted'
    BY <2>2, Bounds DEF IInv, TypeOK
  <2>8. BareIn(carried) => KeptEnvelopes' /\ KeptOwners' /\ EdgesIn'
    BY <2>2, <2>5 DEF IInv, Kept, KeptEnvelopes, KeptOwners, EdgesIn
  <2>9. /\ Distinct(j.batch.list) /\ minted + Len(j.batch.list) <= minted'
        /\ \A i \in DOMAIN j.batch.list : j.batch.list[i].env = given'[minted + i]
    BY <2>2, <2>5, <2>7 DEF Distinct
  <2> QED BY <1>1, <2>1, <2>2, <2>6, <2>7, <2>8, <2>9, AnswerStep DEF j
<1> QED BY <1>2, <1>3

(* What the caller is told of the nodes it created.                        *)
LEMMA CreatedNodesAre ==
  ASSUME NEW j \in Job, Distinct(j.batch.list),
         \A i \in DOMAIN j.batch.list : j.batch.list[i].uid \in Temps
  PROVE  \A i \in DOMAIN j.batch.list :
           CreatedNodes(j)[j.batch.list[i].uid] = [uid |-> j.base + i, env |-> j.batch.list[i].env]
<1> SUFFICES ASSUME NEW i \in DOMAIN j.batch.list
             PROVE  CreatedNodes(j)[j.batch.list[i].uid]
                      = [uid |-> j.base + i, env |-> j.batch.list[i].env]
  OBVIOUS
<1>1. j.batch \in Batch /\ j.base \in Nat
  BY Bounds DEF Job
<1>2. Resolve(j.batch, j.base, j.batch.list[i].uid) = j.base + i
  BY <1>1, ResolveNew
<1>3. (CHOOSE k \in DOMAIN j.batch.list : j.batch.list[k].uid = j.batch.list[i].uid) = i
  BY DEF Distinct
<1>4. j.batch.list[i].uid \in Defined(j.batch.list)
  BY DEF Defined
<1> QED BY <1>2, <1>3, <1>4 DEF CreatedNodes

(* The nodes of a list are new ones, whatever the request.                 *)
LEMMA ListTemps ==
  ASSUME NEW j \in Job, NEW g, NEW k, NEW c, JobOK(j, g, k, c), j.pc # "idle"
  PROVE  \A i \in DOMAIN j.batch.list : j.batch.list[i].uid \in Temps
<1>1. j.kind \in {"root", "create", "patch", "link", "unlink"}
  BY DEF JobOK, Job
<1> QED BY <1>1 DEF JobOK, NewOK, PatchOK, EdgesOK

LEMMA ReplyInv ==
  ASSUME IInv, NEW p \in Procs, Reply(p)
  PROVE  IInv'
<1> DEFINE j == job[p]
           list == j.batch.list
           told == {CreatedNodes(j)[t] : t \in Defined(list)}
<1>1. /\ j.pc = "reply" /\ SetJob(p, IdleJob)
      /\ sent' = IF j.ok THEN [sent EXCEPT ![j.user] = @ \union told] ELSE sent
      /\ UNCHANGED <<env, edges, nodes, minted, generated, SgiAllowlist, begun, given, carried>>
  BY DEF Reply, database
<1>2. TypeOK /\ j \in Job /\ JobOK(j, given, minted, carried) /\ minted \in 0 .. MaxNodes
  BY DEF IInv, TypeOK
<1>3. list \in Seq(ListEntry) /\ j.base \in 0 .. MaxNodes /\ j.user \in Users
      /\ ReplyOK(j, given, minted)
  BY <1>1, <1>2 DEF Job, Batch, JobOK, ListEntry
<1> HIDE DEF j
<1>4. \A i \in DOMAIN list : list[i].env \in Env
  <2>1. list \in Seq(ListEntry)
    BY <1>3
  <2> HIDE DEF list
  <2>2. \A i \in DOMAIN list : list[i] \in ListEntry
    BY <2>1
  <2> QED BY <2>2 DEF ListEntry
<1>5. ASSUME j.ok, NEW ad \in told
      PROVE  ad \in AuthzData /\ ad.uid \in 1 .. minted /\ ad.env = given[ad.uid]
  <2>1. PICK i \in DOMAIN list : ad = CreatedNodes(j)[list[i].uid]
    BY DEF Defined
  <2>2. /\ Distinct(list) /\ j.base + Len(list) <= minted /\ list[i].env = given[j.base + i]
    BY <1>1, <1>3, <1>5 DEF ReplyOK
  <2>3. \A k \in DOMAIN list : list[k].uid \in Temps
    BY <1>1, <1>2, ListTemps
  <2>4. ad = [uid |-> j.base + i, env |-> list[i].env]
    BY <1>2, <2>1, <2>2, <2>3, CreatedNodesAre
  <2>5. j.base + i \in Uids /\ j.base + i \in 1 .. minted
    <3>1. Len(list) \in Nat /\ DOMAIN list = 1 .. Len(list)
      BY <1>3
    <3> QED BY <3>1, <1>2, <1>3, <2>2, Bounds DEF Uids
  <2> QED BY <2>2, <2>4, <2>5, <1>4 DEF AuthzData
<1> HIDE DEF told, list
<1>6. ASSUME j.ok
      PROVE  sent' \in [Users -> SUBSET AuthzData] /\ (SentOK => SentOK')
  <2>1. \A u \in Users : sent'[u] = IF u = j.user THEN sent[u] \union told ELSE sent[u]
    BY <1>6, <1>1, <1>2 DEF TypeOK
  <2>2. \A ad \in told : ad \in AuthzData /\ ad.uid \in 1 .. minted /\ ad.env = given[ad.uid]
    BY <1>5, <1>6
  <2>3. sent' \in [Users -> SUBSET AuthzData]
    BY <1>6, <1>1, <1>2, <2>2 DEF TypeOK
  <2>4. SentOK => SentOK'
    BY <1>1, <2>1, <2>2 DEF SentOK
  <2> QED BY <2>3, <2>4
<1>7. ASSUME ~j.ok
      PROVE  sent' \in [Users -> SUBSET AuthzData] /\ (SentOK => SentOK')
  <2>1. sent' = sent
    BY <1>1, <1>7
  <2>2. sent' \in [Users -> SUBSET AuthzData]
    BY <2>1, <1>2 DEF TypeOK
  <2>3. SentOK => SentOK'
    BY <1>1, <2>1 DEF SentOK
  <2> QED BY <2>2, <2>3
<1>8. sent' \in [Users -> SUBSET AuthzData] /\ (SentOK => SentOK')
  BY <1>6, <1>7, Zenon
<1>9. job' \in [Procs -> Job] /\ \A q \in Procs : job'[q] = job[q] \/ job'[q] = IdleJob
  BY <1>1, <1>2, IdleJobOK DEF TypeOK, SetJob
<1>10. TypeOK'
  BY <1>1, <1>2, <1>8, <1>9 DEF TypeOK
<1>11. Kept => Kept'
  BY <1>1, <1>8 DEF Kept, KeptEnvelopes, KeptOwners, EdgesIn
<1>12. \A q \in Procs : JobOK(job'[q], given', minted', carried')
  BY <1>1, <1>9, IdleJobOK DEF IInv
<1>13. FreshOK'
  BY <1>1, <1>9 DEF IInv, FreshOK, IdleJob
<1> QED BY <1>1, <1>10, <1>11, <1>12, <1>13 DEF IInv
-----------------------------------------------------------------------------
(* The rest of the server.                                                 *)

LEMMA PostNodesInv ==
  ASSUME IInv, NEW u \in Users, PostNodes(u)
  PROVE  IInv'
<1> DEFINE served == {n \in 1 .. minted : MayRead(u, env[n])}
           under == {l[2] : l \in {l \in edges : l[1] \in served}}
           told == {[uid |-> n, env |-> env[n]] : n \in served \union under}
<1>1. /\ sent' = [sent EXCEPT ![u] = @ \union told] /\ job' = job
      /\ UNCHANGED <<env, edges, nodes, minted, generated, SgiAllowlist, begun, given, carried>>
  BY DEF PostNodes, database
<1>2. ASSUME NEW ad \in told
      PROVE  /\ ad \in AuthzData
             /\ Kept => ad.uid \in 1 .. minted /\ ad.env = given[ad.uid]
  <2>1. PICK n \in served \union under : ad = [uid |-> n, env |-> env[n]]
    OBVIOUS
  <2>2. n \in Uids /\ (Kept => n \in 1 .. minted)
    <3>1. CASE n \in served
      BY <3>1, Bounds DEF IInv, TypeOK, Uids
    <3>2. CASE n \in under
      BY <3>2 DEF IInv, TypeOK, Kept, EdgesIn
    <3> QED BY <3>1, <3>2
  <2>3. env[n] \in Env /\ (Kept => env[n] = given[n])
    BY <2>2 DEF IInv, TypeOK, Kept, KeptEnvelopes
  <2> HIDE DEF served, under
  <2> QED BY <2>1, <2>2, <2>3 DEF AuthzData
<1> HIDE DEF told
<1>3. \A v \in Users : sent'[v] = IF v = u THEN sent[v] \union told ELSE sent[v]
  BY <1>1 DEF IInv, TypeOK
<1>4. sent' \in [Users -> SUBSET AuthzData]
  BY <1>1, <1>2 DEF IInv, TypeOK
<1>5. Kept => SentOK'
  <2> SUFFICES ASSUME Kept, NEW v \in Users, NEW ad \in sent'[v]
               PROVE  ad.uid \in 1 .. minted /\ ad.env = given[ad.uid]
    BY <1>1 DEF SentOK
  <2>1. ad \in sent[v] \/ ad \in told
    BY <1>3
  <2> QED BY <2>1, <1>2 DEF Kept, SentOK
<1>6. TypeOK'
  BY <1>1, <1>4 DEF IInv, TypeOK
<1>7. FreshOK' /\ (Kept => Kept')
  BY <1>1, <1>5 DEF IInv, Kept, KeptEnvelopes, KeptOwners, EdgesIn, FreshOK
<1> QED BY <1>1, <1>6, <1>7 DEF IInv

LEMMA GrantInv ==
  ASSUME IInv, NEW u \in Users, NEW g \in Sgis, Grant(u, g)
  PROVE  IInv'
<1>1. /\ SgiAllowlist' = SgiAllowlist \union {<<u, g>>} /\ sent' = sent
      /\ job' = [p \in Procs |-> IF job[p].pc = "idle" THEN job[p]
                                 ELSE [job[p] EXCEPT !.fresh = @ \union {<<u, g>>}]]
      /\ UNCHANGED <<env, edges, nodes, minted, generated, begun, given, carried>>
  BY DEF Grant, database
<1>2. TypeOK /\ \A p \in Procs : job[p] \in Job /\ JobOK(job[p], given, minted, carried)
  BY DEF IInv, TypeOK
<1>3. ASSUME NEW o \in Job, JobOK(o, given, minted, carried)
      PROVE  LET j == [o EXCEPT !.fresh = @ \union {<<u, g>>}]
             IN j \in Job /\ JobOK(j, given, minted, carried) /\ j.pc = o.pc
                /\ j.fresh = o.fresh \union {<<u, g>>}
  <2> DEFINE j == [o EXCEPT !.fresh = @ \union {<<u, g>>}]
  <2>1. /\ j \in Job /\ j.pc = o.pc /\ j.ok = o.ok /\ j.base = o.base /\ j.kind = o.kind
        /\ j.user = o.user /\ j.batch = o.batch /\ j.todo = o.todo
        /\ j.fresh = o.fresh \union {<<u, g>>}
    BY DEF Job
  <2> HIDE DEF j
  <2>2. \A n, c : By(o, n, c, given, minted) => By(j, n, c, given, minted)
    BY <2>1 DEF By
  <2>3. \A n, c : EndOK(o, n, c, given, minted) => EndOK(j, n, c, given, minted)
    BY <2>1, <2>2 DEF EndOK
  <2>4. CASE o.pc # "idle"
    <3>1. NewOK(j, given, minted, carried) /\ RootOK(j) /\ CreateOK(j)
      BY <1>3, <2>1, <2>2, <2>4 DEF JobOK, NewOK, RootOK, CreateOK
    <3>2. PatchOK(j, given, minted, carried)
      BY <1>3, <2>1, <2>2, <2>4 DEF JobOK, PatchOK, PatchBare
    <3>3. EdgesOK(j, given, minted, carried)
      BY <1>3, <2>1, <2>3, <2>4 DEF JobOK, EdgesOK
    <3>4. ReplyOK(j, given, minted)
      BY <1>3, <2>1, <2>4 DEF JobOK, ReplyOK
    <3>5. JobOK(j, given, minted, carried)
      BY <1>3, <2>1, <2>4, <3>1, <3>2, <3>3, <3>4 DEF JobOK
    <3> QED BY <2>1, <3>5 DEF j
  <2>5. CASE o.pc = "idle"
    <3>1. JobOK(j, given, minted, carried)
      BY <2>1, <2>5 DEF JobOK
    <3> QED BY <2>1, <3>1 DEF j
  <2> QED BY <2>4, <2>5
<1>4. \A p \in Procs : /\ job'[p] \in Job /\ JobOK(job'[p], given, minted, carried)
                       /\ job'[p].pc # "idle" => SgiAllowlist' \subseteq job'[p].fresh
  <2> TAKE p \in Procs
  <2>1. CASE job[p].pc = "idle"
    <3>1. job'[p] = job[p]
      BY <1>1, <2>1
    <3> QED BY <3>1, <2>1, <1>2
  <2>2. CASE job[p].pc # "idle"
    <3> DEFINE j == [job[p] EXCEPT !.fresh = @ \union {<<u, g>>}]
    <3>1. job'[p] = j
      BY <1>1, <2>2
    <3>2. j \in Job /\ JobOK(j, given, minted, carried) /\ j.fresh = job[p].fresh \union {<<u, g>>}
      BY <1>2, <1>3
    <3> HIDE DEF j
    <3>3. SgiAllowlist \subseteq job[p].fresh
      BY <2>2 DEF IInv, FreshOK
    <3> QED BY <3>1, <3>2, <3>3, <1>1
  <2> QED BY <2>1, <2>2
<1>5. job' \in [Procs -> Job]
  <2>1. job' = [p \in Procs |-> job'[p]]
    BY <1>1
  <2> QED BY <2>1, <1>4
<1>6. TypeOK'
  BY <1>1, <1>2, <1>5 DEF TypeOK
<1>7. Kept => Kept'
  BY <1>1 DEF IInv, Kept, KeptEnvelopes, KeptOwners, SentOK, EdgesIn
<1>8. FreshOK'
  BY <1>4 DEF FreshOK
<1> QED BY <1>1, <1>4, <1>6, <1>7, <1>8 DEF IInv

LEMMA WithdrawInv ==
  ASSUME IInv, NEW u \in Users, NEW g \in Sgis, Withdraw(u, g)
  PROVE  IInv'
<1>1. /\ SgiAllowlist' = SgiAllowlist \ {<<u, g>>}
      /\ UNCHANGED <<env, edges, nodes, minted, generated, sent, job, begun, given, carried>>
  BY DEF Withdraw, database
<1>2. TypeOK'
  BY <1>1 DEF IInv, TypeOK
<1>3. FreshOK' /\ (Kept => Kept')
  BY <1>1 DEF IInv, Kept, KeptEnvelopes, KeptOwners, SentOK, EdgesIn, FreshOK
<1> QED BY <1>1, <1>2, <1>3 DEF IInv

LEMMA NextInv == IInv /\ [Next]_vars => IInv'
<1> SUFFICES ASSUME IInv, [Next]_vars PROVE IInv'
  OBVIOUS
<1>1. CASE UNCHANGED vars
  <2>1. UNCHANGED <<env, edges, nodes, minted, generated, SgiAllowlist, sent, job, begun, given, carried>>
    BY <1>1 DEF vars, database
  <2>2. TypeOK'
    BY <2>1 DEF IInv, TypeOK
  <2>3. FreshOK' /\ (Kept => Kept')
    BY <2>1 DEF IInv, Kept, KeptEnvelopes, KeptOwners, SentOK, EdgesIn, FreshOK
  <2> QED BY <2>1, <2>2, <2>3 DEF IInv
<1>2. ASSUME NEW p \in Procs, NEW u \in Users, NEW kind \in {"link", "unlink"},
             NEW subject \in sent[u],
             NEW incoming \in {{}} \union {{ad} : ad \in sent[u]},
             NEW outgoing \in {{}} \union {{ad} : ad \in sent[u]},
             Edges(p, kind, u, {subject}, incoming, outgoing)
      PROVE  IInv'
  <2>1. /\ {subject} \in SUBSET sent[u] /\ incoming \in SUBSET sent[u]
        /\ outgoing \in SUBSET sent[u]
    OBVIOUS
  <2> QED BY <1>2, <2>1, EdgesInv
<1>3. ASSUME NEW p \in Procs, NEW u \in Users, NEW perms \in RootPerms, PutUserNode(p, u, perms)
      PROVE  IInv'
  BY <1>3, PutUserNodeInv
<1>4. ASSUME NEW p \in Procs, NEW u \in Users, NEW ad \in sent[u], NEW list \in CreateLists,
             NEW resetSgi \in BOOLEAN, PutNodes(p, u, ad, list, resetSgi)
      PROVE  IInv'
  BY <1>4, PutNodesInv
<1>5. ASSUME NEW p \in Procs, NEW u \in Users, NEW ad \in sent[u], NEW nested \in NestedLists,
             NEW body \in Bodies \union {ad.env}, PatchNodes(p, u, ad, body, nested)
      PROVE  IInv'
  BY <1>5, PatchNodesInv
<1>6. ASSUME NEW p \in Procs,
             UnpackAD(p) \/ UpsertNodes(p) \/ UpsertUserNode(p) \/ UpdateEdges(p) \/ Reply(p)
      PROVE  IInv'
  BY <1>6, UnpackADInv, UpsertNodesInv, UpsertUserNodeInv, UpdateEdgesInv, ReplyInv
<1>7. ASSUME NEW u \in Users, PostNodes(u) PROVE IInv'
  BY <1>7, PostNodesInv
<1>8. ASSUME NEW u \in Users, NEW g \in Sgis, Grant(u, g) \/ Withdraw(u, g) PROVE IInv'
  BY <1>8, GrantInv, WithdrawInv
<1> QED BY <1>1, <1>2, <1>3, <1>4, <1>5, <1>6, <1>7, <1>8 DEF Next, Handle
-----------------------------------------------------------------------------
LEMMA Invariance == Spec => []IInv
<1> QED BY InitInv, NextInv, PTL DEF Spec

(* Every variable of GraphWrites keeps its type: no uid outside those the  *)
(* database has minted room for is written, linked or sent.                *)
THEOREM TypeCorrect == Spec => []TypeOK
<1>1. IInv => TypeOK
  BY DEF IInv
<1> QED BY <1>1, Invariance, PTL

(* As long as the objects nested in PATCH nodes have been bare e entries,  *)
(* no write has changed an envelope: what a signature says of a node is    *)
(* what the node came into being with (models.AuthzFieldsAreEqual).        *)
THEOREM EnvelopesAreKept == Spec => []EnvelopesKept
<1>1. IInv => EnvelopesKept
  BY DEF IInv, Kept, KeptEnvelopes, EnvelopesKept, BareEntries
<1> QED BY <1>1, Invariance, PTL

(* As long as the objects nested in PATCH nodes have been bare e entries,  *)
(* every node has an owner (services.checkUpsertNodeList).                 *)
THEOREM NodesHaveOwners == Spec => []NoOrphans
<1>1. IInv => NoOrphans
  BY DEF IInv, Kept, KeptOwners, NoOrphans, BareEntries
<1> QED BY <1>1, Invariance, PTL

(* As long as the objects nested in PATCH nodes have been bare e entries,  *)
(* the caller of a mutation is entitled to w on every node whose fields it *)
(* writes and, in every request but PATCH nodes, to o and i on the ends of *)
(* every edge (models.AuthzDataUnpackADString), whatever is shared,        *)
(* withdrawn and written by others while the request runs.                 *)
THEOREM OnlyAuthorisedWrites == Spec => []WritesAuthorised
<1>1. IInv => WritesAuthorised
  <2> SUFFICES ASSUME IInv, BareIn(carried), NEW p \in Procs,
                      job[p].pc \in {"mutate", "reply"}
               PROVE  /\ \A w \in job[p].batch.top \union job[p].batch.nested :
                           w.uid \in Uids => Entitled(job[p], w.uid, "w")
                      /\ job[p].kind # "patch" =>
                           \A l \in job[p].batch.links \union job[p].batch.below :
                             /\ l[1] \in Uids => Entitled(job[p], l[1], "o")
                             /\ l[2] \in Uids => Entitled(job[p], l[2], "i")
    BY DEF WritesAuthorised, BareEntries
  <2> DEFINE j == job[p]
  <2>1. j \in Job /\ JobOK(j, given, minted, carried)
    BY DEF IInv, TypeOK
  <2>2. \A n, c : By(j, n, c, given, minted) => Entitled(j, n, c)
    BY DEF By, Entitled
  <2>3. j.pc \in {"mutate", "reply"}
    OBVIOUS
  <2> HIDE DEF j
  <2>4. j.kind \in {"root", "create", "patch", "link", "unlink"} /\ j.todo = {}
    BY <2>1, <2>3 DEF JobOK, Job
  <2>5. CASE j.kind \in {"root", "create"}
    BY <2>1, <2>2, <2>3, <2>5, TempsAreNoUids DEF JobOK, NewOK, j
  <2>6. CASE j.kind = "patch"
    BY <2>1, <2>2, <2>3, <2>6 DEF JobOK, PatchOK, PatchBare, j
  <2>7. CASE j.kind \in {"link", "unlink"}
    BY <2>1, <2>2, <2>3, <2>4, <2>7 DEF JobOK, EdgesOK, EndOK, j
  <2> QED BY <2>4, <2>5, <2>6, <2>7
<1> QED BY <1>1, Invariance, PTL

(* A creation that reports success created every node of the request, and  *)
(* tells the caller of each (services.UpsertNodes, UpsertUserNode).        *)
THEOREM CreationsAreComplete == Spec => []CreationsComplete
<1>1. IInv => CreationsComplete
  <2> SUFFICES ASSUME IInv, NEW p \in Procs, job[p].pc = "reply", job[p].ok,
                      NEW i \in DOMAIN job[p].batch.list
               PROVE  LET list == job[p].batch.list
                          Made(k) == CreatedNodes(job[p])[list[k].uid].uid
                      IN /\ Made(i) \in 1 .. minted /\ list[i].env = given[Made(i)]
                         /\ list[i].env.own = job[p].user
                         /\ list[i].env.sgi = list[1].env.sgi
                         /\ \A k \in DOMAIN list : Made(i) = Made(k) => i = k
    BY DEF CreationsComplete
  <2> DEFINE j == job[p]
             list == j.batch.list
             Made(k) == CreatedNodes(j)[list[k].uid].uid
  <2>1. j \in Job /\ JobOK(j, given, minted, carried) /\ j.pc = "reply" /\ j.ok /\ minted \in 0 .. MaxNodes
    BY DEF IInv, TypeOK
  <2> HIDE DEF j
  <2>2. /\ list \in Seq(ListEntry) /\ DOMAIN list = 1 .. Len(list)
        /\ Len(list) \in Nat /\ j.base \in Nat
    <3>1. j.batch \in Batch /\ j.base \in Nat
      BY <2>1, Bounds DEF Job
    <3>2. list \in Seq(ListEntry)
      BY <3>1 DEF Batch, ListEntry
    <3> QED BY <3>1, <3>2
  <2>3. /\ Distinct(list) /\ j.base + Len(list) <= minted
        /\ \A k \in DOMAIN list : list[k].env = given[j.base + k]
    BY <2>1 DEF JobOK, ReplyOK
  <2>4. \A k \in DOMAIN list : list[k].uid \in Temps
    BY <2>1, ListTemps
  <2>5. \A k \in DOMAIN list : Made(k) = j.base + k
    <3>1. \A k \in DOMAIN list :
            CreatedNodes(j)[list[k].uid] = [uid |-> j.base + k, env |-> list[k].env]
      BY <2>1, <2>3, <2>4, CreatedNodesAre
    <3>2. ASSUME NEW k \in DOMAIN list PROVE Made(k) = j.base + k
      <4> DEFINE r == CreatedNodes(j)[list[k].uid]
      <4>1. r = [uid |-> j.base + k, env |-> list[k].env]
        BY <3>1
      <4> HIDE DEF r, list
      <4>2. r.uid = j.base + k
        BY <4>1
      <4> QED BY <4>2 DEF r
    <3> QED BY <3>2
  <2>6. i \in DOMAIN list
    BY DEF j
  <2>7. list[i].env.own = j.user /\ list[i].env.sgi = list[1].env.sgi
    BY <2>1, <2>6 DEF JobOK, Job, NewOK, PatchOK, EdgesOK
  <2> HIDE DEF list, Made
  <2>8. Made(i) \in 1 .. minted /\ list[i].env = given[Made(i)]
        /\ \A k \in DOMAIN list : Made(i) = Made(k) => i = k
    BY <2>1, <2>2, <2>3, <2>5, <2>6
  <2> QED BY <2>7, <2>8 DEF j, list, Made
<1> QED BY <1>1, Invariance, PTL

(* No new node of an acyclic PUT nodes is out of reach of its parent       *)
(* (api/graph.go, nodesLinkedFromOtherNewNodes).                           *)
THEOREM NewNodesAreReachable == Spec => []NewNodesReachable
<1>1. IInv => NewNodesReachable
  <2> SUFFICES ASSUME IInv, NEW p \in Procs, Creating(job[p]),
                      Acyclic(job[p].batch.links), NEW S \in SUBSET Temps,
                      \A l \in job[p].batch.links : l[1] \in S \union Uids => l[2] \in S
               PROVE  Defined(job[p].batch.list) \subseteq S
    BY DEF NewNodesReachable, AllReached
  <2> DEFINE b == job[p].batch
             T == Defined(b.list) \ S
  <2>1. NewOK(job[p], given, minted, carried) /\ CreateOK(job[p]) /\ job[p].kind = "create"
    BY DEF IInv, JobOK, Creating
  <2>2. Defined(b.list) \subseteq Temps
    BY <2>1 DEF NewOK, Defined
  <2>3. \A x \in Defined(b.list) : \E y \in Uids \union Defined(b.list) : <<y, x>> \in b.links
    BY <2>1 DEF CreateOK
  <2>4. Acyclic(b.links) /\ \A l \in b.links : l[1] \in S \union Uids => l[2] \in S
    OBVIOUS
  <2> HIDE DEF b
  <2>5. ASSUME T # {} PROVE FALSE
    <3>1. PICK x \in T : \A y \in T : <<y, x>> \notin b.links
      BY <2>2, <2>4, <2>5 DEF Acyclic
    <3>2. PICK y \in Uids \union Defined(b.list) : <<y, x>> \in b.links
      BY <2>3
    <3>3. <<y, x>>[1] = y /\ <<y, x>>[2] = x
      OBVIOUS
    <3> QED BY <2>4, <3>1, <3>2, <3>3
  <2> QED BY <2>5 DEF b
<1> QED BY <1>1, Invariance, PTL
=============================================================================
