---------------------------- MODULE SharingProofs ----------------------------
(***************************************************************************)
(* Proofs about sharing, for any number of request goroutines, users,      *)
(* nodes and groups, with or without failing mutations and restarts.  What *)
(* is said of grants and of the nodes of a response holds until a listing  *)
(* carries a search or a PATCH nodes a shr list (AsDocumented).  Types,    *)
(* the second look of AuthzDataPack and the answers to listings do not     *)
(* depend on that.                                                         *)
(***************************************************************************)
EXTENDS Sharing, TLAPS

(* The inductive invariant.  A grant is made from the nodes a request      *)
(* carries, and those come from a share request's checked list or from the *)
(* database, so both must be known to stem from authorised shares, at      *)
(* every step of every request.  The parts that need AsDocumented are      *)
(* implications: it is false for good once it is false, so that a step     *)
(* finds it as it was or has nothing more to show.                         *)

EdgesReached == AsDocumented => \A u \in Users : shr[u] \subseteq reached[u]

ReachedRooted == AsDocumented => \A u \in Users : \A n \in reached[u] : Sgi[n] \in rooted

(* What a request knows at each of its steps.                              *)
JobKnows(j) ==
  /\ j.pc # "idle" => j.user \in Users
  /\ j.pc \in {"mutate", "update"} => j.kind \in {"share", "unshare"}
  /\ AsDocumented /\ j.pc = "unpack" /\ j.kind = "share" =>
       \A n \in j.nodes \ j.todo : Owner[n] = j.user \/ j.user \in Sys \/ Sgi[n] \in rooted
  /\ j.pc \in {"mutate", "update"} /\ j.kind = "share" =>
       \A t \in j.targets : j.nodes \subseteq reached[t]
  /\ AsDocumented /\ j.pc = "prime" => j.nodes \subseteq reached[j.user]

(* What it has put in its response, and what it noted.                     *)
JobServes(j) ==
  /\ j.pc # "pack" => j.out = {} /\ j.below = {}
  /\ j.pc \in {"prime", "pack"} => SgiAllowlist[j.user] \subseteq j.fresh
  /\ \A n \in j.out :
       \/ Owner[n] = j.user
       \/ j.user \in Sys
       \/ /\ ReadPerm[n] = "true" /\ Sgi[n] \in j.fresh
          /\ j.user \in Users /\ (AsDocumented => Origin(j.user, Sgi[n]))
  /\ \A m \in j.below : \E n \in j.out : m \in OutEdges(n)

JobsOK == \A p \in Procs : JobKnows(job[p]) /\ JobServes(job[p])

OriginsOK == GrantsHaveOrigin

IInv == TypeOK /\ EdgesReached /\ ReachedRooted /\ OriginsOK /\ JobsOK

LEMMA IdleJobTyped == IdleJob \in Job
BY DEF IdleJob, Job

LEMMA InitEstablishesIInv == Init => IInv
BY ConstantsOK, IdleJobTyped
   DEF Init, IInv, TypeOK, EdgesReached, ReachedRooted, OriginsOK, GrantsHaveOrigin, JobsOK,
       JobKnows, JobServes, IdleJob

-----------------------------------------------------------------------------
(* Most steps only move one request on, from job[p] to j.                  *)
LEMMA MoveOn ==
  ASSUME IInv, NEW p \in Procs, NEW j \in Job, SetJob(p, j),
         UNCHANGED <<SgiAllowlist, restarts, history>>,
         AsDocumented => \A u \in Users : shr'[u] \subseteq reached[u], shr' \in [Users -> SUBSET Nodes],
         JobKnows(j), JobServes(j)
  PROVE  IInv'
<1> USE DEF IInv, history, AsDocumented
<1>1. TypeOK'
  BY DEF TypeOK, SetJob
<1>2. EdgesReached' /\ ReachedRooted' /\ OriginsOK'
  BY DEF EdgesReached, ReachedRooted, OriginsOK, GrantsHaveOrigin, Origin
<1>3. JobsOK'
  BY DEF JobsOK, JobKnows, JobServes, Origin, SetJob, TypeOK
<1> QED BY <1>1, <1>2, <1>3

LEMMA IdleKnows == JobKnows(IdleJob) /\ JobServes(IdleJob)
BY DEF JobKnows, JobServes, IdleJob
(* A request is turned away, answered, or recovered from a panic.          *)
LEMMA EndKeeps ==
  ASSUME IInv, NEW p \in Procs, SetJob(p, IdleJob),
         UNCHANGED <<shr, SgiAllowlist, restarts, history>>
  PROVE  IInv'
<1>1. shr \in [Users -> SUBSET Nodes] /\ (AsDocumented => \A u \in Users : shr[u] \subseteq reached[u])
  BY DEF IInv, TypeOK, EdgesReached
<1> QED BY <1>1, IdleJobTyped, IdleKnows, MoveOn

-----------------------------------------------------------------------------
(* The steps that begin a request.                                         *)
LEMMA BeginShareKeeps ==
  ASSUME IInv, NEW p \in Procs, NEW kind \in {"share", "unshare"}, NEW u \in Users,
         NEW ns \in NodeLists, NEW ts \in TargetLists, BeginShare(p, kind, u, ns, ts)
  PROVE  IInv'
<1> DEFINE j == [IdleJob EXCEPT !.pc = "unpack", !.kind = kind, !.user = u,
                               !.nodes = ns, !.todo = ns, !.targets = ts]
<1>1. j \in Job /\ JobKnows(j) /\ JobServes(j)
  BY ConstantsOK DEF IdleJob, Job, JobKnows, JobServes
<1>2. shr \in [Users -> SUBSET Nodes] /\ (AsDocumented => \A v \in Users : shr[v] \subseteq reached[v])
  BY DEF IInv, TypeOK, EdgesReached
<1>3. SetJob(p, j) /\ UNCHANGED <<shr, SgiAllowlist, restarts, history>>
  BY DEF BeginShare
<1> HIDE DEF j
<1> QED BY <1>1, <1>2, <1>3, MoveOn

LEMMA BeginQueryKeeps ==
  ASSUME IInv, NEW p \in Procs, NEW u \in Users, NEW ns \in NodeLists \union {{}}, BeginQuery(p, u, ns)
  PROVE  IInv'
<1> DEFINE j == [IdleJob EXCEPT !.pc = "unpack", !.kind = "query", !.user = u, !.todo = ns]
<1>1. j \in Job /\ JobKnows(j) /\ JobServes(j)
  BY ConstantsOK DEF IdleJob, Job, JobKnows, JobServes
<1>2. shr \in [Users -> SUBSET Nodes] /\ (AsDocumented => \A v \in Users : shr[v] \subseteq reached[v])
  BY DEF IInv, TypeOK, EdgesReached
<1>3. SetJob(p, j) /\ UNCHANGED <<shr, SgiAllowlist, restarts, history>>
  BY DEF BeginQuery
<1> HIDE DEF j
<1> QED BY <1>1, <1>2, <1>3, MoveOn

(* The answer to a listing holds nodes that have reached the caller, since *)
(* it comes from the caller's edges.                                       *)
LEMMA ListSharedKeeps ==
  ASSUME IInv, NEW p \in Procs, NEW u \in Users, NEW ns \in SUBSET shr[u], ListShared(p, u, ns)
  PROVE  IInv'
<1> DEFINE j == Listing(u, ns)
<1>1. ns \in SUBSET Nodes /\ (AsDocumented => ns \subseteq reached[u])
  BY DEF IInv, TypeOK, EdgesReached
<1>2. j \in Job /\ JobKnows(j) /\ JobServes(j)
  BY <1>1, ConstantsOK DEF IInv, TypeOK, Listing, IdleJob, Job, JobKnows, JobServes
<1>3. shr \in [Users -> SUBSET Nodes] /\ (AsDocumented => \A v \in Users : shr[v] \subseteq reached[v])
  BY DEF IInv, TypeOK, EdgesReached
<1>4. SetJob(p, j) /\ UNCHANGED <<shr, SgiAllowlist, restarts, history>>
  BY DEF ListShared
<1> HIDE DEF j
<1> QED BY <1>2, <1>3, <1>4, MoveOn

(* After a stray request nothing is claimed of origins any more.           *)
LEMMA Straying ==
  ASSUME TypeOK, Stray
  PROVE  strays' \in 0 .. MaxStrays /\ ~AsDocumented'
BY ConstantsOK DEF TypeOK, Stray, AsDocumented

LEMMA ListSearchKeeps ==
  ASSUME IInv, NEW p \in Procs, NEW u \in Users, NEW ns \in StrayLists, ListSearch(p, u, ns)
  PROVE  IInv'
<1> USE DEF IInv
<1> DEFINE j == Listing(u, ns)
<1>1. /\ ns \in SUBSET Nodes /\ SetJob(p, j) /\ strays' \in 0 .. MaxStrays /\ ~AsDocumented'
      /\ UNCHANGED <<shr, SgiAllowlist, restarts, reached, rooted>>
  BY ConstantsOK, Straying DEF ListSearch
<1>2. /\ j \in Job /\ j.pc = "prime" /\ j.user = u /\ j.out = {} /\ j.below = {}
      /\ j.fresh = SgiAllowlist[u]
  BY <1>1, ConstantsOK DEF TypeOK, Listing, IdleJob, Job
<1> HIDE DEF j
<1>3. TypeOK'
  BY <1>1, <1>2 DEF TypeOK, SetJob
<1>4. EdgesReached' /\ ReachedRooted' /\ OriginsOK'
  BY <1>1 DEF EdgesReached, ReachedRooted, OriginsOK, GrantsHaveOrigin
<1>5. ASSUME NEW q \in Procs PROVE JobKnows(job[q])' /\ JobServes(job[q])'
  <2>1. CASE q = p
    <3>1. job'[q] = j
      BY <2>1, <1>1 DEF TypeOK, SetJob
    <3> QED BY <3>1, <1>1, <1>2 DEF JobKnows, JobServes
  <2>2. CASE q # p
    <3>1. job'[q] = job[q] /\ JobKnows(job[q]) /\ JobServes(job[q])
      BY <2>2, <1>1 DEF TypeOK, JobsOK, SetJob
    <3> QED BY <3>1, <1>1 DEF JobKnows, JobServes
  <2> QED BY <2>1, <2>2
<1> QED BY <1>3, <1>4, <1>5 DEF JobsOK

LEMMA PatchShrKeeps ==
  ASSUME IInv, NEW u \in Users, NEW ns \in StrayLists, PatchShr(u, ns)
  PROVE  IInv'
<1> USE DEF IInv
<1>1. /\ ns \in SUBSET Nodes /\ strays' \in 0 .. MaxStrays /\ ~AsDocumented'
      /\ shr' = [shr EXCEPT ![u] = @ \union ns]
      /\ UNCHANGED <<SgiAllowlist, job, restarts, reached, rooted>>
  BY ConstantsOK, Straying DEF PatchShr
<1>2. TypeOK'
  BY <1>1 DEF TypeOK
<1>3. EdgesReached' /\ ReachedRooted' /\ OriginsOK'
  BY <1>1 DEF EdgesReached, ReachedRooted, OriginsOK, GrantsHaveOrigin
<1>4. JobsOK'
  BY <1>1 DEF JobsOK, JobKnows, JobServes
<1> QED BY <1>2, <1>3, <1>4
-----------------------------------------------------------------------------
(* The steps of a share request.                                           *)

LEMMA UnpackNodeKeeps ==
  ASSUME IInv, NEW p \in Procs, UnpackNode(p)
  PROVE  IInv'
<1> USE DEF IInv
<1> DEFINE j == job[p]
<1>1. PICK n \in j.todo :
        SetJob(p, IF MayUse(j.user, n, j.kind) THEN [j EXCEPT !.todo = @ \ {n}] ELSE IdleJob)
  BY DEF UnpackNode
<1>2. j \in Job /\ j.pc = "unpack" /\ JobKnows(j) /\ JobServes(j)
  BY DEF UnpackNode, TypeOK, JobsOK
<1>3. UNCHANGED <<shr, SgiAllowlist, restarts, history>>
  BY DEF UnpackNode
<1>4. CASE MayUse(j.user, n, j.kind)
  <2> DEFINE k == [j EXCEPT !.todo = @ \ {n}]
  <2>1. n \in Nodes /\ j.user \in Users
    BY <1>2 DEF Job, JobKnows
  <2>2. AsDocumented => SgiAllowlist[j.user] \subseteq rooted
    BY <2>1 DEF TypeOK, OriginsOK, GrantsHaveOrigin, Origin, ReachedRooted
  <2>3. AsDocumented => Owner[n] = j.user \/ j.user \in Sys \/ Sgi[n] \in rooted
    BY <1>4, <2>2 DEF MayUse
  <2>4. k \in Job /\ JobKnows(k) /\ JobServes(k)
    BY <1>2, <2>3 DEF Job, JobKnows, JobServes
  <2>5. SetJob(p, k)
    BY <1>1, <1>4
  <2>6. shr \in [Users -> SUBSET Nodes] /\ (AsDocumented => \A v \in Users : shr[v] \subseteq reached[v])
    BY DEF TypeOK, EdgesReached
  <2> HIDE DEF j, k
  <2> QED BY <1>3, <2>4, <2>5, <2>6, MoveOn
<1>5. CASE ~MayUse(j.user, n, j.kind)
  BY <1>1, <1>3, <1>5, EndKeeps
<1> QED BY <1>4, <1>5

LEMMA CheckTargetsKeeps ==
  ASSUME IInv, NEW p \in Procs, CheckTargets(p)
  PROVE  IInv'
<1> USE DEF IInv
<1> DEFINE j == job[p]
           k == [j EXCEPT !.pc = "mutate"]
<1>1. /\ j \in Job /\ j.pc = "unpack" /\ j.todo = {} /\ j.kind \in {"share", "unshare"}
      /\ JobKnows(j) /\ JobServes(j)
  BY DEF CheckTargets, TypeOK, JobsOK
<1>2. CASE j.targets \intersect Sys # {}
  BY <1>2, EndKeeps DEF CheckTargets
<1>3. CASE j.targets \intersect Sys = {} /\ j.kind = "unshare"
  <2>1. SetJob(p, k) /\ UNCHANGED <<shr, SgiAllowlist, restarts, history>>
    BY <1>3 DEF CheckTargets
  <2>2. k \in Job /\ JobKnows(k) /\ JobServes(k)
    BY <1>1, <1>3 DEF Job, JobKnows, JobServes
  <2>3. shr \in [Users -> SUBSET Nodes] /\ (AsDocumented => \A v \in Users : shr[v] \subseteq reached[v])
    BY DEF TypeOK, EdgesReached
  <2> HIDE DEF j, k
  <2> QED BY <2>1, <2>2, <2>3, MoveOn
<1>4. CASE j.targets \intersect Sys = {} /\ j.kind = "share"
  <2>1. /\ SetJob(p, k)
        /\ reached' = [u \in Users |-> IF u \in j.targets THEN reached[u] \union j.nodes
                                       ELSE reached[u]]
        /\ rooted' = rooted \union
             {Sgi[n] : n \in {m \in j.nodes : Owner[m] = j.user \/ j.user \in Sys}}
        /\ UNCHANGED <<shr, SgiAllowlist, restarts, strays>>
    BY <1>4 DEF CheckTargets
  <2>2. j.nodes \subseteq Nodes /\ j.targets \subseteq Users /\ j.user \in Users
    BY <1>1 DEF Job, JobKnows
  <2>3. AsDocumented => \A n \in j.nodes : Sgi[n] \in rooted'
    BY <1>1, <1>4, <2>1, <2>2 DEF JobKnows
  <2>4. k \in Job /\ k.pc = "mutate" /\ k.kind = "share" /\ k.user = j.user
        /\ k.nodes = j.nodes /\ k.targets = j.targets /\ k.out = {} /\ k.below = {}
    BY <1>1, <1>4 DEF Job, JobServes
  <2> HIDE DEF k
  <2>5. TypeOK'
    BY ConstantsOK, <2>1, <2>2, <2>4 DEF TypeOK, SetJob
  <2>6. EdgesReached' /\ ReachedRooted' /\ OriginsOK'
    BY <2>1, <2>2, <2>3
       DEF TypeOK, EdgesReached, ReachedRooted, OriginsOK, GrantsHaveOrigin, Origin, AsDocumented
  <2>7. ASSUME NEW q \in Procs, q # p PROVE JobKnows(job[q])' /\ JobServes(job[q])'
    <3>1. job'[q] = job[q] /\ job[q] \in Job /\ JobKnows(job[q]) /\ JobServes(job[q])
      BY <2>1, <2>7 DEF TypeOK, JobsOK, SetJob
    <3> QED BY <2>1, <2>2, <3>1 DEF TypeOK, Job, JobKnows, JobServes, Origin, AsDocumented
  <2>8. JobKnows(job[p])' /\ JobServes(job[p])'
    <3>1. job'[p] = k
      BY <2>1 DEF TypeOK, SetJob
    <3> QED BY <2>1, <2>2, <2>4, <3>1 DEF JobKnows, JobServes, AsDocumented
  <2>9. JobsOK'
    BY <2>7, <2>8 DEF JobsOK
  <2> QED BY <2>5, <2>6, <2>9
<1> QED BY <1>1, <1>2, <1>3, <1>4

LEMMA UpdateUserShareEdgesKeeps ==
  ASSUME IInv, NEW p \in Procs, UpdateUserShareEdges(p)
  PROVE  IInv'
<1> USE DEF IInv
<1> DEFINE j == job[p]
           k == [j EXCEPT !.pc = "update"]
<1>1. j \in Job /\ j.pc = "mutate" /\ JobKnows(j) /\ JobServes(j)
  BY DEF UpdateUserShareEdges, TypeOK, JobsOK
<1>2. SetJob(p, k) /\ UNCHANGED <<SgiAllowlist, restarts, history>>
  BY DEF UpdateUserShareEdges
<1>3. k \in Job /\ JobKnows(k) /\ JobServes(k)
  BY <1>1 DEF Job, JobKnows, JobServes
<1>4. shr' \in [Users -> SUBSET Nodes] /\ (AsDocumented => \A v \in Users : shr'[v] \subseteq reached[v])
  BY <1>1 DEF UpdateUserShareEdges, TypeOK, EdgesReached, Job, JobKnows
<1> HIDE DEF j, k
<1> QED BY <1>2, <1>3, <1>4, MoveOn
(* A grant of sgis to u, while p moves on to k.                            *)
LEMMA GrantKeeps ==
  ASSUME IInv, NEW p \in Procs, NEW u \in Users, NEW sgis \in SUBSET Sgis, NEW k \in Job,
         AsDocumented => \A g \in sgis : Origin(u, g),
         SgiAllowlist' = [SgiAllowlist EXCEPT ![u] = @ \union sgis],
         job' = [q \in Procs |-> IF q = p THEN k ELSE NoteGrant(q, u, sgis)],
         UNCHANGED <<shr, restarts, history>>,
         JobKnows(k), k.pc # "pack" => k.out = {}, k.below = {},
         k.pc \in {"prime", "pack"} => SgiAllowlist[k.user] \subseteq k.fresh
                                       /\ (k.user = u => sgis \subseteq k.fresh),
         \A n \in k.out : \/ Owner[n] = k.user \/ k.user \in Sys
                          \/ /\ ReadPerm[n] = "true" /\ Sgi[n] \in k.fresh
                             /\ k.user \in Users /\ (AsDocumented => Origin(k.user, Sgi[n]))
  PROVE  IInv'
<1> USE DEF IInv, history, AsDocumented
<1>1. ASSUME NEW q \in Procs, q # p
      PROVE  /\ job'[q] \in Job /\ job[q] \in Job
             /\ job'[q].pc = job[q].pc /\ job'[q].kind = job[q].kind
             /\ job'[q].user = job[q].user /\ job'[q].nodes = job[q].nodes
             /\ job'[q].todo = job[q].todo /\ job'[q].targets = job[q].targets
             /\ job'[q].out = job[q].out /\ job'[q].below = job[q].below
             /\ job[q].fresh \subseteq job'[q].fresh
             /\ job[q].user = u /\ job[q].pc \in {"prime", "pack"} => sgis \subseteq job'[q].fresh
  BY <1>1 DEF TypeOK, NoteGrant, Job
<1>2. TypeOK'
  BY <1>1 DEF TypeOK
<1>3. EdgesReached' /\ ReachedRooted' /\ OriginsOK'
  BY DEF TypeOK, EdgesReached, ReachedRooted, OriginsOK, GrantsHaveOrigin, Origin
<1>4. ASSUME NEW q \in Procs, q # p PROVE JobKnows(job[q])' /\ JobServes(job[q])'
  <2>1. JobKnows(job[q]) /\ JobServes(job[q])
    BY DEF JobsOK
  <2>2. JobKnows(job[q])'
    BY <1>1, <1>4, <2>1 DEF JobKnows
  <2>3. JobServes(job[q])'
    <3>1. job[q].pc \in {"prime", "pack"} => job[q].user \in Users
      BY <2>1 DEF JobKnows
    <3>2. job[q].pc \in {"prime", "pack"} => SgiAllowlist'[job[q].user] \subseteq job'[q].fresh
      BY <1>1, <1>4, <2>1, <3>1 DEF JobServes, TypeOK
    <3> QED BY <1>1, <1>4, <2>1, <3>2 DEF JobServes, Origin
  <2> QED BY <2>2, <2>3
<1>5. JobKnows(job[p])' /\ JobServes(job[p])'
  <2>1. job'[p] = k
    OBVIOUS
  <2>2. JobKnows(k)'
    BY DEF JobKnows
  <2>3. k.pc \in {"prime", "pack"} => SgiAllowlist'[k.user] \subseteq k.fresh
    BY DEF TypeOK, JobKnows
  <2> QED BY <2>1, <2>2, <2>3 DEF JobServes, JobKnows, Origin
<1>6. JobsOK'
  BY <1>4, <1>5 DEF JobsOK
<1> QED BY <1>2, <1>3, <1>6

(* The groups UpdateAllowListSharedSgis collects have an origin, if the    *)
(* nodes it is given have reached the user.                                *)
LEMMA SharedSgisHaveOrigin ==
  ASSUME NEW j \in Job, NEW u \in Users, AsDocumented => j.nodes \subseteq reached[u]
  PROVE  /\ SharedSgis(j, u) \in SUBSET Sgis
         /\ AsDocumented => \A g \in SharedSgis(j, u) : Origin(u, g)
BY ConstantsOK DEF SharedSgis, Origin, Job

LEMMA UpdateTargetKeeps ==
  ASSUME IInv, NEW p \in Procs, UpdateTarget(p)
  PROVE  IInv'
<1> USE DEF IInv
<1> DEFINE j == job[p]
<1>1. j \in Job /\ j.pc = "update" /\ JobKnows(j) /\ JobServes(j)
  BY DEF UpdateTarget, TypeOK, JobsOK
<1>2. shr \in [Users -> SUBSET Nodes] /\ (AsDocumented => \A v \in Users : shr[v] \subseteq reached[v])
  BY DEF TypeOK, EdgesReached
<1>3. PICK t \in j.targets :
        LET sgis == SharedSgis(j, t)
            rest == j.targets \ {t}
            next == IF rest = {} THEN IdleJob ELSE [j EXCEPT !.targets = rest]
        IN IF DereferencesNil(j, t)
           THEN SetJob(p, [j EXCEPT !.pc = "panicked"]) /\ UNCHANGED SgiAllowlist
           ELSE IF j.kind = "share"
           THEN /\ SgiAllowlist' = [SgiAllowlist EXCEPT ![t] = @ \union sgis]
                /\ job' = [q \in Procs |-> IF q = p THEN next ELSE NoteGrant(q, t, sgis)]
           ELSE /\ SgiAllowlist' = [SgiAllowlist EXCEPT ![t] = @ \ sgis]
                /\ SetJob(p, next)
  BY DEF UpdateTarget
<1>4. UNCHANGED <<shr, restarts, history>>
  BY DEF UpdateTarget
<1>5. t \in Users
  BY <1>1 DEF Job
<1> DEFINE next == IF j.targets \ {t} = {} THEN IdleJob
                   ELSE [j EXCEPT !.targets = j.targets \ {t}]
<1>6. next \in Job /\ JobKnows(next) /\ JobServes(next) /\ next.out = {} /\ next.below = {}
      /\ next.pc \notin {"prime", "pack"}
  BY <1>1, IdleJobTyped, IdleKnows DEF Job, JobKnows, JobServes, IdleJob
<1>7. CASE DereferencesNil(j, t)
  <2> DEFINE k == [j EXCEPT !.pc = "panicked"]
  <2>1. k \in Job /\ JobKnows(k) /\ JobServes(k)
    BY <1>1 DEF Job, JobKnows, JobServes
  <2>2. SetJob(p, k) /\ UNCHANGED SgiAllowlist
    BY <1>3, <1>7
  <2> HIDE DEF j, k
  <2> QED BY <1>2, <1>4, <2>1, <2>2, MoveOn DEF history
<1>8. CASE ~DereferencesNil(j, t) /\ j.kind = "share"
  <2>1. /\ SgiAllowlist' = [SgiAllowlist EXCEPT ![t] = @ \union SharedSgis(j, t)]
        /\ job' = [q \in Procs |-> IF q = p THEN next ELSE NoteGrant(q, t, SharedSgis(j, t))]
    BY <1>3, <1>8
  <2>2. SharedSgis(j, t) \in SUBSET Sgis /\ (AsDocumented => \A g \in SharedSgis(j, t) : Origin(t, g))
    BY <1>1, <1>5, <1>8, SharedSgisHaveOrigin DEF JobKnows
  <2> HIDE DEF j, next
  <2> QED BY <1>4, <1>5, <1>6, <2>1, <2>2, GrantKeeps
<1>9. CASE ~DereferencesNil(j, t) /\ j.kind # "share"
  <2>1. /\ SgiAllowlist' = [SgiAllowlist EXCEPT ![t] = @ \ SharedSgis(j, t)]
        /\ SetJob(p, next)
    BY <1>3, <1>9
  <2> HIDE DEF j, next
  <2>2. TypeOK'
    BY <1>4, <1>6, <2>1 DEF TypeOK, SetJob, history
  <2>3. EdgesReached' /\ ReachedRooted' /\ OriginsOK'
    BY <1>4, <2>1 DEF TypeOK, EdgesReached, ReachedRooted, OriginsOK, GrantsHaveOrigin, Origin, history,
                      AsDocumented
  <2>4. ASSUME NEW q \in Procs PROVE JobKnows(job[q])' /\ JobServes(job[q])'
    <3>1. SgiAllowlist'[job'[q].user] \subseteq SgiAllowlist[job'[q].user]
          \/ job'[q].user \notin Users
      BY <2>1 DEF TypeOK
    <3>2. JobKnows(job'[q]) /\ JobServes(job'[q])
      BY <1>6, <2>1 DEF TypeOK, JobsOK, SetJob
    <3>3. JobKnows(job[q])'
      BY <1>4, <3>2 DEF JobKnows, history, AsDocumented
    <3> QED BY <1>4, <3>1, <3>2, <3>3 DEF JobServes, JobKnows, Origin, history, AsDocumented
  <2>5. JobsOK'
    BY <2>4 DEF JobsOK
  <2> QED BY <2>2, <2>3, <2>5
<1> QED BY <1>7, <1>8, <1>9
-----------------------------------------------------------------------------
(* The steps of a listing and of a query.                                  *)

LEMMA PrimeKeeps ==
  ASSUME IInv, NEW p \in Procs, Prime(p)
  PROVE  IInv'
<1> USE DEF IInv
<1> DEFINE j    == job[p]
           next == [j EXCEPT !.pc = "pack", !.todo = j.nodes, !.nodes = {}]
           sgis == SharedSgis(j, j.user)
<1>1. j \in Job /\ j.pc = "prime" /\ JobKnows(j) /\ JobServes(j)
  BY DEF Prime, TypeOK, JobsOK
<1>2. shr \in [Users -> SUBSET Nodes] /\ (AsDocumented => \A v \in Users : shr[v] \subseteq reached[v])
  BY DEF TypeOK, EdgesReached
<1>3. UNCHANGED <<shr, restarts, history>>
  BY DEF Prime
<1>4. /\ next \in Job /\ JobKnows(next) /\ JobServes(next)
      /\ next.out = {} /\ next.below = {} /\ next.user = j.user /\ next.pc = "pack"
  BY <1>1 DEF Job, JobKnows, JobServes
<1>5. CASE j.user \in Sys
  <2>1. SetJob(p, next) /\ UNCHANGED SgiAllowlist
    BY <1>5 DEF Prime
  <2> HIDE DEF j, next
  <2> QED BY <1>2, <1>3, <1>4, <2>1, MoveOn DEF history
<1>6. CASE j.user \notin Sys /\ DereferencesNil(j, j.user)
  <2> DEFINE k == [j EXCEPT !.pc = "panicked"]
  <2>1. k \in Job /\ JobKnows(k) /\ JobServes(k)
    BY <1>1 DEF Job, JobKnows, JobServes
  <2>2. SetJob(p, k) /\ UNCHANGED SgiAllowlist
    BY <1>6 DEF Prime
  <2> HIDE DEF j, k
  <2> QED BY <1>2, <1>3, <2>1, <2>2, MoveOn DEF history
<1>7. CASE j.user \notin Sys /\ ~DereferencesNil(j, j.user)
  <2> DEFINE k == [next EXCEPT !.fresh = @ \union sgis]
  <2>1. j.user \in Users /\ (AsDocumented => j.nodes \subseteq reached[j.user])
    BY <1>1 DEF JobKnows
  <2>2. sgis \in SUBSET Sgis /\ (AsDocumented => \A g \in sgis : Origin(j.user, g))
    BY <1>1, <2>1, SharedSgisHaveOrigin
  <2>3. /\ k \in Job /\ k.out = {} /\ k.below = {} /\ k.user = j.user /\ k.pc = "pack"
        /\ sgis \subseteq k.fresh /\ SgiAllowlist[k.user] \subseteq k.fresh
    BY <1>1, <1>4, <2>2 DEF Job, JobServes
  <2>4. JobKnows(k)
    BY <2>1, <2>3 DEF JobKnows
  <2>5. /\ SgiAllowlist' = [SgiAllowlist EXCEPT ![j.user] = @ \union sgis]
        /\ job' = [q \in Procs |-> IF q = p THEN k ELSE NoteGrant(q, j.user, sgis)]
    BY <1>7 DEF Prime
  <2> HIDE DEF j, next, sgis, k
  <2> QED BY <1>3, <2>1, <2>2, <2>3, <2>4, <2>5, GrantKeeps
<1> QED BY <1>5, <1>6, <1>7

LEMMA ReadAllowedSgisKeeps ==
  ASSUME IInv, NEW p \in Procs, ReadAllowedSgis(p)
  PROVE  IInv'
<1> USE DEF IInv
<1> DEFINE j == job[p]
           k == [j EXCEPT !.pc = "query", !.sgis = SgiAllowlist[j.user]]
<1>1. j \in Job /\ j.pc = "unpack" /\ JobKnows(j) /\ JobServes(j)
  BY DEF ReadAllowedSgis, TypeOK, JobsOK
<1>2. shr \in [Users -> SUBSET Nodes] /\ (AsDocumented => \A v \in Users : shr[v] \subseteq reached[v])
  BY DEF TypeOK, EdgesReached
<1>3. SetJob(p, k) /\ UNCHANGED <<shr, SgiAllowlist, restarts, history>>
  BY DEF ReadAllowedSgis
<1>4. k \in Job /\ JobKnows(k) /\ JobServes(k)
  BY <1>1 DEF TypeOK, Job, JobKnows, JobServes
<1> HIDE DEF j, k
<1> QED BY <1>2, <1>3, <1>4, MoveOn

LEMMA QueryWithOptionsKeeps ==
  ASSUME IInv, NEW p \in Procs, QueryWithOptions(p)
  PROVE  IInv'
<1> USE DEF IInv
<1> DEFINE j == job[p]
           k(ns) == [j EXCEPT !.pc = "pack", !.todo = ns, !.sgis = {},
                              !.fresh = SgiAllowlist[j.user]]
<1>1. j \in Job /\ j.pc = "query" /\ JobKnows(j) /\ JobServes(j)
  BY DEF QueryWithOptions, TypeOK, JobsOK
<1>2. shr \in [Users -> SUBSET Nodes] /\ (AsDocumented => \A v \in Users : shr[v] \subseteq reached[v])
  BY DEF TypeOK, EdgesReached
<1>3. PICK ns \in SUBSET Nodes : SetJob(p, k(ns))
  BY DEF QueryWithOptions
<1>4. UNCHANGED <<shr, SgiAllowlist, restarts, history>>
  BY DEF QueryWithOptions
<1>5. k(ns) \in Job /\ JobKnows(k(ns)) /\ JobServes(k(ns))
  BY <1>1 DEF TypeOK, Job, JobKnows, JobServes
<1> HIDE DEF j, k
<1> QED BY <1>2, <1>3, <1>4, <1>5, MoveOn

LEMMA PackNodeKeeps ==
  ASSUME IInv, NEW p \in Procs, PackNode(p)
  PROVE  IInv'
<1> USE DEF IInv
<1> DEFINE j == job[p]
           rest(n) == [j EXCEPT !.todo = @ \ {n}]
           kept(n, es) == [rest(n) EXCEPT !.out = @ \union {n}, !.below = @ \union es]
<1>1. j \in Job /\ j.pc = "pack" /\ JobKnows(j) /\ JobServes(j)
  BY DEF PackNode, TypeOK, JobsOK
<1>2. shr \in [Users -> SUBSET Nodes] /\ (AsDocumented => \A v \in Users : shr[v] \subseteq reached[v])
  BY DEF TypeOK, EdgesReached
<1>3. PICK n \in j.todo : \E es \in EntryLists(n) :
        SetJob(p, IF MayRead(j.user, n) THEN kept(n, es) ELSE rest(n))
  BY DEF PackNode
<1>4. PICK es \in EntryLists(n) : SetJob(p, IF MayRead(j.user, n) THEN kept(n, es) ELSE rest(n))
  BY <1>3
<1>5. UNCHANGED <<shr, SgiAllowlist, restarts, history>>
  BY DEF PackNode
<1>6. n \in Nodes /\ j.user \in Users
  BY <1>1 DEF Job, JobKnows
<1>7. CASE ~MayRead(j.user, n)
  <2>1. rest(n) \in Job /\ JobKnows(rest(n)) /\ JobServes(rest(n))
    BY <1>1 DEF Job, JobKnows, JobServes
  <2>2. SetJob(p, rest(n))
    BY <1>4, <1>7
  <2> HIDE DEF j, rest
  <2> QED BY <1>2, <1>5, <2>1, <2>2, MoveOn
<1>8. CASE MayRead(j.user, n)
  <2>1. \/ Owner[n] = j.user \/ j.user \in Sys
        \/ /\ ReadPerm[n] = "true" /\ Sgi[n] \in j.fresh
           /\ AsDocumented => Origin(j.user, Sgi[n])
    BY <1>1, <1>6, <1>8 DEF MayRead, JobServes, OriginsOK, GrantsHaveOrigin
  <2>2. /\ kept(n, es) \in Job /\ kept(n, es).pc = "pack" /\ kept(n, es).user = j.user
        /\ kept(n, es).fresh = j.fresh /\ kept(n, es).out = j.out \union {n}
        /\ kept(n, es).below \subseteq j.below \union OutEdges(n)
    BY <1>1, <1>4, <1>6 DEF Job, OutEdges, EntryLists
  <2> HIDE DEF kept
  <2>3. JobKnows(kept(n, es))
    BY <1>6, <2>2 DEF JobKnows
  <2>4. JobServes(kept(n, es))
    BY <1>1, <1>6, <2>1, <2>2 DEF JobServes
  <2>5. SetJob(p, kept(n, es))
    BY <1>4, <1>8
  <2> HIDE DEF j
  <2> QED BY <1>2, <1>5, <2>2, <2>3, <2>4, <2>5, MoveOn
<1> QED BY <1>7, <1>8

LEMMA RestartKeeps ==
  ASSUME IInv, Restart
  PROVE  IInv'
<1> USE DEF IInv
<1>1. TypeOK'
  BY ConstantsOK, IdleJobTyped DEF Restart, TypeOK, history
<1>2. EdgesReached' /\ ReachedRooted' /\ OriginsOK'
  BY DEF Restart, EdgesReached, ReachedRooted, OriginsOK, GrantsHaveOrigin, Origin, history,
         AsDocumented
<1>3. JobsOK'
  BY DEF Restart, JobsOK, JobKnows, JobServes, IdleJob
<1> QED BY <1>1, <1>2, <1>3

-----------------------------------------------------------------------------
LEMMA NextKeeps == IInv /\ [Next]_vars => IInv'
<1> SUFFICES ASSUME IInv, [Next]_vars PROVE IInv'
  OBVIOUS
<1>1. CASE Restart
  BY <1>1, RestartKeeps
<1>2. ASSUME NEW p \in Procs, Begin(p) PROVE IInv'
  BY <1>2, BeginShareKeeps, ListSharedKeeps, ListSearchKeeps, BeginQueryKeeps DEF Begin
<1>3. ASSUME NEW p \in Procs, Continue(p) PROVE IInv'
  <2>1. CASE Respond(p) \/ Recover(p)
    BY <2>1, EndKeeps DEF Respond, Recover
  <2> QED
    BY <1>3, <2>1, UnpackNodeKeeps, CheckTargetsKeeps, UpdateUserShareEdgesKeeps,
       UpdateTargetKeeps, PrimeKeeps, ReadAllowedSgisKeeps, QueryWithOptionsKeeps,
       PackNodeKeeps
       DEF Continue
<1>4. CASE UNCHANGED vars
  BY <1>4 DEF vars, IInv, TypeOK, EdgesReached, ReachedRooted, OriginsOK, GrantsHaveOrigin, Origin,
              JobsOK, JobKnows, JobServes, AsDocumented
<1>5. ASSUME NEW u \in Users, NEW ns \in StrayLists, PatchShr(u, ns) PROVE IInv'
  BY <1>5, PatchShrKeeps
<1> QED
  BY <1>1, <1>2, <1>3, <1>4, <1>5 DEF Next

LEMMA Inductive == Spec => []IInv
  BY InitEstablishesIInv, NextKeeps, PTL DEF Spec

(* The state of the sharing protocol keeps its types.                      *)
THEOREM TypeCorrect == Spec => []TypeOK
<1>1. IInv => TypeOK
  BY DEF IInv
<1> QED BY Inductive, <1>1, PTL

(* Until a listing carries a search or a PATCH nodes a shr list, in every  *)
(* interleaving of share, un-share, listing and query requests, with       *)
(* failures, panics and restarts: a grant in the session manager's         *)
(* allowlist goes back to an authorised share of a readable node of that   *)
(* group (UpdateAllowListSharedSgis and its callers).                      *)
THEOREM EveryGrantHasAnOrigin == Spec => []GrantsHaveOrigin
<1>1. IInv => GrantsHaveOrigin
  BY DEF IInv, OriginsOK
<1> QED BY Inductive, <1>1, PTL

(* Passing a share on never starts one, until then: every granted group    *)
(* was first shared by the owner of one of its nodes or by a sys user,     *)
(* through chains of any length (AuthzDataUnpackADString).                 *)
THEOREM EveryGrantIsRooted == Spec => []GrantsRootedInOwner
<1>1. IInv => GrantsRootedInOwner
  BY DEF IInv, TypeOK, OriginsOK, GrantsHaveOrigin, Origin, ReachedRooted, GrantsRootedInOwner
<1> QED BY Inductive, <1>1, PTL

(* Until then the nodes of every response are the caller's, or readable    *)
(* and of a group that reached it (responses.AuthzDataPack); and always,   *)
(* the entries of their e lists, which nothing checks, are one edge away   *)
(* from a node that was served.                                            *)
THEOREM ResponsesAreReadable == Spec => []ResponsesReadable
<1>1. IInv => ResponsesReadable
  BY DEF IInv, JobsOK, JobServes, ResponsesReadable, Readable
<1> QED BY Inductive, <1>1, PTL

(* AuthzDataPack's second look at the allowlist is what keeps a query from *)
(* serving nodes of a group that was revoked after its filter was built,   *)
(* whatever listings and PATCH nodes carry.                                *)
THEOREM NoResponseFromAStaleGrant == Spec => []NoStaleGrantServed
<1>1. IInv => NoStaleGrantServed
  BY DEF IInv, JobsOK, JobServes, NoStaleGrantServed
<1> QED BY Inductive, <1>1, PTL
-----------------------------------------------------------------------------
(* One request at a time.  Edges and grants are written in two steps, so   *)
(* that a grant has its edge is no invariant even then: while a request to *)
(* un-share is between the two, the grants it is about to revoke have      *)
(* none.                                                                   *)

Backed(u, g) == \E n \in shr[u] : Sgi[n] = g /\ Owner[n] # u /\ ReadPerm[n] = "true"

AboutToRevoke(j, u, g) ==
  j.pc = "update" /\ j.kind = "unshare" /\ u \in j.targets /\ g \in SharedSgis(j, u)

GrantsBackedOrRevoked ==
  \A u \in Users : \A g \in SgiAllowlist[u] :
    Backed(u, g) \/ \E p \in Procs : AboutToRevoke(job[p], u, g)

(* What a request would grant has edges by then.                           *)
JobBacked(j) ==
  /\ j.pc \in {"unpack", "mutate", "update"} /\ j.kind # "query" => j.nodes \in NodeLists
  /\ j.pc = "update" /\ j.kind = "share" => \A t \in j.targets : j.nodes \subseteq shr[t]
  /\ j.pc = "prime" => j.nodes \subseteq shr[j.user]

SerialInv == GrantsBackedOrRevoked /\ \A p \in Procs : JobBacked(job[p])

(* A step of the only request that leaves edges and grants alone.          *)
LEMMA CalmStep ==
  ASSUME OneAtATime, TypeOK, SerialInv, NEW p \in Procs, job[p].pc # "update",
         NEW k, SetJob(p, k), JobBacked(k), UNCHANGED <<shr, SgiAllowlist>>
  PROVE  SerialInv'
<1>1. job'[p] = k /\ \A q \in Procs : q = p
  BY DEF OneAtATime, TypeOK, SetJob
<1>2. \A u \in Users : \A g \in SgiAllowlist[u] : Backed(u, g)
  BY <1>1 DEF SerialInv, GrantsBackedOrRevoked, AboutToRevoke
<1>3. GrantsBackedOrRevoked'
  BY <1>2 DEF GrantsBackedOrRevoked, Backed
<1>4. JobBacked(job[p])'
  BY <1>1 DEF JobBacked
<1> QED BY <1>1, <1>3, <1>4 DEF SerialInv

LEMMA IdleBacked == JobBacked(IdleJob)
BY DEF JobBacked, IdleJob

LEMMA BeginBacked ==
  ASSUME OneAtATime, IInv, SerialInv, NEW p \in Procs, Begin(p)
  PROVE  SerialInv'
<1>1. TypeOK
  BY DEF IInv
<1>2. PICK u \in Users :
        \/ \E kind \in {"share", "unshare"}, ns \in NodeLists, ts \in TargetLists :
             BeginShare(p, kind, u, ns, ts)
        \/ \E ns \in SUBSET shr[u] : ListShared(p, u, ns)
        \/ \E ns \in StrayLists : ListSearch(p, u, ns)
        \/ \E ns \in NodeLists \union {{}} : BeginQuery(p, u, ns)
  BY DEF Begin
<1>3. ASSUME NEW kind \in {"share", "unshare"}, NEW ns \in NodeLists, NEW ts \in TargetLists,
             BeginShare(p, kind, u, ns, ts)
      PROVE  SerialInv'
  <2> DEFINE k == [IdleJob EXCEPT !.pc = "unpack", !.kind = kind, !.user = u,
                                  !.nodes = ns, !.todo = ns, !.targets = ts]
  <2>1. JobBacked(k)
    BY DEF JobBacked, IdleJob
  <2>2. SetJob(p, k) /\ job[p].pc = "idle" /\ UNCHANGED <<shr, SgiAllowlist>>
    BY <1>3 DEF BeginShare
  <2> HIDE DEF k
  <2> QED BY <1>1, <2>1, <2>2, CalmStep
<1>4. ASSUME NEW ns \in SUBSET shr[u], ListShared(p, u, ns) PROVE SerialInv'
  <2> DEFINE k == Listing(u, ns)
  <2>1. JobBacked(k)
    BY DEF JobBacked, Listing, IdleJob
  <2>2. SetJob(p, k) /\ job[p].pc = "idle" /\ UNCHANGED <<shr, SgiAllowlist>>
    BY <1>4 DEF ListShared
  <2> HIDE DEF k
  <2> QED BY <1>1, <2>1, <2>2, CalmStep
<1>5. ASSUME NEW ns, ListSearch(p, u, ns) PROVE FALSE
  BY <1>1, <1>5 DEF ListSearch, Stray, OneAtATime, TypeOK
<1>6. ASSUME NEW ns, BeginQuery(p, u, ns) PROVE SerialInv'
  <2> DEFINE k == [IdleJob EXCEPT !.pc = "unpack", !.kind = "query", !.user = u, !.todo = ns]
  <2>1. JobBacked(k)
    BY DEF JobBacked, IdleJob
  <2>2. SetJob(p, k) /\ job[p].pc = "idle" /\ UNCHANGED <<shr, SgiAllowlist>>
    BY <1>6 DEF BeginQuery
  <2> HIDE DEF k
  <2> QED BY <1>1, <2>1, <2>2, CalmStep
<1> QED BY <1>2, <1>3, <1>4, <1>5, <1>6

(* The steps that only read: the checks before and the answer after.       *)
LEMMA ReadingBacked ==
  ASSUME OneAtATime, IInv, SerialInv, NEW p \in Procs,
         \/ UnpackNode(p) \/ CheckTargets(p) \/ ReadAllowedSgis(p) \/ QueryWithOptions(p)
         \/ PackNode(p) \/ Respond(p) \/ Recover(p)
  PROVE  SerialInv'
<1> DEFINE j == job[p]
<1>1. TypeOK /\ j \in Job /\ JobBacked(j)
  BY DEF IInv, TypeOK, SerialInv
<1>2. UNCHANGED <<shr, SgiAllowlist>> /\ j.pc # "update"
  BY DEF UnpackNode, CheckTargets, ReadAllowedSgis, QueryWithOptions, PackNode, Respond, Recover
<1>3. PICK k : SetJob(p, k) /\ JobBacked(k)
  <2>1. CASE UnpackNode(p)
    <3>1. PICK n \in j.todo :
            SetJob(p, IF MayUse(j.user, n, j.kind) THEN [j EXCEPT !.todo = @ \ {n}] ELSE IdleJob)
      BY <2>1 DEF UnpackNode
    <3>2. JobBacked([j EXCEPT !.todo = @ \ {n}])
      BY <1>1 DEF JobBacked, Job
    <3> QED BY <3>1, <3>2, IdleBacked
  <2>2. CASE CheckTargets(p)
    <3>1. j.pc = "unpack" /\ (SetJob(p, IdleJob) \/ SetJob(p, [j EXCEPT !.pc = "mutate"]))
      BY <2>2 DEF CheckTargets
    <3>2. JobBacked([j EXCEPT !.pc = "mutate"])
      BY <1>1, <3>1 DEF JobBacked, Job
    <3> QED BY <3>1, <3>2, IdleBacked
  <2>3. CASE ReadAllowedSgis(p)
    <3>1. SetJob(p, [j EXCEPT !.pc = "query", !.sgis = SgiAllowlist[j.user]])
      BY <2>3 DEF ReadAllowedSgis
    <3>2. JobBacked([j EXCEPT !.pc = "query", !.sgis = SgiAllowlist[j.user]])
      BY <1>1 DEF JobBacked, Job
    <3> QED BY <3>1, <3>2
  <2>4. CASE QueryWithOptions(p)
    <3>1. PICK ns : SetJob(p, [j EXCEPT !.pc = "pack", !.todo = ns, !.sgis = {},
                                           !.fresh = SgiAllowlist[j.user]])
      BY <2>4 DEF QueryWithOptions
    <3>2. JobBacked([j EXCEPT !.pc = "pack", !.todo = ns, !.sgis = {},
                              !.fresh = SgiAllowlist[j.user]])
      BY <1>1 DEF JobBacked, Job
    <3> QED BY <3>1, <3>2
  <2>5. CASE PackNode(p)
    <3> DEFINE rest(n) == [j EXCEPT !.todo = @ \ {n}]
               k(n, es) == IF MayRead(j.user, n)
                           THEN [rest(n) EXCEPT !.out = @ \union {n}, !.below = @ \union es]
                           ELSE rest(n)
    <3>1. j.pc = "pack" /\ \E n, es : SetJob(p, k(n, es))
      BY <2>5 DEF PackNode
    <3>2. \A n, es : JobBacked(k(n, es))
      BY <1>1, <3>1 DEF JobBacked, Job
    <3> QED BY <3>1, <3>2
  <2>6. CASE Respond(p) \/ Recover(p)
    BY <2>6, IdleBacked DEF Respond, Recover
  <2> QED BY <2>1, <2>2, <2>3, <2>4, <2>5, <2>6
<1> QED BY <1>1, <1>2, <1>3, CalmStep

(* The mutation: a grant whose last edge goes is one the request is about  *)
(* to revoke.                                                              *)
LEMMA MutationBacked ==
  ASSUME OneAtATime, IInv, SerialInv, NEW p \in Procs, UpdateUserShareEdges(p)
  PROVE  SerialInv'
<1> DEFINE j == job[p]
           k == [j EXCEPT !.pc = "update"]
<1>1. /\ TypeOK /\ j \in Job /\ j.pc = "mutate" /\ j.kind \in {"share", "unshare"}
      /\ j.nodes \in NodeLists
  BY DEF IInv, TypeOK, JobsOK, JobKnows, SerialInv, JobBacked, UpdateUserShareEdges
<1>2. /\ shr' = [u \in Users |-> IF u \notin j.targets THEN shr[u]
                                 ELSE IF j.kind = "share" THEN shr[u] \union j.nodes
                                 ELSE shr[u] \ j.nodes]
      /\ UNCHANGED SgiAllowlist /\ SetJob(p, k)
  BY DEF UpdateUserShareEdges, OneAtATime
<1>3. /\ job'[p] = k /\ \A q \in Procs : q = p
      /\ k.pc = "update" /\ k.kind = j.kind /\ k.nodes = j.nodes /\ k.targets = j.targets
  BY <1>1, <1>2 DEF OneAtATime, TypeOK, SetJob, Job
<1>4. ASSUME NEW u \in Users, NEW g \in SgiAllowlist[u]
      PROVE  Backed(u, g)' \/ AboutToRevoke(job[p], u, g)'
  <2>1. Backed(u, g)
    BY <1>1, <1>3 DEF SerialInv, GrantsBackedOrRevoked, AboutToRevoke
  <2>2. PICK n \in shr[u] : Sgi[n] = g /\ Owner[n] # u /\ ReadPerm[n] = "true"
    BY <2>1 DEF Backed
  <2>3. CASE n \in shr'[u]
    BY <2>2, <2>3 DEF Backed
  <2>4. CASE n \notin shr'[u]
    <3>1. u \in j.targets /\ j.kind = "unshare" /\ n \in j.nodes
      BY <1>1, <1>2, <2>2, <2>4
    <3> QED BY <1>3, <2>2, <3>1 DEF AboutToRevoke, SharedSgis
  <2> QED BY <2>3, <2>4
<1>5. GrantsBackedOrRevoked'
  BY <1>2, <1>4 DEF GrantsBackedOrRevoked
<1>6. JobBacked(job[p])'
  <2>1. j.targets \subseteq Users
    BY <1>1 DEF Job
  <2> QED BY <1>1, <1>2, <1>3, <2>1 DEF JobBacked
<1> QED BY <1>3, <1>5, <1>6 DEF SerialInv

(* Nodes of which none is readable give no groups.                         *)
LEMMA PanicGrantsNothing ==
  ASSUME OneAtATime, NEW j \in Job, j.nodes \in NodeLists, NEW t, DereferencesNil(j, t), NEW u
  PROVE  SharedSgis(j, u) = {}
<1>1. PICK n \in j.nodes : ReadPerm[n] # "true"
  BY DEF DereferencesNil, PermReadIsNil
<1>2. \A m \in j.nodes : ReadPerm[m] # "true"
  BY <1>1 DEF OneAtATime
<1> QED BY <1>2 DEF SharedSgis

LEMMA UpdateBacked ==
  ASSUME OneAtATime, IInv, SerialInv, NEW p \in Procs, UpdateTarget(p)
  PROVE  SerialInv'
<1> DEFINE j == job[p]
<1>1. /\ TypeOK /\ j \in Job /\ j.pc = "update" /\ j.kind \in {"share", "unshare"}
      /\ j.nodes \in NodeLists /\ JobBacked(j) /\ GrantsBackedOrRevoked
      /\ j.targets \subseteq Users /\ \A q \in Procs : q = p
  BY DEF OneAtATime, IInv, TypeOK, JobsOK, JobKnows, SerialInv, JobBacked, UpdateTarget, Job
<1> DEFINE next(t) == IF j.targets \ {t} = {} THEN IdleJob
                      ELSE [j EXCEPT !.targets = j.targets \ {t}]
<1>2. PICK t \in j.targets :
        IF DereferencesNil(j, t)
        THEN SetJob(p, [j EXCEPT !.pc = "panicked"]) /\ UNCHANGED SgiAllowlist
        ELSE IF j.kind = "share"
        THEN /\ SgiAllowlist' = [SgiAllowlist EXCEPT ![t] = @ \union SharedSgis(j, t)]
             /\ job' = [q \in Procs |-> IF q = p THEN next(t) ELSE NoteGrant(q, t, SharedSgis(j, t))]
        ELSE /\ SgiAllowlist' = [SgiAllowlist EXCEPT ![t] = @ \ SharedSgis(j, t)]
             /\ SetJob(p, next(t))
  BY DEF UpdateTarget
<1>3. shr' = shr /\ t \in Users
  BY <1>1 DEF UpdateTarget
<1>4. ASSUME NEW u \in Users, NEW g \in SgiAllowlist[u]
      PROVE  Backed(u, g) \/ AboutToRevoke(j, u, g)
  BY <1>1 DEF GrantsBackedOrRevoked
<1>5. /\ next(t).pc = "idle" \/ (/\ next(t).pc = "update" /\ next(t).kind = j.kind
                                 /\ next(t).nodes = j.nodes /\ next(t).targets = j.targets \ {t})
      /\ \A u \in j.targets : u # t => next(t).pc = "update"
  BY <1>1 DEF IdleJob, Job
<1>6. ASSUME job'[p] = next(t) PROVE JobBacked(job[p])'
  BY <1>1, <1>3, <1>5, <1>6 DEF JobBacked
<1> HIDE DEF next
<1>7. CASE DereferencesNil(j, t)
  <2>1. SetJob(p, [j EXCEPT !.pc = "panicked"]) /\ UNCHANGED SgiAllowlist
    BY <1>2, <1>7
  <2>2. \A u : SharedSgis(j, u) = {}
    BY <1>1, <1>7, PanicGrantsNothing
  <2>3. GrantsBackedOrRevoked'
    BY <1>3, <1>4, <2>1, <2>2 DEF GrantsBackedOrRevoked, AboutToRevoke, Backed
  <2>4. job'[p].pc = "panicked"
    BY <1>1, <2>1 DEF SetJob, TypeOK, Job
  <2> QED BY <1>1, <2>3, <2>4 DEF SerialInv, JobBacked
<1>8. CASE ~DereferencesNil(j, t) /\ j.kind = "share"
  <2>1. /\ SgiAllowlist' = [SgiAllowlist EXCEPT ![t] = @ \union SharedSgis(j, t)]
        /\ job'[p] = next(t)
    BY <1>2, <1>8
  <2>2. \A g \in SharedSgis(j, t) : Backed(t, g)
    BY <1>1, <1>8 DEF JobBacked, SharedSgis, Backed
  <2>3. ASSUME NEW u \in Users, NEW g \in SgiAllowlist'[u] PROVE Backed(u, g)
    <3>1. g \in SgiAllowlist[u] \/ (u = t /\ g \in SharedSgis(j, t))
      BY <1>1, <1>3, <2>1 DEF TypeOK
    <3> QED BY <1>4, <1>8, <2>2, <3>1 DEF AboutToRevoke
  <2>4. GrantsBackedOrRevoked'
    BY <1>3, <2>3 DEF GrantsBackedOrRevoked, Backed
  <2> QED BY <1>1, <1>6, <2>1, <2>4 DEF SerialInv
<1>9. CASE ~DereferencesNil(j, t) /\ j.kind = "unshare"
  <2>1. /\ SgiAllowlist' = [SgiAllowlist EXCEPT ![t] = @ \ SharedSgis(j, t)]
        /\ job'[p] = next(t)
    BY <1>1, <1>2, <1>9 DEF SetJob, TypeOK
  <2>2. ASSUME NEW u \in Users, NEW g \in SgiAllowlist'[u]
        PROVE  Backed(u, g) \/ AboutToRevoke(next(t), u, g)
    <3>1. g \in SgiAllowlist[u] /\ (u = t => g \notin SharedSgis(j, t))
      BY <1>1, <1>3, <2>1 DEF TypeOK
    <3>2. CASE u = t
      BY <1>4, <3>1, <3>2 DEF AboutToRevoke
    <3>3. CASE u # t /\ AboutToRevoke(j, u, g)
      <4>1. u \in j.targets /\ g \in SharedSgis(j, u) /\ next(t).pc = "update"
        BY <1>5, <3>3 DEF AboutToRevoke
      <4>2. next(t).kind = "unshare" /\ next(t).nodes = j.nodes /\ u \in next(t).targets
        BY <1>5, <1>9, <3>3, <4>1
      <4> QED BY <4>1, <4>2 DEF AboutToRevoke, SharedSgis
    <3> QED BY <1>4, <3>1, <3>2, <3>3
  <2>3. GrantsBackedOrRevoked'
    BY <1>3, <2>1, <2>2 DEF GrantsBackedOrRevoked, Backed, AboutToRevoke, SharedSgis
  <2> QED BY <1>1, <1>6, <2>1, <2>3 DEF SerialInv
<1> QED BY <1>1, <1>7, <1>8, <1>9

LEMMA PrimeBacked ==
  ASSUME OneAtATime, IInv, SerialInv, NEW p \in Procs, Prime(p)
  PROVE  SerialInv'
<1> DEFINE j == job[p]
<1>1. /\ TypeOK /\ j \in Job /\ j.pc = "prime" /\ j.user \in Users
      /\ JobBacked(j) /\ GrantsBackedOrRevoked /\ \A q \in Procs : q = p
  BY DEF OneAtATime, IInv, TypeOK, JobsOK, JobKnows, SerialInv, Prime
<1>2. /\ shr' = shr /\ job'[p].pc \in {"pack", "panicked"}
      /\ \/ UNCHANGED SgiAllowlist
         \/ SgiAllowlist' = [SgiAllowlist EXCEPT ![j.user] = @ \union SharedSgis(j, j.user)]
  <2>1. CASE j.user \in Sys
    <3>1. SetJob(p, [j EXCEPT !.pc = "pack", !.todo = j.nodes, !.nodes = {}])
          /\ UNCHANGED <<shr, SgiAllowlist>>
      BY <2>1 DEF Prime
    <3> QED BY <1>1, <3>1 DEF SetJob, TypeOK, Job
  <2>2. CASE j.user \notin Sys /\ DereferencesNil(j, j.user)
    BY <1>1, <2>2 DEF Prime, SetJob, TypeOK, Job
  <2>3. CASE j.user \notin Sys /\ ~DereferencesNil(j, j.user)
    <3>1. /\ SgiAllowlist' = [SgiAllowlist EXCEPT ![j.user] = @ \union SharedSgis(j, j.user)]
          /\ shr' = shr
          /\ job'[p] = [[j EXCEPT !.pc = "pack", !.todo = j.nodes, !.nodes = {}]
                          EXCEPT !.fresh = @ \union SharedSgis(j, j.user)]
      BY <2>3 DEF Prime
    <3>2. job'[p].pc = "pack"
      BY <1>1, <3>1 DEF Job
    <3> QED BY <3>1, <3>2
  <2> QED BY <2>1, <2>2, <2>3
<1>3. \A g \in SharedSgis(j, j.user) : Backed(j.user, g)
  BY <1>1 DEF JobBacked, SharedSgis, Backed
<1>4. ASSUME NEW u \in Users, NEW g \in SgiAllowlist'[u] PROVE Backed(u, g)
  <2>1. g \in SgiAllowlist[u] \/ (u = j.user /\ g \in SharedSgis(j, u))
    BY <1>1, <1>2 DEF TypeOK
  <2>2. g \in SgiAllowlist[u] => Backed(u, g)
    BY <1>1 DEF GrantsBackedOrRevoked, AboutToRevoke
  <2> QED BY <1>3, <2>1, <2>2
<1>5. GrantsBackedOrRevoked'
  BY <1>2, <1>4 DEF GrantsBackedOrRevoked, Backed
<1> QED BY <1>1, <1>2, <1>5 DEF SerialInv, JobBacked

LEMMA SerialStep == OneAtATime /\ IInv /\ SerialInv /\ [Next]_vars => SerialInv'
<1> SUFFICES ASSUME OneAtATime, IInv, SerialInv, [Next]_vars PROVE SerialInv'
  OBVIOUS
<1>1. CASE Restart
  BY <1>1 DEF Restart, SerialInv, GrantsBackedOrRevoked, JobBacked, IdleJob
<1>2. ASSUME NEW p \in Procs, Begin(p) PROVE SerialInv'
  BY <1>2, BeginBacked
<1>3. ASSUME NEW p \in Procs, Continue(p) PROVE SerialInv'
  BY <1>3, ReadingBacked, MutationBacked, UpdateBacked, PrimeBacked DEF Continue
<1>4. CASE UNCHANGED vars
  BY <1>4 DEF vars, SerialInv, GrantsBackedOrRevoked, Backed, AboutToRevoke, SharedSgis, JobBacked
<1>5. ASSUME NEW u, NEW ns, PatchShr(u, ns) PROVE FALSE
  BY <1>5 DEF PatchShr, Stray, OneAtATime, IInv, TypeOK
<1> QED BY <1>1, <1>2, <1>3, <1>4, <1>5 DEF Next

(* Without overlapping requests and failing mutations, what docs/about.md  *)
(* says of the two stores is true between requests: every group granted to *)
(* a user has a readable node behind one of its shr edges, also after      *)
(* panics and restarts.  The run sharing_race shows that overlapping       *)
(* requests break it.                                                      *)
THEOREM GrantsBackedOneAtATime ==
  ASSUME OneAtATime PROVE Spec => []QuiescentGrantsBacked
<1>1. Init => SerialInv
  BY DEF Init, SerialInv, GrantsBackedOrRevoked, JobBacked, IdleJob
<1>2. IInv /\ SerialInv /\ [Next]_vars => SerialInv'
  BY SerialStep
<1>3. SerialInv => QuiescentGrantsBacked
  BY DEF SerialInv, GrantsBackedOrRevoked, AboutToRevoke, Backed, Quiescent, QuiescentGrantsBacked
<1>4. Spec => []IInv
  BY Inductive
<1> QED BY <1>1, <1>2, <1>3, <1>4, PTL DEF Spec

-----------------------------------------------------------------------------
(* What it takes for a listing to panic.  Every step keeps the kind of the *)
(* requests it leaves in progress, and a listing reaches the dereference   *)
(* with nodes as they are stored.                                          *)
Answered(j) == ~(j.kind = "list" /\ j.pc = "panicked")

LEMMA StoredNeverNil ==
  ASSUME \A n \in Nodes : ReadPerm[n] # "absent",
         NEW j \in Job, NEW u \in Users, DereferencesNil(j, u)
  PROVE  j.kind # "list"
BY DEF DereferencesNil, PermReadIsNil, Job

LEMMA AnsweredStep ==
  ASSUME \A n \in Nodes : ReadPerm[n] # "absent", IInv, ListingsAnswered,
         NEW p \in Procs, Begin(p) \/ Continue(p)
  PROVE  ListingsAnswered'
<1> DEFINE j == job[p]
<1> USE DEF Answered
<1>1. /\ j \in Job /\ job \in [Procs -> Job] /\ (j.pc # "idle" => j.user \in Users)
      /\ \A q \in Procs : Answered(job[q])
  BY DEF IInv, TypeOK, JobsOK, JobKnows, ListingsAnswered
<1>2. SUFFICES \A q \in Procs : Answered(job'[q])
  BY DEF ListingsAnswered
<1>3. ASSUME NEW k, SetJob(p, k), Answered(k) PROVE \A q \in Procs : Answered(job'[q])
  BY <1>1, <1>3 DEF SetJob
<1>4. \A q \in Procs : \A u, sgis : Answered(NoteGrant(q, u, sgis))
  BY <1>1 DEF NoteGrant, Job
<1>5. Answered(IdleJob)
  BY DEF IdleJob
<1>6. CASE Begin(p)
  <2>1. ASSUME NEW kind \in {"share", "unshare"}, NEW u, NEW ns, NEW ts, BeginShare(p, kind, u, ns, ts)
        PROVE  \A q \in Procs : Answered(job'[q])
    <3> DEFINE k == [IdleJob EXCEPT !.pc = "unpack", !.kind = kind, !.user = u,
                                   !.nodes = ns, !.todo = ns, !.targets = ts]
    <3>1. SetJob(p, k)
      BY <2>1 DEF BeginShare
    <3>2. Answered(k)
      BY DEF IdleJob
    <3> HIDE DEF k
    <3> QED BY <1>3, <3>1, <3>2
  <2>2. ASSUME NEW u, NEW ns, ListShared(p, u, ns) \/ ListSearch(p, u, ns)
        PROVE  \A q \in Procs : Answered(job'[q])
    <3> DEFINE k == Listing(u, ns)
    <3>1. SetJob(p, k)
      BY <2>2 DEF ListShared, ListSearch
    <3>2. Answered(k)
      BY DEF Listing, IdleJob
    <3> HIDE DEF k
    <3> QED BY <1>3, <3>1, <3>2
  <2>3. ASSUME NEW u, NEW ns, BeginQuery(p, u, ns) PROVE \A q \in Procs : Answered(job'[q])
    <3> DEFINE k == [IdleJob EXCEPT !.pc = "unpack", !.kind = "query", !.user = u, !.todo = ns]
    <3>1. SetJob(p, k)
      BY <2>3 DEF BeginQuery
    <3>2. Answered(k)
      BY DEF IdleJob
    <3> HIDE DEF k
    <3> QED BY <1>3, <3>1, <3>2
  <2> QED BY <1>6, <2>1, <2>2, <2>3 DEF Begin
<1>7. CASE \/ UnpackNode(p) \/ CheckTargets(p) \/ UpdateUserShareEdges(p) \/ ReadAllowedSgis(p)
           \/ QueryWithOptions(p) \/ PackNode(p) \/ Respond(p) \/ Recover(p)
  <2>1. CASE UnpackNode(p)
    <3>1. PICK n : SetJob(p, IF MayUse(j.user, n, j.kind)
                             THEN [j EXCEPT !.todo = @ \ {n}] ELSE IdleJob)
      BY <2>1 DEF UnpackNode
    <3>2. Answered([j EXCEPT !.todo = @ \ {n}])
      BY <1>1 DEF Job
    <3> QED BY <1>3, <1>5, <3>1, <3>2
  <2>2. CASE CheckTargets(p)
    <3>1. SetJob(p, IdleJob) \/ SetJob(p, [j EXCEPT !.pc = "mutate"])
      BY <2>2 DEF CheckTargets
    <3>2. Answered([j EXCEPT !.pc = "mutate"])
      BY <1>1 DEF Job
    <3> QED BY <1>3, <1>5, <3>1, <3>2
  <2>3. CASE UpdateUserShareEdges(p)
    <3>1. Answered([j EXCEPT !.pc = "update"])
      BY <1>1 DEF Job
    <3> QED BY <1>3, <2>3, <3>1 DEF UpdateUserShareEdges
  <2>4. CASE ReadAllowedSgis(p)
    <3>1. Answered([j EXCEPT !.pc = "query", !.sgis = SgiAllowlist[j.user]])
      BY <1>1 DEF Job
    <3> QED BY <1>3, <2>4, <3>1 DEF ReadAllowedSgis
  <2>5. CASE QueryWithOptions(p)
    <3> DEFINE k(ns) == [j EXCEPT !.pc = "pack", !.todo = ns, !.sgis = {},
                                    !.fresh = SgiAllowlist[j.user]]
    <3>1. PICK ns : SetJob(p, k(ns))
      BY <2>5 DEF QueryWithOptions
    <3>2. Answered(k(ns))
      BY <1>1 DEF Job
    <3> HIDE DEF k
    <3> QED BY <1>3, <3>1, <3>2
  <2>6. CASE PackNode(p)
    <3> DEFINE rest(n) == [j EXCEPT !.todo = @ \ {n}]
               k(n, es) == IF MayRead(j.user, n)
                           THEN [rest(n) EXCEPT !.out = @ \union {n}, !.below = @ \union es]
                           ELSE rest(n)
    <3>1. PICK n, es : SetJob(p, k(n, es))
      BY <2>6 DEF PackNode
    <3>2. Answered(k(n, es))
      BY <1>1 DEF Job
    <3> HIDE DEF k
    <3> QED BY <1>3, <3>1, <3>2
  <2>7. CASE Respond(p) \/ Recover(p)
    BY <1>3, <1>5, <2>7 DEF Respond, Recover
  <2> QED BY <1>7, <2>1, <2>2, <2>3, <2>4, <2>5, <2>6, <2>7
<1>8. CASE UpdateTarget(p)
  <2> DEFINE next(t) == IF j.targets \ {t} = {} THEN IdleJob
                        ELSE [j EXCEPT !.targets = j.targets \ {t}]
             pan == [j EXCEPT !.pc = "panicked"]
  <2>1. PICK t \in j.targets :
          \/ DereferencesNil(j, t) /\ SetJob(p, pan)
          \/ SetJob(p, next(t))
          \/ job' = [q \in Procs |-> IF q = p THEN next(t)
                                     ELSE NoteGrant(q, t, SharedSgis(j, t))]
    BY <1>8 DEF UpdateTarget
  <2>2. Answered(next(t))
    BY <1>1, <1>5, <1>8 DEF Job, UpdateTarget
  <2>3. DereferencesNil(j, t) => Answered(pan)
    BY <1>1, StoredNeverNil DEF Job
  <2> HIDE DEF next, pan
  <2> QED BY <1>3, <1>4, <2>1, <2>2, <2>3
<1>9. CASE Prime(p)
  <2> DEFINE next == [j EXCEPT !.pc = "pack", !.todo = j.nodes, !.nodes = {}]
             noted == [next EXCEPT !.fresh = @ \union SharedSgis(j, j.user)]
             pan == [j EXCEPT !.pc = "panicked"]
  <2>1. \/ DereferencesNil(j, j.user) /\ SetJob(p, pan)
        \/ SetJob(p, next)
        \/ job' = [q \in Procs |-> IF q = p THEN noted
                                   ELSE NoteGrant(q, j.user, SharedSgis(j, j.user))]
    BY <1>9 DEF Prime
  <2>2. Answered(next) /\ Answered(noted)
    BY <1>1 DEF Job
  <2>3. DereferencesNil(j, j.user) => Answered(pan)
    BY <1>1, <1>9, StoredNeverNil DEF Job, Prime
  <2> HIDE DEF next, noted, pan
  <2> QED BY <1>3, <1>4, <2>1, <2>2, <2>3
<1> QED BY <1>6, <1>7, <1>8, <1>9 DEF Continue

(* Where every node is stored with its r, true or false, no listing of     *)
(* shared nodes panics (UpdateAllowListSharedSgis), whatever overlaps with *)
(* it: what the run listing_without_r shows takes a node stored without r. *)
THEOREM ListingsAnsweredWithR ==
  ASSUME \A n \in Nodes : ReadPerm[n] # "absent" PROVE Spec => []ListingsAnswered
<1>1. Init => ListingsAnswered
  <2>1. IdleJob.pc = "idle"
    BY DEF IdleJob
  <2> QED BY <2>1 DEF Init, ListingsAnswered
<1>2. IInv /\ ListingsAnswered /\ [Next]_vars => ListingsAnswered'
  <2> SUFFICES ASSUME IInv, ListingsAnswered, [Next]_vars PROVE ListingsAnswered'
    OBVIOUS
  <2>1. CASE Restart
    BY <2>1 DEF Restart, IdleJob, ListingsAnswered
  <2>2. ASSUME NEW p \in Procs, Begin(p) \/ Continue(p) PROVE ListingsAnswered'
    BY <2>2, AnsweredStep
  <2>3. CASE UNCHANGED vars \/ \E u \in Users, ns \in StrayLists : PatchShr(u, ns)
    BY <2>3 DEF vars, PatchShr, ListingsAnswered
  <2> QED BY <2>1, <2>2, <2>3 DEF Next
<1> QED BY <1>1, <1>2, Inductive, PTL DEF Spec
=============================================================================
