--------------------------- MODULE DeltaSyncProofs ---------------------------
(***************************************************************************)
(* Theorems about DeltaSync: its types, and which changes a watermark can  *)
(* skip, for any number of nodes, writers, clients, writes and ticks.      *)
(***************************************************************************)
EXTENDS DeltaSync, WellFoundedInduction, TLAPS

(* What a client will hold of a node once the answer under way is in.      *)
Incoming(c, n) == IF n \in sync[c].nodes THEN sync[c].ver[n] ELSE cache[c][n]

(* No node is older than the last commit, nor is what a query has read.    *)
TimesOK ==
  /\ now >= 1
  /\ \A n \in Nodes : m[n] <= top
  /\ \A c \in Clients, n \in Nodes : sync[c].m[n] <= top

(* The nodes of a scope exist.                                             *)
ScopeOK == \A c \in Clients : \A n \in scope[c] : m[n] # 0

(* A write under way has a stamp, and the nodes it does not stamp exist.   *)
JobOK(j) ==
  j.pc # "idle" =>
    /\ j.at >= 1
    /\ \A n \in j.nested : m[n] # 0
    /\ j.kind \in {"link", "unlink"} => \A n \in j.nodes : m[n] # 0

(* The node is ahead of everything the answer under way can make the       *)
(* watermark of, unless the answer brings it up to date.                   *)
Ahead(c, n) ==
  Incoming(c, n) # ver[n] /\ n \notin hidden[c] =>
    /\ \A k \in sync[c].nodes : m[n] > sync[c].m[k]
    /\ Handed(c) = 0 \/ m[n] > Handed(c)

Skip(c, n) == cache[c][n] # ver[n] /\ n \notin hidden[c] => wm[c] = 0 \/ m[n] > wm[c]

DataOK == \A c \in Clients : \A n \in scope[c] : Ahead(c, n) /\ Skip(c, n)

IdleOK == \A c \in Clients : sync[c].pc = "idle" => sync[c].nodes = {}

IInv ==
  /\ TypeOK /\ TimesOK /\ ScopeOK /\ IdleOK /\ DataOK
  /\ \A w \in Writers : JobOK(job[w])

-----------------------------------------------------------------------------
(* A nonempty set of times has a greatest member.                          *)
LEMMA GreatestTime ==
  ASSUME NEW S, S \subseteq Times, S # {}
  PROVE  \E t \in S : \A s \in S : s <= t
<1> DEFINE T == {MaxTime - t : t \in S}
<1>1. MaxTime \in Nat
  BY ConstantsOK
<1>2. T \subseteq Nat /\ T # {}
  <2>1. ASSUME NEW t \in S PROVE MaxTime - t \in Nat
    BY <1>1 DEF Times
  <2> QED BY <2>1
<1> HIDE DEF T
<1>3. PICK x \in T : \A y \in T : ~(<<y, x>> \in OpToRel(<, Nat))
  BY <1>2, NatLessThanWellFounded, WFMin, Zenon
<1>4. \A y \in T : ~(y < x)
  BY <1>2, <1>3, Zenon DEF OpToRel
<1>5. PICK t \in S : x = MaxTime - t
  BY DEF T
<1>6. ASSUME NEW s \in S PROVE s <= t
  <2>1. MaxTime - s \in T
    BY DEF T
  <2> QED BY <2>1, <1>1, <1>4, <1>5 DEF Times
<1> QED BY <1>6

LEMMA Bounds == MaxTime \in Nat /\ MaxTime >= 1 /\ MaxWrites \in Nat
BY ConstantsOK

LEMMA InitInv == Init => IInv
<1> SUFFICES ASSUME Init PROVE IInv
  OBVIOUS
<1>1. IdleJob \in Job /\ NoSync \in Sync
  BY Bounds DEF IdleJob, Job, NoSync, Sync, Times
<1>2. TypeOK
  BY <1>1, Bounds DEF Init, TypeOK, Times
<1>3. TimesOK /\ ScopeOK /\ IdleOK
  BY DEF Init, TimesOK, ScopeOK, IdleOK, NoSync
<1>4. DataOK
  BY DEF Init, DataOK, Ahead, Skip, Incoming, NoSync
<1>5. \A w \in Writers : JobOK(job[w])
  BY DEF Init, JobOK, IdleJob
<1> QED BY <1>2, <1>3, <1>4, <1>5 DEF IInv

(* A step of a writer up to its mutation.                                  *)
LEMMA BeginInv ==
  ASSUME IInv, NEW w \in Writers, NEW j \in Job, SetJob(w, j), JobOK(j),
         writes' \in 0 .. MaxWrites, UNCHANGED <<now, database, scope, client, top, hidden>>
  PROVE  IInv'
<1>1. TypeOK'
  BY DEF IInv, TypeOK, SetJob, database, client
<1>2. TimesOK' /\ ScopeOK' /\ IdleOK'
  BY DEF IInv, TimesOK, ScopeOK, IdleOK, database, client
<1>3. DataOK'
  BY DEF IInv, DataOK, Ahead, Skip, Incoming, Handed, database, client
<1>4. \A v \in Writers : job'[v] = job[v] \/ job'[v] = j
  BY DEF IInv, TypeOK, SetJob
<1>5. (\A v \in Writers : JobOK(job[v]))'
  BY <1>4 DEF IInv, JobOK, database
<1> QED BY <1>1, <1>2, <1>3, <1>5 DEF IInv

LEMMA BeginUpsertInv ==
  ASSUME IInv, NEW w \in Writers, NEW ns \in SUBSET Nodes, NEW nested \in SUBSET Nodes,
         BeginUpsert(w, ns, nested)
  PROVE  IInv'
<1> DEFINE j == [pc |-> "mutate", kind |-> "upsert", nodes |-> ns, nested |-> nested, at |-> now]
<1>1. j \in Job
  BY DEF IInv, TypeOK, Job
<1>2. JobOK(j)
  BY DEF IInv, TimesOK, JobOK, BeginUpsert, Exists
<1>3. writes' \in 0 .. MaxWrites
  BY Bounds DEF IInv, TypeOK, BeginUpsert
<1>4. SetJob(w, j) /\ UNCHANGED <<now, database, scope, client, top, hidden>>
  BY DEF BeginUpsert
<1> QED BY <1>1, <1>2, <1>3, <1>4, BeginInv

LEMMA BeginEdgesInv ==
  ASSUME IInv, NEW w \in Writers, NEW kind \in {"link", "unlink"}, NEW ns \in SUBSET Nodes,
         BeginEdges(w, kind, ns)
  PROVE  IInv'
<1> DEFINE j == [pc |-> "mutate", kind |-> kind, nodes |-> ns, nested |-> {}, at |-> now]
<1>1. j \in Job
  BY DEF IInv, TypeOK, Job
<1>2. JobOK(j)
  BY DEF IInv, TimesOK, JobOK, BeginEdges, Exists
<1>3. writes' \in 0 .. MaxWrites
  BY Bounds DEF IInv, TypeOK, BeginEdges
<1>4. SetJob(w, j) /\ UNCHANGED <<now, database, scope, client, top, hidden>>
  BY DEF BeginEdges
<1> QED BY <1>1, <1>2, <1>3, <1>4, BeginInv

(* A commit: what it changes is hidden from a client, or carries an m      *)
(* later than all the client can have been told.                           *)
LEMMA ChangeInv ==
  ASSUME IInv, NEW w \in Writers, NEW j \in Job, SetJob(w, j), JobOK(j),
         NEW ns \in SUBSET Nodes, NEW stamped \in SUBSET Nodes, NEW at \in Times,
         NEW silent \in SUBSET Nodes, NEW to \in [Clients -> SUBSET Nodes],
         Change(ns, stamped, at, silent, to), at >= 1, ns \ silent \subseteq stamped,
         \A c \in Clients : \A n \in to[c] : m[n] # 0 \/ n \in stamped,
         UNCHANGED <<now, writes, client>>
  PROVE  IInv'
<1>1. TypeOK /\ Bounds!1 /\ \A n \in Nodes : m[n] \in Nat /\ ver[n] \in Nat
  BY Bounds DEF IInv, TypeOK, Times
<1>2. at \in Nat /\ top \in Nat /\ now \in Nat /\ (\A c \in Clients : wm[c] \in Nat)
      /\ (\A c \in Clients : sync[c].time \in Nat /\ sync[c].nodes \subseteq Nodes)
      /\ \A c \in Clients, n \in Nodes : sync[c].m[n] \in Nat
  BY <1>1, Bounds DEF TypeOK, Times, Sync
<1>3. /\ \A n \in Nodes : /\ ver'[n] = IF n \in ns THEN ver[n] + 1 ELSE ver[n]
                          /\ m'[n] = IF n \in stamped THEN at ELSE m[n]
      /\ top' = (IF stamped # {} /\ at > top THEN at ELSE top) /\ scope' = to
  BY DEF Change
<1>4. \A c \in Clients : \A n \in to[c] :
        n \notin hidden'[c] =>
          \/ Unseen(c)
          \/ n \in stamped /\ at > top /\ at > Handed(c)
          \/ n \notin ns /\ n \notin stamped /\ n \notin hidden[c] /\ n \in scope[c]
  <2> SUFFICES ASSUME NEW c \in Clients, NEW n \in to[c], n \notin hidden'[c], ~Unseen(c)
               PROVE  \/ n \in stamped /\ at > top /\ at > Handed(c)
                      \/ n \notin ns /\ n \notin stamped /\ n \notin hidden[c] /\ n \in scope[c]
    OBVIOUS
  <2> DEFINE late == at <= top \/ at <= Handed(c)
             timed == IF late THEN {} ELSE (ns \union stamped) \ silent
  <2>1. hidden'[c] = (hidden[c] \union ns \union stamped \union (to[c] \ scope[c])) \ timed
    BY DEF Change
  <2>2. Handed(c) \in Nat
    BY <1>2 DEF Handed
  <2>3. CASE n \in timed
    <3>1. n \in stamped /\ ~late
      BY <2>3
    <3> QED BY <3>1, <2>2, <1>2
  <2>4. CASE n \notin timed
    BY <2>1, <2>4
  <2> QED BY <2>3, <2>4
<1>5. hidden' \in [Clients -> SUBSET Nodes]
  <2>1. \A c \in Clients : hidden[c] \subseteq Nodes
    BY <1>1 DEF TypeOK
  <2>2. \A c \in Clients : to[c] \subseteq Nodes
    OBVIOUS
  <2> QED BY <2>1, <2>2 DEF Change
<1>6. TypeOK'
  <2>1. m' \in [Nodes -> Times] /\ ver' \in [Nodes -> Nat] /\ top' \in Times
    BY <1>1 DEF Change, TypeOK
  <2>2. job' \in [Writers -> Job]
    BY <1>1 DEF SetJob, TypeOK
  <2> QED BY <2>1, <2>2, <1>1, <1>3, <1>5 DEF TypeOK, client
<1>7. TimesOK'
  BY <1>1, <1>2, <1>3 DEF IInv, TimesOK, client
<1>8. ScopeOK'
  <2> SUFFICES ASSUME NEW c \in Clients, NEW n \in to[c] PROVE m'[n] # 0
    BY <1>3 DEF ScopeOK
  <2> QED BY <1>2, <1>3
<1>9. IdleOK'
  BY DEF IInv, IdleOK, client
<1>10. DataOK'
  <2> SUFFICES ASSUME NEW c \in Clients, NEW n \in to[c], n \notin hidden'[c]
               PROVE  Ahead(c, n)' /\ Skip(c, n)'
    BY <1>3 DEF DataOK, Ahead, Skip
  <2>1. sync' = sync /\ wm' = wm /\ cache' = cache /\ Handed(c)' = Handed(c) /\ n \in Nodes
    BY DEF client, Handed
  <2>2. CASE Unseen(c)
    <3>1. sync[c].nodes = {} /\ wm[c] = 0 /\ Handed(c) = 0
      BY <2>2 DEF IInv, IdleOK, Unseen, Handed
    <3> QED BY <2>1, <3>1 DEF Ahead, Skip
  <2>3. CASE n \in stamped /\ at > top /\ at > Handed(c)
    <3>1. m'[n] = at
      BY <2>1, <2>3, <1>3
    <3>2. \A k \in sync[c].nodes : m'[n] > sync[c].m[k]
      BY <2>3, <3>1, <1>2 DEF IInv, TimesOK
    <3>3. wm[c] = 0 \/ wm[c] = Handed(c)
      BY DEF Handed
    <3> QED BY <2>1, <2>3, <3>1, <3>2, <3>3 DEF Ahead, Skip
  <2>4. CASE n \notin ns /\ n \notin stamped /\ n \notin hidden[c] /\ n \in scope[c]
    <3>1. m'[n] = m[n] /\ ver'[n] = ver[n] /\ Incoming(c, n)' = Incoming(c, n)
      BY <2>1, <2>4, <1>3 DEF Incoming
    <3> QED BY <2>1, <2>4, <3>1 DEF IInv, DataOK, Ahead, Skip
  <2> QED BY <2>2, <2>3, <2>4, <1>4
<1>11. \A v \in Writers : job'[v] = job[v] \/ job'[v] = j
  BY <1>1 DEF TypeOK, SetJob
<1>12. \A n \in Nodes : m[n] # 0 => m'[n] # 0
  BY <1>2, <1>3
<1>13. \A v \in Writers : job[v] \in Job /\ JobOK(job[v])
  BY <1>1 DEF IInv, TypeOK
<1>14. (\A v \in Writers : JobOK(job[v]))'
  BY <1>11, <1>12, <1>13 DEF JobOK, Job
<1> QED BY <1>6, <1>7, <1>8, <1>9, <1>10, <1>14 DEF IInv

LEMMA IdleJobOK == IdleJob \in Job /\ JobOK(IdleJob)
BY Bounds DEF IdleJob, Job, JobOK, Times

LEMMA MutateInv ==
  ASSUME IInv, NEW w \in Writers, NEW to \in [Clients -> SUBSET Nodes], Mutate(w, to)
  PROVE  IInv'
<1> DEFINE j == job[w]
           silent == j.nested \union (IF j.kind = "unlink" THEN j.nodes ELSE {})
           next == IF j.kind = "unlink" THEN [j EXCEPT !.pc = "touch", !.at = now] ELSE IdleJob
<1>1. /\ j \in Job /\ JobOK(j) /\ j.pc = "mutate" /\ now \in Times /\ now >= 1
  BY DEF IInv, TypeOK, TimesOK, Mutate
<1>2. /\ j.nodes \in SUBSET Nodes /\ j.nested \in SUBSET Nodes /\ j.at \in Times /\ j.at >= 1
      /\ j.pc # "idle"
  BY <1>1 DEF Job, JobOK
<1>3. next \in Job
  <2>1. [j EXCEPT !.pc = "touch", !.at = now] \in Job
    BY <1>1 DEF Job
  <2> QED BY <2>1, IdleJobOK
<1>4. JobOK(next)
  <2>1. CASE j.kind = "unlink"
    <3>1. /\ next.nested = j.nested /\ next.nodes = j.nodes /\ next.kind = j.kind
          /\ next.at = now
      BY <1>1, <2>1 DEF Job
    <3> QED BY <3>1, <1>1, <1>2 DEF JobOK
  <2>2. CASE j.kind # "unlink"
    BY <2>2, IdleJobOK
  <2> QED BY <2>1, <2>2
<1>5. /\ Change(j.nodes \union j.nested, Stamped(j), j.at, silent, to) /\ SetJob(w, next)
      /\ \A c \in Clients : \A n \in to[c] : m[n] # 0 \/ n \in Stamped(j)
      /\ UNCHANGED <<now, writes, client>>
  BY DEF Mutate
<1>6. /\ j.nodes \union j.nested \in SUBSET Nodes /\ Stamped(j) \in SUBSET Nodes
      /\ silent \in SUBSET Nodes
      /\ (j.nodes \union j.nested) \ silent \subseteq Stamped(j)
  BY <1>1, <1>2 DEF Stamped, JobOK
<1> HIDE DEF j, silent, next
<1> QED BY <1>2, <1>3, <1>4, <1>5, <1>6, ChangeInv

LEMMA MutateTimesInv ==
  ASSUME IInv, NEW w \in Writers, MutateTimes(w)
  PROVE  IInv'
<1>1. job[w] \in Job /\ JobOK(job[w]) /\ job[w].pc = "touch"
  BY DEF IInv, TypeOK, MutateTimes
<1>2. job[w].nodes \in SUBSET Nodes /\ job[w].at \in Times /\ job[w].at >= 1
  BY <1>1 DEF Job, JobOK
<1>3. /\ Change({}, job[w].nodes, job[w].at, {}, scope) /\ SetJob(w, IdleJob)
      /\ UNCHANGED <<now, writes, client>>
  BY DEF MutateTimes
<1>4. /\ {} \in SUBSET Nodes /\ {} \ {} \subseteq job[w].nodes
      /\ scope \in [Clients -> SUBSET Nodes]
      /\ \A c \in Clients : \A n \in scope[c] : m[n] # 0 \/ n \in job[w].nodes
  BY DEF IInv, TypeOK, ScopeOK
<1> QED BY <1>2, <1>3, <1>4, IdleJobOK, ChangeInv

LEMMA MutateFailsInv ==
  ASSUME IInv, NEW w \in Writers, MutateFails(w)
  PROVE  IInv'
<1>1. SetJob(w, IdleJob) /\ UNCHANGED <<now, database, writes, scope, client, top, hidden>>
  BY DEF MutateFails
<1>2. writes' \in 0 .. MaxWrites
  BY <1>1 DEF IInv, TypeOK
<1> QED BY <1>1, <1>2, IdleJobOK, BeginInv

(* A step of a client, which leaves the database and the writers alone.    *)
LEMMA ClientStep ==
  ASSUME IInv, TypeOK', UNCHANGED <<now, database, job, top>>,
         \A c \in Clients, n \in Nodes : sync'[c].m[n] <= top,
         ScopeOK', IdleOK', DataOK'
  PROVE  IInv'
<1>1. TimesOK'
  BY DEF IInv, TimesOK, database
<1>2. (\A w \in Writers : JobOK(job[w]))'
  BY DEF IInv, JobOK, database
<1> QED BY <1>1, <1>2 DEF IInv

(* What a step of client c leaves to the others.                           *)
LEMMA OtherClients ==
  ASSUME IInv, NEW c \in Clients, NEW d \in Clients, d # c,
         UNCHANGED database, scope'[d] = scope[d], sync'[d] = sync[d], wm'[d] = wm[d],
         cache'[d] = cache[d], hidden'[d] = hidden[d]
  PROVE  \A n \in scope'[d] : Ahead(d, n)' /\ Skip(d, n)'
<1> SUFFICES ASSUME NEW n \in scope[d] PROVE Ahead(d, n)' /\ Skip(d, n)'
  OBVIOUS
<1>1. Ahead(d, n) /\ Skip(d, n)
  BY DEF IInv, DataOK
<1>2. Incoming(d, n)' = Incoming(d, n) /\ Handed(d)' = Handed(d) /\ m' = m /\ ver' = ver
  BY DEF Incoming, Handed, database
<1> QED BY <1>1, <1>2 DEF Ahead, Skip

LEMMA RescopeInv ==
  ASSUME IInv, NEW c \in Clients, NEW ns \in SUBSET Nodes, Rescope(c, ns)
  PROVE  IInv'
<1>1. /\ TypeOK /\ scope' = [scope EXCEPT ![c] = ns] /\ Exists(ns)
      /\ UNCHANGED <<now, database, job, writes, client, top>>
  BY DEF IInv, Rescope
<1>2. /\ hidden' \in [Clients -> SUBSET Nodes]
      /\ hidden'[c] = IF Unseen(c) THEN {} ELSE hidden[c] \union (ns \ scope[c])
      /\ \A d \in Clients : d # c => hidden'[d] = hidden[d]
  BY <1>1 DEF Rescope, TypeOK
<1>3. TypeOK'
  BY <1>1, <1>2 DEF TypeOK, database, client
<1>4. scope'[c] = ns /\ \A d \in Clients : d # c => scope'[d] = scope[d]
  BY <1>1 DEF TypeOK
<1>5. \A d \in Clients, n \in Nodes : sync'[d].m[n] <= top
  BY <1>1 DEF IInv, TimesOK, client
<1>6. ScopeOK' /\ IdleOK'
  BY <1>1, <1>4 DEF IInv, ScopeOK, IdleOK, Exists, database, client
<1>7. DataOK'
  <2> SUFFICES ASSUME NEW d \in Clients, NEW n \in scope'[d] PROVE Ahead(d, n)' /\ Skip(d, n)'
    BY DEF DataOK
  <2>1. CASE d # c
    BY <2>1, <1>1, <1>2, <1>4, OtherClients DEF client
  <2>2. CASE d = c /\ Unseen(c)
    <3>1. sync'[c].nodes = {} /\ wm'[c] = 0 /\ Handed(c)' = 0
      BY <2>2, <1>1 DEF IInv, IdleOK, Unseen, Handed, client
    <3> QED BY <2>2, <3>1 DEF Ahead, Skip
  <2>3. CASE d = c /\ ~Unseen(c)
    <3> SUFFICES ASSUME n \notin hidden'[c] PROVE Ahead(c, n)' /\ Skip(c, n)'
      BY <2>3 DEF Ahead, Skip
    <3>1. n \in scope[c] /\ n \notin hidden[c]
      BY <2>3, <1>2, <1>4
    <3>2. Ahead(c, n) /\ Skip(c, n)
      BY <3>1 DEF IInv, DataOK
    <3>3. /\ Incoming(c, n)' = Incoming(c, n) /\ Handed(c)' = Handed(c) /\ m' = m /\ ver' = ver
          /\ sync' = sync /\ wm' = wm /\ cache' = cache
      BY <1>1 DEF Incoming, Handed, database, client
    <3> QED BY <3>1, <3>2, <3>3 DEF Ahead, Skip
  <2> QED BY <2>1, <2>2, <2>3
<1> QED BY <1>1, <1>3, <1>5, <1>6, <1>7, ClientStep

LEMMA QueryInv ==
  ASSUME IInv, NEW c \in Clients, Query(c)
  PROVE  IInv'
<1> DEFINE new == [pc |-> "queried", nodes |-> Selected(c), m |-> m, ver |-> ver, time |-> 0]
<1>1. /\ TypeOK /\ sync' = [sync EXCEPT ![c] = new]
      /\ UNCHANGED <<now, database, job, writes, scope, wm, cache, top, hidden>>
  BY DEF IInv, Query
<1>2. new \in Sync
  BY <1>1, Bounds DEF Sync, TypeOK, Selected, Times
<1>3. TypeOK'
  BY <1>1, <1>2 DEF TypeOK, database
<1>4. /\ sync'[c] = new
      /\ \A d \in Clients : d # c => sync'[d] = sync[d]
  BY <1>1 DEF TypeOK
<1>5. \A d \in Clients, n \in Nodes : sync'[d].m[n] <= top
  BY <1>4 DEF IInv, TimesOK
<1>6. ScopeOK' /\ IdleOK'
  BY <1>1, <1>4 DEF IInv, ScopeOK, IdleOK, database
<1>7. DataOK'
  <2> SUFFICES ASSUME NEW d \in Clients, NEW n \in scope'[d] PROVE Ahead(d, n)' /\ Skip(d, n)'
    BY DEF DataOK
  <2>1. CASE d # c
    BY <2>1, <1>1, <1>4, OtherClients
  <2>2. CASE d = c
    <3>1. Skip(c, n) /\ n \in scope[c] /\ n \in Nodes
      BY <2>2, <1>1 DEF IInv, DataOK, TypeOK
    <3>2. Skip(c, n)'
      BY <3>1, <1>1 DEF Skip, database
    <3> SUFFICES ASSUME Incoming(c, n)' # ver'[n], n \notin hidden'[c] PROVE FALSE
      BY <2>2, <3>2 DEF Ahead
    <3>3. n \notin Selected(c) /\ cache[c][n] # ver[n] /\ n \notin hidden[c]
      BY <1>1, <1>4 DEF Incoming, database
    <3>4. wm[c] = 0 \/ m[n] > wm[c]
      BY <3>1, <3>3 DEF Skip
    <3> QED BY <3>1, <3>3, <3>4 DEF Selected
  <2> QED BY <2>1, <2>2
<1> QED BY <1>1, <1>3, <1>5, <1>6, <1>7, ClientStep

LEMMA BuildInv ==
  ASSUME IInv, NEW c \in Clients, NEW dropped \in SUBSET Nodes, Build(c, dropped)
  PROVE  IInv'
<1> DEFINE kept == sync[c].nodes \ dropped
           new == [sync[c] EXCEPT !.pc = "answered", !.nodes = kept, !.time = now]
<1>1. /\ TypeOK /\ dropped \subseteq sync[c].nodes \ scope[c]
      /\ UNCHANGED <<now, database, job, writes, scope, wm, cache, top>>
  BY DEF IInv, Build
<1>2. sync[c] \in Sync /\ now \in Times
  BY <1>1 DEF TypeOK
<1>3. /\ new \in Sync /\ new.pc = "answered" /\ new.nodes = kept /\ new.time = now
      /\ new.m = sync[c].m /\ new.ver = sync[c].ver
  BY <1>2 DEF Sync
<1>4. /\ sync' \in [Clients -> Sync] /\ sync'[c] = new
      /\ \A d \in Clients : d # c => sync'[d] = sync[d]
  <2>1. sync' = [sync EXCEPT ![c] = new]
    BY DEF Build
  <2> QED BY <2>1, <1>1, <1>3 DEF TypeOK
<1>5. /\ hidden' \in [Clients -> SUBSET Nodes]
      /\ hidden'[c] = IF wm[c] = 0 /\ kept = {} THEN hidden[c] \union scope[c] ELSE hidden[c]
      /\ \A d \in Clients : d # c => hidden'[d] = hidden[d]
  BY <1>1 DEF Build, TypeOK
<1> HIDE DEF new
<1>6. TypeOK'
  BY <1>1, <1>4, <1>5 DEF TypeOK, database
<1>7. \A d \in Clients, n \in Nodes : sync'[d].m[n] <= top
  BY <1>3, <1>4 DEF IInv, TimesOK
<1>8. ScopeOK' /\ IdleOK'
  BY <1>1, <1>3, <1>4 DEF IInv, ScopeOK, IdleOK, database
<1>9. DataOK'
  <2> SUFFICES ASSUME NEW d \in Clients, NEW n \in scope'[d] PROVE Ahead(d, n)' /\ Skip(d, n)'
    BY DEF DataOK
  <2>1. CASE d # c
    BY <2>1, <1>1, <1>4, <1>5, OtherClients
  <2>2. CASE d = c
    <3> SUFFICES ASSUME n \notin hidden'[c] PROVE Ahead(c, n)' /\ Skip(c, n)'
      BY <2>2 DEF Ahead, Skip
    <3>1. n \in scope[c] /\ n \notin hidden[c] /\ ~(wm[c] = 0 /\ kept = {})
      BY <2>2, <1>1, <1>5
    <3>2. Ahead(c, n) /\ Skip(c, n)
      BY <3>1 DEF IInv, DataOK
    <3>3. m' = m /\ ver' = ver /\ wm' = wm /\ cache' = cache
      BY <1>1 DEF database
    <3>4. Incoming(c, n)' = Incoming(c, n)
      BY <3>1, <3>3, <1>1, <1>3, <1>4 DEF Incoming
    <3>5. Handed(c)' = wm[c] /\ Handed(c) = wm[c]
      BY <3>1, <3>3, <1>3, <1>4 DEF Handed, Build
    <3>6. \A k \in sync'[c].nodes : k \in sync[c].nodes /\ sync'[c].m[k] = sync[c].m[k]
      BY <1>3, <1>4
    <3> QED BY <3>1, <3>2, <3>3, <3>4, <3>5, <3>6 DEF Ahead, Skip
  <2> QED BY <2>1, <2>2
<1> QED BY <1>1, <1>6, <1>7, <1>8, <1>9, ClientStep

(* The watermark comes from the data of the answer, or stays, or is the    *)
(* time of the answer.                                                     *)
LEMMA WatermarkIs ==
  ASSUME TypeOK, NEW c \in Clients, sync[c].pc = "answered"
  PROVE  /\ Watermark(c) \in Times
         /\ \/ \E k \in sync[c].nodes : Watermark(c) = sync[c].m[k]
            \/ Watermark(c) = Handed(c)
<1> DEFINE received == {sync[c].m[n] : n \in sync[c].nodes}
<1>1. received \subseteq Times /\ wm[c] \in Times /\ sync[c].time \in Times
  BY DEF TypeOK, Sync
<1>2. CASE received # {}
  <2>1. \E t \in received : \A s \in received : s <= t
    BY <1>1, <1>2, GreatestTime
  <2>2. Watermark(c) = CHOOSE t \in received : \A s \in received : s <= t
    BY <1>2 DEF Watermark
  <2>3. Watermark(c) \in received
    BY <2>1, <2>2
  <2> QED BY <2>3, <1>1
<1>3. CASE received = {}
  <2>1. sync[c].nodes = {} /\ Watermark(c) = IF wm[c] # 0 THEN wm[c] ELSE sync[c].time
    BY <1>3 DEF Watermark
  <2> QED BY <2>1, <1>1 DEF Handed
<1> QED BY <1>2, <1>3

LEMMA NoSyncIs ==
  /\ NoSync \in Sync /\ NoSync.nodes = {} /\ NoSync.pc = "idle"
  /\ \A n \in Nodes : NoSync.m[n] = 0
BY Bounds DEF Sync, NoSync, Times

LEMMA ReceiveInv ==
  ASSUME IInv, NEW c \in Clients, Receive(c)
  PROVE  IInv'
<1> DEFINE got == [n \in Nodes |-> IF n \in sync[c].nodes THEN sync[c].ver[n] ELSE cache[c][n]]
<1>1. /\ TypeOK /\ sync[c].pc = "answered" /\ sync' = [sync EXCEPT ![c] = NoSync]
      /\ cache' = [cache EXCEPT ![c] = got] /\ wm' = [wm EXCEPT ![c] = Watermark(c)]
      /\ UNCHANGED <<now, database, job, writes, scope, top, hidden>>
  BY DEF IInv, Receive
<1>2. got \in [Nodes -> Nat] /\ Watermark(c) \in Times
  BY <1>1, WatermarkIs DEF TypeOK, Sync
<1>3. TypeOK'
  BY <1>1, <1>2, NoSyncIs DEF TypeOK, database
<1>4. /\ sync'[c] = NoSync /\ wm'[c] = Watermark(c)
      /\ \A n \in Nodes : cache'[c][n] = Incoming(c, n)
      /\ \A d \in Clients : d # c => sync'[d] = sync[d] /\ wm'[d] = wm[d] /\ cache'[d] = cache[d]
  BY <1>1 DEF TypeOK, Incoming
<1>5. \A d \in Clients, n \in Nodes : sync'[d].m[n] <= top
  BY <1>1, <1>4, NoSyncIs DEF IInv, TimesOK, TypeOK, Times
<1>6. ScopeOK' /\ IdleOK'
  BY <1>1, <1>4, NoSyncIs DEF IInv, ScopeOK, IdleOK, database
<1>7. DataOK'
  <2> SUFFICES ASSUME NEW d \in Clients, NEW n \in scope'[d] PROVE Ahead(d, n)' /\ Skip(d, n)'
    BY DEF DataOK
  <2>1. CASE d # c
    BY <2>1, <1>1, <1>4, OtherClients
  <2>2. CASE d = c
    <3>1. n \in scope[c] /\ n \in Nodes /\ m' = m /\ ver' = ver /\ hidden' = hidden
      BY <2>2, <1>1 DEF TypeOK, database
    <3>2. Incoming(c, n)' = cache'[c][n] /\ sync'[c].nodes = {} /\ Handed(c)' = wm'[c]
      BY <1>4, NoSyncIs DEF Incoming, Handed
    <3> SUFFICES ASSUME Incoming(c, n) # ver[n], n \notin hidden[c]
                 PROVE  Watermark(c) = 0 \/ m[n] > Watermark(c)
      BY <2>2, <3>1, <3>2, <1>4 DEF Ahead, Skip
    <3>3. (\A k \in sync[c].nodes : m[n] > sync[c].m[k]) /\ (Handed(c) = 0 \/ m[n] > Handed(c))
      BY <3>1 DEF IInv, DataOK, Ahead
    <3> QED BY <3>3, <1>1, WatermarkIs
  <2> QED BY <2>1, <2>2
<1> QED BY <1>1, <1>3, <1>5, <1>6, <1>7, ClientStep

LEMMA LoseInv ==
  ASSUME IInv, NEW c \in Clients, Lose(c)
  PROVE  IInv'
<1>1. /\ TypeOK /\ sync' = [sync EXCEPT ![c] = NoSync]
      /\ UNCHANGED <<now, database, job, writes, scope, wm, cache, top>>
  BY DEF IInv, Lose
<1>2. /\ hidden' \in [Clients -> SUBSET Nodes]
      /\ hidden'[c] = IF wm[c] = 0 THEN {} ELSE hidden[c]
      /\ \A d \in Clients : d # c => hidden'[d] = hidden[d]
  BY <1>1 DEF Lose, TypeOK
<1>3. TypeOK'
  BY <1>1, <1>2, NoSyncIs DEF TypeOK, database
<1>4. sync'[c] = NoSync /\ \A d \in Clients : d # c => sync'[d] = sync[d]
  BY <1>1 DEF TypeOK
<1>5. \A d \in Clients, n \in Nodes : sync'[d].m[n] <= top
  BY <1>1, <1>4, NoSyncIs DEF IInv, TimesOK, TypeOK, Times
<1>6. ScopeOK' /\ IdleOK'
  BY <1>1, <1>4, NoSyncIs DEF IInv, ScopeOK, IdleOK, database
<1>7. DataOK'
  <2> SUFFICES ASSUME NEW d \in Clients, NEW n \in scope'[d] PROVE Ahead(d, n)' /\ Skip(d, n)'
    BY DEF DataOK
  <2>1. CASE d # c
    BY <2>1, <1>1, <1>2, <1>4, OtherClients
  <2>2. CASE d = c
    <3>1. /\ Incoming(c, n)' = cache[c][n] /\ sync'[c].nodes = {} /\ Handed(c)' = wm[c]
          /\ wm' = wm /\ cache' = cache /\ m' = m /\ ver' = ver
      BY <1>1, <1>4, NoSyncIs DEF Incoming, Handed, database
    <3>2. Skip(c, n)
      BY <2>2, <1>1 DEF IInv, DataOK
    <3> QED BY <2>2, <3>1, <3>2, <1>2 DEF Ahead, Skip
  <2> QED BY <2>1, <2>2
<1> QED BY <1>1, <1>3, <1>5, <1>6, <1>7, ClientStep

LEMMA TickInv == IInv /\ Tick => IInv'
<1> SUFFICES ASSUME IInv, Tick PROVE IInv'
  OBVIOUS
<1>1. now' \in Times /\ now' >= 1
  BY Bounds DEF IInv, TypeOK, TimesOK, Tick, Times
<1>2. TypeOK'
  BY <1>1 DEF IInv, TypeOK, Tick, database, client
<1>3. TimesOK' /\ ScopeOK' /\ IdleOK'
  BY <1>1 DEF IInv, TimesOK, ScopeOK, IdleOK, Tick, database, client
<1>4. DataOK'
  BY DEF IInv, DataOK, Ahead, Skip, Incoming, Handed, Tick, database, client
<1>5. (\A w \in Writers : JobOK(job[w]))'
  BY DEF IInv, JobOK, Tick, database
<1> QED BY <1>2, <1>3, <1>4, <1>5 DEF IInv

LEMMA NextInv == IInv /\ [Next]_vars => IInv'
<1> SUFFICES ASSUME IInv, [Next]_vars PROVE IInv'
  OBVIOUS
<1>1. CASE UNCHANGED vars
  <2>1. UNCHANGED <<now, database, job, writes, scope, client, top, hidden>>
    BY <1>1 DEF vars
  <2>2. TypeOK' /\ TimesOK' /\ ScopeOK' /\ IdleOK'
    BY <2>1 DEF IInv, TypeOK, TimesOK, ScopeOK, IdleOK, database, client
  <2>3. DataOK'
    BY <2>1 DEF IInv, DataOK, Ahead, Skip, Incoming, Handed, database, client
  <2>4. (\A w \in Writers : JobOK(job[w]))'
    BY <2>1 DEF IInv, JobOK, database
  <2> QED BY <2>2, <2>3, <2>4 DEF IInv
<1> QED BY <1>1, TickInv, BeginUpsertInv, BeginEdgesInv, MutateInv, MutateTimesInv,
           MutateFailsInv, RescopeInv, QueryInv, BuildInv, ReceiveInv, LoseInv DEF Next

-----------------------------------------------------------------------------
LEMMA Invariance == Spec => []IInv
<1> QED BY InitInv, NextInv, PTL DEF Spec

(* Every variable keeps its type; in particular a watermark is a time that *)
(* the clock has shown (syncScope of docs/frontend-guide.md).              *)
THEOREM TypeCorrect == Spec => []TypeOK
<1>1. IInv => TypeOK
  BY DEF IInv
<1> QED BY <1>1, Invariance, PTL

(* Of the nodes that a client's traversal reaches and that it may read, a  *)
(* watermark skips none but those whose last change, or whose entry into   *)
(* that set, came without an m later than every time committed or handed   *)
(* out before it: for any number of overlapping writes, re-scopings and    *)
(* synchronisations (services.UpsertNodes, UpdateEdges, UpsertUserNode,    *)
(* QueryWithOptions).                                                      *)
THEOREM WatermarksSkipNothingElse == Spec => []NothingElseSkipped
<1>1. IInv => NothingElseSkipped
  BY DEF IInv, DataOK, Skip, NothingElseSkipped
<1> QED BY <1>1, Invariance, PTL
=============================================================================
