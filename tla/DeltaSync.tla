------------------------------ MODULE DeltaSync ------------------------------
(***************************************************************************)
(* Delta synchronisation on m, the time a node was modified.  The server   *)
(* stamps m before it sends the transaction that carries it                *)
(* (services/db.go), so transactions commit in an order of their own; a    *)
(* client keeps a cache and asks for the nodes with m beyond its           *)
(* watermark, the highest m it has received (docs/frontend-guide.md,       *)
(* section 7).  A query returns the nodes that a traversal of the edges    *)
(* reaches from its root and that the caller may read; that set changes    *)
(* with the edges, the groups and the grants.  A change is lost to such a  *)
(* client when it is committed with an m the watermark has already passed, *)
(* or without one, and so is a node that comes into the set with an m the  *)
(* watermark has passed.                                                   *)
(*                                                                         *)
(* A node's data is a version number.  The nodes of one mutation get one   *)
(* stamp: the code reads the clock for each, and they commit together.     *)
(***************************************************************************)
EXTENDS Naturals

CONSTANTS
  Nodes,      \* the nodes of the database
  Writers,    \* request goroutines that write
  Clients,    \* clients that synchronise
  MaxTime,    \* bound: the clock
  MaxWrites   \* bound: write requests

ASSUME ConstantsOK == MaxTime \in Nat \ {0} /\ MaxWrites \in Nat

VARIABLES
  now,     \* the server's clock
  m,       \* database: node -> time modified, 0 before it exists
  ver,     \* database: node -> version of its data and edges
  job,     \* what each writer is doing
  writes,  \* write requests begun
  scope,   \* client -> nodes that its root leads to, that it may read and that
           \*           its filter on ty selects
  sync,    \* what each client is doing
  wm,      \* client -> watermark, 0 for none
  cache,   \* client -> node -> version it holds
  top,     \* history: the highest m that has been committed
  hidden   \* history: client -> nodes whose last change had no m of its own, or
           \*          had one that was no later than a time already committed or
           \*          handed out, or that came into the scope without a later one

database == <<m, ver>>
client == <<sync, wm, cache>>
vars == <<now, database, job, writes, scope, client, top, hidden>>

Times == 0 .. MaxTime

(* A write in progress: the nodes that get a new m, those changed without  *)
(* (entries of an e list that carry fields), and the stamp.                *)
Job == [pc    : {"idle", "mutate", "touch"},
        kind  : {"none", "upsert", "link", "unlink"},
        nodes : SUBSET Nodes, nested : SUBSET Nodes, at : Times]

IdleJob == [pc |-> "idle", kind |-> "none", nodes |-> {}, nested |-> {}, at |-> 0]

(* A synchronisation in progress: the nodes of the answer, with the m and  *)
(* version of each, and the time the answer carries.                       *)
Sync == [pc : {"idle", "queried", "answered"}, nodes : SUBSET Nodes,
         m : [Nodes -> Times], ver : [Nodes -> Nat], time : Times]

NoSync == [pc |-> "idle", nodes |-> {}, m |-> [n \in Nodes |-> 0],
           ver |-> [n \in Nodes |-> 0], time |-> 0]

Init ==
  /\ now = 1 /\ top = 0 /\ writes = 0
  /\ m = [n \in Nodes |-> 0] /\ ver = [n \in Nodes |-> 0]
  /\ job = [w \in Writers |-> IdleJob]
  /\ sync = [c \in Clients |-> NoSync]
  /\ wm = [c \in Clients |-> 0]
  /\ cache = [c \in Clients |-> [n \in Nodes |-> 0]]
  /\ scope = [c \in Clients |-> {}]
  /\ hidden = [c \in Clients |-> {}]

SetJob(w, j) == job' = [job EXCEPT ![w] = j]

Exists(ns) == \A n \in ns : m[n] # 0

Tick ==
  /\ now < MaxTime /\ now' = now + 1
  /\ UNCHANGED <<database, job, writes, scope, client, top, hidden>>
-----------------------------------------------------------------------------
(* Writers.                                                                *)

(* A write request up to its mutation, its stamp taken: UpsertNodes and    *)
(* UpsertUserNode, which may create nodes, and UpdateEdges.  An uid that   *)
(* is to be minted is in one request only.                                 *)
BeginUpsert(w, ns, nested) ==
  /\ job[w].pc = "idle" /\ writes < MaxWrites /\ writes' = writes + 1
  /\ ns # {} /\ ns \intersect nested = {} /\ Exists(nested)
  /\ \A n \in ns, v \in Writers : m[n] = 0 => n \notin job[v].nodes
  /\ SetJob(w, [pc |-> "mutate", kind |-> "upsert", nodes |-> ns, nested |-> nested,
                at |-> now])
  /\ UNCHANGED <<now, database, scope, client, top, hidden>>

BeginEdges(w, kind, ns) ==
  /\ job[w].pc = "idle" /\ writes < MaxWrites /\ writes' = writes + 1
  /\ ns # {} /\ Exists(ns)
  /\ SetJob(w, [pc |-> "mutate", kind |-> kind, nodes |-> ns, nested |-> {}, at |-> now])
  /\ UNCHANGED <<now, database, scope, client, top, hidden>>

(* The nodes whose m the first mutation of a request sets: all it names,   *)
(* except in a removal, which updates no fields.  A variant forgets the    *)
(* edges that are added.                                                   *)
StampedUpsertsOnly(j) == IF j.kind = "upsert" THEN j.nodes ELSE {}

Stamped(j) == IF j.kind = "unlink" THEN {} ELSE j.nodes

(* The client's next query asks for everything.                            *)
Unseen(c) == wm[c] = 0 /\ sync[c].pc = "idle"

(* The latest time handed to the client apart from the m of nodes: its     *)
(* watermark, or the time of an empty first answer.                        *)
Handed(c) ==
  IF wm[c] = 0 /\ sync[c].pc = "answered" /\ sync[c].nodes = {}
  THEN sync[c].time ELSE wm[c]

(* A change of ns is committed, with m set to at for those in stamped; the *)
(* nodes in silent are changed by requests that do not set their m.  From  *)
(* now on the clients' queries find the nodes in to.                       *)
Change(ns, stamped, at, silent, to) ==
  /\ ver' = [n \in Nodes |-> IF n \in ns THEN ver[n] + 1 ELSE ver[n]]
  /\ m' = [n \in Nodes |-> IF n \in stamped THEN at ELSE m[n]]
  /\ top' = IF stamped # {} /\ at > top THEN at ELSE top
  /\ scope' = to
  /\ hidden' = [c \in Clients |->
       LET late  == at <= top \/ at <= Handed(c)
           timed == IF late THEN {} ELSE (ns \union stamped) \ silent
       IN IF Unseen(c) THEN {}
          ELSE (hidden[c] \union ns \union stamped \union (to[c] \ scope[c])) \ timed]

(* The mutation of a request.  Nodes and edges that are added, and changed *)
(* groups, permissions or types, bring nodes into a scope or take them     *)
(* out of it; removing edges only takes them out.                          *)
Mutate(w, to) ==
  /\ job[w].pc = "mutate"
  /\ LET j == job[w] IN
     /\ \A c \in Clients : \A n \in to[c] : m[n] # 0 \/ n \in Stamped(j)
     /\ j.kind = "unlink" => \A c \in Clients : to[c] \subseteq scope[c]
     /\ Change(j.nodes \union j.nested, Stamped(j), j.at,
               j.nested \union (IF j.kind = "unlink" THEN j.nodes ELSE {}), to)
     /\ SetJob(w, IF j.kind = "unlink" THEN [j EXCEPT !.pc = "touch", !.at = now]
                  ELSE IdleJob)
  /\ UNCHANGED <<now, writes, client>>

(* The second transaction of a removal: nothing but m.                     *)
MutateTimes(w) ==
  /\ job[w].pc = "touch"
  /\ Change({}, job[w].nodes, job[w].at, {}, scope)
  /\ SetJob(w, IdleJob)
  /\ UNCHANGED <<now, writes, client>>

(* Either transaction fails; the handler drops the error and answers.      *)
MutateFails(w) ==
  /\ job[w].pc # "idle"
  /\ SetJob(w, IdleJob)
  /\ UNCHANGED <<now, database, writes, scope, client, top, hidden>>

(* A share, its withdrawal, or a listing that primes the allowlist changes *)
(* what a client may read: no node is written (module Sharing).            *)
Rescope(c, ns) ==
  /\ Exists(ns) /\ ns # scope[c]
  /\ scope' = [scope EXCEPT ![c] = ns]
  /\ hidden' = [hidden EXCEPT ![c] = IF Unseen(c) THEN {} ELSE @ \union (ns \ scope[c])]
  /\ UNCHANGED <<now, database, job, writes, client, top>>
-----------------------------------------------------------------------------
(* Clients: syncScope of the guide.                                        *)

(* The query runs on a snapshot of the database: the traversal, the filter *)
(* of the caller and the filter on what it may read.                       *)
Selected(c) == {n \in scope[c] : wm[c] = 0 \/ m[n] > wm[c]}

Query(c) ==
  /\ sync[c].pc = "idle"
  /\ sync' = [sync EXCEPT ![c] = [pc |-> "queried", nodes |-> Selected(c),
                                 m |-> m, ver |-> ver, time |-> 0]]
  /\ UNCHANGED <<now, database, job, writes, scope, wm, cache, top, hidden>>

(* The answer is built from what the query returned: the clock is read,    *)
(* and packing drops nodes that the caller may no longer read.  What has   *)
(* been written since an empty first snapshot was stamped no later than    *)
(* the time of the answer.                                                 *)
Build(c, dropped) ==
  /\ sync[c].pc = "queried" /\ dropped \subseteq sync[c].nodes \ scope[c]
  /\ LET kept == sync[c].nodes \ dropped IN
     /\ sync' = [sync EXCEPT ![c].pc = "answered", ![c].nodes = kept, ![c].time = now]
     /\ hidden' = IF wm[c] = 0 /\ kept = {}
                  THEN [hidden EXCEPT ![c] = @ \union scope[c]] ELSE hidden
  /\ UNCHANGED <<now, database, job, writes, scope, wm, cache, top>>

(* The new watermark: the highest m received, or the server's time of the  *)
(* answer when a first synchronisation returned nothing.  Variants: the    *)
(* server's time always; a time rounded up, as by a conversion to Date.    *)
WatermarkOfClock(c) == sync[c].time

WatermarkRounded(c) ==
  IF sync[c].nodes = {} THEN sync[c].time
  ELSE 1 + CHOOSE t \in Times : /\ \E n \in sync[c].nodes : t = sync[c].m[n]
                                /\ \A n \in sync[c].nodes : sync[c].m[n] <= t

Watermark(c) ==
  LET received == {sync[c].m[n] : n \in sync[c].nodes}
  IN IF received # {} THEN CHOOSE t \in received : \A s \in received : s <= t
     ELSE IF wm[c] # 0 THEN wm[c] ELSE sync[c].time

(* The answer arrives.                                                     *)
Receive(c) ==
  /\ sync[c].pc = "answered"
  /\ cache' = [cache EXCEPT ![c] =
       [n \in Nodes |-> IF n \in sync[c].nodes THEN sync[c].ver[n] ELSE cache[c][n]]]
  /\ wm' = [wm EXCEPT ![c] = Watermark(c)]
  /\ sync' = [sync EXCEPT ![c] = NoSync]
  /\ UNCHANGED <<now, database, job, writes, scope, top, hidden>>

(* The request or its answer is lost, or the query fails.                  *)
Lose(c) ==
  /\ sync[c].pc # "idle"
  /\ sync' = [sync EXCEPT ![c] = NoSync]
  /\ hidden' = IF wm[c] = 0 THEN [hidden EXCEPT ![c] = {}] ELSE hidden
  /\ UNCHANGED <<now, database, job, writes, scope, wm, cache, top>>

Next ==
  \/ Tick
  \/ \E w \in Writers, ns, nested \in SUBSET Nodes : BeginUpsert(w, ns, nested)
  \/ \E w \in Writers, ns \in SUBSET Nodes, kind \in {"link", "unlink"} : BeginEdges(w, kind, ns)
  \/ \E w \in Writers, to \in [Clients -> SUBSET Nodes] : Mutate(w, to)
  \/ \E w \in Writers : MutateTimes(w) \/ MutateFails(w)
  \/ \E c \in Clients, ns \in SUBSET Nodes : Rescope(c, ns) \/ Build(c, ns)
  \/ \E c \in Clients : Query(c) \/ Receive(c) \/ Lose(c)

(* Fairness: a client keeps synchronising, and it is answered now and      *)
(* then.  Nothing is assumed of the writers.                               *)
Fairness ==
  \A c \in Clients :
    /\ WF_vars(Query(c)) /\ SF_vars(Receive(c))
    /\ SF_vars(\E ns \in SUBSET Nodes : Build(c, ns))

Spec == Init /\ [][Next]_vars /\ Fairness
-----------------------------------------------------------------------------
(* Properties.                                                             *)

TypeOK ==
  /\ now \in Times /\ top \in Times /\ writes \in 0 .. MaxWrites
  /\ m \in [Nodes -> Times] /\ ver \in [Nodes -> Nat]
  /\ job \in [Writers -> Job] /\ sync \in [Clients -> Sync]
  /\ scope \in [Clients -> SUBSET Nodes]
  /\ wm \in [Clients -> Times]
  /\ cache \in [Clients -> [Nodes -> Nat]]
  /\ hidden \in [Clients -> SUBSET Nodes]

(* What a watermark taken from the data can skip is in hidden and nothing  *)
(* else: a node in the client's scope that it holds in an old version is   *)
(* in its next query, unless the node's last change, or its entry into the *)
(* scope, came without an m later than any committed or handed out before. *)
NothingElseSkipped ==
  \A c \in Clients : \A n \in scope[c] :
    cache[c][n] # ver[n] /\ n \notin hidden[c]
      => wm[c] = 0 \/ m[n] > wm[c]

(* A change reaches every client that keeps synchronising, unless it is    *)
(* hidden from it or the node leaves its scope.                            *)
ChangesArrive ==
  \A c \in Clients, n \in Nodes :
    n \in scope[c] /\ cache[c][n] # ver[n]
      ~> (cache[c][n] = ver[n] \/ n \in hidden[c] \/ n \notin scope[c])
=============================================================================
